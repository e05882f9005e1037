CONSTANTS
    BLOCK_X_DIM = 3
    BLOCK_Y_DIM = 3
    IMAGE_X_DIM = 8
    IMAGE_Y_DIM = 9
    BarHeight = 1
    SHOW_MIN = 1
    PAN_BORDER = 0
    MAZE_MAX_X_DIM = 3
    MAZE_MAX_Y_DIM = 2
    GOD_MODE = TRUE
    FruitTypes = {1, 2}
    Spots <- MCSpots
    XDim = 3
    YDim = 2
    StartFruits = 2
    ScanBelow = 3
    MaxTrials = 2

SPECIFICATION MakerSpec
CHECK_DEADLOCK FALSE
INVARIANTS CountsRight MazeMade ConnectEnds
