CONSTANTS
    BLOCK_X_DIM = 2
    BLOCK_Y_DIM = 2
    IMAGE_X_DIM = 4
    IMAGE_Y_DIM = 6
    BarHeight = 1
    SHOW_MIN = 1
    PAN_BORDER = 0
    MAZE_MAX_X_DIM = 2
    MAZE_MAX_Y_DIM = 2
    GOD_MODE = TRUE
    FruitTypes = {1}
    Spots <- MCSpots
    ExtraBytes = 2
    MEM_FENCE_WIDTH = 1
    MEM_FENCE_MAGIC = Magic
    Zero = Zero
    MAX_LEVEL = 2
    MaxTicks = 1
    PlayerMask <- MCMask
    TextPixels <- MCText
    TextLeft = 1
    TextUp = 1
    TextTop = 1

SPECIFICATION Spec
CHECK_DEADLOCK FALSE
INVARIANTS BufferShowsMaze WindowInBuffer
PROPERTY FrameShowsGame
