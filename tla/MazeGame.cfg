CONSTANTS
    BLOCK_X_DIM = 3
    BLOCK_Y_DIM = 2
    IMAGE_X_DIM = 12
    IMAGE_Y_DIM = 7
    BarHeight = 1
    SHOW_MIN = 1
    PAN_BORDER = 1
    MAZE_MAX_X_DIM = 2
    MAZE_MAX_Y_DIM = 2
    MAX_LEVEL = 2
    MaxTicks = 1
    Open <- MCOpen
    Fruits <- MCFruits
    Exit <- MCExit
    Buttons = {128}
    Keys = {"escape", "bracket", "down", "left", "backquote"}

SPECIFICATION Spec
CHECK_DEADLOCK FALSE
INVARIANTS OnTrack ViewFollows
PROPERTIES PressTaken GameEnds
