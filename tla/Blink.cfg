CONSTANTS
    Blocks = {b1, b2, b3}
    NULL = NULL
    Wild = Wild
    Locations = {0, 1}
    BadLocation = 2000
    OnLengths = {2}
    OffLengths = {1}
    Width = 3

SPECIFICATION Spec
CHECK_DEADLOCK TRUE
INVARIANTS ListSound ScreenFollows 
