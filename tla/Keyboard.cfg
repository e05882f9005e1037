SPECIFICATION KeyboardSpec
CONSTANTS
  MAX_TM = 2
  LINE_BUF_SIZE = 4
  NBYTES = {0, 1, 2, 3, 5}
  Chars = {"l", "L"}
  ScanCodes = {38, 14, 28, 42, 170, 29, 157, 56, 184, 59, 60}
  MaxKeys = 4
INVARIANTS LineBuffered EnteredLineDelivered PagesShowTerminals
PROPERTY EnteredLineTaken
