\* Descriptors and video pages: two terminals, so that one is in the
\* background, one child, and two descriptors beyond stdin and stdout.
CONSTANTS
  MAX_PROC = 3
  MAX_TM = 2
  N_FILES = 4
  FileTypes = {"rtc", "reg"}
  Calls = {"execute", "halt", "open", "close", "vidmap", "switch"}
  EarlyCommands = FALSE
SPECIFICATION Spec
INVARIANTS
  VideoUsersMapped
  RtcTickedOnlyIfOpen
