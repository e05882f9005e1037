SPECIFICATION Spec
CONSTANTS
  N_LEDS = 4
  Times = {83}
  Buttons = {"left"}
  TUXCTL_BUFSIZE = 8
  DRIVER_ROOM = 14
  MAX_UNDERWAY = 1
  MAX_RESETS = 1
  MAX_DROPS = 1
INVARIANTS CommandsWhole LedsFollow ButtonsFollow
PROPERTIES BusyEnds
