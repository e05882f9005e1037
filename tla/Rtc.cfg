SPECIFICATION RtcSpec
CONSTANTS
  Procs = {p1, p2}
  MAX_FREQ = 4
  Freqs = {2, 4}
  WIDTH = 8
  MaxFds = 2
INVARIANTS VirtualPeriod
PROPERTY ReadReturns
