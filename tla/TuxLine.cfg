SPECIFICATION LineSpec
CONSTANTS
  TUXCTL_BUFSIZE = 5
  PACKET_ROOM = 5
  MAX_BYTES = 10
  MAX_LOST = 2
INVARIANTS PacketsInOrder FramesTell WholePacketsHandled
