CONSTANTS
  MaxStream = 2
  FRAME_WORKERS = 2
  QUEUE_SIZE = 2
  WireCap = 1
  Data <- Talk
  Leaves <- First
  Faults = {"switch", "dial", "agent", "director"}
SPECIFICATION SFairSpec
INVARIANTS STypeOK InOrder WireReadable
  
CHECK_DEADLOCK FALSE
