CONSTANTS
  MaxStream = 1
  FRAME_WORKERS = 2
  QUEUE_SIZE = 2
  WireCap = 1
  Data <- Talk
  Leaves <- FirstClient
  Faults = {}
SPECIFICATION SFairSpec
PROPERTIES CloseEnds
CHECK_DEADLOCK FALSE
