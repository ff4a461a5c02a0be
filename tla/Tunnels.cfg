CONSTANTS
  Addr = {1, 2}
  Req = {r1, r2}
  MaxObjects = 2
  MaxForwardersPerBackend = 1
  MaxForwarders = 1
  LeastWeight = TRUE
  Shuffle = FALSE
  TunnelsPerBackend = 1
  MaxConn = 2
  MaxStream = 2
  ThreshStream = 0
  ChanCap = 1
  NilSession = TRUE
SPECIFICATION TFairSpec
INVARIANTS TTypeOK   PoolRegistered OneCreator ConnOwned SlotTended
  
\* The bound MaxObjects stops the status messages that would make new objects.
CHECK_DEADLOCK FALSE
