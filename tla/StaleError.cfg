CONSTANTS
  Addr = {1, 2}
  Req = {r1}
  MaxObjects = 2
  MaxForwardersPerBackend = 1
  MaxForwarders = 1
  LeastWeight = FALSE
  Shuffle = TRUE
SPECIFICATION Spec
PROPERTIES NeverRedispatchClosed
