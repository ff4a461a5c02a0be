CONSTANTS
  Addr = {1, 2}
  Req = {r1, r2, r3}
  MaxObjects = 3
  MaxForwardersPerBackend = 2
  MaxForwarders = 2
  LeastWeight = FALSE
  Shuffle = TRUE
SPECIFICATION Spec
SYMMETRY Symmetry
INVARIANTS TypeOK IInv
PROPERTIES RefusedOnlyWhenSaturated ImplementsLoadBalancer
