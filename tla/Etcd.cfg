CONSTANTS
  Caller = {c1, c2}
  N = 3
  MaxFaults = 1
SPECIFICATION Spec
SYMMETRY Symmetry
INVARIANTS ETypeOK Reached
PROPERTIES ImplementsRequests
