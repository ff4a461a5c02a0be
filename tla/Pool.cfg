CONSTANTS
  Backend = {b1, b2, b3, b4, b5, b6}
  Limit = 2
  MaxTotal = 3
SPECIFICATION Spec
SYMMETRY Symmetry
INVARIANTS TypeOK IndexExact HeapOrder
PROPERTIES ImplementsPrioritySet
