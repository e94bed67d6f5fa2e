CONSTANTS
  Item = {a, b, c}
  Null = Null
  Cap = 4
SPECIFICATION Spec
INVARIANTS TypeOK SlotsMatch
PROPERTIES FifoImplemented
