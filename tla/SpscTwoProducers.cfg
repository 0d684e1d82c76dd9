CONSTANTS
  Producers = {p1, p2}
  Values = {a, b}
  Capacity = 3
  MaxPush = 3
  Empty = Empty
SPECIFICATION Spec
INVARIANTS FifoOrder
CHECK_DEADLOCK FALSE
