CONSTANTS
  Producers = {p1}
  Values = {a, b}
  Capacity = 3
  MaxPush = 5
  Empty = Empty
SPECIFICATION FairSpec
INVARIANTS FifoOrder NoSlotRace RingInv
PROPERTIES RefinesFifo EveryPushConsumed
CHECK_DEADLOCK FALSE
