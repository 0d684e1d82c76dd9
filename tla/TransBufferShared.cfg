CONSTANTS
  kb = kb
  A = A
  B = B
  Keys = {ka1, ka2, kb}
  Buckets = {A, B}
  Hash <- HashDef
  NNode = 2
  Nodes <- NodesDef
  Reserved = 1
  Clients = {c1, c2, c3}
  Shared = TRUE
  Bypass = FALSE
  Ops = {"load", "dump", "exist"}
  NoKey = NoKey
  Nil = Nil
SPECIFICATION Spec
INVARIANTS ChainsConsistent ReserveKept NoLockDeadlock
PROPERTIES RefinesTable
SYMMETRY Symmetry
