CONSTANTS
  kb = kb
  A = A
  B = B
  Keys = {ka1, ka2, ka3, kb}
  Buckets = {A, B}
  Hash <- HashDef
  NNode = 3
  Nodes <- NodesDef
  Reserved = 0
  Clients = {c1, c2}
  Shared = FALSE
  Bypass = TRUE
  Ops = {"load"}
  NoKey = NoKey
  Nil = Nil
SPECIFICATION Spec
PROPERTIES RefinesTable
SYMMETRY Symmetry
