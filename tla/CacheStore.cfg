CONSTANTS
  p1 = p1
  p2 = p2
  k1 = k1
  k2 = k2
  k3 = k3
  l1 = l1
  l2 = l2
  l3 = l3
  d1 = d1
  d2 = d2
  Procs = {p1, p2}
  Loads = {l1, l2}
  Dumps = {d1, d2}
  ProcOf <- ProcOfDef
  MaxShards = 2
  Scenarios <- Meetings
  Keys = {k1, k2, k3}
  OnDisk = {k1, k2}
  Nodes = {1, 2}
  ReservedNodes = {}
  Bypass = FALSE
  WaitingDepth = 1
  RunningDepth = 1
  None = None
  NoKey = NoKey
SPECIFICATION FairSpec
INVARIANTS FaultsStayLocal DiskCorrect NoCopyAfterReturn EvictionSafe HandlesCounted
PROPERTIES EveryWaitReturns DumpDurable
CHECK_DEADLOCK FALSE
