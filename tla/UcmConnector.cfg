SPECIFICATION Spec
CONSTANTS
  Setups <- ConnectorSetups
INVARIANTS
  OutputRight
  StoredRightUnlessFailed
  DispatchAligned
PROPERTIES
  ClearedIsStored
  HeldIsFreed

