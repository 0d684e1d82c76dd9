SPECIFICATION Spec
CONSTANTS
  Setups <- ResumeOnLocalHit
INVARIANTS StoredRightUnlessFailed
