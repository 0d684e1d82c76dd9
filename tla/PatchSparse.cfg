CONSTANTS
  HybridSetups <- Nothing
  LayoutSetups <- Nothing
  HitSetups <- Nothing
  SparseSetups <- Nothing
  GsaSetups <- Nothing
  BlendSetups <- Nothing
  MindieSetups <- Nothing
  MooncakeSetups <- Nothing
  SglangSetups <- Nothing
  PipelineSetups <- Nothing
  PosixSetups <- Nothing
  BreakerSetups <- Nothing
  MetricsSetups <- Nothing
  StartSetups <- Nothing
  CpuSetups <- Nothing
  PatchSetups <- SparseSwitchedOn
SPECIFICATION ServicesSpec
INVARIANTS RecoveryReady
