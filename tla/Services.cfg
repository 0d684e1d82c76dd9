CONSTANTS
  HybridSetups <- HybridSets
  LayoutSetups <- LayoutSets
  HitSetups <- HitSets
  SparseSetups <- SparseSets
  GsaSetups <- GsaSets
  BlendSetups <- BlendSets
  MindieSetups <- MindieSets
  MooncakeSetups <- MooncakeSets
  SglangSetups <- SglangSets
  PipelineSetups <- PipeSets
  PosixSetups <- PosixSets
  BreakerSetups <- BreakerSets
  MetricsSetups <- MetricsSets
  StartSetups <- StartSets
  CpuSetups <- CpuSets
  PatchSetups <- PatchSets
SPECIFICATION ServicesSpec
INVARIANTS
  HybridRight LayoutExact HitRight
  SparseRight GsaRight BlendRight
  MindieRight MooncakeRight SglangRight PipelineRight PosixRight BreakerRight
  MetricsRight StartRight CoresRight PatchesInForce
