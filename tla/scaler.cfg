SPECIFICATION ScalerSpec
CONSTANTS
  WorkerSets <- Workers
  ExtraMachinePools = TRUE
  ExtraPoolSets <- ExtraPools
  ScaleTimeout = 1
INVARIANT RemovedStaysRemoved
PROPERTY ScalingEnds
CHECK_DEADLOCK FALSE
