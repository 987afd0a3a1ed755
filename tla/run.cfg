SPECIFICATION Spec
CONSTANTS
  WorkerSets <- Workers
  ExtraMachinePools = FALSE
  ExtraPoolSets = {}
  ScaleTimeout = 0
  Nodes = 1
  ControlPlaneDuration = 1
  PDBDrainTimeout = 0
  NodeDrainTimeout = 0
  ExpectedDrainTime = 1
  IgnoredCriticals = FALSE
  StepList <- OSDSteps
  WindowTimeOut = 1
  MaxFaults = 1
  MaxJoins = 1
  MaxAttempts = 2

INVARIANTS NothingLeftBehind NoAlarmLeft FailedNeverCommenced
PROPERTIES CapacityKept UpgradeEnds
CHECK_DEADLOCK FALSE
