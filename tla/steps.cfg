SPECIFICATION Spec
CONSTANTS
  Steps <- OSDSteps
  FailurePolicy = TRUE
INVARIANTS UpgradedIsComplete StoppedWhereItSays CollectorTimes BlamesNoPassedStep
CHECK_DEADLOCK FALSE
