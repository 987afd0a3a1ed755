SPECIFICATION Spec
CONSTANTS
  Nil = Nil
  Specs <- WithCurrentVersion
  MaxTime = 3
  Configured = FALSE
  UpgradeWindow = 1
  InitialVersion = 1
  NumWorkers = 1
  MaxCrashes = 0
PROPERTY ImplementsLifecycle
