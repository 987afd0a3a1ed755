SPECIFICATION FairControllerSpec
CONSTANTS
  Nil = Nil
  Specs <- OneSpec
  MaxTime = 4
  Configured = TRUE
  UpgradeWindow = 1
  InitialVersion = 1
  NumWorkers = 1
PROPERTY StartsWithinWindow
