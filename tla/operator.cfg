SPECIFICATION Spec
CONSTANTS
  Nil = Nil
  Specs <- OneSpec
  MaxTime = 3
  Configured = TRUE
  UpgradeWindow = 1
  InitialVersion = 1
  NumWorkers = 2
  MaxCrashes = 1
INVARIANTS OperatorInv TimesInOrder KillSwitch CommencedIsUpgrading UpgradedIsUpgraded TimestampsPresent
PROPERTIES PhaseForward ImplementsLifecycle
