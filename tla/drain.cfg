\* One node with a pod of each kind.  The strategies for its budget come first, 0 + 1 < 2,
\* or last, 2 < 2 + 1.
SPECIFICATION Spec
CONSTANTS
    w1 = w1 plain = plain guarded = guarded spared = spared
    front = front tier = tier budget = budget
    Workers = {w1}
    Pods <- ThreePods
    Home <- AllOnOne
    DaemonSetPods = {spared}
    IgnoredPods = {}
    Labels <- PodLabels
    PDBs = {budget}
    MatchLabels <- ByLabels
    TimeOut = 2
    ExpectedNodeDrainTime = 1
    GracePeriods = {0, 2}
    MaxAge = 5
    DisableDrainStrategies = FALSE
    CapacityReservation = TRUE
    Finalized = {plain, guarded}
    MaxFaults = 1
PROPERTIES FailsAfterLast PodsGo GaugeSettles UpgradeCompletes
