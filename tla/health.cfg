\* A trouble of both checks of the nodes, one that is never reset, and one that holds the
\* upgrade back, with the feature gate.
SPECIFICATION Spec
CONSTANTS
    Possible = {"criticalAlerts", "nodeQuery", "pdbConfiguration"}
    PreHealthCheck = TRUE
    CapacityReservation = TRUE
    HasDvo = TRUE
    MaxFaults = 1
INVARIANTS PassedIsZero FoundIsOne
PROPERTY HealthyProceeds
