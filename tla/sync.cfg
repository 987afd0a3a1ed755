\* One policy in OCM that changes at any time, or none for the LOCAL provider, and failing calls.
SPECIFICATION Spec
CONSTANTS
    Sources = {"OCM", "LOCAL"}
    MaxPolicies = 1
    States = {"scheduled", "cancelled"}
    Times = {1}
    Releases = {17, 18}
    ChannelGroup = "eus"
    WatchInterval = 3
    MaxWait = 5
    MaxFaults = 1
INVARIANT WaitFollowsFailures
PROPERTIES PolicyReachesCluster LocalKeepsRunning
\* StartSync returns if it has no metrics client, and a completed UpgradeConfig stays.
CHECK_DEADLOCK FALSE
