---------------------------- MODULE HealthChecks ----------------------------
(***************************************************************************)
(* The health checks before and after an upgrade: their queries one after  *)
(* the other, on a cluster whose troubles come and go between them, the    *)
(* gauge upgradeoperator_healthcheck_failed with its labels, and what the  *)
(* upgrade makes of the outcome.  The steps of the upgrade between the     *)
(* checks are left out here (UpgradeRun has them).                         *)
(***************************************************************************)
EXTENDS Naturals, Sequences, FiniteSets

CONSTANTS
    Possible,            \* the troubles that can occur, by the reason they are reported as
    PreHealthCheck,      \* the feature gate of this name is enabled
    CapacityReservation, \* of the UpgradeConfig
    HasDvo,              \* the upgrader has a client of the deployment validation operator
    MaxFaults            \* bound: notifications that cannot be sent, updates that fail

\* What each check looks at, by the reason it reports, in this order: the first trouble is
\* the one reported.
CriticalAlerts == <<"metricsQuery", "criticalAlerts">>

ClusterOperators == <<"operatorsQuery", "degraded">>

CanScale == <<"machinePool">>

ManuallyCordonedNodes == <<"nodeQuery", "cordoned">>

NodeUnschedulableTaints == <<"nodeQuery", "tainted">>

checkPodDisruptionBudgets == <<"pdbQuery", "pdbConfiguration">>

checkDvoMetrics == <<"dvoClient", "dvoQuery", "invalidPdb">>

Looks == [
    alerts    |-> CriticalAlerts,
    operators |-> ClusterOperators,
    capacity  |-> CanScale,
    cordoned  |-> ManuallyCordonedNodes,
    taints    |-> NodeUnschedulableTaints,
    pdb       |-> checkPodDisruptionBudgets \o checkDvoMetrics]

Checks == DOMAIN Looks
ReasonsOf(c) == {Looks[c][i] : i \in DOMAIN Looks[c]}
Reasons == UNION {ReasonsOf(c) : c \in Checks}

ASSUME HealthAssumption ==
    /\ Possible \subseteq Reasons /\ MaxFaults \in Nat
    /\ PreHealthCheck \in BOOLEAN /\ CapacityReservation \in BOOLEAN /\ HasDvo \in BOOLEAN

VARIABLES
    trouble,  \* what is wrong with the cluster
    phase,    \* the phase of the UpgradeConfig
    version,  \* the release of the cluster, a label of the gauge
    commenced,\* the ClusterVersion has been asked for the upgrade
    call,     \* the checks that are still to be made, none outside a health check
    label,    \* of this health check, or of the last: <<phase, version>>
    report,   \* what its checks found: pairs of a check and a reason, or "ok"
    gauge,    \* the labels <<reason, phase, version>> whose value is 1
    faults

vars == <<trouble, phase, version, commenced, call, label, report, gauge, faults>>

Idle == <<"idle">>

Init ==
    /\ trouble \in SUBSET Possible
    /\ phase = "New" /\ version = "old" /\ commenced = FALSE
    /\ call = Idle /\ label = <<"New", "old">> /\ report = {} /\ gauge = {}
    /\ faults = 0

Fault == faults < MaxFaults /\ faults' = faults + 1

--------------------------------------------------------------------------------

Legacy == <<"alerts", "operators">>

\* With the feature gate all the checks are made, whatever the first ones find.
PreChecks ==
    IF ~PreHealthCheck THEN Legacy
    ELSE Legacy \o (IF CapacityReservation THEN <<"capacity">> ELSE <<>>)
                \o <<"cordoned", "taints", "pdb">>

Found(c) == {i \in DOMAIN Looks[c] : Looks[c][i] \in trouble}

FirstFound(c) == Looks[c][CHOOSE i \in Found(c) : \A j \in Found(c) : i <= j]

Label(r) == <<r, label[1], label[2]>>

\* Faulty variant: only the reason that was looked at last.
ClearsLast(c) == {Looks[c][Len(Looks[c])]}

\* Faulty variant: the whole gauge is reset.
ClearsAll(c) == Reasons

\* The reasons whose gauge is set to 0 by a check that passes.
Clears(c) == IF c = "pdb" THEN {"invalidPdb"} ELSE ReasonsOf(c)

\* Without a client for the deployment validation operator the reconcile panics, and is
\* retried as after an error.
Panics(c) == c = "pdb" /\ ~HasDvo /\ {"pdbQuery", "pdbConfiguration"} \cap trouble = {}

\* One check, with its queries: since troubles change between any two checks, a check whose
\* queries see different troubles ends like one that sees only the first it reports.  The
\* gauge is set for the first trouble, or cleared.
Check ==
    /\ call # Idle /\ call # <<>>
    /\ LET c == Head(call) IN
       IF Panics(c)
       THEN call' = Idle /\ UNCHANGED <<gauge, report>>
       ELSE \/ /\ Found(c) # {}
               /\ gauge' = gauge \cup {Label(FirstFound(c))}
               /\ report' = report \cup {<<c, FirstFound(c)>>}
               /\ call' = IF PreHealthCheck /\ version = "old" THEN Tail(call) ELSE <<>>
            \/ /\ Found(c) = {}
               /\ gauge' = gauge \ {Label(r) : r \in Clears(c)}
               /\ report' = report \cup {<<c, "ok">>}
               /\ call' = Tail(call)
    /\ UNCHANGED <<trouble, phase, version, commenced, label, faults>>

\* getCurrentVersion: the version is "unknown" if the ClusterVersion cannot be read.
Begin(checks) ==
    /\ call = Idle /\ call' = checks /\ report' = {}
    /\ \/ label' = <<phase, version>> /\ UNCHANGED faults
       \/ label' = <<phase, "unknown">> /\ Fault
    /\ UNCHANGED <<trouble, phase, version, commenced, gauge>>

Done == call = <<>> /\ call' = Idle

Failed == {f[1] : f \in {g \in report : g[2] # "ok"}}

--------------------------------------------------------------------------------
\* Where the checks are made.

\* Reconcile of an UpgradeConfig that is New: with the feature gate, and if there is time
\* enough, the checks are made.
CheckInAdvance ==
    /\ phase = "New" /\ PreHealthCheck
    /\ Begin(PreChecks)

SkipInAdvance ==
    /\ call = Idle /\ phase = "New"
    /\ phase' = "Pending"
    /\ UNCHANGED <<trouble, version, commenced, call, label, report, gauge, faults>>

\* The outcome is notified, or that fails and is logged, and the UpgradeConfig becomes
\* Pending.  If that update fails it is still New, and the checks may be made again.
AdvanceDone ==
    /\ phase = "New" /\ Done
    /\ \/ phase' = "Pending" /\ UNCHANGED faults
       \/ Fault /\ UNCHANGED phase
    /\ UNCHANGED <<trouble, version, commenced, label, report, gauge>>

TimeComes ==
    /\ call = Idle /\ phase = "Pending" /\ phase' = "Upgrading"
    /\ UNCHANGED <<trouble, version, commenced, call, label, report, gauge, faults>>

PreUpgradeHealthCheck ==
    /\ phase = "Upgrading" /\ ~commenced
    /\ Begin(PreChecks)

\* Faulty variant: any failed check holds the upgrade back.
HoldsBackAny == Failed # {}

\* Critical alerts and degraded operators hold the upgrade back, the other checks do not.
HoldsBack == {"alerts", "operators"} \cap Failed # {}

\* The steps after the check may not be through yet: then all of them, this one included,
\* are repeated by the next reconcile.
PreUpgradeDone ==
    /\ phase = "Upgrading" /\ version = "old" /\ Done
    /\ commenced' \in {FALSE, ~HoldsBack}
    /\ UNCHANGED <<trouble, phase, version, label, report, gauge, faults>>

\* With the feature gate the failure is notified first; if that fails so does the check.
NotifyResultFails ==
    /\ phase = "Upgrading" /\ version = "old" /\ PreHealthCheck /\ Failed # {} /\ Done
    /\ Fault
    /\ UNCHANGED <<trouble, phase, version, commenced, label, report, gauge>>

Upgrade ==
    /\ call = Idle /\ commenced /\ version = "old" /\ version' = "new"
    /\ UNCHANGED <<trouble, phase, commenced, call, label, report, gauge, faults>>

PostUpgradeHealthCheck ==
    /\ phase = "Upgrading" /\ version = "new"
    /\ Begin(Legacy)

PostUpgradeDone ==
    /\ version = "new" /\ Done
    /\ phase' = IF Failed = {} THEN "Upgraded" ELSE phase
    /\ UNCHANGED <<trouble, version, commenced, label, report, gauge, faults>>

\* Troubles come and go.
Change ==
    /\ \E r \in Possible : trouble' = IF r \in trouble THEN trouble \ {r} ELSE trouble \cup {r}
    /\ UNCHANGED <<phase, version, commenced, call, label, report, gauge, faults>>

Next ==
    \/ Check \/ CheckInAdvance \/ SkipInAdvance \/ AdvanceDone \/ TimeComes
    \/ PreUpgradeHealthCheck \/ PreUpgradeDone \/ NotifyResultFails \/ Upgrade
    \/ PostUpgradeHealthCheck \/ PostUpgradeDone \/ Change

SafetySpec == Init /\ [][Next]_vars

\* Reconciles come again and again, and the time of the upgrade comes.  The other steps are
\* not held up for ever once the check has passed again and again.
Spec ==
    /\ SafetySpec
    /\ WF_vars(Next /\ trouble' = trouble)
    /\ SF_vars(PreUpgradeDone /\ commenced')

--------------------------------------------------------------------------------

\* The reasons that the check of the budgets sets and never resets: it resets the gauge of
\* its last reason only.
NeverReset == {"pdbQuery", "pdbConfiguration", "dvoClient", "dvoQuery"}

\* A check that passed leaves no reason of its own at 1, under the labels of its health
\* check, from whatever health check before, but for those four and for what another check
\* of the same health check found (UpdateMetricHealthcheckSucceeded in the checks).
PassedIsZero ==
    \A c \in Checks : <<c, "ok">> \in report =>
        \A r \in ReasonsOf(c) \ NeverReset : Label(r) \in gauge => \E d \in Checks : <<d, r>> \in report

\* Whatever a check found is still 1 in the gauge when the later checks have been made, but
\* for a failed list of the nodes that the check of the taints, whose list did not fail,
\* resets (ClusterNodeQueryFailed in both checks of the nodes).
FoundIsOne ==
    \A c \in Checks : \A r \in ReasonsOf(c) : <<c, r>> \in report =>
        \/ Label(r) \in gauge
        \/ c = "cordoned" /\ r = "nodeQuery" /\ <<"taints", "ok">> \in report

\* If there is an end to critical alerts and degraded operators the upgrade is carried
\* through (the window of the upgrade does not close here, see UpgradeRun), whatever else is
\* wrong with the cluster and although notifications fail.
HealthyProceeds ==
    <>[](trouble \cap {"metricsQuery", "criticalAlerts", "operatorsQuery", "degraded"} = {})
        => <>(phase = "Upgraded")

=============================================================================
