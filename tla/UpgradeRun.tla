-------------------------------- MODULE UpgradeRun --------------------------------
(***************************************************************************)
(* An upgrade as its steps carry it out: the step list of the upgrader     *)
(* over the scaler, the maintenance windows, the ClusterVersion and the    *)
(* worker pool.  Every reconcile runs the list from its first step; a run  *)
(* ends at the first step that does not pass, and may end anywhere when    *)
(* the process stops.  The cluster goes on between any two steps.          *)
(***************************************************************************)
EXTENDS Scaler, Maintenance, Sequences

CONSTANTS
    StepList,      \* the conditions of the steps, in order
    WindowTimeOut, \* upgradeWindow.timeOut; 0 for an upgrader without the policy
    MaxFaults,     \* failed calls, failed later checks, and stops of the process
    MaxJoins,      \* workers that come back not updated
    MaxAttempts    \* UpgradeConfigs for this version

ASSUME UpgradeRunAssumption ==
    {WindowTimeOut, MaxFaults, MaxJoins, MaxAttempts} \subseteq Nat

\* What the step lists of both upgraders have in common: these steps are there, and the
\* first of each pair comes before the second.
RequiredSteps == {"ControlPlaneUpgraded", "RemoveControlPlaneMaintWindow", "AllWorkerNodesUpgraded",
    "RemoveExtraScaledNodes", "RemoveMaintWindow"}

StepPairs == {<<"ControlPlaneUpgraded", "AllWorkerNodesUpgraded">>,
    <<"AllWorkerNodesUpgraded", "RemoveExtraScaledNodes">>,
    <<"ScaleUpExtraNodes", "RemoveExtraScaledNodes">>,
    <<"ControlPlaneMaintWindow", "RemoveControlPlaneMaintWindow">>,
    <<"WorkersMaintWindow", "RemoveMaintWindow">>}

Precedes(s, t) == \A i, j \in DOMAIN StepList : StepList[i] = s /\ StepList[j] = t => i < j

ASSUME StepListAssumption ==
    /\ StepList \in Seq(STRING)
    /\ \A s \in RequiredSteps : \E i \in DOMAIN StepList : StepList[i] = s
    /\ \A pair \in StepPairs : Precedes(pair[1], pair[2])

VARIABLES
    phase,      \* of the UpgradeConfig
    capacityReservation, \* of its spec
    at,         \* the step a run has come to, 0 between runs
    cluster,    \* "before"; "commenced": the ClusterVersion has the version; "updated"
    pending,    \* the workers that are not updated
    poolDone,   \* whether all workers have been updated since the control plane was
    elapsed,    \* the time since the upgrade started, up to the first past the window
    alarms,     \* the failure gauges that are set
    faults, joins, attempts

runVars == <<phase, capacityReservation, at, cluster, pending, poolDone, elapsed, alarms, faults, joins, attempts>>
vars == <<scalerVars, silence, runVars>>
systemVars == <<capacityReservation, cluster, pending, poolDone, elapsed, joins, attempts>>

Alarms == {"scaling", "controlPlaneTimeout", "workerTimeout", "windowBreached", "nodeDrain"}

Init ==
    /\ ScalerInit
    /\ MaintenanceInit
    /\ phase = "upgrading"
    /\ capacityReservation \in BOOLEAN
    /\ at = 0
    /\ cluster = "before"
    /\ pending = 0
    /\ poolDone = FALSE
    /\ elapsed = 0
    /\ alarms = {}
    /\ faults = 0 /\ joins = 0 /\ attempts = 1

--------------------------------------------------------------------------------
\* The runner.

commenced == cluster # "before"

Step(s) == at # 0 /\ StepList[at] = s

NoFault == faults' = faults
Fault == faults < MaxFaults /\ faults' = faults + 1

Pass ==
    /\ IF at = Len(StepList) THEN at' = 0 /\ phase' = "upgraded" ELSE at' = at + 1 /\ phase' = phase
    /\ NoFault

Stop == at' = 0 /\ phase' = phase

\* Faulty variant: an upgrade that has commenced fails too.
ShouldFailAnyUpgrade == WindowTimeOut > 0 /\ elapsed > WindowTimeOut

shouldFailUpgrade ==
    /\ ~commenced
    /\ WindowTimeOut > 0
    /\ elapsed > WindowTimeOut

\* performUpgradeFailure: the extra sets are deleted without a drain.  The upgrade
\* fails once that and the notification have succeeded; the nodes may still be there.
performUpgradeFailure ==
    /\ at = 0 /\ phase = "upgrading"
    /\ shouldFailUpgrade
    /\ \E res \in ScaleDownResults \ {"draintimeout"} :
        /\ EnsureScaleDownNodes(TRUE, res)
        /\ \/ /\ res # "error" /\ NoFault
              /\ phase' = "failed"
              /\ alarms' = {"windowBreached"}
           \/ /\ Fault
              /\ UNCHANGED <<phase, alarms>>
    /\ UNCHANGED <<scaleResult, silence, systemVars, at>>

\* UpgradeCluster: an error met in deciding whether to fail is dropped, and the steps
\* are run.
UpgradeCluster ==
    /\ at = 0 /\ phase = "upgrading"
    /\ \/ ~shouldFailUpgrade /\ NoFault
       \/ shouldFailUpgrade /\ Fault
    /\ at' = 1
    /\ UNCHANGED <<scalerVars, silence, systemVars, phase, alarms>>

\* A call of any step fails, or the process stops.
Stopped ==
    /\ at # 0
    /\ Stop /\ Fault
    /\ UNCHANGED <<scalerVars, silence, systemVars, alarms>>

--------------------------------------------------------------------------------
\* The steps.

EarlyChecks == {"SendStartedNotification", "IsClusterUpgradable", "PreHealthCheck", "ExternalDependencyAvailabilityCheck"}
LateChecks == {"PostClusterHealthCheck", "PostUpgradeProcedures", "SendCompletedNotification"}

\* Faulty variant: a check still holds up an upgrade that has commenced.
EarlyCheckAlways(s) ==
    /\ Step(s)
    /\ \/ Pass
       \/ Stop /\ NoFault
    /\ UNCHANGED <<scalerVars, silence, systemVars, alarms>>

\* The steps that may hold the upgrade up, for as long as they like, until it commences.
EarlyCheck(s) ==
    /\ Step(s)
    /\ \/ Pass
       \/ ~commenced /\ Stop /\ NoFault
    /\ UNCHANGED <<scalerVars, silence, systemVars, alarms>>

LateCheck(s) ==
    /\ Step(s)
    /\ Pass
    /\ alarms' = IF s = "PostClusterHealthCheck" THEN alarms \ {"nodeDrain"} ELSE alarms
    /\ UNCHANGED <<scalerVars, silence, systemVars>>

SkipScaling == ~capacityReservation \/ (~CanScale /\ ~ExtraMachinePools)

EnsureExtraUpgradeWorkers ==
    /\ Step("ScaleUpExtraNodes")
    /\ \/ /\ SkipScaling \/ commenced
          /\ Pass
          /\ UNCHANGED <<scalerVars, alarms>>
       \/ /\ ~SkipScaling /\ ~commenced
          /\ \E res \in ScaleUpResults :
              /\ EnsureScaleUpNodes(res)
              /\ CASE res = "ready" -> Pass /\ alarms' = alarms \ {"scaling"}
                   [] res = "timeout" -> (Pass \/ (Stop /\ Fault)) /\ alarms' = alarms \cup {"scaling"}
                   [] res = "error" -> Stop /\ (Fault \/ (NoFault /\ Originals = {})) /\ alarms' = alarms
                   [] OTHER -> Stop /\ NoFault /\ alarms' = alarms
          /\ UNCHANGED scaleResult
    /\ UNCHANGED <<silence, systemVars>>

CreateControlPlaneMaintWindow ==
    /\ Step("ControlPlaneMaintWindow")
    /\ \/ StartControlPlane(FALSE) /\ Pass
       \/ StartControlPlane(TRUE) /\ Stop /\ Fault
    /\ UNCHANGED <<scalerVars, systemVars, alarms>>

\* CommenceUpgrade waits until the update is offered.  The answer to the patch of the
\* ClusterVersion may be lost.
CommenceUpgrade ==
    /\ Step("CommenceUpgrade")
    /\ alarms' = alarms \ {"windowBreached"}
    /\ \/ commenced /\ Pass /\ UNCHANGED cluster
       \/ ~commenced /\ cluster' = "commenced" /\ (Pass \/ (Stop /\ Fault))
       \/ ~commenced /\ Stop /\ NoFault /\ UNCHANGED cluster
    /\ UNCHANGED <<scalerVars, silence, capacityReservation, pending, poolDone, elapsed, joins, attempts>>

ControlPlaneUpgraded ==
    /\ Step("ControlPlaneUpgraded")
    /\ \/ cluster = "updated" /\ Pass /\ alarms' = alarms \ {"controlPlaneTimeout"}
       \/ cluster # "updated" /\ Stop /\ NoFault /\ alarms' \in {alarms, alarms \cup {"controlPlaneTimeout"}}
    /\ UNCHANGED <<scalerVars, silence, systemVars>>

RemoveControlPlaneMaintWindow ==
    /\ Step("RemoveControlPlaneMaintWindow")
    /\ \/ EndControlPlane(FALSE) /\ Pass
       \/ EndControlPlane(TRUE) /\ Stop /\ Fault
    /\ UNCHANGED <<scalerVars, systemVars, alarms>>

CreateWorkerMaintWindow ==
    /\ Step("WorkersMaintWindow")
    /\ \/ pending = 0 /\ Pass /\ UNCHANGED silence
       \/ pending > 0 /\ SetWorker(pending, FALSE) /\ Pass
       \/ pending > 0 /\ SetWorker(pending, TRUE) /\ Stop /\ Fault
    /\ UNCHANGED <<scalerVars, systemVars, alarms>>

\* Faulty variants: the count of workers is not looked at; the gauge is not reset.
AllWorkersUpgradedKeepsAlarm ==
    /\ Step("AllWorkerNodesUpgraded")
    /\ \/ pending = 0 /\ Pass /\ alarms' = alarms
       \/ /\ pending > 0 /\ Stop /\ NoFault
          /\ alarms' = IF IsActive THEN alarms \ {"workerTimeout"} ELSE alarms \cup {"workerTimeout"}
    /\ UNCHANGED <<scalerVars, silence, systemVars>>

AllWorkersUpgradedAlways ==
    /\ Step("AllWorkerNodesUpgraded")
    /\ Pass /\ alarms' = alarms \ {"workerTimeout"}
    /\ UNCHANGED <<scalerVars, silence, systemVars>>

AllWorkersUpgraded ==
    /\ Step("AllWorkerNodesUpgraded")
    /\ \/ pending = 0 /\ Pass /\ alarms' = alarms \ {"workerTimeout"}
       \/ /\ pending > 0 /\ Stop /\ NoFault
          /\ alarms' = IF IsActive THEN alarms \ {"workerTimeout"} ELSE alarms \cup {"workerTimeout"}
    /\ UNCHANGED <<scalerVars, silence, systemVars>>

RemoveExtraScaledNodes ==
    /\ Step("RemoveExtraScaledNodes")
    /\ \/ SkipScaling /\ Pass /\ UNCHANGED <<scalerVars, alarms>>
       \/ /\ ~SkipScaling
          /\ \E drained \in BOOLEAN, res \in ScaleDownResults :
              /\ EnsureScaleDownNodes(drained, res)
              /\ CASE res = "removed" -> Pass /\ alarms' = alarms \ {"nodeDrain"}
                   [] res = "terminating" -> Stop /\ NoFault /\ alarms' = alarms
                   [] res = "draintimeout" -> Stop /\ Fault /\ alarms' = alarms \cup {"nodeDrain"}
                   [] OTHER -> Stop /\ Fault /\ alarms' = alarms
          /\ UNCHANGED scaleResult
    /\ UNCHANGED <<silence, systemVars>>

RemoveMaintWindow ==
    /\ Step("RemoveMaintWindow")
    /\ \/ EndWorker(FALSE) /\ Pass
       \/ EndWorker(TRUE) /\ Stop /\ Fault
    /\ UNCHANGED <<scalerVars, systemVars, alarms>>

Operator ==
    \/ performUpgradeFailure
    \/ UpgradeCluster
    \/ \E s \in EarlyChecks : EarlyCheck(s)
    \/ EnsureExtraUpgradeWorkers
    \/ CreateControlPlaneMaintWindow
    \/ CommenceUpgrade
    \/ ControlPlaneUpgraded
    \/ RemoveControlPlaneMaintWindow
    \/ CreateWorkerMaintWindow
    \/ AllWorkersUpgraded
    \/ RemoveExtraScaledNodes
    \/ RemoveMaintWindow
    \/ \E s \in LateChecks : LateCheck(s)

--------------------------------------------------------------------------------
\* The cluster.

ControlPlaneDone ==
    /\ cluster = "commenced"
    /\ cluster' = "updated"
    /\ pending' = Nodes
    /\ UNCHANGED <<scalerVars, silence, phase, capacityReservation, at, poolDone, elapsed, alarms, faults, joins, attempts>>

WorkerUpdated ==
    /\ pending > 0
    /\ pending' = pending - 1
    /\ poolDone' = (poolDone \/ pending = 1)
    /\ UNCHANGED <<scalerVars, silence, phase, capacityReservation, at, cluster, elapsed, alarms, faults, joins, attempts>>

WorkerJoins ==
    /\ cluster = "updated" /\ phase = "upgrading"
    /\ pending < Nodes /\ joins < MaxJoins
    /\ pending' = pending + 1
    /\ joins' = joins + 1
    /\ UNCHANGED <<scalerVars, silence, phase, capacityReservation, at, cluster, poolDone, elapsed, alarms, faults, attempts>>

Tick ==
    /\ ScalerTick
    /\ SilencesTick
    /\ elapsed' = IF elapsed > WindowTimeOut THEN elapsed ELSE elapsed + 1
    /\ UNCHANGED <<phase, capacityReservation, at, cluster, pending, poolDone, alarms, faults, joins, attempts>>

MachineStep == MachineAPI /\ UNCHANGED <<silence, runVars>>

RetentionEnds == (\E c \in Comments : Forget(c)) /\ UNCHANGED <<scalerVars, runVars>>

\* The failed UpgradeConfig is replaced by one for the same version.
TryAgain ==
    /\ phase = "failed" /\ attempts < MaxAttempts
    /\ phase' = "upgrading" /\ attempts' = attempts + 1 /\ elapsed' = 0
    /\ capacityReservation' \in BOOLEAN
    /\ alarms' = {}
    /\ UNCHANGED <<scalerVars, silence, at, cluster, pending, poolDone, faults, joins>>

Next ==
    \/ Operator \/ Stopped
    \/ ControlPlaneDone \/ WorkerUpdated \/ WorkerJoins
    \/ MachineStep \/ RetentionEnds \/ Tick \/ TryAgain

\* The UpgradeConfig is reconciled again and again; the cluster updates itself, and
\* removes the machines of deleted sets; time passes.  Nothing is assumed of the early
\* checks and of the extra nodes.
Fairness ==
    /\ WF_vars(Operator)
    /\ WF_vars(ControlPlaneDone)
    /\ WF_vars(WorkerUpdated)
    /\ WF_vars(Tick)
    /\ \A s \in Originals : WF_vars(MachineRemoved(s) /\ UNCHANGED <<silence, runVars>>)

SafetySpec == Init /\ [][Next]_vars

Spec == SafetySpec /\ Fairness

--------------------------------------------------------------------------------

\* An Upgraded cluster has no extra machine of this upgrade, no set that would make one
\* and no active silence, although each removal may fail and every run starts from the first step
\* again, which creates them (RemoveExtraScaledNodes, EndSilences).
NothingLeftBehind ==
    phase = "upgraded" =>
        /\ \A s \in Originals : mset[s] # "exists" /\ (capacityReservation => machine[s] = "none")
        /\ ~IsActive

\* An upgrade ends with the gauges of its troubles reset, in whatever run each of
\* them was set; only the one of the scaling stays.
NoAlarmLeft == phase = "upgraded" => alarms \subseteq {"scaling"}

\* The extra sets are not deleted under the workers: only after all workers have been
\* updated, or when the upgrade fails before it commenced (performUpgradeFailure,
\* AllWorkersUpgraded).
CapacityKept ==
    [][(\E s \in Originals : mset[s] = "exists" /\ mset'[s] = "deleting")
         => cluster = "before" \/ poolDone]_vars

\* A failed upgrade has not commenced and has no extra set: once the ClusterVersion has
\* the version there is no going back (shouldFailUpgrade, performUpgradeFailure).
FailedNeverCommenced ==
    phase = "failed" => ~commenced /\ \A s \in Originals : mset[s] # "exists"

\* However often the number of workers left changes and the replacement of the silence
\* fails, at most one worker silence is active (SetWorker).
OneWorkerSilence == Cardinality({n \in 1..Nodes : Active(Worker(n))}) <= 1

\* A started upgrade ends.  Before it commences, checks that never pass end it by the
\* window; after, no early check can hold it up (UpgradeCluster, HasUpgradeCommenced in
\* the steps).
UpgradeEnds == phase = "upgrading" ~> phase \in {"upgraded", "failed"}

================================================================================
