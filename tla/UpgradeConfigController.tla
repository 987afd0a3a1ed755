------------------------ MODULE UpgradeConfigController ------------------------
(***************************************************************************)
(* The UpgradeConfig controller: it takes one UpgradeConfig from New over  *)
(* Pending and Upgrading to Upgraded or Failed, and the cluster with it.   *)
(*                                                                         *)
(* One Reconcile is several steps here, cut where it calls the API server  *)
(* after having worked on what it read before: reconcile is the place it   *)
(* has reached.  The upgrade steps of the OSD and ARO upgraders are kept   *)
(* to the ones that decide about the ClusterVersion and the phase; any     *)
(* other step may stop the run (StepStops).                                *)
(***************************************************************************)
EXTENDS UpgradeConfigManager

CONSTANTS
    UpgradeWindow,   \* upgradeWindow.timeOut of the ConfigMap, 0 switches it off
    InitialVersion,  \* the version the cluster was installed with
    NumWorkers       \* MachineCount of the worker MachineConfigPool

ASSUME ControllerAssumption ==
    /\ UpgradeWindow \in Nat
    /\ InitialVersion \in Versions
    /\ NumWorkers \in Nat

ReconcileSteps ==
    {"idle", "history", "phase", "refresh", "upgrade", "steps", "controlplane",
     "workers", "record"}

VARIABLES
    reconcile,   \* where Reconcile is
    outcome,     \* the phase UpgradeCluster returned, "None" before
    seenVersion, \* current version in the ClusterVersion Reconcile has read
    cv,          \* the ClusterVersion: spec.desiredUpdate, Nil until somebody has
                 \* set it, the completed versions, and the latest of them
    pool         \* the worker MachineConfigPool: rendered version, updated machines

recVars == <<reconcile, outcome, seenVersion>>
clusterVars == <<cv, pool>>

ControllerTypeOK ==
    /\ reconcile \in ReconcileSteps
    /\ outcome \in {"None", "Upgrading", "Upgraded", "Failed"}
    /\ seenVersion \in Versions \cup {Nil}
    /\ cv \in [desired : Versions \cup {Nil}, completed : SUBSET Versions, latest : Versions]
    /\ pool \in [version : Versions, updated : 0..NumWorkers]

ControllerInit ==
    /\ reconcile = "idle"
    /\ outcome = "None"
    /\ seenVersion = Nil
    /\ cv \in [desired : {Nil, InitialVersion}, completed : {{InitialVersion}},
               latest : {InitialVersion}]
    /\ pool = [version |-> InitialVersion, updated |-> NumWorkers]

instance == held["reconciler"]

\* HasUpgradeCommenced, for a version and channel: the ClusterVersion asks for it.
HasUpgradeCommenced(s) == cv.desired = s.version

\* HasUpgradeCompleted: the ClusterVersion history lists it as completed.
HasUpgradeCompleted(s) == s.version \in cv.completed

\* GetCurrentVersion: of the completed versions the one completed last.
GetCurrentVersion == cv.latest

\* IsUpgrading(worker): some machine of the pool is not updated.
IsUpgrading == pool.updated # NumWorkers

\* The version the cluster is at or on its way to.
clusterTarget == IF cv.desired = Nil THEN InitialVersion ELSE cv.desired

\* What is listed as available or conditional update: the update graph has edges
\* to later versions only.
IsAvailableUpdate(v) == v > clusterTarget

\* EnsureDesiredConfig, when the update is listed and the patches are accepted.
EnsureDesiredConfig(s) ==
    /\ IsAvailableUpdate(s.version)
    /\ cv' = [cv EXCEPT !.desired = s.version]

\* IsReadyToUpgrade: the time has come.  That the window is over (IsBreached) is
\* computed and not used.
IsReady(s) == now > s.upgradeAt

\* shouldFailUpgrade
ShouldFailUpgrade(obj) ==
    /\ obj.spec.type = "OSD"
    /\ ~HasUpgradeCommenced(obj.spec)
    /\ UpgradeWindow > 0
    /\ now > obj.startTime + UpgradeWindow

--------------------------------------------------------------------------------

Goto(step) ==
    /\ reconcile' = step
    /\ UNCHANGED <<outcome, seenVersion>>

\* Reconcile returns: its local variables are gone.
Finish ==
    /\ reconcile' = "idle"
    /\ outcome' = "None"
    /\ seenVersion' = Nil

\* Get the UpgradeConfig and the ClusterVersion.  Without an UpgradeConfig only
\* metrics are reset.
ReconcileGet ==
    /\ reconcile = "idle"
    /\ GetUC("reconciler")
    /\ reconcile' = IF uc.phase = "Unknown" THEN "history" ELSE "phase"
    /\ seenVersion' = GetCurrentVersion
    /\ UNCHANGED <<outcome, policy, mgrVars, clusterVars>>

\* Faulty variants: the ClusterVersion is not looked at; no start time is set.
InitialHistoryNew(obj) == [obj EXCEPT !.phase = "New"]

InitialHistoryWithoutStart(obj) ==
    [obj EXCEPT !.phase = IF HasUpgradeCommenced(obj.spec) THEN "Upgrading" ELSE "New"]

\* The first history entry: Upgrading when the ClusterVersion asks for the
\* version already, New otherwise.
InitialHistory(obj) ==
    IF HasUpgradeCommenced(obj.spec)
      THEN [obj EXCEPT !.phase = "Upgrading", !.startTime = now]
      ELSE [obj EXCEPT !.phase = "New"]

ReconcileHistory ==
    /\ reconcile = "history"
    /\ UpdateStatus("reconciler", InitialHistory(instance))
    /\ Goto("phase")
    /\ UNCHANGED <<policy, mgrVars, clusterVars>>

\* New: the early health check blocks nothing; the phase becomes Pending.
ReconcileNew ==
    /\ reconcile = "phase"
    /\ instance.phase = "New"
    /\ UpdateStatusAndReturn("reconciler", [instance EXCEPT !.phase = "Pending"], FALSE)
    /\ Finish
    /\ UNCHANGED <<policy, mgrVars, clusterVars>>

\* Only a later version than the current one is an upgrade.
VersionValidation(s) == s.version > seenVersion

\* Pending, but the UpgradeConfig is rejected: by its version, or because the update
\* is not listed, or because Cincinnati does not answer.
ReconcileRejected ==
    /\ reconcile = "phase"
    /\ instance.phase = "Pending"
    /\ DropUC("reconciler")
    /\ Finish
    /\ UNCHANGED <<policy, mgrVars, clusterVars>>

\* Pending, and the time has not come: the phase is written back as it was.
ReconcileWait ==
    /\ reconcile = "phase"
    /\ instance.phase = "Pending"
    /\ VersionValidation(instance.spec)
    /\ ~IsReady(instance.spec)
    /\ UpdateStatusAndReturn("reconciler", instance, FALSE)
    /\ Finish
    /\ UNCHANGED <<policy, mgrVars, clusterVars>>

\* Faulty variant: no Refresh, as if it had found no change.
ReconcileReadyUnrefreshed ==
    /\ reconcile = "phase"
    /\ instance.phase = "Pending"
    /\ VersionValidation(instance.spec)
    /\ IsReady(instance.spec)
    /\ Goto("refresh")
    /\ Continue("reconciler", "unchanged")
    /\ UNCHANGED <<crVars, policy, seen, target, answers, clusterVars>>

\* Pending and ready: one last Refresh.
ReconcileReady ==
    /\ reconcile = "phase"
    /\ instance.phase = "Pending"
    /\ VersionValidation(instance.spec)
    /\ IsReady(instance.spec)
    /\ Goto("refresh")
    /\ Continue("reconciler", "get")
    /\ UNCHANGED <<crVars, policy, seen, target, answers, clusterVars>>

\* Refresh reports a change: the phase of the instance goes back to New, if the
\* write is not refused.
ReconcileRemoteChanged ==
    /\ reconcile = "refresh"
    /\ refresh["reconciler"] = "changed"
    /\ IF "reconciler" \in current
         THEN UpdateStatusAndReturn("reconciler", [instance EXCEPT !.phase = "New"], FALSE)
         ELSE DropUC("reconciler")
    /\ Finish
    /\ Continue("reconciler", "idle")
    /\ UNCHANGED <<policy, seen, target, answers, clusterVars>>

\* Refresh reports no change, or no provider: the upgrade begins.
ReconcileStart ==
    /\ reconcile = "refresh"
    /\ refresh["reconciler"] = "unchanged"
    /\ UpdateStatus("reconciler",
                    [instance EXCEPT !.phase = "Upgrading", !.startTime = now])
    /\ Goto("upgrade")
    /\ Continue("reconciler", "idle")
    /\ UNCHANGED <<policy, seen, target, answers, clusterVars>>

\* Refresh fails, or the write that begins the upgrade is refused.
ReconcileRefreshFailed ==
    /\ reconcile = "refresh"
    /\ \/ refresh["reconciler"] = "failed"
       \/ refresh["reconciler"] = "unchanged" /\ "reconciler" \notin current
    /\ DropUC("reconciler")
    /\ Finish
    /\ Continue("reconciler", "idle")
    /\ UNCHANGED <<policy, seen, target, answers, clusterVars>>

ReconcileUpgrading ==
    /\ reconcile = "phase"
    /\ instance.phase = "Upgrading"
    /\ Goto("upgrade")
    /\ UNCHANGED <<crVars, policy, mgrVars, clusterVars>>

\* Upgraded reports metrics, Failed does nothing.
ReconcileDone ==
    /\ reconcile = "phase"
    /\ instance.phase \in {"Upgraded", "Failed"}
    /\ DropUC("reconciler")
    /\ Finish
    /\ UNCHANGED <<policy, mgrVars, clusterVars>>

\* A status write of Reconcile that is refused, and any other error it returns
\* before or while it writes.
ReconcileError ==
    /\ reconcile \in {"history", "phase", "record"}
    /\ DropUC("reconciler")
    /\ Finish
    /\ UNCHANGED <<policy, mgrVars, clusterVars>>

--------------------------------------------------------------------------------

UpgradeReturns(phase) ==
    /\ reconcile' = "record"
    /\ outcome' = phase
    /\ UNCHANGED <<seenVersion, crVars, policy, mgrVars>>

\* performUpgradeFailure: the phase stays as it is while the extra machines cannot
\* be torn down or the failure cannot be notified.
PerformUpgradeFailure ==
    /\ reconcile = "upgrade"
    /\ ShouldFailUpgrade(instance)
    /\ \E phase \in {instance.phase, "Failed"} : UpgradeReturns(phase)
    /\ UNCHANGED clusterVars

\* The steps run when the upgrade should not fail, and also when that cannot be
\* told: an error of shouldFailUpgrade is ignored.
RunSteps ==
    /\ reconcile = "upgrade"
    /\ Goto("steps")
    /\ UNCHANGED <<crVars, policy, mgrVars, clusterVars>>

\* The ClusterVersion is set, unless it is set already.
CommenceUpgrade ==
    /\ reconcile = "steps"
    /\ IF HasUpgradeCommenced(instance.spec)
         THEN UNCHANGED cv
         ELSE EnsureDesiredConfig(instance.spec)
    /\ Goto("controlplane")
    /\ UNCHANGED <<crVars, policy, mgrVars, pool>>

\* A step is not done or returns an error: the following ones do not run.
StepStops ==
    /\ reconcile \in {"steps", "controlplane", "workers"}
    /\ UpgradeReturns("Upgrading")
    /\ UNCHANGED clusterVars

ControlPlaneUpgraded ==
    /\ reconcile = "controlplane"
    /\ HasUpgradeCompleted(instance.spec)
    /\ Goto("workers")
    /\ UNCHANGED <<crVars, policy, mgrVars, clusterVars>>

\* Faulty variant: the workers are not waited for.
AllWorkersUpgradedEarly ==
    /\ reconcile = "workers"
    /\ UpgradeReturns("Upgraded")
    /\ UNCHANGED clusterVars

\* The workers are upgraded, and the steps after that are done.
AllWorkersUpgraded ==
    /\ reconcile = "workers"
    /\ ~IsUpgrading
    /\ UpgradeReturns("Upgraded")
    /\ UNCHANGED clusterVars

\* upgradeCluster records the phase UpgradeCluster returned.
RecordPhase(obj) ==
    [obj EXCEPT !.phase = outcome,
                !.completeTime = IF outcome = "Upgraded" THEN now ELSE @]

ReconcileRecord ==
    /\ reconcile = "record"
    /\ \E touched \in BOOLEAN :
          UpdateStatusAndReturn("reconciler", RecordPhase(instance), touched)
    /\ Finish
    /\ UNCHANGED <<policy, mgrVars, clusterVars>>

Reconcile ==
    \/ ReconcileGet
    \/ ReconcileHistory
    \/ ReconcileNew
    \/ ReconcileRejected
    \/ ReconcileWait
    \/ ReconcileReady
    \/ ReconcileRemoteChanged
    \/ ReconcileStart
    \/ ReconcileRefreshFailed
    \/ ReconcileUpgrading
    \/ ReconcileDone
    \/ ReconcileError
    \/ PerformUpgradeFailure
    \/ RunSteps
    \/ CommenceUpgrade
    \/ StepStops
    \/ ControlPlaneUpgraded
    \/ AllWorkersUpgraded
    \/ ReconcileRecord

--------------------------------------------------------------------------------

\* The machine config operator renders the workers' configuration for a new
\* desired version: no machine has it yet.
RenderPool ==
    /\ pool.version < clusterTarget
    /\ pool' = [version |-> clusterTarget, updated |-> 0]
    /\ UNCHANGED <<crVars, policy, mgrVars, recVars, cv>>

UpdateMachine ==
    /\ pool.updated < NumWorkers
    /\ pool' = [pool EXCEPT !.updated = @ + 1]
    /\ UNCHANGED <<crVars, policy, mgrVars, recVars, cv>>

\* The cluster version operator has brought the control plane to the desired
\* version, the machine config operator with it.
CompleteControlPlane ==
    /\ pool.version = clusterTarget
    /\ clusterTarget \notin cv.completed
    /\ cv' = [cv EXCEPT !.completed = @ \cup {clusterTarget}, !.latest = clusterTarget]
    /\ UNCHANGED <<crVars, policy, mgrVars, recVars, pool>>

Cluster == RenderPool \/ UpdateMachine \/ CompleteControlPlane

--------------------------------------------------------------------------------

(***************************************************************************)
(* The controller and the manager together, without the other controllers. *)
(***************************************************************************)

controllerVars == <<crVars, now, policy, mgrVars, recVars, clusterVars>>

ControllerNext ==
    \/ Reconcile /\ UNCHANGED now
    \/ (\E p \in Refreshers : Refresh(p)) /\ UNCHANGED <<now, recVars, clusterVars>>
    \/ (ChangePolicy \/ AdminCreate \/ AdminDelete) /\ UNCHANGED <<now, recVars, clusterVars>>
    \/ Cluster /\ UNCHANGED now
    \/ Tick /\ UNCHANGED <<policy, mgrVars, recVars, clusterVars>>

ControllerSpecInit == CRInit /\ ManagerInit /\ ControllerInit

ControllerSpec == ControllerSpecInit /\ [][ControllerNext]_controllerVars

\* Reconcile runs again and again: a reconcile that returns an error is retried,
\* an upgrade under way is requeued every minute, and the manager's resync brings
\* back every UpgradeConfig.  Time passes, and the cluster does the work it is
\* given.  The calls Reconcile makes may fail, and its writes be refused, any
\* number of times but not forever; of the steps before the upgrade commences
\* nothing is assumed.
ControllerFairness ==
    /\ WF_controllerVars(Tick /\ UNCHANGED <<policy, mgrVars, recVars, clusterVars>>)
    /\ WF_controllerVars(Cluster /\ UNCHANGED now)
    /\ WF_controllerVars(Reconcile /\ UNCHANGED now)
    /\ SF_controllerVars(ReconcileUpgrading /\ UNCHANGED now)
    /\ SF_controllerVars(PerformUpgradeFailure /\ outcome' = "Failed" /\ UNCHANGED now)
    /\ SF_controllerVars(CommenceUpgrade /\ cv' = cv /\ UNCHANGED now)
    /\ SF_controllerVars(ControlPlaneUpgraded /\ UNCHANGED now)
    /\ SF_controllerVars(AllWorkersUpgraded /\ UNCHANGED now)
    /\ \A phase \in {"Upgraded", "Failed"} :
          SF_controllerVars(outcome = phase /\ ReconcileRecord /\ UNCHANGED now)

FairControllerSpec == ControllerSpec /\ ControllerFairness

--------------------------------------------------------------------------------

\* The kill switch.  With a provider, the ClusterVersion is only ever asked for a
\* version that the provider named to a Refresh of the reconciler (and not just
\* to the goroutine) in a specification whose time has come, whatever was
\* created by hand or replaced in between (Reconcile, case Pending: the Refresh
\* before the phase becomes Upgrading).
KillSwitch ==
    Configured /\ cv.desired \notin {Nil, InitialVersion}
        => \E s \in answers : s.version = cv.desired /\ s.upgradeAt < now

\* "If CVO is currently set to the version of the UC, then we need to be in an
\* Upgrading phase, at minimum" (Reconcile), and "If the upgrade has commenced,
\* there's no going back" (shouldFailUpgrade): an UpgradeConfig whose version the
\* ClusterVersion asks for is neither waiting nor failed.
CommencedIsUpgrading ==
    uc # Nil /\ HasUpgradeCommenced(uc.spec)
        => uc.phase \in {"Unknown", "Upgrading", "Upgraded"}

\* Upgraded is only recorded of a cluster whose control plane completed the
\* version and whose workers are all updated to it (Run, upgradeCluster).
UpgradedIsUpgraded ==
    uc # Nil /\ uc.phase = "Upgraded"
        => /\ HasUpgradeCompleted(uc.spec)
           /\ pool.version = uc.spec.version => ~IsUpgrading

\* The timestamps Reconcile dereferences are there: the start time in
\* shouldFailUpgrade and UpgradeDelayedCheck, the start and completion times when
\* an Upgraded UpgradeConfig is reported.
TimestampsPresent ==
    /\ reconcile \in {"upgrade", "steps", "controlplane", "workers", "record"}
           => instance.startTime # Nil
    /\ reconcile = "phase" /\ instance.phase = "Upgraded"
           => instance.startTime # Nil /\ instance.completeTime # Nil

\* When Refresh reports a change to the reconciler, the instance it works on has
\* been removed or replaced, so the phase New it then writes is always refused and
\* the reconcile is retried (Reconcile, remoteChanged).
RemoteChangeIsRefused ==
    refresh["reconciler"] = "changed" => "reconciler" \notin current

PhaseRank ==
    [Unknown |-> 0, New |-> 1, Pending |-> 2, Upgrading |-> 3, Upgraded |-> 4, Failed |-> 4]

\* The phase of an UpgradeConfig never goes back, and Upgraded and Failed are
\* final: a reconcile that works on an old copy cannot undo what was recorded
\* since (every Status().Update of the controllers).
PhaseForward ==
    [][uc # Nil /\ uc' # Nil /\ uc'.phase # uc.phase
          => PhaseRank[uc'.phase] > PhaseRank[uc.phase]]_controllerVars

\* "The upgrade start time is checked to see if the current time falls within the
\* upgrade window" (docs/controllers/upgradeconfig.md): a Pending upgrade begins
\* only before its window is over.
StartsWithinWindow ==
    [][uc # Nil /\ uc' # Nil /\ uc.phase = "Pending" /\ uc'.phase = "Upgrading"
          => now <= uc.spec.upgradeAt + UpgradeWindow]_controllerVars

================================================================================
