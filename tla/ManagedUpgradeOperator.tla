------------------------ MODULE ManagedUpgradeOperator -------------------------
(***************************************************************************)
(* The managed-upgrade-operator: the UpgradeConfig controller, the         *)
(* MachineConfigPool controller and the UpgradeConfig manager's goroutine, *)
(* in one process, on one UpgradeConfig, next to a provider, a cluster and *)
(* an administrator that do what they like.                                *)
(***************************************************************************)
EXTENDS MachineConfigPoolController

CONSTANT MaxCrashes   \* bound on restarts of the operator

ASSUME MaxCrashesAssumption == MaxCrashes \in Nat

VARIABLE crashes      \* restarts so far

vars == <<crVars, now, policy, mgrVars, recVars, clusterVars, machines, crashes>>

TypeOK ==
    /\ CRTypeOK
    /\ ManagerTypeOK
    /\ ControllerTypeOK
    /\ MCPTypeOK
    /\ crashes \in 0..MaxCrashes

Init ==
    /\ CRInit
    /\ ManagerInit
    /\ ControllerInit
    /\ MCPInit
    /\ crashes = 0

\* The operator is restarted: every reconcile and every Refresh under way is
\* forgotten, with the copies it held; the cluster's objects stay.
Crash ==
    /\ crashes < MaxCrashes
    /\ crashes' = crashes + 1
    /\ held' = [p \in Writers |-> Nil]
    /\ current' = {}
    /\ refresh' = [p \in Refreshers |-> IF p = "sync" THEN "get" ELSE "idle"]
    /\ seen' = [p \in Refreshers |-> Nil]
    /\ target' = [p \in Refreshers |-> Nil]
    /\ Finish
    /\ machines' = Nil
    /\ UNCHANGED <<uc, now, policy, answers, clusterVars>>

Next ==
    \/ /\ Reconcile
       /\ UNCHANGED <<now, machines, crashes>>
    \/ /\ \E p \in Refreshers : Refresh(p)
       /\ UNCHANGED <<now, recVars, clusterVars, machines, crashes>>
    \/ /\ MachineConfigPoolReconcile
       /\ UNCHANGED <<now, crashes>>
    \/ /\ ChangePolicy \/ AdminCreate \/ AdminDelete
       /\ UNCHANGED <<now, recVars, clusterVars, machines, crashes>>
    \/ /\ Cluster
       /\ UNCHANGED <<now, machines, crashes>>
    \/ /\ Tick
       /\ UNCHANGED <<policy, mgrVars, recVars, clusterVars, machines, crashes>>
    \/ Crash

Spec == Init /\ [][Next]_vars

--------------------------------------------------------------------------------

\* What is recorded about one upgrade is in order: it starts, its workers start,
\* its workers are complete, it is complete, though two controllers write these
\* times (upgradeCluster, and Reconcile of the MachineConfigPool controller).
TimesInOrder ==
    uc # Nil =>
        LET times == <<uc.startTime, uc.workerStartTime, uc.workerCompleteTime, uc.completeTime>>
        IN  \A i, j \in DOMAIN times :
                i < j /\ times[i] # Nil /\ times[j] # Nil => times[i] <= times[j]

--------------------------------------------------------------------------------

(***************************************************************************)
(* The inductive invariant behind these properties.                        *)
(***************************************************************************)

\* The timestamps an UpgradeConfig has in each phase.
WellFormed(obj) ==
    /\ obj.phase \in {"Unknown", "New", "Pending"} =>
          /\ obj.startTime = Nil
          /\ obj.completeTime = Nil
          /\ obj.workerStartTime = Nil
          /\ obj.workerCompleteTime = Nil
    /\ obj.phase \in {"Upgrading", "Failed"} => obj.startTime # Nil /\ obj.completeTime = Nil
    /\ obj.phase = "Upgraded" => obj.startTime # Nil /\ obj.completeTime # Nil
    /\ obj.workerCompleteTime # Nil => obj.workerStartTime # Nil

\* A timestamp a that is not after b, where both are set.
NotAfter(a, b) == a # Nil /\ b # Nil => a <= b

Ordered(obj) ==
    /\ NotAfter(obj.startTime, obj.workerStartTime)
    /\ NotAfter(obj.startTime, obj.workerCompleteTime)
    /\ NotAfter(obj.startTime, obj.completeTime)
    /\ NotAfter(obj.workerStartTime, obj.workerCompleteTime)
    /\ NotAfter(obj.workerStartTime, obj.completeTime)
    /\ NotAfter(obj.workerCompleteTime, obj.completeTime)
    /\ NotAfter(obj.startTime, now)
    /\ NotAfter(obj.workerStartTime, now)
    /\ NotAfter(obj.workerCompleteTime, now)
    /\ NotAfter(obj.completeTime, now)

ObjectInv ==
    /\ uc # Nil => WellFormed(uc) /\ Ordered(uc)
    /\ \A p \in Writers : held[p] # Nil => WellFormed(held[p])

\* Optimistic concurrency: a copy that a write would be accepted of is what is
\* stored.
CopyInv == \A p \in current : uc # Nil /\ held[p] = uc

\* What each place in Reconcile knows of the instance.  While Reconcile works on
\* one object nobody else gives a phase to another: the stored object is the
\* instance, or one that Reconcile has not seen yet.
ReconcileInv ==
    /\ reconcile = "idle" <=> held["reconciler"] = Nil
    /\ reconcile = "history" => instance.phase = "Unknown"
    /\ reconcile = "phase" => instance.phase # "Unknown"
    /\ reconcile = "refresh" => instance.phase = "Pending" /\ IsReady(instance.spec)
    /\ reconcile \in {"upgrade", "steps", "controlplane", "workers", "record"}
           => instance.phase = "Upgrading"
    /\ reconcile # "idle" /\ uc # Nil =>
           \/ uc.phase = "Unknown"
           \/ uc.phase = instance.phase /\ uc.spec = instance.spec

MCPInv == held["mcp"] # Nil => machines # Nil /\ held["mcp"].phase = "Upgrading"

\* What Refresh knows at each call, and what its result says of the instance.
RefreshInv ==
    /\ reconcile # "refresh" => refresh["reconciler"] = "idle"
    /\ \A p \in Refreshers : refresh[p] \in {"confirm", "create"} => target[p] # Nil
    /\ refresh["reconciler"] = "pull" /\ "reconciler" \in current
           => seen["reconciler"] = instance.spec
    /\ refresh["reconciler"] \in {"confirm", "create", "changed"}
           => "reconciler" \notin current
    /\ refresh["reconciler"] = "unchanged" /\ "reconciler" \in current /\ Configured
           => instance.spec \in answers

\* The provider has named the version to the kill switch in time, if it had to.
Licensed(v) ==
    Configured /\ v \notin {Nil, InitialVersion}
        => \E s \in answers : s.version = v /\ s.upgradeAt < now

LicenceInv ==
    /\ Licensed(cv.desired)
    /\ uc # Nil /\ uc.phase = "Upgrading" => Licensed(uc.spec.version)
    /\ held["reconciler"] # Nil /\ instance.phase = "Upgrading"
           => Licensed(instance.spec.version)

ClusterInv ==
    /\ InitialVersion <= clusterTarget
    /\ pool.version <= clusterTarget
    /\ \A v \in cv.completed : v <= pool.version

\* What UpgradeCluster has found out holds until it is recorded.
OutcomeInv ==
    /\ reconcile = "record" <=> outcome # "None"
    /\ reconcile \in {"controlplane", "workers"} => HasUpgradeCommenced(instance.spec)
    /\ reconcile = "workers" => HasUpgradeCompleted(instance.spec)
    /\ outcome = "Failed" => ~HasUpgradeCommenced(instance.spec)
    /\ outcome = "Upgraded" =>
          /\ HasUpgradeCommenced(instance.spec)
          /\ HasUpgradeCompleted(instance.spec)
          /\ pool.version = instance.spec.version => ~IsUpgrading

\* Everything the components rely on of each other: copies, refreshes and
\* outcomes that are still true when they are used (Reconcile, Refresh and the
\* MachineConfigPool Reconcile, each between its calls).
OperatorInv ==
    /\ TypeOK
    /\ ObjectInv
    /\ CopyInv
    /\ ReconcileInv
    /\ MCPInv
    /\ RefreshInv
    /\ LicenceInv
    /\ ClusterInv
    /\ OutcomeInv
    /\ CommencedIsUpgrading
    /\ UpgradedIsUpgraded

--------------------------------------------------------------------------------

\* The refinement mapping: of the UpgradeConfig, what was asked for and how far it
\* is.
upgrade == IF uc = Nil THEN Nil ELSE [spec |-> uc.spec, phase |-> uc.phase]

ASSUME NilUpgradeAssumption == Nil \notin [spec : Specs, phase : Phases]

Lifecycle ==
    INSTANCE UpgradeLifecycle
    WITH upgrade <- upgrade, asked <- cv.desired, confirmed <- answers

\* The operator, with its concurrent controllers, its restarts and everything its
\* surroundings do, behaves like the abstract life cycle of an upgrade.
ImplementsLifecycle == Lifecycle!LifecycleSpec

================================================================================
