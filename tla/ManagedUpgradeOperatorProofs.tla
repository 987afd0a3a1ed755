--------------------- MODULE ManagedUpgradeOperatorProofs ----------------------
(***************************************************************************)
(* Proofs about the operator, for all specifications, bounds and sizes.    *)
(*                                                                         *)
(* OperatorInv is inductive.  One lemma per action shows that the action   *)
(* preserves it, with a step for the types, one for each conjunct the      *)
(* action disturbs and one for the conjuncts about variables it leaves     *)
(* alone.  The safety properties of the controllers follow from it, and    *)
(* so does the refinement of UpgradeLifecycle: the steps that change the   *)
(* stored UpgradeConfig, the desired update or the provider's answers are  *)
(* steps of the abstract life cycle, all others are none.                  *)
(***************************************************************************)
EXTENDS ManagedUpgradeOperator, TLAPS

USE NilAssumption, SpecsAssumption, MaxTimeAssumption, ControllerAssumption,
    MaxCrashesAssumption
USE DEF OperatorInv, TypeOK, CRTypeOK, ManagerTypeOK, ControllerTypeOK, MCPTypeOK,
        Writers, Refreshers, ReconcileSteps, RefreshSteps, RefreshResults, Versions,
        UpgradeConfigSpec, crVars, mgrVars, recVars, clusterVars, instance

--------------------------------------------------------------------------------

\* A conjunct of the invariant survives a step that leaves its variables alone.
LEMMA Frame ==
    /\ ObjectInv /\ UNCHANGED <<uc, held, now>> => ObjectInv'
    /\ CopyInv /\ UNCHANGED <<uc, held, current>> => CopyInv'
    /\ ReconcileInv /\ UNCHANGED <<uc, held, now, reconcile>> => ReconcileInv'
    /\ MCPInv /\ UNCHANGED <<held, machines>> => MCPInv'
    /\ RefreshInv /\ UNCHANGED <<held, current, reconcile, refresh, seen, target, answers>>
           => RefreshInv'
    /\ LicenceInv /\ UNCHANGED <<uc, held, now, answers, cv>> => LicenceInv'
    /\ ClusterInv /\ UNCHANGED <<cv, pool>> => ClusterInv'
    /\ OutcomeInv /\ UNCHANGED <<held, reconcile, outcome, cv, pool>> => OutcomeInv'
    /\ CommencedIsUpgrading /\ UNCHANGED <<uc, cv>> => CommencedIsUpgrading'
    /\ UpgradedIsUpgraded /\ UNCHANGED <<uc, cv, pool>> => UpgradedIsUpgraded'
<1>1. ObjectInv /\ UNCHANGED <<uc, held, now>> => ObjectInv'
  BY DEF ObjectInv, WellFormed, Ordered, NotAfter
<1>2. CopyInv /\ UNCHANGED <<uc, held, current>> => CopyInv'
  BY DEF CopyInv
<1>3. ReconcileInv /\ UNCHANGED <<uc, held, now, reconcile>> => ReconcileInv'
  BY DEF ReconcileInv, IsReady
<1>4. MCPInv /\ UNCHANGED <<held, machines>> => MCPInv'
  BY DEF MCPInv
<1>5. RefreshInv /\ UNCHANGED <<held, current, reconcile, refresh, seen, target, answers>>
          => RefreshInv'
  BY DEF RefreshInv
<1>6. LicenceInv /\ UNCHANGED <<uc, held, now, answers, cv>> => LicenceInv'
  BY DEF LicenceInv, Licensed
<1>7. ClusterInv /\ UNCHANGED <<cv, pool>> => ClusterInv'
  BY DEF ClusterInv, clusterTarget
<1>8. OutcomeInv /\ UNCHANGED <<held, reconcile, outcome, cv, pool>> => OutcomeInv'
  BY DEF OutcomeInv, HasUpgradeCommenced, HasUpgradeCompleted, IsUpgrading
<1>9. CommencedIsUpgrading /\ UNCHANGED <<uc, cv>> => CommencedIsUpgrading'
  BY DEF CommencedIsUpgrading, HasUpgradeCommenced
<1>10. UpgradedIsUpgraded /\ UNCHANGED <<uc, cv, pool>> => UpgradedIsUpgraded'
  BY DEF UpgradedIsUpgraded, HasUpgradeCompleted, IsUpgrading
<1> QED  BY <1>1, <1>2, <1>3, <1>4, <1>5, <1>6, <1>7, <1>8, <1>9, <1>10

\* A new object has its type, no phase and no times.
LEMMA NewObject ==
    ASSUME NEW s \in Specs
    PROVE  /\ NewUpgradeConfig(s) \in UpgradeConfig
           /\ NewUpgradeConfig(s).phase = "Unknown"
           /\ NewUpgradeConfig(s).startTime = Nil
           /\ NewUpgradeConfig(s).completeTime = Nil
           /\ NewUpgradeConfig(s).workerStartTime = Nil
           /\ NewUpgradeConfig(s).workerCompleteTime = Nil
BY DEF NewUpgradeConfig, UpgradeConfig, Phases, Times

\* Reconcile reads the UpgradeConfig: from then on its copy is the stored object
\* until somebody else writes.
LEMMA ReconcileGetInv ==
    ASSUME OperatorInv, ReconcileGet, UNCHANGED <<now, machines, crashes>>
    PROVE  OperatorInv'
<1>1. TypeOK'
  BY DEF ReconcileGet, GetUC, GetCurrentVersion
<1>2. ObjectInv'
  BY DEF ReconcileGet, GetUC, ObjectInv, WellFormed, Ordered, NotAfter
<1>3. CopyInv'
  BY DEF ReconcileGet, GetUC, CopyInv
<1>4. ReconcileInv'
  BY DEF ReconcileGet, GetUC, ReconcileInv, IsReady
<1>5. MCPInv'
  BY DEF ReconcileGet, GetUC, MCPInv
<1>6. RefreshInv'
  BY DEF ReconcileGet, GetUC, RefreshInv
<1>7. LicenceInv'
  BY DEF ReconcileGet, GetUC, LicenceInv, Licensed
<1>8. OutcomeInv'
  BY DEF ReconcileGet, GetUC, OutcomeInv, HasUpgradeCommenced, HasUpgradeCompleted,
         IsUpgrading
<1>9. ClusterInv' /\ CommencedIsUpgrading' /\ UpgradedIsUpgraded'
  BY Frame DEF ReconcileGet, GetUC
<1> HIDE DEF TypeOK
<1> QED  BY <1>1, <1>2, <1>3, <1>4, <1>5, <1>6, <1>7, <1>8, <1>9

\* Reconcile writes the first history entry, on an object nobody has touched
\* since.
LEMMA ReconcileHistoryInv ==
    ASSUME OperatorInv, ReconcileHistory, UNCHANGED <<now, machines, crashes>>
    PROVE  OperatorInv'
<1> DEFINE obj == InitialHistory(instance)
<1>a. /\ obj \in UpgradeConfig /\ obj.spec = uc.spec /\ uc # Nil /\ instance = uc
      /\ obj.phase \in {"New", "Upgrading"}
  <2>1. instance = uc /\ uc # Nil /\ uc \in UpgradeConfig /\ now \in Nat
    BY DEF ReconcileHistory, UpdateStatus, CopyInv
  <2> HIDE DEF OperatorInv
  <2> QED  BY <2>1 DEF InitialHistory, UpgradeConfig, Phases, Times
<1>b. /\ uc' = obj /\ held' = [held EXCEPT !["reconciler"] = obj]
      /\ current' = IF obj = uc THEN current ELSE {"reconciler"}
      /\ reconcile = "history" /\ reconcile' = "phase"
      /\ UNCHANGED <<outcome, seenVersion, policy, mgrVars, clusterVars>>
  BY DEF ReconcileHistory, UpdateStatus, Goto
<1> HIDE DEF obj
<1>1. TypeOK'
  BY <1>a, <1>b
<1>2. ObjectInv'
  BY DEF ReconcileHistory, UpdateStatus, InitialHistory, Goto, HasUpgradeCommenced,
         ObjectInv, WellFormed, Ordered, NotAfter, CopyInv, ReconcileInv, MCPInv
<1>3. CopyInv'
  BY <1>a, <1>b DEF CopyInv
<1>4. ReconcileInv'
  BY <1>a, <1>b DEF ReconcileInv
<1>5. MCPInv'
  BY DEF ReconcileHistory, UpdateStatus, InitialHistory, Goto, HasUpgradeCommenced,
         MCPInv
<1>6. RefreshInv'
  BY DEF ReconcileHistory, UpdateStatus, InitialHistory, Goto, HasUpgradeCommenced,
         RefreshInv
<1>7. LicenceInv'
  BY DEF ReconcileHistory, UpdateStatus, InitialHistory, Goto, HasUpgradeCommenced,
         LicenceInv, Licensed
<1>8. OutcomeInv'
  BY DEF ReconcileHistory, UpdateStatus, InitialHistory, Goto, HasUpgradeCommenced,
         OutcomeInv, HasUpgradeCompleted, IsUpgrading
<1>9. CommencedIsUpgrading'
  BY DEF ReconcileHistory, UpdateStatus, InitialHistory, Goto, HasUpgradeCommenced,
         CommencedIsUpgrading
<1>10. UpgradedIsUpgraded'
  BY DEF ReconcileHistory, UpdateStatus, InitialHistory, Goto, HasUpgradeCommenced,
         UpgradedIsUpgraded, HasUpgradeCompleted, IsUpgrading
<1>11. ClusterInv'
  BY Frame DEF ReconcileHistory, UpdateStatus, Goto
<1> HIDE DEF TypeOK
<1> QED  BY <1>1, <1>2, <1>3, <1>4, <1>5, <1>6, <1>7, <1>8, <1>9, <1>10, <1>11

\* Reconcile moves New to Pending.
LEMMA ReconcileNewInv ==
    ASSUME OperatorInv, ReconcileNew, UNCHANGED <<now, machines, crashes>>
    PROVE  OperatorInv'
<1>1. TypeOK'
  BY DEF ReconcileNew, UpdateStatusAndReturn, Finish, UpgradeConfig, Phases, Times,
         CopyInv, ReconcileInv, RefreshInv
<1>2. ObjectInv'
  BY DEF ReconcileNew, UpdateStatusAndReturn, Finish, ObjectInv, WellFormed, Ordered,
         NotAfter, CopyInv, ReconcileInv, MCPInv
<1>3. CopyInv'
  BY DEF ReconcileNew, UpdateStatusAndReturn, Finish, CopyInv
<1>4. ReconcileInv'
  BY DEF ReconcileNew, UpdateStatusAndReturn, Finish, ReconcileInv, IsReady
<1>5. MCPInv'
  BY DEF ReconcileNew, UpdateStatusAndReturn, Finish, MCPInv
<1>6. RefreshInv'
  BY DEF ReconcileNew, UpdateStatusAndReturn, Finish, RefreshInv
<1>7. LicenceInv'
  BY DEF ReconcileNew, UpdateStatusAndReturn, Finish, LicenceInv, Licensed
<1>8. OutcomeInv'
  BY DEF ReconcileNew, UpdateStatusAndReturn, Finish, OutcomeInv, HasUpgradeCommenced,
         HasUpgradeCompleted, IsUpgrading
<1>9. CommencedIsUpgrading'
  BY DEF ReconcileNew, UpdateStatusAndReturn, Finish, CommencedIsUpgrading,
         HasUpgradeCommenced, CopyInv, ReconcileInv, MCPInv, OutcomeInv, RefreshInv
<1>10. UpgradedIsUpgraded'
  BY DEF ReconcileNew, UpdateStatusAndReturn, Finish, UpgradedIsUpgraded,
         HasUpgradeCompleted, IsUpgrading
<1>11. ClusterInv'
  BY Frame DEF ReconcileNew, UpdateStatusAndReturn, Finish
<1> HIDE DEF TypeOK
<1> QED  BY <1>1, <1>2, <1>3, <1>4, <1>5, <1>6, <1>7, <1>8, <1>9, <1>10, <1>11

\* Reconcile returns without writing, as it does for a Pending UpgradeConfig that
\* has to wait, one that has ended, and after an error.
LEMMA ReconcileReturnsInv ==
    ASSUME OperatorInv, reconcile # "refresh", DropUC("reconciler"), Finish,
           UNCHANGED <<policy, mgrVars, clusterVars, now, machines, crashes>>
    PROVE  OperatorInv'
<1>1. TypeOK'
  BY DEF DropUC, Finish
<1>2. ObjectInv'
  BY DEF DropUC, Finish, ObjectInv, WellFormed, Ordered, NotAfter
<1>3. CopyInv'
  BY DEF DropUC, Finish, CopyInv
<1>4. ReconcileInv'
  BY DEF DropUC, Finish, ReconcileInv, IsReady
<1>5. MCPInv'
  BY DEF DropUC, Finish, MCPInv
<1>6. RefreshInv'
  BY DEF DropUC, Finish, RefreshInv
<1>7. LicenceInv'
  BY DEF DropUC, Finish, LicenceInv, Licensed
<1>8. OutcomeInv'
  BY DEF DropUC, Finish, OutcomeInv, HasUpgradeCommenced, HasUpgradeCompleted,
         IsUpgrading
<1>9. ClusterInv' /\ CommencedIsUpgrading' /\ UpgradedIsUpgraded'
  BY Frame DEF DropUC, Finish
<1> HIDE DEF TypeOK
<1> QED  BY <1>1, <1>2, <1>3, <1>4, <1>5, <1>6, <1>7, <1>8, <1>9

\* Reconcile calls Refresh, for an instance that is due.
LEMMA ReconcileReadyInv ==
    ASSUME OperatorInv, ReconcileReady, UNCHANGED <<now, machines, crashes>>
    PROVE  OperatorInv'
<1>1. TypeOK'
  BY DEF ReconcileReady, IsReady, Goto, Continue
<1>2. ReconcileInv'
  BY DEF ReconcileReady, IsReady, Goto, Continue, ReconcileInv
<1>3. RefreshInv'
  BY DEF ReconcileReady, IsReady, Goto, Continue, RefreshInv
<1>4. OutcomeInv'
  BY DEF ReconcileReady, IsReady, Goto, Continue, OutcomeInv, HasUpgradeCommenced,
         HasUpgradeCompleted, IsUpgrading
<1>5. /\ ObjectInv' /\ CopyInv' /\ MCPInv' /\ LicenceInv'
      /\ ClusterInv' /\ CommencedIsUpgrading' /\ UpgradedIsUpgraded'
  BY Frame DEF ReconcileReady, Goto, Continue
<1> HIDE DEF TypeOK
<1> QED  BY <1>1, <1>2, <1>3, <1>4, <1>5

\* Refresh reported a change to Reconcile: the write of New is refused.
LEMMA ReconcileRemoteChangedInv ==
    ASSUME OperatorInv, ReconcileRemoteChanged, UNCHANGED <<now, machines, crashes>>
    PROVE  OperatorInv'
<1>1. TypeOK'
  BY DEF ReconcileRemoteChanged, UpdateStatusAndReturn, DropUC, Finish, Continue,
         UpgradeConfig, Phases, Times, CopyInv, ReconcileInv, RefreshInv
<1>2. ObjectInv'
  BY DEF ReconcileRemoteChanged, UpdateStatusAndReturn, DropUC, Finish, Continue,
         ObjectInv, WellFormed, Ordered, NotAfter, CopyInv, ReconcileInv, MCPInv,
         UpgradeConfig, Phases, Times
<1>3. CopyInv'
  BY DEF ReconcileRemoteChanged, UpdateStatusAndReturn, DropUC, Finish, Continue,
         CopyInv
<1>4. ReconcileInv'
  BY DEF ReconcileRemoteChanged, UpdateStatusAndReturn, DropUC, Finish, Continue,
         ReconcileInv, IsReady
<1>5. MCPInv'
  BY DEF ReconcileRemoteChanged, UpdateStatusAndReturn, DropUC, Finish, Continue,
         MCPInv
<1>6. RefreshInv'
  BY DEF ReconcileRemoteChanged, UpdateStatusAndReturn, DropUC, Finish, Continue,
         RefreshInv
<1>7. LicenceInv'
  BY DEF ReconcileRemoteChanged, UpdateStatusAndReturn, DropUC, Finish, Continue,
         LicenceInv, Licensed, CopyInv, ReconcileInv, RefreshInv, MCPInv, ClusterInv
<1>8. OutcomeInv'
  BY DEF ReconcileRemoteChanged, UpdateStatusAndReturn, DropUC, Finish, Continue,
         OutcomeInv, HasUpgradeCommenced, HasUpgradeCompleted, IsUpgrading
<1>9. CommencedIsUpgrading'
  BY DEF ReconcileRemoteChanged, UpdateStatusAndReturn, DropUC, Finish, Continue,
         CommencedIsUpgrading, HasUpgradeCommenced, CopyInv, ReconcileInv, MCPInv,
         OutcomeInv, RefreshInv
<1>10. UpgradedIsUpgraded'
  BY DEF ReconcileRemoteChanged, UpdateStatusAndReturn, DropUC, Finish, Continue,
         UpgradedIsUpgraded, HasUpgradeCompleted, IsUpgrading, CopyInv, ReconcileInv,
         MCPInv, OutcomeInv, RefreshInv, ClusterInv
<1>11. ClusterInv'
  BY Frame DEF ReconcileRemoteChanged, UpdateStatusAndReturn, DropUC, Finish, Continue
<1> HIDE DEF TypeOK
<1> QED  BY <1>1, <1>2, <1>3, <1>4, <1>5, <1>6, <1>7, <1>8, <1>9, <1>10, <1>11

\* Reconcile moves Pending to Upgrading: the write is accepted only for an object
\* the provider has just named.
LEMMA ReconcileStartInv ==
    ASSUME OperatorInv, ReconcileStart, UNCHANGED <<now, machines, crashes>>
    PROVE  OperatorInv'
<1> DEFINE obj == [instance EXCEPT !.phase = "Upgrading", !.startTime = now]
<1>a. /\ obj \in UpgradeConfig /\ obj.spec = uc.spec /\ uc # Nil /\ instance = uc
      /\ obj.phase = "Upgrading"
  <2>1. instance = uc /\ uc # Nil /\ uc \in UpgradeConfig /\ now \in Nat
    BY DEF ReconcileStart, UpdateStatus, CopyInv
  <2> HIDE DEF OperatorInv
  <2> QED  BY <2>1 DEF UpgradeConfig, Phases, Times
<1>b. /\ uc' = obj /\ held' = [held EXCEPT !["reconciler"] = obj]
      /\ "reconciler" \in current
      /\ current' = IF obj = uc THEN current ELSE {"reconciler"}
      /\ reconcile = "refresh" /\ reconcile' = "upgrade"
      /\ refresh["reconciler"] = "unchanged"
      /\ refresh' = [refresh EXCEPT !["reconciler"] = "idle"]
      /\ UNCHANGED <<outcome, seenVersion, policy, seen, target, answers, clusterVars>>
  BY DEF ReconcileStart, UpdateStatus, Goto, Continue
<1> HIDE DEF obj
<1>1. TypeOK'
  BY <1>a, <1>b
<1>2. ObjectInv'
  BY DEF ReconcileStart, UpdateStatus, Goto, Continue, ObjectInv, WellFormed, Ordered,
         NotAfter, CopyInv, ReconcileInv, MCPInv
<1>3. CopyInv'
  BY <1>a, <1>b DEF CopyInv
<1>4. ReconcileInv'
  BY <1>a, <1>b DEF ReconcileInv
<1>5. MCPInv'
  BY DEF ReconcileStart, UpdateStatus, Goto, Continue, MCPInv
<1>6. RefreshInv'
  BY DEF ReconcileStart, UpdateStatus, Goto, Continue, RefreshInv
<1>7. LicenceInv'
  <2>1. Configured => instance.spec \in answers
    BY <1>b DEF RefreshInv
  <2>2. instance.spec.upgradeAt < now
    BY <1>a, <1>b DEF ReconcileInv, IsReady, UpgradeConfig
  <2>3. Licensed(instance.spec.version)
    BY <2>1, <2>2 DEF Licensed
  <2> QED  BY <1>a, <1>b, <2>3 DEF LicenceInv, Licensed
<1>8. OutcomeInv'
  BY DEF ReconcileStart, UpdateStatus, Goto, Continue, OutcomeInv,
         HasUpgradeCommenced, HasUpgradeCompleted, IsUpgrading
<1>9. CommencedIsUpgrading'
  BY DEF ReconcileStart, UpdateStatus, Goto, Continue, CommencedIsUpgrading,
         HasUpgradeCommenced
<1>10. UpgradedIsUpgraded'
  BY DEF ReconcileStart, UpdateStatus, Goto, Continue, UpgradedIsUpgraded,
         HasUpgradeCompleted, IsUpgrading
<1>11. ClusterInv'
  BY Frame DEF ReconcileStart, UpdateStatus, Goto, Continue
<1> HIDE DEF TypeOK
<1> QED  BY <1>1, <1>2, <1>3, <1>4, <1>5, <1>6, <1>7, <1>8, <1>9, <1>10, <1>11

\* Reconcile gives up after a failed Refresh or a refused write.
LEMMA ReconcileRefreshFailedInv ==
    ASSUME OperatorInv, ReconcileRefreshFailed, UNCHANGED <<now, machines, crashes>>
    PROVE  OperatorInv'
<1>1. TypeOK'
  BY DEF ReconcileRefreshFailed, DropUC, Finish, Continue
<1>2. ObjectInv'
  BY DEF ReconcileRefreshFailed, DropUC, Finish, Continue, ObjectInv, WellFormed,
         Ordered, NotAfter
<1>3. CopyInv'
  BY DEF ReconcileRefreshFailed, DropUC, Finish, Continue, CopyInv
<1>4. ReconcileInv'
  BY DEF ReconcileRefreshFailed, DropUC, Finish, Continue, ReconcileInv, IsReady
<1>5. MCPInv'
  BY DEF ReconcileRefreshFailed, DropUC, Finish, Continue, MCPInv
<1>6. RefreshInv'
  BY DEF ReconcileRefreshFailed, DropUC, Finish, Continue, RefreshInv
<1>7. LicenceInv'
  BY DEF ReconcileRefreshFailed, DropUC, Finish, Continue, LicenceInv, Licensed
<1>8. OutcomeInv'
  BY DEF ReconcileRefreshFailed, DropUC, Finish, Continue, OutcomeInv,
         HasUpgradeCommenced, HasUpgradeCompleted, IsUpgrading
<1>9. ClusterInv' /\ CommencedIsUpgrading' /\ UpgradedIsUpgraded'
  BY Frame DEF ReconcileRefreshFailed, DropUC, Finish, Continue
<1> HIDE DEF TypeOK
<1> QED  BY <1>1, <1>2, <1>3, <1>4, <1>5, <1>6, <1>7, <1>8, <1>9

\* Reconcile calls UpgradeCluster for an Upgrading instance.
LEMMA ReconcileUpgradingInv ==
    ASSUME OperatorInv, ReconcileUpgrading, UNCHANGED <<now, machines, crashes>>
    PROVE  OperatorInv'
<1>1. TypeOK'
  BY DEF ReconcileUpgrading, Goto
<1>2. ReconcileInv'
  BY DEF ReconcileUpgrading, Goto, ReconcileInv, IsReady
<1>3. RefreshInv'
  BY DEF ReconcileUpgrading, Goto, RefreshInv
<1>4. OutcomeInv'
  BY DEF ReconcileUpgrading, Goto, OutcomeInv, HasUpgradeCommenced,
         HasUpgradeCompleted, IsUpgrading
<1>5. /\ ObjectInv' /\ CopyInv' /\ MCPInv' /\ LicenceInv'
      /\ ClusterInv' /\ CommencedIsUpgrading' /\ UpgradedIsUpgraded'
  BY Frame DEF ReconcileUpgrading, Goto
<1> HIDE DEF TypeOK
<1> QED  BY <1>1, <1>2, <1>3, <1>4, <1>5

\* UpgradeCluster fails an upgrade that has not commenced within its window.
LEMMA PerformUpgradeFailureInv ==
    ASSUME OperatorInv, PerformUpgradeFailure, UNCHANGED <<now, machines, crashes>>
    PROVE  OperatorInv'
<1>1. TypeOK'
  BY DEF PerformUpgradeFailure, ShouldFailUpgrade, UpgradeReturns, UpgradeConfig,
         Phases, Times, CopyInv, ReconcileInv, RefreshInv
<1>2. ReconcileInv'
  BY DEF PerformUpgradeFailure, ShouldFailUpgrade, UpgradeReturns, ReconcileInv,
         IsReady
<1>3. RefreshInv'
  BY DEF PerformUpgradeFailure, ShouldFailUpgrade, UpgradeReturns, RefreshInv
<1>4. OutcomeInv'
  BY DEF PerformUpgradeFailure, ShouldFailUpgrade, UpgradeReturns, OutcomeInv,
         HasUpgradeCommenced, HasUpgradeCompleted, IsUpgrading, ReconcileInv,
         ClusterInv
<1>5. /\ ObjectInv' /\ CopyInv' /\ MCPInv' /\ LicenceInv'
      /\ ClusterInv' /\ CommencedIsUpgrading' /\ UpgradedIsUpgraded'
  BY Frame DEF PerformUpgradeFailure, UpgradeReturns
<1> HIDE DEF TypeOK
<1> QED  BY <1>1, <1>2, <1>3, <1>4, <1>5

\* UpgradeCluster runs the upgrade steps.
LEMMA RunStepsInv ==
    ASSUME OperatorInv, RunSteps, UNCHANGED <<now, machines, crashes>>
    PROVE  OperatorInv'
<1>1. TypeOK'
  BY DEF RunSteps, Goto
<1>2. ReconcileInv'
  BY DEF RunSteps, Goto, ReconcileInv, IsReady
<1>3. RefreshInv'
  BY DEF RunSteps, Goto, RefreshInv
<1>4. OutcomeInv'
  BY DEF RunSteps, Goto, OutcomeInv, HasUpgradeCommenced, HasUpgradeCompleted,
         IsUpgrading
<1>5. /\ ObjectInv' /\ CopyInv' /\ MCPInv' /\ LicenceInv'
      /\ ClusterInv' /\ CommencedIsUpgrading' /\ UpgradedIsUpgraded'
  BY Frame DEF RunSteps, Goto
<1> HIDE DEF TypeOK
<1> QED  BY <1>1, <1>2, <1>3, <1>4, <1>5

\* The step CommenceUpgrade asks the ClusterVersion for the version, which the
\* provider has named, and which is later than the one asked for before.
LEMMA CommenceUpgradeInv ==
    ASSUME OperatorInv, CommenceUpgrade, UNCHANGED <<now, machines, crashes>>
    PROVE  OperatorInv'
<1>a. clusterTarget \in Nat /\ instance.spec.version \in Nat
  BY DEF CommenceUpgrade, ReconcileInv, UpgradeConfig, clusterTarget
<1>b. /\ pool' = pool /\ cv'.completed = cv.completed
      /\ clusterTarget' \in Nat /\ clusterTarget <= clusterTarget'
  BY <1>a DEF CommenceUpgrade, EnsureDesiredConfig, IsAvailableUpdate, clusterTarget
<1>1. TypeOK'
  BY DEF CommenceUpgrade, Goto, EnsureDesiredConfig, IsAvailableUpdate,
         HasUpgradeCommenced, clusterTarget,
         UpgradeConfig, Phases, Times, CopyInv, ReconcileInv, RefreshInv
<1>2. ReconcileInv'
  BY DEF CommenceUpgrade, Goto, EnsureDesiredConfig, IsAvailableUpdate,
         HasUpgradeCommenced, clusterTarget,
         ReconcileInv, IsReady
<1>3. RefreshInv'
  BY DEF CommenceUpgrade, Goto, EnsureDesiredConfig, IsAvailableUpdate,
         HasUpgradeCommenced, clusterTarget,
         RefreshInv
<1>4. LicenceInv'
  BY DEF CommenceUpgrade, Goto, EnsureDesiredConfig, IsAvailableUpdate,
         HasUpgradeCommenced, clusterTarget,
         LicenceInv, Licensed, CopyInv, ReconcileInv, RefreshInv, MCPInv, ClusterInv
<1>5. ClusterInv'
  BY <1>a, <1>b DEF ClusterInv
<1>6. OutcomeInv'
  BY DEF CommenceUpgrade, Goto, EnsureDesiredConfig, IsAvailableUpdate,
         HasUpgradeCommenced, clusterTarget,
         OutcomeInv, HasUpgradeCompleted, IsUpgrading
<1>7. CommencedIsUpgrading'
  BY DEF CommenceUpgrade, Goto, EnsureDesiredConfig, IsAvailableUpdate,
         HasUpgradeCommenced, clusterTarget,
         CommencedIsUpgrading, CopyInv, ReconcileInv, MCPInv, OutcomeInv, RefreshInv
<1>8. UpgradedIsUpgraded'
  BY DEF CommenceUpgrade, Goto, EnsureDesiredConfig, IsAvailableUpdate,
         HasUpgradeCommenced, clusterTarget,
         UpgradedIsUpgraded, HasUpgradeCompleted, IsUpgrading
<1>9. ObjectInv' /\ CopyInv' /\ MCPInv'
  BY Frame DEF CommenceUpgrade, Goto
<1> HIDE DEF TypeOK
<1> QED  BY <1>1, <1>2, <1>3, <1>4, <1>5, <1>6, <1>7, <1>8, <1>9

\* A step of the upgrade is not done.
LEMMA StepStopsInv ==
    ASSUME OperatorInv, StepStops, UNCHANGED <<now, machines, crashes>>
    PROVE  OperatorInv'
<1>1. TypeOK'
  BY DEF StepStops, UpgradeReturns
<1>2. ReconcileInv'
  BY DEF StepStops, UpgradeReturns, ReconcileInv, IsReady
<1>3. RefreshInv'
  BY DEF StepStops, UpgradeReturns, RefreshInv
<1>4. OutcomeInv'
  BY DEF StepStops, UpgradeReturns, OutcomeInv, HasUpgradeCommenced,
         HasUpgradeCompleted, IsUpgrading
<1>5. /\ ObjectInv' /\ CopyInv' /\ MCPInv' /\ LicenceInv'
      /\ ClusterInv' /\ CommencedIsUpgrading' /\ UpgradedIsUpgraded'
  BY Frame DEF StepStops, UpgradeReturns
<1> HIDE DEF TypeOK
<1> QED  BY <1>1, <1>2, <1>3, <1>4, <1>5

\* The control plane is upgraded: the version is complete, and stays so.
LEMMA ControlPlaneUpgradedInv ==
    ASSUME OperatorInv, ControlPlaneUpgraded, UNCHANGED <<now, machines, crashes>>
    PROVE  OperatorInv'
<1>1. TypeOK'
  BY DEF ControlPlaneUpgraded, Goto
<1>2. ReconcileInv'
  BY DEF ControlPlaneUpgraded, Goto, ReconcileInv, IsReady
<1>3. RefreshInv'
  BY DEF ControlPlaneUpgraded, Goto, RefreshInv
<1>4. OutcomeInv'
  BY DEF ControlPlaneUpgraded, Goto, OutcomeInv, HasUpgradeCommenced,
         HasUpgradeCompleted, IsUpgrading
<1>5. /\ ObjectInv' /\ CopyInv' /\ MCPInv' /\ LicenceInv'
      /\ ClusterInv' /\ CommencedIsUpgrading' /\ UpgradedIsUpgraded'
  BY Frame DEF ControlPlaneUpgraded, Goto
<1> HIDE DEF TypeOK
<1> QED  BY <1>1, <1>2, <1>3, <1>4, <1>5

\* The workers are updated too, and all steps are done.
LEMMA AllWorkersUpgradedInv ==
    ASSUME OperatorInv, AllWorkersUpgraded, UNCHANGED <<now, machines, crashes>>
    PROVE  OperatorInv'
<1>1. TypeOK'
  BY DEF AllWorkersUpgraded, UpgradeReturns
<1>2. ReconcileInv'
  BY DEF AllWorkersUpgraded, UpgradeReturns, ReconcileInv, IsReady
<1>3. RefreshInv'
  BY DEF AllWorkersUpgraded, UpgradeReturns, RefreshInv
<1>4. OutcomeInv'
  BY DEF AllWorkersUpgraded, UpgradeReturns, OutcomeInv, HasUpgradeCommenced,
         HasUpgradeCompleted, IsUpgrading
<1>5. /\ ObjectInv' /\ CopyInv' /\ MCPInv' /\ LicenceInv'
      /\ ClusterInv' /\ CommencedIsUpgrading' /\ UpgradedIsUpgraded'
  BY Frame DEF AllWorkersUpgraded, UpgradeReturns
<1> HIDE DEF TypeOK
<1> QED  BY <1>1, <1>2, <1>3, <1>4, <1>5

\* Reconcile records what UpgradeCluster returned, which is still true of the
\* object it writes.
LEMMA ReconcileRecordInv ==
    ASSUME OperatorInv, ReconcileRecord, UNCHANGED <<now, machines, crashes>>
    PROVE  OperatorInv'
<1>a. RecordPhase(instance) \in UpgradeConfig
  <2>1. instance \in UpgradeConfig
    BY DEF ReconcileRecord, UpdateStatusAndReturn, CopyInv
  <2>2. outcome \in {"Upgrading", "Upgraded", "Failed"} /\ now \in Nat
    BY DEF ReconcileRecord, OutcomeInv
  <2> HIDE DEF OperatorInv
  <2> QED  BY <2>1, <2>2 DEF RecordPhase, UpgradeConfig, Phases, Times
<1>1. TypeOK'
  BY <1>a DEF ReconcileRecord, UpdateStatusAndReturn, Finish
<1>2. ObjectInv'
  BY DEF ReconcileRecord, UpdateStatusAndReturn, RecordPhase, Finish, ObjectInv,
         WellFormed, Ordered, NotAfter, CopyInv, ReconcileInv, MCPInv
<1>3. CopyInv'
  BY DEF ReconcileRecord, UpdateStatusAndReturn, RecordPhase, Finish, CopyInv
<1>4. ReconcileInv'
  BY DEF ReconcileRecord, UpdateStatusAndReturn, RecordPhase, Finish, ReconcileInv,
         IsReady
<1>5. MCPInv'
  BY DEF ReconcileRecord, UpdateStatusAndReturn, RecordPhase, Finish, MCPInv
<1>6. RefreshInv'
  BY DEF ReconcileRecord, UpdateStatusAndReturn, RecordPhase, Finish, RefreshInv
<1>7. LicenceInv'
  BY DEF ReconcileRecord, UpdateStatusAndReturn, RecordPhase, Finish, LicenceInv,
         Licensed, CopyInv, ReconcileInv, RefreshInv, MCPInv, ClusterInv
<1>8. OutcomeInv'
  BY DEF ReconcileRecord, UpdateStatusAndReturn, RecordPhase, Finish, OutcomeInv,
         HasUpgradeCommenced, HasUpgradeCompleted, IsUpgrading
<1>9. CommencedIsUpgrading'
  BY DEF ReconcileRecord, UpdateStatusAndReturn, RecordPhase, Finish,
         CommencedIsUpgrading, HasUpgradeCommenced, CopyInv, ReconcileInv, MCPInv,
         OutcomeInv, RefreshInv
<1>10. UpgradedIsUpgraded'
  BY DEF ReconcileRecord, UpdateStatusAndReturn, RecordPhase, Finish,
         UpgradedIsUpgraded, HasUpgradeCompleted, IsUpgrading, CopyInv, ReconcileInv,
         MCPInv, OutcomeInv, RefreshInv, ClusterInv
<1>11. ClusterInv'
  BY Frame DEF ReconcileRecord, UpdateStatusAndReturn, Finish
<1> HIDE DEF TypeOK
<1> QED  BY <1>1, <1>2, <1>3, <1>4, <1>5, <1>6, <1>7, <1>8, <1>9, <1>10, <1>11

\* Refresh reads the UpgradeConfig: while the reconciler's copy is current, what
\* it reads is the instance's specification.
LEMMA RefreshGetInv ==
    ASSUME OperatorInv, NEW p \in Refreshers, RefreshGet(p),
           UNCHANGED <<now, recVars, clusterVars, machines, crashes>>
    PROVE  OperatorInv'
<1>1. TypeOK'
  BY DEF RefreshGet, Continue, UpgradeConfig, Phases, Times
<1>2. RefreshInv'
  BY DEF RefreshGet, Continue, RefreshInv, CopyInv, ReconcileInv
<1>3. /\ ObjectInv' /\ CopyInv' /\ ReconcileInv' /\ MCPInv'
      /\ LicenceInv' /\ ClusterInv' /\ OutcomeInv' /\ CommencedIsUpgrading' /\ UpgradedIsUpgraded'
  BY Frame DEF RefreshGet, Continue
<1> HIDE DEF TypeOK
<1> QED  BY <1>1, <1>2, <1>3

\* Refresh asks the provider: the answer "unchanged" is about the instance while
\* the reconciler's copy is current.
LEMMA RefreshPullInv ==
    ASSUME OperatorInv, NEW p \in Refreshers, RefreshPull(p),
           UNCHANGED <<now, recVars, clusterVars, machines, crashes>>
    PROVE  OperatorInv'
<1>1. TypeOK'
  BY DEF RefreshPull, Continue, Return
<1>2. RefreshInv'
  BY DEF RefreshPull, Continue, Return, RefreshInv, CopyInv, ReconcileInv,
         UpgradeConfig, Phases, Times
<1>3. LicenceInv'
  BY DEF RefreshPull, Continue, Return, LicenceInv, Licensed
<1>4. /\ ObjectInv' /\ CopyInv' /\ ReconcileInv' /\ MCPInv'
      /\ ClusterInv' /\ OutcomeInv' /\ CommencedIsUpgrading' /\ UpgradedIsUpgraded'
  BY Frame DEF RefreshPull, Continue, Return
<1> HIDE DEF TypeOK
<1> QED  BY <1>1, <1>2, <1>3, <1>4

\* Refresh finds no provider in the configuration.
LEMMA RefreshNotConfiguredInv ==
    ASSUME OperatorInv, NEW p \in Refreshers, RefreshNotConfigured(p),
           UNCHANGED <<now, recVars, clusterVars, machines, crashes>>
    PROVE  OperatorInv'
<1>1. TypeOK'
  BY DEF RefreshNotConfigured, Return
<1>2. RefreshInv'
  BY DEF RefreshNotConfigured, Return, RefreshInv
<1>3. /\ ObjectInv' /\ CopyInv' /\ ReconcileInv' /\ MCPInv'
      /\ LicenceInv' /\ ClusterInv' /\ OutcomeInv' /\ CommencedIsUpgrading' /\ UpgradedIsUpgraded'
  BY Frame DEF RefreshNotConfigured, Return
<1> HIDE DEF TypeOK
<1> QED  BY <1>1, <1>2, <1>3

\* Refresh deletes the UpgradeConfig, and makes every copy stale.
LEMMA RefreshDeleteInv ==
    ASSUME OperatorInv, NEW p \in Refreshers, RefreshDelete(p),
           UNCHANGED <<now, recVars, clusterVars, machines, crashes>>
    PROVE  OperatorInv'
<1>1. TypeOK'
  BY DEF RefreshDelete, DeleteUC, Continue, Return
<1>2. ObjectInv'
  BY DEF RefreshDelete, DeleteUC, Continue, Return, ObjectInv, WellFormed, Ordered,
         NotAfter
<1>3. CopyInv'
  BY DEF RefreshDelete, DeleteUC, Continue, Return, CopyInv
<1>4. ReconcileInv'
  BY DEF RefreshDelete, DeleteUC, Continue, Return, ReconcileInv, IsReady
<1>5. RefreshInv'
  BY DEF RefreshDelete, DeleteUC, Continue, Return, RefreshInv
<1>6. LicenceInv'
  BY DEF RefreshDelete, DeleteUC, Continue, Return, LicenceInv, Licensed
<1>7. CommencedIsUpgrading'
  BY DEF RefreshDelete, DeleteUC, Continue, Return, CommencedIsUpgrading,
         HasUpgradeCommenced
<1>8. UpgradedIsUpgraded'
  BY DEF RefreshDelete, DeleteUC, Continue, Return, UpgradedIsUpgraded,
         HasUpgradeCompleted, IsUpgrading
<1>9. MCPInv' /\ ClusterInv' /\ OutcomeInv'
  BY Frame DEF RefreshDelete, DeleteUC, Continue, Return
<1> HIDE DEF TypeOK
<1> QED  BY <1>1, <1>2, <1>3, <1>4, <1>5, <1>6, <1>7, <1>8, <1>9

\* Refresh sees that the UpgradeConfig is gone.
LEMMA RefreshConfirmInv ==
    ASSUME OperatorInv, NEW p \in Refreshers, RefreshConfirm(p),
           UNCHANGED <<now, recVars, clusterVars, machines, crashes>>
    PROVE  OperatorInv'
<1>1. TypeOK'
  BY DEF RefreshConfirm, Continue
<1>2. RefreshInv'
  BY DEF RefreshConfirm, Continue, RefreshInv
<1>3. /\ ObjectInv' /\ CopyInv' /\ ReconcileInv' /\ MCPInv'
      /\ LicenceInv' /\ ClusterInv' /\ OutcomeInv' /\ CommencedIsUpgrading' /\ UpgradedIsUpgraded'
  BY Frame DEF RefreshConfirm, Continue
<1> HIDE DEF TypeOK
<1> QED  BY <1>1, <1>2, <1>3

\* Refresh creates the UpgradeConfig the provider named.
LEMMA RefreshCreateInv ==
    ASSUME OperatorInv, NEW p \in Refreshers, RefreshCreate(p),
           UNCHANGED <<now, recVars, clusterVars, machines, crashes>>
    PROVE  OperatorInv'
<1>a. /\ uc = Nil /\ uc' \in UpgradeConfig /\ uc'.phase = "Unknown"
      /\ uc'.startTime = Nil /\ uc'.completeTime = Nil
      /\ uc'.workerStartTime = Nil /\ uc'.workerCompleteTime = Nil
      /\ held' = held /\ current' = {}
  <2>1. target[p] \in Specs
    BY DEF RefreshCreate, RefreshInv
  <2> HIDE DEF OperatorInv
  <2> QED  BY <2>1, NewObject DEF RefreshCreate, CreateUC
<1>1. TypeOK'
  BY <1>a DEF RefreshCreate, Return
<1>2. ObjectInv'
  BY <1>a DEF RefreshCreate, Return, ObjectInv, WellFormed, Ordered, NotAfter
<1>3. CopyInv'
  BY <1>a DEF CopyInv
<1>4. ReconcileInv'
  BY <1>a DEF RefreshCreate, Return, ReconcileInv, IsReady
<1>5. RefreshInv'
  BY <1>a DEF RefreshCreate, Return, RefreshInv
<1>6. LicenceInv'
  BY <1>a DEF RefreshCreate, Return, LicenceInv, Licensed
<1>7. CommencedIsUpgrading'
  BY <1>a DEF CommencedIsUpgrading, HasUpgradeCommenced
<1>8. UpgradedIsUpgraded'
  BY <1>a DEF UpgradedIsUpgraded, HasUpgradeCompleted, IsUpgrading
<1>9. MCPInv' /\ ClusterInv' /\ OutcomeInv'
  BY Frame DEF RefreshCreate, CreateUC, Return
<1> HIDE DEF TypeOK
<1> QED  BY <1>1, <1>2, <1>3, <1>4, <1>5, <1>6, <1>7, <1>8, <1>9

\* Refresh returns an error.
LEMMA RefreshErrorInv ==
    ASSUME OperatorInv, NEW p \in Refreshers, RefreshError(p),
           UNCHANGED <<now, recVars, clusterVars, machines, crashes>>
    PROVE  OperatorInv'
<1>1. TypeOK'
  BY DEF RefreshError, Return
<1>2. RefreshInv'
  BY DEF RefreshError, Return, RefreshInv
<1>3. /\ ObjectInv' /\ CopyInv' /\ ReconcileInv' /\ MCPInv'
      /\ LicenceInv' /\ ClusterInv' /\ OutcomeInv' /\ CommencedIsUpgrading' /\ UpgradedIsUpgraded'
  BY Frame DEF RefreshError, Return
<1> HIDE DEF TypeOK
<1> QED  BY <1>1, <1>2, <1>3

\* The MachineConfigPool controller reads the pool.
LEMMA MCPGetPoolInv ==
    ASSUME OperatorInv, MCPGetPool, UNCHANGED <<now, crashes>>
    PROVE  OperatorInv'
<1>1. TypeOK'
  BY DEF MCPGetPool, mcpFrame
<1>2. MCPInv'
  BY DEF MCPGetPool, mcpFrame, MCPInv
<1>3. /\ ObjectInv' /\ CopyInv' /\ ReconcileInv' /\ RefreshInv'
      /\ LicenceInv' /\ ClusterInv' /\ OutcomeInv' /\ CommencedIsUpgrading' /\ UpgradedIsUpgraded'
  BY Frame DEF MCPGetPool, mcpFrame
<1> HIDE DEF TypeOK
<1> QED  BY <1>1, <1>2, <1>3

\* The MachineConfigPool controller reads an Upgrading UpgradeConfig.
LEMMA MCPGetUpgradeConfigInv ==
    ASSUME OperatorInv, MCPGetUpgradeConfig, UNCHANGED <<now, crashes>>
    PROVE  OperatorInv'
<1>1. TypeOK'
  BY DEF MCPGetUpgradeConfig, GetUC, mcpFrame
<1>2. ObjectInv'
  BY DEF MCPGetUpgradeConfig, GetUC, mcpFrame, ObjectInv, WellFormed, Ordered,
         NotAfter
<1>3. CopyInv'
  BY DEF MCPGetUpgradeConfig, GetUC, mcpFrame, CopyInv
<1>4. ReconcileInv'
  BY DEF MCPGetUpgradeConfig, GetUC, mcpFrame, ReconcileInv, IsReady
<1>5. MCPInv'
  BY DEF MCPGetUpgradeConfig, GetUC, mcpFrame, MCPInv
<1>6. RefreshInv'
  BY DEF MCPGetUpgradeConfig, GetUC, mcpFrame, RefreshInv
<1>7. LicenceInv'
  BY DEF MCPGetUpgradeConfig, GetUC, mcpFrame, LicenceInv, Licensed
<1>8. OutcomeInv'
  BY DEF MCPGetUpgradeConfig, GetUC, mcpFrame, OutcomeInv, HasUpgradeCommenced,
         HasUpgradeCompleted, IsUpgrading
<1>9. ClusterInv' /\ CommencedIsUpgrading' /\ UpgradedIsUpgraded'
  BY Frame DEF MCPGetUpgradeConfig, GetUC, mcpFrame
<1> HIDE DEF TypeOK
<1> QED  BY <1>1, <1>2, <1>3, <1>4, <1>5, <1>6, <1>7, <1>8, <1>9

\* The MachineConfigPool controller writes worker times to an object nobody has
\* touched since, and leaves its phase alone.
LEMMA MCPRecordInv ==
    ASSUME OperatorInv, MCPRecord, UNCHANGED <<now, crashes>>
    PROVE  OperatorInv'
<1>1. TypeOK'
  BY DEF MCPRecord, UpdateStatusAndReturn, WorkerTimes, mcpFrame, UpgradeConfig,
         Phases, Times
<1>2. ObjectInv'
  BY SMTT(30) DEF MCPRecord, UpdateStatusAndReturn, WorkerTimes, mcpFrame, ObjectInv,
         WellFormed, Ordered, NotAfter, CopyInv, ReconcileInv, MCPInv
<1>3. CopyInv'
  BY DEF MCPRecord, UpdateStatusAndReturn, WorkerTimes, mcpFrame, CopyInv
<1>4. ReconcileInv'
  BY DEF MCPRecord, UpdateStatusAndReturn, WorkerTimes, mcpFrame, ReconcileInv,
         IsReady, CopyInv, MCPInv, RefreshInv
<1>5. MCPInv'
  BY DEF MCPRecord, UpdateStatusAndReturn, WorkerTimes, mcpFrame, MCPInv
<1>6. RefreshInv'
  BY DEF MCPRecord, UpdateStatusAndReturn, WorkerTimes, mcpFrame, RefreshInv
<1>7. LicenceInv'
  BY DEF MCPRecord, UpdateStatusAndReturn, WorkerTimes, mcpFrame, LicenceInv,
         Licensed, CopyInv, ReconcileInv, RefreshInv, MCPInv, ClusterInv
<1>8. OutcomeInv'
  BY DEF MCPRecord, UpdateStatusAndReturn, WorkerTimes, mcpFrame, OutcomeInv,
         HasUpgradeCommenced, HasUpgradeCompleted, IsUpgrading
<1>9. CommencedIsUpgrading'
  BY DEF MCPRecord, UpdateStatusAndReturn, WorkerTimes, mcpFrame,
         CommencedIsUpgrading, HasUpgradeCommenced, CopyInv, ReconcileInv, MCPInv,
         OutcomeInv, RefreshInv
<1>10. UpgradedIsUpgraded'
  BY DEF MCPRecord, UpdateStatusAndReturn, WorkerTimes, mcpFrame, UpgradedIsUpgraded,
         HasUpgradeCompleted, IsUpgrading, CopyInv, ReconcileInv, MCPInv, OutcomeInv,
         RefreshInv, ClusterInv
<1>11. ClusterInv'
  BY Frame DEF MCPRecord, UpdateStatusAndReturn, mcpFrame
<1> HIDE DEF TypeOK
<1> QED  BY <1>1, <1>2, <1>3, <1>4, <1>5, <1>6, <1>7, <1>8, <1>9, <1>10, <1>11

\* The MachineConfigPool controller returns without writing.
LEMMA MCPReturnInv ==
    ASSUME OperatorInv, MCPReturn, UNCHANGED <<now, crashes>>
    PROVE  OperatorInv'
<1>1. TypeOK'
  BY DEF MCPReturn, DropUC, mcpFrame
<1>2. ObjectInv'
  BY DEF MCPReturn, DropUC, mcpFrame, ObjectInv, WellFormed, Ordered, NotAfter
<1>3. CopyInv'
  BY DEF MCPReturn, DropUC, mcpFrame, CopyInv
<1>4. ReconcileInv'
  BY DEF MCPReturn, DropUC, mcpFrame, ReconcileInv, IsReady
<1>5. MCPInv'
  BY DEF MCPReturn, DropUC, mcpFrame, MCPInv
<1>6. RefreshInv'
  BY DEF MCPReturn, DropUC, mcpFrame, RefreshInv
<1>7. LicenceInv'
  BY DEF MCPReturn, DropUC, mcpFrame, LicenceInv, Licensed
<1>8. OutcomeInv'
  BY DEF MCPReturn, DropUC, mcpFrame, OutcomeInv, HasUpgradeCommenced,
         HasUpgradeCompleted, IsUpgrading
<1>9. ClusterInv' /\ CommencedIsUpgrading' /\ UpgradedIsUpgraded'
  BY Frame DEF MCPReturn, DropUC, mcpFrame
<1> HIDE DEF TypeOK
<1> QED  BY <1>1, <1>2, <1>3, <1>4, <1>5, <1>6, <1>7, <1>8, <1>9

\* The policy of the provider changes.
LEMMA ChangePolicyInv ==
    ASSUME OperatorInv, ChangePolicy,
           UNCHANGED <<now, recVars, clusterVars, machines, crashes>>
    PROVE  OperatorInv'
<1>1. TypeOK'
  BY DEF ChangePolicy
<1>2. /\ ObjectInv' /\ CopyInv' /\ ReconcileInv' /\ MCPInv'
      /\ RefreshInv' /\ LicenceInv' /\ ClusterInv' /\ OutcomeInv' /\ CommencedIsUpgrading' /\ UpgradedIsUpgraded'
  BY Frame DEF ChangePolicy
<1> HIDE DEF TypeOK
<1> QED  BY <1>1, <1>2

\* An UpgradeConfig is created by hand.
LEMMA AdminCreateInv ==
    ASSUME OperatorInv, AdminCreate,
           UNCHANGED <<now, recVars, clusterVars, machines, crashes>>
    PROVE  OperatorInv'
<1>a. /\ uc = Nil /\ uc' \in UpgradeConfig /\ uc'.phase = "Unknown"
      /\ uc'.startTime = Nil /\ uc'.completeTime = Nil
      /\ uc'.workerStartTime = Nil /\ uc'.workerCompleteTime = Nil
      /\ held' = held /\ current' = {}
  <2> HIDE DEF OperatorInv
  <2> QED  BY NewObject DEF AdminCreate, CreateUC
<1>1. TypeOK'
  BY <1>a DEF AdminCreate
<1>2. ObjectInv'
  BY <1>a DEF AdminCreate, ObjectInv, WellFormed, Ordered, NotAfter
<1>3. CopyInv'
  BY <1>a DEF CopyInv
<1>4. ReconcileInv'
  BY <1>a DEF AdminCreate, ReconcileInv, IsReady
<1>5. RefreshInv'
  BY <1>a DEF AdminCreate, RefreshInv
<1>6. LicenceInv'
  BY <1>a DEF AdminCreate, LicenceInv, Licensed
<1>7. CommencedIsUpgrading'
  BY <1>a DEF CommencedIsUpgrading, HasUpgradeCommenced
<1>8. UpgradedIsUpgraded'
  BY <1>a DEF UpgradedIsUpgraded, HasUpgradeCompleted, IsUpgrading
<1>9. MCPInv' /\ ClusterInv' /\ OutcomeInv'
  BY Frame DEF AdminCreate, CreateUC
<1> HIDE DEF TypeOK
<1> QED  BY <1>1, <1>2, <1>3, <1>4, <1>5, <1>6, <1>7, <1>8, <1>9

\* The UpgradeConfig is deleted by hand.
LEMMA AdminDeleteInv ==
    ASSUME OperatorInv, AdminDelete,
           UNCHANGED <<now, recVars, clusterVars, machines, crashes>>
    PROVE  OperatorInv'
<1>1. TypeOK'
  BY DEF AdminDelete, DeleteUC
<1>2. ObjectInv'
  BY DEF AdminDelete, DeleteUC, ObjectInv, WellFormed, Ordered, NotAfter
<1>3. CopyInv'
  BY DEF AdminDelete, DeleteUC, CopyInv
<1>4. ReconcileInv'
  BY DEF AdminDelete, DeleteUC, ReconcileInv, IsReady
<1>5. RefreshInv'
  BY DEF AdminDelete, DeleteUC, RefreshInv
<1>6. LicenceInv'
  BY DEF AdminDelete, DeleteUC, LicenceInv, Licensed
<1>7. CommencedIsUpgrading'
  BY DEF AdminDelete, DeleteUC, CommencedIsUpgrading, HasUpgradeCommenced
<1>8. UpgradedIsUpgraded'
  BY DEF AdminDelete, DeleteUC, UpgradedIsUpgraded, HasUpgradeCompleted, IsUpgrading
<1>9. MCPInv' /\ ClusterInv' /\ OutcomeInv'
  BY Frame DEF AdminDelete, DeleteUC
<1> HIDE DEF TypeOK
<1> QED  BY <1>1, <1>2, <1>3, <1>4, <1>5, <1>6, <1>7, <1>8, <1>9

\* A new worker configuration is rendered.
LEMMA RenderPoolInv ==
    ASSUME OperatorInv, RenderPool, UNCHANGED <<now, machines, crashes>>
    PROVE  OperatorInv'
<1>1. TypeOK'
  BY DEF RenderPool, clusterTarget
<1>2. ClusterInv'
  BY DEF RenderPool, clusterTarget, ClusterInv
<1>3. OutcomeInv'
  BY SMTT(30) DEF RenderPool, clusterTarget, OutcomeInv, HasUpgradeCommenced,
         HasUpgradeCompleted, IsUpgrading, ReconcileInv, ClusterInv
<1>4. UpgradedIsUpgraded'
  BY SMTT(30) DEF RenderPool, clusterTarget, UpgradedIsUpgraded, HasUpgradeCompleted,
         IsUpgrading, ClusterInv
<1>5. /\ ObjectInv' /\ CopyInv' /\ ReconcileInv' /\ MCPInv'
      /\ RefreshInv' /\ LicenceInv' /\ CommencedIsUpgrading'
  BY Frame DEF RenderPool
<1> HIDE DEF TypeOK
<1> QED  BY <1>1, <1>2, <1>3, <1>4, <1>5

\* A worker is updated.
LEMMA UpdateMachineInv ==
    ASSUME OperatorInv, UpdateMachine, UNCHANGED <<now, machines, crashes>>
    PROVE  OperatorInv'
<1>1. TypeOK'
  BY DEF UpdateMachine
<1>2. ClusterInv'
  BY DEF UpdateMachine, ClusterInv, clusterTarget
<1>3. OutcomeInv'
  BY DEF UpdateMachine, OutcomeInv, HasUpgradeCommenced, HasUpgradeCompleted,
         IsUpgrading
<1>4. UpgradedIsUpgraded'
  BY DEF UpdateMachine, UpgradedIsUpgraded, HasUpgradeCompleted, IsUpgrading
<1>5. /\ ObjectInv' /\ CopyInv' /\ ReconcileInv' /\ MCPInv'
      /\ RefreshInv' /\ LicenceInv' /\ CommencedIsUpgrading'
  BY Frame DEF UpdateMachine
<1> HIDE DEF TypeOK
<1> QED  BY <1>1, <1>2, <1>3, <1>4, <1>5

\* The control plane completes the desired version.
LEMMA CompleteControlPlaneInv ==
    ASSUME OperatorInv, CompleteControlPlane, UNCHANGED <<now, machines, crashes>>
    PROVE  OperatorInv'
<1>a. cv' \in [desired : Versions \cup {Nil}, completed : SUBSET Versions, latest : Versions]
  BY DEF CompleteControlPlane
<1>1. TypeOK'
  BY <1>a DEF CompleteControlPlane
<1>2. LicenceInv'
  BY DEF CompleteControlPlane, clusterTarget, LicenceInv, Licensed
<1>3. ClusterInv'
  BY DEF CompleteControlPlane, clusterTarget, ClusterInv
<1>4. OutcomeInv'
  BY DEF CompleteControlPlane, clusterTarget, OutcomeInv, HasUpgradeCommenced,
         HasUpgradeCompleted, IsUpgrading
<1>5. CommencedIsUpgrading'
  BY DEF CompleteControlPlane, clusterTarget, CommencedIsUpgrading,
         HasUpgradeCommenced
<1>6. UpgradedIsUpgraded'
  BY DEF CompleteControlPlane, clusterTarget, UpgradedIsUpgraded, HasUpgradeCompleted,
         IsUpgrading
<1>7. ObjectInv' /\ CopyInv' /\ ReconcileInv' /\ MCPInv' /\ RefreshInv'
  BY Frame DEF CompleteControlPlane
<1> HIDE DEF TypeOK
<1> QED  BY <1>1, <1>2, <1>3, <1>4, <1>5, <1>6, <1>7

\* Time passes: what was due stays due and recorded times stay in the past.
LEMMA TickInv ==
    ASSUME OperatorInv, Tick,
           UNCHANGED <<policy, mgrVars, recVars, clusterVars, machines, crashes>>
    PROVE  OperatorInv'
<1>1. TypeOK'
  BY DEF Tick
<1>2. ObjectInv'
  <2>1. uc' = uc /\ held' = held
    BY DEF Tick
  <2>2. \A t \in Times : NotAfter(t, now) => NotAfter(t, now')
    BY DEF Tick, Times, NotAfter
  <2>3. uc # Nil => /\ uc.startTime \in Times /\ uc.completeTime \in Times
                    /\ uc.workerStartTime \in Times /\ uc.workerCompleteTime \in Times
    BY DEF UpgradeConfig
  <2>4. uc # Nil /\ Ordered(uc) => Ordered(uc)'
    BY <2>1, <2>2, <2>3 DEF Ordered
  <2> QED  BY <2>1, <2>4 DEF ObjectInv, WellFormed
<1>3. ReconcileInv'
  BY SMTT(30) DEF Tick, ReconcileInv, IsReady, UpgradeConfig
<1>4. LicenceInv'
  BY DEF Tick, LicenceInv, Licensed
<1>5. /\ CopyInv' /\ MCPInv' /\ RefreshInv' /\ ClusterInv'
      /\ OutcomeInv' /\ CommencedIsUpgrading' /\ UpgradedIsUpgraded'
  BY Frame DEF Tick
<1> HIDE DEF TypeOK
<1> QED  BY <1>1, <1>2, <1>3, <1>4, <1>5

\* The operator restarts, and no copy survives it.
LEMMA CrashInv ==
    ASSUME OperatorInv, Crash
    PROVE  OperatorInv'
<1>1. TypeOK'
  BY DEF Crash, Finish
<1>2. ObjectInv'
  BY DEF Crash, Finish, ObjectInv, WellFormed, Ordered, NotAfter
<1>3. CopyInv'
  BY DEF Crash, Finish, CopyInv
<1>4. ReconcileInv'
  BY DEF Crash, Finish, ReconcileInv, IsReady
<1>5. MCPInv'
  BY DEF Crash, Finish, MCPInv
<1>6. RefreshInv'
  BY DEF Crash, Finish, RefreshInv
<1>7. LicenceInv'
  BY DEF Crash, Finish, LicenceInv, Licensed
<1>8. OutcomeInv'
  BY DEF Crash, Finish, OutcomeInv, HasUpgradeCommenced, HasUpgradeCompleted,
         IsUpgrading
<1>9. ClusterInv' /\ CommencedIsUpgrading' /\ UpgradedIsUpgraded'
  BY Frame DEF Crash, Finish
<1> HIDE DEF TypeOK
<1> QED  BY <1>1, <1>2, <1>3, <1>4, <1>5, <1>6, <1>7, <1>8, <1>9

--------------------------------------------------------------------------------

\* The invariant holds before the first reconcile.
LEMMA InitInv == Init => OperatorInv
<1> SUFFICES ASSUME Init PROVE OperatorInv
  OBVIOUS
<1> USE DEF Init, CRInit, ManagerInit, ControllerInit, MCPInit
<1>1. TypeOK
  OBVIOUS
<1>2. ObjectInv /\ CopyInv /\ ReconcileInv /\ MCPInv /\ RefreshInv
  BY DEF ObjectInv, CopyInv, ReconcileInv, MCPInv, RefreshInv
<1>3. LicenceInv /\ ClusterInv /\ OutcomeInv
  BY DEF LicenceInv, Licensed, ClusterInv, OutcomeInv, clusterTarget
<1>4. CommencedIsUpgrading /\ UpgradedIsUpgraded
  BY DEF CommencedIsUpgrading, UpgradedIsUpgraded
<1> HIDE DEF TypeOK
<1> QED  BY <1>1, <1>2, <1>3, <1>4

\* A Pending UpgradeConfig that has to wait is written back as it is stored.
LEMMA WaitWritesNothing ==
    ASSUME OperatorInv, ReconcileWait
    PROVE  DropUC("reconciler")
  BY DEF ReconcileWait, UpdateStatusAndReturn, DropUC, CopyInv

\* Every step of the operator and of its surroundings preserves the invariant.
LEMMA NextInv == OperatorInv /\ [Next]_vars => OperatorInv'
<1> SUFFICES ASSUME OperatorInv, [Next]_vars PROVE OperatorInv'
  OBVIOUS
<1> HIDE DEF OperatorInv
<1>1. CASE Reconcile /\ UNCHANGED <<now, machines, crashes>>
  <2>1. CASE ReconcileRejected \/ ReconcileWait \/ ReconcileDone \/ ReconcileError
    <3>1. ReconcileWait => DropUC("reconciler")
      BY WaitWritesNothing
    <3>2. /\ reconcile # "refresh" /\ DropUC("reconciler") /\ Finish
          /\ UNCHANGED <<policy, mgrVars, clusterVars>>
      BY <2>1, <3>1 DEF ReconcileRejected, ReconcileWait, ReconcileDone, ReconcileError
    <3> QED  BY <1>1, <3>2, ReconcileReturnsInv
  <2>2. CASE ~(ReconcileRejected \/ ReconcileWait \/ ReconcileDone \/ ReconcileError)
    BY <1>1, <2>2, ReconcileGetInv, ReconcileHistoryInv, ReconcileNewInv,
       ReconcileReadyInv, ReconcileRemoteChangedInv, ReconcileStartInv,
       ReconcileRefreshFailedInv, ReconcileUpgradingInv, PerformUpgradeFailureInv,
       RunStepsInv, CommenceUpgradeInv, StepStopsInv, ControlPlaneUpgradedInv,
       AllWorkersUpgradedInv, ReconcileRecordInv
       DEF Reconcile
  <2> QED  BY <2>1, <2>2
<1>2. ASSUME NEW p \in Refreshers, Refresh(p),
             UNCHANGED <<now, recVars, clusterVars, machines, crashes>>
      PROVE  OperatorInv'
  BY <1>2, RefreshGetInv, RefreshPullInv, RefreshNotConfiguredInv, RefreshDeleteInv,
     RefreshConfirmInv, RefreshCreateInv, RefreshErrorInv DEF Refresh
<1>3. CASE MachineConfigPoolReconcile /\ UNCHANGED <<now, crashes>>
  BY <1>3, MCPGetPoolInv, MCPGetUpgradeConfigInv, MCPRecordInv, MCPReturnInv
     DEF MachineConfigPoolReconcile
<1>4. CASE /\ ChangePolicy \/ AdminCreate \/ AdminDelete
           /\ UNCHANGED <<now, recVars, clusterVars, machines, crashes>>
  BY <1>4, ChangePolicyInv, AdminCreateInv, AdminDeleteInv
<1>5. CASE Cluster /\ UNCHANGED <<now, machines, crashes>>
  BY <1>5, RenderPoolInv, UpdateMachineInv, CompleteControlPlaneInv DEF Cluster
<1>6. CASE Tick /\ UNCHANGED <<policy, mgrVars, recVars, clusterVars, machines, crashes>>
  BY <1>6, TickInv
<1>7. CASE Crash
  BY <1>7, CrashInv
<1>8. CASE UNCHANGED vars
  <2> USE <1>8 DEF OperatorInv, vars
  <2>1. TypeOK'
    OBVIOUS
  <2> HIDE DEF TypeOK
  <2> QED  BY <2>1, Frame
<1> QED  BY <1>1, <1>2, <1>3, <1>4, <1>5, <1>6, <1>7, <1>8 DEF Next

\* The components keep what they rely on of each other, in every behaviour: the
\* copies, refreshes and outcomes Reconcile, Refresh and the MachineConfigPool
\* Reconcile work with between their calls.
THEOREM OperatorInvariant == Spec => []OperatorInv
<1> HIDE DEF OperatorInv
<1> QED  BY InitInv, NextInv, PTL DEF Spec

--------------------------------------------------------------------------------

\* Every variable keeps its type.
THEOREM TypeCorrect == Spec => []TypeOK
<1>1. OperatorInv => TypeOK
  BY DEF OperatorInv
<1> HIDE DEF OperatorInv, TypeOK
<1> QED  BY <1>1, OperatorInvariant, PTL

\* The kill switch: the ClusterVersion is only asked for what the provider named
\* to a Refresh of the reconciler (Reconcile, case Pending).
THEOREM KillSwitchHolds == Spec => []KillSwitch
<1>1. OperatorInv => KillSwitch
  BY DEF LicenceInv, Licensed, KillSwitch
<1> HIDE DEF OperatorInv
<1> QED  BY <1>1, OperatorInvariant, PTL

\* An UpgradeConfig whose version the ClusterVersion asks for is neither waiting
\* nor failed (the first history entry, shouldFailUpgrade).
THEOREM CommencedIsUpgradingHolds == Spec => []CommencedIsUpgrading
<1>1. OperatorInv => CommencedIsUpgrading
  BY DEF OperatorInv
<1> HIDE DEF OperatorInv
<1> QED  BY <1>1, OperatorInvariant, PTL

\* Upgraded is recorded of an upgraded cluster only (Run, upgradeCluster).
THEOREM UpgradedIsUpgradedHolds == Spec => []UpgradedIsUpgraded
<1>1. OperatorInv => UpgradedIsUpgraded
  BY DEF OperatorInv
<1> HIDE DEF OperatorInv
<1> QED  BY <1>1, OperatorInvariant, PTL

\* No timestamp Reconcile dereferences is nil (shouldFailUpgrade,
\* UpgradeDelayedCheck, reportUpgradeMetrics).
THEOREM TimestampsPresentHolds == Spec => []TimestampsPresent
<1>1. OperatorInv => TimestampsPresent
  BY DEF ObjectInv, WellFormed, ReconcileInv, TimestampsPresent
<1> HIDE DEF OperatorInv
<1> QED  BY <1>1, OperatorInvariant, PTL

\* A reconcile that is told of a remote change never writes New (Reconcile,
\* remoteChanged).
THEOREM RemoteChangeIsRefusedHolds == Spec => []RemoteChangeIsRefused
<1>1. OperatorInv => RemoteChangeIsRefused
  BY DEF RefreshInv, RemoteChangeIsRefused
<1> HIDE DEF OperatorInv
<1> QED  BY <1>1, OperatorInvariant, PTL

\* The recorded times are in order, whichever controller wrote them
\* (upgradeCluster, and Reconcile of the MachineConfigPool controller).
THEOREM TimesInOrderHolds == Spec => []TimesInOrder
<1>1. OperatorInv => TimesInOrder
  BY SMTT(30) DEF ObjectInv, Ordered, NotAfter, TimesInOrder
<1> HIDE DEF OperatorInv
<1> QED  BY <1>1, OperatorInvariant, PTL

--------------------------------------------------------------------------------

\* What one step does to the UpgradeConfig, to the desired update and to the
\* provider's answers, by the action that takes it.  Every other action of the
\* operator leaves the three alone.
LEMMA StepsOfTheLifecycle ==
    ASSUME OperatorInv, [Next]_vars
    PROVE  \/ UNCHANGED <<uc, cv, answers>>
           \/ ReconcileHistory
           \/ ReconcileNew
           \/ ReconcileStart
           \/ CommenceUpgrade
           \/ ReconcileRecord
           \/ MCPRecord
           \/ CompleteControlPlane
           \/ /\ \/ \E p \in Refreshers : RefreshPull(p) \/ RefreshDelete(p) \/ RefreshCreate(p)
                 \/ AdminCreate \/ AdminDelete
              /\ UNCHANGED clusterVars
<1>1. CASE Reconcile
  <2>1. CASE ReconcileRemoteChanged
    BY <2>1 DEF ReconcileRemoteChanged, RefreshInv, DropUC
  <2> QED
    BY <1>1, <2>1, WaitWritesNothing DEF Reconcile, ReconcileGet, ReconcileRejected,
       ReconcileWait, ReconcileReady, ReconcileRefreshFailed, ReconcileUpgrading,
       ReconcileDone, ReconcileError, PerformUpgradeFailure, RunSteps, StepStops,
       ControlPlaneUpgraded, AllWorkersUpgraded, UpgradeReturns, GetUC, DropUC
<1>2. CASE /\ \E p \in Refreshers : Refresh(p)
           /\ UNCHANGED <<now, recVars, clusterVars, machines, crashes>>
  BY <1>2 DEF Refresh, RefreshGet, RefreshNotConfigured, RefreshConfirm, RefreshError
<1>3. CASE MachineConfigPoolReconcile
  BY <1>3 DEF MachineConfigPoolReconcile, MCPGetPool, MCPGetUpgradeConfig, MCPReturn,
     GetUC, DropUC, mcpFrame
<1>4. CASE /\ ChangePolicy \/ AdminCreate \/ AdminDelete
           /\ UNCHANGED <<now, recVars, clusterVars, machines, crashes>>
  BY <1>4 DEF ChangePolicy
<1>5. CASE Cluster
  BY <1>5 DEF Cluster, RenderPool, UpdateMachine
<1>6. CASE Tick /\ UNCHANGED <<policy, mgrVars, recVars, clusterVars, machines, crashes>>
  BY <1>6 DEF Tick
<1>7. CASE Crash
  BY <1>7 DEF Crash
<1>8. CASE UNCHANGED vars
  BY <1>8 DEF vars
<1> HIDE DEF OperatorInv
<1> QED  BY <1>1, <1>2, <1>3, <1>4, <1>5, <1>6, <1>7, <1>8 DEF Next

\* The status writes of the controllers, each on an object nobody has touched since
\* it was read: which phase follows which, and what UpgradeCluster knows of the
\* ClusterVersion when the end of an upgrade is recorded.
LEMMA StatusWrites ==
    ASSUME OperatorInv
    PROVE  /\ ReconcileHistory \/ ReconcileNew \/ ReconcileStart \/ ReconcileRecord \/ MCPRecord =>
                 /\ uc \in UpgradeConfig /\ uc # Nil /\ uc' \in UpgradeConfig /\ uc' # Nil
                 /\ uc'.spec = uc.spec
                 /\ UNCHANGED <<cv, answers>>
           /\ ReconcileHistory =>
                 /\ uc.phase = "Unknown"
                 /\ uc'.phase = IF cv.desired = uc.spec.version THEN "Upgrading" ELSE "New"
           /\ ReconcileNew => uc.phase = "New" /\ uc'.phase = "Pending"
           /\ ReconcileStart =>
                 /\ uc.phase = "Pending" /\ uc'.phase = "Upgrading"
                 /\ Configured => uc.spec \in answers
           /\ ReconcileRecord =>
                 /\ uc.phase = "Upgrading" /\ uc'.phase = outcome
                 /\ outcome \in {"Upgrading", "Upgraded", "Failed"}
                 /\ outcome = "Upgraded" => cv.desired = uc.spec.version
                 /\ outcome = "Failed" => cv.desired # uc.spec.version
           /\ MCPRecord => uc'.phase = uc.phase
<1>1. \A p \in current : held[p] = uc /\ uc \in UpgradeConfig /\ uc # Nil
  BY DEF CopyInv
<1>2. now \in Nat
  OBVIOUS
<1>3. ASSUME ReconcileHistory
      PROVE  /\ uc \in UpgradeConfig /\ uc # Nil /\ uc.phase = "Unknown"
             /\ uc' = InitialHistory(uc) /\ UNCHANGED <<cv, answers>>
  BY <1>1, <1>3 DEF ReconcileHistory, UpdateStatus, ReconcileInv
<1>4. ASSUME ReconcileNew
      PROVE  /\ uc \in UpgradeConfig /\ uc # Nil /\ uc.phase = "New"
             /\ uc' = [uc EXCEPT !.phase = "Pending"] /\ UNCHANGED <<cv, answers>>
  BY <1>1, <1>4 DEF ReconcileNew, UpdateStatusAndReturn
<1>5. ASSUME ReconcileStart
      PROVE  /\ uc \in UpgradeConfig /\ uc # Nil /\ uc.phase = "Pending"
             /\ uc' = [uc EXCEPT !.phase = "Upgrading", !.startTime = now]
             /\ UNCHANGED <<cv, answers>> /\ (Configured => uc.spec \in answers)
  BY <1>1, <1>5 DEF ReconcileStart, UpdateStatus, ReconcileInv, RefreshInv
<1>6. ASSUME ReconcileRecord
      PROVE  /\ uc \in UpgradeConfig /\ uc # Nil /\ uc.phase = "Upgrading"
             /\ uc' = RecordPhase(uc) /\ UNCHANGED <<cv, answers>>
             /\ outcome \in {"Upgrading", "Upgraded", "Failed"}
             /\ outcome = "Upgraded" => cv.desired = uc.spec.version
             /\ outcome = "Failed" => cv.desired # uc.spec.version
  BY <1>1, <1>6 DEF ReconcileRecord, UpdateStatusAndReturn, ReconcileInv, OutcomeInv,
     HasUpgradeCommenced
<1>7. ASSUME MCPRecord
      PROVE  /\ uc \in UpgradeConfig /\ uc # Nil
             /\ uc' = WorkerTimes(uc, machines) /\ UNCHANGED <<cv, answers>>
  BY <1>1, <1>7 DEF MCPRecord, UpdateStatusAndReturn, mcpFrame
<1> HIDE DEF OperatorInv
<1> USE <1>2 DEF UpgradeConfig, Phases, Times
<1>8. ReconcileHistory =>
        /\ uc' \in UpgradeConfig /\ uc'.spec = uc.spec
        /\ uc'.phase = IF cv.desired = uc.spec.version THEN "Upgrading" ELSE "New"
  <2> SUFFICES ASSUME ReconcileHistory
               PROVE  /\ uc' \in UpgradeConfig /\ uc'.spec = uc.spec
                      /\ uc'.phase = IF cv.desired = uc.spec.version THEN "Upgrading" ELSE "New"
    OBVIOUS
  <2>1. CASE cv.desired = uc.spec.version
    <3>1. uc' = [uc EXCEPT !.phase = "Upgrading", !.startTime = now]
      BY <1>3, <2>1 DEF InitialHistory, HasUpgradeCommenced
    <3> QED  BY <1>3, <2>1, <3>1
  <2>2. CASE cv.desired # uc.spec.version
    <3>1. uc' = [uc EXCEPT !.phase = "New"]
      BY <1>3, <2>2 DEF InitialHistory, HasUpgradeCommenced
    <3> QED  BY <1>3, <2>2, <3>1
  <2> QED  BY <2>1, <2>2
<1>9. ReconcileNew => uc' \in UpgradeConfig /\ uc'.spec = uc.spec /\ uc'.phase = "Pending"
  BY <1>4
<1>10. ReconcileStart => uc' \in UpgradeConfig /\ uc'.spec = uc.spec /\ uc'.phase = "Upgrading"
  BY <1>5
<1>11. ReconcileRecord => uc' \in UpgradeConfig /\ uc'.spec = uc.spec /\ uc'.phase = outcome
  BY <1>6 DEF RecordPhase
<1>12. MCPRecord => uc' \in UpgradeConfig /\ uc'.spec = uc.spec /\ uc'.phase = uc.phase
  BY <1>7 DEF WorkerTimes
<1> HIDE DEF UpgradeConfig
<1> QED
  BY <1>3, <1>4, <1>5, <1>6, <1>7, <1>8, <1>9, <1>10, <1>11, <1>12

\* The phase of an UpgradeConfig never goes back, and Upgraded and Failed are
\* final (every Status().Update of the controllers).
THEOREM PhaseForwardHolds == Spec => PhaseForward
<1> DEFINE Forward == uc # Nil /\ uc' # Nil /\ uc'.phase # uc.phase
                          => PhaseRank[uc'.phase] > PhaseRank[uc.phase]
<1>1. ASSUME OperatorInv, [Next]_vars PROVE Forward
  <2>1. CASE UNCHANGED uc
    BY <2>1
  <2>2. CASE ReconcileHistory \/ ReconcileNew \/ ReconcileStart \/ ReconcileRecord \/ MCPRecord
    <3> HIDE DEF OperatorInv
    <3>1. CASE ReconcileHistory
      <4>1. uc.phase = "Unknown" /\ uc'.phase \in {"Upgrading", "New"}
        BY <1>1, <3>1, StatusWrites
      <4> QED  BY <4>1 DEF PhaseRank
    <3>2. CASE ReconcileNew
      BY <1>1, <3>2, StatusWrites DEF PhaseRank
    <3>3. CASE ReconcileStart
      BY <1>1, <3>3, StatusWrites DEF PhaseRank
    <3>4. CASE ReconcileRecord
      BY <1>1, <3>4, StatusWrites DEF PhaseRank
    <3>5. CASE MCPRecord
      BY <1>1, <3>5, StatusWrites
    <3> QED  BY <2>2, <3>1, <3>2, <3>3, <3>4, <3>5
  <2>3. CASE \/ AdminCreate \/ AdminDelete
             \/ \E p \in Refreshers : RefreshDelete(p) \/ RefreshCreate(p)
    BY <2>3 DEF AdminCreate, AdminDelete, RefreshDelete, RefreshCreate, CreateUC, DeleteUC
  <2> HIDE DEF OperatorInv, Forward
  <2> QED
    BY <1>1, <2>1, <2>2, <2>3, StepsOfTheLifecycle
       DEF CommenceUpgrade, CompleteControlPlane, RefreshPull
<1>2. OperatorInv /\ [Next]_vars => [Forward]_controllerVars
  BY <1>1
<1> HIDE DEF OperatorInv
<1> QED  BY <1>2, OperatorInvariant, PTL DEF Spec, PhaseForward

--------------------------------------------------------------------------------


\* One abstract step: the phase of the UpgradeConfig advances and nothing else the
\* abstract life cycle sees changes.
LEMMA AdvanceStep ==
    ASSUME uc \in UpgradeConfig, uc' \in UpgradeConfig, uc # Nil, uc' # Nil,
           NEW from, NEW to, NEW condition,
           uc.phase = from, uc'.phase = to, uc'.spec = uc.spec, condition,
           cv'.desired = cv.desired, UNCHANGED answers
    PROVE  Lifecycle!Advance(from, to, condition)
BY NilUpgradeAssumption DEF Lifecycle!Advance, upgrade, UpgradeConfig

\* Every step of the operator is a step of the abstract life cycle, or none.
LEMMA NextLifecycle ==
    ASSUME OperatorInv, OperatorInv', [Next]_vars
    PROVE  [Lifecycle!LifecycleNext]_(Lifecycle!lifecycleVars)
<1> USE NilUpgradeAssumption DEF Lifecycle!lifecycleVars
<1>1. CASE UNCHANGED <<uc, cv, answers>>
  BY <1>1 DEF upgrade
<1>2. CASE ReconcileHistory
  <2>1. /\ uc # Nil /\ uc' # Nil /\ uc.phase = "Unknown" /\ uc'.spec = uc.spec
        /\ UNCHANGED <<cv, answers>>
        /\ uc'.phase = IF cv.desired = uc.spec.version THEN "Upgrading" ELSE "New"
    BY <1>2, StatusWrites
  <2>2. Lifecycle!Told <=> cv.desired = uc.spec.version
    BY <2>1 DEF Lifecycle!Told, upgrade
  <2>3. CASE cv.desired = uc.spec.version
    <3>1. Lifecycle!Adopt  BY <2>1, <2>2, <2>3, AdvanceStep DEF Lifecycle!Adopt
    <3> QED  BY <3>1 DEF Lifecycle!LifecycleNext
  <2>4. CASE cv.desired # uc.spec.version
    <3>1. Lifecycle!Observe  BY <2>1, <2>2, <2>4, AdvanceStep DEF Lifecycle!Observe
    <3> QED  BY <3>1 DEF Lifecycle!LifecycleNext
  <2> QED  BY <2>3, <2>4
<1>3. CASE ReconcileNew
  <2>1. /\ uc # Nil /\ uc' # Nil /\ uc.phase = "New" /\ uc'.spec = uc.spec
        /\ UNCHANGED <<cv, answers>> /\ uc'.phase = "Pending"
    BY <1>3, StatusWrites
  <2>2. Lifecycle!Schedule  BY <2>1, AdvanceStep DEF Lifecycle!Schedule
  <2> QED  BY <2>2 DEF Lifecycle!LifecycleNext
<1>4. CASE ReconcileStart
  <2>1. /\ uc # Nil /\ uc' # Nil /\ uc.phase = "Pending" /\ uc'.spec = uc.spec
        /\ UNCHANGED <<cv, answers>> /\ uc'.phase = "Upgrading"
        /\ Configured => uc.spec \in answers
    BY <1>4, StatusWrites
  <2>2. Configured => upgrade.spec \in answers
    BY <2>1 DEF upgrade
  <2>3. Lifecycle!Begin  BY <2>1, <2>2, AdvanceStep DEF Lifecycle!Begin
  <2> QED  BY <2>3 DEF Lifecycle!LifecycleNext
<1>5. CASE CommenceUpgrade
  <2>1. UNCHANGED <<uc, answers>>
    BY <1>5 DEF CommenceUpgrade
  <2>2. CASE cv' = cv
    BY <2>1, <2>2 DEF upgrade
  <2>3. CASE cv' # cv
    <3>1. /\ instance \in UpgradeConfig /\ instance.phase = "Upgrading"
          /\ instance.spec.version > clusterTarget /\ cv'.desired = instance.spec.version
      BY <1>5, <2>3 DEF CommenceUpgrade, EnsureDesiredConfig, IsAvailableUpdate, ReconcileInv
    <3>a. /\ instance.spec \in Specs /\ instance.spec.version \in Nat
          /\ clusterTarget \in Nat /\ InitialVersion <= clusterTarget
      BY <3>1 DEF ClusterInv, UpgradeConfig, clusterTarget
    <3>b. Licensed(instance.spec.version) /\ answers \subseteq Specs
      BY <3>1 DEF LicenceInv, UpgradeConfig
    <3> HIDE DEF OperatorInv
    <3>2. cv'.desired \notin {Nil, InitialVersion}
      BY <3>1, <3>a
    <3>3. \E s \in Specs : (Configured => s \in answers) /\ s.version = instance.spec.version
      BY <3>1, <3>2, <3>a, <3>b DEF Licensed
    <3>4. Lifecycle!Tell
      BY <2>1, <3>1, <3>3 DEF Lifecycle!Tell, upgrade, clusterTarget
    <3> QED  BY <3>4 DEF Lifecycle!LifecycleNext
  <2> QED  BY <2>2, <2>3
<1>6. CASE ReconcileRecord
  <2>1. /\ uc # Nil /\ uc' # Nil /\ uc.phase = "Upgrading" /\ uc'.spec = uc.spec
        /\ UNCHANGED <<cv, answers>> /\ uc'.phase = outcome
        /\ outcome \in {"Upgrading", "Upgraded", "Failed"}
        /\ outcome = "Upgraded" => cv.desired = uc.spec.version
        /\ outcome = "Failed" => cv.desired # uc.spec.version
    BY <1>6, StatusWrites
  <2>2. Lifecycle!Told <=> cv.desired = uc.spec.version
    BY <2>1 DEF Lifecycle!Told, upgrade
  <2>3. CASE outcome = "Upgrading"
    BY <2>1, <2>3 DEF upgrade
  <2>4. CASE outcome = "Upgraded"
    <3>1. Lifecycle!Complete  BY <2>1, <2>2, <2>4, AdvanceStep DEF Lifecycle!Complete
    <3> QED  BY <3>1 DEF Lifecycle!LifecycleNext
  <2>5. CASE outcome = "Failed"
    <3>1. Lifecycle!Fail  BY <2>1, <2>2, <2>5, AdvanceStep DEF Lifecycle!Fail
    <3> QED  BY <3>1 DEF Lifecycle!LifecycleNext
  <2> QED  BY <2>1, <2>3, <2>4, <2>5
<1>7. ASSUME NEW p \in Refreshers, RefreshPull(p), cv' = cv
      PROVE  [Lifecycle!LifecycleNext]_(Lifecycle!lifecycleVars)
  <2>1. CASE answers' = answers
    BY <1>7, <2>1 DEF RefreshPull, upgrade
  <2>2. CASE answers' # answers
    <3>a. policy \in Specs \cup {Nil}
      OBVIOUS
    <3> HIDE DEF OperatorInv
    <3>b. answers' = answers \cup ({policy} \ {Nil}) /\ UNCHANGED uc
      BY <1>7, <2>2 DEF RefreshPull
    <3>1. policy \in Specs /\ answers' = answers \cup {policy}
      BY <2>2, <3>a, <3>b
    <3>2. Lifecycle!Confirm
      BY <1>7, <3>1, <3>b DEF Lifecycle!Confirm, upgrade
    <3> QED  BY <3>2 DEF Lifecycle!LifecycleNext
  <2> QED  BY <2>1, <2>2
<1>8. ASSUME DeleteUC, UNCHANGED <<cv, answers>>
      PROVE  [Lifecycle!LifecycleNext]_(Lifecycle!lifecycleVars)
  <2>1. uc # Nil /\ uc' = Nil
    BY <1>8 DEF DeleteUC
  <2>2. upgrade \in [spec : Specs, phase : Phases]
    BY <2>1 DEF upgrade, UpgradeConfig
  <2> HIDE DEF OperatorInv
  <2>3. Lifecycle!Withdraw
    BY <1>8, <2>1, <2>2 DEF Lifecycle!Withdraw, upgrade
  <2> QED  BY <2>3 DEF Lifecycle!LifecycleNext
<1>9. ASSUME NEW s \in Specs, CreateUC(s), UNCHANGED <<cv, answers>>
      PROVE  [Lifecycle!LifecycleNext]_(Lifecycle!lifecycleVars)
  <2>1. uc' # Nil
    <3>1. NewUpgradeConfig(s) \in UpgradeConfig
      BY DEF NewUpgradeConfig, UpgradeConfig, Phases, Times
    <3> QED  BY <1>9, <3>1 DEF CreateUC
  <2>2. Lifecycle!Request
    BY <1>9, <2>1 DEF CreateUC, NewUpgradeConfig, Lifecycle!Request, upgrade
  <2> QED  BY <2>2 DEF Lifecycle!LifecycleNext
<1>10. CASE MCPRecord
  BY <1>10, StatusWrites DEF upgrade
<1>11. CASE CompleteControlPlane
  BY <1>11 DEF CompleteControlPlane, upgrade
<1>12. ASSUME NEW p \in Refreshers, RefreshDelete(p) \/ RefreshCreate(p), UNCHANGED clusterVars
       PROVE  [Lifecycle!LifecycleNext]_(Lifecycle!lifecycleVars)
  <2>1. RefreshCreate(p) => target[p] \in Specs
    BY DEF RefreshCreate, RefreshInv
  <2> QED  BY <1>8, <1>9, <1>12, <2>1 DEF RefreshDelete, RefreshCreate
<1>13. CASE (AdminCreate \/ AdminDelete) /\ UNCHANGED clusterVars
  BY <1>8, <1>9, <1>13 DEF AdminCreate, AdminDelete
<1> HIDE DEF OperatorInv, Lifecycle!lifecycleVars
<1>14. ASSUME NEW p \in Refreshers, RefreshPull(p), UNCHANGED clusterVars
       PROVE  [Lifecycle!LifecycleNext]_(Lifecycle!lifecycleVars)
  BY <1>7, <1>14
<1> QED
  BY <1>1, <1>2, <1>3, <1>4, <1>5, <1>6, <1>10, <1>11, <1>12, <1>13, <1>14,
     StepsOfTheLifecycle

\* The operator, with its concurrent controllers, its restarts and whatever its
\* surroundings do, implements the abstract life cycle of an upgrade.
THEOREM LifecycleRefinement == Spec => ImplementsLifecycle
<1>1. Init => Lifecycle!LifecycleInit
  BY DEF Init, CRInit, ManagerInit, ControllerInit, Lifecycle!LifecycleInit, upgrade
<1>2. OperatorInv /\ OperatorInv' /\ [Next]_vars
          => [Lifecycle!LifecycleNext]_(Lifecycle!lifecycleVars)
  BY NextLifecycle
<1> HIDE DEF OperatorInv
<1> QED
  BY <1>1, <1>2, OperatorInvariant, PTL DEF Spec, ImplementsLifecycle, Lifecycle!LifecycleSpec
================================================================================
