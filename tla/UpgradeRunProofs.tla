---------------------------- MODULE UpgradeRunProofs ----------------------------
(***************************************************************************)
(* What the steps of an upgrade achieve and leave behind, for any machine  *)
(* sets, any number of workers, any list of steps in the order of the      *)
(* upgraders, and any number of failed calls, stops and attempts.          *)
(***************************************************************************)
EXTENDS UpgradeRun, FiniteSetTheorems, TLAPS

NoExtraSet == \A s \in Originals : mset[s] # "exists"

\* What has been achieved when a step of this condition was passed.
Done(s) ==
    /\ s = "ControlPlaneUpgraded" => cluster = "updated"
    /\ s = "AllWorkerNodesUpgraded" => poolDone
    /\ s = "RemoveControlPlaneMaintWindow" => ~Active(Control) /\ ~Active(Critical)
    /\ s = "RemoveMaintWindow" => \A n \in 1..Nodes : ~Active(Worker(n))
    /\ s = "RemoveExtraScaledNodes" =>
        NoExtraSet /\ (capacityReservation => \A t \in Originals : machine[t] = "none")

DoneUpTo(k) == \A j \in 1..k : Done(StepList[j])

Types ==
    /\ mset \in [Originals -> {"none", "exists", "deleting"}]
    /\ machine \in [Originals -> {"none", "provisioning", "ready"}]
    /\ silence \in [Comments -> Int]
    /\ phase \in {"upgrading", "upgraded", "failed"}
    /\ capacityReservation \in BOOLEAN
    /\ at \in 0..Len(StepList)
    /\ cluster \in {"before", "commenced", "updated"}
    /\ pending \in Nat
    /\ poolDone \in BOOLEAN

\* A run has achieved what the steps before its own are for, an upgraded cluster what
\* all steps are for.
ProgressInv ==
    /\ at # 0 => phase = "upgrading" /\ DoneUpTo(at - 1)
    /\ phase = "upgraded" => DoneUpTo(Len(StepList))

SetsInv ==
    /\ phase = "failed" => cluster = "before" /\ NoExtraSet
    /\ phase = "upgrading" /\ ~capacityReservation => NoExtraSet
    /\ cluster = "updated" => poolDone \/ pending > 0

SilenceInv ==
    \A m, n \in 1..Nodes : Active(Worker(m)) /\ Active(Worker(n)) => m = n

UpgradeRunInv == Types /\ ProgressInv /\ SetsInv /\ SilenceInv

--------------------------------------------------------------------------------
\* The maintenance windows.

Silences == silence \in [Comments -> Int]

Quieter == \A c \in Comments : Active(c)' => Active(c)

\* The comments of the silences.
LEMMA CommentShapes ==
    /\ Control \in Comments /\ Critical \in Comments
    /\ Control[1] = "control" /\ Critical[1] = "critical"
    /\ \A n \in 1..Nodes : Worker(n) \in Comments /\ Worker(n)[1] = "worker" /\ Worker(n) # Control /\ Worker(n) # Critical
    /\ \A m, n : Worker(m) = Worker(n) => m = n
    /\ \A n : Worker(n) # Control /\ Worker(n) # Critical
    /\ \A c \in Comments : c[1] = "worker" => \E n \in 1..Nodes : c = Worker(n)
BY DEF Comments, Control, Critical, Worker

\* The duration of a worker silence is a number.
LEMMA DurationNat == ASSUME NEW n \in Nat PROVE WorkerDuration(n) \in Nat
<1>1. \A a, b \in Nat : a * b \in Nat
    OBVIOUS
<1> QED BY <1>1, MaintenanceAssumption DEF WorkerDuration

\* StartControlPlane leaves the worker silences alone.
LEMMA StartControlPlaneProps ==
    ASSUME NEW err, Silences, StartControlPlane(err)
    PROVE  /\ Silences'
           /\ \A n \in 1..Nodes : silence'[Worker(n)] = silence[Worker(n)]
<1>1. ASSUME NEW new \in SUBSET {Control, Critical}, Create(new, ControlPlaneDuration)
      PROVE  Silences' /\ \A n \in 1..Nodes : silence'[Worker(n)] = silence[Worker(n)]
    BY <1>1, CommentShapes, MaintenanceAssumption DEF Create, Silences
<1>2. CASE silence' = silence
    BY <1>2 DEF Silences
<1> QED BY <1>1, <1>2 DEF StartControlPlane

\* SetWorker keeps one worker silence at most, and leaves the others alone.
LEMMA SetWorkerProps ==
    ASSUME NEW count \in Nat, NEW err, Silences, SilenceInv, SetWorker(count, err)
    PROVE  /\ Silences' /\ SilenceInv'
           /\ silence'[Control] = silence[Control] /\ silence'[Critical] = silence[Critical]
<1>1. CASE silence' = silence
    BY <1>1 DEF Silences, SilenceInv, Active
<1>2. CASE silence' # silence
    <2> DEFINE old == {c \in Comments : c[1] = "worker" /\ Active(c)}
    <2>1. PICK deleted \in SUBSET old :
            /\ old \subseteq deleted
            /\ \/ Delete(deleted)
               \/ silence' = [c \in Comments |-> IF c = Worker(count) THEN WorkerDuration(count)
                                                  ELSE IF c \in deleted THEN 0 ELSE silence[c]]
        <3>1. \A c, d \in old : c = d
            BY CommentShapes DEF SilenceInv
        <3>2. \A deleted \in {{c} : c \in old} \cup (IF old = {} THEN {{}} ELSE {}) : deleted \in SUBSET old /\ old \subseteq deleted
            BY <3>1
        <3> QED BY <1>2, <3>2 DEF SetWorker
    <2>2. \A n \in 1..Nodes : Worker(n) \in deleted \/ ~Active(Worker(n))
        BY <2>1, CommentShapes
    <2>3. Control \notin deleted /\ Critical \notin deleted
        BY <2>1, CommentShapes
    <2>4. CASE Delete(deleted)
        BY <2>2, <2>3, <2>4, CommentShapes DEF Delete, Silences, SilenceInv, Active
    <2>5. CASE silence' = [c \in Comments |-> IF c = Worker(count) THEN WorkerDuration(count)
                                                  ELSE IF c \in deleted THEN 0 ELSE silence[c]]
        <3>1. Silences'
            BY <2>5, DurationNat DEF Silences
        <3>2. \A n \in 1..Nodes : Active(Worker(n))' => n = count
            BY <2>2, <2>5, CommentShapes DEF Active
        <3> QED BY <2>3, <2>5, <3>1, <3>2, CommentShapes DEF SilenceInv
    <2> QED BY <2>1, <2>4, <2>5
<1> QED BY <1>1, <1>2

\* EndSilences makes no silence active; without an error none of the kinds is left.
LEMMA EndSilencesProps ==
    ASSUME NEW kinds, NEW err, Silences, EndSilences(kinds, err)
    PROVE  /\ Silences' /\ Quieter
           /\ ~err => \A c \in Comments : c[1] \in kinds => ~Active(c)'
<1> DEFINE active == {c \in Comments : c[1] \in kinds /\ Active(c)}
<1>1. PICK deleted \in SUBSET active : (err \/ deleted = active) /\ Delete(deleted)
    BY DEF EndSilences
<1> QED BY <1>1 DEF Delete, Silences, Quieter, Active

\* With time, silences only end.
LEMMA TimeProps ==
    ASSUME Silences, SilencesTick \/ \E c \in Comments : Forget(c)
    PROVE  Silences' /\ Quieter
<1>1. CASE SilencesTick
    BY <1>1 DEF SilencesTick, Silences, Quieter, Active
<1>2. ASSUME NEW c \in Comments, Forget(c) PROVE Silences' /\ Quieter
    BY <1>2 DEF Forget, Silences, Quieter, Active, None
<1> QED BY <1>1, <1>2

\* Fewer active silences keep one worker silence at most.
LEMMA QuieterKeeps == SilenceInv /\ Quieter => SilenceInv'
BY CommentShapes DEF SilenceInv, Quieter

--------------------------------------------------------------------------------
\* The scaler.

ScalerTypes ==
    /\ mset \in [Originals -> {"none", "exists", "deleting"}]
    /\ machine \in [Originals -> {"none", "provisioning", "ready"}]

NoMachine == \A s \in Originals : machine[s] = "none"

\* Scaling up changes the sets only.
LEMMA ScaleUpProps ==
    ASSUME ScalerTypes, NEW res, EnsureScaleUpNodes(res)
    PROVE  ScalerTypes' /\ machine' = machine
<1>1. CASE UNCHANGED <<mset, machine, age>>
    BY <1>1 DEF ScalerTypes
<1>2. ASSUME NEW new, CreateSets(new), UNCHANGED machine PROVE ScalerTypes'
    BY <1>2 DEF CreateSets, ScalerTypes
<1> QED BY <1>1, <1>2 DEF EnsureScaleUpNodes

\* Scaling down makes no set, and leaves none unless it fails; it reports the machines as
\* they are.
LEMMA ScaleDownProps ==
    ASSUME ScalerTypes, NEW drained, NEW res, EnsureScaleDownNodes(drained, res)
    PROVE  /\ ScalerTypes' /\ machine' = machine
           /\ NoExtraSet => NoExtraSet'
           /\ res # "error" => NoExtraSet'
           /\ res = "removed" => NoMachine
BY DEF EnsureScaleDownNodes, ScalerTypes, NoExtraSet, NoMachine

\* The machine API makes no set, and no machine without a set.
LEMMA MachineProps ==
    ASSUME ScalerTypes, MachineAPI
    PROVE  /\ ScalerTypes'
           /\ NoExtraSet => NoExtraSet'
           /\ NoExtraSet /\ NoMachine => NoMachine'
<1>1. PICK s \in Originals : MachineCreated(s) \/ NodeReady(s) \/ NodeNotReady(s) \/ MachineRemoved(s) \/ SetRemoved(s)
    BY DEF MachineAPI
<1> USE DEF ScalerTypes, NoExtraSet, NoMachine
<1>2. CASE MachineCreated(s) BY <1>2 DEF MachineCreated
<1>3. CASE NodeReady(s)      BY <1>3 DEF NodeReady
<1>4. CASE NodeNotReady(s)   BY <1>4 DEF NodeNotReady
<1>5. CASE MachineRemoved(s) BY <1>5 DEF MachineRemoved
<1>6. CASE SetRemoved(s)     BY <1>6 DEF SetRemoved
<1> QED BY <1>1, <1>2, <1>3, <1>4, <1>5, <1>6

--------------------------------------------------------------------------------
\* The runner.

\* A step of the runner or of the cluster does not undo what the step t achieved.
Kept(t) ==
    /\ capacityReservation' = capacityReservation
    /\ cluster = "updated" => cluster' = "updated"
    /\ poolDone => poolDone'
    /\ t = "RemoveControlPlaneMaintWindow" =>
        (Active(Control)' => Active(Control)) /\ (Active(Critical)' => Active(Critical))
    /\ t = "RemoveMaintWindow" => \A n \in 1..Nodes : Active(Worker(n))' => Active(Worker(n))
    /\ t = "RemoveExtraScaledNodes" => (NoExtraSet => NoExtraSet') /\ (NoExtraSet /\ NoMachine => NoMachine')

\* A step that was passed then stays passed.
LEMMA DoneStays == ASSUME NEW t, Done(t), Kept(t) PROVE Done(t)'
BY DEF Done, Kept, NoMachine

\* A run goes on to the next step, ends the upgrade, or ends.
LEMMA Advance ==
    ASSUME Types, NEW k \in Nat \ {0}, at = k, phase = "upgrading", Pass \/ Stop,
           \A j \in 1..(k - 1) : Done(StepList[j])',
           Pass => Done(StepList[k])'
    PROVE  ProgressInv' /\ at' \in 0..Len(StepList) /\ phase' \in {"upgrading", "upgraded"}
<1>1. Len(StepList) \in Nat /\ at \in 1..Len(StepList)
    BY StepListAssumption DEF Types
<1>2. CASE Stop
    BY <1>1, <1>2 DEF Stop, ProgressInv
<1>3. CASE Pass
    <2>1. \A j \in 1..k : Done(StepList[j])'
        BY <1>1, <1>3
    <2>2. CASE at = Len(StepList)
        <3>1. at' = 0 /\ phase' = "upgraded"
            BY <1>3, <2>2 DEF Pass
        <3>2. \A j \in 1..Len(StepList) : Done(StepList[j])'
            BY <2>1, <2>2
        <3> QED BY <1>1, <3>1, <3>2 DEF ProgressInv, DoneUpTo
    <2>3. CASE at # Len(StepList)
        <3>1. at' = at + 1 /\ phase' = "upgrading" /\ at' - 1 = k
            BY <1>1, <1>3, <2>3 DEF Pass
        <3> QED BY <1>1, <2>1, <2>3, <3>1 DEF ProgressInv, DoneUpTo
    <2> QED BY <2>2, <2>3
<1> QED BY <1>2, <1>3

\* A step that comes first is not passed by a run that is at a later one of the list.
LEMMA OrderOfSteps ==
    ASSUME NEW s, NEW t, <<s, t>> \in StepPairs, at \in 1..Len(StepList), StepList[at] = s
    PROVE  \A j \in 1..(at - 1) : StepList[j] # t
BY StepListAssumption DEF Precedes

\* One step of a run.
LEMMA RunStep ==
    ASSUME UpgradeRunInv, NEW k \in Nat \ {0}, at = k, Pass \/ Stop,
           \A j \in 1..(k - 1) : Kept(StepList[j]),
           Pass => Done(StepList[k])'
    PROVE  ProgressInv' /\ at' \in 0..Len(StepList) /\ phase' \in {"upgrading", "upgraded"}
<1>1. phase = "upgrading" /\ \A j \in 1..(k - 1) : Done(StepList[j])
    BY DEF UpgradeRunInv, ProgressInv, DoneUpTo
<1>2. \A j \in 1..(k - 1) : Done(StepList[j])'
    BY <1>1, DoneStays
<1> QED BY <1>1, <1>2, Advance DEF UpgradeRunInv

\* A step of the cluster.
LEMMA ClusterStep ==
    ASSUME UpgradeRunInv, \A t : Kept(t), UNCHANGED <<at, phase>>
    PROVE  ProgressInv'
<1>1. ASSUME NEW n, DoneUpTo(n), n = at - 1 \/ n = Len(StepList) PROVE \A j \in 1..n : Done(StepList[j])'
    BY <1>1, DoneStays DEF DoneUpTo
<1>2. ASSUME at' # 0 PROVE phase' = "upgrading" /\ DoneUpTo(at - 1)'
    <2>1. \A j \in 1..(at - 1) : Done(StepList[j])'
        BY <1>1, <1>2 DEF UpgradeRunInv, ProgressInv
    <2> QED BY <1>2, <2>1 DEF UpgradeRunInv, ProgressInv, DoneUpTo
<1>3. ASSUME phase' = "upgraded" PROVE DoneUpTo(Len(StepList))'
    <2>1. \A j \in 1..Len(StepList) : Done(StepList[j])'
        BY <1>1, <1>3 DEF UpgradeRunInv, ProgressInv
    <2> QED BY <2>1 DEF DoneUpTo
<1> QED BY <1>2, <1>3 DEF ProgressInv

SameState == UNCHANGED <<mset, machine, silence, capacityReservation, cluster, pending, poolDone>>

\* A step that changes nothing of the cluster undoes nothing.
LEMMA SameKept ==
    ASSUME SameState
    PROVE  /\ \A t : Kept(t)
           /\ \A t : Done(t) => Done(t)'
           /\ SilenceInv => SilenceInv'
           /\ NoExtraSet => NoExtraSet'
<1>1. \A t : Kept(t)
    BY DEF SameState, Kept, NoExtraSet, NoMachine, Active
<1> QED BY <1>1, DoneStays DEF SameState, SilenceInv, NoExtraSet, Active

\* A step of a run that changes nothing of the cluster.
LEMMA SameStep ==
    ASSUME UpgradeRunInv, at # 0, Pass \/ Stop, SameState,
           Pass => Done(StepList[at])
    PROVE  UpgradeRunInv'
<1>1. PICK k \in Nat \ {0} : at = k
    BY StepListAssumption DEF UpgradeRunInv, Types
<1>2. Pass => Done(StepList[k])'
    BY <1>1, SameKept
<1>3. ProgressInv' /\ at' \in 0..Len(StepList) /\ phase' \in {"upgrading", "upgraded"}
    BY <1>1, <1>2, SameKept, RunStep
<1>4. phase = "upgrading"
    BY DEF UpgradeRunInv, ProgressInv
<1>5. Types'
    BY <1>3 DEF UpgradeRunInv, Types, SameState
<1>6. SetsInv'
    BY <1>3, <1>4, SameKept DEF UpgradeRunInv, SetsInv, SameState
<1> QED BY <1>3, <1>5, <1>6, SameKept DEF UpgradeRunInv

\* A run that ends does not pass its step.
LEMMA StopIsNoPass == ASSUME UpgradeRunInv, at # 0, Stop PROVE ~Pass
BY StepListAssumption DEF Stop, Pass, UpgradeRunInv, ProgressInv, Types

--------------------------------------------------------------------------------
\* The steps.

\* The checks, and the steps that wait for the control plane and for the workers.
LEMMA ChecksInv ==
    ASSUME UpgradeRunInv,
           \/ \E s \in EarlyChecks : EarlyCheck(s)
           \/ \E s \in LateChecks : LateCheck(s)
           \/ ControlPlaneUpgraded
           \/ AllWorkersUpgraded
    PROVE  UpgradeRunInv'
<1>1. ASSUME NEW s \in EarlyChecks, EarlyCheck(s) PROVE UpgradeRunInv'
    <2>1. Done(s)
        BY DEF EarlyChecks, Done
    <2> QED BY <1>1, <2>1, SameStep DEF EarlyCheck, Step, SameState, scalerVars, systemVars
<1>2. ASSUME NEW s \in LateChecks, LateCheck(s) PROVE UpgradeRunInv'
    <2>1. Done(s)
        BY DEF LateChecks, Done
    <2> QED BY <1>2, <2>1, SameStep DEF LateCheck, Step, SameState, scalerVars, systemVars
<1>3. CASE ControlPlaneUpgraded
    <2>1. cluster = "updated" => Done("ControlPlaneUpgraded")
        BY DEF Done
    <2>2. CASE cluster = "updated"
        BY <1>3, <2>1, <2>2, SameStep DEF ControlPlaneUpgraded, Step, SameState, scalerVars, systemVars
    <2>3. CASE cluster # "updated"
        <3>1. ~Pass /\ Stop
            BY <1>3, <2>3, StopIsNoPass DEF ControlPlaneUpgraded, Step
        <3> QED BY <1>3, <2>3, <3>1, SameStep DEF ControlPlaneUpgraded, Step, SameState, scalerVars, systemVars
    <2> QED BY <2>2, <2>3
<1>4. CASE AllWorkersUpgraded
    <2>1. PICK k \in 1..Len(StepList) : at = k /\ StepList[k] = "AllWorkerNodesUpgraded"
        BY <1>4, StepListAssumption DEF AllWorkersUpgraded, Step, UpgradeRunInv, Types
    <2>2. PICK i \in DOMAIN StepList : StepList[i] = "ControlPlaneUpgraded"
        BY StepListAssumption DEF RequiredSteps
    <2>3. i \in 1..(k - 1)
        <3>1. Precedes("ControlPlaneUpgraded", "AllWorkerNodesUpgraded")
            BY StepListAssumption DEF StepPairs
        <3> QED BY <2>1, <2>2, <3>1, StepListAssumption DEF Precedes
    <2>4. cluster = "updated"
        <3>1. DoneUpTo(k - 1)
            BY <2>1 DEF UpgradeRunInv, ProgressInv
        <3>2. Done("ControlPlaneUpgraded")
            BY <2>2, <2>3, <3>1 DEF DoneUpTo
        <3> QED BY <3>2 DEF Done
    <2>5. pending = 0 => Done("AllWorkerNodesUpgraded")
        BY <2>4 DEF Done, UpgradeRunInv, SetsInv
    <2>6. CASE pending = 0
        BY <1>4, <2>5, <2>6, SameStep DEF AllWorkersUpgraded, Step, SameState, scalerVars, systemVars
    <2>7. CASE pending # 0
        <3>1. ~Pass /\ Stop
            BY <1>4, <2>7, StopIsNoPass DEF AllWorkersUpgraded, Step, UpgradeRunInv, Types
        <3> QED BY <1>4, <2>7, <3>1, SameStep DEF AllWorkersUpgraded, Step, SameState, scalerVars, systemVars
    <2> QED BY <2>6, <2>7
<1> QED BY <1>1, <1>2, <1>3, <1>4

\* The step a run is at, as a constant.
LEMMA AtStep ==
    ASSUME UpgradeRunInv, NEW s, Step(s)
    PROVE  /\ \E k \in 1..Len(StepList) : at = k /\ StepList[k] = s
           /\ Len(StepList) \in Nat /\ phase = "upgrading" /\ at \in 1..Len(StepList)
BY StepListAssumption DEF UpgradeRunInv, Types, ProgressInv, Step

\* The extra sets are created before the step that removes them, and only if they are asked for.
LEMMA EnsureExtraUpgradeWorkersInv ==
    ASSUME UpgradeRunInv, EnsureExtraUpgradeWorkers PROVE UpgradeRunInv'
<1>1. Step("ScaleUpExtraNodes") /\ phase = "upgrading" /\ Len(StepList) \in Nat
    BY AtStep DEF EnsureExtraUpgradeWorkers
<1>2. PICK k \in 1..Len(StepList) : at = k /\ StepList[k] = "ScaleUpExtraNodes"
    BY <1>1, AtStep
<1>3. Pass \/ Stop
    BY DEF EnsureExtraUpgradeWorkers
<1>4. CASE SkipScaling \/ commenced
    <2>1. SameState
        BY <1>4 DEF EnsureExtraUpgradeWorkers, SameState, scalerVars, systemVars
    <2>2. Done("ScaleUpExtraNodes")
        BY DEF Done
    <2> QED BY <1>1, <1>3, <2>1, <2>2, SameStep DEF Step
<1>5. CASE ~(SkipScaling \/ commenced)
    <2>1. PICK res \in ScaleUpResults : EnsureScaleUpNodes(res)
        BY <1>5 DEF EnsureExtraUpgradeWorkers
    <2>2. ScalerTypes' /\ machine' = machine
        BY <2>1, ScaleUpProps DEF UpgradeRunInv, Types, ScalerTypes
    <2>3. UNCHANGED <<silence, capacityReservation, cluster, pending, poolDone>>
        BY DEF EnsureExtraUpgradeWorkers, systemVars
    <2>4. \A j \in 1..(k - 1) : StepList[j] # "RemoveExtraScaledNodes"
        BY <1>2, OrderOfSteps DEF StepPairs
    <2>5. \A j \in 1..(k - 1) : Kept(StepList[j])
        BY <2>3, <2>4 DEF Kept, Active
    <2>6. Done(StepList[k])'
        BY <1>2 DEF Done
    <2>7. ProgressInv' /\ at' \in 0..Len(StepList) /\ phase' \in {"upgrading", "upgraded"}
        BY <1>2, <1>3, <2>5, <2>6, RunStep
    <2>8. Types'
        BY <2>2, <2>3, <2>7 DEF UpgradeRunInv, Types, ScalerTypes
    <2>9. SetsInv' /\ SilenceInv'
        BY <1>5, <2>3, <2>7 DEF UpgradeRunInv, SetsInv, SilenceInv, SkipScaling, Active
    <2> QED BY <2>7, <2>8, <2>9 DEF UpgradeRunInv
<1> QED BY <1>4, <1>5

\* What a step that changes only the silences has to show.
LEMMA SilenceStep ==
    ASSUME UpgradeRunInv, NEW k \in Nat \ {0}, at = k, Pass \/ Stop,
           UNCHANGED <<mset, machine, capacityReservation, cluster, pending, poolDone>>,
           Silences', SilenceInv',
           \A j \in 1..(k - 1) : Kept(StepList[j]),
           Pass => Done(StepList[k])'
    PROVE  UpgradeRunInv'
<1>1. ProgressInv' /\ at' \in 0..Len(StepList) /\ phase' \in {"upgrading", "upgraded"}
    BY RunStep
<1>2. phase = "upgrading"
    BY DEF UpgradeRunInv, ProgressInv
<1>3. Types'
    BY <1>1 DEF UpgradeRunInv, Types, Silences
<1>4. SetsInv'
    BY <1>1, <1>2 DEF UpgradeRunInv, SetsInv, NoExtraSet
<1> QED BY <1>1, <1>3, <1>4 DEF UpgradeRunInv

\* The control plane silences are created before the step that ends them.
LEMMA CreateControlPlaneMaintWindowInv ==
    ASSUME UpgradeRunInv, CreateControlPlaneMaintWindow PROVE UpgradeRunInv'
<1>1. PICK k \in 1..Len(StepList) : at = k /\ StepList[k] = "ControlPlaneMaintWindow"
    BY AtStep DEF CreateControlPlaneMaintWindow
<1>2. UNCHANGED <<mset, machine, capacityReservation, cluster, pending, poolDone>>
    BY DEF CreateControlPlaneMaintWindow, scalerVars, systemVars
<1>3. Silences' /\ \A n \in 1..Nodes : silence'[Worker(n)] = silence[Worker(n)]
    BY StartControlPlaneProps DEF CreateControlPlaneMaintWindow, UpgradeRunInv, Types, Silences
<1>4. SilenceInv'
    BY <1>3 DEF UpgradeRunInv, SilenceInv, Active
<1>5. \A j \in 1..(k - 1) : StepList[j] # "RemoveControlPlaneMaintWindow"
    BY <1>1, OrderOfSteps DEF StepPairs
<1>6. \A j \in 1..(k - 1) : Kept(StepList[j])
    BY <1>2, <1>3, <1>5 DEF Kept, Active, NoExtraSet, NoMachine
<1>7. Done(StepList[k])'
    BY <1>1 DEF Done
<1>8. Pass \/ Stop
    BY DEF CreateControlPlaneMaintWindow
<1>9. k \in Nat \ {0}
    OBVIOUS
<1> QED BY <1>1, <1>2, <1>3, <1>4, <1>6, <1>7, <1>8, <1>9, SilenceStep

\* They are all ended when the step passes.
LEMMA RemoveControlPlaneMaintWindowInv ==
    ASSUME UpgradeRunInv, RemoveControlPlaneMaintWindow PROVE UpgradeRunInv'
<1>1. PICK k \in 1..Len(StepList) : at = k /\ StepList[k] = "RemoveControlPlaneMaintWindow"
    BY AtStep DEF RemoveControlPlaneMaintWindow
<1>2. UNCHANGED <<mset, machine, capacityReservation, cluster, pending, poolDone>>
    BY DEF RemoveControlPlaneMaintWindow, scalerVars, systemVars
<1>3. Silences' /\ Quieter
    BY EndSilencesProps DEF RemoveControlPlaneMaintWindow, EndControlPlane, UpgradeRunInv, Types, Silences
<1>4. SilenceInv'
    BY <1>3, QuieterKeeps DEF UpgradeRunInv
<1>5. \A j \in 1..(k - 1) : Kept(StepList[j])
    BY <1>2, <1>3, CommentShapes DEF Kept, Quieter, NoExtraSet, NoMachine
<1>6. CASE EndControlPlane(FALSE) /\ Pass
    <2>1. \A c \in Comments : c[1] \in {"control", "critical"} => ~Active(c)'
        BY <1>6, EndSilencesProps DEF EndControlPlane, UpgradeRunInv, Types, Silences
    <2>2. Done(StepList[k])'
        BY <1>1, <2>1, CommentShapes DEF Done
    <2> QED BY <1>1, <1>2, <1>3, <1>4, <1>5, <1>6, <2>2, SilenceStep
<1>7. CASE Stop
    <2>1. ~Pass
        BY <1>7, StopIsNoPass DEF RemoveControlPlaneMaintWindow, Step
    <2> QED BY <1>1, <1>2, <1>3, <1>4, <1>5, <1>7, <2>1, SilenceStep
<1> QED BY <1>6, <1>7 DEF RemoveControlPlaneMaintWindow

\* The worker silence is created before the step that ends it.
LEMMA CreateWorkerMaintWindowInv ==
    ASSUME UpgradeRunInv, CreateWorkerMaintWindow PROVE UpgradeRunInv'
<1>1. PICK k \in 1..Len(StepList) : at = k /\ StepList[k] = "WorkersMaintWindow"
    BY AtStep DEF CreateWorkerMaintWindow
<1>2. UNCHANGED <<mset, machine, capacityReservation, cluster, pending, poolDone>>
    BY DEF CreateWorkerMaintWindow, scalerVars, systemVars
<1>3. /\ Silences' /\ SilenceInv'
      /\ silence'[Control] = silence[Control] /\ silence'[Critical] = silence[Critical]
    <2>1. Silences /\ SilenceInv /\ pending \in Nat
        BY DEF UpgradeRunInv, Types, Silences
    <2>2. CASE UNCHANGED silence
        BY <2>1, <2>2 DEF Silences, SilenceInv, Active
    <2>3. ASSUME NEW err, SetWorker(pending, err)
          PROVE  /\ Silences' /\ SilenceInv'
                 /\ silence'[Control] = silence[Control] /\ silence'[Critical] = silence[Critical]
        BY <2>1, <2>3, SetWorkerProps
    <2> QED BY <2>2, <2>3 DEF CreateWorkerMaintWindow
<1>4. \A j \in 1..(k - 1) : StepList[j] # "RemoveMaintWindow"
    BY <1>1, OrderOfSteps DEF StepPairs
<1>5. \A j \in 1..(k - 1) : Kept(StepList[j])
    BY <1>2, <1>3, <1>4 DEF Kept, Active, NoExtraSet, NoMachine
<1>6. Done(StepList[k])'
    BY <1>1 DEF Done
<1>7. Pass \/ Stop
    BY DEF CreateWorkerMaintWindow
<1>8. k \in Nat \ {0}
    OBVIOUS
<1> QED BY <1>1, <1>2, <1>3, <1>5, <1>6, <1>7, <1>8, SilenceStep

\* All worker silences are ended when the step passes.
LEMMA RemoveMaintWindowInv ==
    ASSUME UpgradeRunInv, RemoveMaintWindow PROVE UpgradeRunInv'
<1>1. PICK k \in 1..Len(StepList) : at = k /\ StepList[k] = "RemoveMaintWindow"
    BY AtStep DEF RemoveMaintWindow
<1>2. UNCHANGED <<mset, machine, capacityReservation, cluster, pending, poolDone>>
    BY DEF RemoveMaintWindow, scalerVars, systemVars
<1>3. Silences' /\ Quieter
    BY EndSilencesProps DEF RemoveMaintWindow, EndWorker, UpgradeRunInv, Types, Silences
<1>4. SilenceInv'
    BY <1>3, QuieterKeeps DEF UpgradeRunInv
<1>5. \A j \in 1..(k - 1) : Kept(StepList[j])
    BY <1>2, <1>3, CommentShapes DEF Kept, Quieter, NoExtraSet, NoMachine
<1>6. CASE EndWorker(FALSE) /\ Pass
    <2>1. \A c \in Comments : c[1] \in {"worker"} => ~Active(c)'
        BY <1>6, EndSilencesProps DEF EndWorker, UpgradeRunInv, Types, Silences
    <2>2. Done(StepList[k])'
        BY <1>1, <2>1, CommentShapes DEF Done
    <2> QED BY <1>1, <1>2, <1>3, <1>4, <1>5, <1>6, <2>2, SilenceStep
<1>7. CASE Stop
    <2>1. ~Pass
        BY <1>7, StopIsNoPass DEF RemoveMaintWindow, Step
    <2> QED BY <1>1, <1>2, <1>3, <1>4, <1>5, <1>7, <2>1, SilenceStep
<1> QED BY <1>6, <1>7 DEF RemoveMaintWindow

\* Commencing undoes nothing.
LEMMA CommenceUpgradeInv ==
    ASSUME UpgradeRunInv, CommenceUpgrade PROVE UpgradeRunInv'
<1>1. PICK k \in 1..Len(StepList) : at = k /\ StepList[k] = "CommenceUpgrade"
    BY AtStep DEF CommenceUpgrade
<1>2. /\ UNCHANGED <<mset, machine, silence, capacityReservation, pending, poolDone>>
      /\ cluster' = cluster \/ (cluster = "before" /\ cluster' = "commenced")
    BY DEF CommenceUpgrade, scalerVars, commenced
<1>3. \A j \in 1..(k - 1) : Kept(StepList[j])
    BY <1>2 DEF Kept, Active, NoExtraSet, NoMachine
<1>4. Done(StepList[k])'
    BY <1>1 DEF Done
<1>5. ProgressInv' /\ at' \in 0..Len(StepList) /\ phase' \in {"upgrading", "upgraded"} /\ phase = "upgrading"
    BY <1>1, <1>3, <1>4, RunStep DEF CommenceUpgrade, UpgradeRunInv, ProgressInv
<1>6. Types'
    BY <1>2, <1>5 DEF UpgradeRunInv, Types
<1>7. SetsInv' /\ SilenceInv'
    BY <1>2, <1>5 DEF UpgradeRunInv, SetsInv, SilenceInv, NoExtraSet, Active
<1> QED BY <1>5, <1>6, <1>7 DEF UpgradeRunInv

\* The sets are removed by this step, or there are none to remove.
LEMMA RemoveExtraScaledNodesInv ==
    ASSUME UpgradeRunInv, RemoveExtraScaledNodes PROVE UpgradeRunInv'
<1>1. PICK k \in 1..Len(StepList) : at = k /\ StepList[k] = "RemoveExtraScaledNodes"
    BY AtStep DEF RemoveExtraScaledNodes
<1>2. phase = "upgrading" /\ at # 0
    BY AtStep DEF RemoveExtraScaledNodes, Step
<1>3. CASE SkipScaling
    <2>1. Done(StepList[at])
        <3>1. CASE ~capacityReservation
            BY <1>1, <1>2, <3>1 DEF Done, UpgradeRunInv, SetsInv
        <3>2. CASE ~CanScale /\ ~ExtraMachinePools
            BY <1>1, <3>2, ScalerAssumption DEF Done, CanScale, Originals, NoExtraSet
        <3> QED BY <1>3, <3>1, <3>2 DEF SkipScaling
    <2>2. Pass /\ SameState
        BY <1>3 DEF RemoveExtraScaledNodes, SameState, scalerVars, systemVars
    <2> QED BY <1>2, <2>1, <2>2, SameStep
<1>4. CASE ~SkipScaling
    <2>1. PICK drained \in BOOLEAN, res \in ScaleDownResults :
            /\ EnsureScaleDownNodes(drained, res)
            /\ (res = "removed" /\ Pass) \/ Stop
        BY <1>4 DEF RemoveExtraScaledNodes, ScaleDownResults
    <2>2. /\ ScalerTypes' /\ machine' = machine /\ (NoExtraSet => NoExtraSet')
          /\ res = "removed" => NoExtraSet' /\ NoMachine
        BY <2>1, ScaleDownProps DEF UpgradeRunInv, Types, ScalerTypes
    <2>3. UNCHANGED <<silence, capacityReservation, cluster, pending, poolDone>>
        BY DEF RemoveExtraScaledNodes, systemVars
    <2>4. \A j \in 1..(k - 1) : Kept(StepList[j])
        BY <2>2, <2>3 DEF Kept, Active, NoMachine
    <2>5. Pass => Done(StepList[k])'
        <3>1. CASE res = "removed"
            BY <1>1, <2>2, <3>1 DEF Done, NoMachine
        <3>2. CASE Stop
            BY <1>2, <3>2, StopIsNoPass
        <3> QED BY <2>1, <3>1, <3>2
    <2>6. ProgressInv' /\ at' \in 0..Len(StepList) /\ phase' \in {"upgrading", "upgraded"}
        BY <1>1, <2>1, <2>4, <2>5, RunStep
    <2>7. Types'
        BY <2>2, <2>3, <2>6 DEF UpgradeRunInv, Types, ScalerTypes
    <2>8. SetsInv' /\ SilenceInv'
        BY <1>2, <2>2, <2>3, <2>6 DEF UpgradeRunInv, SetsInv, SilenceInv, Active
    <2> QED BY <2>6, <2>7, <2>8 DEF UpgradeRunInv
<1> QED BY <1>3, <1>4

--------------------------------------------------------------------------------
\* Between the runs, and the cluster.

\* A failure removes the sets; a run begins, ends, or is followed by a new attempt.
LEMMA BetweenRunsInv ==
    ASSUME UpgradeRunInv, performUpgradeFailure \/ UpgradeCluster \/ Stopped \/ TryAgain
    PROVE  UpgradeRunInv'
<1>1. Len(StepList) \in Nat \ {0}
    BY StepListAssumption DEF RequiredSteps
<1>2. CASE performUpgradeFailure
    <2>1. PICK res \in ScaleDownResults :
            /\ EnsureScaleDownNodes(TRUE, res)
            /\ (res # "error" /\ phase' = "failed") \/ UNCHANGED phase
        BY <1>2 DEF performUpgradeFailure
    <2>2. /\ at = 0 /\ phase = "upgrading" /\ cluster = "before"
          /\ UNCHANGED <<silence, capacityReservation, cluster, pending, poolDone, at>>
        BY <1>2 DEF performUpgradeFailure, shouldFailUpgrade, commenced, systemVars
    <2>3. /\ ScalerTypes' /\ machine' = machine /\ (NoExtraSet => NoExtraSet')
          /\ res # "error" => NoExtraSet'
        BY <2>1, ScaleDownProps DEF UpgradeRunInv, Types, ScalerTypes
    <2>4. Types' /\ ProgressInv'
        BY <2>1, <2>2, <2>3 DEF UpgradeRunInv, Types, ScalerTypes, ProgressInv
    <2>5. SetsInv' /\ SilenceInv'
        BY <2>1, <2>2, <2>3 DEF UpgradeRunInv, SetsInv, SilenceInv, Active
    <2> QED BY <2>4, <2>5 DEF UpgradeRunInv
<1>3. CASE UpgradeCluster
    <2>1. /\ at = 0 /\ phase = "upgrading" /\ at' = 1 /\ UNCHANGED phase
          /\ UNCHANGED <<mset, machine, silence, capacityReservation, cluster, pending, poolDone>>
        BY <1>3 DEF UpgradeCluster, systemVars, scalerVars
    <2>2. ProgressInv'
        BY <2>1 DEF ProgressInv, DoneUpTo
    <2>3. Types'
        BY <1>1, <2>1 DEF UpgradeRunInv, Types
    <2> QED BY <2>1, <2>2, <2>3 DEF UpgradeRunInv, SetsInv, SilenceInv, NoExtraSet, Active
<1>4. CASE Stopped
    <2>1. at # 0 /\ Stop /\ SameState
        BY <1>4 DEF Stopped, SameState, scalerVars, systemVars
    <2> QED BY <2>1, StopIsNoPass, SameStep
<1>5. CASE TryAgain
    <2>1. /\ at = 0 /\ at' = 0 /\ phase = "failed" /\ phase' = "upgrading" /\ capacityReservation' \in BOOLEAN
          /\ UNCHANGED <<mset, machine, silence, cluster, pending, poolDone>>
        BY <1>5 DEF TryAgain, scalerVars, UpgradeRunInv, ProgressInv
    <2>2. ProgressInv' /\ Types'
        BY <1>1, <2>1 DEF ProgressInv, UpgradeRunInv, Types
    <2> QED BY <2>1, <2>2 DEF UpgradeRunInv, SetsInv, SilenceInv, NoExtraSet, Active
<1> QED BY <1>2, <1>3, <1>4, <1>5

\* The cluster, the machine API and time undo nothing that a step has achieved.
LEMMA ClusterInv ==
    ASSUME UpgradeRunInv,
           ControlPlaneDone \/ WorkerUpdated \/ WorkerJoins \/ MachineStep \/ RetentionEnds \/ Tick
    PROVE  UpgradeRunInv'
<1>1. CASE ControlPlaneDone
    <2>1. /\ UNCHANGED <<mset, machine, silence, capacityReservation, poolDone, at, phase>>
          /\ cluster = "commenced" /\ cluster' = "updated" /\ pending' = Nodes
        BY <1>1 DEF ControlPlaneDone, scalerVars
    <2>2. \A t : Kept(t)
        BY <2>1 DEF Kept, Active, NoExtraSet, NoMachine
    <2>3. ProgressInv'
        BY <2>1, <2>2, ClusterStep
    <2>4. Types' /\ SetsInv' /\ SilenceInv'
        BY <2>1, MaintenanceAssumption DEF UpgradeRunInv, Types, SetsInv, SilenceInv, NoExtraSet, Active
    <2> QED BY <2>3, <2>4 DEF UpgradeRunInv
<1>2. CASE WorkerUpdated \/ WorkerJoins
    <2>1. /\ UNCHANGED <<mset, machine, silence, capacityReservation, at, phase, cluster>>
          /\ \/ pending > 0 /\ pending' = pending - 1 /\ poolDone' = (poolDone \/ pending = 1)
             \/ pending' = pending + 1 /\ UNCHANGED poolDone
        BY <1>2 DEF WorkerUpdated, WorkerJoins, scalerVars
    <2>2. \A t : Kept(t)
        BY <2>1 DEF Kept, Active, NoExtraSet, NoMachine
    <2>3. ProgressInv'
        BY <2>1, <2>2, ClusterStep
    <2>4. pending' \in Nat /\ poolDone' \in BOOLEAN
        <3>1. pending' \in Nat
            BY <2>1 DEF UpgradeRunInv, Types
        <3>2. poolDone' \in BOOLEAN
            BY <2>1 DEF UpgradeRunInv, Types
        <3> QED BY <3>1, <3>2
    <2>5. poolDone \/ pending > 0 => poolDone' \/ pending' > 0
        <3>1. CASE pending > 0 /\ pending' = pending - 1 /\ poolDone' = (poolDone \/ pending = 1)
            <4>1. pending = 1 \/ pending' > 0
                BY <3>1 DEF UpgradeRunInv, Types
            <4> QED BY <3>1, <4>1
        <3>2. CASE pending' = pending + 1 /\ UNCHANGED poolDone
            BY <3>2 DEF UpgradeRunInv, Types
        <3> QED BY <2>1, <3>1, <3>2
    <2>6. Types'
        BY <2>1, <2>4 DEF UpgradeRunInv, Types
    <2>7. SetsInv' /\ SilenceInv'
        BY <2>1, <2>5 DEF UpgradeRunInv, SetsInv, SilenceInv, NoExtraSet, Active
    <2> QED BY <2>3, <2>6, <2>7 DEF UpgradeRunInv
<1>3. CASE MachineStep
    <2>1. UNCHANGED <<silence, capacityReservation, at, phase, cluster, pending, poolDone>>
        BY <1>3 DEF MachineStep, runVars
    <2>2. ScalerTypes' /\ (NoExtraSet => NoExtraSet') /\ (NoExtraSet /\ NoMachine => NoMachine')
        BY <1>3, MachineProps DEF MachineStep, UpgradeRunInv, Types, ScalerTypes
    <2>3. \A t : Kept(t)
        BY <2>1, <2>2 DEF Kept, Active
    <2>4. ProgressInv'
        BY <2>1, <2>3, ClusterStep
    <2>5. Types' /\ SetsInv' /\ SilenceInv'
        BY <2>1, <2>2 DEF UpgradeRunInv, Types, ScalerTypes, SetsInv, SilenceInv, Active
    <2> QED BY <2>4, <2>5 DEF UpgradeRunInv
<1>4. CASE RetentionEnds \/ Tick
    <2>1. UNCHANGED <<mset, machine, capacityReservation, at, phase, cluster, pending, poolDone>>
        BY <1>4 DEF RetentionEnds, Tick, ScalerTick, runVars, scalerVars
    <2>2. Silences' /\ Quieter
        BY <1>4, TimeProps DEF RetentionEnds, Tick, UpgradeRunInv, Types, Silences
    <2>3. \A t : Kept(t)
        BY <2>1, <2>2, CommentShapes DEF Kept, Quieter, NoExtraSet, NoMachine
    <2>4. ProgressInv'
        BY <2>1, <2>3, ClusterStep
    <2>5. Types' /\ SetsInv' /\ SilenceInv'
        BY <2>1, <2>2, QuieterKeeps DEF UpgradeRunInv, Types, Silences, SetsInv, NoExtraSet
    <2> QED BY <2>4, <2>5 DEF UpgradeRunInv
<1> QED BY <1>1, <1>2, <1>3, <1>4

--------------------------------------------------------------------------------

\* The invariant holds initially.
LEMMA InitUpgradeRun == Init => UpgradeRunInv
<1> SUFFICES ASSUME Init PROVE UpgradeRunInv
    OBVIOUS
<1>1. Types
    <2>1. silence \in [Comments -> Int]
        BY DEF Init, MaintenanceInit, None
    <2>2. at \in 0..Len(StepList) /\ pending \in Nat
        BY StepListAssumption DEF Init
    <2>3. poolDone \in BOOLEAN /\ capacityReservation \in BOOLEAN
        BY DEF Init
    <2> QED BY <2>1, <2>2, <2>3 DEF Init, ScalerInit, Types
<1>2. SilenceInv
    BY CommentShapes DEF Init, MaintenanceInit, SilenceInv, Active, None
<1> QED BY <1>1, <1>2 DEF UpgradeRunInv, Init, ScalerInit, ProgressInv, SetsInv, NoExtraSet

\* Every step keeps the invariant.
LEMMA StepUpgradeRun == UpgradeRunInv /\ [Next]_vars => UpgradeRunInv'
<1> SUFFICES ASSUME UpgradeRunInv, [Next]_vars PROVE UpgradeRunInv'
    OBVIOUS
<1>1. CASE Operator
    BY <1>1, BetweenRunsInv, ChecksInv, EnsureExtraUpgradeWorkersInv, CreateControlPlaneMaintWindowInv,
       CommenceUpgradeInv, RemoveControlPlaneMaintWindowInv, CreateWorkerMaintWindowInv, RemoveExtraScaledNodesInv,
       RemoveMaintWindowInv
       DEF Operator
<1>2. CASE UNCHANGED vars
    <2>1. SameState /\ UNCHANGED <<at, phase>>
        BY <1>2 DEF vars, scalerVars, runVars, SameState
    <2>2. ProgressInv' /\ SilenceInv'
        BY <2>1, SameKept, ClusterStep DEF UpgradeRunInv
    <2> QED BY <2>1, <2>2 DEF UpgradeRunInv, Types, SetsInv, NoExtraSet, SameState
<1> QED BY <1>1, <1>2, BetweenRunsInv, ClusterInv DEF Next

\* The invariant holds in every reachable state.
THEOREM UpgradeRunInvariant == SafetySpec => []UpgradeRunInv
BY InitUpgradeRun, StepUpgradeRun, PTL DEF SafetySpec

\* Every run that completes has passed the steps that remove the extra sets and end the
\* silences, and no step after them brings any back.
THEOREM LeavesNothing == SafetySpec => []NothingLeftBehind
<1>1. UpgradeRunInv => NothingLeftBehind
    <2> SUFFICES ASSUME UpgradeRunInv, phase = "upgraded"
                 PROVE  /\ \A s \in Originals : mset[s] # "exists" /\ (capacityReservation => machine[s] = "none")
                        /\ ~IsActive
        BY DEF NothingLeftBehind
    <2>1. \A s \in RequiredSteps : Done(s)
        BY StepListAssumption DEF UpgradeRunInv, ProgressInv, DoneUpTo
    <2>2. Done("RemoveControlPlaneMaintWindow") /\ Done("RemoveMaintWindow") /\ Done("RemoveExtraScaledNodes")
        BY <2>1 DEF RequiredSteps
    <2>3. \A c \in Comments : ~Active(c)
        BY <2>2 DEF Done, Comments
    <2> QED BY <2>2, <2>3 DEF Done, NoExtraSet, IsActive
<1> QED BY <1>1, UpgradeRunInvariant, PTL

\* An upgrade fails only between two runs, before it commenced, by a call that removed
\* the extra sets; no run follows that could make new ones.
THEOREM NoFailureAfterCommencing == SafetySpec => []FailedNeverCommenced
<1>1. UpgradeRunInv => FailedNeverCommenced
    BY DEF UpgradeRunInv, SetsInv, NoExtraSet, FailedNeverCommenced, commenced
<1> QED BY <1>1, UpgradeRunInvariant, PTL

\* Worker silences replace one another.
THEOREM WorkerSilenceIsOne == SafetySpec => []OneWorkerSilence
<1>1. UpgradeRunInv => OneWorkerSilence
    <2> SUFFICES ASSUME UpgradeRunInv PROVE OneWorkerSilence
        OBVIOUS
    <2> DEFINE active == {n \in 1..Nodes : Active(Worker(n))}
    <2>1. CASE active = {}
        BY <2>1, FS_EmptySet DEF OneWorkerSilence
    <2>2. CASE active # {}
        <3>1. PICK n : active = {n}
            BY <2>2 DEF UpgradeRunInv, SilenceInv
        <3> QED BY <3>1, FS_Singleton DEF OneWorkerSilence
    <2> QED BY <2>1, <2>2
<1> QED BY <1>1, UpgradeRunInvariant, PTL

\* A set is deleted by performUpgradeFailure, which an upgrade that has commenced does not
\* reach, or by RemoveExtraScaledNodes, which a run reaches after AllWorkerNodesUpgraded.
THEOREM CapacityStays == SafetySpec => CapacityKept
<1> DEFINE Deleted == \E s \in Originals : mset[s] = "exists" /\ mset'[s] = "deleting"
<1>1. ASSUME UpgradeRunInv, [Next]_vars PROVE Deleted => cluster = "before" \/ poolDone
    <2>1. CASE performUpgradeFailure
        BY <1>1, <2>1 DEF performUpgradeFailure, shouldFailUpgrade, commenced
    <2>2. CASE RemoveExtraScaledNodes
        <3>1. PICK k \in 1..Len(StepList) : at = k /\ StepList[k] = "RemoveExtraScaledNodes"
            BY <1>1, <2>2, AtStep DEF RemoveExtraScaledNodes
        <3>2. PICK i \in DOMAIN StepList : StepList[i] = "AllWorkerNodesUpgraded"
            BY StepListAssumption DEF RequiredSteps
        <3>3. Precedes("AllWorkerNodesUpgraded", "RemoveExtraScaledNodes")
            BY StepListAssumption DEF StepPairs
        <3>4. i \in 1..(k - 1)
            BY <3>1, <3>2, <3>3, StepListAssumption DEF Precedes
        <3>5. at # 0 /\ DoneUpTo(k - 1)
            BY <1>1, <3>1 DEF UpgradeRunInv, ProgressInv
        <3>6. Done("AllWorkerNodesUpgraded")
            BY <3>2, <3>4, <3>5 DEF DoneUpTo
        <3> QED BY <3>6 DEF Done
    <2>3. CASE EnsureExtraUpgradeWorkers
        <3>1. ASSUME NEW new, CreateSets(new) PROVE ~Deleted
            BY <3>1 DEF CreateSets
        <3>2. CASE UNCHANGED mset
            BY <3>2
        <3> QED BY <2>3, <3>1, <3>2 DEF EnsureExtraUpgradeWorkers, EnsureScaleUpNodes, scalerVars
    <2>4. CASE MachineStep
        <3>1. PICK s \in Originals : SetRemoved(s) \/ UNCHANGED mset
            BY <2>4 DEF MachineStep, MachineAPI, MachineCreated, NodeReady, NodeNotReady, MachineRemoved
        <3> QED BY <1>1, <3>1 DEF SetRemoved, UpgradeRunInv, Types
    <2>5. CASE UNCHANGED mset
        BY <2>5
    <2>6. CASE Operator
        BY <2>1, <2>2, <2>3, <2>5, <2>6
           DEF Operator, UpgradeCluster, EarlyCheck, LateCheck, CreateControlPlaneMaintWindow, CommenceUpgrade,
               ControlPlaneUpgraded, RemoveControlPlaneMaintWindow, CreateWorkerMaintWindow, AllWorkersUpgraded,
               RemoveMaintWindow, scalerVars
    <2> QED BY <1>1, <2>4, <2>5, <2>6
            DEF Next, Stopped, ControlPlaneDone, WorkerUpdated, WorkerJoins, RetentionEnds, Tick, ScalerTick, TryAgain,
                scalerVars, vars
<1> QED BY <1>1, UpgradeRunInvariant, PTL DEF SafetySpec, CapacityKept

--------------------------------------------------------------------------------
\* The gauges.

\* The gauge that a step resets when it is passed.
Reset(s) ==
    /\ s = "ControlPlaneUpgraded" => "controlPlaneTimeout" \notin alarms
    /\ s = "AllWorkerNodesUpgraded" => "workerTimeout" \notin alarms
    /\ s = "RemoveExtraScaledNodes" => "nodeDrain" \notin alarms

\* A run has reset the gauges of the steps it has passed: one is set only by a step that
\* ends the run.  A step that has nothing to remove does not reset the gauge of the drains,
\* which then was never set.
AlarmsInv ==
    /\ alarms \subseteq Alarms
    /\ phase # "failed" => "windowBreached" \notin alarms
    /\ "nodeDrain" \in alarms => ~SkipScaling
    /\ at # 0 => \A j \in 1..(at - 1) : Reset(StepList[j])
    /\ phase = "upgraded" => \A j \in 1..Len(StepList) : Reset(StepList[j])

\* A step of a run that sets no gauge but that of the scaling, or ends the run.
LEMMA AlarmsStep ==
    ASSUME UpgradeRunInv, AlarmsInv, NEW k \in Nat \ {0}, at = k, UNCHANGED capacityReservation,
           \/ Pass /\ alarms' \subseteq alarms \cup {"scaling"} /\ Reset(StepList[k])'
           \/ /\ Stop /\ alarms' \subseteq Alarms \ {"windowBreached"}
              /\ "nodeDrain" \in alarms' => ~SkipScaling
    PROVE  AlarmsInv'
<1>1. at \in 1..Len(StepList) /\ Len(StepList) \in Nat /\ phase = "upgrading"
    BY StepListAssumption DEF UpgradeRunInv, Types, ProgressInv
<1>2. SkipScaling' = SkipScaling
    BY DEF SkipScaling, CanScale
<1>3. CASE /\ Stop /\ alarms' \subseteq Alarms \ {"windowBreached"}
           /\ "nodeDrain" \in alarms' => ~SkipScaling
    BY <1>1, <1>2, <1>3 DEF Stop, AlarmsInv
<1>4. CASE Pass /\ alarms' \subseteq alarms \cup {"scaling"} /\ Reset(StepList[k])'
    <2>1. \A j \in 1..(k - 1) : Reset(StepList[j])
        BY DEF AlarmsInv
    <2>2. \A s : Reset(s) => Reset(s)'
        BY <1>4 DEF Reset
    <2>3. \A j \in 1..k : Reset(StepList[j])'
        <3> SUFFICES ASSUME NEW j \in 1..k PROVE Reset(StepList[j])'
            OBVIOUS
        <3>1. j = k \/ j \in 1..(k - 1)
            OBVIOUS
        <3> QED BY <1>4, <2>1, <2>2, <3>1
    <2>4. /\ alarms' \subseteq Alarms /\ "windowBreached" \notin alarms'
          /\ "nodeDrain" \in alarms' => ~SkipScaling'
        BY <1>1, <1>2, <1>4 DEF AlarmsInv, Alarms
    <2>5. CASE k = Len(StepList)
        <3>1. at' = 0 /\ phase' = "upgraded"
            BY <1>4, <2>5 DEF Pass
        <3>2. \A j \in 1..Len(StepList) : Reset(StepList[j])'
            BY <2>3, <2>5
        <3> QED BY <2>4, <3>1, <3>2 DEF AlarmsInv
    <2>6. CASE k # Len(StepList)
        <3>1. at' - 1 = k /\ phase' = "upgrading"
            BY <1>1, <1>4, <2>6 DEF Pass
        <3> QED BY <2>3, <2>4, <3>1 DEF AlarmsInv
    <2> QED BY <2>5, <2>6
<1> QED BY <1>3, <1>4

\* A step that leaves the gauges alone, or resets some.
LEMMA FewerAlarms ==
    ASSUME UpgradeRunInv, AlarmsInv, NEW s, Step(s), UNCHANGED capacityReservation,
           s \notin {"ControlPlaneUpgraded", "AllWorkerNodesUpgraded", "RemoveExtraScaledNodes"},
           Pass \/ Stop, alarms' \subseteq alarms \cup {"scaling"}
    PROVE  AlarmsInv'
<1>1. PICK k \in 1..Len(StepList) : at = k /\ StepList[k] = s
    BY AtStep
<1>2. Reset(StepList[k])'
    BY <1>1 DEF Reset
<1>3. phase = "upgrading"
    BY AtStep
<1>4. /\ alarms' \subseteq Alarms \ {"windowBreached"}
      /\ "nodeDrain" \in alarms' => ~SkipScaling
    BY <1>3 DEF AlarmsInv, Alarms
<1> QED BY <1>1, <1>2, <1>4, AlarmsStep

\* Every step keeps the invariant of the gauges.
LEMMA StepAlarms == UpgradeRunInv /\ AlarmsInv /\ [Next]_vars => AlarmsInv'
<1> SUFFICES ASSUME UpgradeRunInv, AlarmsInv, [Next]_vars PROVE AlarmsInv'
    OBVIOUS
<1>0. at # 0 => phase = "upgrading"
    BY DEF UpgradeRunInv, ProgressInv
<1>1. CASE performUpgradeFailure
    <2>1. /\ at = 0 /\ at' = 0 /\ UNCHANGED capacityReservation /\ phase = "upgrading"
          /\ (phase' = "failed" /\ alarms' = {"windowBreached"}) \/ UNCHANGED <<phase, alarms>>
        BY <1>1 DEF performUpgradeFailure, systemVars
    <2>2. SkipScaling' = SkipScaling
        BY <2>1 DEF SkipScaling, CanScale
    <2> QED BY <2>1, <2>2 DEF AlarmsInv, Alarms
<1>2. CASE UpgradeCluster
    <2>1. at' = 1 /\ UNCHANGED <<capacityReservation, phase, alarms>> /\ phase = "upgrading"
        BY <1>2 DEF UpgradeCluster, systemVars
    <2>2. SkipScaling' = SkipScaling
        BY <2>1 DEF SkipScaling, CanScale
    <2> QED BY <2>1, <2>2 DEF AlarmsInv
<1>3. ASSUME NEW s \in EarlyChecks, EarlyCheck(s) PROVE AlarmsInv'
    BY <1>3, FewerAlarms DEF EarlyCheck, EarlyChecks, systemVars
<1>4. ASSUME NEW s \in LateChecks, LateCheck(s) PROVE AlarmsInv'
    BY <1>4, FewerAlarms DEF LateCheck, LateChecks, systemVars
<1>5. CASE EnsureExtraUpgradeWorkers
    <2>1. alarms' \subseteq alarms \cup {"scaling"}
        BY <1>5 DEF EnsureExtraUpgradeWorkers, ScaleUpResults
    <2>2. Step("ScaleUpExtraNodes") /\ (Pass \/ Stop) /\ UNCHANGED capacityReservation
        BY <1>5 DEF EnsureExtraUpgradeWorkers, systemVars
    <2> QED BY <2>1, <2>2, FewerAlarms
<1>6. CASE CreateControlPlaneMaintWindow
    BY <1>6, FewerAlarms DEF CreateControlPlaneMaintWindow, systemVars
<1>7. CASE CommenceUpgrade
    BY <1>7, FewerAlarms DEF CommenceUpgrade, systemVars
<1>8. CASE ControlPlaneUpgraded
    <2>1. PICK k \in 1..Len(StepList) : at = k /\ StepList[k] = "ControlPlaneUpgraded"
        BY <1>8, AtStep DEF ControlPlaneUpgraded
    <2>2. k \in Nat \ {0} /\ phase = "upgrading" /\ UNCHANGED capacityReservation
        BY <1>0, <1>8, <2>1 DEF ControlPlaneUpgraded, systemVars
    <2>3. \/ Pass /\ alarms' = alarms \ {"controlPlaneTimeout"}
          \/ Stop /\ alarms' \subseteq alarms \cup {"controlPlaneTimeout"}
        BY <1>8 DEF ControlPlaneUpgraded
    <2>4. CASE Pass /\ alarms' = alarms \ {"controlPlaneTimeout"}
        <3>1. Reset(StepList[k])'
            BY <2>1, <2>4 DEF Reset
        <3> QED BY <2>1, <2>2, <2>4, <3>1, AlarmsStep
    <2>5. CASE Stop /\ alarms' \subseteq alarms \cup {"controlPlaneTimeout"}
        <3>1. /\ alarms' \subseteq Alarms \ {"windowBreached"}
              /\ "nodeDrain" \in alarms' => ~SkipScaling
            BY <2>2, <2>5 DEF AlarmsInv, Alarms
        <3> QED BY <2>1, <2>2, <2>5, <3>1, AlarmsStep
    <2> QED BY <2>3, <2>4, <2>5
<1>9. CASE RemoveControlPlaneMaintWindow
    BY <1>9, FewerAlarms DEF RemoveControlPlaneMaintWindow, systemVars
<1>10. CASE CreateWorkerMaintWindow
    BY <1>10, FewerAlarms DEF CreateWorkerMaintWindow, systemVars
<1>11. CASE AllWorkersUpgraded
    <2>1. PICK k \in 1..Len(StepList) : at = k /\ StepList[k] = "AllWorkerNodesUpgraded"
        BY <1>11, AtStep DEF AllWorkersUpgraded
    <2>2. k \in Nat \ {0} /\ phase = "upgrading" /\ UNCHANGED capacityReservation
        BY <1>0, <1>11, <2>1 DEF AllWorkersUpgraded, systemVars
    <2>3. \/ Pass /\ alarms' = alarms \ {"workerTimeout"}
          \/ Stop /\ alarms' \subseteq alarms \cup {"workerTimeout"}
        BY <1>11 DEF AllWorkersUpgraded
    <2>4. CASE Pass /\ alarms' = alarms \ {"workerTimeout"}
        <3>1. Reset(StepList[k])'
            BY <2>1, <2>4 DEF Reset
        <3> QED BY <2>1, <2>2, <2>4, <3>1, AlarmsStep
    <2>5. CASE Stop /\ alarms' \subseteq alarms \cup {"workerTimeout"}
        <3>1. /\ alarms' \subseteq Alarms \ {"windowBreached"}
              /\ "nodeDrain" \in alarms' => ~SkipScaling
            BY <2>2, <2>5 DEF AlarmsInv, Alarms
        <3> QED BY <2>1, <2>2, <2>5, <3>1, AlarmsStep
    <2> QED BY <2>3, <2>4, <2>5
<1>12. CASE RemoveExtraScaledNodes
    <2>1. PICK k \in 1..Len(StepList) : at = k /\ StepList[k] = "RemoveExtraScaledNodes"
        BY <1>12, AtStep DEF RemoveExtraScaledNodes
    <2>2. k \in Nat \ {0} /\ phase = "upgrading" /\ UNCHANGED capacityReservation
        BY <1>0, <1>12, <2>1 DEF RemoveExtraScaledNodes, systemVars
    <2>3. \/ SkipScaling /\ Pass /\ alarms' = alarms
          \/ ~SkipScaling /\ Pass /\ alarms' = alarms \ {"nodeDrain"}
          \/ ~SkipScaling /\ Stop /\ alarms' \subseteq alarms \cup {"nodeDrain"}
        BY <1>12 DEF RemoveExtraScaledNodes, ScaleDownResults
    <2>4. CASE Pass /\ alarms' \subseteq alarms /\ "nodeDrain" \notin alarms'
        <3>1. Reset(StepList[k])'
            BY <2>1, <2>4 DEF Reset
        <3> QED BY <2>1, <2>2, <2>4, <3>1, AlarmsStep
    <2>5. CASE ~SkipScaling /\ Stop /\ alarms' \subseteq alarms \cup {"nodeDrain"}
        <3>1. alarms' \subseteq Alarms \ {"windowBreached"}
            BY <2>2, <2>5 DEF AlarmsInv, Alarms
        <3> QED BY <2>1, <2>2, <2>5, <3>1, AlarmsStep
    <2> QED BY <2>3, <2>4, <2>5 DEF AlarmsInv
<1>13. CASE RemoveMaintWindow
    BY <1>13, FewerAlarms DEF RemoveMaintWindow, systemVars
<1>14. CASE Stopped
    <2>1. PICK k \in Nat \ {0} : at = k
        BY <1>14, StepListAssumption DEF Stopped, UpgradeRunInv, Types
    <2>2. Stop /\ UNCHANGED <<capacityReservation, alarms>> /\ phase = "upgrading"
        BY <1>0, <1>14 DEF Stopped, systemVars
    <2>3. /\ alarms' \subseteq Alarms \ {"windowBreached"}
          /\ "nodeDrain" \in alarms' => ~SkipScaling
        BY <2>2 DEF AlarmsInv
    <2> QED BY <2>1, <2>2, <2>3, AlarmsStep
<1>15. CASE TryAgain
    <2>1. at' = 0 /\ alarms' = {} /\ phase' = "upgrading"
        BY <1>0, <1>15 DEF TryAgain
    <2> QED BY <2>1 DEF AlarmsInv
<1>16. CASE UNCHANGED <<phase, capacityReservation, at, alarms>>
    <2>1. SkipScaling' = SkipScaling
        BY <1>16 DEF SkipScaling, CanScale
    <2>2. \A s : Reset(s)' = Reset(s)
        BY <1>16 DEF Reset
    <2> QED BY <1>16, <2>1, <2>2 DEF AlarmsInv
<1>17. CASE Operator
    BY <1>1, <1>2, <1>3, <1>4, <1>5, <1>6, <1>7, <1>8, <1>9, <1>10, <1>11, <1>12, <1>13, <1>17 DEF Operator
<1> QED BY <1>14, <1>15, <1>16, <1>17
        DEF Next, ControlPlaneDone, WorkerUpdated, WorkerJoins, MachineStep, RetentionEnds, Tick, runVars, vars

\* A run that completes has passed the steps that reset the gauges, whatever runs before it
\* set (ControlPlaneUpgraded, AllWorkersUpgraded, RemoveExtraScaledNodes).
THEOREM AlarmsAreReset == SafetySpec => []NoAlarmLeft
<1>1. Init => AlarmsInv
    BY DEF Init, AlarmsInv, Reset
<1>2. UpgradeRunInv /\ AlarmsInv => NoAlarmLeft
    <2> SUFFICES ASSUME AlarmsInv, phase = "upgraded" PROVE alarms \subseteq {"scaling"}
        BY DEF NoAlarmLeft
    <2>1. \A s \in RequiredSteps : Reset(s)
        BY StepListAssumption DEF AlarmsInv
    <2>2. Reset("ControlPlaneUpgraded") /\ Reset("AllWorkerNodesUpgraded") /\ Reset("RemoveExtraScaledNodes")
        BY <2>1 DEF RequiredSteps
    <2> QED BY <2>2 DEF Reset, AlarmsInv, Alarms
<1> QED BY <1>1, <1>2, StepAlarms, UpgradeRunInvariant, PTL DEF SafetySpec

--------------------------------------------------------------------------------
\* The scaler alone.

ScalerInv == ScalerTypes /\ RemovedStaysRemoved

\* Once the scaler has reported the extra nodes removed, nothing brings one back.
THEOREM ExtraNodesStayRemoved == ScalerSpec => []RemovedStaysRemoved
<1> DEFINE Gone == NoExtraSet /\ NoMachine
<1>1. ScalerInit => ScalerInv
    BY DEF ScalerInit, ScalerInv, ScalerTypes, RemovedStaysRemoved
<1>2. ASSUME ScalerInv, [ScalerNext]_scalerVars PROVE ScalerInv'
    <2>1. scaleResult = "removed" => Gone
        BY <1>2 DEF ScalerInv, RemovedStaysRemoved, NoExtraSet, NoMachine
    <2>2. ScalerTypes' /\ (scaleResult' = "removed" => Gone')
        <3>1. CASE ScaleUp
            BY <1>2, <3>1, ScaleUpProps DEF ScaleUp, ScaleUpResults, ScalerInv
        <3>2. CASE ScaleDown
            <4>1. PICK drained \in BOOLEAN, res \in ScaleDownResults :
                    EnsureScaleDownNodes(drained, res) /\ scaleResult' = IF res = "error" THEN "draintimeout" ELSE res
                BY <3>2 DEF ScaleDown
            <4>2. /\ ScalerTypes' /\ machine' = machine
                  /\ res = "removed" => NoExtraSet' /\ NoMachine
                BY <1>2, <4>1, ScaleDownProps DEF ScalerInv
            <4>3. scaleResult' = "removed" => res = "removed"
                BY <4>1
            <4> QED BY <4>2, <4>3 DEF NoMachine
        <3>3. CASE MachineAPI
            <4>1. UNCHANGED scaleResult
                BY <3>3 DEF MachineAPI, MachineCreated, NodeReady, NodeNotReady, MachineRemoved, SetRemoved
            <4> QED BY <1>2, <2>1, <3>3, <4>1, MachineProps DEF ScalerInv
        <3>4. CASE ScalerTick \/ UNCHANGED scalerVars
            BY <1>2, <2>1, <3>4 DEF ScalerTick, scalerVars, ScalerInv, ScalerTypes, NoExtraSet, NoMachine
        <3>5. CASE NewUpgrade
            BY <1>2, <3>5 DEF NewUpgrade, ScalerInv, ScalerTypes, RemovedStaysRemoved, NoExtraSet, NoMachine
        <3> QED BY <1>2, <3>1, <3>2, <3>3, <3>4, <3>5 DEF ScalerNext
    <2> QED BY <2>2 DEF ScalerInv, RemovedStaysRemoved, NoExtraSet, NoMachine
<1>3. ScalerInv => RemovedStaysRemoved
    BY DEF ScalerInv
<1> QED BY <1>1, <1>2, <1>3, PTL DEF ScalerSpec

==================================================================================
