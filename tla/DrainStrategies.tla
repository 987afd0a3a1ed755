--------------------------- MODULE DrainStrategies ---------------------------
(***************************************************************************)
(* The timed drain strategies: what the operator does, and when, to the    *)
(* pods that keep a cordoned node from draining, and when it gives a drain *)
(* up as failed.  Time is the age of a node's cordon, in minutes.          *)
(***************************************************************************)
EXTENDS Integers, FiniteSets, SequencesExt

CONSTANTS
    Workers,               \* the worker nodes
    Pods,                  \* the pods
    Home,                  \* the node a pod runs on
    DaemonSetPods,         \* pods owned by a DaemonSet
    IgnoredPods,           \* pods in a namespace of nodeDrain.ignoredNamespacePatterns
    Labels,                \* the labels of a pod
    PDBs,                  \* the PodDisruptionBudgets
    MatchLabels,           \* per budget: the matchLabels of its selector
    TimeOut,               \* nodeDrain.timeOut of the ConfigMap
    ExpectedNodeDrainTime, \* nodeDrain.expectedNodeDrainTime of the ConfigMap
    GracePeriods,          \* the values of spec.PDBForceDrainTimeout
    DisableDrainStrategies, \* nodeDrain.disableDrainStrategies of the ConfigMap
    MaxAge                 \* bound: an age above which no threshold lies

Later(a, b) == IF a < b THEN b ELSE a

ASSUME DrainAssumption ==
    /\ Home \in [Pods -> Workers]
    /\ DisableDrainStrategies \in BOOLEAN
    /\ TimeOut \in Nat /\ ExpectedNodeDrainTime \in Nat /\ GracePeriods \subseteq Nat
    /\ \A g \in GracePeriods : MaxAge > Later(TimeOut, g + ExpectedNodeDrainTime) + ExpectedNodeDrainTime

VARIABLES
    PDBForceDrainTimeout, \* of the UpgradeConfig's spec
    node,  \* per worker: there, cordon (its age), deleting, working, updated
    pod    \* per pod: phase, finalizers

Uncordoned == -2
NoTime == -1  \* cordoned by a taint without TimeAdded

NodeStates == [there : BOOLEAN, cordon : Uncordoned..MaxAge, deleting : BOOLEAN,
               working : BOOLEAN, updated : BOOLEAN]

\* An evicted pod goes when its kubelet is done with it, a forced one at once;
\* neither while it has finalizers.
PodStates == [phase : {"running", "evicted", "forced", "gone"}, finalizers : BOOLEAN]

IsCordoned(x) == x.cordon # Uncordoned
isAfter(age, duration) == age > duration

--------------------------------------------------------------------------------

\* What the operator takes for a pod of a budget: one label of a selector will do,
\* and only matchLabels count.
containsMatchLabel(p) == \E b \in PDBs : MatchLabels[b] \cap Labels[p] # {}

isTerminating(p) == pod[p].phase \in {"evicted", "forced"}

Strategy(name, kind, isPdb, wait) == [name |-> name, kind |-> kind, pdb |-> isPdb, wait |-> wait]

\* Faulty variant: pods that are terminating already are left to their kubelet.
NodeDrainStrategyNoStuck(grace) ==
    << Strategy("DELETE", "delete", FALSE, TimeOut),
       Strategy("DEFAULT-FINALIZER", "finalizers", FALSE, TimeOut),
       Strategy("PDB-DELETE", "delete", TRUE, grace + ExpectedNodeDrainTime),
       Strategy("PDB-FINALIZER", "finalizers", TRUE, grace + ExpectedNodeDrainTime) >>

NewNodeDrainStrategy(grace) ==
    LET pdbDuration == grace + ExpectedNodeDrainTime IN
    << Strategy("DELETE", "delete", FALSE, TimeOut),
       Strategy("DEFAULT-FINALIZER", "finalizers", FALSE, TimeOut),
       Strategy("POD-STUCK-TERMINATING", "stuck", FALSE, TimeOut),
       Strategy("PDB-DELETE", "delete", TRUE, pdbDuration),
       Strategy("PDB-FINALIZER", "finalizers", TRUE, pdbDuration) >>

StrategiesFor ==
    [grace \in GracePeriods |-> IF DisableDrainStrategies THEN <<>> ELSE NewNodeDrainStrategy(grace)]

timedDrainStrategies == StrategiesFor[PDBForceDrainTimeout]

\* The pods of node n that pass the filters of strategy s.
GetPodList(s, n) ==
    {p \in Pods :
        /\ Home[p] = n /\ pod[p].phase # "gone"
        /\ p \notin DaemonSetPods \cup IgnoredPods
        /\ containsMatchLabel(p) = s.pdb
        /\ s.kind = "finalizers" => pod[p].finalizers
        /\ s.kind = "stuck" => ~pod[p].finalizers /\ isTerminating(p)}

IsValid(s, n) == GetPodList(s, n) # {}

\* The pods of the list that the strategy changes: deletion leaves out the pods that
\* are being deleted already.
Marked(s, n) == {p \in GetPodList(s, n) : s.kind = "delete" => ~isTerminating(p)}

DeletePod(x) == IF x.finalizers THEN [x EXCEPT !.phase = "forced"] ELSE [x EXCEPT !.phase = "gone"]

RemoveFinalizers(x) ==
    [x EXCEPT !.finalizers = FALSE, !.phase = IF @ = "forced" THEN "gone" ELSE @]

\* One execution of a strategy; the calls for the pods in failed are refused.
ExecuteStrategy(s, n, failed) ==
    pod' = [p \in Pods |->
        IF p \notin Marked(s, n) \ failed THEN pod[p]
        ELSE IF s.kind = "finalizers" THEN RemoveFinalizers(pod[p]) ELSE DeletePod(pod[p])]

--------------------------------------------------------------------------------

\* sort.Slice sorts so few elements by insertion: the element at i moves left for as
\* long as less says so.  less looks at the unsorted slice, so what it says depends on
\* the positions and not on the elements that have moved there.
sortDuration(ts) ==
    LET less(i, j) == ts[i].wait < ts[j].wait
        stop(i) == CHOOSE j \in 1..i : /\ j = 1 \/ ~less(j, j - 1)
                                       /\ \A k \in j + 1..i : less(k, k - 1)
        insert(s, i) == InsertAt(RemoveAt(s, i), stop(i), s[i])
    IN FoldLeft(insert, ts, [i \in 1..Len(ts) - 1 |-> i + 1])

SortedFor == [grace \in GracePeriods |-> sortDuration(StrategiesFor[grace])]

sortedStrategies == SortedFor[PDBForceDrainTimeout]

\* Faulty variant: the pods are not given the time to go after the last strategy.
HasFailedAtOnce(n, age) ==
    LET executed == SelectSeq(sortedStrategies, LAMBDA s : isAfter(age, s.wait)) IN
    /\ age # NoTime
    /\ \A i \in Len(executed) + 1..Len(sortedStrategies) : ~IsValid(sortedStrategies[i], n)
    /\ isAfter(age, TimeOut)

\* Whether the drain of node n is given up, age being that of its cordon.
HasFailed(n, age) ==
    LET executed == SelectSeq(sortedStrategies, LAMBDA s : isAfter(age, s.wait))
        deadline == IF executed = <<>> THEN TimeOut
                    ELSE Later(TimeOut, Last(executed).wait + ExpectedNodeDrainTime)
    IN /\ age # NoTime
       /\ \A i \in Len(executed) + 1..Len(sortedStrategies) : ~IsValid(sortedStrategies[i], n)
       /\ isAfter(age, deadline)

=============================================================================
