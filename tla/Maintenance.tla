------------------------------- MODULE Maintenance -------------------------------
(***************************************************************************)
(* The maintenance windows of an upgrade: silences in Alertmanager, found  *)
(* again by their comment.  The comment names the kind of the window, the  *)
(* version, and for the workers the number of nodes left.  One version is  *)
(* modelled, so a comment is a kind and a count.                           *)
(***************************************************************************)
EXTENDS Integers, FiniteSets

CONSTANTS
    Nodes,                \* the worker nodes of the cluster
    ControlPlaneDuration, \* maintenance.controlPlaneTime of the ConfigMap
    PDBDrainTimeout,      \* spec.PDBForceDrainTimeout
    NodeDrainTimeout,     \* nodeDrain.timeOut of the ConfigMap
    ExpectedDrainTime,    \* nodeDrain.expectedNodeDrainTime of the ConfigMap
    IgnoredCriticals      \* whether critical alerts are to be ignored as well

ASSUME MaintenanceAssumption ==
    /\ Nodes \in Nat \ {0}
    /\ ControlPlaneDuration \in Nat \ {0}
    /\ PDBDrainTimeout \in Nat /\ NodeDrainTimeout \in Nat
    /\ ExpectedDrainTime \in Nat \ {0}
    /\ IgnoredCriticals \in BOOLEAN

VARIABLE silence  \* per comment: the time left to a silence, 0 if it has expired

None == -1

Control == <<"control", 0>>
Critical == <<"critical", 0>>
Worker(n) == <<"worker", n>>
Comments == {Control, Critical} \cup {Worker(n) : n \in 1..Nodes}

\* The worst case for n nodes: the longer of the drain timeouts and the expected drain.
WorkerDuration(n) ==
    n * (IF PDBDrainTimeout < NodeDrainTimeout THEN NodeDrainTimeout ELSE PDBDrainTimeout)
      + n * ExpectedDrainTime

MaintenanceInit == silence = [c \in Comments |-> None]

--------------------------------------------------------------------------------

\* A silence of this comment, in whatever state.
Exists(c) == silence[c] # None
Active(c) == silence[c] > 0
IsActive == \E c \in Comments : Active(c)

Create(new, duration) == silence' = [c \in Comments |-> IF c \in new THEN duration ELSE silence[c]]
Delete(old) == silence' = [c \in Comments |-> IF c \in old THEN 0 ELSE silence[c]]

\* StartControlPlane creates the silences of which there is none; it fails at the
\* first call that fails.
StartControlPlane(err) ==
    LET missing == {c \in {Control} \cup (IF IgnoredCriticals THEN {Critical} ELSE {}) : ~Exists(c)} IN
    \/ ~err /\ Create(missing, ControlPlaneDuration)
    \/ err /\ silence' = silence
    \/ err /\ Critical \in missing /\ Create(missing \ {Critical}, ControlPlaneDuration)

\* SetWorker does nothing if there is a silence for this count.  Otherwise it deletes an
\* active silence of another count, then creates the new one.
SetWorker(count, err) ==
    LET old == {c \in Comments : c[1] = "worker" /\ Active(c)} IN
    \/ Exists(Worker(count)) /\ ~err /\ silence' = silence
    \/ err /\ silence' = silence
    \/ /\ ~Exists(Worker(count))
       /\ \E deleted \in {{c} : c \in old} \cup (IF old = {} THEN {{}} ELSE {}) :
            \/ err /\ Delete(deleted)
            \/ /\ ~err
               /\ silence' = [c \in Comments |-> IF c = Worker(count) THEN WorkerDuration(count)
                                                  ELSE IF c \in deleted THEN 0 ELSE silence[c]]

\* Faulty variant: a deletion that fails is not reported.
EndSilencesQuietly(kinds, err) ==
    \E deleted \in SUBSET {c \in Comments : c[1] \in kinds /\ Active(c)} : Delete(deleted)

\* EndSilences tries to delete each active silence and reports any that failed.
EndSilences(kinds, err) ==
    LET active == {c \in Comments : c[1] \in kinds /\ Active(c)} IN
    \E deleted \in SUBSET active :
        /\ err \/ deleted = active
        /\ Delete(deleted)

EndControlPlane(err) == EndSilences({"control", "critical"}, err)

EndWorker(err) == EndSilences({"worker"}, err)

\* Alertmanager: a silence expires by itself, and is forgotten some time after.
SilencesTick == silence' = [c \in Comments |-> IF Active(c) THEN silence[c] - 1 ELSE silence[c]]

Forget(c) == silence[c] = 0 /\ silence' = [silence EXCEPT ![c] = None]

================================================================================
