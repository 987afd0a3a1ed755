---------------------------- MODULE UpgradeConfigCR ----------------------------
(***************************************************************************)
(* The UpgradeConfig custom resource, the one object every part of the     *)
(* operator shares, and the API server calls the operator makes on it.     *)
(*                                                                         *)
(* There is at most one UpgradeConfig (its name is fixed, see              *)
(* isManagedUpgrade) and its status holds one history entry, the one of    *)
(* its desired version: a changed specification is a deleted and           *)
(* re-created object.  A history entry is kept here as the fields of the   *)
(* resource itself; phase "Unknown" stands for a missing entry.            *)
(*                                                                         *)
(* Optimistic concurrency.  The API server accepts a status update only    *)
(* when the resourceVersion sent with it is the stored one.  Versions are  *)
(* never reused, so "the versions are equal" is "nobody changed the        *)
(* object since I read or wrote it": the set current holds the writers of  *)
(* which that is true, and held their copies of the object.  A write that  *)
(* changes nothing does not move the resourceVersion.                      *)
(***************************************************************************)
EXTENDS Integers, FiniteSets

CONSTANTS
    Nil,      \* Go's nil: no object, no specification, no timestamp
    Specs,    \* the UpgradeConfig specifications that may be requested
    MaxTime   \* bound on the clock

Versions == Nat

UpgradeConfigSpec == [version : Versions, upgradeAt : Nat, type : {"OSD", "ARO"}]

Phases == {"Unknown", "New", "Pending", "Upgrading", "Upgraded", "Failed"}

Times == Nat \cup {Nil}

UpgradeConfig ==
    [spec : Specs, phase : Phases, startTime : Times, completeTime : Times,
     workerStartTime : Times, workerCompleteTime : Times]

ASSUME SpecsAssumption == Specs \subseteq UpgradeConfigSpec

ASSUME NilAssumption ==
    /\ Nil \notin Nat
    /\ Nil \notin Specs
    /\ Nil \notin UpgradeConfig

ASSUME MaxTimeAssumption == MaxTime \in Nat

\* The two controllers that write the status of the resource.
Writers == {"reconciler", "mcp"}

VARIABLES
    uc,       \* the stored object, Nil when there is none
    held,     \* per writer, the copy its reconcile works on, Nil between two
    current,  \* the writers whose copy has the stored resourceVersion
    now       \* the wall clock

crVars == <<uc, held, current>>

CRTypeOK ==
    /\ uc \in UpgradeConfig \cup {Nil}
    /\ held \in [Writers -> UpgradeConfig \cup {Nil}]
    /\ current \subseteq Writers
    /\ now \in 0..MaxTime

CRInit ==
    /\ uc = Nil
    /\ held = [p \in Writers |-> Nil]
    /\ current = {}
    /\ now = 0

\* An object as it is created: a specification and no status.
NewUpgradeConfig(s) ==
    [spec |-> s, phase |-> "Unknown", startTime |-> Nil, completeTime |-> Nil,
     workerStartTime |-> Nil, workerCompleteTime |-> Nil]

--------------------------------------------------------------------------------

\* client.Get of an existing object by writer p.
GetUC(p) ==
    /\ uc # Nil
    /\ held' = [held EXCEPT ![p] = uc]
    /\ current' = current \cup {p}
    /\ UNCHANGED uc

\* The reconcile of p returns and its copy goes out of scope.
DropUC(p) ==
    /\ held' = [held EXCEPT ![p] = Nil]
    /\ current' = current \ {p}
    /\ UNCHANGED uc

\* client.Status().Update by p, accepted; p works on with the object the API
\* server answers with.  One that is refused, as a conflict or because the object
\* is gone, makes every caller return the error.
UpdateStatus(p, obj) ==
    /\ p \in current
    /\ uc' = obj
    /\ held' = [held EXCEPT ![p] = obj]
    /\ current' = IF obj = uc THEN current ELSE {p}

\* Faulty variant: an update that is not checked against the resourceVersion.
UpdateStatusAndReturnUnchecked(p, obj, touched) ==
    /\ uc # Nil
    /\ uc' = obj
    /\ held' = [held EXCEPT ![p] = Nil]
    /\ current' = IF obj = uc /\ ~touched THEN current \ {p} ELSE {}

\* The same as the last call of the reconcile.  A change of the fields left out
\* of this model (the conditions and their probe times) also moves the
\* resourceVersion: touched says that there was one.
UpdateStatusAndReturn(p, obj, touched) ==
    /\ p \in current
    /\ uc' = obj
    /\ held' = [held EXCEPT ![p] = Nil]
    /\ current' = IF obj = uc /\ ~touched THEN current \ {p} ELSE {}

\* client.Delete goes by name, without a precondition on what was read.
DeleteUC ==
    /\ uc # Nil
    /\ uc' = Nil
    /\ current' = {}
    /\ UNCHANGED held

CreateUC(s) ==
    /\ uc = Nil
    /\ uc' = NewUpgradeConfig(s)
    /\ current' = {}
    /\ UNCHANGED held

\* Time passes while everything else waits.
Tick ==
    /\ now < MaxTime
    /\ now' = now + 1
    /\ UNCHANGED crVars

================================================================================
