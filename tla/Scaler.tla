--------------------------------- MODULE Scaler ---------------------------------
(***************************************************************************)
(* The machine set scaler: the extra machine sets an upgrade creates so    *)
(* that workloads keep their capacity, one for each original machine set.  *)
(*                                                                         *)
(* A call of the scaler makes several calls of the API server; each list   *)
(* comes in any order, and any call may fail after the ones before it had  *)
(* their effect.  The machine API creates the machine of a set, its node   *)
(* becomes ready or does not, and both go away after the set is deleted.   *)
(***************************************************************************)
EXTENDS Integers, FiniteSets

CONSTANTS
    WorkerSets,    \* the machine sets of the pool "worker"
    ExtraMachinePools, \* whether scale.extraMachinePools has patterns
    ExtraPoolSets, \* the machine sets of the pools that they match
    ScaleTimeout   \* scale.timeOut of the ConfigMap

ASSUME ScalerAssumption ==
    /\ WorkerSets \cap ExtraPoolSets = {}
    /\ ExtraMachinePools \in BOOLEAN
    /\ ExtraPoolSets # {} => ExtraMachinePools
    /\ ScaleTimeout \in Nat

Originals == WorkerSets \cup ExtraPoolSets

VARIABLES
    mset,       \* per original, its set "-upgrade": none, exists, or deleting
    machine,    \* its machine: none, provisioning, or ready
    age,        \* the time since its creation, up to the first time past the limit
    scaleResult \* what the last call of the scaler returned

scalerVars == <<mset, machine, age, scaleResult>>

ScaleUpResults == {"created", "waiting", "ready", "timeout", "error"}
ScaleDownResults == {"terminating", "removed", "draintimeout", "error"}

ScalerInit ==
    /\ mset = [s \in Originals |-> "none"]
    /\ machine = [s \in Originals |-> "none"]
    /\ age = [s \in Originals |-> 0]
    /\ scaleResult = "none"

--------------------------------------------------------------------------------

CanScale == WorkerSets # {}

upgradeMachineSets == {s \in Originals : mset[s] # "none"}

\* What EnsureScaleUpNodes finds to scale.  A list that fails is logged and left
\* out; with nothing to scale the call fails.
allOriginals == {WorkerSets \cup ExtraPoolSets, WorkerSets, ExtraPoolSets} \ {{}}

CreateSets(new) ==
    /\ mset' = [s \in Originals |-> IF s \in new THEN "exists" ELSE mset[s]]
    /\ age' = [s \in Originals |-> IF s \in new THEN 0 ELSE age[s]]

\* extraMachineSetCreated: the loop over the listed originals, workers first, creates
\* the sets in new.  It ends with "no" at the first original that has its extra set
\* already, and with "error" at a creation that fails.
extraMachineSetCreated(listed, new, created) ==
    LET missing == listed \ upgradeMachineSets IN
    /\ (new \cap ExtraPoolSets # {}) => (listed \cap WorkerSets) \subseteq new
    /\ \/ created = "yes" /\ missing = listed /\ new = listed
       \/ created = "no" /\ missing # listed
       \/ created = "error" /\ new # missing

TimedOut(s) == age[s] > ScaleTimeout

\* Faulty variant: no time limit.
NodesAreReadyWithoutLimit(sets, res) ==
    \/ (\A s \in sets : machine[s] = "ready") /\ res = "ready"
    \/ \E s \in sets : machine[s] # "ready" /\ res = "waiting"

\* nodesAreReady: the first set of the list that is not ready decides.  The time limit is
\* one for a machine whose node is not ready; for a set without a machine there is none.
\* (A machine that its set does not count yet has no node: the call ends with an error.)
nodesAreReady(sets, res) ==
    \/ (\A s \in sets : machine[s] = "ready") /\ res = "ready"
    \/ (\E s \in sets : machine[s] = "none") /\ res = "waiting"
    \/ \E s \in sets : machine[s] = "provisioning" /\ res = IF TimedOut(s) THEN "timeout" ELSE "waiting"

EnsureScaleUpNodes(res) ==
    \/ \E listed \in allOriginals : \E new \in SUBSET (listed \ upgradeMachineSets), created \in {"yes", "no", "error"} :
        /\ extraMachineSetCreated(listed, new, created)
        /\ CreateSets(new)
        /\ CASE created = "yes" -> res = "created"
             [] created = "error" -> res = "error"
             [] OTHER -> nodesAreReady(upgradeMachineSets, res)
        /\ UNCHANGED machine
    \/ /\ res = "error"
       /\ UNCHANGED <<mset, machine, age>>

\* Faulty variant: a deletion that fails is not reported.
EnsureScaleDownNodesLax(drained, res) ==
    \E deleted \in SUBSET upgradeMachineSets :
        /\ mset' = [s \in Originals |-> IF s \in deleted THEN "deleting" ELSE mset[s]]
        /\ IF drained
             THEN res = IF \A s \in Originals : machine[s] = "none" THEN "removed" ELSE "terminating"
             ELSE res \in {"draintimeout", "error"}
        /\ UNCHANGED <<machine, age>>

\* EnsureScaleDownNodes deletes the extra sets, drains their nodes if a drain strategy
\* is given, and reports whether any extra machine is left.
EnsureScaleDownNodes(drained, res) ==
    \/ /\ mset' = [s \in Originals |-> IF mset[s] = "none" THEN "none" ELSE "deleting"]
       /\ IF drained
            THEN res = IF \A s \in Originals : machine[s] = "none" THEN "removed" ELSE "terminating"
            ELSE res \in {"draintimeout", "error"}
       /\ UNCHANGED <<machine, age>>
    \/ \E deleted \in SUBSET {s \in Originals : mset[s] = "exists"} :
       /\ mset' = [s \in Originals |-> IF s \in deleted THEN "deleting" ELSE mset[s]]
       /\ res = "error"
       /\ UNCHANGED <<machine, age>>

--------------------------------------------------------------------------------
\* The machine API.

MachineCreated(s) ==
    /\ mset[s] = "exists"
    /\ machine[s] = "none"
    /\ machine' = [machine EXCEPT ![s] = "provisioning"]
    /\ UNCHANGED <<mset, age, scaleResult>>

NodeReady(s) ==
    /\ machine[s] = "provisioning"
    /\ machine' = [machine EXCEPT ![s] = "ready"]
    /\ UNCHANGED <<mset, age, scaleResult>>

NodeNotReady(s) ==
    /\ machine[s] = "ready"
    /\ machine' = [machine EXCEPT ![s] = "provisioning"]
    /\ UNCHANGED <<mset, age, scaleResult>>

MachineRemoved(s) ==
    /\ mset[s] # "exists"
    /\ machine[s] # "none"
    /\ machine' = [machine EXCEPT ![s] = "none"]
    /\ UNCHANGED <<mset, age, scaleResult>>

SetRemoved(s) ==
    /\ mset[s] = "deleting"
    /\ mset' = [mset EXCEPT ![s] = "none"]
    /\ age' = [age EXCEPT ![s] = 0]
    /\ UNCHANGED <<machine, scaleResult>>

MachineAPI ==
    \E s \in Originals :
        MachineCreated(s) \/ NodeReady(s) \/ NodeNotReady(s) \/ MachineRemoved(s) \/ SetRemoved(s)

ScalerTick ==
    /\ age' = [s \in Originals |-> IF mset[s] = "none" \/ TimedOut(s) THEN age[s] ELSE age[s] + 1]
    /\ UNCHANGED <<mset, machine, scaleResult>>

--------------------------------------------------------------------------------
\* The scaler alone: called by one run of the steps after the other, to scale up until
\* the upgrade commences, then to scale down.

ScaleUp ==
    /\ scaleResult \in {"none"} \cup ScaleUpResults
    /\ \E res \in ScaleUpResults : EnsureScaleUpNodes(res) /\ scaleResult' = res

ScaleDown ==
    /\ scaleResult \in {"ready", "timeout", "terminating", "draintimeout"}
    /\ \E drained \in BOOLEAN, res \in ScaleDownResults :
        /\ EnsureScaleDownNodes(drained, res)
        /\ scaleResult' = IF res = "error" THEN "draintimeout" ELSE res

\* The UpgradeConfig is replaced, at any time: the next one scales up with what is there.
NewUpgrade ==
    /\ scaleResult' = "none"
    /\ UNCHANGED <<mset, machine, age>>

ScalerNext == ScaleUp \/ ScaleDown \/ NewUpgrade \/ MachineAPI \/ ScalerTick

\* The steps are run again and again, and what is tried again and again does not
\* fail forever; the machine API creates the machine of a set and removes what is
\* deleted; time passes.  Nothing is assumed of the nodes.
ScalerFairness ==
    /\ WF_scalerVars(ScalerTick)
    /\ SF_scalerVars(ScaleUp /\ scaleResult' # "error")
    /\ SF_scalerVars(ScaleDown /\ scaleResult' \in {"terminating", "removed"})
    /\ \A s \in Originals :
        WF_scalerVars(MachineCreated(s)) /\ WF_scalerVars(MachineRemoved(s)) /\ WF_scalerVars(SetRemoved(s))

ScalerSpec == ScalerInit /\ [][ScalerNext]_scalerVars /\ ScalerFairness

--------------------------------------------------------------------------------

\* Once scale-down has reported the extra nodes removed there is no extra machine, and
\* no set that could make one, although each deletion may have failed before
\* (EnsureScaleDownNodes).
RemovedStaysRemoved ==
    scaleResult = "removed" =>
        \A s \in Originals : machine[s] = "none" /\ mset[s] # "exists"

\* An upgrade is not held up by its extra nodes: scaling up ends, with ready nodes or with
\* the time limit, whatever creations failed, however often a node becomes unready and
\* whatever sets an earlier upgrade left, and scaling down ends with the extra machines
\* removed, unless the UpgradeConfig is replaced (nodesAreReady, EnsureScaleDownNodes).
ScalingEnds ==
    /\ scaleResult \in {"created", "waiting", "error"} ~> scaleResult \in {"ready", "timeout", "none"}
    /\ scaleResult = "terminating" ~> scaleResult \in {"removed", "none"}

================================================================================
