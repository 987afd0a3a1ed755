------------------------------ MODULE NodeKeeper ------------------------------
(***************************************************************************)
(* The NodeKeeper controller and the end of the upgrade it runs beside.    *)
(* One node is reconciled at a time.  A reconcile is cut where it calls    *)
(* the API: it reads the UpgradeConfig and the pool, then the node, then   *)
(* lists and changes pods once per strategy; nodes, pods, the pool and the *)
(* UpgradeConfig controller move on in between.                            *)
(***************************************************************************)
EXTENDS DrainStrategies

CONSTANTS
    CapacityReservation, \* spec.capacityReservation
    Finalized,           \* the pods that may have finalizers
    MaxFaults            \* bound: API errors and flapping nodes

VARIABLES
    phase,     \* the phase of the upgrade
    pool,      \* the worker pool's status says that it is upgrading
    queue,     \* the nodes to be reconciled
    call,      \* the reconcile under way: where it is, and what it has read
    gauge,     \* upgradeoperator_node_drain_timeout, per node
    delayed,   \* OCM was told of the delay
    faults

vars == <<PDBForceDrainTimeout, node, pod, phase, pool, queue, call, gauge, delayed, faults>>

Idle == [at |-> "idle"]

Init ==
    /\ PDBForceDrainTimeout \in GracePeriods
    /\ node = [n \in Workers |-> [there |-> TRUE, cordon |-> Uncordoned, deleting |-> FALSE,
                                  working |-> FALSE, updated |-> FALSE]]
    /\ pod \in [Pods -> {[phase |-> "running", finalizers |-> f] : f \in BOOLEAN}]
    /\ \A p \in Pods \ Finalized : ~pod[p].finalizers
    /\ phase = "Upgrading" /\ pool = TRUE
    /\ queue = Workers /\ call = Idle
    /\ gauge = [n \in Workers |-> FALSE]
    /\ delayed = FALSE /\ faults = 0

--------------------------------------------------------------------------------

Done == call' = Idle /\ queue' = queue

\* An error is returned: the node is reconciled again after a back-off.
Fail ==
    /\ faults < MaxFaults /\ faults' = faults + 1
    /\ call' = Idle /\ queue' = queue \cup {call.n}

ResetMetricNodeDrainFailed(n) == gauge' = [gauge EXCEPT ![n] = FALSE]

\* Nothing to do unless the cluster and its workers are upgrading.
Reconcile(n) ==
    /\ call = Idle /\ n \in queue
    /\ queue' = queue \ {n}
    /\ call' = IF phase = "Upgrading" /\ pool THEN [at |-> "node", n |-> n] ELSE Idle
    /\ UNCHANGED <<node, pod, PDBForceDrainTimeout, phase, pool, gauge, delayed, faults>>

\* A node that is gone or not cordoned has its gauge reset; if the metrics client for a node
\* that is gone cannot be made, that is left, and not tried again.  The strategies refuse a
\* node whose cordon has no time: that is retried for as long as it is so.
GetNode ==
    /\ call.at = "node"
    /\ LET x == node[call.n] IN
       \/ ~x.there /\ Done /\ ResetMetricNodeDrainFailed(call.n) /\ faults' = faults
       \/ ~x.there /\ Done /\ gauge' = gauge /\ faults < MaxFaults /\ faults' = faults + 1
       \/ x.there /\ ~IsCordoned(x) /\ Done /\ ResetMetricNodeDrainFailed(call.n) /\ faults' = faults
       \/ /\ x.there /\ IsCordoned(x) /\ (x.cordon # NoTime \/ timedDrainStrategies = <<>>)
          /\ call' = [at |-> "strategy", n |-> call.n, node |-> x, i |-> 1]
          /\ UNCHANGED <<queue, gauge, faults>>
       \/ /\ x.there /\ x.cordon = NoTime /\ timedDrainStrategies # <<>>
          /\ call' = Idle /\ queue' = queue \cup {call.n}
          /\ UNCHANGED <<gauge, faults>>
       \/ Fail /\ gauge' = gauge
    /\ UNCHANGED <<node, pod, PDBForceDrainTimeout, phase, pool, delayed>>

NextStrategy == call' = [call EXCEPT !.i = @ + 1] /\ UNCHANGED <<queue, faults>>

\* Execute, one strategy at a time.  The first error ends it.  A first forced deletion
\* of pods of a budget is reported to OCM as a delay, after the deletion.
Execute ==
    /\ call.at = "strategy" /\ call.i <= Len(timedDrainStrategies)
    /\ LET s == timedDrainStrategies[call.i]
           marked == Marked(s, call.n)
           report == s.name = "PDB-DELETE" /\ marked # {} /\ ~delayed
       IN
       \/ ~isAfter(call.node.cordon, s.wait) /\ NextStrategy /\ UNCHANGED <<pod, delayed>>
       \/ /\ isAfter(call.node.cordon, s.wait)
          /\ ExecuteStrategy(s, call.n, {})
          /\ \/ NextStrategy /\ delayed' = (delayed \/ report)
             \/ report /\ Fail /\ delayed' = delayed
       \/ /\ isAfter(call.node.cordon, s.wait)
          /\ \E failed \in SUBSET marked : failed # {} /\ ExecuteStrategy(s, call.n, failed)
          /\ Fail /\ delayed' = delayed
    /\ UNCHANGED <<node, PDBForceDrainTimeout, phase, pool, gauge>>

\* Faulty variant: the annotation is compared with the wrong state.
NodeDrainResultIfDone ==
    /\ call.at = "strategy" /\ call.i > Len(timedDrainStrategies)
    /\ LET failed == HasFailed(call.n, call.node.cordon) IN
       \/ /\ failed /\ ~call.node.deleting /\ ~call.node.working
          /\ gauge' = [gauge EXCEPT ![call.n] = TRUE]
       \/ /\ failed /\ ~call.node.deleting /\ call.node.working
          /\ gauge' = gauge
       \/ (~failed \/ call.node.deleting) /\ ResetMetricNodeDrainFailed(call.n)
    /\ call' = Idle /\ queue' = queue \cup {call.n}
    /\ UNCHANGED <<node, pod, PDBForceDrainTimeout, phase, pool, delayed, faults>>

\* HasFailed and NodeDrainResult; the node is looked at again in a minute.
NodeDrainResult ==
    /\ call.at = "strategy" /\ call.i > Len(timedDrainStrategies)
    /\ LET failed == HasFailed(call.n, call.node.cordon) IN
       \/ /\ failed /\ ~call.node.deleting /\ call.node.working
          /\ gauge' = [gauge EXCEPT ![call.n] = TRUE]
       \/ /\ failed /\ ~call.node.deleting /\ ~call.node.working
          /\ gauge' = gauge
       \/ (~failed \/ call.node.deleting) /\ ResetMetricNodeDrainFailed(call.n)
    /\ call' = Idle /\ queue' = queue \cup {call.n}
    /\ UNCHANGED <<node, pod, PDBForceDrainTimeout, phase, pool, delayed, faults>>

--------------------------------------------------------------------------------

\* Faulty variant: only a drain that timed out touches the gauges.
RemoveExtraScaledNodesNoReset ==
    /\ phase = "Upgrading" /\ ~pool /\ CapacityReservation
    /\ UNCHANGED vars

\* The steps of the upgrade after AllWorkersUpgraded.  Once the extra nodes are gone, all
\* gauges are reset; without a reservation there is nothing to do.
RemoveExtraScaledNodes ==
    /\ phase = "Upgrading" /\ ~pool /\ CapacityReservation
    /\ gauge' = [n \in Workers |-> FALSE]
    /\ UNCHANGED <<node, pod, PDBForceDrainTimeout, phase, pool, queue, call, delayed, faults>>

\* The health check fails while a critical alert fires, and one does for a node whose
\* gauge is set.  Then it resets the gauges.  A later step may yet fail, and the steps
\* are run again.
PostUpgradeHealthCheck ==
    /\ phase = "Upgrading" /\ ~pool
    /\ \A n \in Workers : ~gauge[n]
    /\ gauge' = [n \in Workers |-> FALSE]
    /\ phase' \in {"Upgrading", "Upgraded"}
    /\ UNCHANGED <<PDBForceDrainTimeout, node, pod, pool, queue, call, delayed, faults>>

--------------------------------------------------------------------------------
\* The cluster around the operator.

\* A change of a node is an event for the controller.
Change(n, x) ==
    /\ node' = [node EXCEPT ![n] = x]
    /\ queue' = queue \cup {n}
    /\ UNCHANGED <<pod, PDBForceDrainTimeout, phase, pool, call, gauge, delayed>>

\* For its update by the machine-config daemon, or by an administrator.
Cordon(n) ==
    /\ node[n].there /\ ~node[n].updated /\ ~IsCordoned(node[n]) /\ faults' = faults
    /\ \E at \in {0, NoTime}, update \in BOOLEAN :
         Change(n, [node[n] EXCEPT !.cordon = at, !.working = @ \/ update])

Flap(n) ==
    /\ node[n].there /\ IsCordoned(node[n])
    /\ faults < MaxFaults /\ faults' = faults + 1
    /\ Change(n, [node[n] EXCEPT !.cordon = Uncordoned])

NodeUpdated(n) ==
    /\ node[n].there /\ IsCordoned(node[n]) /\ node[n].working
    /\ \A p \in Pods : Home[p] = n => p \in DaemonSetPods \/ pod[p].phase = "gone"
    /\ faults' = faults
    /\ Change(n, [node[n] EXCEPT !.cordon = Uncordoned, !.working = FALSE, !.updated = TRUE])

DeleteNode(n) ==
    /\ node[n].there /\ faults' = faults
    /\ Change(n, IF node[n].deleting THEN [node[n] EXCEPT !.there = FALSE, !.cordon = Uncordoned]
                 ELSE [node[n] EXCEPT !.deleting = TRUE])

PoolStatus ==
    /\ pool' = \E n \in Workers : node[n].there /\ ~node[n].updated
    /\ pool' # pool
    /\ UNCHANGED <<node, pod, PDBForceDrainTimeout, phase, queue, call, gauge, delayed, faults>>

\* The kubelet reports its node's status: an event as well.
Heartbeat(n) ==
    /\ node[n].there /\ n \notin queue
    /\ queue' = queue \cup {n}
    /\ UNCHANGED <<node, pod, PDBForceDrainTimeout, phase, pool, call, gauge, delayed, faults>>

\* The drain of the machine-config daemon evicts pods, budgets permitting.
Evict(p) ==
    /\ IsCordoned(node[Home[p]]) /\ pod[p].phase = "running" /\ p \notin DaemonSetPods
    /\ pod' = [pod EXCEPT ![p].phase = "evicted"]
    /\ UNCHANGED <<node, PDBForceDrainTimeout, phase, pool, queue, call, gauge, delayed, faults>>

KubeletDone(p) ==
    /\ pod[p].phase = "evicted" /\ ~pod[p].finalizers
    /\ pod' = [pod EXCEPT ![p].phase = "gone"]
    /\ UNCHANGED <<node, PDBForceDrainTimeout, phase, pool, queue, call, gauge, delayed, faults>>

Aged(x) == IF x.cordon \in 0..MaxAge - 1 THEN [x EXCEPT !.cordon = @ + 1] ELSE x

Tick ==
    /\ node' = [n \in Workers |-> Aged(node[n])]
    /\ call' = IF call.at = "strategy" THEN [call EXCEPT !.node = Aged(@)] ELSE call
    /\ UNCHANGED <<pod, PDBForceDrainTimeout, phase, pool, queue, gauge, delayed, faults>>

Next ==
    \/ GetNode \/ Execute \/ NodeDrainResult \/ RemoveExtraScaledNodes \/ PostUpgradeHealthCheck
    \/ PoolStatus \/ Tick
    \/ \E n \in Workers : \/ Reconcile(n) \/ Cordon(n) \/ Flap(n) \/ NodeUpdated(n)
                          \/ DeleteNode(n) \/ Heartbeat(n)
    \/ \E p \in Pods : Evict(p) \/ KubeletDone(p)

SafetySpec == Init /\ [][Next]_vars

--------------------------------------------------------------------------------

\* A drain is reported as failed only when no strategy that has yet to come has a pod to
\* work on, and when the strategies for budgets, if they are due by the cordon that was
\* read, have been given the expected drain time; so have the others if they come first, for
\* the order that sortDuration leaves the strategies in is the right one only then (HasFailed).
FailsAfterLast ==
    [][\A n \in Workers : ~gauge[n] /\ gauge'[n] =>
        \A i \in DOMAIN timedDrainStrategies :
            LET s == timedDrainStrategies[i]
                pdbDuration == PDBForceDrainTimeout + ExpectedNodeDrainTime
            IN IF isAfter(call.node.cordon, s.wait)
               THEN s.pdb \/ TimeOut <= pdbDuration => isAfter(call.node.cordon, s.wait + ExpectedNodeDrainTime)
               ELSE ~IsValid(s, n)]_vars

--------------------------------------------------------------------------------

\* The controller's worker takes what is queued, the minute's requeue and the retry of an
\* error always come, the steps of the upgrade are run again and again, and the
\* machine-config controller keeps the pool's status up to date.  Nothing is assumed of
\* the nodes, of the drain and of the kubelets.
Fairness ==
    /\ \A n \in Workers : SF_vars(Reconcile(n)) /\ WF_vars(Heartbeat(n))
    /\ WF_vars(GetNode) /\ WF_vars(Execute) /\ WF_vars(NodeDrainResult)
    /\ WF_vars(PoolStatus) /\ WF_vars(Tick) /\ WF_vars(RemoveExtraScaledNodes)
    /\ SF_vars(PostUpgradeHealthCheck /\ phase' = "Upgraded")

Spec == SafetySpec /\ Fairness

StaysCordoned(n) == node[n].there /\ node[n].cordon >= 0
Drainable == Pods \ (DaemonSetPods \cup IgnoredPods)

\* While the pool upgrades, no pod that is in reach of the strategies stays on a node that
\* stays cordoned, whatever its finalizers and its kubelet; one in a budget may stay, evicted
\* and without finalizers, for its kubelet (the strategies for other pods, and those for pods
\* of a budget, work together; POD-STUCK-TERMINATING is not for the latter).
PodsGo ==
    \A p \in Drainable : <>[](StaysCordoned(Home[p]) /\ pool) =>
        <>(\/ pod[p].phase = "gone"
           \/ containsMatchLabel(p) /\ pod[p] = [phase |-> "evicted", finalizers |-> FALSE])

\* While the pool upgrades the gauge of a node settles: it is set for a node that stays
\* cordoned for its update, whatever pods are left on it, and reset for one that is
\* schedulable again (HasFailed, NodeDrainResult, GetNode).
GaugeSettles ==
    \A n \in Workers :
        /\ <>[](StaysCordoned(n) /\ node[n].working /\ ~node[n].deleting /\ pool) => <>[]gauge[n]
        /\ <>[](node[n].there /\ ~IsCordoned(node[n]) /\ pool) => <>[]~gauge[n]

\* Once the pool is upgraded for good, the upgrade ends: a gauge that is still set does
\* not hold it up (RemoveExtraScaledNodes, PostUpgradeHealthCheck).
UpgradeCompletes == <>[]~pool => <>(phase = "Upgraded")

=============================================================================
