---------------------------- MODULE MCNodeKeeper ----------------------------
(* One node with a pod of each kind: in no budget, in a budget, and of a     *)
(* DaemonSet.                                                                *)
EXTENDS NodeKeeper

CONSTANTS w1, plain, guarded, spared, front, tier, budget

ThreePods == {plain, guarded, spared}
AllOnOne == [p \in Pods |-> w1]

\* The budget asks for two labels; the guarded pod has both, and so does the spared one.
PodLabels == [p \in Pods |-> IF p = plain THEN {} ELSE {front, tier}]
ByLabels == [b \in PDBs |-> {front, tier}]

=============================================================================
