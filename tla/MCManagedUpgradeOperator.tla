----------------------- MODULE MCManagedUpgradeOperator ------------------------
(***************************************************************************)
(* The whole operator, for one upgrade, and for one upgrade next to a      *)
(* request for the version the cluster is at.                              *)
(***************************************************************************)
EXTENDS ManagedUpgradeOperator

OneSpec == {[version |-> 2, upgradeAt |-> 0, type |-> "OSD"]}

WithCurrentVersion == {[version |-> 2, upgradeAt |-> 0, type |-> "OSD"],
                       [version |-> 1, upgradeAt |-> 0, type |-> "ARO"]}

================================================================================
