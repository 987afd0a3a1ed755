----------------------- MODULE MCUpgradeConfigController -----------------------
(***************************************************************************)
(* The UpgradeConfig controller with the manager, for one upgrade.         *)
(***************************************************************************)
EXTENDS UpgradeConfigController

OneSpec == {[version |-> 2, upgradeAt |-> 0, type |-> "OSD"]}

================================================================================
