----------------------------- MODULE MCNotifications -----------------------------
(***************************************************************************)
(* The notifications of two UpgradeConfigs for the same version.           *)
(* One service log before and one after the upgrade commences, and the     *)
(* delays of the steps and of the drain stand for the others of their      *)
(* kind: the logs of the health checks and of the finished control plane,  *)
(* and the two Skipped states, which are read back like DrainDelayed.      *)
(***************************************************************************)
EXTENDS Notifications, TLC

CONSTANTS policy1, policy2

TwoPolicies == {policy1, policy2}
PolicySymmetry == Permutations(TwoPolicies)

MostEvents == Events \ {"HealthCheckSL", "ControlPlaneFinishedSL", "ScaleSkipped", "Skipped", "PreHealthCheckSL"}

================================================================================
