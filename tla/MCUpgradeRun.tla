------------------------------- MODULE MCUpgradeRun -------------------------------
(***************************************************************************)
(* The steps of the OSD and of the ARO upgrader, a cluster with one worker *)
(* machine set and one worker.                                             *)
(***************************************************************************)
EXTENDS UpgradeRun

Workers == {"worker-a"}

LastSteps == <<"ScaleUpExtraNodes", "ControlPlaneMaintWindow", "CommenceUpgrade", "ControlPlaneUpgraded",
    "RemoveControlPlaneMaintWindow", "WorkersMaintWindow", "AllWorkerNodesUpgraded",
    "RemoveExtraScaledNodes", "RemoveMaintWindow", "PostClusterHealthCheck">>

\* UpgradeDelayedCheck has the condition of the first step.
OSDSteps == <<"SendStartedNotification", "SendStartedNotification", "IsClusterUpgradable", "PreHealthCheck",
    "ExternalDependencyAvailabilityCheck">> \o LastSteps \o <<"PostUpgradeProcedures", "SendCompletedNotification">>

AROSteps == <<"SendStartedNotification", "PreHealthCheck", "ExternalDependencyAvailabilityCheck">> \o LastSteps
    \o <<"SendCompletedNotification">>

\* What StepListAssumption says of the list of a run holds of the ARO upgrader's too.
ASSUME AROAssumption ==
    /\ \A s \in RequiredSteps : \E i \in DOMAIN AROSteps : AROSteps[i] = s
    /\ \A pair \in StepPairs : \A i, j \in DOMAIN AROSteps :
          AROSteps[i] = pair[1] /\ AROSteps[j] = pair[2] => i < j

================================================================================
