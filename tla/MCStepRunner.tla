----------------------------- MODULE MCStepRunner -----------------------------
(***************************************************************************)
(* The step runner with the beginning of the OSD upgrader's list of steps.  *)
(***************************************************************************)
EXTENDS StepRunner

\* The steps of the OSD upgrader up to the upgraded control plane.  The first two
\* share a condition.
OSDSteps ==
    <<"SendStartedNotification", "SendStartedNotification", "IsClusterUpgradable",
      "PreHealthCheck", "ExtDepAvailabilityCheck", "ScaleUpExtraNodes",
      "ControlPlaneMaintWindow", "CommenceUpgrade", "ControlPlaneUpgraded">>

================================================================================
