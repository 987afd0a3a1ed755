------------------------- MODULE UpgradeConfigManager --------------------------
(***************************************************************************)
(* The UpgradeConfig manager: it makes the UpgradeConfig on the cluster    *)
(* follow the policy of the specification provider.  Refresh runs in two   *)
(* places at once: in the StartSync goroutine, and inside the reconcile of *)
(* a Pending UpgradeConfig whose time has come, where it is the kill       *)
(* switch.  Its API calls are separate steps, so the two interleave.       *)
(***************************************************************************)
EXTENDS UpgradeConfigCR

CONSTANT
    Configured   \* the ConfigMap names a specification provider

ASSUME ConfiguredAssumption == Configured \in BOOLEAN

Refreshers == {"reconciler", "sync"}

RefreshSteps == {"get", "pull", "delete", "confirm", "create"}

RefreshResults == {"changed", "unchanged", "failed"}

VARIABLES
    policy,    \* what the provider would answer now, Nil for no specification
    refresh,   \* per caller, the call Refresh makes next, or what it returned
    seen,      \* per caller, currentUpgradeConfig.Spec as read by Refresh
    target,    \* per caller, the specification the provider answered with
    answers    \* history variable: answers given to the kill switch

mgrVars == <<refresh, seen, target, answers>>

ManagerTypeOK ==
    /\ policy \in Specs \cup {Nil}
    /\ refresh \in [Refreshers -> RefreshSteps \cup RefreshResults \cup {"idle"}]
    /\ refresh["sync"] \in RefreshSteps
    /\ seen \in [Refreshers -> Specs \cup {Nil}]
    /\ target \in [Refreshers -> Specs \cup {Nil}]
    /\ answers \subseteq Specs

\* StartSync only ever waits for its timer or runs Refresh, so its first call,
\* "get", also stands for the wait.
ManagerInit ==
    /\ policy = Nil
    /\ refresh = [p \in Refreshers |-> IF p = "sync" THEN "get" ELSE "idle"]
    /\ seen = [p \in Refreshers |-> Nil]
    /\ target = [p \in Refreshers |-> Nil]
    /\ answers = {}

\* Refresh moves on to its next call.
Continue(p, step) ==
    refresh' = [refresh EXCEPT ![p] = step]

\* Refresh returns.  StartSync only looks at the error to choose how long it
\* waits, the reconciler goes on with the result.
Return(p, result) ==
    /\ refresh' = [refresh EXCEPT ![p] = IF p = "sync" THEN "get" ELSE result]
    /\ seen' = [seen EXCEPT ![p] = Nil]
    /\ target' = [target EXCEPT ![p] = Nil]

--------------------------------------------------------------------------------

\* s.Get(): not finding an UpgradeConfig is no error.
RefreshGet(p) ==
    /\ refresh[p] = "get"
    /\ seen' = [seen EXCEPT ![p] = IF uc = Nil THEN Nil ELSE uc.spec]
    /\ Continue(p, "pull")
    /\ UNCHANGED <<crVars, policy, target, answers>>

\* pp.Get(): pull the specifications of the provider and compare the first with
\* what was read.  No answer removes an UpgradeConfig, an equal one changes
\* nothing, any other creates, after removing what there was.
RefreshPull(p) ==
    /\ refresh[p] = "pull"
    /\ Configured
    /\ answers' = IF p = "reconciler" THEN answers \cup ({policy} \ {Nil}) ELSE answers
    /\ IF policy = seen[p]
         THEN Return(p, "unchanged")
         ELSE /\ Continue(p, IF seen[p] = Nil THEN "create" ELSE "delete")
              /\ target' = [target EXCEPT ![p] = policy]
              /\ UNCHANGED seen
    /\ UNCHANGED <<crVars, policy>>

\* ErrNotConfigured: the reconciler goes on without a kill switch.
RefreshNotConfigured(p) ==
    /\ refresh[p] = "pull"
    /\ ~Configured
    /\ Return(p, "unchanged")
    /\ UNCHANGED <<crVars, policy, answers>>

\* Faulty variant: the change is reported and nothing is deleted.
RefreshDeleteForgotten(p) ==
    /\ refresh[p] = "delete"
    /\ Return(p, "changed")
    /\ UNCHANGED <<crVars, policy, answers>>

\* Delete the UpgradeConfig; that is all when the provider has none.
RefreshDelete(p) ==
    /\ refresh[p] = "delete"
    /\ DeleteUC
    /\ IF target[p] = Nil
         THEN Return(p, "changed")
         ELSE Continue(p, "confirm") /\ UNCHANGED <<seen, target>>
    /\ UNCHANGED <<policy, answers>>

\* The poll that waits for the object to be gone.
RefreshConfirm(p) ==
    /\ refresh[p] = "confirm"
    /\ uc = Nil
    /\ Continue(p, "create")
    /\ UNCHANGED <<crVars, policy, seen, target, answers>>

RefreshCreate(p) ==
    /\ refresh[p] = "create"
    /\ CreateUC(target[p])
    /\ Return(p, "changed")
    /\ UNCHANGED <<policy, answers>>

\* Any call of Refresh may fail: the provider or the API server does not answer,
\* the object to delete is gone, the one to create is there already, or the poll
\* times out because another Refresh created one meanwhile.
RefreshError(p) ==
    /\ refresh[p] \in RefreshSteps
    /\ Return(p, "failed")
    /\ UNCHANGED <<crVars, policy, answers>>

Refresh(p) ==
    \/ RefreshGet(p)
    \/ RefreshPull(p)
    \/ RefreshNotConfigured(p)
    \/ RefreshDelete(p)
    \/ RefreshConfirm(p)
    \/ RefreshCreate(p)
    \/ RefreshError(p)

--------------------------------------------------------------------------------

\* The owner of the cluster schedules, changes, cancels or completes the upgrade
\* policy at any time.
ChangePolicy ==
    /\ policy' \in (Specs \cup {Nil}) \ {policy}
    /\ UNCHANGED <<crVars, mgrVars>>

\* An UpgradeConfig is created or deleted by hand on the cluster.
AdminCreate ==
    /\ \E s \in Specs : CreateUC(s)
    /\ UNCHANGED <<policy, mgrVars>>

AdminDelete ==
    /\ DeleteUC
    /\ UNCHANGED <<policy, mgrVars>>

================================================================================
