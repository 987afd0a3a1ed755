------------------------------ MODULE StepRunner ------------------------------
(***************************************************************************)
(* The runner of the upgrade steps and the conditions it keeps.            *)
(*                                                                         *)
(* Every Reconcile of an Upgrading UpgradeConfig runs the list of steps    *)
(* from the first one until a step is not done.  The conditions are        *)
(* written to the copy Reconcile works on, and stored by one status update *)
(* after the run; a refused update or a restart loses them.  What a step   *)
(* does is not modelled here: it is done, or it is not.                    *)
(***************************************************************************)
EXTENDS Integers, Sequences, FiniteSets

CONSTANTS
    Steps,         \* the names of the upgrader's steps, in order; names may repeat
    FailurePolicy  \* whether the upgrader fails an upgrade that does not commence

ASSUME StepsAssumption ==
    /\ Steps \in Seq(STRING)
    /\ Len(Steps) > 0
    /\ FailurePolicy \in BOOLEAN

VARIABLES
    conds,     \* conditions of the copy Reconcile works on, the newest first
    stored,    \* conditions of the stored UpgradeConfig
    phase,     \* its phase
    step,      \* 0: no run; k in 1..Len(Steps): at step k; Len(Steps) + 1: returned
    result,    \* phase that UpgradeCluster returned
    stop,      \* the step that stopped this run, 0 while there is none
    stoppedAt  \* the same of the last run that was stored

vars == <<conds, stored, phase, step, result, stop, stoppedAt>>

Returned == Len(Steps) + 1

Condition ==
    [type : STRING, status : {"True", "False"}, startTime : BOOLEAN, completeTime : BOOLEAN]

RunnerTypeOK ==
    /\ conds \in Seq(Condition)
    /\ stored \in Seq(Condition)
    /\ phase \in {"Upgrading", "Upgraded", "Failed"}
    /\ step \in 0..Returned
    /\ result \in {"None", "Upgrading", "Upgraded", "Failed"}
    /\ stop \in 0..Len(Steps)
    /\ stoppedAt \in 0..Len(Steps)

Init ==
    /\ conds = <<>>
    /\ stored = <<>>
    /\ phase = "Upgrading"
    /\ step = 0
    /\ result = "None"
    /\ stop = 0
    /\ stoppedAt = 0

--------------------------------------------------------------------------------

Has(cs, t) == \E i \in DOMAIN cs : cs[i].type = t

\* IsTrueFor and IsFalseFor; no type occurs twice.
IsTrueFor(cs, t) == \E i \in DOMAIN cs : cs[i].type = t /\ cs[i].status = "True"

IsFalseFor(cs, t) == \E i \in DOMAIN cs : cs[i].type = t /\ cs[i].status = "False"

\* SetCondition with a type that is there replaces the condition in place.
Replace(cs, t, Change(_)) ==
    [i \in DOMAIN cs |-> IF cs[i].type = t THEN Change(cs[i]) ELSE cs[i]]

\* SetCondition with a new type puts the condition before the others.
Prepend(cs, c) == <<c>> \o cs

Started(t) == [type |-> t, status |-> "False", startTime |-> TRUE, completeTime |-> FALSE]

InProgress(c) == [c EXCEPT !.status = "False", !.completeTime = FALSE]

Complete(c) == [c EXCEPT !.status = "True", !.completeTime = TRUE]

setConditionStart(cs, t) == IF Has(cs, t) THEN cs ELSE Prepend(cs, Started(t))

\* Faulty variants: a condition that was complete is left alone; its completion
\* time is kept.
SetInProgressOnce(cs, t) ==
    LET Change(c) == IF c.status = "True" THEN c ELSE InProgress(c) IN Replace(cs, t, Change)

SetInProgressKeepTime(cs, t) ==
    LET Change(c) == [c EXCEPT !.status = "False"] IN Replace(cs, t, Change)

setConditionInProgress(cs, t) == Replace(cs, t, InProgress)

\* The completion time of a condition that was complete already is kept.
setConditionComplete(cs, t) == Replace(cs, t, Complete)

--------------------------------------------------------------------------------

\* Reconcile has read the stored UpgradeConfig and calls UpgradeCluster.
StartRun ==
    /\ step = 0
    /\ phase = "Upgrading"
    /\ conds' = stored
    /\ step' = 1
    /\ result' = "None"
    /\ stop' = 0
    /\ UNCHANGED <<stored, phase, stoppedAt>>

\* The step at which the run is returns true.
StepDone ==
    /\ step \in 1..Len(Steps)
    /\ conds' = setConditionComplete(setConditionStart(conds, Steps[step]), Steps[step])
    /\ step' = step + 1
    /\ result' = IF step = Len(Steps) THEN "Upgraded" ELSE "None"
    /\ UNCHANGED <<stored, phase, stop, stoppedAt>>

\* Faulty variant: the runner goes on with the next step.
StepPassedOver ==
    /\ step \in 1..Len(Steps)
    /\ conds' = setConditionInProgress(setConditionStart(conds, Steps[step]), Steps[step])
    /\ step' = step + 1
    /\ result' = IF step = Len(Steps) THEN "Upgraded" ELSE "None"
    /\ UNCHANGED <<stored, phase, stop, stoppedAt>>

\* The step returns false or an error: the following ones are not run.
StepStops ==
    /\ step \in 1..Len(Steps)
    /\ conds' = setConditionInProgress(setConditionStart(conds, Steps[step]), Steps[step])
    /\ step' = Returned
    /\ result' = "Upgrading"
    /\ stop' = step
    /\ UNCHANGED <<stored, phase, stoppedAt>>

\* performUpgradeFailure in place of a run.  The condition FailedUpgrade is set on
\* what GetHistory returned, a copy, which is not handed to SetHistory: conds
\* stays as it is.  When the extra machines cannot be removed or the failure
\* cannot be notified, the phase is returned as it was.
PerformUpgradeFailure ==
    /\ FailurePolicy
    /\ step = 1
    /\ step' = Returned
    /\ result' \in {"Failed", "Upgrading"}
    /\ UNCHANGED <<conds, stored, phase, stop, stoppedAt>>

\* The status update of upgradeCluster.
Record ==
    /\ step = Returned
    /\ stored' = conds
    /\ phase' = result
    /\ stoppedAt' = IF result = "Upgrading" /\ stop = 0 THEN stoppedAt ELSE stop
    /\ step' = 0
    /\ UNCHANGED <<conds, result, stop>>

\* The update is refused, or the process is restarted in the middle of a run.
Lose ==
    /\ step # 0
    /\ step' = 0
    /\ UNCHANGED <<conds, stored, phase, result, stop, stoppedAt>>

Next ==
    \/ StartRun
    \/ StepDone
    \/ StepStops
    \/ PerformUpgradeFailure
    \/ Record
    \/ Lose

Spec == Init /\ [][Next]_vars

--------------------------------------------------------------------------------

\* Upgraded is stored only with the condition of every step of the list complete,
\* although the conditions were collected by many runs, some of them lost, and two
\* steps may share one condition (Run).
UpgradedIsComplete ==
    phase = "Upgraded" => \A k \in 1..Len(Steps) : IsTrueFor(stored, Steps[k])

\* The stored conditions tell where the last stored run stopped: the step that
\* stopped it is incomplete, and every step before it, whatever earlier runs had
\* said of it, is complete unless it shares that step's condition (Run,
\* setConditionInProgress, setConditionComplete).
StoppedWhereItSays ==
    (phase = "Upgrading" /\ stoppedAt > 0)
      => /\ IsFalseFor(stored, Steps[stoppedAt])
         /\ \A k \in 1..(stoppedAt - 1) :
              Steps[k] # Steps[stoppedAt] => IsTrueFor(stored, Steps[k])

\* The time collectCondition reads of a condition is there; it does not look.
collectCondition(c) == IF c.status = "True" THEN c.completeTime ELSE c.startTime

\* No stored condition makes collectUpgradeConditions, which runs in another
\* goroutine, dereference a missing time, and a completion time is shown of
\* complete steps only (collectCondition, setConditionInProgress).
CollectorTimes ==
    \A i \in DOMAIN stored :
        /\ collectCondition(stored[i])
        /\ stored[i].completeTime => stored[i].status = "True"

\* The loops of createFailureDescription and createDelayedDescription: condition i
\* is the first one that is False.
IsFirstIncomplete(cs, i) ==
    /\ cs[i].status = "False"
    /\ \A j \in 1..(i - 1) : cs[j].status # "False"

\* The step a failure or delay notification blames is the one that stopped the last
\* stored run or a later one, never one that was passed (createFailureDescription).
BlamesNoPassedStep ==
    (phase = "Upgrading" /\ stoppedAt > 0)
      => \E i \in DOMAIN stored, k \in stoppedAt..Len(Steps) :
            IsFirstIncomplete(stored, i) /\ stored[i].type = Steps[k]

================================================================================
