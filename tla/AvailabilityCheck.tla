-------------------------- MODULE AvailabilityCheck --------------------------
(***************************************************************************)
(* The step ExternalDependencyAvailabilityCheck: one goroutine per target  *)
(* with its retries, the error variable they share, the timeout of the     *)
(* HTTP client in the 64 bits it is computed in, and the repetition of the *)
(* step by the reconciles that follow a failure.  The targets change       *)
(* between the requests.                                                   *)
(***************************************************************************)
EXTENDS Integers, FiniteSets

CONSTANTS
    Targets, \* the URLs; without any there is no checker and the step is done
    Silent,  \* those that may leave a request without an answer
    Timeout, \* of the configuration, in seconds
    None     \* no error

\* upgraderConfig.IsValid accepts no other timeout.
ASSUME AvailabilityAssumption ==
    IsFiniteSet(Targets) /\ Silent \subseteq Targets /\ Timeout \in 1..60 /\ None \notin Targets

\* A time.Duration: 64 bits, as four digits of 16 bits, the lowest first.
Digit == 65536

Times(d, k) ==
    LET p1 == d[1] * k
        p2 == d[2] * k + p1 \div Digit
        p3 == d[3] * k + p2 \div Digit
        p4 == d[4] * k + p3 \div Digit
    IN  <<p1 % Digit, p2 % Digit, p3 % Digit, p4 % Digit>>

TimesSecond(d) == Times(Times(Times(d, 1000), 1000), 1000)

GetTimeoutDuration == TimesSecond(<<Timeout, 0, 0, 0>>)

\* http.Client waits at most its Timeout if that is positive, and for ever if it is not.
\* The seconds are multiplied by a second twice: the shortest time that is positive is
\* more than three years (Timeout = 37).
ClientTimeout ==
    LET d == TimesSecond(GetTimeoutDuration)
    IN  d[4] < Digit \div 2 /\ d # <<0, 0, 0, 0>>

Attempts == 3

VARIABLES
    up,      \* per target what it answers with
    step,    \* the step: idle, waiting for the routines, passed or failed
    routine, \* per target the goroutine: about to make a request, hanging in one, or done
    left,    \* per target the attempts that are left
    err,     \* HTTPAvailabilityError, by the target it is about
    answer   \* history variable: per target the last answer to this check

vars == <<up, step, routine, left, err, answer>>

Answers == {"ok", "clientError", "serverError", "noAnswer"}

AvailabilityTypeOK ==
    /\ up \in [Targets -> Answers] /\ step \in {"idle", "waiting", "passed", "failed"}
    /\ routine \in [Targets -> {"call", "hanging", "done"}] /\ left \in [Targets -> 0..Attempts]
    /\ err \in Targets \cup {None} /\ answer \in [Targets -> Answers \cup {"none"}]

Init ==
    /\ up \in [Targets -> {"ok", "clientError", "serverError"}]
    /\ step = "idle" /\ err = None
    /\ routine = [t \in Targets |-> "done"] /\ left = [t \in Targets |-> 0]
    /\ answer = [t \in Targets |-> "none"]

\* The step, as long as the upgrade has not commenced.  To find out fails without effect.
ExternalDependencyAvailabilityCheck ==
    /\ step \in {"idle", "failed"} /\ step' = "waiting"
    /\ routine' = [t \in Targets |-> "call"] /\ left' = [t \in Targets |-> Attempts]
    /\ err' = None /\ answer' = [t \in Targets |-> "none"]
    /\ UNCHANGED up

\* Faulty variant: the routine of an available target writes its nil.
FinishAlways(t, e) ==
    routine' = [routine EXCEPT ![t] = "done"] /\ err' = e

\* Faulty variant: an error returns before wg.Done.
FinishReturns(t, e) ==
    /\ routine' = [routine EXCEPT ![t] = IF e = None THEN "done" ELSE "returned"]
    /\ err' = IF e # None THEN e ELSE err

\* The routine ends.  Errors are written without synchronisation: the last one stays.
Finish(t, e) ==
    /\ routine' = [routine EXCEPT ![t] = "done"]
    /\ err' = IF e # None THEN e ELSE err

\* retry: an attempt failed, and is made again, after a sleep, if any are left.
retry(t) ==
    /\ left' = [left EXCEPT ![t] = @ - 1]
    /\ IF left[t] > 1 THEN routine' = [routine EXCEPT ![t] = "call"] /\ UNCHANGED err
       ELSE Finish(t, t)

\* One request.  Client errors stop the retries; a request without answer hangs.
Get(t) ==
    /\ routine[t] = "call"
    /\ answer' = [answer EXCEPT ![t] = up[t]]
    /\ \/ up[t] = "ok" /\ Finish(t, None) /\ UNCHANGED left
       \/ up[t] = "clientError" /\ Finish(t, t) /\ UNCHANGED left
       \/ up[t] = "serverError" /\ retry(t)
       \/ /\ up[t] = "noAnswer"
          /\ routine' = [routine EXCEPT ![t] = "hanging"] /\ UNCHANGED <<left, err>>
    /\ UNCHANGED <<up, step>>

\* The client gives up a request: an error like that of a server.
TimesOut(t) ==
    /\ routine[t] = "hanging" /\ ClientTimeout
    /\ retry(t)
    /\ UNCHANGED <<up, step, answer>>

\* A target closes the connection of a request that it has not answered.
Closes(t) ==
    /\ routine[t] = "hanging" /\ retry(t)
    /\ UNCHANGED <<up, step, answer>>

\* wg.Wait returns, and the step with the error.
Wait ==
    /\ step = "waiting" /\ \A t \in Targets : routine[t] = "done"
    /\ step' = IF err = None THEN "passed" ELSE "failed"
    /\ UNCHANGED <<up, routine, left, err, answer>>

\* A target changes until the step is done.
Change(t) ==
    /\ step # "passed"
    /\ \E a \in Answers :
        /\ a = "noAnswer" => t \in Silent
        /\ a # up[t] /\ up' = [up EXCEPT ![t] = a]
    /\ UNCHANGED <<step, routine, left, err, answer>>

Next ==
    \/ ExternalDependencyAvailabilityCheck \/ Wait
    \/ \E t \in Targets : Get(t) \/ TimesOut(t) \/ Closes(t) \/ Change(t)

\* Reconciles are repeated and goroutines run.  No time limit that lasts years, and no
\* target that has fallen silent, ends a request for certain.
Spec ==
    /\ Init /\ [][Next]_vars
    /\ WF_vars(ExternalDependencyAvailabilityCheck) /\ WF_vars(Wait)
    /\ \A t \in Targets : WF_vars(Get(t))

--------------------------------------------------------------------------------

\* The step passes only if the last request to every target was answered well, and fails
\* only if some target had a client error or failed in all its attempts, in whatever order
\* the routines end and write the error they share (AvailabilityCheck).
UnavailableIsReported ==
    /\ step = "passed" => \A t \in Targets : answer[t] = "ok"
    /\ step = "failed" => \E t \in Targets : answer[t] = "clientError" \/ left[t] = 0

\* If the targets are available from some time on the step passes, though requests to them
\* failed before, unless a request is never answered: the step waits for that one, whatever
\* the other routines found (AvailabilityCheck, wg.Wait).
AvailableProceeds ==
    /\ <>[](\A t \in Targets : up[t] = "ok")
    /\ \A t \in Targets : []<>(routine[t] # "hanging")
    => <>(step = "passed")

=============================================================================
