----------------------- MODULE AvailabilityCheckProofs -----------------------
(***************************************************************************)
(* That the step reports exactly the targets it could not reach, for any   *)
(* set of targets and any timeout.                                         *)
(***************************************************************************)
EXTENDS AvailabilityCheck, TLAPS

\* A target that was given up: a client error, or no attempt left.
GivenUp(t) == answer[t] = "clientError" \/ left[t] = 0

\* What a routine that is done, or one that is not, has left behind.  The error stays
\* with a target whose routine is done, so its answer does not change any more.
RoutineInv(t) ==
    /\ routine[t] = "done" /\ step # "idle" => answer[t] = "ok" \/ (err # None /\ GivenUp(t))
    /\ routine[t] # "done" => step = "waiting" /\ left[t] > 0

ErrorInv ==
    /\ err # None => routine[err] = "done" /\ GivenUp(err)
    /\ step \in {"idle", "passed"} => err = None
    /\ step = "failed" => err # None

AvailabilityInv ==
    /\ AvailabilityTypeOK
    /\ ErrorInv
    /\ \A t \in Targets : RoutineInv(t)

\* The invariant holds initially.
LEMMA InitAvailability == Init => AvailabilityInv
BY AvailabilityAssumption
   DEF Init, AvailabilityInv, AvailabilityTypeOK, ErrorInv, RoutineInv, Answers, Attempts

\* Every step of the check, of a routine or of a target keeps it.
LEMMA StepAvailability == AvailabilityInv /\ [Next]_vars => AvailabilityInv'
<1> SUFFICES ASSUME AvailabilityInv, [Next]_vars PROVE AvailabilityInv'
    OBVIOUS
<1> USE AvailabilityAssumption DEF AvailabilityInv, AvailabilityTypeOK, ErrorInv, RoutineInv, GivenUp, Answers, Attempts
<1>1. CASE ExternalDependencyAvailabilityCheck
    BY <1>1 DEF ExternalDependencyAvailabilityCheck
<1>2. CASE Wait
    BY <1>2 DEF Wait
<1>3. ASSUME NEW t \in Targets, Get(t) PROVE AvailabilityInv'
    <2>1. CASE up[t] = "ok"
        BY <1>3, <2>1 DEF Get, Finish
    <2>2. CASE up[t] = "clientError"
        BY <1>3, <2>2 DEF Get, Finish
    <2>3. CASE up[t] = "serverError" /\ left[t] > 1
        BY <1>3, <2>3 DEF Get, retry
    <2>4. CASE up[t] = "serverError" /\ ~(left[t] > 1)
        BY <1>3, <2>4 DEF Get, retry, Finish
    <2>5. CASE up[t] = "noAnswer"
        BY <1>3, <2>5 DEF Get
    <2> QED BY <2>1, <2>2, <2>3, <2>4, <2>5
<1>4. ASSUME NEW t \in Targets, TimesOut(t) \/ Closes(t) PROVE AvailabilityInv'
    <2>1. CASE left[t] > 1
        BY <1>4, <2>1 DEF TimesOut, Closes, retry
    <2>2. CASE ~(left[t] > 1)
        BY <1>4, <2>2 DEF TimesOut, Closes, retry, Finish
    <2> QED BY <2>1, <2>2
<1>5. ASSUME NEW t \in Targets, Change(t) PROVE AvailabilityInv'
    BY <1>5 DEF Change
<1>6. CASE UNCHANGED vars
    BY <1>6 DEF vars
<1> QED BY <1>1, <1>2, <1>3, <1>4, <1>5, <1>6 DEF Next

\* AvailabilityCheck waits for every routine, no routine undoes the error of another, and
\* an error is only written of a target that was given up.
THEOREM ReportsUnavailable == Spec => []UnavailableIsReported
<1>1. AvailabilityInv => UnavailableIsReported
    BY DEF AvailabilityInv, AvailabilityTypeOK, ErrorInv, RoutineInv, GivenUp, UnavailableIsReported
<1> QED BY <1>1, InitAvailability, StepAvailability, PTL DEF Spec

=============================================================================
