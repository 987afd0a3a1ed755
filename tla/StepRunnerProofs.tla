--------------------------- MODULE StepRunnerProofs ---------------------------
(***************************************************************************)
(* What the stored conditions say of the runs, for any list of steps, with *)
(* repeated names, and any number of runs, stored or lost.                 *)
(***************************************************************************)
EXTENDS StepRunner, WellFoundedInduction, TLAPS

\* A condition has its start, and a completion time if and only if it is complete.
Good(cs) ==
    /\ cs \in Seq(Condition)
    /\ \A i \in DOMAIN cs : cs[i].startTime /\ (cs[i].completeTime <=> cs[i].status = "True")

AllBefore(cs, k) == \A j \in 1..(k - 1) : IsTrueFor(cs, Steps[j])

Stopped(cs, k) ==
    /\ IsFalseFor(cs, Steps[k])
    /\ \A j \in 1..(k - 1) : Steps[j] # Steps[k] => IsTrueFor(cs, Steps[j])

\* A run at some step has completed the steps before it.  One that returned has
\* completed all steps, or was stopped by one of them, or was no run but a failure of
\* the upgrade, which leaves the conditions as they are stored.
RunInv ==
    /\ step # 0 => phase = "Upgrading"
    /\ step \in 1..Len(Steps) => stop = 0 /\ result = "None" /\ AllBefore(conds, step)
    /\ step = 1 => conds = stored
    /\ step = Returned =>
        \/ result = "Upgraded" /\ stop = 0 /\ AllBefore(conds, Returned)
        \/ result = "Upgrading" /\ stop # 0 /\ Stopped(conds, stop)
        \/ result \in {"Upgrading", "Failed"} /\ stop = 0 /\ conds = stored

StoredInv ==
    /\ phase = "Upgraded" => AllBefore(stored, Returned)
    /\ phase = "Upgrading" /\ stoppedAt # 0 => Stopped(stored, stoppedAt)

RunnerInv == RunnerTypeOK /\ Good(conds) /\ Good(stored) /\ RunInv /\ StoredInv

--------------------------------------------------------------------------------

\* setConditionStart keeps what is there and makes sure of a condition of the type.
LEMMA StartProps ==
    ASSUME NEW cs, Good(cs), NEW t \in STRING
    PROVE  LET r == setConditionStart(cs, t) IN
           /\ Good(r) /\ Has(r, t)
           /\ \A u \in STRING : IsTrueFor(cs, u) => IsTrueFor(r, u)
<1>1. CASE Has(cs, t)
    BY <1>1 DEF setConditionStart
<1>2. CASE ~Has(cs, t)
    <2> DEFINE r == Prepend(cs, Started(t))
    <2>1. Started(t) \in Condition
        BY DEF Started, Condition
    <2>2. /\ r \in Seq(Condition) /\ Len(r) = Len(cs) + 1
          /\ r[1] = Started(t) /\ \A i \in 1..Len(cs) : r[i + 1] = cs[i]
        BY <2>1 DEF Prepend, Good
    <2>3. \A i \in DOMAIN r : i = 1 \/ (i - 1 \in DOMAIN cs /\ r[i] = cs[i - 1])
        BY <2>2 DEF Good
    <2>4. \A i \in DOMAIN cs : i + 1 \in DOMAIN r /\ r[i + 1] = cs[i]
        BY <2>2 DEF Good
    <2>5. Good(r)
        <3>1. Started(t).startTime /\ ~Started(t).completeTime /\ Started(t).status # "True"
            BY DEF Started
        <3>2. ASSUME NEW i \in DOMAIN r
              PROVE  r[i].startTime /\ (r[i].completeTime <=> r[i].status = "True")
            BY <2>2, <2>3, <3>1 DEF Good
        <3> QED BY <2>2, <3>2 DEF Good
    <2>6. Has(r, t)
        BY <2>2 DEF Has, Started, Good
    <2>7. \A u \in STRING : IsTrueFor(cs, u) => IsTrueFor(r, u)
        BY <2>4 DEF IsTrueFor
    <2> QED BY <1>2, <2>5, <2>6, <2>7 DEF setConditionStart
<1> QED BY <1>1, <1>2

\* setConditionComplete makes the type complete and nothing incomplete.
LEMMA CompleteProps ==
    ASSUME NEW cs, Good(cs), NEW t \in STRING, Has(cs, t)
    PROVE  LET r == setConditionComplete(cs, t) IN
           /\ Good(r) /\ IsTrueFor(r, t)
           /\ \A u \in STRING : IsTrueFor(cs, u) => IsTrueFor(r, u)
<1> DEFINE r == setConditionComplete(cs, t)
<1>1. \A i \in DOMAIN cs : cs[i] \in Condition
    BY DEF Good
<1>2. /\ DOMAIN r = DOMAIN cs
      /\ \A i \in DOMAIN cs : r[i] = IF cs[i].type = t THEN Complete(cs[i]) ELSE cs[i]
    BY DEF setConditionComplete, Replace
<1>3. \A i \in DOMAIN cs : /\ r[i] \in Condition /\ r[i].type = cs[i].type
                           /\ r[i].startTime = cs[i].startTime
                           /\ cs[i].type = t \/ cs[i].status = "True" => r[i].status = "True"
                           /\ cs[i].type = t => r[i].completeTime
                           /\ cs[i].type # t => r[i] = cs[i]
    BY <1>1, <1>2 DEF Complete, Condition
<1>4. r \in Seq(Condition)
    BY <1>2, <1>3 DEF Good, setConditionComplete, Replace
<1>5. Good(r)
    BY <1>2, <1>3, <1>4 DEF Good
<1>6. IsTrueFor(r, t)
    BY <1>2, <1>3 DEF Has, IsTrueFor
<1>7. \A u \in STRING : IsTrueFor(cs, u) => IsTrueFor(r, u)
    BY <1>2, <1>3 DEF IsTrueFor
<1> QED BY <1>5, <1>6, <1>7

\* setConditionInProgress makes the type incomplete and leaves the others alone.
LEMMA InProgressProps ==
    ASSUME NEW cs, Good(cs), NEW t \in STRING, Has(cs, t)
    PROVE  LET r == setConditionInProgress(cs, t) IN
           /\ Good(r) /\ IsFalseFor(r, t)
           /\ \A u \in STRING : u # t /\ IsTrueFor(cs, u) => IsTrueFor(r, u)
<1> DEFINE r == setConditionInProgress(cs, t)
<1>1. \A i \in DOMAIN cs : cs[i] \in Condition
    BY DEF Good
<1>2. /\ DOMAIN r = DOMAIN cs
      /\ \A i \in DOMAIN cs : r[i] = IF cs[i].type = t THEN InProgress(cs[i]) ELSE cs[i]
    BY DEF setConditionInProgress, Replace
<1>3. \A i \in DOMAIN cs : /\ r[i] \in Condition /\ r[i].type = cs[i].type
                           /\ r[i].startTime = cs[i].startTime
                           /\ cs[i].type = t => r[i].status = "False" /\ ~r[i].completeTime
                           /\ cs[i].type # t => r[i] = cs[i]
    BY <1>1, <1>2 DEF InProgress, Condition
<1>4. r \in Seq(Condition)
    BY <1>2, <1>3 DEF Good, setConditionInProgress, Replace
<1>5. Good(r)
    BY <1>2, <1>3, <1>4 DEF Good
<1>6. IsFalseFor(r, t)
    BY <1>2, <1>3 DEF Has, IsFalseFor
<1>7. \A u \in STRING : u # t /\ IsTrueFor(cs, u) => IsTrueFor(r, u)
    BY <1>2, <1>3 DEF IsTrueFor
<1> QED BY <1>5, <1>6, <1>7

--------------------------------------------------------------------------------

\* The invariant holds initially.
LEMMA InitRunner == Init => RunnerInv
BY StepsAssumption DEF Init, RunnerInv, RunnerTypeOK, Good, RunInv, StoredInv, Returned

\* Every step of a run, and what becomes of its result, keeps it.
LEMMA StepRunnerNext == RunnerInv /\ [Next]_vars => RunnerInv'
<1> SUFFICES ASSUME RunnerInv, [Next]_vars PROVE RunnerInv'
    OBVIOUS
<1> USE StepsAssumption DEF RunnerInv, RunnerTypeOK, Returned
<1>0. \A k \in 1..Len(Steps) : Steps[k] \in STRING
    OBVIOUS
<1>b. ASSUME step \in 1..Len(Steps)
      PROVE  \A j \in 1..(step - 1) : Steps[j] \in STRING /\ IsTrueFor(conds, Steps[j])
    BY <1>0, <1>b DEF RunInv, AllBefore
<1>1. CASE StartRun
    BY <1>1 DEF StartRun, RunInv, StoredInv, AllBefore
<1>2. CASE StepDone
    <2> DEFINE s == setConditionStart(conds, Steps[step])
    <2>1. Good(conds') /\ IsTrueFor(conds', Steps[step])
          /\ \A u \in STRING : IsTrueFor(conds, u) => IsTrueFor(conds', u)
        <3>1. /\ Good(s) /\ Has(s, Steps[step])
              /\ \A u \in STRING : IsTrueFor(conds, u) => IsTrueFor(s, u)
            BY <1>0, <1>2, StartProps DEF StepDone
        <3>2. conds' = setConditionComplete(s, Steps[step]) /\ Steps[step] \in STRING
            BY <1>0, <1>2 DEF StepDone
        <3> HIDE DEF s
        <3> QED BY <3>1, <3>2, CompleteProps
    <2>2. AllBefore(conds', step')
        <3>1. step \in 1..Len(Steps) /\ step' = step + 1
            BY <1>2 DEF StepDone
        <3>2. ASSUME NEW j \in 1..(step' - 1) PROVE IsTrueFor(conds', Steps[j])
            <4>1. CASE j = step
                BY <2>1, <4>1
            <4>2. CASE j # step
                <5>1. j \in 1..(step - 1)
                    BY <3>1, <4>2
                <5> QED BY <1>b, <2>1, <3>1, <5>1
            <4> QED BY <4>1, <4>2
        <3> QED BY <3>2 DEF AllBefore
    <2>3. RunnerTypeOK'
        BY <1>2, <2>1 DEF StepDone, Good
    <2>4. RunInv'
        <3>1. CASE step = Len(Steps)
            BY <1>2, <2>2, <3>1 DEF StepDone, RunInv, AllBefore
        <3>2. CASE step # Len(Steps)
            BY <1>2, <2>2, <3>2 DEF StepDone, RunInv, AllBefore
        <3> QED BY <3>1, <3>2
    <2>5. StoredInv' /\ Good(stored)'
        BY <1>2 DEF StepDone, StoredInv, AllBefore, Stopped
    <2> QED BY <2>1, <2>3, <2>4, <2>5
<1>3. CASE StepStops
    <2> DEFINE s == setConditionStart(conds, Steps[step])
    <2>1. Good(conds') /\ IsFalseFor(conds', Steps[step])
          /\ \A u \in STRING : u # Steps[step] /\ IsTrueFor(conds, u) => IsTrueFor(conds', u)
        <3>1. /\ Good(s) /\ Has(s, Steps[step])
              /\ \A u \in STRING : IsTrueFor(conds, u) => IsTrueFor(s, u)
            BY <1>0, <1>3, StartProps DEF StepStops
        <3>2. conds' = setConditionInProgress(s, Steps[step]) /\ Steps[step] \in STRING
            BY <1>0, <1>3 DEF StepStops
        <3> HIDE DEF s
        <3> QED BY <3>1, <3>2, InProgressProps
    <2>2. Stopped(conds', step)
        <3>1. step \in 1..Len(Steps)
            BY <1>3 DEF StepStops
        <3> QED BY <1>b, <2>1, <3>1 DEF Stopped
    <2>3. RunnerTypeOK'
        BY <1>3, <2>1 DEF StepStops, Good
    <2>4. RunInv'
        <3>1. step' = Returned /\ step' # 0 /\ step' # 1 /\ step' \notin 1..Len(Steps)
            BY <1>3 DEF StepStops
        <3>2. result' = "Upgrading" /\ stop' = step /\ stop' # 0 /\ phase' = "Upgrading"
            BY <1>3 DEF StepStops, RunInv
        <3>3. Stopped(conds, stop)'
            BY <2>2, <3>2 DEF Stopped
        <3> QED BY <3>1, <3>2, <3>3 DEF RunInv
    <2>5. StoredInv' /\ Good(stored)'
        BY <1>3 DEF StepStops, StoredInv, AllBefore, Stopped
    <2> QED BY <2>1, <2>3, <2>4, <2>5
<1>4. CASE PerformUpgradeFailure
    BY <1>4 DEF PerformUpgradeFailure, RunInv, StoredInv, AllBefore, Stopped
<1>5. CASE Record
    BY <1>5 DEF Record, RunInv, StoredInv, AllBefore, Stopped
<1>6. CASE Lose
    BY <1>6 DEF Lose, RunInv, StoredInv, AllBefore, Stopped
<1>7. CASE UNCHANGED vars
    BY <1>7 DEF vars, RunInv, StoredInv, AllBefore, Stopped
<1> QED BY <1>1, <1>2, <1>3, <1>4, <1>5, <1>6, <1>7 DEF Next

\* The invariant holds in every reachable state.
THEOREM RunnerInvariant == Spec => []RunnerInv
BY InitRunner, StepRunnerNext, PTL DEF Spec

\* Upgraded is stored only with all conditions complete, though they were collected by many
\* runs, of which some were lost (Run).
THEOREM UpgradedComplete == Spec => []UpgradedIsComplete
<1>1. RunnerInv => UpgradedIsComplete
    BY StepsAssumption DEF RunnerInv, RunnerTypeOK, StoredInv, AllBefore, Returned, UpgradedIsComplete
<1> QED BY <1>1, RunnerInvariant, PTL

\* The stored conditions tell where the last stored run stopped (Run).
THEOREM StoppedThere == Spec => []StoppedWhereItSays
<1>1. RunnerInv => StoppedWhereItSays
    BY StepsAssumption DEF RunnerInv, RunnerTypeOK, StoredInv, Stopped, StoppedWhereItSays
<1> QED BY <1>1, RunnerInvariant, PTL

\* The collector dereferences no missing time (collectCondition).
THEOREM CollectorSafe == Spec => []CollectorTimes
<1>1. RunnerInv => CollectorTimes
    BY DEF RunnerInv, Good, Condition, CollectorTimes, collectCondition
<1> QED BY <1>1, RunnerInvariant, PTL

--------------------------------------------------------------------------------

\* No type occurs twice, and each is the condition of a step.
Named(cs) ==
    /\ \A i, j \in DOMAIN cs : cs[i].type = cs[j].type => i = j
    /\ \A i \in DOMAIN cs : \E k \in 1..Len(Steps) : cs[i].type = Steps[k]

NamesInv == Named(conds) /\ Named(stored)

\* setConditionStart adds a condition only for a step that has none.
LEMMA StartNamed ==
    ASSUME NEW cs, Good(cs), Named(cs), NEW k \in 1..Len(Steps)
    PROVE  Named(setConditionStart(cs, Steps[k]))
<1> DEFINE t == Steps[k]
<1>1. CASE Has(cs, t)
    BY <1>1 DEF setConditionStart
<1>2. CASE ~Has(cs, t)
    <2> DEFINE r == Prepend(cs, Started(t))
    <2>1. t \in STRING /\ Started(t) \in Condition /\ Started(t).type = t
        BY StepsAssumption DEF Started, Condition
    <2>2. /\ r \in Seq(Condition) /\ Len(r) = Len(cs) + 1
          /\ r[1] = Started(t) /\ \A i \in 1..Len(cs) : r[i + 1] = cs[i]
        BY <2>1 DEF Prepend, Good
    <2> HIDE DEF r, t
    <2>3. \A i \in DOMAIN r : i = 1 \/ (i - 1 \in DOMAIN cs /\ r[i] = cs[i - 1])
        BY <2>2 DEF Good
    <2>4. \A i \in DOMAIN cs : cs[i].type # t
        BY <1>2 DEF Has
    <2>5. r[1].type = t /\ DOMAIN r \subseteq Int
        BY <2>1, <2>2
    <2>6. ASSUME NEW i \in DOMAIN r, NEW j \in DOMAIN r, r[i].type = r[j].type
          PROVE  i = j
        <3>1. CASE i = 1 \/ j = 1
            BY <2>3, <2>4, <2>5, <2>6, <3>1
        <3>2. CASE i # 1 /\ j # 1
            <4>1. i - 1 = j - 1
                BY <2>3, <2>6, <3>2 DEF Named
            <4> QED BY <2>5, <4>1
        <3> QED BY <3>1, <3>2
    <2>7. ASSUME NEW i \in DOMAIN r PROVE \E n \in 1..Len(Steps) : r[i].type = Steps[n]
        BY <2>3, <2>5 DEF Named, t
    <2>8. Named(r)
        BY <2>6, <2>7 DEF Named
    <2> QED BY <1>2, <2>8 DEF setConditionStart, r, t
<1> QED BY <1>1, <1>2

\* setConditionComplete and setConditionInProgress keep the types and their places.
LEMMA ReplaceNamed ==
    ASSUME NEW cs, Good(cs), Named(cs), NEW t
    PROVE  Named(setConditionComplete(cs, t)) /\ Named(setConditionInProgress(cs, t))
<1>1. \A i \in DOMAIN cs : cs[i] \in Condition
    BY DEF Good
<1>2. ASSUME NEW r, DOMAIN r = DOMAIN cs, \A i \in DOMAIN cs : r[i].type = cs[i].type
      PROVE  Named(r)
    BY <1>2 DEF Named
<1>3. \A c \in Condition : Complete(c).type = c.type /\ InProgress(c).type = c.type
    BY DEF Complete, InProgress, Condition
<1>4. /\ DOMAIN setConditionComplete(cs, t) = DOMAIN cs
      /\ \A i \in DOMAIN cs : setConditionComplete(cs, t)[i].type = cs[i].type
    BY <1>1, <1>3 DEF setConditionComplete, Replace
<1>5. /\ DOMAIN setConditionInProgress(cs, t) = DOMAIN cs
      /\ \A i \in DOMAIN cs : setConditionInProgress(cs, t)[i].type = cs[i].type
    BY <1>1, <1>3 DEF setConditionInProgress, Replace
<1> QED BY <1>2, <1>4, <1>5

\* Every step keeps the types apart.
LEMMA NamesNext == RunnerInv /\ NamesInv /\ [Next]_vars => NamesInv'
<1> SUFFICES ASSUME RunnerInv, NamesInv, [Next]_vars PROVE NamesInv'
    OBVIOUS
<1> USE DEF RunnerInv, NamesInv
<1>1. ASSUME step \in 1..Len(Steps)
      PROVE  LET s == setConditionStart(conds, Steps[step]) IN
             /\ Named(setConditionComplete(s, Steps[step]))
             /\ Named(setConditionInProgress(s, Steps[step]))
    <2> DEFINE s == setConditionStart(conds, Steps[step])
    <2>0. Steps[step] \in STRING
        BY <1>1, StepsAssumption
    <2>1. Good(s)
        BY <2>0, StartProps
    <2>2. Named(s)
        BY <1>1, StartNamed
    <2> HIDE DEF s
    <2> QED BY <2>1, <2>2, ReplaceNamed DEF s
<1>2. CASE StepDone
    BY <1>1, <1>2 DEF StepDone, Named
<1>3. CASE StepStops
    BY <1>1, <1>3 DEF StepStops, Named
<1>4. CASE StartRun \/ PerformUpgradeFailure \/ Record \/ Lose \/ UNCHANGED vars
    BY <1>4 DEF StartRun, PerformUpgradeFailure, Record, Lose, vars, Named
<1> QED BY <1>2, <1>3, <1>4 DEF Next

\* The types are kept apart in every reachable state.
THEOREM NamesInvariant == Spec => []NamesInv
<1>1. Init => NamesInv
    BY DEF Init, NamesInv, Named
<1> QED BY <1>1, NamesNext, RunnerInvariant, PTL DEF Spec

\* A list with a condition that is False has a first one.
LEMMA FirstIncomplete ==
    ASSUME NEW cs, Good(cs), NEW m \in DOMAIN cs, cs[m].status = "False"
    PROVE  \E i \in DOMAIN cs : IsFirstIncomplete(cs, i)
<1> DEFINE T == {i \in DOMAIN cs : cs[i].status = "False"}
<1>1. T \subseteq Nat /\ T # {} /\ DOMAIN cs = 1..Len(cs) /\ Len(cs) \in Nat
    BY DEF Good
<1>2. PICK i \in T : \A j \in T : ~(<<j, i>> \in OpToRel(<, Nat))
    BY <1>1, NatLessThanWellFounded, WFMin
<1>3. \A j \in T : ~(j < i)
    BY <1>1, <1>2 DEF OpToRel
<1>4. ASSUME NEW j \in 1..(i - 1) PROVE cs[j].status # "False"
    BY <1>1, <1>3
<1> QED BY <1>4 DEF IsFirstIncomplete

\* A failure or delay notification blames the step that stopped the last stored run or a
\* later one, whatever runs before it left in the conditions (createFailureDescription).
THEOREM BlamesRightly == Spec => []BlamesNoPassedStep
<1>1. RunnerInv /\ NamesInv => BlamesNoPassedStep
    <2> SUFFICES ASSUME RunnerInv, NamesInv, phase = "Upgrading", stoppedAt > 0
                 PROVE  \E i \in DOMAIN stored, k \in stoppedAt..Len(Steps) :
                            IsFirstIncomplete(stored, i) /\ stored[i].type = Steps[k]
        BY DEF BlamesNoPassedStep
    <2>1. stoppedAt \in 1..Len(Steps) /\ Len(Steps) \in Nat
        BY StepsAssumption DEF RunnerInv, RunnerTypeOK
    <2>2. Stopped(stored, stoppedAt) /\ Good(stored) /\ Named(stored)
        BY <2>1 DEF RunnerInv, StoredInv, NamesInv
    <2>3. PICK m \in DOMAIN stored : stored[m].type = Steps[stoppedAt] /\ stored[m].status = "False"
        BY <2>2 DEF Stopped, IsFalseFor
    <2>4. PICK i \in DOMAIN stored : IsFirstIncomplete(stored, i)
        BY <2>2, <2>3, FirstIncomplete
    <2>5. PICK k \in 1..Len(Steps) : stored[i].type = Steps[k]
        BY <2>2 DEF Named
    <2>6. CASE k >= stoppedAt
        BY <2>1, <2>4, <2>5, <2>6
    <2>7. CASE k < stoppedAt
        <3>1. Steps[k] = Steps[stoppedAt]
            <4> SUFFICES ASSUME Steps[k] # Steps[stoppedAt] PROVE FALSE
                OBVIOUS
            <4>1. k \in 1..(stoppedAt - 1)
                BY <2>1, <2>7
            <4>2. PICK n \in DOMAIN stored : stored[n].type = Steps[k] /\ stored[n].status = "True"
                BY <2>2, <4>1 DEF Stopped, IsTrueFor
            <4>3. n = i
                BY <2>2, <2>5, <4>2 DEF Named
            <4> QED BY <2>4, <4>2, <4>3 DEF IsFirstIncomplete
        <3> QED BY <2>1, <2>4, <2>5, <3>1
    <2> QED BY <2>1, <2>6, <2>7
<1> QED BY <1>1, RunnerInvariant, NamesInvariant, PTL

================================================================================
