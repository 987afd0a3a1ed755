-------------------------- MODULE HealthChecksProofs --------------------------
(***************************************************************************)
(* What the gauge of the health checks says of each check made, for any    *)
(* set of troubles that come and go, with and without the feature gate.    *)
(***************************************************************************)
EXTENDS HealthChecks, WellFoundedInduction, TLAPS

\* What is left of a health check: checks that were not made yet, in their order.  The nodes
\* that are cordoned are looked for before the taints.
CallInv ==
    /\ call \in Seq(Checks) \cup {Idle}
    /\ call # Idle =>
        /\ \A i, j \in DOMAIN call :
              /\ call[i] = call[j] => i = j
              /\ call[i] = "cordoned" /\ call[j] = "taints" => i < j
        /\ \A i \in DOMAIN call : \A x : <<call[i], x>> \notin report
        /\ \A i \in DOMAIN call : \A x : call[i] = "cordoned" => <<"taints", x>> \notin report

HealthInv == CallInv /\ PassedIsZero /\ FoundIsOne

--------------------------------------------------------------------------------
\* The checks.

\* The checks and what they report.
LEMMA LooksFacts ==
    /\ Checks = {"alerts", "operators", "capacity", "cordoned", "taints", "pdb"}
    /\ ReasonsOf("alerts") = {"metricsQuery", "criticalAlerts"}
    /\ ReasonsOf("operators") = {"operatorsQuery", "degraded"}
    /\ ReasonsOf("capacity") = {"machinePool"}
    /\ ReasonsOf("cordoned") = {"nodeQuery", "cordoned"}
    /\ ReasonsOf("taints") = {"nodeQuery", "tainted"}
    /\ ReasonsOf("pdb") = {"pdbQuery", "pdbConfiguration", "dvoClient", "dvoQuery", "invalidPdb"}
<1>1. Checks = {"alerts", "operators", "capacity", "cordoned", "taints", "pdb"}
    BY DEF Checks, Looks
<1>2. /\ Looks["alerts"] = CriticalAlerts /\ Looks["operators"] = ClusterOperators
      /\ Looks["capacity"] = CanScale /\ Looks["cordoned"] = ManuallyCordonedNodes
      /\ Looks["taints"] = NodeUnschedulableTaints
      /\ Looks["pdb"] = checkPodDisruptionBudgets \o checkDvoMetrics
    BY DEF Looks
<1>3. ReasonsOf("alerts") = {"metricsQuery", "criticalAlerts"}
    BY <1>2 DEF ReasonsOf, CriticalAlerts
<1>4. ReasonsOf("operators") = {"operatorsQuery", "degraded"}
    BY <1>2 DEF ReasonsOf, ClusterOperators
<1>5. ReasonsOf("capacity") = {"machinePool"}
    BY <1>2 DEF ReasonsOf, CanScale
<1>6. ReasonsOf("cordoned") = {"nodeQuery", "cordoned"}
    BY <1>2 DEF ReasonsOf, ManuallyCordonedNodes
<1>7. ReasonsOf("taints") = {"nodeQuery", "tainted"}
    BY <1>2 DEF ReasonsOf, NodeUnschedulableTaints
<1>8. ReasonsOf("pdb") = {"pdbQuery", "pdbConfiguration", "dvoClient", "dvoQuery", "invalidPdb"}
    <2> DEFINE l == <<"pdbQuery", "pdbConfiguration">> \o <<"dvoClient", "dvoQuery", "invalidPdb">>
    <2>1. Looks["pdb"] = l
        BY <1>2 DEF checkPodDisruptionBudgets, checkDvoMetrics
    <2>2. /\ DOMAIN l = 1..5
          /\ l[1] = "pdbQuery" /\ l[2] = "pdbConfiguration" /\ l[3] = "dvoClient" /\ l[4] = "dvoQuery"
          /\ l[5] = "invalidPdb"
        OBVIOUS
    <2> HIDE DEF l
    <2>3. {l[i] : i \in DOMAIN l} = {"pdbQuery", "pdbConfiguration", "dvoClient", "dvoQuery", "invalidPdb"}
        BY <2>2
    <2> QED BY <2>1, <2>3 DEF ReasonsOf
<1> QED BY <1>1, <1>3, <1>4, <1>5, <1>6, <1>7, <1>8

\* Only the failed list of the nodes is a reason of two checks.
LEMMA ReasonsApart ==
    ASSUME NEW c \in Checks, NEW d \in Checks, NEW r \in ReasonsOf(c), r \in ReasonsOf(d), r # "nodeQuery"
    PROVE  c = d
BY LooksFacts

\* A health check makes each check once, the cordoned nodes before the taints.
LEMMA ListFacts ==
    ASSUME NEW l \in {PreChecks, Legacy}
    PROVE  /\ l \in Seq(Checks)
           /\ \A i, j \in DOMAIN l : (l[i] = l[j] => i = j) /\ (l[i] = "cordoned" /\ l[j] = "taints" => i < j)
<1> DEFINE Once(s) ==
        /\ s \in Seq(Checks)
        /\ \A i, j \in DOMAIN s : (s[i] = s[j] => i = j) /\ (s[i] = "cordoned" /\ s[j] = "taints" => i < j)
<1>1. Once(Legacy)
    BY LooksFacts DEF Legacy
<1>2. Once(PreChecks)
    <2>1. CASE ~PreHealthCheck
        BY <1>1, <2>1 DEF PreChecks
    <2>2. CASE PreHealthCheck /\ CapacityReservation
        <3> DEFINE m == (<<"alerts", "operators">> \o <<"capacity">>) \o <<"cordoned", "taints", "pdb">>
        <3>1. PreChecks = m
            BY <2>2 DEF PreChecks, Legacy
        <3>2. DOMAIN m = 1..6 /\ m \in Seq(Checks)
            BY LooksFacts
        <3>3. /\ m[1] = "alerts" /\ m[2] = "operators" /\ m[3] = "capacity"
              /\ m[4] = "cordoned" /\ m[5] = "taints" /\ m[6] = "pdb"
            OBVIOUS
        <3> HIDE DEF m
        <3> QED BY <3>1, <3>2, <3>3
    <2>3. CASE PreHealthCheck /\ ~CapacityReservation
        <3> DEFINE m == (<<"alerts", "operators">> \o <<>>) \o <<"cordoned", "taints", "pdb">>
        <3>1. PreChecks = m
            BY <2>3 DEF PreChecks, Legacy
        <3>2. DOMAIN m = 1..5 /\ m \in Seq(Checks)
            BY LooksFacts
        <3>3. m[1] = "alerts" /\ m[2] = "operators" /\ m[3] = "cordoned" /\ m[4] = "taints" /\ m[5] = "pdb"
            OBVIOUS
        <3> HIDE DEF m
        <3> QED BY <3>1, <3>2, <3>3
    <2> QED BY <2>1, <2>2, <2>3
<1> QED BY <1>1, <1>2

\* What is left of a health check is not mistaken for none.
LEMMA NotIdle == ASSUME NEW s \in Seq(Checks) PROVE s # Idle
<1>1. Idle[1] = "idle" /\ Len(Idle) = 1
    BY DEF Idle
<1> QED BY <1>1, LooksFacts

\* A check that finds trouble reports one of its reasons.
LEMMA FirstFoundFact ==
    ASSUME NEW c \in Checks, Found(c) # {}
    PROVE  FirstFound(c) \in ReasonsOf(c) /\ FirstFound(c) \in trouble
<1>1. Found(c) \subseteq Nat
    <2>1. DOMAIN (checkPodDisruptionBudgets \o checkDvoMetrics) \subseteq Nat
        BY DEF checkPodDisruptionBudgets, checkDvoMetrics
    <2>2. DOMAIN Looks[c] \subseteq Nat
        <3>1. CASE c = "pdb" BY <2>1, <3>1 DEF Looks
        <3>2. CASE c = "alerts" BY <3>2 DEF Looks, CriticalAlerts
        <3>3. CASE c = "operators" BY <3>3 DEF Looks, ClusterOperators
        <3>4. CASE c = "capacity" BY <3>4 DEF Looks, CanScale
        <3>5. CASE c = "cordoned" BY <3>5 DEF Looks, ManuallyCordonedNodes
        <3>6. CASE c = "taints" BY <3>6 DEF Looks, NodeUnschedulableTaints
        <3> QED BY <3>1, <3>2, <3>3, <3>4, <3>5, <3>6, LooksFacts
    <2> QED BY <2>2 DEF Found
<1>2. PICK i \in Found(c) : \A j \in Found(c) : ~(<<j, i>> \in OpToRel(<, Nat))
    BY <1>1, NatLessThanWellFounded, WFMin
<1>3. \A j \in Found(c) : ~(j < i)
    BY <1>1, <1>2 DEF OpToRel
<1>4. \A j \in Found(c) : i <= j
    BY <1>1, <1>3
<1>5. (CHOOSE n \in Found(c) : \A j \in Found(c) : n <= j) \in Found(c)
    BY <1>4
<1> QED BY <1>5 DEF FirstFound, ReasonsOf, Found

\* What is left after a check: each of them was left before it, at the place after.
LEMMA TailFact ==
    ASSUME NEW s \in Seq(Checks), s # <<>>, NEW t \in {Tail(s), <<>>}
    PROVE  /\ 1 \in DOMAIN s
           /\ \A i \in DOMAIN t : i + 1 \in DOMAIN s /\ t[i] = s[i + 1] /\ i \in Nat \ {0}
           /\ t = Tail(s) => \A i \in DOMAIN s : i # 1 => \E j \in DOMAIN t : t[j] = s[i]
<1>1. CASE t = Tail(s)
    <2>1. ASSUME NEW i \in DOMAIN s, i # 1 PROVE \E j \in DOMAIN t : t[j] = s[i]
        <3>1. i - 1 \in DOMAIN t /\ t[i - 1] = s[i]
            BY <1>1, <2>1
        <3> QED BY <3>1
    <2> QED BY <1>1, <2>1
<1>2. CASE t = <<>> /\ t # Tail(s)
    BY <1>2
<1> QED BY <1>1, <1>2

--------------------------------------------------------------------------------
\* The steps.

Begins == CheckInAdvance \/ PreUpgradeHealthCheck \/ PostUpgradeHealthCheck

Ends == AdvanceDone \/ PreUpgradeDone \/ NotifyResultFails \/ PostUpgradeDone

Between == SkipInAdvance \/ TimeComes \/ Upgrade \/ Change \/ UNCHANGED vars

\* What a check does that finds something, and one that does not.
Noticed(c) ==
    /\ FirstFound(c) \in ReasonsOf(c)
    /\ gauge' = gauge \cup {Label(FirstFound(c))}
    /\ report' = report \cup {<<c, FirstFound(c)>>}
    /\ call' \in {Tail(call), <<>>}

Passed(c) ==
    /\ gauge' = gauge \ {Label(r) : r \in Clears(c)}
    /\ report' = report \cup {<<c, "ok">>}
    /\ call' = Tail(call)

LEMMA CheckFact ==
    ASSUME CallInv, Check
    PROVE  /\ call \in Seq(Checks) /\ call # <<>> /\ call # Idle /\ call[1] \in Checks
           /\ UNCHANGED label
           /\ \/ call' = Idle /\ UNCHANGED <<gauge, report>>
              \/ Noticed(call[1])
              \/ Passed(call[1])
<1>1. call \in Seq(Checks) /\ call # <<>> /\ call # Idle
    BY DEF Check, CallInv
<1>2. Head(call) = call[1] /\ call[1] \in Checks
    BY <1>1
<1>3. CASE Panics(call[1])
    BY <1>1, <1>2, <1>3 DEF Check
<1>4. CASE ~Panics(call[1]) /\ Found(call[1]) # {}
    <2>1. FirstFound(call[1]) \in ReasonsOf(call[1])
        BY <1>2, <1>4, FirstFoundFact
    <2> QED BY <1>1, <1>2, <1>4, <2>1 DEF Check, Noticed
<1>5. CASE ~Panics(call[1]) /\ Found(call[1]) = {}
    BY <1>1, <1>2, <1>5 DEF Check, Passed
<1> QED BY <1>3, <1>4, <1>5

\* A reason is not the word for none.
LEMMA ReasonNotOk == ASSUME NEW c \in Checks PROVE "ok" \notin ReasonsOf(c)
BY LooksFacts

\* A check that is made is not among those left.
LEMMA CheckedCall ==
    ASSUME CallInv, call \in Seq(Checks), call # <<>>, call # Idle, NEW x,
           call' \in {Tail(call), <<>>}, report' = report \cup {<<call[1], x>>}
    PROVE  CallInv'
<1>1. call' \in Seq(Checks)
    <2>1. Tail(call) \in Seq(Checks) /\ <<>> \in Seq(Checks)
        OBVIOUS
    <2> QED BY <2>1
<1>2. /\ 1 \in DOMAIN call
      /\ \A i \in DOMAIN call' : i + 1 \in DOMAIN call /\ call'[i] = call[i + 1] /\ i \in Nat \ {0}
    BY TailFact
<1>3. \A i, j \in DOMAIN call' :
          /\ call'[i] = call'[j] => i = j
          /\ call'[i] = "cordoned" /\ call'[j] = "taints" => i < j
    <2> SUFFICES ASSUME NEW i \in DOMAIN call', NEW j \in DOMAIN call'
                 PROVE  /\ call'[i] = call'[j] => i = j
                        /\ call'[i] = "cordoned" /\ call'[j] = "taints" => i < j
        OBVIOUS
    <2>1. /\ i + 1 \in DOMAIN call /\ call'[i] = call[i + 1] /\ i \in Nat
          /\ j + 1 \in DOMAIN call /\ call'[j] = call[j + 1] /\ j \in Nat
        BY <1>2
    <2>2. /\ call[i + 1] = call[j + 1] => i + 1 = j + 1
          /\ call[i + 1] = "cordoned" /\ call[j + 1] = "taints" => i + 1 < j + 1
        BY <2>1 DEF CallInv
    <2> QED BY <2>1, <2>2
<1>4. ASSUME NEW i \in DOMAIN call', NEW y
      PROVE  /\ <<call'[i], y>> \notin report'
             /\ call'[i] = "cordoned" => <<"taints", y>> \notin report'
    <2>1. i + 1 \in DOMAIN call /\ call'[i] = call[i + 1] /\ i \in Nat \ {0}
        BY <1>2
    <2>2. i + 1 # 1 /\ ~(i + 1 < 1)
        BY <2>1
    <2>3. call[i + 1] # call[1] /\ ~(call[i + 1] = "cordoned" /\ call[1] = "taints")
        BY <1>2, <2>1, <2>2 DEF CallInv
    <2>4. <<call[i + 1], y>> \notin report /\ (call[i + 1] = "cordoned" => <<"taints", y>> \notin report)
        BY <2>1 DEF CallInv
    <2> QED BY <2>1, <2>3, <2>4
<1> QED BY <1>1, <1>3, <1>4 DEF CallInv

\* A check made keeps what the gauge says of those before it.
LEMMA NoticedKeeps ==
    ASSUME HealthInv, NEW c \in Checks, Noticed(c), UNCHANGED label
    PROVE  PassedIsZero' /\ FoundIsOne'
<1>0. PICK f : f = FirstFound(c)
    OBVIOUS
<1>1. f \in ReasonsOf(c) /\ f # "ok"
    BY <1>0, ReasonNotOk DEF Noticed
<1>2. /\ \A r : Label(r)' \in gauge' <=> Label(r) \in gauge \/ r = f
      /\ \A d, x : <<d, x>> \in report' <=> <<d, x>> \in report \/ (d = c /\ x = f)
    BY <1>0 DEF Noticed, Label
<1>3. ASSUME NEW d \in Checks, <<d, "ok">> \in report', NEW r \in ReasonsOf(d) \ NeverReset, Label(r)' \in gauge'
      PROVE  \E e \in Checks : <<e, r>> \in report'
    <2>1. CASE r = f
        BY <1>2, <2>1
    <2>2. CASE Label(r) \in gauge
        BY <1>1, <1>2, <1>3, <2>2 DEF HealthInv, PassedIsZero
    <2> QED BY <1>2, <1>3, <2>1, <2>2
<1>4. ASSUME NEW d \in Checks, NEW r \in ReasonsOf(d), <<d, r>> \in report'
      PROVE  \/ Label(r)' \in gauge'
             \/ d = "cordoned" /\ r = "nodeQuery" /\ <<"taints", "ok">> \in report'
    BY <1>2, <1>4 DEF HealthInv, FoundIsOne
<1> QED BY <1>3, <1>4 DEF PassedIsZero, FoundIsOne

LEMMA PassedKeeps ==
    ASSUME HealthInv, NEW c \in Checks, Passed(c), UNCHANGED label,
           \A x : <<c, x>> \notin report,
           c = "cordoned" => \A x : <<"taints", x>> \notin report
    PROVE  PassedIsZero' /\ FoundIsOne'
<1>1. /\ \A r : Label(r)' \in gauge' <=> Label(r) \in gauge /\ r \notin Clears(c)
      /\ \A d, x : <<d, x>> \in report' <=> <<d, x>> \in report \/ (d = c /\ x = "ok")
    BY DEF Passed, Label
<1>2. ReasonsOf(c) \ NeverReset \subseteq Clears(c) /\ Clears(c) \subseteq ReasonsOf(c)
    BY LooksFacts DEF Clears, NeverReset
<1>3. ASSUME NEW d \in Checks, <<d, "ok">> \in report', NEW r \in ReasonsOf(d) \ NeverReset, Label(r)' \in gauge'
      PROVE  \E e \in Checks : <<e, r>> \in report'
    <2>1. d # c
        BY <1>1, <1>2, <1>3
    <2> QED BY <1>1, <1>3, <2>1 DEF HealthInv, PassedIsZero
<1>4. ASSUME NEW d \in Checks, NEW r \in ReasonsOf(d), <<d, r>> \in report'
      PROVE  \/ Label(r)' \in gauge'
             \/ d = "cordoned" /\ r = "nodeQuery" /\ <<"taints", "ok">> \in report'
    <2>1. <<d, r>> \in report /\ d # c
        BY <1>1, <1>4, ReasonNotOk
    <2>2. CASE r \in Clears(c)
        <3>1. r = "nodeQuery"
            BY <1>2, <2>1, <2>2, ReasonsApart
        <3>2. c \in {"cordoned", "taints"} /\ d \in {"cordoned", "taints"}
            BY <1>2, <2>2, <3>1, LooksFacts
        <3>3. c = "taints" /\ d = "cordoned"
            BY <2>1, <3>2
        <3> QED BY <1>1, <3>1, <3>3
    <2>3. CASE r \notin Clears(c)
        BY <1>1, <2>1, <2>3 DEF HealthInv, FoundIsOne
    <2> QED BY <2>2, <2>3
<1> QED BY <1>3, <1>4 DEF PassedIsZero, FoundIsOne

--------------------------------------------------------------------------------

\* The invariant holds initially.
LEMMA HealthInvInit == Init => HealthInv
BY DEF Init, HealthInv, CallInv, PassedIsZero, FoundIsOne

\* Every step keeps it.
LEMMA HealthInvNext == HealthInv /\ [Next]_vars => HealthInv'
<1> SUFFICES ASSUME HealthInv, [Next]_vars PROVE HealthInv'
    OBVIOUS
<1>1. CASE Begins
    <2>1. PICK l \in {PreChecks, Legacy} : call' = l /\ report' = {}
        BY <1>1 DEF Begins, CheckInAdvance, PreUpgradeHealthCheck, PostUpgradeHealthCheck, Begin
    <2>2. CallInv'
        BY <2>1, ListFacts DEF CallInv
    <2>3. PassedIsZero' /\ FoundIsOne'
        BY <2>1 DEF PassedIsZero, FoundIsOne
    <2> QED BY <2>2, <2>3 DEF HealthInv
<1>2. CASE Ends \/ Between
    <2>1. call' \in {call, Idle} /\ UNCHANGED <<label, report, gauge>>
        BY <1>2 DEF Ends, Between, AdvanceDone, PreUpgradeDone, NotifyResultFails, PostUpgradeDone, Done,
                    SkipInAdvance, TimeComes, Upgrade, Change, vars
    <2>2. CallInv'
        BY <2>1 DEF HealthInv, CallInv
    <2> QED BY <2>1, <2>2 DEF HealthInv, PassedIsZero, FoundIsOne, Label
<1>3. CASE Check
    <2>0. PICK c : c = call[1]
        OBVIOUS
    <2>1. /\ call \in Seq(Checks) /\ call # <<>> /\ call # Idle /\ c \in Checks /\ UNCHANGED label
          /\ (call' = Idle /\ UNCHANGED <<gauge, report>>) \/ Noticed(c) \/ Passed(c)
        BY <1>3, <2>0, CheckFact DEF HealthInv
    <2>2. 1 \in DOMAIN call
        BY <2>1
    <2>3. CASE call' = Idle /\ UNCHANGED <<gauge, report>>
        BY <2>1, <2>3 DEF HealthInv, CallInv, PassedIsZero, FoundIsOne, Label
    <2>4. CASE Noticed(c)
        BY <2>0, <2>1, <2>4, CheckedCall, NoticedKeeps DEF HealthInv, Noticed
    <2>5. CASE Passed(c)
        <3>1. \A x : <<c, x>> \notin report /\ (c = "cordoned" => <<"taints", x>> \notin report)
            BY <2>0, <2>1, <2>2 DEF HealthInv, CallInv
        <3>2. CallInv'
            BY <2>0, <2>1, <2>5, CheckedCall DEF HealthInv, Passed
        <3> QED BY <2>1, <2>5, <3>1, <3>2, PassedKeeps DEF HealthInv
    <2> QED BY <2>1, <2>3, <2>4, <2>5
<1> QED BY <1>1, <1>2, <1>3 DEF Next, Begins, Ends, Between

\* A check that passed has reset what the health checks before it reported under the same
\* labels, but for the reasons that the check of the budgets never resets, whatever came and
\* went between the queries (UpdateMetricHealthcheckSucceeded).
THEOREM PassedResets == SafetySpec => []PassedIsZero
<1>1. HealthInv => PassedIsZero
    BY DEF HealthInv
<1> QED BY <1>1, HealthInvInit, HealthInvNext, PTL DEF SafetySpec

\* What a check found stays reported, whatever the later checks of the same health check
\* find or reset, but for the one reason that two checks share, and then only if the second
\* listed the nodes (UpdateMetricHealthcheckFailed).
THEOREM FoundStays == SafetySpec => []FoundIsOne
<1>1. HealthInv => FoundIsOne
    BY DEF HealthInv
<1> QED BY <1>1, HealthInvInit, HealthInvNext, PTL DEF SafetySpec

================================================================================
