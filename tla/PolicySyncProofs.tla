--------------------------- MODULE PolicySyncProofs ---------------------------
(***************************************************************************)
(* The back-off of the loop, and what Refresh does with the LOCAL provider,*)
(* for any policies, releases, intervals and number of failing calls.      *)
(***************************************************************************)
EXTENDS PolicySync, TLAPS

SafetySpec == Init /\ [][Next]_vars

--------------------------------------------------------------------------------
\* The back-off.

\* The counter is the number of failures since the last success, wherever the loop is: only
\* the return of a Refresh of the loop changes it, the wait or the failures.
BackoffInv ==
    /\ attempt = failed /\ failed \in Nat
    /\ \/ failed = 0 /\ wait \in {1, WatchInterval}
       \/ failed > 0 /\ wait = Doubled(failed - 1)
       \/ ~Doubles(failed) /\ wait = MaxWait

LEMMA BackoffFailed == ASSUME BackoffInv, NEW r, Failed(r) PROVE BackoffInv'
<1>1. CASE r # "loop"
    BY <1>1 DEF Failed, loopVars, BackoffInv
<1>2. CASE r = "loop" /\ Doubles(failed)
    <2>1. failed' = failed + 1 /\ attempt' = failed + 1 /\ wait' = Doubled(failed)
        BY <1>2 DEF Failed, OneMore, BackoffInv
    <2>2. failed' \in Nat /\ failed' > 0 /\ failed' - 1 = failed
        BY <2>1 DEF BackoffInv
    <2> QED BY <2>1, <2>2 DEF BackoffInv
<1>3. CASE r = "loop" /\ ~Doubles(failed)
    <2>1. failed' = failed /\ attempt' = failed /\ wait' = MaxWait
        BY <1>3 DEF Failed, OneMore, Doubled, BackoffInv
    <2>2. ~Doubles(failed')
        BY <1>3, <2>1
    <2> QED BY <2>1, <2>2 DEF BackoffInv
<1> QED BY <1>1, <1>2, <1>3

LEMMA BackoffSucceeded == ASSUME BackoffInv, NEW r, NEW place, Succeeded(r, place) PROVE BackoffInv'
<1>1. CASE r # "loop"
    BY <1>1 DEF Succeeded, loopVars, BackoffInv
<1>2. CASE r = "loop"
    BY <1>2 DEF Succeeded, BackoffInv
<1> QED BY <1>1, <1>2

LEMMA BackoffNext == BackoffInv /\ [Next]_vars => BackoffInv'
<1> SUFFICES ASSUME BackoffInv, [Next]_vars PROVE BackoffInv'
    OBVIOUS
<1>1. CASE UNCHANGED loopVars
    BY <1>1 DEF loopVars, BackoffInv
<1>2. CASE NewClient \/ NewClientFails \/ readConfigManagerConfig \/ ConfigFails \/ StartRefresh
    BY <1>1, <1>2 DEF NewClient, NewClientFails, readConfigManagerConfig, ConfigFails, StartRefresh
<1>3. CASE ReconcileReady \/ RefreshGet \/ ReconcileStart \/ Reconcile \/ ChangePolicy \/ UNCHANGED vars
    BY <1>1, <1>3 DEF ReconcileReady, RefreshGet, ReconcileStart, Reconcile, ChangePolicy, vars, loopVars
<1>4. ASSUME NEW r \in Refreshers, Refresh(r) \/ RefreshFails(r) PROVE BackoffInv'
    <2>1. CASE GetClusterUpgradePolicies(r) \/ GetClusterUpgradePolicyState(r) \/ fetchUpgradeConfigs(r)
        BY <1>1, <2>1 DEF GetClusterUpgradePolicies, GetClusterUpgradePolicyState, fetchUpgradeConfigs
    <2>2. CASE PolicyGone(r) \/ RefreshFails(r)
        BY <2>2, BackoffFailed DEF PolicyGone, RefreshFails
    <2>3. CASE RefreshWrite(r)
        <3>1. Failed(r) \/ UNCHANGED loopVars \/ Succeeded(r, "begin") \/ Succeeded(r, "idle")
            BY <2>3 DEF RefreshWrite
        <3> QED BY <1>1, <3>1, BackoffFailed, BackoffSucceeded
    <2>4. CASE RefreshCreate(r)
        <3>1. Failed(r) \/ Succeeded(r, "idle")
            BY <2>4 DEF RefreshCreate
        <3> QED BY <3>1, BackoffFailed, BackoffSucceeded
    <2> QED BY <1>4, <2>1, <2>2, <2>3, <2>4 DEF Refresh
<1> QED BY <1>2, <1>3, <1>4 DEF Next

\* The wait of StartSync follows from the Refreshes of the loop that failed since one
\* succeeded, whatever the Refreshes of Reconcile do meanwhile.
THEOREM BackoffStartsAnew == SafetySpec => []WaitFollowsFailures
<1>1. Init => BackoffInv
    BY DEF Init, BackoffInv
<1>2. BackoffInv => WaitFollowsFailures
    BY DEF BackoffInv, WaitFollowsFailures
<1> QED BY <1>1, <1>2, BackoffNext, PTL DEF SafetySpec

--------------------------------------------------------------------------------
\* The LOCAL provider.

Underway == {"Pending", "Upgrading"}

Places == {"start", "config", "wait", "ended", "idle", "get", "list", "state", "write", "create", "begin"}

UCs == [spec : Specs \cup {Nil}, phase : {"none", "Pending", "Upgrading", "Upgraded"}]

LocalTypes ==
    /\ at \in [Refreshers -> Places] /\ answer \in [Refreshers -> Specs \cup {Nil}]
    /\ uc \in UCs /\ seen \in [Refreshers -> UCs]

\* What a Refresh of the LOCAL provider knows of the UpgradeConfig: the one it found is still
\* the one on the cluster, or that one is gone for good.  It asks for no state, and it
\* creates none, since what it reads comes from the cluster itself.
LocalOf(r) ==
    /\ at[r] \notin {"state", "create"}
    /\ at[r] \in {"list", "write"} /\ uc # NoUC =>
        /\ uc.spec = seen[r].spec
        /\ seen[r].phase \in Underway => uc.phase # "none"
    /\ at[r] = "write" =>
        /\ answer[r] \in {Nil, seen[r].spec}
        /\ uc # NoUC /\ seen[r].phase \in Underway /\ uc.phase # "Upgraded" => answer[r] = seen[r].spec

LocalInv ==
    source = "LOCAL" => LocalTypes /\ \A r \in Refreshers : LocalOf(r)

\* The UpgradeConfig is removed for good, or goes on.
MovesOn ==
    \/ uc' = NoUC
    \/ /\ uc # NoUC /\ uc'.spec = uc.spec
       /\ uc.phase # "none" => uc'.phase # "none"
       /\ uc.phase = "Upgraded" => uc'.phase = "Upgraded"

\* A Refresh that makes no step.
Rests(r) == at'[r] = at[r] /\ seen'[r] = seen[r] /\ answer'[r] = answer[r]

LEMMA RestsLocal ==
    ASSUME NEW r, LocalOf(r), Rests(r), MovesOn \/ uc' = uc
    PROVE  LocalOf(r)'
<1>1. CASE uc' = uc
    BY <1>1 DEF LocalOf, Rests
<1>2. CASE uc' = NoUC
    BY <1>2 DEF LocalOf, Rests
<1>3. CASE MovesOn /\ uc' # NoUC
    BY <1>3 DEF LocalOf, Rests, MovesOn
<1> QED BY <1>1, <1>2, <1>3

\* One that makes a step, or returns.
Moves(r) == \A q \in Refreshers : q # r => Rests(q)

LEMMA GotoMoves ==
    ASSUME LocalTypes, NEW r \in Refreshers, NEW place \in Places, Goto(r, place)
    PROVE  /\ at' \in [Refreshers -> Places] /\ at'[r] = place
           /\ \A q \in Refreshers : q # r => at'[q] = at[q]
BY DEF Goto, LocalTypes

LEMMA ReturnLocal ==
    ASSUME LocalTypes, NEW r \in Refreshers, NEW place \in {"begin", "idle"}, Return(r, place)
    PROVE  /\ at' \in [Refreshers -> Places] /\ answer' \in [Refreshers -> Specs \cup {Nil}]
           /\ seen' \in [Refreshers -> UCs]
           /\ Moves(r) /\ LocalOf(r)'
<1> DEFINE there == IF r = "loop" THEN "wait" ELSE place
<1>1. there \in {"wait", "begin", "idle"} /\ Goto(r, there)
    BY DEF Return
<1>2. /\ at' \in [Refreshers -> Places] /\ at'[r] = there
      /\ \A q \in Refreshers : q # r => at'[q] = at[q]
    BY <1>1, GotoMoves DEF Places
<1>3. NoUC \in UCs
    BY DEF NoUC, UCs
<1>4. LocalOf(r)'
    BY <1>1, <1>2 DEF LocalOf
<1> QED BY <1>2, <1>3, <1>4 DEF Return, Moves, Rests, LocalTypes

\* The provider is configured once.
LEMMA SourceStays == ASSUME [Next]_vars PROVE source' = source
<1>1. CASE UNCHANGED world \/ UNCHANGED vars
    BY <1>1 DEF world, vars
<1>2. CASE ChangePolicy
    BY <1>2 DEF ChangePolicy
<1>3. ASSUME NEW r \in Refreshers, Refresh(r) \/ RefreshFails(r) PROVE UNCHANGED world
    BY <1>3 DEF Refresh, GetClusterUpgradePolicies, GetClusterUpgradePolicyState, PolicyGone,
                fetchUpgradeConfigs, RefreshWrite, RefreshCreate, RefreshFails
<1>4. CASE NewClient \/ NewClientFails \/ readConfigManagerConfig \/ ConfigFails \/ StartRefresh
    BY <1>1, <1>4 DEF NewClient, NewClientFails, readConfigManagerConfig, ConfigFails, StartRefresh
<1>5. CASE ReconcileReady \/ RefreshGet \/ ReconcileStart \/ Reconcile
    BY <1>1, <1>5 DEF ReconcileReady, RefreshGet, ReconcileStart, Reconcile
<1> QED BY <1>1, <1>2, <1>3, <1>4, <1>5 DEF Next

LEMMA LocalNext == LocalInv /\ [Next]_vars => LocalInv'
<1> SUFFICES ASSUME LocalInv, [Next]_vars, source = "LOCAL" PROVE LocalInv'
    BY SourceStays DEF LocalInv
<1>1. LocalTypes /\ \A r \in Refreshers : LocalOf(r)
    BY DEF LocalInv, LocalTypes
<1>2. "loop" \in Refreshers /\ "reconciler" \in Refreshers
    BY DEF Refreshers
<1>3. NoUC \in UCs /\ NoUC.spec = Nil /\ NoUC.phase = "none"
    BY DEF NoUC, UCs
<1>4. ASSUME LocalTypes', MovesOn \/ uc' = uc, NEW r \in Refreshers, Moves(r), LocalOf(r)'
      PROVE  LocalInv'
    BY <1>1, <1>4, RestsLocal DEF LocalInv, LocalTypes, Moves
<1>5. ASSUME NEW place \in Places, place \notin {"list", "write", "state", "create"}, NEW r \in Refreshers,
             Goto(r, place), UNCHANGED <<uc, seen, answer>>
      PROVE  LocalInv'
    <2>1. /\ at' \in [Refreshers -> Places] /\ at'[r] = place
          /\ \A q \in Refreshers : q # r => at'[q] = at[q]
        BY <1>1, <1>5, GotoMoves
    <2>2. LocalTypes' /\ Moves(r) /\ LocalOf(r)'
        BY <1>1, <1>5, <2>1 DEF LocalTypes, Moves, Rests, LocalOf
    <2> QED BY <1>4, <1>5, <2>2
<1>6. CASE NewClient \/ NewClientFails \/ readConfigManagerConfig \/ ReconcileReady
    BY <1>2, <1>5, <1>6 DEF Places, NewClient, NewClientFails, readConfigManagerConfig, ReconcileReady
<1>7. CASE ConfigFails \/ UNCHANGED vars \/ ChangePolicy
    BY <1>7 DEF ConfigFails, ChangePolicy, vars, LocalInv, LocalTypes, LocalOf
<1>8. ASSUME NEW r \in Refreshers, seen' = [seen EXCEPT ![r] = uc], Goto(r, "list"), UNCHANGED <<uc, answer>>
      PROVE  LocalInv'
    <2>1. /\ at' \in [Refreshers -> Places] /\ at'[r] = "list"
          /\ \A q \in Refreshers : q # r => at'[q] = at[q]
        BY <1>1, <1>8, GotoMoves DEF Places
    <2>2. LocalTypes' /\ Moves(r) /\ seen'[r] = uc
        BY <1>1, <1>8, <2>1 DEF LocalTypes, Moves, Rests
    <2>3. LocalOf(r)'
        BY <1>8, <2>1, <2>2 DEF LocalOf, Underway
    <2> QED BY <1>4, <1>8, <2>2, <2>3
<1>9. CASE StartRefresh \/ RefreshGet
    BY <1>2, <1>8, <1>9 DEF StartRefresh, RefreshGet
<1>10. ASSUME NEW ph \in {"Pending", "Upgrading", "Upgraded"}, uc # NoUC, uc.phase # "Upgraded",
              uc' = [uc EXCEPT !.phase = ph]
       PROVE  uc' \in UCs /\ MovesOn
    BY <1>1, <1>10 DEF LocalTypes, UCs, MovesOn
<1>11. CASE ReconcileStart
    <2>1. uc' \in UCs /\ (MovesOn \/ uc' = uc)
        BY <1>1, <1>3, <1>10, <1>11 DEF ReconcileStart, LocalTypes
    <2>2. /\ at' \in [Refreshers -> Places] /\ at'["reconciler"] = "idle"
          /\ \A q \in Refreshers : q # "reconciler" => at'[q] = at[q]
        BY <1>1, <1>2, <1>11, GotoMoves DEF ReconcileStart, Places
    <2>3. LocalTypes' /\ Moves("reconciler") /\ LocalOf("reconciler")'
        BY <1>1, <1>11, <2>1, <2>2 DEF ReconcileStart, LocalTypes, Moves, Rests, LocalOf
    <2> QED BY <1>2, <1>4, <2>1, <2>3
<1>12. CASE Reconcile
    <2>1. uc' \in UCs /\ MovesOn
        BY <1>1, <1>10, <1>12 DEF Reconcile, LocalTypes, UCs
    <2>2. LocalTypes' /\ \A r \in Refreshers : Rests(r)
        BY <1>1, <1>12, <2>1 DEF Reconcile, LocalTypes, Rests
    <2> QED BY <1>1, <2>1, <2>2, RestsLocal DEF LocalInv, LocalTypes
<1>13. ASSUME NEW r \in Refreshers, NEW place \in {"begin", "idle"}, Return(r, place), uc' \in {uc, NoUC}
       PROVE  LocalInv'
    <2>1. /\ at' \in [Refreshers -> Places] /\ answer' \in [Refreshers -> Specs \cup {Nil}]
          /\ seen' \in [Refreshers -> UCs]
          /\ Moves(r) /\ LocalOf(r)'
        BY <1>1, <1>13, ReturnLocal
    <2>2. LocalTypes' /\ (MovesOn \/ uc' = uc)
        BY <1>1, <1>3, <1>13, <2>1 DEF LocalTypes, MovesOn
    <2> QED BY <1>4, <2>1, <2>2
<1>14. ASSUME NEW r \in Refreshers, Refresh(r) \/ RefreshFails(r) PROVE LocalInv'
    <2>1. LocalOf(r)
        BY <1>1
    <2>2. CASE GetClusterUpgradePolicies(r) \/ GetClusterUpgradePolicyState(r) \/ RefreshCreate(r)
        BY <2>1, <2>2 DEF GetClusterUpgradePolicies, GetClusterUpgradePolicyState, RefreshCreate, LocalOf
    <2>3. CASE PolicyGone(r) \/ RefreshFails(r)
        BY <1>13, <2>3 DEF PolicyGone, RefreshFails, Failed
    <2>4. CASE fetchUpgradeConfigs(r)
        <3>1. /\ at' \in [Refreshers -> Places] /\ at'[r] = "write"
              /\ \A q \in Refreshers : q # r => at'[q] = at[q]
            BY <1>1, <2>4, GotoMoves DEF fetchUpgradeConfigs, Places
        <3>2. /\ answer' = [answer EXCEPT ![r] = readSpecFromConfig] /\ UNCHANGED <<uc, seen>>
              /\ at[r] = "list"
            BY <2>4 DEF fetchUpgradeConfigs
        <3>3. readSpecFromConfig \in Specs \cup {Nil}
            BY <1>1 DEF readSpecFromConfig, LocalTypes, UCs
        <3>4. LocalTypes' /\ Moves(r) /\ answer'[r] = readSpecFromConfig
            BY <1>1, <3>1, <3>2, <3>3 DEF LocalTypes, Moves, Rests
        <3>5. readSpecFromConfig \in {Nil, seen[r].spec}
            BY <1>3, <2>1, <3>2 DEF LocalOf, readSpecFromConfig
        <3>6. uc # NoUC /\ seen[r].phase \in Underway /\ uc.phase # "Upgraded" => readSpecFromConfig = seen[r].spec
            BY <2>1, <3>2 DEF LocalOf, readSpecFromConfig
        <3>7. LocalOf(r)'
            BY <2>1, <3>1, <3>2, <3>4, <3>5, <3>6 DEF LocalOf
        <3> QED BY <1>4, <3>2, <3>4, <3>7
    <2>5. CASE RefreshWrite(r)
        <3>1. answer[r] \in {Nil, seen[r].spec}
            BY <2>1, <2>5 DEF RefreshWrite, LocalOf
        <3>2. /\ Return(r, "begin") \/ Return(r, "idle")
              /\ uc' \in {uc, NoUC}
            BY <1>3, <2>5, <3>1 DEF RefreshWrite, Succeeded, Failed
        <3> QED BY <1>13, <3>2
    <2> QED BY <1>14, <2>2, <2>3, <2>4, <2>5 DEF Refresh
<1> QED BY <1>6, <1>7, <1>9, <1>11, <1>12, <1>14 DEF Next

\* With the LOCAL provider no Refresh, of the loop or of Reconcile, deletes an UpgradeConfig
\* that was pending or upgrading when it began and has not been completed since, however the
\* two interleave (localProvider.Get, Refresh).
THEOREM LocalLeavesAlone == SafetySpec => LocalKeepsRunning
<1>1. Init => LocalInv
    <2> SUFFICES ASSUME Init, source = "LOCAL" PROVE LocalInv
        BY DEF LocalInv
    <2>1. NoUC \in UCs /\ uc \in UCs
        BY DEF Init, NoUC, UCs
    <2>2. \A r \in Refreshers : at[r] \notin {"list", "write", "state", "create"}
        BY DEF Init, Refreshers
    <2>3. at \in [Refreshers -> Places]
        BY DEF Init, Refreshers, Places
    <2> QED BY <2>1, <2>2, <2>3 DEF Init, LocalInv, LocalTypes, LocalOf
<1>2. LocalInv /\ [Next]_vars => [\A r \in Refreshers :
        (/\ source = "LOCAL" /\ RefreshWrite(r)
         /\ seen[r].phase \in {"Pending", "Upgrading"} /\ uc.phase # "Upgraded")
            => uc' = uc]_vars
    <2> SUFFICES ASSUME LocalInv, NEW r \in Refreshers, source = "LOCAL", RefreshWrite(r),
                        seen[r].phase \in {"Pending", "Upgrading"}, uc.phase # "Upgraded", uc # NoUC
                 PROVE  uc' = uc
        BY DEF RefreshWrite
    <2>1. answer[r] = seen[r].spec
        BY DEF LocalInv, LocalOf, RefreshWrite, Underway
    <2> QED BY <2>1 DEF RefreshWrite
<1> QED BY <1>1, <1>2, LocalNext, PTL DEF SafetySpec, LocalKeepsRunning

================================================================================
