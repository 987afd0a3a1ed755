-------------------------- MODULE NotificationsProofs --------------------------
(***************************************************************************)
(* What OCM is told of an upgrade, for any set of policies, any events     *)
(* sent, and any number of failed calls, lost answers, restarts and        *)
(* UpgradeConfigs.                                                         *)
(***************************************************************************)
EXTENDS TLAPS, Notifications

OCMStates == States \cup {"Scheduled", "Cancelled"}

U == call["upgrader"]
K == call["nodekeeper"]

Reached == {"found", "valid"}

\* The Notify of the upgrade's controller: its event is one of the run's; a service log was
\* posted; the transition that was found valid still moves on, since the NodeKeeper can at
\* most have put a delay over a policy that has started.
UpgraderInv ==
    /\ U.pc = "idle" <=> U = Idle
    /\ U.pc # "idle" => U.event \in EventsOf[run] /\ at < Order[U.event]
    /\ U.pc = "checked" => U.event \in ServiceLogs
    /\ U.event = "Completed" => commenced
    /\ U.event = "Started" => ~commenced
    /\ U.pc \in Reached => U.policy \in Policies /\ (~stale => U.policy = uc)
    /\ U.pc = "valid" =>
        /\ U.event \in States
        /\ IF U.event = "Started" THEN Rank[ocm[U.policy]] = 0 ELSE Rank[ocm[U.policy]] \in {1, 2}

\* The Notify of the NodeKeeper.
KeeperInv ==
    /\ K.pc = "idle" <=> K = Idle
    /\ K.pc # "idle" => K.event = "DrainDelayed"
    /\ K.pc \in Reached => K.policy \in Policies
    /\ K.pc = "valid" => Rank[ocm[K.policy]] > 0

\* A run, and the phase of the UpgradeConfig that it is for.
RunInv ==
    /\ run = "none" => ~stale
    /\ stale \/ uc = NoConfig => phase = "New"
    /\ uc = NoConfig => accepted = {} /\ (run # "none" => stale)
    /\ run = "new" => ~commenced
    /\ run = "failing" => ~commenced /\ (~stale => phase = "Expired")
    /\ run = "upgrading" /\ ~stale => phase \in {"Upgrading", "Expired"}
    /\ phase \in {"Upgraded", "Failed"} => run = "none"

\* What OCM has taken, and what state the policy is in.
OCMInv ==
    /\ accepted # {} => Rank[ocm[uc]] > 0
    /\ "Started" \in accepted =>
        /\ ocm[uc] = "Completed" => "Completed" \in accepted
        /\ ocm[uc] = "Failed" => "Failed" \in accepted
        /\ "Completed" \in accepted => commenced
        /\ "Failed" \in accepted => phase \in {"Expired", "Failed"} /\ ~commenced /\ run \in {"none", "failing"}
        /\ ~(run = "failing" /\ stale)

\* What counts as completed.
CompletedInv ==
    /\ "Completed" \in gauge \cup scraped => commenced /\ ("Started" \in accepted => "Completed" \in accepted)
    /\ run = "upgrading" /\ at = Order["Completed"] =>
        commenced /\ ("Started" \in accepted => "Completed" \in accepted)
    /\ U.event = "Completed" /\ U.pc \in Reached /\ U.policy # uc => "Started" \notin accepted

\* What counts as failed.
FailedInv ==
    /\ "Failed" \in gauge => run = "failing" /\ at = Order["Failed"]
    /\ run = "failing" /\ at = Order["Failed"] /\ ~stale /\ "Started" \in accepted => "Failed" \in accepted
    /\ "Failed" \in scraped /\ phase = "Expired" /\ ~commenced =>
        run \in {"none", "failing"} /\ ("Started" \in accepted => "Failed" \in accepted)

EndInv == EndReachesOCM /\ OCMInv /\ CompletedInv /\ FailedInv

\* What was posted.
PostedInv ==
    /\ SentWasPosted
    /\ uc = NoConfig => deletions > 0
    /\ notifications =>
        /\ U.event \in ServiceLogs /\ U.pc \in {"logged", "found", "valid"} => U.event \in posted
        /\ run = "upgrading" /\ at = Order["ControlPlaneStartedSL"] /\ deletions = 0 => "ControlPlaneStartedSL" \in posted

NotifyInv == NotifyTypeOK /\ UpgraderInv /\ KeeperInv /\ RunInv /\ EndInv /\ PostedInv

--------------------------------------------------------------------------------
\* The tables.

\* Order: the events by which a run goes on, ends or fails have their places alone.
LEMMA Orders ==
    /\ \A e \in Events : Order[e] \in 1..9
    /\ Order["Completed"] = 9 /\ Order["Failed"] = 1 /\ Order["ControlPlaneStartedSL"] = 5
    /\ Order["Started"] = 1
    /\ \A e \in Events : (Order[e] = 9 <=> e = "Completed") /\ (Order[e] = 5 <=> e = "ControlPlaneStartedSL")
BY DEF Order, Events, States, ServiceLogs

\* EventsOf: what the runs send.
LEMMA Kinds ==
    /\ EventsOf["none"] = {} /\ EventsOf["failing"] = {"Failed"} /\ EventsOf["new"] = {"PreHealthCheckSL"}
    /\ EventsOf["upgrading"] = Events \ {"PreHealthCheckSL", "Failed"}
    /\ \A r \in {"none", "new", "upgrading", "failing"} : EventsOf[r] \subseteq Events
BY DEF EventsOf, Events, States, ServiceLogs

\* Rank: scheduled and cancelled, started, delayed, ended.
LEMMA Ranks ==
    ASSUME NEW f \in OCMStates
    PROVE  /\ Rank[f] \in 0..3
           /\ Rank[f] = 0 <=> f \in {"Scheduled", "Cancelled"}
           /\ Rank[f] = 1 <=> f = "Started"
           /\ Rank[f] = 3 <=> f \in {"Completed", "Failed"}
           /\ f = "DrainDelayed" => Rank[f] = 2
BY DEF Rank, OCMStates, States

\* validateStateTransition: only Started follows Scheduled, only a state follows, and only a
\* policy that has started and is not at an end; and that may always end.
LEMMA Transitions ==
    ASSUME NEW f \in OCMStates, NEW e \in Events
    PROVE  /\ Label(e) \in Valid[ReadBack(f)] =>
                /\ e \in States
                /\ IF e = "Started" THEN Rank[f] = 0 ELSE Rank[f] \in {1, 2}
           /\ e = "DrainDelayed" /\ Label(e) \in Valid[ReadBack(f)] => Rank[f] > 0
           /\ e \in {"Completed", "Failed"} /\ Label(e) \notin Valid[ReadBack(f)] => Rank[f] \in {0, 3}
<1> USE DEF Valid, Rank, ReadBack, Label, States, Events, ServiceLogs
<1>1. CASE f = "Started"      BY <1>1
<1>2. CASE f = "Delayed"      BY <1>2
<1>3. CASE f = "ScaleSkipped" BY <1>3
<1>4. CASE f = "Skipped"      BY <1>4
<1>5. CASE f = "Completed"    BY <1>5
<1>6. CASE f = "Failed"       BY <1>6
<1>7. CASE f = "Scheduled"    BY <1>7
<1>8. CASE f = "Cancelled"    BY <1>8
<1>9. CASE f = "DrainDelayed" BY <1>9
<1> QED BY <1>1, <1>2, <1>3, <1>4, <1>5, <1>6, <1>7, <1>8, <1>9 DEF OCMStates

--------------------------------------------------------------------------------

\* The invariant holds initially: nothing was sent and every policy is scheduled.
LEMMA InitNotify == Init => NotifyInv
<1> SUFFICES ASSUME Init PROVE NotifyInv
    OBVIOUS
<1> USE NotificationsAssumption, Orders DEF Init, Idle, U, K, Notifiers, Reached
<1>0. FlagsOK
    BY Zenon DEF FlagsOK
<1>1. NotifyTypeOK
    BY <1>0 DEF NotifyTypeOK, Calls
<1>2. UpgraderInv /\ KeeperInv /\ RunInv
    BY DEF UpgraderInv, KeeperInv, RunInv
<1>3. EndInv
    BY DEF EndInv, EndReachesOCM, OCMInv, CompletedInv, FailedInv
<1>4. PostedInv
    BY DEF PostedInv, SentWasPosted
<1> QED BY <1>1, <1>2, <1>3, <1>4 DEF NotifyInv

--------------------------------------------------------------------------------

\* Flags stay flags.
LEMMA StepFlags == FlagsOK /\ Next => FlagsOK'
<1> SUFFICES ASSUME FlagsOK, Next PROVE FlagsOK'
    OBVIOUS
<1> USE DEF FlagsOK
<1>1. CASE notifications' = notifications /\ UNCHANGED runVars
    BY <1>1, Zenon DEF runVars
<1>2. ASSUME NEW n \in Notifiers, NotifyState(n) \/ SetState(n) PROVE FlagsOK'
    BY <1>2, Zenon DEF NotifyState, SetState
<1>3. ASSUME NEW n \in Notifiers, Fails(n) PROVE FlagsOK'
    BY <1>3, Zenon DEF Fails, RunEnds
<1>4. ASSUME NEW x, Ends(x) PROVE FlagsOK'
    BY <1>4, Zenon DEF Ends, RunEnds
<1>5. ASSUME NEW e \in Sends, Notify(e) PROVE FlagsOK'
    BY <1>5, Zenon DEF Notify
<1>6. CASE Reconcile \/ CommenceUpgrade \/ DeleteUpgradeConfig \/ Restart
    BY <1>6, Zenon DEF Reconcile, CommenceUpgrade, DeleteUpgradeConfig, Restart, RunEnds
<1> QED
    BY <1>1, <1>2, <1>3, <1>4, <1>5, <1>6, Zenon
       DEF Next, NodeKeeperReads, NodeKeeperNotifies, PostServiceLog, getPolicyIdForUpgradeConfig, NoPolicyFound,
           NotifyFails, HealthCheckEnds, StartUpgrade, StepWaits, CompleteUpgrade, FailUpgrade, WindowPasses,
           CreateUpgradeConfig, Scrape, CancelPolicy, runVars

\* Reconcile keeps the invariant.
LEMMA StepReconcile == NotifyInv /\ Reconcile => NotifyInv'
<1> SUFFICES ASSUME NotifyInv, Reconcile PROVE NotifyInv'
    OBVIOUS
<1> USE NotificationsAssumption, Orders, Kinds
    DEF NotifyInv, NotifyTypeOK, Reconcile, configVars, runVars, ocmVars, Idle, U, K, Notifiers, Reached
<1>1. FlagsOK'
    BY StepFlags DEF Next
<1>2. NotifyTypeOK'
    BY <1>1
<1>3. UpgraderInv' /\ KeeperInv'
    BY DEF UpgraderInv, KeeperInv
<1>4. RunInv'
    BY DEF RunInv, UpgraderInv
<1>5. EndInv'
    BY DEF EndInv, EndReachesOCM, OCMInv, CompletedInv, FailedInv, RunInv, UpgraderInv
<1>6. PostedInv'
    BY DEF PostedInv, SentWasPosted
<1> QED BY <1>2, <1>3, <1>4, <1>5, <1>6

\* HealthCheckEnds keeps the invariant.
LEMMA StepHealthCheckEnds == NotifyInv /\ HealthCheckEnds => NotifyInv'
<1> SUFFICES ASSUME NotifyInv, HealthCheckEnds PROVE NotifyInv'
    OBVIOUS
<1> USE NotificationsAssumption, Orders, Kinds
    DEF NotifyInv, NotifyTypeOK, HealthCheckEnds, Ends, RunEnds, configVars, runVars, ocmVars, Idle, U, K, Notifiers, Reached
<1>1. FlagsOK'
    BY StepFlags DEF Next
<1>2. NotifyTypeOK'
    BY <1>1
<1>3. UpgraderInv' /\ KeeperInv'
    BY DEF UpgraderInv, KeeperInv
<1>4. RunInv'
    BY DEF RunInv, UpgraderInv
<1>5. EndInv'
    BY DEF EndInv, EndReachesOCM, OCMInv, CompletedInv, FailedInv, RunInv, UpgraderInv
<1>6. PostedInv'
    BY DEF PostedInv, SentWasPosted
<1> QED BY <1>2, <1>3, <1>4, <1>5, <1>6

\* StartUpgrade keeps the invariant.
LEMMA StepStartUpgrade == NotifyInv /\ StartUpgrade => NotifyInv'
<1> SUFFICES ASSUME NotifyInv, StartUpgrade PROVE NotifyInv'
    OBVIOUS
<1> USE NotificationsAssumption, Orders, Kinds
    DEF NotifyInv, NotifyTypeOK, StartUpgrade, configVars, runVars, ocmVars, Idle, U, K, Notifiers, Reached
<1>1. FlagsOK'
    BY StepFlags DEF Next
<1>2. NotifyTypeOK'
    BY <1>1
<1>3. UpgraderInv' /\ KeeperInv'
    BY DEF UpgraderInv, KeeperInv
<1>4. RunInv'
    BY DEF RunInv, UpgraderInv
<1>5. EndInv'
    BY DEF EndInv, EndReachesOCM, OCMInv, CompletedInv, FailedInv, RunInv, UpgraderInv
<1>6. PostedInv'
    BY DEF PostedInv, SentWasPosted
<1> QED BY <1>2, <1>3, <1>4, <1>5, <1>6

\* StepWaits keeps the invariant.
LEMMA StepStepWaits == NotifyInv /\ StepWaits => NotifyInv'
<1> SUFFICES ASSUME NotifyInv, StepWaits PROVE NotifyInv'
    OBVIOUS
<1> USE NotificationsAssumption, Orders, Kinds
    DEF NotifyInv, NotifyTypeOK, StepWaits, Ends, RunEnds, configVars, runVars, ocmVars, Idle, U, K, Notifiers, Reached
<1>1. FlagsOK'
    BY StepFlags DEF Next
<1>2. NotifyTypeOK'
    BY <1>1
<1>3. UpgraderInv' /\ KeeperInv'
    BY DEF UpgraderInv, KeeperInv
<1>4. RunInv'
    BY DEF RunInv, UpgraderInv
<1>5. EndInv'
    BY DEF EndInv, EndReachesOCM, OCMInv, CompletedInv, FailedInv, RunInv, UpgraderInv
<1>6. PostedInv'
    BY DEF PostedInv, SentWasPosted
<1> QED BY <1>2, <1>3, <1>4, <1>5, <1>6

\* CommenceUpgrade keeps the invariant.
LEMMA StepCommenceUpgrade == NotifyInv /\ CommenceUpgrade => NotifyInv'
<1> SUFFICES ASSUME NotifyInv, CommenceUpgrade PROVE NotifyInv'
    OBVIOUS
<1> USE NotificationsAssumption, Orders, Kinds
    DEF NotifyInv, NotifyTypeOK, CommenceUpgrade, configVars, runVars, ocmVars, Idle, U, K, Notifiers, Reached
<1>1. FlagsOK'
    BY StepFlags DEF Next
<1>2. NotifyTypeOK'
    BY <1>1
<1>3. UpgraderInv' /\ KeeperInv'
    BY DEF UpgraderInv, KeeperInv
<1>4. RunInv'
    BY DEF RunInv, UpgraderInv
<1>5. EndInv'
    BY DEF EndInv, EndReachesOCM, OCMInv, CompletedInv, FailedInv, RunInv, UpgraderInv
<1>6. PostedInv'
    BY DEF PostedInv, SentWasPosted
<1> QED BY <1>2, <1>3, <1>4, <1>5, <1>6

\* CompleteUpgrade keeps the invariant.
LEMMA StepCompleteUpgrade == NotifyInv /\ CompleteUpgrade => NotifyInv'
<1> SUFFICES ASSUME NotifyInv, CompleteUpgrade PROVE NotifyInv'
    OBVIOUS
<1> USE NotificationsAssumption, Orders, Kinds
    DEF NotifyInv, NotifyTypeOK, CompleteUpgrade, Ends, RunEnds, configVars, runVars, ocmVars, Idle, U, K, Notifiers, Reached
<1>1. FlagsOK'
    BY StepFlags DEF Next
<1>2. NotifyTypeOK'
    BY <1>1
<1>3. UpgraderInv' /\ KeeperInv'
    BY DEF UpgraderInv, KeeperInv
<1>4. RunInv'
    BY DEF RunInv, UpgraderInv
<1>5. EndInv'
    BY DEF EndInv, EndReachesOCM, OCMInv, CompletedInv, FailedInv, RunInv, UpgraderInv
<1>6. PostedInv'
    BY DEF PostedInv, SentWasPosted
<1> QED BY <1>2, <1>3, <1>4, <1>5, <1>6

\* FailUpgrade keeps the invariant.
LEMMA StepFailUpgrade == NotifyInv /\ FailUpgrade => NotifyInv'
<1> SUFFICES ASSUME NotifyInv, FailUpgrade PROVE NotifyInv'
    OBVIOUS
<1> USE NotificationsAssumption, Orders, Kinds
    DEF NotifyInv, NotifyTypeOK, FailUpgrade, Ends, RunEnds, configVars, runVars, ocmVars, Idle, U, K, Notifiers, Reached
<1>1. FlagsOK'
    BY StepFlags DEF Next
<1>2. NotifyTypeOK'
    BY <1>1
<1>3. UpgraderInv' /\ KeeperInv'
    BY DEF UpgraderInv, KeeperInv
<1>4. RunInv'
    BY DEF RunInv, UpgraderInv
<1>5. EndInv'
    BY DEF EndInv, EndReachesOCM, OCMInv, CompletedInv, FailedInv, RunInv, UpgraderInv
<1>6. PostedInv'
    BY DEF PostedInv, SentWasPosted
<1> QED BY <1>2, <1>3, <1>4, <1>5, <1>6

\* WindowPasses keeps the invariant.
LEMMA StepWindowPasses == NotifyInv /\ WindowPasses => NotifyInv'
<1> SUFFICES ASSUME NotifyInv, WindowPasses PROVE NotifyInv'
    OBVIOUS
<1> USE NotificationsAssumption, Orders, Kinds
    DEF NotifyInv, NotifyTypeOK, WindowPasses, configVars, runVars, ocmVars, Idle, U, K, Notifiers, Reached
<1>1. FlagsOK'
    BY StepFlags DEF Next
<1>2. NotifyTypeOK'
    BY <1>1
<1>3. UpgraderInv' /\ KeeperInv'
    BY DEF UpgraderInv, KeeperInv
<1>4. RunInv'
    BY DEF RunInv, UpgraderInv
<1>5. EndInv'
    BY DEF EndInv, EndReachesOCM, OCMInv, CompletedInv, FailedInv, RunInv, UpgraderInv
<1>6. PostedInv'
    BY DEF PostedInv, SentWasPosted
<1> QED BY <1>2, <1>3, <1>4, <1>5, <1>6

\* DeleteUpgradeConfig keeps the invariant.
LEMMA StepDeleteUpgradeConfig == NotifyInv /\ DeleteUpgradeConfig => NotifyInv'
<1> SUFFICES ASSUME NotifyInv, DeleteUpgradeConfig PROVE NotifyInv'
    OBVIOUS
<1> USE NotificationsAssumption, Orders, Kinds
    DEF NotifyInv, NotifyTypeOK, DeleteUpgradeConfig, configVars, runVars, ocmVars, Idle, U, K, Notifiers, Reached
<1>1. FlagsOK'
    BY StepFlags DEF Next
<1>2. NotifyTypeOK'
    BY <1>1
<1>3. UpgraderInv' /\ KeeperInv'
    BY DEF UpgraderInv, KeeperInv
<1>4. RunInv'
    BY DEF RunInv, UpgraderInv
<1>5. EndInv'
    BY DEF EndInv, EndReachesOCM, OCMInv, CompletedInv, FailedInv, RunInv, UpgraderInv
<1>6. PostedInv'
    BY DEF PostedInv, SentWasPosted
<1> QED BY <1>2, <1>3, <1>4, <1>5, <1>6

\* CreateUpgradeConfig keeps the invariant.
LEMMA StepCreateUpgradeConfig == NotifyInv /\ CreateUpgradeConfig => NotifyInv'
<1> SUFFICES ASSUME NotifyInv, CreateUpgradeConfig PROVE NotifyInv'
    OBVIOUS
<1> USE NotificationsAssumption, Orders, Kinds
    DEF NotifyInv, NotifyTypeOK, CreateUpgradeConfig, configVars, runVars, ocmVars, Idle, U, K, Notifiers, Reached
<1>1. FlagsOK'
    BY StepFlags DEF Next
<1>2. NotifyTypeOK'
    BY <1>1
<1>3. UpgraderInv' /\ KeeperInv'
    BY DEF UpgraderInv, KeeperInv
<1>4. RunInv'
    BY DEF RunInv, UpgraderInv
<1>5. EndInv'
    BY DEF EndInv, EndReachesOCM, OCMInv, CompletedInv, FailedInv, RunInv, UpgraderInv
<1>6. PostedInv'
    BY DEF PostedInv, SentWasPosted
<1> QED BY <1>2, <1>3, <1>4, <1>5, <1>6

\* Restart keeps the invariant.
LEMMA StepRestart == NotifyInv /\ Restart => NotifyInv'
<1> SUFFICES ASSUME NotifyInv, Restart PROVE NotifyInv'
    OBVIOUS
<1> USE NotificationsAssumption, Orders, Kinds
    DEF NotifyInv, NotifyTypeOK, Restart, RunEnds, configVars, runVars, ocmVars, Idle, U, K, Notifiers, Reached
<1>1. FlagsOK'
    BY StepFlags DEF Next
<1>2. NotifyTypeOK'
    BY <1>1 DEF Calls
<1>3. UpgraderInv' /\ KeeperInv'
    BY DEF UpgraderInv, KeeperInv
<1>4. RunInv'
    BY DEF RunInv, UpgraderInv
<1>5. EndInv'
    BY DEF EndInv, EndReachesOCM, OCMInv, CompletedInv, FailedInv, RunInv, UpgraderInv
<1>6. PostedInv'
    BY DEF PostedInv, SentWasPosted
<1> QED BY <1>2, <1>3, <1>4, <1>5, <1>6

\* Scrape keeps the invariant.
LEMMA StepScrape == NotifyInv /\ Scrape => NotifyInv'
<1> SUFFICES ASSUME NotifyInv, Scrape PROVE NotifyInv'
    OBVIOUS
<1> USE NotificationsAssumption, Orders, Kinds
    DEF NotifyInv, NotifyTypeOK, Scrape, configVars, runVars, ocmVars, Idle, U, K, Notifiers, Reached
<1>1. FlagsOK'
    BY StepFlags DEF Next
<1>2. NotifyTypeOK'
    BY <1>1
<1>3. UpgraderInv' /\ KeeperInv'
    BY DEF UpgraderInv, KeeperInv
<1>4. RunInv'
    BY DEF RunInv, UpgraderInv
<1>5. EndInv'
    BY DEF EndInv, EndReachesOCM, OCMInv, CompletedInv, FailedInv, RunInv, UpgraderInv
<1>6. PostedInv'
    BY DEF PostedInv, SentWasPosted
<1> QED BY <1>2, <1>3, <1>4, <1>5, <1>6

\* Notify keeps the invariant.
LEMMA StepNotify ==
    ASSUME NotifyInv, NEW e \in Sends, Notify(e)
    PROVE  NotifyInv'
<1>1. FlagsOK'
    BY StepFlags DEF Next, NotifyInv, NotifyTypeOK
<1>2. e \in Events /\ e \in EventsOf[run] /\ at < Order[e] /\ (commenced <=> Order[e] > 5) /\ U = Idle
    BY NotificationsAssumption, Orders DEF Notify, Due, U
<1>3. /\ uc' = uc /\ phase' = phase /\ deletions' = deletions /\ run' = run /\ stale' = stale /\ commenced' = commenced
      /\ ocm' = ocm /\ accepted' = accepted /\ posted' = posted /\ scraped' = scraped /\ gauge' = gauge
      /\ notifications' = notifications /\ notifyFaults' = notifyFaults
    BY DEF Notify, configVars, ocmVars
<1> USE <1>3 DEF NotifyInv
<1>4. CASE (uc = NoConfig \/ Label(e) \in scraped) /\ at' = Order[e] /\ UNCHANGED call
    <2>0. U' = U /\ K' = K /\ U.event = "none" /\ U.pc = "idle"
        BY <1>2, <1>4 DEF U, K, Idle
    <2>1. NotifyTypeOK'
        BY <1>1, <1>2, <1>4, Orders DEF NotifyTypeOK
    <2>2. UpgraderInv'
        BY <2>0 DEF UpgraderInv, Reached
    <2>3. KeeperInv' /\ RunInv'
        BY <2>0 DEF KeeperInv, RunInv
    <2>4. OCMInv' /\ EndReachesOCM'
        BY DEF EndInv, EndReachesOCM, OCMInv
    <2>5. CompletedInv'
        BY <1>2, <1>4, <2>0, Orders DEF EndInv, CompletedInv, RunInv, Label
    <2>6. FailedInv'
        BY <1>2, <1>4, <2>0, Orders, Kinds DEF EndInv, FailedInv, RunInv, Label
    <2>7. PostedInv'
        BY <1>2, <1>4, <2>0, Orders DEF PostedInv, SentWasPosted, Label, ServiceLogs
    <2> QED BY <2>1, <2>2, <2>3, <2>4, <2>5, <2>6, <2>7 DEF EndInv
<1>5. CASE Send("upgrader", e) /\ UNCHANGED at
    <2>0. /\ U' = [event |-> e, policy |-> "none", pc |-> IF e \in ServiceLogs THEN "checked" ELSE "logged"]
          /\ K' = K /\ call' \in [Notifiers -> Calls]
        BY <1>2, <1>5 DEF Send, U, K, Calls, Notifiers, NotifyTypeOK
    <2>1. NotifyTypeOK'
        BY <1>1, <1>5, <2>0 DEF NotifyTypeOK
    <2>2. U'.event = e /\ U'.pc \in {"checked", "logged"} /\ (U'.pc = "checked" <=> e \in ServiceLogs)
        BY <2>0
    <2>3. UpgraderInv'
        BY <1>2, <1>5, <2>2, Orders DEF UpgraderInv, Idle, Reached
    <2>4. KeeperInv' /\ RunInv'
        BY <2>0 DEF KeeperInv, RunInv
    <2>5. EndInv'
        BY <1>5, <2>2 DEF EndInv, EndReachesOCM, OCMInv, CompletedInv, FailedInv, Reached
    <2>6. PostedInv'
        BY <1>5, <2>2 DEF PostedInv, SentWasPosted
    <2> QED BY <2>1, <2>3, <2>4, <2>5, <2>6
<1> QED BY <1>4, <1>5 DEF Notify, Acknowledge

\* NodeKeeperReads keeps the invariant.
LEMMA StepNodeKeeperReads ==
    ASSUME NotifyInv, NodeKeeperReads
    PROVE  NotifyInv'
<1> USE NotificationsAssumption, Orders, Kinds
    DEF NotifyInv, NotifyTypeOK, NodeKeeperReads, configVars, runVars, ocmVars, Idle, U, K, Notifiers, Reached
<1>1. FlagsOK'
    BY StepFlags DEF Next
<1>2. NotifyTypeOK'
    BY <1>1 DEF Calls
<1>3. UpgraderInv' /\ KeeperInv'
    BY DEF UpgraderInv, KeeperInv
<1>4. RunInv'
    BY DEF RunInv, UpgraderInv
<1>5. EndInv'
    BY DEF EndInv, EndReachesOCM, OCMInv, CompletedInv, FailedInv, RunInv, UpgraderInv
<1>6. PostedInv'
    BY DEF PostedInv, SentWasPosted
<1> QED BY <1>2, <1>3, <1>4, <1>5, <1>6

\* NodeKeeperNotifies keeps the invariant.
LEMMA StepNodeKeeperNotifies ==
    ASSUME NotifyInv, NodeKeeperNotifies
    PROVE  NotifyInv'
<1> USE NotificationsAssumption, Orders, Kinds
    DEF NotifyInv, NotifyTypeOK, NodeKeeperNotifies, Send, configVars, runVars, ocmVars, Idle, U, K, Notifiers, Reached
<1>1. FlagsOK'
    BY StepFlags DEF Next
<1>2. NotifyTypeOK'
    BY <1>1 DEF Calls, Events, States
<1>3. UpgraderInv' /\ KeeperInv'
    BY DEF UpgraderInv, KeeperInv
<1>4. RunInv'
    BY DEF RunInv, UpgraderInv
<1>5. EndInv'
    BY DEF EndInv, EndReachesOCM, OCMInv, CompletedInv, FailedInv, RunInv, UpgraderInv
<1>6. PostedInv'
    BY DEF PostedInv, SentWasPosted
<1> QED BY <1>2, <1>3, <1>4, <1>5, <1>6

\* PostServiceLog keeps the invariant.
LEMMA StepPostServiceLog ==
    ASSUME NotifyInv, PostServiceLog
    PROVE  NotifyInv'
<1> USE NotificationsAssumption, Orders, Kinds
    DEF NotifyInv, NotifyTypeOK, PostServiceLog, configVars, runVars, ocmVars, Idle, U, K, Notifiers, Reached
<1>1. FlagsOK'
    BY StepFlags DEF Next
<1>2. NotifyTypeOK'
    BY <1>1 DEF Calls, UpgraderInv
<1>3. UpgraderInv' /\ KeeperInv'
    BY DEF UpgraderInv, KeeperInv
<1>4. RunInv'
    BY DEF RunInv, UpgraderInv
<1>5. EndInv'
    BY DEF EndInv, EndReachesOCM, OCMInv, CompletedInv, FailedInv, RunInv, UpgraderInv
<1>6. PostedInv'
    BY DEF PostedInv, SentWasPosted
<1> QED BY <1>2, <1>3, <1>4, <1>5, <1>6

\* getPolicyIdForUpgradeConfig keeps the invariant.
LEMMA StepgetPolicyIdForUpgradeConfig ==
    ASSUME NotifyInv, NEW n \in Notifiers, getPolicyIdForUpgradeConfig(n)
    PROVE  NotifyInv'
<1> USE NotificationsAssumption, Orders, Kinds
    DEF NotifyInv, NotifyTypeOK, getPolicyIdForUpgradeConfig, configVars, runVars, ocmVars, Idle, U, K, Notifiers, Reached
<1>1. FlagsOK'
    BY StepFlags DEF Next
<1>2. NotifyTypeOK'
    BY <1>1 DEF Calls
<1>3. UpgraderInv' /\ KeeperInv'
    BY DEF UpgraderInv, KeeperInv
<1>4. RunInv'
    BY DEF RunInv, UpgraderInv
<1>5. EndInv'
    BY DEF EndInv, EndReachesOCM, OCMInv, CompletedInv, FailedInv, RunInv, UpgraderInv
<1>6. PostedInv'
    BY DEF PostedInv, SentWasPosted
<1> QED BY <1>2, <1>3, <1>4, <1>5, <1>6

\* NoPolicyFound keeps the invariant.
LEMMA StepNoPolicyFound ==
    ASSUME NotifyInv, NEW n \in Notifiers, NoPolicyFound(n)
    PROVE  NotifyInv'
<1> USE NotificationsAssumption, Orders, Kinds
    DEF NotifyInv, NotifyTypeOK, NoPolicyFound, Fails, RunEnds, configVars, runVars, ocmVars, Idle, U, K, Notifiers, Reached
<1>1. FlagsOK'
    BY StepFlags DEF Next
<1>2. NotifyTypeOK'
    BY <1>1 DEF Calls
<1>3. UpgraderInv' /\ KeeperInv'
    BY DEF UpgraderInv, KeeperInv
<1>4. RunInv'
    BY DEF RunInv, UpgraderInv
<1>5. EndInv'
    BY DEF EndInv, EndReachesOCM, OCMInv, CompletedInv, FailedInv, RunInv, UpgraderInv
<1>6. PostedInv'
    BY DEF PostedInv, SentWasPosted
<1> QED BY <1>2, <1>3, <1>4, <1>5, <1>6

\* CancelPolicy keeps the invariant.
LEMMA StepCancelPolicy ==
    ASSUME NotifyInv, NEW p \in Policies, CancelPolicy(p)
    PROVE  NotifyInv'
<1> USE NotificationsAssumption, Orders, Kinds
    DEF NotifyInv, NotifyTypeOK, CancelPolicy, configVars, runVars, ocmVars, Idle, U, K, Notifiers, Reached
<1>1. FlagsOK'
    BY StepFlags DEF Next
<1>0. Rank["Cancelled"] = 0 /\ Rank["Scheduled"] = 0
    BY Ranks DEF OCMStates
<1>2. NotifyTypeOK'
    BY <1>1 DEF Calls
<1>3. UpgraderInv' /\ KeeperInv'
    BY <1>0 DEF UpgraderInv, KeeperInv
<1>4. RunInv'
    BY DEF RunInv, UpgraderInv
<1>5. EndInv'
    <2>1. EndReachesOCM' /\ CompletedInv' /\ FailedInv'
        BY DEF EndInv, EndReachesOCM, CompletedInv, FailedInv
    <2>2. OCMInv'
        BY <1>0 DEF EndInv, OCMInv, RunInv
    <2> QED BY <2>1, <2>2 DEF EndInv
<1>6. PostedInv'
    BY DEF PostedInv, SentWasPosted
<1> QED BY <1>2, <1>3, <1>4, <1>5, <1>6

\* NotifyState keeps the invariant: an end that is dropped, after OCM was told of the start,
\* is one that OCM has.
LEMMA StepNotifyState ==
    ASSUME NotifyInv, NEW n \in Notifiers, NotifyState(n)
    PROVE  NotifyInv'
<1> USE NotificationsAssumption, Orders, Kinds
    DEF NotifyInv, NotifyTypeOK, NotifyState, configVars, ocmVars, Idle, U, K, Notifiers, Reached
<1> DEFINE e == call[n].event  f == ocm[call[n].policy]
<1>1. FlagsOK'
    BY StepFlags DEF Next
<1>2. e \in Events /\ f \in OCMStates /\ call[n].policy \in Policies /\ call[n] \in Calls
    BY DEF UpgraderInv, KeeperInv, Calls, OCMStates, Events, States
<1>3. CASE IsValid(n) /\ call' = [call EXCEPT ![n].pc = "valid"] /\ UNCHANGED <<gauge, at>>
    <2>1. /\ e \in States /\ (IF e = "Started" THEN Rank[f] = 0 ELSE Rank[f] \in {1, 2})
          /\ e = "DrainDelayed" => Rank[f] > 0
        BY <1>2, <1>3, Transitions DEF IsValid, validateStateTransition
    <2>2. NotifyTypeOK'
        BY <1>1, <1>2, <1>3 DEF Calls
    <2>3. UpgraderInv' /\ KeeperInv'
        BY <1>2, <1>3, <2>1 DEF UpgraderInv, KeeperInv
    <2>4. RunInv' /\ EndInv' /\ PostedInv'
        BY <1>2, <1>3 DEF RunInv, EndInv, EndReachesOCM, OCMInv, CompletedInv, FailedInv, PostedInv, SentWasPosted
    <2> QED BY <2>2, <2>3, <2>4
<1>4. CASE n = "nodekeeper" /\ ~IsValid(n) /\ Sent(n)
    <2>1. gauge' = gauge \cup {"Delayed"} /\ at' = at /\ U' = U /\ K' = Idle /\ call' \in [Notifiers -> Calls]
        BY <1>2, <1>4 DEF Sent, Label, KeeperInv, Calls
    <2>2. NotifyTypeOK'
        BY <1>1, <2>1 DEF Events, States
    <2>3. UpgraderInv' /\ KeeperInv' /\ RunInv'
        BY <2>1 DEF UpgraderInv, KeeperInv, RunInv
    <2>4. EndInv'
        BY <2>1 DEF EndInv, EndReachesOCM, OCMInv, CompletedInv, FailedInv
    <2>5. PostedInv'
        BY <2>1 DEF PostedInv, SentWasPosted, ServiceLogs
    <2> QED BY <2>2, <2>3, <2>4, <2>5
<1>5. CASE n = "upgrader" /\ ~IsValid(n) /\ Sent(n)
    <2>1. /\ gauge' = gauge \cup {Label(e)} /\ at' = Order[e] /\ U' = Idle /\ K' = K
          /\ call' \in [Notifiers -> Calls]
        BY <1>2, <1>5 DEF Sent, Acknowledge, Calls
    <2>2. e \in {"Completed", "Failed"} => Rank[f] \in {0, 3}
        BY <1>2, <1>5, Transitions DEF IsValid, validateStateTransition
    <2>3. Label(e) \in Events /\ (Label(e) # "Delayed" => Label(e) = e) /\ e \in EventsOf[run] /\ e = U.event
        BY <1>2, <1>5 DEF Label, Events, States, UpgraderInv
    <2>4. NotifyTypeOK'
        BY <1>1, <1>2, <2>1, <2>3
    <2>5. UpgraderInv' /\ KeeperInv' /\ RunInv'
        BY <2>1 DEF UpgraderInv, KeeperInv, RunInv
    <2>6. EndReachesOCM' /\ OCMInv'
        BY <1>5, <2>1 DEF EndInv, EndReachesOCM, OCMInv
    <2>7. CompletedInv'
        <3>1. ASSUME e = "Completed", "Started" \in accepted PROVE "Completed" \in accepted
            BY <1>2, <1>5, <2>2, <3>1, Ranks DEF EndInv, OCMInv, CompletedInv, UpgraderInv
        <3> QED BY <1>2, <1>5, <2>1, <2>3, <3>1 DEF EndInv, CompletedInv, UpgraderInv
    <2>8. FailedInv'
        <3>1. ASSUME e = "Failed", "Started" \in accepted, ~stale PROVE "Failed" \in accepted
            BY <1>2, <1>5, <2>2, <2>3, <3>1, Ranks DEF EndInv, OCMInv, UpgraderInv, RunInv
        <3> QED BY <1>2, <1>5, <2>1, <2>3, <3>1 DEF EndInv, FailedInv, RunInv
    <2>9. PostedInv'
        BY <1>2, <1>5, <2>1, <2>3 DEF PostedInv, SentWasPosted, ServiceLogs, Label
    <2> QED BY <2>4, <2>5, <2>6, <2>7, <2>8, <2>9 DEF EndInv
<1> QED BY <1>3, <1>4, <1>5

\* What OCM may have come to hold when it was sent a state by the controller's notifier.  Failed is
\* taken, for a policy whose start was taken, only when the upgrade fails; and Started is the first.
UpgraderTook ==
    /\ ocm' \in [Policies -> OCMStates] /\ accepted' \subseteq States /\ accepted \subseteq accepted'
    /\ \A p \in Policies : Rank[ocm[p]] > 0 => Rank[ocm'[p]] > 0
    /\ uc = NoConfig => accepted' = {}
    /\ accepted' # {} => Rank[ocm'[uc]] > 0
    /\ "Started" \in accepted' =>
        /\ ocm'[uc] = "Completed" => "Completed" \in accepted'
        /\ ocm'[uc] = "Failed" => "Failed" \in accepted'
        /\ "Completed" \in accepted' => commenced
        /\ "Failed" \in accepted' => phase \in {"Expired", "Failed"} /\ ~commenced /\ run \in {"none", "failing"}
        /\ ~(run = "failing" /\ stale)
    /\ "Started" \in accepted' \ accepted => run = "upgrading" /\ ~commenced

\* And by the NodeKeeper's: a delay, for a policy that has started.
KeeperTook ==
    /\ ocm' \in [Policies -> OCMStates] /\ accepted' \subseteq States
    /\ accepted' \in {accepted, accepted \cup {"DrainDelayed"}}
    /\ \A p \in Policies : Rank[ocm[p]] = 0 => Rank[ocm'[p]] = 0
    /\ \A p \in Policies : Rank[ocm[p]] > 0 => Rank[ocm'[p]] > 0
    /\ \A p \in Policies : Rank[ocm[p]] \in {1, 2} => Rank[ocm'[p]] \in {1, 2}
    /\ \A p \in Policies : ocm'[p] \in {"Completed", "Failed"} => ocm'[p] = ocm[p]
    /\ uc = NoConfig => accepted' = {}
    /\ accepted' # {} => Rank[ocm'[uc]] > 0

\* OCM takes a state from the controller's notifier.
LEMMA UpgraderTakes ==
    ASSUME NotifyInv, U.pc = "valid", Takes("upgrader"), UNCHANGED uc
    PROVE  UpgraderTook /\ (U.policy = uc => U.event \in accepted')
<1> USE NotificationsAssumption, Kinds DEF NotifyInv, NotifyTypeOK, Takes, Idle, U, K, Notifiers, Reached, UpgraderTook
<1> DEFINE e == U.event
<1>0. e \in States /\ e \in EventsOf[run] /\ U.policy \in Policies
    BY DEF UpgraderInv
<1>1. /\ e \in States /\ e \in EventsOf[run] /\ U.policy \in Policies /\ Rank[e] > 0
      /\ ocm'[U.policy] = e /\ \A p \in Policies \ {U.policy} : ocm'[p] = ocm[p]
    <2>1. e \in OCMStates /\ e \notin {"Scheduled", "Cancelled"}
        BY <1>0 DEF OCMStates, States
    <2>2. Rank[e] > 0
        BY <2>1, Ranks
    <2> QED BY <1>0, <2>2
<1>2. ocm' \in [Policies -> OCMStates] /\ accepted' \subseteq States /\ accepted \subseteq accepted'
    BY <1>1 DEF OCMStates
<1>3. uc = NoConfig => accepted' = {}
    BY <1>1 DEF RunInv
<1>4. \A p \in Policies : Rank[ocm[p]] > 0 => Rank[ocm'[p]] > 0
    BY <1>1
<1>5. accepted' # {} => uc \in Policies /\ Rank[ocm'[uc]] > 0
    BY <1>1, <1>3 DEF EndInv, OCMInv
<1>6. CASE U.policy # uc
    BY <1>1, <1>2, <1>3, <1>4, <1>5, <1>6 DEF EndInv, OCMInv
<1>7. CASE U.policy = uc /\ e = "Started"
    <2>1. accepted = {} /\ accepted' = {"Started"} /\ ocm'[uc] = "Started"
        BY <1>1, <1>7 DEF UpgraderInv, EndInv, OCMInv
    <2> QED BY <1>1, <1>2, <1>3, <1>4, <1>5, <1>7, <2>1 DEF UpgraderInv
<1>8. CASE U.policy = uc /\ e # "Started"
    <2>1. accepted' = accepted \cup {e} /\ ocm'[uc] = e
        BY <1>1, <1>8
    <2>2. ASSUME "Started" \in accepted, e = "Failed" PROVE phase = "Expired" /\ ~commenced /\ run = "failing" /\ ~stale
        BY <1>1, <2>2 DEF EndInv, OCMInv, RunInv
    <2>3. ASSUME e = "Completed" PROVE commenced
        BY <2>3 DEF UpgraderInv
    <2> QED BY <1>1, <1>2, <1>3, <1>4, <1>5, <1>8, <2>1, <2>2, <2>3 DEF EndInv, OCMInv
<1> QED BY <1>6, <1>7, <1>8

\* OCM takes a state from the NodeKeeper's notifier.
LEMMA KeeperTakes ==
    ASSUME NotifyInv, K.pc = "valid", Takes("nodekeeper"), UNCHANGED uc
    PROVE  KeeperTook
<1> USE NotificationsAssumption DEF NotifyInv, NotifyTypeOK, Takes, Idle, U, K, Notifiers, Reached, KeeperTook
<1>1. K.event = "DrainDelayed" /\ K.policy \in Policies /\ Rank[ocm[K.policy]] > 0 /\ Rank["DrainDelayed"] = 2
    BY Ranks DEF KeeperInv, OCMStates, States
<1>2. ocm'[K.policy] = "DrainDelayed" /\ \A p \in Policies \ {K.policy} : ocm'[p] = ocm[p]
    BY <1>1
<1>3. ocm' \in [Policies -> OCMStates] /\ accepted' \in {accepted, accepted \cup {"DrainDelayed"}} /\ accepted' \subseteq States
    BY <1>1 DEF OCMStates, States
<1>4. uc = NoConfig => accepted' = {}
    BY <1>1 DEF RunInv
<1> QED BY <1>1, <1>2, <1>3, <1>4 DEF EndInv, OCMInv

\* Or it takes none.
LEMMA NoneTaken ==
    ASSUME NotifyInv, UNCHANGED <<uc, ocm, accepted>>
    PROVE  UpgraderTook /\ KeeperTook
<1>1. /\ ocm \in [Policies -> OCMStates] /\ accepted \subseteq States /\ ocm' = ocm /\ accepted' = accepted
      /\ (uc = NoConfig => accepted = {}) /\ OCMInv
    BY DEF NotifyInv, NotifyTypeOK, RunInv, EndInv, OCMStates
<1> QED BY <1>1 DEF OCMInv, UpgraderTook, KeeperTook

\* What no Notify changes.
Steady == UNCHANGED <<uc, phase, deletions, commenced, scraped, notifications>>

\* A Notify of the NodeKeeper that ends, well or not, keeps the invariant.
LEMMA KeeperDone ==
    ASSUME NotifyInv, FlagsOK', Steady, KeeperTook, UNCHANGED <<run, at, stale, posted>>,
           U' = U, K' = Idle, call' \in [Notifiers -> Calls],
           gauge' \in {gauge, gauge \cup {"Delayed"}}, notifyFaults' \in 0..MaxNotifyFaults
    PROVE  NotifyInv'
<1> USE DEF NotifyInv, Steady
<1>1. NotifyTypeOK'
    BY DEF NotifyTypeOK, KeeperTook, OCMStates, Events, States
<1>2. UpgraderInv'
    BY DEF UpgraderInv, KeeperTook, Reached
<1>3. KeeperInv'
    BY DEF KeeperInv, Idle, Reached
<1>4. RunInv'
    BY DEF RunInv, KeeperTook
<1>5. EndReachesOCM' /\ OCMInv'
    <2>1. uc # NoConfig => uc \in Policies
        BY DEF NotifyTypeOK
    <2>2. \A s \in {"Started", "Completed", "Failed"} : s \in accepted' <=> s \in accepted
        BY DEF KeeperTook
    <2> QED BY <2>1, <2>2 DEF EndInv, EndReachesOCM, OCMInv, KeeperTook
<1>6. CompletedInv'
    BY DEF EndInv, CompletedInv, KeeperTook
<1>7. FailedInv'
    BY DEF EndInv, FailedInv, KeeperTook
<1>8. PostedInv'
    BY DEF PostedInv, SentWasPosted, ServiceLogs
<1> QED BY <1>1, <1>2, <1>3, <1>4, <1>5, <1>6, <1>7, <1>8 DEF EndInv

\* A Notify of the controller that fails keeps the invariant.
LEMMA UpgraderFails ==
    ASSUME NotifyInv, FlagsOK', Steady, UpgraderTook,
           U' = Idle, K' = K, call' \in [Notifiers -> Calls], gauge' = gauge, notifyFaults' \in 0..MaxNotifyFaults,
           posted \subseteq posted', posted' \subseteq ServiceLogs,
           at < Order[U.event], U.event \in EventsOf[run], run # "none",
           UNCHANGED <<run, at, stale>> \/ (run' = "none" /\ at' = 0 /\ stale' = FALSE)
    PROVE  NotifyInv'
<1> USE DEF NotifyInv, Steady
<1>0. U'.pc = "idle" /\ U'.event = "none"
    BY DEF Idle
<1>1. NotifyTypeOK'
    BY DEF NotifyTypeOK, UpgraderTook, OCMStates
<1>2. UpgraderInv'
    BY <1>0 DEF UpgraderInv, Reached
<1>3. KeeperInv'
    BY DEF KeeperInv, UpgraderTook, Reached
<1>4. RunInv'
    BY DEF RunInv, UpgraderTook
<1>5. EndReachesOCM' /\ OCMInv'
    BY DEF EndInv, EndReachesOCM, OCMInv, UpgraderTook, RunInv
<1>6. CompletedInv'
    BY <1>0, Orders DEF EndInv, CompletedInv, UpgraderTook
<1>7. FailedInv'
    <2>1. ~(run = "failing" /\ at = Order["Failed"])
        BY Kinds, Orders DEF NotifyTypeOK
    <2>2. ~(run' = "failing" /\ at' = Order["Failed"])
        BY <2>1
    <2> QED BY <2>1, <2>2 DEF EndInv, FailedInv, UpgraderTook
<1>8. PostedInv'
    <2>1. Order["ControlPlaneStartedSL"] = 5
        BY Orders
    <2> QED BY <1>0, <2>1 DEF PostedInv, SentWasPosted, Reached
<1> QED BY <1>1, <1>2, <1>3, <1>4, <1>5, <1>6, <1>7, <1>8 DEF EndInv

\* SetState keeps the invariant.
LEMMA StepSetState ==
    ASSUME NotifyInv, NEW n \in Notifiers, SetState(n)
    PROVE  NotifyInv'
<1>1. FlagsOK'
    BY StepFlags DEF Next, NotifyInv, NotifyTypeOK
<1>2. Steady /\ UNCHANGED <<run, stale, posted, notifyFaults>>
    BY DEF SetState, configVars, Steady
<1>t. call \in [Notifiers -> Calls] /\ notifyFaults \in 0..MaxNotifyFaults
    BY DEF NotifyInv, NotifyTypeOK
<1>3. CASE n = "nodekeeper"
    <2>1. K.pc = "valid" /\ K.event = "DrainDelayed" /\ Takes("nodekeeper")
        BY <1>3 DEF SetState, K, NotifyInv, KeeperInv
    <2>2. gauge' = gauge \cup {"Delayed"} /\ at' = at /\ U' = U /\ K' = Idle /\ call' \in [Notifiers -> Calls]
        BY <1>3, <1>t, <2>1 DEF SetState, Sent, Label, Calls, Notifiers, U, K, Idle
    <2>3. KeeperTook
        BY <1>2, <2>1, KeeperTakes DEF Steady
    <2> QED BY <1>1, <1>2, <1>t, <2>2, <2>3, KeeperDone
<1>4. CASE n = "upgrader"
    <2> DEFINE e == U.event
    <2>1. U.pc = "valid" /\ Takes("upgrader")
        BY <1>4 DEF SetState, U
    <2>2. /\ gauge' = gauge \cup {Label(e)} /\ at' = Order[e] /\ U' = Idle /\ K' = K
          /\ call' \in [Notifiers -> Calls]
        BY <1>4, <1>t DEF SetState, Sent, Acknowledge, Calls, Notifiers, U, K, Idle
    <2>3. UpgraderTook /\ (U.policy = uc => e \in accepted')
        BY <1>2, <2>1, UpgraderTakes DEF Steady
    <2>4. /\ e \in States /\ e \in EventsOf[run] /\ at < Order[e] /\ (~stale => U.policy = uc)
          /\ (e = "Completed" => commenced)
        BY <2>1 DEF NotifyInv, UpgraderInv, Reached
    <2>5. e \in Events /\ Label(e) \in Events /\ (Label(e) # "Delayed" => Label(e) = e) /\ Label(e) \notin ServiceLogs
        BY <2>4 DEF Label, Events, States, ServiceLogs
    <2>6. U'.pc = "idle" /\ U'.event = "none"
        BY <2>2 DEF Idle
    <2> HIDE DEF e
    <2> USE <1>2 DEF NotifyInv, Steady
    <2>7. NotifyTypeOK'
        BY <1>1, <2>2, <2>3, <2>5, Orders DEF NotifyTypeOK, UpgraderTook, OCMStates
    <2>8. UpgraderInv'
        BY <2>2, <2>6 DEF UpgraderInv, Reached
    <2>9. KeeperInv'
        BY <2>2, <2>3 DEF KeeperInv, UpgraderTook, Reached
    <2>10. RunInv'
        BY <2>3 DEF RunInv, UpgraderTook
    <2>11. EndReachesOCM' /\ OCMInv'
        BY <2>3 DEF EndInv, EndReachesOCM, OCMInv, UpgraderTook, RunInv
    <2>12. CompletedInv'
        <3>1. e = "Completed" => commenced /\ ("Started" \in accepted' => "Completed" \in accepted')
            <4>1. e = "Completed" /\ U.policy # uc => "Started" \notin accepted
                BY <2>1 DEF EndInv, CompletedInv, Reached, e
            <4> QED BY <2>3, <2>4, <4>1 DEF UpgraderTook
        <3>2. "Completed" \in gauge' => "Completed" \in gauge \/ e = "Completed"
            BY <2>2, <2>5
        <3>3. at' = Order["Completed"] => e = "Completed"
            BY <2>2, <2>5, Orders
        <3> QED BY <2>3, <2>6, <3>1, <3>2, <3>3 DEF EndInv, CompletedInv, UpgraderTook
    <2>13. FailedInv'
        <3>1. ~(run = "failing" /\ at = Order["Failed"]) /\ (run = "failing" => e = "Failed") /\ (e = "Failed" => run = "failing")
            BY <2>4, Kinds, Orders DEF NotifyTypeOK
        <3>2. e = "Failed" /\ ~stale => "Failed" \in accepted'
            BY <2>3, <2>4
        <3>3. "Failed" \in gauge' => "Failed" \in gauge \/ e = "Failed"
            BY <2>2, <2>5
        <3> QED BY <2>2, <2>3, <3>1, <3>2, <3>3 DEF EndInv, FailedInv, UpgraderTook
    <2>14. PostedInv'
        <3>1. e # "ControlPlaneStartedSL"
            BY <2>4 DEF States
        <3>2. at' # Order["ControlPlaneStartedSL"]
            BY <2>2, <2>5, <3>1, Orders
        <3> QED BY <2>2, <2>5, <2>6, <3>2 DEF PostedInv, SentWasPosted
    <2> QED BY <2>7, <2>8, <2>9, <2>10, <2>11, <2>12, <2>13, <2>14 DEF EndInv
<1> QED BY <1>3, <1>4 DEF Notifiers

\* NotifyFails keeps the invariant: what is not marked as sent is sent again.
LEMMA StepNotifyFails ==
    ASSUME NotifyInv, NEW n \in Notifiers, NotifyFails(n)
    PROVE  NotifyInv'
<1>1. FlagsOK'
    BY StepFlags DEF Next, NotifyInv, NotifyTypeOK
<1>2. Steady /\ gauge' = gauge /\ notifyFaults' \in 0..MaxNotifyFaults
    BY NotificationsAssumption DEF NotifyFails, Fails, configVars, Steady, NotifyInv, NotifyTypeOK
<1>t. call \in [Notifiers -> Calls] /\ posted \subseteq ServiceLogs
    BY DEF NotifyInv, NotifyTypeOK
<1>3. CASE n = "nodekeeper"
    <2>1. UNCHANGED <<run, at, stale>> /\ U' = U /\ K' = Idle /\ call' \in [Notifiers -> Calls]
        BY <1>3, <1>t DEF NotifyFails, Fails, Calls, Notifiers, U, K, Idle
    <2>2. K.event \notin ServiceLogs /\ K = call[n]
        BY <1>3 DEF NotifyFails, NotifyInv, KeeperInv, ServiceLogs, K
    <2>3. posted' = posted /\ (UNCHANGED <<ocm, accepted>> \/ (K.pc = "valid" /\ Takes("nodekeeper")))
        BY <1>3, <2>2 DEF NotifyFails, ocmVars
    <2>4. KeeperTook
        BY <1>2, <2>3, KeeperTakes, NoneTaken DEF Steady
    <2> QED BY <1>1, <1>2, <2>1, <2>3, <2>4, KeeperDone
<1>4. CASE n = "upgrader"
    <2>1. U' = Idle /\ K' = K /\ call' \in [Notifiers -> Calls] /\ U = call[n]
        BY <1>4, <1>t DEF NotifyFails, Fails, Calls, Notifiers, U, K, Idle
    <2>2. UNCHANGED <<run, at, stale>> \/ (run' = "none" /\ at' = 0 /\ stale' = FALSE)
        BY DEF NotifyFails, Fails, RunEnds
    <2>3. U.event \in EventsOf[run] /\ at < Order[U.event] /\ run # "none"
        BY <2>1, Kinds DEF NotifyFails, NotifyInv, UpgraderInv
    <2>4. /\ posted \subseteq posted' /\ posted' \subseteq ServiceLogs
          /\ UNCHANGED <<ocm, accepted>> \/ (U.pc = "valid" /\ Takes("upgrader"))
        BY <1>4, <1>t, <2>1 DEF NotifyFails, ocmVars
    <2>5. UpgraderTook
        BY <1>2, <2>4, UpgraderTakes, NoneTaken DEF Steady
    <2> QED BY <1>1, <1>2, <2>1, <2>2, <2>3, <2>4, <2>5, UpgraderFails
<1> QED BY <1>3, <1>4 DEF Notifiers

--------------------------------------------------------------------------------

\* The invariant holds in every reachable state.
THEOREM NotifyInvariant == Spec => []NotifyInv
<1>1. NotifyInv /\ Next => NotifyInv'
    BY StepNotify, StepNodeKeeperReads, StepNodeKeeperNotifies, StepPostServiceLog, StepgetPolicyIdForUpgradeConfig,
       StepNotifyState, StepSetState, StepNoPolicyFound, StepNotifyFails, StepReconcile, StepHealthCheckEnds,
       StepStartUpgrade, StepStepWaits, StepCommenceUpgrade, StepCompleteUpgrade, StepFailUpgrade, StepWindowPasses,
       StepDeleteUpgradeConfig, StepCreateUpgradeConfig, StepCancelPolicy, StepRestart, StepScrape
       DEF Next
<1>2. ASSUME NotifyInv, UNCHANGED vars PROVE NotifyInv'
    <2> USE <1>2 DEF vars, configVars, runVars, ocmVars, NotifyInv
    <2>1. U' = U /\ K' = K
        BY DEF U, K
    <2>2. NotifyTypeOK'
        BY DEF NotifyTypeOK, FlagsOK
    <2>3. UpgraderInv' /\ KeeperInv'
        BY <2>1 DEF UpgraderInv, KeeperInv
    <2>4. RunInv'
        BY DEF RunInv
    <2>5. EndReachesOCM' /\ OCMInv'
        BY DEF EndInv, EndReachesOCM, OCMInv
    <2>6. CompletedInv' /\ FailedInv'
        BY <2>1 DEF EndInv, CompletedInv, FailedInv
    <2>7. PostedInv'
        BY <2>1 DEF PostedInv, SentWasPosted
    <2> QED BY <2>2, <2>3, <2>4, <2>5, <2>6, <2>7 DEF EndInv
<1> QED BY InitNotify, <1>1, <1>2, PTL DEF Spec

\* With the feature gate on, a service log is marked as sent, in memory or in Prometheus, only
\* once it was posted; and the cluster commences its upgrade only once the log of its start was.
THEOREM PostedBeforeSent == Spec => []SentWasPosted
<1>1. NotifyInv => SentWasPosted
    BY DEF NotifyInv, PostedInv
<1> QED BY <1>1, NotifyInvariant, PTL

\* An upgrade ends for the operator only after a Notify of its end was sent or was found sent.  If
\* OCM has taken its start, that Notify set the state or found the policy at this end.
THEOREM EndIsTold == Spec => []EndReachesOCM
<1>1. NotifyInv => EndReachesOCM
    BY DEF NotifyInv, EndInv
<1> QED BY <1>1, NotifyInvariant, PTL

\* A transition that was found valid still moves the policy on when its state is set, whatever
\* the other notifier has set in between; but for the NodeKeeper's, which is a delay all the same.
THEOREM StatesMoveOn == Spec => OCMMovesOn
<1> DEFINE Moves(p) ==
        \/ ocm'[p] \in {ocm[p], "Cancelled"}
        \/ Rank[ocm'[p]] > Rank[ocm[p]]
        \/ Rank[ocm'[p]] = 2 /\ Rank[ocm[p]] = 2
        \/ ocm'[p] = "DrainDelayed" /\ call["nodekeeper"].pc = "valid" /\ call["nodekeeper"].policy = p
           /\ Rank[ocm[p]] > 0
<1>1. ASSUME NotifyInv, Next, NEW p \in Policies PROVE Moves(p)
    <2> USE <1>1 DEF NotifyInv, NotifyTypeOK
    <2>1. ASSUME NEW n \in Notifiers, call[n].pc = "valid", Takes(n) PROVE Moves(p)
        <3>1. CASE n = "nodekeeper"
            BY <2>1, <3>1 DEF Takes, KeeperInv, K, Reached
        <3>2. CASE n = "upgrader"
            <4>1. /\ U.event \in OCMStates /\ U.event \notin {"Scheduled", "Cancelled"} /\ U.policy \in Policies
                  /\ ocm[U.policy] \in OCMStates /\ U = call[n]
                BY <2>1, <3>2 DEF UpgraderInv, Reached, U, OCMStates, States
            <4>2. Rank[ocm[U.policy]] < Rank[U.event] \/ (Rank[ocm[U.policy]] = 2 /\ Rank[U.event] = 2)
                <5>1. IF U.event = "Started" THEN Rank[ocm[U.policy]] = 0 ELSE Rank[ocm[U.policy]] \in {1, 2}
                    BY <2>1, <4>1 DEF UpgraderInv
                <5>2. Rank[U.event] \in {1, 2, 3} /\ (Rank[U.event] = 1 <=> U.event = "Started")
                    BY <4>1, Ranks
                <5> QED BY <5>1, <5>2
            <4> QED BY <2>1, <4>1, <4>2 DEF Takes
        <3> QED BY <3>1, <3>2 DEF Notifiers
    <2>2. ASSUME NEW q \in Policies, CancelPolicy(q) PROVE Moves(p)
        BY <2>2 DEF CancelPolicy
    <2>3. CASE UNCHANGED ocm
        BY <2>3
    <2>4. ASSUME NEW n \in Notifiers, SetState(n) \/ NotifyFails(n) PROVE Moves(p)
        BY <2>1, <2>3, <2>4 DEF SetState, NotifyFails, ocmVars
    <2>5. ASSUME NEW n \in Notifiers, getPolicyIdForUpgradeConfig(n) \/ NotifyState(n) \/ NoPolicyFound(n) PROVE UNCHANGED ocm
        BY <2>5 DEF getPolicyIdForUpgradeConfig, NotifyState, NoPolicyFound, ocmVars
    <2>6. ASSUME NEW e \in Sends, Notify(e) PROVE UNCHANGED ocm
        BY <2>6 DEF Notify, ocmVars
    <2> QED BY <2>2, <2>3, <2>4, <2>5, <2>6
            DEF Next, NodeKeeperReads, NodeKeeperNotifies, PostServiceLog, Reconcile, HealthCheckEnds, StartUpgrade,
                StepWaits, Ends, CommenceUpgrade, CompleteUpgrade, FailUpgrade, WindowPasses, DeleteUpgradeConfig,
                CreateUpgradeConfig, Restart, Scrape, ocmVars
<1>2. ASSUME UNCHANGED vars, NEW p \in Policies PROVE Moves(p)
    BY <1>2 DEF vars, ocmVars
<1>3. NotifyInv /\ [Next]_vars => \A p \in Policies : Moves(p)
    BY <1>1, <1>2
<1> QED BY <1>3, NotifyInvariant, PTL DEF Spec, OCMMovesOn

================================================================================
