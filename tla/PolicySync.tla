----------------------------- MODULE PolicySync -----------------------------
(***************************************************************************)
(* The loop that keeps the UpgradeConfig in step with the specification    *)
(* provider, the Refresh that Reconcile makes before an upgrade begins,    *)
(* and the two providers: OCM with its upgrade policies, and LOCAL, for    *)
(* which the UpgradeConfig on the cluster is the policy.  The two          *)
(* Refreshes interleave at their calls.                                    *)
(***************************************************************************)
EXTENDS Integers, FiniteSets, SequencesExt

CONSTANTS
    Sources,       \* what configManager.source may be: "OCM", "LOCAL"
    MaxPolicies,   \* bound: the upgrade policies OCM has at once
    States,        \* what their states may be
    Times,         \* when they may be due
    Releases,      \* minor versions
    ChannelGroup,  \* the channel group of the cluster in OCM
    WatchInterval, \* configManager.watchInterval, in minutes
    MaxWait,       \* the longest back-off, in minutes
    MaxFaults      \* bound: calls that fail

Nil == [version |-> 0]

ASSUME SyncAssumption ==
    /\ Sources \subseteq {"OCM", "LOCAL"}
    /\ States \subseteq {"pending", "scheduled", "started", "completed", "cancelled"}
    /\ MaxPolicies \in Nat /\ Times \subseteq Nat
    /\ Releases \subseteq Nat \ {0}
    /\ WatchInterval \in Nat \ {0} /\ MaxWait \in Nat \ {0} /\ MaxFaults \in Nat

Policies == [next : Times, version : Releases \cup {0}, state : States]

Refreshers == {"loop", "reconciler"}

VARIABLES
    source,    \* configManager.source
    policies,  \* the upgrade policies of the cluster in OCM, as OCM lists them
    uc,        \* the UpgradeConfig: its specification and the phase in its history
    at,        \* where StartSync is, and the Refresh of Reconcile
    seen,      \* per Refresh, the UpgradeConfig it found on the cluster
    answer,    \* per Refresh, the policy, then the specification, it goes on with
    wait,      \* what the timer of StartSync was set to, without the jitter
    attempt,   \* the counter of the back-off
    failed,    \* history variable: Refreshes of the loop that failed since one did not
    faults

vars == <<source, policies, uc, at, seen, answer, wait, attempt, failed, faults>>
loopVars == <<wait, attempt, failed>>
world == <<source, policies>>

--------------------------------------------------------------------------------
\* The OCM provider.

\* Of the policies that run first the one that is listed first.
getNextOccurringUpgradePolicy(ps) ==
    CHOOSE i \in DOMAIN ps :
        \A j \in DOMAIN ps : ps[i].next < ps[j].next \/ (ps[i].next = ps[j].next /\ i <= j)

\* Faulty variant: a cancelled policy is as good as any.
ActionableCancelled(p, state) == state \notin {"pending", "completed"} /\ p.version # 0

isActionableUpgradePolicy(p, state) ==
    state \notin {"pending", "completed", "cancelled"} /\ p.version # 0

\* Channels of the group eus are those of even minor versions.
inferUpgradeChannelFromChannelGroup(group, minor) ==
    [group |-> IF group = "" THEN "stable" ELSE group,
     minor |-> IF group = "eus" /\ minor % 2 # 0 THEN minor + 1 ELSE minor]

buildUpgradeConfigSpecs(p) ==
    [version |-> p.version, at |-> p.next,
     channel |-> inferUpgradeChannelFromChannelGroup(ChannelGroup, p.version)]

Specs == {buildUpgradeConfigSpecs(p) : p \in {q \in Policies : q.version # 0}}

NoUC == [spec |-> Nil, phase |-> "none"]

Init ==
    /\ source \in Sources
    /\ policies \in IF source = "OCM" THEN BoundedSeq(Policies, MaxPolicies) ELSE {<<>>}
    /\ uc \in {NoUC} \cup [spec : Specs, phase : {"none", "Pending", "Upgrading"}]
    /\ at = [loop |-> "start", reconciler |-> "idle"]
    /\ seen = [r \in Refreshers |-> NoUC] /\ answer = [r \in Refreshers |-> Nil]
    /\ wait = 1 /\ attempt = 0 /\ failed = 0 /\ faults = 0

--------------------------------------------------------------------------------
\* StartSync.

Goto(r, place) == at' = [at EXCEPT ![r] = place]

\* The metrics client looks up its service and its token; without it there is no loop.
NewClient ==
    /\ at["loop"] = "start" /\ Goto("loop", "config")
    /\ UNCHANGED <<world, uc, seen, answer, loopVars, faults>>

NewClientFails ==
    /\ at["loop"] = "start" /\ faults < MaxFaults /\ faults' = faults + 1
    /\ Goto("loop", "ended")
    /\ UNCHANGED <<world, uc, seen, answer, loopVars>>

\* The configuration is read until there is a valid one.
readConfigManagerConfig ==
    /\ at["loop"] = "config" /\ Goto("loop", "wait")
    /\ UNCHANGED <<world, uc, seen, answer, loopVars, faults>>

ConfigFails ==
    /\ at["loop"] = "config" /\ faults < MaxFaults /\ faults' = faults + 1
    /\ UNCHANGED <<world, uc, at, seen, answer, loopVars>>

\* The back-off doubles until it is the longest.
Doubles(n) == 2^n < MaxWait

Doubled(n) == IF Doubles(n) THEN 2^n ELSE MaxWait

\* Counted until the wait is the longest.
OneMore(n) == IF Doubles(n) THEN n + 1 ELSE n

\* Refresh returns, to the loop or to Reconcile.
Return(r, place) ==
    /\ Goto(r, IF r = "loop" THEN "wait" ELSE place)
    /\ seen' = [seen EXCEPT ![r] = NoUC] /\ answer' = [answer EXCEPT ![r] = Nil]

\* Faulty variant: the counter is not reset.
SucceededNoReset(r, place) ==
    /\ Return(r, place)
    /\ IF r = "loop" THEN wait' = WatchInterval /\ failed' = 0 /\ UNCHANGED attempt
       ELSE UNCHANGED loopVars
    /\ UNCHANGED faults

\* Refresh returns without an error.
Succeeded(r, place) ==
    /\ Return(r, place)
    /\ IF r = "loop" THEN wait' = WatchInterval /\ attempt' = 0 /\ failed' = 0
       ELSE UNCHANGED loopVars
    /\ UNCHANGED faults

\* Refresh returns an error.
Failed(r) ==
    /\ Return(r, "idle")
    /\ IF r = "loop"
       THEN wait' = Doubled(attempt) /\ attempt' = OneMore(attempt) /\ failed' = OneMore(failed)
       ELSE UNCHANGED loopVars

\* The timer fires.  The first call of Refresh: the UpgradeConfig on the cluster.
StartRefresh ==
    /\ at["loop"] = "wait"
    /\ seen' = [seen EXCEPT !["loop"] = uc] /\ Goto("loop", "list")
    /\ UNCHANGED <<world, uc, answer, loopVars, faults>>

--------------------------------------------------------------------------------
\* Reconcile.

\* The time of a Pending upgrade has come.
ReconcileReady ==
    /\ at["reconciler"] = "idle" /\ uc.phase = "Pending"
    /\ Goto("reconciler", "get")
    /\ UNCHANGED <<world, uc, seen, answer, loopVars, faults>>

RefreshGet ==
    /\ at["reconciler"] = "get"
    /\ seen' = [seen EXCEPT !["reconciler"] = uc] /\ Goto("reconciler", "list")
    /\ UNCHANGED <<world, uc, answer, loopVars, faults>>

\* The remote has not changed: the upgrade begins, unless the UpgradeConfig was removed
\* since.  One that replaced it has no history as long as this reconcile lasts.
ReconcileStart ==
    /\ at["reconciler"] = "begin"
    /\ uc' = IF uc.phase = "Pending" THEN [uc EXCEPT !.phase = "Upgrading"] ELSE uc
    /\ Goto("reconciler", "idle")
    /\ UNCHANGED <<world, seen, answer, loopVars, faults>>

\* An UpgradeConfig gets a history, and the upgrade comes to its end.
Reconcile ==
    /\ at["reconciler"] = "idle" /\ uc # NoUC /\ uc.phase \in {"none", "Upgrading"}
    /\ uc' = [uc EXCEPT !.phase = IF @ = "none" THEN "Pending" ELSE "Upgraded"]
    /\ UNCHANGED <<world, at, seen, answer, loopVars, faults>>

--------------------------------------------------------------------------------
\* Refresh.

\* ocmProvider.Get: the policies of the cluster.
GetClusterUpgradePolicies(r) ==
    /\ at[r] = "list" /\ source = "OCM"
    /\ IF policies = <<>> THEN Goto(r, "write") /\ UNCHANGED answer
       ELSE /\ Goto(r, "state")
            /\ answer' = [answer EXCEPT ![r] = policies[getNextOccurringUpgradePolicy(policies)]]
    /\ UNCHANGED <<world, uc, seen, loopVars, faults>>

SamePolicy(p, q) == p.next = q.next /\ p.version = q.version

\* The state of the policy is asked for separately; a policy that is gone has none.
GetClusterUpgradePolicyState(r) ==
    /\ at[r] = "state"
    /\ \E i \in DOMAIN policies :
        /\ SamePolicy(policies[i], answer[r])
        /\ answer' = [answer EXCEPT ![r] = IF isActionableUpgradePolicy(@, policies[i].state)
                                           THEN buildUpgradeConfigSpecs(@) ELSE Nil]
    /\ Goto(r, "write")
    /\ UNCHANGED <<world, uc, seen, loopVars, faults>>

PolicyGone(r) ==
    /\ at[r] = "state"
    /\ ~\E i \in DOMAIN policies : SamePolicy(policies[i], answer[r])
    /\ Failed(r)
    /\ UNCHANGED <<world, uc, faults>>

\* Faulty variant: only an upgrade under way is a policy.
readSpecUpgradingOnly == IF uc.phase = "Upgrading" THEN uc.spec ELSE Nil

\* localProvider.Get: an UpgradeConfig is a policy once it has a history, until it is
\* completed.
readSpecFromConfig == IF uc.phase \notin {"none", "Upgraded"} THEN uc.spec ELSE Nil

fetchUpgradeConfigs(r) ==
    /\ at[r] = "list" /\ source = "LOCAL"
    /\ answer' = [answer EXCEPT ![r] = readSpecFromConfig] /\ Goto(r, "write")
    /\ UNCHANGED <<world, uc, seen, loopVars, faults>>

\* What differs from the answer is deleted, and then created anew.
RefreshWrite(r) ==
    /\ at[r] = "write"
    /\ \/ /\ answer[r] = seen[r].spec /\ Succeeded(r, "begin") /\ UNCHANGED uc
       \/ /\ answer[r] # seen[r].spec /\ seen[r] # NoUC /\ uc = NoUC
          /\ Failed(r) /\ UNCHANGED <<uc, faults>>
       \/ /\ answer[r] # seen[r].spec /\ seen[r] # NoUC /\ uc # NoUC /\ uc' = NoUC
          /\ IF answer[r] = Nil THEN Succeeded(r, "idle")
             ELSE Goto(r, "create") /\ UNCHANGED <<seen, answer, loopVars, faults>>
       \/ /\ answer[r] # seen[r].spec /\ seen[r] = NoUC
          /\ Goto(r, "create") /\ UNCHANGED <<uc, seen, answer, loopVars, faults>>
    /\ UNCHANGED world

\* Another Refresh may have created one meanwhile.
RefreshCreate(r) ==
    /\ at[r] = "create"
    /\ IF uc = NoUC THEN uc' = [spec |-> answer[r], phase |-> "none"] /\ Succeeded(r, "idle")
       ELSE Failed(r) /\ UNCHANGED <<uc, faults>>
    /\ UNCHANGED world

RefreshFails(r) ==
    /\ at[r] \in {"get", "list", "state", "write", "create"}
    /\ faults < MaxFaults /\ faults' = faults + 1 /\ Failed(r)
    /\ UNCHANGED <<world, uc>>

--------------------------------------------------------------------------------

\* In OCM a policy is scheduled, changed, cancelled, completed or removed.
ChangePolicy ==
    /\ source = "OCM"
    /\ policies' \in BoundedSeq(Policies, MaxPolicies) /\ policies' # policies
    /\ UNCHANGED <<source, uc, at, seen, answer, loopVars, faults>>

Refresh(r) == \/ GetClusterUpgradePolicies(r) \/ GetClusterUpgradePolicyState(r) \/ PolicyGone(r)
              \/ fetchUpgradeConfigs(r) \/ RefreshWrite(r) \/ RefreshCreate(r)

Next ==
    \/ NewClient \/ NewClientFails \/ readConfigManagerConfig \/ ConfigFails \/ StartRefresh
    \/ ReconcileReady \/ RefreshGet \/ ReconcileStart \/ Reconcile
    \/ \E r \in Refreshers : Refresh(r) \/ RefreshFails(r)
    \/ ChangePolicy

\* The loop's timers fire and its calls return.  Nothing is assumed of Reconcile.
Spec == /\ Init /\ [][Next]_vars
        /\ WF_vars(NewClient) /\ WF_vars(readConfigManagerConfig)
        /\ WF_vars(StartRefresh) /\ WF_vars(Refresh("loop"))

--------------------------------------------------------------------------------

\* What the policies of OCM ask for if there is no more than one: a policy that is not
\* pending, completed or cancelled and has a version.
Wanted ==
    LET scheduled == {p \in ToSet(policies) : p.state \in {"scheduled", "started"} /\ p.version # 0} IN
    IF scheduled = {} THEN Nil
    ELSE buildUpgradeConfigSpecs(CHOOSE p \in scheduled : TRUE)

\* Whatever OCM had before and whatever calls failed, the cluster ends up with the
\* UpgradeConfig of the policy that is scheduled, and with none for a policy that was
\* cancelled between the list and its state.  Two Refreshes that delete and create at the
\* same time do not undo each other's work forever (ocmProvider.Get, Refresh, StartSync).
PolicyReachesCluster ==
    (source = "OCM" /\ <>[][policies' = policies]_vars /\ [](at["loop"] # "ended"))
        => <>[](uc.spec = Wanted)

\* The back-off starts anew after every Refresh that succeeds: the wait follows from the
\* Refreshes that failed since (StartSync).
WaitFollowsFailures ==
    at["loop"] = "wait" => \/ failed = 0 /\ wait \in {1, WatchInterval}
                           \/ failed > 0 /\ wait = Doubled(failed - 1)
                           \/ ~Doubles(failed) /\ wait = MaxWait

\* With the LOCAL provider Refresh leaves an UpgradeConfig alone that was pending or
\* upgrading when it began and has not been completed since (readSpecFromConfig).
LocalKeepsRunning ==
    [][\A r \in Refreshers :
        (/\ source = "LOCAL" /\ RefreshWrite(r)
         /\ seen[r].phase \in {"Pending", "Upgrading"} /\ uc.phase # "Upgraded")
            => uc' = uc]_vars

=============================================================================
