------------------------------ MODULE Notifications ------------------------------
(***************************************************************************)
(* What an upgrade tells OCM.  The steps call Notify of the event manager  *)
(* again in every run; an event that a gauge says was sent is not sent     *)
(* again.  The gauge is in the memory of the process and is read back      *)
(* through Prometheus, which has scraped it some time before.  The OCM     *)
(* notifier posts a service log, finds the policy of the UpgradeConfig,    *)
(* reads its state, and sets the new state if the transition is valid;     *)
(* each of these is a call that may fail.  The controller that runs the    *)
(* upgrade and the NodeKeeper each have a notifier, and nothing keeps one  *)
(* from the other; nor does anything keep a sync from replacing the        *)
(* UpgradeConfig meanwhile.                                                *)
(*                                                                         *)
(* All policies here are for one version; the UpgradeConfig is for one of  *)
(* them.                                                                   *)
(***************************************************************************)
EXTENDS Naturals

CONSTANTS
    Policies,         \* upgrade policies of OCM for the version
    Sends,            \* the events that the steps send
    MaxNotifyFaults,  \* bound: failed calls and restarts
    MaxDeletions      \* bound: deletions of the UpgradeConfig

ServiceLogs == {"PreHealthCheckSL", "HealthCheckSL", "ControlPlaneStartedSL", "ControlPlaneFinishedSL",
                "WorkerPlaneFinishedSL"}

\* DrainDelayed is the Delayed that a drain strategy sends, with a description of its own.
States == {"Started", "Delayed", "DrainDelayed", "ScaleSkipped", "Skipped", "Completed", "Failed"}
Events == ServiceLogs \cup States

NoConfig == "none"

ASSUME NotificationsAssumption ==
    Sends \subseteq Events /\ MaxNotifyFaults \in Nat /\ MaxDeletions \in Nat /\ NoConfig \notin Policies

VARIABLES
    uc,            \* the policy of the UpgradeConfig, if there is one
    phase,         \* its phase; Expired is Upgrading after the end of the window
    run,           \* the reconcile under way: none, new, upgrading or failing
    at,            \* how far it is
    stale,         \* the UpgradeConfig was deleted since it began
    commenced,     \* the ClusterVersion asks for the version
    accepted,      \* the states OCM has taken for the UpgradeConfig's policy since it was created
    ocm,           \* the state OCM last took for each policy
    posted,        \* the service logs that were posted for the version
    gauge,         \* the events the process has marked as sent
    scraped,       \* those that Prometheus has
    call,          \* per notifier, the Notify in progress: its event, the policy found, where it is
    notifications, \* the feature gate of the service logs is on
    notifyFaults, deletions

configVars == <<uc, phase, deletions>>
runVars == <<run, at, stale, commenced>>
ocmVars == <<ocm, accepted, posted>>
vars == <<configVars, runVars, ocmVars, gauge, scraped, call, notifications, notifyFaults>>

Notifiers == {"upgrader", "nodekeeper"}
Idle == [event |-> "none", policy |-> "none", pc |-> "idle"]

\* Delayed of either kind has one label in the gauge.
Label(e) == IF e = "DrainDelayed" THEN "Delayed" ELSE e

\* The order in which a run sends its events.
Order == [PreHealthCheckSL |-> 1, Failed |-> 1, Started |-> 1, Delayed |-> 2, HealthCheckSL |-> 3, ScaleSkipped |-> 4, Skipped |-> 4,
          ControlPlaneStartedSL |-> 5, ControlPlaneFinishedSL |-> 6, WorkerPlaneFinishedSL |-> 7, DrainDelayed |-> 8,
          Completed |-> 9]

Calls == [event : Events \cup {"none"}, policy : Policies \cup {"none"},
          pc : {"idle", "read", "checked", "logged", "found", "valid"}]

FlagsOK == stale \in BOOLEAN /\ commenced \in BOOLEAN /\ notifications \in BOOLEAN

NotifyTypeOK ==
    /\ FlagsOK
    /\ uc \in Policies \cup {NoConfig}
    /\ phase \in {"New", "Pending", "Upgrading", "Expired", "Upgraded", "Failed"}
    /\ run \in {"none", "new", "upgrading", "failing"} /\ at \in 0..9
    /\ accepted \subseteq States /\ posted \subseteq ServiceLogs
    /\ gauge \subseteq Events /\ scraped \subseteq Events
    /\ ocm \in [Policies -> States \cup {"Scheduled", "Cancelled"}]
    /\ call \in [Notifiers -> Calls]
    /\ notifyFaults \in 0..MaxNotifyFaults /\ deletions \in 0..MaxDeletions

Init ==
    /\ uc \in Policies /\ phase = "New"
    /\ run = "none" /\ at = 0 /\ stale = FALSE /\ commenced = FALSE
    /\ ocm = [p \in Policies |-> "Scheduled"] /\ accepted = {} /\ posted = {}
    /\ gauge = {} /\ scraped = {}
    /\ call = [n \in Notifiers |-> Idle]
    /\ notifications \in BOOLEAN
    /\ notifyFaults = 0 /\ deletions = 0

--------------------------------------------------------------------------------
\* The OCM notifier.

\* The state NotifyState takes the policy to be in.  Delayed, Skipped and ScaleSkipped
\* are all "delayed" in OCM; the word "retry" in the description tells the Delayed of the
\* steps from the others, which are read as Skipped.
ReadBack(e) == IF e \in {"ScaleSkipped", "DrainDelayed"} THEN "Skipped" ELSE e

Valid ==
    [Started      |-> {"ScaleSkipped", "Delayed", "Completed", "Failed"},
     ScaleSkipped |-> {"Delayed", "Failed", "Skipped", "Completed"},
     Delayed      |-> {"Completed", "Failed", "Skipped"},
     Skipped      |-> {"Completed", "Failed"},
     Scheduled    |-> {"Started"},
     Completed    |-> {},
     Failed       |-> {},
     Cancelled    |-> {}]

\* Faulty variants: a delayed upgrade cannot complete; any state may follow any other.
TransitionNotFromDelayed(from, to) == from # "Delayed" /\ to \in Valid[from]

AnyTransition(from, to) == to \in States /\ from # to

validateStateTransition(from, to) == to \in Valid[from]

--------------------------------------------------------------------------------
\* The event manager.

\* The events that every run has to send before it goes on.
Required == {"Started", "ControlPlaneStartedSL", "ControlPlaneFinishedSL", "WorkerPlaneFinishedSL", "Completed"}

\* What each kind of run sends.
EventsOf ==
    [none |-> {}, new |-> {"PreHealthCheckSL"}, failing |-> {"Failed"},
     upgrading |-> Events \ {"PreHealthCheckSL", "Failed"}]

\* The run may send e now.
Due(e) ==
    /\ e \in EventsOf[run] /\ at < Order[e]
    /\ \A r \in Required \cap Sends : Order[r] \notin at + 1..Order[e] - 1
    /\ commenced <=> Order[e] > Order["ControlPlaneStartedSL"]

\* The step that sent e is over.
Acknowledge(e) == at' = Order[e]

\* Only a service log is posted.
Send(n, e) ==
    call' = [call EXCEPT ![n] = [event |-> e, policy |-> "none", pc |-> IF e \in ServiceLogs THEN "checked" ELSE "logged"]]

\* Faulty variant: the event is marked as sent before it is sent.
NotifyMarksFirst(e) ==
    /\ call["upgrader"] = Idle /\ Due(e)
    /\ IF uc = NoConfig \/ Label(e) \in scraped
         THEN Acknowledge(e) /\ UNCHANGED <<call, gauge>>
         ELSE Send("upgrader", e) /\ gauge' = gauge \cup {Label(e)} /\ UNCHANGED at
    /\ UNCHANGED <<configVars, run, stale, commenced, ocmVars, scraped, notifications, notifyFaults>>

\* Notify and NotifyResult, up to the call of the notifier, and the drain strategy of
\* RemoveExtraScaledNodes.  Without an UpgradeConfig there is nothing to tell.
Notify(e) ==
    /\ call["upgrader"] = Idle /\ Due(e)
    /\ IF uc = NoConfig \/ Label(e) \in scraped
         THEN Acknowledge(e) /\ UNCHANGED call
         ELSE Send("upgrader", e) /\ UNCHANGED at
    /\ UNCHANGED <<configVars, run, stale, commenced, ocmVars, gauge, scraped, notifications, notifyFaults>>

\* The NodeKeeper reads the UpgradeConfig of an upgrade under way; later, its drain
\* strategy has removed pods and looks whether that was told.
NodeKeeperReads ==
    /\ call["nodekeeper"] = Idle /\ "DrainDelayed" \in Sends
    /\ uc # NoConfig /\ phase \in {"Upgrading", "Expired"}
    /\ call' = [call EXCEPT !["nodekeeper"] = [event |-> "DrainDelayed", policy |-> "none", pc |-> "read"]]
    /\ UNCHANGED <<configVars, runVars, ocmVars, gauge, scraped, notifications, notifyFaults>>

NodeKeeperNotifies ==
    /\ call["nodekeeper"].pc = "read"
    /\ IF "Delayed" \in scraped THEN call' = [call EXCEPT !["nodekeeper"] = Idle] ELSE Send("nodekeeper", "DrainDelayed")
    /\ UNCHANGED <<configVars, runVars, ocmVars, gauge, scraped, notifications, notifyFaults>>

\* Service logs are posted only if their feature gate is on.
PostServiceLog ==
    /\ call["upgrader"].pc = "checked"
    /\ posted' = IF notifications THEN posted \cup {call["upgrader"].event} ELSE posted
    /\ call' = [call EXCEPT !["upgrader"].pc = "logged"]
    /\ UNCHANGED <<configVars, runVars, ocm, accepted, gauge, scraped, notifications, notifyFaults>>

\* The UpgradeConfig is read again.
getPolicyIdForUpgradeConfig(n) ==
    /\ call[n].pc = "logged" /\ uc # NoConfig
    /\ call' = [call EXCEPT ![n].pc = "found", ![n].policy = uc]
    /\ UNCHANGED <<configVars, runVars, ocmVars, gauge, scraped, notifications, notifyFaults>>

\* NotifyState returned without an error: the event is marked as sent.
Sent(n) ==
    /\ gauge' = gauge \cup {Label(call[n].event)}
    /\ IF n = "upgrader" THEN Acknowledge(call[n].event) ELSE UNCHANGED at
    /\ call' = [call EXCEPT ![n] = Idle]

IsValid(n) == validateStateTransition(ReadBack(ocm[call[n].policy]), Label(call[n].event))

\* A transition that is not valid is dropped without an error.
NotifyState(n) ==
    /\ call[n].pc = "found"
    /\ \/ IsValid(n) /\ call' = [call EXCEPT ![n].pc = "valid"] /\ UNCHANGED <<gauge, at>>
       \/ ~IsValid(n) /\ Sent(n)
    /\ UNCHANGED <<configVars, run, stale, commenced, ocmVars, scraped, notifications, notifyFaults>>

Takes(n) ==
    /\ ocm' = [ocm EXCEPT ![call[n].policy] = call[n].event]
    /\ accepted' = IF call[n].policy = uc THEN accepted \cup {call[n].event} ELSE accepted

SetState(n) ==
    /\ call[n].pc = "valid"
    /\ Takes(n) /\ Sent(n)
    /\ UNCHANGED <<configVars, run, stale, commenced, posted, scraped, notifications, notifyFaults>>

RunEnds == run' = "none" /\ at' = 0 /\ stale' = FALSE

\* The run goes on after the failure of these, and is over after that of any other.
Tolerated == {"PreHealthCheckSL", "ScaleSkipped"}

Fails(n) ==
    /\ IF n = "upgrader" /\ call[n].event \notin Tolerated THEN RunEnds ELSE UNCHANGED <<run, at, stale>>
    /\ call' = [call EXCEPT ![n] = Idle]
    /\ UNCHANGED <<configVars, commenced, gauge, scraped, notifications>>

\* There is no UpgradeConfig to find the policy of.
NoPolicyFound(n) ==
    /\ call[n].pc = "logged" /\ uc = NoConfig
    /\ Fails(n)
    /\ UNCHANGED <<ocmVars, notifyFaults>>

\* A call fails; the log may have been posted, or the state set, although the answer is lost.
NotifyFails(n) ==
    /\ call[n] # Idle
    /\ notifyFaults < MaxNotifyFaults /\ notifyFaults' = notifyFaults + 1
    /\ \/ UNCHANGED ocmVars
       \/ call[n].pc = "valid" /\ Takes(n) /\ UNCHANGED posted
       \/ /\ call[n].pc = "checked" /\ notifications /\ call[n].event \in ServiceLogs
          /\ posted' = posted \cup {call[n].event}
          /\ UNCHANGED <<ocm, accepted>>
    /\ Fails(n)

--------------------------------------------------------------------------------
\* The reconciles of the UpgradeConfig.

\* Without one, ResetEphemeralMetrics.  The UpgradeConfig of an upgrade that the cluster has
\* commenced is upgrading from the start.
Reconcile ==
    /\ run = "none"
    /\ \/ uc = NoConfig /\ gauge' = {} /\ UNCHANGED <<phase, run, at>>
       \/ /\ uc # NoConfig /\ phase \in {"New", "Upgrading", "Expired"}
          /\ phase' = IF phase = "New" /\ commenced THEN "Upgrading" ELSE phase
          /\ run' = IF commenced \/ phase = "Upgrading" THEN "upgrading" ELSE IF phase = "New" THEN "new" ELSE "failing"
          /\ at' = IF commenced THEN Order["ControlPlaneStartedSL"] ELSE 0
          /\ UNCHANGED gauge
    /\ UNCHANGED <<uc, deletions, stale, commenced, ocmVars, scraped, call, notifications, notifyFaults>>

\* A run ends; the new phase is not written if the UpgradeConfig was deleted, or if the
\* update fails.
Ends(next) ==
    /\ call["upgrader"] = Idle
    /\ RunEnds
    /\ phase' \in {phase} \cup (IF stale THEN {} ELSE {next})
    /\ UNCHANGED <<uc, deletions, commenced, ocmVars, scraped, call, notifications, notifyFaults>>

HealthCheckEnds == run = "new" /\ Ends("Pending") /\ UNCHANGED gauge

StartUpgrade ==
    /\ run = "none" /\ uc # NoConfig /\ phase = "Pending"
    /\ phase' = "Upgrading"
    /\ UNCHANGED <<uc, deletions, runVars, ocmVars, gauge, scraped, call, notifications, notifyFaults>>

\* A step waits or fails.
StepWaits ==
    /\ \/ run = "upgrading" /\ at < Order["Completed"]
       \/ run = "failing" /\ at < Order["Failed"]
    /\ Ends(phase) /\ UNCHANGED gauge

CommenceUpgrade ==
    /\ run = "upgrading" /\ at = Order["ControlPlaneStartedSL"] /\ ~commenced /\ call["upgrader"] = Idle
    /\ commenced' = TRUE
    /\ UNCHANGED <<configVars, run, at, stale, ocmVars, gauge, scraped, call, notifications, notifyFaults>>

CompleteUpgrade == run = "upgrading" /\ at = Order["Completed"] /\ Ends("Upgraded") /\ UNCHANGED gauge

\* The end of performUpgradeFailure; it resets the gauge of the notifications.
FailUpgrade == run = "failing" /\ at = Order["Failed"] /\ Ends("Failed") /\ gauge' = {}

\* Hours after the upgrade began: Prometheus has no sample left of an upgrade that failed
\* before.  Once the upgrade has commenced, its window does not matter.
WindowPasses ==
    /\ phase = "Upgrading" /\ uc # NoConfig /\ ~commenced /\ "Failed" \notin scraped
    /\ phase' = "Expired"
    /\ UNCHANGED <<uc, deletions, runVars, ocmVars, gauge, scraped, call, notifications, notifyFaults>>

--------------------------------------------------------------------------------
\* The sync of the UpgradeConfig, the process and Prometheus.

\* Refresh, when the next policy has changed or there is none; or an administrator.
DeleteUpgradeConfig ==
    /\ uc # NoConfig /\ deletions < MaxDeletions
    /\ uc' = NoConfig /\ deletions' = deletions + 1
    /\ phase' = "New" /\ stale' = (run # "none") /\ accepted' = {}
    /\ UNCHANGED <<run, at, commenced, ocm, posted, gauge, scraped, call, notifications, notifyFaults>>

\* For a policy that isActionableUpgradePolicy lets through.
CreateUpgradeConfig ==
    /\ uc = NoConfig
    /\ \E p \in Policies : ocm[p] \notin {"Completed", "Cancelled"} /\ uc' = p
    /\ UNCHANGED <<phase, deletions, runVars, ocmVars, gauge, scraped, call, notifications, notifyFaults>>

\* OCM cancels a policy; that of one that nothing here is for makes no difference.
CancelPolicy(p) ==
    /\ p \in {uc, call["upgrader"].policy} /\ ocm[p] = "Scheduled"
    /\ ocm' = [ocm EXCEPT ![p] = "Cancelled"]
    /\ UNCHANGED <<configVars, runVars, accepted, posted, gauge, scraped, call, notifications, notifyFaults>>

Restart ==
    /\ notifyFaults < MaxNotifyFaults /\ notifyFaults' = notifyFaults + 1
    /\ gauge' = {} /\ call' = [n \in Notifiers |-> Idle] /\ RunEnds
    /\ UNCHANGED <<configVars, commenced, ocmVars, scraped, notifications>>

Scrape ==
    /\ scraped' = gauge
    /\ UNCHANGED <<configVars, runVars, ocmVars, gauge, call, notifications, notifyFaults>>

Next ==
    \/ \E e \in Sends : Notify(e)
    \/ NodeKeeperReads \/ NodeKeeperNotifies \/ PostServiceLog
    \/ \E n \in Notifiers : \/ getPolicyIdForUpgradeConfig(n) \/ NotifyState(n) \/ SetState(n)
                            \/ NoPolicyFound(n) \/ NotifyFails(n)
    \/ Reconcile \/ HealthCheckEnds \/ StartUpgrade \/ StepWaits \/ CommenceUpgrade \/ CompleteUpgrade
    \/ FailUpgrade \/ WindowPasses
    \/ DeleteUpgradeConfig \/ CreateUpgradeConfig \/ Restart \/ Scrape
    \/ \E p \in Policies : CancelPolicy(p)

Spec == Init /\ [][Next]_vars

--------------------------------------------------------------------------------

\* An upgrade whose start OCM was told of under its UpgradeConfig is at an end, for the
\* operator, only after OCM was told of that end, whatever answers, gauges, samples and
\* UpgradeConfigs were lost on the way and whatever the NodeKeeper sends meanwhile
\* (Notify, NotifyState).  The end of an UpgradeConfig that takes over an upgrade
\* under way, for a policy that is still scheduled, is dropped by NotifyState.
EndReachesOCM ==
    "Started" \in accepted =>
        /\ phase = "Upgraded" => "Completed" \in accepted
        /\ phase = "Failed" => "Failed" \in accepted

Rank == [Scheduled |-> 0, Cancelled |-> 0, Started |-> 1, Delayed |-> 2, DrainDelayed |-> 2, ScaleSkipped |-> 2,
         Skipped |-> 2, Completed |-> 3, Failed |-> 3]

\* The state of a policy only moves on, whatever is sent again after a restart or a lost
\* answer and whatever was overtaken: a repeated Started never follows a delay, and only the
\* NodeKeeper, whose notifier has read the state some time before, puts a delay over an end
\* (validateStateTransition, NotifyState).
OCMMovesOn ==
    [][\A p \in Policies :
        \/ ocm'[p] \in {ocm[p], "Cancelled"}
        \/ Rank[ocm'[p]] > Rank[ocm[p]]
        \/ Rank[ocm'[p]] = 2 /\ Rank[ocm[p]] = 2
        \/ ocm'[p] = "DrainDelayed" /\ call["nodekeeper"].pc = "valid" /\ call["nodekeeper"].policy = p
           /\ Rank[ocm[p]] > 0]_vars

\* With the feature gate on, a service log that counts as sent was posted, and no upgrade
\* commences without the log of its start, unless the UpgradeConfig was deleted meanwhile
\* (Notify, NotifyResult, PostServiceLog).
SentWasPosted ==
    notifications =>
        /\ ServiceLogs \cap (gauge \cup scraped) \subseteq posted
        /\ commenced /\ deletions = 0 => "ControlPlaneStartedSL" \in posted

================================================================================
