# Verification of the managed-upgrade-operator

TLA+ models of the managed-upgrade-operator, TLC configurations that check them
on small instances, and TLAPS proofs of the main results for every value of the
constants. The models are translated from the Go source; `PROJECT.json` gives for
every definition the lines it stands for, and lists the components with their
status and the hazards of the code with the properties that would catch each
going wrong.

## The system

One process, on one cluster, works on one custom resource, the `UpgradeConfig`.

| Part | State | Operations | Interacts with | What is hard about it |
|---|---|---|---|---|
| UpgradeConfig resource (`api/v1alpha1`) | spec; history entry with phase, conditions, four times | create, delete, status update | everything | optimistic concurrency; delete and re-create loses the status |
| UpgradeConfig controller (`controllers/upgradeconfig`) | the copy it works on | Reconcile: New, Pending, Upgrading, Upgraded, Failed | manager, upgrader, ClusterVersion | a long handler with many calls, on a copy that gets old |
| UpgradeConfig manager (`pkg/upgradeconfigmanager`) | timer, backoff | Refresh, StartSync | provider, resource | runs in a goroutine and inside Reconcile at the same time |
| Providers (`pkg/ocmprovider`, `pkg/localprovider`, `pkg/specprovider`) | none | Get | OCM, or the resource itself | two calls for one answer, which changes at any time |
| Upgraders and steps (`pkg/upgraders`, `pkg/upgradesteps`) | conditions | 17 OSD or 14 ARO steps, failure policy | almost everything | every step may fail and is run again from the first |
| ClusterVersion client, validation (`pkg/clusterversion`, `pkg/validation`) | none | EnsureDesiredConfig, HasUpgrade… | ClusterVersion | two patches; what is true now may be false when used |
| MachineConfigPool controller (`controllers/machineconfigpool`) | copies of pool and resource | Reconcile | pool, resource | second writer of the same history entry |
| NodeKeeper and drain (`controllers/nodekeeper`, `pkg/drain`) | metric per node | Reconcile, Execute, HasFailed | nodes, pods | timeouts of several strategies |
| Scaler (`pkg/scaler`) | extra machine sets | EnsureScaleUpNodes, EnsureScaleDownNodes | machine API | one creation of several fails |
| Maintenance (`pkg/maintenance`, `pkg/alertmanager`) | silences | Start…, SetWorker, End… | Alertmanager | replace is delete and create |
| Event manager and notifiers (`pkg/eventmanager`, `pkg/notifier`) | gauge of sent events | Notify, NotifyState | OCM, Prometheus | deduplication by a metric read back from Prometheus |
| Health and availability checks (`pkg/upgraders`, `pkg/availabilitychecks`) | gauge per reason; goroutines | PerformPreHealthCheck, AvailabilityCheck | cluster, HTTP targets | queries of a cluster that changes between them |
| Metrics, clients, config manager, `main.go` | gauges | | | |

## Modules

| Module | Models |
|---|---|
| `UpgradeConfigCR` | the resource and the API calls on it |
| `UpgradeConfigManager` | Refresh, run by the goroutine and by the reconciler; the provider; an administrator |
| `UpgradeConfigController` | Reconcile, the upgrader as far as it decides about ClusterVersion and phase; the cluster |
| `MachineConfigPoolController` | the second controller |
| `ManagedUpgradeOperator` | all of them in one process that may be restarted; the inductive invariant; the refinement mapping |
| `UpgradeLifecycle` | abstract: what the operator promises of one upgrade |
| `StepRunner` | Run: the conditions of the steps, collected over many runs; what the collector and the event manager read of them |
| `Scaler` | extra machine sets, call by call, and the machine API; one upgrade after another |
| `Maintenance` | the silences of the control plane, of critical alerts and of the workers |
| `UpgradeRun` | the step list of an upgrader over `Scaler` and `Maintenance`, the ClusterVersion and the pool, with the failure policy |
| `Notifications` | event manager, gauge, Prometheus, the OCM notifiers of the controller and of the NodeKeeper call by call, over an `UpgradeConfig` that is replaced meanwhile |
| `DrainStrategies`, `NodeKeeper` | the timed strategies; the controller that runs them, beside the end of the upgrade |
| `VersionUpgrade` | validation and the ClusterVersion client, by version and channel and by image, against an update graph |
| `PolicySync` | StartSync with its back-off, the Refresh of Reconcile beside it, the OCM and LOCAL providers |
| `HealthChecks` | the health checks query by query, their gauge, and what the upgrade makes of the outcome |
| `AvailabilityCheck` | the goroutines of the availability check, their shared error, retries and timeout |
| `…Proofs` (eight) | the proofs |
| `MC…` | the values TLC runs with |

`UpgradeConfigCR`, `…Manager`, `…Controller`, `MachineConfigPoolController` and
`ManagedUpgradeOperator` extend one another in this order, because each works on
the variables of the ones before. `UpgradeRun` composes `Scaler` and
`Maintenance`. The other modules look more closely at one part that the operator
module treats as a choice: what a step does, what the provider answers, when a
version is found valid.

**The resource.** `uc` is the stored object, `held[p]` the copy writer `p` works
on, `current` the set of writers whose copy still has the stored resourceVersion.
A status update by `p` needs `p \in current`; a conflict is the error branch of the
caller. Versions of objects are never compared otherwise, so no counter is needed.
The history entry of the desired version is kept as fields of the object, and
phase `Unknown` is a missing entry. An `UpgradeConfig` whose `spec` is edited in
place by hand is not modelled; the operator itself replaces the object.

**Handlers.** A handler is cut where it calls the API server or the provider.
`reconcile` says where Reconcile is:

    idle -Get-> history -Update-> phase -Pending, ready-> refresh -Update-> upgrade
    upgrade -> steps -CommenceUpgrade-> controlplane -> workers -> record -Update-> idle

with the shorter ways through `phase` for the other phases, and a return from any
place where the code returns an error. `refresh[p]` is the next call of the
Refresh of caller `p`: get, pull, delete, confirm, create, or its result. The
other modules are cut in the same way: `call` in `NodeKeeper`, `Notifications`,
`VersionUpgrade` and `HealthChecks`, `at` in `UpgradeRun` and `PolicySync`.

**Surroundings.** The provider's answer (`policy`) changes at any time. An
`UpgradeConfig` is created or deleted by hand at any time. The cluster renders the
worker pool for the desired version, updates one machine after the other, and
completes the control plane after the pool has been rendered: the machine config
operator is one of the operators the cluster version operator has brought to the
version before it reports the version as completed. Updates are listed to later
versions than the one asked for. In `VersionUpgrade` the cluster version operator
takes its time to list what a new channel offers, and an administrator asks for
updates too. In `Notifications` Prometheus has an older copy of the gauge, and a
call to OCM may take effect and its answer be lost. In `NodeKeeper` kubelets may be
dead and pods have finalizers. These parts are marked external in `PROJECT.json`.

**Abstractions.** Versions and times are numbers. In the operator module the steps
of the upgraders that do not decide about ClusterVersion or phase are the
possibility that the run of the steps stops (`StepStops`); `UpgradeRun` has them.
The ARO upgrader is the OSD upgrader without the failure policy. An error of
`shouldFailUpgrade`, which the code ignores, is the freedom of `RunSteps` to run
although the upgrade should fail. Conditions are in `StepRunner`; in the operator
module writing them only moves the resourceVersion (`touched`). In `UpgradeRun` the
delay, upgradability, health, availability and notification steps before the
upgrade commences are `EarlyCheck`: they may hold the run up until it has
commenced. The namespaces of disruption budgets are left out of `DrainStrategies`;
the alert on the gauge fires for as long as the gauge is set. `HealthChecks` leaves
out the window of the upgrade. In `Notifications` a run of the steps is the events it
sends, in order, and where it is among them (`at`); all policies are for one version,
and the window of an upgrade, which lasts hours, ends when Prometheus has no sample
left of an earlier failure. `PolicySync` has one policy in OCM, as the documents say, and leaves out
the jitter of the waits. StartSync runs outside the leader election (main.go:298);
one process is modelled.

## Properties and runs

| Run | Checks | Bounds | Distinct states |
|---|---|---|---|
| `operator` | `OperatorInv`, `TimesInOrder`, `KillSwitch`, `CommencedIsUpgrading`, `UpgradedIsUpgraded`, `TimestampsPresent`, `PhaseForward`, `ImplementsLifecycle` | one specification, two workers, one restart, clock to 3 | 795,460 |
| `operator_without_provider` | `ImplementsLifecycle` | two specifications, one for the current version; no restart | 513,132 |
| `controller_starts_within_window` | `StartsWithinWindow`, violated | one specification | stops at the violation |
| `steps` | `UpgradedIsComplete`, `StoppedWhereItSays`, `CollectorTimes`, `BlamesNoPassedStep` | the first nine OSD steps, any number of runs | 14,911 |
| `scaler` | `RemovedStaysRemoved`, `ScalingEnds` | two worker sets, one of another pool, time limit 1, any number of upgrades | 53,600 |
| `run` | `NothingLeftBehind`, `NoAlarmLeft`, `FailedNeverCommenced`, `CapacityKept`, `UpgradeEnds` | the OSD steps, one worker, one fault, one node that joins, two attempts | 203,020 |
| `notify` | `EndReachesOCM`, `SentWasPosted`, `OCMMovesOn` | two policies (symmetric), seven events, one fault, one deletion of the UpgradeConfig | 5,426,572 |
| `drain` | `FailsAfterLast`, `PodsGo`, `GaugeSettles`, `UpgradeCompletes` | one worker, a pod of each kind, finalizers on two, a grace period shorter and one longer than `timeOut`, one fault, cordons up to the age 5 | 252,135 |
| `version` | `ReportsAnUpgrade`, `AskedIsOffered`, `ValidIsCarriedOut` | four releases, two channels, two replacements, one update by an administrator, one fault | 344,568 |
| `sync` | `WaitFollowsFailures`, `PolicyReachesCluster`, `LocalKeepsRunning` | either provider; one policy with two states and two releases, one fault | 332,386 |
| `health` | `PassedIsZero`, `FoundIsOne`, `HealthyProceeds` | three troubles of four checks, one fault | 145,384 |
| `availability` | `UnavailableIsReported`, `AvailableProceeds` | three targets, one that may not answer | 104,292 |

The operator:

- `KillSwitch`: with a provider, the ClusterVersion is only ever asked for a version
  that the provider confirmed to the reconciler's own Refresh, with a time that has
  come. `answers` is a history variable for it.
- `CommencedIsUpgrading`: what the ClusterVersion asks for is never New, Pending or
  Failed, also after the object was replaced and taken over.
- `UpgradedIsUpgraded`: Upgraded is recorded of an upgraded cluster.
- `TimestampsPresent`: the pointers Reconcile dereferences are set.
- `PhaseForward`: no write, from however old a copy, moves a phase back.
- `TimesInOrder`: start, worker start, worker end, end.
- `ImplementsLifecycle`: the operator refines `UpgradeLifecycle`, in which one
  upgrade is requested, scheduled, confirmed, begun, told to the cluster and
  completed, failed or withdrawn, each in one step.

The steps and what they work with:

- `UpgradedIsComplete`, `StoppedWhereItSays`: the stored conditions, collected by
  runs of which some were lost, agree with where the upgrade is, though two steps
  share one condition.
- `CollectorTimes`: the collector dereferences no missing time.
- `BlamesNoPassedStep`: a failure or delay is blamed on no step that was passed.
- `RemovedStaysRemoved`, `ScalingEnds`: what the scaler reports as removed is so
  although deletions fail part-way, and neither direction waits forever, whatever sets
  an earlier upgrade has left.
- `NothingLeftBehind`, `NoAlarmLeft`: an Upgraded cluster has no extra machine set,
  no active silence and no gauge of a trouble left, though every run starts at the
  first step again, which makes them.
- `CapacityKept`: the extra machines are not deleted under the workers.
- `FailedNeverCommenced`: an upgrade that commenced does not fail.
- `UpgradeEnds`: an upgrade that has begun ends, by its window before it commences,
  and whatever the early checks say after.
- `EndReachesOCM`: an upgrade whose start OCM has taken under its UpgradeConfig is not
  at an end for the operator before OCM was told of that end, over lost answers,
  restarts and stale samples.
- `OCMMovesOn`: the state of a policy does not go back, with one exception: a delay of
  the NodeKeeper that was a valid transition when it was checked.
- `SentWasPosted`: with its feature gate on, a service log that counts as sent was
  posted, and the one that announces the upgrade before the upgrade commences.

Nodes, versions, policies, checks:

- `FailsAfterLast`: a drain is failed only when no strategy that is yet to come has a
  pod to work on, and after the expected drain time of the strategies for budgets that
  are due; after that of the others too, if they come first.
- `PodsGo`, `GaugeSettles`, `UpgradeCompletes`: pods of no budget go, a node that is
  stuck is flagged and one that is not is not, and no flag keeps the upgrade from
  ending.
- `ReportsAnUpgrade`: what is recorded as upgraded went from an earlier release to a
  later one. For UpgradeConfigs by version (see below for images), on a cluster that
  has only gone to later releases (`OnlyRisen`), and unless an administrator asked for
  another update between the listing that `Patch` goes by and the patch (the history
  variable `crossed`). Both conditions are needed. An image, or an update that is not
  recommended, takes a cluster back from a release whose upgrade is under way; and
  the patch, which has no precondition, may ask for a release behind the one an
  administrator has sent the cluster to. Both need a graph with a way around a release.
- `AskedIsOffered`, `ValidIsCarriedOut`: what is asked of the ClusterVersion is
  offered in its channel, and an UpgradeConfig that was found valid is carried out
  or its window closes. Both of the first UpgradeConfig and without an administrator
  who asks for something else; one that follows within a sync of the cluster version
  operator may be validated against the listing of the channel before.
- `PolicyReachesCluster`: the cluster ends up with the UpgradeConfig of the policy
  that is scheduled, although two Refreshes delete and create at the same time and
  fail at any call.
- `LocalKeepsRunning`: the LOCAL provider does not make Refresh delete an
  UpgradeConfig that is under way.
- `WaitFollowsFailures`: the back-off starts anew after a success.
- `PassedIsZero`, `FoundIsOne`: the gauge agrees with each check of the last health
  check: none that passed has a reason of its own left at 1, and what one found is
  not cleared by those after it. The reasons for which this fails are named in the
  properties and below.
- `HealthyProceeds`: only alerts and degraded operators hold an upgrade back.
- `UnavailableIsReported`, `AvailableProceeds`: the step passes if and only if every
  target was reached, in whatever order its goroutines end, unless a request never
  ends.

**Bounds.** In `operator` the specification is withdrawn and requested again, so that
one object replaces another; with two specifications the state space is out of
reach, and the proofs take over, which need no bounds. Two workers give a pool that
is not updated, partly updated and updated. The clock is bounded so that it passes
the time of each specification and its window. One restart or fault can hit any
step. In `notify` the fault is a lost answer or a restart, the deletion lets another
UpgradeConfig, for either policy, follow at any point, and seven of the twelve events
stand for those that are treated alike; the proofs cover all of them and any number
of faults and deletions. In `run` the second attempt meets the silences and machine
sets that a failed one left. In `drain` the ages are those at which the strategies
become due or time out, and one more; `Finalized` are the pods that may have
finalizers, one in a budget and one in none. In `version` the graph has a release in
another channel only, one with known risks, and two ways to the release they lead to.
In `sync` a policy is scheduled or has been cancelled. In `health` the troubles are an
alert, which holds the upgrade back, a failed list of the nodes, which two checks
report, and a budget, which is never reset; the proofs of the two safety properties
cover every trouble, and `HealthyProceeds` is checked for these three only.
The steps of the ARO upgrader are a sublist of the OSD ones: `AROAssumption`
says that they satisfy what the proofs assume of a step list.

**Fairness.** Safety properties need none. Reconcile is started again after an
error, after a minute while an upgrade is running, and by the manager's resync every
five minutes (main.go), so every module takes the steps of its reconcile as weakly
fair. Calls fail a bounded number of times (`MaxFaults`), or, in `Scaler`, any number
of times but not forever (strong fairness of a call that succeeds). Timers fire:
`StartRefresh`, `Tick`. The cluster does its work: the machines of new sets are
created (their nodes need not become ready), those of deleted sets go, the
control plane and the workers are updated, the cluster version operator syncs.
Nothing is assumed of the early checks and of extra nodes becoming ready in
`UpgradeRun`, of Reconcile in `PolicySync`, or of troubles ending in `HealthChecks`
unless the property says so. In `ReconcileReady` of `VersionUpgrade` and
`PreUpgradeDone` of `HealthChecks` fairness is strong: the step is disabled by a
window or a check that comes and goes. In `NodeKeeper` it is strong for the reconcile
of each node, since the only worker of the controller may be busy with another, and
for the last health check, whose alert may come back. The violation of
`controller_starts_within_window` is one of safety; `ControllerFairness` is not what
it rests on.

## Where the code and its documents disagree

**`StartsWithinWindow`** (run `controller_starts_within_window`) states
docs/controllers/upgradeconfig.md line 55: the current time must fall within the
upgrade window for an upgrade to begin. The code only looks at `IsReady`; the
scheduler's `IsBreached` has no reader, and an upgrade that could not begin in its
window begins after it.

The runs avoid the following places, each with the constants named; a run with the
other value shows the violation of the property in brackets.

- Without capacity reservation the gauge of a deleted node is reset only after
  CriticalAlerts, which fails while the alert on that gauge fires, against the
  comment at healthcheckstep.go:151 (`CapacityReservation`; `UpgradeCompletes`).
- Without Cincinnati an UpgradeConfig for another channel is found valid though the
  version is not offered, against docs/design.md:211 (`Cincinnati`;
  `ValidIsCarriedOut`).

Others were met while modelling and follow from the definitions:

- Several conditions may be incomplete at once, against eventmanager.go:225 ("should
  only be one"): the step that is blamed may be a later one than the one that
  stopped the run. `BlamesNoPassedStep` is what does hold.
- performUpgradeFailure sets the condition FailedUpgrade on a copy that is not
  stored (osdupgrader.go:178).
- extraMachineSetCreated returns at the first original whose extra set exists
  (machineSetScaler.go:284): after a creation that failed part-way other sets may
  never get theirs, and the upgrade begins with the nodes of the others ready, against
  docs/faq.md:17.
- nodesAreReady returns without an error and before it looks at the time if it does
  not find the one machine of a set (machineSetScaler.go:334): a set whose machine is
  never created is waited for until the window of the upgrade is over.
- less of sortDuration looks at the unsorted slice (nodeDrainStrategy.go:184). With a
  grace period that ends before `nodeDrain.timeOut` HasFailed takes a strategy of the
  budgets for the last one, and pods of no budget do not get the expected drain time
  of osd_drain_strategy_test.go:281. `FailsAfterLast` is what holds in both orders.
- A budget that selects pods by `matchExpressions` is not seen by containsMatchLabel
  (pod_predicates.go:51): its pods are removed like those of no budget, while
  docs/controllers/nodekeeper.md:35 says that budgets "are respected".
- Finalizers may be removed from pods that were not deleted: the wait of a strategy
  can run out between two checks of one Execute (nodeDrainStrategy.go:66).
- The notifier of the NodeKeeper works beside that of the controller (ocmnotifier.go:133
  to 161): its delay may be set after the controller has set Completed or Failed.
  Its description has no "retry", so that OCM's state is then read as Skipped.
- If the notification of a drain fails, the pods are gone all the same, the next Execute
  has nothing to do, and the delay is never reported (nodeDrainStrategy.go:73 to 90).
- Refresh never asks upgradeInProgress and may replace the UpgradeConfig of an upgrade
  under way. If the new policy is still scheduled, Completed is no valid transition for
  it, is dropped, and counts as sent (ocmnotifier.go:157).
- The gauge of five reasons for a budget is cleared for one of them
  (healthcheck_pdb.go:41), and a list of nodes that fails for the cordoned ones is
  cleared by the check of taints (healthcheck_nodes.go:131), against
  docs/metrics.md:26. `PassedIsZero` and `FoundIsOne` except these.
- The timeout of the availability check is multiplied by a second twice
  (http.go:39): ten seconds, the value of docs/configmap.md:176, become negative,
  which is none, and five become years. A target that never answers holds the step,
  and the only worker of the controller, for as long.
- A silence is found by its comment in any state (alertmanagerMaintenance.go:130): an
  expired one of the same version is taken for an existing maintenance.
- validateStateTransition has no way from Started to Skipped, so that the
  notification of docs/controllers/upgradeconfig.md:332 is dropped and counts as
  sent; its case of ScaleSkipped (ocmnotifier.go:235) is never reached, since that
  state is read back as Skipped.
- A pod of a budget that is stuck terminating without a finalizer is left alone by
  every strategy (strategy.go:111), against docs/controllers/nodekeeper.md:41.
- An UpgradeConfig by image is not compared with the installed release
  (validation.go:128), against docs/design.md:210, and the version found for an image
  is not written to the history, whose entry is Pending by then (validation.go:350).
- The LOCAL provider answers nothing for an UpgradeConfig without a history or one
  that is completed (localprovider.go:58), and Refresh deletes it:
  docs/controllers/upgradeconfigmanager.md:56 calls it a no-op provider.
- StartSync returns when its metrics client cannot be made, and its `break` on a done
  context leaves only the select (upgradeconfigmanager.go:135, 173), against the
  comment at line 130.
- NewAROUpgrader sets no DVO builder (aroupgrader.go:46): with the feature gate
  PreHealthCheck the check of the budgets calls a method of a nil interface
  (`HasDvo`).
- Nothing cancels the other routines of an availability check, against the comment at
  http.go:35.

## Proofs

**The operator.** `ManagedUpgradeOperatorProofs` proves, for every set of
specifications, clock bound, window, number of workers and number of restarts, with
or without a provider:

- `OperatorInvariant`: `Spec => []OperatorInv`, and from it `TypeCorrect` and the
  safety properties `KillSwitch`, `CommencedIsUpgrading`, `UpgradedIsUpgraded`,
  `TimestampsPresent`, `TimesInOrder`, and `RemoteChangeIsRefused`: the write of phase
  New after a Refresh that changed something is always refused;
- `PhaseForwardHolds`, an action property;
- `LifecycleRefinement`: `Spec => ImplementsLifecycle`.

None of the properties is inductive by itself. `OperatorInv` adds

- `ObjectInv`: which times an object, stored or copied, has in each phase, and
  that the stored ones are in order and not in the future;
- `CopyInv`: a current copy equals the stored object. Every argument that a write
  does not undo another's work rests on it;
- `ReconcileInv`: what each place in Reconcile knows of its copy, and that the
  stored object has the phase and the specification of that copy or has not been
  given a phase at all: only Reconcile gives phases, and there is one of it;
- `RefreshInv`: at `pull` a current instance has the specification Refresh read, so
  that `unchanged` with a current instance means the provider named it;
- `LicenceInv`: this confirmation is carried from the write that begins the upgrade
  over `Upgrading` to the ClusterVersion;
- `ClusterInv`: the desired version, the pool and the completed versions are
  ordered, so that a version completed once is not being rolled out again;
- `OutcomeInv`: what the upgrader found out (commenced, completed, workers updated)
  is still true when it is recorded;
- `MCPInv`: the MachineConfigPool controller works on an Upgrading copy.

The proof has one lemma per action, with one step per conjunct that the action
disturbs; the conjuncts it leaves alone follow from lemma `Frame`. For the
refinement, `StepsOfTheLifecycle` names the actions that change what the abstract
specification sees, `StatusWrites` says what each status update does to the
stored object, and `NextLifecycle` maps every step to an abstract step or a
stutter.

**The step runner.** `StepRunnerProofs`: `UpgradedComplete`, `StoppedThere`,
`CollectorSafe` and `BlamesRightly`, for any list of steps with repeated names.
`RunnerInv` says that the conditions being written and the stored ones each have their
times (`Good`), that a run has completed the steps it passed, and that what is stored
is the result of a run. The lemmas `StartProps`, `CompleteProps` and `InProgressProps`
say what each helper on the conditions does to the others. `BlamesRightly` needs
`NamesInv` too: there is one condition per name, and none of another name than a
step's.

**The steps of an upgrade.** `UpgradeRunProofs`: `LeavesNothing`, `CapacityStays`,
`NoFailureAfterCommencing`, `WorkerSilenceIsOne`, `AlarmsAreReset`, and of the scaler
alone `ExtraNodesStayRemoved`, for any machine sets, workers, faults and attempts, and
any step list that satisfies `StepListAssumption`: the steps that make and remove
things are there, in order. `UpgradeRunInv` keeps, for every step the current run has
passed, what it achieved (`Done`). Lemma `DoneStays` says that a step passed later
does not undo it, and `OrderOfSteps` that the steps which would undo it have been
passed before. `AlarmsInv` does the same for the gauges: a step that was passed has
left its own reset, and no step that follows sets it again.

**Notifications.** `NotificationsProofs`: `EndIsTold`, `StatesMoveOn`,
`PostedBeforeSent`, for any policies, any events that the steps send, and any number of
faults and deletions. `NotifyInv` has

- `UpgraderInv`: of the Notify of the controller, that the policy it has found valid is
  still in a state the event may follow when it is set. The NodeKeeper may have set a
  delay in between, and only that;
- `KeeperInv`: the policy of a delay that the NodeKeeper is about to set has been told
  a start;
- `RunInv`: what a run of the steps that is at some event has behind it;
- `OCMInv`, `CompletedInv`, `FailedInv`: what OCM has taken for the policy of the
  present UpgradeConfig against the state of that policy, the gauge and the samples: an
  end that counts as sent was taken, if the start was;
- `PostedInv`: a log that counts as sent was posted.

`EndReachesOCM` alone is not inductive, since the gauge, the samples and the place of the
run each outlive the call that set them, and a replaced UpgradeConfig finds them as its
predecessor left them. There is one lemma per action.

**Availability.** `AvailabilityCheckProofs`: `ReportsUnavailable`, for any targets
and timeout: the error is only written of a target that was given up, and never
undone.

**Health checks.** `HealthChecksProofs`, for any troubles that come and go between any
two queries, with and without the feature gate: `PassedResets` is `PassedIsZero` and
`FoundStays` is `FoundIsOne`. `HealthInv` adds which checks a health check has made and
which are to come: a check that is still to come is none whose outcome is recorded, so
that it resets no reason of one that has found something, but for the list of the nodes.

**Policies.** `PolicySyncProofs`, for any policies, releases, intervals and faults.
`BackoffStartsAnew`: only the return of a Refresh of the loop changes the counter, the
wait or the failures (`BackoffInv`). `LocalLeavesAlone`: `LocalInv` says of each
Refresh with the LOCAL provider that what it has read and answered is the
UpgradeConfig that is stored, or one that has moved on or gone since. Users who create
or edit an UpgradeConfig between the calls are not part of the module.

**Versions.** `VersionUpgradeProofs`, for every update graph whose edges lead to later
releases, any UpgradeConfigs, faults and updates of an administrator:

- `UpgradesAreUpgrades`: `ReportsAnUpgrade`. `VersionInv` has the shape of the two
  histories (`HistoryOK`, `EntryInv`); `AskedInv`: a release that is asked for and
  behind the one the cluster is on its way to has never been on its way, which the
  listing, read before the patch, guarantees as long as nobody asks in between; and
  `StuckInv`: an entry that names no earlier release as the preceding one is either
  for a release the cluster has been on, and then never found valid, or for one it
  will never be on, and then never completed. The property was stated without its two
  conditions at first, and held so on the instance of the run; the failed proof of
  `AskedInv` led to the graphs on which it does not.
- `AskedIsAnUpdate`: `AskedIsOffered`, where Cincinnati may be asked; without it a
  version of the old channel's listing may be asked for in a channel that does not
  have it. `OfferInv` says that undisturbed nothing moves before the patch, that up to
  the validation all that was read is of the first channel, and that what was
  validated is an update in the channel of the UpgradeConfig.

The other assumptions are the named ASSUMEs of the modules, which TLC evaluates in the
runs: the types of the constants, that `Nil` is none of the values it is compared
with, and the order of the steps. The inductive invariants were checked by TLC before
they were proved.

Only model-checked: the liveness properties `ScalingEnds`, `UpgradeEnds`, `PodsGo`,
`GaugeSettles`, `UpgradeCompletes`, `ValidIsCarriedOut`, `PolicyReachesCluster`,
`HealthyProceeds` and `AvailableProceeds` (liveness under fairness is out of reach
of the prover), and `FailsAfterLast` of `NodeKeeper`: the order of its strategies is the
result of sorting by insertion, over whose steps the prover has no induction.

## Not modelled

- The HTTP clients of OCM, ocm-agent, DVO and Alertmanager, the config manager and
  the Kubernetes helpers: single requests without state; what they answer, or that
  they fail, is an input.
- Which events start a Reconcile (`statuschanged_predicate.go`, the informers, the
  work queue): a Reconcile may start at any time, and the resync is the fairness.
- Parsing of semantic versions, channel names and digests in the validation; the
  queries for alerts, pods, taints and budgets: their results are inputs.
- The gauges of the upgrade result, which are only written; the printer columns and
  generated deep copies of the resource.
- The annotation that PostUpgradeProcedures sets on a FedRAMP cluster, one idempotent
  patch.
- Several policies for one cluster in OCM beside `Notifications`, histories of more than
  one version beside `VersionUpgrade`, budgets in several namespaces.
- What StartSync does when its context is done: the process ends then.
- Flags, schemes, leader election and the metrics service of `main.go`: start-up I/O.
