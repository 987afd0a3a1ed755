---------------------------- MODULE VersionUpgrade ----------------------------
(***************************************************************************)
(* How an UpgradeConfig becomes an update of the ClusterVersion: the       *)
(* validation, and the calls of the ClusterVersion client, against a       *)
(* cluster version operator (CVO) that takes its time and an update graph  *)
(* with channels.  An UpgradeConfig is replaced between two reconciles;    *)
(* what happens to it within one is the subject of                         *)
(* UpgradeConfigController.  The time of the upgrade and its window have   *)
(* come, or not, at any moment.                                            *)
(***************************************************************************)
EXTENDS Integers, FiniteSets, Sequences

CONSTANTS
    MaxVersion,   \* the releases are 1..MaxVersion, in order
    Installed,    \* the release the cluster was installed with
    Minor,        \* the minor version of a release
    Channels,     \* the channels of the update graph
    FirstChannel, \* the channel of the ClusterVersion at first
    Graph,        \* per channel: the edges of the update graph
    Risky,        \* the releases that are only conditional updates
    UpgradeConfigs, \* the specs that may be asked for
    Cincinnati,   \* validation.cincinnati of the ConfigMap
    Window,       \* upgradeWindow.timeOut is set
    MaxFaults,    \* bound: calls that fail
    MaxAdmin,     \* bound: updates an administrator asks the ClusterVersion for
    MaxUCs        \* bound: UpgradeConfigs after the first

Versions == 1..MaxVersion
None == 0

ASSUME VersionAssumption ==
    /\ MaxVersion \in Nat /\ Installed \in Versions /\ Minor \in [Versions -> Nat]
    /\ Graph \in [Channels -> SUBSET (Versions \X Versions)]
    /\ \A c \in Channels : \A e \in Graph[c] : e[1] < e[2]
    /\ FirstChannel \in Channels /\ Risky \subseteq Versions
    /\ UpgradeConfigs \subseteq [version : Versions \cup {None}, channel : Channels,
                                 image : Versions \cup {None}]

VARIABLES
    uc,          \* the spec of the UpgradeConfig; an image is known by its release
    hist,        \* status.history of the UpgradeConfig
    cv,          \* the ClusterVersion: channel and desired update of its spec,
                 \* desired release and history of its status
    updates,     \* the updates listed in its status
    upgradeable, \* the condition Upgradeable of its status
    call,        \* where Reconcile is, and the ClusterVersion it has read
    crossed,     \* history variable: an administrator asked for an update between
                 \* GetClusterVersion and Patch
    faults, admin, ucs

vars == <<uc, hist, cv, updates, upgradeable, call, crossed, faults, admin, ucs>>
clusterVars == <<cv, updates, upgradeable>>

Idle == [at |-> "idle"]
Phases == {"New", "Pending", "Upgrading", "Upgraded", "Failed"}

Successors(channel, v) == {w \in Versions : <<v, w>> \in Graph[channel]}

Listed(channel, v) == [available |-> Successors(channel, v) \ Risky,
                       conditional |-> Successors(channel, v) \cap Risky]

Init ==
    /\ uc \in UpgradeConfigs
    /\ hist = <<>>
    /\ cv = [channel |-> FirstChannel, version |-> None, image |-> None, target |-> Installed,
             history |-> << [version |-> Installed, completed |-> 1] >>]
    /\ updates = Listed(FirstChannel, Installed)
    /\ upgradeable \in BOOLEAN
    /\ call = Idle /\ crossed = FALSE /\ faults = 0 /\ admin = 0 /\ ucs = 0

--------------------------------------------------------------------------------
\* The ClusterVersion client.

HasUpgradeCommenced == IF uc.image # None THEN cv.image = uc.image
                       ELSE cv.version = uc.version

Completed(c) == {i \in DOMAIN c.history : c.history[i].completed # None}

HasUpgradeCompleted == \E i \in Completed(cv) : cv.history[i].version = uc.version

\* Of the completed releases the one completed last.
GetCurrentVersion(c) ==
    c.history[CHOOSE i \in Completed(c) :
                  \A j \in Completed(c) : c.history[j].completed <= c.history[i].completed].version

\* Faulty variant: the release the cluster is on its way to.
PrecedingTarget(c) == c.target

\* The history of the ClusterVersion has its latest entry first.
GetPrecedingVersion(c) ==
    LET others == {i \in Completed(c) : c.history[i].version # uc.version} IN
    IF c.target = uc.version /\ others # {}
    THEN c.history[CHOOSE i \in others : \A j \in others : i <= j].version
    ELSE c.target

--------------------------------------------------------------------------------

EntryIndex(v) == CHOOSE i \in DOMAIN hist : /\ hist[i].version = v
                                            /\ \A j \in 1..i - 1 : hist[j].version # v
HasEntry(v) == \E i \in DOMAIN hist : hist[i].version = v
Entry == hist[EntryIndex(uc.version)]

SetHistory(h) ==
    hist' = IF HasEntry(h.version) THEN [hist EXCEPT ![EntryIndex(h.version)] = h]
            ELSE <<h>> \o hist

Goto(at) == call' = [call EXCEPT !.at = at]

Fail ==
    /\ faults < MaxFaults /\ faults' = faults + 1
    /\ call' = Idle

\* The UpgradeConfig is read, then the ClusterVersion.
ReconcileGet ==
    /\ call = Idle
    /\ call' = [at |-> IF HasEntry(uc.version) THEN Entry.phase ELSE "history",
                cv |-> cv, updates |-> updates,
                entry |-> IF HasEntry(uc.version) THEN Entry ELSE <<>>]
    /\ UNCHANGED <<uc, hist, clusterVars, crossed, faults, admin, ucs>>

ReconcileHistory ==
    /\ call.at = "history"
    /\ LET phase == IF HasUpgradeCommenced THEN "Upgrading" ELSE "New" IN
       /\ SetHistory([version |-> uc.version, phase |-> phase,
                      preceding |-> GetPrecedingVersion(call.cv)])
       /\ Goto(phase)
    /\ UNCHANGED <<uc, clusterVars, crossed, faults, admin, ucs>>

ReconcileNew ==
    /\ call.at = "New"
    /\ SetHistory([Entry EXCEPT !.phase = "Pending"])
    /\ call' = Idle
    /\ UNCHANGED <<uc, clusterVars, crossed, faults, admin, ucs>>

--------------------------------------------------------------------------------
\* The validation, of what was read when Reconcile began.

versionValidation == uc.version > GetCurrentVersion(call.cv)

\* Faulty variant: Cincinnati is not asked.
AvailableUnlessChannel ==
    uc.channel = call.cv.channel => uc.version \in call.updates.available \cup call.updates.conditional

\* In another channel than the cluster's, Cincinnati is asked if it may be; in the same
\* one the CVO has to list the update.
IsAvailableUpdate ==
    IF uc.channel # call.cv.channel
    THEN Cincinnati => uc.version \in Successors(uc.channel, GetCurrentVersion(call.cv))
    ELSE uc.version \in call.updates.available \cup call.updates.conditional

ValidateVersion ==
    /\ call.at = "Pending" /\ uc.image = None
    /\ IF versionValidation /\ IsAvailableUpdate THEN Goto("valid") ELSE call' = Idle
    /\ UNCHANGED <<uc, hist, clusterVars, crossed, faults, admin, ucs>>

\* Cincinnati does not answer.
ValidateVersionFails ==
    /\ call.at = "Pending" /\ uc.image = None
    /\ versionValidation /\ Cincinnati /\ uc.channel # call.cv.channel
    /\ Fail
    /\ UNCHANGED <<uc, hist, clusterVars, crossed, admin, ucs>>

\* The release of an image is written to the spec if it is another one there.  Then the
\* latest of the history's entries that are New, if any, becomes the first entry, for
\* this release.
ValidateImage ==
    /\ call.at = "Pending" /\ uc.image # None
    /\ uc' = [uc EXCEPT !.version = uc.image]
    /\ LET new == {i \in DOMAIN hist : hist[i].phase = "New"} IN
       hist' = IF HasEntry(uc.image) \/ new = {} THEN hist
               ELSE [hist EXCEPT ![1] = [hist[CHOOSE i \in new : \A j \in new : j <= i]
                                           EXCEPT !.version = uc.image]]
    /\ Goto("valid")
    /\ UNCHANGED <<clusterVars, crossed, faults, admin, ucs>>

\* The registry does not answer, or the new spec is not accepted.
ValidateImageFails ==
    /\ call.at = "Pending" /\ uc.image # None
    /\ Fail
    /\ UNCHANGED <<uc, hist, clusterVars, crossed, admin, ucs>>

\* The time has come: the entry that was read is written for the version of the spec.
ReconcileReady ==
    /\ call.at = "valid"
    /\ SetHistory([call.entry EXCEPT !.phase = "Upgrading", !.version = uc.version])
    /\ Goto("Upgrading")
    /\ UNCHANGED <<uc, clusterVars, crossed, faults, admin, ucs>>

ReconcileWait ==
    /\ call.at = "valid" /\ call' = Idle
    /\ UNCHANGED <<uc, hist, clusterVars, crossed, faults, admin, ucs>>

--------------------------------------------------------------------------------
\* The upgrade.

ShouldFailUpgrade ==
    /\ call.at = "Upgrading" /\ Window /\ ~HasUpgradeCommenced
    /\ SetHistory([Entry EXCEPT !.phase = "Failed"])
    /\ call' = Idle
    /\ UNCHANGED <<uc, clusterVars, crossed, faults, admin, ucs>>

\* A cluster that says it is not upgradeable is held back from the next minor version; a
\* version that is missing is an error.
IsUpgradeable ==
    /\ call.at = "Upgrading"
    /\ IF \/ HasUpgradeCommenced
          \/ uc.version # None /\ (upgradeable \/ Minor[uc.version] <= Minor[GetCurrentVersion(cv)])
       THEN Goto("commence") ELSE call' = Idle
    /\ UNCHANGED <<uc, hist, clusterVars, crossed, faults, admin, ucs>>

\* CommenceUpgrade up to the first write: an image is asked for at once, for a version
\* the channel is set first, if need be.
CommenceUpgrade ==
    /\ call.at = "commence"
    /\ \/ HasUpgradeCommenced /\ Goto("controlplane") /\ UNCHANGED cv
       \/ /\ ~HasUpgradeCommenced /\ uc.image # None
          /\ cv' = [cv EXCEPT !.image = uc.image, !.version = None]
          /\ Goto("controlplane")
       \/ /\ ~HasUpgradeCommenced /\ uc.image = None
          /\ cv' = [cv EXCEPT !.channel = uc.channel]
          /\ Goto("list")
    /\ UNCHANGED <<uc, hist, updates, upgradeable, crossed, faults, admin, ucs>>

\* The ClusterVersion is read, perhaps before the CVO has seen the new channel.
GetClusterVersion ==
    /\ call.at = "list"
    /\ call' = [call EXCEPT !.at = "patch", !.updates = updates]
    /\ UNCHANGED <<uc, hist, clusterVars, crossed, faults, admin, ucs>>

\* Faulty variant: what is not listed yet will be.
PatchUnlisted ==
    /\ call.at = "patch"
    /\ LET image == IF uc.version \in call.updates.conditional THEN uc.version ELSE None IN
       cv' = [cv EXCEPT !.version = uc.version, !.image = image]
    /\ Goto("controlplane")
    /\ UNCHANGED <<uc, hist, updates, upgradeable, crossed, faults, admin, ucs>>

\* The version is asked for if it is listed, by its image if it is not recommended.
\* The patch does not depend on what has been written since the read.
Patch ==
    /\ call.at = "patch"
    /\ LET image == IF uc.version \in call.updates.conditional THEN uc.version ELSE None IN
       IF uc.version \in call.updates.available \cup call.updates.conditional
       THEN cv' = [cv EXCEPT !.version = uc.version, !.image = image] /\ Goto("controlplane")
       ELSE cv' = cv /\ call' = Idle
    /\ UNCHANGED <<uc, hist, updates, upgradeable, crossed, faults, admin, ucs>>

ControlPlaneUpgraded ==
    /\ call.at = "controlplane"
    /\ IF HasUpgradeCompleted THEN SetHistory([Entry EXCEPT !.phase = "Upgraded"])
       ELSE hist' = hist
    /\ call' = Idle
    /\ UNCHANGED <<uc, clusterVars, crossed, faults, admin, ucs>>

ReconcileEnds ==
    /\ call.at \in {"Upgraded", "Failed"}
    /\ call' = Idle
    /\ UNCHANGED <<uc, hist, clusterVars, crossed, faults, admin, ucs>>

\* Any call of the steps may fail; the writes before it stay.
StepFails ==
    /\ call.at \in {"Upgrading", "commence", "list", "patch", "controlplane"}
    /\ Fail
    /\ UNCHANGED <<uc, hist, clusterVars, crossed, admin, ucs>>

--------------------------------------------------------------------------------
\* The cluster.

\* The CVO takes up what the spec asks for: an image, or a version it recommends.
Asked == IF cv.image # None THEN cv.image ELSE cv.version

CVOStarts ==
    /\ Asked \notin {None, cv.target}
    /\ cv.image # None \/ cv.version \in updates.available
    /\ cv' = [cv EXCEPT !.target = Asked,
                        !.history = << [version |-> Asked, completed |-> None] >> \o @]
    /\ updates' = Listed(cv.channel, Asked)
    /\ UNCHANGED <<uc, hist, upgradeable, call, crossed, faults, admin, ucs>>

CVOCompletes ==
    /\ Head(cv.history).completed = None
    /\ cv' = [cv EXCEPT !.history[1].completed = Len(cv.history)]
    /\ UNCHANGED <<uc, hist, updates, upgradeable, call, crossed, faults, admin, ucs>>

CVOSyncs ==
    /\ updates' = Listed(cv.channel, cv.target) /\ updates' # updates
    /\ UNCHANGED <<uc, hist, cv, upgradeable, call, crossed, faults, admin, ucs>>

Upgradeable ==
    /\ upgradeable' = ~upgradeable
    /\ UNCHANGED <<uc, hist, cv, updates, call, crossed, faults, admin, ucs>>

\* oc adm upgrade
AdminUpgrades ==
    /\ admin < MaxAdmin /\ admin' = admin + 1
    /\ \E v \in updates.available : cv' = [cv EXCEPT !.version = v, !.image = None]
    /\ crossed' = (crossed \/ call.at = "patch")
    /\ UNCHANGED <<uc, hist, updates, upgradeable, call, faults, ucs>>

ReplaceUpgradeConfig ==
    /\ call = Idle /\ ucs < MaxUCs /\ ucs' = ucs + 1
    /\ uc' \in UpgradeConfigs /\ hist' = <<>>
    /\ UNCHANGED <<clusterVars, call, crossed, faults, admin>>

Next ==
    \/ ReconcileGet \/ ReconcileHistory \/ ReconcileNew
    \/ ValidateVersion \/ ValidateVersionFails \/ ValidateImage \/ ValidateImageFails
    \/ ReconcileReady \/ ReconcileWait \/ ShouldFailUpgrade \/ IsUpgradeable
    \/ CommenceUpgrade \/ GetClusterVersion \/ Patch \/ ControlPlaneUpgraded
    \/ ReconcileEnds \/ StepFails
    \/ CVOStarts \/ CVOCompletes \/ CVOSyncs \/ Upgradeable
    \/ AdminUpgrades \/ ReplaceUpgradeConfig

SafetySpec == Init /\ [][Next]_vars

\* Reconcile is run again and again and its calls fail a bounded number of times; the
\* upgrade's time comes; the CVO does its work.
Fairness ==
    /\ WF_vars(ReconcileGet) /\ WF_vars(ReconcileHistory) /\ WF_vars(ReconcileNew)
    /\ WF_vars(ValidateVersion) /\ WF_vars(ValidateImage) /\ SF_vars(ReconcileReady)
    /\ WF_vars(IsUpgradeable) /\ WF_vars(CommenceUpgrade) /\ WF_vars(GetClusterVersion)
    /\ WF_vars(Patch) /\ WF_vars(ControlPlaneUpgraded) /\ WF_vars(ReconcileEnds)
    /\ WF_vars(CVOStarts) /\ WF_vars(CVOCompletes) /\ WF_vars(CVOSyncs)

Spec == SafetySpec /\ Fairness

--------------------------------------------------------------------------------

\* Nobody else asks for an update, and the UpgradeConfig is the first one.
Undisturbed == admin = 0 /\ ucs = 0

\* What the operator asks the ClusterVersion for, undisturbed, is an update of the
\* release that is installed, in the channel of the ClusterVersion, though the listing
\* that runUpgradeWithChannelVersion goes by may still be that of an earlier channel; an
\* update that is not recommended is asked for by its image.
AskedIsOffered ==
    [][Patch /\ cv' # cv /\ Undisturbed =>
        /\ uc.version \in Successors(cv.channel, cv.target)
        /\ (uc.version \in Risky) = (cv'.image # None)]_vars

\* The cluster has only ever gone to a later release.  An image, or an update that is not
\* recommended, may take it back.
OnlyRisen ==
    \A i, j \in DOMAIN cv.history : i < j => cv.history[j].version < cv.history[i].version

\* On a cluster that has only risen, an upgrade by version that is recorded as such was
\* one: to a later release than the one the history says it came from, also if the
\* UpgradeConfig was replaced on the way and an administrator upgraded meanwhile, unless
\* that was between the listing and the patch (GetPrecedingVersion, the validation).
ReportsAnUpgrade ==
    uc.image = None /\ OnlyRisen /\ ~crossed =>
        \A i \in DOMAIN hist : hist[i].phase = "Upgraded" => hist[i].preceding < hist[i].version

\* An UpgradeConfig that is found valid is carried out, undisturbed, if the cluster stays
\* upgradeable, unless its window closes first: a failed call between the patch of the
\* channel and that of the version, and a CVO that is late, delay it and no more
\* (EnsureDesiredConfig).
ValidIsCarriedOut ==
    (<>[]upgradeable /\ []Undisturbed) =>
        (call.at = "valid" ~> HasEntry(uc.version) /\ Entry.phase \in {"Upgraded", "Failed"})

=============================================================================
