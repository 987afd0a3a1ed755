------------------------- MODULE VersionUpgradeProofs -------------------------
(***************************************************************************)
(* What the history of an UpgradeConfig says of the upgrade, for any       *)
(* update graph, any UpgradeConfigs that follow each other and any number  *)
(* of updates and faults.                                                  *)
(***************************************************************************)
EXTENDS VersionUpgrade, WellFoundedInduction, TLAPS

Places == {"history", "New", "Pending", "valid", "Upgrading", "commence", "list", "patch", "controlplane",
           "Upgraded", "Failed"}

Specs == [version : Versions \cup {None}, channel : Channels, image : Versions \cup {None}]
Releases == [version : Versions, completed : Nat]
CVs == [channel : Channels, version : Versions \cup {None}, image : Versions \cup {None},
        target : Versions, history : Seq(Releases)]
Listings == [available : SUBSET Versions, conditional : SUBSET Versions]
Entries == [version : Versions \cup {None}, phase : Phases, preceding : Versions]

Calls == [at : Places, cv : CVs, updates : Listings, entry : Entries \cup {<<>>}]

Offered(u) == u.available \cup u.conditional
InHistory(h, v) == \E i \in DOMAIN h : h[i].version = v
DoneIn(h, v) == \E i \in DOMAIN h : h[i].completed # None /\ h[i].version = v
Risen(h) == \A i, j \in DOMAIN h : i < j => h[j].version < h[i].version

\* The history of a ClusterVersion: the release it is on its way to comes first, the
\* installed one last, and they are completed in turn.
HistoryOK(c) ==
    /\ Len(c.history) >= 1
    /\ c.target = c.history[1].version
    /\ c.history[Len(c.history)].version = Installed /\ c.history[Len(c.history)].completed = 1
    /\ \A i \in DOMAIN c.history : c.history[i].completed \in {0, Len(c.history) - i + 1}

VersionTypes ==
    /\ uc \in Specs /\ cv \in CVs /\ updates \in Listings /\ hist \in Seq(Entries) /\ crossed \in BOOLEAN
    /\ call = Idle \/ call \in Calls
    /\ HistoryOK(cv)
    /\ call # Idle => /\ HistoryOK(call.cv)
                      /\ call.at \notin {"history", "valid"} => HasEntry(uc.version)
                      /\ call.at \in {"Pending", "valid"} => call.entry \in Entries
    /\ \A v \in Offered(updates) : cv.target < v

\* An UpgradeConfig by version has one entry, once Reconcile has made it.
EntryInv ==
    uc.image = None =>
        /\ Len(hist) <= 1
        /\ Len(hist) = 1 => hist[1].version = uc.version
        /\ call # Idle => (Len(hist) = 0 <=> call.at = "history")
        /\ call.at \in {"Pending", "valid"} => call.entry = hist[1]

Calm == OnlyRisen /\ ~crossed

\* Between the listing and the patch the CVO may go to what was asked for before.
ListedInv ==
    \A v \in Offered(call.updates) :
        /\ Installed < v
        /\ \/ cv.target < v
           \/ Asked = cv.target /\ (InHistory(cv.history, v) => v = cv.target)

\* A release that is asked for and behind the one the cluster is on its way to has never
\* been on its way.
AskedInv ==
    Calm =>
        /\ cv.version # None => /\ Installed < cv.version
                                /\ cv.version < cv.target => ~InHistory(cv.history, cv.version)
                                /\ cv.image \in {None, cv.version}
        /\ call # Idle => Risen(call.cv.history) /\ call.cv.target <= cv.target
        /\ call.at = "patch" => ListedInv

\* Where the entry says that the upgrade came from no earlier release, its release is one the
\* cluster has been on, and then the entry is not found valid, or one it will never be on.
StuckInv ==
    (Calm /\ uc.image = None /\ Len(hist) = 1 /\ hist[1].version <= hist[1].preceding) =>
        /\ uc.version <= cv.target
        /\ uc.version = cv.target => DoneIn(cv.history, uc.version)
        /\ DoneIn(cv.history, uc.version) =>
            /\ hist[1].phase \in {"New", "Pending"}
            /\ \/ call = Idle \/ call.at = "New"
               \/ call.at = "Pending" /\ DoneIn(call.cv.history, uc.version)
        /\ hist[1].phase # "Upgraded"

VersionInv == VersionTypes /\ EntryInv /\ AskedInv /\ StuckInv

\* The listings of the installed release that Reconcile may go by.
FirstListing == Listed(FirstChannel, Installed)
NewListing == Listed(uc.channel, Installed)

AtFirst(c) == c.target = Installed /\ Len(c.history) = 1

\* The entry has not been found valid yet, and the channel is the first one.
Early == Len(hist) = 0 \/ hist[1].phase \in {"New", "Pending"}

\* Where Reconcile is and what it has written.
PhaseInv ==
    (uc.image = None) =>
        /\ call.at \in Phases => Len(hist) = 1 /\ hist[1].phase = call.at
        /\ call.at = "valid" => Len(hist) = 1 /\ hist[1].phase = "Pending"
        /\ call.at \in {"commence", "list", "patch", "controlplane"} => Len(hist) = 1 /\ hist[1].phase = "Upgrading"

\* Nothing has been asked for before the patch, and what was validated is an update in the
\* channel of the UpgradeConfig.
FirstAsked ==
    /\ cv.version \in {None, uc.version}
    /\ call.at \in {"list", "patch"} => cv.version = None /\ uc.version # None /\ cv.channel = uc.channel
    /\ cv.version = None =>
        /\ cv.image = None /\ AtFirst(cv) /\ updates \in {FirstListing, NewListing}
        /\ call # Idle => AtFirst(call.cv) /\ call.updates \in {FirstListing, NewListing}
        /\ Early => /\ cv.channel = FirstChannel /\ updates = FirstListing
                    /\ call # Idle => call.cv.channel = FirstChannel /\ call.updates = FirstListing
        /\ cv.channel \in {FirstChannel, uc.channel}
        /\ (uc.version # None /\ ~Early) \/ call.at = "valid" => uc.version \in Successors(uc.channel, Installed)

OfferInv ==
    /\ admin \in Nat /\ ucs \in Nat
    /\ call.at \in {"list", "patch"} => uc.image = None
    /\ (Undisturbed /\ uc.image = None) => FirstAsked

--------------------------------------------------------------------------------
\* Histories of ClusterVersions.

LEMMA Least == ASSUME NEW S, S \subseteq Nat, S # {} PROVE \E i \in S : \A j \in S : i <= j
<1>1. PICK i \in S : \A j \in S : ~(<<j, i>> \in OpToRel(<, Nat))
    BY NatLessThanWellFounded, WFMin
<1>2. \A j \in S : ~(j < i)
    BY <1>1 DEF OpToRel
<1>3. \A j \in S : i <= j
    BY <1>2
<1> QED BY <1>3

LEMMA HistoryFacts ==
    ASSUME NEW c \in CVs, HistoryOK(c)
    PROVE  /\ DOMAIN c.history = 1..Len(c.history) /\ Len(c.history) \in Nat \ {0}
           /\ 1 \in DOMAIN c.history /\ Len(c.history) \in DOMAIN c.history
           /\ \A i \in DOMAIN c.history : c.history[i] \in Releases /\ c.history[i].version \in Versions
                                          /\ c.history[i].completed \in Nat
           /\ Versions \subseteq Nat \ {0}
<1>1. c.history \in Seq(Releases)
    BY DEF CVs
<1>2. DOMAIN c.history = 1..Len(c.history) /\ Len(c.history) \in Nat
    BY <1>1
<1>3. Len(c.history) # 0 /\ 1 \in DOMAIN c.history /\ Len(c.history) \in DOMAIN c.history
    BY <1>2 DEF HistoryOK
<1>4. ASSUME NEW i \in DOMAIN c.history
      PROVE  c.history[i] \in Releases /\ c.history[i].version \in Versions /\ c.history[i].completed \in Nat
    <2>1. c.history[i] \in Releases
        BY <1>1, <1>4
    <2> QED BY <2>1 DEF Releases
<1>5. Versions \subseteq Nat \ {0}
    BY VersionAssumption DEF Versions
<1> QED BY <1>2, <1>3, <1>4, <1>5

\* The completed releases are completed in the order of the history.
LEMMA CurrentFacts ==
    ASSUME NEW c \in CVs, HistoryOK(c)
    PROVE  /\ GetCurrentVersion(c) \in Versions
           /\ Risen(c.history) => \A v : DoneIn(c.history, v) => v <= GetCurrentVersion(c)
<1> DEFINE h == c.history
<1> DEFINE L == Len(c.history)
<1>1. DOMAIN h = 1..L /\ L \in Nat \ {0} /\ L \in DOMAIN h /\ Versions \subseteq Nat \ {0}
    BY HistoryFacts
<1>2. \A i \in DOMAIN h : h[i].version \in Versions /\ h[i].completed \in {0, L - i + 1}
    BY HistoryFacts DEF HistoryOK
<1>3. Completed(c) \subseteq DOMAIN h /\ \A i \in Completed(c) : h[i].completed = L - i + 1
    BY <1>2 DEF Completed, None
<1>4. L \in Completed(c)
    BY <1>1 DEF Completed, HistoryOK, None
<1> HIDE DEF h, L
<1>5. PICK m \in Completed(c) : \A j \in Completed(c) : m <= j
    <2>1. Completed(c) \subseteq Nat
        BY <1>1, <1>3
    <2> QED BY <1>4, <2>1, Least
<1>6. \A j \in Completed(c) : h[j].completed <= h[m].completed
    BY <1>1, <1>3, <1>5
<1> DEFINE i == CHOOSE k \in Completed(c) : \A j \in Completed(c) : h[j].completed <= h[k].completed
<1>7. i \in Completed(c) /\ \A j \in Completed(c) : h[j].completed <= h[i].completed
    BY <1>5, <1>6
<1>8. GetCurrentVersion(c) = h[i].version
    BY DEF GetCurrentVersion, h
<1> HIDE DEF i
<1>9. \A j \in Completed(c) : i <= j
    BY <1>1, <1>3, <1>7
<1>10. ASSUME Risen(h), NEW v, DoneIn(h, v) PROVE v <= GetCurrentVersion(c)
    <2>1. PICK j \in Completed(c) : h[j].version = v
        BY <1>10 DEF DoneIn, Completed, h
    <2>2. i = j \/ (i < j /\ h[j].version < h[i].version)
        BY <1>1, <1>3, <1>7, <1>9, <1>10, <2>1 DEF Risen
    <2>3. h[j].version \in Nat /\ h[i].version \in Nat
        BY <1>1, <1>2, <1>3, <1>7, <2>1
    <2> QED BY <1>8, <2>1, <2>2, <2>3
<1> QED BY <1>2, <1>3, <1>7, <1>8, <1>10 DEF h

\* The preceding release is an earlier one, or it is the one the cluster is on its way to.
LEMMA PrecedingFacts ==
    ASSUME NEW c \in CVs, HistoryOK(c)
    PROVE  /\ GetPrecedingVersion(c) \in Versions
           /\ Risen(c.history) => \/ GetPrecedingVersion(c) < uc.version
                                  \/ GetPrecedingVersion(c) = c.target /\ (c.target = uc.version => uc.version = Installed)
<1> DEFINE h == c.history
<1> DEFINE others == {i \in Completed(c) : h[i].version # uc.version}
<1>1. /\ DOMAIN h = 1..Len(h) /\ Len(h) \in Nat \ {0} /\ Len(h) \in DOMAIN h /\ 1 \in DOMAIN h
      /\ c.target = h[1].version
      /\ \A i \in DOMAIN h : h[i].version \in Versions
    BY HistoryFacts DEF HistoryOK
<1>2. others \subseteq DOMAIN h
    BY DEF Completed
<1>3. CASE c.target = uc.version /\ others # {}
    <2> DEFINE i == CHOOSE k \in others : \A j \in others : k <= j
    <2>1. i \in others
        <3>1. others \subseteq Nat
            BY <1>1, <1>2
        <3> HIDE DEF others
        <3> QED BY <1>3, <3>1, Least
    <2>2. GetPrecedingVersion(c) = h[i].version
        BY <1>3 DEF GetPrecedingVersion
    <2>3. i \in DOMAIN h /\ h[i].version # uc.version
        BY <1>2, <2>1
    <2> HIDE DEF i, h
    <2>4. Risen(h) => h[i].version < h[1].version
        <3>1. i # 1 /\ i \in 1..Len(h)
            BY <1>1, <1>3, <2>3
        <3>2. 1 < i
            BY <1>1, <3>1
        <3> QED BY <1>1, <2>3, <3>2 DEF Risen
    <2> QED BY <1>1, <1>3, <2>2, <2>3, <2>4 DEF h
<1>4. CASE ~(c.target = uc.version /\ others # {})
    <2>1. GetPrecedingVersion(c) = c.target
        BY <1>4 DEF GetPrecedingVersion
    <2>2. c.target = uc.version => uc.version = Installed
        BY <1>1, <1>4 DEF HistoryOK, Completed, None
    <2> QED BY <1>1, <2>1, <2>2
<1> QED BY <1>3, <1>4

\* On a cluster that has only risen every release in the history is at most the one it is on
\* its way to.
LEMMA RisenFacts ==
    ASSUME NEW c \in CVs, HistoryOK(c), Risen(c.history)
    PROVE  /\ Installed <= c.target
           /\ \A v : InHistory(c.history, v) => v <= c.target
<1> DEFINE h == c.history
<1>1. /\ DOMAIN h = 1..Len(h) /\ Len(h) \in Nat \ {0} /\ Len(h) \in DOMAIN h /\ 1 \in DOMAIN h
      /\ c.target = h[1].version /\ h[Len(h)].version = Installed
      /\ \A i \in DOMAIN h : h[i].version \in Versions
      /\ Versions \subseteq Nat \ {0}
    BY HistoryFacts DEF HistoryOK
<1> HIDE DEF h
<1>2. ASSUME NEW i \in DOMAIN h PROVE h[i].version <= h[1].version
    <2>1. i = 1 \/ 1 < i
        BY <1>1
    <2>2. i = 1 \/ h[i].version < h[1].version
        BY <1>1, <2>1 DEF Risen, h
    <2>3. h[i].version \in Nat /\ h[1].version \in Nat
        BY <1>1
    <2> QED BY <2>2, <2>3
<1> QED BY <1>1, <1>2 DEF InHistory, h

\* Updates go to later releases.
LEMMA ListedFacts ==
    ASSUME NEW c \in Channels, NEW v \in Versions
    PROVE  Listed(c, v) \in Listings /\ \A w \in Offered(Listed(c, v)) : v < w
<1>1. \A w \in Successors(c, v) : w \in Versions /\ v < w
    <2> SUFFICES ASSUME NEW w \in Successors(c, v) PROVE w \in Versions /\ v < w
        OBVIOUS
    <2>1. w \in Versions /\ <<v, w>> \in Graph[c]
        BY DEF Successors
    <2>2. <<v, w>>[1] < <<v, w>>[2]
        BY <2>1, VersionAssumption
    <2> QED BY <2>1, <2>2
<1> QED BY <1>1 DEF Listed, Listings, Offered

\* The CVO takes up what it is asked for.
LEMMA StartsFacts ==
    ASSUME VersionTypes, CVOStarts
    PROVE  /\ cv' \in CVs /\ HistoryOK(cv') /\ cv'.version = cv.version /\ cv'.image = cv.image
           /\ cv'.target = Asked /\ Asked # cv.target
           /\ \A v : InHistory(cv'.history, v) <=> v = Asked \/ InHistory(cv.history, v)
           /\ \A v : DoneIn(cv'.history, v) <=> DoneIn(cv.history, v)
           /\ Risen(cv'.history) => Risen(cv.history) /\ cv.target < Asked
           /\ updates' \in Listings /\ \A v \in Offered(updates') : cv'.target < v
<1> DEFINE h == cv.history
<1> DEFINE e == [version |-> Asked, completed |-> None]
<1> DEFINE g == <<e>> \o h
<1>1. cv \in CVs /\ HistoryOK(cv) /\ h \in Seq(Releases) /\ 1 \in DOMAIN h /\ Len(h) \in Nat \ {0}
      /\ DOMAIN h = 1..Len(h)
    BY HistoryFacts DEF VersionTypes, CVs
<1>2. Asked \in Versions /\ Asked # cv.target
    BY <1>1 DEF CVOStarts, Asked, CVs
<1>3. e \in Releases
    BY <1>2 DEF Releases, None
<1>4. /\ g \in Seq(Releases) /\ Len(g) = Len(h) + 1 /\ DOMAIN g = 1..(Len(h) + 1) /\ g[1] = e
      /\ \A i \in DOMAIN h : i + 1 \in DOMAIN g /\ g[i + 1] = h[i]
    BY <1>1, <1>3
<1>5. /\ cv'.version = cv.version /\ cv'.image = cv.image /\ cv'.channel = cv.channel
      /\ cv'.target = Asked /\ cv'.history = g
    BY <1>1 DEF CVOStarts, CVs
<1>6. cv' \in CVs
    <2>1. cv' = [cv EXCEPT !.target = Asked, !.history = g]
        BY DEF CVOStarts
    <2> HIDE DEF g
    <2> QED BY <1>1, <1>2, <1>4, <2>1 DEF CVs
<1>7. e.version = Asked /\ e.completed = None
    OBVIOUS
<1> HIDE DEF e, g
<1>8. \A k \in DOMAIN g : k = 1 \/ (k - 1 \in DOMAIN h /\ g[k] = h[k - 1])
    <2> SUFFICES ASSUME NEW k \in DOMAIN g, k # 1 PROVE k - 1 \in DOMAIN h /\ g[k] = h[k - 1]
        OBVIOUS
    <2>1. k - 1 \in DOMAIN h /\ (k - 1) + 1 = k
        BY <1>1, <1>4
    <2> QED BY <1>4, <2>1
<1>9. HistoryOK(cv')
    <2>1. g[Len(g)] = h[Len(h)]
        BY <1>1, <1>4
    <2>2. \A i \in DOMAIN g : g[i].completed \in {0, Len(g) - i + 1}
        <3> SUFFICES ASSUME NEW i \in DOMAIN g, i # 1 PROVE g[i].completed \in {0, Len(g) - i + 1}
            BY <1>4, <1>7 DEF None
        <3>1. h[i - 1].completed \in {0, Len(h) - (i - 1) + 1}
            BY <1>1, <1>8 DEF HistoryOK
        <3>2. Len(h) - (i - 1) + 1 = Len(g) - i + 1
            BY <1>1, <1>4
        <3> QED BY <1>8, <3>1, <3>2
    <2> QED BY <1>1, <1>4, <1>5, <1>7, <2>1, <2>2 DEF HistoryOK
<1>10. \A v : InHistory(g, v) <=> v = Asked \/ InHistory(h, v)
    <2>1. 1 \in DOMAIN g
        BY <1>1, <1>4
    <2> QED BY <1>4, <1>7, <1>8, <2>1 DEF InHistory
<1>11. \A v : DoneIn(g, v) <=> DoneIn(h, v)
    BY <1>4, <1>7, <1>8 DEF DoneIn
<1>12. Risen(g) => Risen(h) /\ cv.target < Asked
    <2> SUFFICES ASSUME Risen(g) PROVE Risen(h) /\ cv.target < Asked
        OBVIOUS
    <2>1. ASSUME NEW i \in DOMAIN h, NEW j \in DOMAIN h, i < j PROVE h[j].version < h[i].version
        <3>1. i + 1 \in DOMAIN g /\ j + 1 \in DOMAIN g /\ i + 1 < j + 1 /\ g[i + 1] = h[i] /\ g[j + 1] = h[j]
            BY <1>1, <1>4, <2>1
        <3> QED BY <3>1 DEF Risen
    <2>2. 1 \in DOMAIN g /\ 2 \in DOMAIN g /\ 1 < 2 /\ g[2] = h[1]
        BY <1>1, <1>4
    <2>3. g[2].version < g[1].version
        BY <2>2 DEF Risen
    <2>4. cv.target = h[1].version
        BY <1>1 DEF HistoryOK
    <2> QED BY <1>4, <1>7, <2>1, <2>2, <2>3, <2>4 DEF Risen
<1>13. updates' \in Listings /\ \A v \in Offered(updates') : Asked < v
    <2>1. updates' = Listed(cv.channel, Asked) /\ cv.channel \in Channels
        BY <1>1 DEF CVOStarts, CVs
    <2> QED BY <1>2, <2>1, ListedFacts
<1> QED BY <1>2, <1>5, <1>6, <1>9, <1>10, <1>11, <1>12, <1>13

\* The CVO completes it.
LEMMA CompletesFacts ==
    ASSUME VersionTypes, CVOCompletes
    PROVE  /\ cv' \in CVs /\ HistoryOK(cv') /\ cv'.version = cv.version /\ cv'.image = cv.image
           /\ cv'.target = cv.target
           /\ \A v : InHistory(cv'.history, v) <=> InHistory(cv.history, v)
           /\ \A v : DoneIn(cv.history, v) => DoneIn(cv'.history, v)
           /\ \A v : DoneIn(cv'.history, v) => v = cv.target \/ DoneIn(cv.history, v)
           /\ Risen(cv'.history) <=> Risen(cv.history)
<1> DEFINE h == cv.history
<1> DEFINE g == [h EXCEPT ![1].completed = Len(h)]
<1>1. cv \in CVs /\ HistoryOK(cv) /\ h \in Seq(Releases) /\ 1 \in DOMAIN h /\ Len(h) \in Nat \ {0}
      /\ DOMAIN h = 1..Len(h)
    BY HistoryFacts DEF VersionTypes, CVs
<1>2. \A i \in DOMAIN h : h[i] \in Releases
    BY <1>1, HistoryFacts
<1>3. [h[1] EXCEPT !.completed = Len(h)] \in Releases
    BY <1>1, <1>2 DEF Releases
<1>4. /\ g \in Seq(Releases) /\ Len(g) = Len(h) /\ DOMAIN g = DOMAIN h
      /\ g[1] = [h[1] EXCEPT !.completed = Len(h)]
      /\ \A i \in DOMAIN h : i # 1 => g[i] = h[i]
    BY <1>1, <1>3
<1>5. cv' = [cv EXCEPT !.history = g]
    BY DEF CVOCompletes
<1> HIDE DEF g
<1>6. /\ cv' \in CVs /\ cv'.version = cv.version /\ cv'.image = cv.image /\ cv'.target = cv.target
      /\ cv'.history = g
    BY <1>1, <1>4, <1>5 DEF CVs
<1>7. g[1].version = h[1].version /\ g[1].completed = Len(h)
    BY <1>1, <1>2, <1>4 DEF Releases
<1>8. \A i \in DOMAIN h : g[i].version = h[i].version
    BY <1>4, <1>7
<1>9. HistoryOK(cv')
    <2>0. /\ h[Len(h)].version = Installed /\ h[Len(h)].completed = 1
          /\ \A i \in DOMAIN h : h[i].completed \in {0, Len(h) - i + 1}
        BY <1>1 DEF HistoryOK
    <2> HIDE DEF h
    <2>1. ASSUME NEW i \in DOMAIN g PROVE g[i].completed \in {0, Len(g) - i + 1}
        <3>1. CASE i = 1
            <4>1. Len(g) - i + 1 = Len(h)
                BY <1>1, <1>4, <3>1
            <4> QED BY <1>7, <3>1, <4>1
        <3>2. CASE i # 1
            BY <1>4, <2>0, <2>1, <3>2
        <3> QED BY <3>1, <3>2
    <2>2. g[Len(g)].version = Installed /\ g[Len(g)].completed = 1
        <3>1. Len(h) \in DOMAIN h /\ Len(g) = Len(h)
            BY <1>1, <1>4
        <3>2. CASE Len(h) = 1
            BY <1>7, <2>0, <3>1, <3>2
        <3>3. CASE Len(h) # 1
            BY <1>4, <2>0, <3>1, <3>3
        <3> QED BY <3>2, <3>3
    <2> USE DEF h
    <2> QED BY <1>1, <1>4, <1>6, <1>7, <2>1, <2>2 DEF HistoryOK
<1>10. \A v : InHistory(g, v) <=> InHistory(h, v)
    BY <1>4, <1>8 DEF InHistory
<1>11. \A v : DoneIn(h, v) => DoneIn(g, v)
    BY <1>1, <1>4, <1>7, <1>8 DEF DoneIn, None
<1>12. \A v : DoneIn(g, v) => v = cv.target \/ DoneIn(h, v)
    BY <1>1, <1>4, <1>7, <1>8 DEF DoneIn, HistoryOK
<1>13. Risen(g) <=> Risen(h)
    BY <1>4, <1>8 DEF Risen
<1> QED BY <1>6, <1>9, <1>10, <1>11, <1>12, <1>13

--------------------------------------------------------------------------------
\* The history of the UpgradeConfig, and Reconcile.

LEMMA EntryFacts ==
    ASSUME hist \in Seq(Entries), NEW v, HasEntry(v)
    PROVE  /\ EntryIndex(v) \in DOMAIN hist /\ hist[EntryIndex(v)] \in Entries
           /\ hist[EntryIndex(v)].version = v
<1> DEFINE S == {i \in DOMAIN hist : hist[i].version = v}
<1>1. S \subseteq Nat /\ S # {} /\ DOMAIN hist = 1..Len(hist) /\ Len(hist) \in Nat
    BY DEF HasEntry
<1>2. PICK i \in S : \A j \in S : i <= j
    <2> HIDE DEF S
    <2> QED BY <1>1, Least
<1>3. \A j \in 1..i - 1 : hist[j].version # v
    <2> SUFFICES ASSUME NEW j \in 1..i - 1, hist[j].version = v PROVE FALSE
        OBVIOUS
    <2>1. j \in S /\ ~(i <= j)
        BY <1>1, <1>2
    <2> QED BY <1>2, <2>1
<1>4. EntryIndex(v) \in DOMAIN hist /\ hist[EntryIndex(v)].version = v
    BY <1>2, <1>3 DEF EntryIndex
<1> QED BY <1>4

LEMMA SetFacts ==
    ASSUME hist \in Seq(Entries), NEW h \in Entries, SetHistory(h)
    PROVE  /\ hist' \in Seq(Entries) /\ HasEntry(h.version)'
           /\ (Len(hist) <= 1 /\ (Len(hist) = 1 => hist[1].version = h.version)) =>
                 Len(hist') = 1 /\ hist'[1] = h
<1>1. CASE HasEntry(h.version)
    <2> DEFINE k == EntryIndex(h.version)
    <2>1. k \in DOMAIN hist
        BY <1>1, EntryFacts
    <2>2. hist' = [hist EXCEPT ![k] = h]
        BY <1>1 DEF SetHistory
    <2> HIDE DEF k
    <2>3. hist' \in Seq(Entries) /\ Len(hist') = Len(hist) /\ k \in DOMAIN hist' /\ hist'[k] = h
        BY <2>1, <2>2
    <2>4. Len(hist) <= 1 => Len(hist) = 1 /\ k = 1
        <3>1. Len(hist) \in Nat /\ DOMAIN hist = 1..Len(hist)
            OBVIOUS
        <3> QED BY <2>1, <3>1
    <2> QED BY <2>3, <2>4 DEF HasEntry
<1>2. CASE ~HasEntry(h.version)
    <2>1. hist' = <<h>> \o hist
        BY <1>2 DEF SetHistory
    <2>2. hist' \in Seq(Entries) /\ Len(hist') = Len(hist) + 1 /\ 1 \in DOMAIN hist' /\ hist'[1] = h
        BY <2>1
    <2>3. Len(hist) \in Nat /\ DOMAIN hist = 1..Len(hist)
        OBVIOUS
    <2>4. ~(Len(hist) = 1 /\ hist[1].version = h.version)
        BY <1>2, <2>3 DEF HasEntry
    <2>5. HasEntry(h.version)'
        BY <2>2 DEF HasEntry
    <2>6. Len(hist) <= 1 /\ (Len(hist) = 1 => hist[1].version = h.version) => Len(hist) = 0
        BY <2>3, <2>4
    <2> QED BY <2>2, <2>5, <2>6
<1> QED BY <1>1, <1>2

LEMMA CallFacts ==
    ASSUME VersionTypes
    PROVE  /\ call = Idle <=> call.at = "idle"
           /\ call # Idle => call \in Calls /\ call.at \in Places /\ call.cv \in CVs /\ call.updates \in Listings
<1>1. Idle.at = "idle"
    BY DEF Idle
<1>2. ASSUME call # Idle PROVE call \in Calls /\ call.at \in Places /\ call.cv \in CVs /\ call.updates \in Listings
    BY <1>2 DEF VersionTypes, Calls
<1> QED BY <1>1, <1>2 DEF Places

LEMMA GotoFacts ==
    ASSUME VersionTypes, call # Idle, NEW place \in Places, Goto(place)
    PROVE  /\ call' \in Calls /\ call' # Idle /\ call'.at = place /\ call'.cv = call.cv
           /\ call'.updates = call.updates /\ call'.entry = call.entry
<1>1. call \in Calls
    BY CallFacts
<1>2. /\ call' \in Calls /\ call'.at = place /\ call'.cv = call.cv
      /\ call'.updates = call.updates /\ call'.entry = call.entry
    BY <1>1 DEF Goto, Calls
<1> QED BY <1>2 DEF Places, Idle

\* What a step of Reconcile has to keep of the types.
LEMMA TypesOf ==
    ASSUME VersionTypes, uc' \in Specs, hist' \in Seq(Entries),
           cv' \in CVs, cv'.target = cv.target, cv'.history = cv.history, UNCHANGED <<updates, crossed>>,
           \/ call' = Idle
           \/ /\ call' \in Calls /\ HistoryOK(call.cv)'
              /\ call'.at \notin {"history", "valid"} => HasEntry(uc.version)'
              /\ call'.at \in {"Pending", "valid"} => call'.entry \in Entries
    PROVE  VersionTypes'
<1>1. HistoryOK(cv)'
    BY DEF VersionTypes, HistoryOK
<1> QED BY <1>1 DEF VersionTypes

LEMMA GotoTypes ==
    ASSUME VersionTypes, uc' \in Specs, hist' \in Seq(Entries),
           cv' \in CVs, cv'.target = cv.target, cv'.history = cv.history, UNCHANGED <<updates, crossed>>,
           NEW place \in Places, call # Idle, Goto(place),
           place \notin {"history", "valid"} => HasEntry(uc.version)',
           place \in {"Pending", "valid"} => call.entry \in Entries
    PROVE  VersionTypes'
<1>1. call' \in Calls /\ call'.at = place /\ call'.cv = call.cv /\ call'.entry = call.entry
    BY GotoFacts
<1>2. HistoryOK(call.cv)'
    BY <1>1 DEF VersionTypes, HistoryOK
<1> QED BY <1>1, <1>2, TypesOf

LEMMA EntryOf ==
    ASSUME hist \in Seq(Entries), HasEntry(uc.version)
    PROVE  /\ Entry \in Entries /\ Entry.version = uc.version /\ Entry.phase \in Phases
           /\ \A p \in Phases : [Entry EXCEPT !.phase = p] \in Entries
                                /\ [Entry EXCEPT !.phase = p].version = uc.version
                                /\ [Entry EXCEPT !.phase = p].preceding = Entry.preceding
                                /\ [Entry EXCEPT !.phase = p].phase = p
<1>1. Entry \in Entries /\ Entry.version = uc.version
    BY EntryFacts DEF Entry
<1> QED BY <1>1 DEF Entries

\* The entry of an UpgradeConfig by image is written for its release.
LEMMA ImageTypes ==
    ASSUME VersionTypes, ValidateImage
    PROVE  uc' \in Specs /\ hist' \in Seq(Entries)
<1> DEFINE new == {i \in DOMAIN hist : hist[i].phase = "New"}
<1> DEFINE k == CHOOSE i \in new : \A j \in new : j <= i
<1>1. uc' \in Specs /\ uc.image \in Versions \cup {None} /\ hist \in Seq(Entries)
    BY DEF ValidateImage, VersionTypes, Specs
<1>2. CASE HasEntry(uc.image) \/ new = {}
    BY <1>1, <1>2 DEF ValidateImage
<1>3. CASE ~(HasEntry(uc.image) \/ new = {})
    <2>1. hist' = [hist EXCEPT ![1] = [hist[k] EXCEPT !.version = uc.image]]
        BY <1>3 DEF ValidateImage
    <2>2. DOMAIN hist = 1..Len(hist) /\ Len(hist) \in Nat /\ new \subseteq DOMAIN hist /\ new # {}
        BY <1>1, <1>3
    <2> HIDE DEF new
    <2>3. \E i \in new : \A j \in new : j <= i
        <3> DEFINE S == {Len(hist) - i : i \in new}
        <3>1. S \subseteq Nat /\ S # {}
            BY <2>2
        <3>2. PICK m \in S : \A n \in S : m <= n
            <4> HIDE DEF S
            <4> QED BY <3>1, Least
        <3>3. PICK i \in new : m = Len(hist) - i
            OBVIOUS
        <3>4. ASSUME NEW j \in new PROVE j <= i
            <4>1. Len(hist) - i <= Len(hist) - j
                BY <3>2, <3>3
            <4> QED BY <2>2, <4>1
        <3> QED BY <3>4
    <2>4. k \in new
        BY <2>3
    <2> HIDE DEF k
    <2>5. hist[k] \in Entries
        BY <1>1, <2>2, <2>4
    <2>6. [hist[k] EXCEPT !.version = uc.image] \in Entries
        BY <1>1, <2>5 DEF Entries
    <2> DEFINE e == [hist[k] EXCEPT !.version = uc.image]
    <2>7. e \in Entries /\ hist' = [hist EXCEPT ![1] = e]
        BY <2>1, <2>6
    <2> HIDE DEF e
    <2>8. 1 \in DOMAIN hist
        BY <2>2
    <2>9. hist' \in Seq(Entries)
        BY <1>1, <2>7, <2>8
    <2> QED BY <1>1, <2>9
<1> QED BY <1>2, <1>3

LEMMA TypesInit == Init => VersionTypes
<1> SUFFICES ASSUME Init PROVE VersionTypes
    OBVIOUS
<1> DEFINE r == [version |-> Installed, completed |-> 1]
<1> DEFINE h == <<r>>
<1>1. r \in Releases /\ r.version = Installed /\ r.completed = 1
    BY VersionAssumption DEF Releases
<1>2. h \in Seq(Releases) /\ Len(h) = 1 /\ DOMAIN h = {1} /\ h[1] = r
    BY <1>1
<1> HIDE DEF r, h
<1>3. cv = [channel |-> FirstChannel, version |-> None, image |-> None, target |-> Installed, history |-> h]
    BY DEF Init, h, r
<1>4. cv \in CVs /\ cv.history = h /\ cv.target = Installed
    BY <1>2, <1>3, VersionAssumption DEF CVs
<1>5. HistoryOK(cv)
    <2>1. h[1].version = Installed /\ h[1].completed = 1 /\ Len(h) = 1
        BY <1>1, <1>2
    <2>2. \A i \in DOMAIN h : h[i].completed \in {0, Len(h) - i + 1}
        BY <1>2, <2>1
    <2>3. /\ Len(cv.history) = 1 /\ cv.history[1].version = Installed /\ cv.history[1].completed = 1
          /\ \A i \in DOMAIN cv.history : cv.history[i].completed \in {0, Len(cv.history) - i + 1}
        BY <2>1, <2>2, <1>4
    <2> QED BY <2>3, <1>4 DEF HistoryOK
<1>6. updates \in Listings /\ \A v \in Offered(updates) : cv.target < v
    BY <1>4, ListedFacts, VersionAssumption DEF Init
<1>7. uc \in Specs
    BY VersionAssumption DEF Init, Specs
<1>8. hist \in Seq(Entries)
    BY DEF Init
<1>9. crossed \in BOOLEAN /\ call = Idle
    BY Zenon DEF Init
<1> QED BY <1>4, <1>5, <1>6, <1>7, <1>8, <1>9 DEF VersionTypes

LEMMA TypesNext == VersionTypes /\ [Next]_vars => VersionTypes'
<1> SUFFICES ASSUME VersionTypes, [Next]_vars PROVE VersionTypes'
    OBVIOUS
<1> USE DEF clusterVars
<1>a. /\ uc \in Specs /\ hist \in Seq(Entries) /\ cv \in CVs
      /\ call.at # "idle" => call # Idle /\ HistoryOK(call.cv) /\ call \in Calls /\ call.cv \in CVs
    BY CallFacts DEF VersionTypes
<1>b. call.at \in Places \ {"history", "valid"} => HasEntry(uc.version) /\ call # Idle
    BY CallFacts DEF VersionTypes, Places
<1>c. Phases \subseteq Places
    BY DEF Phases, Places
<1>1. CASE ReconcileGet
    <2>1. uc' \in Specs /\ hist' \in Seq(Entries) /\ UNCHANGED <<cv, updates, crossed>> /\ HasEntry(uc.version)' = HasEntry(uc.version)
        BY <1>1, <1>a DEF ReconcileGet, HasEntry
    <2>2. CASE HasEntry(uc.version)
        <3>1. call' = [at |-> Entry.phase, cv |-> cv, updates |-> updates, entry |-> Entry]
            BY <1>1, <2>2 DEF ReconcileGet
        <3>2. Entry \in Entries /\ Entry.phase \in Places
            BY <1>a, <1>c, <2>2, EntryOf
        <3>3. call' \in Calls /\ call'.cv = cv /\ call'.entry = Entry
            BY <3>1, <3>2, <1>a DEF Calls, VersionTypes
        <3>4. HistoryOK(call.cv)'
            BY <3>3 DEF VersionTypes, HistoryOK
        <3> QED BY <1>a, <2>1, <2>2, <3>2, <3>3, <3>4, TypesOf
    <2>3. CASE ~HasEntry(uc.version)
        <3>1. call' = [at |-> "history", cv |-> cv, updates |-> updates, entry |-> <<>>]
            BY <1>1, <2>3 DEF ReconcileGet
        <3>2. call' \in Calls /\ call'.cv = cv /\ call'.at = "history"
            BY <3>1, <1>a DEF Calls, VersionTypes, Places
        <3>3. HistoryOK(call.cv)'
            BY <3>2 DEF VersionTypes, HistoryOK
        <3> QED BY <1>a, <2>1, <3>2, <3>3, TypesOf
    <2> QED BY <2>2, <2>3
<1>2. CASE ReconcileHistory
    <2>1. PICK phase \in {"Upgrading", "New"} :
              /\ SetHistory([version |-> uc.version, phase |-> phase, preceding |-> GetPrecedingVersion(call.cv)])
              /\ Goto(phase)
        BY <1>2 DEF ReconcileHistory
    <2>2. call.at # "idle"
        BY <1>2 DEF ReconcileHistory
    <2>3. GetPrecedingVersion(call.cv) \in Versions
        BY <2>2, <1>a, PrecedingFacts
    <2>4. PICK e \in Entries : /\ e = [version |-> uc.version, phase |-> phase, preceding |-> GetPrecedingVersion(call.cv)]
                               /\ e.version = uc.version
        <3> DEFINE d == [version |-> uc.version, phase |-> phase, preceding |-> GetPrecedingVersion(call.cv)]
        <3>1. d \in Entries /\ d.version = uc.version
            BY <2>3, <1>a DEF Entries, Phases, Specs
        <3> QED BY <3>1, Zenon
    <2>5. hist' \in Seq(Entries) /\ HasEntry(e.version)'
        BY <1>a, <2>1, <2>4, SetFacts
    <2>6. HasEntry(uc.version)'
        BY <1>2, <2>4, <2>5 DEF ReconcileHistory, HasEntry
    <2> QED BY <1>2, <1>a, <2>1, <2>2, <2>5, <2>6, GotoTypes DEF ReconcileHistory, Places
<1>3. ASSUME NEW p \in Phases, SetHistory([Entry EXCEPT !.phase = p]), call.at \in Places \ {"history", "valid"},
             call' = Idle, UNCHANGED <<uc, clusterVars, crossed>>
      PROVE  VersionTypes'
    <2>1. PICK e \in Entries : e = [Entry EXCEPT !.phase = p]
        BY <1>3, <1>a, <1>b, EntryOf
    <2>2. hist' \in Seq(Entries)
        BY <1>3, <1>a, <2>1, SetFacts
    <2> QED BY <1>3, <1>a, <2>2, TypesOf
<1>4. CASE ReconcileNew
    BY <1>3, <1>4 DEF ReconcileNew, Phases, Places
<1>5. CASE ValidateVersion
    <2>1. call.at # "idle" /\ call.entry \in Entries
        BY <1>5, <1>a DEF ValidateVersion, VersionTypes
    <2>2. CASE call' = Idle
        BY <2>2, <1>5, <1>a, TypesOf DEF ValidateVersion
    <2>3. CASE Goto("valid")
        BY <2>1, <2>3, <1>5, <1>a, GotoTypes DEF ValidateVersion, Places
    <2> QED BY <1>5, <2>2, <2>3 DEF ValidateVersion
<1>6. CASE ValidateImage
    <2>1. call.at # "idle" /\ call.entry \in Entries
        BY <1>6, <1>a DEF ValidateImage, VersionTypes
    <2> QED BY <2>1, <1>6, <1>a, ImageTypes, GotoTypes DEF ValidateImage, Places
<1>7. CASE ReconcileReady
    <2>1. call.at # "idle" /\ call.entry \in Entries
        BY <1>7, <1>a DEF ReconcileReady, VersionTypes
    <2>2. PICK e \in Entries : /\ e = [call.entry EXCEPT !.phase = "Upgrading", !.version = uc.version]
                               /\ e.version = uc.version
        <3> DEFINE d == [call.entry EXCEPT !.phase = "Upgrading", !.version = uc.version]
        <3>1. d \in Entries /\ d.version = uc.version
            BY <2>1, <1>a DEF Entries, Phases, Specs
        <3> QED BY <3>1, Zenon
    <2>3. hist' \in Seq(Entries) /\ HasEntry(e.version)'
        BY <1>7, <1>a, <2>2, SetFacts DEF ReconcileReady
    <2>4. HasEntry(uc.version)'
        BY <1>7, <2>2, <2>3 DEF ReconcileReady, HasEntry
    <2> QED BY <1>7, <1>a, <2>1, <2>3, <2>4, GotoTypes DEF ReconcileReady, Places
<1>8. CASE ShouldFailUpgrade
    BY <1>3, <1>8 DEF ShouldFailUpgrade, Phases, Places
<1>9. ASSUME call' = Idle, UNCHANGED <<uc, hist, clusterVars, crossed>> PROVE VersionTypes'
    BY <1>9, <1>a, TypesOf
<1>10. ASSUME NEW place \in Places \ {"history", "Pending", "valid"}, Goto(place), call.at \in Places \ {"history", "valid"},
              cv' \in CVs, cv'.target = cv.target, cv'.history = cv.history, UNCHANGED <<uc, hist, updates, crossed>>
       PROVE  VersionTypes'
    <2>1. HasEntry(uc.version)'
        BY <1>10, <1>b DEF HasEntry
    <2> QED BY <1>10, <1>a, <1>b, <2>1, GotoTypes
<1>11. CASE ValidateVersionFails \/ ValidateImageFails \/ ReconcileWait \/ ReconcileEnds \/ StepFails
    BY <1>9, <1>11 DEF ValidateVersionFails, ValidateImageFails, ReconcileWait, ReconcileEnds, StepFails, Fail
<1>12. CASE IsUpgradeable
    <2>1. CASE Goto("commence")
        BY <2>1, <1>10, <1>12, <1>a DEF IsUpgradeable, Places
    <2> QED BY <2>1, <1>9, <1>12 DEF IsUpgradeable
<1>13. CASE CommenceUpgrade
    <2>1. PICK place \in {"controlplane", "list"} : Goto(place)
        BY <1>13 DEF CommenceUpgrade
    <2>2. cv' \in CVs /\ cv'.target = cv.target /\ cv'.history = cv.history
        BY <1>13, <1>a DEF CommenceUpgrade, CVs, Specs
    <2> QED BY <2>1, <2>2, <1>10, <1>13 DEF CommenceUpgrade, Places
<1>14. CASE GetClusterVersion
    <2>1. call.at = "list" /\ call \in Calls /\ HistoryOK(call.cv) /\ HasEntry(uc.version)
        BY <1>14, <1>a, <1>b DEF GetClusterVersion, Places
    <2>2. call' \in Calls /\ call'.at = "patch" /\ call'.cv = call.cv
        BY <1>14, <2>1 DEF GetClusterVersion, Calls, VersionTypes, Places
    <2>3. HistoryOK(call.cv)' /\ HasEntry(uc.version)'
        BY <1>14, <2>1, <2>2 DEF GetClusterVersion, HistoryOK, HasEntry
    <2> QED BY <1>14, <1>a, <2>2, <2>3, TypesOf DEF GetClusterVersion
<1>15. CASE Patch
    <2>1. cv' \in CVs /\ cv'.target = cv.target /\ cv'.history = cv.history
        BY <1>15, <1>a DEF Patch, CVs, Specs
    <2>2. call' = Idle \/ Goto("controlplane")
        BY <1>15 DEF Patch
    <2>3. CASE Goto("controlplane")
        BY <2>1, <2>3, <1>10, <1>15 DEF Patch, Places
    <2>4. CASE call' = Idle
        BY <2>1, <2>4, <1>a, <1>15, TypesOf DEF Patch
    <2> QED BY <2>2, <2>3, <2>4
<1>16. CASE ControlPlaneUpgraded
    BY <1>3, <1>9, <1>16 DEF ControlPlaneUpgraded, Phases, Places
<1>17. CASE CVOStarts
    <2>1. cv' \in CVs /\ HistoryOK(cv') /\ updates' \in Listings /\ \A v \in Offered(updates') : cv'.target < v
        BY <1>17, StartsFacts
    <2> QED BY <2>1, <1>17 DEF CVOStarts, VersionTypes, HasEntry, HistoryOK
<1>18. CASE CVOCompletes
    <2>1. cv' \in CVs /\ HistoryOK(cv') /\ cv'.target = cv.target /\ UNCHANGED <<uc, hist, updates, call, crossed>>
        BY <1>18, CompletesFacts DEF CVOCompletes
    <2> QED BY <2>1 DEF VersionTypes, HasEntry, HistoryOK
<1>19. CASE CVOSyncs
    <2>1. updates' \in Listings /\ \A v \in Offered(updates') : cv.target < v
        BY <1>19, <1>a, ListedFacts DEF CVOSyncs, CVs
    <2> QED BY <2>1, <1>19 DEF CVOSyncs, VersionTypes, HasEntry, HistoryOK
<1>20. CASE Upgradeable
    BY <1>20 DEF Upgradeable, VersionTypes, HasEntry, HistoryOK
<1>21. CASE AdminUpgrades
    <2>1. PICK v \in updates.available : cv' = [cv EXCEPT !.version = v, !.image = None]
        BY <1>21 DEF AdminUpgrades
    <2>2. cv' \in CVs /\ cv'.target = cv.target /\ cv'.history = cv.history
        BY <2>1, <1>a DEF CVs, VersionTypes, Listings
    <2> QED BY <2>2, <1>21 DEF AdminUpgrades, VersionTypes, HasEntry, HistoryOK
<1>22. CASE ReplaceUpgradeConfig
    <2>1. uc' \in Specs
        BY <1>22, VersionAssumption DEF ReplaceUpgradeConfig, Specs
    <2>2. hist' \in Seq(Entries)
        BY <1>22 DEF ReplaceUpgradeConfig
    <2> QED BY <2>1, <2>2, <1>22, <1>a, TypesOf DEF ReplaceUpgradeConfig
<1>23. CASE UNCHANGED vars
    BY <1>23 DEF vars, VersionTypes, HasEntry, HistoryOK
<1> QED
    BY <1>1, <1>2, <1>4, <1>5, <1>6, <1>7, <1>8, <1>11, <1>12, <1>13, <1>14, <1>15, <1>16, <1>17, <1>18,
       <1>19, <1>20, <1>21, <1>22, <1>23 DEF Next

--------------------------------------------------------------------------------
\* The one entry of an UpgradeConfig by version.

LEMMA OneEntry ==
    ASSUME VersionTypes, EntryInv, uc.image = None
    PROVE  /\ Len(hist) \in {0, 1} /\ (HasEntry(uc.version) <=> Len(hist) = 1)
           /\ HasEntry(uc.version) => /\ Entry = hist[1] /\ hist[1] \in Entries /\ hist[1].version = uc.version
<1>1. hist \in Seq(Entries) /\ Len(hist) \in Nat /\ DOMAIN hist = 1..Len(hist) /\ Len(hist) <= 1
    BY DEF VersionTypes, EntryInv
<1>2. Len(hist) \in {0, 1}
    BY <1>1
<1>3. HasEntry(uc.version) => Len(hist) = 1
    BY <1>1, <1>2 DEF HasEntry
<1>4. Len(hist) = 1 => HasEntry(uc.version)
    BY <1>1 DEF HasEntry, EntryInv
<1>5. ASSUME HasEntry(uc.version) PROVE Entry = hist[1] /\ hist[1] \in Entries /\ hist[1].version = uc.version
    <2>1. EntryIndex(uc.version) \in DOMAIN hist
        BY <1>1, <1>5, EntryFacts
    <2>2. EntryIndex(uc.version) = 1 /\ 1 \in DOMAIN hist
        BY <1>1, <1>3, <1>5, <2>1
    <2> QED BY <1>1, <1>3, <1>5, <2>2 DEF Entry, EntryInv
<1> QED BY <1>2, <1>3, <1>4, <1>5

LEMMA PhaseSet ==
    ASSUME VersionTypes, EntryInv, uc.image = None, HasEntry(uc.version), UNCHANGED uc,
           NEW p \in Phases, SetHistory([Entry EXCEPT !.phase = p])
    PROVE  /\ Len(hist) = 1 /\ Len(hist') = 1 /\ hist'[1].version = uc.version /\ hist[1].version = uc.version
           /\ hist'[1].preceding = hist[1].preceding /\ hist'[1].phase = p
<1>1. hist \in Seq(Entries) /\ Len(hist) = 1 /\ Entry = hist[1] /\ hist[1].version = uc.version
    BY OneEntry DEF VersionTypes
<1>2. PICK e \in Entries : /\ e = [Entry EXCEPT !.phase = p] /\ e.version = uc.version
                           /\ e.preceding = Entry.preceding /\ e.phase = p
    BY <1>1, EntryOf
<1>3. Len(hist') = 1 /\ hist'[1] = e
    <2>1. SetHistory(e) /\ Len(hist) <= 1 /\ hist[1].version = e.version
        BY <1>1, <1>2
    <2> QED BY <1>1, <2>1, SetFacts
<1> QED BY <1>1, <1>2, <1>3

LEMMA ReadySet ==
    ASSUME VersionTypes, EntryInv, uc.image = None, ReconcileReady
    PROVE  /\ Len(hist) = 1 /\ Len(hist') = 1 /\ hist'[1].version = uc.version /\ hist[1].version = uc.version
           /\ hist'[1].preceding = hist[1].preceding /\ hist'[1].phase = "Upgrading"
<1>1. hist \in Seq(Entries) /\ Len(hist) = 1 /\ hist[1].version = uc.version /\ hist[1] \in Entries /\ call.entry = hist[1]
    <2>1. call.at = "valid" /\ call # Idle
        BY CallFacts DEF ReconcileReady
    <2>2. Len(hist) # 0 /\ call.entry = hist[1]
        BY <2>1 DEF EntryInv
    <2> QED BY <2>2, OneEntry DEF VersionTypes
<1>2. PICK e \in Entries : /\ e = [call.entry EXCEPT !.phase = "Upgrading", !.version = uc.version]
                           /\ e.version = uc.version /\ e.preceding = hist[1].preceding /\ e.phase = "Upgrading"
    <2> DEFINE d == [call.entry EXCEPT !.phase = "Upgrading", !.version = uc.version]
    <2>1. d \in Entries /\ d.version = uc.version /\ d.preceding = hist[1].preceding /\ d.phase = "Upgrading"
        BY <1>1 DEF VersionTypes, Entries, Phases, Specs
    <2> QED BY <2>1, Zenon
<1>3. Len(hist') = 1 /\ hist'[1] = e
    <2>1. SetHistory(e) /\ Len(hist) <= 1 /\ hist[1].version = e.version
        BY <1>1, <1>2 DEF ReconcileReady
    <2> QED BY <1>1, <2>1, SetFacts
<1> QED BY <1>1, <1>2, <1>3

LEMMA HistorySet ==
    ASSUME VersionTypes, EntryInv, uc.image = None, ReconcileHistory
    PROVE  /\ call.cv \in CVs /\ HistoryOK(call.cv) /\ GetPrecedingVersion(call.cv) \in Versions
           /\ Len(hist') = 1 /\ hist'[1].version = uc.version
           /\ hist'[1].preceding = GetPrecedingVersion(call.cv)
           /\ hist'[1].phase = IF HasUpgradeCommenced THEN "Upgrading" ELSE "New"
           /\ Goto(hist'[1].phase)
<1>1. PICK phase \in Phases : /\ phase = (IF HasUpgradeCommenced THEN "Upgrading" ELSE "New") /\ Goto(phase)
                              /\ SetHistory([version |-> uc.version, phase |-> phase,
                                             preceding |-> GetPrecedingVersion(call.cv)])
    BY DEF ReconcileHistory, Phases
<1>2. call.cv \in CVs /\ HistoryOK(call.cv) /\ GetPrecedingVersion(call.cv) \in Versions
    <2>1. call # Idle
        BY CallFacts DEF ReconcileHistory
    <2> QED BY <2>1, CallFacts, PrecedingFacts DEF VersionTypes
<1>3. PICK e \in Entries : /\ e = [version |-> uc.version, phase |-> phase, preceding |-> GetPrecedingVersion(call.cv)]
                           /\ e.version = uc.version /\ e.phase = phase /\ e.preceding = GetPrecedingVersion(call.cv)
    <2> DEFINE d == [version |-> uc.version, phase |-> phase, preceding |-> GetPrecedingVersion(call.cv)]
    <2>1. d \in Entries /\ d.version = uc.version /\ d.phase = phase /\ d.preceding = GetPrecedingVersion(call.cv)
        BY <1>2 DEF VersionTypes, Entries, Specs
    <2> QED BY <2>1, Zenon
<1>4. Len(hist') = 1 /\ hist'[1] = e
    BY <1>1, <1>3, SetFacts DEF VersionTypes, EntryInv
<1> QED BY <1>1, <1>2, <1>3, <1>4

LEMMA EntryNext == VersionTypes /\ EntryInv /\ [Next]_vars => EntryInv'
<1> DEFINE Kept == /\ Len(hist') <= 1
                   /\ Len(hist') = 1 => hist'[1].version = uc'.version
                   /\ call' # Idle => (Len(hist') = 0 <=> call'.at = "history")
                   /\ call'.at \in {"Pending", "valid"} => call'.entry = hist'[1]
<1> SUFFICES ASSUME VersionTypes, EntryInv, [Next]_vars, (uc.image = None)'
             PROVE  Kept
    BY DEF EntryInv
<1>a. Idle.at = "idle"
    BY DEF Idle
<1>1. CASE ReplaceUpgradeConfig
    BY <1>1, <1>a DEF ReplaceUpgradeConfig
<1>2. CASE ValidateImage
    BY <1>2 DEF ValidateImage, VersionTypes, Specs
<1>3. CASE CVOStarts \/ CVOCompletes \/ CVOSyncs \/ Upgradeable \/ AdminUpgrades \/ UNCHANGED vars
    <2>1. UNCHANGED <<uc, hist, call>>
        BY <1>3 DEF CVOStarts, CVOCompletes, CVOSyncs, Upgradeable, AdminUpgrades, vars
    <2> QED BY <2>1 DEF EntryInv
<1>4. ASSUME UNCHANGED <<uc, hist>>, call' = Idle
      PROVE  Kept
    BY <1>4, <1>a DEF EntryInv
<1>5. CASE ValidateVersionFails \/ ValidateImageFails \/ ReconcileWait \/ ReconcileEnds \/ StepFails
    BY <1>4, <1>5 DEF ValidateVersionFails, ValidateImageFails, ReconcileWait, ReconcileEnds, StepFails, Fail
<1>6. CASE ReconcileGet
    <2>1. UNCHANGED <<uc, hist>> /\ uc.image = None
        BY <1>6 DEF ReconcileGet
    <2>2. CASE HasEntry(uc.version)
        <3>1. Entry = hist[1] /\ Len(hist) = 1 /\ hist[1].version = uc.version /\ Entry.phase \in Phases
            BY <2>1, <2>2, OneEntry, EntryOf DEF VersionTypes
        <3>2. call'.at = Entry.phase /\ call'.entry = Entry
            BY <1>6, <2>2 DEF ReconcileGet
        <3> QED BY <2>1, <3>1, <3>2 DEF Phases
    <2>3. CASE ~HasEntry(uc.version)
        <3>1. call'.at = "history"
            BY <1>6, <2>3 DEF ReconcileGet
        <3> QED BY <2>1, <2>3, <3>1, OneEntry
    <2> QED BY <2>2, <2>3
<1>7. CASE ReconcileHistory
    <2>1. UNCHANGED uc /\ uc.image = None /\ call # Idle
        BY <1>7, CallFacts DEF ReconcileHistory
    <2>2. /\ Len(hist') = 1 /\ hist'[1].version = uc.version /\ hist'[1].phase \in {"Upgrading", "New"}
          /\ Goto(hist'[1].phase)
        BY <1>7, <2>1, HistorySet
    <2>3. call'.at \in {"Upgrading", "New"}
        BY <2>1, <2>2, GotoFacts DEF Places
    <2> QED BY <2>1, <2>2, <2>3
<1>8. ASSUME UNCHANGED uc, NEW p \in Phases, SetHistory([Entry EXCEPT !.phase = p]),
             call.at \in Places \ {"history", "valid"}, call' = Idle
      PROVE  Kept
    <2>1. HasEntry(uc.version) /\ uc.image = None
        BY <1>8, CallFacts DEF VersionTypes, Places
    <2>2. Len(hist') = 1 /\ hist'[1].version = uc.version
        BY <1>8, <2>1, PhaseSet
    <2> QED BY <1>8, <1>a, <2>2
<1>9. CASE ReconcileNew \/ ShouldFailUpgrade
    BY <1>8, <1>9 DEF ReconcileNew, ShouldFailUpgrade, Phases, Places
<1>10. CASE ControlPlaneUpgraded
    BY <1>4, <1>8, <1>10 DEF ControlPlaneUpgraded, Phases, Places
<1>11. CASE ReconcileReady
    <2>1. UNCHANGED uc /\ uc.image = None /\ call # Idle /\ Goto("Upgrading")
        BY <1>11, CallFacts DEF ReconcileReady
    <2>2. Len(hist') = 1 /\ hist'[1].version = uc.version
        BY <1>11, <2>1, ReadySet
    <2>3. call'.at = "Upgrading"
        BY <2>1, GotoFacts DEF Places
    <2> QED BY <2>1, <2>2, <2>3
<1>12. ASSUME UNCHANGED <<uc, hist>>, call # Idle, call.at # "history", call'.at # "history", call'.entry = call.entry,
              call'.at \notin {"Pending", "valid"} \/ call.at = "Pending"
       PROVE  Kept
    BY <1>12 DEF EntryInv
<1>13. CASE ValidateVersion
    <2>1. CASE Goto("valid")
        <3>1. call # Idle /\ call'.at = "valid" /\ call'.entry = call.entry
            <4>1. call # Idle
                BY <1>13, CallFacts DEF ValidateVersion
            <4> QED BY <2>1, <4>1, GotoFacts DEF Places
        <3> QED BY <1>12, <1>13, <3>1 DEF ValidateVersion
    <2> QED BY <1>4, <1>13, <2>1 DEF ValidateVersion
<1>14. ASSUME UNCHANGED <<uc, hist>>, call.at \in {"Upgrading", "commence", "patch"},
              NEW place \in {"commence", "list", "controlplane"}, Goto(place)
       PROVE  Kept
    <2>1. call # Idle /\ place \in Places
        BY <1>14, CallFacts DEF Places
    <2>2. call'.at = place /\ call'.entry = call.entry
        BY <1>14, <2>1, GotoFacts
    <2> QED BY <1>12, <1>14, <2>1, <2>2
<1>15. CASE IsUpgradeable
    BY <1>4, <1>14, <1>15 DEF IsUpgradeable
<1>16. CASE CommenceUpgrade
    BY <1>14, <1>16 DEF CommenceUpgrade
<1>17. CASE GetClusterVersion
    <2>1. call # Idle /\ call \in Calls
        BY <1>17, CallFacts DEF GetClusterVersion
    <2>2. call'.at = "patch" /\ call'.entry = call.entry
        BY <1>17, <2>1 DEF GetClusterVersion, Calls
    <2> QED BY <1>12, <1>17, <2>1, <2>2 DEF GetClusterVersion
<1>18. CASE Patch
    BY <1>4, <1>14, <1>18 DEF Patch
<1> QED
    BY <1>1, <1>2, <1>3, <1>5, <1>6, <1>7, <1>9, <1>10, <1>11, <1>13, <1>15, <1>16, <1>17, <1>18 DEF Next

--------------------------------------------------------------------------------
\* What is asked for.

LEMMA AskedInit == Init => AskedInv
BY DEF Init, AskedInv, Idle, None

LEMMA AskedStays ==
    ASSUME AskedInv, UNCHANGED crossed, cv'.history = cv.history, cv'.target = cv.target,
           cv'.image = cv.image, cv'.version = cv.version,
           call' = Idle \/ (call # Idle /\ call'.cv = call.cv /\ call'.at # "patch")
    PROVE  AskedInv'
<1> SUFFICES ASSUME Calm'
             PROVE  /\ cv'.version # None => /\ Installed < cv'.version
                                             /\ cv'.version < cv'.target => ~InHistory(cv'.history, cv'.version)
                                             /\ cv'.image \in {None, cv'.version}
                    /\ call' # Idle => Risen(call'.cv.history) /\ call'.cv.target <= cv'.target
                    /\ call'.at = "patch" => ListedInv'
    BY DEF AskedInv, InHistory, Risen
<1>1. Calm
    BY DEF Calm, OnlyRisen
<1>2. call'.at # "patch"
    BY DEF Idle
<1> QED BY <1>1, <1>2 DEF AskedInv, InHistory, Risen

LEMMA AskedNext == VersionTypes /\ AskedInv /\ [Next]_vars => AskedInv'
<1> SUFFICES ASSUME VersionTypes, AskedInv, [Next]_vars PROVE AskedInv'
    OBVIOUS
<1> DEFINE Spec1 == cv'.version # None => /\ Installed < cv'.version
                                          /\ cv'.version < cv'.target => ~InHistory(cv'.history, cv'.version)
                                          /\ cv'.image \in {None, cv'.version}
<1> DEFINE Read1 == call' # Idle => Risen(call'.cv.history) /\ call'.cv.target <= cv'.target
<1>a. ASSUME Calm' => Spec1 /\ Read1 /\ (call'.at = "patch" => ListedInv') PROVE AskedInv'
    BY <1>a DEF AskedInv, InHistory, Risen
<1>b. Calm => Risen(cv.history) /\ Installed <= cv.target /\ \A v : InHistory(cv.history, v) => v <= cv.target
    <2>1. Calm => Risen(cv.history)
        BY DEF Calm, OnlyRisen, Risen
    <2> QED BY <2>1, RisenFacts DEF VersionTypes
<1>c. cv \in CVs /\ cv.target \in Nat /\ Installed \in Nat /\ Versions \subseteq Nat \ {0}
    BY VersionAssumption DEF VersionTypes, CVs, Versions
<1>1. ASSUME call' = Idle, UNCHANGED <<cv, crossed>> PROVE AskedInv'
    BY <1>1, AskedStays
<1>2. ASSUME UNCHANGED crossed, cv'.history = cv.history, cv'.target = cv.target, cv'.image = cv.image,
             cv'.version = cv.version, call # Idle, NEW place \in Places \ {"patch"}, Goto(place)
      PROVE  AskedInv'
    BY <1>2, GotoFacts, AskedStays
<1>d. call.at # "idle" => call # Idle
    BY CallFacts
<1> USE DEF clusterVars
<1>3. CASE ReconcileGet
    <2>1. UNCHANGED <<cv, crossed>> /\ call'.cv = cv
        BY <1>3 DEF ReconcileGet
    <2>2. call'.at # "patch"
        <3>1. HasEntry(uc.version) => Entry.phase \in Phases
            BY EntryOf DEF VersionTypes
        <3> QED BY <1>3, <3>1 DEF ReconcileGet, Phases
    <2>3. ASSUME Calm' PROVE Spec1 /\ Read1
        <3>1. Calm
            BY <2>1, <2>3 DEF Calm, OnlyRisen
        <3> QED BY <1>b, <1>c, <2>1, <3>1 DEF AskedInv
    <2> QED BY <1>a, <2>2, <2>3
<1>4. CASE ReconcileHistory
    BY <1>2, <1>4, <1>d DEF ReconcileHistory, Places
<1>5. CASE ReconcileReady
    BY <1>2, <1>5, <1>d DEF ReconcileReady, Places
<1>6. CASE ValidateImage
    BY <1>2, <1>6, <1>d DEF ValidateImage, Places
<1>7. CASE ValidateVersion
    BY <1>1, <1>2, <1>7, <1>d DEF ValidateVersion, Places
<1>8. CASE IsUpgradeable
    BY <1>1, <1>2, <1>8, <1>d DEF IsUpgradeable, Places
<1>9. CASE \/ ReconcileNew \/ ValidateVersionFails \/ ValidateImageFails \/ ReconcileWait \/ ReconcileEnds \/ StepFails
           \/ ShouldFailUpgrade \/ ControlPlaneUpgraded
    BY <1>1, <1>9 DEF ReconcileNew, ValidateVersionFails, ValidateImageFails, ReconcileWait, ReconcileEnds, StepFails,
                      ShouldFailUpgrade, ControlPlaneUpgraded, Fail
<1>10. CASE CommenceUpgrade
    <2>1. PICK place \in {"controlplane", "list"} : Goto(place)
        BY <1>10 DEF CommenceUpgrade
    <2>2. call # Idle /\ call'.at # "patch" /\ call'.cv = call.cv
        BY <1>10, <1>d, <2>1, GotoFacts DEF CommenceUpgrade, Places
    <2>3. CASE cv'.version = cv.version /\ cv'.image = cv.image
        <3>1. UNCHANGED crossed /\ cv'.history = cv.history /\ cv'.target = cv.target
            BY <1>10, <1>c DEF CommenceUpgrade, CVs
        <3> QED BY <2>2, <2>3, <3>1, AskedStays
    <2>4. CASE cv' = [cv EXCEPT !.image = uc.image, !.version = None]
        <3>1. UNCHANGED crossed /\ cv'.history = cv.history /\ cv'.target = cv.target /\ cv'.version = None
            BY <1>10, <1>c, <2>4 DEF CommenceUpgrade, CVs
        <3>2. Calm' => Calm
            BY <3>1 DEF Calm, OnlyRisen
        <3> QED BY <1>a, <2>2, <3>1, <3>2 DEF AskedInv
    <2> QED BY <1>10, <1>c, <2>3, <2>4 DEF CommenceUpgrade, CVs
<1>11. CASE GetClusterVersion
    <2>1. call # Idle /\ call \in Calls /\ UNCHANGED <<cv, crossed>>
        BY <1>11, CallFacts DEF GetClusterVersion
    <2>2. call'.cv = call.cv /\ call'.updates = updates /\ updates \in Listings
        BY <1>11, <2>1 DEF GetClusterVersion, Calls, VersionTypes
    <2>3. ASSUME Calm' PROVE Spec1 /\ Read1 /\ ListedInv'
        <3>1. Calm
            BY <2>1, <2>3 DEF Calm, OnlyRisen
        <3>2. ASSUME NEW v \in Offered(updates) PROVE Installed < v /\ cv.target < v
            <4>1. v \in Nat
                BY <1>c, <2>2 DEF Offered, Listings
            <4> QED BY <1>b, <1>c, <3>1, <4>1 DEF VersionTypes
        <3>3. ListedInv'
            BY <2>1, <2>2, <3>2 DEF ListedInv, Offered
        <3> QED BY <2>1, <2>2, <3>1, <3>3 DEF AskedInv
    <2> QED BY <1>a, <2>3
<1>12. CASE Patch
    <2>1. call # Idle /\ call.at = "patch" /\ UNCHANGED crossed
        BY <1>12, <1>d DEF Patch
    <2>2. CASE cv' = cv /\ call' = Idle
        BY <1>1, <2>1, <2>2
    <2>3. CASE uc.version \in Offered(call.updates) /\ Goto("controlplane")
        <3>1. /\ cv'.history = cv.history /\ cv'.target = cv.target /\ cv'.version = uc.version
              /\ cv'.image \in {None, uc.version}
            BY <1>12, <1>c, <2>3 DEF Patch, CVs, Offered
        <3>2. call'.at = "controlplane" /\ call'.cv = call.cv
            BY <2>1, <2>3, GotoFacts DEF Places
        <3>3. ASSUME Calm' PROVE Spec1 /\ Read1
            <4>1. Calm
                BY <2>1, <3>1, <3>3 DEF Calm, OnlyRisen
            <4>2. /\ Installed < uc.version
                  /\ cv.target < uc.version \/ (InHistory(cv.history, uc.version) => uc.version = cv.target)
                BY <2>1, <2>3, <4>1 DEF AskedInv, ListedInv
            <4>3. uc.version \in Nat
                <5>1. uc.version \in Versions \cup {None}
                    BY DEF VersionTypes, Specs
                <5>2. ASSUME uc.version \in Versions PROVE uc.version \in Nat
                    BY <1>c, <5>2
                <5> QED BY <5>1, <5>2 DEF None
            <4>4. uc.version < cv.target => ~InHistory(cv.history, uc.version)
                BY <1>c, <4>2, <4>3
            <4> QED BY <2>1, <3>1, <3>2, <4>1, <4>2, <4>4 DEF AskedInv
        <3> QED BY <1>a, <3>2, <3>3
    <2> QED BY <1>12, <2>2, <2>3 DEF Patch, Offered
<1>13. CASE CVOStarts
    <2>1. /\ cv'.version = cv.version /\ cv'.image = cv.image /\ cv'.target = Asked /\ Asked # cv.target
          /\ \A v : InHistory(cv'.history, v) <=> v = Asked \/ InHistory(cv.history, v)
          /\ Risen(cv'.history) => Risen(cv.history) /\ cv.target < Asked
        BY <1>13, StartsFacts
    <2>2. UNCHANGED <<call, crossed>> /\ Asked \in Nat
        BY <1>13, <1>c DEF CVOStarts, Asked, CVs, None
    <2>3. ASSUME Calm' PROVE Spec1 /\ Read1 /\ (call'.at = "patch" => ListedInv')
        <3>1. Calm /\ cv.target < Asked
            BY <2>1, <2>2, <2>3 DEF Calm, OnlyRisen, Risen
        <3>2. Spec1
            <4>1. cv.version # None => Asked = cv.version
                BY <3>1 DEF AskedInv, Asked
            <4> QED BY <2>1, <2>2, <3>1, <4>1 DEF AskedInv
        <3>3. Read1
            <4>1. call # Idle => call.cv.target \in Nat
                BY <1>c, CallFacts DEF CVs
            <4> QED BY <1>c, <2>1, <2>2, <3>1, <4>1 DEF AskedInv
        <3>4. ASSUME call'.at = "patch" PROVE ListedInv'
            <4>1. ListedInv /\ call # Idle /\ call.updates \in Listings
                BY <2>2, <3>1, <3>4, <1>d, CallFacts DEF AskedInv
            <4>2. Asked' = Asked /\ cv'.target = Asked
                BY <2>1 DEF Asked
            <4>3. ASSUME NEW v \in Offered(call.updates)
                  PROVE  Installed < v /\ (InHistory(cv'.history, v) => v = Asked)
                <5>1. v \in Nat
                    BY <1>c, <4>1 DEF Offered, Listings
                <5>2. Installed < v /\ cv.target < v
                    BY <2>1, <4>1 DEF ListedInv
                <5>3. ~InHistory(cv.history, v)
                    BY <1>b, <1>c, <3>1, <5>1, <5>2
                <5> QED BY <2>1, <5>2, <5>3
            <4> QED BY <2>2, <4>2, <4>3 DEF ListedInv, Offered, InHistory
        <3> QED BY <3>2, <3>3, <3>4
    <2> QED BY <1>a, <2>3
<1>14. CASE CVOCompletes
    <2>1. /\ cv'.version = cv.version /\ cv'.image = cv.image /\ cv'.target = cv.target
          /\ \A v : InHistory(cv'.history, v) <=> InHistory(cv.history, v)
          /\ Risen(cv'.history) <=> Risen(cv.history)
        BY <1>14, CompletesFacts
    <2>2. UNCHANGED <<call, crossed>>
        BY <1>14 DEF CVOCompletes
    <2>3. ASSUME Calm' PROVE Spec1 /\ Read1 /\ (call'.at = "patch" => ListedInv')
        <3>1. Calm
            BY <2>1, <2>2, <2>3 DEF Calm, OnlyRisen, Risen
        <3>2. ListedInv => ListedInv'
            <4>1. Asked' = Asked
                BY <2>1 DEF Asked
            <4>2. \A v : (InHistory(cv.history, v))' <=> InHistory(cv.history, v)
                BY <2>1 DEF InHistory
            <4> QED BY <2>1, <2>2, <4>1, <4>2 DEF ListedInv, Offered
        <3> QED BY <2>1, <2>2, <3>1, <3>2 DEF AskedInv
    <2> QED BY <1>a, <2>3
<1>15. CASE UNCHANGED <<cv, call, crossed>>
    BY <1>15 DEF AskedInv, Calm, OnlyRisen, InHistory, Risen, ListedInv, Offered, Asked
<1>16. CASE CVOSyncs \/ Upgradeable \/ ReplaceUpgradeConfig \/ UNCHANGED vars
    BY <1>15, <1>16 DEF CVOSyncs, Upgradeable, ReplaceUpgradeConfig, vars
<1>17. CASE AdminUpgrades
    <2>1. PICK a \in updates.available : cv' = [cv EXCEPT !.version = a, !.image = None]
        BY <1>17 DEF AdminUpgrades
    <2>2. cv'.history = cv.history /\ cv'.target = cv.target /\ cv'.version = a /\ cv'.image = None
        BY <1>c, <2>1 DEF CVs
    <2>3. cv.target < a /\ a \in Nat
        BY <1>c, <2>1 DEF VersionTypes, Offered, Listings
    <2>4. UNCHANGED call /\ (~crossed' => ~crossed /\ call.at # "patch")
        BY <1>17 DEF AdminUpgrades
    <2>5. ASSUME Calm' PROVE Spec1 /\ Read1 /\ call'.at # "patch"
        <3>1. Calm /\ call.at # "patch"
            BY <2>2, <2>4, <2>5 DEF Calm, OnlyRisen
        <3>2. Installed < a /\ ~(a < cv.target)
            BY <1>b, <1>c, <2>3, <3>1
        <3> QED BY <2>2, <2>4, <3>1, <3>2 DEF AskedInv
    <2> QED BY <1>a, <2>5
<1> QED
    BY <1>3, <1>4, <1>5, <1>6, <1>7, <1>8, <1>9, <1>10, <1>11, <1>12, <1>13, <1>14, <1>16, <1>17 DEF Next

--------------------------------------------------------------------------------
\* An entry that came from no earlier release.

LEMMA StuckNext == VersionInv /\ [Next]_vars => StuckInv'
<1> DEFINE Kept == /\ uc'.version <= cv'.target
                   /\ uc'.version = cv'.target => DoneIn(cv'.history, uc'.version)
                   /\ DoneIn(cv'.history, uc'.version) =>
                         /\ hist'[1].phase \in {"New", "Pending"}
                         /\ \/ call' = Idle \/ call'.at = "New"
                            \/ call'.at = "Pending" /\ DoneIn(call'.cv.history, uc'.version)
                   /\ hist'[1].phase # "Upgraded"
<1> SUFFICES ASSUME VersionInv, [Next]_vars, Calm', (uc.image = None)', Len(hist') = 1,
                    hist'[1].version <= hist'[1].preceding
             PROVE  Kept
    BY DEF StuckInv, DoneIn
<1> USE DEF clusterVars
<1>a. VersionTypes /\ EntryInv /\ AskedInv /\ StuckInv
    BY DEF VersionInv
<1>b. call.at # "idle" => call # Idle
    BY <1>a, CallFacts
<1>c. /\ cv \in CVs /\ HistoryOK(cv) /\ cv.target \in Nat /\ uc.version \in Nat /\ Installed \in Nat
      /\ \A v \in Versions : v \in Nat /\ v # 0
    <2>1. \A v \in Versions : v \in Nat /\ v # 0
        BY VersionAssumption DEF Versions
    <2>2. cv \in CVs /\ HistoryOK(cv) /\ uc.version \in Versions \cup {None}
        BY <1>a DEF VersionTypes, Specs
    <2>3. cv.target \in Versions /\ Installed \in Versions
        BY <2>2, VersionAssumption DEF CVs
    <2> QED BY <2>1, <2>2, <2>3 DEF None
<1> DEFINE Done == DoneIn(cv.history, uc.version)
<1>d. ASSUME UNCHANGED <<uc, crossed>>, cv'.history = cv.history, Len(hist) = 1,
             hist[1].version = hist'[1].version, hist[1].preceding = hist'[1].preceding
      PROVE  /\ uc.version <= cv.target
             /\ uc.version = cv.target => Done
             /\ Done => hist[1].phase \in {"New", "Pending"}
             /\ call.at \in {"valid", "Upgrading", "commence", "list", "patch", "controlplane"} => ~Done
             /\ Done /\ call.at = "Pending" => DoneIn(call.cv.history, uc.version)
             /\ hist[1].phase # "Upgraded" /\ Calm
    <2>1. Calm
        BY <1>d DEF Calm, OnlyRisen
    <2> QED BY <1>a, <1>b, <1>d, <2>1 DEF StuckInv
\* Reconcile leaves the entry alone.
<1>1. ASSUME UNCHANGED <<uc, hist, crossed>>, cv'.history = cv.history, cv'.target = cv.target, call' = Idle \/ ~Done
      PROVE  Kept
    BY <1>1, <1>d
<1>2. CASE \/ ValidateVersionFails \/ ValidateImageFails \/ ReconcileWait \/ ReconcileEnds \/ StepFails
    BY <1>1, <1>2 DEF ValidateVersionFails, ValidateImageFails, ReconcileWait, ReconcileEnds, StepFails, Fail
<1>3. CASE ReconcileGet
    <2>1. UNCHANGED <<uc, hist, cv, crossed>> /\ call'.cv = cv
        BY <1>3 DEF ReconcileGet
    <2>2. uc.image = None /\ Len(hist) = 1
        BY <2>1
    <2>3. call'.at = hist[1].phase
        BY <1>3, <1>a, <2>2, OneEntry DEF ReconcileGet
    <2> QED BY <1>d, <2>1, <2>3
<1>4. CASE ReconcileHistory
    <2>1. uc.image = None /\ UNCHANGED <<uc, cv, crossed>> /\ call # Idle
        BY <1>4, <1>b DEF ReconcileHistory
    <2>2. /\ call.cv \in CVs /\ HistoryOK(call.cv) /\ GetPrecedingVersion(call.cv) \in Versions
          /\ hist'[1].version = uc.version /\ hist'[1].preceding = GetPrecedingVersion(call.cv)
          /\ hist'[1].phase = (IF HasUpgradeCommenced THEN "Upgrading" ELSE "New") /\ Goto(hist'[1].phase)
        BY <1>4, <1>a, <2>1, HistorySet
    <2>3. Calm /\ Risen(call.cv.history) /\ call.cv.target <= cv.target /\ call.cv.target \in Nat
        <3>1. Calm
            BY <2>1 DEF Calm, OnlyRisen
        <3>2. call.cv.target \in Versions
            BY <2>2 DEF CVs
        <3> QED BY <1>a, <1>c, <2>1, <3>1, <3>2 DEF AskedInv
    <2>4. uc.version <= call.cv.target /\ (call.cv.target = uc.version => uc.version = Installed)
        <3>1. hist'[1].preceding \in Nat
            BY <1>c, <2>2
        <3> QED BY <1>c, <2>2, <2>3, <3>1, PrecedingFacts
    <2>5. uc.version <= cv.target /\ (uc.version = cv.target => uc.version = Installed)
        BY <1>c, <2>3, <2>4
    <2>6. DoneIn(cv.history, Installed)
        <3> DEFINE n == Len(cv.history)
        <3>1. n \in DOMAIN cv.history /\ cv.history[n].completed = 1 /\ cv.history[n].version = Installed
            BY <1>c, HistoryFacts DEF HistoryOK
        <3> HIDE DEF n
        <3> QED BY <3>1 DEF DoneIn, None
    <2>7. ASSUME Done PROVE ~HasUpgradeCommenced
        <3>1. InHistory(cv.history, uc.version) /\ uc.version # None
            BY <1>c, <2>7, HistoryFacts DEF DoneIn, InHistory, None
        <3>2. cv.version = uc.version => Installed < uc.version /\ ~(uc.version < cv.target)
            BY <1>a, <2>3, <3>1 DEF AskedInv
        <3> QED BY <1>c, <2>1, <2>5, <3>2 DEF HasUpgradeCommenced
    <2>8. call'.at = hist'[1].phase
        BY <1>a, <2>1, <2>2, GotoFacts DEF Places
    <2> QED BY <2>1, <2>2, <2>5, <2>6, <2>7, <2>8
<1>5. ASSUME UNCHANGED <<uc, crossed, cv>>, NEW p \in Phases \ {"Upgraded"}, SetHistory([Entry EXCEPT !.phase = p]),
             call.at \in Places \ {"history", "valid"}, call' = Idle, p = "Pending" \/ ~Done \/ call.at = "Upgrading"
      PROVE  Kept
    <2>1. uc.image = None /\ HasEntry(uc.version)
        BY <1>5, <1>a, <1>b DEF VersionTypes, Places
    <2>2. /\ Len(hist) = 1 /\ hist'[1].version = hist[1].version /\ hist'[1].preceding = hist[1].preceding
          /\ hist'[1].phase = p
        BY <1>5, <1>a, <2>1, PhaseSet
    <2> QED BY <1>5, <1>d, <2>2
<1>6. CASE ReconcileNew
    BY <1>5, <1>6 DEF ReconcileNew, Phases, Places
<1>7. CASE ShouldFailUpgrade
    BY <1>5, <1>7 DEF ShouldFailUpgrade, Phases, Places
<1>8. CASE ValidateVersion
    <2>1. UNCHANGED <<uc, hist, cv, crossed>> /\ call # Idle /\ call.at = "Pending"
        BY <1>8, <1>b DEF ValidateVersion
    <2>2. CASE call' = Idle
        BY <1>1, <2>1, <2>2
    <2>3. CASE versionValidation
        <3>1. Calm /\ (Done => DoneIn(call.cv.history, uc.version))
            BY <1>d, <2>1
        <3>2. call.cv \in CVs /\ HistoryOK(call.cv) /\ Risen(call.cv.history)
            BY <1>a, <2>1, <3>1, CallFacts DEF AskedInv, VersionTypes
        <3>3. GetCurrentVersion(call.cv) \in Nat /\ (Done => uc.version <= GetCurrentVersion(call.cv))
            BY <1>c, <3>1, <3>2, CurrentFacts
        <3>4. ~Done
            BY <1>c, <2>3, <3>3 DEF versionValidation
        <3> QED BY <1>1, <2>1, <3>4
    <2> QED BY <1>8, <2>2, <2>3 DEF ValidateVersion
<1>9. CASE ValidateImage
    BY <1>9, <1>a DEF ValidateImage, VersionTypes, Specs
<1>10. CASE ReconcileReady
    <2>1. uc.image = None /\ UNCHANGED <<uc, cv, crossed>> /\ call.at = "valid"
        BY <1>10 DEF ReconcileReady
    <2>2. /\ Len(hist) = 1 /\ hist'[1].version = hist[1].version /\ hist'[1].preceding = hist[1].preceding
          /\ hist'[1].phase = "Upgrading"
        BY <1>10, <1>a, <2>1, ReadySet
    <2> QED BY <1>d, <2>1, <2>2
<1>11. CASE IsUpgradeable \/ CommenceUpgrade \/ GetClusterVersion \/ Patch
    <2>1. /\ UNCHANGED <<uc, hist, crossed>> /\ call.at \in {"Upgrading", "commence", "list", "patch"}
          /\ cv'.history = cv.history /\ cv'.target = cv.target
        BY <1>11, <1>c DEF IsUpgradeable, CommenceUpgrade, GetClusterVersion, Patch, CVs
    <2> QED BY <1>1, <1>d, <2>1
<1>12. CASE ControlPlaneUpgraded
    <2>1. UNCHANGED <<uc, cv, crossed>> /\ call.at = "controlplane" /\ call' = Idle /\ uc.image = None
        BY <1>12 DEF ControlPlaneUpgraded
    <2>2. CASE ~HasUpgradeCompleted
        BY <1>1, <1>12, <2>1, <2>2 DEF ControlPlaneUpgraded
    <2>3. CASE HasUpgradeCompleted
        <3>1. Done
            BY <2>3 DEF HasUpgradeCompleted, Completed, DoneIn
        <3>2. SetHistory([Entry EXCEPT !.phase = "Upgraded"]) /\ HasEntry(uc.version)
            BY <1>12, <1>a, <1>b, <2>1, <2>3 DEF ControlPlaneUpgraded, VersionTypes
        <3>3. Len(hist) = 1 /\ hist'[1].version = hist[1].version /\ hist'[1].preceding = hist[1].preceding
            BY <1>a, <2>1, <3>2, PhaseSet DEF Phases
        <3> QED BY <1>d, <2>1, <3>1, <3>3
    <2> QED BY <2>2, <2>3
<1>13. CASE CVOStarts
    <2>1. /\ cv'.target = Asked /\ (\A v : DoneIn(cv'.history, v) <=> DoneIn(cv.history, v))
          /\ Risen(cv'.history) => Risen(cv.history) /\ cv.target < Asked
          /\ Asked \in Nat
        <3>1. Asked \in Nat
            BY <1>13, <1>c DEF CVOStarts, Asked, CVs, None
        <3> QED BY <1>13, <1>a, <3>1, StartsFacts
    <2>2. UNCHANGED <<uc, hist, call, crossed>> /\ uc.image = None
        BY <1>13 DEF CVOStarts
    <2>3. Calm /\ cv.target < Asked /\ Asked \in Nat
        BY <2>1, <2>2 DEF Calm, OnlyRisen, Risen
    <2>4. uc.version <= cv.target
        BY <1>a, <2>2, <2>3 DEF StuckInv
    <2>5. uc.version <= Asked /\ uc.version # Asked
        BY <1>c, <2>3, <2>4
    <2> QED BY <1>a, <2>1, <2>2, <2>3, <2>5 DEF StuckInv
<1>14. CASE CVOCompletes
    <2>1. /\ cv'.target = cv.target /\ (Risen(cv'.history) <=> Risen(cv.history))
          /\ \A v : DoneIn(cv.history, v) => DoneIn(cv'.history, v)
          /\ \A v : DoneIn(cv'.history, v) => v = cv.target \/ DoneIn(cv.history, v)
        BY <1>14, <1>a, CompletesFacts
    <2>2. UNCHANGED <<uc, hist, call, crossed>>
        BY <1>14 DEF CVOCompletes
    <2>3. Calm
        BY <2>1, <2>2 DEF Calm, OnlyRisen, Risen
    <2> QED BY <1>a, <2>1, <2>2, <2>3 DEF StuckInv
<1>15. CASE CVOSyncs \/ Upgradeable \/ AdminUpgrades \/ UNCHANGED vars
    <2>1. UNCHANGED <<uc, hist, call>> /\ cv'.history = cv.history /\ cv'.target = cv.target
        BY <1>15, <1>c DEF CVOSyncs, Upgradeable, AdminUpgrades, vars, CVs
    <2>2. Calm
        <3>1. ~crossed' => ~crossed
            BY <1>15 DEF CVOSyncs, Upgradeable, AdminUpgrades, vars
        <3> QED BY <2>1, <3>1 DEF Calm, OnlyRisen
    <2> QED BY <1>a, <2>1, <2>2 DEF StuckInv
<1>16. CASE ReplaceUpgradeConfig
    BY <1>16 DEF ReplaceUpgradeConfig
<1> QED
    BY <1>2, <1>3, <1>4, <1>6, <1>7, <1>8, <1>9, <1>10, <1>11, <1>12, <1>13, <1>14, <1>15, <1>16 DEF Next

LEMMA VersionInit == Init => VersionInv
<1> SUFFICES ASSUME Init PROVE VersionInv
    OBVIOUS
<1>1. EntryInv
    BY DEF Init, EntryInv, Idle
<1>2. StuckInv
    BY DEF Init, StuckInv
<1> QED BY <1>1, <1>2, TypesInit, AskedInit DEF VersionInv

LEMMA VersionInvReports == VersionInv => ReportsAnUpgrade
<1> SUFFICES ASSUME VersionInv, uc.image = None, OnlyRisen, ~crossed,
                    NEW i \in DOMAIN hist, hist[i].phase = "Upgraded"
             PROVE  hist[i].preceding < hist[i].version
    BY DEF ReportsAnUpgrade
<1>1. hist \in Seq(Entries) /\ Len(hist) <= 1
    BY DEF VersionInv, VersionTypes, EntryInv
<1>2. i = 1 /\ Len(hist) = 1 /\ hist[1] \in Entries
    <2>1. DOMAIN hist = 1..Len(hist) /\ Len(hist) \in Nat
        BY <1>1
    <2>2. i = 1 /\ Len(hist) = 1
        BY <1>1, <2>1
    <2> QED BY <1>1, <2>2
<1>3. ~(hist[1].version <= hist[1].preceding)
    BY <1>2 DEF VersionInv, StuckInv, Calm
<1>4. hist[1].version \in Nat /\ hist[1].preceding \in Nat
    <2>1. hist[1].version \in Versions \cup {None} /\ hist[1].preceding \in Versions
        BY <1>2 DEF Entries
    <2>2. \A v \in Versions : v \in Nat
        BY VersionAssumption DEF Versions
    <2> QED BY <2>1, <2>2 DEF None
<1> QED BY <1>2, <1>3, <1>4

\* The inductive invariant of the version upgrade, of any number of UpgradeConfigs, faults
\* and updates an administrator asks for (Reconcile, EnsureDesiredConfig).
THEOREM VersionSafety == SafetySpec => []VersionInv
<1>1. VersionInv /\ [Next]_vars => VersionInv'
    BY TypesNext, EntryNext, AskedNext, StuckNext DEF VersionInv
<1> QED BY <1>1, VersionInit, PTL DEF SafetySpec

\* On a cluster that has only risen, an upgrade by version that the history of its
\* UpgradeConfig records as done came from an earlier release, for every update graph and
\* however many UpgradeConfigs and administrators' updates there are, unless an
\* administrator's falls between the listing and the patch (GetPrecedingVersion,
\* runUpgradeWithChannelVersion).
THEOREM UpgradesAreUpgrades == SafetySpec => []ReportsAnUpgrade
BY VersionSafety, VersionInvReports, PTL

--------------------------------------------------------------------------------
\* What is asked for is offered.

LEMMA PhaseNext == VersionTypes /\ EntryInv /\ PhaseInv /\ [Next]_vars => PhaseInv'
<1> DEFINE Steps == {"commence", "list", "patch", "controlplane"}
<1> DEFINE Kept == /\ call'.at \in Phases => Len(hist') = 1 /\ hist'[1].phase = call'.at
                   /\ call'.at = "valid" => Len(hist') = 1 /\ hist'[1].phase = "Pending"
                   /\ call'.at \in Steps => Len(hist') = 1 /\ hist'[1].phase = "Upgrading"
<1> SUFFICES ASSUME VersionTypes, EntryInv, PhaseInv, [Next]_vars, (uc.image = None)' PROVE Kept
    BY DEF PhaseInv
<1>a. "idle" \notin Phases /\ "history" \notin Phases /\ "valid" \notin Phases /\ Steps \cap Phases = {}
    BY DEF Phases
<1>b. Idle.at = "idle"
    BY DEF Idle
<1>c. call.at # "idle" => call # Idle
    BY CallFacts
<1>1. ASSUME call' = Idle PROVE Kept
    BY <1>1, <1>a, <1>b
<1>2. CASE \/ ReconcileNew \/ ValidateVersionFails \/ ValidateImageFails \/ ReconcileWait \/ ReconcileEnds \/ StepFails
           \/ ShouldFailUpgrade \/ ControlPlaneUpgraded \/ ReplaceUpgradeConfig
    BY <1>1, <1>2 DEF ReconcileNew, ValidateVersionFails, ValidateImageFails, ReconcileWait, ReconcileEnds, StepFails,
                      ShouldFailUpgrade, ControlPlaneUpgraded, ReplaceUpgradeConfig, Fail
<1>3. CASE ValidateImage
    BY <1>3 DEF ValidateImage, VersionTypes, Specs
<1>4. CASE CVOStarts \/ CVOCompletes \/ CVOSyncs \/ Upgradeable \/ AdminUpgrades \/ UNCHANGED vars
    <2>1. UNCHANGED <<uc, hist, call>>
        BY <1>4 DEF CVOStarts, CVOCompletes, CVOSyncs, Upgradeable, AdminUpgrades, vars
    <2> QED BY <2>1 DEF PhaseInv
<1>5. CASE ReconcileGet
    <2>1. UNCHANGED <<uc, hist>> /\ uc.image = None
        BY <1>5 DEF ReconcileGet
    <2>2. CASE HasEntry(uc.version)
        <3>1. call'.at = hist[1].phase /\ Len(hist) = 1 /\ hist[1].phase \in Phases
            BY <1>5, <2>1, <2>2, OneEntry DEF ReconcileGet, Entries
        <3> QED BY <2>1, <3>1, <1>a
    <2>3. CASE ~HasEntry(uc.version)
        <3>1. call'.at = "history"
            BY <1>5, <2>3 DEF ReconcileGet
        <3> QED BY <3>1, <1>a
    <2> QED BY <2>2, <2>3
<1>6. CASE ReconcileHistory
    <2>1. uc.image = None /\ call # Idle
        BY <1>6, <1>c DEF ReconcileHistory
    <2>2. Len(hist') = 1 /\ hist'[1].phase \in {"Upgrading", "New"} /\ Goto(hist'[1].phase)
        BY <1>6, <2>1, HistorySet
    <2>3. call'.at = hist'[1].phase
        BY <2>1, <2>2, GotoFacts DEF Places
    <2> QED BY <2>2, <2>3
<1>7. CASE ReconcileReady
    <2>1. uc.image = None /\ call # Idle /\ Goto("Upgrading")
        BY <1>7, <1>c DEF ReconcileReady
    <2>2. Len(hist') = 1 /\ hist'[1].phase = "Upgrading"
        BY <1>7, <2>1, ReadySet
    <2>3. call'.at = "Upgrading"
        BY <2>1, GotoFacts DEF Places
    <2> QED BY <2>2, <2>3
<1>8. CASE ValidateVersion
    <2>1. CASE Goto("valid")
        <3>1. call'.at = "valid"
            BY <1>8, <1>c, <2>1, GotoFacts DEF ValidateVersion, Places
        <3> QED BY <1>8, <1>a, <3>1 DEF ValidateVersion, PhaseInv, Phases
    <2> QED BY <1>1, <1>8, <2>1 DEF ValidateVersion
<1>9. ASSUME UNCHANGED <<uc, hist>>, call.at \in Steps \cup {"Upgrading"}, call'.at \in Steps PROVE Kept
    BY <1>9, <1>a DEF PhaseInv, Phases
<1>10. ASSUME UNCHANGED <<uc, hist>>, call.at \in Steps \cup {"Upgrading"}, NEW place \in Steps, Goto(place) PROVE Kept
    <2>1. call # Idle /\ place \in Places
        BY <1>10, <1>c DEF Places
    <2> QED BY <1>9, <1>10, <2>1, GotoFacts
<1>11. CASE IsUpgradeable
    BY <1>1, <1>10, <1>11 DEF IsUpgradeable
<1>12. CASE CommenceUpgrade
    BY <1>10, <1>12 DEF CommenceUpgrade
<1>13. CASE GetClusterVersion
    <2>1. call \in Calls
        BY <1>13, <1>c, CallFacts DEF GetClusterVersion
    <2>2. call'.at = "patch"
        BY <1>13, <2>1 DEF GetClusterVersion, Calls
    <2> QED BY <1>9, <1>13, <2>2 DEF GetClusterVersion
<1>14. CASE Patch
    BY <1>1, <1>10, <1>14 DEF Patch
<1> QED
    BY <1>2, <1>3, <1>4, <1>5, <1>6, <1>7, <1>8, <1>11, <1>12, <1>13, <1>14 DEF Next

LEMMA CountsNext ==
    ASSUME OfferInv, [Next]_vars
    PROVE  /\ admin' \in Nat /\ ucs' \in Nat
           /\ Undisturbed' => Undisturbed /\ ~AdminUpgrades /\ ~ReplaceUpgradeConfig
<1>a. admin \in Nat /\ ucs \in Nat
    BY DEF OfferInv
<1>1. CASE AdminUpgrades
    <2>1. admin' = admin + 1 /\ ucs' = ucs
        BY <1>1 DEF AdminUpgrades
    <2> QED BY <1>a, <2>1 DEF Undisturbed
<1>2. CASE ReplaceUpgradeConfig
    <2>1. ucs' = ucs + 1 /\ admin' = admin
        BY <1>2 DEF ReplaceUpgradeConfig
    <2> QED BY <1>a, <2>1 DEF Undisturbed
<1>3. CASE ~AdminUpgrades /\ ~ReplaceUpgradeConfig
    <2>1. UNCHANGED <<admin, ucs>>
        <3>1. CASE \/ ReconcileGet \/ ReconcileHistory \/ ReconcileNew \/ ValidateVersion \/ ValidateVersionFails
                   \/ ValidateImage \/ ValidateImageFails
            BY <3>1 DEF ReconcileGet, ReconcileHistory, ReconcileNew, ValidateVersion, ValidateVersionFails,
                        ValidateImage, ValidateImageFails
        <3>2. CASE \/ ReconcileReady \/ ReconcileWait \/ ShouldFailUpgrade \/ IsUpgradeable \/ CommenceUpgrade
                   \/ GetClusterVersion \/ Patch
            BY <3>2 DEF ReconcileReady, ReconcileWait, ShouldFailUpgrade, IsUpgradeable, CommenceUpgrade,
                        GetClusterVersion, Patch
        <3>3. CASE \/ ControlPlaneUpgraded \/ ReconcileEnds \/ StepFails \/ CVOStarts \/ CVOCompletes \/ CVOSyncs
                   \/ Upgradeable \/ UNCHANGED vars
            BY <3>3 DEF ControlPlaneUpgraded, ReconcileEnds, StepFails, CVOStarts, CVOCompletes, CVOSyncs,
                        Upgradeable, vars
        <3> QED BY <1>3, <3>1, <3>2, <3>3 DEF Next
    <2> QED BY <1>3, <1>a, <2>1 DEF Undisturbed
<1> QED BY <1>1, <1>2, <1>3

\* Only an UpgradeConfig by version comes to the listing.
LEMMA ListNext ==
    ASSUME VersionTypes, OfferInv, [Next]_vars, call'.at \in {"list", "patch"}
    PROVE  uc'.image = None
<1>a. Idle.at = "idle"
    BY DEF Idle
<1>b. call.at # "idle" => call # Idle
    BY CallFacts
<1>1. ASSUME NEW place \in Places \ {"list", "patch"}, call # Idle, Goto(place) PROVE FALSE
    BY <1>1, GotoFacts
<1>2. CASE ReconcileGet
    <2>1. HasEntry(uc.version) => Entry.phase \in Phases
        BY EntryOf DEF VersionTypes
    <2> QED BY <1>2, <2>1 DEF ReconcileGet, Phases
<1>3. CASE ReconcileHistory
    BY <1>1, <1>3, <1>b DEF ReconcileHistory, Places
<1>4. CASE ReconcileReady \/ ValidateImage
    BY <1>1, <1>4, <1>b DEF ReconcileReady, ValidateImage, Places
<1>5. CASE ValidateVersion
    BY <1>1, <1>5, <1>a, <1>b DEF ValidateVersion, Places
<1>6. CASE IsUpgradeable
    BY <1>1, <1>6, <1>a, <1>b DEF IsUpgradeable, Places
<1>7. CASE CommenceUpgrade
    BY <1>1, <1>7, <1>b DEF CommenceUpgrade, Places
<1>8. CASE GetClusterVersion
    BY <1>8 DEF GetClusterVersion, OfferInv
<1>9. CASE Patch
    BY <1>1, <1>9, <1>a, <1>b DEF Patch, Places
<1>10. CASE \/ ReconcileNew \/ ValidateVersionFails \/ ValidateImageFails \/ ReconcileWait \/ ReconcileEnds \/ StepFails
            \/ ShouldFailUpgrade \/ ControlPlaneUpgraded \/ ReplaceUpgradeConfig
    <2>1. call' = Idle
        BY <1>10 DEF ReconcileNew, ValidateVersionFails, ValidateImageFails, ReconcileWait, ReconcileEnds, StepFails,
                     ShouldFailUpgrade, ControlPlaneUpgraded, ReplaceUpgradeConfig, Fail
    <2> QED BY <2>1, <1>a
<1>11. CASE CVOStarts \/ CVOCompletes \/ CVOSyncs \/ Upgradeable \/ AdminUpgrades \/ UNCHANGED vars
    <2>1. UNCHANGED <<uc, call>>
        BY <1>11 DEF CVOStarts, CVOCompletes, CVOSyncs, Upgradeable, AdminUpgrades, vars
    <2> QED BY <2>1 DEF OfferInv
<1> QED
    BY <1>2, <1>3, <1>4, <1>5, <1>6, <1>7, <1>8, <1>9, <1>10, <1>11 DEF Next

\* One release has been installed.
LEMMA FirstFacts ==
    ASSUME NEW c \in CVs, HistoryOK(c), AtFirst(c)
    PROVE  GetCurrentVersion(c) = Installed /\ c.history[1].completed = 1
<1>1. DOMAIN c.history = {1} /\ c.history[1].version = Installed /\ c.history[1].completed = 1
    BY HistoryFacts DEF AtFirst, HistoryOK
<1>2. Completed(c) = {1}
    BY <1>1 DEF Completed, None
<1>3. (CHOOSE i \in Completed(c) : \A j \in Completed(c) : c.history[j].completed <= c.history[i].completed) = 1
    BY <1>1, <1>2
<1> QED BY <1>1, <1>3 DEF GetCurrentVersion

LEMMA ListingFacts ==
    ASSUME NEW c \in Channels, NEW v, NEW w
    PROVE  /\ w \in Offered(Listed(c, v)) <=> w \in Successors(c, v)
           /\ w \in Listed(c, v).conditional <=> w \in Successors(c, v) /\ w \in Risky
BY DEF Offered, Listed

LEMMA OfferNext ==
    ASSUME Cincinnati, VersionTypes, EntryInv, PhaseInv, OfferInv, [Next]_vars
    PROVE  OfferInv'
<1> DEFINE Kept ==
        /\ cv'.version \in {None, uc.version}
        /\ call'.at \in {"list", "patch"} => cv'.version = None /\ uc.version # None /\ cv'.channel = uc.channel
        /\ cv'.version = None =>
            /\ cv'.image = None /\ AtFirst(cv') /\ updates' \in {FirstListing, NewListing}
            /\ call' # Idle => AtFirst(call'.cv) /\ call'.updates \in {FirstListing, NewListing}
            /\ Early' => /\ cv'.channel = FirstChannel /\ updates' = FirstListing
                         /\ call' # Idle => call'.cv.channel = FirstChannel /\ call'.updates = FirstListing
            /\ cv'.channel \in {FirstChannel, uc.channel}
            /\ (uc.version # None /\ ~Early') \/ call'.at = "valid" => uc.version \in Successors(uc.channel, Installed)
<1> SUFFICES ASSUME Undisturbed', (uc.image = None)' PROVE Kept /\ UNCHANGED uc
    <2>1. ASSUME Kept, UNCHANGED uc PROVE FirstAsked'
        BY <2>1 DEF FirstAsked, AtFirst, FirstListing, NewListing, Listed, Successors
    <2>2. admin' \in Nat /\ ucs' \in Nat /\ (call'.at \in {"list", "patch"} => uc'.image = None)
        BY CountsNext, ListNext
    <2> QED BY <2>1, <2>2 DEF OfferInv
<1> USE DEF clusterVars
<1>a. Undisturbed /\ ~AdminUpgrades /\ ~ReplaceUpgradeConfig
    BY CountsNext
<1>b. UNCHANGED uc /\ uc.image = None
    <2>1. ~ValidateImage
        BY DEF ValidateImage, VersionTypes, Specs
    <2>2. CASE \/ ReconcileGet \/ ReconcileHistory \/ ReconcileNew \/ ValidateVersion \/ ValidateVersionFails
               \/ ValidateImageFails \/ ReconcileReady \/ ReconcileWait \/ ShouldFailUpgrade \/ IsUpgradeable
        BY <2>2 DEF ReconcileGet, ReconcileHistory, ReconcileNew, ValidateVersion, ValidateVersionFails,
                    ValidateImageFails, ReconcileReady, ReconcileWait, ShouldFailUpgrade, IsUpgradeable
    <2>3. CASE \/ CommenceUpgrade \/ GetClusterVersion \/ Patch \/ ControlPlaneUpgraded \/ ReconcileEnds \/ StepFails
               \/ CVOStarts \/ CVOCompletes \/ CVOSyncs \/ Upgradeable \/ UNCHANGED vars
        BY <2>3 DEF CommenceUpgrade, GetClusterVersion, Patch, ControlPlaneUpgraded, ReconcileEnds, StepFails,
                    CVOStarts, CVOCompletes, CVOSyncs, Upgradeable, vars
    <2> QED BY <1>a, <2>1, <2>2, <2>3 DEF Next
<1> SUFFICES Kept
    BY <1>b
<1>c. FirstAsked
    BY <1>a, <1>b DEF OfferInv
<1>d. call.at # "idle" => call # Idle /\ call \in Calls /\ call.cv \in CVs /\ HistoryOK(call.cv)
    BY CallFacts DEF VersionTypes
<1>e. Idle.at = "idle" /\ cv \in CVs /\ HistoryOK(cv) /\ uc \in Specs
    BY DEF Idle, VersionTypes
\* Where the entry has been found valid.
<1>f. /\ call.at \in {"Upgrading", "commence", "list", "patch", "controlplane"} => ~Early
      /\ call.at \in {"New", "Pending", "valid"} => Early
      /\ call.at = "history" => Early
    BY <1>b, <1>d DEF PhaseInv, Early, EntryInv, Phases
<1>1. ASSUME UNCHANGED <<cv, updates>>, call' = Idle, Early' <=> Early PROVE Kept
    BY <1>1, <1>c, <1>e DEF FirstAsked
<1>2. ASSUME UNCHANGED <<cv, updates, hist>>, call' = Idle PROVE Kept
    BY <1>1, <1>2 DEF Early
<1>3. ASSUME UNCHANGED <<cv, updates>>, call # Idle, call'.cv = call.cv, call'.updates = call.updates,
             call'.at \notin {"list", "patch", "valid"}, Early' => Early,
             Early' \/ ~Early \/ call.at = "valid" \/ cv.version = uc.version
      PROVE  Kept
    BY <1>3, <1>c DEF FirstAsked
<1>4. ASSUME UNCHANGED <<cv, updates>>, call # Idle, NEW place \in Places \ {"list", "patch", "valid"}, Goto(place),
             Early' => Early, Early' \/ ~Early \/ call.at = "valid" \/ cv.version = uc.version
      PROVE  Kept
    BY <1>3, <1>4, GotoFacts
<1>5. CASE ValidateVersionFails \/ ValidateImageFails \/ ReconcileWait \/ ReconcileEnds \/ StepFails
    BY <1>2, <1>5 DEF ValidateVersionFails, ValidateImageFails, ReconcileWait, ReconcileEnds, StepFails, Fail
<1>6. CASE ReconcileGet
    <2>1. UNCHANGED <<cv, updates, hist>> /\ call'.cv = cv /\ call'.updates = updates
        BY <1>6 DEF ReconcileGet
    <2>2. call'.at \notin {"list", "patch", "valid"}
        <3>1. HasEntry(uc.version) => Entry.phase \in Phases
            BY EntryOf DEF VersionTypes
        <3> QED BY <1>6, <3>1 DEF ReconcileGet, Phases
    <2>3. Early' <=> Early
        BY <2>1 DEF Early
    <2> QED BY <1>c, <2>1, <2>2, <2>3 DEF FirstAsked
<1>7. CASE ReconcileHistory
    <2>1. call # Idle /\ Early /\ UNCHANGED <<cv, updates>>
        BY <1>7, <1>d, <1>f DEF ReconcileHistory
    <2>2. /\ Len(hist') = 1 /\ hist'[1].phase = (IF HasUpgradeCommenced THEN "Upgrading" ELSE "New")
          /\ Goto(hist'[1].phase)
        BY <1>7, <1>b, HistorySet
    <2>3. Early' \/ cv.version = uc.version
        BY <1>b, <2>2 DEF Early, HasUpgradeCommenced
    <2>4. call'.cv = call.cv /\ call'.updates = call.updates /\ call'.at \notin {"list", "patch", "valid"}
        BY <2>1, <2>2, GotoFacts DEF Places
    <2> QED BY <1>3, <2>1, <2>3, <2>4
<1>8. ASSUME NEW p \in Phases, SetHistory([Entry EXCEPT !.phase = p]), call.at \in Places \ {"history", "valid"}
      PROVE  Early' <=> p \in {"New", "Pending"}
    <2>1. HasEntry(uc.version)
        BY <1>8, <1>d DEF VersionTypes, Places
    <2>2. Len(hist') = 1 /\ hist'[1].phase = p
        BY <1>8, <1>b, <2>1, PhaseSet
    <2> QED BY <2>2 DEF Early
<1>9. CASE ReconcileNew
    <2>1. Early' <=> Early
        BY <1>8, <1>9, <1>f DEF ReconcileNew, Phases, Places
    <2> QED BY <1>1, <1>9, <2>1 DEF ReconcileNew
<1>10. CASE ShouldFailUpgrade
    <2>1. Early' <=> Early
        BY <1>8, <1>10, <1>f DEF ShouldFailUpgrade, Phases, Places
    <2> QED BY <1>1, <1>10, <2>1 DEF ShouldFailUpgrade
<1>11. CASE ControlPlaneUpgraded
    <2>1. Early' <=> Early
        <3>1. CASE HasUpgradeCompleted
            BY <1>8, <1>11, <1>f, <3>1 DEF ControlPlaneUpgraded, Phases, Places
        <3>2. CASE ~HasUpgradeCompleted
            BY <1>11, <3>2 DEF ControlPlaneUpgraded, Early
        <3> QED BY <3>1, <3>2
    <2> QED BY <1>1, <1>11, <2>1 DEF ControlPlaneUpgraded
<1>12. CASE ReconcileReady
    <2>1. call.at = "valid" /\ call # Idle /\ UNCHANGED <<cv, updates>> /\ Goto("Upgrading")
        BY <1>12, <1>d DEF ReconcileReady
    <2>2. ~Early'
        <3>1. Len(hist') = 1 /\ hist'[1].phase = "Upgrading"
            BY <1>12, <1>b, ReadySet
        <3> QED BY <3>1 DEF Early
    <2> QED BY <1>4, <2>1, <2>2 DEF Places
<1>13. CASE ValidateVersion
    <2>1. call.at = "Pending" /\ call # Idle /\ UNCHANGED <<cv, updates, hist>>
        BY <1>13, <1>d DEF ValidateVersion
    <2>2. CASE call' = Idle
        BY <1>2, <2>1, <2>2
    <2>3. CASE IsAvailableUpdate /\ Goto("valid")
        <3>1. call'.at = "valid" /\ call'.cv = call.cv /\ call'.updates = call.updates /\ call' # Idle
            BY <2>1, <2>3, GotoFacts DEF Places
        <3>2. Early /\ Early'
            BY <1>f, <2>1 DEF Early
        <3>3. ASSUME cv.version = None PROVE uc.version \in Successors(uc.channel, Installed)
            <4>1. call.cv.channel = FirstChannel /\ call.updates = FirstListing /\ AtFirst(call.cv)
                BY <1>c, <2>1, <3>2, <3>3 DEF FirstAsked
            <4>2. GetCurrentVersion(call.cv) = Installed
                BY <1>d, <2>1, <4>1, FirstFacts
            <4>3. CASE uc.channel # FirstChannel
                BY <2>3, <4>1, <4>2, <4>3 DEF IsAvailableUpdate
            <4>4. CASE uc.channel = FirstChannel
                <5>1. uc.version \in Offered(Listed(uc.channel, Installed))
                    BY <2>3, <4>1, <4>4 DEF IsAvailableUpdate, FirstListing, Offered
                <5> QED BY <1>e, <5>1, ListingFacts DEF Specs
            <4> QED BY <4>3, <4>4
        <3> QED BY <1>c, <2>1, <3>1, <3>2, <3>3 DEF FirstAsked
    <2> QED BY <1>13, <2>2, <2>3 DEF ValidateVersion
<1>14. CASE IsUpgradeable
    <2>1. call # Idle /\ UNCHANGED <<cv, updates, hist>> /\ ~Early /\ ~Early'
        BY <1>14, <1>d, <1>f DEF IsUpgradeable, Early
    <2> QED BY <1>2, <1>4, <1>14, <2>1 DEF IsUpgradeable, Places
<1>15. CASE CommenceUpgrade
    <2>1. call # Idle /\ UNCHANGED <<updates, hist>> /\ ~Early /\ ~Early'
        BY <1>15, <1>d, <1>f DEF CommenceUpgrade, Early
    <2>2. CASE Goto("controlplane") /\ UNCHANGED cv
        BY <1>4, <2>1, <2>2 DEF Places
    <2>3. CASE ~HasUpgradeCommenced /\ cv' = [cv EXCEPT !.channel = uc.channel] /\ Goto("list")
        <3>1. cv.version = None /\ uc.version # None
            BY <1>b, <1>c, <2>3 DEF FirstAsked, HasUpgradeCommenced
        <3>2. /\ cv'.version = cv.version /\ cv'.image = cv.image /\ cv'.target = cv.target
              /\ cv'.history = cv.history /\ cv'.channel = uc.channel
            BY <1>e, <2>3 DEF CVs
        <3>3. call'.at = "list" /\ call'.cv = call.cv /\ call'.updates = call.updates
            BY <2>1, <2>3, GotoFacts DEF Places
        <3> QED BY <1>c, <2>1, <3>1, <3>2, <3>3 DEF FirstAsked, AtFirst
    <2> QED BY <1>15, <1>b, <2>2, <2>3 DEF CommenceUpgrade
<1>16. CASE GetClusterVersion
    <2>1. call # Idle /\ call.at = "list" /\ UNCHANGED <<cv, updates, hist>> /\ ~Early /\ ~Early'
        BY <1>16, <1>d, <1>f DEF GetClusterVersion, Early
    <2>2. call'.at = "patch" /\ call'.cv = call.cv /\ call'.updates = updates
        BY <1>16, <1>d, <2>1 DEF GetClusterVersion, Calls
    <2> QED BY <1>c, <2>1, <2>2 DEF FirstAsked
<1>17. CASE Patch
    <2>1. call # Idle /\ call.at = "patch" /\ uc.version # None
        BY <1>17, <1>c, <1>d DEF Patch, FirstAsked
    <2>2. CASE cv' = cv /\ call' = Idle
        BY <1>2, <1>17, <2>2 DEF Patch
    <2>3. CASE Goto("controlplane") /\ cv'.version = uc.version
        <3>1. call'.at = "controlplane"
            BY <2>1, <2>3, GotoFacts DEF Places
        <3> QED BY <2>1, <2>3, <3>1
    <2> QED BY <1>17, <1>e, <2>2, <2>3 DEF Patch, CVs
<1>18. CASE CVOStarts \/ CVOCompletes
    <2>1. cv.version # None
        <3>1. ASSUME cv.version = None PROVE FALSE
            <4>1. cv.image = None /\ AtFirst(cv)
                BY <1>c, <3>1 DEF FirstAsked
            <4>2. cv.history[1].completed = 1
                BY <1>e, <4>1, FirstFacts
            <4> QED BY <1>18, <3>1, <4>1, <4>2 DEF CVOStarts, CVOCompletes, Asked, None
        <3> QED BY <3>1
    <2>2. UNCHANGED call /\ cv'.version = cv.version
        BY <1>18, <1>e DEF CVOStarts, CVOCompletes, CVs
    <2> QED BY <1>c, <2>1, <2>2 DEF FirstAsked
<1>19. CASE CVOSyncs
    <2>1. UNCHANGED <<cv, call, hist>> /\ updates' = Listed(cv.channel, cv.target)
        BY <1>19 DEF CVOSyncs
    <2>2. Early' <=> Early
        BY <2>1 DEF Early
    <2> QED BY <1>c, <2>1, <2>2 DEF FirstAsked, AtFirst, FirstListing, NewListing
<1>20. CASE Upgradeable \/ UNCHANGED vars
    <2>1. UNCHANGED <<cv, updates, call, hist>>
        BY <1>20 DEF Upgradeable, vars
    <2>2. Early' <=> Early
        BY <2>1 DEF Early
    <2> QED BY <1>c, <2>1, <2>2 DEF FirstAsked
<1>21. ~ValidateImage
    BY <1>b DEF ValidateImage
<1> QED
    BY <1>a, <1>b, <1>5, <1>6, <1>7, <1>9, <1>10, <1>11, <1>12, <1>13, <1>14, <1>15, <1>16, <1>17, <1>18,
       <1>19, <1>20, <1>21 DEF Next

LEMMA OfferInit == Init => PhaseInv /\ OfferInv
<1> SUFFICES ASSUME Init PROVE PhaseInv /\ OfferInv
    OBVIOUS
<1>1. call = Idle /\ call.at = "idle" /\ admin = 0 /\ ucs = 0
    BY DEF Init, Idle
<1>2. PhaseInv
    BY <1>1 DEF PhaseInv, Phases
<1>3. /\ cv.version = None /\ cv.image = None /\ cv.target = Installed /\ cv.channel = FirstChannel
      /\ Len(cv.history) = 1 /\ updates = FirstListing
    BY DEF Init, FirstListing
<1>4. Early
    BY DEF Init, Early
<1>5. FirstAsked
    BY <1>1, <1>3, <1>4 DEF FirstAsked, AtFirst
<1> QED BY <1>1, <1>2, <1>5 DEF OfferInv

LEMMA PatchIsOffered ==
    ASSUME VersionTypes, PhaseInv, OfferInv, Patch, cv' # cv, Undisturbed
    PROVE  /\ uc.version \in Successors(cv.channel, cv.target)
           /\ (uc.version \in Risky) = (cv'.image # None)
<1>1. call.at = "patch" /\ call # Idle /\ uc.image = None /\ FirstAsked
    BY CallFacts DEF Patch, OfferInv
<1>2. ~Early
    BY <1>1 DEF PhaseInv, Early
<1>3. /\ uc.version # None /\ cv.channel = uc.channel /\ cv.target = Installed
      /\ call.updates \in {FirstListing, NewListing} /\ uc.version \in Successors(uc.channel, Installed)
    BY <1>1, <1>2 DEF FirstAsked, AtFirst
<1>4. /\ uc.version \in Offered(call.updates)
      /\ cv'.image = IF uc.version \in call.updates.conditional THEN uc.version ELSE None
    BY <1>1 DEF Patch, Offered, VersionTypes, CVs
<1>5. PICK c \in Channels : call.updates = Listed(c, Installed)
    BY <1>3, VersionAssumption DEF FirstListing, NewListing, VersionTypes, Specs
<1>6. uc.version \in call.updates.conditional <=> uc.version \in Risky
    BY <1>4, <1>5, ListingFacts
<1> QED BY <1>3, <1>4, <1>6

\* Where Cincinnati may be asked, what the operator asks the ClusterVersion for,
\* undisturbed, is an update of the installed release in the channel it has just set, though
\* the listing it goes by may be that of the channel before, and is asked for by its image
\* if it is not recommended, for every update graph and however many calls fail
\* (ValidateUpgradeConfig, runUpgradeWithChannelVersion).
THEOREM AskedIsAnUpdate == ASSUME Cincinnati PROVE SafetySpec => AskedIsOffered
<1> DEFINE I == VersionTypes /\ EntryInv /\ PhaseInv /\ OfferInv
<1>1. Init => I
    BY VersionInit, OfferInit DEF VersionInv
<1>2. I /\ [Next]_vars => I'
    BY TypesNext, EntryNext, PhaseNext, OfferNext
<1>3. I /\ [Next]_vars =>
        [Patch /\ cv' # cv /\ Undisturbed =>
            /\ uc.version \in Successors(cv.channel, cv.target)
            /\ (uc.version \in Risky) = (cv'.image # None)]_vars
    BY PatchIsOffered
<1> QED BY <1>1, <1>2, <1>3, PTL DEF SafetySpec, AskedIsOffered

================================================================================
