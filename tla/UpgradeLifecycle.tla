--------------------------- MODULE UpgradeLifecycle ----------------------------
(***************************************************************************)
(* What the operator promises about an upgrade, without the way it keeps   *)
(* the promise: no copies of the UpgradeConfig, no conflicts, no           *)
(* concurrent Refreshes, no reconciles cut in the middle.                  *)
(*                                                                         *)
(*   - an upgrade goes Unknown, New, Pending, Upgrading and ends Upgraded  *)
(*     or Failed; it may be withdrawn at any moment, and then begins again *)
(*     at Unknown when it is requested again;                              *)
(*   - it becomes Upgrading only after the provider, asked again, has      *)
(*     named it, unless the cluster is on its way to that version already; *)
(*   - the cluster is only told to go to versions the provider has named,  *)
(*     and each time to a later one;                                       *)
(*   - an upgrade the cluster was told of does not fail, and one the       *)
(*     cluster was not told of does not complete.                          *)
(***************************************************************************)
EXTENDS Integers

CONSTANTS Nil, Specs, Configured, InitialVersion

VARIABLES
    upgrade,   \* the requested upgrade and its phase, Nil when there is none
    asked,     \* the version the cluster was last told to go to, Nil when never
    confirmed  \* the specifications the provider has named when asked again

lifecycleVars == <<upgrade, asked, confirmed>>

LifecycleInit ==
    /\ upgrade = Nil
    /\ asked \in {Nil, InitialVersion}
    /\ confirmed = {}

Request ==
    /\ upgrade = Nil
    /\ \E s \in Specs : upgrade' = [spec |-> s, phase |-> "Unknown"]
    /\ UNCHANGED <<asked, confirmed>>

Withdraw ==
    /\ upgrade # Nil
    /\ upgrade' = Nil
    /\ UNCHANGED <<asked, confirmed>>

Confirm ==
    /\ \E s \in Specs : confirmed' = confirmed \cup {s}
    /\ UNCHANGED <<upgrade, asked>>

Advance(from, to, condition) ==
    /\ upgrade # Nil
    /\ upgrade.phase = from
    /\ condition
    /\ upgrade' = [upgrade EXCEPT !.phase = to]
    /\ UNCHANGED <<asked, confirmed>>

Told == asked = upgrade.spec.version

Observe  == Advance("Unknown", "New", ~Told)
Adopt    == Advance("Unknown", "Upgrading", Told)
Schedule == Advance("New", "Pending", TRUE)
Begin    == Advance("Pending", "Upgrading", Configured => upgrade.spec \in confirmed)
Complete == Advance("Upgrading", "Upgraded", Told)
Fail     == Advance("Upgrading", "Failed", ~Told)

Tell ==
    /\ \E s \in Specs :
          /\ Configured => s \in confirmed
          /\ s.version > (IF asked = Nil THEN InitialVersion ELSE asked)
          /\ asked' = s.version
    /\ UNCHANGED <<upgrade, confirmed>>

LifecycleNext ==
    \/ Request
    \/ Withdraw
    \/ Confirm
    \/ Observe
    \/ Adopt
    \/ Schedule
    \/ Begin
    \/ Complete
    \/ Fail
    \/ Tell

LifecycleSpec == LifecycleInit /\ [][LifecycleNext]_lifecycleVars

================================================================================
