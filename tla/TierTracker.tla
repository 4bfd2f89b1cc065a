---------------------------- MODULE TierTracker ----------------------------
(***************************************************************************)
(* The sustained rule of crates/loadbear-core/src/tier.rs: TierTracker,    *)
(* which turns one instantaneous Assessment per sampling window into the   *)
(* tier the tray icon and the window show.                                 *)
(*                                                                         *)
(* The deque of (timestamp, assessment) pairs is kept as a function from   *)
(* the AGE of an observation to its assessment.  Every test the code makes *)
(* is on an age: t >= now - w is age <= w, oldest <= now - w is "some age  *)
(* is at least w", t < horizon is "age beyond Horizon".  The loop sleeps   *)
(* between two calls, so no two observations have the same age, and the    *)
(* front of the deque is the greatest age.                                 *)
(***************************************************************************)
EXTENDS Integers

CONSTANTS
  escalate_ms,  \* how long a worse state must hold
  settle_ms,    \* how long a recovery must hold
  Elapsed,      \* the times that may pass between two observations
  Resources     \* what the reason of a tier above Easy may name

ASSUME TrackerAssumption ==
  /\ escalate_ms \in Nat
  /\ settle_ms \in Nat
  /\ Elapsed \subseteq Nat \ {0}
  /\ Elapsed # {}
  /\ Resources # {}
  /\ "Clear" \notin Resources

VARIABLES
  current,      \* the adopted assessment, the tier to show
  latest,       \* the last window's judgement
  history       \* age of an observation -> its assessment

vars == <<current, latest, history>>

-----------------------------------------------------------------------------
(* The derived order of the enum: a larger number is a worse tier. *)
Easy     == 0
Braced   == 1
Strained == 2
Tiers    == {Easy, Braced, Strained}

Calm == [tier |-> Easy, reason |-> "Clear"]

(* What classify can return: Easy has no reason, the others have one. *)
Assessments == {Calm} \cup [tier : {Braced, Strained}, reason : Resources]

Longest == IF escalate_ms >= settle_ms THEN escalate_ms ELSE settle_ms

(* Mutant of Horizon: keeps no more than the longest window. *)
HorizonTooNear == Longest

(* Observations are kept for twice the longest window. *)
Horizon == 2 * Longest

(* Mutant of Recorded: prunes nothing. *)
RecordedUnpruned(h, a, dt) ==
  [g \in {0} \cup {k + dt : k \in DOMAIN h} |-> IF g = 0 THEN a ELSE h[g - dt]]

(* The deque after push_back and the pruning loop. *)
Recorded(h, a, dt) ==
  [g \in {0} \cup {k \in 1 .. Horizon : k - dt \in DOMAIN h} |->
     IF g = 0 THEN a ELSE h[g - dt]]

(* Mutant of Covered: an unwatched window counts as covered. *)
CoveredWhenEmpty(h, w) == DOMAIN h # {}

(* The oldest observation reaches back over the whole window. *)
Covered(h, w) == \E g \in DOMAIN h : g >= w

Within(h, w) == {g \in DOMAIN h : g <= w}

(* The fold of supported_by_all keeps the first of equals, the oldest one. *)
Oldest(h, W, t) ==
  h[CHOOSE g \in W : h[g].tier = t /\ \A k \in W : h[k].tier = t => k <= g]

(* The worst tier every observation of the window supports ... *)
WorstSupported(h, w) ==
  Oldest(h, Within(h, w),
    CHOOSE t \in Tiers : /\ \E g \in Within(h, w) : h[g].tier = t
                         /\ \A g \in Within(h, w) : h[g].tier >= t)

(* ... and the best one. *)
BestSupported(h, w) ==
  Oldest(h, Within(h, w),
    CHOOSE t \in Tiers : /\ \E g \in Within(h, w) : h[g].tier = t
                         /\ \A g \in Within(h, w) : h[g].tier <= t)

(* Mutant of EscalationDue: takes the worst window, not the best, of them. *)
EscalationDueOnAny(h) ==
  /\ Covered(h, escalate_ms)
  /\ BestSupported(h, escalate_ms).tier > current.tier

EscalationDue(h) ==
  /\ Covered(h, escalate_ms)
  /\ WorstSupported(h, escalate_ms).tier > current.tier

(* Mutant of SettlingDue: recovers as fast as it escalates. *)
SettlingDueEarly(h) ==
  /\ Covered(h, escalate_ms)
  /\ BestSupported(h, escalate_ms).tier < current.tier

SettlingDue(h) ==
  /\ Covered(h, settle_ms)
  /\ BestSupported(h, settle_ms).tier < current.tier

-----------------------------------------------------------------------------
Init ==
  /\ current = Calm
  /\ latest = Calm
  /\ history = [g \in {} |-> Calm]

(* Escalation is tried first and returns; settling second; otherwise an    *)
(* agreeing window lends its reason.                                       *)
Escalate(h) ==
  /\ EscalationDue(h)
  /\ current' = WorstSupported(h, escalate_ms)

Settle(h) ==
  /\ ~ EscalationDue(h)
  /\ SettlingDue(h)
  /\ current' = BestSupported(h, settle_ms)

(* Mutant of Keep: takes the reason of a window that does not agree. *)
KeepAnyReason(h, a) ==
  /\ ~ EscalationDue(h)
  /\ ~ SettlingDue(h)
  /\ current' = [current EXCEPT !.reason = a.reason]

(* Mutant of Keep: leaves the reason as it was adopted. *)
KeepFirstReason(h, a) ==
  /\ ~ EscalationDue(h)
  /\ ~ SettlingDue(h)
  /\ UNCHANGED current

Keep(h, a) ==
  /\ ~ EscalationDue(h)
  /\ ~ SettlingDue(h)
  /\ current' = IF a.tier = current.tier
                THEN [current EXCEPT !.reason = a.reason] ELSE current

Observe(a, dt) ==
  LET h == Recorded(history, a, dt) IN
  /\ latest' = a
  /\ history' = h
  /\ Escalate(h) \/ Settle(h) \/ Keep(h, a)

Next == \E a \in Assessments, dt \in Elapsed : Observe(a, dt)

Spec == Init /\ [][Next]_vars

(* The sampling thread's loop never ends, so observations never stop. *)
FairSpec == Spec /\ WF_vars(Next)

-----------------------------------------------------------------------------
(* A machine that stays in one state, tier and reason, ends up shown in    *)
(* it: observe's three branches together leave no judgement that lasts     *)
(* unadopted, and no reason unrefreshed, while windows keep coming.        *)
Converges ==
  \A a \in Assessments : <>[](latest = a) => <>[](current = a)
=============================================================================
