---------------------------- MODULE TierTrackerH ----------------------------
(***************************************************************************)
(* TierTracker with history variables, and what is claimed of it.  The     *)
(* history variables record what was really observed, in SustainedTier's   *)
(* own terms and not out of the deque, so that a property about them is    *)
(* not a property about the code's own bookkeeping.                        *)
(***************************************************************************)
EXTENDS TierTracker

VARIABLES
  below, above, watched,  \* see SustainedTier
  sinceRise,              \* time since the shown tier last got worse
  sinceFall               \* time since it last got better

witness == <<below, above, watched, sinceRise, sinceFall>>
hvars   == <<current, latest, history, witness>>

Promise == INSTANCE SustainedTier WITH shown <- current.tier

Limit == Longest + 1

HInit ==
  /\ Init
  /\ Promise!Init
  /\ sinceRise = Limit
  /\ sinceFall = Limit

HObserve(a, dt) ==
  /\ Observe(a, dt)
  /\ Promise!Witness(a.tier, dt)
  /\ sinceRise' = IF current'.tier > current.tier
                  THEN 0 ELSE Promise!Later(sinceRise, dt)
  /\ sinceFall' = IF current'.tier < current.tier
                  THEN 0 ELSE Promise!Later(sinceFall, dt)

HNext == \E a \in Assessments, dt \in Elapsed : HObserve(a, dt)

HSpec == HInit /\ [][HNext]_hvars

(* No gap between two windows exceeds the longest requirement ... *)
GapsWithinLongest == \A dt \in Elapsed : dt <= Longest

(* ... or either of them.  At the real 500 ms interval both hold with room *)
(* to spare; a failed sample, a stall or a suspend breaks them.            *)
GapsWithinBoth == \A dt \in Elapsed : dt <= escalate_ms /\ dt <= settle_ms

-----------------------------------------------------------------------------
(* Types: the deque holds assessments of ages up to the horizon, the       *)
(* newest among them the latest judgement (observe's push_back).           *)
TypeOK ==
  /\ current \in Assessments
  /\ latest \in Assessments
  /\ DOMAIN history \subseteq 0 .. Horizon
  /\ history = [g \in DOMAIN history |-> history[g]]
  /\ \A g \in DOMAIN history : history[g] \in Assessments
  /\ DOMAIN history # {} => 0 \in DOMAIN history /\ history[0] = latest
  /\ below \in [Tiers -> 0 .. Limit]
  /\ above \in [Tiers -> 0 .. Limit]
  /\ watched \in -1 .. Limit
  /\ sinceRise \in 0 .. Limit
  /\ sinceFall \in 0 .. Limit

(* Whatever the gaps between windows and whatever was pruned from the      *)
(* deque: when the shown tier gets worse (observe's first branch), no      *)
(* window of the last escalate_ms was better than the new tier and the     *)
(* machine has been watched that long; when it gets better, no window of   *)
(* the last settle_ms was worse than the new tier.                         *)
SustainedMove ==
  /\ current'.tier > current.tier =>
       below'[current'.tier] > escalate_ms /\ watched' >= escalate_ms
  /\ current'.tier < current.tier =>
       above'[current'.tier] > settle_ms /\ watched' >= settle_ms

MovesAreSustained == [][SustainedMove]_hvars

(* "Stops the icon flickering": the shown tier never gets better within    *)
(* settle_ms of getting worse, nor worse within escalate_ms of getting     *)
(* better.                                                                 *)
UnhurriedReversal ==
  /\ current'.tier < current.tier => sinceRise' > settle_ms
  /\ current'.tier > current.tier => sinceFall' > escalate_ms

NoFlicker == [][UnhurriedReversal]_hvars

(* As long as no gap exceeds the longest window, pruning never leaves the  *)
(* rules with "not enough history" once they have had enough: the deque    *)
(* covers both windows for good, however unevenly the clock ticks.         *)
CoverageSurvivesJitter ==
  /\ watched >= escalate_ms => Covered(history, escalate_ms)
  /\ watched >= settle_ms => Covered(history, settle_ms)

(* A tier and its reason travel together: Easy is shown without a reason,  *)
(* every other tier with one, whichever branch of observe set them.        *)
ReasonMatchesTier ==
  current.reason = "Clear" <=> current.tier = Easy

(* When windows come at least every escalate_ms the tier never moves on a  *)
(* single sample: the window before agrees with the move.                  *)
AgreedMove ==
  /\ current'.tier > current.tier => latest.tier >= current'.tier
  /\ current'.tier < current.tier => latest.tier <= current'.tier

NeverOnASingleSample == [][AgreedMove]_hvars

(* The shown tier is what SustainedTier shows, step for step.              *)
KeepsThePromise == Promise!Spec
=============================================================================
