--------------------------- MODULE SustainedTier ---------------------------
(***************************************************************************)
(* What TierTracker promises, said without its deque: the shown tier is    *)
(* moved only by evidence that has gone unopposed for long enough, and it  *)
(* is moved as soon as such evidence exists.                               *)
(***************************************************************************)
EXTENDS Integers

CONSTANTS escalate_ms, settle_ms, Elapsed, Tiers, Easy

VARIABLES
  shown,    \* the tier on display
  below,    \* below[t]: time since a window was last better than t
  above,    \* above[t]: time since a window was last worse than t
  watched   \* how long the machine has been watched; -1 before it is

vars == <<shown, below, above, watched>>

(* Times beyond the longest requirement are all alike: the bound. *)
Longest   == IF escalate_ms >= settle_ms THEN escalate_ms ELSE settle_ms
Limit     == Longest + 1
Later(x, dt) == IF x + dt > Limit THEN Limit ELSE x + dt

(* The worst tier unopposed for escalate_ms: Floor.  The best unopposed    *)
(* for settle_ms: Ceiling.                                                 *)
Floor(b)   == CHOOSE t \in Tiers : /\ b[t] > escalate_ms
                                   /\ \A s \in Tiers : b[s] > escalate_ms => s <= t
Ceiling(b) == CHOOSE t \in Tiers : /\ b[t] > settle_ms
                                   /\ \A s \in Tiers : b[s] > settle_ms => s >= t

Rising(b, w)  == w >= escalate_ms /\ Floor(b) > shown
Falling(b, w) == w >= settle_ms /\ Ceiling(b) < shown

Init ==
  /\ shown = Easy
  /\ below = [t \in Tiers |-> Limit]
  /\ above = [t \in Tiers |-> Limit]
  /\ watched = -1

(* A window judged t, dt after the one before. *)
Witness(t, dt) ==
  /\ below' = [s \in Tiers |-> IF t < s THEN 0 ELSE Later(below[s], dt)]
  /\ above' = [s \in Tiers |-> IF t > s THEN 0 ELSE Later(above[s], dt)]
  /\ watched' = IF watched = -1 THEN 0 ELSE Later(watched, dt)

Show ==
  \/ Rising(below', watched') /\ shown' = Floor(below')
  \/ /\ ~ Rising(below', watched')
     /\ Falling(above', watched')
     /\ shown' = Ceiling(above')
  \/ /\ ~ Rising(below', watched')
     /\ ~ Falling(above', watched')
     /\ UNCHANGED shown

Next == \E t \in Tiers, dt \in Elapsed : Witness(t, dt) /\ Show

Spec == Init /\ [][Next]_vars
=============================================================================
