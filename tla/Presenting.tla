----------------------------- MODULE Presenting -----------------------------
(***************************************************************************)
(* What the interface says of a tier: the presenting half of a pass of the *)
(* sampling thread (crates/loadbear-app/src/main.rs), behind the tracker   *)
(* of TierTracker.  A pass observes this window's assessment, repaints the *)
(* tray and the taskbar button when the tier has moved, and stores the     *)
(* status that the page polls every two seconds.                           *)
(*                                                                         *)
(* Resources of TierTracker are here what a reason may name: a stalled     *)
(* resource, or the kind of a verdict.  A sentence is what it names and    *)
(* what it says of it.                                                     *)
(***************************************************************************)
EXTENDS TierTracker, Sequences

CONSTANTS
  Kinds,           \* the reasons that are verdicts
  WINDOW_SAMPLES,  \* samples that settle the window
  IconsFail        \* may an icon fail to be set?

ASSUME PresentingAssumption ==
  /\ Kinds \subseteq Resources
  /\ WINDOW_SAMPLES \in Nat \ {0}
  /\ IconsFail \in BOOLEAN

VARIABLES
  pc,          \* "sampling", "painting" or "storing"
  held,        \* samples in the window
  cards,       \* the kinds of this pass's findings
  last_tier,   \* the tier for which the icons were last painted
  tray,        \* the tier whose bear is in the tray
  button,      \* and on the taskbar button
  status       \* the shared status

presentVars == <<pc, held, cards, last_tier, tray, button, status>>
allVars     == <<vars, presentVars>>

-----------------------------------------------------------------------------
(* Sentences.                                                              *)
Blank      == <<>>
StartingUp == <<"Starting up">>

IsSettled == held = WINDOW_SAMPLES

(* reason_text: a verdict has a card of its own; a tier that the newest    *)
(* window does not share is said to be on the move.                        *)
ReasonText(adopted, now) ==
  IF ~ IsSettled /\ adopted.reason = "Clear" /\ now.reason = "Clear" THEN StartingUp
  ELSE IF now.tier # adopted.tier
       THEN <<now.reason, IF now.tier > adopted.tier THEN "Watching" ELSE "Easing off">>
       ELSE IF adopted.reason \in Kinds THEN Blank ELSE <<adopted.reason>>

(* driver_word, and what the page makes of it. *)
Heading(now) ==
  CASE now.reason = "Clear"             -> ""
    [] now.reason \in {"Memory", "Io"}  -> "by memory"
    [] now.reason \in Kinds \cup {"Cpu"} -> "by processor"

(* running_list: by the adopted reason, by processor when there is none. *)
Ranking(adopted) ==
  IF adopted.reason \in {"Memory", "Io"} THEN "by memory" ELSE "by processor"

-----------------------------------------------------------------------------
PresentInit ==
  /\ Init
  /\ pc = "sampling"
  /\ held = 0
  /\ cards = {}
  /\ last_tier = Easy
  /\ tray = Easy
  /\ button = Easy
  /\ status = [tier |-> Easy, reason |-> StartingUp, cards |-> {}, heading |-> "",
               ranking |-> "by processor"]

(* The window is judged: a verdict that gives the reason is a finding, and *)
(* a machine with a finding is not at ease.                                *)
Measure ==
  /\ pc = "sampling"
  /\ \E a \in Assessments, dt \in Elapsed, found \in SUBSET Kinds :
       /\ a.reason \in Kinds => a.reason \in found
       /\ a = Calm => found = {}
       /\ Observe(a, dt)
       /\ cards' = found
  /\ held' = IF IsSettled THEN held ELSE held + 1
  /\ pc' = "painting"
  /\ UNCHANGED <<last_tier, tray, button, status>>

(* Mutant of Moved: only trouble is painted. *)
MovedUp == current.tier > last_tier

Moved == current.tier # last_tier

(* painted: a bear in the colour of its tier, the same for the tray and    *)
(* the button but for its size, or none if it cannot be made or set.       *)
Painted(tier) == {<<tier>>} \cup IF IconsFail THEN {<<>>} ELSE {}

Shown(icon, before) == IF icon = <<>> THEN before ELSE Head(icon)

(* An icon that cannot be set is let be: the tier counts as painted. *)
Paint ==
  /\ pc = "painting"
  /\ pc' = "storing"
  /\ IF Moved
     THEN /\ last_tier' = current.tier
          /\ \E small, large \in Painted(current.tier) :
               tray' = Shown(small, tray) /\ button' = Shown(large, button)
     ELSE UNCHANGED <<last_tier, tray, button>>
  /\ UNCHANGED <<vars, held, cards, status>>

Store ==
  /\ pc = "storing"
  /\ pc' = "sampling"
  /\ status' = [tier |-> current.tier, reason |-> ReasonText(current, latest),
                cards |-> cards, heading |-> Heading(latest),
                ranking |-> Ranking(current)]
  /\ UNCHANGED <<vars, held, cards, last_tier, tray, button>>

PresentNext == Measure \/ Paint \/ Store

PresentSpec == PresentInit /\ [][PresentNext]_allVars

-----------------------------------------------------------------------------
(* Between two passes the tray, the taskbar button and the status in the   *)
(* window show one tier, whichever way it moved, as long as icons can be   *)
(* set ("they can never disagree").                                        *)
IconsAgreeWithTheWindow ==
  pc = "sampling" => tray = status.tier /\ button = status.tier

(* A tier above Easy without a sentence and without a card. *)
Unexplained(s) == s.tier # Easy /\ s.reason = Blank /\ s.cards = {}

(* "A red icon with an empty findings list was a reachable and completely  *)
(* unexplained state. This is the sentence that fixes it" (Status).        *)
NeverUnexplained == ~ Unexplained(status)

(* It is left unexplained for one pass at the most: the next status names  *)
(* what the tracker has refreshed its reason with, or has a card for it.   *)
UnexplainedIsMomentary ==
  [][Store => ~ (Unexplained(status) /\ Unexplained(status'))]_allVars

(* "The contributor list is headed with the thing it is ranked by"         *)
(* (RUNNING_HEAD): when the list says how it is ranked, it is so ranked.   *)
HeadingNamesTheRanking == status.heading \in {"", status.ranking}
=============================================================================
