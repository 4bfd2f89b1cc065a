--------------------------- MODULE LatestReading ---------------------------
(***************************************************************************)
(* What the shared reading is for, without the memory it travels through:  *)
(* the helper measures samples and makes each visible at once, and a read  *)
(* by the interface yields the visible one, whole, or nothing.  A helper   *)
(* that starts where another has been takes the record over bit by bit;    *)
(* a look that begins before it is through may blur samples, and no other  *)
(* may.                                                                    *)
(***************************************************************************)
EXTENDS Naturals

VARIABLES
  measured,   \* number of the newest sample the helper has begun to publish
  record,     \* the visible sample; 0 while a helper has published none
  starting,   \* is a record of an earlier helper being taken over?
  overlapped, \* did that happen during the last look?
  seen        \* what the last read gave: {} or one sample, unless blurred

vars == <<measured, record, starting, overlapped, seen>>

Init ==
  /\ measured = 0
  /\ record = 0
  /\ starting = FALSE
  /\ overlapped = FALSE
  /\ seen = {}

Measure == measured' = measured + 1 /\ UNCHANGED <<record, starting, overlapped, seen>>

Publish ==
  /\ ~ starting
  /\ record' = measured
  /\ UNCHANGED <<measured, starting, overlapped, seen>>

(* A helper that has just started has nothing to show: at once if there is *)
(* no record to take over, and in the end (Settle) if there is.            *)
Restart ==
  /\ record' = 0
  /\ starting' \in BOOLEAN
  /\ overlapped' = (overlapped \/ starting')
  /\ UNCHANGED <<measured, seen>>

Settle == starting' = FALSE /\ UNCHANGED <<measured, record, overlapped, seen>>

(* A look begins: from here to Take the record must not be taken over. *)
Look == overlapped' = starting /\ UNCHANGED <<measured, record, starting, seen>>

Take ==
  /\ seen' = {record}
  /\ UNCHANGED <<measured, record, starting, overlapped>>

Blur ==
  /\ overlapped
  /\ seen' \subseteq 0 .. measured
  /\ UNCHANGED <<measured, record, starting, overlapped>>

Miss == seen' = {} /\ UNCHANGED <<measured, record, starting, overlapped>>

Next == Measure \/ Publish \/ Restart \/ Settle \/ Look \/ Take \/ Blur \/ Miss

Spec == Init /\ [][Next]_vars
=============================================================================
