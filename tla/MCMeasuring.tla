---------------------------- MODULE MCMeasuring ----------------------------
(***************************************************************************)
(* Collections for TLC: an idle disk, a calm machine, one with a backlog,  *)
(* and a disk that has become as slow for good as the backlog was.  What   *)
(* the last two give differs in nothing but the depth of the queue.        *)
(***************************************************************************)
EXTENDS Measuring

Collection(queue, faults, latency, depth) ==
  [c \in Counters |->
     CASE c = "queue"   -> queue
       [] c = "faults"  -> faults
       [] c = "latency" -> latency
       [] c = "depth"   -> depth]

Idle == Collection(0, 0, 0, 0)
Calm == Collection(0, 0, 2, 0)
Busy == Collection(30, 40, 36, 4)
Slow == Collection(30, 40, 36, 0)

MCCollections == {Idle, Calm, Busy, Slow}

Learned(latency, misread) == [latency |-> latency, misread |-> misread]

MCOtherTexts == {<<Learned(36, TRUE), Learned(2, FALSE)>>}
=============================================================================
