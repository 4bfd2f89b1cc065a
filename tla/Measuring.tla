----------------------------- MODULE Measuring -----------------------------
(***************************************************************************)
(* How the interface measures the machine: the counter query and the       *)
(* rolling window of crates/loadbear-sensors-windows/src/counters.rs, and  *)
(* what the disk normally does, learned and kept on file by baseline.rs,   *)
(* as the sampling thread of crates/loadbear-app/src/main.rs drives them.  *)
(*                                                                         *)
(* Of the eight counters, the four that stalls and the baseline are made   *)
(* of; the others are reduced in the same way.  A stall is a percentage,   *)
(* rounded down, and nothing before it is rounded.                         *)
(***************************************************************************)
EXTENDS Integers, FiniteSets, SequencesExt

CONSTANTS
  WINDOW_SAMPLES, PAGES_INPUT_SATURATED,
  MIN_SAMPLES, WINDOW, QUIET_QUEUE, SATURATION_RATIO, BASELINE_SAVE_EVERY,
  logical,        \* logical processors
  Collections,    \* what the counters may give: functions on Counters
  Failures,       \* sets of counters that may fail to be formatted at once
  SavesFail,      \* may a write of the baseline fail?
  OtherTexts      \* what another interface may have learned of this disk

(* CounterSample: run queue, hard faults, latency and depth of the disk.   *)
Counters == {"queue", "faults", "latency", "depth"}

(* Real traffic, and no backlog: what the disk does, whatever the counters *)
(* can say of it.                                                          *)
QuietTraffic(values) == values["latency"] > 0 /\ values["depth"] <= QUIET_QUEUE

(* A latency that was learned.  That it was a backlog's, whose depth could *)
(* not be read, is history: the program keeps the latency alone.           *)
Entry == [latency : Nat \ {0}, misread : BOOLEAN]

ASSUME MeasuringAssumption ==
  /\ Collections \subseteq [Counters -> Nat]
  /\ \A t \in OtherTexts :
       /\ t \in Seq(Entry) /\ Len(t) <= WINDOW
       /\ \A i \in DOMAIN t : ~ t[i].misread =>
            \E v \in Collections : QuietTraffic(v) /\ v["latency"] = t[i].latency
  /\ {WINDOW_SAMPLES, PAGES_INPUT_SATURATED, MIN_SAMPLES, WINDOW} \subseteq Nat \ {0}
  /\ {SATURATION_RATIO, BASELINE_SAVE_EVERY, logical} \subseteq Nat \ {0}
  /\ QUIET_QUEUE \in Nat
  /\ SavesFail \in BOOLEAN

VARIABLES
  thread,     \* "opening", "running", "saving" or "gone"
  tick,       \* passes, as far as BASELINE_SAVE_EVERY tells them apart
  raw,        \* the newest sample
  window,     \* the samples held, oldest first
  baseline,   \* entries that qualified, oldest first
  dirty,      \* have they changed since the last write?
  file,       \* disk-baseline.json: its text, and whether it is whole
  seen        \* history: the latencies of this disk's quiet traffic

vars == <<thread, tick, raw, window, baseline, dirty, file, seen>>

-----------------------------------------------------------------------------
(* CounterSample::default, from which sample starts. *)
NoSample == [c \in Counters |-> 0]

(* A counter that cannot be formatted is passed over, and stays 0. *)
Sampled(values, failed) == [c \in Counters |-> IF c \in failed THEN 0 ELSE values[c]]

(* What stands at k once s is sorted: fewer than k are less, and at least  *)
(* k no greater.                                                           *)
Ranked(s, k) ==
  CHOOSE v \in Range(s) :
    /\ Cardinality({i \in DOMAIN s : s[i] < v}) < k
    /\ k <= Cardinality({i \in DOMAIN s : s[i] <= v})

(* SampleWindow::push. *)
Pushed(s) == (IF Len(window) = WINDOW_SAMPLES THEN Tail(window) ELSE window) \o <<s>>

Column(w, c) == [i \in DOMAIN w |-> w[i][c]]

Totals(w) ==
  [c \in Counters |-> SumFunctionOnSet(Column(w, c), DOMAIN w)]

(* What a window comes to, counter by counter: so many parts, of which so  *)
(* many make one.                                                          *)

(* Mutant of Median: the mean, which the window was built with at first. *)
MedianIsMean(w) == [parts |-> Totals(w), inOne |-> Len(w)]

Median(w) ==
  [parts |-> [c \in Counters |->
                LET v == Column(w, c)  mid == Len(w) \div 2
                IN IF Len(w) % 2 = 0 THEN Ranked(v, mid) + Ranked(v, mid + 1)
                                     ELSE 2 * Ranked(v, mid + 1)],
   inOne |-> 2]

(* Mutant of Average: divides by what the window could hold. *)
AverageOverCapacity(w) == [parts |-> Totals(w), inOne |-> WINDOW_SAMPLES]

Average(w) == [parts |-> Totals(w), inOne |-> Len(w)]

(* No figure. *)
None == -1

-----------------------------------------------------------------------------
(* DiskBaseline.                                                           *)

(* Mutant of Qualifies: a backlog is learned like any traffic. *)
QualifiesAtAnyDepth(s) == s["latency"] > 0

Qualifies(s) == s["latency"] > 0 /\ s["depth"] <= QUIET_QUEUE

(* Mutant of Kept: what was learned first is kept for good. *)
KeptForLife(b, e) == IF Len(b) = WINDOW THEN b ELSE b \o <<e>>

Kept(b, e) == (IF Len(b) = WINDOW THEN Tail(b) ELSE b) \o <<e>>

Latencies(b) == [i \in DOMAIN b |-> b[i].latency]

(* Enough samples, the upper one of the middle, ten times as long. *)
SaturationPoint(b) ==
  IF Len(b) < MIN_SAMPLES THEN None
  ELSE SATURATION_RATIO * Ranked(Latencies(b), Len(b) \div 2 + 1)

(* load: a missing or broken file is an empty baseline. *)
Loaded == IF file.whole THEN file.text ELSE <<>>

(* The percentage of what counts as saturated, and no more than all of it. *)
Percent(parts, saturated) ==
  LET pct == (100 * parts) \div saturated IN IF pct > 100 THEN 100 ELSE pct

(* to_stall: the disk says nothing before its normal latency is known. *)
Stall(s, saturation) ==
  [cpu    |-> Percent(s.parts["queue"], s.inOne * logical),
   memory |-> Percent(s.parts["faults"], s.inOne * PAGES_INPUT_SATURATED),
   io     |-> IF saturation = None THEN None
              ELSE Percent(s.parts["latency"], s.inOne * saturation)]

(* What is judged, and what the graph shows. *)
Judged    == Stall(Median(window), SaturationPoint(baseline))
Displayed == Stall(Average(window), SaturationPoint(baseline))

-----------------------------------------------------------------------------
Init ==
  /\ thread = "opening"
  /\ tick = 0
  /\ raw = NoSample
  /\ window = <<>>
  /\ baseline = <<>>
  /\ dirty = FALSE
  /\ file = [whole |-> FALSE, text |-> <<>>]
  /\ seen = {}

(* Counters::open adds every counter or gives up, and with it the thread. *)
OpenFails ==
  /\ thread = "opening"
  /\ thread' = "gone"
  /\ UNCHANGED <<tick, raw, window, baseline, dirty, file, seen>>

Open ==
  /\ thread = "opening"
  /\ thread' = "running"
  /\ baseline' = Loaded
  /\ UNCHANGED <<tick, raw, window, dirty, file, seen>>

(* save_if_changed, once in so many passes: std::fs::write begins by       *)
(* truncating the file, if it can be opened.                               *)
Save(due) ==
  \/ /\ due /\ dirty'
     /\ thread' = "saving"
     /\ file' = [whole |-> FALSE, text |-> <<>>]
  \/ /\ due /\ dirty' => SavesFail
     /\ UNCHANGED <<thread, file>>

(* A pass of the sampling thread, after a sample that succeeded. *)
Pass ==
  /\ thread = "running"
  /\ \E values \in Collections, failed \in Failures :
       LET s == Sampled(values, failed) IN
       /\ raw' = s
       /\ window' = Pushed(s)
       /\ IF Qualifies(s)
          THEN /\ baseline' = Kept(baseline,
                     [latency |-> s["latency"],
                      misread |-> "depth" \in failed /\ values["depth"] > QUIET_QUEUE])
               /\ dirty' = TRUE
          ELSE UNCHANGED <<baseline, dirty>>
       /\ seen' = seen \cup {l \in {values["latency"]} : QuietTraffic(values)}
  /\ tick' = (tick + 1) % BASELINE_SAVE_EVERY
  /\ Save(tick' = 0)

(* The text is written, or the disk is full and a part of it is. *)
FinishSave ==
  /\ thread = "saving"
  /\ thread' = "running"
  /\ \E ok \in BOOLEAN :
       /\ ~ ok => SavesFail
       /\ dirty' = ~ ok
       /\ file' = IF ok THEN [whole |-> TRUE, text |-> baseline] ELSE file
  /\ UNCHANGED <<tick, raw, window, baseline, seen>>

(* The interface ends, at any point, and is started again. *)
Restart ==
  /\ thread' = "opening"
  /\ tick' = 0
  /\ raw' = NoSample
  /\ window' = <<>>
  /\ baseline' = <<>>
  /\ dirty' = FALSE
  /\ UNCHANGED <<file, seen>>

(* Nothing keeps a person from running the interface twice: the other one  *)
(* watches the same disk and writes the same file, or is cut short in it.  *)
OtherSaves ==
  /\ \E t \in OtherTexts, whole \in BOOLEAN :
       /\ file' = [whole |-> whole, text |-> IF whole THEN t ELSE <<>>]
       /\ seen' = seen \cup {t[i].latency : i \in {k \in DOMAIN t : ~ t[k].misread}}
  /\ UNCHANGED <<thread, tick, raw, window, baseline, dirty>>

Next == OpenFails \/ Open \/ Pass \/ FinishSave \/ Restart \/ OtherSaves

Spec == Init /\ [][Next]_vars

(* The thread goes on with what it has begun; that Windows refuses the     *)
(* counters is nobody's duty.                                              *)
FairSpec == Spec /\ WF_vars(Pass) /\ WF_vars(FinishSave)

-----------------------------------------------------------------------------
(* "A single spike cannot move a median": once three samples are held, no  *)
(* single one of them, a spike or a counter that could not be read,        *)
(* decides what is judged, in any field.                                   *)
OneSampleNeverDecides ==
  Len(window) >= 3 =>
    \A c \in Counters : \A i \in DOMAIN window :
      Cardinality({k \in DOMAIN window : window[k][c] = window[i][c]}) >= Len(window) - 1
        => Median(window).parts[c] = Median(window).inOne * window[i][c]

(* What is judged from the median shows in the mean: no bar of the graph   *)
(* stands at less than half of the pressure that moves the tier, as far as *)
(* whole percents can tell.                                                *)
PressureShowsOnTheGraph ==
  window # <<>> =>
    \A r \in {"cpu", "memory", "io"} : 2 * Displayed[r] + 1 >= Judged[r]

(* Whatever crashes, full disks and other interfaces left of the file, and *)
(* although a counter that fails reads as an empty queue: while less than  *)
(* half of what is kept was a backlog that could not be read, the latency  *)
(* at which the disk counts as saturated lies within ten times those that  *)
(* it showed in quiet traffic (observe, median, load).                     *)
SaturationIsMeasured ==
  /\ SaturationPoint(baseline) # None
  /\ 2 * Cardinality({i \in DOMAIN baseline : baseline[i].misread}) < Len(baseline)
  => \E low, high \in seen :
       /\ SATURATION_RATIO * low <= SaturationPoint(baseline)
       /\ SaturationPoint(baseline) <= SATURATION_RATIO * high

(* What the doc of observe says, without the restriction: "Only quiet ones *)
(* with real traffic are kept".                                            *)
OnlyQuietIsLearned == \A i \in DOMAIN baseline : baseline[i].latency \in seen

QuietLatency(l) == raw["latency"] = l /\ raw["depth"] <= QUIET_QUEUE

(* "Replacing the disk eventually reteaches it": a disk that answers in    *)
(* another time from some moment on is held to that time in the end.       *)
DiskIsRelearned ==
  \A l \in {v["latency"] : v \in Collections} \ {0} :
    <>[]QuietLatency(l) /\ <>[][~ Restart]_vars
      => <>[](SaturationPoint(baseline) = SATURATION_RATIO * l)

(* "Losing a minute of learning to a crash costs a minute of relearning"   *)
(* (BASELINE_SAVE_EVERY): the next start finds all but what was learned    *)
(* since the last write that was due.                                      *)
CrashCostsAMinute ==
  [][Restart => Len(Loaded) + BASELINE_SAVE_EVERY >= Len(baseline)]_vars
=============================================================================
