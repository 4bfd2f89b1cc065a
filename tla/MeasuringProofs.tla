-------------------------- MODULE MeasuringProofs --------------------------
(***************************************************************************)
(* What is judged is what most samples say, and the disk is held to what   *)
(* it showed, for every length of the window, every processor count and    *)
(* everything the counters may give.                                       *)
(***************************************************************************)
EXTENDS Measuring, NaturalFacts

Below(s, v)  == {i \in DOMAIN s : s[i] < v}
UpTo(s, v)   == {i \in DOMAIN s : s[i] <= v}
Stands(s, k, v) == Cardinality(Below(s, v)) < k /\ k <= Cardinality(UpTo(s, v))

(* The indices of a sequence, and any part of them, can be counted. *)
LEMMA IndicesCount ==
  ASSUME NEW s \in Seq(Nat), NEW D \in SUBSET (DOMAIN s)
  PROVE  /\ IsFiniteSet(D) /\ Cardinality(D) \in Nat
         /\ Cardinality(D) <= Len(s)
         /\ DOMAIN s = 1 .. Len(s) /\ Len(s) \in Nat
         /\ Cardinality(DOMAIN s) = Len(s)
<1>1. DOMAIN s = 1 .. Len(s) /\ Len(s) \in Nat
  OBVIOUS
<1>2. IsFiniteSet(1 .. Len(s)) /\ Cardinality(1 .. Len(s)) = Len(s)
  <2>1. /\ IsFiniteSet(1 .. Len(s))
        /\ Cardinality(1 .. Len(s)) = IF 1 > Len(s) THEN 0 ELSE Len(s) - 1 + 1
    BY <1>1, FS_Interval
  <2> QED
    BY <1>1, <2>1
<1>3. IsFiniteSet(DOMAIN s) /\ Cardinality(DOMAIN s) = Len(s)
  BY <1>1, <1>2
<1>4. IsFiniteSet(D) /\ Cardinality(D) <= Cardinality(DOMAIN s)
  BY <1>3, FS_Subset
<1> QED
  BY <1>1, <1>3, <1>4, FS_CardinalityType

(* Every rank within a sequence of naturals is taken by a value of it.     *)
LEMMA RankTaken ==
  ASSUME NEW s \in Seq(Nat), NEW k \in Nat, 1 <= k, k <= Len(s)
  PROVE  Ranked(s, k) \in Range(s) /\ Stands(s, k, Ranked(s, k))
<1> DEFINE High == {v \in Nat : k <= Cardinality(UpTo(s, v))}
<1>1. \A i \in DOMAIN s : s[i] \in Nat
  OBVIOUS
<1>2. High # {}
  <2> DEFINE top == SumFunctionOnSet(s, DOMAIN s)
  <2>1. IsFiniteSet(DOMAIN s) /\ Cardinality(DOMAIN s) = Len(s)
    BY IndicesCount
  <2>2. top \in Nat
    BY <1>1, <2>1, SumFacts
  <2>3. \A i \in DOMAIN s : s[i] <= top
    <3> SUFFICES ASSUME NEW i \in DOMAIN s
                 PROVE  s[i] <= top
      OBVIOUS
    <3>1. top = s[i] + SumFunctionOnSet(s, DOMAIN s \ {i})
      BY <1>1, <2>1, SumWithout
    <3>2. IsFiniteSet(DOMAIN s \ {i})
      BY <2>1, FS_RemoveElement
    <3>3. SumFunctionOnSet(s, DOMAIN s \ {i}) \in Nat
      BY <1>1, <3>2, SumFacts
    <3> HIDE DEF top
    <3> QED
      BY <1>1, <2>2, <3>1, <3>3
  <2> HIDE DEF top
  <2>4. UpTo(s, top) = DOMAIN s
    BY <2>3 DEF UpTo
  <2> QED
    BY <2>1, <2>2, <2>4
<1>3. PICK v \in High : \A w \in High : v <= w
  <2>1. High \in SUBSET Nat
    OBVIOUS
  <2> HIDE DEF High
  <2> QED
    BY <1>2, <2>1, LeastExists
<1>4. v \in Nat /\ k <= Cardinality(UpTo(s, v))
  OBVIOUS
<1>5. Cardinality(Below(s, v)) < k
  <2> SUFFICES ASSUME ~ (Cardinality(Below(s, v)) < k) PROVE FALSE
    OBVIOUS
  <2>1. Cardinality(Below(s, v)) \in Nat
    BY IndicesCount DEF Below
  <2>2. CASE v = 0
    <3>1. Below(s, v) = {}
      BY <1>1, <2>2 DEF Below
    <3> QED
      BY <2>1, <3>1, FS_EmptySet
  <2>3. CASE v # 0
    <3>1. v - 1 \in Nat
      BY <1>4, <2>3
    <3>2. UpTo(s, v - 1) = Below(s, v)
      BY <1>1, <1>4 DEF UpTo, Below
    <3>3. v - 1 \in High
      BY <2>1, <3>1, <3>2
    <3> QED
      BY <1>3, <1>4, <3>3
  <2> QED
    BY <2>2, <2>3
<1>6. v \in Range(s)
  <2> SUFFICES ASSUME \A i \in DOMAIN s : s[i] # v PROVE FALSE
    BY DEF Range
  <2>1. UpTo(s, v) = Below(s, v)
    BY <1>1, <1>4 DEF UpTo, Below
  <2>2. Cardinality(Below(s, v)) \in Nat
    BY IndicesCount DEF Below
  <2> QED
    BY <1>4, <1>5, <2>1, <2>2
<1>7. Stands(s, k, v)
  BY <1>4, <1>5 DEF Stands
<1> HIDE DEF High
<1>8. Ranked(s, k) = CHOOSE w \in Range(s) : Stands(s, k, w)
  BY DEF Ranked, Stands, Below, UpTo
<1> QED
  BY <1>6, <1>7, <1>8

(* A value that all but one of the entries share takes every rank but the  *)
(* first and the last.                                                     *)
LEMMA RankShared ==
  ASSUME NEW s \in Seq(Nat), NEW k \in Nat, 2 <= k, k <= Len(s) - 1,
         NEW x \in Nat, Cardinality({i \in DOMAIN s : s[i] = x}) >= Len(s) - 1
  PROVE  Ranked(s, k) = x
<1> DEFINE v == Ranked(s, k)
           Same == {i \in DOMAIN s : s[i] = x}
           Rest == DOMAIN s \ Same
<1>1. Len(s) \in Nat /\ Cardinality(DOMAIN s) = Len(s) /\ IsFiniteSet(DOMAIN s)
  BY IndicesCount
<1>2. v \in Range(s) /\ Stands(s, k, v)
  BY <1>1, RankTaken
<1>3. v \in Nat
  BY <1>2 DEF Range
<1>4. /\ Cardinality(Same) \in Nat /\ Cardinality(Rest) \in Nat
      /\ Cardinality(Rest) <= 1
  <2>1. /\ IsFiniteSet(Same) /\ Cardinality(Same) \in Nat
        /\ IsFiniteSet(Rest) /\ Cardinality(Rest) \in Nat
    BY IndicesCount
  <2>2. Same \cup Rest = DOMAIN s /\ Same \cap Rest = {}
    OBVIOUS
  <2> HIDE DEF Same, Rest
  <2>3. Cardinality(DOMAIN s) = Cardinality(Same) + Cardinality(Rest) - Cardinality({})
    BY <2>1, <2>2, FS_Union
  <2>4. Cardinality(Same) >= Len(s) - 1
    BY DEF Same
  <2> QED
    BY <1>1, <2>1, <2>3, <2>4, FS_EmptySet
<1> HIDE DEF v
<1>5. \A i \in DOMAIN s : s[i] \in Nat
  OBVIOUS
<1>6. /\ Cardinality(Below(s, v)) \in Nat /\ Cardinality(UpTo(s, v)) \in Nat
      /\ IsFiniteSet(Rest) /\ IsFiniteSet(Below(s, v))
  BY IndicesCount DEF Below, UpTo
<1>7. ~ (v < x)
  <2> SUFFICES ASSUME v < x PROVE FALSE
    OBVIOUS
  <2>1. UpTo(s, v) \subseteq Rest
    BY <1>3, <1>5 DEF UpTo
  <2> HIDE DEF Rest
  <2>2. Cardinality(UpTo(s, v)) <= Cardinality(Rest)
    BY <1>6, <2>1, FS_Subset
  <2> QED
    BY <1>2, <1>4, <1>6, <2>2 DEF Stands
<1>8. ~ (x < v)
  <2> SUFFICES ASSUME x < v PROVE FALSE
    OBVIOUS
  <2>1. Same \subseteq Below(s, v)
    BY <1>3, <1>5 DEF Below
  <2>2. Cardinality(Same) >= Len(s) - 1
    OBVIOUS
  <2> HIDE DEF Same
  <2>3. Cardinality(Same) <= Cardinality(Below(s, v))
    BY <1>6, <2>1, FS_Subset
  <2> QED
    BY <1>1, <1>2, <1>4, <1>6, <2>2, <2>3 DEF Stands
<1> QED
  BY <1>3, <1>7, <1>8 DEF v
-----------------------------------------------------------------------------
(* Entries that are quiet traffic's, unless a backlog could not be read.   *)
Entries(shown) == {e \in Entry : ~ e.misread => e.latency \in shown}

(* No queue outgrows its bound, and the disk's latencies, learned or on    *)
(* file, are ones it showed in quiet traffic, or a backlog's whose depth   *)
(* could not be read.                                                      *)
MeasuringTypes ==
  /\ thread \in {"opening", "running", "saving", "gone"}
  /\ tick \in Nat
  /\ raw \in [Counters -> Nat]
  /\ window \in Seq([Counters -> Nat]) /\ Len(window) <= WINDOW_SAMPLES
  /\ seen \in SUBSET (Nat \ {0})
  /\ baseline \in Seq(Entries(seen)) /\ Len(baseline) <= WINDOW
  /\ dirty \in BOOLEAN
  /\ file \in [whole : BOOLEAN, text : Seq(Entries(seen))] /\ Len(file.text) <= WINDOW

(* While nothing waits to be written, a restart would lose nothing, unless *)
(* another interface has written since.                                    *)
CleanIsOnFile ==
  /\ thread = "opening" => baseline = <<>> /\ ~ dirty
  /\ thread = "saving" => dirty
  /\ thread = "running" /\ ~ dirty => baseline = Loaded

IInv == MeasuringTypes /\ (OtherTexts = {} => CleanIsOnFile)

(* A bounded queue that takes one more, and its oldest out when it is full. *)
LEMMA QueueKept ==
  ASSUME NEW S, NEW q \in Seq(S), NEW n \in Nat \ {0}, Len(q) <= n, NEW x \in S
  PROVE  LET p == (IF Len(q) = n THEN Tail(q) ELSE q) \o <<x>> IN
         p \in Seq(S) /\ Len(p) <= n
<1>1. <<x>> \in Seq(S) /\ Len(<<x>>) = 1
  OBVIOUS
<1>2. CASE Len(q) = n
  <2>1. q # <<>>
    BY <1>2
  <2>2. Tail(q) \in Seq(S) /\ Len(Tail(q)) = n - 1
    BY <1>2, <2>1
  <2>3. Tail(q) \o <<x>> \in Seq(S) /\ Len(Tail(q) \o <<x>>) = n
    BY <1>1, <2>2
  <2> QED
    BY <1>2, <2>3
<1>3. CASE Len(q) # n
  <2>1. q \o <<x>> \in Seq(S) /\ Len(q \o <<x>>) = Len(q) + 1 /\ Len(q) \in Nat
    BY <1>1
  <2> QED
    BY <1>3, <2>1
<1> QED
  BY <1>2, <1>3

LEMMA SampleTyped ==
  ASSUME NEW values \in Collections, NEW failed
  PROVE  Sampled(values, failed) \in [Counters -> Nat]
BY MeasuringAssumption DEF Sampled

LEMMA SeqWider ==
  ASSUME NEW S, NEW T, S \subseteq T, NEW q \in Seq(S)
  PROVE  q \in Seq(T)
OBVIOUS

LEMMA EntriesGrow ==
  ASSUME NEW shown, NEW more, shown \subseteq more
  PROVE  Entries(shown) \subseteq Entries(more)
BY DEF Entries

LEMMA LoadedTyped ==
  ASSUME MeasuringTypes
  PROVE  Loaded \in Seq(Entries(seen)) /\ Len(Loaded) <= WINDOW
<1>1. <<>> \in Seq(Entries(seen)) /\ Len(<<>>) = 0
  OBVIOUS
<1>2. WINDOW \in Nat
  BY MeasuringAssumption
<1> QED
  BY <1>1, <1>2 DEF Loaded, MeasuringTypes

LEMMA InitIInv ==
  ASSUME Init PROVE IInv
<1>1. <<>> \in Seq([Counters -> Nat]) /\ <<>> \in Seq(Entries({})) /\ Len(<<>>) = 0
  OBVIOUS
<1>2. NoSample \in [Counters -> Nat]
  BY DEF NoSample
<1>3. WINDOW \in Nat /\ WINDOW_SAMPLES \in Nat
  BY MeasuringAssumption
<1>4. /\ window \in Seq([Counters -> Nat]) /\ Len(window) <= WINDOW_SAMPLES
      /\ baseline \in Seq(Entries(seen)) /\ Len(baseline) <= WINDOW
  BY <1>1, <1>3 DEF Init
<1>5. file \in [whole : BOOLEAN, text : Seq(Entries(seen))] /\ Len(file.text) <= WINDOW
  <2>1. file = [whole |-> FALSE, text |-> <<>>] /\ seen = {}
    BY DEF Init
  <2> QED
    BY <1>1, <1>3, <2>1
<1>6. MeasuringTypes
  <2>1. /\ thread = "opening" /\ tick = 0 /\ raw = NoSample
        /\ dirty = FALSE /\ seen = {}
    BY DEF Init
  <2> QED
    BY <1>2, <1>4, <1>5, <2>1 DEF MeasuringTypes
<1>7. CleanIsOnFile
  BY DEF Init, CleanIsOnFile
<1> QED
  BY <1>6, <1>7 DEF IInv

(* What a sample leaves, and what the write due after it begins.           *)
LEMMA PassKeeps ==
  ASSUME IInv, Pass PROVE IInv'
<1> USE DEF IInv
<1>1. PICK values \in Collections, failed \in Failures :
        LET s == Sampled(values, failed) IN
        /\ raw' = s
        /\ window' = Pushed(s)
        /\ IF Qualifies(s)
           THEN /\ baseline' = Kept(baseline,
                      [latency |-> s["latency"],
                       misread |-> "depth" \in failed /\ values["depth"] > QUIET_QUEUE])
                /\ dirty' = TRUE
           ELSE UNCHANGED <<baseline, dirty>>
        /\ seen' = seen \cup {l \in {values["latency"]} : QuietTraffic(values)}
  BY DEF Pass
<1> DEFINE s == Sampled(values, failed)
           misread == "depth" \in failed /\ values["depth"] > QUIET_QUEUE
           e == [latency |-> s["latency"], misread |-> misread]
<1>2. s \in [Counters -> Nat]
  BY SampleTyped
<1>3. /\ values \in [Counters -> Nat] /\ {"latency", "depth"} \subseteq Counters
      /\ seen \in SUBSET (Nat \ {0})
  BY MeasuringAssumption DEF Counters, MeasuringTypes
<1>4. /\ raw' = s /\ window' = Pushed(s)
      /\ \/ Qualifies(s) /\ baseline' = Kept(baseline, e) /\ dirty' = TRUE
         \/ UNCHANGED <<baseline, dirty>>
      /\ seen' = seen \cup {l \in {values["latency"]} : QuietTraffic(values)}
  BY <1>1 DEF s, e, misread
<1>13. seen' \in SUBSET (Nat \ {0}) /\ seen \subseteq seen'
  <2>1. QuietTraffic(values) => values["latency"] \in Nat \ {0}
    BY <1>3 DEF QuietTraffic
  <2> QED
    BY <1>3, <1>4, <2>1, Zenon
<1>14. ASSUME Qualifies(s) PROVE e \in Entries(seen')
  <2>1. s["latency"] \in Nat \ {0}
    BY <1>2, <1>3, <1>14 DEF Qualifies
  <2>2. misread \in BOOLEAN
    BY Zenon
  <2>3. s["latency"] = values["latency"]
    BY <1>3, <2>1 DEF Sampled, s
  <2>4. "depth" \notin failed => s["depth"] = values["depth"]
    BY <1>3 DEF Sampled, s
  <2>5. s["depth"] <= QUIET_QUEUE /\ s["latency"] > 0
    BY <1>14 DEF Qualifies
  <2>6. ASSUME ~ misread PROVE s["latency"] \in seen'
    <3>1. values["depth"] <= QUIET_QUEUE
      <4>1. CASE "depth" \in failed
        <5>1. ~ (values["depth"] > QUIET_QUEUE)
          BY <2>6, <4>1 DEF misread
        <5> QED
          BY <1>3, <5>1, MeasuringAssumption
      <4>2. CASE "depth" \notin failed
        BY <2>4, <2>5, <4>2
      <4> QED
        BY <4>1, <4>2
    <3>2. QuietTraffic(values)
      BY <2>3, <2>5, <3>1 DEF QuietTraffic
    <3> QED
      BY <1>4, <2>3, <3>2, Zenon
  <2> HIDE DEF s, misread
  <2>7. e \in Entry
    BY <2>1, <2>2 DEF Entry
  <2> QED
    BY <2>6, <2>7 DEF Entries
<1> HIDE DEF s, e, misread
<1>5. {WINDOW_SAMPLES, WINDOW, BASELINE_SAVE_EVERY} \subseteq Nat \ {0}
  BY MeasuringAssumption
<1>6. window' \in Seq([Counters -> Nat]) /\ Len(window') <= WINDOW_SAMPLES
  <2>1. window \in Seq([Counters -> Nat]) /\ Len(window) <= WINDOW_SAMPLES
    BY DEF MeasuringTypes
  <2> QED
    BY <1>2, <1>4, <1>5, <2>1, QueueKept DEF Pushed
<1>7. /\ Entries(seen) \subseteq Entries(seen')
      /\ baseline' \in Seq(Entries(seen')) /\ Len(baseline') <= WINDOW
      /\ dirty' \in BOOLEAN
  <2>1. Entries(seen) \subseteq Entries(seen')
    BY <1>13, EntriesGrow
  <2>2. baseline \in Seq(Entries(seen)) /\ Len(baseline) <= WINDOW /\ dirty \in BOOLEAN
    BY DEF MeasuringTypes
  <2>3. baseline \in Seq(Entries(seen'))
    BY <2>1, <2>2, SeqWider
  <2>4. CASE Qualifies(s) /\ baseline' = Kept(baseline, e) /\ dirty' = TRUE
    <3>1. e \in Entries(seen')
      BY <1>14, <2>4
    <3> QED
      BY <1>5, <2>1, <2>2, <2>3, <2>4, <3>1, QueueKept DEF Kept
  <2>5. CASE UNCHANGED <<baseline, dirty>>
    BY <2>1, <2>2, <2>3, <2>5
  <2> QED
    BY <1>4, <2>4, <2>5
<1>8. tick' \in Nat
  BY <1>5 DEF Pass, MeasuringTypes
<1>9. /\ \/ thread' = "saving" /\ dirty' /\ file' = [whole |-> FALSE, text |-> <<>>]
         \/ thread' = "running" /\ file' = file
  BY DEF Pass, Save
<1>10. file' \in [whole : BOOLEAN, text : Seq(Entries(seen'))] /\ Len(file'.text) <= WINDOW
  <2>1. <<>> \in Seq(Entries(seen')) /\ Len(<<>>) = 0
    OBVIOUS
  <2>2. CASE file' = [whole |-> FALSE, text |-> <<>>]
    BY <1>5, <2>1, <2>2
  <2>3. CASE file' = file
    <3>1. file \in [whole : BOOLEAN, text : Seq(Entries(seen))] /\ Len(file.text) <= WINDOW
      BY DEF MeasuringTypes
    <3>2. file.text \in Seq(Entries(seen'))
      BY <1>7, <3>1, SeqWider
    <3> QED
      BY <2>3, <3>1, <3>2
  <2> QED
    BY <1>9, <2>2, <2>3
<1>11. MeasuringTypes'
  BY <1>2, <1>4, <1>6, <1>7, <1>8, <1>9, <1>10, <1>13 DEF MeasuringTypes
<1>12. ASSUME CleanIsOnFile PROVE CleanIsOnFile'
  <2>1. CASE thread' = "saving" /\ dirty'
    BY <2>1 DEF CleanIsOnFile
  <2>2. CASE thread' = "running" /\ file' = file
    <3>1. thread = "running"
      BY DEF Pass
    <3>2. dirty' \/ UNCHANGED <<baseline, dirty>>
      BY <1>4
    <3> QED
      BY <1>12, <2>2, <3>1, <3>2 DEF CleanIsOnFile, Loaded
  <2> QED
    BY <1>9, <2>1, <2>2
<1> QED
  BY <1>11, <1>12

(* What another interface leaves in the file. *)
LEMMA OtherSavesKeeps ==
  ASSUME IInv, OtherSaves PROVE IInv'
<1> USE DEF IInv
<1>1. PICK t \in OtherTexts, whole \in BOOLEAN :
        /\ file' = [whole |-> whole, text |-> IF whole THEN t ELSE <<>>]
        /\ seen' = seen \cup {t[i].latency : i \in {k \in DOMAIN t : ~ t[k].misread}}
  BY DEF OtherSaves
<1>2. /\ t \in Seq(Entry) /\ Len(t) <= WINDOW /\ WINDOW \in Nat
      /\ \A i \in DOMAIN t : t[i] \in Entry
  BY MeasuringAssumption
<1>3. /\ seen \in SUBSET (Nat \ {0})
      /\ baseline \in Seq(Entries(seen)) /\ Len(baseline) <= WINDOW
  BY DEF MeasuringTypes
<1>4. seen' \in SUBSET (Nat \ {0}) /\ seen \subseteq seen'
  <2>1. \A i \in DOMAIN t : t[i].latency \in Nat \ {0}
    BY <1>2 DEF Entry
  <2> QED
    BY <1>1, <1>3, <2>1
<1>5. t \in Seq(Entries(seen')) /\ <<>> \in Seq(Entries(seen')) /\ Len(<<>>) = 0
  <2>1. \A i \in DOMAIN t : t[i] \in Entries(seen')
    BY <1>1, <1>2 DEF Entries
  <2>2. Len(t) \in Nat /\ DOMAIN t = 1 .. Len(t) /\ t = [i \in 1 .. Len(t) |-> t[i]]
    BY <1>2
  <2> QED
    BY <2>1, <2>2
<1>6. file' \in [whole : BOOLEAN, text : Seq(Entries(seen'))] /\ Len(file'.text) <= WINDOW
  BY <1>1, <1>2, <1>5
<1>7. baseline \in Seq(Entries(seen'))
  <2>1. Entries(seen) \subseteq Entries(seen')
    BY <1>4, EntriesGrow
  <2> QED
    BY <1>3, <2>1, SeqWider
<1>8. MeasuringTypes'
  <2>1. UNCHANGED <<thread, tick, raw, window, baseline, dirty>>
    BY DEF OtherSaves
  <2> QED
    BY <1>3, <1>4, <1>6, <1>7, <2>1 DEF MeasuringTypes
<1> QED
  BY <1>1, <1>8

LEMMA StepKeeps ==
  ASSUME IInv, [Next]_vars PROVE IInv'
<1> USE DEF IInv
<1>1. CASE OpenFails
  BY <1>1 DEF OpenFails, MeasuringTypes, CleanIsOnFile
<1>2. CASE Open
  <2>1. Loaded \in Seq(Entries(seen)) /\ Len(Loaded) <= WINDOW
    BY LoadedTyped
  <2>2. MeasuringTypes'
    BY <1>2, <2>1 DEF Open, MeasuringTypes
  <2>3. CleanIsOnFile'
    BY <1>2 DEF Open, CleanIsOnFile, Loaded
  <2> QED
    BY <2>2, <2>3
<1>3. CASE Pass
  BY <1>3, PassKeeps
<1>4. CASE FinishSave
  <2>1. PICK ok \in BOOLEAN :
          /\ dirty' = ~ ok
          /\ file' = IF ok THEN [whole |-> TRUE, text |-> baseline] ELSE file
    BY <1>4 DEF FinishSave
  <2>2. thread' = "running" /\ UNCHANGED <<tick, raw, window, baseline, seen>>
    BY <1>4 DEF FinishSave
  <2>3. file' \in [whole : BOOLEAN, text : Seq(Entries(seen))] /\ Len(file'.text) <= WINDOW
    <3>1. CASE ok
      BY <2>1, <3>1 DEF MeasuringTypes
    <3>2. CASE ~ ok
      BY <2>1, <3>2 DEF MeasuringTypes
    <3> QED
      BY <3>1, <3>2
  <2>4. dirty' \in BOOLEAN
    BY <2>1, Zenon
  <2>5. MeasuringTypes'
    BY <2>2, <2>3, <2>4 DEF MeasuringTypes
  <2>6. ~ dirty' => baseline' = Loaded'
    <3>1. ~ dirty' => file' = [whole |-> TRUE, text |-> baseline]
      BY <2>1
    <3> QED
      BY <2>2, <3>1 DEF Loaded
  <2>7. CleanIsOnFile'
    BY <2>2, <2>6 DEF CleanIsOnFile
  <2> QED
    BY <2>5, <2>7
<1>5. CASE Restart
  <2>1. <<>> \in Seq([Counters -> Nat]) /\ <<>> \in Seq(Entries(seen)) /\ Len(<<>>) = 0
    OBVIOUS
  <2>2. NoSample \in [Counters -> Nat]
    BY DEF NoSample
  <2>3. WINDOW \in Nat /\ WINDOW_SAMPLES \in Nat
    BY MeasuringAssumption
  <2>4. /\ window' \in Seq([Counters -> Nat]) /\ Len(window') <= WINDOW_SAMPLES
        /\ baseline' \in Seq(Entries(seen)) /\ Len(baseline') <= WINDOW
    BY <1>5, <2>1, <2>3 DEF Restart
  <2>5. /\ thread' = "opening" /\ tick' = 0 /\ raw' = NoSample
        /\ dirty' = FALSE /\ UNCHANGED <<file, seen>>
    BY <1>5 DEF Restart
  <2>6. MeasuringTypes'
    BY <2>2, <2>4, <2>5 DEF MeasuringTypes
  <2>7. CleanIsOnFile'
    BY <1>5 DEF Restart, CleanIsOnFile
  <2> QED
    BY <2>6, <2>7
<1>6. CASE OtherSaves
  BY <1>6, OtherSavesKeeps
<1>7. CASE UNCHANGED vars
  BY <1>7 DEF vars, MeasuringTypes, CleanIsOnFile, Loaded
<1> QED
  BY <1>1, <1>2, <1>3, <1>4, <1>5, <1>6, <1>7 DEF Next

(* The window and the baseline never outgrow their bounds; in memory and   *)
(* on file a latency is one that the disk showed in quiet traffic, unless  *)
(* it was a backlog's and the counter of the queue had failed.             *)
THEOREM MeasuringTypeCorrect == Spec => []MeasuringTypes
<1>1. Init => IInv
  BY InitIInv
<1>2. IInv /\ [Next]_vars => IInv'
  BY StepKeeps
<1>3. IInv => MeasuringTypes
  BY DEF IInv
<1> QED
  BY <1>1, <1>2, <1>3, PTL DEF Spec

(* What has been learned and is not waiting to be written (DiskBaseline's  *)
(* dirty) is what the next start of the interface would load, if it is the *)
(* only one that writes.                                                   *)
THEOREM NothingCleanIsLost == OtherTexts = {} /\ Spec => []CleanIsOnFile
<1>1. Init => IInv
  BY InitIInv
<1>2. IInv /\ [Next]_vars => IInv'
  BY StepKeeps
<1>3. OtherTexts = {} /\ IInv => CleanIsOnFile
  BY DEF IInv
<1> SUFFICES ASSUME OtherTexts = {} PROVE Spec => []CleanIsOnFile
  OBVIOUS
<1>4. IInv => CleanIsOnFile
  BY <1>3
<1> QED
  BY <1>1, <1>2, <1>4, PTL DEF Spec

-----------------------------------------------------------------------------
LEMMA ColumnTyped ==
  ASSUME NEW w \in Seq([Counters -> Nat]), NEW c \in Counters
  PROVE  /\ Column(w, c) \in Seq(Nat) /\ Len(Column(w, c)) = Len(w)
         /\ DOMAIN Column(w, c) = DOMAIN w
<1>1. DOMAIN w = 1 .. Len(w) /\ Len(w) \in Nat
  OBVIOUS
<1>2. \A j \in DOMAIN w : w[j][c] \in Nat
  <2>1. \A j \in DOMAIN w : w[j] \in [Counters -> Nat]
    OBVIOUS
  <2> QED
    BY <2>1
<1> QED
  BY <1>1, <1>2 DEF Column

LEMMA MajorityJudges ==
  ASSUME MeasuringTypes PROVE OneSampleNeverDecides
<1> DEFINE n == Len(window)
<1> SUFFICES ASSUME n >= 3, NEW c \in Counters, NEW i \in DOMAIN window,
                    Cardinality({k \in DOMAIN window : window[k][c] = window[i][c]}) >= n - 1
             PROVE  Median(window).parts[c] = Median(window).inOne * window[i][c]
  BY DEF OneSampleNeverDecides
<1> DEFINE v == Column(window, c)
           mid == n \div 2
           x == window[i][c]
<1>1. window \in Seq([Counters -> Nat]) /\ n \in Nat
  BY DEF MeasuringTypes
<1>2. x \in Nat
  BY <1>1
<1>3. v \in Seq(Nat) /\ Len(v) = n /\ DOMAIN v = DOMAIN window
  BY <1>1, ColumnTyped
<1>4. x \in Nat /\ Cardinality({k \in DOMAIN v : v[k] = x}) >= Len(v) - 1
  <2>1. {k \in DOMAIN v : v[k] = x} = {k \in DOMAIN window : window[k][c] = x}
    BY DEF Column
  <2> QED
    BY <1>2, <1>3, <2>1
<1>5. /\ Median(window).inOne = 2
      /\ Median(window).parts[c] =
           IF n % 2 = 0 THEN Ranked(v, mid) + Ranked(v, mid + 1)
                        ELSE 2 * Ranked(v, mid + 1)
  BY DEF Median
<1> HIDE DEF v, x
<1>6. mid \in Nat /\ mid + 1 \in Nat /\ 2 <= mid + 1 /\ mid + 1 <= n - 1
  BY <1>1
<1>7. n % 2 = 0 => 2 <= mid /\ mid <= n - 1
  BY <1>1
<1> HIDE DEF n, mid
<1>8. Ranked(v, mid + 1) = x
  BY <1>3, <1>4, <1>6, RankShared
<1>9. n % 2 = 0 => Ranked(v, mid) = x
  BY <1>3, <1>4, <1>6, <1>7, RankShared
<1> QED
  BY <1>2, <1>5, <1>8, <1>9 DEF x

(* "A single spike cannot move a median" (counters.rs, SampleWindow), for  *)
(* a window of any length that holds three samples or more, of even and of *)
(* odd number.                                                             *)
THEOREM NoSpikeIsJudged == Spec => []OneSampleNeverDecides
<1>1. MeasuringTypes => OneSampleNeverDecides
  BY MajorityJudges
<1> QED
  BY <1>1, MeasuringTypeCorrect, PTL

LEMMA TimesGrows ==
  ASSUME NEW a \in Nat, NEW b \in Nat, NEW c \in Nat, a <= b
  PROVE  c * a \in Nat /\ c * a <= c * b
OBVIOUS

LEMMA LatenciesTyped ==
  ASSUME MeasuringTypes
  PROVE  /\ Latencies(baseline) \in Seq(Nat) /\ Len(Latencies(baseline)) = Len(baseline)
         /\ DOMAIN Latencies(baseline) = DOMAIN baseline
         /\ \A i \in DOMAIN baseline :
              /\ baseline[i].latency \in Nat \ {0}
              /\ baseline[i].misread \/ baseline[i].latency \in seen
<1>1. baseline \in Seq(Entries(seen))
  BY DEF MeasuringTypes
<1>2. DOMAIN baseline = 1 .. Len(baseline) /\ Len(baseline) \in Nat
  BY <1>1
<1>3. \A i \in DOMAIN baseline : baseline[i] \in Entries(seen)
  BY <1>1
<1>4. \A i \in DOMAIN baseline : /\ baseline[i].latency \in Nat \ {0}
                                 /\ baseline[i].misread \/ baseline[i].latency \in seen
  BY <1>3 DEF Entries, Entry
<1> QED
  BY <1>2, <1>4 DEF Latencies

LEMMA PointIsRanked ==
  ASSUME MeasuringTypes, SaturationPoint(baseline) # None
  PROVE  LET k == Len(baseline) \div 2 + 1
             v == Ranked(Latencies(baseline), k)
         IN /\ SaturationPoint(baseline) = SATURATION_RATIO * v
            /\ k \in Nat /\ 1 <= k /\ k <= Len(baseline)
            /\ v \in Nat \ {0} /\ Stands(Latencies(baseline), k, v)
<1> DEFINE k == Len(baseline) \div 2 + 1
           s == Latencies(baseline)
           v == Ranked(s, k)
<1>1. ~ (Len(baseline) < MIN_SAMPLES) /\ SaturationPoint(baseline) = SATURATION_RATIO * v
  BY DEF SaturationPoint
<1>2. s \in Seq(Nat) /\ Len(s) = Len(baseline) /\ DOMAIN s = DOMAIN baseline
      /\ \A i \in DOMAIN baseline : s[i] \in Nat \ {0}
  <2>1. \A i \in DOMAIN baseline : s[i] = baseline[i].latency
    BY DEF Latencies
  <2> QED
    BY <2>1, LatenciesTyped
<1>3. Len(baseline) \in Nat /\ MIN_SAMPLES \in Nat \ {0}
  BY MeasuringAssumption DEF MeasuringTypes
<1>4. k \in Nat /\ 1 <= k /\ k <= Len(baseline)
  BY <1>1, <1>3
<1> HIDE DEF k, s
<1>5. v \in Range(s) /\ Stands(s, k, v)
  BY <1>2, <1>4, RankTaken
<1>6. v \in Nat \ {0}
  BY <1>2, <1>5 DEF Range
<1> QED
  BY <1>1, <1>4, <1>5, <1>6 DEF k, s

(* A rank above half of the entries is not passed by less than half.       *)
LEMMA UpperMiddleIsShown ==
  ASSUME MeasuringTypes PROVE SaturationIsMeasured
<1> DEFINE n   == Len(baseline)
           k   == n \div 2 + 1
           s   == Latencies(baseline)
           v   == Ranked(s, k)
           Bad == {i \in DOMAIN baseline : baseline[i].misread}
<1> SUFFICES ASSUME SaturationPoint(baseline) # None, 2 * Cardinality(Bad) < n
             PROVE  \E low, high \in seen :
                      /\ SATURATION_RATIO * low <= SaturationPoint(baseline)
                      /\ SaturationPoint(baseline) <= SATURATION_RATIO * high
  BY DEF SaturationIsMeasured
<1>1. /\ SaturationPoint(baseline) = SATURATION_RATIO * v
      /\ k \in Nat /\ 1 <= k /\ k <= n
      /\ v \in Nat \ {0} /\ Stands(s, k, v)
  BY PointIsRanked
<1>2. /\ s \in Seq(Nat) /\ Len(s) = n /\ n \in Nat /\ DOMAIN s = DOMAIN baseline
      /\ \A i \in DOMAIN s : /\ s[i] \in Nat
                             /\ i \in Bad \/ s[i] \in seen
  <2>1. \A i \in DOMAIN baseline : s[i] = baseline[i].latency
    BY DEF Latencies
  <2> QED
    BY <2>1, LatenciesTyped
<1>3. Bad \subseteq DOMAIN s
  BY <1>2
<1>4. 2 * k > n /\ 2 * (k - 1) <= n
  BY <1>2
<1>5. seen \in SUBSET Nat
  BY DEF MeasuringTypes
<1>6. SATURATION_RATIO \in Nat
  BY MeasuringAssumption
<1>7. 2 * Cardinality(Bad) < n
  OBVIOUS
<1> HIDE DEF k, n, s, v, Bad
<1>8. /\ IsFiniteSet(Bad) /\ Cardinality(Bad) \in Nat
      /\ IsFiniteSet(UpTo(s, v)) /\ Cardinality(UpTo(s, v)) \in Nat
      /\ Cardinality(DOMAIN s) = n
  BY <1>2, <1>3, IndicesCount DEF UpTo
<1>9. PICK i \in DOMAIN s : s[i] <= v /\ i \notin Bad
  <2> SUFFICES ASSUME \A i \in DOMAIN s : s[i] <= v => i \in Bad PROVE FALSE
    OBVIOUS
  <2>1. UpTo(s, v) \subseteq Bad
    BY DEF UpTo
  <2>2. Cardinality(UpTo(s, v)) <= Cardinality(Bad)
    BY <1>8, <2>1, FS_Subset
  <2> QED
    BY <1>1, <1>2, <1>4, <1>7, <1>8, <2>2 DEF Stands
<1>10. PICK j \in DOMAIN s : s[j] >= v /\ j \notin Bad
  <2> SUFFICES ASSUME \A j \in DOMAIN s : s[j] >= v => j \in Bad PROVE FALSE
    OBVIOUS
  <2> DEFINE High == {j \in DOMAIN s : s[j] >= v}
  <2>1. High \subseteq Bad
    OBVIOUS
  <2>2. IsFiniteSet(High) /\ Cardinality(High) \in Nat
    BY <1>2, IndicesCount
  <2>3. Below(s, v) \cup High = DOMAIN s /\ Below(s, v) \cap High = {}
    <3>1. \A j \in DOMAIN s : s[j] < v <=> ~ (s[j] >= v)
      BY <1>1, <1>2
    <3> QED
      BY <3>1, Zenon DEF Below
  <2>4. IsFiniteSet(Below(s, v)) /\ Cardinality(Below(s, v)) \in Nat
    BY <1>2, IndicesCount DEF Below
  <2> HIDE DEF High
  <2>5. Cardinality(High) <= Cardinality(Bad)
    BY <1>8, <2>1, FS_Subset
  <2>6. n = Cardinality(Below(s, v)) + Cardinality(High) - Cardinality({})
    BY <1>8, <2>2, <2>3, <2>4, FS_Union
  <2> QED
    BY <1>1, <1>2, <1>4, <1>7, <1>8, <2>2, <2>4, <2>5, <2>6, FS_EmptySet DEF Stands
<1>11. s[i] \in seen /\ s[j] \in seen /\ s[i] \in Nat /\ s[j] \in Nat
  BY <1>2, <1>9, <1>10
<1>12. /\ SATURATION_RATIO * s[i] <= SATURATION_RATIO * v
       /\ SATURATION_RATIO * v <= SATURATION_RATIO * s[j]
  BY <1>1, <1>6, <1>9, <1>10, <1>11, TimesGrows
<1> QED
  BY <1>1, <1>11, <1>12

(* Whatever a crash, a full disk or another interface leaves of the file,  *)
(* the latency that counts as saturated (DiskBaseline::saturation_point)   *)
(* lies within ten times what the disk showed in quiet traffic, as long as *)
(* less than half of what is kept was learned from a backlog whose depth   *)
(* could not be read.                                                      *)
THEOREM SaturationWasSeen == Spec => []SaturationIsMeasured
<1>1. MeasuringTypes => SaturationIsMeasured
  BY UpperMiddleIsShown
<1> QED
  BY <1>1, MeasuringTypeCorrect, PTL

-----------------------------------------------------------------------------
(* Fewer than k values are less than the k-th: all others are as large.    *)
LEMMA FromRankUp ==
  ASSUME NEW s \in Seq(Nat), NEW k \in Nat, 1 <= k, k <= Len(s)
  PROVE  /\ Ranked(s, k) \in Nat
         /\ Cardinality({i \in DOMAIN s : s[i] >= Ranked(s, k)}) >= Len(s) - k + 1
<1> DEFINE v == Ranked(s, k)
           Rest == {i \in DOMAIN s : s[i] >= v}
<1>1. v \in Range(s) /\ Stands(s, k, v)
  BY RankTaken
<1>2. v \in Nat
  BY <1>1 DEF Range
<1> HIDE DEF v
<1>3. \A i \in DOMAIN s : s[i] \in Nat
  OBVIOUS
<1>4. Below(s, v) \cup Rest = DOMAIN s /\ Below(s, v) \cap Rest = {}
  <2>1. \A i \in DOMAIN s : s[i] < v <=> ~ (s[i] >= v)
    BY <1>2, <1>3
  <2> QED
    BY <2>1, Zenon DEF Below
<1>5. /\ IsFiniteSet(Below(s, v)) /\ Cardinality(Below(s, v)) \in Nat
      /\ IsFiniteSet(Rest) /\ Cardinality(Rest) \in Nat
      /\ Cardinality(DOMAIN s) = Len(s) /\ Len(s) \in Nat
  BY IndicesCount DEF Below
<1>6. Cardinality(Rest) >= Len(s) - k + 1
  <2> HIDE DEF Rest
  <2>1. Cardinality(DOMAIN s)
          = Cardinality(Below(s, v)) + Cardinality(Rest) - Cardinality({})
    BY <1>4, <1>5, FS_Union
  <2> QED
    BY <1>1, <1>5, <2>1, FS_EmptySet DEF Stands
<1> QED
  BY <1>2, <1>6 DEF v

LEMMA RanksAscend ==
  ASSUME NEW s \in Seq(Nat), NEW k \in Nat, 1 <= k, k + 1 <= Len(s)
  PROVE  Ranked(s, k) <= Ranked(s, k + 1)
<1> DEFINE a == Ranked(s, k)
           b == Ranked(s, k + 1)
<1>1. k <= Len(s) /\ 1 <= k + 1 /\ Len(s) \in Nat
  OBVIOUS
<1>2. /\ a \in Range(s) /\ Stands(s, k, a)
      /\ b \in Range(s) /\ Stands(s, k + 1, b)
  BY <1>1, RankTaken
<1>3. a \in Nat /\ b \in Nat
  BY <1>2 DEF Range
<1> HIDE DEF a, b
<1> SUFFICES ASSUME b < a PROVE FALSE
  BY <1>3 DEF a, b
<1>4. UpTo(s, b) \subseteq Below(s, a)
  <2>1. \A i \in DOMAIN s : s[i] \in Nat
    OBVIOUS
  <2> QED
    BY <1>3, <2>1 DEF UpTo, Below
<1>5. /\ IsFiniteSet(Below(s, a)) /\ Cardinality(Below(s, a)) \in Nat
      /\ Cardinality(UpTo(s, b)) \in Nat
  BY IndicesCount DEF Below, UpTo
<1>6. Cardinality(UpTo(s, b)) <= Cardinality(Below(s, a))
  BY <1>4, <1>5, FS_Subset
<1> QED
  BY <1>2, <1>5, <1>6 DEF Stands

(* The mean of naturals is at least half of their median: half of them, or *)
(* more, are no less than the upper one of the middle.                     *)
LEMMA MeanIsHalfTheMedian ==
  ASSUME NEW w \in Seq([Counters -> Nat]), w # <<>>, NEW c \in Counters
  PROVE  /\ Median(w).parts[c] \in Nat /\ Totals(w)[c] \in Nat
         /\ Len(w) * Median(w).parts[c] <= 4 * Totals(w)[c]
<1> DEFINE n   == Len(w)
           v   == Column(w, c)
           mid == n \div 2
           top == Ranked(v, mid + 1)
           sum == Totals(w)[c]
           med == Median(w).parts[c]
           big == {i \in DOMAIN v : v[i] >= top}
<1>1. n \in Nat \ {0}
  OBVIOUS
<1>2. v \in Seq(Nat) /\ Len(v) = n /\ DOMAIN v = DOMAIN w
  BY ColumnTyped
<1>3. med = IF n % 2 = 0 THEN Ranked(v, mid) + top ELSE 2 * top
  BY DEF Median
<1>4. sum = SumFunctionOnSet(v, DOMAIN v)
  BY <1>2 DEF Totals
<1> HIDE DEF v, sum, med
<1>5. /\ mid \in Nat /\ 1 <= mid + 1 /\ mid + 1 <= n
      /\ n % 2 = 0 => 1 <= mid /\ n = 2 * mid
      /\ n % 2 # 0 => n = 2 * mid + 1
  BY <1>1
<1> HIDE DEF n, mid
<1>6. top \in Nat /\ Cardinality(big) >= n - mid
  <2>1. mid + 1 \in Nat
    BY <1>5
  <2>2. top \in Nat /\ Cardinality(big) >= n - (mid + 1) + 1
    BY <1>2, <1>5, <2>1, FromRankUp
  <2>3. Cardinality(big) \in Nat
    BY <1>2, IndicesCount
  <2> HIDE DEF top, big
  <2> QED
    BY <1>1, <1>5, <2>2, <2>3
<1>7. med \in Nat /\ med <= 2 * top
  <2>1. CASE n % 2 = 0
    <3>1. 1 <= mid /\ mid <= Len(v) /\ mid + 1 <= Len(v)
      BY <1>1, <1>2, <1>5, <2>1
    <3>2. Ranked(v, mid) <= top /\ Ranked(v, mid) \in Nat
      BY <1>2, <1>5, <3>1, RanksAscend, FromRankUp
    <3> HIDE DEF top
    <3> QED
      BY <1>3, <1>6, <2>1, <3>2
  <2>2. CASE n % 2 # 0
    <3> HIDE DEF top
    <3> QED
      BY <1>3, <1>6, <2>2
  <2> QED
    BY <2>1, <2>2
<1>8. sum \in Nat /\ top * Cardinality(big) <= sum /\ Cardinality(big) \in Nat
  <2>1. IsFiniteSet(DOMAIN v) /\ \A i \in DOMAIN v : v[i] \in Nat
    BY <1>2, IndicesCount
  <2>2. Cardinality(big) \in Nat
    BY <1>2, IndicesCount
  <2> HIDE DEF top
  <2> QED
    BY <1>4, <1>6, <2>1, <2>2, SumFacts, SumOutweighs
<1> HIDE DEF top, big
<1>9. n <= 2 * Cardinality(big)
  BY <1>1, <1>5, <1>6, <1>8
<1>10. n * med <= 4 * sum
  <2> DEFINE size == Cardinality(big)
  <2>1. size \in Nat /\ n <= 2 * size /\ top * size <= sum
    BY <1>8, <1>9
  <2> HIDE DEF size
  <2>2. n * med \in Nat /\ n * med <= n * (2 * top)
    BY <1>1, <1>6, <1>7, TimesGrows
  <2>3. (2 * top) * n <= (2 * top) * (2 * size)
    BY <1>1, <1>6, <2>1, TimesGrows
  <2>4. n * (2 * top) = (2 * top) * n /\ (2 * top) * (2 * size) = 4 * (top * size)
    BY <1>1, <1>6, <2>1
  <2>5. /\ n * (2 * top) \in Nat /\ (2 * top) * (2 * size) \in Nat
        /\ top * size \in Nat
    BY <1>1, <1>6, <2>1
  <2> QED
    BY <1>8, <2>1, <2>2, <2>3, <2>4, <2>5
<1> QED
  BY <1>7, <1>8, <1>10 DEF n, med, sum

LEMMA Divided ==
  ASSUME NEW a \in Nat, NEW d \in Nat \ {0}
  PROVE  /\ a \div d \in Nat
         /\ d * (a \div d) <= a /\ a < d * (a \div d + 1)
OBVIOUS

(* What is at most twice as much is a percentage at most twice as high, but *)
(* for what rounding takes.                                                *)
LEMMA PercentOfHalf ==
  ASSUME NEW a \in Nat, NEW b \in Nat, NEW n \in Nat \ {0}, NEW d \in Nat \ {0},
         n * a <= 4 * b
  PROVE  /\ Percent(a, 2 * d) \in Nat /\ Percent(b, n * d) \in Nat
         /\ 2 * Percent(b, n * d) + 1 >= Percent(a, 2 * d)
<1> DEFINE high == (100 * a) \div (2 * d)
           low  == (100 * b) \div (n * d)
           e    == n * d
<1>1. 2 * d \in Nat \ {0} /\ e \in Nat \ {0}
  OBVIOUS
<1>2. high \in Nat /\ (2 * d) * high <= 100 * a
  BY <1>1, Divided
<1>3. low \in Nat /\ 100 * b < e * (low + 1)
  BY <1>1, Divided
<1> HIDE DEF high, low
<1>4. high < 2 * (low + 1)
  <2> SUFFICES ASSUME 2 * (low + 1) <= high PROVE FALSE
    BY <1>2, <1>3
  <2>1. n * ((2 * d) * high) <= n * (100 * a)
    BY <1>2, TimesGrows
  <2>2. n * ((2 * d) * high) = (2 * e) * high
    BY <1>2
  <2>3. n * (100 * a) = 100 * (n * a)
    OBVIOUS
  <2> HIDE DEF e
  <2>4. (2 * e) * (2 * (low + 1)) <= (2 * e) * high
    <3>1. 2 * e \in Nat /\ 2 * (low + 1) \in Nat
      BY <1>1, <1>3
    <3> QED
      BY <1>2, <3>1, TimesGrows
  <2>5. (2 * e) * (2 * (low + 1)) = 4 * (e * (low + 1))
    BY <1>1, <1>3
  <2>6. n * a \in Nat /\ e * (low + 1) \in Nat /\ (2 * e) * high \in Nat
    BY <1>1, <1>2, <1>3
  <2> QED
    BY <1>3, <2>1, <2>2, <2>3, <2>4, <2>5, <2>6
<1>5. /\ Percent(a, 2 * d) = IF high > 100 THEN 100 ELSE high
      /\ Percent(b, e) = IF low > 100 THEN 100 ELSE low
  BY DEF Percent, high, low
<1> QED
  BY <1>2, <1>3, <1>4, <1>5

LEMMA MeanShowsTheMedian ==
  ASSUME MeasuringTypes PROVE PressureShowsOnTheGraph
<1> DEFINE sat == SaturationPoint(baseline)
           med == Median(window)
           avg == Average(window)
           n   == Len(window)
<1> SUFFICES ASSUME window # <<>>
             PROVE  \A r \in {"cpu", "memory", "io"} : 2 * Displayed[r] + 1 >= Judged[r]
  BY DEF PressureShowsOnTheGraph
<1>1. window \in Seq([Counters -> Nat]) /\ n \in Nat \ {0}
  BY DEF MeasuringTypes
<1>2. med.inOne = 2 /\ avg.inOne = n
  BY DEF Median, Average
<1>3. ASSUME NEW c \in Counters, NEW d \in Nat \ {0}
      PROVE  2 * Percent(avg.parts[c], n * d) + 1 >= Percent(med.parts[c], 2 * d)
  <2>1. avg.parts[c] = Totals(window)[c]
    BY DEF Average
  <2>2. /\ med.parts[c] \in Nat /\ avg.parts[c] \in Nat
        /\ n * med.parts[c] <= 4 * avg.parts[c]
    BY <1>1, <2>1, MeanIsHalfTheMedian
  <2> HIDE DEF med, avg, n
  <2> QED
    BY <1>1, <2>2, PercentOfHalf
<1>4. sat = None \/ sat \in Nat \ {0}
  <2> SUFFICES ASSUME sat # None PROVE sat \in Nat \ {0}
    OBVIOUS
  <2> DEFINE l == Ranked(Latencies(baseline), Len(baseline) \div 2 + 1)
  <2>1. sat = SATURATION_RATIO * l /\ l \in Nat \ {0}
    BY PointIsRanked
  <2>2. SATURATION_RATIO \in Nat \ {0}
    BY MeasuringAssumption
  <2> HIDE DEF sat, l
  <2> QED
    BY <2>1, <2>2
<1> HIDE DEF sat, med, avg, n
<1>5. /\ Judged = Stall(med, sat) /\ Displayed = Stall(avg, sat)
  BY DEF Judged, Displayed, med, avg, sat
<1>6. {"queue", "faults", "latency"} \subseteq Counters
  BY DEF Counters
<1>7. 2 * Displayed["cpu"] + 1 >= Judged["cpu"]
  <2>1. logical \in Nat \ {0}
    BY MeasuringAssumption
  <2>2. /\ Judged["cpu"] = Percent(med.parts["queue"], 2 * logical)
        /\ Displayed["cpu"] = Percent(avg.parts["queue"], n * logical)
    BY <1>2, <1>5 DEF Stall
  <2> QED
    BY <1>3, <1>6, <2>1, <2>2
<1>8. 2 * Displayed["memory"] + 1 >= Judged["memory"]
  <2>1. PAGES_INPUT_SATURATED \in Nat \ {0}
    BY MeasuringAssumption
  <2>2. /\ Judged["memory"] = Percent(med.parts["faults"], 2 * PAGES_INPUT_SATURATED)
        /\ Displayed["memory"] = Percent(avg.parts["faults"], n * PAGES_INPUT_SATURATED)
    BY <1>2, <1>5 DEF Stall
  <2> QED
    BY <1>3, <1>6, <2>1, <2>2
<1>9. 2 * Displayed["io"] + 1 >= Judged["io"]
  <2>1. CASE sat = None
    <3>1. Judged["io"] = -1 /\ Displayed["io"] = -1
      BY <1>5, <2>1 DEF Stall, None
    <3> QED
      BY <3>1
  <2>2. CASE sat # None /\ sat \in Nat \ {0}
    <3>1. /\ Judged["io"] = Percent(med.parts["latency"], 2 * sat)
          /\ Displayed["io"] = Percent(avg.parts["latency"], n * sat)
      BY <1>2, <1>5, <2>2 DEF Stall
    <3> QED
      BY <1>3, <1>6, <2>2, <3>1
  <2>3. None \notin Nat
    BY DEF None
  <2> QED
    BY <1>4, <2>1, <2>2, <2>3
<1> QED
  BY <1>7, <1>8, <1>9

(* The tier is judged by the median and the graph draws the mean           *)
(* (SampleWindow::median, average): for any window and any machine, no bar *)
(* stands at less than half of the pressure that is judged.                *)
THEOREM NoHiddenPressure == Spec => []PressureShowsOnTheGraph
<1>1. MeasuringTypes => PressureShowsOnTheGraph
  BY MeanShowsTheMedian
<1> QED
  BY <1>1, MeasuringTypeCorrect, PTL
=============================================================================
