----------------------------- MODULE TierProofs -----------------------------
(***************************************************************************)
(* Proofs about the shown tier: about TierTracker, for every pair of       *)
(* windows and every set of gaps between observations, and about what      *)
(* Presenting says of it, for every set of reasons.                        *)
(***************************************************************************)
EXTENDS TierTrackerH, Presenting, NaturalFacts

-----------------------------------------------------------------------------
(* A deque as observe leaves it: never empty, the newest at age 0. *)
IsDeque(h) ==
  /\ DOMAIN h \subseteq 0 .. Horizon
  /\ 0 \in DOMAIN h
  /\ \A g \in DOMAIN h : h[g] \in Assessments

LEMMA HorizonType ==
  /\ Longest \in Nat
  /\ Horizon \in Nat
  /\ escalate_ms <= Longest
  /\ settle_ms <= Longest
  /\ Longest <= Horizon
BY TrackerAssumption DEF Longest, Horizon

LEMMA AssessmentType ==
  ASSUME NEW a \in Assessments
  PROVE  /\ a.tier \in Tiers
         /\ a = [tier |-> a.tier, reason |-> a.reason]
         /\ a.tier = Easy <=> a.reason = "Clear"
BY TrackerAssumption
   DEF Assessments, Tiers, Calm, Easy, Braced, Strained

(* The oldest observation with a given tier is one of the window. *)
LEMMA OldestInWindow ==
  ASSUME NEW h, IsDeque(h), NEW W \in SUBSET DOMAIN h, NEW t,
         \E g \in W : h[g].tier = t
  PROVE  \E g \in W : h[g] = Oldest(h, W, t) /\ h[g].tier = t
<1> DEFINE S == {g \in W : h[g].tier = t}
<1>1. S \in SUBSET Nat /\ S # {} /\ \A x \in S : x <= Horizon
  BY HorizonType DEF IsDeque
<1>2. PICK m \in S : \A x \in S : x <= m
  BY <1>1, HorizonType, GreatestExists
<1>3. \E g \in W : h[g].tier = t /\ \A k \in W : h[k].tier = t => k <= g
  BY <1>2
<1> QED
  BY <1>3 DEF Oldest

(* What supported_by_all returns for the worst tier of a window. *)
LEMMA WorstSupportedFacts ==
  ASSUME NEW h, IsDeque(h), NEW w \in Nat
  PROVE  /\ WorstSupported(h, w) \in Assessments
         /\ \E g \in Within(h, w) : h[g] = WorstSupported(h, w)
         /\ \A g \in Within(h, w) : h[g].tier >= WorstSupported(h, w).tier
<1> DEFINE W == Within(h, w)
<1>1. W \in SUBSET DOMAIN h /\ 0 \in W
  BY DEF IsDeque, Within
<1>2. \A g \in W : h[g] \in Assessments /\ h[g].tier \in Tiers
  BY <1>1, AssessmentType DEF IsDeque
<1>3. \E t \in Tiers : (\E g \in W : h[g].tier = t) /\ \A g \in W : h[g].tier >= t
  <2>1. CASE \E g \in W : h[g].tier = Easy
    BY <2>1, <1>2 DEF Tiers, Easy, Braced, Strained
  <2>2. CASE (\A g \in W : h[g].tier # Easy) /\ \E g \in W : h[g].tier = Braced
    BY <2>2, <1>2 DEF Tiers, Easy, Braced, Strained
  <2>3. CASE \A g \in W : h[g].tier # Easy /\ h[g].tier # Braced
    BY <2>3, <1>1, <1>2 DEF Tiers, Easy, Braced, Strained
  <2> QED
    BY <2>1, <2>2, <2>3
<1> DEFINE T == CHOOSE t \in Tiers : /\ \E g \in W : h[g].tier = t
                                     /\ \A g \in W : h[g].tier >= t
<1>4. (\E g \in W : h[g].tier = T) /\ \A g \in W : h[g].tier >= T
  BY <1>3
<1>5. WorstSupported(h, w) = Oldest(h, W, T)
  BY DEF WorstSupported
<1> HIDE DEF T, W
<1>6. PICK g \in W : h[g] = Oldest(h, W, T) /\ h[g].tier = T
  BY <1>1, <1>4, OldestInWindow
<1> QED
  BY <1>2, <1>4, <1>5, <1>6 DEF W

(* ... and for the best tier. *)
LEMMA BestSupportedFacts ==
  ASSUME NEW h, IsDeque(h), NEW w \in Nat
  PROVE  /\ BestSupported(h, w) \in Assessments
         /\ \E g \in Within(h, w) : h[g] = BestSupported(h, w)
         /\ \A g \in Within(h, w) : h[g].tier <= BestSupported(h, w).tier
<1> DEFINE W == Within(h, w)
<1>1. W \in SUBSET DOMAIN h /\ 0 \in W
  BY DEF IsDeque, Within
<1>2. \A g \in W : h[g] \in Assessments /\ h[g].tier \in Tiers
  BY <1>1, AssessmentType DEF IsDeque
<1>3. \E t \in Tiers : (\E g \in W : h[g].tier = t) /\ \A g \in W : h[g].tier <= t
  <2>1. CASE \E g \in W : h[g].tier = Strained
    BY <2>1, <1>2 DEF Tiers, Easy, Braced, Strained
  <2>2. CASE (\A g \in W : h[g].tier # Strained) /\ \E g \in W : h[g].tier = Braced
    BY <2>2, <1>2 DEF Tiers, Easy, Braced, Strained
  <2>3. CASE \A g \in W : h[g].tier # Strained /\ h[g].tier # Braced
    BY <2>3, <1>1, <1>2 DEF Tiers, Easy, Braced, Strained
  <2> QED
    BY <2>1, <2>2, <2>3
<1> DEFINE T == CHOOSE t \in Tiers : /\ \E g \in W : h[g].tier = t
                                     /\ \A g \in W : h[g].tier <= t
<1>4. (\E g \in W : h[g].tier = T) /\ \A g \in W : h[g].tier <= T
  BY <1>3
<1>5. BestSupported(h, w) = Oldest(h, W, T)
  BY DEF BestSupported
<1> HIDE DEF T, W
<1>6. PICK g \in W : h[g] = Oldest(h, W, T) /\ h[g].tier = T
  BY <1>1, <1>4, OldestInWindow
<1> QED
  BY <1>2, <1>4, <1>5, <1>6 DEF W

-----------------------------------------------------------------------------
(* What one observation does to the deque. *)
LEMMA RecordedFacts ==
  ASSUME NEW h, DOMAIN h \subseteq 0 .. Horizon,
         \A g \in DOMAIN h : h[g] \in Assessments,
         NEW a \in Assessments, NEW dt \in Elapsed
  PROVE  /\ IsDeque(Recorded(h, a, dt))
         /\ Recorded(h, a, dt)[0] = a
         /\ \A g \in DOMAIN Recorded(h, a, dt) :
              g # 0 => /\ g - dt \in DOMAIN h
                       /\ Recorded(h, a, dt)[g] = h[g - dt]
         /\ \A g \in DOMAIN h :
              g + dt <= Horizon => /\ g + dt \in DOMAIN Recorded(h, a, dt)
                                   /\ Recorded(h, a, dt)[g + dt] = h[g]
         /\ Recorded(h, a, dt) =
              [g \in DOMAIN Recorded(h, a, dt) |-> Recorded(h, a, dt)[g]]
<1> DEFINE D == {0} \cup {k \in 1 .. Horizon : k - dt \in DOMAIN h}
           r == Recorded(h, a, dt)
<1>1. r = [g \in D |-> IF g = 0 THEN a ELSE h[g - dt]]
  BY DEF Recorded
<1>2. DOMAIN r = D
  BY <1>1
<1>3. dt \in Nat \ {0} /\ Horizon \in Nat
  BY TrackerAssumption, HorizonType
<1>4. D \subseteq 0 .. Horizon /\ 0 \in D
  BY <1>3
<1>5. \A g \in D : g # 0 => g - dt \in DOMAIN h /\ r[g] = h[g - dt]
  BY <1>1, <1>3, <1>4
<1>6. r[0] = a
  BY <1>1
<1>7. ASSUME NEW g \in DOMAIN h, g + dt <= Horizon
      PROVE  g + dt \in D /\ r[g + dt] = h[g]
  <2>1. g \in 0 .. Horizon
    OBVIOUS
  <2>2. g + dt \in 1 .. Horizon /\ (g + dt) - dt = g
    BY <1>3, <1>7, <2>1
  <2> QED
    BY <1>5, <2>2
<1>8. IsDeque(r)
  BY <1>2, <1>4, <1>5, <1>6 DEF IsDeque
<1>9. r = [g \in D |-> r[g]]
  BY <1>1
<1> QED
  BY <1>2, <1>5, <1>6, <1>7, <1>8, <1>9

-----------------------------------------------------------------------------
(* The inductive invariant: the deque and the history variables agree.     *)

(* A kept observation opposing a tier is not older than below/above say. *)
KeptIsCounted ==
  \A g \in DOMAIN history, s \in Tiers :
    /\ history[g].tier < s => below[s] <= g
    /\ history[g].tier > s => above[s] <= g

(* An opposing observation no older than the longest window is still kept. *)
RecentIsKept ==
  \A s \in Tiers :
    /\ below[s] <= Longest => /\ below[s] \in DOMAIN history
                              /\ history[below[s]].tier < s
    /\ above[s] <= Longest => /\ above[s] \in DOMAIN history
                              /\ history[above[s]].tier > s

(* The deque never reaches further back than the watch. *)
WatchCoversDeque ==
  /\ watched = -1 <=> DOMAIN history = {}
  /\ \A g \in DOMAIN history : g <= watched \/ watched = Limit

(* When the tier last rose, the window of that moment opposed every better *)
(* tier; when it last fell, every worse one.                               *)
MoveWasWitnessed ==
  \A s \in Tiers :
    /\ s < current.tier => above[s] <= sinceRise
    /\ s > current.tier => below[s] <= sinceFall

IInv ==
  /\ TypeOK
  /\ KeptIsCounted
  /\ RecentIsKept
  /\ WatchCoversDeque
  /\ MoveWasWitnessed

LEMMA LaterFacts ==
  ASSUME NEW x \in 0 .. Limit, NEW dt \in Elapsed
  PROVE  /\ Promise!Later(x, dt) \in 0 .. Limit
         /\ Promise!Later(x, dt) <= x + dt
         /\ Promise!Later(x, dt) <= Longest =>
              Promise!Later(x, dt) = x + dt /\ x <= Longest
         /\ Promise!Later(x, dt) = x + dt \/ Promise!Later(x, dt) = Limit
         /\ \A y \in 0 .. Limit :
              x <= y => Promise!Later(x, dt) <= Promise!Later(y, dt)
         /\ Promise!Later(Limit, dt) = Limit
BY HorizonType, TrackerAssumption
   DEF Promise!Later, Promise!Limit, Promise!Longest, Limit, Longest

LEMMA InitInvariant == HInit => IInv
<1> SUFFICES ASSUME HInit PROVE IInv
  OBVIOUS
<1>1. Limit \in Nat /\ Limit > Longest /\ Promise!Limit = Limit
  BY HorizonType DEF Limit, Promise!Limit, Promise!Longest, Longest
<1>2. DOMAIN history = {}
  BY DEF HInit, Init
<1>3. current = Calm /\ latest = Calm /\ Calm \in Assessments /\ Calm.tier = Easy
  BY DEF HInit, Init, Assessments, Calm
<1>4. /\ below = [t \in Tiers |-> Limit] /\ above = [t \in Tiers |-> Limit]
      /\ watched = -1 /\ sinceRise = Limit /\ sinceFall = Limit
  BY <1>1 DEF HInit, Promise!Init
<1>5. TypeOK
  BY <1>1, <1>2, <1>3, <1>4 DEF TypeOK, HInit, Init
<1>6. KeptIsCounted /\ RecentIsKept /\ WatchCoversDeque
  BY <1>1, <1>2, <1>4, HorizonType
     DEF KeptIsCounted, RecentIsKept, WatchCoversDeque
<1>7. MoveWasWitnessed
  BY <1>1, <1>4 DEF MoveWasWitnessed
<1> QED
  BY <1>5, <1>6, <1>7 DEF IInv

-----------------------------------------------------------------------------
(* One observation, taken apart once for the proofs below. *)
LEMMA ObserveFacts ==
  ASSUME IInv, NEW a \in Assessments, NEW dt \in Elapsed, HObserve(a, dt)
  PROVE  /\ IsDeque(history')
         /\ latest' = a /\ history'[0] = a
         /\ history' = [g \in DOMAIN history' |-> history'[g]]
         /\ \A g \in DOMAIN history' :
              g # 0 => g - dt \in DOMAIN history /\ history'[g] = history[g - dt]
         /\ \A g \in DOMAIN history :
              g + dt <= Horizon => /\ g + dt \in DOMAIN history'
                                   /\ history'[g + dt] = history[g]
         /\ below' \in [Tiers -> 0 .. Limit] /\ above' \in [Tiers -> 0 .. Limit]
         /\ \A s \in Tiers :
              /\ below'[s] = IF a.tier < s THEN 0 ELSE Promise!Later(below[s], dt)
              /\ above'[s] = IF a.tier > s THEN 0 ELSE Promise!Later(above[s], dt)
         /\ watched' = IF watched = -1 THEN 0 ELSE Promise!Later(watched, dt)
         /\ watched' \in 0 .. Limit
         /\ sinceRise' \in 0 .. Limit /\ sinceFall' \in 0 .. Limit
         /\ sinceRise' = IF current'.tier > current.tier
                         THEN 0 ELSE Promise!Later(sinceRise, dt)
         /\ sinceFall' = IF current'.tier < current.tier
                         THEN 0 ELSE Promise!Later(sinceFall, dt)
<1>1. history' = Recorded(history, a, dt) /\ latest' = a
  BY DEF HObserve, Observe
<1>2. DOMAIN history \subseteq 0 .. Horizon /\ \A g \in DOMAIN history : history[g] \in Assessments
  BY DEF IInv, TypeOK
<1>3. /\ IsDeque(history')
      /\ history'[0] = a
      /\ history' = [g \in DOMAIN history' |-> history'[g]]
      /\ \A g \in DOMAIN history' :
           g # 0 => g - dt \in DOMAIN history /\ history'[g] = history[g - dt]
      /\ \A g \in DOMAIN history :
           g + dt <= Horizon => /\ g + dt \in DOMAIN history'
                                /\ history'[g + dt] = history[g]
  BY <1>1, <1>2, RecordedFacts
<1>4. /\ below \in [Tiers -> 0 .. Limit] /\ above \in [Tiers -> 0 .. Limit]
      /\ watched \in -1 .. Limit /\ sinceRise \in 0 .. Limit /\ sinceFall \in 0 .. Limit
      /\ Limit \in Nat
  BY HorizonType DEF IInv, TypeOK, Limit
<1>5. /\ below' = [s \in Tiers |-> IF a.tier < s THEN 0 ELSE Promise!Later(below[s], dt)]
      /\ above' = [s \in Tiers |-> IF a.tier > s THEN 0 ELSE Promise!Later(above[s], dt)]
      /\ watched' = IF watched = -1 THEN 0 ELSE Promise!Later(watched, dt)
      /\ sinceRise' = IF current'.tier > current.tier
                      THEN 0 ELSE Promise!Later(sinceRise, dt)
      /\ sinceFall' = IF current'.tier < current.tier
                      THEN 0 ELSE Promise!Later(sinceFall, dt)
  BY DEF HObserve, Promise!Witness
<1>6. \A s \in Tiers : /\ Promise!Later(below[s], dt) \in 0 .. Limit
                       /\ Promise!Later(above[s], dt) \in 0 .. Limit
  BY <1>4, LaterFacts
<1>7. below' \in [Tiers -> 0 .. Limit] /\ above' \in [Tiers -> 0 .. Limit]
  BY <1>4, <1>5, <1>6
<1>8. watched' \in 0 .. Limit /\ sinceRise' \in 0 .. Limit /\ sinceFall' \in 0 .. Limit
  BY <1>4, <1>5, LaterFacts
<1> QED
  BY <1>1, <1>3, <1>5, <1>7, <1>8

(* The three outcomes of an observation, in terms of the window's tiers. *)
LEMMA ShownFacts ==
  ASSUME IInv, NEW a \in Assessments, NEW dt \in Elapsed, HObserve(a, dt)
  PROVE  /\ current' \in Assessments
         /\ current'.tier > current.tier =>
              /\ Covered(history', escalate_ms)
              /\ \A g \in DOMAIN history' :
                   g <= escalate_ms => history'[g].tier >= current'.tier
         /\ current'.tier < current.tier =>
              /\ Covered(history', settle_ms)
              /\ \A g \in DOMAIN history' :
                   g <= settle_ms => history'[g].tier <= current'.tier
<1>1. IsDeque(history') /\ current \in Assessments
  BY ObserveFacts DEF IInv, TypeOK
<1>2. history' = Recorded(history, a, dt)
  BY DEF HObserve, Observe
<1>3. escalate_ms \in Nat /\ settle_ms \in Nat
  BY TrackerAssumption
<1>4. /\ current.tier \in Int
      /\ \A x \in Assessments : x.tier \in Int
  BY <1>1, AssessmentType DEF Tiers, Easy, Braced, Strained
<1>5. CASE Escalate(history')
  <2>1. /\ current' = WorstSupported(history', escalate_ms)
        /\ Covered(history', escalate_ms)
        /\ current'.tier > current.tier
    BY <1>5 DEF Escalate, EscalationDue
  <2>2. /\ current' \in Assessments
        /\ \A g \in Within(history', escalate_ms) : history'[g].tier >= current'.tier
    BY <1>1, <1>3, <2>1, WorstSupportedFacts
  <2> QED
    BY <1>4, <2>1, <2>2 DEF Within
<1>6. CASE Settle(history')
  <2>1. /\ current' = BestSupported(history', settle_ms)
        /\ Covered(history', settle_ms)
        /\ current'.tier < current.tier
    BY <1>6 DEF Settle, SettlingDue
  <2>2. /\ current' \in Assessments
        /\ \A g \in Within(history', settle_ms) : history'[g].tier <= current'.tier
    BY <1>1, <1>3, <2>1, BestSupportedFacts
  <2> QED
    BY <1>4, <2>1, <2>2 DEF Within
<1>7. CASE Keep(history', a)
  <2>1. current' = IF a.tier = current.tier
                   THEN [current EXCEPT !.reason = a.reason] ELSE current
    BY <1>7 DEF Keep
  <2>2. /\ current = [tier |-> current.tier, reason |-> current.reason]
        /\ a = [tier |-> a.tier, reason |-> a.reason]
    BY <1>1, AssessmentType
  <2>3. a.tier = current.tier => [current EXCEPT !.reason = a.reason] = a
    BY <2>2
  <2>4. current' \in Assessments /\ current'.tier = current.tier
    BY <1>1, <2>1, <2>3
  <2> QED
    BY <1>4, <2>4
<1> QED
  BY <1>2, <1>5, <1>6, <1>7 DEF HObserve, Observe

(* The invariant is inductive. *)
LEMMA StepInvariant == IInv /\ [HNext]_hvars => IInv'
<1> SUFFICES ASSUME IInv, [HNext]_hvars PROVE IInv'
  OBVIOUS
<1>1. CASE UNCHANGED hvars
  BY <1>1 DEF hvars, witness, IInv, TypeOK, KeptIsCounted, RecentIsKept,
              WatchCoversDeque, MoveWasWitnessed
<1>2. CASE HNext
  <2>1. PICK a \in Assessments, dt \in Elapsed : HObserve(a, dt)
    BY <1>2 DEF HNext
  <2>2. /\ a.tier \in Tiers /\ dt \in Nat \ {0} /\ Horizon \in Nat /\ Longest \in Nat
        /\ Longest <= Horizon /\ Limit = Longest + 1
        /\ current.tier \in Tiers
    BY AssessmentType, TrackerAssumption, HorizonType DEF IInv, TypeOK, Limit
  <2> USE <2>1
  <2>3. TypeOK'
    BY ObserveFacts, ShownFacts DEF TypeOK, IsDeque
  <2>4. KeptIsCounted'
    <3> SUFFICES ASSUME NEW g \in DOMAIN history', NEW s \in Tiers
                 PROVE  /\ history'[g].tier < s => below'[s] <= g
                        /\ history'[g].tier > s => above'[s] <= g
      BY DEF KeptIsCounted
    <3>1. CASE g = 0
      BY <3>1, ObserveFacts
    <3>2. CASE g # 0
      <4>1. g - dt \in DOMAIN history /\ history'[g] = history[g - dt] /\ g \in 0 .. Horizon
        BY <3>2, ObserveFacts DEF IsDeque
      <4>2. /\ history'[g].tier < s => below[s] <= g - dt
            /\ history'[g].tier > s => above[s] <= g - dt
        BY <4>1 DEF IInv, KeptIsCounted
      <4>3. below[s] \in 0 .. Limit /\ above[s] \in 0 .. Limit
        BY DEF IInv, TypeOK
      <4>4. /\ Promise!Later(below[s], dt) <= below[s] + dt
            /\ Promise!Later(above[s], dt) <= above[s] + dt
            /\ Promise!Later(below[s], dt) \in 0 .. Limit
            /\ Promise!Later(above[s], dt) \in 0 .. Limit
        BY <4>3, LaterFacts
      <4>5. /\ below'[s] <= Promise!Later(below[s], dt)
            /\ above'[s] <= Promise!Later(above[s], dt)
            /\ below'[s] \in Int /\ above'[s] \in Int
        BY <4>4, ObserveFacts
      <4> QED
        BY <2>2, <4>1, <4>2, <4>3, <4>4, <4>5
    <3> QED
      BY <3>1, <3>2
  <2>5. RecentIsKept'
    <3> SUFFICES ASSUME NEW s \in Tiers
                 PROVE  /\ below'[s] <= Longest => /\ below'[s] \in DOMAIN history'
                                                   /\ history'[below'[s]].tier < s
                        /\ above'[s] <= Longest => /\ above'[s] \in DOMAIN history'
                                                   /\ history'[above'[s]].tier > s
      BY DEF RecentIsKept
    <3>0. below[s] \in 0 .. Limit /\ above[s] \in 0 .. Limit
      BY DEF IInv, TypeOK
    <3>1. ASSUME below'[s] <= Longest
          PROVE  below'[s] \in DOMAIN history' /\ history'[below'[s]].tier < s
      <4>1. CASE a.tier < s
        BY <4>1, ObserveFacts DEF IsDeque
      <4>2. CASE ~ (a.tier < s)
        <5>1. below'[s] = below[s] + dt /\ below[s] <= Longest
          BY <3>0, <3>1, <4>2, ObserveFacts, LaterFacts
        <5>2. below[s] \in DOMAIN history /\ history[below[s]].tier < s
          BY <5>1 DEF IInv, RecentIsKept
        <5>3. below[s] + dt <= Horizon
          BY <2>2, <3>0, <3>1, <5>1
        <5> QED
          BY <5>1, <5>2, <5>3, ObserveFacts
      <4> QED
        BY <4>1, <4>2
    <3>2. ASSUME above'[s] <= Longest
          PROVE  above'[s] \in DOMAIN history' /\ history'[above'[s]].tier > s
      <4>1. CASE a.tier > s
        BY <4>1, ObserveFacts DEF IsDeque
      <4>2. CASE ~ (a.tier > s)
        <5>1. above'[s] = above[s] + dt /\ above[s] <= Longest
          BY <3>0, <3>2, <4>2, ObserveFacts, LaterFacts
        <5>2. above[s] \in DOMAIN history /\ history[above[s]].tier > s
          BY <5>1 DEF IInv, RecentIsKept
        <5>3. above[s] + dt <= Horizon
          BY <2>2, <3>0, <3>2, <5>1
        <5> QED
          BY <5>1, <5>2, <5>3, ObserveFacts
      <4> QED
        BY <4>1, <4>2
    <3> QED
      BY <3>1, <3>2
  <2>6. WatchCoversDeque'
    <3>1. watched' # -1 /\ 0 \in DOMAIN history' /\ watched' \in 0 .. Limit
      BY ObserveFacts DEF IsDeque
    <3>2. ASSUME NEW g \in DOMAIN history'
          PROVE  g <= watched' \/ watched' = Limit
      <4>1. CASE g = 0
        BY <3>1, <4>1
      <4>2. CASE g # 0
        <5>1. g - dt \in DOMAIN history /\ g \in 0 .. Horizon
          BY <4>2, ObserveFacts DEF IsDeque
        <5>2. watched # -1 /\ (g - dt <= watched \/ watched = Limit)
          BY <5>1 DEF IInv, WatchCoversDeque
        <5>3. watched' = Promise!Later(watched, dt) /\ watched \in 0 .. Limit
          BY <5>2, ObserveFacts DEF IInv, TypeOK
        <5>4. \/ Promise!Later(watched, dt) = watched + dt
              \/ Promise!Later(watched, dt) = Limit
          BY <5>3, LaterFacts
        <5>5. watched = Limit => Promise!Later(watched, dt) = Limit
          BY LaterFacts, <2>2
        <5> QED
          BY <2>2, <5>1, <5>2, <5>3, <5>4, <5>5
      <4> QED
        BY <4>1, <4>2
    <3> QED
      BY <3>1, <3>2 DEF WatchCoversDeque
  <2>7. MoveWasWitnessed'
    <3> SUFFICES ASSUME NEW s \in Tiers
                 PROVE  /\ s < current'.tier => above'[s] <= sinceRise'
                        /\ s > current'.tier => below'[s] <= sinceFall'
      BY DEF MoveWasWitnessed
    <3>1. /\ current' \in Assessments /\ current'.tier \in Tiers
          /\ s \in Int /\ current.tier \in Int /\ current'.tier \in Int
      BY <2>2, ShownFacts, AssessmentType DEF Tiers, Easy, Braced, Strained
    <3>2. /\ current'.tier > current.tier => a.tier >= current'.tier
          /\ current'.tier < current.tier => a.tier <= current'.tier
      BY ObserveFacts, ShownFacts, TrackerAssumption DEF IsDeque
    <3>3. /\ below[s] \in 0 .. Limit /\ above[s] \in 0 .. Limit
          /\ sinceRise \in 0 .. Limit /\ sinceFall \in 0 .. Limit
          /\ a.tier \in Int
      BY <2>2 DEF IInv, TypeOK, Tiers, Easy, Braced, Strained
    <3>4. ASSUME s < current'.tier
          PROVE  above'[s] <= sinceRise'
      <4>1. sinceRise' \in 0 .. Limit
        BY ObserveFacts
      <4>2. CASE a.tier > s
        BY <4>1, <4>2, ObserveFacts
      <4>3. CASE ~ (a.tier > s)
        <5>1. ~ (current'.tier > current.tier)
          BY <3>1, <3>2, <3>3, <3>4, <4>3
        <5>2. above[s] <= sinceRise
          BY <3>1, <3>4, <5>1 DEF IInv, MoveWasWitnessed
        <5>3. /\ above'[s] = Promise!Later(above[s], dt)
              /\ sinceRise' = Promise!Later(sinceRise, dt)
          BY <4>3, <5>1, ObserveFacts
        <5> QED
          BY <3>3, <5>2, <5>3, LaterFacts
      <4> QED
        BY <4>2, <4>3
    <3>5. ASSUME s > current'.tier
          PROVE  below'[s] <= sinceFall'
      <4>1. sinceFall' \in 0 .. Limit
        BY ObserveFacts
      <4>2. CASE a.tier < s
        BY <4>1, <4>2, ObserveFacts
      <4>3. CASE ~ (a.tier < s)
        <5>1. ~ (current'.tier < current.tier)
          BY <3>1, <3>2, <3>3, <3>5, <4>3
        <5>2. below[s] <= sinceFall
          BY <3>1, <3>5, <5>1 DEF IInv, MoveWasWitnessed
        <5>3. /\ below'[s] = Promise!Later(below[s], dt)
              /\ sinceFall' = Promise!Later(sinceFall, dt)
          BY <4>3, <5>1, ObserveFacts
        <5> QED
          BY <3>3, <5>2, <5>3, LaterFacts
      <4> QED
        BY <4>2, <4>3
    <3> QED
      BY <3>4, <3>5
  <2> QED
    BY <2>3, <2>4, <2>5, <2>6, <2>7 DEF IInv
<1> QED
  BY <1>1, <1>2

-----------------------------------------------------------------------------
(* What the invariant says of one step. *)
LEMMA StepSustained ==
  ASSUME IInv, IInv', HNext
  PROVE  SustainedMove /\ UnhurriedReversal
<1>1. PICK a \in Assessments, dt \in Elapsed : HObserve(a, dt)
  BY DEF HNext
<1> USE <1>1
<1>2. /\ current.tier \in Tiers /\ current' \in Assessments /\ current'.tier \in Tiers
      /\ current.tier \in Int /\ current'.tier \in Int
  BY ShownFacts, AssessmentType DEF IInv, TypeOK, Tiers, Easy, Braced, Strained
<1>3. /\ escalate_ms \in Nat /\ settle_ms \in Nat /\ Limit = Longest + 1
      /\ Longest \in Nat /\ escalate_ms <= Longest /\ settle_ms <= Longest
  BY HorizonType, TrackerAssumption DEF Limit
<1>4. /\ below' \in [Tiers -> 0 .. Limit] /\ above' \in [Tiers -> 0 .. Limit]
      /\ watched' \in 0 .. Limit /\ sinceRise' \in 0 .. Limit /\ sinceFall' \in 0 .. Limit
      /\ DOMAIN history' \subseteq 0 .. Horizon
      /\ \A g \in DOMAIN history' : history'[g] \in Assessments /\ history'[g].tier \in Int
  BY ObserveFacts, AssessmentType DEF IsDeque, Tiers, Easy, Braced, Strained
<1>5. Horizon \in Nat
  BY HorizonType
<1>6. ASSUME current'.tier > current.tier
      PROVE  /\ below'[current'.tier] > escalate_ms
             /\ watched' >= escalate_ms
             /\ sinceFall' > escalate_ms
  <2>1. \A g \in DOMAIN history' : g <= escalate_ms => history'[g].tier >= current'.tier
    BY <1>6, ShownFacts
  <2>2. below'[current'.tier] > escalate_ms
    <3> SUFFICES ASSUME below'[current'.tier] <= escalate_ms PROVE FALSE
      BY <1>2, <1>3, <1>4
    <3>1. below'[current'.tier] <= Longest
      BY <1>2, <1>3, <1>4
    <3>2. /\ below'[current'.tier] \in DOMAIN history'
          /\ history'[below'[current'.tier]].tier < current'.tier
      BY <1>2, <3>1 DEF IInv, RecentIsKept
    <3> QED
      BY <1>2, <1>4, <2>1, <3>2
  <2>3. watched' >= escalate_ms
    <3>1. PICK g \in DOMAIN history' : g >= escalate_ms
      BY <1>6, ShownFacts DEF Covered
    <3>2. g <= watched' \/ watched' = Limit
      BY DEF IInv, WatchCoversDeque
    <3> QED
      BY <1>3, <1>4, <1>5, <3>1, <3>2
  <2>4. below[current'.tier] <= sinceFall
    BY <1>2, <1>6 DEF IInv, MoveWasWitnessed
  <2>5. /\ sinceFall' = Promise!Later(sinceFall, dt)
        /\ below'[current'.tier] <= Promise!Later(below[current'.tier], dt)
    <3>1. sinceFall' = Promise!Later(sinceFall, dt)
      BY <1>2, <1>6, ObserveFacts
    <3>2. below[current'.tier] \in 0 .. Limit
      BY <1>2 DEF IInv, TypeOK
    <3>3. Promise!Later(below[current'.tier], dt) \in 0 .. Limit
      BY <3>2, LaterFacts
    <3> QED
      BY <1>2, <3>1, <3>3, ObserveFacts
  <2>6. Promise!Later(below[current'.tier], dt) <= Promise!Later(sinceFall, dt)
    BY <1>2, <2>4, LaterFacts DEF IInv, TypeOK
  <2>7. /\ Promise!Later(below[current'.tier], dt) \in Int
        /\ below'[current'.tier] \in Int
    BY <1>2, <1>4, LaterFacts DEF IInv, TypeOK
  <2> QED
    BY <1>3, <1>4, <2>2, <2>3, <2>5, <2>6, <2>7
<1>7. ASSUME current'.tier < current.tier
      PROVE  /\ above'[current'.tier] > settle_ms
             /\ watched' >= settle_ms
             /\ sinceRise' > settle_ms
  <2>1. \A g \in DOMAIN history' : g <= settle_ms => history'[g].tier <= current'.tier
    BY <1>7, ShownFacts
  <2>2. above'[current'.tier] > settle_ms
    <3> SUFFICES ASSUME above'[current'.tier] <= settle_ms PROVE FALSE
      BY <1>2, <1>3, <1>4
    <3>1. above'[current'.tier] <= Longest
      BY <1>2, <1>3, <1>4
    <3>2. /\ above'[current'.tier] \in DOMAIN history'
          /\ history'[above'[current'.tier]].tier > current'.tier
      BY <1>2, <3>1 DEF IInv, RecentIsKept
    <3> QED
      BY <1>2, <1>4, <2>1, <3>2
  <2>3. watched' >= settle_ms
    <3>1. PICK g \in DOMAIN history' : g >= settle_ms
      BY <1>7, ShownFacts DEF Covered
    <3>2. g <= watched' \/ watched' = Limit
      BY DEF IInv, WatchCoversDeque
    <3> QED
      BY <1>3, <1>4, <1>5, <3>1, <3>2
  <2>4. above[current'.tier] <= sinceRise
    BY <1>2, <1>7 DEF IInv, MoveWasWitnessed
  <2>5. /\ sinceRise' = Promise!Later(sinceRise, dt)
        /\ above'[current'.tier] <= Promise!Later(above[current'.tier], dt)
    <3>1. sinceRise' = Promise!Later(sinceRise, dt)
      BY <1>2, <1>7, ObserveFacts
    <3>2. above[current'.tier] \in 0 .. Limit
      BY <1>2 DEF IInv, TypeOK
    <3>3. Promise!Later(above[current'.tier], dt) \in 0 .. Limit
      BY <3>2, LaterFacts
    <3> QED
      BY <1>2, <3>1, <3>3, ObserveFacts
  <2>6. Promise!Later(above[current'.tier], dt) <= Promise!Later(sinceRise, dt)
    BY <1>2, <2>4, LaterFacts DEF IInv, TypeOK
  <2>7. /\ Promise!Later(above[current'.tier], dt) \in Int
        /\ above'[current'.tier] \in Int
    BY <1>2, <1>4, LaterFacts DEF IInv, TypeOK
  <2> QED
    BY <1>3, <1>4, <2>2, <2>3, <2>5, <2>6, <2>7
<1> QED
  BY <1>6, <1>7 DEF SustainedMove, UnhurriedReversal

LEMMA Invariant == HSpec => []IInv
BY InitInvariant, StepInvariant, PTL DEF HSpec

(* Every reachable state of the tracker is well typed: the deque holds     *)
(* assessments no older than the horizon, the newest of them the latest.   *)
THEOREM TypeCorrect == HSpec => []TypeOK
<1>1. IInv => TypeOK
  BY DEF IInv
<1> QED
  BY <1>1, Invariant, PTL

(* The adopted reason is "Clear" exactly when the adopted tier is Easy.    *)
THEOREM ReasonAlwaysMatches == HSpec => []ReasonMatchesTier
<1>1. IInv => ReasonMatchesTier
  BY AssessmentType DEF IInv, TypeOK, ReasonMatchesTier
<1> QED
  BY <1>1, Invariant, PTL

(* A move of the shown tier rests on unopposed windows over the whole      *)
(* requirement, for any gaps between windows (observe, supported_by_all).  *)
THEOREM MovesSustained == HSpec => MovesAreSustained
<1>1. IInv /\ IInv' /\ [HNext]_hvars => [SustainedMove]_hvars
  BY StepSustained
<1> QED
  BY <1>1, Invariant, PTL DEF HSpec, MovesAreSustained

(* The shown tier does not come back down within settle_ms of rising, nor  *)
(* rise within escalate_ms of coming down.                                 *)
THEOREM NeverFlickers == HSpec => NoFlicker
<1>1. IInv /\ IInv' /\ [HNext]_hvars => [UnhurriedReversal]_hvars
  BY StepSustained
<1> QED
  BY <1>1, Invariant, PTL DEF HSpec, NoFlicker

-----------------------------------------------------------------------------
(* Bounded gaps: the deque keeps covering what it once covered.            *)

(* Every kept observation is at least Longest old, or the oldest of all,   *)
(* or has an older one kept no further than Longest behind it.             *)
NoHoles ==
  \A g \in DOMAIN history :
    \/ g >= Longest
    \/ watched <= g
    \/ \E k \in DOMAIN history : g < k /\ k <= g + Longest

LEMMA NoHolesStep ==
  ASSUME GapsWithinLongest, IInv, NoHoles, [HNext]_hvars
  PROVE  NoHoles'
<1>1. CASE UNCHANGED hvars
  BY <1>1 DEF hvars, witness, NoHoles
<1>2. CASE HNext
  <2>1. PICK a \in Assessments, dt \in Elapsed : HObserve(a, dt)
    BY <1>2 DEF HNext
  <2> USE <2>1
  <2>2. /\ dt \in Nat \ {0} /\ dt <= Longest /\ Longest \in Nat /\ Horizon = 2 * Longest
        /\ Limit = Longest + 1
    BY TrackerAssumption, HorizonType DEF GapsWithinLongest, Horizon, Limit
  <2>3. DOMAIN history \subseteq 0 .. Horizon /\ watched \in -1 .. Limit
    BY DEF IInv, TypeOK
  <2> SUFFICES ASSUME NEW g \in DOMAIN history', g < Longest, ~ (watched' <= g)
               PROVE  \E k \in DOMAIN history' : g < k /\ k <= g + Longest
    <3>1. DOMAIN history' \subseteq 0 .. Horizon /\ Horizon \in Nat /\ watched' \in 0 .. Limit
      BY ObserveFacts, HorizonType DEF IsDeque
    <3> QED
      BY <2>2, <3>1 DEF NoHoles
  <2>4. g \in 0 .. Horizon /\ Horizon \in Nat
    BY ObserveFacts, HorizonType DEF IsDeque
  <2>5. watched # -1 /\ watched' = Promise!Later(watched, dt)
    <3>1. CASE watched = -1
      BY <2>4, <3>1, ObserveFacts
    <3> QED
      BY <3>1, ObserveFacts
  <2>6. watched' <= watched + dt
    BY <2>3, <2>5, LaterFacts
  <2>7. CASE g = 0
    <3>1. 0 \in DOMAIN history
      BY <2>5 DEF IInv, WatchCoversDeque, TypeOK
    <3>2. dt \in DOMAIN history'
      <4>1. 0 + dt <= Horizon
        BY <2>2
      <4> QED
        BY <2>2, <3>1, <4>1, ObserveFacts
    <3> QED
      BY <2>2, <2>7, <3>2
  <2>8. CASE g # 0
    <3>1. g - dt \in DOMAIN history
      BY <2>8, ObserveFacts
    <3>2. ~ (g - dt >= Longest) /\ ~ (watched <= g - dt)
      <4>1. watched' \in Int
        BY ObserveFacts, <2>2
      <4> QED
        BY <2>2, <2>3, <2>4, <2>6, <4>1
    <3>3. PICK k \in DOMAIN history : g - dt < k /\ k <= (g - dt) + Longest
      BY <3>1, <3>2 DEF NoHoles
    <3>4. k + dt <= Horizon /\ k \in Nat
      BY <2>2, <2>3, <2>4, <3>3
    <3>5. k + dt \in DOMAIN history'
      BY <3>4, ObserveFacts
    <3> QED
      BY <2>2, <2>4, <3>3, <3>4, <3>5
  <2> QED
    BY <2>7, <2>8
<1> QED
  BY <1>1, <1>2

LEMMA NoHolesCover ==
  ASSUME IInv, NoHoles, NEW w \in Nat, w <= Longest, watched >= w
  PROVE  Covered(history, w)
<1>1. /\ DOMAIN history \in SUBSET Nat /\ Horizon \in Nat
      /\ \A g \in DOMAIN history : g <= Horizon
      /\ Longest \in Nat /\ watched \in Int
  BY HorizonType DEF IInv, TypeOK, Limit
<1>2. DOMAIN history # {}
  BY <1>1 DEF IInv, WatchCoversDeque
<1>3. PICK m \in DOMAIN history : \A g \in DOMAIN history : g <= m
  BY <1>1, <1>2, GreatestExists
<1>4. ~ \E k \in DOMAIN history : m < k /\ k <= m + Longest
  BY <1>1, <1>3
<1>5. m >= Longest \/ watched <= m
  BY <1>4 DEF NoHoles
<1>6. m >= w
  BY <1>1, <1>5
<1> QED
  BY <1>6 DEF Covered

LEMMA CoverageInvariant ==
  ASSUME GapsWithinLongest
  PROVE  HSpec => [](IInv /\ NoHoles)
<1>1. HInit => NoHoles
  BY DEF HInit, Init, NoHoles
<1>2. IInv /\ NoHoles /\ [HNext]_hvars => NoHoles'
  BY NoHolesStep
<1> QED
  BY <1>1, <1>2, InitInvariant, StepInvariant, PTL DEF HSpec

(* With gaps of at most the longest window, the pruning in observe never   *)
(* takes the history the two rules need: recovery cannot get stuck on an   *)
(* uneven clock.                                                           *)
THEOREM CoverageSurvives ==
  ASSUME GapsWithinLongest
  PROVE  HSpec => []CoverageSurvivesJitter
<1>1. IInv /\ NoHoles => CoverageSurvivesJitter
  BY NoHolesCover, TrackerAssumption, HorizonType DEF CoverageSurvivesJitter
<1> QED
  BY <1>1, CoverageInvariant, PTL

(* With windows at least every escalate_ms and settle_ms, a move of the    *)
(* tier is supported by the window before it too.                          *)
THEOREM NeverASingleSample ==
  ASSUME GapsWithinBoth
  PROVE  HSpec => NeverOnASingleSample
<1>1. ASSUME IInv, IInv', HNext
      PROVE  AgreedMove
  <2>1. PICK a \in Assessments, dt \in Elapsed : HObserve(a, dt)
    BY <1>1 DEF HNext
  <2> USE <1>1, <2>1
  <2>2. /\ dt \in Nat \ {0} /\ dt <= escalate_ms /\ dt <= settle_ms
        /\ escalate_ms \in Nat /\ settle_ms \in Nat /\ dt <= Horizon
    BY TrackerAssumption, HorizonType DEF GapsWithinBoth
  <2>3. CASE DOMAIN history = {}
    <3>1. watched' = 0
      BY <2>3, ObserveFacts DEF IInv, WatchCoversDeque
    <3>2. ~ (current'.tier > current.tier) /\ ~ (current'.tier < current.tier)
      BY <2>2, <3>1, StepSustained DEF SustainedMove
    <3> QED
      BY <3>2 DEF AgreedMove
  <2>4. CASE DOMAIN history # {}
    <3>1. 0 \in DOMAIN history /\ history[0] = latest
      BY <2>4 DEF IInv, TypeOK
    <3>2. dt \in DOMAIN history' /\ history'[dt] = latest
      <4>1. 0 + dt <= Horizon /\ 0 + dt = dt
        BY <2>2
      <4> QED
        BY <3>1, <4>1, ObserveFacts
    <3> QED
      BY <2>2, <3>2, ShownFacts DEF AgreedMove
  <2> QED
    BY <2>3, <2>4
<1>2. IInv /\ IInv' /\ [HNext]_hvars => [AgreedMove]_hvars
  BY <1>1
<1> QED
  BY <1>2, Invariant, PTL DEF HSpec, NeverOnASingleSample

-----------------------------------------------------------------------------
(* The tracker keeps SustainedTier's promise.                              *)

(* The rule of the code and of the promise pick the same tier. *)
LEMMA SameFloor ==
  IInv /\ IsDeque(history) =>
    Promise!Floor(below) = WorstSupported(history, escalate_ms).tier
<1> SUFFICES ASSUME IInv, NEW h, h = history, IsDeque(h)
             PROVE  Promise!Floor(below) = WorstSupported(h, escalate_ms).tier
  OBVIOUS
<1> DEFINE T == WorstSupported(h, escalate_ms).tier
<1>1. /\ escalate_ms \in Nat /\ escalate_ms <= Longest /\ Longest \in Nat
      /\ Limit = Longest + 1 /\ below \in [Tiers -> 0 .. Limit]
      /\ \A t \in Tiers : t \in Int
  BY HorizonType, TrackerAssumption
     DEF IInv, TypeOK, Limit, Tiers, Easy, Braced, Strained
<1>2. /\ T \in Tiers
      /\ \E g \in Within(h, escalate_ms) : h[g].tier = T
      /\ \A g \in Within(h, escalate_ms) : h[g].tier >= T
  BY <1>1, WorstSupportedFacts, AssessmentType
<1> HIDE DEF T
<1>3. \A g \in DOMAIN h : g \in Nat /\ h[g].tier \in Tiers
  BY HorizonType, AssessmentType DEF IsDeque
<1>4. below[T] > escalate_ms
  <2> SUFFICES ASSUME below[T] <= escalate_ms PROVE FALSE
    BY <1>1, <1>2
  <2>1. below[T] \in DOMAIN h /\ h[below[T]].tier < T
    BY <1>1, <1>2 DEF IInv, RecentIsKept
  <2>2. h[below[T]].tier >= T
    BY <1>2, <2>1 DEF Within
  <2> QED
    BY <1>1, <1>2, <1>3, <2>1, <2>2
<1>5. ASSUME NEW s \in Tiers, below[s] > escalate_ms
      PROVE  s <= T
  <2>1. PICK g \in DOMAIN h : g <= escalate_ms /\ h[g].tier = T
    BY <1>2 DEF Within
  <2>2. T < s => below[s] <= g
    BY <2>1 DEF IInv, KeptIsCounted
  <2> QED
    BY <1>1, <1>2, <1>3, <1>5, <2>1, <2>2
<1>6. \A t \in Tiers :
        (/\ below[t] > escalate_ms
         /\ \A s \in Tiers : below[s] > escalate_ms => s <= t) => t = T
  BY <1>1, <1>2, <1>4, <1>5
<1>7. Promise!Floor(below) = T
  BY <1>2, <1>4, <1>5, <1>6 DEF Promise!Floor
<1> QED
  BY <1>7 DEF T

LEMMA SameCeiling ==
  IInv /\ IsDeque(history) =>
    Promise!Ceiling(above) = BestSupported(history, settle_ms).tier
<1> SUFFICES ASSUME IInv, NEW h, h = history, IsDeque(h)
             PROVE  Promise!Ceiling(above) = BestSupported(h, settle_ms).tier
  OBVIOUS
<1> DEFINE T == BestSupported(h, settle_ms).tier
<1>1. /\ settle_ms \in Nat /\ settle_ms <= Longest /\ Longest \in Nat
      /\ Limit = Longest + 1 /\ above \in [Tiers -> 0 .. Limit]
      /\ \A t \in Tiers : t \in Int
  BY HorizonType, TrackerAssumption
     DEF IInv, TypeOK, Limit, Tiers, Easy, Braced, Strained
<1>2. /\ T \in Tiers
      /\ \E g \in Within(h, settle_ms) : h[g].tier = T
      /\ \A g \in Within(h, settle_ms) : h[g].tier <= T
  BY <1>1, BestSupportedFacts, AssessmentType
<1> HIDE DEF T
<1>3. \A g \in DOMAIN h : g \in Nat /\ h[g].tier \in Tiers
  BY HorizonType, AssessmentType DEF IsDeque
<1>4. above[T] > settle_ms
  <2> SUFFICES ASSUME above[T] <= settle_ms PROVE FALSE
    BY <1>1, <1>2
  <2>1. above[T] \in DOMAIN h /\ h[above[T]].tier > T
    BY <1>1, <1>2 DEF IInv, RecentIsKept
  <2>2. h[above[T]].tier <= T
    BY <1>2, <2>1 DEF Within
  <2> QED
    BY <1>1, <1>2, <1>3, <2>1, <2>2
<1>5. ASSUME NEW s \in Tiers, above[s] > settle_ms
      PROVE  s >= T
  <2>1. PICK g \in DOMAIN h : g <= settle_ms /\ h[g].tier = T
    BY <1>2 DEF Within
  <2>2. T > s => above[s] <= g
    BY <2>1 DEF IInv, KeptIsCounted
  <2> QED
    BY <1>1, <1>2, <1>3, <1>5, <2>1, <2>2
<1>6. \A t \in Tiers :
        (/\ above[t] > settle_ms
         /\ \A s \in Tiers : above[s] > settle_ms => s >= t) => t = T
  BY <1>1, <1>2, <1>4, <1>5
<1>7. Promise!Ceiling(above) = T
  BY <1>2, <1>4, <1>5, <1>6 DEF Promise!Ceiling
<1> QED
  BY <1>7 DEF T

(* The deque covers a window exactly when the watch does. *)
LEMMA SameCoverage ==
  IInv /\ NoHoles /\ DOMAIN history # {} =>
    \A w \in 0 .. Longest : Covered(history, w) <=> watched >= w
<1> SUFFICES ASSUME IInv, NoHoles, DOMAIN history # {}, NEW w \in 0 .. Longest
             PROVE  Covered(history, w) <=> watched >= w
  OBVIOUS
<1>1. DOMAIN history \subseteq 0 .. Horizon /\ watched \in -1 .. Limit
      /\ Limit = Longest + 1 /\ Longest \in Nat /\ Horizon \in Nat
      /\ w \in Nat /\ w <= Longest
  BY HorizonType DEF IInv, TypeOK, Limit
<1>2. ASSUME Covered(history, w) PROVE watched >= w
  <2>1. PICK g \in DOMAIN history : g >= w
    BY <1>2 DEF Covered
  <2>2. g <= watched \/ watched = Limit
    BY DEF IInv, WatchCoversDeque
  <2> QED
    BY <1>1, <2>1, <2>2
<1> QED
  BY <1>1, <1>2, NoHolesCover

LEMMA StepRefines ==
  ASSUME IInv, IInv', NoHoles', HNext
  PROVE  Promise!Next
<1>1. PICK a \in Assessments, dt \in Elapsed : HObserve(a, dt)
  BY DEF HNext
<1> USE <1>1
<1>2. a.tier \in Tiers /\ IsDeque(history')
  BY AssessmentType, ObserveFacts
<1>3. Promise!Witness(a.tier, dt)
  BY DEF HObserve
<1>4. /\ escalate_ms \in Nat /\ settle_ms \in Nat
      /\ escalate_ms <= Longest /\ settle_ms <= Longest
  BY TrackerAssumption, HorizonType
<1>5. Promise!Floor(below') = WorstSupported(history', escalate_ms).tier
  <2>1. (IInv /\ IsDeque(history))' =>
          (Promise!Floor(below) = WorstSupported(history, escalate_ms).tier)'
    BY SameFloor, PTL
  <2> QED
    BY <1>2, <2>1
<1>6. Promise!Ceiling(above') = BestSupported(history', settle_ms).tier
  <2>1. (IInv /\ IsDeque(history))' =>
          (Promise!Ceiling(above) = BestSupported(history, settle_ms).tier)'
    BY SameCeiling, PTL
  <2> QED
    BY <1>2, <2>1
<1>7. /\ Covered(history', escalate_ms) <=> watched' >= escalate_ms
      /\ Covered(history', settle_ms) <=> watched' >= settle_ms
  <2>1. (IInv /\ NoHoles /\ DOMAIN history # {})' =>
          (\A w \in 0 .. Longest : Covered(history, w) <=> watched >= w)'
    BY SameCoverage, PTL
  <2>2. DOMAIN history' # {}
    BY <1>2 DEF IsDeque
  <2>3. escalate_ms \in 0 .. Longest /\ settle_ms \in 0 .. Longest
    BY <1>4, HorizonType
  <2> QED
    BY <2>1, <2>2, <2>3
<1>8. /\ EscalationDue(history') <=> Promise!Rising(below', watched')
      /\ SettlingDue(history') <=> Promise!Falling(above', watched')
  BY <1>5, <1>6, <1>7
     DEF EscalationDue, SettlingDue, Promise!Rising, Promise!Falling
<1>9. history' = Recorded(history, a, dt)
  BY DEF HObserve, Observe
<1>10. Promise!Show
  <2>1. CASE Escalate(history')
    BY <2>1, <1>5, <1>8 DEF Escalate, Promise!Show
  <2>2. CASE Settle(history')
    BY <2>2, <1>6, <1>8 DEF Settle, Promise!Show
  <2>3. CASE Keep(history', a)
    <3>1. current = [tier |-> current.tier, reason |-> current.reason]
      BY AssessmentType DEF IInv, TypeOK
    <3>2. current'.tier = current.tier
      <4>1. [current EXCEPT !.reason = a.reason].tier = current.tier
        BY <3>1
      <4> QED
        BY <2>3, <4>1 DEF Keep
    <3> QED
      BY <2>3, <3>2, <1>8 DEF Keep, Promise!Show
  <2> QED
    BY <1>9, <2>1, <2>2, <2>3 DEF HObserve, Observe
<1> QED
  BY <1>2, <1>3, <1>10 DEF Promise!Next

(* With gaps of at most the longest window, the tier shown by the tracker  *)
(* is at every step the one SustainedTier shows: never sooner than the     *)
(* evidence allows, and never later.                                       *)
THEOREM RefinesSustainedTier ==
  ASSUME GapsWithinLongest
  PROVE  HSpec => KeepsThePromise
<1>1. HInit => Promise!Init
  BY DEF HInit
<1>2. /\ IInv /\ NoHoles /\ (IInv /\ NoHoles)' /\ [HNext]_hvars
      => [Promise!Next]_(Promise!vars)
  <2>1. CASE HNext
    BY <2>1, StepRefines
  <2>2. CASE UNCHANGED hvars
    BY <2>2 DEF hvars, witness, Promise!vars
  <2> QED
    BY <2>1, <2>2
<1> QED
  BY <1>1, <1>2, CoverageInvariant, PTL DEF HSpec, KeepsThePromise, Promise!Spec

-----------------------------------------------------------------------------
(* What is presented: Presenting, on the same tracker.                     *)

DequeIsKept ==
  /\ current \in Assessments
  /\ latest \in Assessments
  /\ DOMAIN history \subseteq 0 .. Horizon
  /\ \A g \in DOMAIN history : history[g] \in Assessments
  /\ DOMAIN history # {} => 0 \in DOMAIN history /\ history[0] = latest

(* What an observation adopts is this window's assessment or one of the    *)
(* deque that is no closer than dt.  If the last window agreed with the    *)
(* shown tier, it is this one's, or the tier was kept by a window that     *)
(* does not agree.                                                         *)
LEMMA AdoptedAfterAgreement ==
  ASSUME DequeIsKept, NEW a \in Assessments, NEW dt \in Elapsed, Observe(a, dt)
  PROVE  /\ DequeIsKept' /\ latest' = a /\ DOMAIN history' # {}
         /\ (DOMAIN history # {} /\ latest.tier = current.tier)
              => current' = a \/ current'.tier # a.tier
<1>1. history' = Recorded(history, a, dt) /\ latest' = a
  BY DEF Observe
<1>2. /\ IsDeque(history')
      /\ history'[0] = a
      /\ \A g \in DOMAIN history' :
           g # 0 => g - dt \in DOMAIN history /\ history'[g] = history[g - dt]
      /\ \A g \in DOMAIN history :
           g + dt <= Horizon => /\ g + dt \in DOMAIN history'
                                /\ history'[g + dt] = history[g]
  BY <1>1, RecordedFacts DEF DequeIsKept
<1>3. /\ escalate_ms \in Nat /\ settle_ms \in Nat /\ dt \in Nat \ {0} /\ Horizon \in Nat
      /\ current.tier \in Int /\ \A x \in Assessments : x.tier \in Int
  BY TrackerAssumption, HorizonType, AssessmentType
     DEF DequeIsKept, Tiers, Easy, Braced, Strained
<1>4. /\ current = [tier |-> current.tier, reason |-> current.reason]
      /\ a = [tier |-> a.tier, reason |-> a.reason]
  BY AssessmentType DEF DequeIsKept
(* An older observation of the window is not younger than the last one.    *)
<1>5. ASSUME DOMAIN history # {}, NEW w \in Nat, NEW g \in Within(history', w), g # 0
      PROVE  dt \in Within(history', w) /\ history'[dt] = latest
  <2>1. g \in Nat /\ g <= w /\ g <= Horizon /\ g - dt \in DOMAIN history
    BY <1>2, <1>3, <1>5 DEF Within, IsDeque
  <2>2. g - dt \in 0 .. Horizon
    BY <2>1 DEF DequeIsKept
  <2>3. dt <= g /\ 0 + dt <= Horizon /\ 0 + dt = dt /\ dt <= w
    BY <1>3, <2>1, <2>2
  <2>4. 0 \in DOMAIN history /\ history[0] = latest
    BY <1>5 DEF DequeIsKept
  <2>5. dt \in DOMAIN history' /\ history'[dt] = latest
    BY <1>2, <2>3, <2>4
  <2> QED
    BY <2>3, <2>5 DEF Within
<1>6. ASSUME Escalate(history')
      PROVE  /\ current' \in Assessments
             /\ DOMAIN history # {} /\ latest.tier = current.tier => current' = a
  <2>1. /\ current' = WorstSupported(history', escalate_ms)
        /\ current'.tier > current.tier
    BY <1>6 DEF Escalate, EscalationDue
  <2>2. /\ current' \in Assessments
        /\ \E g \in Within(history', escalate_ms) : history'[g] = current'
        /\ \A g \in Within(history', escalate_ms) : history'[g].tier >= current'.tier
    BY <1>2, <1>3, <2>1, WorstSupportedFacts
  <2>3. PICK g \in Within(history', escalate_ms) : history'[g] = current'
    BY <2>2
  <2>4. CASE g = 0
    BY <1>2, <2>2, <2>3, <2>4
  <2>5. CASE g # 0 /\ DOMAIN history # {}
    <3>1. latest.tier >= current'.tier
      BY <1>3, <1>5, <2>2, <2>5
    <3> QED
      BY <1>3, <2>1, <2>2, <3>1
  <2> QED
    BY <2>2, <2>4, <2>5
<1>7. ASSUME Settle(history')
      PROVE  /\ current' \in Assessments
             /\ DOMAIN history # {} /\ latest.tier = current.tier => current' = a
  <2>1. /\ current' = BestSupported(history', settle_ms)
        /\ current'.tier < current.tier
    BY <1>7 DEF Settle, SettlingDue
  <2>2. /\ current' \in Assessments
        /\ \E g \in Within(history', settle_ms) : history'[g] = current'
        /\ \A g \in Within(history', settle_ms) : history'[g].tier <= current'.tier
    BY <1>2, <1>3, <2>1, BestSupportedFacts
  <2>3. PICK g \in Within(history', settle_ms) : history'[g] = current'
    BY <2>2
  <2>4. CASE g = 0
    BY <1>2, <2>2, <2>3, <2>4
  <2>5. CASE g # 0 /\ DOMAIN history # {}
    <3>1. latest.tier <= current'.tier
      BY <1>3, <1>5, <2>2, <2>5
    <3> QED
      BY <1>3, <2>1, <2>2, <3>1
  <2> QED
    BY <2>2, <2>4, <2>5
<1>8. ASSUME Keep(history', a)
      PROVE  current' \in Assessments /\ (current' = a \/ current'.tier # a.tier)
  <2>1. current' = IF a.tier = current.tier
                   THEN [current EXCEPT !.reason = a.reason] ELSE current
    BY <1>8 DEF Keep
  <2>2. a.tier = current.tier => [current EXCEPT !.reason = a.reason] = a
    BY <1>4
  <2> QED
    BY <2>1, <2>2 DEF DequeIsKept
<1>9. Escalate(history') \/ Settle(history') \/ Keep(history', a)
  BY <1>1 DEF Observe
<1>10. DequeIsKept'
  BY <1>1, <1>2, <1>6, <1>7, <1>8, <1>9 DEF DequeIsKept, IsDeque
<1> QED
  BY <1>1, <1>2, <1>6, <1>7, <1>8, <1>9, <1>10 DEF IsDeque

-----------------------------------------------------------------------------
(* The status that would be stored now has neither sentence nor card. *)
Pending == Unexplained([tier   |-> current.tier,
                        reason |-> ReasonText(current, latest),
                        cards  |-> cards])

(* The status is of the last pass until this one is stored; the icons are  *)
(* of the last pass until this one is painted.                             *)
PassInOrder ==
  /\ pc \in {"sampling", "painting", "storing"}
  /\ pc # "sampling" =>
       /\ DOMAIN history # {}
       /\ latest.reason \in Kinds => latest.reason \in cards

(* A status without an explanation is of a window that agrees with the     *)
(* tier, and so the pass that follows does not leave another.              *)
OneAtATime ==
  Unexplained(status) =>
    IF pc = "sampling"
    THEN DOMAIN history # {} /\ latest.tier = current.tier
    ELSE ~ Pending

PresentInv == DequeIsKept /\ PassInOrder /\ OneAtATime

(* What is blank is the adopted reason of a tier that the window shares. *)
LEMMA PendingFacts ==
  ASSUME Pending, latest.reason \in Kinds => latest.reason \in cards
  PROVE  /\ latest.tier = current.tier
         /\ current.reason \in Kinds
         /\ latest.reason \notin Kinds
<1>1. ReasonText(current, latest) = <<>> /\ cards = {}
  BY DEF Pending, Unexplained, Blank
<1>2. latest.tier = current.tier /\ current.reason \in Kinds
  BY <1>1 DEF ReasonText, StartingUp, Blank
<1> QED
  BY <1>1, <1>2

LEMMA PresentInitInvariant == PresentInit => PresentInv
<1> SUFFICES ASSUME PresentInit PROVE PresentInv
  OBVIOUS
<1>1. DequeIsKept
  BY DEF PresentInit, Init, DequeIsKept, Assessments
<1>2. PassInOrder
  BY DEF PresentInit, PassInOrder
<1>3. ~ Unexplained(status)
  BY DEF PresentInit, Unexplained
<1> QED
  BY <1>1, <1>2, <1>3 DEF PresentInv, OneAtATime

LEMMA MeasureKeeps ==
  ASSUME PresentInv, Measure
  PROVE  PresentInv'
<1>1. PICK a \in Assessments, dt \in Elapsed, found \in SUBSET Kinds :
        /\ a.reason \in Kinds => a.reason \in found
        /\ Observe(a, dt)
        /\ cards' = found
  BY DEF Measure
<1>2. pc = "sampling" /\ pc' = "painting" /\ UNCHANGED status
  BY DEF Measure
<1>3. /\ DequeIsKept' /\ latest' = a /\ DOMAIN history' # {}
      /\ (DOMAIN history # {} /\ latest.tier = current.tier)
           => current' = a \/ current'.tier # a.tier
  BY <1>1, AdoptedAfterAgreement DEF PresentInv
<1>4. PassInOrder'
  BY <1>1, <1>2, <1>3 DEF PassInOrder
<1>5. ASSUME Unexplained(status), Pending'
      PROVE  FALSE
  <2>1. /\ (Pending /\ (latest.reason \in Kinds => latest.reason \in cards))'
             => (/\ latest.tier = current.tier
                 /\ current.reason \in Kinds
                 /\ latest.reason \notin Kinds)'
    BY PendingFacts, PTL
  <2>2. a.tier = current'.tier /\ current'.reason \in Kinds /\ a.reason \notin Kinds
    BY <1>1, <1>3, <1>5, <2>1
  <2> QED
    BY <1>2, <1>3, <1>5, <2>2 DEF PresentInv, OneAtATime
<1>6. OneAtATime'
  BY <1>2, <1>5 DEF OneAtATime, Unexplained
<1> QED
  BY <1>3, <1>4, <1>6 DEF PresentInv

LEMMA PaintKeeps ==
  ASSUME PresentInv, Paint
  PROVE  PresentInv'
BY DEF Paint, vars, PresentInv, DequeIsKept, PassInOrder, OneAtATime, Pending,
       Unexplained, ReasonText, IsSettled

LEMMA StoreKeeps ==
  ASSUME PresentInv, Store
  PROVE  PresentInv' /\ ~ (Unexplained(status) /\ Unexplained(status'))
<1>1. pc = "storing" /\ pc' = "sampling" /\ UNCHANGED <<current, latest, history, cards>>
  BY DEF Store, vars
<1>2. Unexplained(status') <=> Pending
  BY DEF Store, Pending, Unexplained
<1>3. DequeIsKept' /\ PassInOrder'
  BY <1>1 DEF PresentInv, DequeIsKept, PassInOrder
<1>4. ASSUME Pending
      PROVE  DOMAIN history # {} /\ latest.tier = current.tier
  <2>1. latest.tier = current.tier /\ current.reason \in Kinds /\ latest.reason \notin Kinds
    BY <1>1, <1>4, PendingFacts DEF PresentInv, PassInOrder
  <2> QED
    BY <1>1, <2>1 DEF PresentInv, PassInOrder
<1> QED
  BY <1>1, <1>2, <1>3, <1>4 DEF PresentInv, OneAtATime

(* No status that leaves its tier unexplained follows another: the windows *)
(* that the two passes judged would both agree with the tier, and so the   *)
(* tracker (observe) has taken the reason of the later one, which either   *)
(* has a card or is given in a sentence (reason_text).                     *)
THEOREM NeverUnexplainedTwice == PresentSpec => UnexplainedIsMomentary
<1>1. PresentInv /\ [PresentNext]_allVars => PresentInv'
  <2> SUFFICES ASSUME PresentInv, [PresentNext]_allVars PROVE PresentInv'
    OBVIOUS
  <2>1. CASE UNCHANGED allVars
    BY <2>1 DEF allVars, vars, presentVars, PresentInv, DequeIsKept, PassInOrder,
                OneAtATime, Pending, Unexplained, ReasonText, IsSettled
  <2> QED
    BY <2>1, MeasureKeeps, PaintKeeps, StoreKeeps DEF PresentNext
<1>2. PresentInv => [Store => ~ (Unexplained(status) /\ Unexplained(status'))]_allVars
  BY StoreKeeps
<1> QED
  BY <1>1, <1>2, PresentInitInvariant, PTL DEF PresentSpec, UnexplainedIsMomentary

-----------------------------------------------------------------------------
(* The icons and the status are of one tier between two passes, and the    *)
(* status catches up with what was painted before a pass is over.          *)
IconsInv ==
  /\ pc \in {"sampling", "painting", "storing"}
  /\ tray = last_tier
  /\ button = last_tier
  /\ pc = "storing" => last_tier = current.tier
  /\ pc = "sampling" => status.tier = last_tier

(* As long as an icon can be set, the tray, the taskbar button and the     *)
(* window show one tier between two passes: painting before storing, and   *)
(* painting only when the tier has moved, leave nothing behind.            *)
THEOREM IconsNeverDisagree ==
  ASSUME ~ IconsFail
  PROVE  PresentSpec => []IconsAgreeWithTheWindow
<1>1. PresentInit => IconsInv
  <2> DEFINE first == [tier |-> Easy, reason |-> StartingUp, cards |-> {},
                       heading |-> "", ranking |-> "by processor"]
  <2>1. first.tier = Easy
    OBVIOUS
  <2>2. PresentInit => status = first
    BY DEF PresentInit
  <2> HIDE DEF first
  <2> QED
    BY <2>1, <2>2 DEF PresentInit, IconsInv
<1>2. IconsInv /\ [PresentNext]_allVars => IconsInv'
  <2> SUFFICES ASSUME IconsInv, [PresentNext]_allVars PROVE IconsInv'
    OBVIOUS
  <2>1. CASE Measure
    BY <2>1 DEF Measure, IconsInv
  <2>2. CASE Paint
    <3>1. \A tier, before : \A icon \in Painted(tier) : Shown(icon, before) = tier
      BY DEF Painted, Shown
    <3> QED
      BY <2>2, <3>1 DEF Paint, Moved, vars, IconsInv
  <2>3. CASE Store
    BY <2>3 DEF Store, vars, IconsInv
  <2>4. CASE UNCHANGED allVars
    BY <2>4 DEF allVars, vars, presentVars, IconsInv
  <2> QED
    BY <2>1, <2>2, <2>3, <2>4 DEF PresentNext
<1>3. IconsInv => IconsAgreeWithTheWindow
  BY DEF IconsInv, IconsAgreeWithTheWindow
<1> QED
  BY <1>1, <1>2, <1>3, PTL DEF PresentSpec
=============================================================================
