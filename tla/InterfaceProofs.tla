--------------------------- MODULE InterfaceProofs ---------------------------
(***************************************************************************)
(* The interface's processes, containers and window.  First, that nobody   *)
(* is named for more than it used, for any processes, any limits and any   *)
(* answer of the engine.                                                   *)
(*                                                                         *)
(* A share is the difference of two counts that were read under one id.    *)
(* The invariant says what a count can be worth at every moment between    *)
(* the two: whoever has the id now, its count is above the last one by no  *)
(* more than what was used under the id since (Outstanding).  While a      *)
(* sample is taken the same holds of the counts it has read so far (Since) *)
(* and they carry what they are worth with them (Worth).                   *)
(***************************************************************************)
EXTENDS Gathering, WindowModes, TLAPS

Counts ==
  /\ os \in [DOMAIN os -> [path : Paths, total : Nat]]
  /\ DOMAIN os \subseteq Pids
  /\ used \in [Pids -> Nat]
  /\ left \subseteq Pids
  /\ DOMAIN raw \subseteq Pids
  /\ \A p \in DOMAIN raw : raw[p].total \in Nat /\ raw[p].used \in Nat
  /\ \A p \in DOMAIN previous : previous[p] \in Nat

(* What is still to be read has not been read. *)
ReadOnce == DOMAIN raw \cap left = {}

Outstanding ==
  \A p \in DOMAIN os \cap DOMAIN previous :
    thread # "reading" \/ p \in left => os[p].total - previous[p] <= used[p]

Since == \A p \in DOMAIN os \cap DOMAIN raw : os[p].total - raw[p].total <= used[p]

Worth ==
  \A p \in DOMAIN raw \cap DOMAIN previous : raw[p].total - previous[p] <= raw[p].used

IInv == Counts /\ ReadOnce /\ Outstanding /\ Since /\ Worth /\ NeverOvercredited

-----------------------------------------------------------------------------
LEMMA InitIInv == Init => IInv
BY DEF Init, IInv, Counts, ReadOnce, Outstanding, Since, Worth, NeverOvercredited

LEMMA StartKeeps ==
  ASSUME IInv, NEW p \in Pids, Start(p)
  PROVE  IInv'
<1> USE DEF IInv, Start, sampler, loopvars
<1>1. PICK path \in Paths : os' = With(os, p, [path |-> path, total |-> 0])
  OBVIOUS
<1>2. /\ DOMAIN os' = DOMAIN os \cup {p}
      /\ \A q \in DOMAIN os : os'[q] = os[q]
      /\ os'[p] = [path |-> path, total |-> 0]
  BY <1>1 DEF With
<1>3. os' = [q \in DOMAIN os' |-> os'[q]]
  BY <1>1 DEF With
<1>4. Counts'
  BY <1>2, <1>3 DEF Counts
<1>5. ReadOnce' /\ Worth' /\ NeverOvercredited'
  BY DEF ReadOnce, Worth, NeverOvercredited
<1>6. Outstanding'
  BY <1>2 DEF Counts, Outstanding
<1>7. Since'
  BY <1>2 DEF Counts, Since
<1> QED BY <1>4, <1>5, <1>6, <1>7

LEMMA RunKeeps ==
  ASSUME IInv, NEW p \in Pids, Run(p)
  PROVE  IInv'
<1> USE DEF IInv, Run, sampler, loopvars
<1>1. /\ DOMAIN os' = DOMAIN os
      /\ \A q \in DOMAIN os \ {p} : os'[q] = os[q] /\ used'[q] = used[q]
      /\ os'[p].total = os[p].total + 1
      /\ used'[p] = used[p] + 1
  BY DEF Counts
<1>2. Counts'
  BY DEF Counts
<1>3. ReadOnce' /\ Worth' /\ NeverOvercredited'
  BY DEF ReadOnce, Worth, NeverOvercredited
<1>4. Outstanding'
  BY <1>1 DEF Counts, Outstanding
<1>5. Since'
  BY <1>1 DEF Counts, Since
<1> QED BY <1>2, <1>3, <1>4, <1>5

LEMMA ExitKeeps ==
  ASSUME IInv, NEW p \in Pids, Exit(p)
  PROVE  IInv'
<1> USE DEF IInv, Exit, sampler, loopvars
<1>1. os' = [q \in DOMAIN os \ {p} |-> os[q]]
  BY DEF Restrict
<1>2. Counts'
  BY <1>1 DEF Counts
<1>3. ReadOnce' /\ Worth' /\ NeverOvercredited'
  BY DEF ReadOnce, Worth, NeverOvercredited
<1>4. Outstanding' /\ Since'
  BY <1>1 DEF Counts, Outstanding, Since
<1> QED BY <1>2, <1>3, <1>4

LEMMA TickKeeps ==
  ASSUME IInv, Tick
  PROVE  IInv'
<1> USE DEF IInv, Tick, osvars, dockervars
<1>1. CASE /\ \E s \in SUBSET DOMAIN os : left' = s
           /\ raw' = <<>>
           /\ thread' = "reading"
  <2>1. Counts' /\ ReadOnce'
    BY <1>1 DEF Counts, ReadOnce
  <2>2. Outstanding'
    BY <1>1 DEF Outstanding
  <2>3. Since' /\ Worth' /\ NeverOvercredited'
    BY <1>1 DEF Since, Worth, NeverOvercredited
  <2> QED BY <2>1, <2>2, <2>3
<1>2. CASE thread' = "judging" /\ UNCHANGED <<left, raw>>
  BY <1>2 DEF Counts, ReadOnce, Outstanding, Since, Worth, NeverOvercredited
<1> QED BY <1>1, <1>2

(* Where the count comes from that a share will be taken of: what it is    *)
(* worth was outstanding when it was read, and nothing is after it.        *)
LEMMA ReadProcessKeeps ==
  ASSUME IInv, NEW p \in Pids, ReadProcess(p)
  PROVE  IInv'
<1> USE DEF IInv, ReadProcess, loopvars, dockervars
<1>1. /\ used'[p] = 0
      /\ \A q \in Pids \ {p} : used'[q] = used[q]
      /\ used' \in [Pids -> Nat]
  BY DEF Counts
<1>2. Outstanding'
  BY <1>1 DEF Counts, Outstanding
<1>3. NeverOvercredited'
  BY DEF NeverOvercredited
<1>4. CASE UNCHANGED raw
  <2>1. Counts' /\ ReadOnce' /\ Worth'
    BY <1>1, <1>4 DEF Counts, ReadOnce, Worth
  <2>2. Since'
    BY <1>1, <1>4 DEF Counts, ReadOnce, Since
  <2> QED BY <1>2, <1>3, <2>1, <2>2
<1>5. CASE /\ p \in DOMAIN os
           /\ raw' = With(raw, p, RawProcess(p))
  <2>1. p \notin DOMAIN raw
    BY DEF ReadOnce
  <2>2. /\ DOMAIN raw' = DOMAIN raw \cup {p}
        /\ \A q \in DOMAIN raw : raw'[q] = raw[q]
        /\ raw'[p] = RawProcess(p)
    BY <1>5, <2>1 DEF With
  <2>3. raw'[p].total = os[p].total /\ raw'[p].used = used[p]
    BY <2>2 DEF RawProcess
  <2>4. Counts'
    BY <1>1, <1>5, <2>2, <2>3 DEF Counts
  <2>5. ReadOnce'
    BY <2>2 DEF ReadOnce
  <2>6. Worth'
    BY <1>5, <2>1, <2>2, <2>3 DEF Counts, Outstanding, Worth
  <2>7. Since'
    BY <1>1, <1>5, <2>1, <2>2, <2>3 DEF Counts, Since
  <2> QED BY <1>2, <1>3, <2>4, <2>5, <2>6, <2>7
<1> QED BY <1>4, <1>5

LEMMA CreditIsCovered ==
  ASSUME Counts, Worth, NEW p \in DOMAIN raw, NEW elapsed
  PROVE  Credit(p, elapsed) <= raw[p].used
BY DEF Counts, Worth, Credit

LEMMA FinishSampleKeeps ==
  ASSUME IInv, FinishSample
  PROVE  IInv'
<1> USE DEF IInv, FinishSample, Baseline, osvars, dockervars
<1>1. /\ DOMAIN previous' = DOMAIN raw
      /\ \A p \in DOMAIN raw : previous'[p] = raw[p].total
      /\ raw' = <<>>
  OBVIOUS
<1>2. Counts' /\ ReadOnce' /\ Since' /\ Worth'
  BY <1>1 DEF Counts, ReadOnce, Since, Worth
<1>3. Outstanding'
  BY <1>1 DEF Outstanding, Since
<1>4. NeverOvercredited'
  <2>1. PICK elapsed :
          processes' = { [pid |-> p, display_name |-> names'[raw[p].path],
                          credit |-> Credit(p, elapsed), used |-> raw[p].used] : p \in DOMAIN raw }
    OBVIOUS
  <2>2. \A r \in processes' : \E p \in DOMAIN raw :
          r.credit = Credit(p, elapsed) /\ r.used = raw[p].used
    BY <2>1
  <2> QED BY <2>2, CreditIsCovered DEF NeverOvercredited
<1> QED BY <1>2, <1>3, <1>4

LEMMA NextKeeps == IInv /\ [Next]_vars => IInv'
<1> SUFFICES ASSUME IInv, [Next]_vars PROVE IInv'
  OBVIOUS
<1> DEFINE Same == /\ UNCHANGED <<os, used, left, raw, previous, processes>>
                   /\ "reading" \in {thread, thread'} => thread' = thread
<1>1. ASSUME Same PROVE IInv'
  BY <1>1 DEF IInv, Counts, ReadOnce, Outstanding, Since, Worth, NeverOvercredited
<1>2. CASE \E p \in Pids : Start(p) \/ Run(p) \/ Exit(p)
  BY <1>2, StartKeeps, RunKeeps, ExitKeeps
<1>3. CASE Tick
  BY <1>3, TickKeeps
<1>4. CASE \E p \in Pids : ReadProcess(p)
  BY <1>4, ReadProcessKeeps
<1>5. CASE FinishSample
  BY <1>5, FinishSampleKeeps
<1>6. CASE Judge
  <2>1. Same BY <1>6 DEF Judge, osvars, sampler
  <2> QED BY <2>1, <1>1
<1>7. CASE ContainersChange \/ Engine \/ Docker
  <2>1. Same
    BY <1>7 DEF ContainersChange, Engine, Docker, List, Ask, Wake, Lock, Store,
                osvars, sampler, loopvars
  <2> QED BY <2>1, <1>1
<1>8. CASE UNCHANGED vars
  <2>1. Same BY <1>8 DEF vars, osvars, sampler, loopvars
  <2> QED BY <2>1, <1>1
<1> QED
  BY <1>2, <1>3, <1>4, <1>5, <1>6, <1>7, <1>8 DEF Next, Loop, Machine

(* No process is ever credited with more CPU time than it used between the *)
(* two samples: not a new one, not one that was given the id of another,   *)
(* and not one that a sample in between could not open.                    *)
THEOREM NobodyIsOvercredited == Spec => []NeverOvercredited
<1>1. IInv => NeverOvercredited
  BY DEF IInv
<1> QED BY InitIInv, NextKeeps, <1>1, PTL DEF Spec

-----------------------------------------------------------------------------
(* A list grows older with the count of the passes, until the count is 0   *)
(* again and the list is gathered anew.                                    *)
Aging ==
  /\ tick \in 0 .. PROCESS_EVERY - 1
  /\ age \in 0 .. PROCESS_EVERY - 1
  /\ thread # "reading" => age <= tick
  /\ processes = {} => age = 0

LEMMA NextTick ==
  ASSUME NEW n \in Nat \ {0}, NEW t \in 0 .. n - 1
  PROVE  (t + 1) % n = IF t + 1 = n THEN 0 ELSE t + 1
<1>1. CASE t + 1 = n
  BY <1>1
<1>2. CASE t + 1 < n
  BY <1>2
<1> QED BY <1>1, <1>2

LEMMA InitAging == Init => Aging
BY GatheringAssumption DEF Init, Aging

LEMMA NextAging == Aging /\ [Next]_vars => Aging'
<1> SUFFICES ASSUME Aging, [Next]_vars PROVE Aging'
  OBVIOUS
<1>1. CASE Tick
  <2>1. tick' = IF tick + 1 = PROCESS_EVERY THEN 0 ELSE tick + 1
    BY <1>1, NextTick, GatheringAssumption DEF Tick, Aging
  <2>2. CASE thread' = "reading" /\ UNCHANGED age
    BY <1>1, <2>1, <2>2, GatheringAssumption DEF Tick, Aging
  <2>3. CASE ~ Due /\ age' = age + 1
    <3>1. tick' = tick + 1 /\ thread = "waiting" /\ UNCHANGED processes /\ processes # {}
      BY <1>1, <2>1, <2>3 DEF Tick, Due
    <3> QED BY <2>1, <2>3, <3>1, GatheringAssumption DEF Aging
  <2> QED BY <1>1, <2>2, <2>3 DEF Tick
<1>2. CASE FinishSample
  BY <1>2, GatheringAssumption DEF FinishSample, Aging
<1>3. CASE Judge
  BY <1>3 DEF Judge, Aging
<1>4. CASE UNCHANGED loopvars
  BY <1>4 DEF loopvars, Aging
<1>5. ASSUME NEW p \in Pids, Start(p) \/ Run(p) \/ Exit(p) \/ ReadProcess(p)
      PROVE  UNCHANGED loopvars
  BY <1>5 DEF Start, Run, Exit, ReadProcess
<1>6. ASSUME ContainersChange \/ Engine \/ Docker
      PROVE  UNCHANGED loopvars
  BY <1>6 DEF ContainersChange, Engine, Docker, List, Ask, Wake, Lock, Store
<1>7. ASSUME UNCHANGED vars
      PROVE  UNCHANGED loopvars
  BY <1>7 DEF vars
<1> QED
  BY <1>1, <1>2, <1>3, <1>4, <1>5, <1>6, <1>7 DEF Next, Loop, Machine

(* However many passes there are between two samples, a list of processes  *)
(* serves fewer than that, and an empty one none.                          *)
THEOREM NoListOutlivesItsTurn == Spec => []NobodyIsNamedForLong
<1>1. Aging => NobodyIsNamedForLong
  BY GatheringAssumption DEF Aging, NobodyIsNamedForLong
<1> QED BY InitAging, NextAging, <1>1, PTL DEF Spec

-----------------------------------------------------------------------------
(* What has been used since the last look is part of all that was used. *)
GatheringTypes ==
  /\ TypeOK
  /\ os \in [DOMAIN os -> [path : Paths, total : 0 .. MaxCPU]]
  /\ \A p \in DOMAIN os : used[p] <= os[p].total
  /\ \A p \in DOMAIN raw : raw[p].path \in Paths
  /\ engine \subseteq Ids

LEMMA InitTypes == Init => GatheringTypes
BY GatheringAssumption DEF Init, GatheringTypes, TypeOK

LEMMA NextTypes == GatheringTypes /\ [Next]_vars => GatheringTypes'
<1> SUFFICES ASSUME GatheringTypes, [Next]_vars PROVE GatheringTypes'
  OBVIOUS
<1> USE GatheringAssumption DEF GatheringTypes, TypeOK, osvars, sampler, loopvars
<1>1. ASSUME NEW p \in Pids, Start(p) PROVE GatheringTypes'
  <2>1. PICK path \in Paths : os' = With(os, p, [path |-> path, total |-> 0])
    BY <1>1 DEF Start
  <2>2. /\ DOMAIN os' = DOMAIN os \cup {p}
        /\ \A q \in DOMAIN os : os'[q] = os[q]
        /\ os'[p] = [path |-> path, total |-> 0]
        /\ os' = [q \in DOMAIN os' |-> os'[q]]
        /\ p \notin DOMAIN os
    BY <1>1, <2>1 DEF With, Start
  <2>3. used' \in [Pids -> 0 .. MaxCPU] /\ \A q \in Pids : used'[q] = IF q = p THEN 0 ELSE used[q]
    BY <1>1 DEF Start
  <2>4. UNCHANGED <<sampler, loopvars, engine, dockervars>>
    BY <1>1 DEF Start
  <2>5. /\ os' \in [DOMAIN os' -> [path : Paths, total : 0 .. MaxCPU]]
        /\ DOMAIN os' \subseteq Pids
    BY <2>2
  <2>6. \A q \in DOMAIN os' : used'[q] <= os'[q].total
    BY <2>2, <2>3
  <2>7. TypeOK'
    BY <2>3, <2>4, <2>5 DEF dockervars
  <2> QED BY <2>4, <2>5, <2>6, <2>7
<1>2. ASSUME NEW p \in Pids, Run(p) PROVE GatheringTypes'
  BY <1>2 DEF Run, dockervars
<1>3. ASSUME NEW p \in Pids, Exit(p) PROVE GatheringTypes'
  BY <1>3 DEF Exit, Restrict, dockervars
<1>4. CASE Tick
  <2>1. tick' \in 0 .. PROCESS_EVERY - 1
    BY <1>4 DEF Tick
  <2>2. left' \in SUBSET Pids /\ raw' \in {raw, <<>>} /\ DOMAIN raw' \cap left' = {}
    <3>1. CASE UNCHANGED <<left, raw>>
      BY <3>1
    <3>2. CASE raw' = <<>> /\ \E s \in SUBSET DOMAIN os : left' = s
      <4>1. DOMAIN raw' = {}
        BY <3>2
      <4> QED BY <3>2, <4>1
    <3> QED BY <1>4, <3>1, <3>2 DEF Tick
  <2>3. \A p \in DOMAIN raw' : p \in DOMAIN raw /\ raw'[p] = raw[p]
    <3>1. CASE raw' = <<>>
      <4>1. DOMAIN raw' = {}
        BY <3>1
      <4> QED BY <4>1
    <3> QED BY <2>2, <3>1
  <2>4. /\ UNCHANGED <<osvars, previous, names, engine, dockervars>>
        /\ thread' \in {"reading", "judging"}
    BY <1>4 DEF Tick
  <2>5. TypeOK'
    BY <2>1, <2>2, <2>3, <2>4 DEF dockervars
  <2> QED BY <2>3, <2>4, <2>5
<1>5. ASSUME NEW p \in Pids, ReadProcess(p) PROVE GatheringTypes'
  <2>1. /\ left' = left \ {p} /\ p \in left
        /\ used' \in [Pids -> 0 .. MaxCPU] /\ \A q \in Pids : used'[q] <= used[q]
        /\ UNCHANGED <<os, previous, names, loopvars, engine, dockervars>>
    BY <1>5 DEF ReadProcess
  <2>2. /\ DOMAIN raw' \subseteq DOMAIN raw \cup {p}
        /\ \A q \in DOMAIN raw' : raw'[q].path \in Paths
    <3>1. CASE UNCHANGED raw
      BY <3>1
    <3>2. CASE p \in DOMAIN os /\ raw' = With(raw, p, RawProcess(p))
      <4>1. /\ DOMAIN raw' = DOMAIN raw \cup {p}
            /\ \A q \in DOMAIN raw' : raw'[q] = IF q = p THEN RawProcess(p) ELSE raw[q]
        BY <3>2 DEF With
      <4>2. RawProcess(p).path \in Paths
        BY <3>2 DEF RawProcess
      <4> QED BY <4>1, <4>2
    <3> QED BY <1>5, <3>1, <3>2 DEF ReadProcess
  <2>3. TypeOK'
    BY <2>1, <2>2 DEF dockervars
  <2>4. \A q \in DOMAIN os : used'[q] <= os[q].total
    BY <2>1
  <2> QED BY <2>1, <2>2, <2>3, <2>4
<1>6. CASE FinishSample
  BY <1>6 DEF FinishSample, Named, Baseline, dockervars
<1>7. CASE Judge
  BY <1>7 DEF Judge, dockervars
<1>8. CASE ContainersChange \/ Engine \/ Docker
  <2>1. UNCHANGED <<osvars, sampler, loopvars>>
    BY <1>8 DEF ContainersChange, Engine, Docker, List, Ask, Wake, Lock, Store
  <2>2. docker' \in {"sleeping", "listing", "asking", "storing", "ended"}
    BY <1>8 DEF ContainersChange, Engine, Docker, List, Ask, Wake, Lock, Store, GoesOn, dockervars
  <2>3. asked' \subseteq Ids
    <3>1. CASE List
      BY <3>1 DEF List, Answers, Body, Items
    <3>2. CASE ContainersChange \/ (\E id \in Ids : Ask(id)) \/ Docker
      BY <3>2 DEF ContainersChange, Ask, Docker, Wake, Lock, Store, dockervars
    <3> QED BY <1>8, <3>1, <3>2 DEF Engine
  <2>4. engine' \subseteq Ids
    BY <1>8 DEF ContainersChange, Engine, Docker, List, Ask, Wake, Lock, Store
  <2> QED BY <2>1, <2>2, <2>3, <2>4
<1>9. CASE UNCHANGED vars
  BY <1>9 DEF vars, dockervars
<1> QED
  BY <1>1, <1>2, <1>3, <1>4, <1>5, <1>6, <1>7, <1>8, <1>9 DEF Next, Loop, Machine

(* Type correctness of Gathering; in it, that what is counted as used at   *)
(* an id since it was last looked at never exceeds one process's total.    *)
THEOREM GatheringTypeCorrect == Spec => []TypeOK
<1>1. GatheringTypes => TypeOK
  BY DEF GatheringTypes
<1> QED BY InitTypes, NextTypes, <1>1, PTL DEF Spec

-----------------------------------------------------------------------------
(* That at most one raise comes late, for any number of clicks in flight.  *)
(* The bound itself is not inductive: it has to be known that a thread     *)
(* which has looked and not yet raised has no late raise behind it, over   *)
(* what is full screen now, or since the strip was left.                   *)

OverInv ==
  /\ over \in {0, 1}
  /\ ~ fullscreen => over = 0
  /\ reclaimer = "cleared" => over = 0

OffInv ==
  /\ off \in {0, 1}
  /\ ON_THE_TASKBAR => off = 0
  /\ reclaimer # "asleep" => off = 0

WindowInv == OverInv /\ OffInv

(* What changes none of the five disturbs nothing. *)
LEMMA Unconcerned == WindowInv /\ UNCHANGED <<ON_THE_TASKBAR, fullscreen, reclaimer, late>> => WindowInv'
BY DEF WindowInv, OverInv, OffInv, late

LEMMA WindowNextKeeps == WindowInv /\ [WindowNext]_windowvars => WindowInv'
<1> SUFFICES ASSUME WindowInv, [WindowNext]_windowvars PROVE WindowInv'
  OBVIOUS
<1>1. CASE Click
  BY <1>1, Unconcerned DEF Click
<1>2. CASE Resize
  BY <1>2, Unconcerned DEF Resize
<1>3. CASE Announce
  BY <1>3 DEF Announce, WindowInv, OverInv, OffInv
<1>4. CASE Raise
  BY <1>4, Unconcerned DEF Raise
<1>5. CASE Look
  BY <1>5 DEF Look, late, WindowInv, OverInv, OffInv
<1>6. CASE AskShell
  BY <1>6 DEF AskShell, MayRaise, late, WindowInv, OverInv, OffInv
<1>7. CASE Post
  <2>1. OverInv'
    BY <1>7 DEF Post, WindowInv, OverInv
  <2>2. OffInv'
    BY <1>7 DEF Post, WindowInv, OffInv
  <2> QED BY <2>1, <2>2 DEF WindowInv
<1>8. CASE Minimise \/ Hide \/ CloseRequested \/ Show
  BY <1>8, Unconcerned DEF Minimise, Hide, CloseRequested, Show, SetWindow
<1>9. CASE TouchTaskbar
  BY <1>9, Unconcerned DEF TouchTaskbar
<1>10. CASE FullScreen
  BY <1>10 DEF FullScreen, WindowInv, OverInv, OffInv
<1>11. CASE UNCHANGED windowvars
  BY <1>11, Unconcerned DEF windowvars
<1> QED
  BY <1>1, <1>2, <1>3, <1>4, <1>5, <1>6, <1>7, <1>8, <1>9, <1>10, <1>11 DEF WindowNext, Main, Reclaim

(* Whatever is clicked, opened or closed between the look of the thread at *)
(* the flag, the answer of the shell and the raise, a second raise never   *)
(* follows over what is full screen now, nor while the strip is gone.      *)
THEOREM NeverTwiceOverFullScreen == WindowSpec => []OneLateRaiseAtMost
<1>1. WindowInit => WindowInv
  BY DEF WindowInit, WindowInv, OverInv, OffInv
<1>2. WindowInv => OneLateRaiseAtMost
  BY DEF WindowInv, OverInv, OffInv, OneLateRaiseAtMost
<1> QED BY <1>1, <1>2, WindowNextKeeps, PTL DEF WindowSpec

LEMMA WindowTypes == WindowTypeOK /\ [WindowNext]_windowvars => WindowTypeOK'
<1> SUFFICES ASSUME WindowTypeOK, [WindowNext]_windowvars PROVE WindowTypeOK'
  OBVIOUS
<1> USE DEF WindowTypeOK, late
<1>1. CASE Click
  <2>1. PICK m \in Reachable(mode) : mode' = m /\ calls' = Append(calls, m)
    BY <1>1 DEF Click
  <2>2. m \in Modes
    BY <2>1 DEF Reachable, Modes
  <2>3. calls' \in Seq(Modes) /\ Len(calls') <= MaxClicks
    BY <1>1, <2>1, <2>2, WindowModesAssumption DEF Click
  <2> QED
    BY <1>1, <2>1, <2>2, <2>3 DEF Click
<1>2. CASE Resize
  <2>1. calls # <<>> /\ calls' = Tail(calls) /\ shape' \in {shape, Head(calls)}
    BY <1>2 DEF Resize
  <2>2. Head(calls) \in Modes /\ calls' \in Seq(Modes) /\ Len(calls') <= MaxClicks
    BY <2>1, WindowModesAssumption
  <2> QED
    BY <1>2, <2>1, <2>2 DEF Resize
<1>3. CASE Announce
  <2>1. ON_THE_TASKBAR' \in BOOLEAN /\ front' \in BOOLEAN
    BY <1>3, Zenon DEF Announce, Flag
  <2>2. over' \in Nat /\ off' \in Nat /\ main' \in {"idle", "resized"}
    BY <1>3 DEF Announce
  <2>3. UNCHANGED <<mode, calls, shape, reclaimer, posted, window, fullscreen>>
    BY <1>3 DEF Announce
  <2> QED
    BY <2>1, <2>2, <2>3
<1>4. CASE Raise
  BY <1>4 DEF Raise
<1>5. CASE Look
  BY <1>5 DEF Look
<1>6. CASE AskShell
  BY <1>6 DEF AskShell
<1>7. CASE Post
  BY <1>7 DEF Post
<1>8. CASE Minimise \/ Hide \/ CloseRequested \/ Show
  BY <1>8 DEF Minimise, Hide, CloseRequested, Show, SetWindow
<1>9. CASE TouchTaskbar
  BY <1>9 DEF TouchTaskbar
<1>10. CASE FullScreen
  BY <1>10 DEF FullScreen
<1>11. CASE UNCHANGED windowvars
  BY <1>11 DEF windowvars
<1> QED
  BY <1>1, <1>2, <1>3, <1>4, <1>5, <1>6, <1>7, <1>8, <1>9, <1>10, <1>11 DEF WindowNext, Main, Reclaim

(* Type correctness of WindowModes: no shape but the three is ever given   *)
(* to the window, and no more clicks wait than MaxClicks.                  *)
THEOREM WindowTypeCorrect == WindowSpec => []WindowTypeOK
<1>1. WindowInit => WindowTypeOK
  <2> SUFFICES ASSUME WindowInit PROVE WindowTypeOK
    OBVIOUS
  <2> USE DEF WindowInit
  <2>1. ON_THE_TASKBAR \in BOOLEAN /\ posted \in BOOLEAN /\ front \in BOOLEAN /\ fullscreen \in BOOLEAN
    BY Zenon
  <2>2. calls \in Seq(Modes) /\ Len(calls) <= MaxClicks
    <3>1. <<>> \in Seq(Modes) /\ Len(<<>>) = 0
      OBVIOUS
    <3> QED BY <3>1, WindowModesAssumption
  <2>3. mode \in Modes /\ shape \in Modes
    BY DEF Modes
  <2> QED BY <2>1, <2>2, <2>3 DEF WindowTypeOK
<1> QED BY <1>1, WindowTypes, PTL DEF WindowSpec
=============================================================================
