---------------------------- MODULE MCJudgement ----------------------------
(***************************************************************************)
(* Readings around every boundary of Judgement.  Some machines are there   *)
(* for the limits: their figures vary and one program runs.  Two are there *)
(* for the blame: they are too hot, and what varies is the process list of *)
(* one and the containers of the other.                                    *)
(***************************************************************************)
EXTENDS Judgement

Model(stepping, threads, base, tdp, low, high, limit) ==
  [id |-> "renoir", stepping |-> stepping, threads |-> threads, base |-> base,
   tdp |-> tdp, ctdpMin |-> low, ctdpMax |-> high, tjmax |-> limit]

Slow   == Model(1, 16, 1800, 15, {10}, {25}, {105})
Fast   == Model(1, 16, 2000, 25, {20}, {35}, {95})
Small  == Model(1, 4, 2700, 15, {10}, {25}, {105})
Sparse == Model(0, 16, 1900, 45, {}, {}, {})

Known(p, db) == [product |-> p, reported |-> p.threads, db |-> db, stated |-> {}]

Hiding(m, threads) == [m EXCEPT !.reported = threads]

(* Two models that nothing tells apart, a sibling that its thread count    *)
(* tells apart, also with processors hidden, once so many that they are    *)
(* the sibling's, one of which little is published, and two machines that  *)
(* nobody has entered.                                                     *)
LimitMachines ==
  {Known(p, {Slow, Fast, Small}) : p \in {Slow, Fast, Small}}
    \cup {Known(p, {Fast, Sparse}) : p \in {Fast, Sparse}}
    \cup {Hiding(Known(p, {Slow, Fast, Small}), 3) : p \in {Slow, Small}}
    \cup {Hiding(Known(Slow, {Slow, Fast, Small}), 4)}
    \cup {[product |-> Fast, reported |-> 16, db |-> {}, stated |-> s] : s \in {{}, {2000}}}

(* Too hot whatever runs. *)
ProgramsMachine   == Known(Slow, {Slow})
ContainersMachine == Known(Fast, {Fast})

One(S) == {{x} : x \in S}

Build == [pid |-> 1, name |-> "build", spelling |-> "build", display |-> {}, cpu |-> 70, ws |-> 5, faults |-> {}]

LimitFigures(m) ==
  [mhz           |-> One({1700, 1900, 2300}) \cup {{}},
   nominal       |-> IF m.db = {} THEN {2000, 2600} ELSE {2000},
   utilization   |-> One({79, 80}),
   watts         |-> One({9, 30}) \cup {{}},
   temp          |-> One({89, 90, 100}) \cup {{}},
   tjmax         |-> {{}, {105}},
   stalledCpu    |-> One({39, 40, 80}),
   stalledMemory |-> One({0, 79}),
   stalledIo     |-> {{}, {80}},
   processes     |-> {<<Build>>},
   engine        |-> {<<>>}]

(* What a process may be doing: nothing, something, much. *)
Doing == {[cpu |-> 0, ws |-> 1, faults |-> {}],
          [cpu |-> 20, ws |-> 3, faults |-> {2}],
          [cpu |-> 35, ws |-> 5, faults |-> {9}]}

(* How a program presents itself: some of its processes have names that a  *)
(* person would call them by, and not all the same.                        *)
Plain(name) == [name |-> name, spelling |-> name, display |-> {}]

Builders == {Plain("build"),
             [name |-> "build", spelling |-> "Build", display |-> {"Builder"}],
             [name |-> "build", spelling |-> "build", display |-> {"Build Tool"}]}

ProcessLists(looks, most) ==
  UNION {{[i \in 1 .. n |->
             [pid |-> i, name |-> ld[i][1].name, spelling |-> ld[i][1].spelling,
              display |-> ld[i][1].display, cpu |-> ld[i][2].cpu,
              ws |-> ld[i][2].ws, faults |-> ld[i][2].faults]] :
            ld \in [1 .. n -> looks \X Doing]} : n \in 0 .. most}

(* Within its limit, at it, and one whose statistics do not come. *)
Containers == {[memory |-> 4, limit |-> {}, answers |-> TRUE],
               [memory |-> 9, limit |-> {9}, answers |-> TRUE],
               [memory |-> 9, limit |-> {9}, answers |-> FALSE]}

Engines ==
  {<<>>} \cup {<<[id |-> "first", memory |-> c.memory, limit |-> c.limit,
                  answers |-> c.answers]>> : c \in Containers}
         \cup {<<[id |-> "first", memory |-> c.memory, limit |-> c.limit,
                  answers |-> c.answers],
                 [id |-> "second", memory |-> d.memory, limit |-> d.limit,
                  answers |-> d.answers]>> : c \in Containers, d \in Containers}

BlameFigures(lists, engines) ==
  [mhz           |-> {{2000}},
   nominal       |-> {2000},
   utilization   |-> One({40, 100}),
   watts         |-> {{}},
   temp          |-> {{104}},
   tjmax         |-> {{}},
   stalledCpu    |-> One({0}),
   stalledMemory |-> One({0, 50}),
   stalledIo     |-> {{}, {60}},
   processes     |-> lists,
   engine        |-> engines]

ProgramsFigures ==
  BlameFigures(ProcessLists(Builders \cup {Plain(n) : n \in {"vmmem", "msmpeng"}}, 3),
               {<<>>})
ContainersFigures ==
  BlameFigures(ProcessLists({Plain(n) : n \in {"build", "vmmem", "vmmemwsl", "com.docker.proxy"}}, 2), Engines)

MCMachines == LimitMachines \cup {ProgramsMachine, ContainersMachine}
MCFigures ==
  [m \in MCMachines |->
     CASE m = ProgramsMachine   -> ProgramsFigures
       [] m = ContainersMachine -> ContainersFigures
       [] m \in LimitMachines   -> LimitFigures(m)]

(* Two models that publish a TDP and no configurable one. *)
MCSparseMachines ==
  LET tdp(w) == Model(1, 16, 2000, w, {}, {}, {95}) IN {Known(tdp(45), {tdp(15), tdp(45)})}
MCSparseFigures == [m \in MCSparseMachines |-> LimitFigures(m)]

MCContainerMachines == {ContainersMachine}
MCContainerFigures  == [m \in MCContainerMachines |-> ContainersFigures]
=============================================================================
