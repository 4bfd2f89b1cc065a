----------------------------- MODULE Gathering -----------------------------
(***************************************************************************)
(* Whom a finding may name: the processes, read one by one while they run, *)
(* exit and leave their ids to others (ProcessSampler of                   *)
(* crates/loadbear-sensors-windows/src/processes.rs), and the containers,  *)
(* asked of the Docker engine by a thread of its own (docker.rs), as       *)
(* crates/loadbear-app/src/main.rs drives the two.                         *)
(*                                                                         *)
(* CPU time is counted in units; a share is the difference of two counts   *)
(* over the time between the samples, which the model leaves out unless it *)
(* is zero.                                                                *)
(***************************************************************************)
EXTENDS Integers, Sequences, FiniteSets, Functions

CONSTANTS
  Pids, Paths,
  Resources,    \* what the executables carry to be described by
  MAX_PROCESSES, PROCESS_EVERY,
  Ids,          \* containers
  Replies,      \* what the engine may say of a container
  MaxCPU        \* bound: CPU time of one process

ASSUME GatheringAssumption ==
  /\ {MAX_PROCESSES, PROCESS_EVERY} \subseteq Nat \ {0}
  /\ MaxCPU \in Nat

None == "none"

(* f, with b as the value of a. *)
With(f, a, b) == [x \in DOMAIN f \cup {a} |-> IF x = a THEN b ELSE f[x]]

VARIABLES
  os,           \* the running processes: their executable and CPU time
  used,         \* history: CPU time since the sampler last called at this id
  thread,       \* sampling thread: "waiting", "reading" or "judging"
  tick,         \* passes, modulo PROCESS_EVERY
  left,         \* ids that are still to be read
  raw,          \* what has been read of the others
  previous,     \* CPU time by id, from the sample before
  primed,       \* has there been one?
  names,        \* friendly names by path
  processes,    \* the list that findings are made from
  age,          \* history: passes since it was gathered
  engine,       \* the containers that run
  docker,       \* its thread: "sleeping", "listing", "asking", "storing" or "ended"
  asked,        \* containers of the list that it has still to ask about
  fresh,        \* its answer so far
  containers    \* the answer it left behind

osvars      == <<os, used>>
sampler     == <<left, raw, previous, primed, names>>
loopvars    == <<thread, tick, processes, age>>
dockervars  == <<docker, asked, fresh, containers>>
vars == <<osvars, sampler, loopvars, engine, dockervars>>

-----------------------------------------------------------------------------
(* The machine. *)

Start(p) ==
  /\ p \notin DOMAIN os
  /\ \E path \in Paths : os' = With(os, p, [path |-> path, total |-> 0])
  /\ used' = [used EXCEPT ![p] = 0]
  /\ UNCHANGED <<sampler, loopvars, engine, dockervars>>

Run(p) ==
  /\ p \in DOMAIN os
  /\ os[p].total < MaxCPU
  /\ os' = [os EXCEPT ![p].total = @ + 1]
  /\ used' = [used EXCEPT ![p] = @ + 1]
  /\ UNCHANGED <<sampler, loopvars, engine, dockervars>>

Exit(p) ==
  /\ p \in DOMAIN os
  /\ os' = Restrict(os, DOMAIN os \ {p})
  /\ used' = [used EXCEPT ![p] = 0]
  /\ UNCHANGED <<sampler, loopvars, engine, dockervars>>

ContainersChange ==
  /\ engine' \in SUBSET Ids
  /\ UNCHANGED <<osvars, sampler, loopvars, dockervars>>

-----------------------------------------------------------------------------
(* The processes. *)

(* enumerate_pids: nothing if it fails, and silently cut short.            *)
Enumerated(s) ==
  \/ s = {}
  \/ /\ s \subseteq DOMAIN os
     /\ Cardinality(s) <= MAX_PROCESSES
     /\ s = DOMAIN os \/ Cardinality(s) = MAX_PROCESSES

(* Mutant of Due: an empty list waits for its turn like any other, and a   *)
(* list that is not empty for an empty one.                                *)
DueAndEmpty == tick' = 0 /\ processes = {}

Due == tick' = 0 \/ processes = {}

Tick ==
  /\ thread = "waiting"
  /\ tick' = (tick + 1) % PROCESS_EVERY
  /\ \/ /\ Due
        /\ \E s \in SUBSET DOMAIN os : Enumerated(s) /\ left' = s
        /\ raw' = <<>>
        /\ thread' = "reading"
        /\ UNCHANGED age
     \/ /\ ~ Due
        /\ thread' = "judging"
        /\ age' = age + 1
        /\ UNCHANGED <<left, raw>>
  /\ UNCHANGED <<osvars, previous, primed, names, processes, engine, dockervars>>

(* image_name, GetProcessTimes: what is kept of a process is its path and  *)
(* the time it used, in the kernel and out of it.                          *)
RawProcess(p) == [path |-> os[p].path, total |-> os[p].total, used |-> used[p]]

(* read_process: none for one that has gone, and none for one that this    *)
(* user may not open.                                                      *)
ReadProcess(p) ==
  /\ thread = "reading"
  /\ p \in left
  /\ left' = left \ {p}
  /\ \/ /\ p \in DOMAIN os
        /\ raw' = With(raw, p, RawProcess(p))
     \/ UNCHANGED raw
  /\ used' = [used EXCEPT ![p] = 0]
  /\ UNCHANGED <<os, previous, primed, names, loopvars, engine, dockervars>>

(* Mutant of Credit: takes everything a new process has used so far.       *)
CreditFromTheStart(p, elapsed) ==
  IF elapsed = 0 THEN 0
  ELSE IF p \in DOMAIN previous
  THEN IF raw[p].total > previous[p] THEN raw[p].total - previous[p] ELSE 0
  ELSE raw[p].total

(* share_of_machine: nothing without a baseline; a count below the one     *)
(* before belongs to another process that has the id now.                  *)
Credit(p, elapsed) ==
  IF elapsed # 0 /\ p \in DOMAIN previous /\ raw[p].total > previous[p]
  THEN raw[p].total - previous[p] ELSE 0

(* translation: the first language that a version resource declares.       *)
Translation(resource) == Head(resource.languages)

(* file_description: what the version resource says of the program in that *)
(* language.  None without one, or without a text in the first, whatever   *)
(* the others have; a file that cannot be read, or has no resource, is one *)
(* that declares no language.                                              *)
FileDescription(resource) ==
  IF resource.languages # <<>> /\ Translation(resource) \in DOMAIN resource.texts
  THEN resource.texts[Translation(resource)] ELSE None

(* Asked for the paths that are new, and never again.                      *)
Named(cache) ==
  /\ cache \in [DOMAIN names \cup {raw[p].path : p \in DOMAIN raw} ->
                  {FileDescription(resource) : resource \in Resources}]
  /\ \A path \in DOMAIN names : cache[path] = names[path]

Baseline == previous' = [p \in DOMAIN raw |-> raw[p].total]

(* The rest of ProcessSampler::sample.  The clock may have gone back.      *)
FinishSample ==
  /\ thread = "reading"
  /\ left = {}
  /\ Named(names')
  /\ \E elapsed \in IF primed THEN {0, 1} ELSE {0} :
       processes' = { [pid |-> p, display_name |-> names'[raw[p].path],
                       credit |-> Credit(p, elapsed), used |-> raw[p].used] : p \in DOMAIN raw }
  /\ Baseline
  /\ primed' = TRUE
  /\ raw' = <<>>
  /\ age' = 0
  /\ thread' = "judging"
  /\ UNCHANGED <<osvars, left, tick, engine, dockervars>>

-----------------------------------------------------------------------------
(* The containers. *)

(* Mutant of Holding: locked before the engine is asked.                   *)
HoldingAllAlong == {"listing", "asking", "storing"}

(* The states of the Docker thread in which it has the list locked.        *)
Holding == {"storing"}

(* The reading is complete once the containers are copied; evaluate,       *)
(* classify, diagnose follow.                                              *)
Judge ==
  /\ thread = "judging"
  /\ docker \notin Holding
  /\ thread' = "waiting"
  /\ UNCHANGED <<osvars, sampler, tick, processes, age, engine, dockervars>>

Wake ==
  /\ docker = "sleeping"
  /\ docker' = "listing"
  /\ UNCHANGED <<osvars, sampler, loopvars, engine, asked, fresh, containers>>

(* What can come back of a reply that sends these entries: another status  *)
(* than 200; what had come when the connection or a chunk broke off, and   *)
(* of that the one it broke off in; and, unless it is empty, chunks of     *)
(* which one ends after the first or second byte of a longer character of  *)
(* a label, a command or a name.                                           *)
Answers(sent) ==
  { answer \in [ok : BOOLEAN, chunked : BOOLEAN, split : BOOLEAN,
                came : SUBSET sent, torn : SUBSET sent] :
      /\ answer.split => answer.chunked /\ sent # {}
      /\ answer.torn \subseteq answer.came /\ Cardinality(answer.torn) <= 1 }

(* get and body: nothing but of a 200.  The whole answer is decoded before *)
(* its chunks are told apart: half a character has become a replacement of *)
(* another length by then, and a chunk cut off at the length it was sent   *)
(* with is cut within that replacement, which panics.                      *)
Body(answer) == IF answer.ok THEN answer.came ELSE {}
Panics(answer) == answer.ok /\ answer.split

(* array_items: an entry is one when its last brace is there.              *)
Items(answer) == Body(answer) \ answer.torn

(* nested_u64: a field that the engine left out, or that did not come, is  *)
(* none, which counts as 0.                                                *)
Fields(reply) ==
  {[f \in DOMAIN reply |-> IF f \in came THEN reply[f] ELSE 0] : came \in SUBSET DOMAIN reply}

(* A panic unwinds the thread, which nothing starts again.                 *)
GoesOn(answer) == docker' = IF Panics(answer) THEN "ended" ELSE "asking"

(* get, of the list: no pipe, no 200, or too long, and it is empty.        *)
List ==
  /\ docker = "listing"
  /\ \E answer \in Answers(engine) :
       asked' = Items(answer) /\ GoesOn(answer)
  /\ fresh' = <<>>
  /\ UNCHANGED <<osvars, sampler, loopvars, engine, containers>>

(* docker::cpu_percent: the figures are cumulative, and 0 when there is no *)
(* baseline.                                                               *)
CPUPercent(r) ==
  IF r.pre_total = 0 \/ r.pre_system = 0 \/ r.system <= r.pre_system \/ r.total <= r.pre_total
  THEN 0
  ELSE IF r.total - r.pre_total > r.system - r.pre_system THEN 100
  ELSE ((r.total - r.pre_total) * 100) \div (r.system - r.pre_system)

NoStats == [memory |-> 0, limit |-> 0, cpu |-> 0]

(* One request for each: a container without an answer stays in the list.  *)
Ask(id) ==
  /\ docker = "asking"
  /\ id \in asked
  /\ asked' = asked \ {id}
  /\ \E answer \in Answers(engine \cap {id}) :
       /\ GoesOn(answer)
       /\ IF Body(answer) = {} THEN fresh' = With(fresh, id, NoStats)
          ELSE \E reply \in Replies : \E r \in Fields(reply) :
                 fresh' = With(fresh, id, [memory |-> r.memory, limit |-> r.limit,
                                           cpu |-> CPUPercent(r)])
  /\ UNCHANGED <<osvars, sampler, loopvars, engine, containers>>

Lock ==
  /\ docker = "asking"
  /\ asked = {}
  /\ docker' = "storing"
  /\ UNCHANGED <<osvars, sampler, loopvars, engine, asked, fresh, containers>>

(* Mutant of Kept: an empty answer is no reason to forget the last one.    *)
KeptUnlessEmpty == containers' = IF fresh = <<>> THEN containers ELSE fresh

Kept == containers' = fresh

Store ==
  /\ docker = "storing"
  /\ Kept
  /\ fresh' = <<>>
  /\ docker' = "sleeping"
  /\ UNCHANGED <<osvars, sampler, loopvars, engine, asked>>

-----------------------------------------------------------------------------
Init ==
  /\ os = <<>>
  /\ used = [p \in Pids |-> 0]
  /\ thread = "waiting" /\ tick = 0
  /\ left = {} /\ raw = <<>> /\ previous = <<>> /\ primed = FALSE /\ names = <<>>
  /\ processes = {} /\ age = 0
  /\ engine = {}
  /\ docker = "listing" /\ asked = {} /\ fresh = <<>> /\ containers = <<>>

Loop == Tick \/ (\E p \in Pids : ReadProcess(p)) \/ FinishSample \/ Judge

Engine == List \/ (\E id \in Ids : Ask(id))

Docker == Wake \/ Lock \/ Store

Machine == (\E p \in Pids : Start(p) \/ Run(p) \/ Exit(p)) \/ ContainersChange

Next == Loop \/ Engine \/ Docker \/ Machine

Spec == Init /\ [][Next]_vars

(* Both threads run, the one for the engine until it panics.  A request to *)
(* the engine has no timeout: its answer may never come.  A mutex that is  *)
(* free again and again is got.                                            *)
FairSpec == Spec /\ WF_vars(Loop) /\ SF_vars(Judge) /\ WF_vars(Docker)

-----------------------------------------------------------------------------
TypeOK ==
  /\ DOMAIN os \subseteq Pids /\ used \in [Pids -> 0 .. MaxCPU]
  /\ thread \in {"waiting", "reading", "judging"}
  /\ tick \in 0 .. PROCESS_EVERY - 1
  /\ left \subseteq Pids /\ DOMAIN raw \subseteq Pids \ left /\ DOMAIN previous \subseteq Pids
  /\ DOMAIN names \subseteq Paths
  /\ docker \in {"sleeping", "listing", "asking", "storing", "ended"}
  /\ asked \subseteq Ids

(* No process is credited with more than it used between the two samples,  *)
(* be it new, be its id that of another, or could the last sample not read *)
(* it: "using it as one would credit it with everything it has ever done". *)
NeverOvercredited == \A r \in processes : r.credit <= r.used

(* A list that findings are made from has never served longer than         *)
(* PROCESS_EVERY passes, and one that came back empty is not kept at all.  *)
NobodyIsNamedForLong ==
  /\ age < PROCESS_EVERY
  /\ processes = {} => age = 0

(* A wedged engine costs "a stale container list and nothing else": the    *)
(* passes go on, however long it takes to answer, and when the thread that *)
(* asks it has ended.                                                      *)
WedgedEngineStopsNothing == []<><<Judge>>_vars

(* When the engine has no containers any more, or is gone itself, the list *)
(* comes to be empty too, as long as the thread that asks goes on: unless  *)
(* a request never returns, or an answer to one has made the thread panic. *)
StoppedContainersAreForgotten ==
  <>[](engine = {}) /\ []<>(docker = "sleeping") => <>[](containers = <<>>)

(* What docker.rs promises: "Every failure here, from a missing pipe to    *)
(* malformed JSON, produces an empty list", whatever the answers, if only  *)
(* each request returns.  The thread that has ended leaves its last list   *)
(* behind for good.                                                        *)
EveryFailureIsAnEmptyList ==
  <>[](engine = {}) /\ []<>(docker \notin {"listing", "asking"}) => <>[](containers = <<>>)
=============================================================================
