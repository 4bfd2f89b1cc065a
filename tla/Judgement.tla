----------------------------- MODULE Judgement -----------------------------
(***************************************************************************)
(* The judging half of a pass of the sampling thread                       *)
(* (crates/loadbear-app/src/main.rs): from what the counters, the helper,  *)
(* the process list and the container engine gave to findings and to the   *)
(* assessment of this window.                                              *)
(*                                                                         *)
(* A machine is                                                            *)
(*   product   what it is,                                                 *)
(*   reported  the thread count that available_parallelism gives, which an *)
(*             affinity mask can make smaller than the product's,          *)
(*   db        the database it is looked up in,                            *)
(*   stated    the base clock in its brand string, if any.                 *)
(* The program knows the product's id and that count, never the product.   *)
(***************************************************************************)
EXTENDS Attribution, SequencesExt

CONSTANTS
  Machines,   \* the machines considered
  Figures,    \* machine -> field of a reading -> the values it takes
  MaxFigure   \* no published figure is larger (u32 in the code)

Fields == {"mhz", "nominal", "utilization", "watts", "temp", "tjmax",
           "stalledCpu", "stalledMemory", "stalledIo", "processes", "engine"}

IsProduct(p) ==
  /\ p.base \in 0 .. MaxFigure
  /\ p.tdp \in 0 .. MaxFigure
  /\ p.ctdpMin \subseteq 0 .. MaxFigure
  /\ p.ctdpMax \subseteq 0 .. MaxFigure
  /\ p.tjmax \subseteq 1 .. MaxFigure

(* An entry of the process list. *)
ProcessReadings ==
  [pid : Nat, name : STRING, spelling : STRING, display : SUBSET STRING, cpu : Nat, ws : Nat, faults : SUBSET Nat]

(* A brand string that states a base clock states the product's.  A limit  *)
(* that was read is at least MIN_PLAUSIBLE_TJMAX_C, a stall is clamped to a *)
(* percentage, and only that of the disk may be unknown (to_stall).  The   *)
(* utilization is a share of the window (CounterSample).                   *)
ASSUME JudgementAssumption ==
  /\ MaxFigure \in Nat
  /\ \A m \in Machines :
       /\ \A p \in {m.product} \cup m.db : IsProduct(p)
       /\ m.stated \subseteq {m.product.base}
       /\ m.reported \in Nat
       /\ DOMAIN Figures[m] = Fields
       /\ Figures[m]["nominal"] \subseteq Nat
       /\ \A f \in {"mhz", "watts", "temp", "tjmax"} :
            \A v \in Figures[m][f] : v \subseteq Nat
       /\ Figures[m]["utilization"] \subseteq Optional(0 .. 100)
       /\ \A v \in Figures[m]["tjmax"] : 0 \notin v
       /\ \A f \in {"stalledCpu", "stalledMemory"} :
            \A v \in Figures[m][f] : \E pct \in 0 .. 100 : v = {pct}
       /\ \A v \in Figures[m]["stalledIo"] : v \subseteq 0 .. 100
       /\ Figures[m]["processes"] \subseteq Seq(ProcessReadings)

VARIABLES
  machine,     \* constant
  sensed,      \* what the last pass was given
  findings,    \* verdict -> its answer, an Option
  assessment   \* classify's judgement of this window

vars == <<machine, sensed, findings, assessment>>

-----------------------------------------------------------------------------
(* The spec that the thread resolves when it begins. *)
SpecOf(m) == Resolve(m.db, m.product.id, m.reported)

(* A machine nobody has entered. *)
Unlisted(m) == SpecOf(m) = {}

CpuReading(m, s, spec) ==
  [mhz           |-> s.mhz,
   reportedBase  |-> ReportedBase(s.nominal, m.stated),
   utilization   |-> s.utilization,
   watts         |-> s.watts,
   temp          |-> s.temp,
   tjmax         |-> Or(s.tjmax, UNION {c.tjmax : c \in spec}),
   throttle      |-> FALSE]

Stall(s) == [Cpu |-> s.stalledCpu, Memory |-> s.stalledMemory, Io |-> s.stalledIo]

(* read_containers: statistics are asked for in one shot, without a        *)
(* baseline, and so the processor share is 0; an engine that does not      *)
(* answer for one container leaves its memory at 0 too.                    *)
ReadContainers(engine) ==
  [i \in DOMAIN engine |->
     [id |-> engine[i].id, cpu |-> 0,
      memory |-> IF engine[i].answers THEN engine[i].memory ELSE 0,
      limit  |-> IF engine[i].answers THEN engine[i].limit ELSE {}]]

Reading(m, s) ==
  [stall      |-> Stall(s),
   cpu        |-> CpuReading(m, s, SpecOf(m)),
   processes  |-> s.processes,
   containers |-> ReadContainers(s.engine)]

RunningRows == 14

(* is_docker_name: a name stands for those that begin with it, and those   *)
(* of "com.docker" are more than attribution knows.                        *)
IsDockerName(name) == IsDocker(name) \/ name = "com.docker.proxy"

Heavier(g, h, resource) ==
  \/ resource = "Cpu" /\ g.cpu > h.cpu
  \/ (resource = "Cpu" => g.cpu = h.cpu) /\ (g.ws > h.ws \/ (g.ws = h.ws /\ g.at < h.at))

(* running_list: the groups that are heaviest in the resource that the     *)
(* reason names, and under each that is Docker four containers.            *)
RunningList(reading, reason) ==
  LET resource == IF reason \in ToSet(Resources) THEN reason ELSE "Cpu"
      groups   == GroupByName(reading.processes)
      cs       == reading.containers
      listed   == {g \in groups :
                     Cardinality({h \in groups : Heavier(h, g, resource)}) < RunningRows}
      nested   == {i \in DOMAIN cs :
                     Cardinality({j \in DOMAIN cs :
                       LET here  == ContainerShare(cs[i], resource)
                           there == ContainerShare(cs[j], resource)
                       IN  there > here \/ (there = here /\ j < i)}) < 4}
  IN  {[of |-> g.name, container |-> "none",
        name |-> IF IsDockerName(g.name) THEN "Docker" ELSE g.title] : g \in listed}
      \cup {[of |-> g.name, container |-> cs[i].id, name |-> cs[i].id] :
              g \in {h \in listed : IsDockerName(h.name)}, i \in nested}

VerdictsOn(m, s, spec) == Evaluate(CpuReading(m, s, spec), spec)

FindingsOn(m, s) == Diagnose(Reading(m, s), VerdictsOn(m, s, SpecOf(m)))
AssessmentOn(m, s) == Classify(VerdictsOn(m, s, SpecOf(m)), Stall(s))

(* One pass over a reading in which one figure is another than before.  A  *)
(* judgement keeps nothing of the last one, so a pass that finds several   *)
(* changed is several of these, and the lists may be any from the          *)
(* beginning: every reading is reached.                                    *)
Judge ==
  \E f \in Fields \ {"processes", "engine"} : \E v \in Figures[machine][f] :
    /\ sensed' = [sensed EXCEPT ![f] = v]
    /\ findings' = FindingsOn(machine, sensed')
    /\ assessment' = AssessmentOn(machine, sensed')
    /\ UNCHANGED machine

(* The first pass finds anything. *)
Init ==
  /\ machine \in Machines
  /\ LET F == Figures[machine] IN
     sensed \in [mhz : F["mhz"], nominal : F["nominal"],
                 utilization : F["utilization"], watts : F["watts"],
                 temp : F["temp"], tjmax : F["tjmax"],
                 stalledCpu : F["stalledCpu"],
                 stalledMemory : F["stalledMemory"],
                 stalledIo : F["stalledIo"],
                 processes : F["processes"], engine : F["engine"]]
  /\ findings = FindingsOn(machine, sensed)
  /\ assessment = AssessmentOn(machine, sensed)

Next == Judge
Spec == Init /\ [][Next]_vars

-----------------------------------------------------------------------------
(* Every candidate publishes the figure that the verdict rests on.  Where  *)
(* only some do, the merge is not a bound on the others.                   *)
Comparable(kind, cs) ==
  /\ kind = "ThermalHeadroomLow" => \A c, d \in cs : c.tjmax = {} => d.tjmax = {}
  /\ kind = "PowerOutsideBand"   => \A c \in cs : c.ctdpMax # {}
  /\ kind = "PowerBelowRating"   => \A c, d \in cs : c.ctdpMin = {} => d.ctdpMin = {}

HeldToOwnFigures ==
  \A k \in DOMAIN findings :
    Comparable(k, Candidates(machine.db, machine.product.id, machine.reported))
      => k \in VerdictsOn(machine, sensed, {machine.product})

(* The count is the product's, or the count of no entry that shares its    *)
(* id ("a hidden processor count still resolves").                         *)
CountIsNoOthers ==
  \A e \in machine.db :
    e.id = machine.product.id /\ e.threads = machine.reported
      => machine.product.threads = machine.reported

(* A machine in the database is never held to another model's figures: a   *)
(* verdict that the resolved spec yields, the machine's own model yields   *)
(* too, also where processors are hidden from the program, unless their    *)
(* number is then a sibling's (SpecDb::resolve, evaluate).                 *)
HeldToItsOwn ==
  machine.product \in machine.db /\ CountIsNoOthers => HeldToOwnFigures

(* The same whatever the system reports, which is what the doc of resolve  *)
(* says: never a confident wrong answer.                                   *)
HeldWhateverIsReported ==
  machine.product \in machine.db => HeldToOwnFigures

(* And one that is not in it is called slow against the base clock that    *)
(* its brand states, whatever the system calls nominal                     *)
(* (reported_base_mhz).                                                    *)
HeldToItsBrand ==
  /\ Unlisted(machine)
  /\ machine.stated \cap PlausibleBaseMHz # {}
  /\ "BelowBaseClock" \in DOMAIN findings
  => \E m \in sensed.mhz : m < machine.product.base + BaseAgreementMHz

(* The same without the restriction, which is what the doc of conservative *)
(* says: nothing is reported out of spec unless it is so for every product *)
(* the machine could be.                                                   *)
HeldToNoOther ==
  machine.product \in machine.db =>
    \A k \in DOMAIN findings :
      k \in VerdictsOn(machine, sensed, {machine.product})

(* t is as bad as s in every respect, and nothing else differs. *)
AtLeastAsBad(s, t) ==
  LET AtMost(a, b)  == \A x \in a : \E y \in b : x <= y
      AtLeast(a, b) == \A x \in a : \E y \in b : x >= y
  IN  /\ AtLeast(s.mhz, t.mhz)
      /\ \A f \in {"utilization", "temp", "stalledCpu", "stalledMemory",
                   "stalledIo"} : AtMost(s[f], t[f])
      /\ \A f \in {"nominal", "watts", "tjmax", "processes", "engine"} : s[f] = t[f]

(* A machine that gets worse (slower, hotter, busier, more stalled) is     *)
(* never shown as doing better: no verdict masks a stall, no stall a       *)
(* verdict (evaluate, classify).                                           *)
WorseNeverLooksBetter ==
  [][AtLeastAsBad(sensed, sensed') => assessment'.tier >= assessment.tier]_vars

(* A tier above Easy has a reason that accounts for it: a finding on the   *)
(* list as severe as the tier, or the most stalled resource where no       *)
(* finding is as severe (classify, diagnose).                              *)
AlarmIsExplained ==
  \/ assessment.tier = Easy /\ DOMAIN findings = {}
  \/ /\ assessment.reason \in DOMAIN findings
     /\ TierOf(assessment.reason) = assessment.tier
     /\ FromStall(Stall(sensed)) <= assessment.tier
  \/ /\ assessment.reason \in DOMAIN Stall(sensed)
     /\ WorstLevel(Stall(sensed)) \in Stall(sensed)[assessment.reason]
     /\ FromStall(Stall(sensed)) = assessment.tier
     /\ \A k \in DOMAIN findings : TierOf(k) < assessment.tier

(* The package's tile is red exactly when there is a finding about it      *)
(* (thermal_band, evaluate).                                               *)
RedTileIsAFinding ==
  LET limit == CpuReading(machine, sensed, SpecOf(machine)).tjmax IN
  (\E t \in sensed.temp : "AtLimit" \in ThermalBand(t, limit))
    <=> "ThermalHeadroomLow" \in DOMAIN findings

(* The names that a person may read for a program. *)
Titles(ps, n) ==
  LET called == UNION {ps[i].display : i \in Members(ps, n)} IN
  IF called # {} THEN called ELSE {ps[i].spelling : i \in Members(ps, n)}

(* A label, or any of the program's where it is one of those. *)
Called(ps, label, n) == IF label \in Titles(ps, n) THEN Titles(ps, n) ELSE {label}

(* What is said, but for the process id that stands for a group. *)
Said(fs, ps) ==
  [k \in DOMAIN fs |->
     {<<a.of, a.kind, Called(ps, a.label, a.of), a.remediation, a.count>> : a \in fs[k]}]

SaidOf(ps) == Said(FindingsOn(machine, [sensed EXCEPT !.processes = ps]), ps)

(* Two neighbours on the process list may change places: which program is  *)
(* named, how many processes it has and what to do about it do not depend  *)
(* on the order in which Windows lists processes; and only where members   *)
(* of a program go by several names does that order choose among them (the *)
(* sorts in cpu_leader, memory_leader, io_leader; group_by_name).          *)
OrderDoesNotMatter ==
  LET ps == sensed.processes IN
  \A i \in 1 .. Len(ps) - 1 :
    SaidOf([ps EXCEPT ![i] = ps[i + 1], ![i + 1] = ps[i]])
      = Said(findings, ps)

(* What is named for processor load is at least half as large as anything  *)
(* that could be hidden: the coverage and share thresholds work together   *)
(* (cpu_leader).                                                           *)
NamedIsHalfTheUnseen ==
  LET ps == sensed.processes IN
  ResourceFor(Reading(machine, sensed)) = "Cpu" =>
    \A k \in DOMAIN findings \ {"PowerBelowRating"} : \A a \in findings[k] :
      \A u \in sensed.utilization :
        2 * SumOf([i \in Members(ps, a.of) |-> ps[i].cpu]) >= u - Observed(ps)

(* A container that is named uses more of the resource, as far as was      *)
(* measured, than every other (resolve_container).                         *)
ContainerWasIdentified ==
  LET r  == Reading(machine, sensed)
      cs == r.containers
  IN  \A k \in DOMAIN findings : \A a \in findings[k] :
        a.kind = "Container" =>
          \E i \in DOMAIN cs :
            /\ cs[i].id = a.id
            /\ \A j \in DOMAIN cs \ {i} :
                 ContainerShare(cs[i], ResourceFor(r)) > ContainerShare(cs[j], ResourceFor(r))

(* "A row that expands into containers and a cause that resolves to one    *)
(* have to agree about what counts as Docker" (is_docker_name): where      *)
(* there are containers, a program has rows of them if and only if they    *)
(* answer for it (attribute).                                              *)
RowsAgreeWithCauses ==
  LET r  == Reading(machine, sensed)
      ps == r.processes
  IN  r.containers # <<>> =>
        \A i \in DOMAIN ps :
          (\E row \in RunningList(r, assessment.reason) :
             row.of = ps[i].name /\ row.container # "none") <=> IsDocker(ps[i].name)
=============================================================================
