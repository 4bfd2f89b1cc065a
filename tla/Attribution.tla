---------------------------- MODULE Attribution ----------------------------
(***************************************************************************)
(* crates/loadbear-core/src/attribution.rs: naming what is responsible.    *)
(*                                                                         *)
(* A process is [pid, name, spelling, display, cpu, ws, faults]: its name  *)
(* in lower case and as it is spelled, an Option of the name a person      *)
(* would call it, its share of the machine in per cent, its working set,   *)
(* and an Option of its hard fault rate.  A container is [id, cpu, memory, *)
(* limit], limit an Option.  An answer is the cause and remediation of a   *)
(* finding.                                                                *)
(*                                                                         *)
(* What the code sorts is a set of entries here, with the place at which   *)
(* each stood before: sort_by is stable.                                   *)
(***************************************************************************)
EXTENDS Verdicts

MinCpuSharePct    == 20
MinMemorySharePct == 30
MinCoveragePct    == 60

(* A share is 1.5 times another, in whole numbers.  Nobody is dominated   *)
(* who does nothing.                                                       *)
Dominates(share, other) == other > 0 => 2 * share >= 3 * other

SumOf(f) == SumFunction(f)

(* Mutant of Leader: the first of the list, however close the second. *)
LeaderRegardless(entries) ==
  {e \in entries : \A o \in entries \ {e} :
     o.share < e.share \/ (o.share = e.share /\ e.at < o.at)}

(* The first entry after sorting, unless the second is too close. *)
Leader(entries) ==
  {e \in entries : \A o \in entries \ {e} :
     /\ o.share < e.share \/ (o.share = e.share /\ e.at < o.at)
     /\ Dominates(e.share, o.share)}

-----------------------------------------------------------------------------
Members(ps, name) == {i \in DOMAIN ps : ps[i].name = name}

(* The member whose pid the group carries: the last that, when it joined,  *)
(* was larger than the average of the members so far, itself included.     *)
Representative(ps, name) ==
  LET m        == Members(ps, name)
      upTo(i)  == {j \in m : j <= i}
      wsOf     == [j \in m |-> ps[j].ws]
  IN  Max({i \in m : \/ i = Min(m)
                     \/ ps[i].ws > SumFunctionOnSet(wsOf, upTo(i))
                                     \div Cardinality(upTo(i))})

(* Option::unwrap *)
The(option) == CHOOSE x \in option : TRUE

(* What a person reads: the first name that a member would be called by,   *)
(* or else the name as the first member spells it (label).                 *)
Title(ps, name) ==
  LET m      == Members(ps, name)
      called == {i \in m : ps[i].display # {}}
  IN  IF called = {} THEN ps[Min(m)].spelling ELSE The(ps[Min(called)].display)

(* group_by_name, at being the place of a group's first member *)
GroupByName(ps) ==
  {[at |-> Min(Members(ps, n)), pid |-> ps[Representative(ps, n)].pid,
    name |-> n, title |-> Title(ps, n), count |-> Cardinality(Members(ps, n)),
    cpu |-> SumOf([i \in Members(ps, n) |-> ps[i].cpu]),
    ws  |-> SumOf([i \in Members(ps, n) |-> ps[i].ws])]
   : n \in {ps[i].name : i \in DOMAIN ps}}

WithShare(g, share) ==
  [at |-> g.at, share |-> share, pid |-> g.pid, name |-> g.name,
   title |-> g.title, count |-> g.count]

Observed(ps) == SumOf([i \in DOMAIN ps |-> ps[i].cpu])

(* Mutant of Covers: does not ask. *)
CoversAnyhow(ps, utilization) == utilization # {}

(* cpu_coverage is known and at least MIN_COVERAGE. *)
Covers(ps, utilization) ==
  \E u \in utilization : 100 * Observed(ps) >= MinCoveragePct * u

CpuLeader(reading) ==
  {g \in Leader({WithShare(g, g.cpu) : g \in GroupByName(reading.processes)}) :
     /\ Covers(reading.processes, reading.cpu.utilization)
     /\ g.share >= MinCpuSharePct}

MemoryLeader(reading) ==
  LET total == SumOf([i \in DOMAIN reading.processes |-> reading.processes[i].ws])
  IN  {g \in Leader({WithShare(g, g.ws) : g \in GroupByName(reading.processes)}) :
         total > 0 /\ 100 * g.share >= MinMemorySharePct * total}

(* By process, not by group, of those whose fault rate is known. *)
IoLeader(reading) ==
  LET ps == reading.processes IN
  {p \in Leader(UNION {{[at |-> i, share |-> rate, pid |-> ps[i].pid,
                        name |-> ps[i].name, title |-> The(Or(ps[i].display, {ps[i].spelling})),
                        count |-> 1] : rate \in ps[i].faults}
                      : i \in DOMAIN ps}) :
     p.share > 0}

-----------------------------------------------------------------------------
(* A name stands for those that begin with it. *)
DockerProcesses ==
  {"vmmem", "vmmemwsl", "vmmemdocker", "docker desktop", "com.docker.backend"}

IsDocker(name) == name \in DockerProcesses

Scanners == {"msmpeng", "antimalware service executable"}
Indexers == {"searchindexer", "searchprotocolhost", "tiworker", "trustedinstaller"}

SystemRemediation ==
  [n \in Scanners \cup Indexers |-> IF n \in Scanners THEN "AddExclusion" ELSE "Defer"]

(* Ranked by memory when the pressure is I/O. *)
ContainerShare(c, resource) == IF resource = "Cpu" THEN c.cpu ELSE c.memory

ResolveContainer(containers, resource) ==
  {containers[e.at] :
     e \in Leader({[at |-> i, share |-> ContainerShare(containers[i], resource)]
                   : i \in DOMAIN containers})}

ContainerRemediation(c) ==
  IF \E l \in c.limit : l > 0 /\ 100 * c.memory >= 95 * l
  THEN "ReconfigureLimit" ELSE "Stop"

(* of is the program on the list that led to the answer: the code follows  *)
(* it no further than here.                                                *)
Answer(of, kind, label, count, id, remediation) ==
  [of |-> of, kind |-> kind, label |-> label, count |-> count, id |-> id,
   remediation |-> remediation]

(* What is said of Docker: one of its containers, or Docker as a whole. *)
DockerAnswers(g, containers, resource) ==
  Or({Answer(g.name, "Container", c.id, 1, c.id, ContainerRemediation(c)) :
        c \in ResolveContainer(containers, resource)},
     {Answer(g.name, "Process", "Docker", 1, g.pid, "ReconfigureLimit")})

(* attribute *)
Attribute(reading, resource) ==
  UNION {CASE IsDocker(g.name) ->
                DockerAnswers(g, reading.containers, resource)
           [] g.name \in DOMAIN SystemRemediation ->
                {Answer(g.name, "SystemService", g.title, g.count, "none",
                        SystemRemediation[g.name])}
           [] ~ IsDocker(g.name) /\ g.name \notin DOMAIN SystemRemediation ->
                {Answer(g.name, "Process", g.title, g.count, g.pid, "Stop")}
         : g \in CASE resource = "Cpu"    -> CpuLeader(reading)
                   [] resource = "Memory" -> MemoryLeader(reading)
                   [] resource = "Io"     -> IoLeader(reading)}

(* resource_for, of the verdicts that diagnose asks it about *)
ResourceFor(reading) ==
  IF WorstLevel(reading.stall) >= StallBracedPct
  THEN WorstResource(reading.stall) ELSE "Cpu"

(* diagnose: for every verdict an answer, or none *)
Diagnose(reading, verdicts) ==
  [k \in verdicts |->
     IF k = "PowerBelowRating"
     THEN {Answer("none", "PowerState", "power supply", 1, "none", "ChangePowerState")}
     ELSE Attribute(reading, ResourceFor(reading))]
=============================================================================
