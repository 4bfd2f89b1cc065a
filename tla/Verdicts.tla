------------------------------ MODULE Verdicts ------------------------------
(***************************************************************************)
(* crates/loadbear-core/src/verdict.rs and classify of tier.rs: from a     *)
(* reading to verdicts, and from verdicts and stall to a tier.             *)
(*                                                                         *)
(* A cpu reading is a record of Options: mhz, utilization, reportedBase,   *)
(* watts, temp, tjmax; and throttle.  Figures are whole numbers: MHz, per  *)
(* cent, watts, degrees.  Stall is a function from resource to an Option   *)
(* of a percentage.                                                        *)
(***************************************************************************)
EXTENDS SpecResolve, Sequences

(* In the order in which evaluate pushes them. *)
Kinds == << "Throttling", "ThermalHeadroomLow", "BelowBaseClock",
            "PowerOutsideBand", "PowerBelowRating" >>
KindSet == {Kinds[i] : i \in DOMAIN Kinds}

ThermalHeadroomLowC      == 5
HeadroomWarmC            == 15
HeadroomNormalC          == 25
MinUtilizationForBasePct == 80

(* thermal_band: {} where the part publishes no limit *)
ThermalBand(celsius, tjmax) ==
  {LET headroom == l - celsius IN
     CASE headroom > HeadroomNormalC     -> "Normal"
       [] headroom \in HeadroomWarmC + 1 .. HeadroomNormalC     -> "Warm"
       [] headroom \in ThermalHeadroomLowC + 1 .. HeadroomWarmC -> "Hot"
       [] headroom <= ThermalHeadroomLowC -> "AtLimit"
   : l \in {x \in tjmax : x > 0}}

(* Mutant of HeadroomIsLow: fires one degree after the tile turns red. *)
HeadroomIsLowStrictly(cpu) ==
  \E t \in cpu.temp, l \in cpu.tjmax : l - t < ThermalHeadroomLowC

HeadroomIsLow(cpu) ==
  \E t \in cpu.temp, l \in cpu.tjmax : l - t <= ThermalHeadroomLowC

UnderDemand(cpu) == \E u \in cpu.utilization : u >= MinUtilizationForBasePct

(* The published base first, the machine's own second. *)
Base(cpu, spec) == Or({s.base : s \in spec}, cpu.reportedBase)

ClockIsLow(cpu, spec) ==
  /\ UnderDemand(cpu)
  /\ \E m \in cpu.mhz, b \in Base(cpu, spec) : m < b

Ceiling(s) == Or(s.ctdpMax, {s.tdp})
Floor(s)   == Or(s.ctdpMin, {s.tdp})

PowerIsHigh(cpu, spec) ==
  \E w \in cpu.watts, s \in spec : \E c \in Ceiling(s) : w > c

PowerIsLow(cpu, spec) ==
  /\ UnderDemand(cpu)
  /\ \E w \in cpu.watts, s \in spec : \E f \in Floor(s) : w < f

(* evaluate, as the set of the kinds it pushes *)
Evaluate(cpu, spec) ==
  {k \in KindSet :
     \/ k = "Throttling"         /\ cpu.throttle
     \/ k = "ThermalHeadroomLow" /\ HeadroomIsLow(cpu)
     \/ k = "BelowBaseClock"     /\ ClockIsLow(cpu, spec)
     \/ k = "PowerOutsideBand"   /\ PowerIsHigh(cpu, spec)
     \/ k = "PowerBelowRating"   /\ PowerIsLow(cpu, spec)}

-----------------------------------------------------------------------------
Easy     == 0
Braced   == 1
Strained == 2

StallBracedPct   == 40
StallStrainedPct == 80

(* Ties go to the one that comes first. *)
Resources == <<"Cpu", "Memory", "Io">>

WorstLevel(stall) == Max(UNION {stall[r] : r \in DOMAIN stall})
WorstResource(stall) ==
  Resources[Min({i \in DOMAIN Resources :
                   WorstLevel(stall) \in stall[Resources[i]]})]

(* Severity of a kind, as the tier that classify makes of it *)
TierOf(kind) ==
  IF kind \in {"Throttling", "BelowBaseClock"} THEN Strained ELSE Braced

FromVerdicts(verdicts) == Max({Easy} \cup {TierOf(k) : k \in verdicts})

(* max_by_key returns the last of several that are equally severe. *)
WorstVerdict(verdicts) ==
  Kinds[Max({i \in DOMAIN Kinds : /\ Kinds[i] \in verdicts
                                  /\ TierOf(Kinds[i]) = FromVerdicts(verdicts)})]

FromStall(stall) ==
  CASE WorstLevel(stall) >= StallStrainedPct -> Strained
    [] WorstLevel(stall) \in StallBracedPct .. StallStrainedPct - 1 -> Braced
    [] WorstLevel(stall) < StallBracedPct -> Easy

(* Mutant of Classify: a verdict, when there is one, has the last word. *)
ClassifyVerdictFirst(verdicts, stall) ==
  IF verdicts # {}
  THEN [tier |-> FromVerdicts(verdicts), reason |-> WorstVerdict(verdicts)]
  ELSE IF FromStall(stall) > Easy
  THEN [tier |-> FromStall(stall), reason |-> WorstResource(stall)]
  ELSE [tier |-> Easy, reason |-> "Clear"]

(* Mutant of Classify: names the stall whenever anything is stalled. *)
ClassifyStallNamed(verdicts, stall) ==
  LET tier == Max({FromVerdicts(verdicts), FromStall(stall)}) IN
  [tier   |-> tier,
   reason |-> CASE tier = Easy -> "Clear"
                [] tier > Easy /\ FromStall(stall) > Easy -> WorstResource(stall)
                [] tier > Easy /\ FromStall(stall) = Easy -> WorstVerdict(verdicts)]

(* classify: the worse of the two, a verdict before a stall *)
Classify(verdicts, stall) ==
  IF FromVerdicts(verdicts) >= FromStall(stall)
  THEN [tier   |-> FromVerdicts(verdicts),
        reason |-> IF verdicts = {} THEN "Clear" ELSE WorstVerdict(verdicts)]
  ELSE [tier |-> FromStall(stall), reason |-> WorstResource(stall)]
=============================================================================
