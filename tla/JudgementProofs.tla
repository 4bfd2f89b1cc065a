-------------------------- MODULE JudgementProofs --------------------------
(***************************************************************************)
(* What a machine is held to, what its tier and its tile say, and whom a   *)
(* finding blames, for every database, machine and reading.                *)
(***************************************************************************)
EXTENDS Judgement, NaturalFacts

(* Iterator::min of figures is one of them and a lower bound. *)
LEMMA MinIsLeast ==
  ASSUME NEW S \in SUBSET Nat, S # {}
  PROVE  Min(S) \in S /\ \A x \in S : Min(S) <= x
<1>1. \E m \in S : \A x \in S : m <= x
  BY LeastExists
<1> QED
  BY <1>1 DEF Min

(* Iterator::max of figures is one of them and an upper bound. *)
LEMMA MaxIsGreatest ==
  ASSUME NEW n \in Nat, NEW S \in SUBSET (0 .. n), S # {}
  PROVE  Max(S) \in S /\ \A x \in S : x <= Max(S)
<1>1. \E m \in S : \A x \in S : x <= m
  <2>1. S \in SUBSET Nat /\ \A x \in S : x <= n
    OBVIOUS
  <2> QED
    BY <2>1, GreatestExists
<1>2. \E m \in S : \A x \in S : m >= x
  BY <1>1
<1> QED
  BY <1>2 DEF Max

-----------------------------------------------------------------------------
(* The merge claims no more than any candidate: conservative. *)
LEMMA ConservativeIsWeakest ==
  ASSUME MaxFigure \in Nat,
         NEW cs, \A c \in cs : IsProduct(c), NEW p \in cs
  PROVE  LET s == Conservative(cs) IN
         /\ s.base \in Nat /\ s.base <= p.base
         /\ s.tdp \in Nat /\ s.tdp <= p.tdp
         /\ \A x \in p.ctdpMin : \A y \in s.ctdpMin : y \in Nat /\ y <= x
         /\ \A x \in p.ctdpMax : \A y \in s.ctdpMax : y \in Nat /\ x <= y
         /\ \A x \in p.tjmax : \A y \in s.tjmax : y \in Nat /\ x <= y
<1> DEFINE low    == UNION {c.ctdpMin : c \in cs}
           high   == UNION {c.ctdpMax : c \in cs}
           limits == UNION {c.tjmax : c \in cs}
           s      == Conservative(cs)
<1>1. s.base \in Nat /\ s.base <= p.base
  <2>1. {c.base : c \in cs} \in SUBSET Nat /\ p.base \in {c.base : c \in cs}
    BY DEF IsProduct
  <2> QED
    BY <2>1, MinIsLeast DEF Conservative
<1>2. s.tdp \in Nat /\ s.tdp <= p.tdp
  <2>1. {c.tdp : c \in cs} \in SUBSET Nat /\ p.tdp \in {c.tdp : c \in cs}
    BY DEF IsProduct
  <2> QED
    BY <2>1, MinIsLeast DEF Conservative
<1>3. \A x \in p.ctdpMin : \A y \in s.ctdpMin : y \in Nat /\ y <= x
  <2>1. low \in SUBSET Nat /\ p.ctdpMin \subseteq low
    BY DEF IsProduct
  <2>2. s.ctdpMin = Lowest(low)
    BY DEF Conservative
  <2>3. ASSUME low # {} PROVE Lowest(low) = {Min(low)}
    BY <2>3 DEF Lowest
  <2> HIDE DEF low, s
  <2>4. ASSUME low # {} PROVE Min(low) \in low /\ \A x \in low : Min(low) <= x
    BY <2>1, <2>4, MinIsLeast
  <2>5. ASSUME NEW x \in p.ctdpMin, NEW y \in s.ctdpMin
        PROVE  y \in Nat /\ y <= x
    <3>1. low # {} /\ x \in low
      BY <2>1, <2>5
    <3>2. y = Min(low)
      BY <2>2, <2>3, <3>1, <2>5
    <3> QED
      BY <3>1, <3>2, <2>1, <2>4
  <2> QED
    BY <2>5
<1>4. \A x \in p.ctdpMax : \A y \in s.ctdpMax : y \in Nat /\ x <= y
  <2>1. high \in SUBSET (0 .. MaxFigure) /\ p.ctdpMax \subseteq high
    BY DEF IsProduct
  <2>2. s.ctdpMax = Highest(high)
    BY DEF Conservative
  <2>3. ASSUME high # {} PROVE Highest(high) = {Max(high)}
    BY <2>3 DEF Highest
  <2> HIDE DEF high, s
  <2>4. ASSUME high # {} PROVE Max(high) \in high /\ \A x \in high : x <= Max(high)
    BY <2>1, <2>4, MaxIsGreatest
  <2>5. ASSUME NEW x \in p.ctdpMax, NEW y \in s.ctdpMax
        PROVE  y \in Nat /\ x <= y
    <3>1. high # {} /\ x \in high
      BY <2>1, <2>5
    <3>2. y = Max(high)
      BY <2>2, <2>3, <3>1, <2>5
    <3>3. y \in high /\ x <= y
      BY <3>1, <3>2, <2>4
    <3>4. \A z \in 0 .. MaxFigure : z \in Nat
      OBVIOUS
    <3> QED
      BY <3>3, <3>4, <2>1
  <2> QED
    BY <2>5
<1>5. \A x \in p.tjmax : \A y \in s.tjmax : y \in Nat /\ x <= y
  <2>1. limits \in SUBSET (0 .. MaxFigure) /\ p.tjmax \subseteq limits
    BY DEF IsProduct
  <2>2. s.tjmax = Highest(limits)
    BY DEF Conservative
  <2>3. ASSUME limits # {} PROVE Highest(limits) = {Max(limits)}
    BY <2>3 DEF Highest
  <2> HIDE DEF limits, s
  <2>4. ASSUME limits # {} PROVE Max(limits) \in limits /\ \A x \in limits : x <= Max(limits)
    BY <2>1, <2>4, MaxIsGreatest
  <2>5. ASSUME NEW x \in p.tjmax, NEW y \in s.tjmax
        PROVE  y \in Nat /\ x <= y
    <3>1. limits # {} /\ x \in limits
      BY <2>1, <2>5
    <3>2. y = Max(limits)
      BY <2>2, <2>3, <3>1, <2>5
    <3>3. y \in limits /\ x <= y
      BY <3>1, <3>2, <2>4
    <3>4. \A z \in 0 .. MaxFigure : z \in Nat
      OBVIOUS
    <3> QED
      BY <3>3, <3>4, <2>1
  <2> QED
    BY <2>5
<1> HIDE DEF s
<1> QED
  BY <1>1, <1>2, <1>3, <1>4, <1>5 DEF s

(* What no candidate publishes, the merge does not claim. *)
LEMMA ConservativeInventsNothing ==
  ASSUME NEW cs
  PROVE  LET s == Conservative(cs) IN
         /\ (\A c \in cs : c.ctdpMin = {}) => s.ctdpMin = {}
         /\ (\A c \in cs : c.tjmax = {}) => s.tjmax = {}
<1>1. (\A c \in cs : c.ctdpMin = {}) => UNION {c.ctdpMin : c \in cs} = {}
  OBVIOUS
<1>2. (\A c \in cs : c.tjmax = {}) => UNION {c.tjmax : c \in cs} = {}
  OBVIOUS
<1> QED
  BY <1>1, <1>2 DEF Conservative, Lowest, Highest

(* What some candidate publishes, the merge has a figure for. *)
LEMMA ConservativeForgetsNothing ==
  ASSUME NEW cs, NEW p \in cs
  PROVE  LET s == Conservative(cs) IN
         /\ p.ctdpMin # {} => s.ctdpMin # {}
         /\ p.ctdpMax # {} => s.ctdpMax # {}
<1>1. p.ctdpMin # {} => UNION {c.ctdpMin : c \in cs} # {}
  OBVIOUS
<1>2. p.ctdpMax # {} => UNION {c.ctdpMax : c \in cs} # {}
  OBVIOUS
<1> QED
  BY <1>1, <1>2 DEF Conservative, Lowest, Highest

-----------------------------------------------------------------------------
(* The kinds, in the order of evaluate. *)
LEMMA KindFacts ==
  /\ DOMAIN Kinds = 1 .. 5
  /\ KindSet = {"Throttling", "ThermalHeadroomLow", "BelowBaseClock",
                "PowerOutsideBand", "PowerBelowRating"}
  /\ \A k \in KindSet : \E i \in 1 .. 5 : Kinds[i] = k
<1>1. DOMAIN Kinds = 1 .. 5
  BY DEF Kinds
<1>2. /\ Kinds[1] = "Throttling" /\ Kinds[2] = "ThermalHeadroomLow"
      /\ Kinds[3] = "BelowBaseClock" /\ Kinds[4] = "PowerOutsideBand"
      /\ Kinds[5] = "PowerBelowRating"
  BY DEF Kinds
<1>3. 1 .. 5 = {1, 2, 3, 4, 5}
  OBVIOUS
<1>4. KindSet = {Kinds[1], Kinds[2], Kinds[3], Kinds[4], Kinds[5]}
  BY <1>1, <1>3 DEF KindSet
<1>5. \A k \in KindSet : \E i \in 1 .. 5 : Kinds[i] = k
  BY <1>1 DEF KindSet
<1> QED
  BY <1>1, <1>2, <1>4, <1>5

(* What classify makes of the verdicts is the severity of the worst. *)
LEMMA FromVerdictsIsWorst ==
  ASSUME NEW V \in SUBSET KindSet
  PROVE  /\ FromVerdicts(V) \in Easy .. Strained
         /\ \A k \in V : Braced <= TierOf(k) /\ TierOf(k) <= FromVerdicts(V)
         /\ V = {} => FromVerdicts(V) = Easy
         /\ V # {} => \E k \in V : TierOf(k) = FromVerdicts(V)
<1> DEFINE T == {Easy} \cup {TierOf(k) : k \in V}
<1>1. T \in SUBSET (0 .. 2) /\ T # {} /\ \A k \in V : TierOf(k) \in {1, 2}
  BY DEF TierOf, Easy, Braced, Strained
<1>2. FromVerdicts(V) = Max(T)
  BY DEF FromVerdicts
<1> HIDE DEF T
<1>3. Max(T) \in T /\ \A x \in T : x <= Max(T)
  BY <1>1, MaxIsGreatest
<1>4. \A k \in V : TierOf(k) <= FromVerdicts(V) /\ Braced <= TierOf(k)
  BY <1>1, <1>2, <1>3 DEF T, Braced
<1>5. FromVerdicts(V) \in 0 .. 2
  BY <1>1, <1>2, <1>3
<1>6. FromVerdicts(V) = Easy \/ \E k \in V : TierOf(k) = FromVerdicts(V)
  BY <1>2, <1>3 DEF T
<1>7. V # {} => FromVerdicts(V) # Easy
  BY <1>1, <1>4, <1>5 DEF Easy
<1> QED
  BY <1>4, <1>5, <1>6, <1>7 DEF Easy, Strained

(* The verdict that is named is one of them, and as severe as the worst. *)
LEMMA WorstVerdictIsWorst ==
  ASSUME NEW V \in SUBSET KindSet, V # {}
  PROVE  WorstVerdict(V) \in V /\ TierOf(WorstVerdict(V)) = FromVerdicts(V)
<1> DEFINE at == {i \in DOMAIN Kinds : /\ Kinds[i] \in V
                                       /\ TierOf(Kinds[i]) = FromVerdicts(V)}
<1>1. PICK k \in V : TierOf(k) = FromVerdicts(V)
  BY FromVerdictsIsWorst
<1>2. PICK i \in 1 .. 5 : Kinds[i] = k
  BY <1>1, KindFacts
<1>3. i \in at /\ at \in SUBSET (0 .. 5)
  BY <1>1, <1>2, KindFacts
<1>4. Max(at) \in at
  BY <1>3, MaxIsGreatest
<1>5. WorstVerdict(V) = Kinds[Max(at)]
  BY DEF WorstVerdict
<1> QED
  BY <1>4, <1>5

(* What to_stall gives: the processor and memory always, the disk perhaps. *)
IsStall(st) ==
  /\ DOMAIN st = {"Cpu", "Memory", "Io"}
  /\ \A r \in {"Cpu", "Memory", "Io"} : st[r] \subseteq 0 .. 100
  /\ st["Cpu"] # {}

(* worst: the level of the resource under the most pressure. *)
LEMMA WorstLevelIsWorst ==
  ASSUME NEW st, IsStall(st)
  PROVE  /\ WorstLevel(st) \in 0 .. 100
         /\ \A r \in DOMAIN st : \A x \in st[r] : x <= WorstLevel(st)
         /\ \E r \in DOMAIN st : WorstLevel(st) \in st[r]
<1> DEFINE L == UNION {st[r] : r \in DOMAIN st}
<1>1. L \in SUBSET (0 .. 100) /\ L # {} /\ \A r \in DOMAIN st : st[r] \subseteq L
  BY DEF IsStall
<1>2. WorstLevel(st) = Max(L) /\ \A x \in L : \E r \in DOMAIN st : x \in st[r]
  BY DEF WorstLevel
<1> HIDE DEF L
<1>3. Max(L) \in L /\ \A x \in L : x <= Max(L)
  BY <1>1, MaxIsGreatest
<1> QED
  BY <1>1, <1>2, <1>3

LEMMA WorstResourceIsWorst ==
  ASSUME NEW st, IsStall(st)
  PROVE  WorstResource(st) \in DOMAIN st /\ WorstLevel(st) \in st[WorstResource(st)]
<1> DEFINE at == {i \in DOMAIN Resources : WorstLevel(st) \in st[Resources[i]]}
<1>1. /\ DOMAIN Resources = 1 .. 3
      /\ Resources[1] = "Cpu" /\ Resources[2] = "Memory" /\ Resources[3] = "Io"
  BY DEF Resources
<1>2. DOMAIN st = {"Cpu", "Memory", "Io"}
  BY DEF IsStall
<1>3. PICK r \in DOMAIN st : WorstLevel(st) \in st[r]
  BY WorstLevelIsWorst
<1>4. \E i \in 1 .. 3 : Resources[i] = r
  BY <1>1, <1>2
<1>5. at # {} /\ at \in SUBSET Nat
  BY <1>1, <1>3, <1>4
<1>6. Min(at) \in at
  BY <1>5, MinIsLeast
<1>7. WorstResource(st) = Resources[Min(at)]
  BY DEF WorstResource
<1>8. \A i \in 1 .. 3 : Resources[i] \in DOMAIN st
  <2>1. \A i \in 1 .. 3 : i = 1 \/ i = 2 \/ i = 3
    OBVIOUS
  <2> QED
    BY <2>1, <1>1, <1>2
<1> QED
  BY <1>1, <1>6, <1>7, <1>8

(* The thresholds, from the level. *)
LEMMA FromStallFacts ==
  ASSUME NEW st, IsStall(st)
  PROVE  /\ FromStall(st) = IF WorstLevel(st) >= 80 THEN Strained
                            ELSE IF WorstLevel(st) >= 40 THEN Braced ELSE Easy
         /\ FromStall(st) \in Easy .. Strained
<1>1. WorstLevel(st) \in 0 .. 100
  BY WorstLevelIsWorst
<1> QED
  BY <1>1 DEF FromStall, StallStrainedPct, StallBracedPct, Easy, Braced, Strained

(* classify gives the worse of the two tiers. *)
LEMMA ClassifyIsWorse ==
  ASSUME NEW V \in SUBSET KindSet, NEW st, IsStall(st)
  PROVE  LET a == Classify(V, st) IN
         /\ a.tier \in Easy .. Strained
         /\ FromVerdicts(V) <= a.tier
         /\ FromStall(st) <= a.tier
         /\ a.tier = FromVerdicts(V) \/ a.tier = FromStall(st)
<1>1. FromVerdicts(V) \in 0 .. 2 /\ FromStall(st) \in 0 .. 2
  BY FromVerdictsIsWorst, FromStallFacts DEF Easy, Strained
<1> QED
  BY <1>1 DEF Classify, Easy, Strained

(* Every answer of classify is accounted for. *)
LEMMA ClassifyExplains ==
  ASSUME NEW V \in SUBSET KindSet, NEW st, IsStall(st)
  PROVE  LET a == Classify(V, st) IN
         \/ a.tier = Easy /\ V = {}
         \/ /\ a.reason \in V
            /\ TierOf(a.reason) = a.tier
            /\ FromStall(st) <= a.tier
         \/ /\ a.reason \in DOMAIN st
            /\ WorstLevel(st) \in st[a.reason]
            /\ FromStall(st) = a.tier
            /\ \A k \in V : TierOf(k) < a.tier
<1> DEFINE a == Classify(V, st)
<1>1. FromVerdicts(V) \in 0 .. 2 /\ FromStall(st) \in 0 .. 2
  BY FromVerdictsIsWorst, FromStallFacts DEF Easy, Strained
<1>2. CASE FromVerdicts(V) >= FromStall(st) /\ V = {}
  BY <1>1, <1>2, FromVerdictsIsWorst DEF Classify
<1>3. CASE FromVerdicts(V) >= FromStall(st) /\ V # {}
  <2>1. a.tier = FromVerdicts(V) /\ a.reason = WorstVerdict(V)
    BY <1>3 DEF Classify
  <2> QED
    BY <2>1, <1>3, WorstVerdictIsWorst
<1>4. CASE ~ (FromVerdicts(V) >= FromStall(st))
  <2>1. a.tier = FromStall(st) /\ a.reason = WorstResource(st)
    BY <1>4 DEF Classify
  <2>2. \A k \in V : TierOf(k) \in {1, 2} /\ TierOf(k) <= FromVerdicts(V)
    BY FromVerdictsIsWorst DEF TierOf, Braced, Strained
  <2>3. \A k \in V : TierOf(k) < a.tier
    BY <1>1, <1>4, <2>1, <2>2
  <2> QED
    BY <2>1, <2>3, WorstResourceIsWorst
<1> QED
  BY <1>2, <1>3, <1>4

-----------------------------------------------------------------------------
(* A machine in the database is among the candidates of its own id and the *)
(* count it reports, unless that is another's: resolve.                    *)
LEMMA OwnModelIsCandidate ==
  ASSUME NEW m, m.product \in m.db,
         \A e \in m.db : e.id = m.product.id /\ e.threads = m.reported
                          => m.product.threads = m.reported
  PROVE  LET cs == Candidates(m.db, m.product.id, m.reported) IN
         /\ m.product \in cs
         /\ cs \subseteq m.db
         /\ SpecOf(m) = {Conservative(cs)}
<1> DEFINE cs == Candidates(m.db, m.product.id, m.reported)
<1>1. m.product \in cs
  BY DEF Candidates
<1>2. cs \subseteq m.db
  BY DEF Candidates
<1>3. SpecOf(m) = {Conservative(cs)}
  <2>1. {cs} \ {{}} = {cs}
    BY <1>1
  <2> QED
    BY <2>1 DEF SpecOf, Resolve
<1> QED
  BY <1>1, <1>2, <1>3

(* What the sensors give. *)
Sensible(s) ==
  \A f \in {"mhz", "utilization", "watts", "temp", "tjmax"} : s[f] \in SUBSET Nat

(* A verdict on the merge is one on every candidate that is comparable. *)
LEMMA VerdictOnMergeHoldsForEach ==
  ASSUME MaxFigure \in Nat,
         NEW m, NEW s, Sensible(s), m.stated \in SUBSET Nat,
         NEW cs, \A c \in cs : IsProduct(c), NEW p \in cs,
         NEW k \in VerdictsOn(m, s, {Conservative(cs)}), Comparable(k, cs)
  PROVE  k \in VerdictsOn(m, s, {p})
<1> DEFINE w  == Conservative(cs)
           cw == CpuReading(m, s, {w})
           cp == CpuReading(m, s, {p})
<1> USE DEF Sensible
<1>1. /\ w.base \in Nat /\ w.base <= p.base
      /\ w.tdp \in Nat /\ w.tdp <= p.tdp
      /\ \A x \in p.ctdpMin : \A y \in w.ctdpMin : y \in Nat /\ y <= x
      /\ \A x \in p.ctdpMax : \A y \in w.ctdpMax : y \in Nat /\ x <= y
      /\ \A x \in p.tjmax : \A y \in w.tjmax : y \in Nat /\ x <= y
  BY ConservativeIsWeakest
<1>2. /\ p.base \in Nat /\ p.tdp \in Nat /\ p.ctdpMin \in SUBSET Nat
      /\ p.ctdpMax \in SUBSET Nat /\ p.tjmax \in SUBSET Nat
  BY DEF IsProduct
<1>3. /\ (\A c \in cs : c.ctdpMin = {}) => w.ctdpMin = {}
      /\ (\A c \in cs : c.tjmax = {}) => w.tjmax = {}
  BY ConservativeInventsNothing
<1>4. /\ p.ctdpMin # {} => w.ctdpMin # {}
      /\ p.ctdpMax # {} => w.ctdpMax # {}
  BY ConservativeForgetsNothing
<1>5. /\ cw.mhz = s.mhz /\ cp.mhz = s.mhz
      /\ cw.watts = s.watts /\ cp.watts = s.watts
      /\ cw.temp = s.temp /\ cp.temp = s.temp
      /\ cw.utilization = s.utilization /\ cp.utilization = s.utilization
      /\ cw.throttle = FALSE
      /\ cw.tjmax = Or(s.tjmax, w.tjmax)
      /\ cp.tjmax = Or(s.tjmax, p.tjmax)
  BY DEF CpuReading
<1>6. k \in Evaluate(cw, {w})
  BY DEF VerdictsOn
<1> HIDE DEF w, cw, cp
<1>7. UnderDemand(cw) => UnderDemand(cp)
  BY <1>5 DEF UnderDemand
<1>8. CASE k = "ThermalHeadroomLow"
  <2>1. HeadroomIsLow(cw)
    BY <1>6, <1>8 DEF Evaluate
  <2>2. PICK t \in s.temp, l \in Or(s.tjmax, w.tjmax) : l - t <= ThermalHeadroomLowC
    BY <2>1, <1>5 DEF HeadroomIsLow
  <2>3. CASE s.tjmax # {}
    BY <2>2, <2>3, <1>5, <1>6, <1>8 DEF Or, HeadroomIsLow, Evaluate, VerdictsOn, cp
  <2>4. CASE s.tjmax = {}
    <3>1. l \in w.tjmax
      BY <2>2, <2>4 DEF Or
    <3>2. p.tjmax # {}
      BY <3>1, <1>3, <1>8 DEF Comparable
    <3>3. PICK x \in p.tjmax : TRUE
      BY <3>2
    <3>4. x \in Nat /\ l \in Nat /\ x <= l /\ t \in Nat
      BY <3>1, <3>3, <1>1, <1>2, <2>2
    <3>5. x - t <= ThermalHeadroomLowC
      BY <3>4, <2>2 DEF ThermalHeadroomLowC
    <3>6. HeadroomIsLow(cp)
      BY <3>3, <3>5, <2>2, <2>4, <1>5 DEF HeadroomIsLow, Or
    <3> QED
      BY <3>6, <1>6, <1>8 DEF Evaluate, VerdictsOn, cp
  <2> QED
    BY <2>3, <2>4
<1>9. CASE k = "BelowBaseClock"
  <2>1. UnderDemand(cw) /\ \E f \in cw.mhz, b \in Base(cw, {w}) : f < b
    BY <1>6, <1>9 DEF Evaluate, ClockIsLow
  <2>2. Base(cw, {w}) = {w.base} /\ Base(cp, {p}) = {p.base}
    BY DEF Base, Or
  <2>3. PICK f \in s.mhz : f < w.base
    BY <2>1, <2>2, <1>5
  <2>4. f \in Nat /\ f < p.base
    BY <2>3, <1>1, <1>2
  <2>5. ClockIsLow(cp, {p})
    BY <2>1, <2>2, <2>4, <1>5, <1>7 DEF ClockIsLow
  <2> QED
    BY <2>5, <1>6, <1>9 DEF Evaluate, VerdictsOn, cp
<1>10. CASE k = "PowerOutsideBand"
  <2>1. PICK v \in s.watts : \E y \in Ceiling(w) : v > y
    BY <1>5, <1>6, <1>10 DEF Evaluate, PowerIsHigh
  <2>2. p.ctdpMax # {}
    BY <1>10 DEF Comparable
  <2>3. Ceiling(w) = w.ctdpMax /\ Ceiling(p) = p.ctdpMax
    BY <2>2, <1>4 DEF Ceiling, Or
  <2>4. PICK x \in p.ctdpMax : TRUE
    BY <2>2
  <2>5. v > x
    BY <2>1, <2>3, <2>4, <1>1, <1>2
  <2>6. PowerIsHigh(cp, {p})
    BY <2>3, <2>4, <2>5, <1>5 DEF PowerIsHigh
  <2> QED
    BY <2>6, <1>6, <1>10 DEF Evaluate, VerdictsOn, cp
<1>11. CASE k = "PowerBelowRating"
  <2>1. UnderDemand(cw)
    BY <1>6, <1>11 DEF Evaluate, PowerIsLow
  <2>2. PICK v \in s.watts : \E y \in Floor(w) : v < y
    BY <1>5, <1>6, <1>11 DEF Evaluate, PowerIsLow
  <2>3. \E x \in Floor(p) : v < x
    <3>1. CASE p.ctdpMin = {}
      <4>1. w.ctdpMin = {}
        BY <3>1, <1>3, <1>11 DEF Comparable
      <4>2. Floor(w) = {w.tdp} /\ Floor(p) = {p.tdp}
        BY <3>1, <4>1 DEF Floor, Or
      <4> QED
        BY <4>2, <2>2, <1>1, <1>2
    <3>2. CASE p.ctdpMin # {}
      <4>1. Floor(w) = w.ctdpMin /\ Floor(p) = p.ctdpMin
        BY <3>2, <1>4 DEF Floor, Or
      <4>2. PICK x \in p.ctdpMin : TRUE
        BY <3>2
      <4>3. v < x
        BY <4>1, <4>2, <2>2, <1>1, <1>2
      <4> QED
        BY <4>1, <4>2, <4>3
    <3> QED
      BY <3>1, <3>2
  <2>4. PowerIsLow(cp, {p})
    BY <2>1, <2>3, <1>5, <1>7 DEF PowerIsLow
  <2> QED
    BY <2>4, <1>6, <1>11 DEF Evaluate, VerdictsOn, cp
<1> QED
  BY <1>5, <1>6, <1>8, <1>9, <1>10, <1>11 DEF Evaluate

-----------------------------------------------------------------------------
(* The fields of what was sensed and the figures they come from; and that  *)
(* the findings and the assessment shown are those on this reading.        *)
IInv ==
  /\ machine \in Machines
  /\ DOMAIN sensed = Fields
  /\ \A f \in Fields : sensed[f] \in Figures[machine][f]
  /\ findings = FindingsOn(machine, sensed)
  /\ assessment = AssessmentOn(machine, sensed)

LEMMA InitInvariant == Init => IInv
<1> SUFFICES ASSUME Init PROVE IInv
  OBVIOUS
<1>1. machine \in Machines
  BY DEF Init
<1>2. DOMAIN sensed = Fields /\ \A f \in Fields : sensed[f] \in Figures[machine][f]
  BY DEF Init, Fields
<1>3. /\ findings = FindingsOn(machine, sensed)
      /\ assessment = AssessmentOn(machine, sensed)
  BY DEF Init
<1> QED
  BY <1>1, <1>2, <1>3 DEF IInv

LEMMA StepInvariant == IInv /\ [Next]_vars => IInv'
<1> SUFFICES ASSUME IInv, [Next]_vars PROVE IInv'
  OBVIOUS
<1>1. CASE Judge
  <2>1. PICK f \in Fields \ {"processes", "engine"} :
          \E v \in Figures[machine][f] : sensed' = [sensed EXCEPT ![f] = v]
    BY <1>1 DEF Judge
  <2>2. /\ machine' = machine /\ findings' = FindingsOn(machine, sensed')
        /\ assessment' = AssessmentOn(machine, sensed')
    BY <1>1 DEF Judge
  <2>3. DOMAIN sensed' = Fields /\ \A g \in Fields : sensed'[g] \in Figures[machine][g]
    BY <2>1 DEF IInv
  <2> QED
    BY <2>2, <2>3 DEF IInv
<1>2. CASE UNCHANGED vars
  BY <1>2 DEF IInv, vars
<1> QED
  BY <1>1, <1>2 DEF Next

LEMMA Invariant == Spec => []IInv
  BY InitInvariant, StepInvariant, PTL DEF Spec

(* A finding exists for every verdict, and for nothing else: diagnose. *)
LEMMA FindingPerVerdict ==
  ASSUME IInv
  PROVE  DOMAIN findings = VerdictsOn(machine, sensed, SpecOf(machine))
BY DEF IInv, FindingsOn, Diagnose

(* What the assumption on the constants says of one machine. *)
LEMMA SensedIsSensible ==
  ASSUME IInv
  PROVE  /\ MaxFigure \in Nat
         /\ Sensible(sensed)
         /\ \A p \in {machine.product} \cup machine.db : IsProduct(p)
         /\ machine.stated \subseteq {machine.product.base}
         /\ machine.stated \in SUBSET Nat
         /\ sensed["nominal"] \in Nat
<1>1. /\ MaxFigure \in Nat
      /\ \A p \in {machine.product} \cup machine.db : IsProduct(p)
      /\ machine.stated \subseteq {machine.product.base}
  BY JudgementAssumption DEF IInv
<1>2. \A f \in {"mhz", "utilization", "watts", "temp", "tjmax"} :
        /\ f \in Fields
        /\ \A v \in Figures[machine][f] : v \subseteq Nat
  <2>1. \A v \in Optional(0 .. 100) : v \subseteq Nat
    BY DEF Optional
  <2> QED
    BY <2>1, JudgementAssumption DEF IInv, Fields
<1>3. Sensible(sensed)
  BY <1>2 DEF IInv, Sensible
<1>4. sensed["nominal"] \in Nat
  BY JudgementAssumption DEF IInv, Fields
<1>5. machine.product.base \in Nat
  BY <1>1 DEF IsProduct
<1> QED
  BY <1>1, <1>3, <1>4, <1>5

(* A machine in the database is never held to another model's figures,     *)
(* whatever models share its processor id and however many processors are  *)
(* hidden, unless what is left is a sibling's number: resolve,             *)
(* conservative, evaluate.                                                 *)
THEOREM NoOtherModelsFigures == Spec => []HeldToItsOwn
<1>1. IInv => HeldToItsOwn
  <2> SUFFICES ASSUME IInv, machine.product \in machine.db, CountIsNoOthers,
                      NEW k \in DOMAIN findings,
                      Comparable(k, Candidates(machine.db, machine.product.id,
                                               machine.reported))
               PROVE  k \in VerdictsOn(machine, sensed, {machine.product})
    BY DEF HeldToItsOwn, HeldToOwnFigures
  <2> DEFINE cs == Candidates(machine.db, machine.product.id, machine.reported)
  <2>1. /\ machine.product \in cs
        /\ cs \subseteq machine.db
        /\ SpecOf(machine) = {Conservative(cs)}
    BY OwnModelIsCandidate DEF CountIsNoOthers
  <2>2. k \in VerdictsOn(machine, sensed, {Conservative(cs)})
    BY <2>1, FindingPerVerdict
  <2>3. /\ MaxFigure \in Nat /\ Sensible(sensed) /\ machine.stated \in SUBSET Nat
        /\ \A c \in cs : IsProduct(c)
    BY <2>1, SensedIsSensible
  <2> HIDE DEF cs
  <2> QED
    BY <2>1, <2>2, <2>3, VerdictOnMergeHoldsForEach DEF cs
<1> QED
  BY <1>1, Invariant, PTL

(* A machine in no database is called slow only against the clock that its *)
(* brand states: reported_base_mhz.                                        *)
THEOREM BrandIsTheBase == Spec => []HeldToItsBrand
<1>1. IInv => HeldToItsBrand
  <2> SUFFICES ASSUME IInv, Unlisted(machine),
                      machine.stated \cap PlausibleBaseMHz # {},
                      "BelowBaseClock" \in DOMAIN findings
               PROVE  \E m \in sensed.mhz :
                        m < machine.product.base + BaseAgreementMHz
    BY DEF HeldToItsBrand
  <2> DEFINE base == machine.product.base
             cpu  == CpuReading(machine, sensed, {})
  <2>1. "BelowBaseClock" \in Evaluate(cpu, {})
    BY FindingPerVerdict DEF VerdictsOn, Unlisted
  <2>2. \E m \in cpu.mhz, b \in Base(cpu, {}) : m < b
    BY <2>1 DEF Evaluate, ClockIsLow
  <2>3. /\ cpu.mhz = sensed.mhz
        /\ cpu.reportedBase = ReportedBase(sensed.nominal, machine.stated)
    BY DEF CpuReading
  <2>4. Base(cpu, {}) = cpu.reportedBase
    BY DEF Base, Or
  <2>5. PICK m \in sensed.mhz, b \in ReportedBase(sensed.nominal, machine.stated) : m < b
    BY <2>2, <2>3, <2>4
  <2>6. m \in Nat /\ base \in Nat /\ sensed.nominal \in Nat /\ machine.stated \subseteq {base}
    BY SensedIsSensible DEF Sensible, IsProduct
  <2>7. base \in BaseFromBrand(machine.stated)
    BY <2>6 DEF BaseFromBrand
  <2>8. b = sensed.nominal /\ b - base <= BaseAgreementMHz
    BY <2>5, <2>6, <2>7 DEF ReportedBase, BaseAgreementMHz
  <2> QED
    BY <2>5, <2>6, <2>8 DEF BaseAgreementMHz
<1> QED
  BY <1>1, Invariant, PTL

-----------------------------------------------------------------------------
(* What SpecDb::resolve gives is a published figure, and a limit is one    *)
(* that some candidate publishes.                                          *)
LEMMA SpecFigures ==
  ASSUME MaxFigure \in Nat,
         NEW m, \A p \in m.db : IsProduct(p), NEW w \in SpecOf(m)
  PROVE  w.base \in Nat /\ w.tjmax \subseteq 1 .. MaxFigure
<1> DEFINE cs     == Candidates(m.db, m.product.id, m.reported)
           limits == UNION {c.tjmax : c \in cs}
<1>1. cs # {} /\ w = Conservative(cs)
  BY DEF SpecOf, Resolve
<1>2. \A c \in cs : IsProduct(c)
  BY DEF Candidates
<1>3. PICK p \in cs : TRUE
  BY <1>1
<1> HIDE DEF cs
<1>4. w.base \in Nat
  BY <1>1, <1>2, ConservativeIsWeakest
<1>5. limits \in SUBSET (0 .. MaxFigure) /\ limits \in SUBSET (1 .. MaxFigure)
  BY <1>2 DEF IsProduct
<1>6. w.tjmax = IF limits = {} THEN {} ELSE {Max(limits)}
  BY <1>1 DEF Conservative, Highest
<1>7. ASSUME limits # {} PROVE Max(limits) \in limits
  <2> HIDE DEF limits
  <2> QED
    BY <1>5, <1>7, MaxIsGreatest
<1> QED
  BY <1>4, <1>5, <1>6, <1>7

(* The stall of a reading is what to_stall can give. *)
LEMMA SensedStall ==
  ASSUME IInv
  PROVE  IsStall(Stall(sensed))
<1>1. /\ \A f \in {"stalledCpu", "stalledMemory"} :
            \E pct \in 0 .. 100 : sensed[f] = {pct}
      /\ sensed["stalledIo"] \subseteq 0 .. 100
  <2>1. /\ machine \in Machines
        /\ \A f \in {"stalledCpu", "stalledMemory", "stalledIo"} :
             sensed[f] \in Figures[machine][f]
    BY DEF IInv, Fields
  <2>2. /\ \A f \in {"stalledCpu", "stalledMemory"} :
             \A v \in Figures[machine][f] : \E pct \in 0 .. 100 : v = {pct}
        /\ \A v \in Figures[machine]["stalledIo"] : v \subseteq 0 .. 100
    BY <2>1, JudgementAssumption, Zenon
  <2> QED
    BY <2>1, <2>2, Zenon
<1>2. /\ DOMAIN Stall(sensed) = {"Cpu", "Memory", "Io"}
      /\ Stall(sensed)["Cpu"] = sensed["stalledCpu"]
      /\ Stall(sensed)["Memory"] = sensed["stalledMemory"]
      /\ Stall(sensed)["Io"] = sensed["stalledIo"]
  BY DEF Stall
<1> QED
  BY <1>1, <1>2 DEF IsStall

(* A tier above Easy has a reason that accounts for it, for any verdicts   *)
(* and stall at once: classify.                                            *)
THEOREM EveryAlarmIsExplained == Spec => []AlarmIsExplained
<1>1. IInv => AlarmIsExplained
  <2> SUFFICES ASSUME IInv PROVE AlarmIsExplained
    OBVIOUS
  <2> DEFINE V  == VerdictsOn(machine, sensed, SpecOf(machine))
             st == Stall(sensed)
  <2>1. V \in SUBSET KindSet
    BY DEF VerdictsOn, Evaluate
  <2>2. IsStall(st)
    BY SensedStall
  <2>3. DOMAIN findings = V /\ assessment = Classify(V, st)
    BY FindingPerVerdict DEF IInv, AssessmentOn
  <2> HIDE DEF V, st
  <2>4. \/ assessment.tier = Easy /\ V = {}
        \/ /\ assessment.reason \in V
           /\ TierOf(assessment.reason) = assessment.tier
           /\ FromStall(st) <= assessment.tier
        \/ /\ assessment.reason \in DOMAIN st
           /\ WorstLevel(st) \in st[assessment.reason]
           /\ FromStall(st) = assessment.tier
           /\ \A k \in V : TierOf(k) < assessment.tier
    BY <2>1, <2>2, <2>3, ClassifyExplains
  <2> QED
    BY <2>3, <2>4 DEF AlarmIsExplained, st
<1> QED
  BY <1>1, Invariant, PTL

-----------------------------------------------------------------------------
(* The limit a reading is held to is a temperature above zero. *)
LEMMA LimitIsPositive ==
  ASSUME IInv
  PROVE  CpuReading(machine, sensed, SpecOf(machine)).tjmax \subseteq Nat \ {0}
<1>1. sensed["tjmax"] \subseteq Nat \ {0}
  BY JudgementAssumption DEF IInv, Fields
<1>2. MaxFigure \in Nat /\ \A p \in machine.db : IsProduct(p)
  BY SensedIsSensible
<1>3. \A w \in SpecOf(machine) : w.tjmax \subseteq 1 .. MaxFigure
  BY <1>2, SpecFigures
<1>4. UNION {w.tjmax : w \in SpecOf(machine)} \subseteq Nat \ {0}
  BY <1>2, <1>3
<1>5. CpuReading(machine, sensed, SpecOf(machine)).tjmax
        = Or(sensed["tjmax"], UNION {w.tjmax : w \in SpecOf(machine)})
  BY DEF CpuReading
<1> QED
  BY <1>1, <1>4, <1>5 DEF Or

(* The last band of thermal_band is the condition of evaluate. *)
LEMMA LastBandIsLowHeadroom ==
  ASSUME NEW t \in Nat, NEW limit \in SUBSET (Nat \ {0})
  PROVE  "AtLimit" \in ThermalBand(t, limit)
           <=> \E l \in limit : l - t <= ThermalHeadroomLowC
<1> DEFINE Band(h) ==
      CASE h > HeadroomNormalC     -> "Normal"
        [] h \in HeadroomWarmC + 1 .. HeadroomNormalC     -> "Warm"
        [] h \in ThermalHeadroomLowC + 1 .. HeadroomWarmC -> "Hot"
        [] h <= ThermalHeadroomLowC -> "AtLimit"
<1>1. \A h \in Int : Band(h) = "AtLimit" <=> h <= ThermalHeadroomLowC
  BY DEF HeadroomNormalC, HeadroomWarmC, ThermalHeadroomLowC
<1>2. ThermalBand(t, limit) = {Band(l - t) : l \in {x \in limit : x > 0}}
  BY DEF ThermalBand
<1> HIDE DEF Band
<1>3. "AtLimit" \in ThermalBand(t, limit)
        <=> \E l \in limit : l > 0 /\ Band(l - t) = "AtLimit"
  BY <1>2
<1>4. \A l \in limit : l > 0 /\ l - t \in Int
  OBVIOUS
<1> QED
  BY <1>1, <1>3, <1>4

(* The tile of the package is red exactly when a finding says so, whatever *)
(* limit the sensor or the database gives: thermal_band, evaluate.         *)
THEOREM RedTileMeansFinding == Spec => []RedTileIsAFinding
<1>1. IInv => RedTileIsAFinding
  <2> SUFFICES ASSUME IInv PROVE RedTileIsAFinding
    OBVIOUS
  <2> DEFINE cpu == CpuReading(machine, sensed, SpecOf(machine))
  <2>1. cpu.temp = sensed.temp
    BY DEF CpuReading
  <2>2. cpu.tjmax \in SUBSET (Nat \ {0})
    BY LimitIsPositive
  <2>3. sensed.temp \in SUBSET Nat
    BY SensedIsSensible DEF Sensible
  <2>4. "ThermalHeadroomLow" \in DOMAIN findings <=> HeadroomIsLow(cpu)
    BY KindFacts, FindingPerVerdict DEF VerdictsOn, Evaluate
  <2> HIDE DEF cpu
  <2>5. HeadroomIsLow(cpu)
          <=> \E t \in sensed.temp : \E l \in cpu.tjmax : l - t <= ThermalHeadroomLowC
    BY <2>1 DEF HeadroomIsLow
  <2>6. \A t \in sensed.temp :
          "AtLimit" \in ThermalBand(t, cpu.tjmax)
            <=> \E l \in cpu.tjmax : l - t <= ThermalHeadroomLowC
    BY <2>2, <2>3, LastBandIsLowHeadroom
  <2>7. (\E t \in sensed.temp : "AtLimit" \in ThermalBand(t, cpu.tjmax))
          <=> "ThermalHeadroomLow" \in DOMAIN findings
    BY <2>4, <2>5, <2>6
  <2> QED
    BY <2>7 DEF RedTileIsAFinding, cpu
<1> QED
  BY <1>1, Invariant, PTL

-----------------------------------------------------------------------------
(* A reading that is at least as bad has at least the same verdicts. *)
LEMMA WorseKeepsVerdicts ==
  ASSUME NEW m, NEW s, NEW t, Sensible(s), Sensible(t), AtLeastAsBad(s, t),
         NEW spec, \A w \in spec : w.base \in Nat /\ w.tjmax \subseteq Nat
  PROVE  VerdictsOn(m, s, spec) \subseteq VerdictsOn(m, t, spec)
<1> DEFINE a == CpuReading(m, s, spec)
           b == CpuReading(m, t, spec)
<1>1. /\ \A x \in s.mhz : \E y \in t.mhz : x >= y
      /\ \A x \in s.utilization : \E y \in t.utilization : x <= y
      /\ \A x \in s.temp : \E y \in t.temp : x <= y
      /\ s.nominal = t.nominal /\ s.watts = t.watts /\ s.tjmax = t.tjmax
  BY DEF AtLeastAsBad
<1>2. /\ s.mhz \in SUBSET Nat /\ t.mhz \in SUBSET Nat
      /\ s.utilization \in SUBSET Nat /\ t.utilization \in SUBSET Nat
      /\ s.temp \in SUBSET Nat /\ t.temp \in SUBSET Nat /\ s.tjmax \in SUBSET Nat
  BY DEF Sensible
<1>3. /\ a.mhz = s.mhz /\ b.mhz = t.mhz
      /\ a.utilization = s.utilization /\ b.utilization = t.utilization
      /\ a.temp = s.temp /\ b.temp = t.temp
      /\ a.watts = b.watts /\ a.throttle = FALSE /\ b.throttle = FALSE
      /\ a.tjmax = b.tjmax /\ a.reportedBase = b.reportedBase
      /\ a.reportedBase = ReportedBase(s.nominal, m.stated)
      /\ a.tjmax = Or(s.tjmax, UNION {w.tjmax : w \in spec})
  BY <1>1 DEF CpuReading
<1> HIDE DEF a, b
<1>4. a.tjmax \subseteq Nat
  <2>1. UNION {w.tjmax : w \in spec} \subseteq Nat
    OBVIOUS
  <2> QED
    BY <2>1, <1>2, <1>3 DEF Or
<1>5. Base(a, spec) = Base(b, spec) /\ Base(a, spec) \subseteq Nat
  <2>1. {w.base : w \in spec} \subseteq Nat
    OBVIOUS
  <2>2. a.reportedBase \subseteq Nat
    BY <1>3 DEF ReportedBase, PlausibleBaseMHz
  <2> QED
    BY <2>1, <2>2, <1>3 DEF Base, Or
<1>6. UnderDemand(a) => UnderDemand(b)
  BY <1>1, <1>2, <1>3 DEF UnderDemand, MinUtilizationForBasePct
<1>7. HeadroomIsLow(a) => HeadroomIsLow(b)
  <2> SUFFICES ASSUME NEW x \in a.temp, NEW l \in a.tjmax, l - x <= ThermalHeadroomLowC
               PROVE  \E y \in b.temp : l - y <= ThermalHeadroomLowC
    BY <1>3 DEF HeadroomIsLow
  <2>1. PICK y \in b.temp : x <= y
    BY <1>1, <1>3
  <2>2. x \in Nat /\ y \in Nat /\ l \in Nat
    BY <2>1, <1>2, <1>3, <1>4
  <2> QED
    BY <2>1, <2>2 DEF ThermalHeadroomLowC
<1>8. ClockIsLow(a, spec) => ClockIsLow(b, spec)
  <2> SUFFICES ASSUME NEW x \in a.mhz, NEW c \in Base(a, spec), x < c
               PROVE  \E y \in b.mhz : y < c
    BY <1>5, <1>6 DEF ClockIsLow
  <2>1. PICK y \in b.mhz : x >= y
    BY <1>1, <1>3
  <2>2. x \in Nat /\ y \in Nat /\ c \in Nat
    BY <2>1, <1>2, <1>3, <1>5
  <2> QED
    BY <2>1, <2>2
<1>9. PowerIsHigh(a, spec) => PowerIsHigh(b, spec)
  BY <1>3 DEF PowerIsHigh
<1>10. PowerIsLow(a, spec) => PowerIsLow(b, spec)
  BY <1>3, <1>6 DEF PowerIsLow
<1>11. Evaluate(a, spec) \subseteq Evaluate(b, spec)
  BY <1>3, <1>7, <1>8, <1>9, <1>10 DEF Evaluate
<1> QED
  BY <1>11 DEF VerdictsOn, a, b

(* More verdicts and more stall are no lower a tier. *)
LEMMA ClassifyIsMonotone ==
  ASSUME NEW W \in SUBSET KindSet, NEW V \in SUBSET W,
         NEW st, IsStall(st), NEW su, IsStall(su),
         \A r \in {"Cpu", "Memory", "Io"} : \A x \in st[r] : \E y \in su[r] : x <= y
  PROVE  Classify(W, su).tier >= Classify(V, st).tier
<1>1. V \in SUBSET KindSet
  OBVIOUS
<1>2. FromVerdicts(V) <= FromVerdicts(W)
  <2>1. FromVerdicts(V) \in 0 .. 2 /\ FromVerdicts(W) \in 0 .. 2
    BY <1>1, FromVerdictsIsWorst DEF Easy, Strained
  <2>2. CASE V = {}
    BY <2>1, <2>2, FromVerdictsIsWorst DEF Easy
  <2>3. CASE V # {}
    <3>1. PICK k \in V : TierOf(k) = FromVerdicts(V)
      BY <1>1, <2>3, FromVerdictsIsWorst
    <3>2. k \in W
      OBVIOUS
    <3> QED
      BY <3>1, <3>2, FromVerdictsIsWorst
  <2> QED
    BY <2>2, <2>3
<1>3. WorstLevel(st) <= WorstLevel(su)
  <2>1. PICK r \in DOMAIN st : WorstLevel(st) \in st[r]
    BY WorstLevelIsWorst
  <2>2. r \in {"Cpu", "Memory", "Io"} /\ r \in DOMAIN su
    BY <2>1 DEF IsStall
  <2>3. PICK y \in su[r] : WorstLevel(st) <= y
    BY <2>1, <2>2
  <2>4. y <= WorstLevel(su) /\ y \in 0 .. 100
    BY <2>2, <2>3, WorstLevelIsWorst DEF IsStall
  <2>5. WorstLevel(st) \in 0 .. 100 /\ WorstLevel(su) \in 0 .. 100
    BY WorstLevelIsWorst
  <2> QED
    BY <2>3, <2>4, <2>5, SMT
<1>4. FromStall(st) <= FromStall(su)
  <2>1. WorstLevel(st) \in 0 .. 100 /\ WorstLevel(su) \in 0 .. 100
    BY WorstLevelIsWorst
  <2> QED
    BY <2>1, <1>3, FromStallFacts DEF Easy, Braced, Strained
<1>5. /\ FromVerdicts(V) \in 0 .. 2 /\ FromVerdicts(W) \in 0 .. 2
      /\ FromStall(st) \in 0 .. 2 /\ FromStall(su) \in 0 .. 2
  BY <1>1, FromVerdictsIsWorst, FromStallFacts DEF Easy, Strained
<1>6. /\ Classify(V, st).tier = FromVerdicts(V) \/ Classify(V, st).tier = FromStall(st)
      /\ FromVerdicts(W) <= Classify(W, su).tier
      /\ FromStall(su) <= Classify(W, su).tier
      /\ Classify(W, su).tier \in 0 .. 2
  BY <1>1, ClassifyIsWorse DEF Easy, Strained
<1> QED
  BY <1>2, <1>4, <1>5, <1>6

(* A machine that gets worse in every respect is never shown as doing      *)
(* better: evaluate, classify.                                             *)
THEOREM NeverLooksBetter == Spec => WorseNeverLooksBetter
<1>1. IInv /\ IInv' /\ [Next]_vars
        => [AtLeastAsBad(sensed, sensed') => assessment'.tier >= assessment.tier]_vars
  <2> SUFFICES ASSUME IInv, IInv', Next, AtLeastAsBad(sensed, sensed')
               PROVE  assessment'.tier >= assessment.tier
    OBVIOUS
  <2> DEFINE spec == SpecOf(machine)
             V    == VerdictsOn(machine, sensed, spec)
             W    == VerdictsOn(machine, sensed', spec)
  <2>1. machine' = machine /\ assessment' = AssessmentOn(machine, sensed')
    BY DEF Next, Judge
  <2>2. assessment = AssessmentOn(machine, sensed)
    BY DEF IInv
  <2>3. Sensible(sensed) /\ MaxFigure \in Nat /\ \A p \in machine.db : IsProduct(p)
    BY SensedIsSensible
  <2>4. (IInv)' => (Sensible(sensed))'
    BY SensedIsSensible, PTL
  <2>5. Sensible(sensed')
    BY <2>4 DEF Sensible
  <2>6. \A w \in spec : w.base \in Nat /\ w.tjmax \subseteq Nat
    <3>1. \A w \in spec : w.base \in Nat /\ w.tjmax \subseteq 1 .. MaxFigure
      BY <2>3, SpecFigures
    <3>2. 1 .. MaxFigure \subseteq Nat
      BY <2>3
    <3> QED
      BY <3>1, <3>2
  <2> HIDE DEF spec
  <2>7. V \subseteq W
    BY <2>3, <2>5, <2>6, WorseKeepsVerdicts
  <2>8. W \in SUBSET KindSet
    BY DEF VerdictsOn, Evaluate
  <2>9. IsStall(Stall(sensed))
    BY SensedStall
  <2>10. (IInv)' => (IsStall(Stall(sensed)))'
    BY SensedStall, PTL
  <2>11. IsStall(Stall(sensed'))
    BY <2>10 DEF IsStall, Stall
  <2>12. \A r \in {"Cpu", "Memory", "Io"} :
           \A x \in Stall(sensed)[r] : \E y \in Stall(sensed')[r] : x <= y
    BY DEF AtLeastAsBad, Stall
  <2>13. assessment = Classify(V, Stall(sensed)) /\ assessment' = Classify(W, Stall(sensed'))
    BY <2>1, <2>2 DEF AssessmentOn, spec
  <2> HIDE DEF V, W
  <2> QED
    BY <2>7, <2>8, <2>9, <2>11, <2>12, <2>13, ClassifyIsMonotone
<1> QED
  BY <1>1, Invariant, PTL DEF Spec, WorseNeverLooksBetter

-----------------------------------------------------------------------------
(* Figures of the entries of a process list, added up. *)
CpuOf(ps, S)    == SumOf([i \in S |-> ps[i].cpu])
MemoryOf(ps, S) == SumOf([i \in S |-> ps[i].ws])

LEMMA ListEntries ==
  ASSUME NEW ps \in Seq(ProcessReadings)
  PROVE  /\ Len(ps) \in Nat
         /\ DOMAIN ps = 1 .. Len(ps)
         /\ IsFiniteSet(DOMAIN ps)
         /\ \A i \in DOMAIN ps : /\ ps[i].cpu \in Nat
                                /\ ps[i].ws \in Nat
                                /\ ps[i].faults \in SUBSET Nat
<1>1. Len(ps) \in Nat /\ DOMAIN ps = 1 .. Len(ps)
  OBVIOUS
<1>2. IsFiniteSet(1 .. Len(ps))
  BY <1>1, FS_Interval
<1>3. \A i \in DOMAIN ps : ps[i] \in ProcessReadings
  BY <1>1
<1>4. \A p \in ProcessReadings : /\ p.cpu \in Nat /\ p.ws \in Nat
                                /\ p.faults \in SUBSET Nat
  BY DEF ProcessReadings
<1> QED
  BY <1>1, <1>2, <1>3, <1>4

LEMMA ListSums ==
  ASSUME NEW ps \in Seq(ProcessReadings), NEW S \in SUBSET DOMAIN ps
  PROVE  /\ IsFiniteSet(S)
         /\ \A i \in S : ps[i].cpu \in Nat /\ ps[i].ws \in Nat
         /\ CpuOf(ps, S) \in Nat
         /\ MemoryOf(ps, S) \in Nat
<1>2. IsFiniteSet(S)
  BY ListEntries, FS_Subset
<1>3. \A i \in S : ps[i].cpu \in Nat /\ ps[i].ws \in Nat
  BY ListEntries
<1> DEFINE c == [i \in S |-> ps[i].cpu]
           w == [i \in S |-> ps[i].ws]
<1>4. SumFunctionOnSet(c, S) \in Nat
  <2>1. \A i \in S : c[i] \in Nat
    BY <1>3
  <2> HIDE DEF c
  <2> QED
    BY <1>2, <2>1, SumFacts
<1>5. SumFunctionOnSet(w, S) \in Nat
  <2>1. \A i \in S : w[i] \in Nat
    BY <1>3
  <2> HIDE DEF w
  <2> QED
    BY <1>2, <2>1, SumFacts
<1>6. CpuOf(ps, S) = SumFunctionOnSet(c, S) /\ MemoryOf(ps, S) = SumFunctionOnSet(w, S)
  BY DEF CpuOf, MemoryOf, SumOf, SumFunction
<1> QED
  BY <1>2, <1>3, <1>4, <1>5, <1>6

(* The group of a name, as group_by_name makes it. *)
GroupOf(ps, n) ==
  [at |-> Min(Members(ps, n)), pid |-> ps[Representative(ps, n)].pid,
   name |-> n, title |-> Title(ps, n), count |-> Cardinality(Members(ps, n)),
   cpu |-> CpuOf(ps, Members(ps, n)), ws |-> MemoryOf(ps, Members(ps, n))]

NamesIn(ps) == {ps[i].name : i \in DOMAIN ps}

LEMMA GroupsAreByName ==
  ASSUME NEW ps
  PROVE  GroupByName(ps) = {GroupOf(ps, n) : n \in NamesIn(ps)}
BY DEF GroupByName, GroupOf, NamesIn, CpuOf, MemoryOf

(* Who is named for processor load does enough of what is seen, and enough *)
(* is seen: cpu_leader.                                                    *)
LEMMA CpuLeaderIsLarge ==
  ASSUME NEW reading, NEW g \in CpuLeader(reading)
  PROVE  LET ps == reading.processes IN
         /\ g.name \in NamesIn(ps)
         /\ g.share = CpuOf(ps, Members(ps, g.name))
         /\ g.share >= MinCpuSharePct
         /\ Covers(ps, reading.cpu.utilization)
<1> DEFINE ps == reading.processes
<1>1. /\ g \in {WithShare(h, h.cpu) : h \in GroupByName(ps)}
      /\ Covers(ps, reading.cpu.utilization)
      /\ g.share >= MinCpuSharePct
  BY DEF CpuLeader, Leader
<1>2. PICK n \in NamesIn(ps) : g = WithShare(GroupOf(ps, n), GroupOf(ps, n).cpu)
  BY <1>1, GroupsAreByName
<1>3. g.name = n /\ g.share = CpuOf(ps, Members(ps, n))
  BY <1>2 DEF WithShare, GroupOf
<1> QED
  BY <1>1, <1>3

(* The answers that naming g leads to. *)
AnswersOn(g, containers, resource) ==
  CASE IsDocker(g.name) -> DockerAnswers(g, containers, resource)
    [] g.name \in DOMAIN SystemRemediation ->
         {Answer(g.name, "SystemService", g.title, g.count, "none",
                 SystemRemediation[g.name])}
    [] ~ IsDocker(g.name) /\ g.name \notin DOMAIN SystemRemediation ->
         {Answer(g.name, "Process", g.title, g.count, g.pid, "Stop")}

LeaderFor(reading, resource) ==
  CASE resource = "Cpu"    -> CpuLeader(reading)
    [] resource = "Memory" -> MemoryLeader(reading)
    [] resource = "Io"     -> IoLeader(reading)

LEMMA AttributeAnswers ==
  ASSUME NEW reading, NEW resource
  PROVE  Attribute(reading, resource)
           = UNION {AnswersOn(g, reading.containers, resource)
                    : g \in LeaderFor(reading, resource)}
BY DEF Attribute, AnswersOn, LeaderFor

DockerIsNoService ==
  \A n \in DockerProcesses : n \notin DOMAIN SystemRemediation

LEMMA DockerApart == DockerIsNoService
BY DEF DockerIsNoService, DockerProcesses, SystemRemediation, Scanners, Indexers

LEMMA AnswersOnDocker ==
  ASSUME NEW g, IsDocker(g.name), NEW containers, NEW resource
  PROVE  AnswersOn(g, containers, resource) = DockerAnswers(g, containers, resource)
BY DockerApart DEF DockerIsNoService, AnswersOn, IsDocker

(* An answer is about the program that leads. *)
LEMMA AnswerIsAboutLeader ==
  ASSUME NEW g, NEW containers, NEW resource,
         NEW a \in AnswersOn(g, containers, resource)
  PROVE  a.of = g.name
<1>1. CASE IsDocker(g.name)
  <2>1. a \in DockerAnswers(g, containers, resource)
    BY <1>1, AnswersOnDocker
  <2> QED
    BY <2>1 DEF DockerAnswers, Or, Answer
<1>2. CASE ~ IsDocker(g.name) /\ g.name \in DOMAIN SystemRemediation
  BY <1>2 DEF AnswersOn, Answer
<1>3. CASE ~ IsDocker(g.name) /\ g.name \notin DOMAIN SystemRemediation
  BY <1>3 DEF AnswersOn, Answer
<1> QED
  BY <1>1, <1>2, <1>3

LEMMA SensedLists ==
  ASSUME IInv
  PROVE  /\ sensed.processes \in Seq(ProcessReadings)
         /\ sensed.utilization \in Optional(0 .. 100)
BY JudgementAssumption DEF IInv, Fields

(* What is named for processor load is at least half as large as anything  *)
(* that could be hidden, for any process list: 20 per cent of the machine  *)
(* and a coverage of 60 are enough together (cpu_leader).                  *)
THEOREM NamedOutweighsTheHidden == Spec => []NamedIsHalfTheUnseen
<1>1. IInv => NamedIsHalfTheUnseen
  <2> DEFINE ps == sensed.processes
             r  == Reading(machine, sensed)
  <2> SUFFICES ASSUME IInv, ResourceFor(r) = "Cpu",
                      NEW k \in DOMAIN findings \ {"PowerBelowRating"},
                      NEW a \in findings[k], NEW u \in sensed.utilization
               PROVE  2 * CpuOf(ps, Members(ps, a.of)) >= u - Observed(ps)
    BY DEF NamedIsHalfTheUnseen, CpuOf
  <2>1. r.processes = ps /\ r.cpu.utilization = sensed.utilization
    BY DEF Reading, CpuReading
  <2>2. findings[k] = Attribute(r, "Cpu")
    BY FindingPerVerdict DEF IInv, FindingsOn, Diagnose
  <2>3. PICK g \in CpuLeader(r) : a \in AnswersOn(g, r.containers, "Cpu")
    BY <2>2, AttributeAnswers DEF LeaderFor
  <2> HIDE DEF r
  <2>4. /\ g.name \in NamesIn(ps)
        /\ g.share = CpuOf(ps, Members(ps, g.name))
        /\ g.share >= MinCpuSharePct
        /\ Covers(ps, sensed.utilization)
    BY <2>1, CpuLeaderIsLarge
  <2>5. ps \in Seq(ProcessReadings) /\ sensed.utilization \in Optional(0 .. 100)
    BY SensedLists
  <2> HIDE DEF ps
  <2>7. a.of = g.name
    BY <2>3, AnswerIsAboutLeader
  <2>8. u \in 0 .. 100 /\ 100 * Observed(ps) >= MinCoveragePct * u
    <3>1. \A v \in Optional(0 .. 100) : \A x, y \in v : x = y /\ x \in 0 .. 100
      BY DEF Optional
    <3>2. PICK v \in sensed.utilization : 100 * Observed(ps) >= MinCoveragePct * v
      BY <2>4 DEF Covers
    <3> QED
      BY <2>5, <3>1, <3>2
  <2>9. Observed(ps) \in Nat /\ g.share \in Nat
    <3>1. Members(ps, g.name) \in SUBSET DOMAIN ps
      BY DEF Members
    <3>2. Observed(ps) = CpuOf(ps, DOMAIN ps)
      BY DEF Observed, CpuOf
    <3> QED
      BY <3>1, <3>2, <2>4, <2>5, ListSums
  <2> QED
    BY <2>4, <2>7, <2>8, <2>9 DEF MinCpuSharePct, MinCoveragePct
<1> QED
  BY <1>1, Invariant, PTL

-----------------------------------------------------------------------------
(* qs is ps with entries that have changed places, by to and back by to. *)
Reordered(ps, qs, to) ==
  /\ ps \in Seq(ProcessReadings) /\ qs \in Seq(ProcessReadings)
  /\ DOMAIN qs = DOMAIN ps
  /\ to \in [DOMAIN ps -> DOMAIN ps]
  /\ \A k \in DOMAIN ps : to[to[k]] = k /\ qs[k] = ps[to[k]]

LEMMA ReorderedBack ==
  ASSUME NEW ps, NEW qs, NEW to, Reordered(ps, qs, to)
  PROVE  Reordered(qs, ps, to)
<1>1. \A k \in DOMAIN ps : ps[k] = qs[to[k]]
  BY DEF Reordered
<1> QED
  BY <1>1 DEF Reordered

LEMMA SumsReordered ==
  ASSUME NEW ps, NEW qs, NEW to, Reordered(ps, qs, to),
         NEW S \in SUBSET DOMAIN ps, NEW T \in SUBSET DOMAIN ps,
         \A k \in DOMAIN ps : k \in T <=> to[k] \in S
  PROVE  /\ CpuOf(qs, T) = CpuOf(ps, S)
         /\ MemoryOf(qs, T) = MemoryOf(ps, S)
         /\ Cardinality(T) = Cardinality(S)
<1>1. /\ \A t \in T : to[t] \in S /\ qs[t] = ps[to[t]]
      /\ \A t, u \in T : to[t] = to[u] => t = u
      /\ \A x \in S : \E t \in T : to[t] = x
  <2>1. \A k \in DOMAIN ps : to[k] \in DOMAIN ps /\ to[to[k]] = k /\ qs[k] = ps[to[k]]
    BY DEF Reordered
  <2>2. \A t, u \in T : to[t] = to[u] => t = u
    BY <2>1
  <2>3. \A x \in S : to[x] \in T /\ to[to[x]] = x
    BY <2>1
  <2> QED
    BY <2>1, <2>2, <2>3
<1>2. /\ IsFiniteSet(S) /\ IsFiniteSet(T)
      /\ \A x \in S : ps[x].cpu \in Nat /\ ps[x].ws \in Nat
  BY ListSums DEF Reordered
<1>3. CpuOf(qs, T) = CpuOf(ps, S)
  <2> DEFINE f == [i \in S |-> ps[i].cpu]
             h == [i \in T |-> qs[i].cpu]
  <2>1. CpuOf(ps, S) = SumFunctionOnSet(f, S) /\ CpuOf(qs, T) = SumFunctionOnSet(h, T)
    BY DEF CpuOf, SumOf, SumFunction
  <2>2. \A x \in S : f[x] \in Nat
    BY <1>2
  <2>3. \A t \in T : h[t] = f[to[t]]
    BY <1>1
  <2> HIDE DEF f, h
  <2>4. SumFunctionOnSet(h, T) = SumFunctionOnSet(f, S)
    BY <1>1, <1>2, <2>2, <2>3, SumMoved
  <2> QED
    BY <2>1, <2>4
<1>4. MemoryOf(qs, T) = MemoryOf(ps, S)
  <2> DEFINE f == [i \in S |-> ps[i].ws]
             h == [i \in T |-> qs[i].ws]
  <2>1. MemoryOf(ps, S) = SumFunctionOnSet(f, S) /\ MemoryOf(qs, T) = SumFunctionOnSet(h, T)
    BY DEF MemoryOf, SumOf, SumFunction
  <2>2. \A x \in S : f[x] \in Nat
    BY <1>2
  <2>3. \A t \in T : h[t] = f[to[t]]
    BY <1>1
  <2> HIDE DEF f, h
  <2>4. SumFunctionOnSet(h, T) = SumFunctionOnSet(f, S)
    BY <1>1, <1>2, <2>2, <2>3, SumMoved
  <2> QED
    BY <2>1, <2>4
<1>5. Cardinality(T) = Cardinality(S)
  <2> DEFINE b == [t \in T |-> to[t]]
  <2>1. b \in Bijection(T, S)
    BY <1>1 DEF Bijection, Injection, Surjection, IsInjective
  <2>2. ExistsBijection(T, S)
    BY <2>1 DEF ExistsBijection
  <2> QED
    BY <1>2, <2>2, FS_Bijection
<1> QED
  BY <1>3, <1>4, <1>5

(* The names a person may read for a program are the same ... *)
LEMMA TitlesReordered ==
  ASSUME NEW ps, NEW qs, NEW to, Reordered(ps, qs, to), NEW n
  PROVE  Titles(qs, n) = Titles(ps, n)
<1>1. /\ DOMAIN qs = DOMAIN ps
      /\ \A k \in DOMAIN ps : /\ to[k] \in DOMAIN ps /\ to[to[k]] = k
                              /\ qs[k] = ps[to[k]] /\ ps[k] = qs[to[k]]
  BY ReorderedBack DEF Reordered
<1>2. /\ \A k \in Members(qs, n) : to[k] \in Members(ps, n) /\ qs[k] = ps[to[k]]
      /\ \A k \in Members(ps, n) : to[k] \in Members(qs, n) /\ ps[k] = qs[to[k]]
  BY <1>1 DEF Members
<1>3. UNION {qs[i].display : i \in Members(qs, n)} = UNION {ps[i].display : i \in Members(ps, n)}
  BY <1>2
<1>4. {qs[i].spelling : i \in Members(qs, n)} = {ps[i].spelling : i \in Members(ps, n)}
  BY <1>2
<1> QED
  BY <1>3, <1>4 DEF Titles

(* ... and the one that is taken is one of them. *)
LEMMA TitleIsOwn ==
  ASSUME NEW ps \in Seq(ProcessReadings), NEW n \in NamesIn(ps)
  PROVE  Title(ps, n) \in Titles(ps, n)
<1> DEFINE m      == Members(ps, n)
           called == {i \in m : ps[i].display # {}}
<1>1. m \in SUBSET Nat /\ m # {} /\ called \in SUBSET Nat
  BY ListEntries DEF Members, NamesIn
<1>2. CASE called = {}
  <2>1. Min(m) \in m
    BY <1>1, MinIsLeast
  <2>2. Title(ps, n) = ps[Min(m)].spelling
    BY <1>2 DEF Title
  <2>3. UNION {ps[i].display : i \in m} = {}
    BY <1>2
  <2>4. Titles(ps, n) = {ps[i].spelling : i \in m}
    BY <2>3 DEF Titles
  <2> QED
    BY <2>1, <2>2, <2>4
<1>3. CASE called # {}
  <2>1. Min(called) \in called
    BY <1>1, <1>3, MinIsLeast
  <2> DEFINE option == ps[Min(called)].display
  <2>2. Title(ps, n) = The(option)
    BY <1>3 DEF Title
  <2>3. option # {} /\ Min(called) \in m
    BY <2>1
  <2>4. The(option) \in option
    BY <2>3 DEF The
  <2>5. option \subseteq UNION {ps[i].display : i \in m}
    BY <2>3
  <2>6. Titles(ps, n) = UNION {ps[i].display : i \in m}
    BY <2>4, <2>5 DEF Titles
  <2> QED
    BY <2>2, <2>4, <2>5, <2>6
<1> QED
  BY <1>2, <1>3

(* The groups are the same, but for where they come, who stands for them,  *)
(* and which name they go by.                                              *)
LEMMA GroupsReordered ==
  ASSUME NEW ps, NEW qs, NEW to, Reordered(ps, qs, to)
  PROVE  /\ NamesIn(qs) = NamesIn(ps)
         /\ \A n : /\ GroupOf(qs, n).name = GroupOf(ps, n).name
                   /\ GroupOf(qs, n).count = GroupOf(ps, n).count
                   /\ GroupOf(qs, n).cpu = GroupOf(ps, n).cpu
                   /\ GroupOf(qs, n).ws = GroupOf(ps, n).ws
         /\ Observed(qs) = Observed(ps)
         /\ MemoryOf(qs, DOMAIN qs) = MemoryOf(ps, DOMAIN ps)
<1>1. /\ DOMAIN qs = DOMAIN ps
      /\ \A k \in DOMAIN ps : /\ to[k] \in DOMAIN ps /\ to[to[k]] = k
                              /\ qs[k] = ps[to[k]] /\ ps[k] = qs[to[k]]
  BY ReorderedBack DEF Reordered
<1>2. NamesIn(qs) = NamesIn(ps)
  <2>1. NamesIn(qs) \subseteq NamesIn(ps)
    BY <1>1 DEF NamesIn
  <2>2. NamesIn(ps) \subseteq NamesIn(qs)
    BY <1>1 DEF NamesIn
  <2> QED
    BY <2>1, <2>2
<1>3. ASSUME NEW n
      PROVE  /\ GroupOf(qs, n).name = GroupOf(ps, n).name
             /\ GroupOf(qs, n).count = GroupOf(ps, n).count
             /\ GroupOf(qs, n).cpu = GroupOf(ps, n).cpu
             /\ GroupOf(qs, n).ws = GroupOf(ps, n).ws
  <2>1. /\ Members(ps, n) \in SUBSET DOMAIN ps /\ Members(qs, n) \in SUBSET DOMAIN ps
        /\ \A k \in DOMAIN ps : k \in Members(qs, n) <=> to[k] \in Members(ps, n)
    BY <1>1 DEF Members
  <2>2. /\ CpuOf(qs, Members(qs, n)) = CpuOf(ps, Members(ps, n))
        /\ MemoryOf(qs, Members(qs, n)) = MemoryOf(ps, Members(ps, n))
        /\ Cardinality(Members(qs, n)) = Cardinality(Members(ps, n))
    BY <2>1, SumsReordered
  <2> QED
    BY <2>2 DEF GroupOf
<1>4. /\ CpuOf(qs, DOMAIN qs) = CpuOf(ps, DOMAIN ps)
      /\ MemoryOf(qs, DOMAIN qs) = MemoryOf(ps, DOMAIN ps)
  BY <1>1, SumsReordered
<1>5. Observed(qs) = Observed(ps)
  BY <1>4 DEF Observed, CpuOf
<1> QED
  BY <1>2, <1>3, <1>4, <1>5

(* One that does something leads if it is well ahead of every other: where *)
(* it stood before does not matter.                                        *)
LEMMA LeaderIsAhead ==
  ASSUME NEW E, \A o \in E : o.share \in Nat, NEW e \in E, e.share > 0
  PROVE  e \in Leader(E) <=> \A o \in E \ {e} : Dominates(e.share, o.share)
<1>1. ASSUME NEW o \in E, Dominates(e.share, o.share)
      PROVE  o.share < e.share
  BY <1>1 DEF Dominates
<1> QED
  BY <1>1 DEF Leader

(* Entries that correspond lead alike. *)
LEMMA LeadersCorrespond ==
  ASSUME NEW E, NEW F, NEW m,
         \A e \in E : e.share \in Nat /\ m[e] \in F /\ m[e].share = e.share,
         \A d, e \in E : m[d] = m[e] => d = e,
         \A f \in F : \E e \in E : m[e] = f,
         NEW e \in Leader(E), e.share > 0
  PROVE  m[e] \in Leader(F)
<1>1. e \in E
  BY DEF Leader
<1>2. \A o \in E \ {e} : Dominates(e.share, o.share)
  BY <1>1, LeaderIsAhead
<1>3. \A f \in F : f.share \in Nat
  OBVIOUS
<1>4. ASSUME NEW f \in F \ {m[e]}
      PROVE  Dominates(m[e].share, f.share)
  <2>1. PICK o \in E : m[o] = f
    OBVIOUS
  <2>2. o \in E \ {e}
    BY <2>1
  <2> QED
    BY <1>1, <1>2, <2>1, <2>2
<1> QED
  BY <1>1, <1>3, <1>4, LeaderIsAhead

-----------------------------------------------------------------------------
(* The entry of a group in the ranking by one of its figures. *)
EntryOf(ps, n, figure) == WithShare(GroupOf(ps, n), GroupOf(ps, n)[figure])

Entries(ps, figure) == {EntryOf(ps, n, figure) : n \in NamesIn(ps)}

LEMMA EntryFacts ==
  ASSUME NEW ps \in Seq(ProcessReadings), NEW n, NEW figure \in {"cpu", "ws"}
  PROVE  LET e == EntryOf(ps, n, figure) IN
         /\ e.name = n
         /\ e.title = Title(ps, n)
         /\ e.count = GroupOf(ps, n).count
         /\ e.share = GroupOf(ps, n)[figure]
         /\ e.share \in Nat
<1>1. Members(ps, n) \in SUBSET DOMAIN ps
  BY DEF Members
<1>2. CpuOf(ps, Members(ps, n)) \in Nat /\ MemoryOf(ps, Members(ps, n)) \in Nat
  BY <1>1, ListSums
<1> QED
  BY <1>2 DEF EntryOf, WithShare, GroupOf

LEMMA GroupLeadersReordered ==
  ASSUME NEW ps, NEW qs, NEW to, Reordered(ps, qs, to), NEW figure \in {"cpu", "ws"},
         NEW g \in Leader(Entries(ps, figure)), g.share > 0
  PROVE  /\ g.name \in NamesIn(ps) /\ g.title = Title(ps, g.name)
         /\ \E h \in Leader(Entries(qs, figure)) :
              /\ h.name = g.name /\ h.count = g.count /\ h.share = g.share
              /\ h.title = Title(qs, h.name)
<1> DEFINE E == Entries(ps, figure)
           F == Entries(qs, figure)
           m == [e \in E |-> EntryOf(qs, e.name, figure)]
<1>1. \A n : LET d == EntryOf(ps, n, figure)  e == EntryOf(qs, n, figure) IN
             /\ d.name = n /\ e.name = n /\ d.count = e.count
             /\ d.share = e.share /\ d.share \in Nat
             /\ d.title = Title(ps, n) /\ e.title = Title(qs, n)
  <2> SUFFICES ASSUME NEW n
               PROVE  LET d == EntryOf(ps, n, figure)  e == EntryOf(qs, n, figure) IN
                      /\ d.name = n /\ e.name = n /\ d.count = e.count
                      /\ d.share = e.share /\ d.share \in Nat
                      /\ d.title = Title(ps, n) /\ e.title = Title(qs, n)
    OBVIOUS
  <2>1. ps \in Seq(ProcessReadings) /\ qs \in Seq(ProcessReadings)
    BY DEF Reordered
  <2>2. /\ GroupOf(qs, n).count = GroupOf(ps, n).count
        /\ GroupOf(qs, n)[figure] = GroupOf(ps, n)[figure]
    BY GroupsReordered
  <2> QED
    BY <2>1, <2>2, EntryFacts
<1>2. NamesIn(qs) = NamesIn(ps)
  BY GroupsReordered
<1>3. \A e \in E : /\ e.share \in Nat /\ m[e] \in F /\ m[e].share = e.share
                   /\ m[e].name = e.name /\ m[e].count = e.count
                   /\ e = EntryOf(ps, e.name, figure)
                   /\ e.name \in NamesIn(ps)
                   /\ e.title = Title(ps, e.name) /\ m[e].title = Title(qs, e.name)
  <2> SUFFICES ASSUME NEW e \in E
               PROVE  /\ e.share \in Nat /\ m[e] \in F /\ m[e].share = e.share
                      /\ m[e].name = e.name /\ m[e].count = e.count
                      /\ e = EntryOf(ps, e.name, figure)
                      /\ e.name \in NamesIn(ps)
                      /\ e.title = Title(ps, e.name) /\ m[e].title = Title(qs, e.name)
    OBVIOUS
  <2>1. PICK n \in NamesIn(ps) : e = EntryOf(ps, n, figure)
    BY DEF Entries
  <2>2. e.name = n /\ m[e] = EntryOf(qs, n, figure)
    BY <1>1, <2>1
  <2>3. EntryOf(qs, n, figure) \in F
    BY <1>2 DEF Entries
  <2> HIDE DEF m, F
  <2> QED
    BY <1>1, <2>1, <2>2, <2>3
<1>4. \A d, e \in E : m[d] = m[e] => d = e
  <2> HIDE DEF E, m
  <2> QED
    BY <1>3
<1>5. \A f \in F : \E e \in E : m[e] = f
  <2> SUFFICES ASSUME NEW f \in F
               PROVE  \E e \in E : m[e] = f
    OBVIOUS
  <2>1. PICK n \in NamesIn(ps) : f = EntryOf(qs, n, figure)
    BY <1>2 DEF Entries
  <2>2. EntryOf(ps, n, figure) \in E
    BY DEF Entries
  <2>3. m[EntryOf(ps, n, figure)] = EntryOf(qs, n, figure)
    BY <1>1, <2>2
  <2> QED
    BY <2>1, <2>2, <2>3
<1>6. g \in E
  BY DEF Leader
<1> HIDE DEF E, F, m
<1>7. m[g] \in Leader(F)
  <2>1. g \in Leader(E)
    BY DEF E
  <2> QED
    BY <1>3, <1>4, <1>5, <2>1, LeadersCorrespond
<1> QED
  BY <1>3, <1>6, <1>7 DEF F

(* The entries of processes whose fault rate is known. *)
FaultEntry(ps, i, rate) ==
  [at |-> i, share |-> rate, pid |-> ps[i].pid, name |-> ps[i].name,
   title |-> The(Or(ps[i].display, {ps[i].spelling})), count |-> 1]

FaultEntries(ps) ==
  UNION {{FaultEntry(ps, i, rate) : rate \in ps[i].faults} : i \in DOMAIN ps}

LEMMA FaultLeadersReordered ==
  ASSUME NEW ps, NEW qs, NEW to, Reordered(ps, qs, to),
         NEW g \in Leader(FaultEntries(ps)), g.share > 0
  PROVE  \E h \in Leader(FaultEntries(qs)) :
           h.name = g.name /\ h.count = g.count /\ h.share = g.share /\ h.title = g.title
<1> DEFINE E == FaultEntries(ps)
           F == FaultEntries(qs)
           m == [e \in E |-> [e EXCEPT !.at = to[e.at]]]
           Entry(i, rate) == FaultEntry(ps, i, rate)
           EntryQ(i, rate) == FaultEntry(qs, i, rate)
<1>1. /\ DOMAIN qs = DOMAIN ps
      /\ \A k \in DOMAIN ps : /\ to[k] \in DOMAIN ps /\ to[to[k]] = k
                              /\ qs[k] = ps[to[k]] /\ ps[k] = qs[to[k]]
                              /\ ps[k].faults \in SUBSET Nat
  BY ReorderedBack, ListEntries DEF Reordered
<1>2. \A i \in DOMAIN ps : \A rate \in ps[i].faults :
        /\ Entry(i, rate) \in E
        /\ EntryQ(to[i], rate) \in F
        /\ m[Entry(i, rate)] = EntryQ(to[i], rate)
  <2> SUFFICES ASSUME NEW i \in DOMAIN ps, NEW rate \in ps[i].faults
               PROVE  /\ Entry(i, rate) \in E
                      /\ EntryQ(to[i], rate) \in F
                      /\ m[Entry(i, rate)] = EntryQ(to[i], rate)
    OBVIOUS
  <2>1. Entry(i, rate) \in E
    BY DEF FaultEntries
  <2>2. EntryQ(to[i], rate) \in F
    BY <1>1 DEF FaultEntries
  <2>3. m[Entry(i, rate)] = [Entry(i, rate) EXCEPT !.at = to[i]]
    <3>1. Entry(i, rate).at = i
      BY DEF FaultEntry
    <3> QED
      BY <2>1, <3>1
  <2>4. [Entry(i, rate) EXCEPT !.at = to[i]] = EntryQ(to[i], rate)
    BY <1>1 DEF FaultEntry
  <2> QED
    BY <2>1, <2>2, <2>3, <2>4, Zenon
<1>3. /\ \A e \in E : \E i \in DOMAIN ps : \E rate \in ps[i].faults : e = Entry(i, rate)
      /\ \A f \in F : \E i \in DOMAIN qs : \E rate \in qs[i].faults : f = EntryQ(i, rate)
  BY DEF FaultEntries
<1>4. \A e \in E : /\ e.share \in Nat /\ m[e] \in F /\ m[e].share = e.share
                   /\ m[e].name = e.name /\ m[e].count = e.count /\ m[e].title = e.title
  <2> SUFFICES ASSUME NEW e \in E
               PROVE  /\ e.share \in Nat /\ m[e] \in F /\ m[e].share = e.share
                      /\ m[e].name = e.name /\ m[e].count = e.count /\ m[e].title = e.title
    OBVIOUS
  <2>1. PICK i \in DOMAIN ps : \E rate \in ps[i].faults : e = Entry(i, rate)
    BY <1>3
  <2>2. PICK rate \in ps[i].faults : e = Entry(i, rate)
    BY <2>1
  <2>3. m[e] = EntryQ(to[i], rate) /\ m[e] \in F
    <3> HIDE DEF m, E, F, Entry, EntryQ
    <3> QED
      BY <1>2, <2>2
  <2>4. rate \in Nat /\ qs[to[i]] = ps[i]
    BY <1>1
  <2> HIDE DEF m, F
  <2> QED
    BY <2>2, <2>3, <2>4 DEF FaultEntry
<1>5. \A d, e \in E : m[d] = m[e] => d = e
  <2> SUFFICES ASSUME NEW d \in E, NEW e \in E, m[d] = m[e]
               PROVE  d = e
    OBVIOUS
  <2>1. PICK i \in DOMAIN ps : \E rate \in ps[i].faults : d = Entry(i, rate)
    BY <1>3
  <2>2. PICK x \in ps[i].faults : d = Entry(i, x)
    BY <2>1
  <2>3. PICK j \in DOMAIN ps : \E rate \in ps[j].faults : e = Entry(j, rate)
    BY <1>3
  <2>4. PICK y \in ps[j].faults : e = Entry(j, y)
    BY <2>3
  <2>5. EntryQ(to[i], x) = EntryQ(to[j], y)
    <3>1. m[d] = EntryQ(to[i], x) /\ m[e] = EntryQ(to[j], y)
      <4> HIDE DEF m, E, F, Entry, EntryQ
      <4> QED
        BY <1>2, <2>2, <2>4
    <3> QED
      BY <3>1
  <2>6. to[i] = to[j] /\ x = y
    BY <2>5 DEF FaultEntry
  <2>7. i = j
    BY <1>1, <2>6
  <2> QED
    BY <2>2, <2>4, <2>6, <2>7
<1>6. \A f \in F : \E e \in E : m[e] = f
  <2> SUFFICES ASSUME NEW f \in F
               PROVE  \E e \in E : m[e] = f
    OBVIOUS
  <2>1. PICK i \in DOMAIN qs : \E rate \in qs[i].faults : f = EntryQ(i, rate)
    BY <1>3
  <2>2. PICK rate \in qs[i].faults : f = EntryQ(i, rate)
    BY <2>1
  <2>3. to[i] \in DOMAIN ps /\ rate \in ps[to[i]].faults /\ to[to[i]] = i
    BY <1>1, <2>2
  <2> HIDE DEF m, E, F, Entry, EntryQ
  <2>4. Entry(to[i], rate) \in E /\ m[Entry(to[i], rate)] = EntryQ(i, rate)
    BY <1>2, <2>3
  <2> QED
    BY <2>2, <2>4
<1>7. g \in E
  BY DEF Leader
<1> HIDE DEF E, F, m
<1>8. m[g] \in Leader(F)
  <2>1. g \in Leader(E)
    BY DEF E
  <2> QED
    BY <1>4, <1>5, <1>6, <2>1, LeadersCorrespond
<1> QED
  BY <1>4, <1>7, <1>8 DEF F

-----------------------------------------------------------------------------
(* Two readings that differ in the order of their process lists. *)
SameInOrder(r, q, to) ==
  /\ Reordered(r.processes, q.processes, to)
  /\ q.cpu = r.cpu
  /\ q.containers = r.containers

(* Either title of a group is one of those it may be called by.            *)
LEMMA CalledReordered ==
  ASSUME NEW ps, NEW qs, NEW to, Reordered(ps, qs, to), NEW n \in NamesIn(ps)
  PROVE  Called(qs, Title(qs, n), n) = Called(ps, Title(ps, n), n)
<1>1. ps \in Seq(ProcessReadings) /\ qs \in Seq(ProcessReadings)
  BY DEF Reordered
<1>2. n \in NamesIn(qs)
  BY GroupsReordered
<1>3. Title(ps, n) \in Titles(ps, n) /\ Title(qs, n) \in Titles(qs, n)
  BY <1>1, <1>2, TitleIsOwn
<1>4. Titles(qs, n) = Titles(ps, n)
  BY TitlesReordered
<1> QED
  BY <1>3, <1>4 DEF Called

(* Who is named in one list is named in the other: cpu_leader,             *)
(* memory_leader, io_leader.                                               *)
LEMMA NamedReordered ==
  ASSUME NEW r, NEW q, NEW to, SameInOrder(r, q, to),
         NEW resource \in {"Cpu", "Memory", "Io"},
         NEW g \in LeaderFor(r, resource)
  PROVE  \E h \in LeaderFor(q, resource) :
           /\ h.name = g.name /\ h.count = g.count
           /\ Called(q.processes, h.title, h.name) = Called(r.processes, g.title, g.name)
<1> DEFINE ps == r.processes
           qs == q.processes
<1>0. Reordered(ps, qs, to) /\ q.cpu = r.cpu
  BY DEF SameInOrder
<1>1. \A n \in NamesIn(ps) \cup NamesIn(qs), figure \in {"cpu", "ws"} :
        /\ EntryOf(ps, n, figure).share \in Nat
        /\ EntryOf(qs, n, figure).share \in Nat
  BY <1>0, EntryFacts DEF Reordered
<1>2. \A e \in Entries(ps, "cpu") \cup Entries(ps, "ws") : e.share \in Nat
  BY <1>1 DEF Entries
<1>3. \A x : GroupByName(x) = {GroupOf(x, n) : n \in NamesIn(x)}
  BY GroupsAreByName
<1>4. \A x : {WithShare(h, h.cpu) : h \in GroupByName(x)} = Entries(x, "cpu")
  BY <1>3 DEF Entries, EntryOf
<1>5. \A x : {WithShare(h, h.ws) : h \in GroupByName(x)} = Entries(x, "ws")
  BY <1>3 DEF Entries, EntryOf
<1>6. CASE resource = "Cpu"
  <2>1. /\ g \in Leader(Entries(ps, "cpu")) /\ g.share >= MinCpuSharePct
        /\ Covers(ps, r.cpu.utilization)
    BY <1>4, <1>6 DEF LeaderFor, CpuLeader
  <2>2. g.share > 0
    BY <1>2, <2>1 DEF Leader, MinCpuSharePct
  <2>3. PICK h \in Leader(Entries(qs, "cpu")) :
          /\ h.name = g.name /\ h.count = g.count /\ h.share = g.share
          /\ h.title = Title(qs, h.name)
    BY <1>0, <2>1, <2>2, GroupLeadersReordered
  <2>6. Called(qs, h.title, h.name) = Called(ps, g.title, g.name)
    <3>1. g.name \in NamesIn(ps) /\ g.title = Title(ps, g.name)
      BY <1>0, <2>1, <2>2, GroupLeadersReordered
    <3> QED
      BY <1>0, <2>3, <3>1, CalledReordered
  <2>4. Covers(qs, q.cpu.utilization)
    BY <1>0, <2>1, GroupsReordered DEF Covers
  <2>5. h \in CpuLeader(q)
    BY <1>4, <2>1, <2>3, <2>4 DEF CpuLeader
  <2> QED
    BY <1>6, <2>3, <2>5, <2>6 DEF LeaderFor
<1>7. CASE resource = "Memory"
  <2> DEFINE total == MemoryOf(ps, DOMAIN ps)
  <2>1. /\ g \in Leader(Entries(ps, "ws"))
        /\ total > 0 /\ 100 * g.share >= MinMemorySharePct * total
    BY <1>5, <1>7 DEF LeaderFor, MemoryLeader, MemoryOf
  <2>2. g.share > 0
    <3>1. total \in Nat /\ g.share \in Nat
      BY <1>0, <1>2, <2>1, ListSums DEF Leader, Reordered
    <3> HIDE DEF total
    <3> QED
      BY <2>1, <3>1 DEF MinMemorySharePct
  <2>3. PICK h \in Leader(Entries(qs, "ws")) :
          /\ h.name = g.name /\ h.count = g.count /\ h.share = g.share
          /\ h.title = Title(qs, h.name)
    BY <1>0, <2>1, <2>2, GroupLeadersReordered
  <2>6. Called(qs, h.title, h.name) = Called(ps, g.title, g.name)
    <3>1. g.name \in NamesIn(ps) /\ g.title = Title(ps, g.name)
      BY <1>0, <2>1, <2>2, GroupLeadersReordered
    <3> QED
      BY <1>0, <2>3, <3>1, CalledReordered
  <2>4. MemoryOf(qs, DOMAIN qs) = total
    BY <1>0, GroupsReordered
  <2>5. h \in MemoryLeader(q)
    BY <1>5, <2>1, <2>3, <2>4 DEF MemoryLeader, MemoryOf
  <2> QED
    BY <1>7, <2>3, <2>5, <2>6 DEF LeaderFor
<1>8. CASE resource = "Io"
  <2>1. g \in Leader(FaultEntries(ps)) /\ g.share > 0
    BY <1>8 DEF LeaderFor, IoLeader, FaultEntries, FaultEntry
  <2>2. PICK h \in Leader(FaultEntries(qs)) :
          h.name = g.name /\ h.count = g.count /\ h.share = g.share /\ h.title = g.title
    BY <1>0, <2>1, FaultLeadersReordered
  <2>3. h \in IoLeader(q)
    BY <2>1, <2>2 DEF IoLeader, FaultEntries, FaultEntry
  <2> QED
    BY <1>0, <1>8, <2>2, <2>3, TitlesReordered DEF LeaderFor, Called
<1> QED
  BY <1>6, <1>7, <1>8

SaidOfOne(ps, a) ==
  <<a.of, a.kind, Called(ps, a.label, a.of), a.remediation, a.count>>

SaidFor(ps, answers) == {SaidOfOne(ps, a) : a \in answers}

(* What is said of two of the same name and number is the same. *)
LEMMA SaidByName ==
  ASSUME NEW g, NEW h, h.name = g.name, h.count = g.count,
         NEW ps, NEW qs, \A n : Titles(qs, n) = Titles(ps, n),
         Called(qs, h.title, h.name) = Called(ps, g.title, g.name),
         NEW containers, NEW resource, NEW a \in AnswersOn(g, containers, resource)
  PROVE  \E b \in AnswersOn(h, containers, resource) : SaidOfOne(qs, b) = SaidOfOne(ps, a)
<1>0. \A label, n : Called(qs, label, n) = Called(ps, label, n)
  BY DEF Called
<1>1. CASE IsDocker(g.name)
  <2> DEFINE named == {Answer(g.name, "Container", c.id, 1, c.id, ContainerRemediation(c)) :
                         c \in ResolveContainer(containers, resource)}
  <2>1. /\ AnswersOn(g, containers, resource) = DockerAnswers(g, containers, resource)
        /\ AnswersOn(h, containers, resource) = DockerAnswers(h, containers, resource)
    BY <1>1, AnswersOnDocker
  <2>2. CASE named # {}
    <3>1. DockerAnswers(g, containers, resource) = DockerAnswers(h, containers, resource)
      BY <2>2 DEF DockerAnswers, Or
    <3> QED
      BY <1>0, <2>1, <3>1 DEF SaidOfOne
  <2>3. CASE named = {}
    <3>1. a = Answer(g.name, "Process", "Docker", 1, g.pid, "ReconfigureLimit")
      BY <2>1, <2>3 DEF DockerAnswers, Or
    <3>2. Answer(h.name, "Process", "Docker", 1, h.pid, "ReconfigureLimit")
            \in AnswersOn(h, containers, resource)
      BY <2>1, <2>3 DEF DockerAnswers, Or
    <3> QED
      BY <1>0, <3>1, <3>2 DEF SaidOfOne, Answer
  <2> QED
    BY <2>2, <2>3
<1>2. CASE ~ IsDocker(g.name) /\ g.name \in DOMAIN SystemRemediation
  <2>1. /\ a = Answer(g.name, "SystemService", g.title, g.count, "none",
                      SystemRemediation[g.name])
        /\ Answer(h.name, "SystemService", h.title, h.count, "none",
                  SystemRemediation[h.name]) \in AnswersOn(h, containers, resource)
    BY <1>2 DEF AnswersOn
  <2> QED
    BY <2>1 DEF SaidOfOne, Answer
<1>3. CASE ~ IsDocker(g.name) /\ g.name \notin DOMAIN SystemRemediation
  <2>1. /\ a = Answer(g.name, "Process", g.title, g.count, g.pid, "Stop")
        /\ Answer(h.name, "Process", h.title, h.count, h.pid, "Stop")
             \in AnswersOn(h, containers, resource)
    BY <1>3 DEF AnswersOn
  <2> QED
    BY <2>1 DEF SaidOfOne, Answer
<1> QED
  BY <1>1, <1>2, <1>3

LEMMA AnswerKept ==
  ASSUME NEW r, NEW q, NEW to, SameInOrder(r, q, to),
         NEW resource \in {"Cpu", "Memory", "Io"}, NEW a \in Attribute(r, resource)
  PROVE  \E b \in Attribute(q, resource) :
           SaidOfOne(q.processes, b) = SaidOfOne(r.processes, a)
<1>1. /\ Attribute(r, resource)
           = UNION {AnswersOn(f, r.containers, resource) : f \in LeaderFor(r, resource)}
      /\ Attribute(q, resource)
           = UNION {AnswersOn(f, q.containers, resource) : f \in LeaderFor(q, resource)}
  BY AttributeAnswers
<1>2. PICK g \in LeaderFor(r, resource) : a \in AnswersOn(g, r.containers, resource)
  BY <1>1
<1>3. PICK h \in LeaderFor(q, resource) :
        /\ h.name = g.name /\ h.count = g.count
        /\ Called(q.processes, h.title, h.name) = Called(r.processes, g.title, g.name)
  BY NamedReordered
<1>4. \A n : Titles(q.processes, n) = Titles(r.processes, n)
  BY TitlesReordered DEF SameInOrder
<1>5. PICK b \in AnswersOn(h, r.containers, resource) :
        SaidOfOne(q.processes, b) = SaidOfOne(r.processes, a)
  BY <1>2, <1>3, <1>4, SaidByName
<1>6. b \in Attribute(q, resource)
  BY <1>1, <1>5 DEF SameInOrder
<1> QED
  BY <1>5, <1>6

LEMMA AttributeReordered ==
  ASSUME NEW r, NEW q, NEW to, SameInOrder(r, q, to),
         NEW resource \in {"Cpu", "Memory", "Io"}
  PROVE  SaidFor(q.processes, Attribute(q, resource))
           = SaidFor(r.processes, Attribute(r, resource))
<1>1. \A a \in Attribute(r, resource) : \E b \in Attribute(q, resource) :
        SaidOfOne(q.processes, b) = SaidOfOne(r.processes, a)
  BY AnswerKept
<1>2. SameInOrder(q, r, to)
  BY ReorderedBack DEF SameInOrder
<1>3. \A a \in Attribute(q, resource) : \E b \in Attribute(r, resource) :
        SaidOfOne(r.processes, b) = SaidOfOne(q.processes, a)
  BY <1>2, AnswerKept
<1> QED
  BY <1>1, <1>3 DEF SaidFor

(* Two neighbours may change places. *)
LEMMA SwapReorders ==
  ASSUME NEW ps \in Seq(ProcessReadings), NEW i \in 1 .. Len(ps) - 1
  PROVE  \E to : Reordered(ps, [ps EXCEPT ![i] = ps[i + 1], ![i + 1] = ps[i]], to)
<1> DEFINE qs == [ps EXCEPT ![i] = ps[i + 1], ![i + 1] = ps[i]]
           to == [k \in DOMAIN ps |-> IF k = i THEN i + 1 ELSE IF k = i + 1 THEN i ELSE k]
<1>1. Len(ps) \in Nat /\ DOMAIN ps = 1 .. Len(ps)
  BY ListEntries
<1>2. i \in DOMAIN ps /\ i + 1 \in DOMAIN ps /\ i + 1 # i
  BY <1>1
<1>3. qs \in Seq(ProcessReadings) /\ DOMAIN qs = DOMAIN ps
  BY <1>1, <1>2
<1>4. to \in [DOMAIN ps -> DOMAIN ps]
  BY <1>2
<1>5. \A k \in DOMAIN ps : to[to[k]] = k /\ qs[k] = ps[to[k]]
  BY <1>2
<1> HIDE DEF to, qs
<1>6. Reordered(ps, qs, to)
  BY <1>3, <1>4, <1>5 DEF Reordered
<1> QED
  BY <1>6 DEF qs

(* What is said does not depend on the order in which Windows lists        *)
(* processes, however many there are and whatever they do, but for the     *)
(* choice among the names by which members of one program go: the sorts of *)
(* cpu_leader, memory_leader and io_leader, and group_by_name.             *)
THEOREM OrderIsIrrelevant == Spec => []OrderDoesNotMatter
<1>1. IInv => OrderDoesNotMatter
  <2> DEFINE ps  == sensed.processes
             Swapped(i) == [ps EXCEPT ![i] = ps[i + 1], ![i + 1] = ps[i]]
  <2> SUFFICES ASSUME IInv, NEW i \in 1 .. Len(ps) - 1
               PROVE  SaidOf(Swapped(i)) = Said(findings, ps)
    BY DEF OrderDoesNotMatter
  <2> DEFINE qs == Swapped(i)
             s  == [sensed EXCEPT !.processes = qs]
             r  == Reading(machine, sensed)
             q  == Reading(machine, s)
             V  == VerdictsOn(machine, sensed, SpecOf(machine))
  <2>1. DOMAIN sensed = Fields
    BY DEF IInv
  <2>2. /\ s.processes = qs
        /\ \A f \in Fields \ {"processes"} : s[f] = sensed[f]
    BY <2>1 DEF Fields
  <2>3. PICK to : Reordered(ps, qs, to)
    BY SensedLists, SwapReorders
  <2> HIDE DEF s, qs, ps
  <2>4. \A spec : CpuReading(machine, s, spec) = CpuReading(machine, sensed, spec)
    BY <2>2 DEF CpuReading, Fields
  <2>5. /\ r.processes = ps /\ q.processes = qs /\ q.cpu = r.cpu
        /\ q.containers = r.containers /\ q.stall = r.stall
    BY <2>2, <2>4 DEF Reading, Stall, Fields, ps
  <2>6. VerdictsOn(machine, s, SpecOf(machine)) = V
    BY <2>4 DEF VerdictsOn
  <2>7. findings = Diagnose(r, V) /\ FindingsOn(machine, s) = Diagnose(q, V)
    BY <2>6 DEF IInv, FindingsOn
  <2>8. ResourceFor(q) = ResourceFor(r) /\ ResourceFor(r) \in {"Cpu", "Memory", "Io"}
    <3>1. r.stall = Stall(sensed)
      BY DEF Reading
    <3>2. WorstResource(r.stall) \in {"Cpu", "Memory", "Io"}
      BY <3>1, SensedStall, WorstResourceIsWorst DEF IsStall
    <3> HIDE DEF r, q
    <3> QED
      BY <2>5, <3>2 DEF ResourceFor
  <2> HIDE DEF r, q, V
  <2>9. SaidFor(qs, Attribute(q, ResourceFor(r)))
          = SaidFor(ps, Attribute(r, ResourceFor(r)))
    <3>1. SameInOrder(r, q, to)
      BY <2>3, <2>5 DEF SameInOrder
    <3> QED
      BY <2>5, <2>8, <3>1, AttributeReordered
  <2>10. ASSUME NEW k \in V
         PROVE  SaidFor(qs, Diagnose(q, V)[k])
                  = SaidFor(ps, Diagnose(r, V)[k])
    <3>1. CASE k = "PowerBelowRating"
      <4> DEFINE supply == Answer("none", "PowerState", "power supply", 1, "none",
                                  "ChangePowerState")
      <4>1. Diagnose(q, V)[k] = {supply} /\ Diagnose(r, V)[k] = {supply}
        BY <2>10, <3>1 DEF Diagnose
      <4>2. Called(qs, supply.label, supply.of) = Called(ps, supply.label, supply.of)
        BY <2>3, TitlesReordered DEF Called
      <4> HIDE DEF supply
      <4> QED
        BY <4>1, <4>2 DEF SaidFor, SaidOfOne
    <3>2. CASE k # "PowerBelowRating"
      <4>1. Diagnose(q, V)[k] = Attribute(q, ResourceFor(r))
            /\ Diagnose(r, V)[k] = Attribute(r, ResourceFor(r))
        BY <2>8, <2>10, <3>2 DEF Diagnose
      <4> QED
        BY <2>9, <4>1
    <3> QED
      BY <3>1, <3>2
  <2>11. DOMAIN Diagnose(q, V) = V /\ DOMAIN Diagnose(r, V) = V
    BY DEF Diagnose
  <2>12. \A fs, l : Said(fs, l) = [k \in DOMAIN fs |-> SaidFor(l, fs[k])]
    BY DEF Said, SaidFor, SaidOfOne
  <2>13. Said(Diagnose(q, V), qs) = Said(Diagnose(r, V), ps)
    BY <2>10, <2>11, <2>12
  <2>14. SaidOf(qs) = Said(FindingsOn(machine, s), qs)
    BY DEF SaidOf, s
  <2> QED
    BY <2>7, <2>13, <2>14 DEF qs
<1> QED
  BY <1>1, Invariant, PTL
=============================================================================
