---------------------------- MODULE SensorsProofs ----------------------------
(***************************************************************************)
(* That package power is what was drawn, for every width of the counter,   *)
(* every draw and any pattern of passes that fail; and that a temperature  *)
(* is one that a register or processor holds, and of the one whose name it *)
(* has unless the guard was not acquired, for any number of them.          *)
(*                                                                         *)
(* The result of a pass is a difference of two counts, so the invariant    *)
(* relates the counter to the count before: it is ahead by what was drawn  *)
(* since, or has wrapped and is behind by what is missing to a whole turn. *)
(***************************************************************************)
EXTENDS Sensors, NaturalFacts

Counter == 0 .. COUNTER_MODULUS - 1

CounterTypes ==
  /\ energy \in Counter
  /\ previous \in Counter \cup {None}
  /\ drawn \in 0 .. COUNTER_MODULUS

Ahead ==
  previous # None /\ drawn < COUNTER_MODULUS
    => energy \in {previous + drawn, previous + drawn - COUNTER_MODULUS}

IInv == CounterTypes /\ Ahead /\ WattsAreDrawn

-----------------------------------------------------------------------------
(* A sum of less than two turns comes round once at the most. *)
LEMMA Wraps ==
  ASSUME NEW m \in Nat \ {0}, NEW n \in Nat, n < m + m
  PROVE  n % m = IF n < m THEN n ELSE n - m
<1>1. CASE n < m
  BY <1>1
<1>2. CASE n >= m
  <2>1. n = m * 1 + (n - m) /\ n - m \in 0 .. m - 1
    BY <1>2
  <2> QED BY <1>2, <2>1
<1> QED BY <1>1, <1>2

(* Ticks undoes at most one wrap, and does so exactly. *)
LEMMA TicksAreDrawn ==
  ASSUME CounterTypes, Ahead, previous # None, drawn < COUNTER_MODULUS
  PROVE  Ticks(previous, energy) = drawn
<1> USE SensorsAssumption DEF CounterTypes, Counter
<1>1. CASE energy = previous + drawn
  BY <1>1 DEF Ticks
<1>2. CASE energy = previous + drawn - COUNTER_MODULUS
  BY <1>2 DEF Ticks
<1> QED BY <1>1, <1>2 DEF Ahead

LEMMA DrawKeeps ==
  ASSUME IInv, NEW e \in Draws, Draw(e), UNCHANGED previous
  PROVE  CounterTypes' /\ Ahead'
<1>1. e \in Nat /\ COUNTER_MODULUS \in Nat \ {0}
  BY SensorsAssumption
<1>2. energy \in Nat /\ energy < COUNTER_MODULUS /\ drawn \in Nat
  BY <1>1 DEF IInv, CounterTypes, Counter
<1>3. energy + e \in Nat
  BY <1>1, <1>2
<1>4. (energy + e) % COUNTER_MODULUS \in 0 .. COUNTER_MODULUS - 1
  BY <1>1, <1>3
<1>5. CounterTypes'
  BY <1>1, <1>2, <1>4 DEF Draw, IInv, CounterTypes, Counter
<1>6. CASE drawn + e < COUNTER_MODULUS
  <2>1. energy' = IF energy + e < COUNTER_MODULUS THEN energy + e
                  ELSE energy + e - COUNTER_MODULUS
    <3>1. energy + e < COUNTER_MODULUS + COUNTER_MODULUS
      BY <1>1, <1>2, <1>6
    <3> DEFINE n == energy + e
    <3> HIDE DEF n
    <3>2. n % COUNTER_MODULUS = IF n < COUNTER_MODULUS THEN n ELSE n - COUNTER_MODULUS
      BY <1>1, <1>3, <3>1, Wraps DEF n
    <3> QED BY <1>1, <1>2, <3>2 DEF Draw, n
  <2>2. drawn' = drawn + e
    BY <1>6 DEF Draw
  <2>3. Ahead'
    BY <1>1, <1>2, <1>5, <1>6, <2>1, <2>2 DEF IInv, Ahead, CounterTypes, Counter
  <2> QED BY <1>5, <2>3
<1>7. CASE ~ (drawn + e < COUNTER_MODULUS)
  BY <1>1, <1>5, <1>7 DEF Draw, Ahead
<1> QED BY <1>6, <1>7

LEMMA AbsentIsDrawn == watts' = Absent => WattsAreDrawn'
BY DEF WattsAreDrawn

LEMMA BeginKeeps ==
  ASSUME IInv, Begin
  PROVE  IInv'
<1>1. WattsAreDrawn'
  BY AbsentIsDrawn DEF Begin
<1>2. CASE \E e \in Draws : Draw(e)
  BY <1>1, <1>2, DrawKeeps DEF Begin, IInv
<1>3. CASE energy' = 0 /\ drawn' = COUNTER_MODULUS
  BY <1>1, <1>3, SensorsAssumption DEF Begin, IInv, CounterTypes, Counter, Ahead
<1>4. CASE UNCHANGED <<energy, drawn>>
  BY <1>1, <1>4 DEF Begin, IInv, CounterTypes, Ahead
<1> QED BY <1>2, <1>3, <1>4 DEF Begin

LEMMA AcquireKeeps ==
  ASSUME IInv, Acquire
  PROVE  IInv'
<1>1. WattsAreDrawn' /\ UNCHANGED previous
  BY DEF Acquire, IInv, WattsAreDrawn
<1>2. CASE \E e \in Draws : Draw(e)
  BY <1>1, <1>2, DrawKeeps DEF IInv
<1>3. CASE UNCHANGED <<energy, drawn>>
  BY <1>1, <1>3 DEF IInv, CounterTypes, Ahead
<1> QED BY <1>2, <1>3 DEF Acquire

LEMMA ReadPowerKeeps ==
  ASSUME IInv, ReadPower
  PROVE  IInv'
<1>1. CASE previous' = energy /\ watts' = Watts /\ drawn' = 0
  <2>1. CounterTypes' /\ Ahead'
    BY <1>1, SensorsAssumption DEF ReadPower, IInv, CounterTypes, Counter, Ahead
  <2>2. ASSUME watts' # Absent PROVE previous # None /\ watts'.ticks = Ticks(previous, energy)
                                      /\ watts'.drawn = drawn
    BY <1>1, <2>2 DEF Watts
  <2>3. WattsAreDrawn'
    BY <2>2, TicksAreDrawn DEF IInv, WattsAreDrawn
  <2> QED BY <2>1, <2>3 DEF IInv
<1>2. CASE watts' = Absent /\ UNCHANGED <<previous, drawn>>
  BY <1>2, AbsentIsDrawn DEF ReadPower, IInv, CounterTypes, Ahead
<1> QED BY <1>1, <1>2 DEF ReadPower

LEMMA NextKeeps == IInv /\ [Next]_vars => IInv'
<1> SUFFICES ASSUME IInv, [Next]_vars PROVE IInv'
  OBVIOUS
<1>1. ASSUME UNCHANGED powervars PROVE IInv'
  BY <1>1 DEF powervars, IInv, CounterTypes, Ahead, WattsAreDrawn
<1>2. CASE Begin
  BY <1>2, BeginKeeps
<1>3. CASE Acquire
  BY <1>3, AcquireKeeps
<1>4. CASE ReadPower
  BY <1>4, ReadPowerKeeps
<1>5. CASE New \/ WriteIndex \/ ReadData \/ ReadTable \/ ReadPackage \/ Pin \/ ReadProcessor
  BY <1>5, <1>1 DEF New, WriteIndex, ReadData, ReadTable, ReadPackage, Pin, ReadProcessor
<1>6. CASE Peer \/ Migrate
  BY <1>6, <1>1 DEF Peer, PeerTakes, PeerWrites, PeerReleases, Migrate
<1>7. CASE UNCHANGED vars
  BY <1>7, <1>1 DEF vars
<1> QED
  BY <1>2, <1>3, <1>4, <1>5, <1>6, <1>7 DEF Next, Helper

(* A figure for package power is made of exactly the energy that was drawn *)
(* since the count before, however many passes in between had none and     *)
(* wherever the counter wrapped, as long as it wrapped once at the most.   *)
THEOREM PowerIsWhatWasDrawn == Spec => []WattsAreDrawn
<1>1. Init => IInv
  BY SensorsAssumption DEF Init, IInv, CounterTypes, Counter, Ahead, WattsAreDrawn, None
<1>2. IInv => WattsAreDrawn
  BY DEF IInv
<1> QED BY <1>1, <1>2, NextKeeps, PTL DEF Spec

-----------------------------------------------------------------------------
(* What may be read at all, besides what another tool has in the index.    *)
Names == ToSet(Registers) \cup ToSet(Cores) \cup ToSet(Processors) \cup {"package"}

ZoneSet == [label : Names, of : populated]

ReadTypes ==
  /\ todo \in Seq(Names)
  /\ pc \in {"acquire", "index", "data"} => vendor = "Amd"
  /\ pc \in {"acquire", "index", "data", "landed"} => todo # <<>>
  /\ reading \in [package : {"none"} \cup populated, zones : Seq(ZoneSet)]
  /\ pc \in {"new", "sleeping", "acquire", "tjmax"} => reading = NoReading

(* While the guard is held no other tool has the mutex, and so the index   *)
(* register is what was written.                                           *)
KeptOut ==
  /\ peer = "owns" => owner = "peer"
  /\ pc \in {"index", "data"} /\ covered => owner \in {"helper", "kept"}
  /\ pc = "data" /\ covered => index = Head(todo)

IsOwn(z) == z.of = z.label \/ {z.of, z.label} \subseteq ToSet(Cores)

OwnIn(rd) ==
  /\ rd.package \in {"none", Registers[1], "package"}
  /\ \A i \in DOMAIN rd.zones : IsOwn(rd.zones[i])

OwnReading == (vendor = "Amd" => covered) => OwnIn(reading)

ReadInv == ReadTypes /\ KeptOut /\ OwnReading

-----------------------------------------------------------------------------
(* The lists are sequences of names. *)
LEMMA ListsOfNames ==
  /\ Registers \in Seq(Names) /\ Processors \in Seq(Names) /\ Registers # <<>>
  /\ \A i \in DOMAIN Cores : Cores[i] \in ToSet(Cores) /\ Cores[i] \in Names
  /\ DOMAIN Cores = 1 .. Len(Cores) /\ Len(Cores) \in Nat
<1>1. /\ Registers \in Seq(ToSet(Registers)) /\ Cores \in Seq(ToSet(Cores))
      /\ Processors \in Seq(ToSet(Processors)) /\ Len(Registers) > 0
  BY SensorsAssumption
<1>2. \A i \in DOMAIN Cores : Cores[i] \in ToSet(Cores)
  BY DEF ToSet
<1>3. /\ ToSet(Registers) \subseteq Names /\ ToSet(Processors) \subseteq Names
      /\ ToSet(Cores) \subseteq Names
  BY DEF Names
<1> QED
  BY <1>1, <1>2, <1>3

(* The values that are read of an empty register fall to the plausibility  *)
(* check, in every one of the three decodings.                             *)
LEMMA OnlyWhatIsThere ==
  ASSUME NEW r, NEW raw \in Contents(r)
  PROVE  /\ IsPlausible(Die(raw)) => r \in populated
         /\ IsPlausible(CCD(raw)) => r \in populated
         /\ \A l, o : Readout(raw, l, o) \in {<<>>, <<Zone(l, o)>>}
         /\ \A l, o : Readout(raw, l, o) # <<>> => r \in populated
<1>1. 2047 % 128 = 127
  <2>1. 2047 = 128 * 15 + 127
    OBVIOUS
  <2> QED
    BY <2>1
<1>2. r \in populated \/ raw = Zeros \/ raw = Ones
  BY DEF Contents
<1>3. CASE raw = Zeros
  BY <1>3 DEF Zeros, IsPlausible, Die, CCD, None, Readout, Limit
<1>4. CASE raw = Ones
  BY <1>1, <1>4 DEF Ones, IsPlausible, Die, CCD, None, Readout, Limit
<1>5. CASE r \in populated
  BY <1>5 DEF Readout
<1> QED
  BY <1>2, <1>3, <1>4, <1>5

(* What is kept of the block is at most as long, populated, and cores. *)
LEMMA PlausibleIsPopulated ==
  LET found == Plausible(Cores) IN
  /\ found \in Seq(populated \cap ToSet(Cores))
  /\ Len(found) <= Len(Cores)
<1> DEFINE kept    == {i \in DOMAIN Cores : Cores[i] \in populated}
           upTo(i) == {j \in kept : j <= i}
           from(k) == {i \in kept : Cardinality(upTo(i)) >= k}
           found   == [k \in 1 .. Cardinality(kept) |-> Cores[Min(from(k))]]
<1>1. kept \subseteq 1 .. Len(Cores) /\ Len(Cores) \in Nat
  BY ListsOfNames
<1>2. /\ IsFiniteSet(kept) /\ Cardinality(kept) \in Nat
      /\ Cardinality(kept) <= Len(Cores)
  <2>1. IsFiniteSet(1 .. Len(Cores)) /\ Cardinality(1 .. Len(Cores)) = Len(Cores)
    <3> DEFINE n == Len(Cores)
    <3>1. n \in Nat
      BY <1>1
    <3> HIDE DEF n
    <3>2. IsFiniteSet(1 .. n) /\ Cardinality(1 .. n) = IF 1 > n THEN 0 ELSE n - 1 + 1
      BY <3>1, FS_Interval
    <3>3. Cardinality(1 .. n) = n
      BY <3>1, <3>2
    <3> QED
      BY <3>2, <3>3 DEF n
  <2>2. IsFiniteSet(kept) /\ Cardinality(kept) <= Cardinality(1 .. Len(Cores))
    <3> HIDE DEF kept
    <3> QED
      BY <1>1, <2>1, FS_Subset
  <2> HIDE DEF kept
  <2> QED
    BY <2>1, <2>2, FS_CardinalityType
<1>3. ASSUME NEW k \in 1 .. Cardinality(kept)
      PROVE  Min(from(k)) \in kept
  <2>1. kept # {}
    <3> HIDE DEF kept
    <3> QED
      BY <1>2, FS_EmptySet
  <2>2. PICK g \in kept : \A x \in kept : x <= g
    <3> HIDE DEF kept
    <3>1. kept \in SUBSET Nat /\ \A x \in kept : x <= Len(Cores)
      BY <1>1
    <3> QED
      BY <1>1, <2>1, <3>1, GreatestExists
  <2>3. upTo(g) = kept
    BY <2>2
  <2>4. g \in from(k)
    <3> HIDE DEF kept, upTo
    <3>1. Cardinality(upTo(g)) >= k
      BY <1>2, <2>3
    <3> QED
      BY <3>1
  <2>5. from(k) \in SUBSET Nat /\ from(k) \subseteq kept
    BY <1>1
  <2> HIDE DEF from, kept
  <2>6. \E m \in from(k) : \A x \in from(k) : m <= x
    BY <2>4, <2>5, LeastExists
  <2>7. Min(from(k)) \in from(k)
    BY <2>6 DEF Min
  <2> QED
    BY <2>5, <2>7
<1>4. \A k \in 1 .. Cardinality(kept) : found[k] \in populated \cap ToSet(Cores)
  <2>1. \A i \in kept : Cores[i] \in populated \cap ToSet(Cores)
    BY ListsOfNames
  <2> HIDE DEF kept, from
  <2> QED
    BY <1>3, <2>1
<1>5. Plausible(Cores) = found
  BY DEF Plausible
<1> HIDE DEF kept, from
<1>6. found \in Seq(populated \cap ToSet(Cores)) /\ Len(found) = Cardinality(kept)
  BY <1>2, <1>4
<1> QED
  BY <1>2, <1>5, <1>6

(* What the driver writes is one word of the register, or nothing. *)
LEMMA OneWord ==
  ASSUME NEW r, NEW answer \in Execute(r), answer.out # <<>>
  PROVE  Head(answer.out) \in Contents(r)
<1>1. answer.out = <<>> \/ \E raw \in Contents(r) : answer.out = <<raw>>
  BY DEF Execute, Failed
<1> QED
  BY <1>1

-----------------------------------------------------------------------------
LEMMA ReadInit == Init => ReadInv
<1> SUFFICES ASSUME Init PROVE ReadInv
  OBVIOUS
<1>1. NoReading \in [package : {"none"} \cup populated, zones : Seq(ZoneSet)]
  BY DEF NoReading
<1>2. OwnIn(NoReading)
  BY DEF NoReading, OwnIn
<1> QED
  BY <1>1, <1>2 DEF Init, ReadInv, ReadTypes, KeptOut, OwnReading

LEMMA PeerKeepsReading ==
  ASSUME ReadInv, Peer \/ Migrate
  PROVE  ReadInv'
<1>1. UNCHANGED <<partvars, pc, todo, reading, covered>>
  BY DEF Peer, PeerTakes, PeerWrites, PeerReleases, Migrate
<1>2. ReadTypes' /\ OwnReading'
  BY <1>1 DEF ReadInv, ReadTypes, OwnReading, partvars, ZoneSet
<1>3. KeptOut'
  BY <1>1 DEF ReadInv, KeptOut, Peer, PeerTakes, PeerWrites, PeerReleases, Migrate, mutexvars
<1> QED
  BY <1>2, <1>3 DEF ReadInv

(* A pass starts from nothing, and New does not start one. *)
LEMMA BeginKeepsReading ==
  ASSUME ReadInv, New \/ Begin
  PROVE  ReadInv'
<1>1. UNCHANGED <<vendor, populated, reading, covered, mutexvars, index, peer>>
  BY DEF New, Begin, partvars
<1>2. reading = NoReading
  BY DEF New, Begin, ReadInv, ReadTypes
<1>3. todo' \in Seq(Names)
  <2>1. todo' \in {todo, <<>>, Registers, Processors}
    BY DEF New, Begin, FirstStep
  <2>2. todo \in Seq(Names)
    BY DEF ReadInv, ReadTypes
  <2>3. <<>> \in Seq(Names)
    OBVIOUS
  <2> QED
    BY <2>1, <2>2, <2>3, ListsOfNames
<1>4. /\ pc' \in {"sleeping", "watts", "acquire", "tjmax"}
      /\ pc' = "acquire" => vendor = "Amd" /\ todo' # <<>>
  BY ListsOfNames DEF New, Begin, FirstStep
<1> QED
  BY <1>1, <1>2, <1>3, <1>4
  DEF ReadInv, ReadTypes, KeptOut, OwnReading, mutexvars, ZoneSet

LEMMA AcquireKeepsReading ==
  ASSUME ReadInv, Acquire
  PROVE  ReadInv'
<1>1. /\ UNCHANGED <<vendor, populated, todo, reading, index, peer>>
      /\ pc = "acquire" /\ pc' = "index" /\ covered' = acquired'
  BY DEF Acquire, partvars
<1>2. vendor = "Amd" /\ todo # <<>> /\ reading = NoReading
  BY <1>1 DEF ReadInv, ReadTypes
<1>3. OwnIn(reading)
  BY <1>2 DEF NoReading, OwnIn
<1>4. \/ UNCHANGED owner /\ ~ acquired'
      \/ owner # "peer" /\ owner' \in {"helper", "kept"}
  BY DEF Acquire, Take, mutexvars
<1>5. KeptOut'
  BY <1>1, <1>4 DEF ReadInv, KeptOut
<1> QED
  BY <1>1, <1>2, <1>3, <1>5 DEF ReadInv, ReadTypes, OwnReading, ZoneSet

LEMMA WriteIndexKeepsReading ==
  ASSUME ReadInv, WriteIndex
  PROVE  ReadInv'
<1>1. /\ UNCHANGED <<vendor, populated, todo, reading, covered, mutexvars, peer>>
      /\ pc = "index" /\ pc' = "data" /\ index' = Head(todo)
  BY DEF WriteIndex, partvars
<1> QED
  BY <1>1 DEF ReadInv, ReadTypes, KeptOut, OwnReading, mutexvars, ZoneSet

(* What a register gives is of a register that holds something, and of the *)
(* one that was asked for if the guard is held.                            *)
LEMMA DecodedIsOwn ==
  ASSUME ReadInv, pc = "data", NEW raw \in Contents(index)
  PROVE  LET new == Decoded(Head(todo), raw) IN
         /\ new \in [package : {"none"} \cup populated, zones : Seq(ZoneSet)]
         /\ (vendor = "Amd" => covered) => OwnIn(new)
<1> DEFINE r   == Head(todo)
           new == Decoded(r, raw)
<1>1. todo \in Seq(Names) /\ todo # <<>> /\ r \in Names /\ vendor = "Amd"
  BY DEF ReadInv, ReadTypes
<1>2. /\ reading \in [package : {"none"} \cup populated, zones : Seq(ZoneSet)]
      /\ (vendor = "Amd" => covered) => OwnIn(reading) /\ index = r
  BY <1>1 DEF ReadInv, ReadTypes, KeptOut, OwnReading
<1>3. CASE new = reading
  BY <1>2, <1>3
<1>4. CASE /\ r = Registers[1] /\ index \in populated
           /\ new = [reading EXCEPT !.package = index]
  <2>1. new \in [package : {"none"} \cup populated, zones : Seq(ZoneSet)]
    BY <1>2, <1>4
  <2>2. new.package = index /\ new.zones = reading.zones
    BY <1>2, <1>4
  <2> HIDE DEF new
  <2> QED
    BY <1>2, <1>4, <2>1, <2>2 DEF OwnIn, new
<1>5. CASE /\ index \in populated
           /\ new = [reading EXCEPT !.zones = Append(reading.zones, Zone(r, index))]
  <2>1. Zone(r, index) \in ZoneSet
    BY <1>1, <1>5 DEF Zone, ZoneSet
  <2>2. reading.zones \in Seq(ZoneSet)
    BY <1>2
  <2>3. Append(reading.zones, Zone(r, index)) \in Seq(ZoneSet)
    BY <2>1, <2>2
  <2>4. new.zones = Append(reading.zones, Zone(r, index)) /\ new.package = reading.package
    BY <1>2, <1>5
  <2>5. new \in [package : {"none"} \cup populated, zones : Seq(ZoneSet)]
    BY <1>2, <1>5, <2>3
  <2> HIDE DEF new
  <2>6. ASSUME vendor = "Amd" => covered, NEW i \in DOMAIN new.zones
        PROVE  IsOwn(new.zones[i])
    <3>1. CASE i \in DOMAIN reading.zones
      <4>1. new.zones[i] = reading.zones[i]
        BY <2>1, <2>2, <2>4, <3>1
      <4> QED
        BY <4>1, <3>1, <2>6, <1>2 DEF OwnIn
    <3>2. CASE i \notin DOMAIN reading.zones
      <4>1. new.zones[i] = Zone(r, index)
        BY <2>1, <2>2, <2>4, <2>6, <3>2
      <4> QED
        BY <4>1, <2>6, <1>2 DEF IsOwn, Zone
    <3> QED
      BY <3>1, <3>2
  <2> QED
    BY <1>2, <2>4, <2>5, <2>6 DEF OwnIn, new
<1> QED
  BY <1>3, <1>4, <1>5, OnlyWhatIsThere DEF Decoded

LEMMA ReadDataKeepsReading ==
  ASSUME ReadInv, ReadData
  PROVE  ReadInv'
<1>1. /\ UNCHANGED <<vendor, populated, covered, index, peer>> /\ pc = "data"
      /\ pc' \in {"index", "table", "watts"}
      /\ pc' = "index" => todo' # <<>> /\ UNCHANGED mutexvars
  BY DEF ReadData, partvars
<1>2. todo \in Seq(Names) /\ todo # <<>> /\ vendor = "Amd"
  BY <1>1 DEF ReadInv, ReadTypes
<1>3. PICK answer \in Execute(index) :
        /\ reading' = IF answer.out = <<>> THEN reading
                      ELSE Decoded(Head(todo), Head(answer.out))
        /\ todo' \in {<<>>, Tail(todo)}
  BY DEF ReadData
<1>4. todo' \in Seq(Names)
  <2>1. <<>> \in Seq(Names)
    OBVIOUS
  <2>2. Tail(todo) \in Seq(Names)
    BY <1>2
  <2> QED
    BY <1>3, <2>1, <2>2, Zenon
<1>5. /\ reading' \in [package : {"none"} \cup populated, zones : Seq(ZoneSet)]
      /\ (vendor = "Amd" => covered) => OwnIn(reading')
  <2>1. CASE answer.out = <<>>
    BY <1>3, <2>1 DEF ReadInv, ReadTypes, OwnReading
  <2>2. CASE answer.out # <<>>
    <3>1. Head(answer.out) \in Contents(index)
      BY <2>2, OneWord
    <3>2. reading' = Decoded(Head(todo), Head(answer.out))
      BY <1>3, <2>2
    <3> QED
      BY <1>1, <3>1, <3>2, DecodedIsOwn
  <2> QED
    BY <2>1, <2>2
<1>6. owner' = "peer" <=> owner = "peer"
  BY <1>1 DEF ReadData, Release, mutexvars
<1>7. KeptOut'
  BY <1>1, <1>6 DEF ReadInv, KeptOut, mutexvars
<1> QED
  BY <1>1, <1>2, <1>4, <1>5, <1>7 DEF ReadInv, ReadTypes, OwnReading, ZoneSet

(* What is added to the zones is a sequence of own readings. *)
LEMMA MoreZones ==
  ASSUME ReadInv, NEW more \in Seq(ZoneSet), \A i \in DOMAIN more : IsOwn(more[i]),
         reading' = [reading EXCEPT !.zones = reading.zones \o more]
  PROVE  /\ reading' \in [package : {"none"} \cup populated, zones : Seq(ZoneSet)]
         /\ (vendor = "Amd" => covered) => OwnIn(reading')
<1>1. /\ reading \in [package : {"none"} \cup populated, zones : Seq(ZoneSet)]
      /\ (vendor = "Amd" => covered) => OwnIn(reading)
  BY DEF ReadInv, ReadTypes, OwnReading
<1>2. reading.zones \in Seq(ZoneSet)
  BY <1>1
<1>3. reading'.package = reading.package /\ reading'.zones = reading.zones \o more
  BY <1>1
<1>4. reading' \in [package : {"none"} \cup populated, zones : Seq(ZoneSet)]
  <2>1. reading.zones \o more \in Seq(ZoneSet)
    BY <1>2
  <2> QED
    BY <1>1, <2>1
<1>5. ASSUME OwnIn(reading), NEW i \in DOMAIN (reading.zones \o more)
      PROVE  IsOwn((reading.zones \o more)[i])
  <2>1. CASE i \in DOMAIN reading.zones
    <3>1. (reading.zones \o more)[i] = reading.zones[i]
      BY <1>2, <2>1
    <3> QED
      BY <3>1, <2>1, <1>5 DEF OwnIn
  <2>2. CASE i \notin DOMAIN reading.zones
    <3> DEFINE j == i - Len(reading.zones)
    <3>1. j \in DOMAIN more /\ (reading.zones \o more)[i] = more[j]
      BY <1>2, <1>5, <2>2
    <3> QED
      BY <3>1
  <2> QED
    BY <2>1, <2>2
<1> QED
  BY <1>1, <1>3, <1>4, <1>5 DEF OwnIn

LEMMA ReadTableKeepsReading ==
  ASSUME ReadInv, ReadTable
  PROVE  ReadInv'
<1>1. /\ UNCHANGED <<vendor, populated, todo, covered, mutexvars, index, peer>>
      /\ pc = "table" /\ pc' = "watts"
  BY DEF ReadTable, partvars
<1>2. /\ reading' \in [package : {"none"} \cup populated, zones : Seq(ZoneSet)]
      /\ (vendor = "Amd" => covered) => OwnIn(reading')
  <2>1. CASE UNCHANGED reading
    BY <2>1 DEF ReadInv, ReadTypes, OwnReading
  <2>2. CASE Snapshot
    <3> DEFINE found == Plausible(Cores)
               more  == [i \in DOMAIN found |-> Zone(Cores[i], found[i])]
    <3>1. found \in Seq(populated \cap ToSet(Cores)) /\ Len(found) <= Len(Cores)
      BY PlausibleIsPopulated
    <3>2. reading' = [reading EXCEPT !.zones = reading.zones \o more]
      BY <2>2 DEF Snapshot
    <3> HIDE DEF found
    <3>3. DOMAIN found = 1 .. Len(found) /\ Len(found) \in Nat
      BY <3>1
    <3>4. \A i \in DOMAIN found : i \in DOMAIN Cores /\ found[i] \in populated \cap ToSet(Cores)
      BY <3>1, <3>3, ListsOfNames
    <3>5. \A i \in DOMAIN found : more[i] \in ZoneSet /\ IsOwn(more[i])
      BY <3>4, ListsOfNames DEF Zone, ZoneSet, IsOwn
    <3>6. more \in Seq(ZoneSet) /\ DOMAIN more = DOMAIN found
      BY <3>3, <3>5
    <3> HIDE DEF more
    <3> QED
      BY <3>2, <3>5, <3>6, MoreZones
  <2> QED
    BY <2>1, <2>2 DEF ReadTable
<1> QED
  BY <1>1, <1>2 DEF ReadInv, ReadTypes, KeptOut, OwnReading, mutexvars, ZoneSet

LEMMA ReadPackageKeepsReading ==
  ASSUME ReadInv, ReadPackage
  PROVE  ReadInv'
<1>1. /\ UNCHANGED <<vendor, populated, todo, covered, mutexvars, index, peer>>
      /\ pc = "tjmax" /\ pc' \in {"watts", "pin"}
  BY DEF ReadPackage, partvars
<1>2. /\ reading \in [package : {"none"} \cup populated, zones : Seq(ZoneSet)]
      /\ (vendor = "Amd" => covered) => OwnIn(reading)
  BY DEF ReadInv, ReadTypes, OwnReading
<1>3. /\ reading' \in [package : {"none"} \cup populated, zones : Seq(ZoneSet)]
      /\ (vendor = "Amd" => covered) => OwnIn(reading')
  <2>1. CASE reading' = reading
    BY <1>2, <2>1
  <2>2. CASE reading' # reading
    <3>1. PICK word \in ReadMSR("package") :
            /\ word # <<>> /\ Readout(Head(word), "package", "package") # <<>>
            /\ reading' = [reading EXCEPT !.package = "package"]
      BY <2>2 DEF ReadPackage
    <3>2. Head(word) \in Contents("package")
      BY <3>1, OneWord DEF ReadMSR
    <3>3. "package" \in populated
      BY <3>1, <3>2, OnlyWhatIsThere
    <3>4. reading'.package = "package" /\ reading'.zones = reading.zones
      BY <1>2, <3>1
    <3>5. reading' \in [package : {"none"} \cup populated, zones : Seq(ZoneSet)]
      BY <1>2, <3>1, <3>3
    <3> QED
      BY <1>2, <3>4, <3>5 DEF OwnIn
  <2> QED
    BY <2>1, <2>2
<1> QED
  BY <1>1, <1>3 DEF ReadInv, ReadTypes, KeptOut, OwnReading, mutexvars, ZoneSet

LEMMA PinKeepsReading ==
  ASSUME ReadInv, Pin
  PROVE  ReadInv'
<1>1. /\ UNCHANGED <<vendor, populated, reading, covered, mutexvars, index, peer>>
      /\ pc' \in {"watts", "landed", "pin"} /\ (pc' = "landed" => todo' # <<>>)
  BY DEF Pin, partvars
<1>2. todo' \in Seq(Names)
  <2>1. todo \in Seq(Names)
    BY DEF ReadInv, ReadTypes
  <2>2. CASE todo = <<>>
    BY <2>1, <2>2 DEF Pin
  <2>3. CASE todo # <<>>
    <3>1. Tail(todo) \in Seq(Names)
      BY <2>1, <2>3
    <3>2. todo' = todo \/ todo' = Tail(todo)
      BY <2>3, Zenon DEF Pin
    <3> QED
      BY <2>1, <3>1, <3>2
  <2> QED
    BY <2>2, <2>3
<1> QED
  BY <1>1, <1>2 DEF ReadInv, ReadTypes, KeptOut, OwnReading, mutexvars, ZoneSet

LEMMA ReadProcessorKeepsReading ==
  ASSUME ReadInv, ReadProcessor
  PROVE  ReadInv'
<1>1. /\ UNCHANGED <<vendor, populated, covered, mutexvars, index, peer>>
      /\ pc = "landed" /\ pc' = "pin" /\ todo' = Tail(todo)
  BY DEF ReadProcessor, partvars
<1>2. todo \in Seq(Names) /\ todo # <<>>
  BY <1>1 DEF ReadInv, ReadTypes
<1>3. todo' \in Seq(Names) /\ Head(todo) \in Names
  BY <1>1, <1>2
<1>4. PICK word \in IF Landed THEN ReadMSR(on) ELSE {<<>>} :
        reading' = IF word = <<>> THEN reading
                   ELSE [reading EXCEPT !.zones = @ \o Readout(Head(word), Head(todo), on)]
  BY DEF ReadProcessor
<1>5. /\ reading' \in [package : {"none"} \cup populated, zones : Seq(ZoneSet)]
      /\ (vendor = "Amd" => covered) => OwnIn(reading')
  <2>1. CASE word = <<>>
    BY <1>4, <2>1 DEF ReadInv, ReadTypes, OwnReading
  <2>2. CASE word # <<>>
    <3> DEFINE more == Readout(Head(word), Head(todo), on)
    <3>1. Landed /\ word \in ReadMSR(on)
      BY <2>2, <1>4
    <3>2. Head(word) \in Contents(on)
      BY <2>2, <3>1, OneWord DEF ReadMSR
    <3>3. more \in {<<>>, <<Zone(Head(todo), on)>>} /\ (more # <<>> => on \in populated)
      BY <3>2, OnlyWhatIsThere
    <3>4. on = Head(todo)
      BY <3>1 DEF Landed
    <3>5. reading' = [reading EXCEPT !.zones = reading.zones \o more]
      BY <1>4, <2>2
    <3> HIDE DEF more
    <3>6. more \in Seq(ZoneSet) /\ \A i \in DOMAIN more : IsOwn(more[i])
      <4>1. CASE more = <<>>
        BY <4>1
      <4>2. CASE more # <<>>
        <5>1. Zone(Head(todo), on) \in ZoneSet /\ IsOwn(Zone(Head(todo), on))
          BY <1>3, <3>3, <3>4, <4>2 DEF Zone, ZoneSet, IsOwn
        <5>2. more = <<Zone(Head(todo), on)>>
          BY <3>3, <4>2
        <5> QED
          BY <5>1, <5>2
      <4> QED
        BY <4>1, <4>2
    <3> QED
      BY <3>5, <3>6, MoreZones
  <2> QED
    BY <2>1, <2>2
<1> QED
  BY <1>1, <1>3, <1>5 DEF ReadInv, ReadTypes, KeptOut, OwnReading, mutexvars, ZoneSet

LEMMA ReadPowerKeepsReading ==
  ASSUME ReadInv, ReadPower
  PROVE  ReadInv'
<1>1. /\ UNCHANGED <<vendor, populated, todo, mutexvars, index, peer>>
      /\ pc' = "sleeping" /\ reading' = NoReading
  BY DEF ReadPower, partvars
<1>2. NoReading \in [package : {"none"} \cup populated, zones : Seq(ZoneSet)]
  BY DEF NoReading
<1>3. OwnIn(NoReading)
  BY DEF NoReading, OwnIn
<1> QED
  BY <1>1, <1>2, <1>3 DEF ReadInv, ReadTypes, KeptOut, OwnReading, mutexvars, ZoneSet

LEMMA NextKeepsReading == ReadInv /\ [Next]_vars => ReadInv'
<1> SUFFICES ASSUME ReadInv, [Next]_vars PROVE ReadInv'
  OBVIOUS
<1>1. CASE New \/ Begin
  BY <1>1, BeginKeepsReading
<1>2. CASE Acquire
  BY <1>2, AcquireKeepsReading
<1>3. CASE WriteIndex
  BY <1>3, WriteIndexKeepsReading
<1>4. CASE ReadData
  BY <1>4, ReadDataKeepsReading
<1>5. CASE ReadTable
  BY <1>5, ReadTableKeepsReading
<1>6. CASE ReadPackage
  BY <1>6, ReadPackageKeepsReading
<1>7. CASE Pin
  BY <1>7, PinKeepsReading
<1>8. CASE ReadProcessor
  BY <1>8, ReadProcessorKeepsReading
<1>9. CASE ReadPower
  BY <1>9, ReadPowerKeepsReading
<1>10. CASE Peer \/ Migrate
  BY <1>10, PeerKeepsReading
<1>11. CASE UNCHANGED vars
  BY <1>11 DEF vars, ReadInv, ReadTypes, KeptOut, OwnReading, partvars, mutexvars, ZoneSet
<1> QED
  BY <1>1, <1>2, <1>3, <1>4, <1>5, <1>6, <1>7, <1>8, <1>9, <1>10, <1>11 DEF Next, Helper

(* What the record holds and the interface puts together again are the     *)
(* first of the zones, each with its own label.                            *)
LEMMA ListIsOfZones ==
  ASSUME ReadTypes, NEW z \in ToSet(ZoneList(Published))
  PROVE  \E i \in DOMAIN reading.zones : z = reading.zones[i]
<1> DEFINE n == Min({Len(reading.zones), MAX_ZONES})
<1>1. reading.zones \in Seq(ZoneSet)
  BY DEF ReadTypes
<1>2. Len(reading.zones) \in Nat /\ MAX_ZONES \in Nat
  BY <1>1, SensorsAssumption
<1>3. n \in Nat /\ n <= Len(reading.zones)
  <2> DEFINE S == {Len(reading.zones), MAX_ZONES}
  <2>1. S \in SUBSET Nat /\ S # {} /\ Len(reading.zones) \in S
    BY <1>2
  <2> HIDE DEF S
  <2>2. \E m \in S : \A x \in S : m <= x
    BY <2>1, LeastExists
  <2>3. Min(S) \in S /\ \A x \in S : Min(S) <= x
    BY <2>2 DEF Min
  <2> QED
    BY <2>1, <2>3 DEF S
<1> HIDE DEF n
<1>4. /\ Published.zone_count = n
      /\ Published.zones = [i \in 1 .. n |-> reading.zones[i].of]
      /\ Published.zone_labels = [i \in 1 .. n |-> reading.zones[i].label]
  BY DEF Published, n
<1>5. ZoneList(Published)
        = [i \in 1 .. n |-> Zone(reading.zones[i].label, reading.zones[i].of)]
  BY <1>4 DEF ZoneList
<1>6. PICK i \in 1 .. n : z = Zone(reading.zones[i].label, reading.zones[i].of)
  BY <1>5 DEF ToSet
<1>7. i \in DOMAIN reading.zones /\ reading.zones[i] \in ZoneSet
  BY <1>1, <1>3
<1>8. Zone(reading.zones[i].label, reading.zones[i].of) = reading.zones[i]
  BY <1>7 DEF Zone, ZoneSet
<1> QED
  BY <1>6, <1>7, <1>8

(* A temperature that is shown is one that a register or processor holds,  *)
(* whatever the other tool, the scheduler and the driver do; and it is of  *)
(* the one whose name it has, on Intel parts, and on AMD parts in a pass   *)
(* whose guard was acquired.  Of the cores of the SMU table it says that   *)
(* each is the temperature of some core.                                   *)
THEOREM EveryReadingIsItsOwn == Spec => []ReadingsAreTheirOwn
<1>1. ReadInv => ReadingsAreTheirOwn
  <2> SUFFICES ASSUME ReadInv PROVE ReadingsAreTheirOwn
    OBVIOUS
  <2>1. ReadTypes /\ ((vendor = "Amd" => covered) => OwnIn(reading))
    BY DEF ReadInv, OwnReading
  <2>2. Published.package = reading.package
    BY DEF Published
  <2>3. reading.package \in {"none"} \cup populated /\ reading.zones \in Seq(ZoneSet)
    BY <2>1 DEF ReadTypes
  <2>4. ASSUME NEW z \in ToSet(ZoneList(Published))
        PROVE  /\ z.of \in populated
               /\ (vendor = "Amd" => covered) => IsOwn(z)
    <3>1. PICK i \in DOMAIN reading.zones : z = reading.zones[i]
      BY <2>1, ListIsOfZones
    <3>2. z \in ZoneSet
      BY <2>3, <3>1
    <3> QED
      BY <2>1, <3>1, <3>2 DEF ZoneSet, OwnIn
  <2>5. (vendor = "Amd" => covered) => Published.package \in {"none", Registers[1], "package"}
    BY <2>1, <2>2 DEF OwnIn
  <2> QED
    BY <2>2, <2>3, <2>4, <2>5 DEF ReadingsAreTheirOwn, IsOwn
<1> QED
  BY <1>1, ReadInit, NextKeepsReading, PTL DEF Spec
=============================================================================
