------------------------------ MODULE Sensors ------------------------------
(***************************************************************************)
(* What the helper reads from the processor through PawnIO: temperature of *)
(* AMD parts over SMN registers and the SMU table (amd.rs, pm_table.rs of  *)
(* crates/loadbear-sensors-windows/src), of Intel parts over registers     *)
(* that every logical processor has for itself (intel.rs, topology.rs),    *)
(* and package power, a difference of two energy counts (power.rs), in the *)
(* order in which temperature.rs and the helper's sample_loop ask.         *)
(*                                                                         *)
(* The SMN index register is shared with every other monitoring tool; they *)
(* keep out of each other's way with the mutex Global\Access_PCI, which    *)
(* exists as long as any of them has a handle to it.  One such tool, that  *)
(* respects the mutex, stands for all.                                     *)
(***************************************************************************)
EXTENDS Integers, FiniteSets, SequencesExt

CONSTANTS
  Registers,               \* of an AMD part: the die, then its CCDs
  Cores,                   \* of an AMD part, as its SMU table has them
  Processors,              \* of an Intel part, in order
  MAX_ZONES,               \* zones in the published record
  COUNTER_MODULUS, IMPLAUSIBLE_WATTS,
  Draws,                   \* energy that may be drawn in a unit of time
  MaxGap                   \* bound: longest time without a count

ASSUME SensorsAssumption ==
  /\ \A list \in {Registers, Cores, Processors} : list \in Seq(ToSet(list))
  /\ Len(Registers) > 0
  /\ {COUNTER_MODULUS, IMPLAUSIBLE_WATTS, MAX_ZONES} \subseteq Nat \ {0}
  /\ Draws \subseteq Nat
  /\ MaxGap \in Nat

VARIABLES
  vendor,       \* current_cpu_key
  device,       \* is the driver open, with the vendor's module loaded?
  per_core,     \* and is there an executor for the SMU table?
  tjmax,        \* sample_loop's: the limit it read when it began, or None
  pc,           \* where sample_loop is
  todo,         \* registers or processors that are still to be read
  reading,      \* package and zones: what each value was read from
  acquired,     \* PciGuard::acquired
  covered,      \* history: was it, in the pass that the reading is of?
  owner,        \* of the mutex: "nobody", "helper", "kept" by it, or "peer"
  abandoned,    \* did a thread end that owned it?
  index,        \* the SMN index register
  peer,         \* the other tool: "idle" or "owns"
  on,           \* the processor that the helper's thread runs on
  mask,         \* its affinity
  populated,    \* the registers that hold something
  energy,       \* the counter
  previous,     \* PackagePower::previous: a count, or None
  gap,          \* from the now_ms of previous to that of this pass
  late,         \* time since the now_ms of this pass
  lag,          \* history: late, when previous was read
  drawn,        \* history: energy drawn since previous was read
  watts         \* count and time that the result is made of, or None

mutexvars  == <<owner, abandoned>>
partvars   == <<vendor, device, per_core, tjmax, populated>>
pinvars    == <<on, mask>>
powervars  == <<energy, previous, gap, late, lag, drawn, watts>>
vars == <<partvars, pc, todo, reading, acquired, covered, mutexvars, index, peer, pinvars,
          powervars>>

-----------------------------------------------------------------------------
None == -1

Absent == [ticks |-> None, over |-> None, drawn |-> None, since |-> None]

(* Registers as their fields: zeroed, all ones, and with a temperature.    *)
Zeros == [temp |-> 0,    range |-> FALSE, valid |-> FALSE]
Ones  == [temp |-> 2047, range |-> TRUE,  valid |-> TRUE]
Full  == [temp |-> 860,  range |-> TRUE,  valid |-> TRUE]

Contents(r) == IF r \in populated THEN {Full} ELSE {Zeros, Ones}

Failed == [ok |-> FALSE, out |-> <<>>]

(* PawnIo::execute, with room for one word: an error if the function is    *)
(* not there, refuses, or has written more than that; what was written     *)
(* otherwise, which may be nothing.                                        *)
Execute(r) ==
  {Failed} \cup {[ok |-> TRUE, out |-> written] : written \in {<<>>} \cup {<<raw>> : raw \in Contents(r)}}

(* read_msr, for which an error is the same as an answer without a word.   *)
ReadMSR(r) == {answer.out : answer \in Execute(r)}

(* The temperature target: that of a part, in thousandths, and a zeroed    *)
(* register, which is below MIN_PLAUSIBLE_TJMAX_C.                         *)
Limit == 100000

TjMaxFromMSR(raw) == IF raw >= 85000 THEN raw ELSE None

(* read_tjmax. *)
ReadTjMax == {None} \cup {TjMaxFromMSR(raw) : raw \in {0, Limit}}

(* is_plausible_celsius, in thousandths. *)
IsPlausible(m) == m \in 5000 .. 125000

(* decode_die_temp. *)
Die(raw) == raw.temp * 125 - IF raw.range THEN 49000 ELSE 0

(* decode_ccd_temp, which gives none for an unpopulated slot. *)
CCD(raw) == IF raw.valid THEN raw.temp * 125 - 49000 ELSE None

NoReading == [package |-> "none", zones |-> <<>>]

Zone(label, of) == [label |-> label, of |-> of]

(* SharedTemperature: the zones that there is room for, values and labels  *)
(* apart; and zone_list, which puts them together again.                   *)
Published ==
  LET n == Min({Len(reading.zones), MAX_ZONES}) IN
  [package     |-> reading.package,
   tjmax_c     |-> tjmax,
   zone_count  |-> n,
   zones       |-> [i \in 1 .. n |-> reading.zones[i].of],
   zone_labels |-> [i \in 1 .. n |-> reading.zones[i].label]]

ZoneList(record) ==
  [i \in 1 .. record.zone_count |-> Zone(record.zone_labels[i], record.zones[i])]

(* The registers of package power are those of AMD parts.                  *)
HasCounter == device /\ vendor = "Amd"

(* Energy and time are counted as far as they are told apart.              *)
Draw(e) ==
  /\ energy' = (energy + e) % COUNTER_MODULUS
  /\ drawn' = IF drawn + e < COUNTER_MODULUS THEN drawn + e ELSE COUNTER_MODULUS

-----------------------------------------------------------------------------
(* PawnIOLib.dll, from the first place where it loads: what it exports,    *)
(* whether the driver lets this user in, and the modules that accept the   *)
(* part.  A library that is nowhere is one that exports nothing.           *)
Libraries ==
  [exports : SUBSET {"pawnio_open", "pawnio_load"}, admits : BOOLEAN,
   accepts : SUBSET {"AMDFamily17", "IntelMSR", "RyzenSMU"}]

Module == [Amd |-> "AMDFamily17", Intel |-> "IntelMSR"]

(* PawnIo::open. *)
Opens(library) == "pawnio_open" \in library.exports /\ library.admits

(* load_module: a module rejects parts it does not know.                   *)
Loads(library, module) ==
  Opens(library) /\ "pawnio_load" \in library.exports /\ module \in library.accepts

(* PerCoreTemperature::new: an executor of its own, since each holds one   *)
(* module; the table is refused unless its layout is known.                *)
PerCore(library) == IF Loads(library, "RyzenSMU") THEN BOOLEAN ELSE {FALSE}

(* WindowsTemperature::tjmax_c. *)
TjMaxOf(v, open) == IF open /\ v = "Intel" THEN ReadTjMax ELSE {None}

(* WindowsTemperature::new: what cannot be opened is not tried again.  Nor *)
(* is the limit asked for again, "a property of the part, not of the       *)
(* moment, so it is read once".                                            *)
New ==
  /\ pc = "new"
  /\ \E library \in Libraries :
       /\ device' = (vendor \in DOMAIN Module /\ Loads(library, Module[vendor]))
       /\ per_core' \in IF device' /\ vendor = "Amd" THEN PerCore(library) ELSE {FALSE}
  /\ tjmax' \in TjMaxOf(vendor, device')
  /\ pc' = "sleeping"
  /\ UNCHANGED <<vendor, populated, todo, reading, acquired, covered, mutexvars, index, peer,
                 pinvars, powervars>>

(* WindowsTemperature::read goes by the vendor.                            *)
FirstStep ==
  IF ~ device THEN pc' = "watts" /\ todo' = <<>>
  ELSE IF vendor = "Amd" THEN pc' = "acquire" /\ todo' = Registers
  ELSE pc' = "tjmax" /\ todo' = Processors

(* A second or so goes by, or the machine is suspended and the counter     *)
(* starts again; then a pass begins, and takes the time, unless the clock  *)
(* stands still.                                                           *)
Begin ==
  /\ pc = "sleeping"
  /\ late' = 0
  /\ \E slept \in {0, 1} : gap' = gap + late + slept
  /\ watts' = Absent
  /\ UNCHANGED lag
  /\ IF HasCounter THEN \/ \E e \in Draws : Draw(e)
                        \/ energy' = 0 /\ drawn' = COUNTER_MODULUS
     ELSE UNCHANGED <<energy, drawn>>
  /\ FirstStep
  /\ UNCHANGED <<partvars, reading, acquired, covered, mutexvars, index, peer, pinvars, previous>>

-----------------------------------------------------------------------------
(* AMD. *)

(* Mutant of Waits: for as long as it takes.                               *)
WaitsForever == owner # "peer"

(* The wait is over when the mutex is free, or after TIMEOUT.              *)
Waits == TRUE

(* Mutant of Take: a guard that is dropped at once.                        *)
TakeAndDrop == abandoned' = FALSE /\ UNCHANGED owner

(* Free or abandoned, the mutex is the helper's now; as it is already, and *)
(* stays, if a pass before has kept it.                                    *)
Take == abandoned' = FALSE /\ owner' = IF owner = "kept" THEN "kept" ELSE "helper"

(* PciGuard::acquire.  WAIT_ABANDONED is not WAIT_OBJECT_0; a wait that    *)
(* runs out takes time; and without a handle there is nothing to wait for. *)
Acquire ==
  /\ pc = "acquire"
  /\ Waits
  /\ \/ /\ owner # "peer"
        /\ Take
        /\ acquired' = ~ abandoned
        /\ UNCHANGED <<energy, drawn, late>>
     \/ /\ owner = "peer"
        /\ acquired' = FALSE
        /\ late' = 1
        /\ \E e \in Draws : Draw(e)
        /\ UNCHANGED mutexvars
     \/ acquired' = FALSE /\ UNCHANGED <<mutexvars, energy, drawn, late>>
  /\ UNCHANGED lag
  /\ covered' = acquired'
  /\ pc' = "index"
  /\ UNCHANGED <<partvars, todo, reading, index, peer, pinvars, previous, gap, watts>>

(* PciGuard::drop.  A mutex that is owned and not released is kept, since  *)
(* the thread goes on.                                                     *)
Release ==
  /\ owner' = IF owner # "helper" THEN owner ELSE IF acquired THEN "nobody" ELSE "kept"
  /\ acquired' = FALSE
  /\ UNCHANGED abandoned

(* ioctl_read_smn writes the index register ...                            *)
WriteIndex ==
  /\ pc = "index"
  /\ index' = Head(todo)
  /\ pc' = "data"
  /\ UNCHANGED <<partvars, todo, reading, acquired, covered, mutexvars, peer, pinvars, powervars>>

Decoded(r, raw) ==
  IF r = Registers[1]
  THEN IF IsPlausible(Die(raw)) THEN [reading EXCEPT !.package = index] ELSE reading
  ELSE IF IsPlausible(CCD(raw)) THEN [reading EXCEPT !.zones = Append(@, Zone(r, index))]
  ELSE reading

(* An error ends the reading, be it of the die or of a CCD; a word that    *)
(* did not come ends that of the CCDs only.                                *)
Stops(r, answer) == ~ answer.ok \/ (answer.out = <<>> /\ r # Registers[1])

(* ... and reads the data register.                                        *)
ReadData ==
  /\ pc = "data"
  /\ \E answer \in Execute(index) :
       /\ reading' = IF answer.out = <<>> THEN reading
                     ELSE Decoded(Head(todo), Head(answer.out))
       /\ todo' = IF Stops(Head(todo), answer) THEN <<>> ELSE Tail(todo)
  /\ IF todo' # <<>> THEN pc' = "index" /\ UNCHANGED <<acquired, mutexvars>>
     ELSE pc' = (IF per_core THEN "table" ELSE "watts") /\ Release
  /\ UNCHANGED <<partvars, covered, index, peer, pinvars, powervars>>

(* PerCoreTemperature::read: what is plausible of the block of the table,  *)
(* in order; SelectSeq, said by the places of what is kept.                *)
Plausible(block) ==
  LET kept   == {i \in DOMAIN block : block[i] \in populated}
      nth(k) == Min({i \in kept : Cardinality({j \in kept : j <= i}) >= k})
  IN  [k \in 1 .. Cardinality(kept) |-> block[nth(k)]]

(* The cores are numbered as they come out of it.                          *)
Snapshot ==
  LET found == Plausible(Cores) IN
  reading' = [reading EXCEPT !.zones = @ \o [i \in DOMAIN found |-> Zone(Cores[i], found[i])]]

(* A table that cannot be refreshed "returns stale values", and is not     *)
(* read; nor does a table that cannot be read give any.                    *)
ReadTable ==
  /\ pc = "table"
  /\ Snapshot \/ UNCHANGED reading
  /\ pc' = "watts"
  /\ UNCHANGED <<partvars, todo, acquired, covered, mutexvars, index, peer, pinvars, powervars>>

-----------------------------------------------------------------------------
(* Intel. *)

(* decode_digital_readout: a register that is not valid gives no reading.  *)
Readout(raw, label, of) ==
  IF raw.valid /\ IsPlausible(Limit - (raw.temp % 128) * 1000)
  THEN <<Zone(label, of)>> ELSE <<>>

(* The limit, which every pass reads for itself, and without which there   *)
(* is no reading; and the package's temperature.                           *)
ReadPackage ==
  /\ pc = "tjmax"
  /\ \E limit \in ReadTjMax, word \in ReadMSR("package") :
       IF limit = None THEN pc' = "watts" /\ UNCHANGED reading
       ELSE /\ pc' = "pin"
            /\ reading' = IF word = <<>> \/ Readout(Head(word), "package", "package") = <<>>
                          THEN reading ELSE [reading EXCEPT !.package = "package"]
  /\ UNCHANGED <<partvars, todo, acquired, covered, mutexvars, index, peer, pinvars, powervars>>

Everywhere == ToSet(Processors)

(* on_processor: the affinity is set, or cannot be; the thread need not    *)
(* move at once.                                                           *)
Pin ==
  /\ pc = "pin"
  /\ IF todo = <<>> THEN pc' = "watts" /\ UNCHANGED <<todo, mask>>
     ELSE \/ pc' = "landed" /\ mask' = {Head(todo)} /\ UNCHANGED todo
          \/ pc' = "pin" /\ todo' = Tail(todo) /\ UNCHANGED mask
  /\ UNCHANGED <<partvars, reading, acquired, covered, mutexvars, index, peer, on, powervars>>

Landed == on = Head(todo)

(* The thread is where it should be or the processor is skipped; then the  *)
(* affinity is set back.                                                   *)
ReadProcessor ==
  /\ pc = "landed"
  /\ \E word \in IF Landed THEN ReadMSR(on) ELSE {<<>>} :
       reading' = IF word = <<>> THEN reading
                  ELSE [reading EXCEPT !.zones = @ \o Readout(Head(word), Head(todo), on)]
  /\ todo' = Tail(todo)
  /\ mask' = Everywhere
  /\ pc' = "pin"
  /\ UNCHANGED <<partvars, acquired, covered, mutexvars, index, peer, on, powervars>>

(* The scheduler. *)
Migrate ==
  /\ vendor = "Intel"
  /\ on' \in mask \ {on}
  /\ UNCHANGED <<partvars, pc, todo, reading, acquired, covered, mutexvars, index, peer, mask,
                 powervars>>

-----------------------------------------------------------------------------
(* Power. *)

(* Mutant of Ticks: a count below the last one is taken as it is.          *)
TicksFromZero(from, to) == IF to >= from THEN to - from ELSE to

(* The counter wraps at 32 bits.                                           *)
Ticks(from, to) == IF to >= from THEN to - from ELSE to + COUNTER_MODULUS - from

(* PackagePower::read: the first count is no rate, nor is one after which  *)
(* the clock did not advance, and too much is none.                        *)
Watts ==
  IF previous = None \/ gap = 0 \/ Ticks(previous, energy) >= IMPLAUSIBLE_WATTS * gap THEN Absent
  ELSE [ticks |-> Ticks(previous, energy), over |-> gap, drawn |-> drawn, since |-> gap + late - lag]

(* package_watts: the unit is asked for while it is not known, and either  *)
(* register may fail to be read.  Then the record is published.            *)
ReadPower ==
  /\ pc = "watts"
  /\ \/ /\ HasCounter
        /\ previous' = energy
        /\ watts' = Watts
        /\ drawn' = 0
        /\ gap' = 0
        /\ lag' = late
     \/ /\ gap < MaxGap
        /\ watts' = Absent
        /\ UNCHANGED <<previous, drawn, lag>>
        /\ gap' = IF previous = None THEN 0 ELSE gap
  /\ pc' = "sleeping"
  /\ reading' = NoReading
  /\ covered' = FALSE
  /\ UNCHANGED <<partvars, todo, acquired, mutexvars, index, peer, pinvars, energy, late>>

-----------------------------------------------------------------------------
(* The other tool, which may also be stuck for ever, or lose its thread.   *)

PeerTakes ==
  /\ vendor = "Amd"
  /\ peer = "idle"
  /\ owner = "nobody"
  /\ owner' = "peer"
  /\ abandoned' = FALSE
  /\ peer' = "owns"
  /\ UNCHANGED <<partvars, pc, todo, reading, acquired, covered, index, pinvars, powervars>>

PeerWrites ==
  /\ peer = "owns"
  /\ index' = "other"
  /\ UNCHANGED <<partvars, pc, todo, reading, acquired, covered, mutexvars, peer, pinvars,
                 powervars>>

PeerReleases ==
  /\ peer = "owns"
  /\ peer' = "idle"
  /\ owner' = "nobody"
  /\ abandoned' \in BOOLEAN
  /\ UNCHANGED <<partvars, pc, todo, reading, acquired, covered, index, pinvars, powervars>>

-----------------------------------------------------------------------------
Own ==
  CASE vendor = "Amd"   -> ToSet(Registers) \cup ToSet(Cores)
    [] vendor = "Intel" -> Everywhere \cup {"package"}
    [] vendor = "Other" -> {}

Init ==
  /\ vendor \in {"Amd", "Intel", "Other"}
  /\ device = FALSE /\ per_core = FALSE /\ tjmax = None
  /\ populated \in {s \cup {"other"} : s \in SUBSET Own}
  /\ pc = "new" /\ todo = <<>> /\ reading = NoReading
  /\ acquired = FALSE /\ covered = FALSE /\ owner = "nobody" /\ abandoned = FALSE
  /\ index = "other" /\ peer = "idle"
  /\ on = Processors[1] /\ mask = Everywhere
  /\ energy = 0 /\ previous = None /\ gap = 0 /\ late = 0 /\ lag = 0 /\ drawn = 0 /\ watts = Absent

Helper ==
  \/ New \/ Begin
  \/ Acquire \/ WriteIndex \/ ReadData \/ ReadTable
  \/ ReadPackage \/ Pin \/ ReadProcessor
  \/ ReadPower

Peer == PeerTakes \/ PeerWrites \/ PeerReleases

Next == Helper \/ Peer \/ Migrate

Spec == Init /\ [][Next]_vars

(* The helper's thread runs.  The other tool owes it nothing.              *)
FairSpec == Spec /\ WF_vars(Helper)

-----------------------------------------------------------------------------
(* A temperature that the interface is given is one that a register or a   *)
(* processor holds, never what an empty one decodes to.  And it is of the  *)
(* one whose name it has, never "one core's reading eight times over": on  *)
(* Intel parts always; on AMD parts in a pass whose guard was acquired,    *)
(* but for the cores of the table, of which each is at least some core's   *)
(* (see below).                                                            *)
ReadingsAreTheirOwn ==
  /\ Published.package \in {"none"} \cup populated
  /\ \A z \in ToSet(ZoneList(Published)) : z.of \in populated
  /\ (vendor = "Amd" => covered) =>
       /\ Published.package \in {"none", Registers[1], "package"}
       /\ \A z \in ToSet(ZoneList(Published)) :
            z.of = z.label \/ {z.of, z.label} \subseteq ToSet(Cores)

(* "Returning a wrong number confidently is worse than returning none"     *)
(* (pm_table.rs): what is shown as a core's temperature is that core's.    *)
CoresKeepTheirNumber ==
  \A z \in ToSet(ZoneList(Published)) : z.label \in ToSet(Cores) => z.of = z.label

(* Less than a wrap apart, two counts give the energy that was drawn, no   *)
(* matter how many reads between them failed.                              *)
WattsAreDrawn == watts # Absent /\ watts.drawn < COUNTER_MODULUS => watts.ticks = watts.drawn

(* "Average package power over the interval since the previous call"       *)
(* (power.rs): what the energy is divided by is the time in which it was   *)
(* drawn.                                                                  *)
WattsCoverTheirTime == watts.over = watts.since

(* "On Intel this comes from the silicon and beats anything the database   *)
(* carries" (sample_loop): where a limit is measured from, it is           *)
(* published.                                                              *)
LimitIsTheSilicons ==
  vendor = "Intel" /\ Published.package # "none" => Published.tjmax_c = Limit

(* "A stuck peer must not wedge LoadBear's sampling loop forever."         *)
StuckPeerWedgesNothing == []<>(pc = "sleeping")

(* "The mutex is released only if it was actually acquired" (drop): and if *)
(* it was, it is, so that no other tool waits for a helper that sleeps.    *)
GuardIsGivenBack == pc = "sleeping" => owner \notin {"helper", "kept"}
=============================================================================
