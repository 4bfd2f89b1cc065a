--------------------------- MODULE SharedMapping ---------------------------
(***************************************************************************)
(* The shared memory mapping of crates/loadbear-sensors-windows/src/       *)
(* mapping.rs: TemperaturePublisher in the elevated helper, and            *)
(* TemperatureReader in the interface, over one SharedTemperature record.  *)
(*                                                                         *)
(* The two run in different processes, so every word of the record is      *)
(* stored and loaded by a step of its own.  The accesses are plain (not    *)
(* atomic): within one whole-record write or read their order is the       *)
(* compiler's, hence any order.  The fences keep the sequence stores and   *)
(* loads outside the record's, and x86 keeps them in order.                *)
(*                                                                         *)
(* A field holds the number of the sample it was taken from: Blank for the *)
(* zeroes of new memory, Unpublished for the default record of create.     *)
(***************************************************************************)
EXTENDS Integers

CONSTANTS
  Fields,             \* the words of the record besides its sequence
  Attempts,           \* how often read tries before it gives up (8)
  SequenceModulus,    \* 2^32: the sequence is a u32 that wraps
  MaxMeasured         \* bound: samples measured in a behaviour

ASSUME MappingAssumption ==
  /\ Fields # {}
  /\ "sequence" \notin Fields
  /\ Attempts \in Nat \ {0}
  /\ SequenceModulus \in Nat \ {0}
  /\ SequenceModulus % 2 = 0
  /\ MaxMeasured \in Nat
  /\ 2 * MaxMeasured + 2 < SequenceModulus

VARIABLES
  mem,        \* the record's fields
  sequence,   \* its seqlock word
  helper,     \* "down", "creating", "idle" or "writing"
  unwritten,  \* words the helper has still to store
  inProgress, \* publish's local seq: the odd number
  measured,   \* samples begun so far, over all helpers
  reader,     \* "closed", "idle", "trying" or "copying"
  before,     \* read's local: the sequence before the copy
  uncopied,   \* words the reader has still to load
  snapshot,   \* read's local copy
  tries,      \* attempts made by this call
  got,        \* what the last call returned: {} (None) or {record}
  record,     \* history: the sample last published whole by this helper
  mixed,      \* history: has a helper begun to create over an older record
              \*          that was held, and none got to the end of it?
  overlapped  \* history: did such a start overlap the reader's last attempt?

helperVars == <<mem, sequence, helper, unwritten, inProgress, measured, record, mixed>>
readerVars == <<reader, before, uncopied, snapshot, tries, got>>
vars == <<helperVars, readerVars, overlapped>>

Blank       == -1
Unpublished == 0
Words       == Fields \cup {"sequence"}

IsOdd(n) == n % 2 = 1
Succ(n)  == (n + 1) % SequenceModulus

-----------------------------------------------------------------------------
(* The helper.                                                             *)

(* CreateFileMappingW opens the mapping if a reader still holds it, as the *)
(* interface does from the first helper on, and otherwise makes a new one, *)
(* which is zeroed.                                                        *)
Start ==
  /\ helper = "down"
  /\ \/ /\ reader = "closed"
        /\ mem' = [f \in Fields |-> Blank]
        /\ sequence' = 0
        /\ mixed' = FALSE
        /\ UNCHANGED overlapped
     \/ /\ reader # "closed"
        /\ mixed' = TRUE
        /\ overlapped' = TRUE
        /\ UNCHANGED <<mem, sequence>>
  /\ helper' = "creating"
  /\ unwritten' = Words
  /\ record' = Unpublished
  /\ UNCHANGED <<inProgress, measured, readerVars>>

(* One word of view.write(SharedTemperature::default()). *)
StoreDefault(w) ==
  /\ helper = "creating"
  /\ w \in unwritten
  /\ IF w = "sequence"
     THEN sequence' = 0 /\ UNCHANGED mem
     ELSE mem' = [mem EXCEPT ![w] = Unpublished] /\ UNCHANGED sequence
  /\ unwritten' = unwritten \ {w}
  /\ helper' = IF unwritten' = {} THEN "idle" ELSE "creating"
  /\ mixed' = (mixed /\ unwritten' # {})
  /\ UNCHANGED <<inProgress, measured, record, readerVars, overlapped>>

(* publish: the sequence is made odd ... *)
BeginPublish ==
  /\ helper = "idle"
  /\ measured < MaxMeasured
  /\ measured' = measured + 1
  /\ inProgress' = Succ(sequence)
  /\ sequence' = inProgress'
  /\ helper' = "writing"
  /\ unwritten' = Words
  /\ UNCHANGED <<mem, record, mixed, readerVars, overlapped>>

(* Mutant of PayloadSequence: the caller's, as "..*reading" would give. *)
PayloadSequenceOfCaller == 0

(* ... the payload is written, which stores the odd sequence again ... *)
PayloadSequence == inProgress

StorePayload(w) ==
  /\ helper = "writing"
  /\ w \in unwritten
  /\ IF w = "sequence"
     THEN sequence' = PayloadSequence /\ UNCHANGED mem
     ELSE mem' = [mem EXCEPT ![w] = measured] /\ UNCHANGED sequence
  /\ unwritten' = unwritten \ {w}
  /\ UNCHANGED <<helper, inProgress, measured, record, mixed, readerVars, overlapped>>

(* ... and the sequence is made even. *)
EndPublish ==
  /\ helper = "writing"
  /\ unwritten = {}
  /\ sequence' = Succ(inProgress)
  /\ helper' = "idle"
  /\ record' = measured
  /\ UNCHANGED <<mem, unwritten, inProgress, measured, mixed, readerVars, overlapped>>

(* The service stops between two samples, or its process ends anywhere.    *)
(* The memory lives on for as long as a reader holds a handle.             *)
Die ==
  /\ helper # "down"
  /\ helper' = "down"
  /\ unwritten' = {}
  /\ UNCHANGED <<mem, sequence, inProgress, measured, record, mixed, readerVars, overlapped>>

-----------------------------------------------------------------------------
(* The reader.                                                             *)

(* OpenFileMappingW finds the name only while the helper holds it. *)
Open ==
  /\ reader = "closed"
  /\ helper # "down"
  /\ reader' = "idle"
  /\ UNCHANGED <<helperVars, before, uncopied, snapshot, tries, got, overlapped>>

Close ==
  /\ reader = "idle"
  /\ reader' = "closed"
  /\ UNCHANGED <<helperVars, before, uncopied, snapshot, tries, got, overlapped>>

BeginRead ==
  /\ reader = "idle"
  /\ reader' = "trying"
  /\ tries' = 0
  /\ got' = {}
  /\ UNCHANGED <<helperVars, before, uncopied, snapshot, overlapped>>

(* Mutant of Retry: spins for as long as it takes. *)
RetryForever ==
  /\ reader' = "trying"
  /\ UNCHANGED <<tries, got>>

(* One attempt is spent; the last one ends the call with None. *)
Retry ==
  /\ tries' = tries + 1
  /\ IF tries' = Attempts
     THEN reader' = "idle" /\ got' = {}
     ELSE reader' = "trying" /\ UNCHANGED got

LoadBefore ==
  /\ reader = "trying"
  /\ before' = sequence
  /\ \/ /\ IsOdd(sequence)
        /\ Retry
        /\ UNCHANGED <<uncopied, overlapped>>
     \/ /\ ~ IsOdd(sequence)
        /\ reader' = "copying"
        /\ uncopied' = Fields
        /\ overlapped' = mixed
        /\ UNCHANGED <<tries, got>>
  /\ UNCHANGED <<helperVars, snapshot>>

Copy(f) ==
  /\ reader = "copying"
  /\ f \in uncopied
  /\ snapshot' = [snapshot EXCEPT ![f] = mem[f]]
  /\ uncopied' = uncopied \ {f}
  /\ UNCHANGED <<helperVars, reader, before, tries, got, overlapped>>

(* Mutant of Unmoved: the second load is not compared. *)
UnmovedUnchecked(s) == TRUE

(* The sequence is loaded again and compared with the one before. *)
Unmoved(s) == s = before

LoadAfter ==
  /\ reader = "copying"
  /\ uncopied = {}
  /\ \/ /\ Unmoved(sequence)
        /\ reader' = "idle"
        /\ got' = {snapshot}
        /\ UNCHANGED tries
     \/ /\ ~ Unmoved(sequence)
        /\ Retry
  /\ UNCHANGED <<helperVars, before, uncopied, snapshot, overlapped>>

-----------------------------------------------------------------------------
Init ==
  /\ mem = [f \in Fields |-> Blank]
  /\ sequence = 0
  /\ helper = "down"
  /\ unwritten = {}
  /\ inProgress = 0
  /\ measured = 0
  /\ reader = "closed"
  /\ before = 0
  /\ uncopied = {}
  /\ snapshot = [f \in Fields |-> Blank]
  /\ tries = 0
  /\ got = {}
  /\ record = Unpublished
  /\ mixed = FALSE
  /\ overlapped = FALSE

HelperStep ==
  \/ Start
  \/ \E w \in Words : StoreDefault(w)
  \/ BeginPublish
  \/ \E w \in Words : StorePayload(w)
  \/ EndPublish
  \/ Die

(* The steps of a call to read that has begun. *)
ReadStep ==
  \/ LoadBefore
  \/ \E f \in Fields : Copy(f)
  \/ LoadAfter

Next ==
  \/ HelperStep
  \/ Open
  \/ Close
  \/ BeginRead
  \/ ReadStep

Spec == Init /\ [][Next]_vars

(* The sampling thread that is inside read keeps being scheduled.  Nothing *)
(* is assumed of the helper, which may stop anywhere.                      *)
FairSpec == Spec /\ WF_vars(ReadStep)

-----------------------------------------------------------------------------
(* No word holds a sample that was never measured. *)
TypeOK ==
  /\ mem \in [Fields -> Blank .. measured]
  /\ sequence \in 0 .. SequenceModulus - 1
  /\ helper \in {"down", "creating", "idle", "writing"}
  /\ unwritten \subseteq Words
  /\ inProgress \in 0 .. SequenceModulus - 1
  /\ measured \in 0 .. MaxMeasured
  /\ reader \in {"closed", "idle", "trying", "copying"}
  /\ before \in 0 .. SequenceModulus - 1
  /\ uncopied \subseteq Fields
  /\ snapshot \in [Fields -> Blank .. measured]
  /\ tries \in 0 .. Attempts
  /\ got \subseteq [Fields -> Blank .. measured]
  /\ record \in 0 .. measured
  /\ mixed \in BOOLEAN
  /\ overlapped \in BOOLEAN

(* The sample a field value stands for; new and default memory hold none. *)
Sample(v) == IF v = Blank THEN Unpublished ELSE v

SamplesOf(r) == {Sample(r[f]) : f \in Fields}

OfOneSample(r) == \A f, g \in Fields : Sample(r[f]) = Sample(r[g])

(* "Without it a reader could observe a package temperature from one       *)
(* sample and zones from the next" (shared.rs, Torn reads), read as a      *)
(* promise: what read returns comes from one sample, whatever the helper   *)
(* did meanwhile.                                                          *)
NoTornRead == \A r \in got : OfOneSample(r)

(* What holds of it: a helper that publishes, dies or stays down while the *)
(* interface copies never tears a read.  Only one that starts over the     *)
(* record the interface holds can, from there until its create is through. *)
TornOnlyByAStart == overlapped \/ NoTornRead

(* A call to read returns exactly the sample last published whole, not a   *)
(* newer half or an older one, or nothing at all, unless a helper's start  *)
(* overlaps it; and a helper that got through its start leaves nothing of  *)
(* the one before it to be read.                                           *)
Latest == INSTANCE LatestReading
            WITH starting <- mixed,
                 seen <- UNION {SamplesOf(r) : r \in got}

ReadsTheLatest == Latest!Spec

(* "A stuck writer must not hang the interface" (read): every call returns *)
(* even if the helper dies in mid-write or never stops writing.            *)
ReadReturns == (reader \in {"trying", "copying"}) ~> (reader = "idle")
=============================================================================
