------------------------ MODULE SharedMappingProofs ------------------------
(***************************************************************************)
(* Proofs about the shared memory mapping, for any set of fields, number   *)
(* of attempts and number of samples, and wherever helpers start and die.  *)
(* While none is taking over the record of an earlier one, the sequence    *)
(* only grows, an even sequence means a settled record, and an unmoved one *)
(* means the copy is of the record last published; and the one that has    *)
(* taken over has left nothing of the earlier one.                         *)
(***************************************************************************)
EXTENDS SharedMapping, TLAPS

-----------------------------------------------------------------------------
(* The inductive invariant.                                                *)

(* The sequence counts two per sample, so it has not wrapped. *)
SequenceNotWrapped == sequence <= 2 * measured

(* What create has stored so far is of the default record; in a new       *)
(* mapping the zeroes that are not yet overwritten say the same.           *)
Creating ==
  helper = "creating" =>
    /\ record = Unpublished
    /\ "sequence" \notin unwritten \/ ~ mixed => sequence = 0
    /\ \A f \in Fields \ unwritten : mem[f] = Unpublished

(* A helper that got through its start has taken the record over. *)
MixedUntilCreated == mixed => helper \in {"creating", "down"}

(* What publish has stored so far is of the sample it is publishing. *)
HalfWritten ==
  helper = "writing" =>
    /\ measured > 0
    /\ sequence = inProgress
    /\ IsOdd(sequence)
    /\ inProgress < 2 * measured
    /\ \A f \in Fields \ unwritten : mem[f] = measured

(* An idle helper has raised the sequence to even. *)
IdleIsEven == helper = "idle" => ~ IsOdd(sequence)

(* An even sequence means that every field is of the published sample. *)
EvenIsSettled ==
  ~ mixed /\ ~ IsOdd(sequence) => \A f \in Fields : Sample(mem[f]) = record

(* An unmoved sequence means the copy is of the published sample so far. *)
UnmovedIsLatest ==
  reader = "copying" /\ ~ overlapped =>
    /\ ~ mixed
    /\ before <= sequence
    /\ ~ IsOdd(before)
    /\ sequence = before =>
         \A f \in Fields \ uncopied : Sample(snapshot[f]) = record

(* A call that is going on has an attempt left. *)
TriesLeft == reader \in {"trying", "copying"} => tries < Attempts

(* A call that is going on has returned nothing. *)
NothingYet == reader \in {"trying", "copying"} => got = {}

IInv ==
  /\ TypeOK
  /\ TriesLeft
  /\ NothingYet
  /\ SequenceNotWrapped
  /\ Creating
  /\ MixedUntilCreated
  /\ HalfWritten
  /\ IdleIsEven
  /\ EvenIsSettled
  /\ UnmovedIsLatest
  /\ TornOnlyByAStart

-----------------------------------------------------------------------------
(* Away from its modulus the sequence is incremented as a number is. *)
LEMMA SuccIsPlusOne ==
  ASSUME NEW n \in Nat, n + 1 < SequenceModulus
  PROVE  Succ(n) = n + 1
  BY MappingAssumption, SMT DEF Succ

(* Incrementing changes the parity. *)
LEMMA ParityAlternates ==
  ASSUME NEW n \in Nat
  PROVE  IsOdd(n + 1) <=> ~ IsOdd(n)
  BY SMT DEF IsOdd

(* The initial state satisfies the invariant. *)
LEMMA InitIInv == Init => IInv
  <1> SUFFICES ASSUME Init PROVE IInv
    OBVIOUS
  <1>1. TypeOK
    <2>1. /\ mem \in [Fields -> Blank .. measured]
          /\ snapshot \in [Fields -> Blank .. measured]
      BY DEF Init, Blank
    <2>2. mixed \in BOOLEAN /\ overlapped \in BOOLEAN
      BY Zenon DEF Init
    <2>3. QED
      BY <2>1, <2>2, MappingAssumption DEF Init, TypeOK, Unpublished
  <1>2. EvenIsSettled
    BY DEF Init, EvenIsSettled, Sample, Blank, Unpublished
  <1>3. QED
    BY <1>1, <1>2 DEF Init, IInv, SequenceNotWrapped, Creating, MixedUntilCreated, HalfWritten,
       TriesLeft, NothingYet, IdleIsEven, UnmovedIsLatest, TornOnlyByAStart, NoTornRead, TypeOK

(* The sequence stays below its modulus by two. *)
LEMMA RoomToCount ==
  ASSUME TypeOK, SequenceNotWrapped
  PROVE  /\ sequence \in Nat
         /\ sequence + 2 < SequenceModulus
         /\ measured \in Nat
         /\ Succ(sequence) = sequence + 1
  <1>1. /\ sequence \in Nat
        /\ measured \in Nat
        /\ SequenceModulus \in Nat
        /\ sequence + 2 < SequenceModulus
    BY MappingAssumption, SMT DEF TypeOK, SequenceNotWrapped
  <1>2. QED
    BY <1>1, SuccIsPlusOne

(* A step that leaves the reader alone leaves what it has and returned. *)
LEMMA ReaderKept ==
  ASSUME IInv, UNCHANGED <<readerVars, overlapped>>
  PROVE  TriesLeft' /\ NothingYet' /\ TornOnlyByAStart'
  BY DEF IInv, readerVars, TriesLeft, NothingYet, TornOnlyByAStart, NoTornRead, OfOneSample, Sample

(* A step that leaves the helper alone leaves the record it describes. *)
LEMMA HelperKept ==
  ASSUME IInv, UNCHANGED helperVars
  PROVE  /\ SequenceNotWrapped' /\ Creating' /\ MixedUntilCreated' /\ HalfWritten'
         /\ IdleIsEven' /\ EvenIsSettled'
  BY DEF IInv, helperVars, SequenceNotWrapped, Creating, MixedUntilCreated, HalfWritten,
         IdleIsEven, EvenIsSettled, Sample, IsOdd

(* Every step preserves the invariant. *)
LEMMA StepIInv == IInv /\ [Next]_vars => IInv'
  <1> SUFFICES ASSUME IInv, [Next]_vars PROVE IInv'
    OBVIOUS
  <1>i. /\ TypeOK /\ TriesLeft /\ NothingYet /\ SequenceNotWrapped /\ Creating
        /\ MixedUntilCreated /\ HalfWritten /\ IdleIsEven /\ EvenIsSettled
        /\ UnmovedIsLatest /\ TornOnlyByAStart
    BY DEF IInv
  <1>r. /\ sequence \in Nat
        /\ sequence + 2 < SequenceModulus
        /\ measured \in Nat
        /\ Succ(sequence) = sequence + 1
    BY <1>i, RoomToCount
  <1>1. CASE Start
    <2>1. /\ helper' = "creating"
          /\ unwritten' = Words
          /\ record' = Unpublished
          /\ UNCHANGED <<inProgress, measured, readerVars>>
      BY <1>1 DEF Start
    <2>2. Fields \ Words = {} /\ "sequence" \in Words
      BY DEF Words
    <2>3. CASE /\ reader = "closed"
               /\ mem' = [f \in Fields |-> Blank]
               /\ sequence' = 0
               /\ mixed' = FALSE
               /\ UNCHANGED overlapped
      <3>1. TypeOK'
        <4>1. mem' \in [Fields -> Blank .. measured']
          BY <2>1, <2>3, <1>r DEF Blank
        <4>2. mixed' \in BOOLEAN /\ overlapped' \in BOOLEAN
          BY <1>i, <2>3, Zenon DEF TypeOK
        <4>3. sequence' \in 0 .. SequenceModulus - 1 /\ record' \in 0 .. measured'
          BY <1>r, <2>1, <2>3, MappingAssumption DEF Unpublished
        <4>4. QED
          BY <1>i, <2>1, <4>1, <4>2, <4>3 DEF TypeOK, readerVars
      <3>2. EvenIsSettled'
        BY <2>1, <2>3 DEF EvenIsSettled, Sample, Blank, Unpublished
      <3>3. UnmovedIsLatest'
        BY <2>1, <2>3 DEF UnmovedIsLatest, readerVars
      <3>4. QED
        BY <2>1, <2>2, <2>3, <3>1, <3>2, <3>3, <1>r, ReaderKept
           DEF IInv, SequenceNotWrapped, Creating, MixedUntilCreated, HalfWritten, IdleIsEven
    <2>4. CASE mixed' = TRUE /\ overlapped' = TRUE /\ UNCHANGED <<mem, sequence>>
      <3>1. TypeOK'
        BY <1>i, <2>1, <2>4, MappingAssumption DEF TypeOK, readerVars, Words, Unpublished
      <3>2. TriesLeft' /\ NothingYet' /\ TornOnlyByAStart'
        BY <1>i, <2>1, <2>4 DEF readerVars, TriesLeft, NothingYet, TornOnlyByAStart
      <3>3. QED
        BY <1>i, <2>1, <2>2, <2>4, <3>1, <3>2, <1>r
           DEF IInv, SequenceNotWrapped, Creating, MixedUntilCreated, HalfWritten, IdleIsEven,
               EvenIsSettled, UnmovedIsLatest
    <2>5. QED
      BY <1>1, <2>3, <2>4 DEF Start
  <1>2. ASSUME NEW w \in Words, StoreDefault(w) PROVE IInv'
    <2>1. /\ helper = "creating"
          /\ helper' = IF unwritten' = {} THEN "idle" ELSE "creating"
          /\ w \in unwritten
          /\ unwritten' = unwritten \ {w}
          /\ mixed' = (mixed /\ unwritten' # {})
          /\ UNCHANGED <<inProgress, measured, record, readerVars, overlapped>>
          /\ record = Unpublished
      BY <1>2, <1>i DEF StoreDefault, Creating
    <2>2. /\ sequence' \in {0, sequence}
          /\ "sequence" \notin unwritten' => sequence' = 0
          /\ ~ mixed => sequence' = 0
      BY <1>2, <1>i, <2>1 DEF StoreDefault, Creating
    <2>3. /\ mem' \in [Fields -> Blank .. measured]
          /\ \A f \in Fields \ unwritten' : mem'[f] = Unpublished
          /\ \A f \in Fields : mem'[f] \in {mem[f], Unpublished}
      <3>1. CASE w = "sequence"
        BY <1>2, <1>i, <2>1, <3>1, MappingAssumption DEF StoreDefault, Creating, TypeOK
      <3>2. CASE w # "sequence"
        BY <1>2, <1>i, <2>1, <3>2, <1>r DEF StoreDefault, Creating, TypeOK, Blank, Unpublished
      <3>3. QED
        BY <3>1, <3>2
    <2>4. TypeOK'
      BY <1>i, <2>1, <2>2, <2>3, <1>r, MappingAssumption DEF TypeOK, readerVars, Words
    <2>5. EvenIsSettled'
      <3>1. CASE unwritten' = {}
        BY <2>1, <2>3, <3>1 DEF EvenIsSettled, Sample, Blank, Unpublished
      <3>2. CASE ~ mixed
        <4>1. sequence = 0
          BY <1>i, <2>1, <3>2 DEF Creating
        <4>2. \A f \in Fields : Sample(mem[f]) = Unpublished
          BY <1>i, <2>1, <3>2, <4>1 DEF EvenIsSettled, IsOdd
        <4>3. QED
          BY <2>1, <2>3, <4>2 DEF EvenIsSettled, Sample, Blank, Unpublished
      <3>3. QED
        BY <2>1, <3>1, <3>2 DEF EvenIsSettled
    <2>6. IdleIsEven' /\ SequenceNotWrapped'
      <3>1. helper' = "idle" => sequence' = 0
        BY <2>1, <2>2
      <3>2. sequence' <= sequence /\ measured' = measured
        BY <2>1, <2>2, <1>r
      <3>3. sequence' <= 2 * measured'
        BY <1>i, <2>2, <3>2, <1>r DEF SequenceNotWrapped
      <3>4. QED
        BY <3>1, <3>3 DEF IdleIsEven, SequenceNotWrapped, IsOdd
    <2>7. Creating' /\ MixedUntilCreated' /\ HalfWritten'
      BY <1>i, <2>1, <2>2, <2>3 DEF Creating, MixedUntilCreated, HalfWritten
    <2>8. UnmovedIsLatest'
      <3>1. reader = "copying" /\ ~ overlapped => sequence = 0 /\ sequence' = 0 /\ ~ mixed'
        BY <1>i, <2>1, <2>2 DEF UnmovedIsLatest, Creating
      <3>2. QED
        BY <1>i, <2>1, <3>1 DEF UnmovedIsLatest, readerVars, Sample
    <2>9. QED
      BY <2>1, <2>4, <2>5, <2>6, <2>7, <2>8, ReaderKept DEF IInv
  <1>3. CASE BeginPublish
    <2>1. sequence' = sequence + 1 /\ inProgress' = sequence + 1
      BY <1>3, <1>r DEF BeginPublish
    <2>2. IsOdd(sequence')
      BY <1>3, <1>i, <2>1, <1>r, ParityAlternates DEF BeginPublish, IdleIsEven
    <2>3. TypeOK'
      <3>1. /\ mem \in [Fields -> Blank .. measured + 1]
            /\ snapshot \in [Fields -> Blank .. measured + 1]
            /\ got \subseteq [Fields -> Blank .. measured + 1]
            /\ record \in 0 .. measured + 1
        BY <1>i, <1>r DEF TypeOK, Blank
      <3>2. measured' = measured + 1 /\ measured' \in 0 .. MaxMeasured
        BY <1>3, <1>i, MappingAssumption DEF BeginPublish, TypeOK
      <3>3. QED
        BY <1>3, <1>i, <2>1, <3>1, <3>2, <1>r, MappingAssumption DEF BeginPublish, TypeOK, readerVars
    <2>4. HalfWritten'
      <3>1. Fields \ Words = {}
        BY DEF Words
      <3>2. measured' = measured + 1 /\ inProgress' < 2 * (measured + 1)
        BY <1>3, <1>i, <2>1, <1>r DEF BeginPublish, SequenceNotWrapped
      <3>3. QED
        BY <1>3, <2>1, <2>2, <3>1, <3>2, <1>r DEF BeginPublish, HalfWritten, IsOdd
    <2>5. UnmovedIsLatest'
      <3>1. reader = "copying" /\ ~ overlapped => before <= sequence /\ before # sequence'
        BY <1>i, <2>1, <1>r DEF UnmovedIsLatest, TypeOK
      <3>2. before \in Nat
        BY <1>i DEF TypeOK
      <3>3. QED
        BY <1>3, <1>i, <2>1, <3>1, <3>2, <1>r DEF BeginPublish, readerVars, UnmovedIsLatest, IsOdd
    <2>6. SequenceNotWrapped'
      BY <1>3, <1>i, <2>1, <1>r DEF BeginPublish, SequenceNotWrapped
    <2>7. Creating' /\ MixedUntilCreated' /\ IdleIsEven' /\ EvenIsSettled'
      BY <1>3, <1>i, <2>2 DEF BeginPublish, Creating, MixedUntilCreated, IdleIsEven, EvenIsSettled
    <2>8. QED
      BY <1>3, <2>3, <2>4, <2>5, <2>6, <2>7, ReaderKept DEF BeginPublish, IInv
  <1>4. ASSUME NEW w \in Words, StorePayload(w) PROVE IInv'
    <2>1. sequence' = sequence /\ IsOdd(sequence)
      BY <1>4, <1>i DEF StorePayload, HalfWritten, PayloadSequence
    <2>2. TypeOK'
      <3>1. mem' \in [Fields -> Blank .. measured]
        BY <1>4, <1>i, <1>r DEF StorePayload, TypeOK, Blank
      <3>2. QED
        BY <1>4, <1>i, <2>1, <3>1 DEF StorePayload, TypeOK, readerVars, Words
    <2>3. HalfWritten'
      <3>1. \A f \in Fields \ unwritten' : mem'[f] = measured
        <4>1. CASE w = "sequence"
          BY <1>4, <1>i, <4>1, MappingAssumption DEF StorePayload, HalfWritten
        <4>2. CASE w # "sequence"
          BY <1>4, <1>i, <4>2 DEF StorePayload, HalfWritten, TypeOK
        <4>3. QED
          BY <4>1, <4>2
      <3>2. QED
        BY <1>4, <1>i, <2>1, <3>1 DEF StorePayload, HalfWritten, IsOdd
    <2>4. UnmovedIsLatest' /\ EvenIsSettled'
      BY <1>4, <1>i, <2>1 DEF StorePayload, readerVars, UnmovedIsLatest, EvenIsSettled, IsOdd, Sample
    <2>5. SequenceNotWrapped' /\ Creating' /\ MixedUntilCreated' /\ IdleIsEven'
      BY <1>4, <1>i, <2>1 DEF StorePayload, SequenceNotWrapped, Creating, MixedUntilCreated, IdleIsEven
    <2>6. QED
      BY <1>4, <2>2, <2>3, <2>4, <2>5, ReaderKept DEF StorePayload, IInv
  <1>5. CASE EndPublish
    <2>1. sequence' = sequence + 1
      BY <1>5, <1>i, <1>r DEF EndPublish, HalfWritten
    <2>2. ~ IsOdd(sequence')
      BY <1>5, <1>i, <2>1, <1>r, ParityAlternates DEF EndPublish, HalfWritten
    <2>3. sequence' <= 2 * measured
      BY <1>5, <1>i, <2>1, <1>r DEF EndPublish, HalfWritten
    <2>4. TypeOK'
      BY <1>5, <1>i, <2>1, <1>r, MappingAssumption DEF EndPublish, TypeOK, readerVars
    <2>5. EvenIsSettled'
      <3>1. \A f \in Fields : mem'[f] = measured /\ measured > 0
        BY <1>5, <1>i DEF EndPublish, HalfWritten
      <3>2. QED
        BY <1>5, <3>1, <1>r DEF EndPublish, EvenIsSettled, Sample, Blank
    <2>6. UnmovedIsLatest'
      <3>1. reader = "copying" /\ ~ overlapped => before <= sequence /\ before # sequence'
        BY <1>i, <2>1, <1>r DEF UnmovedIsLatest, TypeOK
      <3>2. before \in Nat
        BY <1>i DEF TypeOK
      <3>3. QED
        BY <1>5, <1>i, <2>1, <3>1, <3>2, <1>r DEF EndPublish, readerVars, UnmovedIsLatest, IsOdd
    <2>7. SequenceNotWrapped' /\ Creating' /\ MixedUntilCreated' /\ HalfWritten' /\ IdleIsEven'
      BY <1>5, <1>i, <2>2, <2>3
         DEF EndPublish, SequenceNotWrapped, Creating, MixedUntilCreated, HalfWritten, IdleIsEven
    <2>8. QED
      BY <1>5, <2>4, <2>5, <2>6, <2>7, ReaderKept DEF EndPublish, IInv
  <1>6. CASE Die
    <2>1. TypeOK' /\ SequenceNotWrapped' /\ Creating' /\ MixedUntilCreated' /\ HalfWritten' /\ IdleIsEven'
      BY <1>6, <1>i DEF Die, readerVars, TypeOK, SequenceNotWrapped, Creating, MixedUntilCreated,
         HalfWritten, IdleIsEven
    <2>2. EvenIsSettled' /\ UnmovedIsLatest'
      BY <1>6, <1>i DEF Die, readerVars, EvenIsSettled, UnmovedIsLatest, Sample, IsOdd
    <2>3. QED
      BY <1>6, <2>1, <2>2, ReaderKept DEF Die, IInv
  <1>7. CASE Open \/ Close \/ BeginRead
    <2>1. UNCHANGED helperVars /\ overlapped' = overlapped
      BY <1>7 DEF Open, Close, BeginRead
    <2>2. TypeOK'
      BY <1>7, <1>i, <2>1, MappingAssumption DEF Open, Close, BeginRead, helperVars, TypeOK
    <2>3. TriesLeft' /\ NothingYet' /\ UnmovedIsLatest'
      BY <1>7, MappingAssumption DEF Open, Close, BeginRead, TriesLeft, NothingYet, UnmovedIsLatest
    <2>4. TornOnlyByAStart'
      BY <1>7, <1>i, <2>1 DEF Open, Close, BeginRead, TornOnlyByAStart, NoTornRead, OfOneSample, Sample
    <2>5. QED
      BY <2>1, <2>2, <2>3, <2>4, HelperKept DEF IInv
  <1>8. CASE LoadBefore
    <2>1. UNCHANGED helperVars
      BY <1>8 DEF LoadBefore
    <2>2. TypeOK' /\ TriesLeft' /\ NothingYet'
      BY <1>8, <1>i, <2>1, MappingAssumption
         DEF LoadBefore, helperVars, Retry, TypeOK, TriesLeft, NothingYet
    <2>3. got' = {}
      BY <1>8, <1>i DEF LoadBefore, Retry, NothingYet
    <2>4. UnmovedIsLatest'
      BY <1>8, <1>i, <2>1, <1>r DEF LoadBefore, helperVars, UnmovedIsLatest, Retry, IsOdd
    <2>5. QED
      BY <2>1, <2>2, <2>3, <2>4, HelperKept DEF IInv, TornOnlyByAStart, NoTornRead
  <1>9. ASSUME NEW f \in Fields, Copy(f) PROVE IInv'
    <2>1. UNCHANGED helperVars
      BY <1>9 DEF Copy
    <2>2. TypeOK' /\ TriesLeft' /\ NothingYet'
      BY <1>9, <1>i, <2>1 DEF Copy, helperVars, TypeOK, TriesLeft, NothingYet
    <2>3. UnmovedIsLatest'
      <3>1. ~ overlapped /\ sequence = before => \A g \in Fields : Sample(mem[g]) = record
        BY <1>9, <1>i DEF Copy, UnmovedIsLatest, EvenIsSettled
      <3>2. ~ overlapped /\ sequence = before =>
              \A g \in Fields \ uncopied' : Sample(snapshot'[g]) = record
        BY <1>9, <1>i, <3>1 DEF Copy, UnmovedIsLatest, TypeOK, Sample
      <3>3. QED
        BY <1>9, <1>i, <2>1, <3>2 DEF Copy, helperVars, UnmovedIsLatest, Sample, IsOdd
    <2>4. TornOnlyByAStart'
      BY <1>9, <1>i DEF Copy, TornOnlyByAStart, NoTornRead, OfOneSample, Sample
    <2>5. QED
      BY <2>1, <2>2, <2>3, <2>4, HelperKept DEF IInv
  <1>10. CASE LoadAfter
    <2>1. UNCHANGED helperVars
      BY <1>10 DEF LoadAfter
    <2>2. TypeOK' /\ TriesLeft' /\ NothingYet'
      BY <1>10, <1>i, <2>1, MappingAssumption
         DEF LoadAfter, helperVars, Retry, TypeOK, TriesLeft, NothingYet
    <2>3. UnmovedIsLatest'
      BY <1>10 DEF LoadAfter, Retry, UnmovedIsLatest
    <2>4. TornOnlyByAStart'
      BY <1>10, <1>i DEF LoadAfter, Retry, Unmoved, TornOnlyByAStart, NoTornRead, OfOneSample,
         UnmovedIsLatest, NothingYet, Sample
    <2>5. QED
      BY <2>1, <2>2, <2>3, <2>4, HelperKept DEF IInv
  <1>11. CASE UNCHANGED vars
    <2>1. UNCHANGED helperVars /\ UNCHANGED <<readerVars, overlapped>>
      BY <1>11 DEF vars
    <2>2. TypeOK' /\ UnmovedIsLatest'
      BY <1>i, <2>1 DEF helperVars, readerVars, TypeOK, UnmovedIsLatest, Sample, IsOdd
    <2>3. QED
      BY <2>1, <2>2, ReaderKept, HelperKept DEF IInv
  <1>12. QED
    BY <1>1, <1>2, <1>3, <1>4, <1>5, <1>6, <1>7, <1>8, <1>9, <1>10, <1>11
       DEF Next, HelperStep, ReadStep

-----------------------------------------------------------------------------
LEMMA Invariance == Spec => []IInv
  BY InitIInv, StepIInv, PTL DEF Spec

(* Every word the two processes exchange stays within its range, and holds *)
(* no sample that was never measured, whatever the number of fields,       *)
(* attempts and samples.                                                   *)
THEOREM TypeCorrect == Spec => []TypeOK
  <1>1. IInv => TypeOK
    BY DEF IInv
  <1>2. QED
    BY <1>1, Invariance, PTL

(* What read returns comes from one sample, as the seqlock of shared.rs is *)
(* there to ensure, in whatever order the words are stored and loaded and  *)
(* wherever helpers die, unless a helper was taking the record over from   *)
(* an earlier one meanwhile.                                               *)
THEOREM OnlyAStartTears == Spec => []TornOnlyByAStart
  <1>1. IInv => TornOnlyByAStart
    BY DEF IInv
  <1>2. QED
    BY <1>1, Invariance, PTL

(* What a copy holds are samples that were measured. *)
LEMMA CopyOfMeasured ==
  ASSUME IInv
  PROVE  SamplesOf(snapshot) \subseteq 0 .. measured
  <1>1. snapshot \in [Fields -> Blank .. measured] /\ measured \in Nat
    BY DEF IInv, TypeOK
  <1>2. QED
    BY <1>1 DEF SamplesOf, Sample, Blank, Unpublished

(* A read that returns returns the sample last published: the seqlock over *)
(* memory written word by word implements a register written at once, but  *)
(* for reads that a helper's start over a held record overlaps.            *)
THEOREM RefinesLatestReading == Spec => ReadsTheLatest
  <1> DEFINE seen == UNION {SamplesOf(r) : r \in got}
  <1>1. Init => Latest!Init
    BY DEF Init, Latest!Init, Unpublished
  <1>2. ASSUME IInv, [Next]_vars
        PROVE  [Latest!Next]_(Latest!vars)
    <2>1. got' = got => seen' = seen
      BY DEF SamplesOf, Sample
    <2>2. UNCHANGED <<measured, record, mixed, overlapped, got>> => UNCHANGED Latest!vars
      BY <2>1 DEF Latest!vars
    <2>3. CASE Start
      <3>1. record' = 0 /\ UNCHANGED <<measured, got>>
        BY <2>3 DEF Start, readerVars, Unpublished
      <3>2. /\ mixed' \in BOOLEAN
            /\ overlapped' = (overlapped \/ mixed')
        <4>1. overlapped \in BOOLEAN
          BY <1>2 DEF IInv, TypeOK
        <4>2. QED
          BY <2>3, <4>1 DEF Start
      <3>3. QED
        BY <2>1, <3>1, <3>2 DEF Latest!Next, Latest!Restart
    <2>4. ASSUME NEW w \in Words, StoreDefault(w)
          PROVE  [Latest!Next]_(Latest!vars)
      <3>1. UNCHANGED <<measured, record, overlapped, got>>
        BY <2>4 DEF StoreDefault, readerVars
      <3>2. mixed' = FALSE \/ mixed' = mixed
        <4>1. mixed \in BOOLEAN
          BY <1>2 DEF IInv, TypeOK
        <4>2. QED
          BY <2>4, <4>1 DEF StoreDefault
      <3>3. QED
        BY <2>1, <2>2, <3>1, <3>2 DEF Latest!Next, Latest!Settle
    <2>5. CASE BeginPublish
      BY <2>1, <2>5 DEF BeginPublish, readerVars, Latest!Next, Latest!Measure
    <2>6. CASE EndPublish
      <3>1. ~ mixed
        BY <1>2, <2>6 DEF EndPublish, IInv, MixedUntilCreated
      <3>2. QED
        BY <2>1, <2>6, <3>1 DEF EndPublish, readerVars, Latest!Next, Latest!Publish
    <2>7. CASE UNCHANGED <<measured, record, mixed, overlapped, got>>
      BY <2>2, <2>7
    <2>8. CASE BeginRead
      <3>1. seen' = {}
        BY <2>8 DEF BeginRead
      <3>2. QED
        BY <2>8, <3>1 DEF BeginRead, helperVars, Latest!Next, Latest!Miss
    <2>9. CASE LoadBefore
      <3>1. got = {} /\ got' = {} /\ UNCHANGED helperVars
        BY <1>2, <2>9 DEF LoadBefore, Retry, IInv, NothingYet
      <3>2. overlapped' = mixed \/ overlapped' = overlapped
        BY <2>9 DEF LoadBefore
      <3>3. QED
        BY <2>1, <2>2, <3>1, <3>2 DEF helperVars, Latest!Next, Latest!Look
    <2>10. CASE LoadAfter
      <3>1. UNCHANGED <<measured, record, mixed, overlapped>>
        BY <2>10 DEF LoadAfter, helperVars
      <3>2. CASE got' = {}
        <4>1. seen' = {}
          BY <3>2
        <4>2. QED
          BY <3>1, <4>1 DEF Latest!Next, Latest!Miss
      <3>3. CASE reader = "copying" /\ uncopied = {} /\ got' = {snapshot} /\ sequence = before
        <4>1. {{IF r[f] = Blank THEN Unpublished ELSE r[f] : f \in Fields} : r \in got'}
                = {SamplesOf(snapshot)}
          BY <3>3 DEF SamplesOf, Sample
        <4>2. seen' = SamplesOf(snapshot)
          BY <4>1 DEF SamplesOf, Sample
        <4>3. CASE overlapped
          <5>1. seen' \subseteq 0 .. measured
            BY <1>2, <4>2, CopyOfMeasured
          <5>2. QED
            BY <3>1, <4>3, <5>1 DEF Latest!Next, Latest!Blur
        <4>4. CASE ~ overlapped
          <5>1. \A f \in Fields : Sample(snapshot[f]) = record
            BY <1>2, <3>3, <4>4 DEF IInv, UnmovedIsLatest
          <5>2. SamplesOf(snapshot) = {record}
            BY <5>1, MappingAssumption DEF SamplesOf
          <5>3. QED
            BY <3>1, <4>2, <5>2 DEF Latest!Next, Latest!Take
        <4>5. QED
          BY <4>3, <4>4
      <3>4. CASE got' = got
        BY <3>1, <3>4, <2>2
      <3>5. QED
        BY <2>10, <3>2, <3>3, <3>4 DEF LoadAfter, Retry, Unmoved
    <2>11. ASSUME NEW w \in Words, StorePayload(w)
           PROVE  [Latest!Next]_(Latest!vars)
      BY <2>11, <2>7 DEF StorePayload, readerVars
    <2>12. ASSUME NEW f \in Fields, Copy(f)
           PROVE  [Latest!Next]_(Latest!vars)
      BY <2>12, <2>7 DEF Copy, helperVars
    <2>13. CASE Die \/ Open \/ Close \/ UNCHANGED vars
      BY <2>13, <2>7 DEF Die, Open, Close, vars, helperVars, readerVars
    <2>14. QED
      BY <1>2, <2>3, <2>4, <2>5, <2>6, <2>8, <2>9, <2>10, <2>11, <2>12, <2>13
         DEF Next, HelperStep, ReadStep
  <1>3. QED
    BY <1>1, <1>2, Invariance, PTL DEF ReadsTheLatest, Latest!Spec, Spec
=============================================================================
