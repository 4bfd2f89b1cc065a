---------------------------- MODULE SpecResolve ----------------------------
(***************************************************************************)
(* crates/loadbear-core/src/spec.rs: which published figures a processor   *)
(* may be held to.                                                         *)
(*                                                                         *)
(* A product is a record of its processor id (vendor, family and model,    *)
(* one value here), stepping, thread count and figures.  An Option is a    *)
(* set of at most one element, {} where nothing is published.              *)
(***************************************************************************)
EXTENDS FiniteSetsExt

Optional(S) == {{}} \cup {{x} : x \in S}

(* Option::or *)
Or(a, b) == IF a # {} THEN a ELSE b

(* Iterator::min and max over the figures that are published *)
Lowest(figures)  == IF figures = {} THEN {} ELSE {Min(figures)}
Highest(figures) == IF figures = {} THEN {} ELSE {Max(figures)}

(* Mutant of Conservative: the first entry that matches, as it is. *)
ConservativeNot(cs) ==
  LET first == CHOOSE c \in cs : \A d \in cs : d.base <= c.base IN
  [base |-> first.base, tdp |-> first.tdp, ctdpMin |-> first.ctdpMin,
   ctdpMax |-> first.ctdpMax, tjmax |-> first.tjmax]

(* Field by field the weakest claim of the candidates.  One candidate is   *)
(* its own merge.                                                          *)
Conservative(cs) ==
  [base    |-> Min({c.base : c \in cs}),
   tdp     |-> Min({c.tdp : c \in cs}),
   ctdpMin |-> Lowest(UNION {c.ctdpMin : c \in cs}),
   ctdpMax |-> Highest(UNION {c.ctdpMax : c \in cs}),
   tjmax   |-> Highest(UNION {c.tjmax : c \in cs})]

(* Every entry with the processor id, whatever its stepping, narrowed to   *)
(* the thread count unless that leaves none.                               *)
Candidates(db, id, threads) ==
  LET byKey    == {s \in db : s.id = id}
      narrowed == {s \in byKey : s.threads = threads}
  IN  IF narrowed = {} THEN byKey ELSE narrowed

(* SpecDb::resolve *)
Resolve(db, id, threads) ==
  {Conservative(cs) : cs \in {Candidates(db, id, threads)} \ {{}}}

-----------------------------------------------------------------------------
(* The base clock of a processor that is not in the database. *)
PlausibleBaseMHz == 400 .. 6000
BaseAgreementMHz == 50

(* base_from_brand, of the frequency that the brand string states, if any *)
BaseFromBrand(stated) == stated \cap PlausibleBaseMHz

(* Mutant of ReportedBase: takes the system's word for it. *)
ReportedBaseUnchecked(nominal, stated) == {nominal} \cap PlausibleBaseMHz

(* The nominal frequency, unless it is implausible or the brand disagrees. *)
ReportedBase(nominal, stated) ==
  {n \in {nominal} \cap PlausibleBaseMHz :
     \A b \in BaseFromBrand(stated) :
       n - b \in (-BaseAgreementMHz) .. BaseAgreementMHz}
=============================================================================
