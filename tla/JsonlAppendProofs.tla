-------------------------- MODULE JsonlAppendProofs --------------------------
(***************************************************************************)
(* Proofs about JsonlAppend, for any number of writers, records and        *)
(* faults: what is in the file, what a fault can cost, and what            *)
(* read_last_n finds.                                                      *)
(***************************************************************************)
EXTENDS JsonlAppend, FiniteSetTheorems, WellFoundedInduction, TLAPS

Chunks == [rec : Records, half : {"head", "cut", "tail"}]

\* Who is past flock holds the lock, and who is in os.write wrote last.
Guarded ==
    \A w \in Writers :
        /\ pc[w] \in {"Locked", "Writing", "Written"} => lock = w
        /\ pc[w] = "Writing" =>
              /\ Len(file) > 0 /\ file[Len(file)].rec = Current(w)
              /\ file[Len(file)].half # "tail"

Inv == TypeOK /\ Guarded /\ RecordsDoNotMix

LEMMA InitInv == Init => Inv
  BY NoneIsNobody DEF Init, Inv, TypeOK, Guarded, RecordsDoNotMix, Records

\* What appending one half line does to the file.
LEMMA PutFacts ==
  ASSUME TypeOK, NEW w \in Writers, NEW half \in {"head", "cut", "tail"}, Put(w, half)
  PROVE  /\ file' \in Seq(Chunks)
         /\ Len(file') = Len(file) + 1
         /\ \A i \in 1 .. Len(file) : file'[i] = file[i]
         /\ file'[Len(file) + 1] = Chunk(Current(w), half)
         /\ file'[Len(file) + 1].rec = Current(w) /\ file'[Len(file) + 1].half = half
         /\ Len(file) \in Nat
<1>1. Chunk(Current(w), half) \in Chunks
  BY DEF TypeOK, Chunk, Current, Chunks, Records
<1>2. file \in Seq(Chunks) /\ Len(file) \in Nat
  BY DEF TypeOK, Chunks
<1>3. /\ file' \in Seq(Chunks)
      /\ Len(file') = Len(file) + 1
      /\ \A i \in 1 .. Len(file) : file'[i] = file[i]
      /\ file'[Len(file) + 1] = Chunk(Current(w), half)
  BY <1>1, <1>2 DEF Put
<1>4. QED
  BY <1>2, <1>3 DEF Chunk

LEMMA TypeStep ==
  ASSUME TypeOK, Guarded, Next PROVE TypeOK'
<1>1. PICK w \in Writers : \/ Open(w) \/ Lock(w) \/ WriteBegins(w) \/ WriteEnds(w)
                           \/ WriteShort(w) \/ Return(w) \/ Raise(w) \/ Crash(w)
  BY DEF Next
<1>2. CASE Open(w) \/ Lock(w) \/ WriteShort(w)
  BY <1>2, NoneIsNobody DEF TypeOK, Open, Lock, WriteShort, Goto, Fault, Unlocked
<1>3. CASE WriteBegins(w) \/ WriteEnds(w)
  <2>1. \E half \in {"head", "cut", "tail"} : Put(w, half)
    BY <1>3 DEF WriteBegins, WriteEnds, Firsts
  <2>2. file' \in Seq(Chunks)
    BY <2>1, PutFacts
  <2>3. QED
    BY <1>3, <2>2, NoneIsNobody DEF TypeOK, WriteBegins, WriteEnds, Goto, Chunks
<1>4. CASE Return(w)
  BY <1>4, NoneIsNobody DEF TypeOK, Return, Goto, LockAfter, Current, Records
<1>5. CASE Raise(w) \/ Crash(w)
  BY <1>5, NoneIsNobody DEF TypeOK, Raise, Crash, Goto, Fault, LockAfter, RetryOrDrop
<1>6. QED
  BY <1>1, <1>2, <1>3, <1>4, <1>5

LEMMA GuardedStep ==
  ASSUME TypeOK, Guarded, Next PROVE Guarded'
<1>1. PICK w \in Writers : \/ Open(w) \/ Lock(w) \/ WriteBegins(w) \/ WriteEnds(w)
                           \/ WriteShort(w) \/ Return(w) \/ Raise(w) \/ Crash(w)
  BY DEF Next
<1>2. CASE Open(w) \/ Lock(w) \/ WriteShort(w)
  BY <1>2, NoneIsNobody DEF TypeOK, Guarded, Current, Open, Lock, WriteShort, Goto, Fault, Unlocked
<1>3. CASE WriteBegins(w)
  <2>1. PICK half \in {"head", "cut"} : Put(w, half)
    BY <1>3 DEF WriteBegins, Firsts
  <2>2. /\ Len(file') = Len(file) + 1
        /\ file'[Len(file) + 1].rec = Current(w) /\ file'[Len(file) + 1].half = half
        /\ Len(file) \in Nat /\ half # "tail"
    BY <1>3, <2>1, PutFacts
  <2>3. lock = w /\ lock' = w /\ next' = next /\ pc' = [pc EXCEPT ![w] = "Writing"]
    BY <1>3 DEF WriteBegins, Goto, Guarded
  <2>4. QED
    BY <2>2, <2>3 DEF TypeOK, Guarded, Current
<1>4. CASE WriteEnds(w)
  BY <1>4 DEF TypeOK, Guarded, WriteEnds, Goto
<1>5. CASE Return(w)
  BY <1>5, NoneIsNobody DEF TypeOK, Guarded, Current, Return, Goto, LockAfter
<1>6. CASE Raise(w) \/ Crash(w)
  BY <1>6, NoneIsNobody DEF TypeOK, Guarded, Current, Raise, Crash, Goto, LockAfter, RetryOrDrop
<1>7. QED
  BY <1>1, <1>2, <1>3, <1>4, <1>5, <1>6

LEMMA NoMixStep ==
  ASSUME TypeOK, Guarded, RecordsDoNotMix, Next PROVE RecordsDoNotMix'
<1>1. PICK w \in Writers : \/ Open(w) \/ Lock(w) \/ WriteBegins(w) \/ WriteEnds(w)
                           \/ WriteShort(w) \/ Return(w) \/ Raise(w) \/ Crash(w)
  BY DEF Next
<1>2. CASE WriteBegins(w) \/ WriteEnds(w)
  <2>1. PICK half \in {"head", "cut", "tail"} :
              Put(w, half) /\ (half = "tail" => pc[w] = "Writing")
    BY <1>2 DEF WriteBegins, WriteEnds, Firsts
  <2>2. /\ Len(file') = Len(file) + 1
        /\ \A i \in 1 .. Len(file) : file'[i] = file[i]
        /\ file'[Len(file) + 1] = Chunk(Current(w), half)
        /\ file' \in Seq(Chunks) /\ Len(file) \in Nat
    BY <2>1, PutFacts DEF TypeOK
  <2>3. ASSUME NEW i \in DOMAIN file', file'[i].half = "tail"
        PROVE  EndsRecord(file', i)
    <3>1. CASE i \in 1 .. Len(file)
      <4>1. EndsRecord(file, i)
        BY <2>2, <2>3, <3>1 DEF RecordsDoNotMix, TypeOK
      <4>2. QED
        BY <2>2, <3>1, <4>1 DEF EndsRecord
    <3>2. CASE i = Len(file) + 1
      <4>1. Len(file) > 0 /\ file[Len(file)].rec = Current(w)
        BY <2>1, <2>2, <2>3, <3>2 DEF Guarded, Chunk
      <4>2. file'[Len(file)] = file[Len(file)]
        BY <2>2, <4>1
      <4>3. QED
        BY <2>2, <2>3, <3>2, <4>1, <4>2 DEF EndsRecord, Chunk
    <3>3. QED
      BY <2>2, <3>1, <3>2
  <2>4. QED
    BY <2>3 DEF RecordsDoNotMix
<1>3. CASE file' = file
  BY <1>3 DEF RecordsDoNotMix, EndsRecord
<1>4. QED
  BY <1>1, <1>2, <1>3 DEF Open, Lock, WriteShort, Return, Raise, Crash

LEMMA InvStep == Inv /\ [Next]_vars => Inv'
<1>1. ASSUME Inv, Next PROVE Inv'
  BY <1>1, TypeStep, GuardedStep, NoMixStep DEF Inv
<1>2. ASSUME Inv, UNCHANGED vars PROVE Inv'
  BY <1>2 DEF Inv, vars, TypeOK, Guarded, Current, RecordsDoNotMix, EndsRecord
<1>3. QED
  BY <1>1, <1>2

(***************************************************************************)
(* The types of safe_append_jsonl, which say too that whoever holds the    *)
(* lock is in the critical section: no call leaves it behind.              *)
(***************************************************************************)
THEOREM TypeCorrect == Spec => []TypeOK
  BY InitInv, InvStep, PTL DEF Spec, Inv

(***************************************************************************)
(* The bytes of two calls never mix, for any number of writers that crash, *)
(* fail and are cut short as they like.                                    *)
(***************************************************************************)
THEOREM CallsDoNotMix == Spec => []RecordsDoNotMix
  BY InitInv, InvStep, PTL DEF Spec, Inv

-----------------------------------------------------------------------------
(* What a fault costs.                                                     *)

AWriteIsOpen == \E w \in Writers : pc[w] = "Writing"
\* The record that is being written, or else the next one, joins a torn line.
Before == IF AWriteIsOpen THEN Len(file) - 1 ELSE Len(file)
Ragged == Before > 0 /\ file[Before].half # "tail"
\* A call is about to return although its record cannot be read.
Pending == \E w \in Writers : pc[w] = "Written" /\ Current(w) \notin Readable

\* What earlier faults may still cost.
Owed == (IF Ragged THEN 1 ELSE 0) + (IF Pending THEN 1 ELSE 0)
LossInv == IsFiniteSet(acked) /\ Cardinality(acked \ Readable) + Owed <= 2 * faults

LEMMA OwedIsSmall == Owed \in Nat /\ Owed <= 2
  BY DEF Owed

\* The steps that write, seen from the file.
LEMMA BeginsFacts ==
  ASSUME Inv, NEW w \in Writers, WriteBegins(w)
  PROVE  /\ \E half \in {"head", "cut"} : Put(w, half)
         /\ ~AWriteIsOpen /\ AWriteIsOpen'
         /\ ~Pending'
  BY DEF Inv, TypeOK, Guarded, WriteBegins, Firsts, Goto, AWriteIsOpen, Pending

LEMMA EndsFacts ==
  ASSUME Inv, NEW w \in Writers, WriteEnds(w)
  PROVE  /\ Put(w, "tail")
         /\ AWriteIsOpen /\ ~AWriteIsOpen'
         /\ Pending' => Current(w) \notin Readable'
         /\ Len(file) > 0 /\ file[Len(file)].rec = Current(w)
         /\ file[Len(file)].half # "tail"
  BY DEF Inv, TypeOK, Guarded, WriteEnds, Goto, AWriteIsOpen, Pending, Current

\* A line that is in the file stays as readable as it was.
LEMMA WholeStays ==
  ASSUME TypeOK, NEW w \in Writers, NEW half \in {"head", "cut", "tail"}, Put(w, half),
         NEW i \in 1 .. Len(file)
  PROVE  Whole(file', i) <=> Whole(file, i)
<1>1. Len(file) \in Nat /\ \A j \in 1 .. Len(file) : file'[j] = file[j]
  BY PutFacts
<1>2. EndsRecord(file', i) <=> EndsRecord(file, i)
  BY <1>1 DEF EndsRecord
<1>3. QED
  BY <1>1, <1>2 DEF Whole, EndsRecord

\* The appended half line is readable if it completes a record on a line of its own.
LEMMA WholeAtEnd ==
  ASSUME TypeOK, NEW w \in Writers, NEW half \in {"head", "cut", "tail"}, Put(w, half)
  PROVE  Whole(file', Len(file) + 1) <=>
            /\ half = "tail"
            /\ Len(file) > 0 /\ file[Len(file)].rec = Current(w)
            /\ Len(file) = 1 \/ file[Len(file) - 1].half = "tail"
<1>1. /\ Len(file) \in Nat /\ \A j \in 1 .. Len(file) : file'[j] = file[j]
      /\ file'[Len(file) + 1].rec = Current(w) /\ file'[Len(file) + 1].half = half
  BY PutFacts
<1>2. EndsRecord(file', Len(file) + 1) <=>
         half = "tail" /\ Len(file) > 0 /\ file[Len(file)].rec = Current(w)
  BY <1>1 DEF EndsRecord
<1>3. CASE Len(file) = 0 \/ Len(file) = 1
  <2>1. CASE Len(file) = 0
    BY <1>2, <2>1 DEF Whole
  <2>2. CASE Len(file) = 1
    <3>1. Len(file) + 1 = 2
      BY <2>2
    <3>2. Whole(file', Len(file) + 1) <=> EndsRecord(file', Len(file) + 1)
      BY <3>1 DEF Whole
    <3>3. QED
      BY <1>2, <2>2, <3>2
  <2>3. QED
    BY <1>3, <2>1, <2>2
<1>4. CASE Len(file) > 1
  <2>1. Len(file) - 1 \in 1 .. Len(file) /\ (Len(file) + 1) - 2 = Len(file) - 1
    BY <1>1, <1>4
  <2>2. file'[(Len(file) + 1) - 2] = file[Len(file) - 1]
    BY <1>1, <2>1
  <2>3. QED
    BY <1>1, <1>2, <1>4, <2>2 DEF Whole
<1>5. Len(file) = 0 \/ Len(file) = 1 \/ Len(file) > 1
  <2>1. Len(file) \in Nat
    BY PutFacts
  <2>2. QED
    BY <2>1
<1>6. QED
  BY <1>3, <1>4, <1>5, Zenon

LEMMA ReadableGrows ==
  ASSUME TypeOK, NEW w \in Writers, NEW half \in {"head", "cut", "tail"}, Put(w, half)
  PROVE  /\ Readable \subseteq Readable'
         /\ Whole(file', Len(file) + 1) => Current(w) \in Readable'
<1>1. /\ file' \in Seq(Chunks) /\ file \in Seq(Chunks)
      /\ Len(file') = Len(file) + 1 /\ Len(file) \in Nat
      /\ \A i \in 1 .. Len(file) : file'[i] = file[i]
      /\ file'[Len(file) + 1].rec = Current(w)
  <2>1. file \in Seq(Chunks)
    BY DEF TypeOK, Chunks
  <2>2. QED
    BY <2>1, PutFacts
<1>2. DOMAIN file = 1 .. Len(file) /\ DOMAIN file' = 1 .. Len(file) + 1
  BY <1>1
<1>3. \A i \in 1 .. Len(file) : Whole(file, i) => Whole(file', i)
  BY WholeStays
<1>4. QED
  BY <1>1, <1>2, <1>3 DEF Readable

LEMMA LossBegins ==
  ASSUME Inv, NEW w \in Writers, WriteBegins(w)
  PROVE  Readable \subseteq Readable' /\ Owed' <= Owed
<1>1. PICK half \in {"head", "cut"} : Put(w, half)
  BY BeginsFacts
<1>2. /\ Len(file') = Len(file) + 1 /\ Len(file) \in Nat
      /\ \A i \in 1 .. Len(file) : file'[i] = file[i]
  BY <1>1, PutFacts DEF Inv
<1>3. Ragged' => Ragged
  BY <1>2, BeginsFacts DEF Ragged, Before
<1>4. Readable \subseteq Readable'
  BY <1>1, ReadableGrows DEF Inv
<1>5. QED
  BY <1>3, <1>4, BeginsFacts DEF Owed

LEMMA LossEnds ==
  ASSUME Inv, NEW w \in Writers, WriteEnds(w)
  PROVE  Readable \subseteq Readable' /\ Owed' <= Owed
<1>1. Put(w, "tail")
  BY EndsFacts
<1>2. /\ Len(file') = Len(file) + 1 /\ Len(file) \in Nat
      /\ file'[Len(file) + 1].half = "tail"
  BY <1>1, PutFacts DEF Inv
<1>3. ~Ragged'
  BY <1>2, EndsFacts DEF Ragged, Before
<1>4. Pending' => Ragged
  <2>1. Pending' => ~Whole(file', Len(file) + 1)
    BY <1>1, EndsFacts, ReadableGrows DEF Inv
  <2>2. AWriteIsOpen /\ Len(file) > 0 /\ file[Len(file)].rec = Current(w)
    BY EndsFacts
  <2>3. Pending' => ~(Len(file) = 1 \/ file[Len(file) - 1].half = "tail")
    BY <1>1, <2>1, <2>2, WholeAtEnd DEF Inv
  <2>4. Before = Len(file) - 1
    BY <2>2 DEF Before
  <2>5. Pending' => Before > 0 /\ file[Before].half # "tail"
    BY <1>2, <2>2, <2>3, <2>4
  <2>6. QED
    BY <2>5 DEF Ragged
<1>5. Readable \subseteq Readable'
  BY <1>1, ReadableGrows DEF Inv
<1>6. QED
  BY <1>3, <1>4, <1>5 DEF Owed

LEMMA LossStep ==
  ASSUME Inv, LossInv, [Next]_vars PROVE LossInv'
<1> DEFINE Lost == acked \ Readable
<1>1. IsFiniteSet(Lost) /\ Cardinality(Lost) \in Nat
  BY FS_Subset, FS_CardinalityType DEF LossInv
<1>2. Owed' \in Nat /\ Owed' <= 2 /\ Owed \in Nat
  <2>1. Owed' \in Nat /\ Owed' <= 2
    BY DEF Owed
  <2>2. QED
    BY <2>1, OwedIsSmall
<1>3. faults \in Nat
  BY DEF Inv, TypeOK
<1>4. ASSUME acked' = acked, Readable \subseteq Readable', faults' = faults, Owed' <= Owed
      PROVE  LossInv'
  <2>1. Cardinality(Lost') \in Nat /\ Cardinality(Lost') <= Cardinality(Lost)
    BY <1>1, <1>4, FS_Subset, FS_CardinalityType
  <2>2. QED
    BY <1>1, <1>2, <1>3, <1>4, <2>1 DEF LossInv
<1>5. CASE UNCHANGED vars
  <2>1. Readable' = Readable /\ Owed' = Owed
    BY <1>5 DEF vars, Readable, Whole, EndsRecord, Owed, Ragged, Before, AWriteIsOpen,
                Pending, Current
  <2>2. QED
    BY <1>2, <1>4, <1>5, <2>1 DEF vars
<1>6. ASSUME NEW w \in Writers, Open(w) \/ Lock(w) PROVE LossInv'
  <2>1. file' = file /\ next' = next /\ acked' = acked /\ faults' = faults
    BY <1>6 DEF Open, Lock
  <2>2. \A v \in Writers :
            (pc'[v] = "Writing" <=> pc[v] = "Writing") /\ (pc'[v] = "Written" <=> pc[v] = "Written")
    BY <1>6 DEF Open, Lock, Goto, Inv, TypeOK
  <2>3. Readable' = Readable
    BY <2>1 DEF Readable, Whole, EndsRecord
  <2>4. Owed' = Owed
    BY <2>1, <2>2, <2>3 DEF Owed, Ragged, Before, AWriteIsOpen, Pending, Current
  <2>5. QED
    BY <1>2, <1>4, <2>1, <2>3, <2>4
<1>7. ASSUME NEW w \in Writers, WriteBegins(w) \/ WriteEnds(w) PROVE LossInv'
  <2>1. acked' = acked /\ faults' = faults
    BY <1>7 DEF WriteBegins, WriteEnds
  <2>2. QED
    BY <1>4, <1>7, <2>1, LossBegins, LossEnds
<1>8. ASSUME NEW w \in Writers, WriteShort(w) \/ Raise(w) \/ Crash(w) PROVE LossInv'
  <2>1. acked' = acked /\ file' = file /\ faults' = faults + 1
    BY <1>8 DEF WriteShort, Raise, Crash, Fault
  <2>2. Readable' = Readable
    BY <2>1 DEF Readable, Whole, EndsRecord
  <2>3. Cardinality(Lost) <= 2 * faults
    BY <1>1, <1>2, <1>3 DEF LossInv
  <2>4. QED
    BY <1>1, <1>2, <1>3, <2>1, <2>2, <2>3 DEF LossInv
<1>9. ASSUME NEW w \in Writers, Return(w) PROVE LossInv'
  <2>1. /\ file' = file /\ faults' = faults /\ acked' = acked \cup {Current(w)}
        /\ pc[w] = "Written"
    BY <1>9 DEF Return
  <2>2. Readable' = Readable
    BY <2>1 DEF Readable, Whole, EndsRecord
  <2>3. /\ \A v \in Writers : pc'[v] # "Written" /\ pc'[v] # "Writing"
        /\ ~AWriteIsOpen
    BY <1>9 DEF Return, Goto, Inv, TypeOK, Guarded, AWriteIsOpen
  <2>4. Ragged' = Ragged /\ ~Pending'
    BY <2>1, <2>3 DEF Ragged, Before, AWriteIsOpen, Pending
  <2>5. IsFiniteSet(acked')
    BY <2>1, FS_AddElement DEF LossInv
  <2>6. CASE Current(w) \in Readable
    <3>1. Lost' = Lost
      BY <2>1, <2>2, <2>6
    <3>2. Owed' <= Owed
      BY <2>4 DEF Owed
    <3>3. Cardinality(Lost') + Owed' <= 2 * faults
      BY <1>1, <1>2, <1>3, <3>1, <3>2 DEF LossInv
    <3>4. QED
      BY <2>1, <2>5, <3>3 DEF LossInv
  <2>7. CASE Current(w) \notin Readable
    <3>1. Lost' = Lost \cup {Current(w)}
      BY <2>1, <2>2, <2>7
    <3> HIDE DEF Lost
    <3>2. Cardinality(Lost') = IF Current(w) \in Lost THEN Cardinality(Lost)
                                                      ELSE Cardinality(Lost) + 1
      BY <1>1, <3>1, FS_AddElement
    <3>3. Cardinality(Lost') \in Nat /\ Cardinality(Lost') <= Cardinality(Lost) + 1
      BY <1>1, <3>2
    <3>4. Pending
      BY <2>1, <2>7 DEF Pending
    <3>5. Owed' + 1 = Owed
      BY <2>4, <3>4 DEF Owed
    <3>6. Cardinality(Lost') + Owed' <= 2 * faults
      <4>1. Cardinality(Lost) + Owed <= 2 * faults
        BY DEF LossInv, Lost
      <4>2. \A c, d, o, p, f \in Nat : d <= c + 1 /\ p + 1 = o /\ c + o <= 2 * f => d + p <= 2 * f
        OBVIOUS
      <4>3. QED
        BY <1>1, <1>2, <1>3, <3>3, <3>5, <4>1, <4>2, Zenon
    <3>7. QED
      BY <2>1, <2>5, <3>6 DEF LossInv, Lost
  <2>8. QED
    BY <2>6, <2>7
<1>10. QED
  BY <1>5, <1>6, <1>7, <1>8, <1>9 DEF Next

LEMMA LossInit == Init => LossInv
<1> SUFFICES ASSUME Init PROVE LossInv
  OBVIOUS
<1>1. Len(file) = 0 /\ ~AWriteIsOpen /\ ~Pending /\ faults = 0 /\ acked = {}
  BY DEF Init, AWriteIsOpen, Pending
<1>2. Owed = 0
  BY <1>1 DEF Owed, Ragged, Before
<1>3. acked \ Readable = {}
  BY <1>1
<1>4. QED
  BY <1>1, <1>2, <1>3, FS_EmptySet DEF LossInv

(***************************************************************************)
(* A fault costs at most two records whose call returned.  A short write   *)
(* loses its own record and the one that joins the torn line; the torn     *)
(* line ends with that one, so that no third record is ever touched.       *)
(***************************************************************************)
THEOREM LossIsBounded == Spec => []FaultCostsTwo
<1>1. Init => LossInv
  BY LossInit
<1>2. Inv /\ LossInv => FaultCostsTwo
  <2> SUFFICES ASSUME Inv, LossInv PROVE FaultCostsTwo
    OBVIOUS
  <2>1. IsFiniteSet(acked \ Readable)
    BY FS_Subset DEF LossInv
  <2>2. Cardinality(acked \ Readable) \in Nat
    BY <2>1, FS_CardinalityType
  <2>3. QED
    BY <2>2, OwedIsSmall DEF LossInv, Inv, TypeOK, FaultCostsTwo
<1>3. Inv /\ LossInv /\ [Next]_vars => LossInv'
  BY LossStep
<1>4. QED
  BY <1>1, <1>2, <1>3, InitInv, InvStep, PTL DEF Spec

-----------------------------------------------------------------------------
(* The last n of a finite set of positions.                                *)

LEMMA LessIsWellFounded == IsWellFoundedOn({p \in Nat \X Nat : p[1] < p[2]}, Nat)
  BY NatLessThanWellFounded DEF OpToRel

LEMMA SmallestOf ==
  ASSUME NEW S, S \subseteq Nat, S # {}
  PROVE  \E m \in S : \A n \in S : m <= n
<1> DEFINE R == {p \in Nat \X Nat : p[1] < p[2]}
<1>1. IsWellFoundedOn(R, Nat)
  BY LessIsWellFounded
<1>2. \A m, n \in Nat : <<n, m>> \in R <=> n < m
  OBVIOUS
<1> HIDE DEF R
<1>3. PICK m \in S : \A n \in S : <<n, m>> \notin R
  BY <1>1, WFMin
<1>4. \A n \in S : n \in Nat
  OBVIOUS
<1>5. \A n \in S : ~(n < m)
  BY <1>2, <1>3, <1>4
<1>6. \A n \in S : m <= n
  BY <1>4, <1>5
<1>7. QED
  BY <1>6

LEMMA LargestOf ==
  ASSUME NEW k \in Nat, NEW S, S \subseteq 1 .. k, S # {}
  PROVE  \E m \in S : \A n \in S : n <= m
<1> DEFINE Mirrored == {d \in 0 .. k : k - d \in S}
<1>1. Mirrored \subseteq Nat /\ Mirrored # {}
  <2>1. PICK n \in S : TRUE
    OBVIOUS
  <2>2. k - n \in 0 .. k /\ k - (k - n) = n
    BY <2>1
  <2>3. k - n \in Mirrored
    BY <2>1, <2>2
  <2>4. Mirrored # {}
    BY <2>3
  <2>5. QED
    BY <2>4
<1>2. PICK d \in Mirrored : \A e \in Mirrored : d <= e
  BY <1>1, SmallestOf
<1>3. k - d \in S
  BY <1>2
<1>4. ASSUME NEW n \in S PROVE n <= k - d
  <2>1. k - n \in 0 .. k /\ k - (k - n) = n
    BY <1>4
  <2>2. k - n \in Mirrored
    BY <2>1
  <2>3. d <= k - n /\ d \in 0 .. k
    BY <1>2, <2>2
  <2>4. QED
    BY <2>1, <2>3
<1>5. QED
  BY <1>3, <1>4

\* lines[-n:] of the lines that end at E.
Onward(E, i) == {j \in E : j >= i}
LastIn(E, n) == {i \in E : n = 0 \/ Cardinality(Onward(E, i)) <= n}

LEMMA FiniteParts ==
  ASSUME NEW k \in Nat, NEW E, E \subseteq 1 .. k
  PROVE  \A S : S \subseteq E => IsFiniteSet(S) /\ Cardinality(S) \in Nat
<1>1. IsFiniteSet(1 .. k)
  BY FS_Interval
<1>2. ASSUME NEW S, S \subseteq E PROVE IsFiniteSet(S) /\ Cardinality(S) \in Nat
  <2>1. S \in SUBSET (1 .. k)
    BY <1>2
  <2>2. IsFiniteSet(S)
    BY <1>1, <2>1, FS_Subset
  <2>3. QED
    BY <2>2, FS_CardinalityType
<1>3. QED
  BY <1>2

\* It has at most n lines; it has n of them, or every line.
LEMMA LastInFacts ==
  ASSUME NEW k \in Nat, NEW E, E \subseteq 1 .. k, NEW n \in Nat, n > 0
  PROVE  /\ LastIn(E, n) \subseteq E
         /\ Cardinality(LastIn(E, n)) <= n
         /\ LastIn(E, n) = E \/ Cardinality(LastIn(E, n)) >= n
<1> DEFINE L == LastIn(E, n)
<1>1. \A S : S \subseteq E => IsFiniteSet(S) /\ Cardinality(S) \in Nat
  BY FiniteParts
<1>2. \A i \in E : Onward(E, i) \subseteq E /\ i \in Onward(E, i)
  BY DEF Onward
<1>3. \A i : i \in L <=> i \in E /\ Cardinality(Onward(E, i)) <= n
  BY DEF LastIn
<1>4. L \subseteq E
  BY <1>3
<1> HIDE DEF L
<1>5. Cardinality(L) \in Nat
  BY <1>1, <1>4
<1>6. Cardinality(L) <= n
  <2>1. CASE L = {}
    <3>1. Cardinality(L) = 0
      BY <2>1, FS_EmptySet
    <3>2. QED
      BY <3>1
  <2>2. CASE L # {}
    <3>1. PICK m \in L : \A j \in L : m <= j
      <4>1. L \subseteq Nat
        <5>1. E \subseteq Nat
          OBVIOUS
        <5>2. QED
          BY <1>4, <5>1
      <4>2. QED
        BY <2>2, <4>1, SmallestOf
    <3>2. L \subseteq Onward(E, m)
      <4>1. \A j \in E : j \in Nat
        OBVIOUS
      <4>2. QED
        BY <1>4, <3>1, <4>1 DEF Onward
    <3>3. Cardinality(Onward(E, m)) <= n /\ Onward(E, m) \subseteq E
      BY <1>2, <1>3, <3>1
    <3>4. IsFiniteSet(Onward(E, m)) /\ Cardinality(Onward(E, m)) \in Nat
      BY <1>1, <3>3
    <3>5. Cardinality(L) <= Cardinality(Onward(E, m))
      BY <3>2, <3>4, FS_Subset
    <3>6. QED
      BY <1>5, <3>3, <3>4, <3>5
  <2>3. QED
    BY <2>1, <2>2
<1>7. ASSUME L # E PROVE Cardinality(L) >= n
  <2>1. PICK m \in E \ L : \A j \in E \ L : j <= m
    <3>1. E \ L # {} /\ E \ L \subseteq 1 .. k
      BY <1>4, <1>7
    <3>2. QED
      BY <3>1, LargestOf
  <2>2. Onward(E, m) \ {m} \subseteq L
    <3>1. \A j \in E : j \in Nat
      OBVIOUS
    <3>2. \A j \in Onward(E, m) : j # m => ~(j <= m) /\ j \in E
      BY <2>1, <3>1 DEF Onward
    <3>3. QED
      BY <2>1, <3>2
  <2>3. Onward(E, m) \subseteq E /\ m \in Onward(E, m) /\ ~(Cardinality(Onward(E, m)) <= n)
    BY <1>2, <1>3, <2>1
  <2>4. IsFiniteSet(Onward(E, m)) /\ Cardinality(Onward(E, m)) \in Nat
    BY <1>1, <2>3
  <2>5. Cardinality(Onward(E, m) \ {m}) = Cardinality(Onward(E, m)) - 1
    BY <2>3, <2>4, FS_RemoveElement
  <2>6. Cardinality(Onward(E, m) \ {m}) <= Cardinality(L)
    <3>1. IsFiniteSet(L)
      BY <1>1, <1>4
    <3>2. QED
      BY <2>2, <3>1, FS_Subset
  <2>7. QED
    BY <1>5, <2>3, <2>4, <2>5, <2>6
<1>8. QED
  BY <1>4, <1>6, <1>7 DEF L

-----------------------------------------------------------------------------
(* What read_last_n finds.                                                 *)

\* The lines that read_last_n skips.
Bad(f) == LineEnds(f) \ WholeAt(f)
BadInv == Cardinality(Bad(file)) <= faults + (IF AWriteIsOpen /\ ~Ragged THEN 1 ELSE 0)

LEMMA BadIsFinite ==
  ASSUME NEW f \in Seq(Chunks)
  PROVE  /\ LineEnds(f) \subseteq 1 .. Len(f) /\ Len(f) \in Nat
         /\ IsFiniteSet(Bad(f)) /\ Cardinality(Bad(f)) \in Nat
<1>1. LineEnds(f) \subseteq 1 .. Len(f) /\ Len(f) \in Nat
  BY DEF LineEnds
<1>2. Bad(f) \subseteq 1 .. Len(f)
  BY <1>1 DEF Bad
<1>3. IsFiniteSet(Bad(f)) /\ Cardinality(Bad(f)) \in Nat
  BY <1>1, <1>2, FiniteParts
<1>4. QED
  BY <1>1, <1>3

LEMMA OneMore ==
  ASSUME NEW S, IsFiniteSet(S), NEW x
  PROVE  /\ IsFiniteSet(S \cup {x}) /\ Cardinality(S) \in Nat
         /\ Cardinality(S \cup {x}) \in Nat /\ Cardinality(S \cup {x}) <= Cardinality(S) + 1
<1>1. Cardinality(S) \in Nat
  BY FS_CardinalityType
<1>2. /\ IsFiniteSet(S \cup {x})
      /\ Cardinality(S \cup {x}) = IF x \in S THEN Cardinality(S) ELSE Cardinality(S) + 1
  BY FS_AddElement
<1>3. QED
  BY <1>1, <1>2

LEMMA FileIsChunks == TypeOK => file \in Seq(Chunks)
  BY DEF TypeOK, Chunks

\* A half line takes a torn end out of Bad, and adds its own unless it is readable.
LEMMA BadAfterPut ==
  ASSUME TypeOK, NEW w \in Writers, NEW half \in {"head", "cut", "tail"}, Put(w, half)
  PROVE  /\ Bad(file') \subseteq Bad(file) \cup {Len(file) + 1}
         /\ Whole(file', Len(file) + 1) => Len(file) + 1 \notin Bad(file')
         /\ Len(file) > 0 /\ file[Len(file)].half # "tail" =>
               Len(file) \in Bad(file) /\ Len(file) \notin Bad(file')
<1>1. file \in Seq(Chunks) /\ file' \in Seq(Chunks) /\ Len(file') = Len(file) + 1
  BY PutFacts DEF TypeOK, Chunks
<1>2. \A i \in 1 .. Len(file) : file'[i] = file[i]
  BY PutFacts
<1>3. /\ DOMAIN file = 1 .. Len(file) /\ DOMAIN file' = 1 .. Len(file) + 1
      /\ Len(file) \in Nat
  BY <1>1
<1>4. \A i \in 1 .. Len(file) : Whole(file', i) <=> Whole(file, i)
  BY WholeStays
<1>5. \A i \in Bad(file') : i = Len(file) + 1 \/ i \in Bad(file)
  BY <1>1, <1>2, <1>3, <1>4 DEF Bad, LineEnds, WholeAt
<1>6. Whole(file', Len(file) + 1) => Len(file) + 1 \notin Bad(file')
  BY <1>3 DEF Bad, WholeAt
<1>7. ASSUME Len(file) > 0, file[Len(file)].half # "tail"
      PROVE  Len(file) \in Bad(file) /\ Len(file) \notin Bad(file')
  <2>1. Len(file) \in 1 .. Len(file) /\ Len(file) # Len(file')
    <3>1. Len(file) \in Nat
      BY <1>3
    <3>2. Len(file') = Len(file) + 1
      BY <1>1
    <3>3. QED
      BY <1>7, <3>1, <3>2
  <2>2. file'[Len(file)].half # "tail"
    BY <1>2, <1>7, <2>1
  <2>3. Len(file) \in LineEnds(file)
    BY <1>3, <2>1, Zenon DEF LineEnds
  <2>4. Len(file) \notin LineEnds(file')
    BY <2>1, <2>2, Zenon DEF LineEnds
  <2>5. ~Whole(file, Len(file))
    BY <1>7, Zenon DEF Whole, EndsRecord
  <2>6. QED
    BY <2>3, <2>4, <2>5, Zenon DEF Bad, WholeAt
<1>8. QED
  BY <1>5, <1>6, <1>7

LEMMA BadBegins ==
  ASSUME Inv, BadInv, NEW w \in Writers, WriteBegins(w) PROVE BadInv'
<1>1. PICK half \in {"head", "cut"} : Put(w, half)
  BY BeginsFacts
<1>2. /\ Bad(file') \subseteq Bad(file) \cup {Len(file) + 1}
      /\ Len(file) > 0 /\ file[Len(file)].half # "tail" =>
            Len(file) \in Bad(file) /\ Len(file) \notin Bad(file')
  BY <1>1, BadAfterPut DEF Inv
<1>3. ~AWriteIsOpen /\ AWriteIsOpen' /\ faults' = faults
  BY BeginsFacts DEF WriteBegins
<1>4. IsFiniteSet(Bad(file)) /\ Cardinality(Bad(file)) \in Nat /\ Len(file) \in Nat
  BY BadIsFinite, FileIsChunks DEF Inv
<1>5. IsFiniteSet(Bad(file')) /\ Cardinality(Bad(file')) \in Nat
  <2>1. file' \in Seq(Chunks)
    BY <1>1, PutFacts DEF Inv
  <2>2. QED
    BY <2>1, BadIsFinite
<1>6. faults \in Nat
  BY DEF Inv, TypeOK
<1>7. Ragged' <=> Ragged
  <2>1. Len(file') = Len(file) + 1 /\ \A i \in 1 .. Len(file) : file'[i] = file[i]
    BY <1>1, PutFacts DEF Inv
  <2>2. Before = Len(file) /\ Before' = Len(file)
    BY <1>3, <1>4, <2>1 DEF Before
  <2>3. QED
    BY <1>4, <2>1, <2>2 DEF Ragged
<1>8. CASE Ragged
  <2>1. Len(file) \in Bad(file) /\ Len(file) \notin Bad(file')
    BY <1>2, <1>3, <1>8 DEF Ragged, Before
  <2> DEFINE B == Bad(file) \ {Len(file)}
  <2>2. Bad(file') \subseteq B \cup {Len(file) + 1}
    BY <1>2, <2>1
  <2>3. IsFiniteSet(B) /\ Cardinality(B) = Cardinality(Bad(file)) - 1
    BY <1>4, <2>1, FS_RemoveElement
  <2> HIDE DEF B
  <2>4. /\ IsFiniteSet(B \cup {Len(file) + 1}) /\ Cardinality(B \cup {Len(file) + 1}) \in Nat
        /\ Cardinality(B \cup {Len(file) + 1}) <= Cardinality(B) + 1
    BY <2>3, OneMore
  <2>5. Cardinality(Bad(file')) <= Cardinality(B \cup {Len(file) + 1})
    BY <2>2, <2>4, FS_Subset
  <2>6. Cardinality(Bad(file')) <= Cardinality(Bad(file))
    BY <1>4, <1>5, <2>3, <2>4, <2>5
  <2>7. Cardinality(Bad(file)) <= faults
    BY <1>6, <1>8 DEF BadInv
  <2>8. QED
    BY <1>3, <1>4, <1>5, <1>6, <1>7, <1>8, <2>6, <2>7 DEF BadInv
<1>9. CASE ~Ragged
  <2>1. /\ IsFiniteSet(Bad(file) \cup {Len(file) + 1})
        /\ Cardinality(Bad(file) \cup {Len(file) + 1}) \in Nat
        /\ Cardinality(Bad(file) \cup {Len(file) + 1}) <= Cardinality(Bad(file)) + 1
    BY <1>4, OneMore
  <2>2. Cardinality(Bad(file')) <= Cardinality(Bad(file) \cup {Len(file) + 1})
    BY <1>2, <2>1, FS_Subset
  <2>3. Cardinality(Bad(file')) <= Cardinality(Bad(file)) + 1
    BY <1>4, <1>5, <2>1, <2>2
  <2>4. Cardinality(Bad(file)) <= faults
    BY <1>3, <1>6 DEF BadInv
  <2>5. Cardinality(Bad(file')) <= faults + 1
    BY <1>4, <1>5, <1>6, <2>3, <2>4
  <2>6. QED
    BY <1>3, <1>7, <1>9, <2>5 DEF BadInv
<1>10. QED
  BY <1>8, <1>9

LEMMA BadEnds ==
  ASSUME Inv, BadInv, NEW w \in Writers, WriteEnds(w) PROVE BadInv'
<1> DEFINE B == Bad(file) \ {Len(file)}
<1>1. Put(w, "tail") /\ Len(file) > 0 /\ file[Len(file)].half # "tail"
      /\ file[Len(file)].rec = Current(w)
  BY EndsFacts
<1>2. /\ Bad(file') \subseteq B \cup {Len(file) + 1}
      /\ Whole(file', Len(file) + 1) => Len(file) + 1 \notin Bad(file')
      /\ Len(file) \in Bad(file)
  BY <1>1, BadAfterPut DEF Inv
<1>3. AWriteIsOpen /\ ~AWriteIsOpen' /\ faults' = faults
  BY EndsFacts DEF WriteEnds
<1>4. IsFiniteSet(Bad(file)) /\ Cardinality(Bad(file)) \in Nat /\ Len(file) \in Nat
  BY BadIsFinite, FileIsChunks DEF Inv
<1>5. IsFiniteSet(Bad(file')) /\ Cardinality(Bad(file')) \in Nat
  <2>1. file' \in Seq(Chunks)
    BY <1>1, PutFacts DEF Inv
  <2>2. QED
    BY <2>1, BadIsFinite
<1>6. faults \in Nat
  BY DEF Inv, TypeOK
<1>7. IsFiniteSet(B) /\ Cardinality(B) = Cardinality(Bad(file)) - 1
  BY <1>2, <1>4, FS_RemoveElement
<1> HIDE DEF B
<1>8. CASE Ragged
  <2>1. /\ IsFiniteSet(B \cup {Len(file) + 1}) /\ Cardinality(B \cup {Len(file) + 1}) \in Nat
        /\ Cardinality(B \cup {Len(file) + 1}) <= Cardinality(B) + 1
    BY <1>7, OneMore
  <2>2. Cardinality(Bad(file')) <= Cardinality(B \cup {Len(file) + 1})
    BY <1>2, <2>1, FS_Subset
  <2>3. Cardinality(Bad(file)) <= faults
    BY <1>6, <1>8 DEF BadInv
  <2>4. Cardinality(Bad(file')) <= faults
    BY <1>4, <1>5, <1>6, <1>7, <2>1, <2>2, <2>3
  <2>5. QED
    BY <1>3, <1>6, <2>4 DEF BadInv
<1>9. CASE ~Ragged
  <2>1. Whole(file', Len(file) + 1)
    <3>1. Before = Len(file) - 1
      BY <1>3 DEF Before
    <3>2. Len(file) = 1 \/ file[Len(file) - 1].half = "tail"
      <4>1. ~(Len(file) - 1 > 0) \/ file[Len(file) - 1].half = "tail"
        BY <1>9, <3>1, Zenon DEF Ragged
      <4>2. \A n \in Nat : n > 0 /\ ~(n - 1 > 0) => n = 1
        OBVIOUS
      <4>3. QED
        BY <1>1, <1>4, <4>1, <4>2, Zenon
    <3>3. QED
      BY <1>1, <3>2, WholeAtEnd DEF Inv
  <2>2. Bad(file') \subseteq B
    BY <1>2, <2>1
  <2>3. Cardinality(Bad(file')) <= Cardinality(B)
    BY <1>7, <2>2, FS_Subset
  <2>4. Cardinality(Bad(file)) <= faults + 1
    BY <1>3, <1>9 DEF BadInv
  <2>5. Cardinality(Bad(file')) <= faults
    BY <1>4, <1>5, <1>6, <1>7, <2>3, <2>4
  <2>6. QED
    BY <1>3, <1>6, <2>5 DEF BadInv
<1>10. QED
  BY <1>8, <1>9

LEMMA BadStep ==
  ASSUME Inv, BadInv, [Next]_vars PROVE BadInv'
<1>1. Cardinality(Bad(file)) \in Nat /\ faults \in Nat
  <2>1. Cardinality(Bad(file)) \in Nat
    BY BadIsFinite, FileIsChunks DEF Inv
  <2>2. QED
    BY <2>1 DEF Inv, TypeOK
<1>2. ASSUME UNCHANGED <<file, faults>>, AWriteIsOpen' <=> AWriteIsOpen PROVE BadInv'
  <2>1. Before' = Before
    BY <1>2 DEF Before
  <2>2. Ragged' <=> Ragged
    BY <1>2, <2>1 DEF Ragged
  <2>3. Bad(file') = Bad(file)
    BY <1>2
  <2>4. QED
    BY <1>2, <2>2, <2>3 DEF BadInv
<1>3. CASE UNCHANGED vars
  BY <1>2, <1>3 DEF vars, AWriteIsOpen
<1>4. ASSUME NEW w \in Writers, Open(w) \/ Lock(w) \/ Return(w) PROVE BadInv'
  <2>1. AWriteIsOpen' <=> AWriteIsOpen
    BY <1>4 DEF Open, Lock, Return, Goto, Inv, TypeOK, AWriteIsOpen
  <2>2. QED
    BY <1>2, <1>4, <2>1 DEF Open, Lock, Return
<1>5. ASSUME NEW w \in Writers, WriteShort(w) \/ Raise(w) \/ Crash(w) PROVE BadInv'
  <2>1. file' = file /\ faults' = faults + 1
    BY <1>5 DEF WriteShort, Raise, Crash, Fault
  <2>2. Bad(file') = Bad(file)
    BY <2>1
  <2>3. Cardinality(Bad(file)) <= faults + 1
    BY <1>1 DEF BadInv
  <2>4. QED
    BY <1>1, <2>1, <2>2, <2>3 DEF BadInv
<1>6. QED
  BY <1>3, <1>4, <1>5, BadBegins, BadEnds DEF Next

LEMMA LeastOfTwo ==
  ASSUME NEW a \in Nat, NEW b \in Nat
  PROVE  Least({a, b}) \in Nat /\ Least({a, b}) <= a /\ Least({a, b}) <= b
<1>1. \E n \in {a, b} : \A m \in {a, b} : n <= m
  OBVIOUS
<1>2. Least({a, b}) \in {a, b} /\ \A m \in {a, b} : Least({a, b}) <= m
  BY <1>1 DEF Least
<1>3. QED
  BY <1>2

\* Every record is on a line of its own: what is lost among the last lines is bad.
LEMMA ReadLastFacts ==
  ASSUME TypeOK, NEW n \in 1 .. Len(file)
  PROVE  LET got == Cardinality(ReadLast(file, n))
             bad == Cardinality(Bad(file))
             all == Cardinality(WholeAt(file))
         IN  /\ got \in Nat /\ bad \in Nat /\ all \in Nat
             /\ got <= n
             /\ got = all \/ got + bad >= n
<1> DEFINE E == LineEnds(file)
           W == WholeAt(file)
           L == LastIn(E, n)
<1>1. E \subseteq 1 .. Len(file) /\ Len(file) \in Nat /\ n \in Nat /\ n > 0
  BY BadIsFinite, FileIsChunks
<1>2. \A S : S \subseteq E => IsFiniteSet(S) /\ Cardinality(S) \in Nat
  BY <1>1, FiniteParts
<1>3. W \subseteq E
  BY DEF WholeAt, LineEnds, Whole, EndsRecord
<1>4. LastLines(file, n) = L
  BY DEF LastLines, LastIn, Onward
<1>5. ReadLast(file, n) = L \cap W
  <2>1. L \subseteq DOMAIN file
    BY DEF LastIn, LineEnds
  <2>2. ReadLast(file, n) = {i \in L : Whole(file, i)}
    BY <1>4 DEF ReadLast
  <2>3. \A i \in L : Whole(file, i) <=> i \in W
    BY <2>1 DEF WholeAt
  <2>4. QED
    BY <2>2, <2>3
<1>6. Bad(file) = E \ W
  BY DEF Bad
<1> HIDE DEF E, W
<1>7. /\ L \subseteq E /\ Cardinality(L) <= n
      /\ L = E \/ Cardinality(L) >= n
  BY <1>1, LastInFacts
<1> HIDE DEF L
<1>8. /\ Cardinality(L \cap W) \in Nat /\ Cardinality(E \ W) \in Nat
      /\ Cardinality(W) \in Nat /\ Cardinality(L) \in Nat
      /\ IsFiniteSet(L) /\ IsFiniteSet(E \ W)
  <2>1. L \cap W \subseteq E /\ E \ W \subseteq E
    BY <1>7
  <2>2. QED
    BY <1>2, <1>3, <1>7, <2>1
<1>9. Cardinality(L \cap W) <= Cardinality(L)
  BY <1>8, FS_Subset
<1>10. Cardinality(L \ W) <= Cardinality(E \ W)
  <2>1. L \ W \in SUBSET (E \ W)
    BY <1>7
  <2>2. QED
    BY <1>8, <2>1, FS_Subset
<1>11. Cardinality(L \ W) = Cardinality(L) - Cardinality(L \cap W)
  BY <1>8, FS_Difference
<1>12. CASE L = E
  <2>1. L \cap W = W
    BY <1>3, <1>12
  <2>2. Cardinality(L \cap W) <= n
    BY <1>7, <1>12, <1>1, <1>8, <1>9
  <2>3. QED
    BY <1>5, <1>6, <1>8, <2>1, <2>2 DEF W
<1>13. CASE Cardinality(L) >= n
  <2>1. Cardinality(L \cap W) + Cardinality(E \ W) >= n
    BY <1>1, <1>8, <1>10, <1>11, <1>13
  <2>2. QED
    BY <1>1, <1>5, <1>6, <1>7, <1>8, <1>9, <2>1 DEF W
<1>14. QED
  BY <1>7, <1>12, <1>13

(***************************************************************************)
(* Of the last n > 0 lines a reader gets the last n records, less one for  *)
(* each fault and one for the append in progress, at any moment and for    *)
(* any n: a torn line counts as one line, whatever has joined it.          *)
(***************************************************************************)
THEOREM RecentIsFound == Spec => []ReadLastFindsRecent
<1>1. Init => BadInv
  <2> SUFFICES ASSUME Init PROVE BadInv
    OBVIOUS
  <2>1. file = <<>> /\ faults = 0 /\ ~AWriteIsOpen
    BY DEF Init, AWriteIsOpen
  <2>2. DOMAIN file = {}
    BY <2>1
  <2>3. Bad(file) = {}
    BY <2>2 DEF Bad, LineEnds
  <2>4. Cardinality(Bad(file)) = 0
    BY <2>3, FS_EmptySet
  <2>5. Ragged \in BOOLEAN
    BY DEF Ragged
  <2>6. QED
    BY <2>1, <2>4, <2>5 DEF BadInv
<1>2. Inv /\ BadInv => ReadLastFindsRecent
  <2> SUFFICES ASSUME Inv, BadInv, NEW n \in 1 .. Len(file)
               PROVE  LET got == Cardinality(ReadLast(file, n))
                      IN  /\ got <= n
                          /\ got + faults + (IF lock = None THEN 0 ELSE 1)
                                >= Least({n, Cardinality(WholeAt(file))})
    BY DEF ReadLastFindsRecent, WholeAt
  <2>1. faults \in Nat /\ n \in Nat
    BY DEF Inv, TypeOK
  <2>2. AWriteIsOpen => lock # None
    BY NoneIsNobody DEF Inv, Guarded, AWriteIsOpen
  <2>3. Cardinality(Bad(file)) <= faults + (IF lock = None THEN 0 ELSE 1)
    <3>1. Cardinality(Bad(file)) \in Nat
      BY BadIsFinite, FileIsChunks DEF Inv
    <3>2. QED
      BY <2>1, <2>2, <3>1 DEF BadInv
  <2> DEFINE got == Cardinality(ReadLast(file, n))
             bad == Cardinality(Bad(file))
             all == Cardinality(WholeAt(file))
  <2>4. /\ got \in Nat /\ bad \in Nat /\ all \in Nat
        /\ got <= n /\ (got = all \/ got + bad >= n)
    BY ReadLastFacts DEF Inv
  <2> HIDE DEF got, bad, all
  <2>5. bad <= faults + (IF lock = None THEN 0 ELSE 1)
    BY <2>3 DEF bad
  <2>6. Least({n, all}) \in Nat /\ Least({n, all}) <= n /\ Least({n, all}) <= all
    BY <2>1, <2>4, LeastOfTwo
  <2>7. got + faults + (IF lock = None THEN 0 ELSE 1) >= Least({n, all})
    BY <2>1, <2>4, <2>5, <2>6
  <2>8. QED
    BY <2>4, <2>7 DEF got, all
<1>3. Inv /\ BadInv /\ [Next]_vars => BadInv'
  BY BadStep
<1>4. QED
  BY <1>1, <1>2, <1>3, InitInv, InvStep, PTL DEF Spec

-----------------------------------------------------------------------------
(* The calls implement the abstract log.                                   *)

LEMMA SameLogSeen == file' = file => LogSeen' = LogSeen
  BY DEF LogSeen, WholeAt, Whole, EndsRecord

\* A half line is seen by readers if it completes a record on a line of its own.
LEMMA LogSeenAfterPut ==
  ASSUME TypeOK, NEW w \in Writers, NEW half \in {"head", "cut", "tail"}, Put(w, half)
  PROVE  /\ ~Whole(file', Len(file) + 1) => LogSeen' = LogSeen
         /\ Whole(file', Len(file) + 1) =>
               LogSeen' = [q \in DOMAIN LogSeen \cup {Len(file) + 1} |->
                              IF q = Len(file) + 1 THEN Current(w) ELSE LogSeen[q]]
<1>1. file \in Seq(Chunks) /\ file' \in Seq(Chunks) /\ Len(file') = Len(file) + 1
  BY PutFacts, FileIsChunks
<1>2. \A i \in 1 .. Len(file) : file'[i] = file[i]
  BY PutFacts
<1>3. file'[Len(file) + 1].rec = Current(w)
  BY PutFacts
<1>4. /\ DOMAIN file = 1 .. Len(file) /\ DOMAIN file' = 1 .. Len(file) + 1
      /\ Len(file) \in Nat
  BY <1>1
<1>5. \A i \in 1 .. Len(file) : Whole(file', i) <=> Whole(file, i)
  BY WholeStays
<1>6. DOMAIN LogSeen = WholeAt(file) /\ \A i \in WholeAt(file) : LogSeen[i] = file[i].rec
  BY DEF LogSeen
<1>7. \A i \in WholeAt(file) : i \in 1 .. Len(file) /\ i # Len(file) + 1
  BY <1>4 DEF WholeAt
<1>8. CASE ~Whole(file', Len(file) + 1)
  <2>1. WholeAt(file') = WholeAt(file)
    BY <1>4, <1>5, <1>8 DEF WholeAt
  <2>2. QED
    BY <1>2, <1>7, <1>8, <2>1 DEF LogSeen
<1>9. CASE Whole(file', Len(file) + 1)
  <2>1. WholeAt(file') = WholeAt(file) \cup {Len(file) + 1}
    BY <1>4, <1>5, <1>9 DEF WholeAt
  <2>2. LogSeen' = [q \in WholeAt(file') |-> file'[q].rec]
    BY DEF LogSeen
  <2>3. \A q \in WholeAt(file') :
            file'[q].rec = IF q = Len(file) + 1 THEN Current(w) ELSE LogSeen[q]
    BY <1>2, <1>3, <1>6, <1>7, <2>1
  <2>4. QED
    BY <1>6, <1>9, <2>1, <2>2, <2>3
<1>10. QED
  BY <1>8, <1>9

LEMMA CallSeenIs ==
  ASSUME NEW w \in Writers
  PROVE  CallSeen[w] = IF pc[w] = "Idle" THEN "none"
                       ELSE IF pc[w] = "Written" /\ Whole(file, Len(file)) THEN "logged"
                       ELSE "running"
  BY DEF CallSeen

\* A step of w changes where w is, and what others see of the file only if none
\* of them is in the critical section.
LEMMA CallSeenStep ==
  ASSUME TypeOK, NEW w \in Writers, NEW label, Goto(w, label),
         file' = file \/ \A v \in Writers \ {w} : pc[v] # "Written"
  PROVE  CallSeen' = [CallSeen EXCEPT ![w] = CallSeen'[w]]
<1>1. pc' = [pc EXCEPT ![w] = label] /\ pc \in [Writers -> {"Idle", "Opened", "Locked", "Writing", "Written"}]
  BY DEF Goto, TypeOK
<1>2. \A v \in Writers \ {w} : pc'[v] = pc[v]
  BY <1>1
<1>3. \A v \in Writers \ {w} : CallSeen'[v] = CallSeen[v]
  <2>1. CASE file' = file
    BY <1>2, <2>1 DEF CallSeen
  <2>2. CASE \A v \in Writers \ {w} : pc[v] # "Written"
    BY <1>2, <2>2 DEF CallSeen
  <2>3. QED
    BY <2>1, <2>2
<1>4. DOMAIN CallSeen = Writers /\ DOMAIN CallSeen' = Writers
  BY DEF CallSeen
<1>5. CallSeen = [v \in Writers |-> CallSeen[v]] /\ CallSeen' = [v \in Writers |-> CallSeen'[v]]
  BY DEF CallSeen
<1>6. QED
  BY <1>3, <1>4, <1>5

\* The writer is alone in the critical section.
LEMMA NobodyElseWrote ==
  ASSUME Guarded, NEW w \in Writers, pc[w] \in {"Locked", "Writing", "Written"}
  PROVE  \A v \in Writers \ {w} : pc[v] # "Written"
  BY DEF Guarded

LEMMA BeginsStutters ==
  ASSUME Inv, NEW w \in Writers, WriteBegins(w)
  PROVE  UNCHANGED AL!vars
<1>1. PICK half \in {"head", "cut"} : Put(w, half)
  BY BeginsFacts
<1>2. ~Whole(file', Len(file) + 1)
  BY <1>1, WholeAtEnd DEF Inv
<1>3. LogSeen' = LogSeen
  BY <1>1, <1>2, LogSeenAfterPut DEF Inv
<1>4. pc[w] = "Locked" /\ pc'[w] = "Writing" /\ Goto(w, "Writing")
  BY DEF WriteBegins, Goto, Inv, TypeOK
<1>5. CallSeen' = [CallSeen EXCEPT ![w] = CallSeen'[w]]
  BY <1>4, CallSeenStep, NobodyElseWrote DEF Inv
<1>6. CallSeen[w] = "running" /\ CallSeen'[w] = "running"
  BY <1>4 DEF CallSeen
<1>7. CallSeen' = CallSeen
  BY <1>5, <1>6 DEF CallSeen
<1>8. QED
  BY <1>3, <1>7 DEF AL!vars, WriteBegins

LEMMA EndsLogs ==
  ASSUME Inv, NEW w \in Writers, WriteEnds(w)
  PROVE  AL!Log(w) \/ UNCHANGED AL!vars
<1>1. Put(w, "tail") /\ Len(file') = Len(file) + 1
  <2>1. Put(w, "tail")
    BY EndsFacts
  <2>2. QED
    BY <2>1, PutFacts DEF Inv
<1>2. pc[w] = "Writing" /\ pc'[w] = "Written" /\ Goto(w, "Written")
  BY DEF WriteEnds, Goto, Inv, TypeOK
<1>3. CallSeen' = [CallSeen EXCEPT ![w] = CallSeen'[w]]
  BY <1>2, CallSeenStep, NobodyElseWrote DEF Inv
<1>4. /\ CallSeen[w] = "running"
      /\ CallSeen'[w] = IF Whole(file', Len(file) + 1) THEN "logged" ELSE "running"
  BY <1>1, <1>2 DEF CallSeen
<1>5. UNCHANGED <<next, acked, faults>>
  BY DEF WriteEnds
<1>6. CASE Whole(file', Len(file) + 1)
  <2> DEFINE p == Len(file) + 1
  <2>1. LogSeen' = [q \in DOMAIN LogSeen \cup {p} |-> IF q = p THEN Current(w) ELSE LogSeen[q]]
    BY <1>1, <1>6, LogSeenAfterPut DEF Inv
  <2>2. p \in DOMAIN LogSeen'
    BY <2>1
  <2>3. \A q \in DOMAIN LogSeen : q < p
    <3>1. Len(file) \in Nat /\ DOMAIN file = 1 .. Len(file)
      BY DEF Inv, TypeOK
    <3>2. QED
      BY <3>1 DEF LogSeen, WholeAt
  <2> HIDE DEF p
  <2>4. CallSeen' = [CallSeen EXCEPT ![w] = "logged"]
    BY <1>3, <1>4, <1>6
  <2>5. QED
    BY <1>4, <1>5, <2>1, <2>2, <2>3, <2>4 DEF AL!Log, Current
<1>7. CASE ~Whole(file', Len(file) + 1)
  <2>1. LogSeen' = LogSeen
    BY <1>1, <1>7, LogSeenAfterPut DEF Inv
  <2>2. CallSeen' = CallSeen
    BY <1>3, <1>4, <1>7 DEF CallSeen
  <2>3. QED
    BY <1>5, <2>1, <2>2 DEF AL!vars
<1>8. QED
  BY <1>6, <1>7

LEMMA ShortIsHit ==
  ASSUME Inv, NEW w \in Writers, WriteShort(w)
  PROVE  AL!Hit
<1>1. file' = file /\ UNCHANGED <<next, acked>> /\ faults' = faults + 1
  BY DEF WriteShort, Fault
<1>2. LogSeen' = LogSeen
  BY <1>1, SameLogSeen
<1>3. pc[w] = "Writing" /\ pc'[w] = "Written" /\ Goto(w, "Written")
  BY DEF WriteShort, Goto, Inv, TypeOK
<1>4. ~Whole(file, Len(file))
  BY <1>3 DEF Inv, Guarded, Whole, EndsRecord
<1>5. CallSeen' = [CallSeen EXCEPT ![w] = CallSeen'[w]]
  BY <1>1, <1>3, CallSeenStep DEF Inv
<1>6. CallSeen[w] = "running" /\ CallSeen'[w] = "running"
  BY <1>1, <1>3, <1>4 DEF CallSeen
<1>7. CallSeen' = CallSeen
  BY <1>5, <1>6 DEF CallSeen
<1>8. QED
  BY <1>1, <1>2, <1>7 DEF AL!Hit

LEMMA ReturnReturns ==
  ASSUME Inv, LossInv, LossInv', NEW w \in Writers, Return(w)
  PROVE  AL!Return(w)
<1>1. /\ file' = file /\ faults' = faults /\ acked' = acked \cup {<<w, next[w]>>}
      /\ next' = [next EXCEPT ![w] = @ + 1]
  BY DEF Return, Current
<1>2. LogSeen' = LogSeen
  BY <1>1, SameLogSeen
<1>3. pc[w] = "Written" /\ pc'[w] = "Idle" /\ Goto(w, "Idle")
  BY DEF Return, Goto, Inv, TypeOK
<1>4. CallSeen' = [CallSeen EXCEPT ![w] = CallSeen'[w]]
  BY <1>1, <1>3, CallSeenStep DEF Inv
<1>5. CallSeen[w] # "none" /\ CallSeen'[w] = "none"
  BY <1>3 DEF CallSeen
<1>6. Cardinality(acked' \ AL!Logged) <= 2 * faults
  <2>1. AL!Logged = Readable
    BY DEF AL!Logged, LogSeen, Readable, WholeAt
  <2>2. Readable' = Readable
    BY <1>1 DEF Readable, Whole, EndsRecord
  <2>3. IsFiniteSet(acked' \ Readable)
    BY <2>2, FS_Subset DEF LossInv
  <2>4. Cardinality(acked' \ Readable) \in Nat /\ faults \in Nat
    BY <2>3, FS_CardinalityType DEF Inv, TypeOK
  <2>5. Owed' \in Nat
    BY DEF Owed
  <2>6. Cardinality(acked' \ Readable) + Owed' <= 2 * faults
    BY <1>1, <2>2 DEF LossInv
  <2>7. QED
    BY <2>1, <2>4, <2>5, <2>6
<1>7. AL!Cardinality(acked' \ AL!Logged) = Cardinality(acked' \ AL!Logged)
  BY DEF Cardinality, AL!Cardinality
<1>8. AL!Cardinality(acked' \ AL!Logged) <= 2 * faults
  BY <1>6, <1>7
<1>9. QED
  BY <1>1, <1>2, <1>4, <1>5, <1>8 DEF AL!Return

LEMMA FaultFails ==
  ASSUME Inv, NEW w \in Writers, Raise(w) \/ Crash(w)
  PROVE  AL!Fail(w)
<1>1. /\ file' = file /\ acked' = acked /\ faults' = faults + 1
      /\ \E n \in {next[w], next[w] + 1} : next' = [next EXCEPT ![w] = n]
  BY DEF Raise, Crash, Fault, RetryOrDrop
<1>2. LogSeen' = LogSeen
  BY <1>1, SameLogSeen
<1>3. pc[w] # "Idle" /\ pc'[w] = "Idle" /\ Goto(w, "Idle")
  BY DEF Raise, Crash, Goto, Inv, TypeOK
<1>4. CallSeen' = [CallSeen EXCEPT ![w] = CallSeen'[w]]
  BY <1>1, <1>3, CallSeenStep DEF Inv
<1>5. CallSeen[w] # "none" /\ CallSeen'[w] = "none"
  BY <1>3 DEF CallSeen
<1>6. QED
  BY <1>1, <1>2, <1>4, <1>5 DEF AL!Fail

LEMMA OpenBegins ==
  ASSUME Inv, NEW w \in Writers, Open(w)
  PROVE  AL!Begin(w)
<1>1. UNCHANGED <<file, next, acked, faults>>
  BY DEF Open
<1>2. LogSeen' = LogSeen
  BY <1>1, SameLogSeen
<1>3. pc[w] = "Idle" /\ pc'[w] = "Opened" /\ Goto(w, "Opened")
  BY DEF Open, Goto, Inv, TypeOK
<1>4. CallSeen' = [CallSeen EXCEPT ![w] = CallSeen'[w]]
  BY <1>1, <1>3, CallSeenStep DEF Inv
<1>5. CallSeen[w] = "none" /\ CallSeen'[w] = "running"
  BY <1>3 DEF CallSeen
<1>6. QED
  BY <1>1, <1>2, <1>4, <1>5 DEF AL!Begin

LEMMA LockStutters ==
  ASSUME Inv, NEW w \in Writers, Lock(w)
  PROVE  UNCHANGED AL!vars
<1>1. UNCHANGED <<file, next, acked, faults>>
  BY DEF Lock
<1>2. LogSeen' = LogSeen
  BY <1>1, SameLogSeen
<1>3. pc[w] = "Opened" /\ pc'[w] = "Locked" /\ Goto(w, "Locked")
  BY DEF Lock, Goto, Inv, TypeOK
<1>4. CallSeen' = [CallSeen EXCEPT ![w] = CallSeen'[w]]
  BY <1>1, <1>3, CallSeenStep DEF Inv
<1>5. CallSeen[w] = "running" /\ CallSeen'[w] = "running"
  BY <1>3 DEF CallSeen
<1>6. CallSeen' = CallSeen
  BY <1>4, <1>5 DEF CallSeen
<1>7. QED
  BY <1>1, <1>2, <1>6 DEF AL!vars

(***************************************************************************)
(* Calls that lock, write in pieces, fail and die look to readers as if    *)
(* each added its record in one step: at most once, behind all others, for *)
(* good, and while the call runs; and what a call that returned did not    *)
(* add is paid for by the faults.                                          *)
(***************************************************************************)
THEOREM CallsImplementAppendLog == Spec => ImplementsAppendLog
<1>1. Init => AL!Init
  <2> SUFFICES ASSUME Init PROVE AL!Init
    OBVIOUS
  <2>1. WholeAt(file) = {}
    BY DEF Init, WholeAt
  <2>2. LogSeen = [p \in {} |-> 0]
    BY <2>1 DEF LogSeen
  <2>3. CallSeen = [w \in Writers |-> "none"]
    BY DEF Init, CallSeen
  <2>4. QED
    BY <2>2, <2>3 DEF Init, AL!Init
<1>2. ASSUME Inv, LossInv, LossInv', [Next]_vars PROVE [AL!Next]_(AL!vars)
  <2>1. CASE UNCHANGED vars
    BY <2>1, SameLogSeen DEF vars, AL!vars, CallSeen, Whole, EndsRecord
  <2>2. ASSUME NEW w \in Writers,
               \/ Open(w) \/ Lock(w) \/ WriteBegins(w) \/ WriteEnds(w)
               \/ WriteShort(w) \/ Return(w) \/ Raise(w) \/ Crash(w)
        PROVE  \/ UNCHANGED AL!vars \/ AL!Hit
               \/ AL!Begin(w) \/ AL!Log(w) \/ AL!Return(w) \/ AL!Fail(w)
    BY <1>2, <2>2, OpenBegins, LockStutters, BeginsStutters, EndsLogs, ShortIsHit,
       ReturnReturns, FaultFails
  <2>3. QED
    BY <1>2, <2>1, <2>2 DEF Next, AL!Next
<1>3. Init => LossInv
  BY LossInit
<1>4. QED
  BY <1>1, <1>2, <1>3, InitInv, InvStep, LossStep, PTL DEF Spec, ImplementsAppendLog, AL!Spec
=============================================================================
