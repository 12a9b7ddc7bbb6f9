------------------------- MODULE IdempotencyCacheProofs -------------------------
(***************************************************************************)
(* What holds of the replay filter for any messages, ids, TTL and number   *)
(* of failures.                                                            *)
(***************************************************************************)
EXTENDS IdempotencyCache, TLAPS

\* The variables start in their types.
LEMMA InitHasTypes == Init => TypeOK
<1> SUFFICES ASSUME Init PROVE TypeOK
  OBVIOUS
<1>1. torn \in BOOLEAN /\ pc \in {"Filter", "Handle", "Down"}
  BY Zenon DEF Init
<1>2. day \in 0..MaxDays /\ failures \in 0..MaxFailures /\ handled \in Seq(Marks)
  BY LimitsAreNat DEF Init
<1> QED
  BY <1>1, <1>2 DEF Init, TypeOK

\* No step of the filter takes a variable out of its type.
LEMMA CacheStepKeepsTypes == TypeOK /\ [Next]_vars => TypeOK'
<1> SUFFICES ASSUME TypeOK, [Next]_vars PROVE TypeOK'
  OBVIOUS
<1> USE IdOfIsTotal, LimitsAreNat DEF TypeOK
<1>1. ASSUME NEW m \in Messages, Mark(m) PROVE TypeOK'
  BY <1>1 DEF Mark, Marks
<1>2. ASSUME NEW k \in marking, AppendRecord(k) PROVE TypeOK'
  <2>1. RecordOf(k) \in Records
    BY DEF RecordOf, Marks, Records
  <2>2. file' \subseteq Records
    BY <1>2, <2>1 DEF AppendRecord, Appended
  <2> QED
    BY <1>2, <2>2 DEF AppendRecord
<1>3. CASE Return
  BY <1>3 DEF Return
<1>4. ASSUME NEW k \in batch, Handle(k) PROVE TypeOK'
  BY <1>4 DEF Handle
<1>5. CASE Restart
  BY <1>5 DEF Restart, Records
<1>6. CASE AppendFails
  <2>1. failures' \in 0..MaxFailures
    BY <1>6 DEF AppendFails, Fails
  <2>2. torn' \in BOOLEAN
    BY <1>6, Zenon DEF AppendFails, MayTear
  <2> QED
    BY <1>6, <2>1, <2>2 DEF AppendFails
<1>7. CASE Crash
  <2>1. failures' \in 0..MaxFailures
    BY <1>7 DEF Crash, Fails
  <2>2. torn' \in BOOLEAN
    BY <1>7, Zenon DEF Crash, MayTear
  <2> QED
    BY <1>7, <2>1, <2>2 DEF Crash
<1>8. CASE NewDay
  BY <1>8 DEF NewDay
<1>9. CASE UNCHANGED vars
  BY <1>9 DEF vars
<1> QED
  BY <1>1, <1>2, <1>3, <1>4, <1>5, <1>6, <1>7, <1>8, <1>9 DEF Next, Reader

\* The variables of the filter keep their types.
THEOREM CacheTypeCorrect == Spec => []TypeOK
<1>1. Init => TypeOK
  BY InitHasTypes
<1> QED
  BY <1>1, CacheStepKeepsTypes, PTL DEF Spec

-----------------------------------------------------------------------------
(* No replay is accepted within the TTL. *)

\* A record is older than the TTL on day d.
Old(r, d) == TTL > 0 /\ r.day + TTL < d

\* While the reader is up, a record that memory does not know has expired.
MemoryCovers == pc # "Down" => \A r \in file : r.id \in seen \/ Old(r, day)

\* What is being marked is known in memory, is not in the batch and is no replay
\* of a record that has not expired.
MarkingInv ==
    \A k \in marking :
        /\ pc = "Filter" /\ marking = {k}
        /\ IdOf[k.msg] \in seen
        /\ \A r \in file : r.id = IdOf[k.msg] => Old(r, k.day)
        /\ \A l \in batch : IdOf[l.msg] # IdOf[k.msg]

\* What is accepted is on disk and in memory, once.
BatchInv ==
    \A k \in batch :
        /\ pc # "Down"
        /\ IdOf[k.msg] \in seen
        /\ RecordOf(k) \in file
        /\ \A l \in batch : IdOf[l.msg] = IdOf[k.msg] => l = k
        /\ \A i \in 1..Len(handled) : IdOf[handled[i].msg] = IdOf[k.msg] => Apart(handled[i], k)

\* What was handled is on disk.
HandledInv == \A i \in 1..Len(handled) : RecordOf(handled[i]) \in file

CInv ==
    /\ TypeOK
    /\ torn = FALSE
    /\ MemoryCovers /\ MarkingInv /\ BatchInv /\ HandledInv
    /\ NoReplayWithinTTL

\* Two messages are apart if the record of the first is old on the day of the
\* second.
LEMMA ApartIsOld ==
    ASSUME NEW k, NEW l
    PROVE  Apart(k, l) <=> Old(RecordOf(k), l.day)
  BY DEF Apart, Old, RecordOf

\* A record does not become younger.
LEMMA OldStaysOld ==
    ASSUME NEW r \in Records, NEW d \in Nat, Old(r, d)
    PROVE  Old(r, d + 1)
  BY TTLIsNat DEF Old, Records

\* A record that _load drops is old.
LEMMA NotKeptIsOld ==
    ASSUME TypeOK, NEW r \in Records, ~Kept(r)
    PROVE  Old(r, day)
  BY TTLIsNat DEF TypeOK, Kept, Old, Records

\* Only writing a line can change what the invariant says of the file: if no
\* append leaves part of a line, every step keeps it.
LEMMA StepKeepsCInv ==
    ASSUME ~TornWrites, CInv, [Next]_vars
    PROVE  CInv'
<1> USE IdOfIsTotal, TTLIsNat, TornIsBoolean DEF CInv
<1>t. TypeOK'
  BY CacheStepKeepsTypes
<1>1. ASSUME NEW m \in Messages, Mark(m) PROVE CInv'
  <2> USE <1>1 DEF Mark
  <2>1. torn' = FALSE /\ HandledInv' /\ NoReplayWithinTTL'
    BY DEF HandledInv, NoReplayWithinTTL, RecordOf, Apart
  <2>2. MemoryCovers'
    BY DEF MemoryCovers, Old
  <2>3. MarkingInv'
    BY DEF MarkingInv, MemoryCovers, BatchInv, Old
  <2>4. BatchInv'
    BY DEF BatchInv, RecordOf, Apart
  <2> QED
    BY <1>t, <2>1, <2>2, <2>3, <2>4
<1>2. ASSUME NEW k \in marking, AppendRecord(k) PROVE CInv'
  <2> USE <1>2 DEF AppendRecord
  <2>1. file' = file \cup {RecordOf(k)} /\ RecordOf(k).id = IdOf[k.msg]
    BY DEF Appended, RecordOf
  <2>2. torn' = FALSE /\ MarkingInv'
    BY DEF MarkingInv
  <2>3. HandledInv' /\ NoReplayWithinTTL'
    BY <2>1 DEF HandledInv, NoReplayWithinTTL, RecordOf, Apart
  <2>4. MemoryCovers'
    BY <2>1 DEF MemoryCovers, MarkingInv, Old
  <2>5. BatchInv'
    <3>1. ASSUME NEW i \in 1..Len(handled), IdOf[handled[i].msg] = IdOf[k.msg]
          PROVE  Apart(handled[i], k)
      BY <3>1, ApartIsOld DEF HandledInv, MarkingInv, RecordOf
    <3> QED
      BY <2>1, <3>1 DEF BatchInv, MarkingInv, RecordOf, Apart
  <2> QED
    BY <1>t, <2>2, <2>3, <2>4, <2>5
<1>3. CASE Return
  <2> USE <1>3 DEF Return
  <2>1. torn' = FALSE /\ MemoryCovers' /\ MarkingInv' /\ BatchInv'
    BY DEF MemoryCovers, MarkingInv, BatchInv, Old, RecordOf, Apart
  <2> QED
    BY <1>t, <2>1 DEF HandledInv, NoReplayWithinTTL, RecordOf, Apart
<1>4. ASSUME NEW k \in batch, Handle(k) PROVE CInv'
  <2> USE <1>4 DEF Handle
  <2>1. torn' = FALSE /\ MemoryCovers' /\ MarkingInv'
    BY DEF MemoryCovers, MarkingInv, Old
  <2>2. /\ Len(handled') = Len(handled) + 1
        /\ handled'[Len(handled) + 1] = k
        /\ \A i \in 1..Len(handled) : handled'[i] = handled[i]
    BY DEF TypeOK
  <2>3. \A i \in 1..Len(handled') : i \in 1..Len(handled) \/ i = Len(handled) + 1
    BY <2>2 DEF TypeOK
  <2>4. HandledInv'
    BY <2>2, <2>3 DEF HandledInv, BatchInv, RecordOf
  <2>5. NoReplayWithinTTL'
    <3> SUFFICES ASSUME NEW i \in 1..Len(handled'), NEW j \in 1..Len(handled'), i < j,
                        IdOf[handled'[i].msg] = IdOf[handled'[j].msg]
                 PROVE  Apart(handled'[i], handled'[j])
      BY DEF NoReplayWithinTTL, Apart
    <3>1. i \in 1..Len(handled)
      BY <2>2 DEF TypeOK
    <3>2. CASE j \in 1..Len(handled)
      BY <2>2, <3>1, <3>2 DEF NoReplayWithinTTL
    <3>3. CASE j = Len(handled) + 1
      BY <2>2, <3>1, <3>3 DEF BatchInv
    <3> QED
      BY <2>3, <3>2, <3>3
  <2>6. BatchInv'
    <3>1. ASSUME NEW l \in batch', NEW i \in 1..Len(handled'),
                 IdOf[handled'[i].msg] = IdOf[l.msg]
          PROVE  Apart(handled'[i], l)
      <4>1. l \in batch /\ IdOf[l.msg] # IdOf[k.msg]
        BY DEF BatchInv
      <4>2. i \in 1..Len(handled)
        BY <2>2, <2>3, <3>1, <4>1
      <4> QED
        BY <2>2, <3>1, <4>1, <4>2 DEF BatchInv
    <3> QED
      BY <3>1 DEF BatchInv, RecordOf, Apart
  <2> QED
    BY <1>t, <2>1, <2>4, <2>5, <2>6
<1>5. CASE Restart
  <2> USE <1>5 DEF Restart
  <2>1. torn' = FALSE /\ HandledInv' /\ NoReplayWithinTTL'
    BY DEF HandledInv, NoReplayWithinTTL, RecordOf, Apart
  <2>2. MemoryCovers'
    <3> SUFFICES ASSUME NEW r \in file PROVE r.id \in seen' \/ Old(r, day)
      BY DEF MemoryCovers, Old
    <3>1. r \in Records
      BY DEF TypeOK
    <3> QED
      BY <3>1, NotKeptIsOld
  <2>3. MarkingInv' /\ BatchInv'
    BY DEF MarkingInv, BatchInv
  <2> QED
    BY <1>t, <2>1, <2>2, <2>3
<1>6. CASE AppendFails
  <2> USE <1>6 DEF AppendFails
  <2>1. torn' = FALSE /\ MemoryCovers' /\ MarkingInv' /\ BatchInv'
    BY DEF MayTear, MemoryCovers, MarkingInv, BatchInv, Old
  <2> QED
    BY <1>t, <2>1 DEF HandledInv, NoReplayWithinTTL, RecordOf, Apart
<1>7. CASE Crash
  <2> USE <1>7 DEF Crash
  <2>1. torn' = FALSE /\ MemoryCovers' /\ MarkingInv' /\ BatchInv'
    BY DEF MayTear, MemoryCovers, MarkingInv, BatchInv
  <2> QED
    BY <1>t, <2>1 DEF HandledInv, NoReplayWithinTTL, RecordOf, Apart
<1>8. CASE NewDay
  <2> USE <1>8 DEF NewDay
  <2>1. MemoryCovers'
    <3> SUFFICES ASSUME pc # "Down", NEW r \in file PROVE r.id \in seen \/ Old(r, day + 1)
      BY DEF MemoryCovers, Old
    <3>1. r \in Records /\ day \in Nat
      BY DEF TypeOK
    <3> QED
      BY <3>1, OldStaysOld DEF MemoryCovers
  <2>2. torn' = FALSE /\ MarkingInv' /\ BatchInv'
    BY DEF MarkingInv, BatchInv, RecordOf, Apart, Old
  <2> QED
    BY <1>t, <2>1, <2>2 DEF HandledInv, NoReplayWithinTTL, RecordOf, Apart
<1>9. CASE UNCHANGED vars
  BY <1>t, <1>9 DEF vars, MemoryCovers, MarkingInv, BatchInv, HandledInv, NoReplayWithinTTL,
                    RecordOf, Apart, Old
<1> QED
  BY <1>1, <1>2, <1>3, <1>4, <1>5, <1>6, <1>7, <1>8, <1>9 DEF Next, Reader

\* If no append leaves part of a line, two handled messages with one correlation
\* id were accepted more than a TTL apart, and without a TTL there are no two:
\* whatever is offered, and wherever the process dies or an append fails.
THEOREM NoReplayWithinTTLAlways ==
    ASSUME ~TornWrites
    PROVE  Spec => []NoReplayWithinTTL
<1>1. Init => CInv
  <2> SUFFICES ASSUME Init PROVE CInv
    OBVIOUS
  <2>1. 1..Len(handled) = {}
    BY DEF Init
  <2>2. MemoryCovers /\ MarkingInv /\ BatchInv
    BY DEF Init, MemoryCovers, MarkingInv, BatchInv
  <2> QED
    BY <2>1, <2>2, InitHasTypes DEF Init, CInv, HandledInv, NoReplayWithinTTL
<1>2. CInv /\ [Next]_vars => CInv'
  BY StepKeepsCInv
<1>3. CInv => NoReplayWithinTTL
  BY DEF CInv
<1> QED
  BY <1>1, <1>2, <1>3, PTL DEF Spec
=============================================================================
