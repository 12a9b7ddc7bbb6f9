----------------------------- MODULE JsonlAppend -----------------------------
(***************************************************************************)
(* examples/safe_append_jsonl.py: the processes that append records to one *)
(* JSONL file under flock, and read_last_n, which may read it at any time. *)
(*                                                                         *)
(* The file is a sequence of half lines.  A record is its writer and the   *)
(* number of the call.  Its first half is a "head", or a "cut" when the    *)
(* write stopped inside a multi-byte character (json.dumps is called with  *)
(* ensure_ascii=False); its "tail" ends with the newline.  One os.write is *)
(* two steps, because a reader or a crash can come between its bytes.      *)
(***************************************************************************)
EXTENDS Integers, Sequences, FiniteSets

CONSTANTS
    Writers,     \* the processes that call safe_append_jsonl
    Quota,       \* bound: records a writer appends
    MaxFaults,   \* bound: short writes, OSErrors and crashes
    Wide,        \* the writers whose records have multi-byte characters
    None         \* nobody

ASSUME BoundsAreNat == Quota \in Nat /\ MaxFaults \in Nat
ASSUME WideAreWriters == Wide \subseteq Writers
ASSUME NoneIsNobody == None \notin Writers

VARIABLES
    file,     \* the half lines of the file
    lock,     \* the holder of the flock, or None
    pc,       \* where each writer is in safe_append_jsonl
    next,     \* next[w]: the record of w's current or next call
    acked,    \* the records whose call returned
    faults    \* how much of MaxFaults is used

vars == <<file, lock, pc, next, acked, faults>>

-----------------------------------------------------------------------------
Records == Writers \X Nat
Chunk(r, half) == [rec |-> r, half |-> half]
Current(w) == <<w, next[w]>>
Firsts(w) == IF w \in Wide THEN {"head", "cut"} ELSE {"head"}

\* The holder of the lock is inside the critical section.
TypeOK ==
    /\ file \in Seq([rec : Records, half : {"head", "cut", "tail"}])
    /\ lock \in {w \in Writers : pc[w] \in {"Locked", "Writing", "Written"}} \cup {None}
    /\ pc \in [Writers -> {"Idle", "Opened", "Locked", "Writing", "Written"}]
    /\ next \in [Writers -> Nat]
    /\ acked \subseteq Records
    /\ faults \in Nat

Init ==
    /\ file = <<>>
    /\ lock = None
    /\ pc = [w \in Writers |-> "Idle"]
    /\ next = [w \in Writers |-> 0]
    /\ acked = {}
    /\ faults = 0

-----------------------------------------------------------------------------
Goto(w, label) == pc' = [pc EXCEPT ![w] = label]
Put(w, half)   == file' = Append(file, Chunk(Current(w), half))

\* os.open with O_APPEND.
Open(w) ==
    /\ pc[w] = "Idle" /\ next[w] < Quota
    /\ Goto(w, "Opened")
    /\ UNCHANGED <<file, lock, next, acked, faults>>

NoWait(w) == TRUE   \* mutant: no flock
\* flock(fd, LOCK_EX) returns when nobody holds the lock.
Unlocked(w) == lock = None

Lock(w) ==
    /\ pc[w] = "Opened" /\ Unlocked(w)
    /\ lock' = w
    /\ Goto(w, "Locked")
    /\ UNCHANGED <<file, next, acked, faults>>

\* os.write: some bytes are in the file, then all of them.
WriteBegins(w) ==
    /\ pc[w] = "Locked"
    /\ \E half \in Firsts(w) : Put(w, half)
    /\ Goto(w, "Writing")
    /\ UNCHANGED <<lock, next, acked, faults>>

WriteEnds(w) ==
    /\ pc[w] = "Writing"
    /\ Put(w, "tail")
    /\ Goto(w, "Written")
    /\ UNCHANGED <<lock, next, acked, faults>>

Fault == faults < MaxFaults /\ faults' = faults + 1

\* os.write returns after a part of the record; its result is not looked at.
WriteShort(w) ==
    /\ pc[w] = "Writing" /\ Fault
    /\ Goto(w, "Written")
    /\ UNCHANGED <<file, lock, next, acked>>

KeepLock(w) == lock   \* mutant: no finally
\* The two finally clauses: LOCK_UN, then close.
LockAfter(w) == IF lock = w THEN None ELSE lock

\* fsync, then the call returns.
Return(w) ==
    /\ pc[w] = "Written"
    /\ lock' = LockAfter(w)
    /\ acked' = acked \cup {Current(w)}
    /\ next' = [next EXCEPT ![w] = @ + 1]
    /\ Goto(w, "Idle")
    /\ UNCHANGED <<file, faults>>

\* The caller of a failed call tries the record again or drops it.
RetryOrDrop(w) == \E n \in {next[w], next[w] + 1} : next' = [next EXCEPT ![w] = n]

WriteAgain(w) ==   \* mutant: an fsync that raises makes it write the record again
    /\ pc[w] \in {"Locked", "Written"} /\ Fault
    /\ Goto(w, "Locked")
    /\ UNCHANGED <<file, lock, next, acked>>

\* os.write raises before it wrote anything, or fsync raises.
Raise(w) ==
    /\ pc[w] \in {"Locked", "Written"} /\ Fault
    /\ lock' = LockAfter(w)
    /\ RetryOrDrop(w)
    /\ Goto(w, "Idle")
    /\ UNCHANGED <<file, acked>>

\* The process dies in the call; the kernel closes fd and drops its lock.
Crash(w) ==
    /\ pc[w] # "Idle" /\ Fault
    /\ lock' = IF lock = w THEN None ELSE lock
    /\ RetryOrDrop(w)
    /\ Goto(w, "Idle")
    /\ UNCHANGED <<file, acked>>

Next ==
    \E w \in Writers : \/ Open(w)       \/ Lock(w)
                       \/ WriteBegins(w) \/ WriteEnds(w) \/ WriteShort(w)
                       \/ Return(w)     \/ Raise(w)      \/ Crash(w)

Spec == Init /\ [][Next]_vars

\* A call that was made runs on, and the kernel serves who waits for a lock.
FairSpec ==
    /\ Spec
    /\ \A w \in Writers :
          /\ SF_vars(Lock(w))
          /\ WF_vars(WriteBegins(w)) /\ WF_vars(WriteEnds(w)) /\ WF_vars(Return(w))

-----------------------------------------------------------------------------
(* read_last_n.                                                            *)

EndsRecord(f, i) == i > 1 /\ f[i].half = "tail" /\ f[i - 1].rec = f[i].rec
\* A line is what json.loads accepts if it is one record and nothing else.
Whole(f, i) == EndsRecord(f, i) /\ (i = 2 \/ f[i - 2].half = "tail")
LineEnds(f) == {i \in DOMAIN f : f[i].half = "tail" \/ i = Len(f)}

\* A character that is cut and not completed makes readlines raise.
Decodes(f) == \A i \in DOMAIN f : f[i].half = "cut" => i < Len(f) /\ EndsRecord(f, i + 1)

AllButLast(f, n) == {i \in LineEnds(f) : Cardinality({j \in LineEnds(f) : j >= i}) < n}   \* mutant
\* lines[-n:], which is every line when n = 0
LastLines(f, n) ==
    {i \in LineEnds(f) : n = 0 \/ Cardinality({j \in LineEnds(f) : j >= i}) <= n}

\* The positions of the records that read_last_n(path, n) returns.
ReadLast(f, n) == {i \in LastLines(f, n) : Whole(f, i)}

-----------------------------------------------------------------------------
(* Properties.                                                             *)

Readable == {file[i].rec : i \in {j \in DOMAIN file : Whole(file, j)}}
Least(S) == CHOOSE n \in S : \A m \in S : n <= m

(***************************************************************************)
(* Whatever crashes, fails or is cut short, the bytes of two calls never   *)
(* mix: the end of a record directly follows its own beginning.            *)
(***************************************************************************)
RecordsDoNotMix == \A i \in DOMAIN file : file[i].half = "tail" => EndsRecord(file, i)

(***************************************************************************)
(* A fault costs at most two records whose call returned: the one os.write *)
(* cut short and the one appended to the torn line.  Without faults every  *)
(* record whose call returned can be read.                                 *)
(***************************************************************************)
FaultCostsTwo == Cardinality(acked \ Readable) <= 2 * faults

(***************************************************************************)
(* A reader that asks for the last n > 0 lines while others append, and    *)
(* whose file decodes, gets the last n records, less one for each torn     *)
(* line among them and one for the append in progress.                     *)
(***************************************************************************)
ReadLastFindsRecent ==
    \A n \in 1 .. Len(file) :
        LET got == Cardinality(ReadLast(file, n))
        IN  Decodes(file) =>
            /\ got <= n
            /\ got + faults + (IF lock = None THEN 0 ELSE 1)
                  >= Least({n, Cardinality({i \in DOMAIN file : Whole(file, i)})})

WholeAt(f) == {i \in DOMAIN f : Whole(f, i)}

\* What a reader sees, and where each call is: the lock's holder has written last.
LogSeen == [i \in WholeAt(file) |-> file[i].rec]
CallSeen ==
    [w \in Writers |-> IF pc[w] = "Idle" THEN "none"
                       ELSE IF pc[w] = "Written" /\ Whole(file, Len(file)) THEN "logged"
                       ELSE "running"]
AL == INSTANCE AppendLog WITH log <- LogSeen, call <- CallSeen

(***************************************************************************)
(* Calls that lock, write in pieces, fail and die look to a reader as if   *)
(* each added its record in one step, at most once, behind all others and  *)
(* for good, and none but the call in the critical section.                *)
(***************************************************************************)
ImplementsAppendLog == AL!Spec

(***************************************************************************)
(* A call that was made returns, raises or dies: nobody waits for ever for *)
(* a lock that a failed or dead writer left.                               *)
(***************************************************************************)
AppendEnds == \A w \in Writers : pc[w] = "Opened" ~> pc[w] = "Idle"

(***************************************************************************)
(* "Skips malformed lines with a stderr warning rather than raising."      *)
(* (examples/safe_append_jsonl.py:61)                                      *)
(***************************************************************************)
MalformedIsSkipped == lock = None => Decodes(file)
=============================================================================
