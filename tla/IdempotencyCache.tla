--------------------------- MODULE IdempotencyCache ---------------------------
(***************************************************************************)
(* The replay filter of examples/idempotency.py and the reader that uses   *)
(* it: messages are offered in any order and any number of times, the      *)
(* filter marks correlation ids in memory and then in a JSONL file, the    *)
(* reader handles what the filter returned, and the process may die or an  *)
(* append fail in between.                                                 *)
(***************************************************************************)
EXTENDS Naturals, Sequences

CONSTANTS
    Messages,     \* the messages with a correlation id
    Ids,          \* the correlation ids
    IdOf,         \* IdOf[m] is msg["correlation_id"]
    TTL,          \* ttl_days; 0 stands for None, as in the code
    TornWrites,   \* may a failing append leave part of its line?
    MaxDays,      \* bound: days that pass
    MaxFailures   \* bound: crashes and failed appends

ASSUME IdOfIsTotal == IdOf \in [Messages -> Ids]
ASSUME TTLIsNat == TTL \in Nat
ASSUME LimitsAreNat == MaxDays \in Nat /\ MaxFailures \in Nat
ASSUME TornIsBoolean == TornWrites \in BOOLEAN

VARIABLES
    seen,       \* _seen: the ids in memory
    file,       \* the parsable lines of the file: records [id, day]
    torn,       \* does the file end in part of a line?
    day,        \* the clock
    pc,         \* "Filter" in filter_new, "Handle" in its caller, or "Down"
    marking,    \* the message mark_seen is about to append, with its seen_at
    batch,      \* out of filter_new: accepted and not yet handled
    handled,    \* history: what the caller has handled, in order
    failures    \* how much of the bound is used

vars == <<seen, file, torn, day, pc, marking, batch, handled, failures>>

Marks   == [msg : Messages, day : Nat]
Records == [id : Ids, day : Nat]

TypeOK ==
    /\ seen \subseteq Ids
    /\ file \subseteq Records
    /\ torn \in BOOLEAN
    /\ day \in 0..MaxDays
    /\ pc \in {"Filter", "Handle", "Down"}
    /\ marking \subseteq Marks
    /\ batch \subseteq Marks
    /\ handled \in Seq(Marks)
    /\ failures \in 0..MaxFailures

Init ==
    /\ seen = {} /\ file = {} /\ torn = FALSE
    /\ day = 0
    /\ pc = "Filter"
    /\ marking = {} /\ batch = {} /\ handled = <<>>
    /\ failures = 0

-----------------------------------------------------------------------------
WholeMessage(k) == [id |-> k.msg, day |-> k.day]   \* mutant: records msg, not its id
RecordOf(k) == [id |-> IdOf[k.msg], day |-> k.day]

\* mark_seen of a new id: in memory first.  (A known id, or none at all, changes
\* nothing.)
Mark(m) ==
    /\ pc = "Filter" /\ marking = {}
    /\ IdOf[m] \notin seen
    /\ seen' = seen \cup {IdOf[m]}
    /\ marking' = {[msg |-> m, day |-> day]}
    /\ UNCHANGED <<file, torn, day, pc, batch, handled, failures>>

\* A line appended to part of a line is part of a malformed line.
Appended(k) == IF torn THEN file ELSE file \cup {RecordOf(k)}

SilentAppend(k) ==   \* mutant: mark_seen forgets to return True
    /\ k \in marking
    /\ file' = Appended(k)
    /\ torn' = FALSE
    /\ marking' = {}
    /\ UNCHANGED <<seen, day, pc, batch, handled, failures>>

AppendRecord(k) ==
    /\ k \in marking
    /\ file' = Appended(k)
    /\ torn' = FALSE
    /\ marking' = {}
    /\ batch' = batch \cup {k}
    /\ UNCHANGED <<seen, day, pc, handled, failures>>

Fails == failures < MaxFailures /\ failures' = failures + 1
MayTear == torn' = torn \/ (TornWrites /\ torn' = TRUE)

\* The exception leaves filter_new: what it had accepted so far is not
\* returned.  The ids stay in memory.
AppendFails ==
    /\ marking # {}
    /\ Fails /\ MayTear
    /\ marking' = {} /\ batch' = {}
    /\ UNCHANGED <<seen, file, day, pc, handled>>

Return ==
    /\ pc = "Filter" /\ marking = {} /\ batch # {}
    /\ pc' = "Handle"
    /\ UNCHANGED <<seen, file, torn, day, marking, batch, handled, failures>>

\* The caller handles the returned messages one by one and then reads again.
Handle(k) ==
    /\ pc = "Handle" /\ k \in batch
    /\ handled' = Append(handled, k)
    /\ batch' = batch \ {k}
    /\ pc' = IF batch = {k} THEN "Filter" ELSE "Handle"
    /\ UNCHANGED <<seen, file, torn, day, marking, failures>>

Crash ==
    /\ pc # "Down"
    /\ Fails
    /\ IF marking = {} THEN torn' = torn ELSE MayTear
    /\ seen' = {} /\ marking' = {} /\ batch' = {}
    /\ pc' = "Down"
    /\ UNCHANGED <<file, day, handled>>

HalfWindow(r) == TTL = 0 \/ day < r.day + TTL   \* mutant: off by one day
\* _load keeps what is not older than the cutoff.
Kept(r) == TTL = 0 \/ day <= r.day + TTL

Restart ==
    /\ pc = "Down"
    /\ seen' = {r.id : r \in {q \in file : Kept(q)}}
    /\ pc' = "Filter"
    /\ UNCHANGED <<file, torn, day, marking, batch, handled, failures>>

NewDay ==
    /\ day < MaxDays
    /\ day' = day + 1
    /\ UNCHANGED <<seen, file, torn, pc, marking, batch, handled, failures>>

Reader == \/ \E k \in marking : AppendRecord(k)
          \/ Return
          \/ \E k \in batch : Handle(k)
          \/ Restart

Next ==
    \/ \E m \in Messages : Mark(m)
    \/ Reader
    \/ AppendFails \/ Crash \/ NewDay

Spec == Init /\ [][Next]_vars

\* The reader keeps going and every message keeps being offered.
FairSpec == Spec /\ WF_vars(Reader) /\ \A m \in Messages : SF_vars(Mark(m))

-----------------------------------------------------------------------------
Apart(k, l) == TTL > 0 /\ k.day + TTL < l.day

\* Two handled messages with one correlation id were accepted more than a TTL
\* apart; without a TTL there are no two.  Restarts, abandoned batches and
\* crashes between marking and handling included.
NoReplayWithinTTL ==
    \A i, j \in 1..Len(handled) :
        i < j /\ IdOf[handled[i].msg] = IdOf[handled[j].msg] => Apart(handled[i], handled[j])

Handled(m) == \E i \in 1..Len(handled) : handled[i].msg = m

\* Every correlation id that is offered gets through, unless something fails: one
\* of its messages is marked, returned and handled.
EveryIdHandled ==
    \A c \in Ids : <>(failures > 0 \/ \E m \in Messages : IdOf[m] = c /\ Handled(m))
=============================================================================
