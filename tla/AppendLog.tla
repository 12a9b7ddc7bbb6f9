------------------------------ MODULE AppendLog ------------------------------
(***************************************************************************)
(* What safe_append_jsonl promises, with no lock and no bytes in it: a log *)
(* to which a call adds its record, once, at the end, and while it runs.   *)
(* Records stay where they are.  A call that returns without having added  *)
(* its record is paid for by a fault, and a fault pays for two.            *)
(***************************************************************************)
EXTENDS Integers, FiniteSets

CONSTANT Writers   \* who calls safe_append_jsonl

VARIABLES
    log,      \* the records by their positions; a position may be left out
    call,     \* call[w]: "none", "running", or "logged" once its record is there
    next,     \* next[w]: the record of w's current or next call
    acked,    \* the records whose call returned
    faults    \* the faults so far

vars == <<log, call, next, acked, faults>>

Logged == {log[p] : p \in DOMAIN log}

Init ==
    /\ log = [p \in {} |-> 0]
    /\ call = [w \in Writers |-> "none"]
    /\ next = [w \in Writers |-> 0]
    /\ acked = {}
    /\ faults = 0

-----------------------------------------------------------------------------
Begin(w) ==
    /\ call[w] = "none"
    /\ call' = [call EXCEPT ![w] = "running"]
    /\ UNCHANGED <<log, next, acked, faults>>

\* The record becomes readable, behind every other.
Log(w) ==
    /\ call[w] = "running"
    /\ call' = [call EXCEPT ![w] = "logged"]
    /\ \E p \in DOMAIN log' :
          /\ \A q \in DOMAIN log : q < p
          /\ log' = [q \in DOMAIN log \cup {p} |-> IF q = p THEN <<w, next[w]>> ELSE log[q]]
    /\ UNCHANGED <<next, acked, faults>>

Return(w) ==
    /\ call[w] # "none"
    /\ call' = [call EXCEPT ![w] = "none"]
    /\ next' = [next EXCEPT ![w] = @ + 1]
    /\ acked' = acked \cup {<<w, next[w]>>}
    /\ call[w] = "logged" \/ Cardinality(acked' \ Logged) <= 2 * faults
    /\ UNCHANGED <<log, faults>>

\* The call raises or dies, before or after its record was logged.
Fail(w) ==
    /\ call[w] # "none"
    /\ call' = [call EXCEPT ![w] = "none"]
    /\ \E n \in {next[w], next[w] + 1} : next' = [next EXCEPT ![w] = n]
    /\ faults' = faults + 1
    /\ UNCHANGED <<log, acked>>

\* A fault that no caller is told of.
Hit ==
    /\ faults' = faults + 1
    /\ UNCHANGED <<log, call, next, acked>>

Next == Hit \/ \E w \in Writers : Begin(w) \/ Log(w) \/ Return(w) \/ Fail(w)

Spec == Init /\ [][Next]_vars
=============================================================================
