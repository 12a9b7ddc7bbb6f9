---------------------------- MODULE SignedCommits ----------------------------
(***************************************************************************)
(* The commits of one clone under the pre-commit hooks v3/verify.py and    *)
(* examples/jsonl_schema.py: an agent appends signed messages to its       *)
(* outbound file, its daemon stages the file and commits, git runs the     *)
(* hooks, and an operator changes the trusted keys and overrides hooks.    *)
(*                                                                         *)
(* The file, the index and HEAD are sequences of lines.  While it is       *)
(* written a line is "open", or "bare" if only its newline is missing;     *)
(* then it is "whole", or "bad" when two records share it.  The agent, the *)
(* daemon and the operator are different processes: the file and           *)
(* trust.json can change between any two steps of a commit.                *)
(***************************************************************************)
EXTENDS Signing, Naturals, Sequences, FiniteSets

CONSTANTS
    Me,          \* the agent's handle
    Hooks,       \* the hooks that .git/hooks/pre-commit calls
    Shapes,      \* the shapes of the messages the agent appends
    Quota,       \* bound: lines of the file
    MaxFaults    \* bound: appends cut short, edits, overrides, keys revoked

ASSUME HooksAreHooks == Hooks \subseteq {"verify", "schema"}
ASSUME ShapesAreShapes ==
    Shapes \subseteq [format : {"plain", "v30", "v31"}, did : BOOLEAN, valid : BOOLEAN]
ASSUME BoundsAreNat == Quota \in Nat /\ MaxFaults \in Nat

VARIABLES
    work,        \* the lines of the outbound file
    index,       \* those that git add staged, and HEAD's when nothing is
    head,        \* those of the last commit
    writing,     \* is an append between its two halves?
    trust,       \* trust.json, or None before there is one
    pc,          \* the commit: Idle, Staged, Verified, Compared, Checked
    vouched,     \* did verify.py look at the lines of this commit?
    pushed,      \* tick's last_pushed_outbound_line_count
    exempt,      \* history: the lines committed without being looked at
    faults       \* how much of MaxFaults is used

vars == <<work, index, head, writing, trust, pc, vouched, pushed, exempt, faults>>

-----------------------------------------------------------------------------
Joined == None   \* what is in a line that two records share
Line(m, form) == [msg |-> m, form |-> form]
Unfinished == {"open", "bare"}
Forms == Unfinished \cup {"whole", "bad"}
LinesOf(f) == {f[i] : i \in DOMAIN f}

Sign(s, key, n) ==
    LET m == Unsigned(Me, s.did, [number |-> n, valid |-> s.valid])
    IN  CASE s.format = "v30" -> sign_message(m, key, Me)
          [] s.format = "v31" -> sign_message_v31(m, key, Me)
          [] OTHER            -> m

Messages == {Sign(s, key, n) : s \in Shapes, key \in Keys, n \in 1 .. Quota}
Lines == [msg : Messages \cup {Joined}, form : Forms]
ASSUME NoneIsNoField ==   \* no key id, event id, signature or message is None
    \A s \in Shapes, key \in Keys, n \in 1 .. Quota :
        LET m == Unsigned(Me, s.did, [number |-> n, valid |-> s.valid])
        IN  None \notin {make_key_id(Me, key), compute_event_id(m),
                         Signature(key, canonical(m)), Signature(key, compute_event_id(m)),
                         Sign(s, key, n)}

Entries == [Keys -> {"active", "revoked"}]
\* trust.json names the agent by its handle or by its DID.
TrustOf(did, entry) == [n \in {<<Me, did>>} |-> entry]
Pristine(did) == TrustOf(did, [k \in Keys |-> "active"])

\* Only the last line of the file can be unfinished, and it is while it is
\* written.
TypeOK ==
    /\ work \in Seq(Lines) /\ index \in Seq(Lines) /\ head \in Seq(Lines)
    /\ writing \in BOOLEAN /\ vouched \in BOOLEAN
    /\ trust \in {TrustOf(d, e) : d \in BOOLEAN, e \in Entries} \cup {None}
    /\ pc \in {"Idle", "Staged", "Verified", "Compared", "Checked"}
    /\ pushed \in Nat /\ exempt \subseteq Lines /\ faults \in Nat
    /\ \A i \in DOMAIN work : work[i].form \in Unfinished => i = Len(work)
    /\ writing => work # <<>> /\ work[Len(work)].form \in Unfinished

Init ==
    /\ work = <<>> /\ index = <<>> /\ head = <<>>
    /\ writing = FALSE /\ vouched = FALSE
    /\ trust \in {Pristine(FALSE), Pristine(TRUE), None}
    /\ pc = "Idle" /\ pushed = 0 /\ exempt = {} /\ faults = 0

gitVars == <<index, head, pc, vouched, pushed, exempt>>
Fault == faults < MaxFaults /\ faults' = faults + 1

-----------------------------------------------------------------------------
(* The agent.                                                              *)

NeverOpen(f) == FALSE   \* mutant: every record begins a line of its own
EndsOpen(f) == f # <<>> /\ f[Len(f)].form \in Unfinished
SetLast(f, l) == [f EXCEPT ![Len(f)] = l]

\* signed_append_jsonl signs and appends; after a torn line the record joins it.
AppendBegins ==
    /\ ~writing /\ Len(work) < Quota
    /\ \E s \in Shapes, key \in Keys, form \in Unfinished :
          work' = IF EndsOpen(work) THEN SetLast(work, Line(Joined, "open"))
                  ELSE Append(work, Line(Sign(s, key, Len(work) + 1), form))
    /\ writing' = TRUE
    /\ UNCHANGED <<trust, gitVars, faults>>

AppendEnds ==
    /\ writing
    /\ LET m == work[Len(work)].msg
       IN  work' = SetLast(work, Line(m, IF m = Joined THEN "bad" ELSE "whole"))
    /\ writing' = FALSE
    /\ UNCHANGED <<trust, gitVars, faults>>

\* os.write was cut short, or the agent died.
AppendDies ==
    /\ writing /\ Fault
    /\ writing' = FALSE
    /\ UNCHANGED <<work, trust, gitVars>>

\* The agent edits its file instead of appending: it corrects a line in place,
\* takes one out or puts one in before another.
Edited(i, mid, j) == SubSeq(work, 1, i - 1) \o mid \o SubSeq(work, j, Len(work))

Edit ==
    /\ ~writing /\ Fault
    /\ \E i \in DOMAIN work, s \in Shapes, key \in Keys :
          LET new == <<Line(Sign(s, key, i), "whole")>>
          IN  \/ work' = Edited(i, new, i + 1)
              \/ work' = Edited(i, <<>>, i + 1)
              \/ Len(work) < Quota /\ work' = Edited(i, new, i)
    /\ UNCHANGED <<writing, trust, gitVars>>

-----------------------------------------------------------------------------
(* The operator.                                                           *)

Bootstrap ==   \* trust.json is added to a wire that had none
    /\ trust = None
    /\ trust' = Pristine(FALSE)
    /\ UNCHANGED <<work, writing, gitVars, faults>>

Deactivate ==
    /\ trust # None /\ Fault
    /\ \E key \in Keys : trust' = trust_deactivate_key(trust, make_key_id(Me, key))
    /\ UNCHANGED <<work, writing, gitVars>>

-----------------------------------------------------------------------------
(* The daemon, git and the hooks.                                          *)

\* mutant: the commit is tried again without git add
StaysStaged == pc' = "Staged" /\ UNCHANGED <<index, vouched>>
\* The tick fails, and the loop tries again.  What is staged stays staged, but
\* the next git add replaces it before anything looks at it: it is dropped here.
Blocked == pc' = "Idle" /\ index' = head /\ vouched' = FALSE
Passes(label) == pc' = label /\ UNCHANGED <<index, vouched>>

\* git status sees a change, and tick counts lines that it did not push; git add.
Stage ==
    /\ pc = "Idle" /\ work # head
    /\ pushed < Len(work)
    /\ index' = work
    /\ pc' = "Staged"
    /\ UNCHANGED <<work, head, writing, trust, vouched, pushed, exempt, faults>>

(***************************************************************************)
(* git diff --cached -U0 matches lines of HEAD with equal lines of the     *)
(* index, in order and as many as it can; what is left of HEAD has a "-"   *)
(* and what is left of the index a "+".                                    *)
(***************************************************************************)
Aligns(S, s, t) ==   \* the elements S of s are found in t, in order
    \E f \in [S -> DOMAIN t] :
        \A i \in S : s[i] = t[f[i]] /\ \A j \in S : i < j => f[i] < f[j]
Unchanged ==   \* the lines of the index that a diff may leave unmarked
    LET common == {S \in SUBSET (DOMAIN index) : Aligns(S, index, head)}
    IN  {S \in common : \A R \in common : Cardinality(R) <= Cardinality(S)}
staged_added_lines(S) == DOMAIN index \ S
LinesWereLost == Len(index) < Len(head)   \* mutant: changed lines go unseen
is_rewrite_attempt == ~Aligns(DOMAIN head, head, index)

SkipsMalformed(l) ==   \* mutant
    l.form \in {"bare", "whole"} => verify_message(l.msg, trust)
LineVerifies(l) == l.form \in {"bare", "whole"} /\ verify_message(l.msg, trust)

\* main of verify.py: nothing is verified before there is a trust.json.
Verify ==
    /\ pc = "Staged"
    /\ \E S \in Unchanged :
          LET asked == "verify" \in Hooks /\ trust # None
          IN  IF asked /\ \E i \in staged_added_lines(S) : ~LineVerifies(index[i])
              THEN Blocked
              ELSE pc' = "Verified" /\ vouched' = asked /\ index' = index
    /\ UNCHANGED <<work, head, writing, trust, pushed, exempt, faults>>

\* main of jsonl_schema.py: the staged diff, and then every line of the FILE.
Compare ==
    /\ pc = "Verified"
    /\ IF "schema" \in Hooks /\ is_rewrite_attempt THEN Blocked ELSE Passes("Compared")
    /\ UNCHANGED <<work, head, writing, trust, pushed, exempt, faults>>

validate_line(l) == l.form \in {"bare", "whole"} /\ l.msg.body.valid
LastLineIsValid == work = <<>> \/ validate_line(work[Len(work)])   \* mutant: only the newest line
FileIsValid == \A i \in DOMAIN work : validate_line(work[i])

Validate ==
    /\ pc = "Compared"
    /\ IF "schema" \in Hooks /\ ~FileIsValid THEN Blocked ELSE Passes("Checked")
    /\ UNCHANGED <<work, head, writing, trust, pushed, exempt, faults>>

\* If the push works, tick records the count it took before git add, which
\* may have staged more.
CommitIndex ==
    /\ head' = index
    /\ pushed' \in pushed .. Len(index)
    /\ pc' = "Idle" /\ vouched' = FALSE
    /\ UNCHANGED <<work, index, writing, trust>>

NewLines == LinesOf(index) \ LinesOf(head)

Commit ==
    /\ pc = "Checked"
    /\ CommitIndex
    /\ exempt' = IF vouched THEN exempt ELSE exempt \cup NewLines
    /\ UNCHANGED faults

\* ALLOW_HOTPATH=1 in the environment of the commit: both hooks return 0.
Hotpath ==
    /\ pc = "Staged" /\ Fault
    /\ CommitIndex
    /\ exempt' = exempt \cup NewLines

-----------------------------------------------------------------------------
DaemonStep == Stage \/ Verify \/ Compare \/ Validate \/ Commit

Next ==
    \/ AppendBegins \/ AppendEnds \/ AppendDies \/ Edit
    \/ Bootstrap \/ Deactivate \/ Hotpath
    \/ DaemonStep

Spec == Init /\ [][Next]_vars

\* The daemon's loop never stops, and a write that began goes on.
FairSpec == Spec /\ WF_vars(DaemonStep) /\ WF_vars(AppendEnds)

-----------------------------------------------------------------------------
(* Properties.                                                             *)

(***************************************************************************)
(* Every committed line that verify.py was asked about is one record with  *)
(* a v3.0 signature of the agent, by a key that is trusted or was before   *)
(* it was revoked, although the file and trust.json change while the hook  *)
(* and the commit run.                                                     *)
(***************************************************************************)
CommittedIsVerified ==
    "verify" \in Hooks =>
        \A l \in LinesOf(head) \ exempt :
            l.form \in {"bare", "whole"} /\ verify_message(l.msg, Pristine(FALSE))

(***************************************************************************)
(* With jsonl_schema.py a commit takes no line out of the history, changes *)
(* none and keeps their order, whatever the agent does to the file between *)
(* git add, the hook and the commit; only an override does.  (Where the    *)
(* new lines go is another matter: OnlyAdditionsAtEnd below.)              *)
(***************************************************************************)
HistoryOnlyGrows ==
    [][Commit /\ "schema" \in Hooks => Aligns(DOMAIN head, head, head')]_vars

\* A line with a message that a hook refuses, finished or not.
Refused(l) ==
    \/ "schema" \in Hooks /\ ~l.msg.body.valid
    \/ "verify" \in Hooks /\ trust # None /\ ~verify_message(l.msg, trust)

\* Why no commit can be made: a fault, a message that a hook refuses, or a
\* commit made of a line before its newline was written.
Cause ==
    \/ faults > 0
    \/ \E l \in LinesOf(work) \ LinesOf(head) : Refused(l)
    \/ \E l \in LinesOf(head) : l.form \in Unfinished

(***************************************************************************)
(* Messages that the hooks accept get committed once the agent pauses,     *)
(* however its appends, the coming of trust.json and the commits overlap:  *)
(* a line that a hook saw half written is committed by a later tick, and   *)
(* what was committed before trust.json is not asked for again.  The one   *)
(* race that blocks the file is the commit of an unfinished line, which    *)
(* its end turns into a rewrite.                                           *)
(***************************************************************************)
CommitsCatchUp == <>[](head = work \/ Cause)

(***************************************************************************)
(* jsonl_schema.py "validates every line" (examples/jsonl_schema.py:4) of  *)
(* the working file, but the index is committed, and appends go on between *)
(* the two.  Without faults this lets nothing pass but a line that was     *)
(* staged half written: every committed line is, or is the beginning of, a *)
(* record that is valid.                                                   *)
(***************************************************************************)
OnlyTornLinesSlip ==
    "schema" \in Hooks /\ faults = 0 =>
        \A i \in DOMAIN head : head[i].msg # Joined /\ head[i].msg.body.valid

(***************************************************************************)
(* "The append-only invariant allows only ADDITIONS at the end of file."   *)
(* (examples/jsonl_schema.py:96)                                           *)
(***************************************************************************)
OnlyAdditionsAtEnd ==
    [][Commit /\ "schema" \in Hooks =>
          /\ Len(head) <= Len(head')
          /\ SubSeq(head', 1, Len(head)) = head]_vars
=============================================================================
