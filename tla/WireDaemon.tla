------------------------------ MODULE WireDaemon ------------------------------
(***************************************************************************)
(* The sync daemons of examples/git-as-wire/wire-daemon.py, one per agent, *)
(* the agents that append to the files, the git clones they work in and    *)
(* the shared remote branch.                                               *)
(*                                                                         *)
(* Files are append-only and each has one writer, so a version of a file   *)
(* is its length and a commit is the vector of the lengths of the agents'  *)
(* files.  Lengths are counted in HALF LINES: an append that git can see   *)
(* half written adds 1 and then 1, any other adds 2.  Two commits are on   *)
(* one line of history iff their vectors are ordered, because every commit *)
(* lengthens one file.                                                     *)
(*                                                                         *)
(* A tick is cut where another process can act: between git commands,      *)
(* inside a rebase that replays commits, and inside the write of the state *)
(* file.  A git command is otherwise one step.                             *)
(***************************************************************************)
EXTENDS Naturals, FiniteSets

CONSTANTS
    Agents,       \* the agents, one daemon and one clone each
    Inbound,      \* cfg["inbound_file"] of a is the file of Inbound[a]
    Odd,          \* Odd[a]: lines of a's file that parse and that tick cannot
                  \* report (not an object, or a null subject)
    Quota,        \* bound: messages an agent appends in a behaviour
    MaxCrashes,   \* bound: daemon crashes
    MaxFaults,    \* bound: outages, lost acknowledgements and failed commits
    SplitWrites,  \* may an append be seen half written?
    ShareWrites   \* do agents append to tracked files no daemon commits?

ASSUME InboundIsAPeer ==
    /\ Inbound \in [Agents -> Agents]
    /\ \A a \in Agents : Inbound[a] # a
ASSUME OddAreLines == Odd \in [Agents -> SUBSET (Nat \ {0})]
ASSUME QuotaIsNat == Quota \in [Agents -> Nat]
ASSUME BoundsAreNat == MaxCrashes \in Nat /\ MaxFaults \in Nat
ASSUME SwitchesAreBoolean == SplitWrites \in BOOLEAN /\ ShareWrites \in BOOLEAN

VARIABLES
    appended,     \* appended[a]: half lines a's safe_append_jsonl calls wrote
    work,         \* work[a]: length of a's outbound file in its working tree
    sharedDirty,  \* sharedDirty[a]: another tracked file of a's clone is dirty
    clone,        \* clone[a][b]: length of b's file at HEAD of a's clone
    track,        \* track[a][b]: the same at origin/branch of a's clone
    remote,       \* remote[b]: the same at the branch of the shared remote
    online,       \* online[a]: a can reach the remote
    pc,           \* where a's daemon is
    attempt,      \* attempt of push_with_retry
    newLines,     \* new_lines of tick
    pushed,       \* state["last_pushed_outbound_line_count"]
    read,         \* state["last_read_inbound_line_count"]
    saved,        \* saved[a]: what read_json makes of a's .wire-state.json
    reported,     \* reported[a]: the inbound lines a's daemon has reported
    crashes, faults   \* how much of the two bounds is used

agentVars  == <<appended, work, sharedDirty>>
gitVars    == <<clone, track, remote>>
stateVars  == <<pushed, read, saved, reported>>
daemonVars == <<pc, attempt, newLines, stateVars>>
envVars    == <<online, crashes, faults>>
vars       == <<agentVars, gitVars, daemonVars, envVars>>

-----------------------------------------------------------------------------
Labels == {"Loop", "Commit", "Push", "PushFetch", "PushRebase", "PushReplay",
           "Fetch", "Rebase", "Replay", "Read", "Save", "Saving", "Down"}
NoRetry == 1   \* mutant: the first rejected push gives up
MaxAttempts == 3
Lengths == [Agents -> Nat]
States  == [pushed : Nat, read : Nat]

\* A missing, empty or truncated state file reads as {}, whose counters are 0.
Blank == [pushed |-> 0, read |-> 0]

Lines(n) == (n + 1) \div 2    \* count_lines: a torn last line counts
Whole(n) == n \div 2          \* lines that json.loads accepts

\* git status --porcelain <outbound_file>
Dirty(a)     == work[a] # clone[a][a]
Replaying(a) == pc[a] \in {"PushReplay", "Replay"}

ForcePush(a) == TRUE   \* mutant: git push --force
\* git push is accepted when the remote branch is an ancestor of HEAD.
FastForwards(a) == \A b \in Agents : remote[b] <= clone[a][b]
\* git rev-list --count HEAD..origin/branch is not 0.
Behind(a) == \E b \in Agents : clone[a][b] < track[a][b]
\* The same right after git fetch.
FetchedNew(a) == \E b \in Agents : clone[a][b] < remote[b]
\* HEAD once the local commits are on top of origin/branch.
Rebased(a) == [b \in Agents |->
                  IF clone[a][b] < track[a][b] THEN track[a][b] ELSE clone[a][b]]
\* git rebase refuses to start in an unclean working tree ...
Unclean(a) == Dirty(a) \/ sharedDirty[a]
\* ... and rewrites the outbound file when it has commits to replay.
MustReplay(a) == Behind(a) /\ track[a][a] < clone[a][a]

TypeOK ==
    /\ appended \in Lengths /\ work \in Lengths
    /\ sharedDirty \in [Agents -> BOOLEAN]
    /\ clone \in [Agents -> Lengths] /\ track \in [Agents -> Lengths]
    /\ remote \in Lengths
    /\ online \in [Agents -> BOOLEAN]
    /\ pc \in [Agents -> Labels]
    /\ attempt \in [Agents -> 1..MaxAttempts]
    /\ newLines \in [Agents -> Nat]
    /\ pushed \in [Agents -> Nat] /\ read \in [Agents -> Nat]
    /\ saved \in [Agents -> States]
    /\ reported \in [Agents -> SUBSET (Nat \ {0})]
    /\ crashes \in 0..MaxCrashes /\ faults \in 0..MaxFaults

\* The bootstrap commit holds empty files and every clone has it.
Init ==
    LET empty == [a \in Agents |-> 0] IN
    /\ appended = empty /\ work = empty
    /\ sharedDirty = [a \in Agents |-> FALSE]
    /\ clone = [a \in Agents |-> empty] /\ track = [a \in Agents |-> empty]
    /\ remote = empty
    /\ online = [a \in Agents |-> TRUE]
    /\ pc = [a \in Agents |-> "Loop"]
    /\ attempt = [a \in Agents |-> 1]
    /\ newLines = empty /\ pushed = empty /\ read = empty
    /\ saved = [a \in Agents |-> Blank]
    /\ reported = [a \in Agents |-> {}]
    /\ crashes = 0 /\ faults = 0

-----------------------------------------------------------------------------
(* The agents.  They write whenever they like, a running rebase included. *)

Append(a) ==
    /\ appended[a] % 2 = 0
    /\ appended[a] + 2 <= 2 * Quota[a]
    /\ appended' = [appended EXCEPT ![a] = @ + 2]
    /\ work' = [work EXCEPT ![a] = @ + 2]
    /\ UNCHANGED <<sharedDirty, gitVars, daemonVars, envVars>>

\* git add takes no flock: it can read the file in the middle of os.write.
\* A write caught half done by a replay is left out (see Append for a race).
AppendHalf(a) ==
    /\ SplitWrites
    /\ ~Replaying(a)
    /\ appended[a] + 1 <= 2 * Quota[a]
    /\ appended' = [appended EXCEPT ![a] = @ + 1]
    /\ work' = [work EXCEPT ![a] = @ + 1]
    /\ UNCHANGED <<sharedDirty, gitVars, daemonVars, envVars>>

\* decisions.jsonl and incident_log.jsonl are tracked; only outbound_file is
\* ever staged.
WriteShared(a) ==
    /\ ShareWrites
    /\ ~sharedDirty[a]
    /\ sharedDirty' = [sharedDirty EXCEPT ![a] = TRUE]
    /\ UNCHANGED <<appended, work, gitVars, daemonVars, envVars>>

-----------------------------------------------------------------------------
(* One tick of the daemon. *)

Goto(a, label) == pc' = [pc EXCEPT ![a] = label]

\* An exception ends the tick: main logs it, sleeps and loops.  The state
\* dictionary keeps what tick has put in it; nothing is written.
Raise(a) ==
    /\ Goto(a, "Loop")
    /\ attempt' = [attempt EXCEPT ![a] = 1]
    /\ newLines' = [newLines EXCEPT ![a] = 0]

\* The cadence may have elapsed at any time, so a tick may start at any time.
BeginOutbound(a) ==
    /\ pc[a] = "Loop"
    /\ Dirty(a) /\ pushed[a] < Lines(work[a])
    /\ newLines' = [newLines EXCEPT ![a] = Lines(work[a])]
    /\ Goto(a, "Commit")
    /\ UNCHANGED <<agentVars, gitVars, attempt, stateVars, envVars>>

BeginInbound(a) ==
    /\ pc[a] = "Loop"
    /\ ~Dirty(a) \/ Lines(work[a]) <= pushed[a]
    /\ Goto(a, "Fetch")
    /\ UNCHANGED <<agentVars, gitVars, attempt, newLines, stateVars, envVars>>

\* stage_and_commit takes the file as it is now, not as it was counted.
StageAndCommit(a) ==
    /\ pc[a] = "Commit"
    /\ clone' = [clone EXCEPT ![a][a] = work[a]]
    /\ Goto(a, "Push")
    /\ UNCHANGED <<agentVars, track, remote, attempt, newLines, stateVars, envVars>>

\* A pre-commit hook, or gpg, refuses the commit.
CommitFails(a) ==
    /\ pc[a] = "Commit"
    /\ faults < MaxFaults /\ faults' = faults + 1
    /\ Raise(a)
    /\ UNCHANGED <<agentVars, gitVars, stateVars, online, crashes>>

CountAfterPush(a) == Lines(work[a])   \* mutant: counts again after the push
\* tick records the count it took before the commit.
CountBeforeCommit(a) == newLines[a]

PushAccepted(a) ==
    /\ pc[a] = "Push"
    /\ online[a] /\ FastForwards(a)
    /\ remote' = clone[a]
    /\ track' = [track EXCEPT ![a] = clone[a]]
    /\ pushed' = [pushed EXCEPT ![a] = CountBeforeCommit(a)]
    /\ newLines' = [newLines EXCEPT ![a] = 0]
    /\ attempt' = [attempt EXCEPT ![a] = 1]
    /\ Goto(a, "Fetch")
    /\ UNCHANGED <<agentVars, clone, read, saved, reported, envVars>>

\* The remote took the commits but the connection died before git push knew.
PushAckLost(a) ==
    /\ pc[a] = "Push"
    /\ online[a] /\ FastForwards(a)
    /\ faults < MaxFaults /\ faults' = faults + 1
    /\ online' = [online EXCEPT ![a] = FALSE]
    /\ remote' = clone[a]
    /\ Goto(a, "PushFetch")
    /\ UNCHANGED <<agentVars, clone, track, attempt, newLines, stateVars, crashes>>

PushRejected(a) ==
    /\ pc[a] = "Push"
    /\ ~online[a] \/ ~FastForwards(a)
    /\ Goto(a, "PushFetch")
    /\ UNCHANGED <<agentVars, gitVars, attempt, newLines, stateVars, envVars>>

\* git fetch, of push_with_retry and of fetch_with_rebase.
FetchFails(a) ==
    /\ pc[a] \in {"PushFetch", "Fetch"}
    /\ ~online[a]
    /\ Raise(a)
    /\ UNCHANGED <<agentVars, gitVars, stateVars, envVars>>

FetchForPush(a) ==
    /\ pc[a] = "PushFetch"
    /\ online[a]
    /\ track' = [track EXCEPT ![a] = remote]
    /\ Goto(a, "PushRebase")
    /\ UNCHANGED <<agentVars, clone, remote, attempt, newLines, stateVars, envVars>>

FetchInbound(a) ==
    /\ pc[a] = "Fetch"
    /\ online[a]
    /\ track' = [track EXCEPT ![a] = remote]
    /\ Goto(a, IF FetchedNew(a) THEN "Rebase" ELSE "Read")
    /\ UNCHANGED <<agentVars, clone, remote, attempt, newLines, stateVars, envVars>>

\* What follows a rebase that worked: the next attempt to push, or reading.
AfterRebase(a) ==
    \/ /\ pc[a] \in {"Rebase", "Replay"}
       /\ Goto(a, "Read")
       /\ UNCHANGED <<attempt, newLines>>
    \/ /\ pc[a] \in {"PushRebase", "PushReplay"}
       /\ attempt[a] < MaxAttempts
       /\ attempt' = [attempt EXCEPT ![a] = @ + 1]
       /\ Goto(a, "Push")
       /\ UNCHANGED newLines
    \/ /\ pc[a] \in {"PushRebase", "PushReplay"}
       /\ attempt[a] = MaxAttempts
       /\ Raise(a)

RebaseRefused(a) ==
    /\ pc[a] \in {"PushRebase", "Rebase"}
    /\ Unclean(a)
    /\ Raise(a)
    /\ UNCHANGED <<agentVars, gitVars, stateVars, envVars>>

\* Nothing to replay: HEAD moves forward and no outbound file is touched.
RebaseForwards(a) ==
    /\ pc[a] \in {"PushRebase", "Rebase"}
    /\ ~Unclean(a) /\ ~MustReplay(a)
    /\ clone' = [clone EXCEPT ![a] = Rebased(a)]
    /\ AfterRebase(a)
    /\ UNCHANGED <<agentVars, track, remote, stateVars, envVars>>

\* git checks out origin/branch, without the local commits, ...
ReplayBegins(a) ==
    /\ pc[a] \in {"PushRebase", "Rebase"}
    /\ ~Unclean(a) /\ MustReplay(a)
    /\ work' = [work EXCEPT ![a] = track[a][a]]
    /\ Goto(a, IF pc[a] = "Rebase" THEN "Replay" ELSE "PushReplay")
    /\ UNCHANGED <<appended, sharedDirty, gitVars, attempt, newLines, stateVars, envVars>>

\* ... and picks them one by one on top of it.
ReplayEnds(a) ==
    /\ Replaying(a)
    /\ work[a] = track[a][a]
    /\ clone' = [clone EXCEPT ![a] = Rebased(a)]
    /\ work' = [work EXCEPT ![a] = clone[a][a]]
    /\ AfterRebase(a)
    /\ UNCHANGED <<appended, sharedDirty, track, remote, stateVars, envVars>>

\* A pick will not overwrite a file changed meanwhile: git rebase fails, and
\* git rebase --abort resets the working tree to the old HEAD.
ReplayAborts(a) ==
    /\ Replaying(a)
    /\ work[a] # track[a][a]
    /\ work' = [work EXCEPT ![a] = clone[a][a]]
    /\ sharedDirty' = [sharedDirty EXCEPT ![a] = FALSE]
    /\ Raise(a)
    /\ UNCHANGED <<appended, gitVars, stateVars, envVars>>

BeyondNext(a) ==   \* mutant: the lines are numbered from 0
    (read[a] + 2)..Whole(clone[a][Inbound[a]])
FromCursor(a) == read[a]..Whole(clone[a][Inbound[a]])   \* mutant: off by one
AnyLine(a) == (read[a] + 1)..Lines(clone[a][Inbound[a]])   \* mutant: parses a torn line
\* parse_last_msg: the lines after the cursor that parse.
Fresh(a) == (read[a] + 1)..Whole(clone[a][Inbound[a]])
\* Of these, the ones whose report raises: msg.get, or a slice of None.
OddFresh(a) == Fresh(a) \cap Odd[Inbound[a]]

CursorOfRemote(a) == Lines(remote[Inbound[a]])   \* mutant: counts the remote's file
CursorStays(a) == read[a]   \* mutant: the cursor is not moved
\* tick moves the cursor to the end of the file, a torn last line included.
NextCursor(a) == Lines(clone[a][Inbound[a]])

ReadNew(a) ==
    /\ pc[a] = "Read"
    /\ Fresh(a) # {} /\ OddFresh(a) = {}
    /\ reported' = [reported EXCEPT ![a] = @ \cup Fresh(a)]
    /\ read' = [read EXCEPT ![a] = NextCursor(a)]
    /\ Goto(a, "Save")
    /\ UNCHANGED <<agentVars, gitVars, attempt, newLines, pushed, saved, envVars>>

\* The messages before the first odd line are logged; the exception of that
\* line comes before the cursor moves, on this tick and on every later one.
ReadRaises(a) ==
    /\ pc[a] = "Read"
    /\ \E k \in OddFresh(a) :
          /\ \A j \in OddFresh(a) : k <= j
          /\ reported' = [reported EXCEPT ![a] = @ \cup (read[a] + 1)..(k - 1)]
    /\ Raise(a)
    /\ UNCHANGED <<agentVars, gitVars, pushed, read, saved, envVars>>

\* A torn line may end inside a character: decoding the file then raises,
\* before anything is reported.
ReadFails(a) ==
    /\ pc[a] = "Read"
    /\ clone[a][Inbound[a]] % 2 = 1
    /\ Raise(a)
    /\ UNCHANGED <<agentVars, gitVars, stateVars, envVars>>

ReadNothing(a) ==
    /\ pc[a] = "Read"
    /\ Fresh(a) = {}
    /\ Goto(a, "Save")
    /\ UNCHANGED <<agentVars, gitVars, attempt, newLines, stateVars, envVars>>

\* write_json truncates the file before it writes it.
SaveBegins(a) ==
    /\ pc[a] = "Save"
    /\ saved' = [saved EXCEPT ![a] = Blank]
    /\ Goto(a, "Saving")
    /\ UNCHANGED <<agentVars, gitVars, attempt, newLines, pushed, read, reported, envVars>>

SaveEnds(a) ==
    /\ pc[a] = "Saving"
    /\ saved' = [saved EXCEPT ![a] = [pushed |-> pushed[a], read |-> read[a]]]
    /\ Goto(a, "Loop")
    /\ UNCHANGED <<agentVars, gitVars, attempt, newLines, pushed, read, reported, envVars>>

-----------------------------------------------------------------------------
(* Crashes and the network. *)

\* The daemon dies between two git commands (a git command it started ends by
\* itself); its variables die with it.  A death between a failed rebase and
\* its --abort, which leaves the clone in the middle of the rebase, is left out.
Crash(a) ==
    /\ pc[a] # "Down" /\ ~Replaying(a)
    /\ crashes < MaxCrashes /\ crashes' = crashes + 1
    /\ Goto(a, "Down")
    /\ attempt' = [attempt EXCEPT ![a] = 1]
    /\ newLines' = [newLines EXCEPT ![a] = 0]
    /\ pushed' = [pushed EXCEPT ![a] = 0]
    /\ read' = [read EXCEPT ![a] = 0]
    /\ UNCHANGED <<agentVars, gitVars, saved, reported, online, faults>>

Restart(a) ==
    /\ pc[a] = "Down"
    /\ pushed' = [pushed EXCEPT ![a] = saved[a].pushed]
    /\ read' = [read EXCEPT ![a] = saved[a].read]
    /\ Goto(a, "Loop")
    /\ UNCHANGED <<agentVars, gitVars, attempt, newLines, saved, reported, envVars>>

GoOffline(a) ==
    /\ online[a]
    /\ faults < MaxFaults /\ faults' = faults + 1
    /\ online' = [online EXCEPT ![a] = FALSE]
    /\ UNCHANGED <<agentVars, gitVars, daemonVars, crashes>>

GoOnline(a) ==
    /\ ~online[a]
    /\ online' = [online EXCEPT ![a] = TRUE]
    /\ UNCHANGED <<agentVars, gitVars, daemonVars, crashes, faults>>

-----------------------------------------------------------------------------
Agent(a) == Append(a) \/ AppendHalf(a) \/ WriteShared(a)

Outbound(a) ==
    \/ BeginOutbound(a)
    \/ StageAndCommit(a) \/ CommitFails(a)
    \/ PushAccepted(a) \/ PushAckLost(a) \/ PushRejected(a)
    \/ FetchForPush(a)

Rebase(a) ==
    \/ RebaseRefused(a) \/ RebaseForwards(a)
    \/ ReplayBegins(a) \/ ReplayEnds(a) \/ ReplayAborts(a)

InboundPhase(a) ==
    \/ BeginInbound(a)
    \/ FetchFails(a) \/ FetchInbound(a)
    \/ ReadNew(a) \/ ReadRaises(a) \/ ReadFails(a) \/ ReadNothing(a)
    \/ SaveBegins(a) \/ SaveEnds(a)

Daemon(a) == Outbound(a) \/ Rebase(a) \/ InboundPhase(a) \/ Restart(a)

Network(a) == GoOffline(a) \/ GoOnline(a)

Next == \E a \in Agents : Agent(a) \/ Daemon(a) \/ Crash(a) \/ Network(a)

Spec == Init /\ [][Next]_vars

\* The daemon loops for ever and systemd restarts it; an outage ends.  The
\* agents owe nothing, and no fault or crash has to happen.
Fairness == \A a \in Agents : WF_vars(Daemon(a)) /\ WF_vars(GoOnline(a))

FairSpec == Spec /\ Fairness
-----------------------------------------------------------------------------
(* Safety. *)

\* Every copy of a file is a prefix of the one it was taken from: what is
\* reported to a was published, what is published was committed by its owner,
\* what is committed was written, and no fetch, rebase, rejected push or lost
\* acknowledgement makes a copy run ahead.
CopiesArePrefixes ==
    \A a, b \in Agents :
        /\ reported[a] \subseteq 1..Whole(clone[a][Inbound[a]])
        /\ a # b => clone[a][b] <= remote[b]
        /\ track[a][b] <= remote[b]
        /\ remote[a] <= clone[a][a]
        /\ ~Replaying(a) => clone[a][a] <= work[a]
        /\ work[a] <= appended[a]

\* Neither line counter of tick, in memory or in the state file, is ever ahead
\* of the file it counts: a line counted as pushed is on the remote even when
\* pushes are retried and acknowledgements lost, a line counted as read is in
\* the clone.
CountersWithinFiles ==
    \A a \in Agents :
        /\ pushed[a] <= Lines(remote[a])
        /\ saved[a].pushed <= Lines(remote[a])
        /\ read[a] <= Lines(clone[a][Inbound[a]])
        /\ saved[a].read <= Lines(clone[a][Inbound[a]])

\* A line behind the inbound cursor has been reported, across failed ticks,
\* truncated state files and restarts.  (Reading is at least once.)
NoMessageSkipped ==
    \A a \in Agents :
        /\ 1..read[a] \subseteq reported[a]
        /\ 1..saved[a].read \subseteq reported[a]

\* a's cursor stands before an odd line of its clone, which keeps it there.
StuckBeforeOdd(a) ==
    \E k \in Odd[Inbound[a]] : read[a] < k /\ k <= Whole(clone[a][Inbound[a]])

\* A reported line is behind the cursor, and so is not reported again, unless a
\* daemon has crashed or the cursor is held before an odd line: failed fetches,
\* pushes and rebases, lost acknowledgements and restarts of the tick never
\* make tick repeat a report.
NoRepeatWithoutCause ==
    crashes = 0 =>
        \A a \in Agents : reported[a] \subseteq 1..read[a] \/ StuckBeforeOdd(a)

\* The test "added > 0" of tick never hides a change: a dirty outbound file
\* always has more lines than were counted as pushed.
EveryChangeIsCounted ==
    \A a \in Agents : Dirty(a) /\ ~Replaying(a) => pushed[a] < Lines(work[a])

\* What is published stays published and in place (no daemon's push undoes a
\* peer's), and the copy of the peer's file that a reads never shrinks.
WireIsAppendOnly ==
    [][\A a, b \in Agents :
          /\ remote[b] <= remote'[b]
          /\ a # b => clone[a][b] <= clone'[a][b]]_gitVars

-----------------------------------------------------------------------------
(* Liveness. *)

\* A message in the outbound file of a quiet working tree is committed.
WrittenIsCommitted ==
    \A a \in Agents : \A i \in 1..Quota[a] :
        work[a] >= 2 * i /\ ~Replaying(a) ~> clone[a][a] >= 2 * i

Lost(a) == ~Replaying(a) /\ work[a] # appended[a]

Faultless == crashes = 0 /\ faults = 0

\* The third attempt of push_with_retry was rejected too: it will raise.
LostThirdRace(a) == attempt[a] = 3 /\ pc[a] \in {"PushFetch", "PushRebase", "PushReplay"}

\* Without outages, crashes and refused commits a committed message reaches
\* the remote, unless the push loses the race to its peers three times or an
\* append was lost to a replay: one or two lost races never strand a commit.
\* (Three do; what becomes of a commit whose push gave up is
\* QueuedCommitIsPushed below.)
CommittedIsPushed ==
    \A a \in Agents : \A i \in 1..Quota[a] :
        clone[a][a] >= 2 * i ~>
            remote[a] >= 2 * i \/ LostThirdRace(a) \/ Lost(a) \/ ~Faultless

-----------------------------------------------------------------------------
(* The daemons implement the dead drop. *)

DD == INSTANCE DeadDrop WITH
          sent <- [a \in Agents |-> Whole(appended[a])],
          published <- [a \in Agents |-> Whole(remote[a])],
          delivered <- reported

\* Seen from outside, the lines of a file are sent, published and delivered in
\* order and without a gap, and published lines are delivered up to the first
\* odd one, which ends delivery for good.
ImplementsDeadDrop == DD!FairSpec

-----------------------------------------------------------------------------
(* What the documents say and the code does not do. *)

\* THREAT_MODEL.md: messages survive, "the file IS the buffer": a line that
\* safe_append_jsonl has written stays in the outbound file.
AppendIsDurable == \A a \in Agents : ~Replaying(a) => work[a] = appended[a]

\* git-as-wire/README.md: commits made while the remote is unreachable are
\* pushed when it is reachable again.
QueuedCommitIsPushed ==
    \A a \in Agents : \A i \in 1..Quota[a] :
        clone[a][a] >= 2 * i ~> remote[a] >= 2 * i
=============================================================================
