---------------------------- MODULE WireDaemonProofs ----------------------------
(***************************************************************************)
(* What holds of the wire daemons for any number of agents, messages,      *)
(* crashes and faults.                                                     *)
(***************************************************************************)
EXTENDS WireDaemon, TLAPS

USE DEF stateVars

-----------------------------------------------------------------------------
(* Counting lines. *)

\* count_lines and the parsable lines of a file: naturals, the second at most
\* the first.
LEMMA LinesAreNat ==
    ASSUME NEW n \in Nat
    PROVE  Lines(n) \in Nat /\ Whole(n) \in Nat /\ Whole(n) <= Lines(n)
  BY DEF Lines, Whole

\* A longer file has no fewer lines.
LEMMA LinesMonotone ==
    ASSUME NEW m \in Nat, NEW n \in Nat, m <= n
    PROVE  Lines(m) <= Lines(n) /\ Whole(m) <= Whole(n)
  BY DEF Lines, Whole

\* In a file without a torn line count_lines counts the parsable lines, and a
\* longer such file has more.
LEMMA LinesOfWholeFile ==
    ASSUME NEW m \in Nat, NEW n \in Nat, m % 2 = 0, n % 2 = 0
    PROVE  Lines(n) = Whole(n) /\ (m < n => Lines(m) < Lines(n))
  BY DEF Lines, Whole

\* A whole line more leaves no torn line.
LEMMA EvenPlusTwo ==
    ASSUME NEW n \in Nat, n % 2 = 0
    PROVE  (n + 2) % 2 = 0
  OBVIOUS

-----------------------------------------------------------------------------
(* Types. *)

\* A rebased HEAD is a vector of lengths, as every commit is.
LEMMA RebasedIsLengths ==
    ASSUME TypeOK, NEW a \in Agents
    PROVE  Rebased(a) \in Lengths
  BY DEF TypeOK, Rebased, Lengths

\* The continuation of a rebase touches nothing but pc, attempt and newLines
\* of its own daemon, and newLines only to forget it.
LEMMA AfterRebaseType ==
    ASSUME TypeOK, NEW a \in Agents, AfterRebase(a)
    PROVE  /\ pc' \in [Agents -> Labels]
           /\ attempt' \in [Agents -> 1..MaxAttempts]
           /\ newLines' \in [Agents -> Nat]
           /\ ~Replaying(a)' /\ pc'[a] # "Commit"
           /\ newLines'[a] = newLines[a] \/ newLines'[a] = 0
           /\ \A b \in Agents \ {a} : pc'[b] = pc[b] /\ newLines'[b] = newLines[b]
<1> USE DEF TypeOK, Labels, MaxAttempts, Goto, Raise, Replaying
<1>1. CASE pc[a] \in {"Rebase", "Replay"}
  BY <1>1 DEF AfterRebase
<1>2. CASE pc[a] \notin {"Rebase", "Replay"} /\ attempt[a] < MaxAttempts
  BY <1>2 DEF AfterRebase
<1>3. CASE pc[a] \notin {"Rebase", "Replay"} /\ ~(attempt[a] < MaxAttempts)
  BY <1>3 DEF AfterRebase
<1> QED BY <1>1, <1>2, <1>3

\* One step of one of the actions keeps the types.
LEMMA StepKeepsTypes ==
    ASSUME TypeOK, [Next]_vars
    PROVE  TypeOK'
<1> USE InboundIsAPeer, BoundsAreNat DEF TypeOK, agentVars, gitVars, daemonVars, envVars
<1>1. ASSUME NEW a \in Agents, Append(a) PROVE TypeOK'
  BY <1>1 DEF Append, Lengths
<1>2. ASSUME NEW a \in Agents, AppendHalf(a) PROVE TypeOK'
  BY <1>2 DEF AppendHalf, Lengths
<1>3. ASSUME NEW a \in Agents, WriteShared(a) PROVE TypeOK'
  BY <1>3 DEF WriteShared
<1>4. ASSUME NEW a \in Agents, BeginOutbound(a) PROVE TypeOK'
  BY <1>4, LinesAreNat DEF BeginOutbound, Goto, Labels, Lengths
<1>5. ASSUME NEW a \in Agents, BeginInbound(a) PROVE TypeOK'
  BY <1>5 DEF BeginInbound, Goto, Labels
<1>6. ASSUME NEW a \in Agents, StageAndCommit(a) PROVE TypeOK'
  BY <1>6 DEF StageAndCommit, Goto, Labels, Lengths
<1>7. ASSUME NEW a \in Agents, CommitFails(a) PROVE TypeOK'
  BY <1>7 DEF CommitFails, Raise, Goto, Labels, MaxAttempts
<1>8. ASSUME NEW a \in Agents, PushAccepted(a) PROVE TypeOK'
  BY <1>8 DEF PushAccepted, CountBeforeCommit, Goto, Labels, Lengths, MaxAttempts
<1>9. ASSUME NEW a \in Agents, PushAckLost(a) PROVE TypeOK'
  BY <1>9 DEF PushAckLost, Goto, Labels, Lengths
<1>10. ASSUME NEW a \in Agents, PushRejected(a) PROVE TypeOK'
  BY <1>10 DEF PushRejected, Goto, Labels
<1>11. ASSUME NEW a \in Agents, FetchForPush(a) PROVE TypeOK'
  BY <1>11 DEF FetchForPush, Goto, Labels, Lengths
<1>12. ASSUME NEW a \in Agents, FetchInbound(a) PROVE TypeOK'
  BY <1>12 DEF FetchInbound, Goto, Labels, Lengths
<1>13. ASSUME NEW a \in Agents, FetchFails(a) PROVE TypeOK'
  BY <1>13 DEF FetchFails, Raise, Goto, Labels, MaxAttempts
<1>14. ASSUME NEW a \in Agents, RebaseRefused(a) PROVE TypeOK'
  BY <1>14 DEF RebaseRefused, Raise, Goto, Labels, MaxAttempts
<1>15. ASSUME NEW a \in Agents, RebaseForwards(a) PROVE TypeOK'
  BY <1>15, RebasedIsLengths, AfterRebaseType DEF RebaseForwards, Lengths
<1>16. ASSUME NEW a \in Agents, ReplayBegins(a) PROVE TypeOK'
  BY <1>16 DEF ReplayBegins, Goto, Labels, Lengths
<1>17. ASSUME NEW a \in Agents, ReplayEnds(a) PROVE TypeOK'
  BY <1>17, RebasedIsLengths, AfterRebaseType DEF ReplayEnds, Lengths
<1>18. ASSUME NEW a \in Agents, ReplayAborts(a) PROVE TypeOK'
  BY <1>18 DEF ReplayAborts, Raise, Goto, Labels, MaxAttempts, Lengths
<1>19. ASSUME NEW a \in Agents, ReadNew(a) PROVE TypeOK'
  BY <1>19, LinesAreNat DEF ReadNew, Fresh, NextCursor, Goto, Labels, Lengths
<1>20. ASSUME NEW a \in Agents, ReadNothing(a) PROVE TypeOK'
  BY <1>20 DEF ReadNothing, Goto, Labels
<1>21. ASSUME NEW a \in Agents, SaveBegins(a) PROVE TypeOK'
  BY <1>21 DEF SaveBegins, Goto, Labels, States, Blank
<1>22. ASSUME NEW a \in Agents, SaveEnds(a) PROVE TypeOK'
  BY <1>22 DEF SaveEnds, Goto, Labels, States
<1>23. ASSUME NEW a \in Agents, Crash(a) PROVE TypeOK'
  BY <1>23 DEF Crash, Goto, Labels, MaxAttempts
<1>24. ASSUME NEW a \in Agents, Restart(a) PROVE TypeOK'
  BY <1>24 DEF Restart, Goto, Labels, States
<1>25. ASSUME NEW a \in Agents, GoOffline(a) PROVE TypeOK'
  BY <1>25 DEF GoOffline
<1>26. ASSUME NEW a \in Agents, GoOnline(a) PROVE TypeOK'
  BY <1>26 DEF GoOnline
<1>27. ASSUME NEW a \in Agents, ReadRaises(a) PROVE TypeOK'
  <2>1. reported' \in [Agents -> SUBSET (Nat \ {0})]
    <3>1. PICK k \in OddFresh(a) :
             reported' = [reported EXCEPT ![a] = @ \cup (read[a] + 1)..(k - 1)]
      BY <1>27 DEF ReadRaises
    <3>2. read[a] \in Nat /\ k \in Nat
      BY <3>1, LinesAreNat DEF OddFresh, Fresh, Lengths
    <3>3. (read[a] + 1)..(k - 1) \subseteq Nat \ {0}
      BY <3>2
    <3> QED
      BY <3>1, <3>3
  <2> QED
    BY <1>27, <2>1 DEF ReadRaises, Raise, Goto, Labels, MaxAttempts
<1>28. ASSUME NEW a \in Agents, ReadFails(a) PROVE TypeOK'
  BY <1>28 DEF ReadFails, Raise, Goto, Labels, MaxAttempts
<1>29. CASE UNCHANGED vars
  BY <1>29 DEF vars
<1> QED
  BY <1>1, <1>2, <1>3, <1>4, <1>5, <1>6, <1>7, <1>8, <1>9, <1>10, <1>11, <1>12, <1>13, <1>14,
     <1>15, <1>16, <1>17, <1>18, <1>19, <1>20, <1>21, <1>22, <1>23, <1>24, <1>25, <1>26, <1>27,
     <1>28, <1>29
     DEF Next, Agent, Daemon, Outbound, Rebase, InboundPhase, Network

\* Every variable keeps its type: the state of every daemon, clone and of the
\* remote is one the code can hold.
THEOREM TypeCorrect == Spec => []TypeOK
<1>1. Init => TypeOK
  BY BoundsAreNat DEF Init, TypeOK, Lengths, Labels, MaxAttempts, States, Blank
<1>2. TypeOK /\ [Next]_vars => TypeOK'
  BY StepKeepsTypes
<1> QED
  BY <1>1, <1>2, PTL DEF Spec

-----------------------------------------------------------------------------
(* Copies of a file. *)

\* How the copies of a file are ordered: the chain of CopiesArePrefixes, and
\* that a commit survives in HEAD while a replay shortens the working tree.
LengthsInv ==
    \A a, b \in Agents :
        /\ a # b => clone[a][b] <= remote[b]
        /\ track[a][b] <= remote[b]
        /\ remote[a] <= clone[a][a]
        /\ clone[a][a] <= appended[a]
        /\ work[a] <= appended[a]
        /\ ~Replaying(a) => clone[a][a] <= work[a]

\* A rebase keeps the local commits and takes from the peers nothing that is
\* not published.
LEMMA RebasedBounds ==
    ASSUME TypeOK, LengthsInv, NEW a \in Agents
    PROVE  /\ Rebased(a) \in Lengths
           /\ Rebased(a)[a] = clone[a][a]
           /\ \A b \in Agents : clone[a][b] <= Rebased(a)[b]
           /\ \A b \in Agents \ {a} : Rebased(a)[b] <= remote[b]
<1>1. /\ track[a] \in Lengths /\ clone[a] \in Lengths /\ remote \in Lengths
      /\ track[a][a] <= clone[a][a]
  BY DEF TypeOK, LengthsInv, Lengths
<1>2. \A b \in Agents : track[a][b] <= remote[b] /\ (a # b => clone[a][b] <= remote[b])
  BY DEF LengthsInv
<1> QED
  BY <1>1, <1>2 DEF Rebased, Lengths

\* The steps that touch no copy of an outbound file.
LEMMA OtherStepsKeepLengths ==
    ASSUME TypeOK, NEW a \in Agents,
           \/ WriteShared(a) \/ BeginOutbound(a) \/ BeginInbound(a)
           \/ CommitFails(a) \/ PushRejected(a) \/ FetchFails(a)
           \/ RebaseRefused(a) \/ ReadNew(a) \/ ReadRaises(a) \/ ReadFails(a)
           \/ ReadNothing(a) \/ SaveBegins(a) \/ SaveEnds(a) \/ Crash(a) \/ Restart(a)
           \/ GoOffline(a) \/ GoOnline(a)
    PROVE  /\ UNCHANGED <<appended, work, clone, track, remote>>
           /\ \A b \in Agents : Replaying(b)' <=> Replaying(b)
<1> USE DEF agentVars, gitVars, daemonVars, Replaying, Goto, Raise, TypeOK
<1>1. CASE WriteShared(a)
  BY <1>1 DEF WriteShared
<1>2. CASE BeginOutbound(a)
  BY <1>2 DEF BeginOutbound
<1>3. CASE BeginInbound(a)
  BY <1>3 DEF BeginInbound
<1>4. CASE CommitFails(a)
  BY <1>4 DEF CommitFails
<1>5. CASE PushRejected(a)
  BY <1>5 DEF PushRejected
<1>6. CASE FetchFails(a)
  BY <1>6 DEF FetchFails
<1>7. CASE RebaseRefused(a)
  BY <1>7 DEF RebaseRefused
<1>8. CASE ReadNew(a)
  BY <1>8 DEF ReadNew
<1>9. CASE ReadNothing(a)
  BY <1>9 DEF ReadNothing
<1>10. CASE SaveBegins(a)
  BY <1>10 DEF SaveBegins
<1>11. CASE SaveEnds(a)
  BY <1>11 DEF SaveEnds
<1>12. CASE Crash(a)
  BY <1>12 DEF Crash
<1>13. CASE Restart(a)
  BY <1>13 DEF Restart
<1>14. CASE GoOffline(a)
  BY <1>14 DEF GoOffline
<1>15. CASE GoOnline(a)
  BY <1>15 DEF GoOnline
<1>16. CASE ReadRaises(a)
  BY <1>16 DEF ReadRaises
<1>17. CASE ReadFails(a)
  BY <1>17 DEF ReadFails
<1> QED
  BY <1>1, <1>2, <1>3, <1>4, <1>5, <1>6, <1>7, <1>8, <1>9, <1>10, <1>11, <1>12, <1>13, <1>14,
     <1>15, <1>16, <1>17

\* A step lengthens the remote and every HEAD or leaves them alone, file by
\* file: no push takes back what a peer published.
LEMMA StepOnlyLengthens ==
    ASSUME TypeOK, LengthsInv, [Next]_vars
    PROVE  \A a, b \in Agents : remote[b] <= remote'[b] /\ clone[a][b] <= clone'[a][b]
<1> USE DEF TypeOK, Lengths, agentVars, gitVars
<1>1. ASSUME NEW a \in Agents, StageAndCommit(a)
      PROVE  \A c, b \in Agents : remote[b] <= remote'[b] /\ clone[c][b] <= clone'[c][b]
  <2>1. clone[a][a] <= work[a]
    BY <1>1 DEF StageAndCommit, LengthsInv, Replaying
  <2> QED
    BY <1>1, <2>1 DEF StageAndCommit
<1>2. ASSUME NEW a \in Agents, PushAccepted(a) \/ PushAckLost(a)
      PROVE  \A c, b \in Agents : remote[b] <= remote'[b] /\ clone[c][b] <= clone'[c][b]
  BY <1>2 DEF PushAccepted, PushAckLost, FastForwards
<1>3. ASSUME NEW a \in Agents, RebaseForwards(a) \/ ReplayEnds(a)
      PROVE  \A c, b \in Agents : remote[b] <= remote'[b] /\ clone[c][b] <= clone'[c][b]
  <2>1. \A b \in Agents : clone[a][b] <= Rebased(a)[b]
    BY RebasedBounds
  <2>2. clone' = [clone EXCEPT ![a] = Rebased(a)] /\ remote' = remote
    BY <1>3 DEF RebaseForwards, ReplayEnds
  <2> QED
    BY <2>1, <2>2
<1>4. ASSUME NEW a \in Agents,
             \/ Append(a) \/ AppendHalf(a) \/ FetchForPush(a) \/ FetchInbound(a)
             \/ ReplayBegins(a) \/ ReplayAborts(a)
      PROVE  \A c, b \in Agents : remote[b] <= remote'[b] /\ clone[c][b] <= clone'[c][b]
  BY <1>4 DEF Append, AppendHalf, FetchForPush, FetchInbound, ReplayBegins, ReplayAborts
<1>5. CASE UNCHANGED <<clone, remote>>
  BY <1>5
<1> QED
  BY <1>1, <1>2, <1>3, <1>4, <1>5, OtherStepsKeepLengths
     DEF vars, Next, Agent, Daemon, Outbound, Rebase, InboundPhase, Network

LEMMA StepKeepsLengthsInv ==
    ASSUME TypeOK, TypeOK', LengthsInv, [Next]_vars
    PROVE  LengthsInv'
<1> USE DEF TypeOK, Lengths, LengthsInv, agentVars, gitVars, daemonVars, Replaying
<1>1. ASSUME NEW a \in Agents, Append(a) PROVE LengthsInv'
  BY <1>1 DEF Append
<1>2. ASSUME NEW a \in Agents, AppendHalf(a) PROVE LengthsInv'
  BY <1>2 DEF AppendHalf
<1>3. ASSUME NEW a \in Agents, StageAndCommit(a) PROVE LengthsInv'
  BY <1>3 DEF StageAndCommit, Goto
<1>4. ASSUME NEW a \in Agents, PushAccepted(a) PROVE LengthsInv'
  BY <1>4 DEF PushAccepted, FastForwards, Goto
<1>5. ASSUME NEW a \in Agents, PushAckLost(a) PROVE LengthsInv'
  BY <1>5 DEF PushAckLost, FastForwards, Goto
<1>6. ASSUME NEW a \in Agents, FetchForPush(a) PROVE LengthsInv'
  BY <1>6 DEF FetchForPush, Goto
<1>7. ASSUME NEW a \in Agents, FetchInbound(a) PROVE LengthsInv'
  BY <1>7 DEF FetchInbound, Goto
<1>8. ASSUME NEW a \in Agents, RebaseForwards(a) PROVE LengthsInv'
  BY <1>8, RebasedBounds, AfterRebaseType DEF RebaseForwards
<1>9. ASSUME NEW a \in Agents, ReplayBegins(a) PROVE LengthsInv'
  BY <1>9 DEF ReplayBegins, Goto
<1>10. ASSUME NEW a \in Agents, ReplayEnds(a) PROVE LengthsInv'
  BY <1>10, RebasedBounds, AfterRebaseType DEF ReplayEnds
<1>11. ASSUME NEW a \in Agents, ReplayAborts(a) PROVE LengthsInv'
  BY <1>11 DEF ReplayAborts, Raise, Goto
<1>12. CASE /\ UNCHANGED <<appended, work, clone, track, remote>>
            /\ \A b \in Agents : Replaying(b)' <=> Replaying(b)
  BY <1>12
<1>13. CASE UNCHANGED vars
  BY <1>13 DEF vars
<1> QED
  BY <1>1, <1>2, <1>3, <1>4, <1>5, <1>6, <1>7, <1>8, <1>9, <1>10, <1>11, <1>12,
     <1>13, OtherStepsKeepLengths
     DEF Next, Agent, Daemon, Outbound, Rebase, InboundPhase, Network

-----------------------------------------------------------------------------
(* Counters and reports. *)

\* What is reported to an agent is in its clone and its counters are within
\* their files.
CountersOf(a) ==
    /\ pushed[a] <= Lines(remote[a])
    /\ saved[a].pushed <= Lines(remote[a])
    /\ read[a] <= Lines(clone[a][Inbound[a]])
    /\ saved[a].read <= Lines(clone[a][Inbound[a]])
    /\ reported[a] \subseteq 1..Whole(clone[a][Inbound[a]])

\* The count that a push under way will record is within the file to be
\* committed, and then within the committed one.
PendingOf(a) == newLines[a] <= IF pc[a] = "Commit" THEN Lines(work[a])
                                                   ELSE Lines(clone[a][a])

CountersInv == \A a \in Agents : CountersOf(a) /\ PendingOf(a)

\* As files get longer their line counts grow, so that a counter within its
\* file stays there when the counter is left alone.
LEMMA StepOnlyAddsLines ==
    ASSUME TypeOK, TypeOK', LengthsInv, [Next]_vars, NEW a \in Agents
    PROVE  /\ Lines(remote[a]) <= Lines(remote'[a])
           /\ Lines(clone[a][a]) <= Lines(clone'[a][a])
           /\ Lines(clone[a][Inbound[a]]) <= Lines(clone'[a][Inbound[a]])
           /\ Whole(clone[a][Inbound[a]]) <= Whole(clone'[a][Inbound[a]])
<1>1. /\ Inbound[a] \in Agents
      /\ \A b \in Agents : remote[b] \in Nat /\ remote'[b] \in Nat
                           /\ clone[a][b] \in Nat /\ clone'[a][b] \in Nat
  BY InboundIsAPeer DEF TypeOK, Lengths
<1>2. \A b \in Agents : remote[b] <= remote'[b] /\ clone[a][b] <= clone'[a][b]
  BY StepOnlyLengthens
<1> QED
  BY <1>1, <1>2, LinesMonotone

\* The line counts in CountersOf are natural numbers.
LEMMA CountsAreNat ==
    ASSUME TypeOK, NEW a \in Agents
    PROVE  /\ Lines(remote[a]) \in Nat /\ Lines(work[a]) \in Nat
           /\ Lines(clone[a][a]) \in Nat
           /\ Lines(clone[a][Inbound[a]]) \in Nat
           /\ Whole(clone[a][Inbound[a]]) \in Nat
           /\ pushed[a] \in Nat /\ read[a] \in Nat /\ newLines[a] \in Nat
           /\ saved[a].pushed \in Nat /\ saved[a].read \in Nat
<1>1. /\ Inbound[a] \in Agents
      /\ remote[a] \in Nat /\ work[a] \in Nat
      /\ \A b \in Agents : clone[a][b] \in Nat
  BY InboundIsAPeer DEF TypeOK, Lengths
<1>2. /\ pushed[a] \in Nat /\ read[a] \in Nat /\ newLines[a] \in Nat
      /\ saved[a].pushed \in Nat /\ saved[a].read \in Nat
  BY DEF TypeOK, States
<1> QED
  BY <1>1, <1>2, LinesAreNat

\* A counter, a saved state and a report that a step leaves alone stay good.
LEMMA UntouchedCountersStay ==
    ASSUME TypeOK, TypeOK', LengthsInv, [Next]_vars, NEW b \in Agents, CountersOf(b),
           pushed'[b] = pushed[b], read'[b] = read[b],
           saved'[b] = saved[b], reported'[b] = reported[b]
    PROVE  CountersOf(b)'
<1>1. /\ Lines(remote[b]) <= Lines(remote'[b])
      /\ Lines(clone[b][Inbound[b]]) <= Lines(clone'[b][Inbound[b]])
      /\ Whole(clone[b][Inbound[b]]) <= Whole(clone'[b][Inbound[b]])
  BY StepOnlyAddsLines
<1>2. /\ Lines(remote'[b]) \in Nat
      /\ Lines(clone'[b][Inbound[b]]) \in Nat
      /\ Whole(clone'[b][Inbound[b]]) \in Nat
  BY InboundIsAPeer, LinesAreNat DEF TypeOK, Lengths
<1> QED
  BY <1>1, <1>2, CountsAreNat DEF CountersOf

\* The steps that leave every counter, state file and report alone.
LEMMA OtherStepsKeepCounters ==
    ASSUME NEW a \in Agents,
           \/ Append(a) \/ AppendHalf(a) \/ WriteShared(a)
           \/ BeginOutbound(a) \/ BeginInbound(a) \/ StageAndCommit(a)
           \/ CommitFails(a) \/ PushAckLost(a) \/ PushRejected(a)
           \/ FetchForPush(a) \/ FetchInbound(a) \/ FetchFails(a)
           \/ RebaseRefused(a) \/ RebaseForwards(a) \/ ReplayBegins(a)
           \/ ReplayEnds(a) \/ ReplayAborts(a) \/ ReadFails(a) \/ ReadNothing(a)
           \/ GoOffline(a) \/ GoOnline(a)
    PROVE  UNCHANGED <<pushed, read, saved, reported>>
<1> USE DEF daemonVars
<1>1. CASE Append(a)
  BY <1>1 DEF Append
<1>2. CASE AppendHalf(a)
  BY <1>2 DEF AppendHalf
<1>3. CASE WriteShared(a)
  BY <1>3 DEF WriteShared
<1>4. CASE BeginOutbound(a)
  BY <1>4 DEF BeginOutbound
<1>5. CASE BeginInbound(a)
  BY <1>5 DEF BeginInbound
<1>6. CASE StageAndCommit(a)
  BY <1>6 DEF StageAndCommit
<1>7. CASE CommitFails(a)
  BY <1>7 DEF CommitFails
<1>8. CASE PushAckLost(a)
  BY <1>8 DEF PushAckLost
<1>9. CASE PushRejected(a)
  BY <1>9 DEF PushRejected
<1>10. CASE FetchForPush(a)
  BY <1>10 DEF FetchForPush
<1>11. CASE FetchInbound(a)
  BY <1>11 DEF FetchInbound
<1>12. CASE FetchFails(a)
  BY <1>12 DEF FetchFails
<1>13. CASE RebaseRefused(a)
  BY <1>13 DEF RebaseRefused
<1>14. CASE RebaseForwards(a)
  BY <1>14 DEF RebaseForwards
<1>15. CASE ReplayBegins(a)
  BY <1>15 DEF ReplayBegins
<1>16. CASE ReplayEnds(a)
  BY <1>16 DEF ReplayEnds
<1>17. CASE ReplayAborts(a)
  BY <1>17 DEF ReplayAborts
<1>18. CASE ReadNothing(a)
  BY <1>18 DEF ReadNothing
<1>19. CASE GoOffline(a)
  BY <1>19 DEF GoOffline
<1>20. CASE GoOnline(a)
  BY <1>20 DEF GoOnline
<1>21. CASE ReadFails(a)
  BY <1>21 DEF ReadFails
<1> QED
  BY <1>1, <1>2, <1>3, <1>4, <1>5, <1>6, <1>7, <1>8, <1>9, <1>10, <1>11,
     <1>12, <1>13, <1>14, <1>15, <1>16, <1>17, <1>18, <1>19, <1>20, <1>21

LEMMA StepKeepsCounters ==
    ASSUME TypeOK, TypeOK', LengthsInv, CountersInv, [Next]_vars
    PROVE  \A b \in Agents : CountersOf(b)'
<1>1. ASSUME NEW a \in Agents, PushAccepted(a) PROVE \A b \in Agents : CountersOf(b)'
  <2>1. \A b \in Agents \ {a} : CountersOf(b)'
    BY <1>1, UntouchedCountersStay DEF PushAccepted, CountersInv, TypeOK
  <2>2. pushed'[a] <= Lines(remote'[a])
    BY <1>1 DEF PushAccepted, CountBeforeCommit, CountersInv, PendingOf, TypeOK
  <2>3. saved'[a].pushed <= Lines(remote'[a])
    <3>1. saved[a].pushed <= Lines(remote[a]) /\ saved' = saved
      BY <1>1 DEF PushAccepted, CountersInv, CountersOf
    <3>2. Lines(remote[a]) <= Lines(remote'[a])
      BY StepOnlyAddsLines
    <3>3. Lines(remote'[a]) \in Nat
      BY LinesAreNat DEF TypeOK, Lengths
    <3> QED
      BY <3>1, <3>2, <3>3, CountsAreNat
  <2> QED
    BY <1>1, <2>1, <2>2, <2>3 DEF PushAccepted, CountersInv, CountersOf
<1>2. ASSUME NEW a \in Agents, ReadNew(a) PROVE \A b \in Agents : CountersOf(b)'
  <2>1. \A b \in Agents \ {a} : CountersOf(b)'
    BY <1>2, UntouchedCountersStay DEF ReadNew, CountersInv, TypeOK
  <2>2. /\ read'[a] = Lines(clone[a][Inbound[a]])
        /\ reported'[a] = reported[a] \cup Fresh(a)
        /\ UNCHANGED <<remote, clone, pushed, saved>>
    BY <1>2 DEF ReadNew, NextCursor, gitVars, TypeOK
  <2>3. Fresh(a) \subseteq 1..Whole(clone[a][Inbound[a]])
    BY CountsAreNat DEF Fresh
  <2>4. CountersOf(a)
    BY DEF CountersInv
  <2> QED
    BY <2>1, <2>2, <2>3, <2>4, CountsAreNat DEF CountersOf
<1>3. ASSUME NEW a \in Agents, SaveBegins(a) \/ SaveEnds(a) \/ Crash(a) \/ Restart(a)
      PROVE  \A b \in Agents : CountersOf(b)'
  <2>1. \A b \in Agents \ {a} : CountersOf(b)'
    BY <1>3, UntouchedCountersStay
       DEF SaveBegins, SaveEnds, Crash, Restart, CountersInv, TypeOK
  <2>2. /\ pushed'[a] \in {0, pushed[a], saved[a].pushed}
        /\ read'[a] \in {0, read[a], saved[a].read}
        /\ saved'[a].pushed \in {0, pushed[a], saved[a].pushed}
        /\ saved'[a].read \in {0, read[a], saved[a].read}
        /\ UNCHANGED <<remote, clone, reported>>
    BY <1>3 DEF SaveBegins, SaveEnds, Crash, Restart, TypeOK, Blank, States, gitVars
  <2>3. CountersOf(a)
    BY DEF CountersInv
  <2> QED
    BY <2>1, <2>2, <2>3, CountsAreNat DEF CountersOf
<1>4. CASE UNCHANGED <<pushed, read, saved, reported>>
  BY <1>4, UntouchedCountersStay DEF CountersInv
<1>5. ASSUME NEW a \in Agents, ReadRaises(a) PROVE \A b \in Agents : CountersOf(b)'
  <2>1. \A b \in Agents \ {a} : CountersOf(b)'
    BY <1>5, UntouchedCountersStay DEF ReadRaises, CountersInv, TypeOK
  <2>2. PICK k \in OddFresh(a) :
           reported' = [reported EXCEPT ![a] = @ \cup (read[a] + 1)..(k - 1)]
    BY <1>5 DEF ReadRaises
  <2>3. (read[a] + 1)..(k - 1) \subseteq 1..Whole(clone[a][Inbound[a]])
    BY <2>2, CountsAreNat DEF OddFresh, Fresh
  <2>4. /\ reported'[a] \subseteq reported[a] \cup 1..Whole(clone[a][Inbound[a]])
        /\ UNCHANGED <<remote, clone, pushed, read, saved>>
    BY <1>5, <2>2, <2>3 DEF ReadRaises, gitVars, TypeOK
  <2>5. CountersOf(a)
    BY DEF CountersInv
  <2> QED
    BY <2>1, <2>4, <2>5 DEF CountersOf
<1> QED
  BY <1>1, <1>2, <1>3, <1>4, <1>5, OtherStepsKeepCounters
     DEF vars, daemonVars, Next, Agent, Daemon, Outbound, Rebase, InboundPhase, Network

\* A daemon that does not begin an outbound phase keeps or forgets its count,
\* and one whose count is not yet committed keeps its label and count.
LEMMA PendingStays ==
    ASSUME TypeOK, TypeOK', LengthsInv, CountersInv, [Next]_vars, NEW b \in Agents,
           pc'[b] # "Commit",
           newLines'[b] \in {0, newLines[b]},
           pc[b] # "Commit" \/ newLines'[b] = 0
    PROVE  PendingOf(b)'
<1>1. Lines(clone[b][b]) <= Lines(clone'[b][b])
  BY StepOnlyAddsLines
<1>2. Lines(clone'[b][b]) \in Nat
  BY LinesAreNat DEF TypeOK, Lengths
<1>3. pc[b] # "Commit" => newLines[b] <= Lines(clone[b][b])
  BY DEF CountersInv, PendingOf
<1> QED
  BY <1>1, <1>2, <1>3, CountsAreNat DEF PendingOf

\* A step of another daemon, or of the agent itself, keeps the count good.
LEMMA PendingUntouched ==
    ASSUME TypeOK, TypeOK', LengthsInv, CountersInv, [Next]_vars, NEW b \in Agents,
           pc'[b] = pc[b], newLines'[b] = newLines[b],
           pc[b] = "Commit" => work[b] <= work'[b]
    PROVE  PendingOf(b)'
<1>1. CASE pc[b] # "Commit"
  BY <1>1, PendingStays
<1>2. CASE pc[b] = "Commit"
  <2>1. Lines(work[b]) <= Lines(work'[b]) /\ Lines(work'[b]) \in Nat
    BY <1>2, LinesMonotone, LinesAreNat DEF TypeOK, Lengths
  <2> QED
    BY <1>2, <2>1, CountsAreNat DEF CountersInv, PendingOf
<1> QED
  BY <1>1, <1>2

LEMMA StepKeepsPending ==
    ASSUME TypeOK, TypeOK', LengthsInv, CountersInv, [Next]_vars
    PROVE  \A b \in Agents : PendingOf(b)'
<1>1. ASSUME NEW a \in Agents, BeginOutbound(a) PROVE \A b \in Agents : PendingOf(b)'
  <2>1. \A b \in Agents \ {a} : PendingOf(b)'
    BY <1>1, PendingUntouched DEF BeginOutbound, Goto, agentVars, TypeOK, Lengths
  <2>2. newLines'[a] = Lines(work[a]) /\ work' = work /\ pc'[a] = "Commit"
    BY <1>1 DEF BeginOutbound, Goto, agentVars, TypeOK
  <2>3. Lines(work[a]) \in Nat
    BY CountsAreNat
  <2> QED
    BY <2>1, <2>2, <2>3 DEF PendingOf
<1>2. ASSUME NEW a \in Agents, StageAndCommit(a) PROVE \A b \in Agents : PendingOf(b)'
  <2>1. \A b \in Agents \ {a} : PendingOf(b)'
    BY <1>2, PendingUntouched DEF StageAndCommit, Goto, agentVars, TypeOK, Lengths
  <2>2. /\ newLines'[a] = newLines[a] /\ pc'[a] = "Push" /\ pc[a] = "Commit"
        /\ clone'[a][a] = work[a]
    BY <1>2 DEF StageAndCommit, Goto, TypeOK, Lengths
  <2>3. newLines[a] <= Lines(work[a])
    BY <2>2 DEF CountersInv, PendingOf
  <2> QED
    BY <2>1, <2>2, <2>3 DEF PendingOf
<1>3. ASSUME NEW a \in Agents, Append(a) \/ AppendHalf(a)
      PROVE  \A b \in Agents : PendingOf(b)'
  <2>1. UNCHANGED <<pc, newLines>>
    BY <1>3 DEF Append, AppendHalf, daemonVars
  <2>2. \A b \in Agents : work[b] <= work'[b]
    <3>1. work \in [Agents -> Nat]
      BY DEF TypeOK, Lengths
    <3>2. CASE work' = [work EXCEPT ![a] = @ + 1]
      BY <3>1, <3>2
    <3>3. CASE work' = [work EXCEPT ![a] = @ + 2]
      BY <3>1, <3>3
    <3> QED
      BY <1>3, <3>2, <3>3 DEF Append, AppendHalf
  <2> QED
    BY <2>1, <2>2, PendingUntouched
<1>4. ASSUME NEW a \in Agents,
             \/ BeginInbound(a) \/ CommitFails(a) \/ PushAccepted(a)
             \/ PushAckLost(a) \/ PushRejected(a) \/ FetchForPush(a)
             \/ FetchInbound(a) \/ FetchFails(a) \/ RebaseRefused(a)
             \/ ReadNew(a) \/ ReadRaises(a) \/ ReadFails(a) \/ ReadNothing(a)
             \/ SaveBegins(a) \/ SaveEnds(a) \/ Crash(a) \/ Restart(a)
      PROVE  \A b \in Agents : PendingOf(b)'
  <2>1. \A b \in Agents \ {a} :
           pc'[b] = pc[b] /\ newLines'[b] = newLines[b] /\ work'[b] = work[b]
    BY <1>4 DEF BeginInbound, CommitFails, PushAccepted, PushAckLost, PushRejected,
         FetchForPush, FetchInbound, FetchFails, RebaseRefused, ReadNew, ReadRaises,
         ReadFails, ReadNothing, SaveBegins, SaveEnds, Crash, Restart, Goto, Raise, agentVars, TypeOK
  <2>2. /\ pc'[a] # "Commit"
        /\ newLines'[a] \in {0, newLines[a]}
        /\ pc[a] # "Commit" \/ newLines'[a] = 0
    BY <1>4 DEF BeginInbound, CommitFails, PushAccepted, PushAckLost, PushRejected,
         FetchForPush, FetchInbound, FetchFails, RebaseRefused, ReadNew, ReadRaises,
         ReadFails, ReadNothing, SaveBegins, SaveEnds, Crash, Restart, Goto, Raise, TypeOK
  <2>3. \A b \in Agents \ {a} : work[b] <= work'[b]
    BY <2>1 DEF TypeOK, Lengths
  <2> QED
    BY <2>1, <2>2, <2>3, PendingStays, PendingUntouched
<1>5. ASSUME NEW a \in Agents,
             \/ RebaseForwards(a) \/ ReplayBegins(a) \/ ReplayEnds(a) \/ ReplayAborts(a)
      PROVE  \A b \in Agents : PendingOf(b)'
  <2>1. /\ pc[a] # "Commit" /\ pc'[a] # "Commit"
        /\ newLines'[a] \in {0, newLines[a]}
        /\ \A b \in Agents \ {a} :
              pc'[b] = pc[b] /\ newLines'[b] = newLines[b] /\ work'[b] = work[b]
    <3>1. CASE RebaseForwards(a)
      <4>1. AfterRebase(a) /\ pc[a] # "Commit" /\ work' = work
        BY <3>1 DEF RebaseForwards, agentVars
      <4> QED
        BY <4>1, AfterRebaseType
    <3>2. CASE ReplayEnds(a)
      <4>1. /\ AfterRebase(a) /\ pc[a] # "Commit"
            /\ \A b \in Agents \ {a} : work'[b] = work[b]
        BY <3>2 DEF ReplayEnds, Replaying, TypeOK, Lengths
      <4> QED
        BY <4>1, AfterRebaseType
    <3>3. CASE ReplayBegins(a) \/ ReplayAborts(a)
      BY <3>3 DEF ReplayBegins, ReplayAborts, Replaying, Goto, Raise, TypeOK, Lengths
    <3> QED
      BY <1>5, <3>1, <3>2, <3>3
  <2>2. \A b \in Agents \ {a} : work[b] <= work'[b]
    BY <2>1 DEF TypeOK, Lengths
  <2> QED
    BY <2>1, <2>2, PendingStays, PendingUntouched
<1>6. CASE UNCHANGED <<pc, newLines, work>>
  BY <1>6, PendingUntouched DEF TypeOK, Lengths
<1>7. ASSUME NEW a \in Agents, WriteShared(a) \/ GoOffline(a) \/ GoOnline(a)
      PROVE  UNCHANGED <<pc, newLines, work>>
  BY <1>7 DEF WriteShared, GoOffline, GoOnline, agentVars, daemonVars
<1> QED
  BY <1>1, <1>2, <1>3, <1>4, <1>5, <1>6, <1>7
     DEF vars, agentVars, daemonVars, Next, Agent, Daemon, Outbound, Rebase,
         InboundPhase, Network

-----------------------------------------------------------------------------
(* The inductive invariant, and what follows from it. *)

IInv == TypeOK /\ LengthsInv /\ CountersInv

LEMMA InitIInv == ASSUME Init PROVE IInv
<1>1. TypeOK
  BY BoundsAreNat DEF Init, TypeOK, Lengths, Labels, MaxAttempts, States, Blank
<1>2. LengthsInv
  BY DEF Init, LengthsInv
<1>3. CountersInv
  <2>1. Lines(0) = 0
    BY DEF Lines
  <2> QED
    BY <2>1, InboundIsAPeer DEF Init, CountersInv, CountersOf, PendingOf, Blank
<1> QED
  BY <1>1, <1>2, <1>3 DEF IInv

LEMMA StepIInv == ASSUME IInv, [Next]_vars PROVE IInv'
<1>1. TypeOK'
  BY StepKeepsTypes DEF IInv
<1>2. LengthsInv'
  BY <1>1, StepKeepsLengthsInv DEF IInv
<1>3. CountersInv'
  BY <1>1, StepKeepsCounters, StepKeepsPending DEF IInv, CountersInv
<1> QED
  BY <1>1, <1>2, <1>3 DEF IInv

LEMMA IInvHolds == Spec => []IInv
<1>1. Init => IInv
  BY InitIInv
<1>2. IInv /\ [Next]_vars => IInv'
  BY StepIInv
<1> QED
  BY <1>1, <1>2, PTL DEF Spec

\* Every copy of an outbound file, up to the lines reported at the other end,
\* is a prefix of the copy it was taken from.
THEOREM CopiesArePrefixesAlways == Spec => []CopiesArePrefixes
<1>1. IInv => CopiesArePrefixes
  BY DEF IInv, LengthsInv, CountersInv, CountersOf, CopiesArePrefixes
<1> QED
  BY <1>1, IInvHolds, PTL

\* No line counter of a daemon runs ahead of the file it counts, torn lines,
\* retried pushes, lost acknowledgements and restarts included.
THEOREM CountersWithinFilesAlways == Spec => []CountersWithinFiles
<1>1. IInv => CountersWithinFiles
  BY DEF IInv, CountersInv, CountersOf, CountersWithinFiles
<1> QED
  BY <1>1, IInvHolds, PTL

\* No step takes back a published line or shortens the file an agent reads.
THEOREM WireStaysAppendOnly == Spec => WireIsAppendOnly
<1>1. IInv /\ [Next]_vars =>
         [\A a, b \in Agents :
             /\ remote[b] <= remote'[b]
             /\ a # b => clone[a][b] <= clone'[a][b]]_gitVars
  BY StepOnlyLengthens DEF IInv
<1> QED
  BY <1>1, IInvHolds, PTL DEF Spec, WireIsAppendOnly

-----------------------------------------------------------------------------
(* Reports are repeated only after a crash or before an odd line. *)

RepeatOf(a) == reported[a] \subseteq 1..read[a] \/ StuckBeforeOdd(a)

RepeatInv == crashes = 0 => \A a \in Agents : pc[a] # "Down" /\ RepeatOf(a)

\* A daemon whose cursor and reports a step leaves alone repeats no more than
\* before: the odd line that holds its cursor stays in its clone.
LEMMA RepeatStays ==
    ASSUME TypeOK, TypeOK', LengthsInv, [Next]_vars, NEW b \in Agents, RepeatOf(b),
           read'[b] = read[b], reported'[b] = reported[b]
    PROVE  RepeatOf(b)'
<1>1. CASE reported[b] \subseteq 1..read[b]
  BY <1>1 DEF RepeatOf
<1>2. ASSUME NEW k \in Odd[Inbound[b]], read[b] < k, k <= Whole(clone[b][Inbound[b]])
      PROVE  RepeatOf(b)'
  <2>1. /\ Whole(clone[b][Inbound[b]]) <= Whole(clone'[b][Inbound[b]])
        /\ Whole(clone[b][Inbound[b]]) \in Nat
    BY StepOnlyAddsLines, CountsAreNat
  <2>2. Whole(clone'[b][Inbound[b]]) \in Nat
    BY InboundIsAPeer, LinesAreNat DEF TypeOK, Lengths
  <2>3. k \in Nat
    BY OddAreLines, InboundIsAPeer
  <2>4. k <= Whole(clone'[b][Inbound[b]])
    BY <1>2, <2>1, <2>2, <2>3
  <2> QED
    BY <1>2, <2>4 DEF RepeatOf, StuckBeforeOdd
<1> QED
  BY <1>1, <1>2 DEF RepeatOf, StuckBeforeOdd

LEMMA StepKeepsRepeatInv ==
    ASSUME IInv, RepeatInv, [Next]_vars
    PROVE  RepeatInv'
<1> SUFFICES ASSUME crashes' = 0
             PROVE  \A b \in Agents : pc'[b] # "Down" /\ RepeatOf(b)'
  BY DEF RepeatInv
<1> USE DEF RepeatInv, Goto, Raise
<1>t. TypeOK /\ TypeOK' /\ LengthsInv
  BY StepIInv DEF IInv
<1>1. ASSUME NEW a \in Agents, ReadNew(a)
      PROVE  \A b \in Agents : pc'[b] # "Down" /\ RepeatOf(b)'
  <2>1. /\ crashes = 0
        /\ \A b \in Agents \ {a} : /\ pc'[b] = pc[b] /\ read'[b] = read[b]
                                   /\ reported'[b] = reported[b]
    BY <1>1, <1>t DEF ReadNew, envVars, TypeOK
  <2>6. ~StuckBeforeOdd(a)
    <3>1. SUFFICES ASSUME NEW k \in Odd[Inbound[a]], read[a] < k,
                          k <= Whole(clone[a][Inbound[a]])
                   PROVE  FALSE
      BY DEF StuckBeforeOdd
    <3>2. k \in Nat
      BY OddAreLines, InboundIsAPeer
    <3>3. k \in Fresh(a)
      BY <1>t, <3>1, <3>2, CountsAreNat DEF Fresh
    <3> QED
      BY <1>1, <3>3 DEF ReadNew, OddFresh
  <2>2. /\ pc'[a] = "Save"
        /\ read'[a] = Lines(clone[a][Inbound[a]])
        /\ reported'[a] = reported[a] \cup (read[a] + 1)..Whole(clone[a][Inbound[a]])
        /\ reported[a] \subseteq 1..read[a]
    BY <1>1, <1>t, <2>1, <2>6 DEF ReadNew, NextCursor, Fresh, RepeatOf, TypeOK
  <2>3. read[a] <= Lines(clone[a][Inbound[a]])
    BY DEF IInv, CountersInv, CountersOf
  <2>4. Whole(clone[a][Inbound[a]]) <= Lines(clone[a][Inbound[a]])
    BY <1>t, InboundIsAPeer, LinesAreNat DEF TypeOK, Lengths
  <2>5. reported'[a] \subseteq 1..read'[a]
    BY <2>2, <2>3, <2>4, <1>t, CountsAreNat
  <2> QED
    BY <1>t, <2>1, <2>2, <2>5, RepeatStays DEF RepeatOf
<1>2. ASSUME NEW a \in Agents, Crash(a) PROVE FALSE
  BY <1>2, <1>t, BoundsAreNat DEF Crash, TypeOK
<1>3. ASSUME NEW a \in Agents, Restart(a) PROVE FALSE
  BY <1>3 DEF Restart, envVars
<1>4. ASSUME NEW a \in Agents,
             \/ BeginOutbound(a) \/ BeginInbound(a) \/ StageAndCommit(a) \/ CommitFails(a)
             \/ PushAccepted(a) \/ PushAckLost(a) \/ PushRejected(a) \/ FetchForPush(a)
             \/ FetchInbound(a) \/ FetchFails(a) \/ RebaseRefused(a)
             \/ ReplayBegins(a) \/ ReplayAborts(a)
             \/ ReadFails(a) \/ ReadNothing(a) \/ SaveBegins(a) \/ SaveEnds(a)
      PROVE  \A b \in Agents : pc'[b] # "Down" /\ RepeatOf(b)'
  <2>1. UNCHANGED <<crashes, read, reported>>
    BY <1>4 DEF BeginOutbound, BeginInbound, StageAndCommit, CommitFails, PushAccepted,
         PushAckLost, PushRejected, FetchForPush, FetchInbound, FetchFails, RebaseRefused,
         ReplayBegins, ReplayAborts, ReadFails, ReadNothing, SaveBegins, SaveEnds, envVars
  <2>2. \E l \in Labels \ {"Down"} : pc' = [pc EXCEPT ![a] = l]
    BY <1>4 DEF BeginOutbound, BeginInbound, StageAndCommit, CommitFails, PushAccepted,
         PushAckLost, PushRejected, FetchForPush, FetchInbound, FetchFails, RebaseRefused,
         ReplayBegins, ReplayAborts, ReadFails, ReadNothing, SaveBegins, SaveEnds, Labels
  <2>3. \A b \in Agents : pc'[b] # "Down"
    BY <2>1, <2>2, <1>t DEF TypeOK
  <2> QED
    BY <2>1, <2>3, <1>t, RepeatStays
<1>5. ASSUME NEW a \in Agents, RebaseForwards(a) \/ ReplayEnds(a)
      PROVE  \A b \in Agents : pc'[b] # "Down" /\ RepeatOf(b)'
  <2>1. UNCHANGED <<crashes, read, reported>>
    BY <1>5 DEF RebaseForwards, ReplayEnds, envVars
  <2>2. \E l \in Labels \ {"Down"} : pc' = [pc EXCEPT ![a] = l]
    BY <1>5 DEF RebaseForwards, ReplayEnds, AfterRebase, Labels
  <2>3. \A b \in Agents : pc'[b] # "Down"
    BY <2>1, <2>2, <1>t DEF TypeOK
  <2> QED
    BY <2>1, <2>3, <1>t, RepeatStays
<1>6. ASSUME NEW a \in Agents,
             \/ Append(a) \/ AppendHalf(a) \/ WriteShared(a) \/ GoOffline(a) \/ GoOnline(a)
      PROVE  UNCHANGED <<crashes, pc, read, reported>>
  BY <1>6 DEF Append, AppendHalf, WriteShared, GoOffline, GoOnline, daemonVars, envVars
<1>7. CASE UNCHANGED <<crashes, pc, read, reported>>
  BY <1>7, <1>t, RepeatStays
<1>8. ASSUME NEW a \in Agents, ReadRaises(a)
      PROVE  \A b \in Agents : pc'[b] # "Down" /\ RepeatOf(b)'
  <2>1. /\ crashes = 0 /\ read' = read /\ clone' = clone
        /\ pc'[a] = "Loop"
        /\ \A b \in Agents \ {a} : pc'[b] = pc[b] /\ reported'[b] = reported[b]
    BY <1>8, <1>t DEF ReadRaises, envVars, gitVars, TypeOK
  <2>2. StuckBeforeOdd(a)'
    <3>1. PICK k \in OddFresh(a) : TRUE
      BY <1>8 DEF ReadRaises
    <3>2. read[a] < k /\ k <= Whole(clone[a][Inbound[a]]) /\ k \in Odd[Inbound[a]]
      BY <1>t, CountsAreNat DEF OddFresh, Fresh
    <3> QED
      BY <2>1, <3>2 DEF StuckBeforeOdd
  <2> QED
    BY <1>t, <2>1, <2>2, RepeatStays DEF RepeatOf
<1> QED
  BY <1>1, <1>2, <1>3, <1>4, <1>5, <1>6, <1>7, <1>8
     DEF vars, daemonVars, envVars, Next, Agent, Daemon, Outbound, Rebase,
         InboundPhase, Network

\* As long as no daemon has crashed, every reported line is behind the cursor
\* and so is not reported again, failed fetches, pushes and torn lines included,
\* unless an odd line holds the cursor.
THEOREM NoRepeatWithoutCauseAlways == Spec => []NoRepeatWithoutCause
<1>1. Init => RepeatInv
  BY DEF Init, RepeatInv, RepeatOf
<1>2. IInv /\ RepeatInv /\ [Next]_vars => RepeatInv'
  BY StepKeepsRepeatInv
<1>3. RepeatInv => NoRepeatWithoutCause
  BY DEF RepeatInv, RepeatOf, NoRepeatWithoutCause
<1> QED
  BY <1>1, <1>2, <1>3, IInvHolds, PTL DEF Spec

-----------------------------------------------------------------------------
(* Without torn lines, nothing is skipped. *)

\* No copy of an outbound file ends in a torn line.
WholeInv ==
    \A a, b \in Agents :
        /\ appended[a] % 2 = 0 /\ work[a] % 2 = 0 /\ remote[a] % 2 = 0
        /\ clone[a][b] % 2 = 0 /\ track[a][b] % 2 = 0

LEMMA StepKeepsWholeInv ==
    ASSUME ~SplitWrites, TypeOK, WholeInv, [Next]_vars
    PROVE  WholeInv'
<1> USE DEF TypeOK, Lengths, WholeInv, agentVars, gitVars
<1>1. ASSUME NEW a \in Agents, Append(a) PROVE WholeInv'
  <2>1. /\ appended' = [appended EXCEPT ![a] = @ + 2]
        /\ work' = [work EXCEPT ![a] = @ + 2]
        /\ UNCHANGED <<clone, track, remote>>
    BY <1>1 DEF Append
  <2>2. (appended[a] + 2) % 2 = 0 /\ (work[a] + 2) % 2 = 0
    BY EvenPlusTwo
  <2> QED
    BY <2>1, <2>2
<1>2. ASSUME NEW a \in Agents, AppendHalf(a) PROVE WholeInv'
  BY <1>2 DEF AppendHalf
<1>3. ASSUME NEW a \in Agents, StageAndCommit(a) PROVE WholeInv'
  BY <1>3 DEF StageAndCommit
<1>4. ASSUME NEW a \in Agents, PushAccepted(a) \/ PushAckLost(a) PROVE WholeInv'
  <2>1. /\ remote' = clone[a]
        /\ track' = track \/ track' = [track EXCEPT ![a] = clone[a]]
        /\ UNCHANGED <<appended, work, clone>>
    BY <1>4 DEF PushAccepted, PushAckLost
  <2> QED
    BY <2>1
<1>5. ASSUME NEW a \in Agents, FetchForPush(a) \/ FetchInbound(a) PROVE WholeInv'
  BY <1>5 DEF FetchForPush, FetchInbound
<1>6. ASSUME NEW a \in Agents PROVE \A b \in Agents : Rebased(a)[b] % 2 = 0
  BY DEF Rebased
<1>7. ASSUME NEW a \in Agents, RebaseForwards(a) PROVE WholeInv'
  <2>1. /\ clone' = [clone EXCEPT ![a] = Rebased(a)]
        /\ UNCHANGED <<appended, work, track, remote>>
    BY <1>7 DEF RebaseForwards
  <2> QED
    BY <2>1, <1>6
<1>8. ASSUME NEW a \in Agents, ReplayBegins(a) PROVE WholeInv'
  BY <1>8 DEF ReplayBegins
<1>9. ASSUME NEW a \in Agents, ReplayEnds(a) PROVE WholeInv'
  <2>1. /\ clone' = [clone EXCEPT ![a] = Rebased(a)]
        /\ work' = [work EXCEPT ![a] = clone[a][a]]
        /\ UNCHANGED <<appended, track, remote>>
    BY <1>9 DEF ReplayEnds
  <2> QED
    BY <2>1, <1>6
<1>10. ASSUME NEW a \in Agents, ReplayAborts(a) PROVE WholeInv'
  BY <1>10 DEF ReplayAborts
<1>11. CASE UNCHANGED <<appended, work, clone, track, remote>>
  BY <1>11
<1> QED
  BY <1>1, <1>2, <1>3, <1>4, <1>5, <1>7, <1>8, <1>9, <1>10, <1>11, OtherStepsKeepLengths
     DEF vars, Next, Agent, Daemon, Outbound, Rebase, InboundPhase, Network

\* What has been reported to an agent is a gapless prefix without an odd line,
\* and it covers every line behind a cursor.
ReportedOf(a) ==
    /\ \E n \in Nat : reported[a] = 1..n
    /\ reported[a] \cap Odd[Inbound[a]] = {}
    /\ 1..read[a] \subseteq reported[a]
    /\ 1..saved[a].read \subseteq reported[a]

ReportedInv == \A a \in Agents : ReportedOf(a)

\* A batch that is read extends the prefix to the end of the clone's file, and
\* takes the cursor there.
LEMMA ReadNewExtends ==
    ASSUME IInv, WholeInv, ReportedInv, NEW a \in Agents, ReadNew(a)
    PROVE  LET n == Whole(clone[a][Inbound[a]])
           IN  /\ n \in Nat
               /\ reported'[a] = 1..n
               /\ 1..n \cap Odd[Inbound[a]] = {}
               /\ read'[a] = n
               /\ \A b \in Agents \ {a} : reported'[b] = reported[b] /\ read'[b] = read[b]
               /\ saved' = saved
               /\ reported'[a] = reported[a] \/ n \in 1..n \ reported[a]
<1> DEFINE n == Whole(clone[a][Inbound[a]])
<1>1. TypeOK
  BY DEF IInv
<1>2. n \in Nat /\ n = Lines(clone[a][Inbound[a]])
  <2>1. Inbound[a] \in Agents
    BY InboundIsAPeer
  <2>2. clone[a][Inbound[a]] \in Nat
    BY <1>1, <2>1 DEF TypeOK, Lengths
  <2>3. clone[a][Inbound[a]] % 2 = 0
    BY <2>1 DEF WholeInv
  <2>4. n = Lines(clone[a][Inbound[a]])
    BY <2>2, <2>3, LinesOfWholeFile
  <2>5. n \in Nat
    BY <1>1, CountsAreNat
  <2> QED
    BY <2>4, <2>5
<1>3. /\ reported' = [reported EXCEPT ![a] = reported[a] \cup (read[a] + 1)..n]
      /\ read' = [read EXCEPT ![a] = n]
      /\ saved' = saved
      /\ (read[a] + 1)..n # {}
  BY <1>2 DEF ReadNew, Fresh, NextCursor
<1>4. PICK k \in Nat : reported[a] = 1..k
  BY DEF ReportedInv, ReportedOf
<1>5. reported[a] \subseteq 1..n
  BY DEF IInv, CountersInv, CountersOf
<1>6. 1..read[a] \subseteq 1..k /\ read[a] \in Nat
  BY <1>1, <1>4, CountsAreNat DEF ReportedInv, ReportedOf
<1>7. reported[a] \cup (read[a] + 1)..n = 1..n
  BY <1>2, <1>4, <1>5, <1>6
<1>8. /\ reported'[a] = 1..n /\ read'[a] = n
      /\ \A b \in Agents \ {a} : reported'[b] = reported[b] /\ read'[b] = read[b]
  BY <1>1, <1>3, <1>7 DEF TypeOK
<1>9. reported'[a] = reported[a] \/ n \in 1..n \ reported[a]
  BY <1>2, <1>4, <1>5, <1>6, <1>8
<1>10. 1..n \cap Odd[Inbound[a]] = {}
  <2>1. /\ reported[a] \cap Odd[Inbound[a]] = {}
        /\ (read[a] + 1)..n \cap Odd[Inbound[a]] = {}
    BY DEF ReportedInv, ReportedOf, ReadNew, OddFresh, Fresh
  <2> QED
    BY <1>7, <2>1
<1> QED
  BY <1>2, <1>3, <1>8, <1>9, <1>10

\* A tick of a reports the first n lines of its clone, none of them odd.
ReportsUpTo(a, n) ==
    /\ n <= Whole(clone[a][Inbound[a]])
    /\ reported'[a] = 1..n
    /\ 1..n \cap Odd[Inbound[a]] = {}
    /\ reported'[a] = reported[a] \/ n \in 1..n \ reported[a]

\* A batch with an odd line extends the prefix up to that line, or repeats it.
LEMMA ReadRaisesExtends ==
    ASSUME IInv, ReportedInv, NEW a \in Agents, ReadRaises(a)
    PROVE  /\ \E n \in Nat : ReportsUpTo(a, n)
           /\ \A b \in Agents \ {a} : reported'[b] = reported[b]
           /\ reported[a] \subseteq reported'[a]
           /\ UNCHANGED <<read, saved>>
<1>1. TypeOK
  BY DEF IInv
<1>2. PICK k \in OddFresh(a) :
         /\ \A j \in OddFresh(a) : k <= j
         /\ reported' = [reported EXCEPT ![a] = @ \cup (read[a] + 1)..(k - 1)]
  BY DEF ReadRaises
<1>3. PICK j \in Nat : reported[a] = 1..j
  BY DEF ReportedInv, ReportedOf
<1>4. /\ read[a] \in Nat /\ 1..read[a] \subseteq 1..j
      /\ 1..j \cap Odd[Inbound[a]] = {}
  BY <1>1, <1>3, CountsAreNat DEF ReportedInv, ReportedOf
<1>5. /\ k \in (read[a] + 1)..Whole(clone[a][Inbound[a]])
      /\ k \in Odd[Inbound[a]]
      /\ Whole(clone[a][Inbound[a]]) \in Nat
  BY <1>1, CountsAreNat DEF OddFresh, Fresh
<1>6. k \in Nat /\ j < k /\ read[a] < k /\ k <= Whole(clone[a][Inbound[a]])
  BY <1>3, <1>4, <1>5
<1>7. 1..j \cup (read[a] + 1)..(k - 1) = 1..(k - 1)
  BY <1>3, <1>4, <1>6
<1>8. /\ reported'[a] = 1..(k - 1)
      /\ \A b \in Agents \ {a} : reported'[b] = reported[b]
  BY <1>1, <1>2, <1>3, <1>7 DEF TypeOK
<1>9. 1..(k - 1) \cap Odd[Inbound[a]] = {}
  <2>1. SUFFICES ASSUME NEW i \in 1..(k - 1), i \in Odd[Inbound[a]] PROVE FALSE
    OBVIOUS
  <2>2. i \in (read[a] + 1)..Whole(clone[a][Inbound[a]])
    BY <1>4, <1>5, <1>6, <1>7, <2>1
  <2>3. k <= i
    BY <1>2, <2>1, <2>2 DEF OddFresh, Fresh
  <2> QED
    BY <1>6, <2>1, <2>3
<1>10. reported'[a] = reported[a] \/ k - 1 \in 1..(k - 1) \ reported[a]
  BY <1>3, <1>6, <1>8
<1>11. k - 1 \in Nat /\ k - 1 <= Whole(clone[a][Inbound[a]])
  BY <1>5, <1>6
<1>12. reported[a] \subseteq reported'[a] /\ UNCHANGED <<read, saved>>
  BY <1>3, <1>7, <1>8 DEF ReadRaises
<1>13. ReportsUpTo(a, k - 1)
  BY <1>8, <1>9, <1>10, <1>11 DEF ReportsUpTo
<1> QED
  BY <1>8, <1>11, <1>12, <1>13

LEMMA StepKeepsReportedInv ==
    ASSUME IInv, WholeInv, ReportedInv, [Next]_vars
    PROVE  ReportedInv'
<1>t. TypeOK
  BY DEF IInv
<1>1. ASSUME NEW a \in Agents, ReadNew(a) PROVE ReportedInv'
  BY <1>1, <1>t, ReadNewExtends DEF ReportedInv, ReportedOf
<1>2. ASSUME NEW a \in Agents, SaveBegins(a) \/ SaveEnds(a) \/ Crash(a) \/ Restart(a)
      PROVE  ReportedInv'
  <2>1. \A b \in Agents : /\ read'[b] \in {0, read[b], saved[b].read}
                          /\ saved'[b].read \in {0, read[b], saved[b].read}
    <3>1. CASE SaveBegins(a)
      BY <3>1, <1>t DEF SaveBegins, TypeOK, Blank
    <3>2. CASE SaveEnds(a)
      BY <3>2, <1>t DEF SaveEnds, TypeOK
    <3>3. CASE Crash(a)
      BY <3>3, <1>t DEF Crash, TypeOK
    <3>4. CASE Restart(a)
      BY <3>4, <1>t DEF Restart, TypeOK
    <3> QED
      BY <1>2, <3>1, <3>2, <3>3, <3>4
  <2>2. reported' = reported
    BY <1>2 DEF SaveBegins, SaveEnds, Crash, Restart
  <2> QED
    BY <2>1, <2>2 DEF ReportedInv, ReportedOf
<1>3. CASE UNCHANGED <<pushed, read, saved, reported>>
  BY <1>3 DEF ReportedInv, ReportedOf
<1>4. ASSUME NEW a \in Agents, PushAccepted(a) PROVE ReportedInv'
  BY <1>4 DEF PushAccepted, ReportedInv, ReportedOf
<1>5. ASSUME NEW a \in Agents, ReadRaises(a) PROVE ReportedInv'
  <2>1. /\ \E n \in Nat : reported'[a] = 1..n /\ 1..n \cap Odd[Inbound[a]] = {}
        /\ \A b \in Agents \ {a} : reported'[b] = reported[b]
        /\ reported[a] \subseteq reported'[a]
        /\ UNCHANGED <<read, saved>>
    <3>1. /\ \A b \in Agents \ {a} : reported'[b] = reported[b]
          /\ reported[a] \subseteq reported'[a]
          /\ UNCHANGED <<read, saved>>
      BY <1>5, ReadRaisesExtends
    <3>2. \E n \in Nat : ReportsUpTo(a, n)
      BY <1>5, ReadRaisesExtends
    <3> QED
      BY <3>1, <3>2 DEF ReportsUpTo
  <2>2. ReportedOf(a)'
    BY <2>1 DEF ReportedInv, ReportedOf
  <2>3. \A b \in Agents \ {a} : ReportedOf(b)'
    BY <2>1 DEF ReportedInv, ReportedOf
  <2> QED
    BY <2>2, <2>3 DEF ReportedInv
<1> QED
  BY <1>1, <1>2, <1>3, <1>4, <1>5, OtherStepsKeepCounters
     DEF vars, daemonVars, Next, Agent, Daemon, Outbound, Rebase, InboundPhase, Network

WInv == IInv /\ WholeInv /\ ReportedInv

LEMMA WInvHolds == ASSUME ~SplitWrites PROVE Spec => []WInv
<1>1. Init => WInv
  <2>1. ASSUME Init PROVE WholeInv
    BY <2>1 DEF Init, WholeInv
  <2>2. ASSUME Init, NEW a \in Agents PROVE ReportedOf(a)
    <3>1. reported[a] = {} /\ read[a] = 0 /\ saved[a].read = 0
      BY <2>2 DEF Init, Blank
    <3>2. 1..0 = {} /\ 0 \in Nat
      OBVIOUS
    <3> QED
      BY <3>1, <3>2 DEF ReportedOf
  <2> QED
    BY <2>1, <2>2, InitIInv DEF WInv, ReportedInv
<1>2. WInv /\ [Next]_vars => WInv'
  BY StepIInv, StepKeepsWholeInv, StepKeepsReportedInv DEF WInv, IInv
<1> QED
  BY <1>1, <1>2, PTL DEF Spec

\* When git never sees a line half written, every line behind an inbound cursor
\* has been reported, whatever fails and whenever a daemon dies.
THEOREM NoMessageSkippedAlways ==
    ASSUME ~SplitWrites
    PROVE  Spec => []NoMessageSkipped
<1>1. WInv => NoMessageSkipped
  BY DEF WInv, ReportedInv, ReportedOf, NoMessageSkipped
<1> QED
  BY <1>1, WInvHolds, PTL

\* When git never sees a line half written, a dirty outbound file always has
\* more lines than the daemon counted as pushed, so that it will be committed.
THEOREM EveryChangeIsCountedAlways ==
    ASSUME ~SplitWrites
    PROVE  Spec => []EveryChangeIsCounted
<1>1. WInv => EveryChangeIsCounted
  <2> SUFFICES ASSUME WInv, NEW a \in Agents, Dirty(a), ~Replaying(a)
               PROVE  pushed[a] < Lines(work[a])
    BY DEF EveryChangeIsCounted
  <2>1. TypeOK
    BY DEF WInv, IInv
  <2>2. /\ remote[a] \in Nat /\ clone[a][a] \in Nat /\ work[a] \in Nat
        /\ clone[a][a] % 2 = 0 /\ work[a] % 2 = 0
    BY <2>1 DEF TypeOK, Lengths, WInv, WholeInv
  <2>3. remote[a] <= clone[a][a] /\ clone[a][a] < work[a]
    BY <2>2 DEF WInv, IInv, LengthsInv, Dirty
  <2>4. pushed[a] <= Lines(remote[a])
    BY DEF WInv, IInv, CountersInv, CountersOf
  <2>5. Lines(remote[a]) <= Lines(clone[a][a]) /\ Lines(clone[a][a]) < Lines(work[a])
    BY <2>2, <2>3, LinesMonotone, LinesOfWholeFile
  <2> QED
    BY <2>1, <2>4, <2>5, CountsAreNat
<1> QED
  BY <1>1, WInvHolds, PTL

-----------------------------------------------------------------------------
(* The daemons implement the safety of the dead drop. *)

\* An append sends one message.
LEMMA AppendSends ==
    ASSUME TypeOK, WholeInv, NEW a \in Agents, Append(a)
    PROVE  DD!Send(a)
<1>1. /\ appended' = [appended EXCEPT ![a] = @ + 2]
      /\ UNCHANGED <<remote, reported>>
  BY DEF Append, gitVars, daemonVars
<1>2. Whole(appended[a] + 2) = Whole(appended[a]) + 1
  BY DEF Whole, TypeOK, Lengths
<1>3. \A b \in Agents : Whole(appended'[b]) = IF b = a THEN Whole(appended[a]) + 1
                                                      ELSE Whole(appended[b])
  BY <1>1, <1>2 DEF TypeOK, Lengths
<1> QED
  BY <1>1, <1>3 DEF DD!Send

\* A push that reaches the remote, whether or not the daemon learns of it,
\* publishes messages of its own agent and of no other.
LEMMA PushPublishes ==
    ASSUME TypeOK, TypeOK', LengthsInv, NEW a \in Agents, PushAccepted(a) \/ PushAckLost(a),
           [Next]_vars
    PROVE  DD!Publish(a) \/ UNCHANGED DD!vars
<1>1. /\ remote' = clone[a]
      /\ FastForwards(a)
      /\ UNCHANGED <<appended, reported>>
  BY DEF PushAccepted, PushAckLost, agentVars
<1>2. ASSUME NEW b \in Agents \ {a} PROVE remote'[b] = remote[b]
  <2>1. clone[a][b] <= remote[b]
    BY DEF LengthsInv
  <2>2. remote[b] <= clone[a][b]
    BY <1>1 DEF FastForwards
  <2>3. clone[a][b] \in Nat /\ remote[b] \in Nat
    BY DEF TypeOK, Lengths
  <2> QED
    BY <1>1, <2>1, <2>2, <2>3
<1>3. /\ appended[a] \in Nat /\ remote[a] \in Nat /\ remote'[a] \in Nat
      /\ remote[a] <= remote'[a] /\ remote'[a] <= appended[a]
  BY <1>1 DEF FastForwards, LengthsInv, TypeOK, Lengths
<1>4. /\ Whole(remote[a]) \in Nat /\ Whole(remote'[a]) \in Nat /\ Whole(appended[a]) \in Nat
      /\ Whole(remote[a]) <= Whole(remote'[a]) /\ Whole(remote'[a]) <= Whole(appended[a])
  BY <1>3, LinesAreNat, LinesMonotone
<1>5. CASE Whole(remote'[a]) = Whole(remote[a])
  <2>1. \A b \in Agents : Whole(remote'[b]) = Whole(remote[b])
    BY <1>2, <1>5
  <2> QED
    BY <1>1, <2>1 DEF DD!vars
<1>6. CASE Whole(remote'[a]) # Whole(remote[a])
  <2>1. Whole(remote'[a]) \in (Whole(remote[a]) + 1)..Whole(appended[a])
    BY <1>4, <1>6
  <2>2. [b \in Agents |-> Whole(remote'[b])] =
           [[b \in Agents |-> Whole(remote[b])] EXCEPT ![a] = Whole(remote'[a])]
    BY <1>2
  <2> QED
    BY <1>1, <2>1, <2>2 DEF DD!Publish
<1> QED
  BY <1>5, <1>6

\* Reading delivers a longer gapless prefix, or repeats what was delivered.
LEMMA ReadDelivers ==
    ASSUME WInv, NEW a \in Agents, ReadNew(a) \/ ReadRaises(a)
    PROVE  DD!Deliver(a) \/ UNCHANGED DD!vars
<1>1. PICK n \in Nat : ReportsUpTo(a, n)
  <2>1. CASE ReadNew(a)
    <3> DEFINE n == Whole(clone[a][Inbound[a]])
    <3>1. n \in Nat
      BY <2>1, ReadNewExtends DEF WInv
    <3>2. ReportsUpTo(a, n)
      BY <2>1, <3>1, ReadNewExtends DEF WInv, ReportsUpTo
    <3> QED
      BY <3>1, <3>2
  <2>2. CASE ReadRaises(a)
    BY <2>2, ReadRaisesExtends DEF WInv
  <2> QED
    BY <2>1, <2>2
<1>2. TypeOK /\ UNCHANGED <<appended, remote>>
  BY DEF WInv, IInv, ReadNew, ReadRaises, agentVars, gitVars
<1>3. /\ reported \in [Agents -> SUBSET (Nat \ {0})]
      /\ reported' = [reported EXCEPT ![a] = reported'[a]]
  BY <1>2 DEF TypeOK, ReadNew, ReadRaises
<1>4. n <= Whole(remote[Inbound[a]]) /\ Whole(remote[Inbound[a]]) \in Nat
  <2>1. /\ Inbound[a] \in Agents \ {a}
        /\ clone[a][Inbound[a]] \in Nat /\ remote[Inbound[a]] \in Nat
    BY <1>2, InboundIsAPeer DEF TypeOK, Lengths
  <2>2. clone[a][Inbound[a]] <= remote[Inbound[a]]
    BY <2>1 DEF WInv, IInv, LengthsInv
  <2>3. /\ Whole(clone[a][Inbound[a]]) <= Whole(remote[Inbound[a]])
        /\ Whole(clone[a][Inbound[a]]) \in Nat /\ Whole(remote[Inbound[a]]) \in Nat
    BY <2>1, <2>2, LinesMonotone, LinesAreNat
  <2> QED
    BY <1>1, <2>3 DEF ReportsUpTo
<1>5. CASE reported'[a] = reported[a]
  BY <1>2, <1>3, <1>5 DEF DD!vars
<1>6. CASE n \in 1..n \ reported[a]
  <2>1. /\ n \in 1..Whole(remote[Inbound[a]]) /\ n \notin reported[a]
        /\ reported' = [reported EXCEPT ![a] = 1..n]
    BY <1>1, <1>3, <1>4, <1>6 DEF ReportsUpTo
  <2>3. 1..n \cap Odd[Inbound[a]] = {}
    BY <1>1 DEF ReportsUpTo
  <2>2. Inbound[a] \in Agents
    BY InboundIsAPeer
  <2> QED
    BY <1>2, <2>1, <2>2, <2>3 DEF DD!Deliver
<1> QED
  BY <1>1, <1>5, <1>6 DEF ReportsUpTo

\* When git never sees a line half written, every behaviour of the daemons,
\* with its crashes, outages and races, is one of the dead drop: lines are
\* sent, published and delivered in order, and none is skipped.
THEOREM ImplementsDeadDropSafety ==
    ASSUME ~SplitWrites
    PROVE  Spec => DD!Spec
<1>1. Init => DD!Init
  <2>1. Whole(0) = 0
    BY DEF Whole
  <2> QED
    BY <2>1 DEF Init, DD!Init
<1>2. ASSUME WInv, WInv', [Next]_vars PROVE [DD!Next]_(DD!vars)
  <2>t. TypeOK /\ TypeOK' /\ LengthsInv /\ WholeInv
    BY <1>2 DEF WInv, IInv
  <2>1. ASSUME NEW a \in Agents, Append(a) PROVE DD!Next
    BY <2>1, <2>t, AppendSends DEF DD!Next
  <2>2. ASSUME NEW a \in Agents, AppendHalf(a) PROVE FALSE
    BY <2>2 DEF AppendHalf
  <2>3. ASSUME NEW a \in Agents, PushAccepted(a) \/ PushAckLost(a) PROVE [DD!Next]_(DD!vars)
    BY <1>2, <2>3, <2>t, PushPublishes DEF DD!Next
  <2>4. ASSUME NEW a \in Agents, ReadNew(a) \/ ReadRaises(a) PROVE [DD!Next]_(DD!vars)
    BY <1>2, <2>4, ReadDelivers DEF DD!Next
  <2>5. CASE UNCHANGED <<appended, remote, reported>>
    BY <2>5 DEF DD!vars
  <2>6. ASSUME NEW a \in Agents,
               \/ WriteShared(a) \/ BeginOutbound(a) \/ BeginInbound(a) \/ StageAndCommit(a)
               \/ CommitFails(a) \/ PushRejected(a) \/ FetchForPush(a) \/ FetchInbound(a)
               \/ FetchFails(a) \/ RebaseRefused(a) \/ RebaseForwards(a)
               \/ ReplayBegins(a) \/ ReplayEnds(a) \/ ReplayAborts(a)
               \/ ReadFails(a) \/ ReadNothing(a) \/ SaveBegins(a) \/ SaveEnds(a)
               \/ Crash(a) \/ Restart(a) \/ GoOffline(a) \/ GoOnline(a)
        PROVE  UNCHANGED <<appended, remote, reported>>
    BY <2>6 DEF WriteShared, BeginOutbound, BeginInbound, StageAndCommit, CommitFails,
         PushRejected, FetchForPush, FetchInbound, FetchFails, RebaseRefused,
         RebaseForwards, ReplayBegins, ReplayEnds, ReplayAborts, ReadFails, ReadNothing, SaveBegins,
         SaveEnds, Crash, Restart, GoOffline, GoOnline, agentVars, gitVars, daemonVars
  <2> QED
    BY <1>2, <2>1, <2>2, <2>3, <2>4, <2>5, <2>6
       DEF vars, agentVars, gitVars, daemonVars, Next, Agent, Daemon, Outbound, Rebase,
           InboundPhase, Network
<1> QED
  BY <1>1, <1>2, WInvHolds, PTL DEF Spec, DD!Spec

=============================================================================
