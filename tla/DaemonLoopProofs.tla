-------------------------- MODULE DaemonLoopProofs --------------------------
(***************************************************************************)
(* How long the daemon of wire-daemon.py may leave a change, a peer's push *)
(* or a nudge waiting, for every choice of its times.                      *)
(***************************************************************************)
EXTENDS DaemonLoop, TLAPS

\* A loop started with --once never waits: past its first tick it has synced.
OncePhase ==
    /\ pc = "Exit" => once
    /\ once => /\ pc \notin {"Enter", "Wait", "Leave"}
               /\ pc \in {"Clear", "Done", "Exit"} <=> synced
               /\ synced => late = 0

\* Where the loop is bounds what has been waiting since before it came there.
ChangeBound ==
    /\ pc = "Outbound" => changeAge <= TickMax + FastPoll + late + TickMax - left
    /\ pc \in {"Inbound", "End"} => changeAge <= TickMax - left
    /\ pc \in {"Clear", "Done", "Enter", "Exit"} => changeAge <= TickMax
    /\ pc = "Wait" => changeAge <= TickMax + FastPoll - left
    /\ pc \in {"Leave", "Check"} => changeAge <= TickMax + FastPoll + late
    /\ pc = "Backoff" => changeAge <= TickMax + FastPoll + late - left

\* What waits was missed by the last tick that succeeded, or came after it.
SinceLastTick ==
    /\ 0 <= age + skew
    /\ pc = "Backoff" => left <= late   \* the failure has been counted
    /\ newsAge <= TickMax + age + skew

\* The longest that something may wait when the loop begins a wait.
Slack == TickMax + Cadence + skew

NewsBound ==
    /\ pc \in {"Outbound", "Inbound"} =>
          newsAge <= Slack + FastPoll + late + TickMax - left
    /\ pc = "End" => newsAge <= TickMax - left
    /\ pc = "Clear" => newsAge <= TickMax
    /\ pc \in {"Done", "Enter", "Exit"} => newsAge <= Slack
    /\ pc = "Wait" => newsAge <= Slack + FastPoll - left
    /\ pc \in {"Leave", "Check"} => newsAge <= Slack + FastPoll + late
    /\ pc = "Backoff" => newsAge <= Slack + FastPoll + late - left

\* A nudge that waits has set the flag or is about to, so that no wait is begun
\* or goes on: only a tick and the sleep after it pass over one.
NudgeBound ==
    /\ nudgeAge # Nothing => nudge \/ handler # "idle"
    /\ Ticking => nudgeAge <= TickMax - left
    /\ pc = "Clear" => nudgeAge <= TickMax
    /\ pc \in {"Done", "Enter", "Exit", "Wait", "Leave"} => nudgeAge <= 0
    /\ pc = "Check" => nudgeAge <= TickMax + Backoff
    /\ pc = "Backoff" => nudgeAge <= TickMax + Backoff - left

Inv ==
    /\ TypeOK /\ OncePhase
    /\ ChangeBound /\ SinceLastTick /\ NewsBound /\ NudgeBound

LEMMA InitInv == Init => Inv
<1> SUFFICES ASSUME Init PROVE Inv
    OBVIOUS
<1> USE TimesAreNat DEF Init, Nothing
<1>1. TypeOK
    <2>1. synced \in BOOLEAN /\ nudge \in BOOLEAN /\ once \in BOOLEAN
        OBVIOUS
    <2> QED
        BY <2>1 DEF TypeOK, Ages, Labels, Ticking
<1>2. OncePhase
    BY DEF OncePhase
<1>3. ChangeBound /\ SinceLastTick
    BY DEF ChangeBound, SinceLastTick
<1>4. NewsBound /\ NudgeBound
    BY DEF NewsBound, NudgeBound, Slack, Ticking
<1> QED
    BY <1>1, <1>2, <1>3, <1>4 DEF Inv

LEMMA TypeStep == Inv /\ [Next]_vars => TypeOK'
<1> SUFFICES ASSUME Inv, [Next]_vars PROVE TypeOK'
    OBVIOUS
<1> USE TimesAreNat DEF TypeOK, Ages, Nothing, Labels, Ticking, At, Goto,
        loopVars, waiting
<1>0. TypeOK
    BY DEF Inv
<1>1. CASE StartTick       BY <1>0, <1>1 DEF StartTick
<1>2. CASE NothingDue      BY <1>0, <1>2 DEF NothingDue
<1>3. CASE Stage \/ Fetch  BY <1>0, <1>3 DEF Stage, Fetch
<1>4. CASE TickEnds        BY <1>0, <1>4 DEF TickEnds
<1>5. CASE TickFails       BY <1>0, <1>5 DEF TickFails, AfterFailure
<1>6. CASE ClearNudge      BY <1>0, <1>6 DEF ClearNudge
<1>7. CASE LeaveLoop       BY <1>0, <1>7 DEF LeaveLoop
<1>8. CASE BeginWait       BY <1>0, <1>8 DEF BeginWait, Poll
<1>9. CASE EndWait \/ Return \/ EndBackoff
    BY <1>0, <1>9 DEF EndWait, Return, EndBackoff
<1>10. CASE Signal \/ SetNudge \/ Change \/ News
    <2>1. CASE Signal      BY <1>0, <2>1 DEF Signal, Sooner
    <2>2. CASE SetNudge    BY <1>0, <2>2 DEF SetNudge
    <2>3. CASE Change      BY <1>0, <2>3 DEF Change
    <2>4. CASE News        BY <1>0, <2>4 DEF News
    <2> QED                BY <1>10, <2>1, <2>2, <2>3, <2>4
<1>11. CASE Elapse         BY <1>0, <1>11 DEF Elapse, Older
<1>12. CASE SetClock       BY <1>0, <1>12 DEF SetClock
<1>13. CASE UNCHANGED vars BY <1>0, <1>13 DEF vars
<1> QED
    BY <1>1, <1>2, <1>3, <1>4, <1>5, <1>6, <1>7, <1>8, <1>9, <1>10, <1>11,
       <1>12, <1>13 DEF Next, Loop

LEMMA OnceStep == Inv /\ [Next]_vars => OncePhase'
<1> SUFFICES ASSUME Inv, [Next]_vars PROVE OncePhase'
    OBVIOUS
<1> USE DEF OncePhase, TypeOK, Ticking, At, Goto, loopVars, waiting
<1>0. TypeOK /\ OncePhase
    BY DEF Inv
<1>1. CASE StartTick \/ NothingDue
    BY <1>0, <1>1 DEF StartTick, NothingDue, Due
<1>2. CASE Stage \/ Fetch \/ TickEnds \/ ClearNudge
    BY <1>0, <1>2 DEF Stage, Fetch, TickEnds, ClearNudge
<1>3. CASE TickFails       BY <1>0, <1>3 DEF TickFails, AfterFailure
<1>4. CASE LeaveLoop \/ BeginWait \/ EndWait \/ Return \/ EndBackoff
    BY <1>0, <1>4 DEF LeaveLoop, BeginWait, EndWait, Return, EndBackoff
<1>5. CASE Signal \/ SetNudge \/ Change \/ News \/ Elapse \/ SetClock
    BY <1>0, <1>5 DEF Signal, SetNudge, Change, News, Elapse, SetClock
<1>6. CASE UNCHANGED vars  BY <1>0, <1>6 DEF vars
<1> QED
    BY <1>1, <1>2, <1>3, <1>4, <1>5, <1>6 DEF Next, Loop

LEMMA ChangeStep == Inv /\ [Next]_vars => ChangeBound'
<1> SUFFICES ASSUME Inv, [Next]_vars PROVE ChangeBound'
    OBVIOUS
<1> USE TimesAreNat DEF ChangeBound, SinceLastTick, TypeOK, Ages, Nothing, Labels, Ticking, At,
        Goto, loopVars, waiting
<1>0. TypeOK /\ SinceLastTick /\ ChangeBound
    BY DEF Inv
<1>1. CASE StartTick       BY <1>0, <1>1 DEF StartTick
<1>2. CASE NothingDue      BY <1>0, <1>2 DEF NothingDue, Due
<1>3. CASE Stage \/ Fetch  BY <1>0, <1>3 DEF Stage, Fetch
<1>4. CASE TickEnds        BY <1>0, <1>4 DEF TickEnds
<1>5. CASE TickFails       BY <1>0, <1>5 DEF TickFails, AfterFailure
<1>6. CASE ClearNudge      BY <1>0, <1>6 DEF ClearNudge
<1>7. CASE LeaveLoop       BY <1>0, <1>7 DEF LeaveLoop
<1>8. CASE BeginWait       BY <1>0, <1>8 DEF BeginWait, Poll
<1>9. CASE EndWait \/ Return \/ EndBackoff
    BY <1>0, <1>9 DEF EndWait, Return, EndBackoff
<1>10. CASE Signal \/ SetNudge \/ Change \/ News
    <2>1. CASE Signal      BY <1>0, <2>1 DEF Signal
    <2>2. CASE SetNudge    BY <1>0, <2>2 DEF SetNudge
    <2>3. CASE Change
        <3>1. changeAge' = 0 /\ UNCHANGED <<pc, left, age, late, skew, newsAge, nudgeAge>>
            BY <2>3 DEF Change
        <3> QED            BY <1>0, <3>1
    <2>4. CASE News
        <3>1. newsAge' = 0 /\ UNCHANGED <<pc, left, age, late, skew, changeAge, nudgeAge>>
            BY <2>4 DEF News
        <3> QED            BY <1>0, <3>1
    <2> QED                BY <1>10, <2>1, <2>2, <2>3, <2>4
<1>11. CASE Elapse         BY <1>0, <1>11 DEF Elapse, Older, Sleeping
<1>12. CASE SetClock       BY <1>0, <1>12 DEF SetClock
<1>13. CASE UNCHANGED vars BY <1>0, <1>13 DEF vars
<1> QED
    BY <1>1, <1>2, <1>3, <1>4, <1>5, <1>6, <1>7, <1>8, <1>9, <1>10, <1>11,
       <1>12, <1>13 DEF Next, Loop

LEMMA SinceStep == Inv /\ [Next]_vars => SinceLastTick'
<1> SUFFICES ASSUME Inv, [Next]_vars PROVE SinceLastTick'
    OBVIOUS
<1> USE TimesAreNat DEF SinceLastTick, NewsBound, TypeOK, Ages, Nothing,
        Labels, Ticking, At, Goto, loopVars, waiting
<1>0. TypeOK /\ SinceLastTick /\ NewsBound
    BY DEF Inv
<1>1. CASE StartTick       BY <1>0, <1>1 DEF StartTick
<1>2. CASE NothingDue      BY <1>0, <1>2 DEF NothingDue, Due
<1>3. CASE Stage \/ Fetch  BY <1>0, <1>3 DEF Stage, Fetch
<1>4. CASE TickEnds        BY <1>0, <1>4 DEF TickEnds
<1>5. CASE TickFails       BY <1>0, <1>5 DEF TickFails, AfterFailure
<1>6. CASE ClearNudge      BY <1>0, <1>6 DEF ClearNudge
<1>7. CASE LeaveLoop       BY <1>0, <1>7 DEF LeaveLoop
<1>8. CASE BeginWait       BY <1>0, <1>8 DEF BeginWait, Poll
<1>9. CASE EndWait \/ Return \/ EndBackoff
    BY <1>0, <1>9 DEF EndWait, Return, EndBackoff
<1>10. CASE Signal \/ SetNudge \/ Change \/ News
    <2>1. CASE Signal      BY <1>0, <2>1 DEF Signal, Sooner
    <2>2. CASE SetNudge    BY <1>0, <2>2 DEF SetNudge
    <2>3. CASE Change
        <3>1. changeAge' = 0 /\ UNCHANGED <<pc, left, age, late, skew, newsAge, nudgeAge>>
            BY <2>3 DEF Change
        <3> QED            BY <1>0, <3>1
    <2>4. CASE News
        <3>1. newsAge' = 0 /\ UNCHANGED <<pc, left, age, late, skew, changeAge, nudgeAge>>
            BY <2>4 DEF News
        <3> QED            BY <1>0, <3>1
    <2> QED                BY <1>10, <2>1, <2>2, <2>3, <2>4
<1>11. CASE Elapse         BY <1>0, <1>11 DEF Elapse, Older, Sleeping
<1>12. CASE SetClock       BY <1>0, <1>12 DEF SetClock
<1>13. CASE UNCHANGED vars BY <1>0, <1>13 DEF vars
<1> QED
    BY <1>1, <1>2, <1>3, <1>4, <1>5, <1>6, <1>7, <1>8, <1>9, <1>10, <1>11,
       <1>12, <1>13 DEF Next, Loop

LEMMA NewsStep == Inv /\ [Next]_vars => NewsBound'
<1> SUFFICES ASSUME Inv, [Next]_vars PROVE NewsBound'
    OBVIOUS
<1> USE TimesAreNat DEF SinceLastTick, NewsBound, Slack, TypeOK, Ages, Nothing,
        Labels, Ticking, At, Goto, loopVars, waiting
<1>0. TypeOK /\ SinceLastTick /\ NewsBound
    BY DEF Inv
<1>1. CASE StartTick       BY <1>0, <1>1 DEF StartTick
<1>2. CASE NothingDue      BY <1>0, <1>2 DEF NothingDue, Due
<1>3. CASE Stage \/ Fetch  BY <1>0, <1>3 DEF Stage, Fetch
<1>4. CASE TickEnds        BY <1>0, <1>4 DEF TickEnds
<1>5. CASE TickFails       BY <1>0, <1>5 DEF TickFails, AfterFailure
<1>6. CASE ClearNudge      BY <1>0, <1>6 DEF ClearNudge
<1>7. CASE LeaveLoop       BY <1>0, <1>7 DEF LeaveLoop
<1>8. CASE BeginWait       BY <1>0, <1>8 DEF BeginWait, Poll
<1>9. CASE EndWait \/ Return \/ EndBackoff
    BY <1>0, <1>9 DEF EndWait, Return, EndBackoff
<1>10. CASE Signal \/ SetNudge \/ Change \/ News
    <2>1. CASE Signal      BY <1>0, <2>1 DEF Signal, Sooner
    <2>2. CASE SetNudge    BY <1>0, <2>2 DEF SetNudge
    <2>3. CASE Change
        <3>1. changeAge' = 0 /\ UNCHANGED <<pc, left, age, late, skew, newsAge, nudgeAge>>
            BY <2>3 DEF Change
        <3> QED            BY <1>0, <3>1
    <2>4. CASE News
        <3>1. newsAge' = 0 /\ UNCHANGED <<pc, left, age, late, skew, changeAge, nudgeAge>>
            BY <2>4 DEF News
        <3> QED            BY <1>0, <3>1
    <2> QED                BY <1>10, <2>1, <2>2, <2>3, <2>4
<1>11. CASE Elapse         BY <1>0, <1>11 DEF Elapse, Older, Sleeping
<1>12. CASE SetClock       BY <1>0, <1>12 DEF SetClock
<1>13. CASE UNCHANGED vars BY <1>0, <1>13 DEF vars
<1> QED
    BY <1>1, <1>2, <1>3, <1>4, <1>5, <1>6, <1>7, <1>8, <1>9, <1>10, <1>11,
       <1>12, <1>13 DEF Next, Loop

LEMMA NudgeStep == Inv /\ [Next]_vars => NudgeBound'
<1> SUFFICES ASSUME Inv, [Next]_vars PROVE NudgeBound'
    OBVIOUS
<1> USE TimesAreNat DEF NudgeBound, TypeOK, Ages, Nothing,
        Labels, Ticking, At, Goto, loopVars, waiting
<1>0. TypeOK /\ NudgeBound
    BY DEF Inv
<1>1. CASE StartTick       BY <1>0, <1>1 DEF StartTick
<1>2. CASE NothingDue      BY <1>0, <1>2 DEF NothingDue, Due
<1>3. CASE Stage \/ Fetch  BY <1>0, <1>3 DEF Stage, Fetch
<1>4. CASE TickEnds        BY <1>0, <1>4 DEF TickEnds
<1>5. CASE TickFails       BY <1>0, <1>5 DEF TickFails, AfterFailure
<1>6. CASE ClearNudge      BY <1>0, <1>6 DEF ClearNudge
<1>7. CASE LeaveLoop       BY <1>0, <1>7 DEF LeaveLoop
<1>8. CASE BeginWait       BY <1>0, <1>8 DEF BeginWait, Poll
<1>9. CASE EndWait \/ Return \/ EndBackoff
    BY <1>0, <1>9 DEF EndWait, Return, EndBackoff
<1>10. CASE Signal \/ SetNudge \/ Change \/ News
    <2>1. CASE Signal      BY <1>0, <2>1 DEF Signal, Sooner
    <2>2. CASE SetNudge    BY <1>0, <2>2 DEF SetNudge
    <2>3. CASE Change
        <3>1. UNCHANGED <<pc, left, nudge, handler, nudgeAge>>
            BY <2>3 DEF Change
        <3> QED            BY <1>0, <3>1
    <2>4. CASE News
        <3>1. UNCHANGED <<pc, left, nudge, handler, nudgeAge>>
            BY <2>4 DEF News
        <3> QED            BY <1>0, <3>1
    <2> QED                BY <1>10, <2>1, <2>2, <2>3, <2>4
<1>11. CASE Elapse         BY <1>0, <1>11 DEF Elapse, Older, Sleeping
<1>12. CASE SetClock       BY <1>0, <1>12 DEF SetClock
<1>13. CASE UNCHANGED vars BY <1>0, <1>13 DEF vars
<1> QED
    BY <1>1, <1>2, <1>3, <1>4, <1>5, <1>6, <1>7, <1>8, <1>9, <1>10, <1>11,
       <1>12, <1>13 DEF Next, Loop

LEMMA BoundsImplied ==
    Inv => ChangeIsStaged /\ NewsIsFetched /\ NudgeIsFollowed /\ OnceMeansSynced
<1> SUFFICES ASSUME Inv
             PROVE  ChangeIsStaged /\ NewsIsFetched /\ NudgeIsFollowed /\ OnceMeansSynced
    OBVIOUS
<1> USE TimesAreNat DEF TypeOK, Ages, Nothing, Labels, Ticking
<1>0. TypeOK /\ OncePhase /\ ChangeBound /\ NewsBound /\ NudgeBound
    BY DEF Inv
<1>1. ChangeIsStaged
    BY <1>0 DEF ChangeBound, ChangeIsStaged
<1>2. NewsIsFetched
    BY <1>0 DEF NewsBound, Slack, NewsIsFetched
<1>3. NudgeIsFollowed
    BY <1>0 DEF NudgeBound, NudgeIsFollowed
<1>4. OnceMeansSynced
    <2> SUFFICES ASSUME pc = "Exit" PROVE once /\ synced /\ late = 0
        BY DEF OnceMeansSynced
    <2> QED
        BY <1>0 DEF OncePhase
<1> QED
    BY <1>1, <1>2, <1>3, <1>4

LEMMA InvAlways == Spec => []Inv
<1>1. Inv /\ [Next]_vars => Inv'
    BY TypeStep, OnceStep, ChangeStep, SinceStep, NewsStep, NudgeStep DEF Inv
<1> QED
    BY InitInv, <1>1, PTL DEF Spec

-----------------------------------------------------------------------------
\* The variables of the loop keep their types; a wait is never longer than
\* fast_poll, whatever the cadence (wire-daemon.py:279).
THEOREM LoopTypeCorrect == Spec => []TypeOK
<1>1. Inv => TypeOK
    BY DEF Inv
<1> QED
    BY InvAlways, <1>1, PTL

\* A local change is staged in a time that neither the cadence nor the wall
\* clock enters into (wire-daemon.py:251-264).
THEOREM ChangesAreStagedInTime == Spec => []ChangeIsStaged
BY InvAlways, BoundsImplied, PTL

\* A peer's push is fetched within the cadence and what one wait, two ticks,
\* the failures and a clock set back add to it.
THEOREM NewsIsFetchedInTime == Spec => []NewsIsFetched
BY InvAlways, BoundsImplied, PTL

\* A nudge that is not erased (wire-daemon.py:269) waits for a tick no longer
\* than one that fails and the sleep after it take (wire-daemon.py:258-280).
THEOREM NudgesAreFollowed == Spec => []NudgeIsFollowed
BY InvAlways, BoundsImplied, PTL

\* --once stops after a successful tick only (wire-daemon.py:270-277).
THEOREM OnceStopsSynced == Spec => []OnceMeansSynced
BY InvAlways, BoundsImplied, PTL
=============================================================================
