----------------------------- MODULE DaemonLoop -----------------------------
(***************************************************************************)
(* When the sync daemon ticks: the main loop of                            *)
(* examples/git-as-wire/wire-daemon.py, its SIGUSR1 handler, and time.     *)
(*                                                                         *)
(* What a tick does to the files is module WireDaemon; here it takes up to *)
(* TickMax units of time, stages the local change at one instant and       *)
(* fetches the peers' news at a later one.  The steps between two waits    *)
(* take no time.                                                           *)
(*                                                                         *)
(* The handler runs on the thread of the loop, between two of its          *)
(* instructions, and threading.Event guards its flag with a lock that is   *)
(* not reentrant: set, clear and wait each hold it.                        *)
(***************************************************************************)
EXTENDS Integers

CONSTANTS
    FastPoll,    \* fast_poll: the longest wait between two checks
    Cadence,     \* cadence: the longest time between two remote ticks
    Backoff,     \* the sleep after a tick that failed
    TickMax,     \* bound: how long a tick may take
    MaxLate,     \* bound: what failures in a row may cost
    MaxSkew      \* bound: how far the wall clock is set back at once

ASSUME TimesAreNat ==
    /\ FastPoll \in Nat /\ Cadence \in Nat /\ Backoff \in Nat
    /\ TickMax \in Nat /\ MaxLate \in Nat /\ MaxSkew \in Nat

VARIABLES
    once,        \* --once
    pc,          \* where the loop is
    left,        \* how much longer the tick may take, or the sleep takes
    nudge,       \* the flag of _nudge
    handler,     \* _on_usr1
    synced,      \* has a tick succeeded (last_remote_tick # 0.0)?
    age,         \* now - last_remote_tick, by the wall clock
    late,        \* time that ticks failed since the last success may have cost
    skew,        \* how far the clock was set back since then
    changeAge,   \* since when a local change waits to be staged
    newsAge,     \* since when a peer's push waits to be fetched
    nudgeAge     \* since when a SIGUSR1 that was not erased waits for a tick

loopVars == <<pc, left, synced, age, late, skew>>
waiting  == <<changeAge, newsAge, nudgeAge>>
vars     == <<once, loopVars, nudge, handler, waiting>>

Nothing == -1   \* the age of what is not waiting
Ages == Nat \cup {Nothing}

Ticking  == pc \in {"Outbound", "Inbound", "End"}
Sleeping == pc \in {"Wait", "Backoff"}
Holds    == pc \in {"Clear", "Enter", "Leave"}   \* the loop has _nudge's lock
Labels   == {"Check", "Outbound", "Inbound", "End", "Clear", "Done", "Enter",
             "Wait", "Leave", "Backoff", "Exit"}

TypeOK ==
    /\ once \in BOOLEAN /\ pc \in Labels
    /\ left \in Nat
    /\ Ticking => left <= TickMax
    /\ pc = "Wait" => left <= FastPoll
    /\ pc = "Backoff" => left <= Backoff
    /\ nudge \in BOOLEAN /\ handler \in {"idle", "set", "blocked"}
    /\ synced \in BOOLEAN
    /\ age \in Int
    /\ late \in Nat /\ skew \in 0..MaxSkew
    /\ changeAge \in Ages /\ newsAge \in Ages /\ nudgeAge \in Ages

Init ==
    /\ once \in BOOLEAN
    /\ pc = "Check" /\ left = 0
    /\ nudge = FALSE /\ handler = "idle"
    /\ synced = FALSE /\ age = 0 /\ late = 0 /\ skew = 0
    /\ changeAge = Nothing /\ newsAge = Nothing /\ nudgeAge = Nothing

-----------------------------------------------------------------------------
(* The loop.  It stands still while the handler runs. *)

At(label)   == pc = label /\ handler = "idle"
Goto(label) == pc' = label

DueWithoutChange == nudge \/ ~synced \/ age >= Cadence   \* mutant
DueWithoutCadence == changeAge # Nothing \/ nudge \/ ~synced   \* mutant
\* should_tick: the outbound file is dirty, a nudge, or the cadence.
Due == changeAge # Nothing \/ nudge \/ ~synced \/ age >= Cadence

StartTick ==
    /\ At("Check") /\ Due
    /\ Goto("Outbound") /\ left' = TickMax
    /\ nudgeAge' = Nothing
    /\ UNCHANGED <<once, nudge, handler, synced, age, late, skew, changeAge, newsAge>>

NothingDue ==
    /\ At("Check") /\ ~Due
    /\ Goto("Done")
    /\ UNCHANGED <<once, left, nudge, handler, synced, age, late, skew, waiting>>

Stage ==
    /\ At("Outbound")
    /\ Goto("Inbound") /\ changeAge' = Nothing
    /\ UNCHANGED <<once, left, nudge, handler, synced, age, late, skew, newsAge, nudgeAge>>

Fetch ==
    /\ At("Inbound")
    /\ Goto("End") /\ newsAge' = Nothing
    /\ UNCHANGED <<once, left, nudge, handler, synced, age, late, skew, changeAge, nudgeAge>>

TickEnds ==
    /\ At("End")
    /\ Goto("Clear")
    /\ synced' = TRUE /\ age' = 0 /\ late' = 0 /\ skew' = 0
    /\ UNCHANGED <<once, left, nudge, handler, waiting>>

FallsThrough == "Done"   \* mutant: no "continue" after a failure
AfterFailure == "Backoff"
TickFailsAndClears ==   \* mutant: the nudge is cleared after a failure, too
    /\ Ticking /\ handler = "idle"
    /\ late < MaxLate
    /\ late' = late + TickMax + Backoff
    /\ Goto(AfterFailure) /\ left' = Backoff /\ nudge' = FALSE
    /\ UNCHANGED <<once, handler, synced, age, skew, waiting>>

\* Any command of the tick raises.
TickFails ==
    /\ Ticking /\ handler = "idle"
    /\ late < MaxLate
    /\ late' = late + TickMax + Backoff
    /\ Goto(AfterFailure) /\ left' = Backoff
    /\ UNCHANGED <<once, nudge, handler, synced, age, skew, waiting>>

\* _nudge.clear() erases what came in since the tick began, too: such a nudge is
\* lost, and the push it told of waits like any other (newsAge).
ClearNudge ==
    /\ At("Clear")
    /\ nudge' = FALSE /\ nudgeAge' = Nothing
    /\ Goto("Done")
    /\ UNCHANGED <<once, left, handler, synced, age, late, skew, changeAge, newsAge>>

LeaveLoop ==
    /\ At("Done")
    /\ Goto(IF once THEN "Exit" ELSE "Enter")
    /\ UNCHANGED <<once, left, nudge, handler, synced, age, late, skew, waiting>>

PollAtCadence == Cadence   \* mutant: the wait lasts until the next remote tick
Poll == FastPoll
\* _nudge.wait(timeout) takes the lock, looks at the flag, ...
BeginWait ==
    /\ At("Enter")
    /\ IF nudge THEN Goto("Check") /\ UNCHANGED left
                ELSE Goto("Wait") /\ left' = Poll
    /\ UNCHANGED <<once, nudge, handler, synced, age, late, skew, waiting>>

\* ... gives it back until the timeout or a nudge, and takes it again.
EndWait ==
    /\ At("Wait") /\ (nudge \/ left = 0)
    /\ Goto("Leave")
    /\ UNCHANGED <<once, left, nudge, handler, synced, age, late, skew, waiting>>

Return ==
    /\ At("Leave")
    /\ Goto("Check")
    /\ UNCHANGED <<once, left, nudge, handler, synced, age, late, skew, waiting>>

\* time.sleep(5) goes on after a signal.
EndBackoff ==
    /\ At("Backoff") /\ left = 0
    /\ Goto("Check")
    /\ UNCHANGED <<once, left, nudge, handler, synced, age, late, skew, waiting>>

-----------------------------------------------------------------------------
(* Signals, changes and time. *)

Sooner(a) == IF a = Nothing THEN 0 ELSE a

\* kill -USR1: the handler calls _nudge.set().  If the lock is taken, by the
\* code the handler has interrupted, both are stopped for good.
Signal ==
    /\ pc # "Exit" /\ handler # "blocked"
    /\ handler' = IF Holds \/ handler = "set" THEN "blocked" ELSE "set"
    /\ nudgeAge' = Sooner(nudgeAge)
    /\ UNCHANGED <<once, loopVars, nudge, changeAge, newsAge>>

SetNudge ==
    /\ handler = "set"
    /\ nudge' = TRUE /\ handler' = "idle"
    /\ UNCHANGED <<once, loopVars, waiting>>

\* A line is appended to the outbound file.
Change ==
    /\ changeAge = Nothing /\ changeAge' = 0
    /\ UNCHANGED <<once, loopVars, nudge, handler, newsAge, nudgeAge>>

\* A peer pushes.
News ==
    /\ newsAge = Nothing /\ newsAge' = 0
    /\ UNCHANGED <<once, loopVars, nudge, handler, changeAge, nudgeAge>>

Older(a) == IF a = Nothing THEN a ELSE a + 1

Elapse ==
    /\ Ticking \/ Sleeping
    /\ handler = "idle"
    /\ left > 0 /\ left' = left - 1
    /\ ~(pc = "Wait" /\ nudge)
    /\ age' = age + 1
    /\ changeAge' = Older(changeAge)
    /\ newsAge' = Older(newsAge)
    /\ nudgeAge' = Older(nudgeAge)
    /\ UNCHANGED <<once, pc, nudge, handler, synced, late, skew>>

\* time.time() is not monotonic.
SetClock ==
    /\ synced
    /\ \/ age < Cadence /\ age' = Cadence /\ UNCHANGED skew
       \/ skew = 0 /\ \E s \in 1..MaxSkew : age' = age - s /\ skew' = s
    /\ UNCHANGED <<once, pc, left, nudge, handler, synced, late, waiting>>

-----------------------------------------------------------------------------
Loop ==
    \/ StartTick \/ NothingDue
    \/ Stage \/ Fetch \/ TickEnds \/ TickFails \/ ClearNudge
    \/ LeaveLoop \/ BeginWait \/ EndWait \/ Return \/ EndBackoff

Next == Loop \/ Signal \/ SetNudge \/ Change \/ News \/ Elapse \/ SetClock

Spec == Init /\ [][Next]_vars
-----------------------------------------------------------------------------
\* A line appended at any moment of the loop is staged after at most the rest
\* of the tick that missed it, one wait and the next tick, plus what the ticks
\* that failed meanwhile cost; neither the cadence nor the clock delays it.
ChangeIsStaged == changeAge <= TickMax + FastPoll + TickMax + late

\* A peer's push is fetched after at most the rest of the tick that missed it,
\* the cadence, one wait and the next tick, plus what failures and a clock set
\* back cost.  Ticks started for local changes do not put it off.
NewsIsFetched ==
    newsAge <= TickMax + Cadence + FastPoll + TickMax + late + skew

\* A SIGUSR1 is followed by the next tick that is tried, without a wait: at
\* once, or after the failure and the sleep it came in.  The one that comes in
\* a tick that succeeds is erased instead (ClearNudge), contrary to the
\* "immediate tick" of the comment beside the handler.
NudgeIsFollowed == nudgeAge <= TickMax + Backoff

\* --once stops only after a tick that succeeded ("clean shutdown (--once mode
\* after one successful tick)"), with nothing left to make up for.
OnceMeansSynced == pc = "Exit" => once /\ synced /\ late = 0

-----------------------------------------------------------------------------
\* "any external kill -USR1 <pid> triggers an immediate tick": no SIGUSR1
\* stops the loop that it is meant to wake.
NudgeNeverStopsLoop == handler # "blocked"
=============================================================================
