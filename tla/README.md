# Verification of inter-agent-deaddrop

TLA+ specifications of the code of this repository, checked with TLC on small
instances and, where it pays, proved with TLAPS for every value of the
constants. Paths are relative to the repository (`src/` in `PROJECT.json`).

## The system

Two agents (in general several) coordinate through append-only JSONL files.
Every agent writes one *outbound* file and reads the *inbound* file of its
peer. The files live in a git repository that every agent clones; a daemon
beside each clone commits, pushes, fetches and rebases. Around this wire stand
helpers that agents and operators call: an append helper, a replay filter, a
trust store with tiers, signatures, agent cards, commit hooks and an installer.

| Component | Code | State it keeps | Operations | Talks to |
|---|---|---|---|---|
| wire daemon | `examples/git-as-wire/wire-daemon.py` | the two line counters of `.wire-state.json`, in memory and on disk; the nudge flag; its position in the tick | `main`, `tick`, `stage_and_commit`, `push_with_retry`, `fetch_with_rebase`, `parse_last_msg`, `read_json`, `write_json` | git (subprocesses), the agent (through the outbound file and SIGUSR1), the peer (through the remote) |
| git and the remote (external) | as used by the daemon | working tree, HEAD, `origin/<branch>`, the branch of the remote | status, add, commit, push, fetch, rebase, rebase --abort | - |
| JSONL append | `examples/safe_append_jsonl.py` | the file and its lock | `safe_append_jsonl`, `read_last_n` | readers, and git, which takes no lock |
| idempotency cache | `examples/idempotency.py` | ids in memory, ids on disk | `_load`, `mark_seen`, `filter_new` | the reader of the inbound file |
| tiered trust | `v3.1/wire_trust.py` | `trust.json`: tier, SAS flag, reciprocations, keys | `upgrade_trust_to_v31`, `add_agent_card_pin`, `verify_sas`, `record_reciprocation`, `promote_to_trusted`, load and save | signing, agent cards, installer |
| signing | `v3/signing.py`, `v3.1/signing.py` | keys, active or not | sign, verify, rotate, canonical form | trust store |
| agent card | `v3.1/agent_card.py` | - | build, sign, verify, pin | trust store |
| commit hooks | `v3/verify.py`, `examples/jsonl_schema.py` | - (read the index and the working file) | check the staged change | `git commit` of the daemon |
| key generation, installer | `v3/keygen.py`, `install.sh` | key files, the clone, config, trust | init, join | git, trust store, daemon |
| not code | `tiers.json`, `PROTOCOL.md`, `v4/N-AGENT.md` | - | heartbeat tiers, proposals, N agents: prose and a table | - |

What is hard about it: an agent appends while its daemon runs git; two daemons
push to one branch; the daemon dies at any point of a tick, also between
truncating and writing its state file; the network goes away, also after a push
was accepted and before its answer; a tick that raises leaves its in-memory
state changed. `PROJECT.json` lists these places under `hazards`, one by one.

What makes each component correct:

* **wire daemon**: nothing written is lost, everything written is eventually
  committed and published, everything published is eventually reported, in
  order and without a gap, up to the first message that cannot be reported; no
  push undoes a peer's; no counter runs ahead.
* **main loop**: a change, a peer's push and a nudge that is not erased are
  followed by a tick within a bounded time, whatever the clock does and whenever
  ticks fail.
* **append**: the bytes of two calls never mix; a fault costs at most the record
  it hit and the next one; nobody waits for ever.
* **idempotency cache**: a message is accepted at most once across restarts,
  and a message that is not a replay is accepted.
* **trust**: what is accepted was earned; a tier, a check, a key or a revocation
  is not undone by a save from an up-to-date copy.
* **signing**: what verifies was signed by an active key over the same content,
  in the version whose verifier is asked.
* **hooks**: no accepted commit takes out, changes or reorders a line, every
  committed line was verified, and a race blocks the file only by the commit of
  an unfinished line.

## Modules

| Module | What it is |
|---|---|
| `DeadDrop` | the abstract promise: per agent, messages sent, published and delivered; `Deliver` extends a gapless prefix |
| `WireDaemon` | the daemons, the agents, the clones, the remote, crashes and the network; safety, liveness and refinement properties |
| `MCWireDaemon` | two agents that read each other's file, and the quotas used by the runs |
| `WireDaemonProofs` | lemmas, inductive invariants and theorems about `WireDaemon` |
| `IdempotencyCache` | the replay filter, its file, its caller, crashes, failed appends and days |
| `MCIdempotencyCache` | three messages, two correlation ids |
| `IdempotencyCacheProofs` | the inductive invariant and theorems about `IdempotencyCache` |
| `DaemonLoop` | the main loop in time: when it ticks, the SIGUSR1 handler, failing ticks, `--once`, the clock |
| `MCDaemonLoop` | how many failures in a row a run allows |
| `DaemonLoopProofs` | the timed invariants and theorems about `DaemonLoop` |
| `AppendLog` | the abstract promise of `safe_append_jsonl`: a log to which a call adds its record once, at the end, while it runs |
| `JsonlAppend` | the writers of one file under flock, and `read_last_n`; its runs instantiate it directly |
| `JsonlAppendProofs` | theorems about `JsonlAppend` |
| `TrustStore` | `trust.json` and the processes that load, change and save it |
| `MCTrustStore` | symmetry |
| `TrustStoreProofs` | theorems about `TrustStore` |
| `Signing` | the pure functions of both signing modules, over ideal cryptography |
| `SigningProofs` | theorems about what the verifiers of `Signing` accept |
| `SignedCommits` | extends `Signing`: signed appends, `git add`, both hooks, the commit, the operator |
| `MCSignedCommits` | the message shapes of the runs |
| `SignedCommitsProofs` | theorems about `SignedCommits` |

The modules meet where the code does. `DaemonLoop` says when a tick starts,
`WireDaemon` what it does; in each the other is the weakest environment: ticks of
any length up to a bound, or ticks that may begin at any time. `JsonlAppend`
shows what an append is as other processes see it, which `WireDaemon` and
`SignedCommits` use as one step or two halves. `SignedCommits` takes apart the
`git commit` that `WireDaemon` treats as one step that succeeds or fails.

### How `WireDaemon` corresponds to the code

Files are append-only and have one writer, so a version of a file is its
*length*, a commit is the vector of the lengths of all outbound files, and two
commits are on one line of history exactly if their vectors are ordered: each
commit lengthens one file. `clone[a]` is HEAD, `track[a]` is `origin/branch`,
`remote` the branch of the remote, `work[a]` the outbound file in the working
tree. Lengths count *half lines*, because `git add` takes no lock and can see
an append half written: `Lines` is `count_lines`, which counts a torn last line,
`Whole` is the number of lines `parse_last_msg` can parse.

| Code | Action |
|---|---|
| `safe_append_jsonl` by the agent | `Append`; `AppendHalf` twice when it is seen half written; `WriteShared` for the tracked files no daemon stages |
| `main` 252-266 and `tick` 176-182 | `BeginOutbound`, `BeginInbound` |
| `stage_and_commit` | `StageAndCommit`, `CommitFails` (a hook or gpg refuses) |
| `push_with_retry` | `PushAccepted`, `PushAckLost`, `PushRejected`, `FetchForPush`, `FetchFails`, then the rebase, then `AfterRebase`: next attempt, or the exception after the third |
| `fetch_with_rebase` | `FetchInbound`, `FetchFails`, then the rebase |
| `git rebase` | `RebaseRefused` (unclean tree), `RebaseForwards` (nothing to replay), `ReplayBegins` / `ReplayEnds` / `ReplayAborts` |
| `tick` 195-204 | `ReadNew`, `ReadRaises`, `ReadNothing`; `ReadFails` when decoding a torn file raises |
| `write_json` | `SaveBegins` (truncated), `SaveEnds` |
| `except Exception` in `main` | `Raise`: back to the loop, in-memory counters kept |
| process death, systemd | `Crash`, `Restart` with what `read_json` makes of the file |

A tick is cut where someone else can act. `git status` and the counting that
follows are one step (only the daemon can make the file clean), `git add` and
`git commit` are one step (a commit holds what was added; a commit that fails
leaves the file as dirty as it was). The rebase with local commits is two steps,
because git writes the outbound file back to the upstream version in between;
that git behaves like this, and that `rebase --abort` then resets the tree, was
confirmed with git 2.39.

`Odd` names the lines that parse and that `tick` cannot report: no object, or a
`subject` of `null`, which `jsonl_schema.py` lets pass because it checks that the
field is present. Line 200 then raises after the messages before it are logged
and before the cursor moves. The next tick does the same: the earlier messages are
reported again every time, and neither this line nor a later one is delivered,
ever. `ReadRaises` is this step, and the properties are stated around it.

Left out: `git` killed in the middle of a command, a daemon that dies between a
rebase that failed and its `rebase --abort` (142, 158; the clone stays in the
middle of a rebase and every later tick fails), a write that is half done when
a replay starts, the annual rotation (no code does it), two writers of one file,
and a force-push by hand. The nudge, the cadence and `--once` are in
`DaemonLoop`; here a tick may begin at any time.

### How `IdempotencyCache` corresponds to the code

`seen` is the set of keys of `_seen`, `file` the lines of `<agent>_seen.jsonl`
that `_load` can parse, `torn` says that the file ends in part of a line. `day`
is the clock as far as the TTL tells days apart, `TTL = 0` is `ttl_days=None`.

| Code | Action |
|---|---|
| `mark_seen` 76-79, a new id | `Mark`: in memory, with its `seen_at`; a known id or none changes nothing |
| `mark_seen` 80-82, `filter_new` 91-92 | `AppendRecord`: the line is in the file, the message in the list to return |
| an exception of `open` or `write` | `AppendFails`: leaves `filter_new`, which drops its list; the ids stay in memory |
| `return out` and the caller | `Return`, `Handle` once for every returned message |
| process death, `__init__` with `_load` | `Crash`, `Restart` |

Messages are offered in any order and as often as one likes. Left out: messages
without a correlation id (dropped), several processes on one file, a record that
lacks only its line end, lines of other programs.

### How `DaemonLoop` corresponds to the code

Time is counted in units; `changeAge`, `newsAge` and `nudgeAge` say for how long
a local change, a peer's push or a SIGUSR1 has been waiting. A tick takes up to
`TickMax`, stages at one instant and fetches at a later one. `late` adds up what
ticks that failed since the last success may have cost, `skew` how far the wall
clock was set back since then.

| Code (`wire-daemon.py`) | Action |
|---|---|
| 251-266, `should_tick` | `StartTick`, `NothingDue` by `Due`: a dirty file, the flag, or `time.time()` against `last_remote_tick` (0.0 before the first success: `~synced`) |
| `tick` | `Stage`, `Fetch` |
| 266-269 | `TickEnds` (`last_remote_tick`), `ClearNudge` |
| 270-273 | `TickFails`, `EndBackoff`: the failure skips `--once`, the clear and the wait |
| 275-277 | `LeaveLoop` |
| 280, `_nudge.wait` | `BeginWait` (takes the event's lock, looks at the flag), `EndWait` (flag or timeout), `Return` |
| 239-241, `_on_usr1` | `Signal`, `SetNudge`; the loop stands still while the handler runs |
| `time.time()` | `Elapse`, `SetClock` (set forward to the next tick, or back by at most `MaxSkew`) |

CPython runs a signal handler on the main thread between two instructions, and
`threading.Event` guards its flag with a lock that is not reentrant. A signal
that arrives while the interrupted code holds that lock therefore makes the
handler wait for itself; `handler = "blocked"` is this state (confirmed with
CPython 3.11), and nothing of the loop can run any more. Time stops for the model then: the
bounds below are those of a loop that is not blocked. Left out: a signal before
the handler is installed (it kills the process), the time of the steps between
two waits, SIGTERM.

### How `JsonlAppend` corresponds to the code

The file is a sequence of half lines, so that a reader, another writer or a crash
can come between the bytes of one `os.write`. A first half is a `cut` when it ends
inside a multi-byte character (records are written with `ensure_ascii=False`).

| Code (`safe_append_jsonl.py`) | Action or operator |
|---|---|
| 37-43 | `Open` |
| 47 | `Lock`, when nobody holds it |
| 49 | `WriteBegins`, `WriteEnds`; `WriteShort`: the result of `os.write` is not looked at |
| 50-54 | `Return`: fsync, unlock, close |
| 45-54, `OSError` | `Raise`: the caller tries again or drops the record |
| process death | `Crash`: the kernel closes the file and drops the lock |
| `read_last_n` | `ReadLast`: the positions it returns, for the file of any moment; `Decodes` says whether `readlines` gets through |

Seen as an `AppendLog`, the log is the records of the lines that parse, at the
positions of their last half lines (`LogSeen`), and a call is `running` until the
half line that completes its record is written, then `logged` (`CallSeen`).
`Open` is `Begin`, `WriteEnds` is `Log` (or nothing, when the record joined a torn
line), `Return` is `Return`, `Raise` and `Crash` are `Fail`, `WriteShort` is a
fault nobody is told of (`Hit`), `Lock` and `WriteBegins` change nothing a reader
sees.

Left out: a filesystem without flock, bytes lost by the machine's crash, and a
short write that lacks only the newline or leaves no byte.

### How `TrustStore` corresponds to the code

A trust dict is a version flag and an entry per agent: tier, SAS flag,
reciprocations and the state of each key. `"Absent"` is an agent without entry,
`"None"` an entry without tier (v3.0). `store` is the file, `whole` says whether
it parses, `mem[p]` is the dict a process works on.

| Code | Action |
|---|---|
| `load_trust`, or `json.loads` by a v3.0 program | `Load`: with or without the upgrade |
| `add_agent_card_pin`, `verify_sas`, `record_reciprocation`, `promote_to_trusted`, `trust_add_key`, `trust_deactivate_key` | `Pin`, `VerifySas`, `Reciprocate`, `Promote`, `AddKey`, `Deactivate`, each the operator of the same name on `mem[p]` |
| `save_trust` | `SaveBegins` (truncated), `SaveEnds`; a save that ends while another process has truncated and not yet written leaves a file that may not parse |
| process death | `Leave` |

The functions return a copy of the outer dict and share the entries; a caller
keeps what is returned, so both are the one `mem[p]`. `compute_sas_v31` is left
out: `verify_sas` is the call in which the digits match (otherwise it returns the
dict as it was). A cleared `trust.json` (deleted by hand) is left out as well.

### How `Signing` and `SignedCommits` correspond to the code

A signature is the pair of the key and what was signed, a hash is what was
hashed, a key id is the agent and the key; a missing field is `None`. `canonical`
is the v3.0 form, with `event_id`, and `canonical_strict` the v3.1 form, without.
`verify_message`, `verify_message_v31` and the signing functions have the names of
the code.

| Code | Action |
|---|---|
| `signed_append_jsonl` | `AppendBegins`, `AppendEnds`; `AppendDies` when the write is cut short; the next record joins the torn line |
| an agent that edits its file | `Edit` (external): corrects a line, takes one out, or puts one in before another |
| `trust.json` appears, a key is revoked | `Bootstrap`, `Deactivate` |
| `tick` 176-182, `git add` | `Stage`: the file differs from HEAD and has more lines than `pushed`, the count of line 189 |
| `verify.py` main, `staged_added_lines` | `Verify`: the lines a diff marks as added (`Unchanged` are the others); nothing without a `trust.json` |
| `jsonl_schema.py` main, `is_rewrite_attempt` | `Compare`: a diff marks a line of HEAD as removed exactly if HEAD's lines are not all found in the index, in order (`Aligns`) |
| `jsonl_schema.py` main, `validate_line` | `Validate`: every line of the working file |
| `git commit` | `Commit`; `Hotpath` with `ALLOW_HOTPATH=1` |
| a hook that returns 1 | `Blocked`: the tick fails and the loop stages again, which replaces what was staged, so that the model drops it |

The hooks are called one after the other by one `pre-commit` script; with one
hook the other's steps pass. A record whose message is not schema-valid is the
flag `valid` of its body. A line under way is `"open"`, or `"bare"` if only its
newline is missing: both hooks accept a bare line like a whole one. `git diff`
is taken to mark as few lines as it can. Left out: a file that is deleted
(`--diff-filter=AM` keeps it from both hooks), files of two agents in one commit (the daemon
stages one file), blank lines, `index.lock`, `git commit --no-verify`, a crash
between two hooks (the next tick stages again).

## What is checked

Seven runs must pass and five show a disagreement between a document, comment or
docstring and the code. Deadlock is checked except where the system may really
stop: a reader with nothing left to read (cache), writers that are done (append),
`--once` or a blocked handler (loop), a file nobody appends to (commits), a
`trust.json` that no process can parse any more (trust).

### Wire daemon

Two agents read each other's file, as in `examples/git-as-wire`. The bounds: `Quota` (one
agent writes one message and the other two), `MaxCrashes` crashes and `MaxFaults`
outages, lost acknowledgements or refused commits. With two messages a batch can
hold a whole and a torn line, a push can lose a race and retry, and an append can
follow a commit; one crash and one fault combine a lost acknowledgement or a
stranded commit with a restart. A push can lose the race twice. The third lost
race, which needs three messages of the peer, is outside these bounds: in the code
it raises (145) and leaves the commit to the next append, as an outage does in the
run `stranded`; `CommittedIsPushed` excuses it by name (`LostThirdRace`), and
nothing is proved about it. In `faulty` the second line of one agent is odd.

| Run | Shows |
|---|---|
| `torn` | with half-written lines, files nobody commits and one fault: types; copies of a file are prefixes of each other; counters never ahead; the wire append-only |
| `faulty` | with whole appends, one crash, one fault and an odd line: no line behind an inbound cursor is unreported; no line is reported twice before a crash or an odd line; a dirty file is never taken for unchanged; written messages are committed, and `DeadDrop!FairSpec` is implemented, by which published messages are reported, up to the first odd line; until a crash or fault a committed message is pushed, although it may lose one or two races, unless an append was lost |
| `lost_append` (violation) | an append during a replaying rebase is discarded by `rebase --abort` |
| `stranded` (violation) | a commit whose push failed is not pushed until the next append |

Reporting is at least once: a crash between reporting and saving, or during
saving, repeats reports, and so does every tick before an odd line.
`NoRepeatWithoutCause` says that no other tick does, failed ones included.

What the model also does, without a run of its own: an append between commit and
rebase makes `git rebase` refuse, which the daemon logs as a protocol violation
although nobody broke the protocol (`faulty` shows that later ticks make up for
it); a line committed half written is counted by the peer's cursor and never
reported, and its second half is dirty but adds no line, so it is not committed
until the next one (this is why `NoMessageSkipped`, `EveryChangeIsCounted` and the
refinement are stated for whole appends); a line appended to `decisions.jsonl` in
the clone is never committed and keeps the rebases from starting, which stops
inbound delivery (`torn` keeps safety under it).

### Main loop

The times are in the order of the real ones (2, 5 and 90 seconds): `FastPoll` 2,
`Backoff` 3, `Cadence` 5, `TickMax` 2, a clock set back by up to 2, and two
failures in a row. The cadence is longer than a wait and a tick, so that each term
of the bounds is reached by some behaviour.

| Run | Shows |
|---|---|
| `loop_timing` | a local change is staged within two ticks and one wait, a push is fetched within the cadence, two ticks and one wait, both plus what failures and the clock cost; a SIGUSR1 that is not erased is followed by the next tick that is tried, at most a failing tick and its sleep later; `--once` stops only after a success |
| `loop_frozen` (violation) | a second SIGUSR1 during the first one's `set()`, or one during `wait()` or `clear()`, blocks the loop and the handler |

The comment at line 238 promises an immediate tick for any SIGUSR1. The one that
arrives while a tick runs gets none when this tick succeeds: `_nudge.clear()` (269)
erases it, and the push it told of, if the tick had already fetched, waits for the
cadence (`NewsIsFetched`). `ClearNudge` takes this step; `NudgeIsFollowed` is about
the other nudges.

### JSONL append

Two writers of two records, and two faults: a torn line can be joined by a record,
and that by another writer's; a holder of the lock can die while one waits.

| Run | Shows |
|---|---|
| `append_faulty` | types; the bytes of two calls never mix; a fault costs at most two records whose call returned; `read_last_n` finds the recent records, less the torn ones and the one being written; every call ends; and `AppendLog!Spec` is implemented: readers see each record appear in one step, once, behind all others, while its call runs, and stay, and a call that returns without its record is paid for by a fault |
| `read_raises` (violation) | a record cut inside a character makes `read_last_n` raise for every later reader |

### Idempotency cache

Three messages, two of which share an id (a message and its replay, or its
reply), a TTL of one day and days 0 to 3: an id can be accepted, expire with a
restart, be accepted again, and expire again. Two failures combine a failed
append or a crash with a second crash.

| Run | Shows |
|---|---|
| `cache_replay` | types; no two handled messages of one id within the TTL, wherever the process dies or an append fails as a whole; until something fails one message of every id is handled |

The filter is at most once (within the TTL) and not at least once: an id is
marked when its message is read, so that a failure before it is handled leaves
the id in the cache, and the message is dropped when it is offered again. After a
torn line (`TornWrites`) the next record is lost to `_load` and its replay is
accepted after a restart; a reply, which carries its parent's id (`PROTOCOL.md`),
is dropped like a replay.

### Trust store

Two processes, one agent, one key, a threshold of two reciprocations. Entries of
different agents never influence each other (the proofs hold for any number), and
two processes are what an overwritten save needs.

| Run | Shows |
|---|---|
| `trust_store` | types; in the file and every copy claims are accepted only after an SAS check and the reciprocations, in any order and whoever saved over whom, except for agents of a v3.0 store; a save from an up-to-date copy undoes nothing, and a file that a crash cut short is never taken for an empty one |

A save from an older copy undoes what was saved since, a revocation included:
nothing in the code prevents it.

### Signing and commits

One key, three shapes of messages (v3.0; v3.1 with a DID; unsigned and invalid),
two lines and two faults: a torn line and its successor, an edit, an override or a
revoked key, and two of these in one behaviour. Two keys with one fault pass as
well; the proofs hold for any number.

| Run | Shows |
|---|---|
| `commits_hooks` | types; every committed line that `verify.py` saw is one record signed by a key that is or was trusted, although file and trust list change while the hook runs; with the schema hook commits lose, change and reorder no line, and without faults nothing but a line staged half written slips past it, although it reads the working file; messages that the hooks accept get committed, however appends, `trust.json` and commits overlap, unless an unfinished line was committed |
| `append_only` (violation) | a line inserted before committed ones passes the append-only check |

`OnlyTornLinesSlip` is weaker than the docstring of `jsonl_schema.py` (lines 4-5:
validates every line, blocks commits that violate the invariants): half a line
that was staged, and completed before the hook opens the working file (128), is
committed although it is not JSON. Its completion then shows as a rewritten line
and every later commit is blocked, which is the one race `CommitsCatchUp` excuses;
the others it excuses are faults and messages a hook is meant to refuse.

`verify.py` refuses what `sign_message_v31` signs, messages whose `from` is a
DID, and a line whose key was revoked between append and commit; each blocks the
file until an override. `v3.1/README.md:21` says that all v3.0 messages still verify
against the v3.1 verifier: `verify_message_v31` accepts none of them, because it asks
for an `event_id` (`VersionsAreApart`); the copy of `verify_message` that
`v3.1/signing.py` keeps does. No run checks this, since no step of the system
calls one verifier on the other's messages but `verify.py`, whose refusals are above.

### Mutants

For every property of a passing run, `PROJECT.json` names a mutant: a definition
changed the way a plausible bug would change it, marked `mutant` in the module,
under which the property fails.

### Fairness

| Specification | Assumed | Why |
|---|---|---|
| `WireDaemon` | `WF(Daemon(a))`, `WF(GoOnline(a))` | the loop of `main` never stops by itself and the service unit restarts a daemon that died; an outage ends |
| `IdempotencyCache` | `WF(Reader)`, `SF(Mark(m))` | a call that has begun goes on and a dead reader is started again; a message stays in the append-only file and is offered at every read |
| `JsonlAppend` | `WF` of the steps of a call, `SF(Lock(w))` | a running process goes on; the kernel wakes the waiters of a flock one after the other |
| `SignedCommits` | `WF(DaemonStep)`, `WF(AppendEnds)` | the loop repeats a failed tick; a write that began goes on unless it dies |

Nothing obliges an agent to append, a fault to happen or a race to go one way.
Faults being bounded, they are finitely many in a behaviour; so are appends.
`DaemonLoop` needs no fairness: its properties bound what time may pass, and
time passes only where the code waits or works.

## What is proved

Each proof uses only the named assumptions of its module, and holds for any set of
agents, writers, processes, keys or messages and any bounds.

`WireDaemonProofs` (`Inbound` maps every agent to another one; bounds are
naturals):

* `TypeCorrect`.
* `CopiesArePrefixesAlways`, `CountersWithinFilesAlways`, `WireStaysAppendOnly`.
  The inductive invariant `IInv` adds three things to the properties:
  `LengthsInv` says that HEAD never exceeds what was appended (while a replay
  shortens the working tree, the chain through `work` is broken and this is what
  restores it), `PendingOf` that the count a push under way will record is within
  the file (`Commit`) or the commit (after it), `CountersOf` that reports are in
  the clone.
* `NoRepeatWithoutCauseAlways`: adds that no daemon is down, and rests on the odd
  line that holds a cursor staying in the clone (`RepeatStays`).
* `NoMessageSkippedAlways`, `EveryChangeIsCountedAlways` and
  `ImplementsDeadDropSafety` (`Spec => DD!Spec`), under `~SplitWrites`: the
  invariant `WInv` adds that no copy ends in a torn line and that reports form a
  gapless prefix that covers both cursors. With `SplitWrites` they are false.

`DaemonLoopProofs`: `LoopTypeCorrect`, `ChangesAreStagedInTime`,
`NewsIsFetchedInTime`, `NudgesAreFollowed`, `OnceStopsSynced`. The bounds become
inductive when the age of what waits is counted together with the time the loop
may still spend where it is: `ChangeBound`, `NewsBound` and `NudgeBound` give a
budget for each point of the loop, the last with the fact that a nudge that waits
has set the flag or is about to; `SinceLastTick` relates the clock's `age` to
the time since the last tick, and `OncePhase` says where a one-shot loop can be.

`JsonlAppendProofs`, for any writers, records and faults:

* `TypeCorrect` and `CallsDoNotMix`. The invariant `Inv` says that the holder of
  the lock is the one writer inside the critical section, and that while it writes
  the last half line is its record's first half.
* `LossIsBounded`. `FaultCostsTwo` is not inductive: a fault is charged when it
  happens and its losses come later. `LossInv` adds what is still `Owed`: one
  record if the file ends in a torn line that the next record will join
  (`Ragged`), one if a call is about to return although its record cannot be read
  (`Pending`).
* `RecentIsFound`. `BadInv` counts the lines that do not parse: as many as there
  were faults, and one more while a write is open that began on a line of its own.
  That `lines[-n:]` holds the last `n` of them is a fact about finite sets of
  positions (`LastInFacts`), for which the smallest of a set of naturals comes from
  their well-foundedness (`SmallestOf`).
* `CallsImplementAppendLog` (`Spec => AL!Spec`): one lemma for each action maps its
  step to a step of `AppendLog` or a stutter. Appends go behind all others because
  only the holder of the lock writes, and at the end of the file; that a return
  without a record is paid for is `LossInv`.

`TrustStoreProofs`: `TypeCorrect`, `TiersAreEarned`, `FreshSavesKeepUpdates`. The
invariant `Copies` holds for the file and every copy: each tier was earned, an
entry without tier has no SAS check, and a fresh copy keeps everything the file
says (`KeepsAll`, which each operation preserves and which is transitive).

`SigningProofs`, for any keys, messages and trust lists: `AcceptedIffSigned` and
`AcceptedIffSignedV31` say that each verifier accepts exactly what the signing
function of its version makes with a key that is active for the sender, so that
a message with a changed field or of another signer is refused;
`RevocationIsExact`, that `trust_deactivate_key` takes back, for both verifiers,
the messages that name the deactivated key id and no others (a key id is agent and
fingerprint: the same key pair pinned for another agent stays valid);
`VersionsAreApart`, that no message is accepted by both. The hypotheses say that a message
has the six fields, that a trust list maps keys to their states, and that no key
id, hash or signature is the absent field.

`SignedCommitsProofs`, where `NoneIsNoField` says the last of these for the
messages of the agent:

* `TypeCorrect`. `TypeInv` adds that the file has at most `Quota` lines, which is
  what makes a line signed by `Edit` a message of the model; that an edit keeps the
  unfinished line last is `EditedFacts`.
* `OnlyTornLinesSlipAlways`. The hook looks at the file and the index is committed;
  `FaultlessInv` links the two: what was staged is still in the file, each line as
  it was or completed, and no record has joined another.
* `CommitsAreSigned` and `CommitsOnlyAdd`. The invariant says that from
  `Verify` to `Commit` the staged lines that are not in HEAD have passed (`Passed`),
  and stay so although the trust list changes, because a key that is revoked was
  trusted before; from `Compare` on HEAD is found in the index, in order.

`IdempotencyCacheProofs`: `CacheTypeCorrect`, and `NoReplayWithinTTLAlways` under
`~TornWrites` (false without). The inductive invariant `CInv` follows an accepted
message from memory to disk: a record that memory does not know has expired
(`MemoryCovers`), what is being marked is no replay of a record that has not
expired (`MarkingInv`), the batch has one message per id and each is recorded
(`BatchInv`), and so is all that was handled (`HandledInv`).

Only model-checked: every liveness property (`EveryIdHandled`, `AppendEnds`,
`CommitsCatchUp`, `WrittenIsCommitted`, `CommittedIsPushed`) and the fairness part
of `ImplementsDeadDrop`, because the installed provers do not handle fairness and
ENABLED. Every invariant and action property of a passing run is a
theorem, under the hypotheses named above.

## Not modelled

* Agent cards: pure functions over one dictionary; what they accept is a list of
  format checks and one signature, which would restate the code. Their effect on
  the trust store is `Pin`.
* `keygen.py` and `install.sh`: scripts an operator runs once and watches, with no
  other actor. One hazard of them is listed in `PROJECT.json`: keygen stopped
  between its two files refuses to run again.
* Kind classes, base64 and the digits of the SAS: conversions no property here
  tells apart.
* The rotation of the files, the heartbeat tiers, `tiers.json`, `PROTOCOL.md` and
  `v4/N-AGENT.md`: no code runs them.
* Several processes on one file of the cache (one agent per file by its name).
* `spark-tunnel.sh`, `operator-provisioning.sh`: calls to ssh, useradd and chmod.
