# TLA+ models of the gastown deferred work queue

This directory holds TLA+ specifications of the work-queue part of gastown
(`src/internal/cmd/queue_*.go`, `sling_queue.go` and the daemon idle/wake and
rate-limit helpers). Each module is checked with TLC, and `PROJECT.json`
records the runs, the source lines each definition models, the mutants that
show each property can fail, the findings and the hazards.

## 1. The system

| Part | Source | State it owns | Operations |
|---|---|---|---|
| Enqueue | `sling_queue.go` `enqueueBead`, `runBatchEnqueue`; `unnamed/part_001` `runConvoyQueue` | bead description (queue metadata block), `gt:queued` label | validate, idempotency and status checks, write metadata, add label (the commit), roll back on label failure, auto-convoy re-persist |
| Dispatch | `queue_dispatch.go` `dispatchQueuedWork`, `dispatchSingleBead`, `recordDispatchFailure`, `getReadyQueuedBeads`, `getReadyQueuedBeadsFrom`, `computeDispatchCount` | `.runtime/queue-dispatch.lock` (flock), per-run locals | TryLock, pause gate, capacity, `bd ready --label gt:queued` with the circuit-breaker filter, per-bead sling, strip and label swap, failure counter and quarantine, reload and save of queue state |
| Queue runtime state | `queue_state.go` | `.runtime/queue-state.json` (`paused`, `last_dispatch_count`, ...) | Load (missing = zero value), Save (temp + rename), SetPaused, SetResumed, RecordDispatch |
| Queue metadata codec | `queue_metadata.go` (QueueMetadata.tla) | none (pure) | Format, Parse, Strip of the `---gt:queue:v1---` block, NewQueueMetadata |
| Daemon idle state and wake | `unnamed/part_000` (`idle.go`), `deacon_idle_wait.go`, `sling_dolt.go` `ensureDoltForSling` | idle-state file, wake-signal file | backoff interval, SignalWake, ConsumeWakeSignal, idle wait with timeout |
| Rate and usage limits | `usagelimit_cmd.go`, `sling_dolt.go` | rate-limit state file | detect limit in output, extract reset time, ShouldWake, RecordWakeAttempt |

How the parts interact: enqueuers and dispatchers are separate processes.
They share the bead store ("bd") and never share memory. Every `bd update` is
its own subprocess and one atomic store write, so the processes interleave
between any two such calls. Dispatchers exclude each other only through the
flock. Enqueuers take no lock at all. The operator's `gt queue pause/resume`
and dispatchers share `queue-state.json`. Manual `gt sling`, polecats that
finish and close beads, and `bd reopen` change bead status under both.

Hard behaviours of this code:

- several enqueue and dispatch steps racing on one bead;
- best-effort writes whose failures are ignored;
- a dispatcher dying between two writes (the OS drops its flock);
- stale snapshots, because a dispatcher acts on the `bd ready` result it read
  earlier;
- the read-modify-write of `queue-state.json`;
- a circuit breaker whose count lives in text that other writers rewrite.

## 2. Modules

### WorkQueue.tla (with MC_WorkQueue.tla)

This module composes enqueue, dispatch and queue runtime state.

**State.** Per bead:

- `status`: open, hooked or closed;
- `labels`: queued, dispatched, failed;
- `desc`: the parsed metadata, or `NoMeta`. Only `dispatch_failures` is kept,
  because enqueue always sets `target_rig` and the other fields are passed to
  the executor unread;
- `live`: whether a polecat is working on the bead, and whether the queue or a
  manual sling started it.

Shared state:

- `qstate`: `queue-state.json` (`paused`, `lastCount`);
- `lock`: the flock holder.

Constants `Dirs` and `BeadDir` give the bead directories `beadsSearchDirs`
returns (its code is not in `src`) and the one each bead is found in.

Per process: program counters `dpc` and `epc`, dispatcher locals `dv` (capacity,
the ready snapshot `pending` and `sdesc`, the count still to dispatch, the
current bead, the dispatched count, the reloaded queue state) and `ebead`.

Ghost variables, used only by properties:

- `recorded`: failures persisted since the last enqueue;
- `attempts`: failed executor calls since the last enqueue;
- `backed`: an enqueue of the bead committed (its `gt:queued` write
  succeeded) and no dispatcher has taken the bead since;
- `unbacked`: queue dispatches of beads that were not `backed`.

Bound counters: `bdFails`, `crashes`, `reopens`.

**Actions**, one per bd call or file access, in code order:

- Enqueue:
  - `EnqueueStart`: validation, the `gt:queued`+open idempotency no-op, and the
    hooked check without `--force`. Failing validations return before any write,
    so they are stutters.
  - `EnqueueWriteDesc`
  - `EnqueueAddLabel`
  - `EnqueueRollback`
  - `EnqueueConvoy`: `created` covers the convoy being created, creation failing
    and the bead being tracked already.
  - `EnqueueChecks`: the idempotency and hooked checks, shared by both kinds
    of enqueuer.
  - The enqueuers in `ConvoyEnqueuers` are `gt convoy queue` runs
    (runConvoyQueue), with their candidates and `--force` flag in `ecand`:
    - `ConvoyQueueFilter`: the filter over the tracked issues (the convoy is
      taken to track every bead), which skips closed, hooked without
      `--force`, and `gt:queued` beads. It reads them as one snapshot.
    - `ConvoyQueueNext`: enqueueBead with NoConvoy on one candidate
      (`EnqueueLoopNext`). A failed check is an error the loop skips.
      `EnqueueDone` returns to the loop when `ecand.loop` is set.
    - `ConvoyQueueEnd`: the loop finishes.
  - The other enqueuers are `gt sling --queue`: one bead (`EnqueueStart`) or
    a list given to runBatchEnqueue (`BatchEnqueueStart`, at most
    `MaxSlingBeads` beads; 0 turns batches off), looped like the convoy
    run but with no filter and with the sling's `--force` and `--no-convoy`
    (`BatchEnqueueNext`, `BatchEnqueueEnd`). The batches carry nothing from
    one enqueueBead to the next but the flags, so a batch of several beads
    is one process's single enqueues back to back, which `EnqueueStart`
    already produces. The batch actions run in the one-bead liveness run.
    Two-bead batches in the safety or sharing run take TLC over ten minutes.
- Dispatch:
  - `DispatchStart`: TryLock and the pause gate. The queue.enabled gate only
    returns early.
  - `DispatchCapacity`
  - `DispatchQuery`: `getReadyQueuedBeads`, one `bd ready` per bead
    directory (constants `Dirs` and `BeadDir`) with the breaker filter
    `ReadyQueued`. `ReadyOutcomes` picks the directories whose call succeeds;
    a failed directory's beads are missing from the snapshot, and the query
    is an error only when every directory failed. The per-directory calls
    read disjoint beads, so they are taken as one step.
  - `DispatchQuarantine`: a snapshot without metadata.
  - `DispatchSling`: executeSling fails on a bead that is no longer open and may
    fail on any other. It is `DispatchSlingThen` with the cleanup as the next
    step, so that a mutant can leave the cleanup out.
  - `DispatchStrip` and `DispatchSwap`: best-effort cleanup.
  - `DispatchRecordFailure` and `DispatchFailLabel`: recordDispatchFailure.
  - `DispatchReload` and `DispatchSave`: the fresh read, RecordDispatch, and
    `SaveQueueState`. The save writes a temp file and renames it, so it is
    one atomic replacement. It may fail (call `"saveState"` in
    `FallibleCalls`), leaving the old file. The dispatcher only prints that
    error.
  - `DispatcherCrash`
- Operator and world: `QueuePause`, `QueueResume`, `ManualSling`, `PolecatDone`,
  `Reopen`.

Any bd call named in the constant `FallibleCalls` may fail, up to
`MaxBdFailures` times in a behaviour.

**Abstractions.**

- The ready order is not modelled. The dispatcher may take any bead of its
  snapshot, which covers every order `bd ready` can return.
- executeSling is one step: it hooks the bead and spawns a polecat, or fails.
- `gt queue pause/resume` is one atomic load-set-save. Those commands are not in
  `src/`, so they are modelled from the spec.
- Dry run, spawn delay, wakeRigAgents, event logging and formatting change no
  modelled state.

**Properties.**

| Property | Kind | Statement |
|---|---|---|
| `TypeOK` | invariant | types. `desc` in `Meta` also bounds the failure count by `maxDispatchFailures`. |
| `QueueCapacity` | invariant | the queue's live polecats never exceed `max_polecats`. Checked in the safety run only. It counts the queue's polecats, so it does not assert a total that includes manual slings made while a batch runs on a count taken before them (queue_dispatch.go:93). |
| `RetriesBounded` | invariant | per enqueue, the executor is tried at most `maxDispatchFailures` times, plus one per counter update lost to a failed bd call or a crash. |
| `FailureCountExact` | invariant | the stored `dispatch_failures` equals the failures persisted since the last enqueue (spec section 5). |
| `EnqueuedBeadNotQuarantined` | action property | a dispatcher never quarantines for missing metadata a bead whose enqueue committed and that no dispatcher has taken since (the metadata-before-label order of `enqueueBead`). |
| `DispatchConsumesEnqueue` | invariant | every queue dispatch consumes a fresh enqueue, except one per post-dispatch cleanup lost to a failed bd call or a crash (the conflation the label swap is there to prevent). |
| `QueuedBeadLeavesQueue` | liveness | an actively queued bead eventually stops being one, if the queue is not left paused and enqueueing stops. |
| `PauseOnlyClearedByResume` | action property | only a resume turns `paused` off (comment at queue_dispatch.go:170-172). |
| `PostDispatchLabelsExclusive` | invariant | no bead carries `gt:queued` and `gt:queue-dispatched` at once (spec section 8). |
| `QueueRefinement` | refinement | WorkQueue implements QueueAbstract (below) under the mapping `st <- status`, `run <- live`, `q <- backed`. |

### QueueAbstract.tla (instantiated by WorkQueue as `QA`)

This module states what the queue promises, without processes, locks, bd
calls or metadata. It is the "one bead is spawned at most once" of spec
section 5, stated per enqueue. Each bead has:

- a status `st`;
- a polecat `run`: none, queue or manual;
- a committed, unconsumed enqueue `q`.

The actions:

- `Enqueue`: the `gt:queued` label lands.
- `Dispatch`: a successful executeSling. It needs an open bead that holds
  an enqueue, and a queue polecat count below `max_polecats`. It consumes the
  enqueue.
- `ManualSling`, `PolecatDone` and `Reopen`.

No abstract action withdraws an enqueue in any other way. So a WorkQueue
quarantine, a breaker skip or a failed sling must leave `backed` alone or
find it already false. Each WorkQueue step maps to one abstract step or to
a stutter:

- `EnqueueAddLabel` maps to `Enqueue`;
- a successful `DispatchSling` maps to `Dispatch`;
- the operator and world actions map to their namesakes;
- every other step is a stutter.

The refinement holds in the safety run. Under the sharing constants it fails, by the
path `DispatchConsumesEnqueue` counts:

1. a dispatcher crashes between executeSling and the swap;
2. the bead is closed and reopened;
3. the bead is then dispatched without an enqueue.

### QueueMetadata.tla (instantiated by WorkQueue as `QM`)

The codec of `queue_metadata.go`. A description is a string abstracted to a
sequence of tokens: user text, a newline, the `---gt:queue:v1---` delimiter
(which may stand inside a line of user text, as `strings.Index` allows) and
a `key: value` run. Values are strings; `dispatch_failures` is written with
`%d` (`Itoa`) and read back with `strconv.Atoi` over a bounded range, so a
value Atoi rejects leaves the count at zero, as in the code.

- `FormatQueueMetadata`: the delimiter and one line per set field, joined
  with newlines; blank vars are dropped.
- `ParseQueueMetadata`: nil without a delimiter; otherwise a left fold over
  the lines after the first delimiter, where blank lines are skipped, a second
  delimiter stops the fold, and unknown keys are ignored.
- `StripQueueMetadata`: everything before the first delimiter, trailing
  newlines trimmed.
- `AppendMetadata`: the `newDesc` construction shared by `enqueueBead`, the
  auto-convoy re-persist and `recordDispatchFailure`.

Kept fields: `target_rig`, `vars`, `convoy`, `dispatch_failures` and
`last_failure`. The other fields are formatted and parsed like `convoy` and
are only passed to the executor.

WorkQueue stands for a description by the parsed `dispatch_failures`. Two
of its invariants, checked in the safety run, make that reading sound:

| Property | Kind | States |
|---|---|---|
| `MetadataReadsBack` | invariant | for the metadata every bead holds, parsing what a write produces gives that metadata back, whatever the prior description held (every description of up to three tokens). Only the fields the queue's state tells apart are asserted: `target_rig`, `dispatch_failures` and `last_failure`; `vars`, `convoy` and the other fields are not asserted, here or in `StripRemovesMetadata` |
| `StripRemovesMetadata` | invariant | what the rollback and the cleanup write parses to no metadata, and stripping an enqueued description restores the one the enqueue started from, up to trailing newlines |

The laws are tabulated once per metadata value (constant sets that TLC
computes at start-up). Each invariant looks up the entry for the metadata
that the beads of the current state hold.

### IdleWake.tla (with MC_IdleWake.tla)

This module models the demand-driven Dolt server. It covers three parts:

- the daemon's idle bookkeeping in `idle.go` (`unnamed/part_000`);
- the deacon's `gt deacon idle-wait` (`deacon_idle_wait.go`);
- the check at the start of `gt sling` (`sling_dolt.go` `ensureDoltForSling`).

The daemon heartbeat that calls the idle.go helpers is not under `src/`. It is
modelled from spec section 4.5 and marked spec_modelled in the map.

State:

| Variable | Code |
|---|---|
| `idleFile` | `daemon/idle-state.json`: `Absent`, `Torn` (truncated by a write in progress) or an `IdleState` record `[idle, doltStopped, backoff]` |
| `wake` | whether `daemon/idle-wake` exists |
| `dolt` | Dolt server `running` or `stopped` |
| `work` | whether any polecat session or open convoy exists (the two counters reduced to one flag) |
| `hpc`, `hwoke`, `hnext` | heartbeat step, the `ConsumeWakeSignal` result, the state it will write |
| `kpc`, `ksleep`, `kticks` | idle-wait step, its clamped sleep, the 5 s ticks taken |
| `spc`, `sstartOk` | `ensureDoltForSling` step, and whether the sling went ahead with a Dolt it believed up |

Actions:

- **Heartbeat.** `ConsumeStat` and `ConsumeRemove` are the stat and the remove
  of `ConsumeWakeSignal`, as two steps. `HeartbeatDecide` decides idle or
  active: an idle tick after an idle tick stops Dolt and advances the backoff
  by `nextBackoffInterval`, and an active tick restarts Dolt and resets the
  backoff. `WriteTruncate` and `WriteIdleState` are the two halves of
  `os.WriteFile`.
- **Deacon.** `DeaconStart` reads the state, returns at once unless it is idle,
  and clamps the backoff to `[30s, idleWaitMax]`. `DeaconTick` is one ticker
  firing: it returns on the wake file or when the deadline has passed.
- **Sling.** `SlingCheckIdle`, `SlingCheckRunning`, `SignalWake` and
  `SlingStartDolt` are the steps of `ensureDoltForSling`, and `Start` may fail.
  `SlingRun` is the sling's work, which makes `work` true.
- **WorkDone.** The work finishes.

Properties:

| Property | Kind | States |
|---|---|---|
| `TypeOK` | invariant | types, including the backoff staying in the table's range |
| `BackoffFollowsTable` | action property | every idle decision moves the backoff along 0→30→60→120→240→300→300 (spec section 4.5) |
| `WakeLeadsToActive` | liveness | a wake signal is always followed by a recorded active state |
| `DoltUpForSling` | invariant | when `ensureDoltForSling` lets a sling proceed, Dolt is running |

### RateLimit.tla (with MC_RateLimit.tla)

Models the usage-limit state of `usagelimit_cmd.go`: the `gt usagelimit`
commands, the `ratelimit` package's State, LoadState, SaveState, ClearState,
ShouldWake and RecordWakeAttempt, and the daemon heartbeat that uses them
(spec section 4.6.3; its code is not in `src`).

- **Transcripts** are sequences of abstract phrases (`Phrase`): a limit
  marker, a `retry-after` header, a `retry after N unit` text, a
  `resets_at` stamp, `in N unit`, `at HH:MM`. `extractResetDuration` tries
  the code's patterns in its order, each on its first match in the
  transcript (`SelectInSeq`), with the same sanity checks and unit table.
  `detectUsageLimit` falls back to one hour.
- **Time** is relative, as timers: a state record keeps `untilReset`
  (seconds to ResetAt, saturating at `-WakeBuffer`) and `sinceWake`
  (seconds since LastWakeAttempt, saturating at the cooldown, or `Never`).
  `TickClock` advances time by a minute for the file, the daemon's loaded
  copy and a recorder's pending record alike. Nothing is lost: ShouldWake
  only compares these with `-WakeBuffer` and the cooldown.
- **The file** `state.json` is `Absent`, `Torn` (truncated by a writer that
  died: LoadState fails to unmarshal), or a record. `SaveState` is
  `os.WriteFile`: a truncate step and a write step.
- **Daemon.** `DaemonCheck` loads the file and, when ShouldWake holds,
  wakes the agents and applies RecordWakeAttempt to its copy;
  `DaemonTruncate` and `DaemonWrite` save the copy.
- **Recorders.** `runUsagelimitRecord` (a transcript that is limited),
  `runUsagelimitSet` (minutes) and `runUsagelimitClear`; the first two
  build a fresh record and save it with `RecordWrite`.
  `runRatelimitRecord`, `runRatelimitSet` and `runRatelimitClear` are
  `gt ratelimit` in `sling_dolt.go`. It is a copy of `gt usagelimit`
  that differs only in identifiers, including `detectRateLimit` and its
  `extractResetDuration`, and writes the same `state.json`. The model
  gives it the same steps.
- **Crash** kills a daemon or a recorder inside SaveState.
- Ghost variables: `current` (the last recorded limit, 0 after a clear),
  `wakes` per limit, `crashes`, and `stated`: per limit, the seconds until
  the reset its source states, aged by `TickClock`. For a transcript it is
  `StatedResetDuration`, a reference reading in which a `retry-after`
  header that carries a unit means that unit; for `set N` it is N minutes.

Properties:

| Property | Kind | States |
|---|---|---|
| `TypeOK` | invariant | types, including a saved record never exceeding `MaxWakeAttempts` |
| `WakeBudget` | invariant | no limit wakes the agents more than `MaxWakeAttempts` times, plus one per daemon crash between wake and save |
| `CurrentLimitWoken` | liveness | a recorded limit that stays current is woken `MaxWakeAttempts` times, unless a crash left the file torn for good or the daemon's save put an older limit back over it (`OlderLimitKept`, the rl_stale finding). Both exceptions are reached in rl_live, and dropping the second gives a counterexample there |
| `NewLimitKept` | invariant | once every writer is idle, the file holds the current limit (violated: rl_stale) |
| `WakeAfterStatedReset` | action | the daemon wakes the agents only after the reset the transcript, or `set`, states. It is in no recorded run; `RateLimit_retry.cfg` finds it violated (rl_retry below) |

## 3. Runs

The WorkQueue runs use MC_WorkQueue, the IdleWake runs MC_IdleWake and the
RateLimit runs MC_RateLimit.

Run configs:

| Run | cfg | Expect | Bounds and what it shows |
|---|---|---|---|
| safety | `WorkQueue_safety.cfg` | pass | 2 beads in 2 bead directories, 2 dispatchers, 1 enqueuer, max_polecats 1, batch 2. Every bd call but convoy may fail once (so `bd ready` may fail in one directory and not the other), and one crash. Symmetry permutes beads together with their directories. Capacity, retry bound, the metadata-before-label order, the codec laws and the refinement of QueueAbstract hold (2.3M states, about 3 min). |
| liveness | `WorkQueue_liveness.cfg` | pass | 1 bead, 1 dispatcher, `gt sling --queue` of the bead alone or through runBatchEnqueue, auto-convoy, `--force` both ways, bd failures except the threshold label write. Fair spec (106k states, 30 s). |
| sharing | `WorkQueue_sharing.cfg` | pass | 2 beads queued by one `gt convoy queue` run (with and without `--force`) share one slot, 1 dispatcher, manual slings, one reopen and one crash, no bd failures; executeSling fails only on a bead no longer open. Fair spec. Both beads leave the queue, and a reopened bead is dispatched again without a new enqueue only after a crash between executeSling and the swap (207k states, about 1 min). That crash-then-reopen path is reached: `QueueRefinement` fails on it under these constants (section 2). |
| failcount | `WorkQueue_failcount.cfg` | violation | `FailureCountExact` |
| convoy | `WorkQueue_convoy.cfg` | violation | `RetriesBounded` |
| pause | `WorkQueue_pause.cfg` | violation | `PauseOnlyClearedByResume` |
| labels | `WorkQueue_labels.cfg` | violation | `PostDispatchLabelsExclusive` |
| linger | `WorkQueue_linger.cfg` | violation | `QueuedBeadLeavesQueue` |
| idle_live | `IdleWake_live.cfg` | pass | `idleWaitMax` 60 s, Start may fail. Fair spec. Backoff table and wake reaching an active state (177k states, 20 s). |
| idle_dolt | `IdleWake_dolt.cfg` | violation | `DoltUpForSling` |
| rl_live | `RateLimit_live.cfg` | pass | 1 recorder, 2 limits recorded in turn, 3 transcripts (bare marker: default 1 h; marker with `retry-after: 60`; marker with `retry after 5 minutes`), `set 2`, clear, one crash. Fair spec. Wake budget, and wake-ups of each current limit with the two ways the file loses it named (97k states, 20 s). |
| rl_stale | `RateLimit_stale.cfg` | violation | `NewLimitKept` |

What the violation runs show:

- **failcount.** recordDispatchFailure writes back the snapshot's metadata plus
  one. An enqueue of the closed bead written in between, which reset the
  count, is overwritten.
- **convoy.** The auto-convoy re-persist writes call-start metadata, with zero
  failures, after a dispatcher recorded failures. The breaker then allows a
  fourth attempt. The safety cfg turns auto-convoy off for this reason.
- **pause.** A pause saved between the dispatcher's reload (174) and its save
  (179) is lost.
- **linger.** The swap to `gt:dispatch-failed` is a separate best-effort call
  after the counter write. If it fails, or the dispatcher dies before it, the
  bead keeps `gt:queued` with 3 failures, and `bd ready` skips it for ever.
  The same state is reached when an enqueue started on a closed bead adds its
  label after a reopen and a full quarantine.
- **rl_stale.** The daemon heartbeat loads `state.json`, wakes the agents,
  calls `RecordWakeAttempt` and saves the whole State. A
  `gt usagelimit record` of a new limit between the load and the save is
  overwritten by the old, expired State with one more attempt. The new
  limit's reset time is lost: the daemon wakes the agents again a cooldown
  later while the new limit holds, and once the old attempts are spent
  nobody wakes them after the real reset.
- **labels.** Spec section 8 lists as an invariant that no bead carries
  `gt:queued` and `gt:queue-dispatched` at once, and `dispatchSingleBead`
  swaps the one for the other (queue_dispatch.go:356). The idempotency
  check of `enqueueBead` (sling_queue.go:81) skips only an open bead with
  `gt:queued`; its comment (lines 71-73) says dispatched beads keep
  `gt:queued`, but the swap has removed it. So a bead that was dispatched
  and then closed by its polecat is re-queued, and line 174 adds
  `gt:queued` beside `gt:queue-dispatched`. TLC reaches it in 14 steps with
  no failure and no concurrency: enqueue, dispatch, close, enqueue.
- **rl_retry (kept as a reproduction, not a recorded run).**
  `RateLimit_retry.cfg` checks `WakeAfterStatedReset` with the transcript
  `retry-after: 5 minutes` (`MCUnitTranscripts`), and TLC finds it violated.
  `extractResetDuration` tries the bare-seconds header pattern first and
  reads it as 5 s; the pattern with a unit, written (its comment and spec
  4.6.2 item 2) to read `retry after X minutes` with an optional hyphen,
  never sees it. The limit is recorded 295 s early, and the daemon wakes the
  agents, spending a wake attempt, two minutes before the stated reset.
- **idle_dolt.** `ensureDoltForSling` reads the idle state once, and sends a
  wake signal only when it finds Dolt idle-stopped. Two traces let a sling
  run while Dolt is stopped. In the first, the read falls inside the daemon's
  non-atomic rewrite of `idle-state.json`, so the sling sees no state. In the
  second, the daemon idle-stops Dolt right after the check.

**Why the bounds are enough.**

- Two dispatchers are the fewest that contend for the flock. Two beads are the
  fewest that contend for one slot.
- `maxDispatchFailures` is the code's 3, so the breaker threshold is reached.
- A single bd failure, crash or reopen already reaches every interleaving that
  the findings need.
- The liveness runs are smaller than the safety runs. With two beads, two
  dispatchers and failures, the state graph is beyond a 5-minute check. The
  two liveness runs split that space: failures and convoy with one bead;
  contention with two beads.

Bad behaviours in the liveness state space, and what the runs do about them:

- **The threshold label write.** It is infallible in the liveness run, because
  its failure is exactly the linger finding.
- **Reopens.** They are off in the liveness runs, because a reopen lets an
  in-flight enqueue re-queue a quarantined bead, which is the second linger
  path.
- **Starvation.** With one slot, a failing bead that is re-enqueued after every
  quarantine can be picked first in every batch and starve the others.
  `QueuedBeadLeavesQueue` therefore assumes that enqueueing eventually stops.

For IdleWake, `idleWaitMax` is 60 s rather than the code's 5 min. With a
60 s clamp the deacon still takes 12 ticks, so the 5 s tick and the deadline
both matter. The backoff table still runs through its cap of 300 s in the
daemon's state.

**Fairness.**

- Dispatchers are weakly fair. The daemon heartbeat runs `gt queue run`
  periodically, and each run goes to completion.
- Enqueuers are weakly fair once started, because a started CLI command runs
  to its end. Starting a new enqueue is never forced.
- `PolecatDone` is weakly fair, because polecats finish their work.
- Nothing is assumed about the operator, manual slings, reopens or failures.
- In IdleWake, the heartbeat and the deacon's ticker are weakly fair, because
  both are timers. A started sling runs to its end.
- In RateLimit, the clock and the daemon heartbeat are weakly fair (timers),
  and a started recorder finishes its write. Recording, setting, clearing
  and crashes are never forced.

In RateLimit, both runs record two limits, the fewest for one to replace
the other and for the daemon's save of the older one to overwrite the newer.
The live run also has `clear` and `set`, so a limit is cleared, replaced,
or left to run its three attempts. Time is relative (see section 2),
so the reachable states do not depend on the length of the limit beyond
whether it has expired.

The run list holds twelve runs. Three observations have no recorded run
and are kept as hazards in `PROJECT.json`:

- rl_retry above: `retry-after: 5 minutes` is read as 5 s
  (usagelimit_cmd.go:357);
- a `--force` enqueue of a hooked bead undone by the post-dispatch strip
  and swap (queue_dispatch.go:349);
- the daemon heartbeat can delete the wake file between the sling's
  `SignalWake` and the deacon's next tick, so the deacon sleeps to its
  deadline rather than waking within the promised 5 s
  (deacon_idle_wait.go:80).

Symmetry over beads and dispatchers is used in the safety runs only.

**Mutants.** `PROJECT.json` lists one mutant per property of each passing run,
each a plausible slip in the code. Each has TLC find a violation:

- breaker skip dropped;
- the enqueue's metadata write treated as best effort (its error ignored);
- `dispatch_failures` formatted only from two failures on;
- the metadata block cut at the last delimiter rather than the first;
- the post-dispatch strip and swap left out;
- TryLock result ignored;
- capacity off by one;
- counter written back without the increment;
- threshold label write leaving `gt:queued`;
- backoff without the 5-minute cap;
- backoff floor compared with `<=`;
- `ConsumeWakeSignal` reporting no signal after removing one;
- `ShouldWake` without the attempt cap;
- `RecordWakeAttempt` without the increment;
- `ShouldWake` stopping one attempt short of `MaxWakeAttempts`.

## 4. Plan for the remaining parts

1. **QueueMetadata.tla: done** (see section 2). Still open: the legacy
   comma-separated `vars` key, and values holding a newline (a hazard in
   `PROJECT.json`).
2. **Convoy queue enqueuer: done** (`ConvoyQueueFilter`, `ConvoyQueueNext`,
   `ConvoyQueueEnd`). Still open: `getBeadInfo` failing inside the filter,
   which skips the bead, and a convoy tracking only some of the beads.
3. **IdleWake.tla: done** (see section 2). Still open: a refinement of the
   daemon heartbeat once its source is available, and the deacon patrol
   loop's use of idle-wait.
4. **RateLimit.tla: done** (see section 2). `RateLimit_retry.cfg`
   reproduces `retry-after: 5 minutes` mis-read as 5 s.
5. **QueueAbstract.tla: done** (`QueueRefinement`, checked in the safety
   run). Still open: the converse, that a committed enqueue is not lost. A
   `--force` enqueue of a hooked bead can be undone by the dispatcher's
   post-dispatch strip and swap (a hazard in `PROJECT.json`). The abstract
   queue cannot say so while that enqueue stays `backed`.
6. **Done:** `EnqueuedBeadNotQuarantined` checks the metadata-before-label
   order at sling_queue.go:160-170.
7. **Done:** the per-directory `bd ready` of `getReadyQueuedBeads`, with
   partial failure, in the safety run; `runBatchEnqueue`; the failing
   `SaveQueueState`; and the `gt ratelimit` copies of the usagelimit
   commands. Still open: two-bead batches in a run of their own, which
   needs a run slot and a smaller dispatcher side.

## 5. Not modelled

- executeSling's internals, tmux sessions, wakeRigAgents, formula cooking,
  event logs and output formatting: these are external or pure I/O.
- Transcript reading (`readTranscript`), `gt usagelimit status` and
  `formatUsagelimitDuration`: file I/O and output formatting.
- `gt ratelimit status`, `readTranscript` and `formatRatelimitDuration` in
  `sling_dolt.go`: the same I/O and formatting as their usagelimit copies.
- `ParseRateLimitOutput`, `extractResetTime` and `parseAmount`: nothing in
  `src` calls them. The daemon reads `state.json` through `LoadState` and
  `ShouldWake`, and they are modelled. As pure functions they could only be
  checked by a run of their own, and that run would reach no state of the
  system.
- `splitVars` and the rebuilding of `SlingParams` from the metadata: they
  feed `executeSling`, which is outside the model. The vars themselves
  are modelled in the codec.
- The unit tests (`queue_state_test.go`, `unnamed/part_002`): they are used
  only to cross-check expectations.
