----------------------------- MODULE WorkQueue -----------------------------
(***************************************************************************)
(* The deferred work queue of gastown: enqueue (sling_queue.go enqueueBead) *)
(* and capacity-aware dispatch (queue_dispatch.go dispatchQueuedWork) as   *)
(* independent processes that share the bead store ("bd"), the dispatch   *)
(* file lock and queue-state.json.                                         *)
(*                                                                         *)
(* Every "bd update" is one atomic store write and a step of its own: the  *)
(* code runs each as a separate subprocess, so other processes interleave  *)
(* between them.  A bead description is abstracted to the queue metadata   *)
(* it parses to (NoMeta when ParseQueueMetadata returns nil); the text     *)
(* codec is QueueMetadata.tla, and MetadataReadsBack and                   *)
(* StripRemovesMetadata check that this reading is sound for every write   *)
(* of the queue.  Metadata keeps only                                      *)
(* dispatch_failures: target_rig is always set by enqueue, the other       *)
(* fields are passed through to the executor unread.                      *)
(***************************************************************************)
EXTENDS Naturals, FiniteSets

CONSTANTS
    Beads,                \* bead ids (model values)
    Dispatchers,          \* concurrent `gt queue run` processes (CLI, daemon)
    Enqueuers,            \* concurrent enqueue processes (sling --queue, convoy queue)
    ConvoyEnqueuers,      \* the enqueuers that are `gt convoy queue` runs
    MaxSlingBeads,        \* most beads one runBatchEnqueue call is given (0: none)
    Dirs,                 \* beadsSearchDirs: the bead directories bd ready scans
    BeadDir,              \* the directory whose bd ready returns each bead
    MaxPolecats,          \* queue.max_polecats, 0 = unlimited
    BatchSize,            \* queue.batch_size
    MaxDispatchFailures,  \* maxDispatchFailures (3 in the code)
    ForceFlags,           \* values of EnqueueOptions.Force the enqueuers use
    AutoConvoy,           \* TRUE: enqueue runs without NoConvoy (auto-convoy step)
    SlingMayFail,         \* TRUE: executeSling may fail on an open bead
    FallibleCalls,        \* the bd invocations that may fail in this model
    MaxBdFailures,        \* bound on failed bd invocations in a behaviour
    MaxCrashes,           \* bound on dispatcher process crashes
    MaxReopens,           \* bound on beads reopened after their polecat closed them
    NoMeta, NoHolder, NoBead  \* sentinels (model values)

\* The bd invocations, and the dispatcher's save of queue-state.json,
\* named after the step of the code that issues them.
BdCalls == {"desc", "label", "rollback", "convoy", "ready",
            "quarantine", "strip", "swap", "record", "failLabel", "saveState"}

\* The description codec (queue_metadata.go).
QM == INSTANCE QueueMetadata

ASSUME /\ MaxPolecats \in Nat /\ BatchSize \in Nat \ {0}
       /\ MaxDispatchFailures \in Nat \ {0}
       /\ ConvoyEnqueuers \subseteq Enqueuers /\ MaxSlingBeads \in Nat
       /\ Dirs # {} /\ BeadDir \in [Beads -> Dirs]
       /\ ForceFlags \subseteq BOOLEAN /\ ForceFlags # {}
       /\ AutoConvoy \in BOOLEAN /\ SlingMayFail \in BOOLEAN
       /\ FallibleCalls \subseteq BdCalls
       /\ {MaxBdFailures, MaxCrashes, MaxReopens} \subseteq Nat

VARIABLES
    status,     \* bead status in the store: "open", "hooked" or "closed"
    labels,     \* bead labels: subsets of {"queued", "dispatched", "failed"}
    desc,       \* parsed queue metadata of the description, or NoMeta
    live,       \* polecat working on a bead: "none", "queue" or "manual"
    qstate,     \* queue-state.json: [paused, lastCount]
    lock,       \* holder of .runtime/queue-dispatch.lock, or NoHolder
    dpc, dv,    \* dispatcher program counters and locals
    epc, ebead, \* enqueuer program counters and the bead each is enqueueing
    ecand,      \* enqueue loops: beads left to enqueue, the --force flag, and
                \* whether enqueueBead returns to a loop (convoy queue, batch)
    recorded,   \* ghost: failed dispatches persisted since the last enqueue
    attempts,   \* ghost: failed executeSling calls since the last enqueue
    backed,     \* ghost: an enqueue committed and no dispatcher has taken the bead since
    unbacked,   \* ghost: queue dispatches of beads with no such enqueue
    bdFails, crashes, reopens  \* bound counters

storeVars == <<status, labels, desc, live>>
procVars  == <<lock, dpc, dv, epc, ebead, ecand>>
ghostVars == <<recorded, attempts, backed, unbacked>>
vars == <<status, labels, desc, live, qstate, lock, dpc, dv, epc, ebead, ecand,
          ghostVars, bdFails, crashes, reopens>>

Labels == {"queued", "dispatched", "failed"}
Meta   == [failures : 0..MaxDispatchFailures]
Descs  == Meta \cup {NoMeta}
QState == [paused : BOOLEAN, lastCount : 0..BatchSize]

\* NewQueueMetadata: a fresh block, no failures recorded.
NewQueueMetadata == [failures |-> 0]

\* LoadQueueState of a missing file: not paused, never dispatched.
QueueState0 == [paused |-> FALSE, lastCount |-> 0]

\* QueueState methods; who paused and the timestamps are not modelled.
SetPaused(s)         == [s EXCEPT !.paused = TRUE]
SetResumed(s)        == [s EXCEPT !.paused = FALSE]
RecordDispatch(s, n) == [s EXCEPT !.lastCount = n]

\* SaveQueueState: MkdirAll, marshal, write a temp file and rename it over
\* queue-state.json.  A failing step removes the temp file and returns the
\* error, leaving the old file; the rename makes the write all or nothing.
SaveQueueState(old, new, ok) == IF ok THEN new ELSE old

DLocal0 == [cap |-> 0, pending |-> {}, sdesc |-> [b \in Beads |-> NoMeta],
            todo |-> 0, cur |-> NoBead, dispatched |-> 0, fresh |-> QueueState0]

\* computeDispatchCount: min of batch, capacity (0 = unlimited) and ready.
computeDispatchCount(capacity, batchSize, readyCount) ==
    LET a == IF capacity > 0 /\ capacity < batchSize THEN capacity ELSE batchSize
    IN  IF readyCount < a THEN readyCount ELSE a

\* Mutant of the circuit-breaker filter: the skip dropped.
ReadyQueuedNoBreaker(b) ==
    "queued" \in labels[b] /\ status[b] = "open"

\* getReadyQueuedBeadsFrom: `bd ready --label gt:queued` returns open beads
\* with the label; the circuit breaker skips beads whose metadata records
\* maxDispatchFailures or more failures.
ReadyQueued(b) ==
    /\ "queued" \in labels[b]
    /\ status[b] = "open"
    /\ ~(desc[b] # NoMeta /\ desc[b].failures >= MaxDispatchFailures)

\* The outcomes of one bd invocation: it may fail only if the model lets
\* that call fail and the failure budget is not spent.
BdOutcome(call) ==
    IF call \in FallibleCalls /\ bdFails < MaxBdFailures
    THEN {TRUE, FALSE} ELSE {TRUE}

CountBd(ok) == bdFails' = IF ok THEN bdFails ELSE bdFails + 1

Init ==
    /\ status = [b \in Beads |-> "open"]
    /\ labels = [b \in Beads |-> {}]
    /\ desc = [b \in Beads |-> NoMeta]
    /\ live = [b \in Beads |-> "none"]
    /\ qstate = QueueState0
    /\ lock = NoHolder
    /\ dpc = [d \in Dispatchers |-> "idle"]
    /\ dv = [d \in Dispatchers |-> DLocal0]
    /\ epc = [e \in Enqueuers |-> "idle"]
    /\ ebead = [e \in Enqueuers |-> NoBead]
    /\ ecand = [e \in Enqueuers |-> [todo |-> {}, force |-> FALSE, loop |-> FALSE]]
    /\ recorded = [b \in Beads |-> 0]
    /\ attempts = [b \in Beads |-> 0]
    /\ backed = [b \in Beads |-> FALSE] /\ unbacked = 0
    /\ bdFails = 0 /\ crashes = 0 /\ reopens = 0

-----------------------------------------------------------------------------
(* Enqueue: enqueueBead, one step per bd invocation.                       *)

\* Read the bead, pass the idempotency and status checks and build the
\* metadata.  An actively queued bead (gt:queued and open) is a no-op; a
\* hooked bead needs --force.  The failing validations (unknown bead or
\* rig, cross-rig guard, formula) return before any write: stutters.
EnqueueChecks(b, force) ==
    /\ ~("queued" \in labels[b] /\ status[b] = "open")
    /\ status[b] = "hooked" => force

\* `gt sling --queue` of one bead: one enqueueBead call.
EnqueueStart(e, b) ==
    /\ epc[e] = "idle" /\ e \notin ConvoyEnqueuers
    /\ \E force \in ForceFlags : EnqueueChecks(b, force)
    /\ epc' = [epc EXCEPT ![e] = "writeDesc"]
    /\ ebead' = [ebead EXCEPT ![e] = b]
    /\ ecand' = [ecand EXCEPT ![e].loop = FALSE]
    /\ UNCHANGED <<storeVars, qstate, lock, dpc, dv, ghostVars, bdFails, crashes, reopens>>

\* enqueueBead returns; a convoy queue run or a batch goes on with its next
\* bead.
EnqueueDone(e) ==
    /\ epc' = [epc EXCEPT ![e] = IF ecand[e].loop THEN "loop" ELSE "idle"]
    /\ ebead' = [ebead EXCEPT ![e] = NoBead]

\* Mutant: the metadata write treated as best effort, its error ignored.
EnqueueWriteDescIgnoreError(e) ==
    LET b == ebead[e] IN
    /\ epc[e] = "writeDesc"
    /\ \E ok \in BdOutcome("desc") :
        /\ desc' = IF ok THEN [desc EXCEPT ![b] = NewQueueMetadata] ELSE desc
        /\ recorded' = IF ok THEN [recorded EXCEPT ![b] = 0] ELSE recorded
        /\ attempts' = IF ok THEN [attempts EXCEPT ![b] = 0] ELSE attempts
        /\ epc' = [epc EXCEPT ![e] = "addLabel"]
        /\ CountBd(ok)
    /\ UNCHANGED <<status, labels, live, qstate, lock, dpc, dv, ecand, ebead, backed, unbacked, crashes, reopens>>

\* Write Strip(old) + Format(meta) FIRST; on failure return the error.
EnqueueWriteDesc(e) ==
    LET b == ebead[e] IN
    /\ epc[e] = "writeDesc"
    /\ \E ok \in BdOutcome("desc") :
        /\ desc' = IF ok THEN [desc EXCEPT ![b] = NewQueueMetadata] ELSE desc
        /\ recorded' = IF ok THEN [recorded EXCEPT ![b] = 0] ELSE recorded
        /\ attempts' = IF ok THEN [attempts EXCEPT ![b] = 0] ELSE attempts
        /\ IF ok THEN /\ epc' = [epc EXCEPT ![e] = "addLabel"]
                      /\ UNCHANGED ebead
                 ELSE EnqueueDone(e)
        /\ CountBd(ok)
    /\ UNCHANGED <<status, labels, live, qstate, lock, dpc, dv, ecand, backed, unbacked, crashes, reopens>>

\* Add gt:queued, the commit of the enqueue; on failure roll back.
EnqueueAddLabel(e) ==
    LET b == ebead[e] IN
    /\ epc[e] = "addLabel"
    /\ \E ok \in BdOutcome("label") :
        /\ labels' = IF ok THEN [labels EXCEPT ![b] = @ \cup {"queued"}] ELSE labels
        /\ backed' = IF ok THEN [backed EXCEPT ![b] = TRUE] ELSE backed
        /\ IF ~ok THEN /\ epc' = [epc EXCEPT ![e] = "rollback"]
                       /\ UNCHANGED ebead
           ELSE IF AutoConvoy /\ e \notin ConvoyEnqueuers THEN /\ epc' = [epc EXCEPT ![e] = "convoy"]
                                   /\ UNCHANGED ebead
           ELSE EnqueueDone(e)
        /\ CountBd(ok)
    /\ UNCHANGED <<status, desc, live, qstate, lock, dpc, dv, ecand, recorded, attempts, unbacked, crashes, reopens>>

\* Best-effort rollback: rewrite the stripped base description.
EnqueueRollback(e) ==
    LET b == ebead[e] IN
    /\ epc[e] = "rollback"
    /\ \E ok \in BdOutcome("rollback") :
        /\ desc' = IF ok THEN [desc EXCEPT ![b] = NoMeta] ELSE desc
        /\ CountBd(ok)
    /\ EnqueueDone(e)
    /\ UNCHANGED <<status, labels, live, qstate, lock, dpc, dv, ecand, ghostVars, crashes, reopens>>

\* Auto-convoy: if a convoy is created (it may fail, or the bead may be
\* tracked already), re-persist the metadata built at the start of the
\* call, now with the convoy id, over the current description.
EnqueueConvoy(e) ==
    LET b == ebead[e] IN
    /\ epc[e] = "convoy"
    /\ \E created \in BOOLEAN, ok \in BdOutcome("convoy") :
        /\ desc' = IF created /\ ok THEN [desc EXCEPT ![b] = NewQueueMetadata] ELSE desc
        /\ bdFails' = IF created /\ ~ok THEN bdFails + 1 ELSE bdFails
    /\ EnqueueDone(e)
    /\ UNCHANGED <<status, labels, live, qstate, lock, dpc, dv, ecand, ghostVars, crashes, reopens>>

\* runConvoyQueue's filter over the tracked issues (every bead is tracked
\* by the convoy): skip closed beads, assigned (hooked) beads unless
\* --force, and beads already labelled gt:queued.  No candidate: return.
\* The issue list and the per-bead label reads are taken as one snapshot.
ConvoyQueueFilter(e) ==
    /\ epc[e] = "idle" /\ e \in ConvoyEnqueuers
    /\ \E force \in ForceFlags :
        LET cand == {b \in Beads : /\ status[b] # "closed"
                                   /\ status[b] = "hooked" => force
                                   /\ "queued" \notin labels[b]}
        IN  /\ cand # {}
            /\ ecand' = [ecand EXCEPT ![e] = [todo |-> cand, force |-> force, loop |-> TRUE]]
    /\ epc' = [epc EXCEPT ![e] = "loop"]
    /\ UNCHANGED <<storeVars, qstate, lock, dpc, dv, ebead, ghostVars, bdFails, crashes, reopens>>

\* An enqueue loop takes its next bead: enqueueBead on it, or, when a check
\* fails, the error printed and the bead skipped.
EnqueueLoopNext(e, b) ==
    /\ epc[e] = "loop" /\ b \in ecand[e].todo
    /\ ecand' = [ecand EXCEPT ![e].todo = @ \ {b}]
    /\ IF EnqueueChecks(b, ecand[e].force)
       THEN /\ epc' = [epc EXCEPT ![e] = "writeDesc"]
            /\ ebead' = [ebead EXCEPT ![e] = b]
       ELSE UNCHANGED <<epc, ebead>>
    /\ UNCHANGED <<storeVars, qstate, lock, dpc, dv, ghostVars, bdFails, crashes, reopens>>

\* runConvoyQueue's loop: enqueueBead(c, rig, {NoConvoy, Force}).
ConvoyQueueNext(e, b) == e \in ConvoyEnqueuers /\ EnqueueLoopNext(e, b)

\* Every candidate tried: the run returns.
ConvoyQueueEnd(e) ==
    /\ e \in ConvoyEnqueuers
    /\ epc[e] = "loop" /\ ecand[e].todo = {}
    /\ epc' = [epc EXCEPT ![e] = "idle"]
    /\ ebead' = [ebead EXCEPT ![e] = NoBead]
    /\ UNCHANGED <<storeVars, qstate, lock, dpc, dv, ecand, ghostVars, bdFails, crashes, reopens>>

\* runBatchEnqueue: `gt sling --queue` of several beads to a rig (the
\* dry run only prints).  Every bead gets enqueueBead with the sling's
\* --force and --no-convoy; no filter first.
BatchEnqueueStart(e, S) ==
    /\ epc[e] = "idle" /\ e \notin ConvoyEnqueuers
    /\ S # {} /\ Cardinality(S) <= MaxSlingBeads
    /\ \E force \in ForceFlags :
        ecand' = [ecand EXCEPT ![e] = [todo |-> S, force |-> force, loop |-> TRUE]]
    /\ epc' = [epc EXCEPT ![e] = "loop"]
    /\ UNCHANGED <<storeVars, qstate, lock, dpc, dv, ebead, ghostVars, bdFails, crashes, reopens>>

\* The loop over the batch; a failed enqueue is printed and skipped.
BatchEnqueueNext(e, b) == e \notin ConvoyEnqueuers /\ EnqueueLoopNext(e, b)

\* Every bead tried: "Queued n/m beads", return nil.
BatchEnqueueEnd(e) ==
    /\ e \notin ConvoyEnqueuers
    /\ epc[e] = "loop" /\ ecand[e].todo = {}
    /\ epc' = [epc EXCEPT ![e] = "idle"]
    /\ UNCHANGED <<storeVars, qstate, lock, dpc, dv, ebead, ecand, ghostVars, bdFails, crashes, reopens>>

-----------------------------------------------------------------------------
(* Dispatch: dispatchQueuedWork, one step per store or file access.        *)

\* Deferred fileLock.Unlock() on every return path; locals are discarded.
Release(d) ==
    /\ lock' = NoHolder
    /\ dpc' = [dpc EXCEPT ![d] = "idle"]
    /\ dv' = [dv EXCEPT ![d] = DLocal0]

\* Mutant: the TryLock result ignored.
DispatchStartNoLock(d) ==
    /\ dpc[d] = "idle" /\ ~qstate.paused
    /\ lock' = d
    /\ dpc' = [dpc EXCEPT ![d] = "capacity"]
    /\ UNCHANGED <<storeVars, qstate, dv, epc, ebead, ecand, ghostVars, bdFails, crashes, reopens>>

\* TryLock, then LoadQueueState.  When the lock is held the call returns
\* (0, nil) without a write; when paused it takes and drops the lock: both
\* are stutters.  The queue.enabled gate only returns early, also a stutter.
DispatchStart(d) ==
    /\ dpc[d] = "idle"
    /\ lock = NoHolder
    /\ ~qstate.paused
    /\ lock' = d
    /\ dpc' = [dpc EXCEPT ![d] = "capacity"]
    /\ UNCHANGED <<storeVars, qstate, dv, epc, ebead, ecand, ghostVars, bdFails, crashes, reopens>>

\* Mutant of the capacity step: one slot too few.
DispatchCapacityWith(d, capacity) ==
    /\ dpc[d] = "capacity"
    /\ IF MaxPolecats > 0 /\ capacity <= 0
       THEN Release(d)
       ELSE /\ dv' = [dv EXCEPT ![d].cap = capacity]
            /\ dpc' = [dpc EXCEPT ![d] = "query"]
            /\ UNCHANGED lock
    /\ UNCHANGED <<storeVars, qstate, epc, ebead, ecand, ghostVars, bdFails, crashes, reopens>>
DispatchCapacityOffByOne(d) ==
    DispatchCapacityWith(d, IF MaxPolecats > 0
                            THEN MaxPolecats - Cardinality({b \in Beads : live[b] # "none"}) - 1
                            ELSE 0)

\* countActivePolecats and the capacity check (0 = unlimited).
DispatchCapacity(d) ==
    LET active   == Cardinality({b \in Beads : live[b] # "none"})
        capacity == IF MaxPolecats > 0 THEN MaxPolecats - active ELSE 0
    IN
    /\ dpc[d] = "capacity"
    /\ IF MaxPolecats > 0 /\ capacity <= 0
       THEN Release(d)
       ELSE /\ dv' = [dv EXCEPT ![d].cap = capacity]
            /\ dpc' = [dpc EXCEPT ![d] = "query"]
            /\ UNCHANGED lock
    /\ UNCHANGED <<storeVars, qstate, epc, ebead, ecand, ghostVars, bdFails, crashes, reopens>>

\* getReadyQueuedBeads: one bd ready per directory; a directory whose call
\* fails is skipped, the others' beads are merged by ID (a set: `seen`),
\* and the result is an error only when every directory failed.  The calls
\* read disjoint beads, so running them as one step loses no interleaving.
getReadyQueuedBeads(okDirs) ==
    {b \in Beads : BeadDir[b] \in okDirs /\ ReadyQueued(b)}

\* The directories whose bd ready succeeds: all, or, when the model lets
\* that call fail, any subset whose failures fit the failure budget.
ReadyOutcomes ==
    {ok \in SUBSET Dirs :
        \/ ok = Dirs
        \/ "ready" \in FallibleCalls /\ bdFails + Cardinality(Dirs \ ok) <= MaxBdFailures}

\* dispatchQueuedWork's query: an error when all directories failed,
\* return 0 when the ready set is empty, otherwise the snapshot and the
\* dispatch count.
DispatchQuery(d) ==
    /\ dpc[d] = "query"
    /\ \E ok \in ReadyOutcomes :
        LET ready == getReadyQueuedBeads(ok) IN
        /\ IF ok # {} /\ ready # {}
           THEN /\ dv' = [dv EXCEPT ![d].pending = ready,
                           ![d].sdesc = [b \in Beads |-> IF b \in ready THEN desc[b] ELSE NoMeta],
                           ![d].todo = computeDispatchCount(dv[d].cap, BatchSize, Cardinality(ready))]
                /\ dpc' = [dpc EXCEPT ![d] = "pick"]
                /\ UNCHANGED lock
           ELSE Release(d)
        /\ bdFails' = bdFails + Cardinality(Dirs \ ok)
    /\ UNCHANGED <<storeVars, qstate, epc, ebead, ecand, ghostVars, crashes, reopens>>

\* Take bead b of the snapshot off the batch.
Consume(d, b) ==
    [dv EXCEPT ![d].pending = @ \ {b}, ![d].todo = @ - 1, ![d].cur = b]

\* dispatchSingleBead on a snapshot without metadata: quarantine at once
\* (best effort), the loop continues.
DispatchQuarantine(d, b) ==
    /\ dpc[d] = "pick" /\ dv[d].todo > 0 /\ b \in dv[d].pending
    /\ dv[d].sdesc[b] = NoMeta
    /\ \E ok \in BdOutcome("quarantine") :
        /\ labels' = IF ok THEN [labels EXCEPT ![b] = (@ \ {"queued"}) \cup {"failed"}]
                           ELSE labels
        /\ CountBd(ok)
    /\ dv' = Consume(d, b)
    /\ backed' = [backed EXCEPT ![b] = FALSE]
    /\ UNCHANGED <<status, desc, live, qstate, lock, dpc, epc, ebead, ecand, recorded, attempts, unbacked, crashes, reopens>>

\* executeSling (NoBoot, no Force): it fails on a bead that is no longer
\* open ("already hooked"), and may fail on an open one; on success the
\* bead is hooked, a polecat spawned and the enqueue consumed, and the
\* dispatcher goes on to step cleanup (the post-dispatch cleanup).
DispatchSlingThen(d, b, cleanup) ==
    /\ dpc[d] = "pick" /\ dv[d].todo > 0 /\ b \in dv[d].pending
    /\ dv[d].sdesc[b] # NoMeta
    /\ \E ok \in IF SlingMayFail THEN {TRUE, FALSE} ELSE {TRUE} :
        IF ok /\ status[b] = "open"
        THEN /\ status' = [status EXCEPT ![b] = "hooked"]
             /\ live' = [live EXCEPT ![b] = "queue"]
             /\ dv' = [Consume(d, b) EXCEPT ![d].dispatched = @ + 1]
             /\ dpc' = [dpc EXCEPT ![d] = cleanup]
             /\ backed' = [backed EXCEPT ![b] = FALSE]
             /\ unbacked' = IF backed[b] THEN unbacked ELSE unbacked + 1
             /\ UNCHANGED attempts
        ELSE /\ dv' = Consume(d, b)
             /\ dpc' = [dpc EXCEPT ![d] = "record"]
             /\ attempts' = [attempts EXCEPT ![b] = @ + 1]
             /\ UNCHANGED <<status, live, backed, unbacked>>
    /\ UNCHANGED <<labels, desc, qstate, lock, epc, ebead, ecand, recorded, bdFails, crashes, reopens>>

\* Mutant: the post-dispatch cleanup (strip and swap) left out.
DispatchSlingNoCleanup(d, b) == DispatchSlingThen(d, b, "pick")

DispatchSling(d, b) == DispatchSlingThen(d, b, "strip")

\* Post-dispatch cleanup 1: write StripQueueMetadata(b.Description), best effort.
DispatchStrip(d) ==
    LET b == dv[d].cur IN
    /\ dpc[d] = "strip"
    /\ \E ok \in BdOutcome("strip") :
        /\ desc' = IF ok THEN [desc EXCEPT ![b] = NoMeta] ELSE desc
        /\ CountBd(ok)
    /\ dpc' = [dpc EXCEPT ![d] = "swap"]
    /\ UNCHANGED <<status, labels, live, qstate, lock, dv, epc, ebead, ecand, ghostVars, crashes, reopens>>

\* Post-dispatch cleanup 2: swap gt:queued for gt:queue-dispatched, best effort.
DispatchSwap(d) ==
    LET b == dv[d].cur IN
    /\ dpc[d] = "swap"
    /\ \E ok \in BdOutcome("swap") :
        /\ labels' = IF ok THEN [labels EXCEPT ![b] = (@ \ {"queued"}) \cup {"dispatched"}]
                           ELSE labels
        /\ CountBd(ok)
    /\ dpc' = [dpc EXCEPT ![d] = "pick"]
    /\ UNCHANGED <<status, desc, live, qstate, lock, dv, epc, ebead, ecand, ghostVars, crashes, reopens>>

\* Mutant of recordDispatchFailure: the counter written back without the
\* increment.
DispatchRecordFailureNoIncrement(d) ==
    LET b == dv[d].cur
        n == dv[d].sdesc[b].failures
    IN
    /\ dpc[d] = "record"
    /\ \E ok \in BdOutcome("record") :
        /\ desc' = IF ok THEN [desc EXCEPT ![b] = [failures |-> n]] ELSE desc
        /\ recorded' = IF ok THEN [recorded EXCEPT ![b] = @ + 1] ELSE recorded
        /\ CountBd(ok)
    /\ UNCHANGED attempts
    /\ dpc' = [dpc EXCEPT ![d] = IF n >= MaxDispatchFailures THEN "failLabel" ELSE "pick"]
    /\ UNCHANGED <<status, labels, live, qstate, lock, dv, epc, ebead, ecand, backed, unbacked, crashes, reopens>>

\* recordDispatchFailure: re-parse the snapshot description, increment the
\* counter and rewrite the description (best effort).
DispatchRecordFailure(d) ==
    LET b == dv[d].cur
        n == dv[d].sdesc[b].failures + 1
    IN
    /\ dpc[d] = "record"
    /\ \E ok \in BdOutcome("record") :
        /\ desc' = IF ok THEN [desc EXCEPT ![b] = [failures |-> n]] ELSE desc
        /\ recorded' = IF ok THEN [recorded EXCEPT ![b] = @ + 1] ELSE recorded
        /\ CountBd(ok)
    /\ UNCHANGED attempts
    /\ dpc' = [dpc EXCEPT ![d] = IF n >= MaxDispatchFailures THEN "failLabel" ELSE "pick"]
    /\ UNCHANGED <<status, labels, live, qstate, lock, dv, epc, ebead, ecand, backed, unbacked, crashes, reopens>>

\* Mutant: gt:dispatch-failed added, gt:queued left in place.
DispatchFailLabelKeepQueued(d) ==
    LET b == dv[d].cur IN
    /\ dpc[d] = "failLabel"
    /\ \E ok \in BdOutcome("failLabel") :
        /\ labels' = IF ok THEN [labels EXCEPT ![b] = @ \cup {"failed"}] ELSE labels
        /\ CountBd(ok)
    /\ dpc' = [dpc EXCEPT ![d] = "pick"]
    /\ UNCHANGED <<status, desc, live, qstate, lock, dv, epc, ebead, ecand, ghostVars, crashes, reopens>>

\* recordDispatchFailure at the threshold: add gt:dispatch-failed and
\* remove gt:queued (best effort).
DispatchFailLabel(d) ==
    LET b == dv[d].cur IN
    /\ dpc[d] = "failLabel"
    /\ \E ok \in BdOutcome("failLabel") :
        /\ labels' = IF ok THEN [labels EXCEPT ![b] = (@ \ {"queued"}) \cup {"failed"}]
                           ELSE labels
        /\ CountBd(ok)
    /\ dpc' = [dpc EXCEPT ![d] = "pick"]
    /\ UNCHANGED <<status, desc, live, qstate, lock, dv, epc, ebead, ecand, ghostVars, crashes, reopens>>

\* After the loop: wakeRigAgents (no modelled state), then, if anything was
\* dispatched, re-read queue-state.json to keep a concurrent pause.
DispatchReload(d) ==
    /\ dpc[d] = "pick" /\ dv[d].todo = 0
    /\ IF dv[d].dispatched > 0
       THEN /\ dv' = [dv EXCEPT ![d].fresh = qstate]
            /\ dpc' = [dpc EXCEPT ![d] = "save"]
            /\ UNCHANGED lock
       ELSE Release(d)
    /\ UNCHANGED <<storeVars, qstate, epc, ebead, ecand, ghostVars, bdFails, crashes, reopens>>

\* freshState.RecordDispatch(dispatched); SaveQueueState, whose error is
\* only printed; return and unlock.
DispatchSave(d) ==
    /\ dpc[d] = "save"
    /\ \E ok \in BdOutcome("saveState") :
        /\ qstate' = SaveQueueState(qstate, RecordDispatch(dv[d].fresh, dv[d].dispatched), ok)
        /\ CountBd(ok)
    /\ Release(d)
    /\ UNCHANGED <<storeVars, epc, ebead, ecand, ghostVars, crashes, reopens>>

\* A dispatcher process dies mid-run; the OS drops its flock.
DispatcherCrash(d) ==
    /\ dpc[d] # "idle" /\ crashes < MaxCrashes
    /\ Release(d)
    /\ crashes' = crashes + 1
    /\ UNCHANGED <<storeVars, qstate, epc, ebead, ecand, ghostVars, bdFails, reopens>>

-----------------------------------------------------------------------------
(* The operator and the world outside the queue.                           *)

\* gt queue pause / resume: load, SetPaused / SetResumed, save.
QueuePause ==
    /\ ~qstate.paused
    /\ qstate' = SetPaused(qstate)
    /\ UNCHANGED <<storeVars, procVars, ghostVars, bdFails, crashes, reopens>>

QueueResume ==
    /\ qstate.paused
    /\ qstate' = SetResumed(qstate)
    /\ UNCHANGED <<storeVars, procVars, ghostVars, bdFails, crashes, reopens>>

\* A manual `gt sling` hooks an open bead and spawns a polecat on it.
ManualSling(b) ==
    /\ status[b] = "open" /\ live[b] = "none"
    /\ status' = [status EXCEPT ![b] = "hooked"]
    /\ live' = [live EXCEPT ![b] = "manual"]
    /\ UNCHANGED <<labels, desc, qstate, procVars, ghostVars, bdFails, crashes, reopens>>

\* A polecat finishes and closes its bead.
PolecatDone(b) ==
    /\ live[b] # "none"
    /\ live' = [live EXCEPT ![b] = "none"]
    /\ status' = [status EXCEPT ![b] = "closed"]
    /\ UNCHANGED <<labels, desc, qstate, procVars, ghostVars, bdFails, crashes, reopens>>

\* Someone reopens a closed bead.
Reopen(b) ==
    /\ status[b] = "closed" /\ reopens < MaxReopens
    /\ status' = [status EXCEPT ![b] = "open"]
    /\ reopens' = reopens + 1
    /\ UNCHANGED <<labels, desc, live, qstate, procVars, ghostVars, bdFails, crashes>>

-----------------------------------------------------------------------------

EnqueueStep(e) ==
    \/ \E b \in Beads : EnqueueStart(e, b)
    \/ EnqueueWriteDesc(e) \/ EnqueueAddLabel(e)
    \/ EnqueueRollback(e) \/ EnqueueConvoy(e)
    \/ ConvoyQueueFilter(e) \/ ConvoyQueueEnd(e)
    \/ \E b \in Beads : ConvoyQueueNext(e, b)
    \/ \E S \in SUBSET Beads : BatchEnqueueStart(e, S)
    \/ BatchEnqueueEnd(e)
    \/ \E b \in Beads : BatchEnqueueNext(e, b)

DispatchStep(d) ==
    \/ DispatchStart(d) \/ DispatchCapacity(d) \/ DispatchQuery(d)
    \/ \E b \in Beads : DispatchQuarantine(d, b) \/ DispatchSling(d, b)
    \/ DispatchStrip(d) \/ DispatchSwap(d)
    \/ DispatchRecordFailure(d) \/ DispatchFailLabel(d)
    \/ DispatchReload(d) \/ DispatchSave(d)

Next ==
    \/ \E e \in Enqueuers : EnqueueStep(e)
    \/ \E d \in Dispatchers : DispatchStep(d) \/ DispatcherCrash(d)
    \/ QueuePause \/ QueueResume
    \/ \E b \in Beads : ManualSling(b) \/ PolecatDone(b) \/ Reopen(b)

Spec == Init /\ [][Next]_vars

\* The daemon heartbeat re-runs `gt queue run` for ever and every started
\* CLI process runs to its end; polecats eventually finish.
Fairness ==
    /\ \A d \in Dispatchers : WF_vars(DispatchStep(d))
    /\ \A e \in Enqueuers : WF_vars(EnqueueStep(e) /\ epc[e] # "idle")
    /\ \A b \in Beads : WF_vars(PolecatDone(b))

FairSpec == Spec /\ Fairness

-----------------------------------------------------------------------------
(* Properties                                                              *)

TypeOK ==
    /\ status \in [Beads -> {"open", "hooked", "closed"}]
    /\ labels \in [Beads -> SUBSET Labels]
    /\ desc \in [Beads -> Descs]
    /\ live \in [Beads -> {"none", "queue", "manual"}]
    /\ qstate \in QState
    /\ lock \in Dispatchers \cup {NoHolder}
    /\ dpc \in [Dispatchers -> {"idle", "capacity", "query", "pick", "strip",
                                "swap", "record", "failLabel", "save"}]
    /\ epc \in [Enqueuers -> {"idle", "writeDesc", "addLabel", "rollback", "convoy", "loop"}]
    /\ ebead \in [Enqueuers -> Beads \cup {NoBead}]
    /\ ecand \in [Enqueuers -> [todo : SUBSET Beads, force : BOOLEAN, loop : BOOLEAN]]
    /\ recorded \in [Beads -> Nat] /\ attempts \in [Beads -> Nat]
    /\ backed \in [Beads -> BOOLEAN] /\ unbacked \in Nat
    /\ bdFails \in 0..MaxBdFailures /\ crashes \in 0..MaxCrashes
    /\ reopens \in 0..MaxReopens

\* Capacity: the polecats the queue has spawned and that are still alive
\* never exceed queue.max_polecats, whatever manual slings, crashed
\* dispatchers and concurrent `gt queue run` processes do (the flock, the
\* capacity read and computeDispatchCount together).
QueueCapacity ==
    MaxPolecats > 0 =>
        Cardinality({b \in Beads : live[b] = "queue"}) <= MaxPolecats

\* Circuit breaker: the dispatch_failures a bead's metadata carries is the
\* number of failed dispatches persisted since it was last enqueued; no
\* write of the description loses or invents a failure.
FailureCountExact ==
    \A b \in Beads : desc[b] # NoMeta => desc[b].failures = recorded[b]

\* Circuit breaker: after a bead is enqueued the executor is tried on it
\* at most maxDispatchFailures times before the queue stops retrying it,
\* plus one more for every counter update lost to a failed bd call or to a
\* dispatcher that died between executeSling and recordDispatchFailure.
RetriesBounded ==
    \A b \in Beads : attempts[b] <= MaxDispatchFailures + bdFails + crashes

\* The abstract queue, through the refinement mapping: the store status
\* and polecats are the abstract ones, and the abstract enqueue is the
\* ghost `backed` (set when gt:queued lands, cleared when a dispatcher
\* takes the bead).
QA == INSTANCE QueueAbstract WITH st <- status, run <- live, q <- backed

\* WorkQueue implements QueueAbstract: every successful executeSling of
\* dispatchSingleBead spawns within max_polecats a polecat on an open
\* bead and consumes one committed enqueue of it, nothing but a dispatch
\* withdraws a committed enqueue, and no enqueue step changes a bead's
\* status or polecat.
QueueRefinement == QA!ASpec

\* Enqueue order (sling_queue.go writes the metadata before it adds
\* gt:queued, and returns if that write fails): dispatchSingleBead never
\* quarantines for missing metadata a bead whose enqueue committed and
\* that no dispatcher has taken since.
EnqueuedBeadNotQuarantined ==
    [][\A d \in Dispatchers, b \in Beads :
         DispatchQuarantine(d, b) => ~backed[b]]_vars

\* No label conflation (queue_dispatch.go: the strip and the swap of
\* gt:queued for gt:queue-dispatched after executeSling): each queue
\* dispatch consumes an enqueue committed after the bead was last taken,
\* except after a cleanup lost to a failed bd call or to a dispatcher that
\* died between executeSling and the swap, when a closed and reopened bead
\* is dispatched again.
DispatchConsumesEnqueue ==
    unbacked <= bdFails + crashes

\* The full metadata an abstract description stands for: enqueue sets
\* target_rig, and recordDispatchFailure sets last_failure with the count.
FullMeta(m) == [QM!NewQueueMetadata("r") EXCEPT !.failures = m.failures,
                    !.last_failure = IF m.failures > 0 THEN "e" ELSE ""]

\* The metadata values for which a codec law holds over every bounded prior
\* description (NoMeta stands for one that fails).  Both sets are constant
\* images, which TLC computes once.
ReadsBack == {IF \A d \in QM!Descriptions :
        QM!ParseQueueMetadata(QM!AppendMetadata(QM!StripQueueMetadata(d),
                                                QM!FormatQueueMetadata(m)))
            = QM!Canonical(m)
              THEN m ELSE NoMeta : m \in QM!Metadatas}
StripsBack == {IF \A d \in QM!Descriptions :
        LET base == QM!StripQueueMetadata(d) IN
        /\ QM!ParseQueueMetadata(base) = NoMeta
        /\ QM!StripQueueMetadata(QM!AppendMetadata(base, QM!FormatQueueMetadata(m)))
               = QM!TrimRightNL(base)
               THEN m ELSE NoMeta : m \in QM!Metadatas}

\* Metadata codec: enqueueBead, the auto-convoy re-persist and
\* recordDispatchFailure all write StripQueueMetadata(old) + "\n" +
\* FormatQueueMetadata(meta).  For the metadata every bead holds, whatever
\* the description held before (user text, the delimiter inside it, lines
\* after it that look like keys), ParseQueueMetadata of what is written
\* gives back that metadata: a write never loses target_rig or the count.
MetadataReadsBack ==
    \A b \in Beads : desc[b] # NoMeta => FullMeta(desc[b]) \in ReadsBack

\* Metadata codec: the enqueue rollback and the post-dispatch cleanup write
\* StripQueueMetadata of the description.  What they write parses to no
\* metadata, and stripping a description holding a bead's metadata gives
\* back the one its enqueue started from, up to trailing newlines, so a
\* re-enqueue never stacks a second block.
StripRemovesMetadata ==
    \A b \in Beads : desc[b] # NoMeta => FullMeta(desc[b]) \in StripsBack

\* Every actively queued bead (gt:queued and open) eventually stops being
\* one: it is dispatched, quarantined or taken by someone else, provided
\* the queue is not left paused for ever and enqueueing eventually stops.
\* (While a failing bead is re-enqueued for ever it may be picked first
\* in every batch: dispatchQueuedWork does not share capacity fairly.)
QueuedBeadLeavesQueue ==
    <>[](~qstate.paused /\ \A e \in Enqueuers : epc[e] = "idle") =>
        \A b \in Beads :
            ("queued" \in labels[b] /\ status[b] = "open")
                ~> ~("queued" \in labels[b] /\ status[b] = "open")

\* Spec 8, mutual exclusion of post-dispatch labels: no bead carries
\* gt:queued and gt:queue-dispatched at once.  dispatchSingleBead swaps the
\* one for the other; enqueueBead adds gt:queued to any bead that is not
\* open with gt:queued already (sling_queue.go's idempotency check) and
\* removes no label.
PostDispatchLabelsExclusive ==
    \A b \in Beads : ~({"queued", "dispatched"} \subseteq labels[b])

\* queue_dispatch.go reloads queue-state.json before RecordDispatch "to
\* avoid clobbering concurrent pause": only a resume clears a pause.
PauseOnlyClearedByResume ==
    [][qstate.paused /\ ~qstate'.paused => QueueResume]_qstate

=============================================================================
