\* Every queued bead eventually leaves the queue, under the fairness the
\* daemon heartbeat gives; auto-convoy on, every bd call but the
\* quarantine label write may fail once (as may the save of
\* queue-state.json), no crash, no reopen; the bead is
\* enqueued alone or as a runBatchEnqueue list.
CONSTANTS
    Beads = {b1}
    Dispatchers = {d1}
    Enqueuers = {e1}
    ConvoyEnqueuers = {}
    MaxSlingBeads = 1
    Dirs = {t1}
    BeadDir <- MCOneDir
    MaxPolecats = 1
    BatchSize = 2
    MaxDispatchFailures = 3
    ForceFlags = {FALSE, TRUE}
    AutoConvoy = TRUE
    SlingMayFail = TRUE
    FallibleCalls = {"desc", "label", "rollback", "convoy", "ready", "quarantine", "strip", "swap", "record", "saveState"}
    MaxBdFailures = 1
    MaxCrashes = 0
    MaxReopens = 0
    NoMeta = NoMeta
    NoHolder = NoHolder
    NoBead = NoBead
SPECIFICATION FairSpec
PROPERTY QueuedBeadLeavesQueue
