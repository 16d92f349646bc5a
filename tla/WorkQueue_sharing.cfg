\* Two beads queued by one `gt convoy queue` run share one polecat slot
\* under one dispatcher; beads are closed and reopened under it, and the
\* dispatcher may crash once.  No bd failure; executeSling fails only on a
\* bead no longer open.
CONSTANTS
    Beads = {b1, b2}
    Dispatchers = {d1}
    Enqueuers = {e1}
    ConvoyEnqueuers = {e1}
    MaxSlingBeads = 0
    Dirs = {t1}
    BeadDir <- MCOneDir
    MaxPolecats = 1
    BatchSize = 2
    MaxDispatchFailures = 3
    ForceFlags = {FALSE, TRUE}
    AutoConvoy = FALSE
    SlingMayFail = FALSE
    FallibleCalls = {}
    MaxBdFailures = 0
    MaxCrashes = 1
    MaxReopens = 1
    NoMeta = NoMeta
    NoHolder = NoHolder
    NoBead = NoBead
SPECIFICATION FairSpec
INVARIANT DispatchConsumesEnqueue
PROPERTY QueuedBeadLeavesQueue
