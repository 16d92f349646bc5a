\* The threshold label write of recordDispatchFailure fails once: the bead
\* keeps gt:queued with a failure count the ready query filters out.
CONSTANTS
    Beads = {b1}
    Dispatchers = {d1}
    Enqueuers = {e1}
    ConvoyEnqueuers = {}
    MaxSlingBeads = 0
    Dirs = {t1}
    BeadDir <- MCOneDir
    MaxPolecats = 1
    BatchSize = 2
    MaxDispatchFailures = 3
    ForceFlags = {FALSE}
    AutoConvoy = FALSE
    SlingMayFail = TRUE
    FallibleCalls = {"failLabel"}
    MaxBdFailures = 1
    MaxCrashes = 0
    MaxReopens = 0
    NoMeta = NoMeta
    NoHolder = NoHolder
    NoBead = NoBead
SPECIFICATION FairSpec
PROPERTY QueuedBeadLeavesQueue
