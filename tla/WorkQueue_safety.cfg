\* Two beads in two bead directories, two concurrent dispatchers, one
\* enqueuer without auto-convoy; every bd call but the convoy one may fail
\* once (bd ready in one of the directories), one dispatcher crash.
CONSTANTS
    Beads = {b1, b2}
    Dispatchers = {d1, d2}
    Enqueuers = {e1}
    ConvoyEnqueuers = {}
    MaxSlingBeads = 0
    Dirs = {t1, t2}
    BeadDir <- MCSplitDirs
    MaxPolecats = 1
    BatchSize = 2
    MaxDispatchFailures = 3
    ForceFlags = {FALSE}
    AutoConvoy = FALSE
    SlingMayFail = TRUE
    FallibleCalls = {"desc", "label", "rollback", "ready", "quarantine", "strip", "swap", "record", "failLabel"}
    MaxBdFailures = 1
    MaxCrashes = 1
    MaxReopens = 0
    NoMeta = NoMeta
    NoHolder = NoHolder
    NoBead = NoBead
SPECIFICATION Spec
SYMMETRY SplitSymmetry
INVARIANT TypeOK
INVARIANT QueueCapacity
INVARIANT RetriesBounded
PROPERTY EnqueuedBeadNotQuarantined
INVARIANT MetadataReadsBack
INVARIANT StripRemovesMetadata
PROPERTY QueueRefinement
