\* Auto-convoy re-persist racing a dispatch failure: no bd failures.
CONSTANTS
    Beads = {b1, b2}
    Dispatchers = {d1, d2}
    Enqueuers = {e1}
    ConvoyEnqueuers = {}
    MaxSlingBeads = 0
    Dirs = {t1}
    BeadDir <- MCOneDir
    MaxPolecats = 1
    BatchSize = 2
    MaxDispatchFailures = 3
    ForceFlags = {FALSE}
    AutoConvoy = TRUE
    SlingMayFail = TRUE
    FallibleCalls = {}
    MaxBdFailures = 0
    MaxCrashes = 0
    MaxReopens = 0
    NoMeta = NoMeta
    NoHolder = NoHolder
    NoBead = NoBead
SPECIFICATION Spec
SYMMETRY Symmetry
INVARIANT RetriesBounded
