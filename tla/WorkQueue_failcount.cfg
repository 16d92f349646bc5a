\* Stale snapshot in recordDispatchFailure: no bd failures, no convoy, no --force.
CONSTANTS
    Beads = {b1, b2}
    Dispatchers = {d1, d2}
    Enqueuers = {e1}
    ConvoyEnqueuers = {}
    MaxSlingBeads = 0
    Dirs = {t1}
    BeadDir <- MCOneDir
    MaxPolecats = 1
    BatchSize = 2
    MaxDispatchFailures = 3
    ForceFlags = {FALSE}
    AutoConvoy = FALSE
    SlingMayFail = TRUE
    FallibleCalls = {}
    MaxBdFailures = 0
    MaxCrashes = 0
    MaxReopens = 0
    NoMeta = NoMeta
    NoHolder = NoHolder
    NoBead = NoBead
SPECIFICATION Spec
SYMMETRY Symmetry
INVARIANT FailureCountExact
