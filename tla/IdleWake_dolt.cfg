\* ensureDoltForSling racing the heartbeat that idle-stops Dolt.
CONSTANTS
    IdleWaitMax = 60
    StartMayFail = TRUE
    Absent = Absent
    Torn = Torn
SPECIFICATION Spec
INVARIANT DoltUpForSling
