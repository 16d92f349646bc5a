\* The heartbeat, one idle-wait deacon and one sling; idle-wait capped at 60s.
CONSTANTS
    IdleWaitMax = 60
    StartMayFail = TRUE
    Absent = Absent
    Torn = Torn
SPECIFICATION FairSpec
INVARIANT TypeOK
PROPERTY BackoffFollowsTable
PROPERTY WakeLeadsToActive
