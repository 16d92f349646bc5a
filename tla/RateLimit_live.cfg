\* One recorder, two limits in turn (each read from a transcript or set by
\* hand), operator clears, one writer killed inside SaveState; fair clock,
\* heartbeat and CLI completion.
CONSTANTS
    Recorders = {r1}
    Transcripts <- MCTranscripts
    SetMinutes = {2}
    MaxRecords = 2
    MaxCrashes = 1
    Absent = Absent
    Torn = Torn
    Never = Never
SPECIFICATION FairSpec
INVARIANT TypeOK
INVARIANT WakeBudget
PROPERTY CurrentLimitWoken

