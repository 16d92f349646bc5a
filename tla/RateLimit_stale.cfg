\* Two limits recorded in turn by one recorder, no crash: the daemon's save
\* of its wake-attempt counter races the second record.
CONSTANTS
    Recorders = {r1}
    Transcripts <- MCTranscripts
    SetMinutes = {2}
    MaxRecords = 2
    MaxCrashes = 0
    Absent = Absent
    Torn = Torn
    Never = Never
SPECIFICATION Spec
INVARIANT NewLimitKept
