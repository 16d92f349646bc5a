\* One limit recorded from a transcript whose retry-after header carries a
\* unit ("retry-after: 5 minutes"); no clear, no crash.
CONSTANTS
    Recorders = {r1}
    Transcripts <- MCUnitTranscripts
    SetMinutes = {}
    MaxRecords = 1
    MaxCrashes = 0
    Absent = Absent
    Torn = Torn
    Never = Never
SPECIFICATION Spec
PROPERTY WakeAfterStatedReset
