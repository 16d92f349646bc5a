------------------------------ MODULE RateLimit ------------------------------
(***************************************************************************)
(* The usage-limit controller: the transcript detector of                 *)
(* `gt usagelimit record` (detectUsageLimit, extractResetDuration), the    *)
(* manual `gt usagelimit set` and `clear`, and the daemon's wake policy    *)
(* over .runtime/ratelimit/state.json (ShouldWake, RecordWakeAttempt,      *)
(* LoadState, SaveState, ClearState of package ratelimit).                 *)
(*                                                                         *)
(* Time is kept relative: a state record holds the seconds until its      *)
(* ResetAt and since its LastWakeAttempt, and the Tick action ages every   *)
(* copy by one heartbeat grain.  ShouldWake only compares these with       *)
(* WakeBuffer and WakeAttemptCooldown, so both are saturated at those      *)
(* thresholds, which keeps the state space finite.                         *)
(***************************************************************************)
EXTENDS Integers, Sequences
LOCAL INSTANCE SequencesExt

CONSTANTS
    Recorders,      \* concurrent `gt usagelimit record/set` invocations
    Transcripts,    \* transcripts a recorder may read (sequences of Phrase)
    SetMinutes,     \* values of `gt usagelimit set --minutes`
    MaxRecords,     \* bound on recorded usage-limit episodes
    MaxCrashes,     \* bound on writers killed inside SaveState
    Absent, Torn, Never

\* ratelimit.go constants, in seconds.
WakeBuffer          == 120
MaxWakeAttempts     == 3
WakeAttemptCooldown == 300
\* Seconds of wall time per Tick: the grain at which the daemon heartbeat
\* observes the clock.
Tick == 60

(***************************************************************************)
(* Transcripts.  A transcript is a sequence of phrases; a phrase stands   *)
(* for the text one of the code's regular expressions matches:            *)
(*   "limit"  a usage-limit marker (rate_limit_error, 429, usage limit...) *)
(*   "header" retry-after: N [unit]                                        *)
(*   "text"   retry after N unit                                           *)
(*   "stamp"  anthropic-ratelimit-*-reset: <RFC3339>, n = seconds to it   *)
(*   "in"     reset|available|try again|wait [in] N unit                   *)
(*   "at"     reset|available at HH:MM, n = seconds from now to HH:MM     *)
(* A stamp header contains "ratelimit" and so is itself a limit marker.    *)
(***************************************************************************)
Units == {"none", "s", "m", "h"}
Phrase(Ns) == [kind : {"limit", "header", "text", "stamp", "in", "at"},
               n : Ns, unit : Units]

UnitSeconds(u) == CASE u = "h" -> 3600 [] u = "m" -> 60 [] OTHER -> 1

MatchesLimitPattern(p) == p.kind \in {"limit", "stamp"}

\* The five patterns of extractResetDuration, tried in order; each looks at
\* its first match in the transcript only.
extractResetDuration(t) ==
    LET i1 == SelectInSeq(t, LAMBDA p : p.kind = "header")
        i2 == SelectInSeq(t, LAMBDA p : p.kind \in {"header", "text"} /\ p.unit # "none")
        i3 == SelectInSeq(t, LAMBDA p : p.kind = "stamp")
        i4 == SelectInSeq(t, LAMBDA p : p.kind = "in" /\ p.unit # "none")
        i5 == SelectInSeq(t, LAMBDA p : p.kind = "at")
    IN IF i1 # 0 /\ t[i1].n > 0 /\ t[i1].n < 86400 THEN t[i1].n
       ELSE IF i2 # 0 THEN t[i2].n * UnitSeconds(t[i2].unit)
       ELSE IF i3 # 0 /\ t[i3].n > 0 THEN t[i3].n
       ELSE IF i4 # 0 THEN t[i4].n * UnitSeconds(t[i4].unit)
       ELSE IF i5 # 0 THEN (IF t[i5].n < 0 THEN t[i5].n + 86400 ELSE t[i5].n)
       ELSE 0

\* The reset a transcript states: a retry-after header that carries a
\* unit means that unit, as the second pattern of extractResetDuration
\* (`retry[- ]?after ... unit`) is written to read it; no reset stated is
\* the 1h default.  Not code: the reference the detector is checked against.
StatedResetDuration(t) ==
    LET read == [i \in DOMAIN t |-> IF t[i].kind = "header" /\ t[i].unit # "none"
                                    THEN [t[i] EXCEPT !.kind = "text"] ELSE t[i]]
        d == extractResetDuration(read)
    IN  IF d = 0 THEN 3600 ELSE d

\* (isLimited, resetDuration); a limit without a parsable reset gets 1h.
detectUsageLimit(t) ==
    IF \A i \in DOMAIN t : ~MatchesLimitPattern(t[i])
    THEN [limited |-> FALSE, dur |-> 0]
    ELSE LET d == extractResetDuration(t)
         IN [limited |-> TRUE, dur |-> IF d = 0 THEN 3600 ELSE d]

(***************************************************************************)
(* The usage-limit state file.  Active is TRUE in every record a writer   *)
(* of this model produces and is left out; ep identifies the episode      *)
(* (the record's RecordedAt).                                              *)
(***************************************************************************)
Rec == [ep : 1..MaxRecords, untilReset : -WakeBuffer..86400,
        sinceWake : {Never} \cup 0..WakeAttemptCooldown,
        attempts : Nat]

NewRec(ep, dur) == [ep |-> ep, untilReset |-> dur, sinceWake |-> Never, attempts |-> 0]

\* One Tick of wall time, saturated at the thresholds ShouldWake tests.
Age(s) ==
    IF s \in Rec
    THEN [s EXCEPT !.untilReset = IF @ - Tick < -WakeBuffer THEN -WakeBuffer ELSE @ - Tick,
                   !.sinceWake  = IF @ = Never THEN Never
                                  ELSE IF @ + Tick > WakeAttemptCooldown
                                       THEN WakeAttemptCooldown ELSE @ + Tick]
    ELSE s

VARIABLES
    file,       \* state.json: Absent, Torn (mid-WriteFile) or a Rec
    dpc,        \* daemon heartbeat: "idle", "truncate", "write"
    dcopy,      \* the daemon's loaded and updated State
    rpc,        \* recorder r: "idle" or "write"
    rrec,       \* the State recorder r is writing
    nextEp,     \* episode number of the next record
    current,    \* ghost: latest recorded episode not cleared since (0: none)
    wakes,      \* ghost: wake-ups the daemon performed for each episode
    crashes,
    stated      \* ghost: seconds until the reset each episode's source states

vars == <<file, dpc, dcopy, rpc, rrec, nextEp, current, wakes, crashes, stated>>

Episodes == 1..MaxRecords

Init ==
    /\ file = Absent
    /\ dpc = "idle"
    /\ dcopy = Absent
    /\ rpc = [r \in Recorders |-> "idle"]
    /\ rrec = [r \in Recorders |-> Absent]
    /\ nextEp = 1
    /\ current = 0
    /\ wakes = [e \in Episodes |-> 0]
    /\ crashes = 0
    /\ stated = [e \in Episodes |-> 0]

(***************************************************************************)
(* ShouldWake and RecordWakeAttempt (ratelimit.go).                       *)
(***************************************************************************)
\* The cooldown test: a zero LastWakeAttempt counts as long ago.
CooledDown(s) ==
    IF s.sinceWake = Never THEN TRUE ELSE s.sinceWake >= WakeAttemptCooldown

ShouldWakeNoCap(s) ==
    /\ s.untilReset <= -WakeBuffer
    /\ CooledDown(s)

ShouldWakeCapOffByOne(s) ==
    /\ s.untilReset <= -WakeBuffer
    /\ s.attempts < MaxWakeAttempts - 1
    /\ CooledDown(s)

ShouldWake(s) ==
    /\ s.untilReset <= -WakeBuffer
    /\ s.attempts < MaxWakeAttempts
    /\ CooledDown(s)

RecordWakeAttemptNoIncrement(s) == [s EXCEPT !.sinceWake = 0]

RecordWakeAttempt(s) == [s EXCEPT !.attempts = @ + 1, !.sinceWake = 0]

(***************************************************************************)
(* Daemon heartbeat (spec 4.6.3): LoadState; when ShouldWake, wake the     *)
(* agents, RecordWakeAttempt and SaveState.  LoadState of a missing file   *)
(* gives nil and of a torn one an unmarshal error: neither wakes anyone,   *)
(* so those heartbeats change nothing and are not actions.  SaveState is   *)
(* os.WriteFile: a truncate, then the write.                               *)
(***************************************************************************)
DaemonCheck ==
    /\ dpc = "idle"
    /\ file \in Rec
    /\ ShouldWake(file)
    /\ dcopy' = RecordWakeAttempt(file)
    /\ wakes' = [wakes EXCEPT ![file.ep] = @ + 1]
    /\ dpc' = "truncate"
    /\ UNCHANGED <<file, rpc, rrec, nextEp, current, crashes, stated>>

SaveTruncate == file' = Torn

DaemonTruncate ==
    /\ dpc = "truncate"
    /\ SaveTruncate
    /\ dpc' = "write"
    /\ UNCHANGED <<dcopy, rpc, rrec, nextEp, current, wakes, crashes, stated>>

DaemonWrite ==
    /\ dpc = "write"
    /\ file' = dcopy
    /\ dpc' = "idle"
    /\ dcopy' = Absent
    /\ UNCHANGED <<rpc, rrec, nextEp, current, wakes, crashes, stated>>

(***************************************************************************)
(* `gt usagelimit record`: detect a limit in the transcript, then        *)
(* RecordUsageLimit writes a fresh State (no wake attempts) through        *)
(* SaveState; no limit detected is a silent exit.  `gt usagelimit set     *)
(* -m M` records M minutes the same way.                                   *)
(***************************************************************************)
StartRecord(r, dur, truth) ==
    /\ rpc[r] = "idle"
    /\ nextEp <= MaxRecords
    /\ rrec' = [rrec EXCEPT ![r] = NewRec(nextEp, dur)]
    /\ SaveTruncate
    /\ rpc' = [rpc EXCEPT ![r] = "write"]
    /\ nextEp' = nextEp + 1
    /\ current' = nextEp
    /\ stated' = [stated EXCEPT ![nextEp] = truth]
    /\ UNCHANGED <<dpc, dcopy, wakes, crashes>>

runUsagelimitRecord(r, t) ==
    /\ detectUsageLimit(t).limited
    /\ StartRecord(r, detectUsageLimit(t).dur, StatedResetDuration(t))

runUsagelimitSet(r, m) == StartRecord(r, m * 60, m * 60)

RecordWrite(r) ==
    /\ rpc[r] = "write"
    /\ file' = rrec[r]
    /\ rpc' = [rpc EXCEPT ![r] = "idle"]
    /\ UNCHANGED <<dpc, dcopy, rrec, nextEp, current, wakes, crashes, stated>>

\* ClearState removes the file (missing is fine).
ClearState ==
    /\ file' = Absent
    /\ current' = 0
    /\ UNCHANGED <<dpc, dcopy, rpc, rrec, nextEp, wakes, crashes, stated>>

\* `gt usagelimit clear`.
runUsagelimitClear == ClearState

\* `gt ratelimit record|set|clear` (sling_dolt.go) are the same commands
\* under other names: detectRateLimit and its extractResetDuration are
\* copies of the usagelimit ones that differ only in identifiers, and the
\* commands write the same state.json through package ratelimit.
detectRateLimit(t) == detectUsageLimit(t)

runRatelimitRecord(r, t) ==
    /\ detectRateLimit(t).limited
    /\ StartRecord(r, detectRateLimit(t).dur, StatedResetDuration(t))

runRatelimitSet(r, m) == StartRecord(r, m * 60, m * 60)

runRatelimitClear == ClearState

\* A writer dies inside SaveState, or the daemon dies after waking the
\* agents and before its save completes; the daemon restarts idle.
Crash ==
    /\ crashes < MaxCrashes
    /\ crashes' = crashes + 1
    /\ \/ /\ dpc \in {"truncate", "write"}
          /\ dpc' = "idle"
          /\ dcopy' = Absent
          /\ UNCHANGED rpc
       \/ \E r \in Recorders :
            /\ rpc[r] = "write"
            /\ rpc' = [rpc EXCEPT ![r] = "idle"]
            /\ UNCHANGED <<dpc, dcopy>>
    /\ UNCHANGED <<file, rrec, nextEp, current, wakes, stated>>

\* Wall time advances by one heartbeat grain.
TickClock ==
    /\ file' = Age(file)
    /\ dcopy' = Age(dcopy)
    /\ rrec' = [r \in Recorders |-> Age(rrec[r])]
    /\ stated' = [e \in Episodes |-> IF stated[e] - Tick < -WakeBuffer
                                      THEN -WakeBuffer ELSE stated[e] - Tick]
    /\ UNCHANGED <<dpc, rpc, nextEp, current, wakes, crashes>>

Daemon == DaemonCheck \/ DaemonTruncate \/ DaemonWrite

Recorder(r) ==
    \/ \E t \in Transcripts : runUsagelimitRecord(r, t) \/ runRatelimitRecord(r, t)
    \/ \E m \in SetMinutes : runUsagelimitSet(r, m) \/ runRatelimitSet(r, m)
    \/ RecordWrite(r)

Next ==
    \/ TickClock
    \/ Daemon
    \/ \E r \in Recorders : Recorder(r)
    \/ runUsagelimitClear \/ runRatelimitClear
    \/ Crash

Spec == Init /\ [][Next]_vars

\* The clock always advances, the daemon heartbeat runs periodically, and a
\* started CLI command runs to its end.  Nothing forces an operator or a
\* new limit.
FairSpec ==
    /\ Spec
    /\ WF_vars(TickClock)
    /\ WF_vars(Daemon)
    /\ \A r \in Recorders : WF_vars(RecordWrite(r))

-----------------------------------------------------------------------------
TypeOK ==
    /\ file \in {Absent, Torn} \cup Rec
    /\ file \in Rec => file.attempts \in 0..MaxWakeAttempts
    /\ dpc \in {"idle", "truncate", "write"}
    /\ dcopy \in {Absent} \cup Rec
    /\ rpc \in [Recorders -> {"idle", "write"}]
    /\ rrec \in [Recorders -> {Absent} \cup Rec]
    /\ nextEp \in 1..MaxRecords + 1
    /\ current \in 0..MaxRecords
    /\ wakes \in [Episodes -> Nat]
    /\ crashes \in 0..MaxCrashes
    /\ stated \in [Episodes -> -WakeBuffer..86400]

\* MaxWakeAttempts bounds the wake-ups of one usage-limit episode, whatever
\* interleaving of heartbeats, records, clears and stale daemon saves
\* happens; only a daemon that dies between waking the agents and saving
\* RecordWakeAttempt may wake them once more.
WakeBudget ==
    \A e \in Episodes : wakes[e] <= MaxWakeAttempts + crashes

\* A writer has left state.json half-written and nobody is writing it.
TornForGood ==
    /\ file = Torn
    /\ dpc = "idle"
    /\ \A r \in Recorders : rpc[r] = "idle"

\* Nobody is writing, and state.json holds a limit recorded before the
\* current one: the daemon saved its copy of the older State over it.
OlderLimitKept ==
    /\ file \in Rec /\ file.ep < current
    /\ dpc = "idle"
    /\ \A r \in Recorders : rpc[r] = "idle"

\* Spec 4.6.3: once a limit is recorded, the daemon spends its wake
\* attempts on it (after the reset plus WakeBuffer, WakeAttemptCooldown
\* apart) unless an operator clears it or a newer limit replaces it.  It
\* is checked over two limits recorded in turn.  Two states of state.json
\* end the daemon's attempts early, and the property names them rather
\* than assuming them away: a file torn by a writer killed inside
\* SaveState (LoadState fails at every heartbeat), and a file the daemon
\* overwrote with an older limit (the NewLimitKept violation).
CurrentLimitWoken ==
    \A e \in Episodes :
        current = e ~> \/ wakes[e] >= MaxWakeAttempts
                       \/ current # e
                       \/ TornForGood
                       \/ OlderLimitKept

\* Spec 5: state.json is last-writer-wins.  When no write is in progress
\* the file holds the latest recorded limit, unless it was cleared since;
\* the daemon's save of the attempt counter must not bring back an older
\* one.
NewLimitKept ==
    (current # 0 /\ dpc = "idle" /\ \A r \in Recorders : rpc[r] = "idle")
        => file \in Rec /\ file.ep = current
\* Spec 4.6.2 and the comment on extractResetDuration's second pattern
\* ("retry after X seconds/minutes/hours"): the daemon wakes the agents for
\* a limit only once the reset its transcript states has passed.
WakeAfterStatedReset ==
    [][DaemonCheck => stated[file.ep] <= 0]_vars
=============================================================================
