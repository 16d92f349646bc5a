------------------------------ MODULE IdleWake ------------------------------
(***************************************************************************)
(* The daemon idle controller and its two readers (daemon/idle.go,         *)
(* deacon_idle_wait.go, sling_dolt.go ensureDoltForSling).                 *)
(*                                                                         *)
(* Three processes share three things: the file daemon/idle-state.json,    *)
(* the signal file daemon/idle-wake, and the Dolt server.                  *)
(*  - The daemon heartbeat consumes the wake signal, decides idle or       *)
(*    active, stops or restarts Dolt, and rewrites the idle state.  Its    *)
(*    loop is not in these sources and is modelled from the spec (4.5).    *)
(*  - `gt deacon idle-wait` reads the idle state and sleeps in 5-second    *)
(*    ticks, returning early when the wake file exists.                    *)
(*  - `gt sling` runs ensureDoltForSling: it restarts an idle-stopped      *)
(*    Dolt and signals the daemon.                                         *)
(* Durations are whole seconds; one deacon tick is 5 seconds.              *)
(***************************************************************************)
EXTENDS Integers

CONSTANTS
    IdleWaitMax,     \* --max of `gt deacon idle-wait`, seconds
    StartMayFail,    \* TRUE: doltserver.Start may fail
    Absent, Torn     \* idle-state.json missing, or read mid-write (model values)

\* The ticker period of runDeaconIdleWait.
Tick == 5

\* Every value nextBackoffInterval can produce from the zero value.
Durations == {0, 30, 60, 120, 240, 300}

IdleRec == [idle : BOOLEAN, doltStopped : BOOLEAN, backoff : Durations]

ASSUME IdleWaitMax \in Nat \ {0} /\ StartMayFail \in BOOLEAN

VARIABLES
    idleFile,   \* idle-state.json: Absent, Torn (being rewritten) or an IdleRec
    wake,       \* the idle-wake file exists
    dolt,       \* the Dolt server: "running" or "stopped"
    work,       \* polecats or open convoys exist
    hpc, hwoke, hnext,      \* daemon heartbeat: pc, wake consumed, state to write
    kpc, ksleep, kticks,    \* deacon idle-wait: pc, sleep (s), ticks elapsed
    spc, sstartOk           \* sling: pc, result of doltserver.Start

vars == <<idleFile, wake, dolt, work, hpc, hwoke, hnext, kpc, ksleep, kticks,
          spc, sstartOk>>

\* Mutants of nextBackoffInterval: no cap, or the floor tested with <=.
nextBackoffIntervalNoCap(current) ==
    IF current < 30 THEN 30 ELSE current * 2
nextBackoffIntervalFloorLe(current) ==
    IF current <= 30 THEN 30 ELSE IF current * 2 > 300 THEN 300 ELSE current * 2

\* nextBackoffInterval: double the interval from 30s, capped at 5 minutes.
nextBackoffInterval(current) ==
    LET minBackoff == 30
        maxBackoff == 300
        next == current * 2
    IN  IF current < minBackoff THEN minBackoff
        ELSE IF next > maxBackoff THEN maxBackoff ELSE next

\* ReadIdleState: nil when the file is missing or does not unmarshal (a
\* reader that opens it between WriteFile's truncate and write).
ReadIdleState == IF idleFile \in IdleRec THEN idleFile ELSE Absent

IsSystemIdle      == ReadIdleState # Absent /\ ReadIdleState.idle
IsDoltIdleStopped == ReadIdleState # Absent /\ ReadIdleState.doltStopped

Init ==
    /\ idleFile = Absent /\ wake = FALSE
    /\ dolt = "running" /\ work = FALSE
    /\ hpc = "stat" /\ hwoke = FALSE
    /\ hnext = [idle |-> FALSE, doltStopped |-> FALSE, backoff |-> 0]
    /\ kpc = "idle" /\ ksleep = 0 /\ kticks = 0
    /\ spc = "idle" /\ sstartOk = TRUE

-----------------------------------------------------------------------------
(* Daemon heartbeat (spec 4.5).                                            *)

\* ConsumeWakeSignal, first half: os.Stat of the wake file.
ConsumeStat ==
    /\ hpc = "stat"
    /\ hpc' = IF wake THEN "remove" ELSE "decide"
    /\ hwoke' = FALSE
    /\ UNCHANGED <<idleFile, wake, dolt, work, hnext, kpc, ksleep, kticks, spc, sstartOk>>

\* Mutant: the signal file removed but not reported.
ConsumeRemoveSilent ==
    /\ hpc = "remove"
    /\ wake' = FALSE
    /\ hwoke' = FALSE
    /\ hpc' = "decide"
    /\ UNCHANGED <<idleFile, dolt, work, hnext, kpc, ksleep, kticks, spc, sstartOk>>

\* ConsumeWakeSignal, second half: os.Remove, then report a signal.
ConsumeRemove ==
    /\ hpc = "remove"
    /\ wake' = FALSE
    /\ hwoke' = TRUE
    /\ hpc' = "decide"
    /\ UNCHANGED <<idleFile, dolt, work, hnext, kpc, ksleep, kticks, spc, sstartOk>>

\* Count polecats and convoys; idle when both are zero and no wake was
\* consumed.  Idle: advance the backoff, and once the system was already
\* idle at the last heartbeat (the grace period), stop Dolt.  Active:
\* reset the backoff and restart a Dolt the daemon had stopped.
HeartbeatDecide ==
    LET prev == ReadIdleState
        wasIdle == prev # Absent /\ prev.idle
        stopped == prev # Absent /\ prev.doltStopped
        backoff == IF prev # Absent THEN prev.backoff ELSE 0
        idle == ~work /\ ~hwoke
    IN
    /\ hpc = "decide"
    /\ IF idle
       THEN /\ dolt' = IF wasIdle THEN "stopped" ELSE dolt
            /\ hnext' = [idle |-> TRUE, doltStopped |-> wasIdle \/ stopped,
                         backoff |-> nextBackoffInterval(backoff)]
       ELSE /\ dolt' = IF stopped THEN "running" ELSE dolt
            /\ hnext' = [idle |-> FALSE, doltStopped |-> FALSE, backoff |-> 0]
    /\ hpc' = "truncate"
    /\ UNCHANGED <<idleFile, wake, work, hwoke, kpc, ksleep, kticks, spc, sstartOk>>

\* WriteIdleState is os.WriteFile: the file is truncated, then written.
WriteTruncate ==
    /\ hpc = "truncate"
    /\ idleFile' = Torn
    /\ hpc' = "write"
    /\ UNCHANGED <<wake, dolt, work, hwoke, hnext, kpc, ksleep, kticks, spc, sstartOk>>

WriteIdleState ==
    /\ hpc = "write"
    /\ idleFile' = hnext
    /\ hpc' = "stat"
    /\ UNCHANGED <<wake, dolt, work, hwoke, hnext, kpc, ksleep, kticks, spc, sstartOk>>

-----------------------------------------------------------------------------
(* gt deacon idle-wait (runDeaconIdleWait).                                *)

\* Read the idle state; when idle, sleep for the backoff (30s when unset,
\* capped at --max).  A missing or active state returns at once: a stutter.
DeaconStart ==
    LET s == ReadIdleState
        d == IF s # Absent /\ s.backoff > 0 THEN s.backoff ELSE 30
    IN
    /\ kpc = "idle" /\ IsSystemIdle
    /\ ksleep' = IF d > IdleWaitMax THEN IdleWaitMax ELSE d
    /\ kticks' = 0
    /\ kpc' = "wait"
    /\ UNCHANGED <<idleFile, wake, dolt, work, hpc, hwoke, hnext, spc, sstartOk>>

\* One ticker tick: return if the wake file exists, else if the deadline
\* has passed (time.Now().After(deadline)), else keep waiting.
DeaconTick ==
    LET t == kticks + 1
        done == wake \/ t * Tick > ksleep
    IN
    /\ kpc = "wait"
    /\ kticks' = t
    /\ kpc' = IF done THEN "idle" ELSE "wait"
    /\ UNCHANGED <<idleFile, wake, dolt, work, hpc, hwoke, hnext, ksleep, spc, sstartOk>>

-----------------------------------------------------------------------------
(* gt sling: ensureDoltForSling, then the sling itself.                    *)

\* Only act if the idle state says Dolt was idle-stopped.
SlingCheckIdle ==
    /\ spc = "idle"
    /\ spc' = IF IsDoltIdleStopped THEN "running?" ELSE "sling"
    /\ UNCHANGED <<idleFile, wake, dolt, work, hpc, hwoke, hnext, kpc, ksleep, kticks, sstartOk>>

\* doltserver.IsRunning: return when it is running (the daemon restarted it).
SlingCheckRunning ==
    /\ spc = "running?"
    /\ spc' = IF dolt = "running" THEN "sling" ELSE "signal"
    /\ UNCHANGED <<idleFile, wake, dolt, work, hpc, hwoke, hnext, kpc, ksleep, kticks, sstartOk>>

\* SignalWake writes the wake file.
SignalWake ==
    /\ spc = "signal"
    /\ wake' = TRUE
    /\ spc' = "start"
    /\ UNCHANGED <<idleFile, dolt, work, hpc, hwoke, hnext, kpc, ksleep, kticks, sstartOk>>

\* doltserver.Start, which may fail (logged, the sling goes on).
SlingStartDolt ==
    /\ spc = "start"
    /\ \E ok \in IF StartMayFail THEN BOOLEAN ELSE {TRUE} :
        /\ dolt' = IF ok THEN "running" ELSE dolt
        /\ sstartOk' = ok
    /\ spc' = "sling"
    /\ UNCHANGED <<idleFile, wake, work, hpc, hwoke, hnext, kpc, ksleep, kticks>>

\* The sling runs its bd commands and spawns a polecat.
SlingRun ==
    /\ spc = "sling"
    /\ work' = TRUE
    /\ spc' = "idle"
    /\ sstartOk' = TRUE
    /\ UNCHANGED <<idleFile, wake, dolt, hpc, hwoke, hnext, kpc, ksleep, kticks>>

\* Polecats finish and convoys close.
WorkDone ==
    /\ work
    /\ work' = FALSE
    /\ UNCHANGED <<idleFile, wake, dolt, hpc, hwoke, hnext, kpc, ksleep, kticks, spc, sstartOk>>

-----------------------------------------------------------------------------

Heartbeat == ConsumeStat \/ ConsumeRemove \/ HeartbeatDecide \/ WriteTruncate \/ WriteIdleState
Deacon    == DeaconStart \/ DeaconTick
Sling     == SlingCheckIdle \/ SlingCheckRunning \/ SignalWake \/ SlingStartDolt \/ SlingRun

Next == Heartbeat \/ Deacon \/ Sling \/ WorkDone

Spec == Init /\ [][Next]_vars

\* The daemon heartbeat runs for ever; a started idle-wait ticks until it
\* returns; a started ensureDoltForSling runs to its end.
FairSpec ==
    /\ Spec
    /\ WF_vars(Heartbeat)
    /\ WF_vars(DeaconTick)
    /\ WF_vars(Sling /\ spc # "idle")

-----------------------------------------------------------------------------
(* Properties                                                              *)

TypeOK ==
    /\ idleFile \in IdleRec \cup {Absent, Torn}
    /\ wake \in BOOLEAN /\ work \in BOOLEAN
    /\ dolt \in {"running", "stopped"}
    /\ hpc \in {"stat", "remove", "decide", "truncate", "write"}
    /\ hwoke \in BOOLEAN /\ hnext \in IdleRec
    /\ kpc \in {"idle", "wait"} /\ ksleep \in 0..IdleWaitMax
    /\ kticks \in 0..(IdleWaitMax \div Tick + 1)
    /\ spc \in {"idle", "running?", "signal", "start", "sling"}
    /\ sstartOk \in BOOLEAN

\* Spec 8 "backoff monotonicity": each idle heartbeat advances the backoff
\* it read along the table b(0)=30s, b(30s)=60s, b(60s)=120s, b(2m)=4m,
\* b(4m)=5m, b(5m)=5m.
BackoffRef == {<<0, 30>>, <<30, 60>>, <<60, 120>>, <<120, 240>>,
               <<240, 300>>, <<300, 300>>}
BackoffFollowsTable ==
    [][hpc = "decide" /\ hpc' = "truncate" /\ hnext'.idle =>
         <<IF ReadIdleState # Absent THEN ReadIdleState.backoff ELSE 0,
           hnext'.backoff>> \in BackoffRef]_vars

\* ensureDoltForSling: when the sling goes on to its bd commands, Dolt is
\* running, unless doltserver.Start just failed.
DoltUpForSling == spc = "sling" /\ sstartOk => dolt = "running"

\* A wake signal is eventually consumed by the daemon, which then records
\* the system as active.
WakeLeadsToActive ==
    wake ~> (idleFile \in IdleRec /\ ~idleFile.idle)

=============================================================================
