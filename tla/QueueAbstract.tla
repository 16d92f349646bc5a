---------------------------- MODULE QueueAbstract ----------------------------
(***************************************************************************)
(* What the deferred work queue promises, with the processes, locks, bd    *)
(* calls and metadata of WorkQueue.tla abstracted away.  A bead is open,   *)
(* hooked or closed, has a polecat of the queue, of a manual sling or none *)
(* at all, and holds a committed enqueue or not.  The queue spawns a       *)
(* polecat only for an open bead that holds an enqueue, consumes that      *)
(* enqueue with the spawn (one spawn per enqueue), and keeps its polecats  *)
(* within max_polecats.  Nothing else withdraws an enqueue: a bead is      *)
(* quarantined only when it holds none.                                    *)
(***************************************************************************)
EXTENDS Naturals, FiniteSets

CONSTANTS Beads, MaxPolecats

VARIABLES
    st,     \* bead status: "open", "hooked" or "closed"
    run,    \* polecat on the bead: "none", "queue" or "manual"
    q       \* the bead holds a committed, unconsumed enqueue

avars == <<st, run, q>>

QueuePolecats == {b \in Beads : run[b] = "queue"}

AInit ==
    /\ st = [b \in Beads |-> "open"]
    /\ run = [b \in Beads |-> "none"]
    /\ q = [b \in Beads |-> FALSE]

\* enqueueBead commits (the gt:queued label lands); enqueueing a bead
\* that already holds an enqueue changes nothing.
Enqueue(b) ==
    /\ q' = [q EXCEPT ![b] = TRUE]
    /\ UNCHANGED <<st, run>>

\* dispatchSingleBead's successful executeSling, under the capacity
\* check of dispatchQueuedWork (0 = unlimited).
Dispatch(b) ==
    /\ q[b] /\ st[b] = "open"
    /\ MaxPolecats > 0 => Cardinality(QueuePolecats) < MaxPolecats
    /\ st' = [st EXCEPT ![b] = "hooked"]
    /\ run' = [run EXCEPT ![b] = "queue"]
    /\ q' = [q EXCEPT ![b] = FALSE]

\* gt sling outside the queue.
ManualSling(b) ==
    /\ st[b] = "open" /\ run[b] = "none"
    /\ st' = [st EXCEPT ![b] = "hooked"]
    /\ run' = [run EXCEPT ![b] = "manual"]
    /\ UNCHANGED q

\* A polecat finishes and closes its bead.
PolecatDone(b) ==
    /\ run[b] # "none"
    /\ run' = [run EXCEPT ![b] = "none"]
    /\ st' = [st EXCEPT ![b] = "closed"]
    /\ UNCHANGED q

\* bd reopen.
Reopen(b) ==
    /\ st[b] = "closed"
    /\ st' = [st EXCEPT ![b] = "open"]
    /\ UNCHANGED <<run, q>>

ANext ==
    \E b \in Beads : Enqueue(b) \/ Dispatch(b) \/ ManualSling(b)
                     \/ PolecatDone(b) \/ Reopen(b)

ASpec == AInit /\ [][ANext]_avars
=============================================================================
