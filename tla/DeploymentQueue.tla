-------------------------- MODULE DeploymentQueue --------------------------
(***************************************************************************)
(* The engine's in-memory job queue (apps/engine/src/queue.ts).  JavaScript*)
(* runs enqueue and the continuation of a settled job to their end, so each*)
(* of them, with the drain loop it calls, is one action.  "submitted" and  *)
(* "started" are history: the jobs in the order of the calls to enqueue and*)
(* in the order drain() called them; "inFlight" is the jobs that were      *)
(* called and have not settled.                                            *)
(***************************************************************************)
EXTENDS Integers, Sequences, FiniteSets

CONSTANTS
    Jobs,       \* one value per call of enqueue
    Requested   \* the constructor's argument, DEPLOYMENT_CONCURRENCY

ASSUME QueueAssumption == IsFiniteSet(Jobs) /\ Requested \in Int

VARIABLES
    running,    \* this.running
    pending,    \* this.pending
    inFlight,
    submitted,
    started
queueVars == <<running, pending, inFlight, submitted, started>>

concurrency == IF Requested > 1 THEN Requested ELSE 1

QueueInit ==
    /\ running = 0
    /\ pending = <<>>
    /\ inFlight = {}
    /\ submitted = <<>>
    /\ started = <<>>

Elements(s) == {s[i] : i \in 1 .. Len(s)}

\* Mutant: one job too many.
HasRoomForOneMore(r) == r <= concurrency

\* The condition of the drain loop.
HasRoom(r) == r < concurrency

\* drain() from the counter r, the list p, the jobs in flight f and the jobs
\* started s.  Both callers free one slot or add one job, so the loop runs once at
\* most: WorkConserving, which holds after every step, is its exit condition.
Drain(r, p, f, s) ==
    IF HasRoom(r) /\ p # <<>>
    THEN /\ running' = r + 1
         /\ pending' = Tail(p)
         /\ inFlight' = f \cup {Head(p)}
         /\ started' = Append(s, Head(p))
    ELSE /\ running' = r
         /\ pending' = p
         /\ inFlight' = f
         /\ started' = s

enqueue(j) ==
    /\ j \notin Elements(submitted)
    /\ submitted' = Append(submitted, j)
    /\ Drain(running, Append(pending, j), inFlight, started)

\* Mutant of Settle: the slot is given back without a look at the list.
SettleQuietly(j) ==
    /\ j \in inFlight
    /\ running' = running - 1
    /\ inFlight' = inFlight \ {j}
    /\ UNCHANGED <<pending, submitted, started>>

\* A job's promise is fulfilled or rejected; both end in the finally callback.
Settle(j) ==
    /\ j \in inFlight
    /\ submitted' = submitted
    /\ Drain(running - 1, pending, inFlight \ {j}, started)

QueueNext == \E j \in Jobs : enqueue(j) \/ Settle(j)

QueueSpec == QueueInit /\ [][QueueNext]_queueVars

\* Jobs in flight settle, in any order; the caller need not submit any.
FairQueueSpec == QueueSpec /\ WF_queueVars(\E j \in Jobs : Settle(j))

(***************************************************************************)
(* Properties                                                              *)
(***************************************************************************)

QueueTypeOK ==
    /\ running \in Nat
    /\ pending \in Seq(Jobs)
    /\ inFlight \subseteq Jobs
    /\ submitted \in Seq(Jobs)
    /\ started \in Seq(Jobs)

\* The counter is the number of jobs in flight and never exceeds the limit,
\* although it is decremented in a callback of its own (queue.ts:18-23).
SlotsBounded ==
    /\ running = Cardinality(inFlight)
    /\ running <= concurrency

\* No wakeup is lost: a job waits only while every slot is taken (queue.ts:23).
WorkConserving == pending # <<>> => running >= concurrency

\* Jobs start in the order they were submitted, none twice and none skipped.
FirstInFirstOut == started \o pending = submitted

\* What the queue promises its callers, in any interleaving of calls and callbacks: the
\* limit is kept, no slot idles beside a waiting job, and nobody is overtaken.
QueueKeepsOrder == SlotsBounded /\ WorkConserving /\ FirstInFirstOut

\* Every submitted job is started and settles: again and again there is none that has
\* not, since each is submitted once.
EveryJobSettles == []<>(Elements(submitted) = Elements(started) \ inFlight)
=============================================================================
