------------------------------ MODULE Lifecycle ------------------------------
(***************************************************************************)
(* The life of a deployment, from the accepted API request to the worker's *)
(* last callback.  Five parties write the same two database rows:          *)
(*                                                                         *)
(*   - the pipeline of POST /api/v1/deployments, an async function nobody  *)
(*     awaits (apps/api/src/index.ts:52);                                  *)
(*   - the rollback route (apps/api/src/auth-routes.ts:117);               *)
(*   - the worker's handler, through the status and state callbacks        *)
(*     (apps/engine/src/worker.ts:16-37);                                  *)
(*   - a second run of that handler: a BullMQ retry, a stalled job handed  *)
(*     out again, or the job that the recovery scan adds                   *)
(*     (apps/engine/src/worker.ts:39-56);                                  *)
(*   - nobody, when the process that should have written has crashed.      *)
(*                                                                         *)
(* Every await is an interleaving point.  An API deployment always carries *)
(* a strategy, so the handler takes the branch of deployReplicas           *)
(* (apps/engine/src/replicas.ts:30-56), whose container names are the same *)
(* for every attempt of one deployment.  It lists the containers of that   *)
(* runtime name, creates and tests its own, switches the route and removes *)
(* what it had listed, by name.                                            *)
(***************************************************************************)
EXTENDS Naturals, FiniteSets, PhaseTable

CONSTANTS
    Deployments,    \* deployment ids, each with its own runtime name
    Attempts,       \* attempts of a job (DEPLOYMENT_RETRIES)
    Concurrency,    \* handlers one worker runs at once (DEPLOYMENT_CONCURRENCY)
    MaxStalls,      \* BullMQ's maxStalledCount
    MaxLost,        \* bound: callbacks that never reach the API
    MaxCrashes      \* bound: crashes of the worker or of the API process

ASSUME ParametersAssumption ==
    /\ IsFiniteSet(Deployments)
    /\ Attempts \in Nat \ {0}
    /\ Concurrency \in Nat \ {0}
    /\ MaxStalls \in Nat
    /\ MaxLost \in Nat
    /\ MaxCrashes \in Nat

VARIABLES
    row,        \* deployments.status
    phase,      \* deployment_state.phase
    spec,       \* deployment_state.metadata has a deploymentSpec
    api,        \* where the API's handler for this deployment is
    job,        \* the BullMQ job of a key
    made,       \* its attemptsMade
    stalls,     \* how often it was taken back from a dead worker
    worker,     \* the worker process
    pc,         \* where the worker's handler for a key is
    scan,       \* where the recovery scan is with a deployment
    cont,       \* the deployment's own containers
    listed,     \* keys whose handler listed such containers as the old ones
    mistaken,   \* history: deployments with a handler that then created its
                \* own under the names it had listed
    fresh,      \* the worker's node is registered and its heartbeat is fresh
    lost,       \* callbacks lost so far
    crashes     \* crashes so far

dbVars == <<row, phase, spec>>
queueVars == <<job, made, stalls>>
dockerVars == <<cont, listed, mistaken>>
faultVars == <<lost, crashes>>
vars == <<row, phase, spec, api, job, made, stalls, worker, pc, scan, cont,
          listed, mistaken, fresh, lost, crashes>>

(***************************************************************************)
(* Types                                                                   *)
(***************************************************************************)

RowStatus == {"absent", "queued", "building", "starting", "ready", "failed",
              "rolling_back"}

PhaseName == DeploymentState \cup {"absent"}

ApiStep == {"new", "state", "building", "build", "starting", "send", "confirm",
            "failing", "marking", "rollback", "over"}

JobState == {"none", "waiting", "active", "delayed", "completed", "failed"}

HandlerStep == {"idle", "starting", "deploying", "health", "list", "create",
                "promote", "retire", "shift", "live", "ready", "return", "diagnose", "failphase",
                "failstatus", "throw"}

\* The job lists findDeploymentJob reads one after the other.
ScanStep == {"no", "waiting", "active", "delayed", "enqueue"}

\* The two keys a deployment can be queued under: the pipeline's
\* Idempotency-Key and the one of the recovery scan.
Keys == Deployments \X {"deployment", "recovery"}

DeployKey(d) == <<d, "deployment">>
RecoveryKey(d) == <<d, "recovery">>
Of(k) == k[1]

Running(k) == pc[k] # "idle"

Init ==
    /\ row = [d \in Deployments |-> "absent"]
    /\ phase = [d \in Deployments |-> "absent"]
    /\ spec = [d \in Deployments |-> FALSE]
    /\ api = [d \in Deployments |-> "new"]
    /\ job = [k \in Keys |-> "none"]
    /\ made = [k \in Keys |-> 0]
    /\ stalls = [k \in Keys |-> 0]
    /\ worker = "up"
    /\ pc = [k \in Keys |-> "idle"]
    /\ scan = [d \in Deployments |-> "no"]
    /\ cont = [d \in Deployments |-> "none"]
    /\ listed = {}
    /\ mistaken = {}
    /\ fresh = FALSE
    /\ lost = 0
    /\ crashes = 0

(***************************************************************************)
(* The pipeline of POST /api/v1/deployments                                *)
(***************************************************************************)

ApiGoto(d, step) == api' = [api EXCEPT ![d] = step]

\* updateDeployment: one unconditional UPDATE of the status.
SetRow(d, status) == row' = [row EXCEPT ![d] = status]

\* createDeployment, first INSERT.
InsertDeployment(d) ==
    /\ api[d] = "new"
    /\ SetRow(d, "queued")
    /\ ApiGoto(d, "state")
    /\ UNCHANGED <<phase, spec, queueVars, worker, pc, scan, dockerVars, fresh, faultVars>>

\* createDeployment, second INSERT: no transaction joins the two.  A
\* deployment from a repository is built first, one from an image is not.
InsertState(d) ==
    /\ api[d] = "state"
    /\ phase' = [phase EXCEPT ![d] = "QUEUED"]
    /\ \E step \in {"building", "starting"} : ApiGoto(d, step)
    /\ UNCHANGED <<row, spec, queueVars, worker, pc, scan, dockerVars, fresh, faultVars>>

MarkBuilding(d) ==
    /\ api[d] = "building"
    /\ SetRow(d, "building")
    /\ ApiGoto(d, "build")
    /\ UNCHANGED <<phase, spec, queueVars, worker, pc, scan, dockerVars, fresh, faultVars>>

\* The build answers, or fails, is refused or cannot be reached.
Build(d) ==
    /\ api[d] = "build"
    /\ \E step \in {"starting", "failing"} : ApiGoto(d, step)
    /\ UNCHANGED <<dbVars, queueVars, worker, pc, scan, dockerVars, fresh, faultVars>>

MarkStarting(d) ==
    /\ api[d] = "starting"
    /\ SetRow(d, "starting")
    /\ ApiGoto(d, "send")
    /\ UNCHANGED <<phase, spec, queueVars, worker, pc, scan, dockerVars, fresh, faultVars>>

\* enqueueDeployment: a job id that is still in Redis, whatever its state,
\* is returned instead of added.
Enqueue(k) ==
    job' = IF job[k] = "none" THEN [job EXCEPT ![k] = "waiting"] ELSE job

\* The engine queues the job and its 202 arrives, or the answer is lost on
\* the way; or the engine never saw the request.
SendToEngine(d) ==
    /\ api[d] = "send"
    /\ \/ /\ Enqueue(DeployKey(d))
          /\ \E step \in {"confirm", "failing"} : ApiGoto(d, step)
       \/ /\ job' = job
          /\ ApiGoto(d, "failing")
    /\ UNCHANGED <<dbVars, made, stalls, worker, pc, scan, dockerVars, fresh, faultVars>>

\* The reply of the engine is written with the status "starting" again,
\* whatever the worker has reported in the meantime.
ConfirmStarting(d) ==
    /\ api[d] = "confirm"
    /\ SetRow(d, "starting")
    /\ ApiGoto(d, "over")
    /\ UNCHANGED <<phase, spec, queueVars, worker, pc, scan, dockerVars, fresh, faultVars>>

\* The database refuses one of these writes, and the catch block runs.
WriteRefused(d) ==
    /\ api[d] \in {"building", "starting", "confirm"}
    /\ ApiGoto(d, "failing")
    /\ UNCHANGED <<dbVars, queueVars, worker, pc, scan, dockerVars, fresh, faultVars>>

PipelineFails(d) ==
    /\ api[d] = "failing"
    /\ SetRow(d, "failed")
    /\ ApiGoto(d, "over")
    /\ UNCHANGED <<phase, spec, queueVars, worker, pc, scan, dockerVars, fresh, faultVars>>

(***************************************************************************)
(* The rollback routes                                                     *)
(***************************************************************************)

\* Both routes read the list and ask for a ready deployment and another ready
\* one to go back to.
CheckRollback(d) ==
    /\ api[d] = "over"
    /\ row[d] = "ready"
    /\ \E p \in Deployments \ {d} : row[p] = "ready"
    /\ ApiGoto(d, "marking")
    /\ UNCHANGED <<dbVars, queueVars, worker, pc, scan, dockerVars, fresh, faultVars>>

MarkRollingBack(d) ==
    /\ api[d] = "marking"
    /\ SetRow(d, "rolling_back")
    /\ ApiGoto(d, "rollback")
    /\ UNCHANGED <<phase, spec, queueVars, worker, pc, scan, dockerVars, fresh, faultVars>>

\* The request carries no x-engine-secret, verifyInternalSecret(undefined) is
\* false, and the answer is 401: nothing is queued and the catch block runs.
RollbackRefused(d) ==
    /\ api[d] = "rollback"
    /\ SetRow(d, "failed")
    /\ ApiGoto(d, "over")
    /\ UNCHANGED <<phase, spec, queueVars, worker, pc, scan, dockerVars, fresh, faultVars>>

(***************************************************************************)
(* BullMQ: the parts the worker relies on                                  *)
(***************************************************************************)

\* A job is handed to the worker.
Take(k) ==
    /\ worker = "up"
    /\ job[k] = "waiting"
    /\ Cardinality({x \in Keys : Running(x)}) < Concurrency
    /\ job' = [job EXCEPT ![k] = "active"]
    /\ pc' = [pc EXCEPT ![k] = "starting"]
    /\ UNCHANGED <<dbVars, api, made, stalls, worker, scan, dockerVars, fresh, faultVars>>

\* The handler returned.
Complete(k) ==
    /\ pc[k] = "return"
    /\ job' = [job EXCEPT ![k] = "completed"]
    /\ pc' = [pc EXCEPT ![k] = "idle"]
    /\ UNCHANGED <<dbVars, api, made, stalls, worker, scan, dockerVars, fresh, faultVars>>

\* Mutant: the attempt that is running is not counted.
FinalAttemptOffByOne(k) == made[k] >= Attempts

FinalAttempt(k) == made[k] + 1 >= Attempts

\* Mutant: a failed job is always tried again.
RethrowUnbounded(k) ==
    /\ pc[k] = "throw"
    /\ made' = [made EXCEPT ![k] = @ + 1]
    /\ job' = [job EXCEPT ![k] = "delayed"]
    /\ pc' = [pc EXCEPT ![k] = "idle"]
    /\ UNCHANGED <<dbVars, api, stalls, worker, scan, dockerVars, fresh, faultVars>>

\* The handler threw: the job waits for its backoff, or has failed for good.
Rethrow(k) ==
    /\ pc[k] = "throw"
    /\ made' = [made EXCEPT ![k] = @ + 1]
    /\ job' = [job EXCEPT ![k] = IF made[k] + 1 >= Attempts THEN "failed"
                                                           ELSE "delayed"]
    /\ pc' = [pc EXCEPT ![k] = "idle"]
    /\ UNCHANGED <<dbVars, api, stalls, worker, scan, dockerVars, fresh, faultVars>>

\* The backoff is over.
BackoffEnds(k) ==
    /\ worker = "up"
    /\ job[k] = "delayed"
    /\ job' = [job EXCEPT ![k] = "waiting"]
    /\ UNCHANGED <<dbVars, api, made, stalls, worker, pc, scan, dockerVars, fresh, faultVars>>

\* Mutant: the test for a held lock is inverted.
StalledWhenHeld(k) ==
    /\ worker = "up"
    /\ job[k] = "active"
    /\ Running(k)
    /\ stalls[k] < MaxStalls
    /\ job' = [job EXCEPT ![k] = "waiting"]
    /\ stalls' = [stalls EXCEPT ![k] = @ + 1]
    /\ pc' = [pc EXCEPT ![k] = "idle"]
    /\ UNCHANGED <<dbVars, api, made, worker, scan, dockerVars, fresh, faultVars>>

\* An active job nobody holds the lock of is handed out again, but not more
\* often than MaxStalls: then it fails without any handler being told.
Stalled(k) ==
    /\ worker = "up"
    /\ job[k] = "active"
    /\ ~Running(k)
    /\ IF stalls[k] < MaxStalls
       THEN /\ job' = [job EXCEPT ![k] = "waiting"]
            /\ stalls' = [stalls EXCEPT ![k] = @ + 1]
       ELSE /\ job' = [job EXCEPT ![k] = "failed"]
            /\ UNCHANGED stalls
    /\ UNCHANGED <<dbVars, api, made, worker, pc, scan, dockerVars, fresh, faultVars>>

(***************************************************************************)
(* The worker's handler                                                    *)
(***************************************************************************)

\* A callback is delivered, or lost: the worker logs that and goes on.
LoseCallback ==
    /\ lost < MaxLost
    /\ lost' = lost + 1
    /\ UNCHANGED dbVars

ReportStatus(k, status) ==
    \/ /\ SetRow(Of(k), status)
       /\ UNCHANGED <<phase, spec, lost>>
    \/ LoseCallback

\* The metadata of a phase is merged into the row, so a deploymentSpec stays.
ReportPhase(k, name, withSpec) ==
    \/ /\ phase' = [phase EXCEPT ![Of(k)] = name]
       /\ spec' = [spec EXCEPT ![Of(k)] = @ \/ withSpec]
       /\ UNCHANGED <<row, lost>>
    \/ LoseCallback

\* The handler of k goes from one await to the next.
Step(k, from, to) ==
    /\ pc[k] = from
    /\ pc' = [pc EXCEPT ![k] = to]

ReportStarting(k) ==
    /\ Step(k, "starting", "deploying")
    /\ ReportStatus(k, "starting")
    /\ UNCHANGED <<api, queueVars, worker, scan, dockerVars, fresh, crashes>>

ReportDeploying(k) ==
    /\ Step(k, "deploying", "health")
    /\ ReportPhase(k, "DEPLOYING", TRUE)
    /\ UNCHANGED <<api, queueVars, worker, scan, dockerVars, fresh, crashes>>

ReportHealthCheck(k) ==
    /\ Step(k, "health", "list")
    /\ ReportPhase(k, "HEALTH_CHECK", TRUE)
    /\ UNCHANGED <<api, queueVars, worker, scan, dockerVars, fresh, crashes>>

\* What the steps of deployReplicas leave alone.
DockerStep == UNCHANGED <<dbVars, api, queueVars, worker, scan, fresh, faultVars>>

SetCont(k, state) == cont' = [cont EXCEPT ![Of(k)] = state]

\* deployReplicas begins: whatever containers the runtime name has, running or
\* not, are the old ones to this handler, those of an earlier attempt and those
\* of another handler included.
ListOld(k) ==
    /\ Step(k, "list", "create")
    /\ listed' = IF cont[Of(k)] # "none" THEN listed \cup {k} ELSE listed \ {k}
    /\ UNCHANGED <<cont, mistaken>>
    /\ DockerStep

\* Mutant: every attempt makes up names of its own.
CreateUnderFreshName(k) ==
    /\ Step(k, "create", "promote")
    /\ SetCont(k, "partial")
    /\ UNCHANGED <<listed, mistaken>>
    /\ DockerStep

\* The first container is created: no other has its name any more.
CreateCandidate(k) ==
    /\ cont[Of(k)] = "none"
    /\ Step(k, "create", "promote")
    /\ SetCont(k, "partial")
    /\ mistaken' = IF k \in listed THEN mistaken \cup {Of(k)} ELSE mistaken
    /\ UNCHANGED listed
    /\ DockerStep

\* Its creation is refused.
CreateFails(k) ==
    /\ cont[Of(k)] = "none"
    /\ Step(k, "create", "diagnose")
    /\ listed' = listed \ {k}
    /\ UNCHANGED <<cont, mistaken>>
    /\ DockerStep

\* Mutant: the catch block removes the names it was asked to create.
RemoveByName(k) ==
    /\ cont[Of(k)] # "none"
    /\ Step(k, "create", "diagnose")
    /\ SetCont(k, "none")
    /\ listed' = listed \ {k}
    /\ UNCHANGED mistaken
    /\ DockerStep

\* The names are taken, by a leftover, by another handler or by the very
\* containers that serve.  The catch block removes the containers this attempt
\* has started, and it has started none.
NameConflict(k) ==
    /\ cont[Of(k)] # "none"
    /\ Step(k, "create", "diagnose")
    /\ listed' = listed \ {k}
    /\ UNCHANGED <<cont, mistaken>>
    /\ DockerStep

\* All containers are created, started and healthy, and the route points at them.
Promote(k) ==
    /\ Step(k, "promote", "retire")
    /\ SetCont(k, "serving")
    /\ UNCHANGED <<listed, mistaken>>
    /\ DockerStep

\* Mutant: the error is swallowed.
IgnoreUnhealthy(k) ==
    /\ Step(k, "promote", "retire")
    /\ \E left \in {"none", "partial"} : SetCont(k, left)
    /\ UNCHANGED <<listed, mistaken>>
    /\ DockerStep

\* A later create, a start, a test or the switch fails.  The containers already
\* pushed to "started" are removed, as far as Docker obeys; one that was created
\* and did not start stays.
CandidateUnhealthy(k) ==
    /\ Step(k, "promote", "diagnose")
    /\ \E left \in {"none", "partial"} : SetCont(k, left)
    /\ listed' = listed \ {k}
    /\ UNCHANGED mistaken
    /\ DockerStep

\* The old containers are removed under the names they were listed with, which
\* this handler's own may have by now; a refused removal is not noticed.
Retire(k) ==
    /\ Step(k, "retire", "shift")
    /\ IF k \in listed
       THEN \E left \in {"none", "partial", "serving"} : SetCont(k, left)
       ELSE UNCHANGED cont
    /\ listed' = listed \ {k}
    /\ UNCHANGED mistaken
    /\ DockerStep

ReportTrafficShift(k) ==
    /\ Step(k, "shift", "live")
    /\ ReportPhase(k, "TRAFFIC_SHIFT", FALSE)
    /\ UNCHANGED <<api, queueVars, worker, scan, dockerVars, fresh, crashes>>

ReportLive(k) ==
    /\ Step(k, "live", "ready")
    /\ ReportPhase(k, "LIVE", FALSE)
    /\ UNCHANGED <<api, queueVars, worker, scan, dockerVars, fresh, crashes>>

ReportReady(k) ==
    /\ Step(k, "ready", "return")
    /\ ReportStatus(k, "ready")
    /\ UNCHANGED <<api, queueVars, worker, scan, dockerVars, fresh, crashes>>

\* The catch block: the failure is final only on the last attempt.
ReportDiagnosing(k) ==
    /\ Step(k, "diagnose", IF FinalAttempt(k) THEN "failphase" ELSE "throw")
    /\ ReportPhase(k, "DIAGNOSING", FALSE)
    /\ UNCHANGED <<api, queueVars, worker, scan, dockerVars, fresh, crashes>>

\* Mutant: only the status is reported.
SkipFailedPhase(k) ==
    /\ Step(k, "failphase", "failstatus")
    /\ UNCHANGED <<dbVars, lost>>
    /\ UNCHANGED <<api, queueVars, worker, scan, dockerVars, fresh, crashes>>

ReportFailedPhase(k) ==
    /\ Step(k, "failphase", "failstatus")
    /\ ReportPhase(k, "FAILED", FALSE)
    /\ UNCHANGED <<api, queueVars, worker, scan, dockerVars, fresh, crashes>>

ReportFailedStatus(k) ==
    /\ Step(k, "failstatus", "throw")
    /\ ReportStatus(k, "failed")
    /\ UNCHANGED <<api, queueVars, worker, scan, dockerVars, fresh, crashes>>

HandlerAction(k) ==
    \/ ReportStarting(k) \/ ReportDeploying(k) \/ ReportHealthCheck(k)
    \/ ListOld(k) \/ CreateCandidate(k) \/ CreateFails(k) \/ NameConflict(k)
    \/ Promote(k) \/ CandidateUnhealthy(k) \/ Retire(k)
    \/ ReportTrafficShift(k) \/ ReportLive(k) \/ ReportReady(k)
    \/ ReportDiagnosing(k) \/ ReportFailedPhase(k) \/ ReportFailedStatus(k)
    \/ Complete(k) \/ Rethrow(k)

(***************************************************************************)
(* The recovery scan                                                       *)
(***************************************************************************)

\* The API's query, and then the worker's own test of the rows it returns.
\* A row without a deploymentSpec is skipped by both.
Claimable(d) ==
    \/ row[d] \in {"queued", "building", "starting", "rolling_back"}
    \/ phase[d] \notin terminalDeploymentStates

Resumable(d) ==
    /\ Claimable(d)
    /\ spec[d]
    /\ phase[d] \notin terminalDeploymentStates

\* A user registers the worker's node again, and 45 seconds later its heartbeat
\* is too old.
RegisterNode ==
    /\ ~fresh
    /\ fresh' = TRUE
    /\ UNCHANGED <<dbVars, api, queueVars, worker, pc, scan, dockerVars, faultVars>>

NodeExpires ==
    /\ fresh
    /\ fresh' = FALSE
    /\ UNCHANGED <<dbVars, api, queueVars, worker, pc, scan, dockerVars, faultVars>>

\* GET /api/internal/deployments/recoverable: the rows as they are now, for a node
\* that is fresh, and no row at all without one.
ClaimRecoverable ==
    /\ worker = "up"
    /\ fresh
    /\ \A d \in Deployments : scan[d] = "no"
    /\ \E d \in Deployments : Resumable(d)
    /\ scan' = [d \in Deployments |-> IF Resumable(d) THEN "waiting" ELSE "no"]
    /\ UNCHANGED <<dbVars, api, queueVars, worker, pc, dockerVars, fresh, faultVars>>

NextList(list) ==
    CASE list = "waiting" -> "active"
      [] list = "active" -> "delayed"
      [] list = "delayed" -> "enqueue"

\* findDeploymentJob reads one list of one deployment; a job of this
\* deployment in it ends the search.  The rows are handled one by one.
ReadList(d) ==
    /\ scan[d] \in {"waiting", "active", "delayed"}
    /\ \A e \in Deployments \ {d} : scan[e] \in {"no", "waiting"}
    /\ scan' = [scan EXCEPT ![d] =
                  IF \E k \in Keys : Of(k) = d /\ job[k] = scan[d]
                  THEN "no"
                  ELSE NextList(scan[d])]
    /\ UNCHANGED <<dbVars, api, queueVars, worker, pc, dockerVars, fresh, faultVars>>

\* Mutant: the recovered job gets the key of the job that was lost.
EnqueueUnderOldKey(d) ==
    /\ scan[d] = "enqueue"
    /\ Enqueue(DeployKey(d))
    /\ scan' = [scan EXCEPT ![d] = "no"]
    /\ UNCHANGED <<dbVars, api, made, stalls, worker, pc, dockerVars, fresh, faultVars>>

\* No job was seen, so one is added under the recovery key.
EnqueueRecovery(d) ==
    /\ scan[d] = "enqueue"
    /\ Enqueue(RecoveryKey(d))
    /\ scan' = [scan EXCEPT ![d] = "no"]
    /\ UNCHANGED <<dbVars, api, made, stalls, worker, pc, dockerVars, fresh, faultVars>>

(***************************************************************************)
(* Crashes                                                                 *)
(***************************************************************************)

\* The pipelines in flight are gone, and nothing in the API resumes them.
ApiCrash ==
    /\ crashes < MaxCrashes
    /\ crashes' = crashes + 1
    /\ \E d \in Deployments : api[d] \notin {"new", "over"}
    /\ api' = [d \in Deployments |-> IF api[d] = "new" THEN "new" ELSE "over"]
    /\ UNCHANGED <<dbVars, queueVars, worker, pc, scan, dockerVars, fresh, lost>>

\* The handlers in flight and the recovery scan are gone; the jobs and the
\* containers are not.
WorkerCrash ==
    /\ worker = "up"
    /\ crashes < MaxCrashes
    /\ crashes' = crashes + 1
    /\ worker' = "down"
    /\ pc' = [k \in Keys |-> "idle"]
    /\ scan' = [d \in Deployments |-> "no"]
    /\ listed' = {}
    /\ UNCHANGED <<dbVars, api, queueVars, cont, mistaken, fresh, lost>>

WorkerRestart ==
    /\ worker = "down"
    /\ worker' = "up"
    /\ UNCHANGED <<dbVars, api, queueVars, pc, scan, dockerVars, fresh, faultVars>>

ApiAction(d) ==
    \/ InsertState(d) \/ MarkBuilding(d) \/ Build(d) \/ MarkStarting(d)
    \/ SendToEngine(d) \/ ConfirmStarting(d) \/ WriteRefused(d)
    \/ PipelineFails(d)
    \/ MarkRollingBack(d) \/ RollbackRefused(d)

ScanAction(d) == ReadList(d) \/ EnqueueRecovery(d)

JobAction(k) == Take(k) \/ HandlerAction(k) \/ BackoffEnds(k) \/ Stalled(k)

Next ==
    \/ \E d \in Deployments :
          InsertDeployment(d) \/ ApiAction(d) \/ CheckRollback(d) \/ ScanAction(d)
    \/ \E k \in Keys : JobAction(k)
    \/ ClaimRecoverable \/ RegisterNode \/ NodeExpires
    \/ ApiCrash \/ WorkerCrash \/ WorkerRestart

Spec == Init /\ [][Next]_vars

(***************************************************************************)
(* Fairness.  Node runs every continuation it has, a supervisor restarts   *)
(* the worker, BullMQ's timers fire, and the scan is on an interval timer. *)
(* Requests (InsertDeployment, CheckRollback, RegisterNode), the age of a  *)
(* heartbeat and crashes are the environment's and need not happen: a scan *)
(* that finds no fresh node gets no rows, however often it is repeated.    *)
(* The actions of one job, and those of the scan of one row, are never     *)
(* enabled together, so that the fairness of their disjunction is that of  *)
(* each.                                                                   *)
(***************************************************************************)

Fairness ==
    /\ \A d \in Deployments : WF_vars(ApiAction(d)) /\ WF_vars(ScanAction(d))
    /\ \A k \in Keys : WF_vars(JobAction(k))
    /\ WF_vars(ClaimRecoverable)
    /\ WF_vars(WorkerRestart)

FairSpec == Spec /\ Fairness

(***************************************************************************)
(* Properties                                                              *)
(***************************************************************************)

TypeOK ==
    /\ row \in [Deployments -> RowStatus]
    /\ phase \in [Deployments -> PhaseName]
    /\ spec \in [Deployments -> BOOLEAN]
    /\ api \in [Deployments -> ApiStep]
    /\ job \in [Keys -> JobState]
    /\ made \in [Keys -> 0 .. Attempts]
    /\ stalls \in [Keys -> 0 .. MaxStalls]
    /\ worker \in {"up", "down"}
    /\ pc \in [Keys -> HandlerStep]
    /\ scan \in [Deployments -> ScanStep]
    /\ cont \in [Deployments -> {"none", "partial", "serving"}]
    /\ listed \subseteq Keys
    /\ mistaken \subseteq Deployments
    /\ fresh \in BOOLEAN
    /\ lost \in 0 .. MaxLost
    /\ crashes \in 0 .. MaxCrashes

Claims(d) == row[d] = "ready" \/ phase[d] \in {"TRAFFIC_SHIFT", "LIVE"}

\* What the rows claim is true: "ready", TRAFFIC_SHIFT and LIVE are only ever
\* stored while the deployment's containers serve, through lost callbacks, crashes
\* and overlapping handlers (worker.ts:27-29).  The one exception needs a recovered
\* job beside the first: a handler that created under names it had listed as old
\* retires its own containers (replicas.ts:33,39,48).
ReadyIsServing ==
    \A d \in Deployments :
        Claims(d) =>
            \/ cont[d] = "serving"
            \/ d \in mistaken /\ job[RecoveryKey(d)] # "none"

\* At most one of the handlers of a deployment is between creating its containers
\* and retiring the old ones (replicas.ts:39-48): the names are its lock, even when
\* the recovery scan has queued the deployment twice.
OnePromoter ==
    \A k, l \in Keys :
        /\ Of(k) = Of(l)
        /\ pc[k] \in {"promote", "retire"}
        /\ pc[l] \in {"promote", "retire"}
        => k = l

\* Running a finished deployment again, after a crash or a lost callback, never
\* takes down the containers that serve, whether it fails on their names
\* (replicas.ts:53) or retires what it has listed (replicas.ts:48), unless a handler
\* has created its own under names it had listed.
ServingStays ==
    [][\A d \in Deployments \ mistaken :
          cont[d] = "serving" => cont'[d] = "serving"]_vars

\* What the documents say of a live service, with no exception: it has passed its
\* health gates and is the active generation.
LiveIsServing ==
    \A d \in Deployments : Claims(d) => cont[d] = "serving"

LiveJob(k) == job[k] \in {"waiting", "active", "delayed"}
FinishedJob(k) == job[k] \in {"completed", "failed"}

\* Without a fault and without a second job, the stored phase and the containers
\* tell the same story as the queue, retries included (worker.ts:27-35).
PhaseTellsOutcome ==
    lost = 0 /\ crashes = 0 =>
        \A d \in Deployments :
            job[RecoveryKey(d)] = "none" =>
                /\ job[DeployKey(d)] = "completed" =>
                      phase[d] = "LIVE" /\ cont[d] = "serving"
                /\ job[DeployKey(d)] = "failed" =>
                      phase[d] = "FAILED" /\ cont[d] # "serving"

\* As long as every callback arrives and the worker crashes no more often than BullMQ
\* takes one job back, a deployment the worker has begun is never forgotten: while its
\* phase is not terminal there is a job that will go on with it, or the recovery scan can
\* still add one (worker.ts:46-51, redis-queue.ts:14).
NotForgotten ==
    lost = 0 /\ crashes <= MaxStalls =>
        \A d \in Deployments :
            spec[d] /\ phase[d] \notin terminalDeploymentStates =>
                \/ \E k \in Keys : Of(k) = d /\ LiveJob(k)
                \/ job[RecoveryKey(d)] = "none"

\* What the engine's README says of the worker's reports: once the worker is
\* done with a deployment, and no fault has occurred, its status is final.  The
\* pipeline's second write of "starting" (index.ts:52) says otherwise.
StatusReported ==
    lost = 0 /\ crashes = 0 =>
        \A d \in Deployments :
            /\ api[d] = "over"
            /\ FinishedJob(DeployKey(d))
            /\ ~LiveJob(RecoveryKey(d))
            => row[d] \in {"ready", "failed"}

\* A deployment that the worker has begun and that nothing works on any more.
Orphan(d) ==
    /\ spec[d]
    /\ phase[d] \notin terminalDeploymentStates
    /\ \A k \in Keys : Of(k) = d => ~LiveJob(k)
    /\ job[RecoveryKey(d)] = "none"

\* While the worker's node stays fresh, the recovery scan picks every orphan up,
\* however the jobs move under it (worker.ts:42-51,
\* production-platform-routes.ts:15-35).
OrphansPickedUp == <>[]fresh => \A d \in Deployments : Orphan(d) ~> ~Orphan(d)

\* Every job in the queue is eventually done with, across crashes and stalls.
JobsFinish == \A k \in Keys : LiveJob(k) ~> FinishedJob(k)

\* Every deployment the worker has begun gets a terminal phase, unless the word of
\* it is lost: the recovery key is used up after one recovery.
DeploymentsSettle ==
    \A d \in Deployments :
        spec[d] ~> phase[d] \in terminalDeploymentStates \/ lost > 0
=============================================================================
