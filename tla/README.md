# Nexus hosting services: formal models

TLA+ models of the deployment control plane and of the engine of this
repository, their model checking with TLC, and proofs checked by TLAPS.

The repository is a self-hosted deployment platform: a web console and a CLI
call an API (`apps/api`, Fastify and PostgreSQL), the API calls an engine
(`apps/engine`, an HTTP server, a BullMQ queue in Redis and a worker), and the
worker drives Docker and writes Traefik routes.  Its difficulty is that *nobody
owns a deployment*: an HTTP handler that has already answered, a worker, a
second run of the same job and a recovery scan all write the same rows and
create containers under the same names, and each of them can stop between any
two awaits.

## 1. Inventory

| Part | Source | State | Operations | Correct when |
|---|---|---|---|---|
| Deployment pipeline | `apps/api/src/index.ts:52`, `db.ts:20-22` | rows `deployments.status`, `deployment_state` | accept, build, send to the engine, fail | the row tells what became of the deployment |
| Durable queue | `apps/engine/src/redis-queue.ts` | BullMQ jobs by id, attempts, stalls | enqueue by key, search by deployment, retry | one deployment is worked on once at a time; every job ends |
| Worker | `apps/engine/src/worker.ts:16-37` | the handler's position; callbacks | deploy, report, fail, rethrow | "ready" and LIVE are true; the last attempt says FAILED |
| Recovery scan | `worker.ts:39-56`, `production-platform-routes.ts:11-47` | its list of rows; leases in the metadata | claim, search, enqueue again | nothing begun is forgotten, nothing finished is run again |
| Replica controller | `apps/engine/src/replicas.ts:18-56` | containers of a generation, route | create, test, shift (canary), retire, undo | the route leads to tested containers through every failure |
| Autoscaler | `replicas.ts:58-68` | a timer per name, time of the last change | tick, scale up, scale down | follows the current generation within its bounds |
| Runtime switch | `apps/engine/src/deploy.ts` | candidate and previous container, route | create, test, switch, retire, rename, clean up | a tested container serves from the first handover on |
| Health wait | `apps/engine/src/health.ts` | none | poll until healthy, failed or late | passes only on a signal of its mode |
| Router | `apps/engine/src/router.ts` | one file per runtime | switch, weighted switch, remove | atomic replacement |
| Phase table | `apps/engine/src/deployment-state.ts` | records in memory | create, update | only the table's transitions |
| In-process queue | `apps/engine/src/queue.ts` | counter, waiting list | enqueue, drain, settle | limit kept, no slot idle, order kept |
| Engine HTTP server | `apps/engine/src/index.ts` | none | validate, enqueue | a request is queued at most once per key |
| Rollback routes | `auth-routes.ts:117`, `deployment-history.ts:48-112`, `rollback.ts` | the row | check, mark, ask the engine | a healthy deployment survives a refused rollback |
| Runtime nodes | `runtime-platform-routes.ts:17-21`, `node-agent.ts` | `runtime_nodes` | register, heartbeat, expire, choose a fresh node | work goes to a node that is alive, and stays there |
| Start of the API | `index.ts:20-56`, `production-guard.ts`, six schema scripts | the schema, the environment | check, migrate, listen | requests are taken on a whole schema and with sound secrets only; a start succeeds in the end |
| Quotas | `quotas.ts` | `organization_quotas` | triggers, assertions | the limit holds under concurrent transactions |
| Release gates | `release-gates.ts` | gate results | before, after, poll | the gates of a request judge its own deployment |
| Accounts, sessions | `auth.ts`, `auth-routes.ts`, `db.ts:5-14` | users, links, sessions, cookies | register, log in, OAuth, link, log out | one account per identity; only races and stale cookies are refused |
| Webhook | `index.ts:54`, `db.ts:38` | claimed deliveries | claim, deploy, build | a delivery makes one deployment, and its answer is true |
| Managed data | `managed-data.ts`, `runtime-platform-routes.ts:22` | containers, three rows | provision | one database on record, and the rows are about it |
| Deploy page | `web/app/deploy/page.tsx` | the deployment shown, a timer | post, poll | shows its own deployment, and in the end its status |
| Settings page | `web/app/settings/page.tsx` | the selection, one form | select, load, save | a project keeps its own settings; "saved" is true |
| Previews, domains | `preview-routes.ts`, `index.ts:48-50` | environments, domains | create, expire, verify | single statements |
| Builds | `build.ts`, `sandbox.ts` | child processes, a temporary directory | clone, build | |
| The rest | scheduler, platform, UI and observability routes, providers, secrets, contracts, CLI, other pages, agent | single statements, types, pages | | |

**How the parts interact.**  The API calls the engine over HTTP with an
`Idempotency-Key`; the engine's HTTP server adds a job under that key and
answers 202; the worker takes the job and reports back over HTTP callbacks whose
failure is logged and ignored (`worker.ts:10,12`).  The worker asks the API for
recoverable rows every 30 seconds and adds jobs under a second key.  The API's
pipeline and the worker share the row without a version or a lock.  Containers
are identified by name and label only.

**What is hard.**  Interleavings at every `await`; the same deployment run twice
(retry, stalled job, recovery); callbacks lost; crashes of the API or the worker
between two steps; answers that are stale when acted upon; catch blocks that
clean up after a step that has already had an effect; look-ups that an insert relies on
outside of a transaction; answers that reach a page which has moved on.  The list with
its lines is under `hazards` in `PROJECT.json`; each entry names the properties that
watch it or says why none does.

## 2. Modules

    PhaseTable ---- DeploymentPhases
         |
         +--------- Lifecycle ---- MCLifecycle

    Handoff <--refines-- RuntimeSwitch

    Rollout <--refines-- Replicas

    Replicas ---- Autoscaler ---- MCAutoscaler
         |
         +------- MCReplicas

    Startup ---- MCStartup

    DeploymentPhases, DeploymentQueue, RuntimeSwitch, NodeClaims,
        MCStartup, DeployPage ---------------------------------- MCParts
    Accounts, SettingsPage, Quotas, ReleaseGates, Webhook,
        ManagedData -------------------------------------------- MCApi

`MCParts` and `MCApi` compose nothing: the parts under them share no state, and a
behaviour is one of a single part, chosen at the start (`part`, `route`), while the
others keep their first state.  One run then checks all of them, and its size is the
sum of theirs, not the product.

The proofs are in modules of their own:

| Proofs | about |
|---|---|
| `LifecycleProofs` | `Lifecycle` |
| `RuntimeSwitchProofs` | `RuntimeSwitch`, `Handoff` |
| `ReplicasProofs` | `Replicas`, `Autoscaler`, `Rollout` |
| `NodeClaimsProofs` | `NodeClaims` |
| `AccountsProofs` | `Accounts` |
| `PartsProofs` | `DeploymentPhases`, `DeploymentQueue`, `Startup`, and `MCParts` |
| `ApiProofs` | `ManagedData`, `Webhook`, `ReleaseGates`, `Quotas`, and `MCApi` |
| `ConsoleProofs` | `SettingsPage`, `DeployPage` |

### Lifecycle (with PhaseTable)

The composition of the API's pipeline, BullMQ, the worker's handler and the
recovery scan over the two rows.  One action per stretch between two awaits.

| Variable | Code |
|---|---|
| `row`, `phase`, `spec` | `deployments.status`, `deployment_state.phase`, whether `metadata.deploymentSpec` is stored |
| `api[d]` | where the detached pipeline of `index.ts:52`, or the rollback route, is |
| `job[k]`, `made[k]`, `stalls[k]` | state, `attemptsMade` and stalled counter of the BullMQ job of a key |
| `pc[k]` | the await the worker's handler of that job is at |
| `scan[d]` | which list `findDeploymentJob` reads next for `d` |
| `cont[d]` | the deployment's containers: none, some but not serving, serving |
| `listed` | the handlers that have such containers in their local `old` (`replicas.ts:33`) |
| `fresh` | the worker's node is registered and its heartbeat no older than 45 s |
| `worker`, `lost`, `crashes` | the process, and the faults used up |
| `mistaken` | history: deployments with a handler that created its own containers under names it had listed as old |

A deployment has two keys, `deployment:<id>` of the pipeline and `recovery:<id>`
of the scan.  The API always sends a strategy, so the handler always takes the
branch of `deployReplicas`, whose container names depend on the deployment only:
a second run meets a name conflict (`NameConflict`), and its catch block removes
what it has started itself, which is nothing.  That accident keeps two handlers
from being between creating and retiring at the same time (`OnePromoter`), but
not from acting on each other's lists.  Listing (`ListOld`), creating, switching
(`Promote`) and retiring by name (`Retire`) are steps of their own: a handler that has
listed the containers of another, and creates its own after the other's catch block
has freed the names, retires its own in the end.  `mistaken` marks
that case and nothing else; `ServingStays` and `ReadyIsServing` show that
serving containers are safe, and "ready" is true, without it, and the run
`lifecycle_retire` shows it happen.

The API hands recoverable rows to a fresh node only, so `ClaimRecoverable` asks
for `fresh`.  `RegisterNode` and `NodeExpires` are the environment's: the heartbeat
that should keep a node fresh is refused (`nodes_heartbeat`).

Outside `src/`, modelled from how the code uses them: BullMQ hands a waiting job
out, keeps finished jobs under their id (for longer than a behaviour here
lasts), promotes a delayed one, and hands an active job out again whose lock
nobody renews, `maxStalledCount` times; the process supervisor restarts the
worker.

Left out: a callback that was under way when the worker died and arrives
later; a stall of a live worker; two overlapping scans; the rate limiter; the
expiry of finished jobs; nodes other than the worker's own (`NodeClaims` has them);
the worker's rollback branch, which cannot
be reached through the API, whose rollback requests carry no engine secret and
are answered 401.

### RuntimeSwitch and Handoff

`deployRuntime` of `deploy.ts`, one action per Docker or router call, for any
number of calls for one runtime name, behind Traefik (`proxy`), on a host port
(`direct`) or unpublished (`internal`).  A container is identified with the call
that created it; `name` changes when it is renamed.  Docker's list has no
assumed order; `removeContainer` may fail, and the code ignores it; the last rename may be
refused as well, by Docker or because the name is taken.  `Handoff`
is the promise: traffic only to a tested candidate, and somebody to serve
from then on.  `KeepsPromise` is the refinement, with `serving` mapped to the
container the route names if it is running.

Left out: two calls within one millisecond, which share a candidate name; a
container that dies by itself after its test.

### Replicas, Rollout and Autoscaler

`deployReplicas` of `replicas.ts` for any number of generations of one runtime
name, each with `Count` replicas: created, started and tested one after the
other, given the traffic at once (`rolling`, `blue_green`) or in canary steps,
the undo and the clean-up of the catch block, the retirement of what was found
at the start.  A generation can be deployed again, as a retry or a recovered job
does, and then meets names that are taken.

| Variable | Code |
|---|---|
| `pc[g]` | the await the call for generation `g` is at |
| `old`, `oldRunning`, `started` | the local variables of that name (`old` without those already removed) |
| `cont` | Docker: each replica absent, there but not running, or running |
| `tested` | the containers whose last health check passed |
| `route` | the servers of the Traefik file that get traffic; weights are abstracted to whether there are any |
| `stuck`, `promised` | history: an undo was lost; a call found the runtime served |
| `timer`, `autoscaled` | `controllers` and `spec.autoscale` |
| `tpc`, `tgen`, `target`, `todo` | a tick in progress: where it is and its local variables |

`Rollout` is the abstract promise of a rollout: servers that are healthy, those that get the
traffic, those that could have it back (`fallback`), and whether anything has disturbed the
rollouts.  Traffic is shared between the old servers and those of one release, shifted to
the release, kept there or given back; it goes to healthy servers only, and the servers it
can go back to stay healthy until it is kept.  `RollsOutOrBack` is the refinement.  `healthy`
is mapped to the replicas that run and have passed their test, `serving` to `route`, and
`fallback` to the containers that ran when the call began (`oldRunning`) until it retires
them, and to the route from then on.  `trusted` is `Undisturbed`: there is a route, and no
crash, failed removal or lost undo so far.

`Autoscaler` extends `Replicas`: a tick compares the load, which may be anything,
with the number of its generation's replicas, and `reconcileScale` adds or
removes some and writes the route.  Nothing stops a tick that has begun.

Left out: a container that dies by itself; the quiet time between two changes
(any tick may act); a deployment that asks for fewer replicas than its own
`autoscale.min`, which nothing raises.

### DeploymentPhases and PhaseTable

The table of transitions and the in-memory record store, with the path of each
record as history.

### DeploymentQueue

The in-process queue; each JavaScript turn is one action, the drain loop
included.

### NodeClaims

Who runs what when there are several nodes: registration, the agent's heartbeat (which
the session hook refuses), expiry, `engineEndpoint`, the claim of recoverable rows in one
transaction, and each node's worker with its own queue.  `Lifecycle` looks at the steps
of one handler on one node, this module at the row, the claim and the queues.

| Variable | Code |
|---|---|
| `age`, `sent` | `runtime_nodes.last_heartbeat_at`, in intervals of the agent's 15 s timer; who has reported in this one |
| `alive` | nodes whose worker, with its agent, runs |
| `phase`, `specNode`, `recoveryNode`, `originalNode` | `deployment_state.phase` (open or its outcome) and the three node names in its metadata |
| `queued[n][d][k]` | the BullMQ job of a key in the queue of node `n` |
| `scanned[n]` | the rows of the last claim that the worker's loop has still to look at |
| `home`, `lapsed` | history: where a deployment was sent; whether that node was ever not fresh since |

A claim is one action: the transaction locks the rows it reads, and writes only those
whose target changes.  Left out: capacity (no accepted request changes the use of
a node), the count of attempts, lost callbacks.

### Startup

What `index.ts` does before it listens: the checks that run while modules are imported and
`assertProductionConfiguration`, then the schema scripts in the order of the code, each one
query and so one transaction.  `Script` says which tables each refers to and makes.
Several processes start at once (`raced`: IF NOT EXISTS and OR REPLACE do not wait for
a transaction that is not committed), the database goes away and comes back, and
`restart: unless-stopped` starts a process again.

### Accounts

Registration, login, logout and the OAuth flow of both providers, every await a step.  A
user and a session are named by the request that made them; a mail is an address and a
spelling, because `users.email` is unique on the text and the look-ups compare
`lower(email)`.  `raced` (history) marks a request whose look-up was overtaken by an insert
that would have changed it.  Passwords, signatures and the provider's answers are their
outcomes.

### Quotas

The five triggers, which do the same, within READ COMMITTED transactions: `SELECT ... FOR
UPDATE` of the organization's row, the insert of the row if there is none (which waits for a
simultaneous one), the count of what is committed, commit or rollback.  The sum over the rows
of a kind is the number of their units (`Units`), which says the same and can be proved about.

### ReleaseGates

The wrapper around the deployment route and the runner it leaves behind, which takes the
newest deployment of the project since its own start for the one its handler has made.  A
deployment is identified with its request, or with the push that the webhook made it for
(`Pushes`, which have no wrapper and no runner), so a result has a judge to compare it with.

| Variable | Code |
|---|---|
| `config` | `release_gate_configs`, one row of a name; `Configure` is the upsert and may change a gate's kind, `required` flag and needs at any time |
| `made` | the project's deployments in the order of `created_at` |
| `outcome[d]` | what becomes of `deployments.status` |
| `result[d]` | `release_gate_results`, one row for a gate's name, with the gate as it was read |
| `request[r]` | where the wrapper or its runner is, its `started` and `accepted` |
| `known`, `slipped`, `overtaken` | history: the gates the wrapper read; the gates moved behind the back of the runner; deployments made side by side |

The gates are read three times, by the wrapper, before the release and after it, and each
run stores its rows one after the other until a statement fails or the process ends.  No two
things happen in the same millisecond.

### Webhook

The claim of a delivery, the two inserts of a deployment and the request for a build, cut off
anywhere.

### ManagedData

One call after another, or several at once, provisions a database for one service: container,
port, secret, instance row, configuration.

| Variable | Code |
|---|---|
| `provision[p]` | the await the route, or the engine for it, is at |
| `database[p]`, `port[p]` | its container, and the port `hostPort` drew |
| `secretOf`, `instances`, `managed` | `secrets`, `database_instances`, `services.config` |
| `severed` | history: calls ended by an error or the end of a process |

### DeployPage and SettingsPage

Two pages of the console whose requests overlap.  `DeployPage` has the row, which the
pipeline, the worker and other clients change, the timer that belongs to the pair the page
shows, and the polls in flight.  `SettingsPage` has the selection, the one form, the loads
that fill it whatever is selected when they arrive, and the two requests of a save.  A value
of the form is abstracted to the project it came from, which is what a mix-up is about.

## 3. Runs

All bounds are CONSTANTS.  `CHECK_DEADLOCK FALSE` is set where a run ends when
its requests are used up.

| Run | Instance | Shows |
|---|---|---|
| `lifecycle_faults` | 1 deployment beside one that is live already (`Earlier`), 2 attempts, 2 slots, 1 stall, 1 lost callback, 1 crash; the rollback routes fire, which need two ready deployments | `TypeOK`, `ReadyIsServing`, `OnePromoter`, `NotForgotten`, `PhaseTellsOutcome`, `ServingStays` |
| `lifecycle_fair` | 1 deployment, 1 slot, the same faults, and fairness | `JobsFinish`, `DeploymentsSettle`, `OrphansPickedUp` |
| `lifecycle_status`, `lifecycle_retire` | 1 deployment, 2 slots, no fault | two divergences of section 5 |
| `switch_overlap` | 3 calls, 2 at once, no fault | a divergence |
| `replicas` | 3 generations (symmetric) of 2 replicas, direct or canary each, public or not, reruns, 1 failed removal, 1 crash | `TypeOK`, `PromiseKept`, `RouteServes`, `NothingLeftRunning`, `RollsOutOrBack` |
| `autoscaler` | 2 generations, 1 to 3 replicas, 2 overlapping ticks (symmetric), 1 crash; no tick overlaps a call (`Overlap = FALSE`) | `NeverBelowMin`, `PromiseKept` |
| `autoscaler_overlap` | 2 generations, 1 or 2 replicas, 1 tick beside the calls (`Overlap = TRUE`) | a divergence |
| `parts` | one part per behaviour, with the fairness of each: | `PartsTypeOK`, and |
| | the whole table, 1 record | `LiveWasCheckedOrFailed` |
| | 5 jobs, 2 slots of the in-process queue | `QueueKeepsOrder`, `EveryJobSettles` |
| | 3 calls of `deployRuntime` in a row in each of the three modes, 1 Docker fault, 1 crash | `RouteServes`, `NothingLeftRunning`, `KeepsPromise`, `StaysAvailable` |
| | 2 nodes, 1 deployment, any number of crashes and restarts, expiry after 2 intervals | `RunsAtHome`, `PickedUp` |
| | 2 processes of the API, 2 ends or outages, every database an earlier start has left, every environment with one setting wrong | `ListensSoundly`, `EventuallyListens` |
| | the deploy page with 2 deployments and 2 polls at once, each row reopened at most once | `ShowsOwnLatest`, `ShowsOutcome` |
| `api` | one part per behaviour, safety only: | `ApiTypeOK`, and |
| | 3 requests (symmetric) of one browser, 2 accounts that share a mail, 1 change of the secret | `OneUserPerAddress`, `RefusalsExplained`, `LoginConnects` |
| | the settings page with 2 projects and 2 saves | `SavesOwnSettings`, `SavedMeansStored` |
| | 3 transactions on 5 items of 2 kinds, a limit of 2 each | `NeverOverQuota` |
| | 2 deployment requests and a push, of which a behaviour has 2 (`MaxReleases`); a required gate that one of the requests does not get past, and one that changes between a health check and a required approval, both upserted at any time | `ResultsAreTrue` |
| | 2 deliveries in 4 handlers, one of them unsigned | `DeliveriesHold` |
| | 3 provisions, 2 host ports | `OneDatabase` |
| `nodes_heartbeat` | 2 nodes, 1 deployment, 3 intervals as in the code | a divergence |
| `startup_empty` | 2 processes on an empty database | an error of the code |

**Why the bounds are enough.**  Deployments share only the worker's slots and the
scan's list; a second one in flight could delay the first, which any step may do in a run
without fairness, so the second one is live when a behaviour begins, and there to go back to.
The theorems hold for any number of deployments.  Two attempts give
a first, a last and a repeated run; two keys and two slots give two handlers of
one deployment, the most there can be, since a deployment has two keys.  One
fault of each kind is the interesting case, and the theorems of section 4 hold
for any number.  Three calls of `deployRuntime` give a first deployment, a
replacement, and a replacement after a failed or abandoned one.  Three
generations do the same for `deployReplicas`, and each may run any number of
times; two replicas are enough to fail between two of them.  Three replicas let
two ticks scale down from different lists.  `Overlap = FALSE` leaves out of the
run `autoscaler` what `autoscaler_overlap` shows to go wrong, and nothing else.
In `parts`, two nodes are an old home and a new one, and no row looks at another, so
one deployment is enough; `Expired = 2` instead of 3 drops an interval in which nothing
differs (the theorem holds for any).  Two processes race at every script, and two ends are an
outage in the middle of a start and an end after it.  The page can mix up two deployments,
and two polls overtake each other.  In `api`, three requests let two race while a third
comes before or after; three transactions let two wait for the one that holds the lock or
inserts the row; a third project, provision or save would repeat what the second does.
`MaxReleases = 2` gives two requests, or a request and a push, beside each other; the
theorem holds for any number.  `lifecycle_fair` has one slot where `lifecycle_faults` has two,
because the liveness check of two slots takes too long: handlers of one deployment then take
turns, and a scan, a crash and a lost callback still come between them.
The symmetry of `api` is one of request names, and sound for its invariants; the two
accounts are not interchangeable, because they differ in their mails.

**Fairness.**  Weak fairness of the pipeline and of the handler: Node runs every
continuation it has.  Of `Take`, `BackoffEnds` and `Stalled`: BullMQ's worker
and its timers.  Of `WorkerRestart`: the compose file restarts the worker.  Of
the scan's steps: `setInterval` at `worker.ts:60`; a claim, however, needs a fresh node, and
nothing in the code keeps one fresh, so neither `RegisterNode` nor `NodeExpires` is fair.
None of a request, a fault or a crash.  Weak fairness is enough because the actions, once
enabled, stay so until taken or until another step has done their work.  In `DeploymentQueue` only
the settling of a job is fair.  In `NodeClaims` a claim, the loop over its rows and the
start of a waiting job are (the interval timer and BullMQ); `PickedUp` moreover assumes
that one node stays fresh and up.  In `Startup` the restart policy starts a
process, the database comes back, and a script ends.  In `DeployPage` the answer of
`deploy()` and the timer are weakly fair, and the answer of a poll strongly: it is enabled
again with every poll, and polls do not fail for ever.  `MCParts` repeats these
conditions for the part a behaviour belongs to.  The parts of `api` promise no progress.

**What does not hold, and is therefore stated conditionally.**
`PhaseTellsOutcome` holds without faults and as long as no recovery job exists:
with one, the phase can be the second run's failure.  `NotForgotten` needs that no callback
is lost and that the worker crashes no more often than BullMQ takes one job back: with one
more crash the job itself is failed with nobody told.  It offers
"recoverable" only once, because the recovery key stays taken; after a second
lost end the deployment stays where it is, which is why `DeploymentsSettle` lets
a behaviour with a lost callback off; it also needs that the worker crashes no more often
than BullMQ takes a job back, or a fresh node for the recovery.  `ReadyIsServing` and
`ServingStays` except a deployment that is `mistaken`, which takes a recovered job beside
the first one.
`OrphansPickedUp` is about behaviours in which the worker's node is fresh from some point on:
without it the recoverable rows are handed to nobody.  `StaysAvailable` excludes the step of a
Docker fault: if the old container is removed and the rename is then refused
(`deploy.ts:67-68`), both are gone.
`RouteServes` needs calls that do not overlap.

`RunsAtHome` is about a node that has been fresh without a break: as soon as it has expired,
another node may claim what still runs on it.  `PickedUp` leaves out the two cases the code
does not handle, a row whose claim was overwritten by a late report, and a node that has
had a recovery of the deployment before.  `EventuallyListens` needs a database that an
earlier version has started on (`startup_empty`).  `ShowsOwnLatest`, `SavesOwnSettings`,
`ResultsAreTrue`, `OneUserPerAddress` and `RefusalsExplained` allow exactly the overlap
that the code does not guard against, and say that nothing else leads there.
`ResultsAreTrue` also allows a gate without a result if it was changed, while the runner waited
for the end of the release, from a kind that is run after it to one that is run before it.

`Rollout` promises nothing after the first fault (`Disturb`): from then on what a call takes for
stable may be a candidate that was left behind.  `PromiseKept` and, for `rolling` and
`blue_green`, `RouteServes` say what holds in spite of faults.

In `Replicas` every property excludes a lost undo (`stuck`): the catch block logs
it and removes the candidates the route leads to.  `RouteServes` allows no fault
when a strategy is canary: the call takes every running container it finds for
stable, so an untested candidate that a crash or a failed removal left behind
shares the canary traffic.  It is not checked beside the autoscaler, whose new
replicas stay, and get traffic at the next change, when their probe has failed
(`replicas.ts:62`).  `NeverBelowMin` is stated for a generation that runs alone.

## 4. Proofs

| Theorem | States | Rests on |
|---|---|---|
| `LifecycleProofs!TypeCorrect` | `Spec => []TypeOK` | `JobsConsistent`: a handler runs only for an active job, and a job that can still run has attempts left.  `TypeOK` bounds `made`, and is not inductive without it |
| `!PromotersExclude` | `Spec => []OnePromoter` | `Ownership`: between creating and switching the containers are "partial", from the switch to the retirement they serve, and no other handler is between its own; its own are in its list only if it is marked |
| `!ServingIsKept` | `Spec => ServingStays` | the same, as an action property (`ServingStep`): a retirement that can meet the handler's own containers is one of a deployment that is marked |
| `!ReadyMeansServing` | `Spec => []ReadyIsServing` | `ClaimsHold`: what the rows claim is true unless the deployment is marked, which it stays (`MistakesStay`); and `ListKept` with the other invariants of `NothingForgotten`: it is marked only if a recovery has been queued, because a job alone meets at its creation what it has listed |
| `!NothingForgotten` | `Spec => []NotForgotten` | `DebtsKept`: whoever has stored a phase that is not final still owes another one, and `Kept` says which job does; `StallsPaid`: a job is taken back at most once per crash, so that it cannot fail behind everybody's back |
| `!OutcomeIsTold` | `Spec => []PhaseTellsOutcome` | `OneJobTold`: what the only job has done so far is in the phase and the containers, one line per await of the handler |
| `RuntimeSwitchProofs!RouteAlwaysServes` | `OneCallAtATime /\ SwitchSpec => []RouteServes` | `CallInv`: until a call has switched, the route does not name its candidate, so its cleanup is harmless; once it has, the route does, so retiring the previous container is |
| `!ImplementsHandoff` | `OneCallAtATime /\ SwitchSpec => KeepsPromise` | `SwitchInv`, and the step simulation `StepKeepsPromise` |
| `!NothingIsLeftRunning` | `OneCallAtATime /\ SwitchSpec => []NothingLeftRunning` | `Tidy`: without a fault only the container of the route and the candidate can be up, and `CallTidy` says at each await which of them |
| `!OneStaysAvailable` | `OneCallAtATime /\ SwitchSpec => StaysAvailable` | `DirectInv`: a call that comes to the rename has removed the holder of the name, so that a tested candidate is never cleaned up (`DirectCall`) |
| `ReplicasProofs!TypeCorrect` | `Spec => []TypeOK` | itself; for any number of calls at once |
| `!PromiseIsKept` | `OneCallAtATime /\ Spec => []PromiseKept` | `CallInv`: what a call has started is never among its old containers (`OwnContainers`, `OldIsThere`: a name that is taken cannot be created); until the old ones are retired one of them can serve (`OldServes`), and afterwards all candidates are tested and have the traffic (`CandidatesReady`).  `PromiseKept` says nothing of who serves and is not inductive alone |
| `!RouteAlwaysServes` | `OneCallAtATime /\ Spec => []RouteServes` | the same and `RouteInv`.  Its two cases have different reasons: without canary steps the route never holds what a call has started and not tested (`DirectInv`, through all faults); without faults the old containers are exactly the servers of the route (`CleanInv`) |
| `!NothingIsLeftRunning` | `OneCallAtATime /\ Spec => []NothingLeftRunning` | `CleanInv`: nothing runs but the old containers and what the call has started |
| `!ImplementsRollout` | `OneCallAtATime /\ Spec => RollsOutOrBack` | `RouteInv`, and the step simulation `StepRollsOut`: a call that prepares or retires lets servers come and go, its first switch shares or shifts, its last one keeps, and the undo gives back exactly what the call found running |
| `!TicksRespectMinimum` | `~Overlap /\ OneCallAtATime /\ EnoughReplicas /\ ScaleSpec => []NeverBelowMin` | `SomeBaseKept`: once there is a timer, some generation has its lowest `MinReplicas` replicas up and neither a call (`Doomed`) nor a tick (`AimsHigh`) is about to remove one.  It may be another one than the timer's, whose spec had no autoscale part.  `HighestAreAbove`: who keeps k of a list and removes the highest removes none with an index up to k |
| `!TicksKeepPromise` | `~Overlap /\ OneCallAtATime /\ ScaleSpec => [](faults = 0 => PromiseKept)` | `ServeInv`: between calls the first replica of the timer's generation is tested and, if there is a route, in it (`FirstServes`), or the generation is gone; a tick never removes that one, because it removes the highest of more than one, and writes it with the others (`TickServes`) |
| `NodeClaimsProofs!StaysAtHome` | `NodesSpec => []RunsAtHome` | `OnlyAt`: while its home has been fresh, every trace of a deployment (three node names, scans, jobs) leads there, so that `ClaimTarget` can only be its home; `Unknown`: there is no trace of one that was not sent |
| `AccountsProofs!AddressesAreApart` | `AccountsSpec => []OneUserPerAddress` | `LookupsHold`: what the look-ups have told a request still holds when it inserts, unless it was overtaken |
| `!WhoIsTurnedAway` | `AccountsSpec => []RefusalsExplained` | the same for the constraints, and `StateHolds` for the cookie: a flow that is away has its own, or there is a reason why not; a secret that was given up does not come back |
| `!WhoLogsIn` | `AccountsSpec => []LoginConnects` | `LoginHolds`: once a login has found or linked its account, the account is the user's and its token is not older than the login |
| `PartsProofs!CheckedOrFailed`, `!StoppedStays` | the two properties of the table | `EarlyLeadsTo`: the states before the health check lead only to each other, to HEALTH_CHECK, FAILED or STOPPED |
| `!OrderIsKept` | `QueueSpec => []QueueKeepsOrder`: the limit, no idle slot, first in first out | `QueueInv`: no job is submitted twice and the jobs in flight have been started, so the next one is not in flight; `DrainStep` for the loop both callers run |
| `!ListensWhenSound` | `StartupSpec => []ListensSoundly` | `Prepared`: what the scripts before the one a process is at have made is there, whoever made it; `Admitted`: a process that is up has an environment its checks let pass |
| `!EveryPartIsItsOwn` | `PartsSpec` implies the safety part of the specifications of all its parts | every step of the instance is a step of each part or leaves its variables alone |
| `!PartsStayTyped` | `PartsSpec => []PartsTypeOK` | the same, and the typing of each part; the one of the runtime switch for any number of calls at once |
| `ApiProofs!DatabaseIsOne` | `DataSpec => []OneDatabase` | `ProvisionInv`: whoever has got past the insert of the secret is the one it names, and nobody gets past it before the container runs; so the row and the configuration can only be of that call |
| `!DeliveredOnceAndTold` | `WebhookSpec => []DeliveriesHold` | `OneWins`: a delivery is claimed by one handler; `LeadsToBuild`: a claim leads to a build unless its handler is cut off |
| `!GatesJudgeTheirOwn` | `GatesSpec => []ResultsAreTrue` | `RequestInv`, which is `FindsOwn`: the deployment a runner takes for the newest is its own, or one was made while it looked and both are marked; `LetThrough`: no gate that the wrapper read blocks a request it let through; `Accounted`: a gate the wrapper read has a result, is still to be run, or has slipped |
| `!QuotasHold` | `QuotasSpec => []NeverOverQuota` | `LockInv`: the lock is on a row that is there or that its holder has inserted, so that two transactions never both hold one; `WriterInv`: what has been counted still fits, because nobody else commits meanwhile.  `UnitsOfOneMore`: the units of one more item are those it had before and its own |
| `!EveryRouteIsItsOwn` | `ApiSpec` implies the specifications of all its parts | every step of the instance is a step of each part or leaves its variables alone |
| `!RoutesStayTyped` | `ApiSpec => []ApiTypeOK` | the same, and the typing of each part |
| `ConsoleProofs!SettingsStayApart` | `SettingsSpec => []SavesOwnSettings` | `FormExplained`: a form of another project has its reason in the history; `PutsExplained`: so has every request in flight |
| `!SavedIsStored` | `SettingsSpec => []SavedMeansStored` | `NobodyElseWrites`: a request in flight is of the save the page waits for, or its project is torn; `SaveIsKept`: each part of that save is stored or on its way |
| `!ShowsLatest` | `DeployPageSpec => []ShowsOwnLatest` | `AllOfLatest`: unless it was overtaken, what is shown and every poll under way is of the latest deployment |

The theorems about a part speak of the part's own specification, for example `DataSpec`.
`EveryRouteIsItsOwn` and `EveryPartIsItsOwn` carry them over to the two instances that
TLC checks.  Every invariant of a run is stated by a theorem, some of them under the
hypotheses below.  `StoppedIsFinal`, which one row of the table says, is proved only.

The assumptions are those of the modules (`ParametersAssumption`, `SwitchAssumption`,
`ReplicasAssumption`, `AutoscalerAssumption`, `QueueAssumption` and so on): the bounds are
naturals, the sets are finite where they are counted, and the value for "none" is no member.
The theorems about nodes, databases, settings and accounts need no set to be finite, the one
about quotas only the items, which are counted.  Some
theorems have a further hypothesis:

- `OneCallAtATime` is `MaxActive = 1`; the run `switch_overlap` shows that it is needed for
  `deployRuntime`.  Without the proxy (`NoRoute`) there is no route, and `RouteAlwaysServes`
  and `ImplementsHandoff` hold because nothing is promised.
- `~Overlap` keeps the ticks of the autoscaler and the calls apart, as the run `autoscaler`
  does.  A tick that aims low while its generation is replaced, and goes on when it has been
  deployed again, could remove a replica below the minimum.
- `EnoughReplicas` is `MinReplicas <= Count`.  The engine does not compare the two
  (`index.ts:26`, `index.ts:34`), and a tick adds a replica for the load only; a deployment
  that starts below its minimum stays there.
- `faults = 0` in `TicksKeepPromise`: no removal has failed.  A replica of an older call that
  could not be removed runs on under a name of the timer's generation without having been
  tested again, and a later tick can write it to the route in place of the others.

**Only model-checked:** the liveness properties `JobsFinish`, `DeploymentsSettle`,
`OrphansPickedUp`, `EveryJobSettles`, `PickedUp`, `EventuallyListens` and `ShowsOutcome`
(fairness and ENABLED are out of the prover's reach); and `PromiseKept` beside the autoscaler
in behaviours with failed removals, which the run `autoscaler` does not have either
(`MaxFaults = 0`).

## 5. Where the code and its documents part

Six runs end with a counterexample; the texts they contradict are quoted in
`PROJECT.json`.

1. `lifecycle_status`: the worker reports "ready", then the pipeline receives
   the engine's 202 and writes "starting".
2. `lifecycle_retire`: the second handler of a recovered deployment lists the containers of
   the first, whose catch block then frees their names; it creates its own under them, gives
   them the traffic, removes them with what it had listed, and reports "ready" and LIVE.
3. `switch_overlap`: two calls for one name retire each other's candidates.
4. `autoscaler_overlap`: a tick that waits for a new replica of its generation
   while another generation takes over goes on and gives its own the traffic.
5. `nodes_heartbeat`: the hook that guards all of `/api/v1/` knows users only, so the
   agent's heartbeat is answered 401 and a node expires 45 seconds after its registration,
   although its agent runs.
6. `startup_empty`: `index.ts:42` registers the preview routes, which alter the table
   `environments`, before it awaits the scripts that create it.  On an empty database every
   start ends with an error.

Other observations the models rest on, without a run of their own:

- The scan reads the waiting list, a job moves from delayed to waiting behind its
  back, the scan finds nothing and a second handler of the same deployment
  starts (`redis-queue.ts:15`).  The names keep the handlers out of each other's way
  between creating and retiring (`OnePromoter`), but not out of each other's lists
  (divergence 2).
- The scan also acts on rows that are older than the end of a job (`worker.ts:46`): a
  deployment that got LIVE in between is run again, the second run fails on the taken names,
  and the row ends as FAILED while the containers serve.
- The first phase the worker stores, DEPLOYING, does not follow QUEUED in the
  table of `deployment-state.ts`; nothing but the table's own module consults it.
- FAILED, AUTO_RECOVERY, LIVE is a path through the table without a health
  check; `LiveWasCheckedOrFailed` says that failing is the only way round.
- The interval timer of a generation is replaced only by one that is itself
  autoscaled (`replicas.ts:67` returns first), and no timer is started again when
  the worker restarts.
- Of two overlapping ticks the one with the older list can write the route last;
  the route then names a replica that is gone (`replicas.ts:64`).
- Without Traefik the host port is published for the first deployment of a
  name only (`deploy.ts:55`).
- The recovery scan gets rows only for a node that is fresh when it asks
  (`production-platform-routes.ts:15`), which by divergence 5 takes a registration within the
  last 45 seconds; the default node `local` is never registered.
- A gate that is changed from "build" or "health" to another kind while the runner waits for
  the release is in neither of its two runs: it ends without a result
  (`release-gates.ts:22-23`).
- `docs/ADVANCED_PLATFORM_FEATURES.md:21` says that a failed gate keeps the candidate
  isolated; the gates "build" and "health" are evaluated when the deployment has its
  outcome, and nothing reads their results (`release-gates.ts:23-24`).
- The row of a webhook's deployment stays "queued": the engine is asked for a build only,
  and its answer is not awaited (`index.ts:54`).
- The upsert of a service's secret (`platform-routes.ts:29`) names a conflict target that
  matches no index when there is a service (the index at `platform-schema.ts:14` is
  partial), so the statement fails; `ManagedData` relies on it.
- Nothing takes down a managed database, and after a cut between its secret and its instance
  row every further call for the service leaves one more container behind.
- A rollback request carries no engine secret, is refused, and a healthy deployment is marked
  as failed (`deployment-history.ts:79`).  If it got through, its key would be good for
  one use only (`deployment-history.ts:83`), and its stored spec has no `previousImage`
  (`worker.ts:14`).
- `createDeployment` is two inserts without a transaction (`db.ts:20`), and so is the link of
  an account to a new user (`db.ts:10`); the next login repairs the second one.
- `Math.max(1, NaN)` is NaN: with a malformed `DEPLOYMENT_CONCURRENCY` the in-process queue,
  which is imported nowhere, would start no job (`queue.ts:9`; the same at
  `redis-queue.ts:17`).
- A deployment may have fewer replicas than the minimum of its autoscale part
  (`index.ts:26,34`), and the autoscaler does not make up for it (`replicas.ts:67`).
- The autoscaler names new replicas by their position in the list of running ones; if one in
  the middle is gone the name is taken and the tick fails (`replicas.ts:62`).
- Half of the console's pages ask for `/api/nexus/api/v1/...` and half for
  `/api/nexus/v1/...`, and the proxy appends either to one base
  (`web/app/api/nexus/[...path]/route.ts:15`).  The models of the pages assume the base their
  page works with.

## 6. Not modelled, and what could follow

- **The worker's rollback branch, `rollback.ts` and the pages that ask for a rollback.**
  Rollback requests are refused (section 5); a model of what follows would be of behaviour
  the program does not have.
- **Builds and the Docker calls of `managed-data.ts` beyond create and start.**  Child
  processes; `Lifecycle` has the build as one step that succeeds or fails.
- **Previews, domains, platform, market, observability and UI routes, events, graphs.**
  Single SQL statements behind an access check, with no state of their own to get
  wrong; their schema scripts are part of `Startup`.
- **Pure functions**: `decideAutoscaling` and the price formula of the contracts, the engine's
  `scheduler.ts`, which only filters and sorts, the health decision.  They could be compared
  with reference definitions over small inputs, but no step of the models depends on their
  values: the load, the node and the probe's outcome are free choices.
- **The engine's request validation and authentication, providers, encryption, the agent's
  health endpoint, the CLI, the other pages of the console, compose files.**

What would come next: an abstract queue that `DeploymentQueue` implements; `Rollout` with
faults, which takes a promise about containers left behind; `NodeClaims` with lost callbacks.

## Running

    tlc -config lifecycle_faults.cfg MCLifecycle
    tlapm LifecycleProofs.tla

The runs named `lifecycle_*` belong to `MCLifecycle`, `switch_overlap` to
`RuntimeSwitch`, `replicas` to `MCReplicas`, `autoscaler` to `MCAutoscaler`,
`autoscaler_overlap` to `Autoscaler`, `parts` to `MCParts`, `api` to `MCApi`,
`nodes_heartbeat` to `NodeClaims` and `startup_empty` to `MCStartup`.
`lifecycle_faults`, `lifecycle_fair`, `parts` and `api` take one to two minutes each with two
workers, the others less.
