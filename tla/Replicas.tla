------------------------------ MODULE Replicas ------------------------------
(***************************************************************************)
(* deployReplicas (apps/engine/src/replicas.ts): the containers of a new   *)
(* generation of one runtime are created, started and tested, get the      *)
(* traffic at once or in canary steps, and the containers found at the     *)
(* start are retired.  If a step fails the catch block gives the traffic   *)
(* back and removes what was started.  A generation may be deployed again: *)
(* a retry, or a recovered job.                                            *)
(***************************************************************************)
EXTENDS Naturals, FiniteSets

CONSTANTS
    Generations,    \* deployments of one runtime name
    Count,          \* replicas of a deployment
    MaxIndex,       \* the highest index a replica can have
    MaxActive,      \* calls in progress at once (DEPLOYMENT_CONCURRENCY)
    MaxFaults,      \* bound: containers that remove() does not remove
    MaxCrashes      \* bound: crashes of the worker

ASSUME ReplicasAssumption ==
    /\ IsFiniteSet(Generations)
    /\ Count \in Nat \ {0}
    /\ MaxIndex \in Nat
    /\ Count <= MaxIndex
    /\ MaxActive \in Nat
    /\ MaxFaults \in Nat
    /\ MaxCrashes \in Nat

VARIABLES
    pc,         \* where the call for a generation is
    old,        \* the containers found at the start and not yet removed
    oldRunning, \* those of them that ran
    started,    \* the containers the call has started
    cont,       \* the containers of the runtime
    tested,     \* the containers that passed their health check
    route,      \* the servers in the Traefik file that get traffic
    strategy,   \* "canary", or "direct" for rolling and blue_green
    public,     \* whether there is a route at all
    faults,
    crashes,
    stuck,      \* history: an undo of the traffic switch failed
    promised    \* history: a call found the runtime served

locals == <<old, oldRunning, started>>
counters == <<faults, crashes>>
fixed == <<strategy, public>>
vars == <<pc, locals, cont, tested, route, fixed, counters, stuck, promised>>

Step == {"new", "create", "start", "test", "switch", "weigh", "reweigh",
         "soak", "lastSoak", "retire", "undo", "cleanup", "done", "failed"}
Container == Generations \X (1 .. MaxIndex)
\* Mutant: the replicas are counted from 0.
CandidatesFromZero(g) == {g} \X (0 .. Count - 1)

Candidates(g) == {g} \X (1 .. Count)


\* "idle" is created and not started, or stopped and not removed.
ContainerState == {"none", "idle", "running"}
Existing == {c \in Container : cont[c] # "none"}
Up == {c \in Container : cont[c] = "running"}

InProgress(g) == pc[g] \notin {"new", "done", "failed"}
Active == {g \in Generations : InProgress(g)}

\* Somebody who passed a test answers.
Available ==
    IF public THEN route \cap Up \cap tested # {} ELSE Up \cap tested # {}

Init ==
    /\ pc = [g \in Generations |-> "new"]
    /\ old = [g \in Generations |-> {}]
    /\ oldRunning = [g \in Generations |-> {}]
    /\ started = [g \in Generations |-> {}]
    /\ cont = [c \in Container |-> "none"]
    /\ tested = {}
    /\ route = {}
    /\ strategy \in [Generations -> {"direct", "canary"}]
    /\ public \in BOOLEAN
    /\ faults = 0
    /\ crashes = 0
    /\ stuck = FALSE
    /\ promised = FALSE

Goto(g, from, to) ==
    /\ pc[g] = from
    /\ pc' = [pc EXCEPT ![g] = to]

Begin(g) ==
    /\ Cardinality(Active) < MaxActive
    /\ ~InProgress(g)
    /\ pc' = [pc EXCEPT ![g] = "create"]
    /\ old' = [old EXCEPT ![g] = Existing]
    /\ oldRunning' = [oldRunning EXCEPT ![g] = Up]
    /\ started' = [started EXCEPT ![g] = {}]
    /\ promised' = (promised \/ Available)
    /\ UNCHANGED <<cont, tested, route, fixed, counters, stuck>>

\* The first index the call has not started yet.
IsNext(g, i) == \A j \in 1 .. Count : <<g, j>> \in started[g] <=> j < i

\* The name is free unless the generation has been deployed before.
Create(g) ==
    /\ Goto(g, "create", "start")
    /\ \E i \in 1 .. Count :
          /\ IsNext(g, i)
          /\ cont[<<g, i>>] = "none"
          /\ cont' = [cont EXCEPT ![<<g, i>>] = "idle"]
          /\ tested' = tested \ {<<g, i>>}
    /\ UNCHANGED <<locals, route, fixed, counters, stuck, promised>>

Start(g) ==
    /\ \E i \in 1 .. Count :
          /\ IsNext(g, i)
          /\ Goto(g, "start", IF i = Count THEN "test" ELSE "create")
          /\ cont' = [cont EXCEPT ![<<g, i>>] = "running"]
          /\ started' = [started EXCEPT ![g] = @ \cup {<<g, i>>}]
    /\ UNCHANGED <<old, oldRunning, tested, route, fixed, counters, stuck,
                   promised>>

\* The name is taken, or Docker refuses.  A container that was created and
\* did not start is not in "started" and stays.
CreateOrStartFails(g) ==
    /\ \/ Goto(g, "create", "cleanup")
       \/ Goto(g, "start", "cleanup")
    /\ UNCHANGED <<locals, cont, tested, route, fixed, counters, stuck, promised>>

AfterTest(g) ==
    IF ~public THEN "retire"
    ELSE IF strategy[g] = "canary" /\ oldRunning[g] # {} THEN "weigh"
    ELSE "switch"

TestPasses(g) ==
    /\ started[g] \subseteq Up
    /\ Goto(g, "test", AfterTest(g))
    /\ tested' = tested \cup started[g]
    /\ UNCHANGED <<locals, cont, route, fixed, counters, stuck, promised>>

\* Mutant: the answer of the health check is not looked at.
IgnoreUnhealthy(g) ==
    /\ Goto(g, "test", AfterTest(g))
    /\ UNCHANGED <<locals, cont, tested, route, fixed, counters, stuck, promised>>

TestFails(g) ==
    /\ Goto(g, "test", "cleanup")
    /\ UNCHANGED <<locals, cont, tested, route, fixed, counters, stuck, promised>>

SwitchTraffic(g) ==
    /\ Goto(g, "switch", "retire")
    /\ route' = Candidates(g)
    /\ UNCHANGED <<locals, cont, tested, fixed, counters, stuck, promised>>

\* The Traefik file cannot be written, and the old one stays.
SwitchFails(g) ==
    /\ \/ Goto(g, "switch", "cleanup")
       \/ Goto(g, "weigh", "cleanup")
       \/ Goto(g, "reweigh", "undo")
    /\ UNCHANGED <<locals, cont, tested, route, fixed, counters, stuck, promised>>

\* A canary step below 100, or the last one: index.ts:29 refuses steps that do
\* not end at 100.  The steps are the user's, and any number of them may come
\* before the last.
SwitchWeightedTraffic(g) ==
    /\ \E from \in {"weigh", "reweigh"} :
          \/ /\ Goto(g, from, "soak")
             /\ route' = oldRunning[g] \cup Candidates(g)
          \/ /\ Goto(g, from, "lastSoak")
             /\ route' = Candidates(g)
    /\ UNCHANGED <<locals, cont, tested, fixed, counters, stuck, promised>>

SoakPasses(g) ==
    /\ started[g] \subseteq Up
    /\ \/ Goto(g, "soak", "reweigh")
       \/ Goto(g, "lastSoak", "retire")
    /\ UNCHANGED <<locals, cont, tested, route, fixed, counters, stuck, promised>>

\* Mutant: a failed canary step leaves the weights as they are.
SoakFailsQuietly(g) ==
    /\ \/ Goto(g, "soak", "cleanup")
       \/ Goto(g, "lastSoak", "cleanup")
    /\ UNCHANGED <<locals, cont, tested, route, fixed, counters, stuck, promised>>

SoakFails(g) ==
    /\ \/ Goto(g, "soak", "undo")
       \/ Goto(g, "lastSoak", "undo")
    /\ UNCHANGED <<locals, cont, tested, route, fixed, counters, stuck, promised>>

\* Mutant: the traffic is given back to every old container, whether it ran or not.
UndoToAllOld(g) ==
    /\ Goto(g, "undo", "cleanup")
    /\ route' = old[g]
    /\ UNCHANGED <<locals, cont, tested, fixed, counters, stuck, promised>>

Undo(g) ==
    /\ Goto(g, "undo", "cleanup")
    /\ route' = oldRunning[g]
    /\ UNCHANGED <<locals, cont, tested, fixed, counters, stuck, promised>>

\* The error of the undo is logged, and the clean-up goes on.
UndoFails(g) ==
    /\ Goto(g, "undo", "cleanup")
    /\ stuck' = TRUE
    /\ UNCHANGED <<locals, cont, tested, route, fixed, counters, promised>>

\* remove: stop and remove, each error swallowed.
Remove(c) ==
    \/ /\ cont' = [cont EXCEPT ![c] = "none"]
       /\ UNCHANGED faults
    \/ /\ cont[c] # "none"
       /\ faults < MaxFaults
       /\ faults' = faults + 1
       /\ \E left \in {cont[c], "idle"} : cont' = [cont EXCEPT ![c] = left]

\* Mutant: the list is fetched again when the old containers are retired.
RetireAnyOther(g) ==
    /\ Goto(g, "retire", "retire")
    /\ \E c \in Existing : Remove(c)
    /\ UNCHANGED <<locals, tested, route, fixed, crashes, stuck, promised>>

RetireNext(g) ==
    /\ Goto(g, "retire", "retire")
    /\ \E c \in old[g] :
          /\ Remove(c)
          /\ old' = [old EXCEPT ![g] = @ \ {c}]
    /\ UNCHANGED <<oldRunning, started, tested, route, fixed, crashes, stuck,
                   promised>>

CleanupNext(g) ==
    /\ Goto(g, "cleanup", "cleanup")
    /\ \E c \in started[g] :
          /\ Remove(c)
          /\ started' = [started EXCEPT ![g] = @ \ {c}]
    /\ UNCHANGED <<old, oldRunning, tested, route, fixed, crashes, stuck, promised>>

\* The call returns or throws, and its local variables are gone.
Forget(g) ==
    /\ old' = [old EXCEPT ![g] = {}]
    /\ oldRunning' = [oldRunning EXCEPT ![g] = {}]
    /\ started' = [started EXCEPT ![g] = {}]

\* Mutant: what was started and failed is left where it is.
FinishEarly(g) ==
    /\ \/ old[g] = {} /\ Goto(g, "retire", "done")
       \/ Goto(g, "cleanup", "failed")
    /\ Forget(g)
    /\ UNCHANGED <<cont, tested, route, fixed, counters, stuck, promised>>

Finish(g) ==
    /\ \/ old[g] = {} /\ Goto(g, "retire", "done")
       \/ started[g] = {} /\ Goto(g, "cleanup", "failed")
    /\ Forget(g)
    /\ UNCHANGED <<cont, tested, route, fixed, counters, stuck, promised>>

Crash ==
    /\ crashes < MaxCrashes
    /\ Active # {}
    /\ crashes' = crashes + 1
    /\ pc' = [g \in Generations |-> IF InProgress(g) THEN "failed" ELSE pc[g]]
    /\ old' = [g \in Generations |-> {}]
    /\ oldRunning' = [g \in Generations |-> {}]
    /\ started' = [g \in Generations |-> {}]
    /\ UNCHANGED <<cont, tested, route, fixed, faults, stuck, promised>>

CallAction(g) ==
    \/ Begin(g) \/ Create(g) \/ Start(g) \/ CreateOrStartFails(g)
    \/ TestPasses(g) \/ TestFails(g)
    \/ SwitchTraffic(g) \/ SwitchFails(g) \/ SwitchWeightedTraffic(g)
    \/ SoakPasses(g) \/ SoakFails(g) \/ Undo(g) \/ UndoFails(g)
    \/ RetireNext(g) \/ CleanupNext(g) \/ Finish(g)

Next == Crash \/ \E g \in Generations : CallAction(g)

Spec == Init /\ [][Next]_vars

(***************************************************************************)
(* Properties                                                              *)
(***************************************************************************)

TypeOK ==
    /\ pc \in [Generations -> Step]
    /\ old \in [Generations -> SUBSET Container]
    /\ oldRunning \in [Generations -> SUBSET Container]
    /\ started \in [Generations -> SUBSET Container]
    /\ cont \in [Container -> ContainerState]
    /\ tested \subseteq Container
    /\ route \subseteq Container
    /\ strategy \in [Generations -> {"direct", "canary"}]
    /\ public \in BOOLEAN
    /\ faults \in 0 .. MaxFaults
    /\ crashes \in 0 .. MaxCrashes
    /\ stuck \in BOOLEAN
    /\ promised \in BOOLEAN

\* Once a call has found the runtime served by a tested container, it is served
\* ever after: by failed rollouts, canary steps undone half-way, crashes and
\* containers that could not be removed (replicas.ts:40-54).  Only a lost undo
\* breaks the promise.
PromiseKept == promised /\ ~stuck => Available

\* Every server that gets traffic runs and has passed its test, if nothing that
\* failed its test was left behind for a canary to share the traffic with
\* (replicas.ts:34, 45).
RouteServes ==
    ~stuck /\ ((faults = 0 /\ crashes = 0) \/ \A g \in Generations : strategy[g] = "direct")
        => route \subseteq Up \cap tested

\* Without faults, when no call is in progress, only what gets traffic runs
\* (replicas.ts:48, 53).
NothingLeftRunning ==
    public /\ ~stuck /\ faults = 0 /\ crashes = 0 /\ Active = {} => Up \subseteq route

(***************************************************************************)
(* What is promised, as a specification of its own                         *)
(***************************************************************************)

Undisturbed == public /\ ~stuck /\ faults = 0 /\ crashes = 0
Healthy == IF Undisturbed THEN Up \cap tested ELSE {}
Serving == IF Undisturbed THEN route ELSE {}

\* Until a call retires the old containers, those that ran can have the traffic back.
Undoing == \E g \in Active : pc[g] # "retire"
Fallback ==
    IF ~Undisturbed THEN {}
    ELSE IF Undoing THEN UNION {oldRunning[g] : g \in Generations}
    ELSE route

Traffic == INSTANCE Rollout WITH
    Releases <- {Candidates(g) : g \in Generations},
    healthy <- Healthy, serving <- Serving, fallback <- Fallback, trusted <- Undisturbed

\* deployReplicas implements Rollout: canary or not, the traffic arrives at the new
\* generation or is back where it was before the call, and the containers it can go
\* back to serve as long as it can (replicas.ts:40-54).
RollsOutOrBack == Traffic!Spec
=============================================================================
