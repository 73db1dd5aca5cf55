---------------------------- MODULE RuntimeSwitch ----------------------------
(***************************************************************************)
(* deployRuntime (apps/engine/src/deploy.ts): a candidate container of one *)
(* runtime is created, started and tested, gets the traffic, and the       *)
(* container found at the start is retired.  Between two awaits anything   *)
(* can happen: another call for the same runtime, a Docker call that fails,*)
(* a crash of the worker.  A retry of a job is another call.               *)
(*                                                                         *)
(* Two calls in the same millisecond would share a candidate name; here    *)
(* each call has a name of its own, which stands for the call.             *)
(***************************************************************************)
EXTENDS Naturals, FiniteSets

CONSTANTS
    Calls,          \* calls of deployRuntime for one runtime
    None,           \* no container
    RuntimeName,    \* spec.name, the name a container gets in direct mode
    MaxActive,      \* calls in progress at once (DEPLOYMENT_CONCURRENCY)
    MaxFaults,      \* bound: Docker calls of removeContainer, or renames, that fail
    MaxCrashes      \* bound: crashes of the worker

ASSUME SwitchAssumption ==
    /\ IsFiniteSet(Calls)
    /\ None \notin Calls
    /\ RuntimeName \notin Calls \cup {None}
    /\ MaxActive \in Nat
    /\ MaxFaults \in Nat
    /\ MaxCrashes \in Nat

VARIABLES
    pc,         \* where a call is
    prev,       \* previousName, as found at the start
    cont,       \* the candidate container of a call
    name,       \* its name
    published,  \* the containers bound to the requested host port
    tested,     \* the calls whose health check passed
    route,      \* the server in the Traefik file of the runtime
    faults,
    crashes,
    mode        \* "proxy": Traefik; "direct": a host port; "internal": neither

docker == <<cont, name, published>>
switchVars == <<pc, prev, docker, tested, route, faults, crashes, mode>>

SwitchStep == {"new", "create", "start", "health", "switch", "retire", "rename",
         "cleanup", "done", "failed"}
ContainerState == {"none", "created", "running", "stopped"}

Up == {c \in Calls : cont[c] = "running"}
Existing == {c \in Calls : cont[c] # "none"}
Active == {c \in Calls : pc[c] \notin {"new", "done", "failed"}}

SwitchInit ==
    /\ pc = [c \in Calls |-> "new"]
    /\ prev = [c \in Calls |-> None]
    /\ cont = [c \in Calls |-> "none"]
    /\ name = [c \in Calls |-> c]
    /\ published = {}
    /\ tested = {}
    /\ route = None
    /\ faults = 0
    /\ crashes = 0
    /\ mode \in {"proxy", "direct", "internal"}

Goto(c, from, to) ==
    /\ pc[c] = from
    /\ pc' = [pc EXCEPT ![c] = to]

SetContainer(c, state) == cont' = [cont EXCEPT ![c] = state]

\* findActiveContainer: a running container that has got the runtime's name,
\* or else any that runs.  The order of Docker's list is not ours to assume.
Stable == {c \in Up : name[c] = RuntimeName}
Candidates == IF Stable # {} THEN Stable ELSE Up

FindPrevious(c) ==
    /\ Cardinality(Active) < MaxActive
    /\ Goto(c, "new", "create")
    /\ \/ /\ Candidates = {}
          /\ UNCHANGED prev
       \/ \E p \in Candidates : prev' = [prev EXCEPT ![c] = name[p]]
    /\ UNCHANGED <<docker, tested, route, faults, crashes, mode>>

\* A host port is asked for only if nothing runs yet.
CreateCandidate(c) ==
    /\ Goto(c, "create", "start")
    /\ SetContainer(c, "created")
    /\ published' = IF mode = "direct" /\ prev[c] = None
                    THEN published \cup {c} ELSE published
    /\ UNCHANGED <<prev, name, tested, route, faults, crashes, mode>>

PortTaken(c) == c \in published /\ \E d \in Up : d \in published

\* Mutant: the health check is not waited for.
StartUntested(c) ==
    /\ ~PortTaken(c)
    /\ Goto(c, "start", IF mode = "proxy" THEN "switch" ELSE "retire")
    /\ SetContainer(c, "running")
    /\ UNCHANGED <<prev, name, published, tested, route, faults, crashes, mode>>

StartCandidate(c) ==
    /\ ~PortTaken(c)
    /\ Goto(c, "start", "health")
    /\ SetContainer(c, "running")
    /\ UNCHANGED <<prev, name, published, tested, route, faults, crashes, mode>>

\* createAndStart throws, and "candidate" was never assigned: a container that
\* was created and did not start stays behind.
CreateOrStartFails(c) ==
    /\ \/ Goto(c, "create", "failed")
       \/ Goto(c, "start", "failed")
    /\ UNCHANGED <<prev, docker, tested, route, faults, crashes, mode>>

HealthPasses(c) ==
    /\ cont[c] = "running"
    /\ Goto(c, "health", IF mode = "proxy" THEN "switch" ELSE "retire")
    /\ tested' = tested \cup {c}
    /\ UNCHANGED <<prev, docker, route, faults, crashes, mode>>

\* Mutant: the answer of the health check is not looked at.
IgnoreUnhealthy(c) ==
    /\ Goto(c, "health", IF mode = "proxy" THEN "switch" ELSE "retire")
    /\ UNCHANGED <<prev, docker, tested, route, faults, crashes, mode>>

\* It says unhealthy, has stopped, gives no signal, or the time is up.
HealthFails(c) ==
    /\ Goto(c, "health", "cleanup")
    /\ UNCHANGED <<prev, docker, tested, route, faults, crashes, mode>>

\* switchTraffic: a temporary file is renamed over the old one.
SwitchRoute(c) ==
    /\ Goto(c, "switch", "retire")
    /\ route' = c
    /\ UNCHANGED <<prev, docker, tested, faults, crashes, mode>>

\* The file cannot be written, and the old one stays.
SwitchFails(c) ==
    /\ Goto(c, "switch", "cleanup")
    /\ UNCHANGED <<prev, docker, tested, route, faults, crashes, mode>>

\* removeContainer: stop and remove, each error swallowed.
Remove(n) ==
    LET named == {c \in Existing : name[c] = n}
    IN  \/ /\ cont' = [c \in Calls |-> IF c \in named THEN "none" ELSE cont[c]]
           /\ published' = published \ named
           /\ UNCHANGED faults
        \/ /\ named # {}
           /\ faults < MaxFaults
           /\ faults' = faults + 1
           /\ UNCHANGED published
           /\ \E left \in {"running", "stopped"} :
                 cont' = [c \in Calls |-> IF c \in named /\ cont[c] = "running"
                                          THEN left ELSE cont[c]]

AfterRetire == IF mode = "proxy" THEN "done" ELSE "rename"

\* Mutant: the previous container is looked up again when it is retired.
RetireNewest(c) ==
    /\ Goto(c, "retire", AfterRetire)
    /\ \E p \in Up : Remove(name[p])
    /\ UNCHANGED <<prev, name, tested, route, crashes, mode>>

\* Mutant: the previous container is left alone.
RetireNothing(c) ==
    /\ Goto(c, "retire", AfterRetire)
    /\ UNCHANGED <<prev, docker, tested, route, faults, crashes, mode>>

RetirePrevious(c) ==
    /\ Goto(c, "retire", AfterRetire)
    /\ IF prev[c] = None THEN UNCHANGED <<cont, published, faults>>
                         ELSE Remove(prev[c])
    /\ UNCHANGED <<prev, name, tested, route, crashes, mode>>

NameTaken(c) == \E d \in Existing \ {c} : name[d] = RuntimeName

Rename(c) ==
    /\ cont[c] # "none"
    /\ ~NameTaken(c)
    /\ Goto(c, "rename", "done")
    /\ name' = [name EXCEPT ![c] = RuntimeName]
    /\ UNCHANGED <<prev, cont, published, tested, route, faults, crashes, mode>>

\* The candidate is gone, the name is taken, or Docker refuses the call, when the previous
\* container has been removed already.
RenameFails(c) ==
    /\ Goto(c, "rename", "cleanup")
    /\ \/ /\ cont[c] = "none" \/ NameTaken(c)
          /\ UNCHANGED faults
       \/ /\ faults < MaxFaults
          /\ faults' = faults + 1
    /\ UNCHANGED <<prev, docker, tested, route, crashes, mode>>

\* The catch block, by the candidate's first name.
Cleanup(c) ==
    /\ Goto(c, "cleanup", "failed")
    /\ Remove(c)
    /\ UNCHANGED <<prev, name, tested, route, crashes, mode>>

\* Calls in progress end where they are; containers and route stay.
Crash ==
    /\ crashes < MaxCrashes
    /\ Active # {}
    /\ crashes' = crashes + 1
    /\ pc' = [c \in Calls |-> IF c \in Active THEN "failed" ELSE pc[c]]
    /\ UNCHANGED <<prev, docker, tested, route, faults, mode>>

CallAction(c) ==
    \/ FindPrevious(c) \/ CreateCandidate(c) \/ StartCandidate(c)
    \/ CreateOrStartFails(c) \/ HealthPasses(c) \/ HealthFails(c)
    \/ SwitchRoute(c) \/ SwitchFails(c) \/ RetirePrevious(c)
    \/ Rename(c) \/ RenameFails(c) \/ Cleanup(c)

SwitchNext == Crash \/ \E c \in Calls : CallAction(c)

SwitchSpec == SwitchInit /\ [][SwitchNext]_switchVars

(***************************************************************************)
(* Properties                                                              *)
(***************************************************************************)

SwitchTypeOK ==
    /\ pc \in [Calls -> SwitchStep]
    /\ prev \in [Calls -> Calls \cup {None, RuntimeName}]
    /\ cont \in [Calls -> ContainerState]
    /\ name \in [Calls -> Calls \cup {RuntimeName}]
    /\ published \subseteq Calls
    /\ tested \subseteq Calls
    /\ route \in Calls \cup {None}
    /\ faults \in 0 .. MaxFaults
    /\ crashes \in 0 .. MaxCrashes
    /\ mode \in {"proxy", "direct", "internal"}

\* The route names a container that runs and has passed its test, from the first
\* deployment on and through every failure and crash, if calls for one runtime
\* do not overlap (deploy.ts:61-65).
RouteServes == route # None => cont[route] = "running" /\ route \in tested

\* Who gets the traffic, seen from outside.
Serving == IF route # None /\ cont[route] = "running" THEN route ELSE None

Promise == INSTANCE Handoff WITH serving <- Serving

\* deployRuntime behind the proxy implements the promise of a handoff.
KeepsPromise == Promise!Spec

\* Without faults nothing is left running beside the container that serves once no
\* call is in progress (deploy.ts:63, 71).
NothingLeftRunning ==
    mode = "proxy" /\ faults = 0 /\ crashes = 0 /\ Active = {}
        => Up \subseteq {route}

\* Without a proxy, too, a tested container stays up while the next one is
\* brought in, across crashes and failed candidates, as long as Docker obeys: the
\* previous container is removed before the rename, and a rename that is refused has
\* the candidate removed as well (deploy.ts:67-71).
Available == Up \cap tested # {}
StaysAvailable ==
    [][mode # "proxy" /\ faults' = 0 /\ Available => Available']_switchVars

\* What docs/DEPLOYMENT-LIFECYCLE.md says of the handoff: traffic only goes to a
\* candidate that is up.  With two calls in progress the previous container of
\* one can be the tested candidate of the other (deploy.ts:40, 53, 62-63).
HandoffToRunning == [][route' # route => cont[route'] = "running"]_switchVars
=============================================================================
