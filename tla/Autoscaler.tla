----------------------------- MODULE Autoscaler -----------------------------
(***************************************************************************)
(* The autoscaler of replicas.ts beside the deployments of Replicas.  An   *)
(* interval timer per runtime name starts a tick; a tick compares the      *)
(* load with the number of replicas of its generation, adds or removes     *)
(* some, and writes the route.  Nothing stops a tick that has begun: not   *)
(* the next tick, and not a new generation.                                *)
(***************************************************************************)
EXTENDS Replicas

CONSTANTS
    Ticks,          \* ticks in progress at once
    MinReplicas,    \* spec.autoscale.min
    MaxReplicas,    \* spec.autoscale.max
    Overlap,        \* whether a tick and a call can be in progress at once
    NoTimer

ASSUME AutoscalerAssumption ==
    /\ MinReplicas \in Nat \ {0}
    /\ MaxReplicas \in MinReplicas .. MaxIndex
    /\ Overlap \in BOOLEAN
    /\ NoTimer \notin Generations

VARIABLES
    autoscaled, \* the generations whose spec has an autoscale part
    timer,      \* controllers: the generation the interval timer is for
    tpc,        \* where a tick is
    tgen,       \* its generation
    target,     \* the number of replicas it aims at
    todo        \* the containers it will add or remove, or lists for the route

tickVars == <<tpc, tgen, target, todo>>
scaleVars == <<autoscaled, timer, tickVars>>
allVars == <<vars, scaleVars>>

Of(g) == {c \in Up : c[1] = g}

ScaleInit ==
    /\ Init
    /\ autoscaled \in SUBSET Generations
    /\ timer = NoTimer
    /\ tpc = [t \in Ticks |-> "idle"]
    /\ tgen = [t \in Ticks |-> NoTimer]
    /\ target = [t \in Ticks |-> 0]
    /\ todo = [t \in Ticks |-> {}]

\* A deployment that succeeds replaces the timer, but only if its own spec is
\* autoscaled; if it is not, the timer of the generation before goes on.
Deploy(g) ==
    /\ Overlap \/ \A t \in Ticks : tpc[t] = "idle"
    /\ CallAction(g)
    /\ timer' = IF pc[g] = "retire" /\ pc'[g] = "done" /\ g \in autoscaled
                THEN g ELSE timer
    /\ UNCHANGED <<autoscaled, tickVars>>

\* The tick's locals are gone.
Return(t) ==
    /\ tpc' = [tpc EXCEPT ![t] = "idle"]
    /\ tgen' = [tgen EXCEPT ![t] = NoTimer]
    /\ target' = [target EXCEPT ![t] = 0]
    /\ todo' = [todo EXCEPT ![t] = {}]

GoOn(t, from, to) ==
    /\ tpc[t] = from
    /\ tpc' = [tpc EXCEPT ![t] = to]

\* One replica more or less, within the bounds; the load is anything.  How long
\* ago the last change was is abstracted to whether the tick begins at all.
Tick(t) ==
    /\ Overlap \/ Active = {}
    /\ timer # NoTimer
    /\ GoOn(t, "idle", "reconcile")
    /\ LET current == Cardinality(Of(timer)) IN
          /\ current > 0
          /\ \/ current < MaxReplicas /\ target' = [target EXCEPT ![t] = current + 1]
             \/ current > MinReplicas /\ target' = [target EXCEPT ![t] = current - 1]
    /\ tgen' = [tgen EXCEPT ![t] = timer]
    /\ UNCHANGED <<vars, autoscaled, timer, todo>>

\* Mutant: one container too many.
HighestOffByOne(S, n) == {c \in S : Cardinality({d \in S : d[2] > c[2]}) <= n}

\* The n containers with the highest indices.
Highest(S, n) == {c \in S : Cardinality({d \in S : d[2] > c[2]}) < n}

\* reconcileScale lists the replicas once more.
Reconcile(t) ==
    LET items == Of(tgen[t])
        current == Cardinality(items)
    IN  /\ tpc[t] = "reconcile"
        /\ \/ current = target[t] /\ Return(t)
           \/ /\ current < target[t]
              /\ GoOn(t, "reconcile", "grow")
              /\ todo' = [todo EXCEPT ![t] = {tgen[t]} \X (current + 1 .. target[t])]
              /\ UNCHANGED <<tgen, target>>
           \/ /\ current > target[t]
              /\ GoOn(t, "reconcile", "shrink")
              /\ todo' = [todo EXCEPT ![t] = Highest(items, current - target[t])]
              /\ UNCHANGED <<tgen, target>>
        /\ UNCHANGED <<vars, autoscaled, timer>>

FirstOf(t, c) == c \in todo[t] /\ \A d \in todo[t] : c[2] <= d[2]

\* New replicas are named by position, so the name may be taken.
Grow(t) ==
    /\ GoOn(t, "grow", "probe")
    /\ \E c \in todo[t] :
          /\ FirstOf(t, c)
          /\ cont[c] = "none"
          /\ cont' = [cont EXCEPT ![c] = "running"]
          /\ tested' = tested \ {c}
    /\ UNCHANGED <<pc, locals, route, fixed, counters, stuck, promised,
                   autoscaled, timer, tgen, target, todo>>

ProbePasses(t) ==
    /\ \E c \in todo[t] :
          /\ FirstOf(t, c)
          /\ cont[c] = "running"
          /\ tested' = tested \cup {c}
          /\ GoOn(t, "probe", IF todo[t] = {c} THEN "list" ELSE "grow")
          /\ todo' = [todo EXCEPT ![t] = @ \ {c}]
    /\ UNCHANGED <<pc, locals, cont, route, fixed, counters, stuck, promised,
                   autoscaled, timer, tgen, target>>

\* The replica cannot be created or is not healthy: the tick ends, and the
\* replica stays.
GrowFails(t) ==
    /\ tpc[t] \in {"grow", "probe"}
    /\ Return(t)
    /\ UNCHANGED <<vars, autoscaled, timer>>

Shrink(t) ==
    /\ \E c \in todo[t] :
          /\ Remove(c)
          /\ GoOn(t, "shrink", IF todo[t] = {c} THEN "list" ELSE "shrink")
          /\ todo' = [todo EXCEPT ![t] = @ \ {c}]
    /\ UNCHANGED <<pc, locals, tested, route, fixed, crashes, stuck, promised,
                   autoscaled, timer, tgen, target>>

ListActive(t) ==
    /\ GoOn(t, "list", "write")
    /\ todo' = [todo EXCEPT ![t] = Of(tgen[t])]
    /\ UNCHANGED <<vars, autoscaled, timer, tgen, target>>

\* switchTraffic, for a public runtime.
WriteRoute(t) ==
    /\ tpc[t] = "write"
    /\ route' = IF public THEN todo[t] ELSE route
    /\ Return(t)
    /\ UNCHANGED <<pc, locals, cont, tested, fixed, counters, stuck, promised,
                   autoscaled, timer>>

\* The ticks and the timer die with the worker, and nothing starts them again.
ScaleCrash ==
    /\ Crash
    /\ timer' = NoTimer
    /\ tpc' = [t \in Ticks |-> "idle"]
    /\ tgen' = [t \in Ticks |-> NoTimer]
    /\ target' = [t \in Ticks |-> 0]
    /\ todo' = [t \in Ticks |-> {}]
    /\ UNCHANGED autoscaled

TickAction(t) ==
    \/ Tick(t) \/ Reconcile(t) \/ Grow(t) \/ ProbePasses(t) \/ GrowFails(t)
    \/ Shrink(t) \/ ListActive(t) \/ WriteRoute(t)

ScaleNext ==
    \/ \E g \in Generations : Deploy(g)
    \/ \E t \in Ticks : TickAction(t)
    \/ ScaleCrash

ScaleSpec == ScaleInit /\ [][ScaleNext]_allVars

(***************************************************************************)
(* Properties                                                              *)
(***************************************************************************)

\* However ticks overlap, they never scale a generation that runs alone below its
\* minimum (replicas.ts:61-63, 67).
NeverBelowMin ==
    timer # NoTimer /\ Active = {} /\ Up \subseteq Of(timer) =>
        Cardinality(Of(timer)) >= MinReplicas

GenerationsOf(S) == {c[1] : c \in S}

\* What the documents say of a live service: the router leads to the generation
\* that was deployed.  A tick that is in progress when its generation is replaced
\* gives it the traffic back, or nobody (replicas.ts:61-64).
ScalingKeepsGeneration ==
    [][Active = {} /\ Active' = {}
          => GenerationsOf(route') = GenerationsOf(route)]_allVars
=============================================================================
