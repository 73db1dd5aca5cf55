----------------------------- MODULE NodeClaims -----------------------------
(***************************************************************************)
(* Several runtime nodes: their registration and expiry                    *)
(* (runtime-platform-routes.ts), the choice of a node for a deployment,    *)
(* the claim of recoverable deployments in one transaction                 *)
(* (production-platform-routes.ts:11-47), and each node's worker with its  *)
(* own queue (worker.ts, redis-queue.ts).  Where Lifecycle looks at the    *)
(* steps of one handler on one node, this module looks at who runs what.   *)
(*                                                                         *)
(* Capacity suffices everywhere: no accepted request ever changes the use  *)
(* of a node.  Attempts are not counted: an attempt that failed may be     *)
(* repeated or be the last.                                                *)
(***************************************************************************)
EXTENDS Naturals, FiniteSets

CONSTANTS
    Nodes,
    Local,      \* the node "local", engineEndpoint's default
    Deployed,   \* deployments
    Expired,    \* the intervals of the agent's timer a node is fresh for: 45 s / 15 s
    NoNode

ASSUME NodeAssumption ==
    /\ Local \in Nodes /\ NoNode \notin Nodes
    /\ Expired \in Nat \ {0}

VARIABLES
    age,        \* the age of last_heartbeat_at, in intervals of the agent's timer
    alive,      \* nodes whose worker process, with its agent, runs
    sent,       \* nodes whose agent has sent its heartbeat in this interval
    phase,      \* deployment_state.phase: "absent", "open", "LIVE" or "FAILED"
    specNode,   \* metadata.deploymentSpec.nodeName
    recoveryNode,   \* metadata.recoveryNodeName
    originalNode,   \* metadata.recoveryOriginalNodeName
    queued,     \* node -> deployment -> job id -> the job's state
    scanned,    \* node -> deployments its recovery scan has still to look at
    home,       \* the node a deployment was sent to (history)
    lapsed      \* deployments whose home was not fresh at some time (history)

metadata == <<specNode, recoveryNode, originalNode>>
agentVars == <<age, alive, sent>>
historyVars == <<home, lapsed>>
nodeVars == <<agentVars, phase, metadata, queued, scanned, historyVars>>

\* Nodes that are online with a heartbeat of the last 45 seconds; a node without a row is
\* as old as one that has expired.
fresh == {n \in Nodes : age[n] < Expired}

JobIds == {"deployment", "recovery"}
JobStates == {"none", "waiting", "active", "stalled", "ended"}

NodesInit ==
    /\ age = [n \in Nodes |-> Expired]
    /\ alive = Nodes
    /\ sent = {}
    /\ phase = [d \in Deployed |-> "absent"]
    /\ specNode = [d \in Deployed |-> NoNode]
    /\ recoveryNode = [d \in Deployed |-> NoNode]
    /\ originalNode = [d \in Deployed |-> NoNode]
    /\ queued = [n \in Nodes |-> [d \in Deployed |-> [k \in JobIds |-> "none"]]]
    /\ scanned = [n \in Nodes |-> {}]
    /\ home = [d \in Deployed |-> NoNode]
    /\ lapsed = {}

SetJob(n, d, k, state) == queued' = [queued EXCEPT ![n][d][k] = state]

-----------------------------------------------------------------------------
(* Nodes *)

\* POST /api/v1/runtime/nodes with a user's session.
RegisterNode(n) ==
    /\ age' = [age EXCEPT ![n] = 0]
    /\ UNCHANGED <<alive, sent, phase, metadata, queued, scanned, historyVars>>

\* The agent's request carries the engine's header and no session: the onRequest hook
\* of all of /api/v1/ answers 401 before the route sees it, and the agent goes on.
Heartbeat(n) ==
    /\ n \in alive \ sent
    /\ sent' = sent \cup {n}
    /\ UNCHANGED <<age, alive, phase, metadata, queued, scanned, historyVars>>

\* Mutant of Interval: the age is not looked at once it is too old.
IntervalUncapped ==
    /\ alive \subseteq sent
    /\ sent' = {}
    /\ age' = [n \in Nodes |-> IF age[n] <= Expired THEN age[n] + 1 ELSE age[n]]
    /\ lapsed' = lapsed \cup {d \in Deployed :
          home[d] # NoNode /\ age[home[d]] + 1 >= Expired}
    /\ UNCHANGED <<alive, phase, metadata, queued, scanned, home>>

\* An interval ends; every agent that runs has sent its heartbeat in it.
Interval ==
    /\ alive \subseteq sent
    /\ sent' = {}
    /\ age' = [n \in Nodes |-> IF age[n] < Expired THEN age[n] + 1 ELSE Expired]
    /\ lapsed' = lapsed \cup {d \in Deployed :
          home[d] # NoNode /\ age[home[d]] + 1 >= Expired}
    /\ UNCHANGED <<alive, phase, metadata, queued, scanned, home>>

\* The worker's process ends: the jobs in its hands stay in the list of active jobs.
NodeCrash(n) ==
    /\ n \in alive
    /\ alive' = alive \ {n}
    /\ queued' = [queued EXCEPT ![n] = [d \in Deployed |-> [k \in JobIds |->
          IF @[d][k] = "active" THEN "stalled" ELSE @[d][k]]]]
    /\ scanned' = [scanned EXCEPT ![n] = {}]
    /\ UNCHANGED <<age, sent, phase, metadata, historyVars>>

NodeRestart(n) ==
    /\ n \notin alive
    /\ alive' = alive \cup {n}
    /\ UNCHANGED <<age, sent, phase, metadata, queued, scanned, historyVars>>

-----------------------------------------------------------------------------
(* Deployments and their jobs *)

\* engineEndpoint: a fresh node, or else "local".
engineEndpoints == IF fresh = {} THEN {Local} ELSE fresh

\* POST /api/v1/deployments up to the job in the node's queue.
SendToNode(d) ==
    /\ phase[d] = "absent"
    /\ phase' = [phase EXCEPT ![d] = "open"]
    /\ \E n \in engineEndpoints :
          /\ SetJob(n, d, "deployment", "waiting")
          /\ home' = [home EXCEPT ![d] = n]
          /\ lapsed' = IF n \in fresh THEN lapsed ELSE lapsed \cup {d}
    /\ UNCHANGED <<agentVars, metadata, scanned>>

\* The handler begins and reports its phase with the spec of its own job.
StartJob(n, d, k) ==
    /\ n \in alive
    /\ queued[n][d][k] = "waiting"
    /\ SetJob(n, d, k, "active")
    /\ phase' = [phase EXCEPT ![d] = "open"]
    /\ specNode' = [specNode EXCEPT ![d] = n]
    /\ UNCHANGED <<agentVars, recoveryNode, originalNode, scanned, historyVars>>

\* The handler returns, throws for the last time, or throws to be tried again.
EndJob(n, d, k) ==
    /\ n \in alive
    /\ queued[n][d][k] = "active"
    /\ \/ /\ SetJob(n, d, k, "ended")
          /\ \E outcome \in {"LIVE", "FAILED"} :
                phase' = [phase EXCEPT ![d] = outcome]
       \/ /\ SetJob(n, d, k, "waiting")
          /\ phase' = [phase EXCEPT ![d] = "open"]
    /\ UNCHANGED <<agentVars, metadata, scanned, historyVars>>

\* BullMQ takes a stalled job back, or gives it up: nobody tells the row.
StalledJob(n, d, k) ==
    /\ n \in alive
    /\ queued[n][d][k] = "stalled"
    /\ \E state \in {"waiting", "ended"} : SetJob(n, d, k, state)
    /\ UNCHANGED <<agentVars, phase, metadata, scanned, historyVars>>

-----------------------------------------------------------------------------
(* Recovery *)

originalOf(d) == IF originalNode[d] # NoNode THEN originalNode[d] ELSE specNode[d]

\* A row with an open status and a final phase is claimed as well, but every worker
\* passes it by (worker.ts:48).
Recoverable == {d \in Deployed : phase[d] = "open" /\ specNode[d] # NoNode}

\* Mutant of ClaimTarget: the best of the nodes, whoever has the deployment.
ClaimForBest(d, best) == best

\* The node a deployment is claimed for: the one it was claimed for before, or its
\* original one, or else the best of the fresh ones.
ClaimTarget(d, best) ==
    IF recoveryNode[d] \in fresh THEN recoveryNode[d]
    ELSE IF originalOf(d) \in fresh THEN originalOf(d)
    ELSE best

\* claimRecoverableDeployments, and what the worker keeps of the answer: the rows whose
\* spec names its node.  A deployment claimed for the same node before is not written.
ClaimRecoverableDeployments(n) ==
    /\ n \in alive
    /\ scanned[n] = {}
    /\ \E best \in fresh :
        LET claimed == {d \in Recoverable : recoveryNode[d] # ClaimTarget(d, best)}
            target(d) == ClaimTarget(d, best)
        IN  /\ specNode' =
                  [d \in Deployed |-> IF d \in claimed THEN target(d) ELSE specNode[d]]
            /\ recoveryNode' =
                  [d \in Deployed |-> IF d \in claimed THEN target(d) ELSE recoveryNode[d]]
            /\ originalNode' =
                  [d \in Deployed |-> IF d \in claimed THEN originalOf(d) ELSE originalNode[d]]
            /\ scanned' = [scanned EXCEPT ![n] = {d \in Recoverable : specNode'[d] = n}]
    /\ UNCHANGED <<agentVars, phase, queued, historyVars>>

Live(n, d, k) == queued[n][d][k] \in {"waiting", "active", "stalled"}

\* Mutant of Resume: the search finds jobs that have ended, too.
ResumeIfUnknown(n, d) ==
    /\ d \in scanned[n]
    /\ scanned' = [scanned EXCEPT ![n] = @ \ {d}]
    /\ IF \E k \in JobIds : queued[n][d][k] # "none"
       THEN UNCHANGED queued
       ELSE SetJob(n, d, "recovery", "waiting")
    /\ UNCHANGED <<agentVars, phase, metadata, historyVars>>

\* The body of the worker's loop: its own queue is searched, and a recovery is added
\* unless a job of that id is still known.
Resume(n, d) ==
    /\ d \in scanned[n]
    /\ scanned' = [scanned EXCEPT ![n] = @ \ {d}]
    /\ IF (\E k \in JobIds : Live(n, d, k)) \/ queued[n][d]["recovery"] # "none"
       THEN UNCHANGED queued
       ELSE SetJob(n, d, "recovery", "waiting")
    /\ UNCHANGED <<agentVars, phase, metadata, historyVars>>

NodeAction(n) ==
    \/ RegisterNode(n) \/ Heartbeat(n) \/ NodeCrash(n) \/ NodeRestart(n)
    \/ ClaimRecoverableDeployments(n)
    \/ \E d \in Deployed :
          \/ Resume(n, d)
          \/ \E k \in JobIds : StartJob(n, d, k) \/ EndJob(n, d, k) \/ StalledJob(n, d, k)

NodesNext ==
    \/ Interval
    \/ \E d \in Deployed : SendToNode(d)
    \/ \E n \in Nodes : NodeAction(n)

NodesSpec == NodesInit /\ [][NodesNext]_nodeVars

\* The scans go on as long as their worker runs (its interval timer), a waiting job is
\* taken and a stalled one is noticed.
NodesFairness ==
    \A n \in Nodes :
        /\ WF_nodeVars(ClaimRecoverableDeployments(n))
        /\ WF_nodeVars(\E d \in Deployed : Resume(n, d))
        /\ WF_nodeVars(\E d \in Deployed, k \in JobIds : StartJob(n, d, k))

FairNodesSpec == NodesSpec /\ NodesFairness

(***************************************************************************)
(* Properties                                                              *)
(***************************************************************************)

NodesTypeOK ==
    /\ age \in [Nodes -> 0 .. Expired]
    /\ alive \subseteq Nodes
    /\ sent \subseteq Nodes
    /\ phase \in [Deployed -> {"absent", "open", "LIVE", "FAILED"}]
    /\ specNode \in [Deployed -> Nodes \cup {NoNode}]
    /\ recoveryNode \in [Deployed -> Nodes \cup {NoNode}]
    /\ originalNode \in [Deployed -> Nodes \cup {NoNode}]
    /\ queued \in [Nodes -> [Deployed -> [JobIds -> JobStates]]]
    /\ scanned \in [Nodes -> SUBSET Deployed]
    /\ home \in [Deployed -> Nodes \cup {NoNode}]
    /\ lapsed \subseteq Deployed

\* A deployment has a job on a node other than the one it was sent to only if that node
\* was out of date at some time since: no order of claims, late reports, crashes and
\* restarts moves a deployment away from a node that has always been fresh
\* (production-platform-routes.ts:25-36, worker.ts:47).
RunsAtHome ==
    \A d \in Deployed, n \in Nodes :
        (\E k \in JobIds : queued[n][d][k] # "none") /\ n # home[d] => d \in lapsed

\* A deployment nobody works on, although its row is open.
Stranded(d) ==
    d \in Recoverable /\ \A n \in alive, k \in JobIds : ~Live(n, d, k)

\* The row names one node in its spec and is claimed for another: a job that was still
\* running has reported its own spec after the claim.
Contradicted(d) == recoveryNode[d] # NoNode /\ recoveryNode[d] # specNode[d]

\* If in the end exactly one node is fresh and its worker stays up, a deployment that
\* nobody works on is picked up by it, except in two cases the code does not handle:
\* the row names another node than the one that claimed it, or that node has had a
\* recovery of the deployment before (worker.ts:47-52).
PickedUp ==
    \A n \in Nodes, d \in Deployed :
        <>[](fresh = {n} /\ n \in alive) =>
            []<>(~Stranded(d) \/ Contradicted(d) \/ queued[n][d]["recovery"] # "none")

\* What docs/RUNTIME_NODES.md says of a registered node: its agent keeps it up to date
\* (runtime-platform-routes.ts:21).
RegisteredStaysFresh == [][\A n \in fresh \cap alive : age'[n] < Expired]_nodeVars
=============================================================================
