-------------------------- MODULE NodeClaimsProofs --------------------------
(***************************************************************************)
(* A deployment stays on its node as long as the node is fresh, for any    *)
(* number of nodes and deployments: the argument follows the row from the  *)
(* claim (ClaimTarget) to the scan and to the queue.                       *)
(***************************************************************************)
EXTENDS NodeClaims, TLAPS

\* Nothing is known of a deployment that was not sent to a node.
Unknown(d) ==
    /\ phase[d] = "absent"
    /\ specNode[d] = NoNode /\ recoveryNode[d] = NoNode /\ originalNode[d] = NoNode
    /\ \A n \in Nodes : d \notin scanned[n]
    /\ \A n \in Nodes, k \in JobIds : queued[n][d][k] = "none"

\* Every trace of a deployment leads to one node.
OnlyAt(d, node) ==
    /\ specNode[d] \in {node, NoNode}
    /\ recoveryNode[d] \in {node, NoNode}
    /\ originalNode[d] \in {node, NoNode}
    /\ \A n \in Nodes : d \in scanned[n] => n = node
    /\ \A n \in Nodes, k \in JobIds : queued[n][d][k] # "none" => n = node

HomeInv(d) ==
    /\ home[d] = NoNode => Unknown(d)
    /\ phase[d] = "absent" => home[d] = NoNode
    /\ home[d] # NoNode /\ d \notin lapsed => home[d] \in fresh /\ OnlyAt(d, home[d])

NodesInv == NodesTypeOK /\ \A d \in Deployed : HomeInv(d)

deploymentVars == <<phase, metadata, home>>

\* What happens to the nodes themselves.
LEMMA MachineStep ==
  ASSUME NodesInv,
         \/ Interval
         \/ \E n \in Nodes : \/ RegisterNode(n) \/ Heartbeat(n)
                             \/ NodeCrash(n) \/ NodeRestart(n)
  PROVE  NodesInv'
<1> USE NodeAssumption DEF NodesInv
<1>1. CASE Interval
  <2>1. NodesTypeOK'
    BY <1>1 DEF NodesTypeOK, Interval, metadata
  <2>2. ASSUME NEW d \in Deployed PROVE HomeInv(d)'
    <3>1. HomeInv(d) /\ UNCHANGED <<deploymentVars, scanned, queued>>
      BY <1>1 DEF Interval, deploymentVars
    <3>2. home[d] = NoNode => HomeInv(d)'
      BY <3>1 DEF HomeInv, Unknown, deploymentVars, metadata
    <3>3. home[d] # NoNode /\ d \notin lapsed' => home[d] \in fresh'
      BY <1>1 DEF Interval, NodesTypeOK, fresh
    <3>4. lapsed \subseteq lapsed'
      BY <1>1 DEF Interval
    <3> QED
      BY <3>1, <3>2, <3>3, <3>4 DEF HomeInv, OnlyAt, deploymentVars, metadata
  <2> QED  BY <2>1, <2>2
<1>2. ASSUME NEW n \in Nodes, RegisterNode(n) \/ Heartbeat(n) \/ NodeRestart(n)
      PROVE  NodesInv'
  <2>1. /\ UNCHANGED <<deploymentVars, lapsed, scanned, queued>>
        /\ age' = age \/ age' = [age EXCEPT ![n] = 0]
    BY <1>2 DEF RegisterNode, Heartbeat, NodeRestart, historyVars, deploymentVars, agentVars
  <2>2. NodesTypeOK'
    BY <1>2, <2>1 DEF NodesTypeOK, RegisterNode, Heartbeat, NodeRestart, deploymentVars,
          metadata, agentVars
  <2>3. fresh \subseteq fresh'
    BY <2>1 DEF NodesTypeOK, fresh
  <2> QED
    BY <2>1, <2>2, <2>3 DEF HomeInv, Unknown, OnlyAt, deploymentVars, metadata
<1>3. ASSUME NEW n \in Nodes, NodeCrash(n) PROVE NodesInv'
  <2>1. UNCHANGED <<deploymentVars, lapsed, age>>
    BY <1>3 DEF NodeCrash, historyVars, deploymentVars
  <2>2. \A m \in Nodes, d \in Deployed, k \in JobIds :
            queued'[m][d][k] # "none" => queued[m][d][k] # "none"
    BY <1>3 DEF NodeCrash, NodesTypeOK
  <2>3. \A m \in Nodes : scanned'[m] \subseteq scanned[m]
    BY <1>3 DEF NodeCrash, NodesTypeOK
  <2>4. NodesTypeOK'
    BY <1>3, <2>1 DEF NodesTypeOK, NodeCrash, deploymentVars, metadata, JobStates
  <2>5. ASSUME NEW d \in Deployed PROVE HomeInv(d)'
    BY <2>1, <2>2, <2>3 DEF HomeInv, Unknown, OnlyAt, fresh, deploymentVars, metadata
  <2> QED  BY <2>4, <2>5
<1> QED  BY <1>1, <1>2, <1>3

\* A deployment is sent to a fresh node, or has lapsed at once.
LEMMA SendStep ==
  ASSUME NodesInv, NEW d \in Deployed, SendToNode(d)
  PROVE  NodesInv'
<1> USE NodeAssumption DEF NodesInv
<1>1. PICK n \in engineEndpoints :
        /\ SetJob(n, d, "deployment", "waiting")
        /\ home' = [home EXCEPT ![d] = n]
        /\ lapsed' = IF n \in fresh THEN lapsed ELSE lapsed \cup {d}
  BY DEF SendToNode
<1>2. n \in Nodes /\ n # NoNode
  BY <1>1 DEF engineEndpoints, fresh
<1>3. NodesTypeOK'
  BY <1>1, <1>2
  DEF NodesTypeOK, SendToNode, SetJob, agentVars, metadata, JobIds, JobStates
<1>4. Unknown(d)
  BY DEF HomeInv, SendToNode
<1>5. ASSUME NEW c \in Deployed PROVE HomeInv(c)'
  <2>1. UNCHANGED <<age, metadata, scanned>>
    BY DEF SendToNode, agentVars
  <2>2. CASE c # d
    BY <1>1, <2>1, <2>2
    DEF NodesTypeOK, HomeInv, Unknown, OnlyAt, SendToNode, SetJob, fresh, metadata
  <2>3. CASE c = d
    <3>1. home'[d] = n /\ phase'[d] = "open"
      BY <1>1 DEF NodesTypeOK, SendToNode
    <3>2. d \notin lapsed' => n \in fresh'
      BY <1>1, <2>1 DEF fresh
    <3>3. OnlyAt(d, n)'
      BY <1>1, <1>2, <1>4, <2>1 DEF NodesTypeOK, Unknown, OnlyAt, SetJob, metadata, JobIds
    <3> QED  BY <1>2, <2>3, <3>1, <3>2, <3>3 DEF HomeInv
  <2> QED  BY <2>2, <2>3
<1> QED  BY <1>3, <1>5

\* Jobs come from jobs of the same node, and report with its spec.
LEMMA JobStep ==
  ASSUME NodesInv, NEW n \in Nodes, NEW d \in Deployed, NEW k \in JobIds,
         StartJob(n, d, k) \/ EndJob(n, d, k) \/ StalledJob(n, d, k)
  PROVE  NodesInv'
<1> USE NodeAssumption DEF NodesInv
<1>1. PICK state \in JobStates \ {"none"} : SetJob(n, d, k, state)
  BY DEF StartJob, EndJob, StalledJob, JobStates
<1>2. /\ queued[n][d][k] # "none"
      /\ UNCHANGED <<age, home, lapsed, recoveryNode, originalNode, scanned>>
      /\ specNode' = specNode \/ specNode' = [specNode EXCEPT ![d] = n]
  BY DEF StartJob, EndJob, StalledJob, agentVars, metadata, historyVars
<1>3. \/ phase' = phase
      \/ \E outcome \in {"open", "LIVE", "FAILED"} : phase' = [phase EXCEPT ![d] = outcome]
  BY DEF StartJob, EndJob, StalledJob
<1>4. NodesTypeOK'
  <2>1. alive' = alive /\ sent' = sent
    BY DEF StartJob, EndJob, StalledJob, agentVars
  <2>2. queued' \in [Nodes -> [Deployed -> [JobIds -> JobStates]]]
    BY <1>1 DEF NodesTypeOK, SetJob
  <2> QED  BY <1>2, <1>3, <2>1, <2>2 DEF NodesTypeOK
<1>5. home[d] # NoNode /\ phase'[d] # "absent"
  BY <1>2, <1>3 DEF HomeInv, Unknown, NodesTypeOK
<1>6. \A m \in Nodes, c \in Deployed, j \in JobIds :
          queued'[m][c][j] # "none" => queued[m][c][j] # "none"
  BY <1>1, <1>2 DEF NodesTypeOK, SetJob
<1>7. ASSUME NEW c \in Deployed PROVE HomeInv(c)'
  <2>1. CASE c # d
    BY <1>2, <1>3, <1>6, <2>1 DEF NodesTypeOK, HomeInv, Unknown, OnlyAt, fresh
  <2>2. CASE c = d
    BY <1>2, <1>5, <1>6, <2>2 DEF NodesTypeOK, HomeInv, OnlyAt, fresh
  <2> QED  BY <2>1, <2>2
<1> QED  BY <1>4, <1>7

\* A claim moves a deployment only if neither the node it was claimed for nor its
\* original one is fresh.
LEMMA ClaimStep ==
  ASSUME NodesInv, NEW n \in Nodes, ClaimRecoverableDeployments(n)
  PROVE  NodesInv'
<1> USE NodeAssumption DEF NodesInv
<1>1. PICK best \in fresh :
        LET target(d) == ClaimTarget(d, best)
            claimed == {d \in Recoverable : recoveryNode[d] # target(d)}
        IN  /\ specNode' =
                  [d \in Deployed |-> IF d \in claimed THEN target(d) ELSE specNode[d]]
            /\ recoveryNode' =
                  [d \in Deployed |-> IF d \in claimed THEN target(d) ELSE recoveryNode[d]]
            /\ originalNode' =
                  [d \in Deployed |-> IF d \in claimed THEN originalOf(d) ELSE originalNode[d]]
            /\ scanned' = [scanned EXCEPT ![n] = {d \in Recoverable : specNode'[d] = n}]
  BY DEF ClaimRecoverableDeployments
<1>2. UNCHANGED <<age, alive, sent, phase, queued, home, lapsed>>
  BY DEF ClaimRecoverableDeployments, agentVars, historyVars
<1>3. \A d \in Deployed : /\ ClaimTarget(d, best) \in Nodes
                          /\ originalOf(d) \in Nodes \cup {NoNode}
  BY DEF ClaimTarget, originalOf, fresh, NodesTypeOK
<1>4. NodesTypeOK'
  BY <1>1, <1>2, <1>3 DEF NodesTypeOK, Recoverable
<1>5. ASSUME NEW d \in Deployed PROVE HomeInv(d)'
  <2>1. CASE d \notin Recoverable
    <3>1. /\ specNode'[d] = specNode[d] /\ recoveryNode'[d] = recoveryNode[d]
          /\ originalNode'[d] = originalNode[d]
      BY <1>1, <2>1
    <3>2. \A m \in Nodes : d \in scanned'[m] => d \in scanned[m]
      BY <1>1, <2>1 DEF NodesTypeOK
    <3> QED  BY <1>2, <3>1, <3>2 DEF HomeInv, Unknown, OnlyAt, fresh
  <2>2. CASE d \in Recoverable
    <3>1. home[d] # NoNode /\ specNode[d] # NoNode /\ phase[d] = "open"
      BY <2>2 DEF HomeInv, Unknown, Recoverable
    <3>2. CASE d \in lapsed
      BY <1>2, <3>1, <3>2 DEF HomeInv
    <3>3. CASE d \notin lapsed
      <4>1. home[d] \in fresh /\ OnlyAt(d, home[d]) /\ specNode[d] = home[d]
        BY <3>1, <3>3 DEF HomeInv, OnlyAt
      <4>2. originalOf(d) = home[d] /\ ClaimTarget(d, best) = home[d]
        BY <3>1, <4>1 DEF OnlyAt, originalOf, ClaimTarget, fresh
      <4>3. /\ specNode'[d] = home[d] /\ recoveryNode'[d] \in {home[d], NoNode}
            /\ originalNode'[d] \in {home[d], NoNode}
        BY <1>1, <4>1, <4>2 DEF OnlyAt
      <4>4. \A m \in Nodes : d \in scanned'[m] => m = home[d]
        BY <1>1, <4>1, <4>3 DEF OnlyAt, NodesTypeOK
      <4> QED  BY <1>2, <3>1, <4>1, <4>3, <4>4 DEF HomeInv, OnlyAt, fresh
    <3> QED  BY <3>2, <3>3
  <2> QED  BY <2>1, <2>2
<1> QED  BY <1>4, <1>5

\* A recovery is added on the node whose scan has the deployment.
LEMMA ResumeStep ==
  ASSUME NodesInv, NEW n \in Nodes, NEW d \in Deployed, Resume(n, d)
  PROVE  NodesInv'
<1> USE NodeAssumption DEF NodesInv
<1>1. /\ d \in scanned[n]
      /\ scanned' = [scanned EXCEPT ![n] = @ \ {d}]
      /\ queued' = queued \/ SetJob(n, d, "recovery", "waiting")
      /\ UNCHANGED <<age, alive, sent, phase, specNode, recoveryNode, originalNode, home,
                     lapsed>>
  BY DEF Resume, agentVars, metadata, historyVars
<1>2. NodesTypeOK'
  <2>1. queued' \in [Nodes -> [Deployed -> [JobIds -> JobStates]]]
    <3>1. CASE queued' = queued
      BY <3>1 DEF NodesTypeOK
    <3>2. CASE SetJob(n, d, "recovery", "waiting")
      <4>1. PICK k \in JobIds, state \in JobStates : SetJob(n, d, k, state)
        BY <3>2 DEF JobIds, JobStates
      <4> QED  BY <4>1 DEF NodesTypeOK, SetJob
    <3> QED  BY <1>1, <3>1, <3>2
  <2> QED  BY <1>1, <2>1 DEF NodesTypeOK
<1>3. \A m \in Nodes, c \in Deployed, k \in JobIds :
          queued'[m][c][k] # "none" => queued[m][c][k] # "none" \/ (m = n /\ c = d)
  BY <1>1 DEF NodesTypeOK, SetJob
<1>4. \A m \in Nodes : scanned'[m] \subseteq scanned[m]
  BY <1>1 DEF NodesTypeOK
<1>5. ASSUME NEW c \in Deployed PROVE HomeInv(c)'
  BY <1>1, <1>3, <1>4 DEF HomeInv, Unknown, OnlyAt, fresh
<1> QED  BY <1>2, <1>5

LEMMA NodesInvariance == NodesSpec => []NodesInv
<1>1. NodesInit => NodesInv
  BY NodeAssumption
  DEF NodesInit, NodesInv, NodesTypeOK, HomeInv, Unknown, JobIds, JobStates
<1>2. NodesInv /\ [NodesNext]_nodeVars => NodesInv'
  <2>1. ASSUME NodesInv, UNCHANGED nodeVars PROVE NodesInv'
    BY <2>1 DEF nodeVars, agentVars, metadata, historyVars, NodesInv, NodesTypeOK, HomeInv,
                Unknown, OnlyAt, fresh
  <2> QED
    BY <2>1, MachineStep, SendStep, JobStep, ClaimStep, ResumeStep DEF NodesNext, NodeAction
<1> QED  BY <1>1, <1>2, PTL DEF NodesSpec

\* No claim, late report, crash or restart moves a deployment away from a node that has
\* always been fresh, for any number of nodes (production-platform-routes.ts:25-36).
THEOREM StaysAtHome == NodesSpec => []RunsAtHome
<1>1. NodesInv => RunsAtHome
  BY NodeAssumption DEF NodesInv, HomeInv, Unknown, OnlyAt, RunsAtHome
<1> QED  BY <1>1, NodesInvariance, PTL
=============================================================================
