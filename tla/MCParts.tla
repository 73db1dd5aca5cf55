------------------------------ MODULE MCParts ------------------------------
(***************************************************************************)
(* Instances for TLC of the parts that do not share state in the model: a  *)
(* behaviour is one of one part, chosen at the start, and the others keep  *)
(* their first state.                                                      *)
(***************************************************************************)
EXTENDS DeploymentPhases, DeploymentQueue, RuntimeSwitch, NodeClaims, MCStartup,
        DeployPage

VARIABLE part
partsVars == <<part, phasesVars, queueVars, switchVars, nodeVars, startupVars, pageVars>>

PartsInit ==
    /\ part \in {"phases", "queue", "switch", "nodes", "startup", "page"}
    /\ PhasesInit /\ QueueInit /\ SwitchInit /\ NodesInit /\ StartupInit /\ DeployPageInit
    /\ part = "switch" \/ mode = "proxy"
    /\ part = "startup" \/ schema = Made(Scripts)

PartsNext ==
    /\ UNCHANGED part
    /\ \/ /\ part = "phases" /\ PhasesNext
          /\ UNCHANGED <<queueVars, switchVars, nodeVars, startupVars, pageVars>>
       \/ /\ part = "queue" /\ QueueNext
          /\ UNCHANGED <<phasesVars, switchVars, nodeVars, startupVars, pageVars>>
       \/ /\ part = "switch" /\ SwitchNext
          /\ UNCHANGED <<phasesVars, queueVars, nodeVars, startupVars, pageVars>>
       \/ /\ part = "nodes" /\ NodesNext
          /\ UNCHANGED <<phasesVars, queueVars, switchVars, startupVars, pageVars>>
       \/ /\ part = "startup" /\ StartupNext
          /\ UNCHANGED <<phasesVars, queueVars, switchVars, nodeVars, pageVars>>
       \/ /\ part = "page" /\ DeployPageNext
          /\ UNCHANGED <<phasesVars, queueVars, switchVars, nodeVars, startupVars>>

\* The fairness of each part, as its module states it, while the behaviour is its own.
PartsFairness ==
    /\ WF_queueVars(part = "queue" /\ \E j \in Jobs : Settle(j))
    /\ \A n \in Nodes :
          /\ WF_nodeVars(part = "nodes" /\ ClaimRecoverableDeployments(n))
          /\ WF_nodeVars(part = "nodes" /\ \E d \in Deployed : Resume(n, d))
          /\ WF_nodeVars(part = "nodes" /\ \E d \in Deployed, k \in JobIds : StartJob(n, d, k))
    /\ WF_startupVars(part = "startup" /\ Reconnect)
    /\ WF_startupVars(part = "startup" /\ \E p \in Processes : StartProcess(p))
    /\ WF_startupVars(
          part = "startup" /\ \E p \in Processes : ScriptSucceeds(p) \/ ScriptFails(p))
    /\ WF_pageVars(part = "page" /\ DeployAnswers)
    /\ WF_pageVars(part = "page" /\ \E s \in Slots : SendPoll(s))
    /\ SF_pageVars(part = "page" /\ \E s \in Slots : AnswerPoll(s))
    /\ WF_pageVars(part = "page" /\ \E s \in Slots : ApplyPoll(s))

PartsSpec == PartsInit /\ [][PartsNext]_partsVars /\ PartsFairness

\* Every variable of every part keeps its type, and the bounds of the parts hold.
PartsTypeOK ==
    /\ PhasesTypeOK /\ QueueTypeOK /\ SwitchTypeOK
    /\ NodesTypeOK /\ StartupTypeOK /\ DeployPageTypeOK
=============================================================================
