-------------------------- MODULE DeploymentPhases --------------------------
(***************************************************************************)
(* The deployment state machine of the engine                              *)
(* (apps/engine/src/deployment-state.ts): a table of transitions and the   *)
(* in-memory records it protects.  "path" is history: the states a record  *)
(* has been in since it was created.                                       *)
(***************************************************************************)
EXTENDS PhaseTable

CONSTANT Ids

VARIABLES
    status,     \* records.get(id)?.status
    path        \* the states the record has been in
phasesVars == <<status, path>>

PhasesInit ==
    /\ status = [d \in Ids |-> "absent"]
    /\ path = [d \in Ids |-> {}]

\* Mutant of createDeployment: the status spelled as the API spells it.
CreateLowerCase(d) ==
    /\ status' = [status EXCEPT ![d] = "queued"]
    /\ path' = [path EXCEPT ![d] = {"queued"}]

\* createDeployment overwrites the record of an id that exists already.
createDeployment(d) ==
    /\ status' = [status EXCEPT ![d] = "QUEUED"]
    /\ path' = [path EXCEPT ![d] = {"QUEUED"}]

\* updateDeployment with a status; a forbidden transition throws.
updateDeployment(d, to) ==
    /\ status[d] # "absent"
    /\ canTransition(status[d], to)
    /\ status' = [status EXCEPT ![d] = to]
    /\ path' = [path EXCEPT ![d] = @ \cup {to}]

PhasesNext ==
    \E d \in Ids :
        \/ createDeployment(d)
        \/ \E to \in DeploymentState : updateDeployment(d, to)

PhasesSpec == PhasesInit /\ [][PhasesNext]_phasesVars

-----------------------------------------------------------------------------

PhasesTypeOK ==
    /\ status \in [Ids -> DeploymentState \cup {"absent"}]
    /\ path \in [Ids -> SUBSET DeploymentState]
    /\ \A d \in Ids : status[d] # "absent" => status[d] \in path[d]

\* No deployment gets live, or as far as moving traffic, on its first way
\* through the table without a health check: only one that has failed may.
LiveWasCheckedOrFailed ==
    \A d \in Ids :
        path[d] \cap {"LIVE", "TRAFFIC_SHIFT"} # {} =>
            path[d] \cap {"HEALTH_CHECK", "FAILED"} # {}

\* A stopped deployment stays stopped unless it is created anew.
StoppedIsFinal ==
    [][\A d \in Ids :
          status[d] = "STOPPED" => status'[d] \in {"STOPPED", "QUEUED"}]_phasesVars
=============================================================================
