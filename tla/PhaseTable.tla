----------------------------- MODULE PhaseTable -----------------------------
(***************************************************************************)
(* The states of a deployment and the transitions the engine allows        *)
(* between them (apps/engine/src/deployment-state.ts:1-25, 50-52).         *)
(***************************************************************************)

DeploymentState ==
    {"QUEUED", "CLONING", "DETECTING", "BUILDING", "TESTING", "SECURITY_SCAN",
     "PROVISIONING", "DEPLOYING", "HEALTH_CHECK", "TRAFFIC_SHIFT", "LIVE",
     "DIAGNOSING", "AUTO_RECOVERY", "ROLLING_BACK", "FAILED", "STOPPED"}

terminalDeploymentStates == {"LIVE", "FAILED", "STOPPED"}

allowedTransitions ==
    [QUEUED        |-> {"CLONING", "FAILED", "STOPPED"},
     CLONING       |-> {"DETECTING", "FAILED", "STOPPED"},
     DETECTING     |-> {"BUILDING", "FAILED", "STOPPED"},
     BUILDING      |-> {"TESTING", "FAILED", "STOPPED"},
     TESTING       |-> {"SECURITY_SCAN", "PROVISIONING", "FAILED", "STOPPED"},
     SECURITY_SCAN |-> {"PROVISIONING", "FAILED", "STOPPED"},
     PROVISIONING  |-> {"DEPLOYING", "FAILED", "STOPPED"},
     DEPLOYING     |-> {"HEALTH_CHECK", "FAILED", "STOPPED"},
     HEALTH_CHECK  |-> {"TRAFFIC_SHIFT", "LIVE", "DIAGNOSING", "FAILED",
                        "STOPPED"},
     TRAFFIC_SHIFT |-> {"LIVE", "ROLLING_BACK", "DIAGNOSING", "FAILED"},
     LIVE          |-> {"DIAGNOSING", "ROLLING_BACK", "STOPPED"},
     DIAGNOSING    |-> {"AUTO_RECOVERY", "ROLLING_BACK", "FAILED"},
     AUTO_RECOVERY |-> {"HEALTH_CHECK", "LIVE", "ROLLING_BACK", "FAILED"},
     ROLLING_BACK  |-> {"HEALTH_CHECK", "LIVE", "FAILED"},
     FAILED        |-> {"AUTO_RECOVERY", "ROLLING_BACK", "STOPPED"},
     STOPPED       |-> {}]

\* Mutant of canTransition: a deployed container counts as live.
CanGoLiveEarly(from, to) ==
    from = to \/ to \in allowedTransitions[from]
              \/ (from = "DEPLOYING" /\ to = "LIVE")

canTransition(from, to) == from = to \/ to \in allowedTransitions[from]
=============================================================================
