----------------------------- MODULE MCLifecycle -----------------------------
(***************************************************************************)
(* Instances of Lifecycle for TLC.                                         *)
(***************************************************************************)
EXTENDS Lifecycle

CONSTANT Earlier    \* bound: deployments that are live when a behaviour begins

\* A state that is reached without a fault: the jobs of the earlier deployments are
\* completed, and nothing else has begun.
LiveInit ==
    /\ row = [d \in Deployments |-> IF d \in Earlier THEN "ready" ELSE "absent"]
    /\ phase = [d \in Deployments |-> IF d \in Earlier THEN "LIVE" ELSE "absent"]
    /\ spec = [d \in Deployments |-> d \in Earlier]
    /\ api = [d \in Deployments |-> IF d \in Earlier THEN "over" ELSE "new"]
    /\ job = [k \in Keys |-> IF k \in {DeployKey(d) : d \in Earlier} THEN "completed"
                                                                     ELSE "none"]
    /\ cont = [d \in Deployments |-> IF d \in Earlier THEN "serving" ELSE "none"]
    /\ made = [k \in Keys |-> 0] /\ stalls = [k \in Keys |-> 0]
    /\ worker = "up" /\ pc = [k \in Keys |-> "idle"] /\ scan = [d \in Deployments |-> "no"]
    /\ listed = {} /\ mistaken = {} /\ fresh = FALSE
    /\ lost = 0 /\ crashes = 0

LiveSpec == LiveInit /\ [][Next]_vars

\* Bound: they are there to go back to, and are not rolled back themselves.
EarlierStay == \A d \in Earlier : api[d] = "over"
=============================================================================
