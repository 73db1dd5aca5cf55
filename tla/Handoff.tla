------------------------------- MODULE Handoff -------------------------------
(***************************************************************************)
(* What a deployment promises to the visitors of a runtime: traffic goes to*)
(* a candidate only after its test, and from the first handover on there is*)
(* always somebody to serve it (docs/DEPLOYMENT-LIFECYCLE.md:11-12, 31).   *)
(***************************************************************************)
CONSTANTS
    Calls,      \* the calls of deployRuntime, each with its candidate
    None        \* nobody

VARIABLES
    tested,     \* candidates that passed their health check
    serving     \* whose container gets the traffic

Init ==
    /\ tested = {}
    /\ serving = None

Test(c) ==
    /\ tested' = tested \cup {c}
    /\ UNCHANGED serving

HandOver(c) ==
    /\ c \in tested
    /\ serving' = c
    /\ UNCHANGED tested

Next == \E c \in Calls : Test(c) \/ HandOver(c)

Spec == Init /\ [][Next]_<<tested, serving>>
=============================================================================
