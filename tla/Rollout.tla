------------------------------- MODULE Rollout -------------------------------
(***************************************************************************)
(* What a rollout promises to the visitors of a runtime that has a route:  *)
(* the traffic goes from the old servers to the new ones, at once or by way*)
(* of both, and only to servers that are healthy; until it is there for    *)
(* good, the old ones are healthy too and can have it back.  Nothing is    *)
(* promised once a fault has disturbed the rollouts.                       *)
(***************************************************************************)
CONSTANT Releases   \* the sets of servers that a deployment brings

VARIABLES
    healthy,    \* servers that run and passed their test
    serving,    \* servers that get the traffic
    fallback,   \* servers that would get it back
    trusted     \* nothing has disturbed the rollouts

Init ==
    /\ healthy = {}
    /\ serving = {}
    /\ fallback = {}
    /\ trusted \in BOOLEAN

\* Servers come and go, but none that gets the traffic or would get it back.
ComeAndGo ==
    /\ trusted
    /\ serving \cup fallback \subseteq healthy'
    /\ UNCHANGED <<serving, fallback, trusted>>

\* Nobody else has the traffic.
Between(release) == serving \subseteq fallback \cup release

Share(release) ==
    /\ trusted
    /\ Between(release)
    /\ release \subseteq healthy
    /\ serving' = fallback \cup release
    /\ UNCHANGED <<healthy, fallback, trusted>>

\* The new servers get all of the traffic, for the time being or for good.
Shift(release) ==
    /\ trusted
    /\ Between(release)
    /\ release \subseteq healthy
    /\ serving' = release
    /\ fallback' \in {fallback, release}
    /\ UNCHANGED <<healthy, trusted>>

\* A half-way share is never kept.
Keep(release) ==
    /\ trusted
    /\ serving = release
    /\ fallback' = release
    /\ UNCHANGED <<healthy, serving, trusted>>

GiveBack ==
    /\ trusted
    /\ serving' = fallback
    /\ UNCHANGED <<healthy, fallback, trusted>>

Disturb ==
    /\ trusted' = FALSE
    /\ healthy' = {} /\ serving' = {} /\ fallback' = {}

Next ==
    \/ ComeAndGo \/ GiveBack \/ Disturb
    \/ \E release \in Releases : Share(release) \/ Shift(release) \/ Keep(release)

Spec == Init /\ [][Next]_<<healthy, serving, fallback, trusted>>
=============================================================================
