------------------------------ MODULE Webhook ------------------------------
(***************************************************************************)
(* The webhook of GitHub (apps/api/src/index.ts:54): a delivery is claimed *)
(* by an insert of its id, then a push to the repository of a project      *)
(* makes a deployment and asks the engine for a build.  GitHub sends the   *)
(* same delivery again, and two of a kind may be handled at once.          *)
(***************************************************************************)
EXTENDS Naturals

CONSTANTS
    Deliveries,     \* ids of push events to the repository of a project
    Handlers,       \* requests the API handles, each once
    Signed          \* handlers whose request carries a valid signature

ASSUME WebhookAssumption == Signed \subseteq Handlers

VARIABLES
    claimed,    \* github_deliveries
    handler,    \* handler -> where it is, and its delivery
    pushed,     \* deployments: handlers whose row is there
    stated,     \* deployment_state: handlers whose row is there
    builds,     \* handlers that have asked the engine for a build
    cut         \* deliveries that were cut off by an error or the end of the process (history)
hookVars == <<claimed, handler, pushed, stated, builds, cut>>

NotReceived == [at |-> "none", delivery |-> "none"]
Goes(h, at) == handler' = [handler EXCEPT ![h].at = at]

WebhookInit ==
    /\ claimed = {}
    /\ handler = [h \in Handlers |-> NotReceived]
    /\ pushed = {} /\ stated = {} /\ builds = {}
    /\ cut = {}

\* GitHub sends a delivery, for the first time or again.
Receive(h) ==
    /\ handler[h] = NotReceived
    /\ \E d \in Deliveries :
          handler' = [handler EXCEPT ![h] =
              [at |-> IF h \in Signed THEN "claim" ELSE "unauthorized", delivery |-> d]]
    /\ UNCHANGED <<claimed, pushed, stated, builds, cut>>

\* Mutant of claimGithubDelivery: a delivery is recorded without a look at the conflict.
recordGithubDelivery(h) ==
    /\ handler[h].at = "claim"
    /\ claimed' = claimed \cup {handler[h].delivery}
    /\ Goes(h, "project")
    /\ UNCHANGED <<pushed, stated, builds, cut>>

\* INSERT ... ON CONFLICT DO NOTHING, and whether it has inserted.
claimGithubDelivery(h) ==
    /\ handler[h].at = "claim"
    /\ claimed' = claimed \cup {handler[h].delivery}
    /\ Goes(h, IF handler[h].delivery \in claimed THEN "deduplicated" ELSE "project")
    /\ UNCHANGED <<pushed, stated, builds, cut>>

\* findProjectByRepo and the selection of a node only read; createDeployment inserts the
\* two rows one after the other.
InsertPush(h) ==
    /\ handler[h].at = "project"
    /\ pushed' = pushed \cup {h}
    /\ Goes(h, "state")
    /\ UNCHANGED <<claimed, stated, builds, cut>>

InsertPushState(h) ==
    /\ handler[h].at = "state"
    /\ stated' = stated \cup {h}
    /\ Goes(h, "build")
    /\ UNCHANGED <<claimed, pushed, builds, cut>>

\* The request is sent and not awaited; GitHub is answered, and the answer of the engine
\* is for nobody.
SendBuild(h) ==
    /\ handler[h].at = "build"
    /\ builds' = builds \cup {h}
    /\ Goes(h, "processed")
    /\ UNCHANGED <<claimed, pushed, stated, cut>>

\* Mutant of HandlerEnds: the claim is given back.
HandlerEndsUnclaimed(h) ==
    /\ handler[h].at \in {"claim", "project", "state", "build"}
    /\ Goes(h, "ended")
    /\ claimed' = claimed \ {handler[h].delivery}
    /\ cut' = IF handler[h].at = "claim" THEN cut ELSE cut \cup {handler[h].delivery}
    /\ UNCHANGED <<pushed, stated, builds>>

\* A statement fails, or the process ends: what is claimed stays claimed.
HandlerEnds(h) ==
    /\ handler[h].at \in {"claim", "project", "state", "build"}
    /\ Goes(h, "ended")
    /\ cut' = IF handler[h].at = "claim" THEN cut ELSE cut \cup {handler[h].delivery}
    /\ UNCHANGED <<claimed, pushed, stated, builds>>

WebhookNext ==
    \E h \in Handlers :
        \/ Receive(h) \/ claimGithubDelivery(h) \/ InsertPush(h) \/ InsertPushState(h)
        \/ SendBuild(h) \/ HandlerEnds(h)

WebhookSpec == WebhookInit /\ [][WebhookNext]_hookVars

(***************************************************************************)
(* Properties                                                              *)
(***************************************************************************)

\* Every variable keeps its type.
WebhookTypeOK ==
    /\ claimed \subseteq Deliveries
    /\ handler \in [Handlers -> [at : {"none", "claim", "project", "state", "build",
                                       "unauthorized", "deduplicated", "processed", "ended"},
                                 delivery : Deliveries \cup {"none"}]]
    /\ builds \subseteq stated /\ stated \subseteq pushed /\ pushed \subseteq Signed
    /\ cut \subseteq claimed

\* A delivery makes at most one deployment, however often it comes, also at once and also
\* after an error, and none without a signature (index.ts:54; db.ts:38).
DeliveredOnce ==
    \A g, h \in pushed : handler[g].delivery = handler[h].delivery => g = h

\* A delivery that has been answered as processed or as a duplicate has its build under
\* way, unless the handler that claimed it is still at work or was cut off: a duplicate is
\* told so although nothing may have come of the first one.
AnswersAreTrue ==
    \A h \in Handlers :
        handler[h].at \in {"processed", "deduplicated"} =>
            \/ \E g \in builds : handler[g].delivery = handler[h].delivery
            \/ handler[h].delivery \in cut
            \/ \E g \in Handlers : /\ handler[g].delivery = handler[h].delivery
                                   /\ handler[g].at \in {"project", "state", "build"}

\* GitHub may send a delivery as often as it likes.
DeliveriesHold == DeliveredOnce /\ AnswersAreTrue
=============================================================================
