------------------------------- MODULE ApiProofs -------------------------------
(***************************************************************************)
(* The parts that are written through the API's routes, each with its own  *)
(* tables (the accounts have a module of their own).  However many calls   *)
(* ask for a database of one service, there is one on record; however      *)
(* often a delivery of GitHub comes, it makes one deployment, and the      *)
(* answers are true; a deployment is judged by its own request's runner,   *)
(* at every gate; and an organization stays within its limits.  At the end *)
(* all parts together, as TLC checks them.                                 *)
(***************************************************************************)
EXTENDS MCApi, AccountsProofs, FiniteSetTheorems, TLAPS

-----------------------------------------------------------------------------
(* Managed data *)

Unstarted == {"none", "create", "start"}
Recorded == {"instance", "config", "done"}

\* What holds of every call: the secret is written after the container runs and before
\* the other two rows, and whoever has got past it is the one that wrote it.
ProvisionInv(p) ==
    /\ provision[p] = "secret" => database[p] = "running"
    /\ database[p] = "running" => provision[p] \notin Unstarted
    /\ provision[p] \in Recorded => secretOf = p
    /\ provision[p] \in {"config", "done"} => p \in instances
    /\ p \in instances \/ managed = p => secretOf = p
    /\ secretOf = p => /\ database[p] = "running"
                       /\ provision[p] \notin Unstarted \cup {"secret"}
    /\ database[p] = "running" /\ secretOf # p =>
          \/ provision[p] = "secret"
          \/ p \in severed
          \/ provision[p] = "failed" /\ secretOf # NoProvision

DataInv == DataTypeOK /\ \A p \in Provisions : ProvisionInv(p)

\* The steps before the first row, of which the other calls see nothing.
LEMMA EngineStep ==
  ASSUME DataInv, NEW p \in Provisions,
         \/ RequestProvision(p) \/ CreateDatabase(p)
         \/ StartDatabase(p) \/ StartDatabaseFails(p)
  PROVE  DataInv'
<1> USE DEF DataInv, DataTypeOK, ProvisionInv, MoveTo, Unstarted, Recorded
<1>1. CASE RequestProvision(p)
  BY <1>1 DEF RequestProvision
<1>2. CASE CreateDatabase(p)
  BY <1>2 DEF CreateDatabase
<1>3. CASE StartDatabase(p)
  BY <1>3 DEF StartDatabase
<1>4. CASE StartDatabaseFails(p)
  BY <1>4 DEF StartDatabaseFails
<1> QED  BY <1>1, <1>2, <1>3, <1>4

\* The insert of the secret decides which call goes on: the first one.
LEMMA SecretStep ==
  ASSUME DataInv, NEW p \in Provisions, InsertSecret(p)
  PROVE  DataInv'
<1> USE ManagedDataAssumption DEF DataInv, DataTypeOK, ProvisionInv, MoveTo, Unstarted, Recorded
<1>1. CASE secretOf = NoProvision
  <2>1. DataTypeOK'
    BY <1>1 DEF InsertSecret
  <2>2. ASSUME NEW q \in Provisions PROVE ProvisionInv(q)'
    <3>1. CASE q = p
      BY <1>1, <3>1 DEF InsertSecret
    <3>2. CASE q # p
      BY <1>1, <3>2 DEF InsertSecret
    <3> QED  BY <3>1, <3>2
  <2> QED  BY <2>1, <2>2
<1>2. CASE secretOf # NoProvision
  BY <1>2 DEF InsertSecret
<1> QED  BY <1>1, <1>2

\* The two rows that follow the secret.
LEMMA RecordStep ==
  ASSUME DataInv, NEW p \in Provisions, InsertInstance(p) \/ UpdateConfig(p)
  PROVE  DataInv'
<1> USE DEF DataInv, DataTypeOK, ProvisionInv, MoveTo, Unstarted, Recorded
<1>1. CASE InsertInstance(p)
  BY <1>1 DEF InsertInstance
<1>2. CASE UpdateConfig(p)
  BY <1>2 DEF UpdateConfig
<1> QED  BY <1>1, <1>2

\* A call that is cut off leaves what it has made, and is remembered.
LEMMA SeverStep ==
  ASSUME DataInv, NEW p \in Provisions, Sever(p)
  PROVE  DataInv'
<1> USE DEF DataInv, DataTypeOK, ProvisionInv, MoveTo, Unstarted, Recorded, Sever
<1>1. DataTypeOK'
  OBVIOUS
<1>2. ASSUME NEW q \in Provisions PROVE ProvisionInv(q)'
  <2>1. CASE q = p
    BY <2>1
  <2>2. CASE q # p
    BY <2>2
  <2> QED  BY <2>1, <2>2
<1> QED  BY <1>1, <1>2

LEMMA DataInvariance == DataSpec => []DataInv
<1>1. DataInit => DataInv
  BY ManagedDataAssumption
  DEF DataInit, DataInv, DataTypeOK, ProvisionInv, Unstarted, Recorded
<1>2. DataInv /\ [DataNext]_dataVars => DataInv'
  <2>1. ASSUME DataInv, UNCHANGED dataVars PROVE DataInv'
    BY <2>1 DEF dataVars, DataInv, DataTypeOK, ProvisionInv
  <2> QED  BY <2>1, EngineStep, SecretStep, RecordStep, SeverStep DEF DataNext
<1> QED  BY <1>1, <1>2, PTL DEF DataSpec

\* One database on record and all of its traces about the same running container, for any
\* number of calls and ports (runtime-platform-routes.ts:22).
THEOREM DatabaseIsOne == DataSpec => []OneDatabase
<1>1. DataInv => OneDatabase
  <2> SUFFICES ASSUME DataInv PROVE OneDatabase
    OBVIOUS
  <2>1. instances \subseteq {secretOf}
    BY DEF DataInv, DataTypeOK, ProvisionInv
  <2>2. Cardinality(instances) <= 1
    <3>1. IsFiniteSet({secretOf}) /\ Cardinality({secretOf}) = 1
      BY FS_Singleton
    <3> QED  BY <2>1, <3>1, FS_Subset
  <2>3. managed # NoProvision => managed = secretOf
    BY DEF DataInv, DataTypeOK, ProvisionInv
  <2>4. \A p \in Provisions : ProvisionInv(p)
    BY DEF DataInv
  <2> QED  BY <2>1, <2>2, <2>3, <2>4 DEF OneDatabase, ProvisionInv
<1> QED  BY <1>1, DataInvariance, PTL

-----------------------------------------------------------------------------
(* The webhook *)

\* Who has got past the claim.
AtWork == {"project", "state", "build"}
Won(h) == handler[h].at \in AtWork \cup {"processed"} \/ h \in pushed

HandlerInv(h) ==
    /\ handler[h].at \in AtWork \cup {"claim", "processed"} => h \in Signed
    /\ handler[h].at = "state" => h \in pushed
    /\ handler[h].at = "build" => h \in stated
    /\ handler[h].at = "processed" => h \in builds
    /\ h \in pushed => handler[h].at \notin {"none", "claim"}
    /\ handler[h].at # "none" => handler[h].delivery \in Deliveries
    /\ Won(h) \/ handler[h].at = "deduplicated" => handler[h].delivery \in claimed

\* A claim is won by one handler.
OneWins ==
    \A g, h \in Handlers :
        Won(g) /\ Won(h) /\ handler[g].delivery = handler[h].delivery => g = h

\* A claim leads to a build, unless its handler is cut off.
LeadsToBuild(d) ==
    \/ d \in cut
    \/ \E g \in Handlers : handler[g].delivery = d /\ (handler[g].at \in AtWork \/ g \in builds)

HookInv ==
    /\ WebhookTypeOK
    /\ \A h \in Handlers : HandlerInv(h)
    /\ OneWins
    /\ \A d \in claimed : LeadsToBuild(d)

Places == {"none", "claim", "project", "state", "build", "unauthorized", "deduplicated",
           "processed", "ended"}

\* A step of a handler moves it, and nobody else.
LEMMA GoesEffect ==
  ASSUME WebhookTypeOK, NEW h \in Handlers, NEW at \in Places, Goes(h, at)
  PROVE  /\ handler'[h].at = at /\ handler'[h].delivery = handler[h].delivery
         /\ \A g \in Handlers : g # h => handler'[g] = handler[g]
         /\ \A g \in Handlers : handler'[g].delivery = handler[g].delivery
         /\ handler' \in [Handlers -> [at : Places, delivery : Deliveries \cup {"none"}]]
BY DEF WebhookTypeOK, Goes, Places

\* A delivery comes to a handler that has nothing, and begins at the claim if signed.
LEMMA ReceiveStep ==
  ASSUME HookInv, NEW h \in Handlers, Receive(h)
  PROVE  HookInv'
<1>1. PICK d \in Deliveries, at \in {"claim", "unauthorized"} :
        /\ handler' = [handler EXCEPT ![h] = [at |-> at, delivery |-> d]]
        /\ at = "claim" => h \in Signed
  BY DEF Receive
<1>2. /\ handler[h].at = "none" /\ UNCHANGED <<claimed, pushed, stated, builds, cut>>
      /\ handler \in [Handlers -> [at : Places, delivery : Deliveries \cup {"none"}]]
  BY DEF Receive, NotReceived, HookInv, WebhookTypeOK, Places
<1>3. /\ handler'[h].at = at
      /\ \A g \in Handlers : g # h => handler'[g] = handler[g]
  BY <1>1, <1>2
<1>4. ~Won(h)' /\ h \notin builds /\ h \notin pushed
  BY <1>2, <1>3 DEF HookInv, WebhookTypeOK, HandlerInv, Won, AtWork
<1>5. WebhookTypeOK'
  BY <1>1, <1>2 DEF HookInv, WebhookTypeOK, Places
<1>6. ASSUME NEW g \in Handlers PROVE HandlerInv(g)'
  <2>1. CASE g = h
    <3>1. at \notin AtWork \cup {"processed", "deduplicated", "none"}
      BY DEF AtWork
    <3> QED  BY <1>1, <1>2, <1>3, <1>4, <2>1, <3>1 DEF HandlerInv
  <2>2. CASE g # h
    BY <1>2, <1>3, <2>2 DEF HookInv, HandlerInv, Won
  <2> QED  BY <2>1, <2>2
<1>7. OneWins'
  BY <1>2, <1>3, <1>4 DEF HookInv, OneWins, Won
<1>8. ASSUME NEW c \in claimed PROVE LeadsToBuild(c)'
  BY <1>2, <1>3, <1>4 DEF HookInv, LeadsToBuild, AtWork
<1> QED  BY <1>2, <1>5, <1>6, <1>7, <1>8 DEF HookInv

\* The first insert of a delivery's id wins; it finds nobody who has won it before.
LEMMA ClaimStep ==
  ASSUME HookInv, NEW h \in Handlers, claimGithubDelivery(h)
  PROVE  HookInv'
<1> DEFINE d == handler[h].delivery
<1>1. /\ handler[h].at = "claim" /\ claimed' = claimed \cup {d}
      /\ UNCHANGED <<pushed, stated, builds, cut>>
  BY DEF claimGithubDelivery
<1>2. PICK at \in {"deduplicated", "project"} :
        Goes(h, at) /\ (at = "project" <=> d \notin claimed)
  BY DEF claimGithubDelivery
<1>3. /\ handler'[h].at = at
      /\ \A g \in Handlers : g # h => handler'[g] = handler[g]
      /\ \A g \in Handlers : handler'[g].delivery = handler[g].delivery
      /\ handler' \in [Handlers -> [at : Places, delivery : Deliveries \cup {"none"}]]
  BY <1>2, GoesEffect DEF HookInv, Places
<1>4. h \notin pushed /\ h \notin builds /\ h \in Signed /\ d \in Deliveries
  BY <1>1 DEF HookInv, WebhookTypeOK, HandlerInv
<1>5. WebhookTypeOK'
  BY <1>1, <1>3, <1>4 DEF HookInv, WebhookTypeOK, Places
<1>6. ASSUME NEW g \in Handlers PROVE HandlerInv(g)'
  <2>1. CASE g = h
    BY <1>1, <1>2, <1>3, <1>4, <2>1 DEF HandlerInv
  <2>2. CASE g # h
    BY <1>1, <1>3, <2>2 DEF HookInv, HandlerInv, Won
  <2> QED  BY <2>1, <2>2
<1>7. OneWins'
  <2>1. CASE at = "deduplicated"
    <3>1. ~Won(h)'
      BY <1>1, <1>3, <1>4, <2>1 DEF Won, AtWork
    <3> QED  BY <1>1, <1>3, <3>1 DEF HookInv, OneWins, Won
  <2>2. CASE at = "project"
    <3>1. \A g \in Handlers : Won(g) => handler[g].delivery # d
      BY <1>2, <2>2 DEF HookInv, HandlerInv
    <3>2. \A g \in Handlers : g # h /\ Won(g)' => Won(g)
      BY <1>1, <1>3 DEF Won
    <3> QED  BY <1>3, <3>1, <3>2 DEF HookInv, OneWins
  <2> QED  BY <1>2, <2>1, <2>2
<1>8. ASSUME NEW c \in claimed' PROVE LeadsToBuild(c)'
  <2>1. CASE c \in claimed
    <3>1. CASE c \in cut
      BY <1>1, <3>1 DEF LeadsToBuild
    <3>2. CASE c \notin cut
      <4>1. PICK g \in Handlers :
              handler[g].delivery = c /\ (handler[g].at \in AtWork \/ g \in builds)
        BY <2>1, <3>2 DEF HookInv, LeadsToBuild
      <4>2. g # h
        BY <1>1, <1>4, <4>1 DEF AtWork
      <4> QED  BY <1>1, <1>3, <4>1, <4>2 DEF LeadsToBuild
    <3> QED  BY <3>1, <3>2
  <2>2. CASE c \notin claimed
    BY <1>1, <1>2, <1>3, <2>2 DEF LeadsToBuild, AtWork, HookInv, HandlerInv
  <2> QED  BY <2>1, <2>2
<1> QED  BY <1>5, <1>6, <1>7, <1>8 DEF HookInv

\* What the winner does is to its own row and its own build.
LEMMA WinnerStep ==
  ASSUME HookInv, NEW h \in Handlers, InsertPush(h) \/ InsertPushState(h) \/ SendBuild(h)
  PROVE  HookInv'
<1>1. /\ handler[h].at \in AtWork /\ UNCHANGED <<claimed, cut>>
      /\ pushed \subseteq pushed' /\ pushed' \subseteq pushed \cup {h}
      /\ stated \subseteq stated' /\ stated' \subseteq stated \cup {h}
      /\ builds \subseteq builds' /\ builds' \subseteq builds \cup {h}
  BY DEF InsertPush, InsertPushState, SendBuild, AtWork
<1>2. PICK at \in {"state", "build", "processed"} : Goes(h, at)
  BY DEF InsertPush, InsertPushState, SendBuild
<1>3. /\ handler'[h].at = at
      /\ \A g \in Handlers : g # h => handler'[g] = handler[g]
      /\ \A g \in Handlers : handler'[g].delivery = handler[g].delivery
      /\ handler' \in [Handlers -> [at : Places, delivery : Deliveries \cup {"none"}]]
  BY <1>2, GoesEffect DEF HookInv, Places
<1>4. /\ at = "state" => h \in pushed'
      /\ at = "build" => h \in stated'
      /\ at = "processed" => h \in builds'
      /\ builds' \subseteq stated' /\ stated' \subseteq pushed' /\ pushed' \subseteq Signed
  <2>1. CASE InsertPush(h)
    BY <1>2, <1>3, <2>1, GoesEffect
    DEF InsertPush, HookInv, WebhookTypeOK, HandlerInv, Places, AtWork
  <2>2. CASE InsertPushState(h)
    BY <1>2, <1>3, <2>2, GoesEffect DEF InsertPushState, HookInv, WebhookTypeOK, HandlerInv, Places
  <2>3. CASE SendBuild(h)
    BY <1>2, <1>3, <2>3, GoesEffect DEF SendBuild, HookInv, WebhookTypeOK, HandlerInv, Places
  <2> QED  BY <2>1, <2>2, <2>3
<1>5. Won(h) /\ \A g \in Handlers : Won(g)' => Won(g)
  BY <1>1, <1>3 DEF Won
<1>6. WebhookTypeOK'
  BY <1>1, <1>3, <1>4 DEF HookInv, WebhookTypeOK, Places
<1>7. ASSUME NEW g \in Handlers PROVE HandlerInv(g)'
  <2>1. CASE g = h
    <3>1. h \in Signed /\ handler[h].delivery \in Deliveries \cap claimed
      BY <1>1, <1>5 DEF HookInv, HandlerInv, AtWork
    <3> QED  BY <1>1, <1>3, <1>4, <2>1, <3>1 DEF HandlerInv
  <2>2. CASE g # h
    BY <1>1, <1>3, <2>2 DEF HookInv, HandlerInv, Won
  <2> QED  BY <2>1, <2>2
<1>8. OneWins'
  BY <1>3, <1>5 DEF HookInv, OneWins
<1>9. ASSUME NEW c \in claimed' PROVE LeadsToBuild(c)'
  BY <1>1, <1>3, <1>4 DEF HookInv, LeadsToBuild, AtWork
<1> QED  BY <1>6, <1>7, <1>8, <1>9 DEF HookInv

\* Who is cut off leaves the claim behind, and a note.
LEMMA HandlerEndsStep ==
  ASSUME HookInv, NEW h \in Handlers, HandlerEnds(h)
  PROVE  HookInv'
<1>1. /\ handler[h].at \in AtWork \cup {"claim"} /\ Goes(h, "ended")
      /\ UNCHANGED <<claimed, pushed, stated, builds>>
      /\ handler[h].at = "claim" => UNCHANGED cut
      /\ handler[h].at # "claim" => cut' = cut \cup {handler[h].delivery}
  BY DEF HandlerEnds, AtWork
<1>2. /\ handler'[h].at = "ended"
      /\ \A g \in Handlers : g # h => handler'[g] = handler[g]
      /\ \A g \in Handlers : handler'[g].delivery = handler[g].delivery
      /\ handler' \in [Handlers -> [at : Places, delivery : Deliveries \cup {"none"}]]
  BY <1>1, GoesEffect DEF HookInv, Places
<1>3. handler[h].at # "claim" => handler[h].delivery \in claimed
  BY <1>1 DEF HookInv, HandlerInv, Won
<1>4. \A g \in Handlers : Won(g)' => Won(g)
  BY <1>1, <1>2 DEF Won, AtWork
<1>5. WebhookTypeOK'
  BY <1>1, <1>2, <1>3 DEF HookInv, WebhookTypeOK, Places
<1>6. ASSUME NEW g \in Handlers PROVE HandlerInv(g)'
  <2>1. CASE g = h
    BY <1>1, <1>2, <1>4, <2>1 DEF HookInv, HandlerInv, AtWork
  <2>2. CASE g # h
    BY <1>1, <1>2, <2>2 DEF HookInv, HandlerInv, Won
  <2> QED  BY <2>1, <2>2
<1>7. OneWins'
  BY <1>2, <1>4 DEF HookInv, OneWins
<1>8. ASSUME NEW c \in claimed' PROVE LeadsToBuild(c)'
  <2>1. CASE c \in cut'
    BY <2>1 DEF LeadsToBuild
  <2>2. CASE c \notin cut'
    <3>1. PICK g \in Handlers :
            handler[g].delivery = c /\ (handler[g].at \in AtWork \/ g \in builds)
      BY <1>1, <2>2 DEF HookInv, LeadsToBuild
    <3>2. g = h => g \in builds
      BY <1>1, <2>2, <3>1 DEF AtWork
    <3> QED  BY <1>1, <1>2, <3>1, <3>2 DEF LeadsToBuild
  <2> QED  BY <2>1, <2>2
<1> QED  BY <1>5, <1>6, <1>7, <1>8 DEF HookInv

LEMMA HookInvariance == WebhookSpec => []HookInv
<1>1. WebhookInit => HookInv
  BY DEF WebhookInit, NotReceived, HookInv, WebhookTypeOK, HandlerInv, OneWins, Won, AtWork
<1>2. HookInv /\ [WebhookNext]_hookVars => HookInv'
  <2>1. ASSUME HookInv, UNCHANGED hookVars PROVE HookInv'
    BY <2>1 DEF hookVars, HookInv, WebhookTypeOK, HandlerInv, OneWins, LeadsToBuild, Won
  <2> QED  BY <2>1, ReceiveStep, ClaimStep, WinnerStep, HandlerEndsStep DEF WebhookNext
<1> QED  BY <1>1, <1>2, PTL DEF WebhookSpec

\* A delivery makes at most one deployment, and whoever is answered is answered the truth
\* about its build, however often it comes and wherever a handler is cut off
\* (index.ts:54, db.ts:38).
THEOREM DeliveredOnceAndTold == WebhookSpec => []DeliveriesHold
<1>1. HookInv => DeliveriesHold
  <2> SUFFICES ASSUME HookInv PROVE DeliveredOnce /\ AnswersAreTrue
    BY DEF DeliveriesHold
  <2>1. DeliveredOnce
    <3>1. pushed \subseteq Handlers
      BY WebhookAssumption DEF HookInv, WebhookTypeOK
    <3> QED  BY <3>1 DEF HookInv, OneWins, Won, DeliveredOnce
  <2>2. AnswersAreTrue
    <3> SUFFICES ASSUME NEW h \in Handlers,
                        handler[h].at \in {"processed", "deduplicated"}
                 PROVE  \/ \E g \in builds : handler[g].delivery = handler[h].delivery
                        \/ handler[h].delivery \in cut
                        \/ \E g \in Handlers :
                              /\ handler[g].delivery = handler[h].delivery
                              /\ handler[g].at \in {"project", "state", "build"}
      BY DEF AnswersAreTrue
    <3>1. LeadsToBuild(handler[h].delivery)
      BY DEF HookInv, HandlerInv, Won
    <3> QED  BY <3>1 DEF LeadsToBuild, AtWork
  <2> QED  BY <2>1, <2>2
<1> QED  BY <1>1, HookInvariance, PTL

-----------------------------------------------------------------------------
(* The release gates *)

\* The deployment d is the request's own, or the two were under way at once.
Own(d, r) == d = r \/ (d \in overtaken /\ r \in overtaken)

\* The rows of d have one of that name.
Has(d, name) == \E x \in result[d] : x.gate.name = name
HasFailure(d, r) == \E x \in result[d] : x.status = "failed" /\ Blocks(x.gate, r)

\* What a runner finds is its own deployment.
FindsOwn(r) ==
    /\ request[r].at \in {"assert", "handler", "find"} =>
          \A i \in Since(r) : Own(made[i], r)
    /\ request[r].at \in {"pre", "poll", "done"} =>
          request[r].accepted \in Released /\ Own(request[r].accepted, r)

\* The gates that a request has got past were none that block it.
LetThrough(r) ==
    /\ \A g \in known[r] : Blocks(g, r) => request[r].at = "refused"
    /\ result[r] # {} => r \in overtaken \/ request[r].at \in {"poll", "done", "gave_up", "lost"}

\* A gate that was read has a result after the run of its kind, unless it has slipped.
Accounted(r) ==
    /\ \A g \in known[r] : \E h \in config : h.name = g.name
    /\ request[r].at = "poll" /\ request[r].accepted = r =>
          \A g \in known[r] : \/ Has(r, g.name) \/ g.name \in slipped[r]
                              \/ \E h \in config : h.name = g.name /\ ~IsPre(h)
    /\ request[r].at = "done" /\ request[r].accepted = r /\ r \notin overtaken =>
          \A g \in known[r] : Has(r, g.name) \/ g.name \in slipped[r] \/ HasFailure(r, r)

RequestInv(r) == FindsOwn(r) /\ LetThrough(r) /\ Accounted(r)
GatesInv == GatesTypeOK /\ OwnGates /\ \A r \in Requests : RequestInv(r)

Spots == {"none", "assert", "handler", "find", "pre", "poll"} \cup RequestEnds
Place == [at : Spots, started : Nat, accepted : Released \cup {"none"}]
RequestType == [Requests -> Place]
Row == [gate : Gates, status : Outcomes, by : Requests]
ResultTyped ==
    /\ result \in [Released -> SUBSET Row]
    /\ \A d \in Released : \A x, y \in result[d] : x.gate.name = y.gate.name => x = y

\* The type invariant in parts.
LEMMA GatesTyped ==
  GatesTypeOK <=>
    /\ config \subseteq Gates /\ OneOfAName(config)
    /\ made \in Seq(Released) /\ outcome \in [Released -> {"open", "ready", "failed"}]
    /\ ResultTyped /\ request \in RequestType /\ known \in [Requests -> SUBSET Gates]
    /\ slipped \in [Requests -> SUBSET STRING] /\ overtaken \subseteq Released
BY DEF GatesTypeOK, ResultTyped, RequestType, Place, Spots, Row

LEMMA GatesTypedNext ==
  GatesTypeOK' <=>
    /\ config' \subseteq Gates /\ OneOfAName(config')
    /\ made' \in Seq(Released) /\ outcome' \in [Released -> {"open", "ready", "failed"}]
    /\ ResultTyped' /\ request' \in RequestType /\ known' \in [Requests -> SUBSET Gates]
    /\ slipped' \in [Requests -> SUBSET STRING] /\ overtaken' \subseteq Released
BY DEF GatesTypeOK, ResultTyped, RequestType, Place, Spots, Row, OneOfAName

\* A step moves its own request.
LEMMA ProceedEffect ==
  ASSUME request \in RequestType, NEW r \in Requests, NEW at \in Spots, Proceed(r, at)
  PROVE  /\ request'[r].at = at /\ request'[r].started = request[r].started
         /\ request'[r].accepted = request[r].accepted
         /\ \A q \in Requests : q # r => request'[q] = request[q]
         /\ request' \in RequestType
<1>1. request[r] \in Place /\ request' = [request EXCEPT ![r].at = at]
  BY DEF Proceed, RequestType
<1> DEFINE moved == [request[r] EXCEPT !.at = at]
<1>2. moved \in Place /\ moved.at = at /\ moved.started = request[r].started
      /\ moved.accepted = request[r].accepted
  BY <1>1 DEF Place
<1>3. request' = [request EXCEPT ![r] = moved]
  BY <1>1
<1> HIDE DEF moved
<1> QED  BY <1>2, <1>3 DEF RequestType

\* What the other requests rely on is not taken away from them.
LEMMA OtherRequests ==
  ASSUME NEW q \in Requests, RequestInv(q),
         request'[q] = request[q], known'[q] = known[q], slipped'[q] = slipped[q],
         UNCHANGED <<made, config>>, overtaken \subseteq overtaken',
         \A x \in result[q] : \E y \in result'[q] : y.gate.name = x.gate.name,
         result'[q] = result[q] \/ q \in overtaken
  PROVE  RequestInv(q)'
<1>1. FindsOwn(q)'
  BY DEF RequestInv, FindsOwn, Since, Own
<1>2. LetThrough(q)'
  BY DEF RequestInv, LetThrough, Blocks, IsPre
<1>3. Accounted(q)'
  <2>1. \A g \in known[q] : Has(q, g.name) => Has(q, g.name)'
    BY DEF Has
  <2>2. \/ result'[q] = result[q] /\ (HasFailure(q, q) => HasFailure(q, q)')
        \/ q \in overtaken'
    BY DEF HasFailure, Blocks, IsPre
  <2>3. \A h \in config : IsPre(h)' = IsPre(h)
    BY DEF IsPre
  <2> QED  BY <2>1, <2>2, <2>3 DEF RequestInv, Accounted
<1> QED  BY <1>1, <1>2, <1>3 DEF RequestInv

\* A deployment comes to its end.
LEMMA FinishStep ==
  ASSUME GatesInv, Finish \/ UNCHANGED gateVars
  PROVE  GatesInv'
<1>1. UNCHANGED <<config, made, result, request, known, slipped, overtaken>>
  BY DEF Finish, gateVars
<1>2. outcome' \in [Released -> {"open", "ready", "failed"}]
  BY GatesTyped DEF Finish, gateVars, GatesInv
<1>3. GatesTypeOK'
  BY <1>1, <1>2, GatesTyped, GatesTypedNext DEF GatesInv, ResultTyped
<1>4. OwnGates'
  BY <1>1 DEF GatesInv, OwnGates
<1>5. \A r \in Requests : RequestInv(r)'
  BY <1>1, OtherRequests DEF GatesInv
<1> QED  BY <1>3, <1>4, <1>5 DEF GatesInv

\* A gate keeps its name when it is changed; one that would be passed by has slipped.
LEMMA ConfigureStep ==
  ASSUME GatesInv, Configure
  PROVE  GatesInv'
<1>1. PICK gate \in Gates :
        /\ config' = {g \in config : g.name # gate.name} \cup {gate}
        /\ slipped' = [r \in Requests |->
              IF request[r].at = "poll" /\ MovedUp(gate)
              THEN slipped[r] \cup {gate.name} ELSE slipped[r]]
  BY DEF Configure
<1>2. /\ UNCHANGED <<made, outcome, result, request, known, overtaken>>
      /\ config \subseteq Gates /\ OneOfAName(config)
      /\ slipped \in [Requests -> SUBSET STRING] /\ gate.name \in STRING
  BY GatesTyped, ReleaseGatesAssumption DEF Configure, GatesInv
<1>3. config' \subseteq Gates /\ OneOfAName(config')
  BY <1>1, <1>2 DEF OneOfAName
<1>4. slipped' \in [Requests -> SUBSET STRING]
  BY <1>1, <1>2
<1>5. GatesTypeOK'
  BY <1>2, <1>3, <1>4, GatesTyped, GatesTypedNext DEF GatesInv, ResultTyped
<1>6. OwnGates'
  BY <1>2 DEF GatesInv, OwnGates
<1>7. ASSUME NEW r \in Requests PROVE RequestInv(r)'
  <2>1. slipped[r] \subseteq slipped'[r]
        /\ (request[r].at = "poll" /\ MovedUp(gate) => gate.name \in slipped'[r])
    BY <1>1
  <2>2. \A h \in config : \E k \in config' :
            k.name = h.name /\ (k = h \/ (k = gate /\ gate.name = h.name))
    BY <1>1
  <2>3. FindsOwn(r)' /\ LetThrough(r)'
    BY <1>2 DEF GatesInv, RequestInv, FindsOwn, LetThrough, Since, Own, Blocks, IsPre
  <2>4. \A g \in known[r] : \E k \in config' : k.name = g.name
    BY <2>2 DEF GatesInv, RequestInv, Accounted
  <2>5. ASSUME request[r].at = "poll", request[r].accepted = r, NEW g \in known[r]
        PROVE  \/ Has(r, g.name) \/ g.name \in slipped'[r]
               \/ \E k \in config' : k.name = g.name /\ ~IsPre(k)
    <3>1. CASE Has(r, g.name) \/ g.name \in slipped[r]
      BY <2>1, <3>1
    <3>2. CASE \E h \in config : h.name = g.name /\ ~IsPre(h)
      <4>1. PICK h \in config : h.name = g.name /\ ~IsPre(h)
        BY <3>2
      <4>2. PICK k \in config' :
              k.name = h.name /\ (k = h \/ (k = gate /\ gate.name = h.name))
        BY <2>2
      <4>3. CASE k = gate /\ gate.name = h.name /\ IsPre(gate)
        BY <2>1, <2>5, <4>1, <4>3 DEF MovedUp
      <4> QED  BY <4>1, <4>2, <4>3
    <3> QED  BY <2>5, <3>1, <3>2 DEF GatesInv, RequestInv, Accounted
  <2>6. /\ \A g \in known[r] : Has(r, g.name)' = Has(r, g.name)
        /\ HasFailure(r, r)' = HasFailure(r, r)
        /\ \A k \in config' : IsPre(k)' = IsPre(k)
    BY <1>2 DEF Has, HasFailure, Blocks, IsPre
  <2>7. Accounted(r)'
    BY <1>2, <2>1, <2>4, <2>5, <2>6 DEF GatesInv, RequestInv, Accounted
  <2> QED  BY <2>3, <2>7 DEF RequestInv
<1> QED  BY <1>5, <1>6, <1>7 DEF GatesInv

\* A request arrives: there is no deployment since.
LEMMA ArriveStep ==
  ASSUME GatesInv, NEW r \in Requests, Arrive(r)
  PROVE  GatesInv'
<1>1. /\ request[r].at = "none"
      /\ request' = [request EXCEPT ![r].started = Len(made) + 1, ![r].at = "assert"]
      /\ UNCHANGED <<config, made, outcome, result, known, slipped, overtaken>>
      /\ made \in Seq(Released) /\ Len(made) \in Nat /\ request \in RequestType
  BY GatesTyped DEF Arrive, GatesInv
<1> DEFINE begun == [at |-> "assert", started |-> Len(made) + 1,
                     accepted |-> request[r].accepted]
<1>2. begun \in Place /\ begun.at = "assert" /\ begun.started = Len(made) + 1
  BY <1>1 DEF RequestType, Place, Spots
<1>3. request' = [request EXCEPT ![r] = begun]
  BY <1>1 DEF RequestType, Place
<1> HIDE DEF begun
<1>4. /\ request'[r].at = "assert" /\ request'[r].started = Len(made) + 1
      /\ \A q \in Requests : q # r => request'[q] = request[q]
      /\ request' \in RequestType
  BY <1>1, <1>2, <1>3 DEF RequestType
<1>5. GatesTypeOK'
  BY <1>1, <1>4, GatesTyped, GatesTypedNext DEF GatesInv, ResultTyped
<1>6. OwnGates'
  BY <1>1 DEF GatesInv, OwnGates
<1>7. RequestInv(r)'
  <2>1. Since(r)' = {}
    BY <1>1, <1>4 DEF Since
  <2>2. FindsOwn(r)'
    BY <1>4, <2>1 DEF FindsOwn
  <2>3. LetThrough(r)'
    BY <1>1, <1>4 DEF GatesInv, RequestInv, LetThrough, Blocks, IsPre
  <2>4. Accounted(r)'
    BY <1>1, <1>4 DEF GatesInv, RequestInv, Accounted
  <2> QED  BY <2>2, <2>3, <2>4 DEF RequestInv
<1>8. ASSUME NEW q \in Requests, q # r PROVE RequestInv(q)'
  BY <1>1, <1>4, <1>8, OtherRequests DEF GatesInv
<1> QED  BY <1>5, <1>6, <1>7, <1>8 DEF GatesInv

\* Only a request that no gate blocks gets to the handler.
LEMMA AssertStep ==
  ASSUME GatesInv, NEW r \in Requests, assertPreReleaseGates(r)
  PROVE  GatesInv'
<1>1. PICK at \in {"refused", "handler"} :
        Proceed(r, at) /\ ((\E g \in config : Blocks(g, r)) => at = "refused")
  BY DEF assertPreReleaseGates
<1>2. /\ request[r].at = "assert" /\ request \in RequestType
      /\ known \in [Requests -> SUBSET Gates] /\ config \subseteq Gates
      /\ known' = [known EXCEPT ![r] = config]
      /\ UNCHANGED <<config, made, outcome, result, slipped, overtaken>>
  BY GatesTyped DEF assertPreReleaseGates, GatesInv
<1>3. /\ request'[r].at = at /\ request'[r].started = request[r].started
      /\ \A q \in Requests : q # r => request'[q] = request[q] /\ known'[q] = known[q]
      /\ request' \in RequestType /\ known'[r] = config
      /\ known' \in [Requests -> SUBSET Gates]
  BY <1>1, <1>2, ProceedEffect DEF Spots, RequestEnds
<1>4. GatesTypeOK'
  BY <1>2, <1>3, GatesTyped, GatesTypedNext DEF GatesInv, ResultTyped
<1>5. OwnGates'
  BY <1>2 DEF GatesInv, OwnGates
<1>6. RequestInv(r)'
  <2>1. FindsOwn(r)'
    BY <1>1, <1>2, <1>3 DEF GatesInv, RequestInv, FindsOwn, Since, Own
  <2>2. LetThrough(r)'
    BY <1>1, <1>2, <1>3 DEF GatesInv, RequestInv, LetThrough, Blocks, IsPre
  <2>3. Accounted(r)'
    BY <1>1, <1>2, <1>3 DEF Accounted
  <2> QED  BY <2>1, <2>2, <2>3 DEF RequestInv
<1>7. ASSUME NEW q \in Requests, q # r PROVE RequestInv(q)'
  BY <1>2, <1>3, <1>7, OtherRequests DEF GatesInv
<1> QED  BY <1>4, <1>5, <1>6, <1>7 DEF GatesInv

\* A deployment that is made while others look is theirs as well, and they are marked.
LEMMA CreateEffect ==
  ASSUME GatesInv, NEW d \in Released, CreateDeployment(d), NEW q \in Requests,
         request'[q].at \in {"assert", "handler", "find"} => q \in Looking,
         request'[q].started = request[q].started
  PROVE  /\ made' \in Seq(Released)
         /\ overtaken \subseteq overtaken' /\ overtaken' \subseteq Released
         /\ request'[q].at \in {"assert", "handler", "find"} =>
               \A i \in Since(q)' : Own(made[i], q)'
<1>1. /\ made' = Append(made, d) /\ made \in Seq(Released) /\ overtaken \subseteq Released
      /\ Looking \subseteq {d} => overtaken' = overtaken
      /\ ~(Looking \subseteq {d}) => overtaken' = overtaken \cup Looking \cup {d}
  BY GatesTyped DEF CreateDeployment, GatesInv
<1>2. overtaken \subseteq overtaken' /\ overtaken' \subseteq Released
  BY <1>1 DEF Looking, Released
<1>3. /\ made' \in Seq(Released) /\ DOMAIN made' = 1 .. Len(made) + 1
      /\ DOMAIN made = 1 .. Len(made) /\ Len(made) \in Nat
      /\ \A i \in DOMAIN made : made'[i] = made[i]
      /\ made'[Len(made) + 1] = d
  BY <1>1
<1>4. ASSUME request'[q].at \in {"assert", "handler", "find"}, NEW i \in Since(q)'
      PROVE  Own(made[i], q)'
  <2>1. q \in Looking /\ request[q].at \in {"assert", "handler", "find"}
    BY <1>4 DEF Looking
  <2>2. i \in DOMAIN made' /\ i >= request[q].started
    BY <1>4 DEF Since
  <2>3. CASE i \in DOMAIN made
    BY <1>2, <1>3, <2>1, <2>2, <2>3 DEF GatesInv, RequestInv, FindsOwn, Since, Own
  <2>4. CASE i = Len(made) + 1 /\ q # d
    BY <1>1, <1>3, <2>1, <2>4 DEF Own
  <2>5. CASE i = Len(made) + 1 /\ q = d
    BY <1>3, <2>5 DEF Own
  <2> QED  BY <1>3, <2>2, <2>3, <2>4, <2>5
<1> QED  BY <1>2, <1>3, <1>4

\* A request or a push makes its deployment.
LEMMA MakeStep ==
  ASSUME GatesInv,
         PushDeployment \/ \E r \in Requests : MakeDeployment(r)
  PROVE  GatesInv'
<1>1. PICK d \in Released : CreateDeployment(d)
  BY DEF PushDeployment, MakeDeployment, Released
<1>2. /\ UNCHANGED <<config, outcome, result, known, slipped>>
      /\ request \in RequestType
  BY GatesTyped DEF PushDeployment, MakeDeployment, GatesInv
<1>3. /\ request' \in RequestType
      /\ \A q \in Requests :
            /\ request'[q].started = request[q].started
            /\ request'[q] = request[q] \/ (request[q].at = "handler" /\ request'[q].at = "find")
  <2>1. CASE PushDeployment
    BY <1>2, <2>1 DEF PushDeployment
  <2>2. ASSUME NEW r \in Requests, MakeDeployment(r)
        PROVE  <1>3!1 /\ <1>3!2
    BY <1>2, <2>2, ProceedEffect DEF MakeDeployment, Spots
  <2> QED  BY <2>1, <2>2
<1>4. \A q \in Requests : request'[q].at \in {"assert", "handler", "find"} => q \in Looking
  BY <1>3 DEF Looking
<1>5. ASSUME NEW q \in Requests
      PROVE  /\ made' \in Seq(Released)
             /\ overtaken \subseteq overtaken' /\ overtaken' \subseteq Released
             /\ RequestInv(q)'
  <2>1. /\ made' \in Seq(Released)
        /\ overtaken \subseteq overtaken' /\ overtaken' \subseteq Released
        /\ request'[q].at \in {"assert", "handler", "find"} =>
              \A i \in Since(q)' : Own(made[i], q)'
    BY <1>1, <1>3, <1>4, CreateEffect
  <2>2. FindsOwn(q)'
    BY <1>2, <1>3, <2>1 DEF GatesInv, RequestInv, FindsOwn, Own
  <2>3. LetThrough(q)'
    BY <1>2, <1>3, <2>1 DEF GatesInv, RequestInv, LetThrough, Blocks, IsPre
  <2>4. /\ \A g \in known[q] : Has(q, g.name)' = Has(q, g.name)
        /\ HasFailure(q, q)' = HasFailure(q, q)
        /\ \A k \in config : IsPre(k)' = IsPre(k)
    BY <1>2 DEF Has, HasFailure, Blocks, IsPre
  <2>5. Accounted(q)'
    BY <1>2, <1>3, <2>1, <2>4 DEF GatesInv, RequestInv, Accounted
  <2> QED  BY <2>1, <2>2, <2>3, <2>5 DEF RequestInv
<1>6. /\ made' \in Seq(Released)
      /\ overtaken \subseteq overtaken' /\ overtaken' \subseteq Released
  BY <1>1, GatesTyped DEF CreateDeployment, Looking, Released, GatesInv
<1>7. GatesTypeOK'
  BY <1>2, <1>3, <1>6, GatesTyped, GatesTypedNext DEF GatesInv, ResultTyped
<1>8. OwnGates'
  BY <1>2, <1>6 DEF GatesInv, OwnGates
<1> QED  BY <1>5, <1>7, <1>8 DEF GatesInv

\* The handler answers with an error, or a runner stops before its end.
LEMMA MoveStep ==
  ASSUME GatesInv, NEW r \in Requests,
         HandlerRefuses(r) \/ FindNothing(r) \/ PollGivesUp(r) \/ RunnerEnds(r)
  PROVE  GatesInv'
<1>1. PICK at \in {"find", "refused", "gave_up", "lost"} :
        /\ Proceed(r, at) /\ request[r].at \in {"handler", "find", "poll"}
        /\ at \in {"find", "refused"} => request[r].at = "handler"
  BY DEF HandlerRefuses, FindNothing, PollGivesUp, RunnerEnds
<1>2. /\ UNCHANGED <<config, made, outcome, result, known, slipped, overtaken>>
      /\ request \in RequestType
  BY GatesTyped DEF HandlerRefuses, FindNothing, PollGivesUp, RunnerEnds, GatesInv
<1>3. /\ request'[r].at = at /\ request'[r].started = request[r].started
      /\ \A q \in Requests : q # r => request'[q] = request[q]
      /\ request' \in RequestType
  BY <1>1, <1>2, ProceedEffect DEF Spots, RequestEnds
<1>4. GatesTypeOK'
  BY <1>2, <1>3, GatesTyped, GatesTypedNext DEF GatesInv, ResultTyped
<1>5. OwnGates'
  BY <1>2 DEF GatesInv, OwnGates
<1>6. RequestInv(r)'
  <2>1. FindsOwn(r)'
    BY <1>1, <1>2, <1>3 DEF GatesInv, RequestInv, FindsOwn, Since, Own
  <2>2. LetThrough(r)'
    BY <1>1, <1>2, <1>3 DEF GatesInv, RequestInv, LetThrough, Blocks, IsPre
  <2>3. Accounted(r)'
    BY <1>1, <1>2, <1>3 DEF GatesInv, RequestInv, Accounted
  <2> QED  BY <2>1, <2>2, <2>3 DEF RequestInv
<1>7. ASSUME NEW q \in Requests, q # r PROVE RequestInv(q)'
  BY <1>2, <1>3, <1>7, OtherRequests DEF GatesInv
<1> QED  BY <1>4, <1>5, <1>6, <1>7 DEF GatesInv

\* What a runner finds is its own, or was made while it looked.
LEMMA FindStep ==
  ASSUME GatesInv, NEW r \in Requests, Find(r)
  PROVE  GatesInv'
<1>1. PICK i \in Since(r) :
        request' = [request EXCEPT ![r].at = "pre", ![r].accepted = made[i]]
  BY DEF Find
<1>2. /\ request[r].at = "find" /\ made \in Seq(Released) /\ request \in RequestType
      /\ UNCHANGED <<config, made, outcome, result, known, slipped, overtaken>>
  BY GatesTyped DEF Find, GatesInv
<1>3. made[i] \in Released /\ Own(made[i], r)
  BY <1>2 DEF Since, GatesInv, RequestInv, FindsOwn
<1> DEFINE found == [request[r] EXCEPT !.at = "pre", !.accepted = made[i]]
<1>4. found \in Place /\ found.at = "pre" /\ found.accepted = made[i]
  BY <1>2, <1>3 DEF RequestType, Place, Spots
<1>5. request' = [request EXCEPT ![r] = found]
  BY <1>1, <1>2 DEF RequestType, Place
<1> HIDE DEF found
<1>6. /\ request'[r].at = "pre" /\ request'[r].accepted = made[i]
      /\ \A q \in Requests : q # r => request'[q] = request[q]
      /\ request' \in RequestType
  BY <1>2, <1>4, <1>5 DEF RequestType
<1>7. GatesTypeOK'
  BY <1>2, <1>6, GatesTyped, GatesTypedNext DEF GatesInv, ResultTyped
<1>8. OwnGates'
  BY <1>2 DEF GatesInv, OwnGates
<1>9. RequestInv(r)'
  <2>1. FindsOwn(r)'
    BY <1>2, <1>3, <1>6 DEF FindsOwn, Own
  <2>2. LetThrough(r)'
    BY <1>2, <1>6 DEF GatesInv, RequestInv, LetThrough, Blocks, IsPre
  <2>3. Accounted(r)'
    BY <1>2, <1>6 DEF GatesInv, RequestInv, Accounted
  <2> QED  BY <2>1, <2>2, <2>3 DEF RequestInv
<1>10. ASSUME NEW q \in Requests, q # r PROVE RequestInv(q)'
  BY <1>2, <1>6, <1>10, OtherRequests DEF GatesInv
<1> QED  BY <1>7, <1>8, <1>9, <1>10 DEF GatesInv

\* Results are written for the deployment the runner has found, one for every gate, and a
\* name that has a result keeps one.
LEMMA StoreEffect ==
  ASSUME ResultTyped, OwnGates, NEW r \in Requests, request[r].accepted \in Released,
         Own(request[r].accepted, r), UNCHANGED overtaken,
         NEW gates \in SUBSET Gates, OneOfAName(gates), NEW built,
         StoreResults(r, gates, built)
  PROVE  /\ ResultTyped' /\ OwnGates'
         /\ \A d \in Released : \A x \in result[d] :
               \E y \in result'[d] : y.gate.name = x.gate.name
         /\ \A g \in gates : \E y \in result'[request[r].accepted] :
               y.gate = g /\ y.status \in runOne(g, r, built)
         /\ \A e \in Released \ {request[r].accepted} : result'[e] = result[e]
<1> DEFINE d == request[r].accepted
<1>1. PICK status \in [gates -> Outcomes] :
        /\ \A g \in gates : status[g] \in runOne(g, r, built)
        /\ result' = [result EXCEPT ![d] =
              {x \in @ : \A g \in gates : g.name # x.gate.name} \cup
              {[gate |-> g, status |-> status[g], by |-> r] : g \in gates}]
  BY DEF StoreResults
<1> DEFINE kept == {x \in result[d] : \A g \in gates : g.name # x.gate.name}
           new == {[gate |-> g, status |-> status[g], by |-> r] : g \in gates}
<1>2. result \in [Released -> SUBSET Row] /\ result' = [result EXCEPT ![d] = kept \cup new]
  BY <1>1 DEF ResultTyped
<1>3. /\ result'[d] = kept \cup new
      /\ \A e \in Released : e # d => result'[e] = result[e]
  BY <1>2
<1>4. \A x \in new : x.gate \in gates /\ x.by = r /\ x \in Row /\ x.status = status[x.gate]
  BY DEF Row
<1>5. ASSUME NEW g \in gates PROVE \E y \in new : y.gate = g /\ y.status = status[g]
  <2>1. [gate |-> g, status |-> status[g], by |-> r] \in new
    OBVIOUS
  <2> HIDE DEF new
  <2> QED  BY <2>1
<1>6. kept \subseteq result[d] /\ \A x \in kept : \A g \in gates : g.name # x.gate.name
  OBVIOUS
<1>7. \A x \in result[d] : x \in kept \/ \E g \in gates : g.name = x.gate.name
  OBVIOUS
<1>8. \A x, y \in new : x.gate.name = y.gate.name => x = y
  BY DEF OneOfAName
<1> HIDE DEF kept, new
<1>9. ResultTyped'
  <2>1. result' \in [Released -> SUBSET Row]
    BY <1>2, <1>4, <1>6
  <2>2. ASSUME NEW e \in Released, NEW x \in result'[e], NEW y \in result'[e],
               x.gate.name = y.gate.name
        PROVE  x = y
    <3>1. CASE e # d
      BY <1>3, <2>2, <3>1 DEF ResultTyped
    <3>2. CASE e = d
      BY <1>3, <1>4, <1>6, <1>8, <2>2, <3>2 DEF ResultTyped
    <3> QED  BY <3>1, <3>2
  <2> QED  BY <2>1, <2>2 DEF ResultTyped
<1>10. OwnGates'
  <2> SUFFICES ASSUME NEW e \in Released, NEW x \in result'[e]
               PROVE  x.by = e \/ e \in overtaken
    BY DEF OwnGates
  <2>1. CASE e # d \/ x \in kept
    BY <1>3, <1>6, <2>1 DEF OwnGates
  <2>2. CASE e = d /\ x \in new
    BY <1>4, <2>2 DEF Own
  <2> QED  BY <1>3, <2>1, <2>2
<1>11. ASSUME NEW e \in Released, NEW x \in result[e]
       PROVE  \E y \in result'[e] : y.gate.name = x.gate.name
  <2>1. CASE e # d \/ x \in kept
    BY <1>3, <2>1
  <2>2. CASE e = d /\ \E g \in gates : g.name = x.gate.name
    BY <1>3, <1>5, <2>2
  <2> QED  BY <1>7, <2>1, <2>2
<1>12. \A g \in gates : \E y \in result'[d] : y.gate = g /\ y.status \in runOne(g, r, built)
  BY <1>1, <1>3, <1>5
<1> QED  BY <1>3, <1>9, <1>10, <1>11, <1>12

\* A run of gates, whole or cut short, harms nothing but what its own request relies on.
LEMMA RunEffect ==
  ASSUME GatesInv, NEW r \in Requests, request[r].at \in {"pre", "poll"},
         NEW gates \in SUBSET config, NEW built, NEW at \in {"poll", "done", "lost"},
         StoreResults(r, gates, built), Proceed(r, at),
         UNCHANGED <<config, made, outcome, known, slipped, overtaken>>
  PROVE  /\ GatesTypeOK' /\ OwnGates'
         /\ FindsOwn(r)' /\ LetThrough(r)'
         /\ \A q \in Requests \ {r} : RequestInv(q)'
         /\ request'[r].at = at /\ request'[r].accepted = request[r].accepted
         /\ \A g \in known[r] : Has(r, g.name) => Has(r, g.name)'
         /\ request[r].accepted = r => \A g \in gates : \E y \in result'[r] :
               y.gate = g /\ y.status \in runOne(g, r, built)
<1>1. /\ config \subseteq Gates /\ OneOfAName(config) /\ ResultTyped
      /\ request \in RequestType /\ OwnGates /\ RequestInv(r)
  BY GatesTyped DEF GatesInv
<1>2. /\ request'[r].at = at /\ request'[r].started = request[r].started
      /\ request'[r].accepted = request[r].accepted
      /\ \A q \in Requests : q # r => request'[q] = request[q]
      /\ request' \in RequestType
  BY <1>1, ProceedEffect DEF Spots, RequestEnds
<1>3. request[r].accepted \in Released /\ Own(request[r].accepted, r)
  BY <1>1 DEF RequestInv, FindsOwn
<1>4. gates \in SUBSET Gates /\ OneOfAName(gates)
  BY <1>1 DEF OneOfAName
<1>5. /\ ResultTyped' /\ OwnGates'
      /\ \A d \in Released : \A x \in result[d] :
            \E y \in result'[d] : y.gate.name = x.gate.name
      /\ \A g \in gates : \E y \in result'[request[r].accepted] :
            y.gate = g /\ y.status \in runOne(g, r, built)
      /\ \A e \in Released \ {request[r].accepted} : result'[e] = result[e]
  BY <1>1, <1>3, <1>4, StoreEffect
<1>6. GatesTypeOK'
  BY <1>2, <1>5, GatesTyped, GatesTypedNext DEF GatesInv
<1>7. FindsOwn(r)'
  BY <1>2, <1>3 DEF FindsOwn, Own
<1>8. LetThrough(r)'
  BY <1>1, <1>2 DEF RequestInv, LetThrough, Blocks, IsPre
<1>9. ASSUME NEW q \in Requests, q # r PROVE RequestInv(q)'
  <2>1. result'[q] = result[q] \/ q \in overtaken
    BY <1>3, <1>5, <1>9 DEF Own, Released
  <2>2. \A x \in result[q] : \E y \in result'[q] : y.gate.name = x.gate.name
    BY <1>5 DEF Released
  <2> QED  BY <1>2, <1>9, <2>1, <2>2, OtherRequests DEF GatesInv
<1>10. \A g \in known[r] : Has(r, g.name) => Has(r, g.name)'
  BY <1>5 DEF Has, Released
<1> QED  BY <1>2, <1>5, <1>6, <1>7, <1>8, <1>9, <1>10

\* A run that is cut short ends the runner, which nothing waits for.
LEMMA CutStep ==
  ASSUME GatesInv, NEW r \in Requests, request[r].at \in {"pre", "poll"},
         NEW gates \in SUBSET config, NEW built,
         StoreResults(r, gates, built), Proceed(r, "lost"),
         UNCHANGED <<config, made, outcome, known, slipped, overtaken>>
  PROVE  GatesInv'
<1>1. /\ GatesTypeOK' /\ OwnGates' /\ FindsOwn(r)' /\ LetThrough(r)'
      /\ \A q \in Requests \ {r} : RequestInv(q)'
      /\ request'[r].at = "lost"
  BY RunEffect
<1>2. Accounted(r)'
  BY <1>1 DEF GatesInv, RequestInv, Accounted
<1> QED  BY <1>1, <1>2 DEF GatesInv, RequestInv

\* The gates before a release have their results before the runner goes on.
LEMMA PreStep ==
  ASSUME GatesInv, NEW r \in Requests, runPreReleaseGates(r)
  PROVE  GatesInv'
<1> DEFINE gates == {g \in config : IsPre(g)}
           next == IF \E g \in config : Blocks(g, r) THEN "done" ELSE "poll"
<1>1. /\ UNCHANGED <<config, made, outcome, known, slipped, overtaken>>
      /\ request[r].at = "pre" /\ RunGates(r, gates, FALSE, next)
      /\ gates \in SUBSET config
  BY DEF runPreReleaseGates
<1>2. next \in {"poll", "done"} /\ (next = "done" => \E g \in config : Blocks(g, r))
  OBVIOUS
<1> HIDE DEF next
<1>3. ASSUME NEW some \in SUBSET gates, StoreResults(r, some, FALSE), Proceed(r, "lost")
      PROVE  GatesInv'
  BY <1>1, <1>3, CutStep
<1>4. ASSUME StoreResults(r, gates, FALSE), Proceed(r, next)
      PROVE  GatesInv'
  <2>1. /\ GatesTypeOK' /\ OwnGates' /\ FindsOwn(r)' /\ LetThrough(r)'
        /\ \A q \in Requests \ {r} : RequestInv(q)'
        /\ request'[r].at = next /\ request'[r].accepted = request[r].accepted
        /\ request[r].accepted = r => \A g \in gates : \E y \in result'[r] :
              y.gate = g /\ y.status \in runOne(g, r, FALSE)
    <3> DEFINE built == FALSE
    <3>1. StoreResults(r, gates, built)
      BY <1>4
    <3> HIDE DEF built
    <3>2. /\ GatesTypeOK' /\ OwnGates' /\ FindsOwn(r)' /\ LetThrough(r)'
          /\ \A q \in Requests \ {r} : RequestInv(q)'
          /\ request'[r].at = next /\ request'[r].accepted = request[r].accepted
          /\ request[r].accepted = r => \A g \in gates : \E y \in result'[r] :
                y.gate = g /\ y.status \in runOne(g, r, built)
      BY <1>1, <1>2, <1>4, <3>1, RunEffect
    <3> QED  BY <3>2 DEF built
  <2>2. request[r].accepted = r => \A g \in gates : Has(r, g.name)'
    BY <2>1 DEF Has
  <2>3. \A g \in known[r] : \E h \in config : h.name = g.name
    BY DEF GatesInv, RequestInv, Accounted
  <2>4. ASSUME request[r].accepted = r, NEW g \in known[r]
        PROVE  Has(r, g.name)' \/ \E h \in config : h.name = g.name /\ ~IsPre(h)
    BY <2>2, <2>3, <2>4
  <2>5. ASSUME request[r].accepted = r, next = "done"
        PROVE  HasFailure(r, r)'
    <3>1. PICK g \in config : Blocks(g, r)
      BY <1>2, <2>5
    <3>2. g \in gates /\ runOne(g, r, FALSE) = {"failed"}
      BY <3>1 DEF Blocks
    <3>3. \E y \in result'[r] : y.gate = g /\ y.status = "failed"
      BY <2>1, <2>5, <3>2
    <3> QED  BY <3>1, <3>3 DEF HasFailure, Blocks, IsPre
  <2>6. Accounted(r)'
    BY <1>1, <1>2, <2>1, <2>3, <2>4, <2>5 DEF Accounted, IsPre
  <2> QED  BY <2>1, <2>6 DEF GatesInv, RequestInv
<1> QED  BY <1>1, <1>3, <1>4 DEF RunGates

\* With the gates after a release, every gate the request began with has its result.
LEMMA PostStep ==
  ASSUME GatesInv, NEW r \in Requests, runPostReleaseGates(r)
  PROVE  GatesInv'
<1> DEFINE gates == {g \in config : ~IsPre(g)}
           built == outcome[request[r].accepted] = "ready"
<1>1. /\ UNCHANGED <<config, made, outcome, known, slipped, overtaken>>
      /\ request[r].at = "poll" /\ RunGates(r, gates, built, "done")
      /\ gates \in SUBSET config
  BY DEF runPostReleaseGates
<1> HIDE DEF built
<1>2. ASSUME NEW some \in SUBSET gates, StoreResults(r, some, built), Proceed(r, "lost")
      PROVE  GatesInv'
  BY <1>1, <1>2, CutStep
<1>3. ASSUME StoreResults(r, gates, built), Proceed(r, "done")
      PROVE  GatesInv'
  <2>1. /\ GatesTypeOK' /\ OwnGates' /\ FindsOwn(r)' /\ LetThrough(r)'
        /\ \A q \in Requests \ {r} : RequestInv(q)'
        /\ request'[r].at = "done" /\ request'[r].accepted = request[r].accepted
        /\ \A g \in known[r] : Has(r, g.name) => Has(r, g.name)'
        /\ request[r].accepted = r => \A g \in gates : \E y \in result'[r] :
              y.gate = g /\ y.status \in runOne(g, r, built)
    BY <1>1, <1>3, RunEffect
  <2>2. request[r].accepted = r => \A g \in gates : Has(r, g.name)'
    BY <2>1 DEF Has
  <2>3. RequestInv(r)
    BY DEF GatesInv
  <2>4. ASSUME request[r].accepted = r, NEW g \in known[r]
        PROVE  Has(r, g.name)' \/ g.name \in slipped[r]
    <3>1. \/ Has(r, g.name) \/ g.name \in slipped[r]
          \/ \E h \in config : h.name = g.name /\ ~IsPre(h)
      BY <1>1, <2>3, <2>4 DEF RequestInv, Accounted
    <3> QED  BY <2>1, <2>2, <2>4, <3>1
  <2>5. Accounted(r)'
    BY <1>1, <2>1, <2>3, <2>4 DEF RequestInv, Accounted
  <2> QED  BY <2>1, <2>5 DEF GatesInv, RequestInv
<1> QED  BY <1>1, <1>2, <1>3 DEF RunGates

LEMMA GatesInvariance == GatesSpec => []GatesInv
<1>1. GatesInit => GatesInv
  <2> SUFFICES ASSUME GatesInit PROVE GatesInv
    OBVIOUS
  <2>1. GatesTypeOK
    BY DEF GatesInit, GatesTypeOK, NotSent
  <2>2. OwnGates
    BY DEF GatesInit, OwnGates
  <2>3. ASSUME NEW r \in Requests PROVE RequestInv(r)
    <3>1. request[r].at = "none" /\ known[r] = {} /\ result[r] = {}
      BY DEF GatesInit, NotSent, Released
    <3> QED  BY <3>1 DEF RequestInv, FindsOwn, LetThrough, Accounted
  <2> QED  BY <2>1, <2>2, <2>3 DEF GatesInv
<1>2. GatesInv /\ [GatesNext]_gateVars => GatesInv'
  BY FinishStep, ConfigureStep, ArriveStep, AssertStep, MakeStep, MoveStep, FindStep,
     PreStep, PostStep
  DEF GatesNext
<1> QED  BY <1>1, <1>2, PTL DEF GatesSpec

\* A result is the judgement of the deployment's own request, no deployment gets past a
\* gate without a result that was not moved behind the runner's back, and a failure on
\* record came too late to stop it, unless two deployments are made side by side, by
\* requests or pushes: for any gates, changed at any time, and any number of either
\* (release-gates.ts:21-24, platform-advanced-routes.ts:12).
THEOREM GatesJudgeTheirOwn == GatesSpec => []ResultsAreTrue
<1>1. GatesInv => ResultsAreTrue
  <2> SUFFICES ASSUME GatesInv PROVE NoSilentPass /\ FailureCameLate
    BY DEF GatesInv, ResultsAreTrue
  <2>1. NoSilentPass
    <3> SUFFICES ASSUME NEW r \in Requests, request[r].at = "done", r \notin overtaken,
                        NEW g \in known[r]
                 PROVE  Has(r, g.name) \/ HasFailure(r, r) \/ g.name \in slipped[r]
      BY DEF NoSilentPass, Has, HasFailure
    <3>1. request[r].accepted = r
      BY DEF GatesInv, RequestInv, FindsOwn, Own
    <3> QED  BY <3>1 DEF GatesInv, RequestInv, Accounted
  <2>2. FailureCameLate
    <3> SUFFICES ASSUME NEW d \in Requests, NEW x \in result[d], Blocks(x.gate, d),
                        x.gate \in known[d]
                 PROVE  d \in overtaken
      BY DEF FailureCameLate
    <3> QED  BY DEF GatesInv, RequestInv, LetThrough
  <2> QED  BY <2>1, <2>2
<1> QED  BY <1>1, GatesInvariance, PTL

-----------------------------------------------------------------------------
(* Quotas *)

\* The units of one item are as many as its size, and finitely many items have finitely
\* many units.
LEMMA UnitsOfOne ==
  ASSUME NEW item \in Items
  PROVE  IsFiniteSet(Units({item})) /\ Cardinality(Units({item})) = SizeOf[item]
<1>1. SizeOf[item] \in Nat
  BY QuotasAssumption
<1>2. IsFiniteSet(1 .. SizeOf[item]) /\ Cardinality(1 .. SizeOf[item]) = SizeOf[item]
  BY <1>1, FS_Interval
<1>3. IsFiniteSet({item}) /\ Cardinality({item}) = 1
  BY FS_Singleton
<1>4. /\ IsFiniteSet({item} \X (1 .. SizeOf[item]))
      /\ Cardinality({item} \X (1 .. SizeOf[item])) = 1 * SizeOf[item]
  <2> DEFINE units == 1 .. SizeOf[item]
  <2>1. IsFiniteSet(units) /\ Cardinality(units) = SizeOf[item]
    BY <1>2
  <2> HIDE DEF units
  <2>2. /\ IsFiniteSet({item} \X units)
        /\ Cardinality({item} \X units) = Cardinality({item}) * Cardinality(units)
    BY <2>1, <1>3, FS_Product, Zenon
  <2>3. Cardinality({item} \X units) = 1 * SizeOf[item]
    BY <1>3, <2>1, <2>2
  <2> QED  BY <2>2, <2>3 DEF units
<1>5. Units({item}) = {item} \X (1 .. SizeOf[item])
  BY DEF Units
<1>6. 1 * SizeOf[item] = SizeOf[item]
  BY <1>1
<1> QED BY <1>4, <1>5, <1>6, Zenon

LEMMA UnitsAreFinite ==
  ASSUME NEW S \in SUBSET Items
  PROVE  IsFiniteSet(Units(S)) /\ Cardinality(Units(S)) \in Nat
<1> DEFINE of == [item \in S |-> {item} \X (1 .. SizeOf[item])]
           T == {{item} \X (1 .. SizeOf[item]) : item \in S}
<1>1. IsFiniteSet(S)
  BY QuotasAssumption, FS_Subset
<1>2. of \in Surjection(S, T)
  BY DEF Surjection
<1>3. IsFiniteSet(T)
  BY <1>1, <1>2, FS_Surjection
<1>4. ASSUME NEW t \in T PROVE IsFiniteSet(t)
  <2>1. PICK item \in S : t = {item} \X (1 .. SizeOf[item])
    OBVIOUS
  <2>2. Units({item}) = t
    BY <2>1 DEF Units
  <2> QED BY <2>2, UnitsOfOne
<1>5. IsFiniteSet(UNION T)
  BY <1>3, <1>4, FS_UNION
<1> QED BY <1>5, FS_CardinalityType DEF Units

\* More items have as many units or more, and one more item adds its size at most.
LEMMA UnitsGrow ==
  ASSUME NEW S \in SUBSET Items, NEW T \in SUBSET S
  PROVE  Cardinality(Units(T)) <= Cardinality(Units(S))
<1>1. Units(T) \subseteq Units(S)
  BY DEF Units
<1> QED BY <1>1, UnitsAreFinite, FS_Subset

LEMMA UnitsOfOneMore ==
  ASSUME NEW S \in SUBSET Items, NEW item \in Items
  PROVE  Cardinality(Units(S \cup {item})) <= Cardinality(Units(S)) + SizeOf[item]
<1>1. Units(S \cup {item}) = Units(S) \cup Units({item})
  BY DEF Units
<1>2. IsFiniteSet(Units(S)) /\ Cardinality(Units(S)) \in Nat
  BY UnitsAreFinite
<1>3. IsFiniteSet(Units({item})) /\ Cardinality(Units({item})) = SizeOf[item]
  BY UnitsOfOne
<1>4. Cardinality(Units(S) \cup Units({item}))
         = Cardinality(Units(S)) + Cardinality(Units({item}))
             - Cardinality(Units(S) \cap Units({item}))
  BY <1>2, <1>3, FS_Union
<1>5. Cardinality(Units(S) \cap Units({item})) \in Nat
  BY <1>2, FS_Intersection, FS_CardinalityType
<1>6. SizeOf[item] \in Nat
  BY QuotasAssumption
<1>7. ASSUME NEW a \in Nat, NEW b \in Nat, NEW c \in Nat, NEW d, d = a + b - c
      PROVE  d <= a + b
  BY <1>7
<1> QED BY <1>1, <1>2, <1>3, <1>4, <1>5, <1>6, <1>7

\* What holds of every transaction: whoever counts, or has counted, holds the lock, which
\* is of a row that is there or that its holder has inserted; and what has been counted
\* still fits.
LockInv ==
    /\ inserter # NoWriter => holder = inserter /\ ~quotaRow
    /\ holder # NoWriter => quotaRow \/ inserter = holder

WriterInv(w) ==
    /\ writer[w].at # "none" => writer[w].item \in Items
    /\ writer[w].at \in {"count", "commit"} => holder = w
    /\ writer[w].at = "commit" => Fits(writer[w].item)

QuotaInv ==
    /\ QuotasTypeOK /\ LockInv
    /\ \A w \in Writers : WriterInv(w)
    /\ NeverOverQuota

\* A step that leaves what is counted alone keeps the limits.
LEMMA CountedStays ==
  ASSUME NeverOverQuota, counted' = counted
  PROVE  NeverOverQuota' /\ \A item : Fits(item)' = Fits(item)
BY DEF NeverOverQuota, Fits, used, Units, OfKind

\* Where fewer items are counted, what was found to fit still does.
LEMMA FewerFit ==
  ASSUME QuotasTypeOK, counted' \in SUBSET counted, NEW item \in Items, Fits(item)
  PROVE  Fits(item)'
<1> DEFINE S == OfKind(counted \ {item}, KindOf[item])
           T == OfKind(counted' \ {item}, KindOf[item])
<1>1. S \in SUBSET Items /\ T \in SUBSET S
  BY DEF OfKind, QuotasTypeOK
<1>2. Cardinality(Units(T)) <= Cardinality(Units(S))
  BY <1>1, UnitsGrow
<1>3. Cardinality(Units(T)) \in Nat /\ Cardinality(Units(S)) \in Nat
  BY <1>1, UnitsAreFinite
<1>4. SizeOf[item] \in Nat /\ DefaultLimit[KindOf[item]] \in Nat
  BY QuotasAssumption
<1>5. Cardinality(Units(S)) + SizeOf[item] <= DefaultLimit[KindOf[item]]
  BY DEF Fits, used
<1>6. ASSUME NEW a \in Nat, NEW b \in Nat, NEW c \in Nat, NEW d \in Nat, a <= b, b + c <= d
      PROVE  a + c <= d
  BY <1>6
<1> HIDE DEF S, T
<1>7. Cardinality(Units(T)) + SizeOf[item] <= DefaultLimit[KindOf[item]]
  BY <1>2, <1>3, <1>4, <1>5, <1>6
<1> QED BY <1>7 DEF Fits, used, T

LEMMA FewerWithinLimits ==
  ASSUME QuotasTypeOK, counted' \in SUBSET counted, NeverOverQuota
  PROVE  NeverOverQuota'
<1>1. SUFFICES ASSUME NEW kind \in Kinds
               PROVE  Cardinality(Units(OfKind(counted', kind))) <= DefaultLimit[kind]
  BY DEF NeverOverQuota, Units, OfKind
<1> DEFINE S == OfKind(counted, kind)
           T == OfKind(counted', kind)
<1>2. S \in SUBSET Items /\ T \in SUBSET S
  BY DEF OfKind, QuotasTypeOK
<1>3. Cardinality(Units(T)) <= Cardinality(Units(S))
  BY <1>2, UnitsGrow
<1>4. Cardinality(Units(T)) \in Nat /\ Cardinality(Units(S)) \in Nat
  BY <1>2, UnitsAreFinite
<1>5. Cardinality(Units(S)) <= DefaultLimit[kind]
  BY DEF NeverOverQuota
<1>6. DefaultLimit[kind] \in Nat
  BY QuotasAssumption
<1>7. ASSUME NEW a \in Nat, NEW b \in Nat, NEW c \in Nat, a <= b, b <= c
      PROVE  a <= c
  BY <1>7
<1> HIDE DEF S, T
<1>8. Cardinality(Units(T)) <= DefaultLimit[kind]
  BY <1>3, <1>4, <1>5, <1>6, <1>7
<1> QED BY <1>8 DEF T

\* An item that fits takes its kind up to the limit at most, whether it was counted or not.
LEMMA FittingWithinLimits ==
  ASSUME QuotasTypeOK, NeverOverQuota, NEW item \in Items, Fits(item),
         counted' = counted \cup {item}
  PROVE  NeverOverQuota'
<1>1. SUFFICES ASSUME NEW kind \in Kinds
               PROVE  Cardinality(Units(OfKind(counted', kind))) <= DefaultLimit[kind]
  BY DEF NeverOverQuota, Units, OfKind
<1>2. CASE KindOf[item] # kind
  <2>1. OfKind(counted', kind) = OfKind(counted, kind)
    BY <1>2 DEF OfKind
  <2> QED BY <2>1 DEF NeverOverQuota
<1>3. CASE KindOf[item] = kind
  <2> DEFINE S == OfKind(counted \ {item}, kind)
  <2>1. S \in SUBSET Items /\ OfKind(counted', kind) = S \cup {item}
    BY <1>3 DEF OfKind, QuotasTypeOK
  <2>2. Cardinality(Units(S \cup {item})) <= Cardinality(Units(S)) + SizeOf[item]
    BY <2>1, UnitsOfOneMore
  <2>3. Cardinality(Units(S)) + SizeOf[item] <= DefaultLimit[kind]
    BY <1>3 DEF Fits, used
  <2>4. /\ Cardinality(Units(S)) \in Nat /\ Cardinality(Units(S \cup {item})) \in Nat
        /\ SizeOf[item] \in Nat /\ DefaultLimit[kind] \in Nat
    BY <2>1, UnitsAreFinite, QuotasAssumption
  <2>5. ASSUME NEW a \in Nat, NEW b \in Nat, NEW c \in Nat, NEW d \in Nat,
               a <= b + c, b + c <= d
        PROVE  a <= d
    BY <2>5
  <2> HIDE DEF S
  <2>6. Cardinality(Units(S \cup {item})) <= DefaultLimit[kind]
    BY <2>2, <2>3, <2>4, <2>5
  <2> QED BY <2>1, <2>6
<1> QED BY <1>2, <1>3

LEMMA QuotasInitial ==
  ASSUME QuotasInit
  PROVE  QuotaInv
<1>1. QuotasTypeOK /\ LockInv /\ \A w \in Writers : WriterInv(w)
  BY DEF QuotasInit, QuotasTypeOK, LockInv, WriterInv, Free
<1>2. ASSUME NEW kind \in Kinds
      PROVE  Cardinality(Units(OfKind(counted, kind))) <= DefaultLimit[kind]
  <2>1. Units(OfKind(counted, kind)) = {}
    BY DEF QuotasInit, Units, OfKind
  <2>2. Cardinality({}) = 0
    BY FS_EmptySet
  <2>3. DefaultLimit[kind] \in Nat
    BY QuotasAssumption
  <2> QED BY <2>1, <2>2, <2>3
<1> QED BY <1>1, <1>2 DEF QuotaInv, NeverOverQuota

\* The steps that take the lock, or find no row to lock.
LEMMA LockStep ==
  ASSUME QuotaInv, NEW w \in Writers,
         SelectForUpdate(w) \/ SelectNothing(w) \/ InsertDefaults(w)
  PROVE  QuotaInv'
<1>1. counted' = counted
  BY DEF SelectForUpdate, SelectNothing, InsertDefaults
<1>2. NeverOverQuota' /\ \A item : Fits(item)' = Fits(item)
  BY <1>1, CountedStays DEF QuotaInv
<1>3. QuotasTypeOK' /\ LockInv'
  BY QuotasAssumption
    DEF QuotaInv, QuotasTypeOK, LockInv, WriterInv, SelectForUpdate, SelectNothing,
        InsertDefaults, Reach
<1>4. ASSUME NEW v \in Writers PROVE WriterInv(v)'
  <2>1. CASE SelectForUpdate(w)
    BY <1>2, <2>1, QuotasAssumption
      DEF QuotaInv, QuotasTypeOK, LockInv, WriterInv, SelectForUpdate, Reach
  <2>2. CASE SelectNothing(w)
    BY <1>2, <2>2 DEF QuotaInv, QuotasTypeOK, WriterInv, SelectNothing, Reach
  <2>3. CASE InsertDefaults(w)
    BY <1>2, <2>3, QuotasAssumption
      DEF QuotaInv, QuotasTypeOK, LockInv, WriterInv, InsertDefaults, Reach
  <2> QED BY <2>1, <2>2, <2>3
<1> QED BY <1>2, <1>3, <1>4 DEF QuotaInv

\* A statement begins, finds room, or gives up.
LEMMA StatementStep ==
  ASSUME QuotaInv, NEW w \in Writers, BeginWrite(w) \/ Count(w) \/ Abort(w)
  PROVE  QuotaInv'
<1>1. counted' = counted
  BY DEF BeginWrite, Count, Abort
<1>2. NeverOverQuota' /\ \A item : Fits(item)' = Fits(item)
  BY <1>1, CountedStays DEF QuotaInv
<1>3. QuotasTypeOK' /\ LockInv'
  BY DEF QuotaInv, QuotasTypeOK, LockInv, BeginWrite, Count, Abort, EndTransaction,
         Reach, Free
<1>4. ASSUME NEW v \in Writers PROVE WriterInv(v)'
  <2>1. CASE BeginWrite(w)
    BY <1>2, <2>1 DEF QuotaInv, QuotasTypeOK, WriterInv, BeginWrite
  <2>2. CASE Count(w)
    BY <1>2, <2>2 DEF QuotaInv, QuotasTypeOK, WriterInv, Count, Reach
  <2>3. CASE Abort(w)
    BY <1>2, <2>3 DEF QuotaInv, QuotasTypeOK, WriterInv, Abort, EndTransaction, Free
  <2> QED BY <2>1, <2>2, <2>3
<1> QED BY <1>2, <1>3, <1>4 DEF QuotaInv

\* A transaction commits: nobody else has counted, for nobody else had the lock.
LEMMA CommitStep ==
  ASSUME QuotaInv, NEW w \in Writers, Commit(w)
  PROVE  QuotaInv'
<1>1. writer[w].item \in Items /\ Fits(writer[w].item) /\ holder = w
  BY DEF QuotaInv, WriterInv, Commit
<1>2. counted' = counted \cup {writer[w].item}
  BY DEF Commit
<1>3. NeverOverQuota'
  BY <1>1, <1>2, FittingWithinLimits DEF QuotaInv
<1>4. QuotasTypeOK' /\ LockInv'
  BY <1>1, <1>2, QuotasAssumption
    DEF QuotaInv, QuotasTypeOK, LockInv, Commit, EndTransaction, Free
<1>5. ASSUME NEW v \in Writers PROVE WriterInv(v)'
  BY <1>1 DEF QuotaInv, QuotasTypeOK, WriterInv, Commit, EndTransaction, Free
<1> QED BY <1>3, <1>4, <1>5 DEF QuotaInv

LEMMA ReleaseStep ==
  ASSUME QuotaInv, Release
  PROVE  QuotaInv'
<1>1. counted' \in SUBSET counted
  BY DEF Release
<1>2. NeverOverQuota'
  BY <1>1, FewerWithinLimits DEF QuotaInv
<1>3. QuotasTypeOK' /\ LockInv'
  BY DEF QuotaInv, QuotasTypeOK, LockInv, Release
<1>4. ASSUME NEW v \in Writers PROVE WriterInv(v)'
  <2>1. ASSUME writer[v].at = "commit" PROVE Fits(writer[v].item)'
    BY <1>1, <2>1, FewerFit DEF QuotaInv, WriterInv, Release
  <2> QED BY <2>1 DEF QuotaInv, WriterInv, Release
<1> QED BY <1>2, <1>3, <1>4 DEF QuotaInv

LEMMA QuotaInvariance == QuotasSpec => []QuotaInv
<1>1. ASSUME QuotaInv, [QuotasNext]_quotaVars PROVE QuotaInv'
  <2>1. CASE Release
    BY <1>1, <2>1, ReleaseStep
  <2>2. ASSUME NEW w \in Writers, BeginWrite(w) \/ QuotaStep(w) \/ Abort(w)
        PROVE  QuotaInv'
    BY <1>1, <2>2, LockStep, StatementStep, CommitStep DEF QuotaStep
  <2>3. CASE UNCHANGED quotaVars
    BY <1>1, <2>3 DEF quotaVars, QuotaInv, QuotasTypeOK, LockInv, WriterInv, Fits, used,
                      Units, OfKind, NeverOverQuota
  <2> QED BY <1>1, <2>1, <2>2, <2>3 DEF QuotasNext
<1> QED BY <1>1, QuotasInitial, PTL DEF QuotasSpec

\* What an organization has of a kind never exceeds its limit, for any set of items, sizes
\* and limits and any number of concurrent transactions: the lock of the row of limits, or
\* the insertion of that row, keeps count and commit of one transaction together
\* (quotas.ts:7-15).
THEOREM QuotasHold == QuotasSpec => []NeverOverQuota
<1>1. QuotaInv => NeverOverQuota
  BY DEF QuotaInv
<1> QED BY <1>1, QuotaInvariance, PTL

-----------------------------------------------------------------------------
(* The composed instance *)

\* Only a selected project is saved.
SettingsTyped == SettingsTypeOK /\ \A put \in puts : put.save.project \in Projects

LEMMA SettingsTyping == SettingsSpec => []SettingsTyped
<1>1. SettingsInit => SettingsTyped
  <2> SUFFICES ASSUME SettingsInit PROVE SettingsTyped
    OBVIOUS
  <2>1. NoSave \in SavesNumbered /\ saves \in 0 .. MaxSaves
    BY SettingsAssumption DEF SettingsInit, NoSave, SavesNumbered
  <2>2. stored \in [Projects -> [Parts -> Values]]
    BY DEF SettingsInit, Values
  <2> QED  BY <2>1, <2>2 DEF SettingsInit, SettingsTyped, SettingsTypeOK
<1>2. SettingsTyped /\ [SettingsNext]_settingsVars => SettingsTyped'
  <2> SUFFICES ASSUME SettingsTyped, [SettingsNext]_settingsVars PROVE SettingsTyped'
    OBVIOUS
  <2> USE DEF SettingsTyped, SettingsTypeOK
  <2>1. CASE UNCHANGED settingsVars
    BY <2>1 DEF settingsVars
  <2>2. CASE LoadProjects \/ UserSelects
    BY <2>2 DEF LoadProjects, UserSelects, Select
  <2>3. ASSUME NEW p \in Projects, LoadAnswers(p) PROVE SettingsTyped'
    BY <2>3 DEF LoadAnswers
  <2>4. ASSUME NEW p \in Projects, LoadFails(p) PROVE SettingsTyped'
    <3>1. unloaded' \in BOOLEAN /\ notice' \in {"none", "saving", "saved", "error"}
      BY <2>4 DEF LoadFails
    <3> QED  BY <2>4, <3>1 DEF LoadFails
  <2>5. CASE Save
    <3>1. saves' \in 0 .. MaxSaves /\ last' \in SavesNumbered
      BY <2>5, SettingsAssumption DEF Save, SavesNumbered
    <3>2. puts' \subseteq [save : SavesNumbered, part : Parts]
      BY <2>5, <3>1 DEF Save
    <3>3. \A put \in puts' : put.save.project \in Projects
      BY <2>5 DEF Save
    <3> QED  BY <2>5, <3>1, <3>2, <3>3 DEF Save
  <2>6. ASSUME NEW put \in puts, PutSucceeds(put) \/ PutFails(put) PROVE SettingsTyped'
    <3>1. put.save.project \in Projects /\ put.part \in Parts /\ put.save.value \in Values
      BY <2>6 DEF SavesNumbered, Values
    <3>2. stored' \in [Projects -> [Parts -> Values]]
      BY <2>6, <3>1 DEF PutSucceeds, PutFails
    <3>3. notice' \in {"none", "saving", "saved", "error"}
      BY <2>6 DEF PutSucceeds, PutFails
    <3>4. torn' \subseteq Projects
      BY <2>6, <3>1 DEF PutSucceeds, PutFails
    <3>5. puts' \subseteq puts
      BY <2>6 DEF PutSucceeds, PutFails
    <3> QED  BY <2>6, <3>2, <3>3, <3>4, <3>5 DEF PutSucceeds, PutFails
  <2> QED  BY <2>1, <2>2, <2>3, <2>4, <2>5, <2>6 DEF SettingsNext
<1> QED  BY <1>1, <1>2, PTL DEF SettingsSpec

\* Whichever route a behaviour of the instance is of, every part keeps to its own
\* specification, of which the theorems above speak: what they say of it holds of the
\* instance that TLC checks, and of every other value of its constants.
THEOREM EveryRouteIsItsOwn ==
  ApiSpec => /\ AccountsSpec /\ SettingsSpec /\ QuotasSpec
             /\ GatesSpec /\ WebhookSpec /\ DataSpec
<1>1. ApiInit => /\ AccountsInit /\ SettingsInit /\ QuotasInit
                 /\ GatesInit /\ WebhookInit /\ DataInit
  BY DEF ApiInit
<1>2. [ApiNext]_apiVars => /\ [AccountsNext]_accountVars /\ [SettingsNext]_settingsVars
                           /\ [QuotasNext]_quotaVars /\ [GatesNext]_gateVars
                           /\ [WebhookNext]_hookVars /\ [DataNext]_dataVars
  BY DEF ApiNext, apiVars
<1> QED
  BY <1>1, <1>2, PTL
  DEF ApiSpec, AccountsSpec, SettingsSpec, QuotasSpec, GatesSpec, WebhookSpec, DataSpec

\* Every table and every request of the parts written through the API's routes keeps its
\* type, and what is recorded in one of a part's tables in the others it goes with.
THEOREM RoutesStayTyped == ApiSpec => []ApiTypeOK
<1>1. /\ AccountsInv => AccountsTypeOK
      /\ SettingsTyped => SettingsTypeOK
      /\ QuotaInv => QuotasTypeOK
      /\ GatesInv => GatesTypeOK
      /\ HookInv => WebhookTypeOK
      /\ DataInv => DataTypeOK
  BY DEF AccountsInv, SettingsTyped, QuotaInv, GatesInv, HookInv, DataInv
<1>2. (/\ AccountsTypeOK /\ SettingsTypeOK /\ QuotasTypeOK
       /\ GatesTypeOK /\ WebhookTypeOK /\ DataTypeOK) => ApiTypeOK
  BY DEF ApiTypeOK
<1> QED
  BY <1>1, <1>2, EveryRouteIsItsOwn, AccountsInvariance, SettingsTyping, QuotaInvariance,
     GatesInvariance, HookInvariance, DataInvariance, PTL
=============================================================================
