--------------------------- MODULE LifecycleProofs ---------------------------
(***************************************************************************)
(* Theorems about Lifecycle for any number of deployments, attempts,       *)
(* stalls, lost callbacks and crashes.                                     *)
(***************************************************************************)
EXTENDS Lifecycle, TLAPS

\* Every deployment has its two keys, and every key belongs to a deployment.
LEMMA KeyFacts ==
    /\ \A k \in Keys : Of(k) \in Deployments
    /\ \A d \in Deployments : DeployKey(d) \in Keys /\ RecoveryKey(d) \in Keys
BY DEF Keys, Of, DeployKey, RecoveryKey

(***************************************************************************)
(* Types                                                                   *)
(***************************************************************************)

\* A handler runs only for an active job, and a job that may still be run has
\* attempts left.  TypeOK is not inductive without it: it bounds attemptsMade.
JobsConsistent ==
    \A k \in Keys :
        /\ Running(k) => job[k] = "active"
        /\ job[k] \in {"none", "waiting", "active", "delayed"} =>
              made[k] < Attempts

\* What the two callbacks may do to the rows.
LEMMA StatusTyped ==
    ASSUME TypeOK, NEW k \in Keys, NEW s \in RowStatus, ReportStatus(k, s)
    PROVE  /\ row' \in [Deployments -> RowStatus]
           /\ phase' = phase /\ spec' = spec
           /\ lost' \in 0 .. MaxLost
BY ParametersAssumption, KeyFacts
   DEF TypeOK, ReportStatus, LoseCallback, SetRow, dbVars

\* The same for the phase, with or without a deploymentSpec.
LEMMA PhaseTyped ==
    ASSUME TypeOK, NEW k \in Keys, NEW p \in PhaseName, NEW w \in BOOLEAN,
           ReportPhase(k, p, w)
    PROVE  /\ phase' \in [Deployments -> PhaseName]
           /\ spec' \in [Deployments -> BOOLEAN]
           /\ row' = row
           /\ lost' \in 0 .. MaxLost
<1>1. Of(k) \in Deployments
  BY KeyFacts
<1>2. CASE LoseCallback
  BY <1>2, ParametersAssumption DEF LoseCallback, TypeOK, dbVars
<1>3. CASE /\ phase' = [phase EXCEPT ![Of(k)] = p]
           /\ spec' = [spec EXCEPT ![Of(k)] = @ \/ w]
           /\ UNCHANGED <<row, lost>>
  <2>1. phase' \in [Deployments -> PhaseName]
    BY <1>1, <1>3 DEF TypeOK
  <2>2. (spec[Of(k)] \/ w) \in BOOLEAN
    OBVIOUS
  <2>3. spec' \in [Deployments -> BOOLEAN]
    BY <1>1, <1>3, <2>2, Zenon DEF TypeOK
  <2> QED
    BY <1>3, <2>1, <2>3 DEF TypeOK
<1> QED
  BY <1>2, <1>3 DEF ReportPhase

\* The first state has the types.
LEMMA TypeInit == Init => TypeOK
<1> SUFFICES ASSUME Init PROVE TypeOK
  OBVIOUS
<1> USE ParametersAssumption DEF Init
<1>1. /\ row \in [Deployments -> RowStatus]
      /\ phase \in [Deployments -> PhaseName]
      /\ spec \in [Deployments -> BOOLEAN]
      /\ api \in [Deployments -> ApiStep]
      /\ scan \in [Deployments -> ScanStep]
      /\ cont \in [Deployments -> {"none", "partial", "serving"}]
  BY DEF RowStatus, PhaseName, ApiStep, ScanStep
<1>2. /\ job \in [Keys -> JobState]
      /\ made \in [Keys -> 0 .. Attempts]
      /\ stalls \in [Keys -> 0 .. MaxStalls]
      /\ pc \in [Keys -> HandlerStep]
  BY DEF JobState, HandlerStep
<1>3. worker = "up" /\ fresh = FALSE /\ listed = {} /\ mistaken = {}
  OBVIOUS
<1>4. lost \in 0 .. MaxLost /\ crashes \in 0 .. MaxCrashes
  OBVIOUS
<1> QED
  BY <1>1, <1>2, <1>3, <1>4 DEF TypeOK

\* A job taken back, or given up, is counted within the bound.
LEMMA StalledTyped ==
    ASSUME TypeOK, NEW k \in Keys, Stalled(k)
    PROVE  job' \in [Keys -> JobState] /\ stalls' \in [Keys -> 0 .. MaxStalls]
<1> USE ParametersAssumption DEF TypeOK, JobState
<1>1. CASE stalls[k] < MaxStalls
  <2>1. stalls[k] + 1 \in 0 .. MaxStalls
    BY <1>1
  <2> QED BY <1>1, <2>1 DEF Stalled
<1>2. CASE ~(stalls[k] < MaxStalls)
  BY <1>2 DEF Stalled
<1> QED BY <1>1, <1>2

\* Every step keeps the types, one step of the proof per action.
LEMMA TypeStep == TypeOK /\ JobsConsistent /\ [Next]_vars => TypeOK'
<1> SUFFICES ASSUME TypeOK, JobsConsistent, [Next]_vars PROVE TypeOK'
  OBVIOUS
<1> USE ParametersAssumption, KeyFacts
    DEF TypeOK, RowStatus, PhaseName, DeploymentState, ApiStep, JobState,
        HandlerStep, ScanStep, dbVars, queueVars, dockerVars, faultVars
<1>1. ASSUME NEW d \in Deployments,
             InsertDeployment(d) \/ ApiAction(d) \/ CheckRollback(d)
      PROVE  TypeOK'
  <2> USE DEF SetRow, ApiGoto
  <2>1. CASE InsertDeployment(d) BY <2>1 DEF InsertDeployment
  <2>2. CASE CheckRollback(d) BY <2>2 DEF CheckRollback
  <2>3. CASE InsertState(d) BY <2>3 DEF InsertState
  <2>4. CASE MarkBuilding(d) BY <2>4 DEF MarkBuilding
  <2>5. CASE Build(d) BY <2>5 DEF Build
  <2>6. CASE MarkStarting(d) BY <2>6 DEF MarkStarting
  <2>7. CASE SendToEngine(d)
    <3>1. job' \in [Keys -> JobState]
      BY <2>7 DEF SendToEngine, Enqueue
    <3>2. api' \in [Deployments -> ApiStep]
      <4>1. PICK step \in {"confirm", "failing"} : api' = [api EXCEPT ![d] = step]
        BY <2>7 DEF SendToEngine
      <4> QED BY <4>1
    <3>3. UNCHANGED <<row, phase, spec, made, stalls, worker, pc, scan, cont, listed,
                      mistaken, fresh, lost, crashes>>
      BY <2>7 DEF SendToEngine
    <3> QED BY <3>1, <3>2, <3>3
  <2>8. CASE ConfirmStarting(d) BY <2>8 DEF ConfirmStarting
  <2>9. CASE PipelineFails(d) BY <2>9 DEF PipelineFails
  <2>10. CASE MarkRollingBack(d) BY <2>10 DEF MarkRollingBack
  <2>11. CASE RollbackRefused(d) BY <2>11 DEF RollbackRefused
  <2>12. CASE WriteRefused(d) BY <2>12 DEF WriteRefused
  <2> QED
    BY <1>1, <2>1, <2>2, <2>3, <2>4, <2>5, <2>6, <2>7, <2>8, <2>9, <2>10, <2>11,
       <2>12
    DEF ApiAction
<1>2. ASSUME NEW d \in Deployments, ReadList(d) \/ EnqueueRecovery(d)
      PROVE  TypeOK'
  <2>1. CASE ReadList(d) BY <2>1 DEF ReadList, NextList
  <2>2. CASE EnqueueRecovery(d) BY <2>2 DEF EnqueueRecovery, Enqueue
  <2> QED BY <1>2, <2>1, <2>2
<1>3. ASSUME NEW k \in Keys, Take(k) \/ BackoffEnds(k) \/ Stalled(k)
      PROVE  TypeOK'
  <2>1. CASE Take(k) BY <2>1 DEF Take
  <2>2. CASE BackoffEnds(k) BY <2>2 DEF BackoffEnds
  <2>3. CASE Stalled(k)
    <3>1. job' \in [Keys -> JobState] /\ stalls' \in [Keys -> 0 .. MaxStalls]
      BY <2>3, StalledTyped
    <3>3. UNCHANGED <<row, phase, spec, api, made, worker, pc, scan, cont, listed,
                      mistaken, fresh, lost, crashes>>
      BY <2>3 DEF Stalled
    <3> QED BY <3>1, <3>3
  <2> QED BY <1>3, <2>1, <2>2, <2>3
<1>4. ASSUME NEW k \in Keys, HandlerAction(k) PROVE TypeOK'
  <2> USE DEF Step, DockerStep, SetCont
  <2>1. CASE ReportStarting(k)
    BY <2>1, StatusTyped DEF ReportStarting
  <2>2. CASE ReportReady(k)
    BY <2>2, StatusTyped DEF ReportReady
  <2>3. CASE ReportFailedStatus(k)
    BY <2>3, StatusTyped DEF ReportFailedStatus
  <2>4. CASE ReportDeploying(k)
    BY <2>4, PhaseTyped DEF ReportDeploying
  <2>5. CASE ReportHealthCheck(k)
    BY <2>5, PhaseTyped DEF ReportHealthCheck
  <2>6. CASE ReportTrafficShift(k)
    BY <2>6, PhaseTyped DEF ReportTrafficShift
  <2>7. CASE ReportLive(k)
    BY <2>7, PhaseTyped DEF ReportLive
  <2>8. CASE ReportDiagnosing(k)
    BY <2>8, PhaseTyped DEF ReportDiagnosing
  <2>9. CASE ReportFailedPhase(k)
    BY <2>9, PhaseTyped DEF ReportFailedPhase
  <2>10. CASE CreateCandidate(k)
    BY <2>10 DEF CreateCandidate
  <2>11. CASE CreateFails(k)
    BY <2>11 DEF CreateFails
  <2>12. CASE NameConflict(k)
    BY <2>12 DEF NameConflict
  <2>13. CASE Promote(k)
    BY <2>13 DEF Promote
  <2>14. CASE CandidateUnhealthy(k)
    BY <2>14 DEF CandidateUnhealthy
  <2>15. CASE Complete(k)
    BY <2>15 DEF Complete
  <2>16. CASE Rethrow(k)
    <3>1. job' \in [Keys -> JobState]
      BY <2>16 DEF Rethrow
    <3>2. made[k] + 1 \in 0 .. Attempts
      BY <2>16 DEF Rethrow, JobsConsistent, Running
    <3>3. made' \in [Keys -> 0 .. Attempts]
      BY <2>16, <3>2 DEF Rethrow
    <3> QED BY <2>16, <3>1, <3>3 DEF Rethrow
  <2>17. CASE ListOld(k)
    BY <2>17 DEF ListOld
  <2>18. CASE Retire(k)
    BY <2>18 DEF Retire
  <2> QED
    BY <1>4, <2>1, <2>2, <2>3, <2>4, <2>5, <2>6, <2>7, <2>8,
       <2>9, <2>10, <2>11, <2>12, <2>13, <2>14, <2>15, <2>16, <2>17, <2>18
    DEF HandlerAction
<1>5. CASE ClaimRecoverable \/ RegisterNode \/ NodeExpires
  <2>1. CASE ClaimRecoverable BY <2>1 DEF ClaimRecoverable
  <2>2. CASE RegisterNode BY <2>2 DEF RegisterNode
  <2>3. CASE NodeExpires BY <2>3 DEF NodeExpires
  <2> QED BY <1>5, <2>1, <2>2, <2>3
<1>6. CASE ApiCrash BY <1>6 DEF ApiCrash
<1>7. CASE WorkerCrash BY <1>7 DEF WorkerCrash
<1>8. CASE WorkerRestart BY <1>8 DEF WorkerRestart
<1>9. CASE UNCHANGED vars BY <1>9 DEF vars
<1> QED
  BY <1>1, <1>2, <1>3, <1>4, <1>5, <1>6, <1>7, <1>8, <1>9 DEF Next, JobAction, ScanAction

\* No handler runs in the first state, and every job has its attempts left.
LEMMA JobsInit == Init => JobsConsistent
BY ParametersAssumption DEF Init, JobsConsistent, Running

\* Only Take starts a handler and only Rethrow uses up an attempt.
LEMMA JobsStep == TypeOK /\ JobsConsistent /\ [Next]_vars => JobsConsistent'
<1> SUFFICES ASSUME TypeOK, JobsConsistent, [Next]_vars PROVE JobsConsistent'
  OBVIOUS
<1> USE ParametersAssumption, KeyFacts
    DEF JobsConsistent, Running, queueVars, faultVars, DockerStep
<1> DEFINE Untouched == UNCHANGED <<job, made, pc>>
<1>0. ASSUME Untouched PROVE JobsConsistent'
  BY <1>0
<1>1. ASSUME NEW d \in Deployments,
             \/ InsertDeployment(d) \/ CheckRollback(d) \/ ReadList(d)
             \/ InsertState(d) \/ MarkBuilding(d) \/ Build(d) \/ MarkStarting(d)
             \/ ConfirmStarting(d) \/ WriteRefused(d) \/ PipelineFails(d)
             \/ MarkRollingBack(d)
             \/ RollbackRefused(d)
      PROVE  Untouched
  BY <1>1 DEF InsertDeployment, CheckRollback, ReadList, InsertState,
              MarkBuilding, Build, MarkStarting, ConfirmStarting,
              WriteRefused, PipelineFails, MarkRollingBack, RollbackRefused
<1>2. ASSUME NEW d \in Deployments, SendToEngine(d) \/ EnqueueRecovery(d)
      PROVE  JobsConsistent'
  BY <1>2 DEF SendToEngine, EnqueueRecovery, Enqueue, TypeOK
<1>3. ASSUME NEW k \in Keys, Take(k) PROVE JobsConsistent'
  BY <1>3 DEF Take, TypeOK
<1>4. ASSUME NEW k \in Keys, BackoffEnds(k) PROVE JobsConsistent'
  BY <1>4 DEF BackoffEnds, TypeOK
<1>5. ASSUME NEW k \in Keys, Stalled(k) PROVE JobsConsistent'
  BY <1>5 DEF Stalled, TypeOK
<1>6. ASSUME NEW k \in Keys, HandlerAction(k) PROVE JobsConsistent'
  <2>1. CASE Complete(k) BY <2>1 DEF Complete, TypeOK
  <2>2. CASE Rethrow(k) BY <2>2 DEF Rethrow, TypeOK
  <2>3. CASE ~Complete(k) /\ ~Rethrow(k)
    <3>1. UNCHANGED <<job, made>>
      BY <1>6, <2>3
      DEF HandlerAction, ReportStarting, ReportDeploying, ReportHealthCheck,
          ListOld, CreateCandidate, CreateFails, NameConflict, Promote,
          CandidateUnhealthy, Retire, ReportTrafficShift, ReportLive, ReportReady,
          ReportDiagnosing, ReportFailedPhase, ReportFailedStatus
    <3>2. \E from \in HandlerStep \ {"idle"}, to \in HandlerStep :
             Step(k, from, to)
      BY <1>6, <2>3
      DEF HandlerAction, ReportStarting, ReportDeploying, ReportHealthCheck,
          ListOld, CreateCandidate, CreateFails, NameConflict, Promote,
          CandidateUnhealthy, Retire, ReportTrafficShift, ReportLive, ReportReady,
          ReportDiagnosing, ReportFailedPhase, ReportFailedStatus, HandlerStep
    <3> QED BY <3>1, <3>2 DEF Step, TypeOK
  <2> QED BY <2>1, <2>2, <2>3
<1>7. CASE ClaimRecoverable \/ RegisterNode \/ NodeExpires
  BY <1>7 DEF ClaimRecoverable, RegisterNode, NodeExpires
<1>8. CASE ApiCrash BY <1>8 DEF ApiCrash
<1>9. CASE WorkerCrash BY <1>9 DEF WorkerCrash
<1>10. CASE WorkerRestart BY <1>10 DEF WorkerRestart
<1>11. CASE UNCHANGED vars BY <1>11 DEF vars
<1> QED
  BY <1>0, <1>1, <1>2, <1>3, <1>4, <1>5, <1>6, <1>7, <1>8, <1>9, <1>10, <1>11
  DEF Next, ApiAction, JobAction, ScanAction

\* Every variable keeps its type; in particular no job is ever attempted more
\* than Attempts times and none is taken back more than MaxStalls times.
THEOREM TypeCorrect == Spec => []TypeOK
<1>1. Init => TypeOK /\ JobsConsistent
  BY TypeInit, JobsInit
<1>2. TypeOK /\ JobsConsistent /\ [Next]_vars => (TypeOK /\ JobsConsistent)'
  BY TypeStep, JobsStep
<1> QED BY <1>1, <1>2, PTL DEF Spec

(***************************************************************************)
(* What the rows say is true                                               *)
(***************************************************************************)

\* A handler between creating its containers and retiring the old ones owns them,
\* so no other handler of the deployment is there with it, and it retires its own
\* only if it is recorded as mistaken.  One that is past that has containers that
\* serve, whatever runs beside it, unless a handler was mistaken.
Ownership ==
    /\ OnePromoter
    /\ \A k \in Keys :
          /\ pc[k] = "promote" => cont[Of(k)] = "partial"
          /\ pc[k] = "retire" => cont[Of(k)] = "serving"
          /\ pc[k] \in {"promote", "retire"} /\ k \in listed => Of(k) \in mistaken
          /\ pc[k] \in {"shift", "live", "ready"} =>
                cont[Of(k)] = "serving" \/ Of(k) \in mistaken

\* What the rows claim, with the exception alone.
ClaimsHold == \A d \in Deployments : Claims(d) => cont[d] = "serving" \/ d \in mistaken

Inv == TypeOK /\ JobsConsistent /\ Ownership /\ ClaimsHold

\* A handler that becomes nobody's owner and stays where it was with respect to the
\* switch, and leaves the containers alone, disturbs no owner.
LEMMA PassiveStep ==
    ASSUME TypeOK, Ownership, NEW k \in Keys, NEW to,
           pc' = [pc EXCEPT ![k] = to], cont' = cont, mistaken' = mistaken,
           \A l \in Keys \ {k} : l \in listed' => l \in listed,
           to \notin {"promote", "retire"},
           to \in {"shift", "live", "ready"} => pc[k] \in {"shift", "live", "ready"}
    PROVE  Ownership'
<1>1. \A l \in Keys : pc'[l] = IF l = k THEN to ELSE pc[l]
  BY DEF TypeOK
<1>2. OnePromoter'
  BY <1>1 DEF Ownership, OnePromoter
<1>3. ASSUME NEW l \in Keys
      PROVE  /\ pc'[l] = "promote" => cont'[Of(l)] = "partial"
             /\ pc'[l] = "retire" => cont'[Of(l)] = "serving"
             /\ pc'[l] \in {"promote", "retire"} /\ l \in listed' => Of(l) \in mistaken'
             /\ pc'[l] \in {"shift", "live", "ready"} =>
                   cont'[Of(l)] = "serving" \/ Of(l) \in mistaken'
  BY <1>1, <1>3 DEF Ownership
<1> QED
  BY <1>2, <1>3 DEF Ownership

\* A handler that changes the containers is their only owner before the step, or
\* there is no owner; the others only have their claims to lose.
LEMMA OwnersStep ==
    ASSUME TypeOK, Ownership, NEW k \in Keys,
           \/ CreateCandidate(k) \/ Promote(k) \/ CandidateUnhealthy(k) \/ Retire(k)
    PROVE  Ownership'
<1> USE KeyFacts DEF TypeOK, Step, SetCont, Ownership, OnePromoter
<1> DEFINE Owner(l) == pc[l] \in {"promote", "retire"}
<1>1. \A l \in Keys \ {k} : pc'[l] = pc[l] /\ (l \in listed' <=> l \in listed)
  BY DEF CreateCandidate, Promote, CandidateUnhealthy, Retire
<1>2. \A l \in Keys : Of(l) # Of(k) => cont'[Of(l)] = cont[Of(l)]
  BY DEF CreateCandidate, Promote, CandidateUnhealthy, Retire
<1>3. \A l \in Keys \ {k} : Of(l) = Of(k) => ~Owner(l)
  BY DEF CreateCandidate, Promote, CandidateUnhealthy, Retire
<1>4. mistaken \subseteq mistaken'
  BY DEF CreateCandidate, Promote, CandidateUnhealthy, Retire
<1>5. OnePromoter'
  BY <1>1, <1>3
<1>6. ASSUME NEW l \in Keys \ {k}, pc'[l] \in {"shift", "live", "ready"}
      PROVE  cont'[Of(l)] = "serving" \/ Of(l) \in mistaken'
  <2>1. cont[Of(l)] = "serving" \/ Of(l) \in mistaken
    BY <1>1, <1>6
  <2>2. CASE Of(l) = Of(k) /\ cont[Of(l)] = "serving"
    <3>1. CASE CreateCandidate(k) BY <2>2, <3>1 DEF CreateCandidate
    <3>2. CASE Promote(k) BY <2>2, <3>2 DEF Promote
    <3>3. CASE CandidateUnhealthy(k) BY <2>2, <3>3 DEF CandidateUnhealthy
    <3>4. CASE Retire(k) BY <2>2, <3>4, <1>4 DEF Retire
    <3> QED BY <3>1, <3>2, <3>3, <3>4
  <2> QED BY <2>1, <2>2, <1>2, <1>4
<1>7. ASSUME NEW l \in Keys \ {k}
      PROVE  /\ pc'[l] = "promote" => cont'[Of(l)] = "partial"
             /\ pc'[l] = "retire" => cont'[Of(l)] = "serving"
             /\ pc'[l] \in {"promote", "retire"} /\ l \in listed' => Of(l) \in mistaken'
  BY <1>1, <1>2, <1>3, <1>4
<1>8. /\ pc'[k] = "promote" => cont'[Of(k)] = "partial"
      /\ pc'[k] = "retire" => cont'[Of(k)] = "serving"
      /\ pc'[k] \in {"promote", "retire"} /\ k \in listed' => Of(k) \in mistaken'
      /\ pc'[k] \in {"shift", "live", "ready"} =>
            cont'[Of(k)] = "serving" \/ Of(k) \in mistaken'
  <2>1. CASE CreateCandidate(k) BY <2>1 DEF CreateCandidate
  <2>2. CASE Promote(k) BY <2>2 DEF Promote
  <2>3. CASE CandidateUnhealthy(k) BY <2>3 DEF CandidateUnhealthy
  <2>4. CASE Retire(k) BY <2>4 DEF Retire
  <2> QED BY <2>1, <2>2, <2>3, <2>4
<1> QED
  BY <1>5, <1>6, <1>7, <1>8

\* Only CreateCandidate makes a handler the owner of the containers, and it finds
\* none, so there is no other owner.
LEMMA OwnershipStep == Inv /\ [Next]_vars => Ownership'
<1> SUFFICES ASSUME Inv, [Next]_vars PROVE Ownership'
  OBVIOUS
<1> USE KeyFacts DEF Inv, dockerVars
<1>0. ASSUME UNCHANGED <<pc, cont, listed, mistaken>> PROVE Ownership'
  BY <1>0 DEF Ownership, OnePromoter
<1>1. ASSUME NEW d \in Deployments,
             \/ InsertDeployment(d) \/ ApiAction(d) \/ CheckRollback(d)
             \/ ReadList(d) \/ EnqueueRecovery(d)
      PROVE  UNCHANGED <<pc, cont, listed, mistaken>>
  BY <1>1
  DEF InsertDeployment, CheckRollback, ReadList, EnqueueRecovery, ApiAction,
      InsertState, MarkBuilding, Build, MarkStarting, SendToEngine,
      ConfirmStarting, WriteRefused, PipelineFails, MarkRollingBack,
      RollbackRefused
<1>2. ASSUME NEW k \in Keys, Take(k) PROVE Ownership'
  BY <1>2, PassiveStep DEF Take
<1>3. ASSUME NEW k \in Keys, BackoffEnds(k) \/ Stalled(k)
      PROVE  UNCHANGED <<pc, cont, listed, mistaken>>
  BY <1>3 DEF BackoffEnds, Stalled
<1>4. ASSUME NEW k \in Keys, HandlerAction(k) PROVE Ownership'
  <2> USE DEF Step
  <2>1. CASE CreateCandidate(k) \/ Promote(k) \/ CandidateUnhealthy(k) \/ Retire(k)
    BY <2>1, OwnersStep
  <2>2. CASE ListOld(k) \/ CreateFails(k) \/ NameConflict(k)
    <3>1. /\ \E to \in {"create", "diagnose"} : pc' = [pc EXCEPT ![k] = to]
          /\ UNCHANGED <<cont, mistaken>>
          /\ \A l \in Keys \ {k} : l \in listed' => l \in listed
      BY <2>2 DEF ListOld, CreateFails, NameConflict
    <3> QED BY <3>1, PassiveStep
  <2>3. CASE Complete(k) \/ Rethrow(k)
    <3>1. pc' = [pc EXCEPT ![k] = "idle"] /\ UNCHANGED <<cont, listed, mistaken>>
      BY <2>3 DEF Complete, Rethrow
    <3> QED BY <3>1, PassiveStep
  <2>4. CASE ReportStarting(k) \/ ReportDeploying(k) \/ ReportHealthCheck(k)
    <3>1. /\ \E to \in {"deploying", "health", "list"} :
                pc' = [pc EXCEPT ![k] = to]
          /\ UNCHANGED <<cont, listed, mistaken>>
      BY <2>4 DEF ReportStarting, ReportDeploying, ReportHealthCheck
    <3> QED BY <3>1, PassiveStep
  <2>5. CASE ReportTrafficShift(k) \/ ReportLive(k) \/ ReportReady(k)
    <3>1. /\ pc[k] \in {"shift", "live", "ready"}
          /\ \E to \in {"live", "ready", "return"} : pc' = [pc EXCEPT ![k] = to]
          /\ UNCHANGED <<cont, listed, mistaken>>
      BY <2>5 DEF ReportTrafficShift, ReportLive, ReportReady
    <3> QED BY <3>1, PassiveStep
  <2>6. CASE ReportDiagnosing(k) \/ ReportFailedPhase(k) \/ ReportFailedStatus(k)
    <3>1. PICK to \in {"failphase", "failstatus", "throw"} : pc' = [pc EXCEPT ![k] = to]
      BY <2>6 DEF ReportDiagnosing, ReportFailedPhase, ReportFailedStatus
    <3>2. UNCHANGED <<cont, listed, mistaken>>
      BY <2>6 DEF ReportDiagnosing, ReportFailedPhase, ReportFailedStatus
    <3> QED BY <3>1, <3>2, PassiveStep
  <2> QED
    BY <1>4, <2>1, <2>2, <2>3, <2>4, <2>5, <2>6 DEF HandlerAction
<1>5. CASE ClaimRecoverable \/ RegisterNode \/ NodeExpires \/ ApiCrash \/ WorkerRestart
  BY <1>0, <1>5 DEF ClaimRecoverable, RegisterNode, NodeExpires, ApiCrash, WorkerRestart
<1>6. CASE WorkerCrash BY <1>6 DEF WorkerCrash, Ownership, OnePromoter
<1>7. CASE UNCHANGED vars BY <1>0, <1>7 DEF vars
<1> QED
  BY <1>0, <1>1, <1>2, <1>3, <1>4, <1>5, <1>6, <1>7 DEF Next, JobAction, ScanAction

\* Only a mistaken handler takes away containers that serve: an owner that finds its
\* candidate unhealthy has not switched to it, and one that retires the old ones has
\* its own names listed only by mistake.
LEMMA ServingStep ==
    ASSUME Inv, [Next]_vars, NEW d \in Deployments \ mistaken, cont[d] = "serving"
    PROVE  cont'[d] = "serving"
<1> USE KeyFacts DEF Inv, Ownership, TypeOK, dockerVars
<1>1. ASSUME NEW k \in Keys, HandlerAction(k) PROVE cont'[d] = "serving"
  <2> USE DEF Step, SetCont
  <2>1. CASE CreateCandidate(k) BY <2>1 DEF CreateCandidate
  <2>2. CASE Promote(k) BY <2>2 DEF Promote
  <2>3. CASE CandidateUnhealthy(k) BY <2>3 DEF CandidateUnhealthy
  <2>4. CASE Retire(k) BY <2>4 DEF Retire
  <2>5. CASE cont' = cont BY <2>5
  <2> QED
    BY <1>1, <2>1, <2>2, <2>3, <2>4, <2>5
    DEF HandlerAction, ReportStarting, ReportDeploying, ReportHealthCheck, ListOld,
        CreateFails, NameConflict, ReportTrafficShift, ReportLive, ReportReady,
        ReportDiagnosing, ReportFailedPhase, ReportFailedStatus, Complete,
        Rethrow
<1>2. CASE cont' = cont BY <1>2
<1> QED
  BY <1>1, <1>2
  DEF Next, vars, JobAction, ScanAction, InsertDeployment, ApiAction,
      CheckRollback, ReadList,
      EnqueueRecovery, InsertState, MarkBuilding, Build, MarkStarting,
      SendToEngine, ConfirmStarting, WriteRefused, PipelineFails,
      MarkRollingBack,
      RollbackRefused, Take, BackoffEnds, Stalled, ClaimRecoverable, RegisterNode,
      NodeExpires, ApiCrash, WorkerCrash, WorkerRestart

\* What a handler has once been mistaken about stays on record.
LEMMA MistakesStay == ASSUME [Next]_vars PROVE mistaken \subseteq mistaken'
BY DEF Next, vars, JobAction, HandlerAction, ScanAction, ApiAction, InsertDeployment,
       CheckRollback, ReadList, EnqueueRecovery, InsertState, MarkBuilding, Build,
       MarkStarting, SendToEngine, ConfirmStarting, WriteRefused, PipelineFails,
       MarkRollingBack, RollbackRefused, Take, BackoffEnds, Stalled, ClaimRecoverable,
       RegisterNode, NodeExpires, ApiCrash, WorkerCrash, WorkerRestart, ReportStarting,
       ReportDeploying, ReportHealthCheck, ListOld, CreateCandidate, CreateFails,
       NameConflict, Promote, CandidateUnhealthy, Retire, ReportTrafficShift, ReportLive,
       ReportReady, ReportDiagnosing, ReportFailedPhase, ReportFailedStatus, Complete,
       Rethrow, dockerVars

\* The two callbacks that claim success come from a handler that is past the
\* switch; every other write of a row claims less.
LEMMA ReadyStep == Inv /\ [Next]_vars => ClaimsHold'
<1> SUFFICES ASSUME Inv, [Next]_vars, NEW d \in Deployments, Claims(d)',
                    d \notin mistaken'
             PROVE  cont'[d] = "serving"
  BY DEF ClaimsHold
<1> USE KeyFacts DEF Inv, TypeOK, ClaimsHold, Claims
<1>0. d \notin mistaken
  BY MistakesStay
<1>1. cont[d] = "serving" => cont'[d] = "serving"
  BY <1>0, ServingStep
<1> DEFINE Quiet == /\ row'[d] = "ready" => row[d] = "ready"
                    /\ phase'[d] \in {"TRAFFIC_SHIFT", "LIVE"} => phase'[d] = phase[d]
<1>2. ASSUME Quiet PROVE cont'[d] = "serving"
  BY <1>0, <1>1, <1>2
<1>3. ASSUME NEW e \in Deployments, InsertDeployment(e) \/ ApiAction(e)
      PROVE  Quiet
  BY <1>3
  DEF ApiAction, InsertDeployment, InsertState, MarkBuilding, Build,
      MarkStarting, SendToEngine, ConfirmStarting, WriteRefused, PipelineFails,
      MarkRollingBack, RollbackRefused, SetRow, dbVars
<1>4. ASSUME NEW k \in Keys, HandlerAction(k) PROVE cont'[d] = "serving"
  <2>1. CASE ReportTrafficShift(k) \/ ReportLive(k) \/ ReportReady(k)
    <3>1. cont[Of(k)] = "serving" \/ Of(k) \in mistaken
      BY <2>1
      DEF ReportTrafficShift, ReportLive, ReportReady, Step, Ownership
    <3>2. Of(k) # d => row'[d] = row[d] /\ phase'[d] = phase[d]
      BY <2>1
      DEF ReportTrafficShift, ReportLive, ReportReady, ReportPhase,
          ReportStatus, LoseCallback, SetRow, dbVars
    <3> QED BY <3>1, <3>2, <1>0, <1>1
  <2>2. CASE ReportStarting(k) \/ ReportFailedStatus(k)
    <3>1. Quiet
      BY <2>2
      DEF ReportStarting, ReportFailedStatus, ReportStatus, LoseCallback,
          SetRow, dbVars
    <3> QED BY <3>1, <1>2
  <2>3. CASE \/ ReportDeploying(k) \/ ReportHealthCheck(k)
             \/ ReportDiagnosing(k) \/ ReportFailedPhase(k)
    <3>1. Quiet
      BY <2>3
      DEF ReportDeploying, ReportHealthCheck, ReportDiagnosing,
          ReportFailedPhase, ReportPhase, LoseCallback, dbVars
    <3> QED BY <3>1, <1>2
  <2>4. CASE UNCHANGED <<row, phase>>
    BY <2>4, <1>2
  <2> QED
    BY <1>4, <2>1, <2>2, <2>3, <2>4
    DEF HandlerAction, ListOld, CreateCandidate, CreateFails, NameConflict, Promote,
        CandidateUnhealthy, Retire, DockerStep, Complete, Rethrow, dbVars
<1>5. CASE UNCHANGED <<row, phase>>
  BY <1>5, <1>2
<1> QED
  BY <1>2, <1>3, <1>4, <1>5
  DEF Next, vars, JobAction, ScanAction, dbVars, CheckRollback, ReadList,
      EnqueueRecovery, Take,
      BackoffEnds, Stalled, ClaimRecoverable, RegisterNode, NodeExpires, ApiCrash,
      WorkerCrash, WorkerRestart

\* The invariant holds in every reachable state.
LEMMA Invariance == Spec => []Inv
<1>1. Init => Inv
  BY TypeInit, JobsInit
  DEF Inv, Init, Ownership, OnePromoter, ClaimsHold, Claims, KeyFacts
<1>2. Inv /\ [Next]_vars => Inv'
  BY TypeStep, JobsStep, OwnershipStep, ReadyStep DEF Inv
<1> QED BY <1>1, <1>2, PTL DEF Spec

\* The container names keep two handlers of a deployment apart.
THEOREM PromotersExclude == Spec => []OnePromoter
<1>1. Inv => OnePromoter
  BY DEF Inv, Ownership
<1> QED BY <1>1, Invariance, PTL

\* No retry, redelivery or recovered job takes serving containers down, unless a
\* handler was mistaken about its own.
THEOREM ServingIsKept == Spec => ServingStays
<1>1. Inv /\ [Next]_vars =>
        [\A d \in Deployments \ mistaken :
            cont[d] = "serving" => cont'[d] = "serving"]_vars
  BY ServingStep
<1> QED BY <1>1, Invariance, PTL DEF Spec, ServingStays

(***************************************************************************)
(* What is left to do is not forgotten, and the phase tells the outcome    *)
(***************************************************************************)

\* A deployment has no other keys than its two, and they differ.
LEMMA KeysOf ==
    /\ \A k \in Keys : k = DeployKey(Of(k)) \/ k = RecoveryKey(Of(k))
    /\ \A d \in Deployments :
          /\ Of(DeployKey(d)) = d /\ Of(RecoveryKey(d)) = d
          /\ \A e \in Deployments : DeployKey(d) # RecoveryKey(e)
BY DEF Keys, Of, DeployKey, RecoveryKey

\* Until the pipeline has sent a deployment, nobody else knows of it.
Unsent(d) ==
    /\ job[DeployKey(d)] = "none" /\ job[RecoveryKey(d)] = "none"
    /\ ~spec[d] /\ scan[d] = "no" /\ cont[d] = "none"

PreSend == {"new", "state", "building", "build", "starting", "send"}

UnsentAlone == \A d \in Deployments : api[d] \in PreSend => Unsent(d)

\* A job is taken back at most once per crash, so that it fails without a handler
\* only after more crashes than BullMQ allows stalls.
StallsPaid ==
    \A k \in Keys :
        /\ stalls[k] <= crashes
        /\ job[k] = "active" /\ ~Running(k) => stalls[k] < crashes

\* The handler has reported the outcome of the job.
Reported(k) ==
    \/ pc[k] \in {"ready", "return", "failstatus"}
    \/ pc[k] = "throw" /\ FinalAttempt(k)

\* The job will have its outcome reported.
Owes(k) == LiveJob(k) /\ ~Reported(k)

\* Whoever reports a phase that is not final owes another one.
Kept(d) ==
    spec[d] /\ phase[d] \notin terminalDeploymentStates =>
        \/ Owes(DeployKey(d)) \/ Owes(RecoveryKey(d))
        \/ job[RecoveryKey(d)] = "none"

DebtsKept == lost = 0 /\ crashes <= MaxStalls => \A d \in Deployments : Kept(d)

\* A deployment with one job has one handler: what that has listed is still there
\* when it creates, so it is never mistaken about it.
ListKept ==
    \A d \in Deployments :
        job[RecoveryKey(d)] = "none" =>
            /\ d \notin mistaken
            /\ DeployKey(d) \in listed /\ pc[DeployKey(d)] = "create" => cont[d] # "none"

\* What the deployment's only job has done so far is in the phase and the containers.
Told(d) ==
    LET k == DeployKey(d) IN
    /\ cont[d] = "serving" <=>
          pc[k] \in {"retire", "shift", "live", "ready", "return"} \/ job[k] = "completed"
    /\ pc[k] \in {"ready", "return"} \/ job[k] = "completed" => phase[d] = "LIVE"
    /\ \/ pc[k] = "failstatus"
       \/ pc[k] = "throw" /\ FinalAttempt(k)
       \/ job[k] = "failed"
       => phase[d] = "FAILED"

OneJobTold ==
    lost = 0 /\ crashes = 0 =>
        \A d \in Deployments : job[RecoveryKey(d)] = "none" => Told(d)

\* What the rows and the containers of another deployment than the handler's see of
\* its step, and what the queue does unless the job ends.
LEMMA HandlerFrame ==
    ASSUME Inv, NEW k \in Keys, HandlerAction(k)
    PROVE  /\ UNCHANGED <<api, scan, stalls, worker, crashes>>
           /\ Running(k) /\ job[k] = "active"
           /\ \A l \in Keys \ {k} : pc'[l] = pc[l] /\ job'[l] = job[l] /\ made'[l] = made[l]
           /\ lost' = 0 => lost = 0
           /\ \A d \in Deployments \ {Of(k)} :
                 phase'[d] = phase[d] /\ spec'[d] = spec[d] /\ cont'[d] = cont[d]
           /\ \A d \in Deployments \ {Of(k)} : d \in mistaken' => d \in mistaken
           /\ \A l \in Keys \ {k} : l \in listed' => l \in listed
<1> USE KeyFacts, ParametersAssumption
<1> USE DEF HandlerAction, ReportStarting, ReportDeploying, ReportHealthCheck, ListOld,
            CreateCandidate, CreateFails, NameConflict, Promote, CandidateUnhealthy, Retire,
            ReportTrafficShift, ReportLive, ReportReady, ReportDiagnosing,
            ReportFailedPhase, ReportFailedStatus, Complete, Rethrow, DockerStep
<1>1. UNCHANGED <<api, scan, stalls, worker, crashes>>
  BY DEF queueVars, faultVars
<1>2. Running(k) /\ \A l \in Keys \ {k} : pc'[l] = pc[l]
  BY DEF Step, Running, Inv, TypeOK
<1>3. job[k] = "active"
  BY <1>2 DEF Inv, JobsConsistent
<1>4. \A l \in Keys \ {k} : job'[l] = job[l] /\ made'[l] = made[l]
  BY DEF queueVars, Inv, TypeOK
<1>5. lost' = 0 => lost = 0
  BY DEF ReportStatus, ReportPhase, LoseCallback, faultVars, Inv, TypeOK
<1>6. ASSUME NEW d \in Deployments \ {Of(k)}
      PROVE  phase'[d] = phase[d] /\ spec'[d] = spec[d]
  BY DEF ReportStatus, ReportPhase, LoseCallback, dbVars, Inv, TypeOK
<1>7. ASSUME NEW d \in Deployments \ {Of(k)} PROVE cont'[d] = cont[d]
  <2>1. cont' = cont \/ \E state : SetCont(k, state)
    BY DEF dockerVars
  <2> QED  BY <2>1 DEF SetCont, Inv, TypeOK
<1>8. /\ \A d \in Deployments \ {Of(k)} : d \in mistaken' => d \in mistaken
      /\ \A l \in Keys \ {k} : l \in listed' => l \in listed
  BY DEF dockerVars
<1> QED  BY <1>1, <1>2, <1>3, <1>4, <1>5, <1>6, <1>7, <1>8

\* Nobody returns to the part of the pipeline before the send, and nobody else can
\* start work on a deployment without its specification or a job.
LEMMA UnsentStep == Inv /\ UnsentAlone /\ [Next]_vars => UnsentAlone'
<1> SUFFICES ASSUME Inv, UnsentAlone, [Next]_vars,
                    NEW d \in Deployments, api'[d] \in PreSend
             PROVE  Unsent(d)'
  BY DEF UnsentAlone
<1> USE KeyFacts, KeysOf DEF queueVars, faultVars, dbVars, dockerVars, vars
<1>1. api[d] \in PreSend /\ (api[d] = "send" => api'[d] = "send")
  <2>1. CASE UNCHANGED api BY <2>1
  <2>2. ASSUME NEW e \in Deployments, InsertDeployment(e) \/ CheckRollback(e) \/ ApiAction(e)
        PROVE  api[d] \in PreSend /\ (api[d] = "send" => api'[d] = "send")
    BY <2>2
    DEF InsertDeployment, CheckRollback, ApiAction, InsertState, MarkBuilding, Build,
        MarkStarting, SendToEngine, ConfirmStarting, WriteRefused, PipelineFails,
        MarkRollingBack, RollbackRefused, ApiGoto, PreSend, Inv, TypeOK
  <2>3. CASE ApiCrash BY <2>3 DEF ApiCrash, PreSend
  <2>4. ASSUME NEW k \in Keys, JobAction(k) PROVE UNCHANGED api
    BY <2>4, HandlerFrame DEF JobAction, Take, BackoffEnds, Stalled
  <2> QED
    BY <2>1, <2>2, <2>3, <2>4
    DEF Next, ScanAction, ReadList, EnqueueRecovery, ClaimRecoverable, RegisterNode,
        NodeExpires, WorkerCrash, WorkerRestart
<1>2. Unsent(d)
  BY <1>1 DEF UnsentAlone
<1>3. CASE UNCHANGED <<job, spec, scan, cont>>
  BY <1>2, <1>3 DEF Unsent
<1>4. ASSUME NEW e \in Deployments, SendToEngine(e) PROVE Unsent(d)'
  <2>1. e # d
    BY <1>1, <1>4 DEF SendToEngine, ApiGoto, PreSend, Inv, TypeOK
  <2> QED
    BY <1>2, <1>4, <2>1 DEF SendToEngine, Enqueue, Unsent, Inv, TypeOK
<1>5. ASSUME NEW e \in Deployments, ScanAction(e) PROVE Unsent(d)'
  <2>1. e # d
    BY <1>2, <1>5 DEF ScanAction, ReadList, EnqueueRecovery, Unsent
  <2> QED
    BY <1>2, <1>5, <2>1
    DEF ScanAction, ReadList, EnqueueRecovery, Enqueue, Unsent, Inv, TypeOK
<1>6. ASSUME NEW k \in Keys, JobAction(k) PROVE Unsent(d)'
  <2>1. job[k] # "none"
    BY <1>6, HandlerFrame DEF JobAction, Take, BackoffEnds, Stalled
  <2>2. Of(k) # d
    BY <1>2, <2>1 DEF Unsent
  <2>3. CASE HandlerAction(k)
    BY <1>2, <2>2, <2>3, HandlerFrame DEF Unsent
  <2>4. CASE Take(k) \/ BackoffEnds(k) \/ Stalled(k)
    <3>1. UNCHANGED <<spec, scan, cont>>
      BY <2>4 DEF Take, BackoffEnds, Stalled
    <3>2. \A l \in Keys \ {k} : job'[l] = job[l]
      BY <2>4 DEF Take, BackoffEnds, Stalled, Inv, TypeOK
    <3> QED  BY <1>2, <2>2, <3>1, <3>2 DEF Unsent
  <2> QED  BY <1>6, <2>3, <2>4 DEF JobAction
<1>7. CASE ClaimRecoverable
  BY <1>2, <1>7 DEF ClaimRecoverable, Resumable, Unsent
<1>8. CASE WorkerCrash
  BY <1>2, <1>8 DEF WorkerCrash, Unsent
<1> QED
  BY <1>3, <1>4, <1>5, <1>6, <1>7, <1>8
  DEF Next, InsertDeployment, CheckRollback, ApiAction, InsertState, MarkBuilding, Build,
      MarkStarting, ConfirmStarting, WriteRefused, PipelineFails, MarkRollingBack,
      RollbackRefused, RegisterNode, NodeExpires, ApiCrash, WorkerRestart

\* Only a crash leaves an active job without a handler, and taking the job back
\* uses that crash up.
LEMMA StallsStep == Inv /\ StallsPaid /\ [Next]_vars => StallsPaid'
<1> SUFFICES ASSUME Inv, StallsPaid, [Next]_vars, NEW k \in Keys
             PROVE  /\ stalls'[k] <= crashes'
                    /\ job'[k] = "active" /\ ~Running(k)' => stalls'[k] < crashes'
  BY DEF StallsPaid, Running
<1> USE KeyFacts, ParametersAssumption DEF queueVars, faultVars, vars
<1>0. stalls[k] \in Nat /\ crashes \in Nat /\ stalls[k] <= crashes
  BY DEF StallsPaid, Inv, TypeOK
<1>1. CASE UNCHANGED <<job, pc, stalls, crashes>>
  BY <1>0, <1>1 DEF StallsPaid, Running
<1>2. ASSUME NEW e \in Deployments, SendToEngine(e) \/ EnqueueRecovery(e)
      PROVE  /\ stalls'[k] <= crashes'
             /\ job'[k] = "active" /\ ~Running(k)' => stalls'[k] < crashes'
  <2>1. job'[k] = job[k] \/ job'[k] = "waiting"
    BY <1>2 DEF SendToEngine, EnqueueRecovery, Enqueue, Inv, TypeOK
  <2>2. UNCHANGED <<pc, stalls, crashes>>
    BY <1>2 DEF SendToEngine, EnqueueRecovery
  <2> QED  BY <1>0, <2>1, <2>2 DEF StallsPaid, Running
<1>3. ASSUME NEW l \in Keys, JobAction(l)
      PROVE  /\ stalls'[k] <= crashes'
             /\ job'[k] = "active" /\ ~Running(k)' => stalls'[k] < crashes'
  <2>1. crashes' = crashes
    BY <1>3, HandlerFrame DEF JobAction, Take, BackoffEnds, Stalled
  <2>2. CASE l # k
    <3>1. job'[k] = job[k] /\ pc'[k] = pc[k] /\ stalls'[k] = stalls[k]
      BY <1>3, <2>2, HandlerFrame DEF JobAction, Take, BackoffEnds, Stalled, Inv, TypeOK
    <3> QED  BY <1>0, <2>1, <3>1 DEF StallsPaid, Running
  <2>3. CASE l = k /\ Stalled(k)
    BY <1>0, <2>1, <2>3 DEF Stalled, StallsPaid, Running, Inv, TypeOK
  <2>4. CASE l = k /\ ~Stalled(k)
    <3>1. stalls' = stalls
      BY <1>3, <2>4, HandlerFrame DEF JobAction, Take, BackoffEnds
    <3>2. job'[k] = "active" => Running(k)'
      <4>1. CASE Take(k) \/ BackoffEnds(k) \/ Complete(k) \/ Rethrow(k)
        BY <4>1 DEF Take, BackoffEnds, Complete, Rethrow, Running, Inv, TypeOK
      <4>2. CASE HandlerAction(k) /\ ~Complete(k) /\ ~Rethrow(k)
        <5>1. \E from, to \in HandlerStep \ {"idle"} : Step(k, from, to)
          BY <4>2
          DEF HandlerAction, ReportStarting, ReportDeploying, ReportHealthCheck,
              ListOld, CreateCandidate, CreateFails, NameConflict, Promote,
              CandidateUnhealthy, Retire, ReportTrafficShift, ReportLive, ReportReady,
              ReportDiagnosing, ReportFailedPhase, ReportFailedStatus, HandlerStep
        <5> QED  BY <5>1 DEF Step, Running, Inv, TypeOK
      <4> QED  BY <1>3, <2>4, <4>1, <4>2 DEF JobAction, HandlerAction
    <3> QED  BY <1>0, <2>1, <3>1, <3>2
  <2> QED  BY <2>2, <2>3, <2>4
<1>4. CASE WorkerCrash \/ ApiCrash
  <2>1. crashes' = crashes + 1 /\ stalls' = stalls
    BY <1>4 DEF WorkerCrash, ApiCrash
  <2> QED  BY <1>0, <2>1
<1> QED
  BY <1>1, <1>2, <1>3, <1>4
  DEF Next, InsertDeployment, CheckRollback, ApiAction, InsertState, MarkBuilding, Build,
      MarkStarting, ConfirmStarting, WriteRefused, PipelineFails, MarkRollingBack,
      RollbackRefused, ScanAction, ReadList, ClaimRecoverable, RegisterNode, NodeExpires,
      WorkerRestart, dbVars

\* What a handler has of its job when it reports, one line per kind of step.
LEMMA HandlerOutcome ==
    ASSUME Inv, NEW k \in Keys, HandlerAction(k), lost' = 0
    PROVE  LET d == Of(k) IN
           \/ /\ job'[k] = "active" /\ made'[k] = made[k]
              /\ \/ /\ pc[k] = "live" /\ pc'[k] = "ready" /\ phase'[d] = "LIVE"
                    /\ cont'[d] = cont[d]
                 \/ /\ pc[k] = "ready" /\ pc'[k] = "return" /\ phase'[d] = phase[d]
                    /\ cont'[d] = cont[d] /\ spec'[d] = spec[d]
                 \/ /\ pc[k] = "failphase" /\ pc'[k] = "failstatus"
                    /\ phase'[d] = "FAILED" /\ cont'[d] = cont[d]
                 \/ /\ pc[k] = "failstatus" /\ pc'[k] = "throw"
                    /\ phase'[d] = phase[d] /\ cont'[d] = cont[d] /\ spec'[d] = spec[d]
                 \/ /\ pc[k] = "diagnose" /\ cont'[d] = cont[d]
                    /\ FinalAttempt(k) => pc'[k] = "failphase"
                    /\ ~FinalAttempt(k) => pc'[k] = "throw"
                 \/ /\ pc[k] = "shift" /\ pc'[k] = "live" /\ cont'[d] = cont[d]
                 \/ /\ pc[k] = "retire" /\ pc'[k] = "shift"
                    /\ d \notin mistaken => cont'[d] = cont[d]
                 \/ pc[k] = "promote" /\ pc'[k] = "retire" /\ cont'[d] = "serving"
                 \/ pc[k] = "promote" /\ pc'[k] = "diagnose" /\ cont'[d] # "serving"
                 \/ /\ pc[k] \in {"starting", "deploying", "health", "list", "create"}
                    /\ pc'[k] \in {"deploying", "health", "list", "create", "promote",
                                  "diagnose"}
                    /\ cont'[d] = "serving" => cont[d] = "serving"
           \/ /\ pc[k] = "return" /\ pc'[k] = "idle" /\ job'[k] = "completed"
              /\ phase'[d] = phase[d] /\ cont'[d] = cont[d] /\ spec'[d] = spec[d]
           \/ /\ pc[k] = "throw" /\ pc'[k] = "idle"
              /\ FinalAttempt(k) => job'[k] = "failed"
              /\ ~FinalAttempt(k) => job'[k] = "delayed"
              /\ phase'[d] = phase[d] /\ cont'[d] = cont[d] /\ spec'[d] = spec[d]
<1> USE KeyFacts DEF Inv, TypeOK, Step, SetCont, DockerStep, queueVars, faultVars, dbVars,
                     dockerVars
<1>0. job[k] = "active" /\ lost = 0
  BY HandlerFrame
<1>1. ~LoseCallback
  BY <1>0 DEF LoseCallback
<1>2. CASE ReportLive(k) \/ ReportFailedPhase(k)
  BY <1>0, <1>1, <1>2 DEF ReportLive, ReportFailedPhase, ReportPhase
<1>8. CASE ReportDiagnosing(k)
  <2>1. job'[k] = "active" /\ made'[k] = made[k] /\ cont' = cont /\ pc[k] = "diagnose"
    BY <1>0, <1>8 DEF ReportDiagnosing
  <2>2. /\ FinalAttempt(k) => pc'[k] = "failphase"
        /\ ~FinalAttempt(k) => pc'[k] = "throw"
    BY <1>8 DEF ReportDiagnosing
  <2> QED  BY <2>1, <2>2
<1>3. CASE ReportTrafficShift(k) \/ ReportDeploying(k) \/ ReportHealthCheck(k)
  <2>1. UNCHANGED <<job, made, cont>>
    BY <1>3 DEF ReportTrafficShift, ReportDeploying, ReportHealthCheck
  <2>2. \/ pc[k] = "shift" /\ pc'[k] = "live"
        \/ pc[k] \in {"deploying", "health"} /\ pc'[k] \in {"health", "list"}
    BY <1>3 DEF ReportTrafficShift, ReportDeploying, ReportHealthCheck
  <2> QED  BY <1>0, <2>1, <2>2
<1>4. CASE ReportStarting(k) \/ ReportReady(k) \/ ReportFailedStatus(k)
  BY <1>0, <1>1, <1>4
  DEF ReportStarting, ReportReady, ReportFailedStatus, ReportStatus
<1>5. CASE ListOld(k) \/ CreateCandidate(k) \/ CreateFails(k) \/ NameConflict(k)
  BY <1>0, <1>5 DEF ListOld, CreateCandidate, CreateFails, NameConflict
<1>6. CASE Promote(k) \/ CandidateUnhealthy(k)
  BY <1>0, <1>6 DEF Promote, CandidateUnhealthy
<1>7. CASE Complete(k) \/ Rethrow(k)
  BY <1>7 DEF Complete, Rethrow, FinalAttempt
<1>9. CASE Retire(k)
  <2>1. Of(k) \notin mistaken => cont' = cont
    BY <1>9 DEF Retire, Ownership
  <2> QED  BY <1>0, <1>9, <2>1 DEF Retire
<1> QED
  BY <1>2, <1>3, <1>4, <1>5, <1>6, <1>7, <1>8, <1>9 DEF HandlerAction

\* The steps outside the handlers that leave the queue and the phases alone.
Quiescent == UNCHANGED <<job, made, pc, spec, phase, dockerVars>>

\* Besides the queue's, the handlers' and two of the API's actions, every step is
\* one of those.
LEMMA OtherSteps ==
    ASSUME Inv, UnsentAlone, [Next]_vars
    PROVE  \/ Quiescent
           \/ \E d \in Deployments : InsertState(d)
           \/ \E d \in Deployments : SendToEngine(d) \/ EnqueueRecovery(d)
           \/ \E k \in Keys : JobAction(k)
           \/ WorkerCrash
BY DEF Next, vars, InsertDeployment, CheckRollback, ApiAction, MarkBuilding, Build,
       MarkStarting, ConfirmStarting, WriteRefused, PipelineFails, MarkRollingBack,
       RollbackRefused, ScanAction, ReadList, ClaimRecoverable, RegisterNode, NodeExpires,
       WorkerRestart, ApiCrash, dockerVars, dbVars, queueVars, faultVars, Quiescent

\* The counters of faults never go back.
LEMMA FaultsCount ==
    ASSUME Inv, [Next]_vars
    PROVE  (lost' = 0 => lost = 0) /\ crashes <= crashes' /\ crashes' \in Nat
<1> USE ParametersAssumption DEF Inv, TypeOK, vars, faultVars
<1>1. ASSUME NEW k \in Keys, JobAction(k)
      PROVE  (lost' = 0 => lost = 0) /\ crashes' = crashes
  BY <1>1, HandlerFrame DEF JobAction, Take, BackoffEnds, Stalled
<1>2. CASE WorkerCrash \/ ApiCrash
  BY <1>2 DEF WorkerCrash, ApiCrash
<1> QED
  BY <1>1, <1>2
  DEF Next, InsertDeployment, CheckRollback, ApiAction, InsertState, MarkBuilding, Build,
      MarkStarting, SendToEngine, ConfirmStarting, WriteRefused, PipelineFails,
      MarkRollingBack, RollbackRefused, ScanAction, ReadList, EnqueueRecovery,
      ClaimRecoverable, RegisterNode, NodeExpires, WorkerRestart

\* A handler that reports a phase which is not final stays responsible for the next
\* one; a retry, a redelivery and a crash leave its job to somebody.
LEMMA DebtsStep ==
    Inv /\ UnsentAlone /\ StallsPaid /\ DebtsKept /\ [Next]_vars => DebtsKept'
<1> SUFFICES ASSUME Inv, UnsentAlone, StallsPaid, DebtsKept, [Next]_vars,
                    lost' = 0, crashes' <= MaxStalls,
                    NEW d \in Deployments,
                    spec'[d], phase'[d] \notin terminalDeploymentStates
             PROVE  \/ Owes(DeployKey(d))' \/ Owes(RecoveryKey(d))'
                    \/ job'[RecoveryKey(d)] = "none"
  BY DEF DebtsKept, Kept
<1> USE KeyFacts, KeysOf DEF Reported, FinalAttempt, LiveJob
<1>0. lost = 0 /\ crashes <= MaxStalls
  BY FaultsCount, ParametersAssumption DEF Inv, TypeOK
<1>1. Kept(d)
  BY <1>0 DEF DebtsKept
<1>2. CASE Quiescent
  BY <1>1, <1>2 DEF Quiescent, Kept, Owes
<1>3. ASSUME NEW e \in Deployments, InsertState(e)
      PROVE  \/ Owes(DeployKey(d))' \/ Owes(RecoveryKey(d))'
             \/ job'[RecoveryKey(d)] = "none"
  <2>1. e # d
    BY <1>3 DEF InsertState, UnsentAlone, Unsent, PreSend
  <2> QED
    BY <1>1, <1>3, <2>1 DEF InsertState, queueVars, Kept, Owes, Inv, TypeOK
<1>4. ASSUME NEW e \in Deployments, SendToEngine(e) \/ EnqueueRecovery(e)
      PROVE  \/ Owes(DeployKey(d))' \/ Owes(RecoveryKey(d))'
             \/ job'[RecoveryKey(d)] = "none"
  <2>1. UNCHANGED <<pc, made, phase, spec>>
    BY <1>4 DEF SendToEngine, EnqueueRecovery, dbVars
  <2>2. \A k \in Keys : job'[k] = job[k] \/ (job[k] = "none" /\ job'[k] = "waiting")
    BY <1>4 DEF SendToEngine, EnqueueRecovery, Enqueue, Inv, TypeOK
  <2>3. \A k \in Keys : job[k] = "none" => pc[k] = "idle"
    BY DEF Inv, JobsConsistent, Running
  <2>4. Owes(DeployKey(d)) => Owes(DeployKey(d))'
    BY <2>1, <2>2, <2>3 DEF Owes
  <2>5. Owes(RecoveryKey(d)) => Owes(RecoveryKey(d))'
    BY <2>1, <2>2, <2>3 DEF Owes
  <2>6. job[RecoveryKey(d)] = "none" =>
           job'[RecoveryKey(d)] = "none" \/ Owes(RecoveryKey(d))'
    BY <2>1, <2>2, <2>3 DEF Owes
  <2> QED  BY <1>1, <2>1, <2>4, <2>5, <2>6 DEF Kept
<1>5. ASSUME NEW k \in Keys, JobAction(k)
      PROVE  \/ Owes(DeployKey(d))' \/ Owes(RecoveryKey(d))'
             \/ job'[RecoveryKey(d)] = "none"
  <2>1. \A l \in Keys \ {k} : pc'[l] = pc[l] /\ job'[l] = job[l] /\ made'[l] = made[l]
    BY <1>5, HandlerFrame DEF JobAction, Take, BackoffEnds, Stalled, Inv, TypeOK
  <2>2. \A l \in Keys \ {k} : Owes(l) => Owes(l)'
    BY <2>1 DEF Owes
  <2>3. CASE Of(k) # d
    <3>1. phase'[d] = phase[d] /\ spec'[d] = spec[d]
      BY <1>5, <2>3, HandlerFrame DEF JobAction, Take, BackoffEnds, Stalled, dbVars
    <3> QED  BY <1>1, <2>1, <2>2, <2>3, <3>1 DEF Kept
  <2>4. CASE Of(k) = d /\ Owes(k)'
    BY <2>4
  <2>5. CASE Of(k) = d /\ ~Owes(k)'
    \* Then the job's outcome was already reported, and somebody else owes.
    <3>1. job[k] # "none" /\ phase'[d] = phase[d] /\ spec'[d] = spec[d] /\ ~Owes(k)
      <4>1. CASE Take(k)
        BY <2>5, <4>1 DEF Take, Owes, Inv, TypeOK
      <4>2. CASE BackoffEnds(k)
        BY <2>5, <4>2 DEF BackoffEnds, Owes, Inv, TypeOK, JobsConsistent, Running
      <4>3. CASE Stalled(k)
        <5>1. stalls[k] < MaxStalls
          BY <1>0, <4>3, ParametersAssumption DEF Stalled, StallsPaid, Inv, TypeOK
        <5> QED  BY <2>5, <4>3, <5>1 DEF Stalled, Owes, Running, Inv, TypeOK
      <4>4. CASE HandlerAction(k)
        <5>1. job[k] = "active"
          BY <4>4, HandlerFrame
        <5>2. CASE pc[k] = "diagnose"
          BY <2>5, <4>4, <5>1, <5>2, HandlerOutcome DEF Owes
        <5>3. CASE pc[k] = "throw"
          BY <2>5, <4>4, <5>1, <5>3, HandlerOutcome DEF Owes
        <5>4. CASE pc[k] \in {"ready", "return", "failstatus"}
          BY <2>5, <4>4, <5>1, <5>4, HandlerOutcome DEF Owes
        <5>5. CASE pc[k] \in {"live", "failphase"}
          BY <2>5, <4>4, <5>1, <5>5, HandlerOutcome DEF terminalDeploymentStates
        <5>6. CASE pc[k] \in {"starting", "deploying", "health", "list", "create", "promote",
                              "retire", "shift"}
          BY <2>5, <4>4, <5>1, <5>6, HandlerOutcome DEF Owes
        <5> QED
          <6>1. Running(k)
            BY <4>4, HandlerFrame
          <6>2. pc[k] \in HandlerStep \ {"idle"}
            BY <6>1 DEF Running, Inv, TypeOK
          <6> QED  BY <6>2, <5>2, <5>3, <5>4, <5>5, <5>6 DEF HandlerStep
      <4> QED  BY <1>5, <4>1, <4>2, <4>3, <4>4 DEF JobAction
    <3>2. k = DeployKey(d) \/ k = RecoveryKey(d)
      BY <2>5
    <3> QED  BY <1>1, <2>1, <2>2, <3>1, <3>2 DEF Kept
  <2> QED  BY <2>3, <2>4, <2>5
<1>6. CASE WorkerCrash
  BY <1>1, <1>6 DEF WorkerCrash, Kept, Owes, queueVars, dbVars, Inv, TypeOK
<1> QED
  BY <1>2, <1>3, <1>4, <1>5, <1>6, OtherSteps

\* A job that was given a key keeps it taken.
LEMMA KeyStaysTaken ==
    ASSUME Inv, UnsentAlone, [Next]_vars, NEW k \in Keys, job'[k] = "none"
    PROVE  job[k] = "none"
<1>1. CASE \E d \in Deployments : SendToEngine(d) \/ EnqueueRecovery(d)
  BY <1>1, KeyFacts DEF SendToEngine, EnqueueRecovery, Enqueue, Inv, TypeOK
<1>2. ASSUME NEW l \in Keys, JobAction(l) PROVE job[k] = "none"
  <2>1. l # k
    <3>1. CASE HandlerAction(l)
      <4>1. job'[l] # "none"
        BY <3>1 DEF HandlerAction, ReportStarting, ReportDeploying, ReportHealthCheck,
           CreateCandidate, CreateFails, NameConflict, Promote, CandidateUnhealthy, Retire,
           ListOld, DockerStep, ReportTrafficShift, ReportLive, ReportReady, ReportDiagnosing,
           ReportFailedPhase, ReportFailedStatus, Complete, Rethrow, queueVars, Inv,
           TypeOK, JobsConsistent, Running, Step
      <4> QED  BY <4>1
    <3>2. CASE Take(l) \/ BackoffEnds(l) \/ Stalled(l)
      BY <3>2 DEF Take, BackoffEnds, Stalled, Inv, TypeOK
    <3> QED  BY <1>2, <3>1, <3>2 DEF JobAction
  <2> QED
    BY <1>2, <2>1, HandlerFrame DEF JobAction, Take, BackoffEnds, Stalled, Inv, TypeOK
<1> QED
  BY <1>1, <1>2, OtherSteps DEF Quiescent, InsertState, WorkerCrash, queueVars

\* The only handler of a deployment lists its containers and creates in two steps that
\* nobody comes between.
LEMMA ListStep == Inv /\ UnsentAlone /\ ListKept /\ [Next]_vars => ListKept'
<1> SUFFICES ASSUME Inv, UnsentAlone, ListKept, [Next]_vars,
                    NEW d \in Deployments, job'[RecoveryKey(d)] = "none"
             PROVE  /\ d \notin mistaken'
                    /\ DeployKey(d) \in listed' /\ pc'[DeployKey(d)] = "create" =>
                          cont'[d] # "none"
  BY DEF ListKept
<1> DEFINE k == DeployKey(d)
<1> USE KeyFacts, KeysOf
<1>1. /\ job[RecoveryKey(d)] = "none"
      /\ d \notin mistaken
      /\ k \in listed /\ pc[k] = "create" => cont[d] # "none"
  BY KeyStaysTaken DEF ListKept
<1>2. CASE UNCHANGED <<pc, dockerVars>>
  BY <1>1, <1>2 DEF dockerVars
<1>3. ASSUME NEW l \in Keys, JobAction(l), Of(l) # d
      PROVE  d \notin mistaken' /\ (k \in listed' /\ pc'[k] = "create" => cont'[d] # "none")
  BY <1>1, <1>3, HandlerFrame
  DEF JobAction, Take, BackoffEnds, Stalled, dockerVars, Inv, TypeOK
<1>4. ASSUME NEW l \in Keys, JobAction(l), Of(l) = d
      PROVE  d \notin mistaken' /\ (k \in listed' /\ pc'[k] = "create" => cont'[d] # "none")
  <2>1. l = k
    BY <1>1, <1>4, HandlerFrame DEF JobAction, Take, BackoffEnds, Stalled
  <2>2. CASE Take(k) \/ BackoffEnds(k) \/ Stalled(k)
    BY <1>1, <2>2 DEF Take, BackoffEnds, Stalled, dockerVars, Inv, TypeOK
  <2>3. CASE ListOld(k)
    BY <1>1, <2>3 DEF ListOld
  <2>4. CASE CreateCandidate(k)
    BY <1>1, <2>4 DEF CreateCandidate, Step, Inv, TypeOK
  <2>5. CASE HandlerAction(k) /\ ~ListOld(k) /\ ~CreateCandidate(k)
    <3>1. mistaken' = mistaken
      BY <2>5
      DEF HandlerAction, ReportStarting, ReportDeploying, ReportHealthCheck, CreateFails,
          NameConflict, Promote, CandidateUnhealthy, Retire, ReportTrafficShift, ReportLive,
          ReportReady, ReportDiagnosing, ReportFailedPhase, ReportFailedStatus, Complete,
          Rethrow, dockerVars
    <3>2. \E to \in HandlerStep \ {"create"} : pc' = [pc EXCEPT ![k] = to]
      BY <2>5
      DEF HandlerAction, ReportStarting, ReportDeploying, ReportHealthCheck, CreateFails,
          NameConflict, Promote, CandidateUnhealthy, Retire, ReportTrafficShift, ReportLive,
          ReportReady, ReportDiagnosing, ReportFailedPhase, ReportFailedStatus, Complete,
          Rethrow, Step, HandlerStep
    <3> QED  BY <1>1, <3>1, <3>2 DEF Inv, TypeOK
  <2> QED  BY <1>4, <2>1, <2>2, <2>3, <2>4, <2>5 DEF JobAction
<1>5. CASE WorkerCrash
  BY <1>1, <1>5 DEF WorkerCrash
<1> QED
  BY <1>2, <1>3, <1>4, <1>5, OtherSteps
  DEF Quiescent, InsertState, SendToEngine, EnqueueRecovery

\* With no fault and no second job, the deployment's own job is the only writer of
\* its phase and its containers, and it writes what it has done.
LEMMA ToldStep ==
    Inv /\ UnsentAlone /\ StallsPaid /\ ListKept /\ OneJobTold /\ [Next]_vars => OneJobTold'
<1> SUFFICES ASSUME Inv, UnsentAlone, StallsPaid, ListKept, OneJobTold, [Next]_vars,
                    lost' = 0, crashes' = 0,
                    NEW d \in Deployments, job'[RecoveryKey(d)] = "none"
             PROVE  Told(d)'
  BY DEF OneJobTold
<1> DEFINE k == DeployKey(d)
<1> USE KeyFacts, KeysOf DEF FinalAttempt
<1>0. lost = 0 /\ crashes = 0
  BY FaultsCount DEF Inv, TypeOK
<1>1. Told(d) /\ job[RecoveryKey(d)] = "none"
  BY <1>0, KeyStaysTaken DEF OneJobTold
<1>2. CASE Quiescent
  BY <1>1, <1>2 DEF Quiescent, Told, dockerVars
<1>3. job[k] = "none" => pc[k] = "idle"
  BY DEF Inv, JobsConsistent, Running
<1>4. ASSUME NEW e \in Deployments, InsertState(e) PROVE Told(d)'
  <2>1. UNCHANGED <<job, made, pc, cont>>
    BY <1>4 DEF InsertState, queueVars, dockerVars
  <2>2. e = d => job[k] = "none"
    BY <1>4 DEF InsertState, UnsentAlone, Unsent, PreSend
  <2>3. e # d => phase'[d] = phase[d]
    BY <1>4 DEF InsertState, Inv, TypeOK
  <2> QED  BY <1>1, <1>3, <2>1, <2>2, <2>3 DEF Told
<1>5. ASSUME NEW e \in Deployments, SendToEngine(e) \/ EnqueueRecovery(e)
      PROVE  Told(d)'
  <2>1. UNCHANGED <<pc, made, phase, cont>>
    BY <1>5 DEF SendToEngine, EnqueueRecovery, dbVars, dockerVars
  <2>2. job'[k] = job[k] \/ (job[k] = "none" /\ job'[k] = "waiting")
    BY <1>5 DEF SendToEngine, EnqueueRecovery, Enqueue, Inv, TypeOK
  <2> QED  BY <1>1, <1>3, <2>1, <2>2 DEF Told
<1>6. ASSUME NEW l \in Keys, JobAction(l) PROVE Told(d)'
  <2>1. CASE Of(l) # d
    <3>1. UNCHANGED <<job[k], made[k], pc[k], phase[d], cont[d]>>
      BY <1>6, <2>1, HandlerFrame
      DEF JobAction, Take, BackoffEnds, Stalled, dbVars, dockerVars, Inv, TypeOK
    <3> QED  BY <1>1, <3>1 DEF Told
  <2>2. CASE Of(l) = d
    <3>1. l = k
      BY <1>1, <1>6, <2>2, HandlerFrame DEF JobAction, Take, BackoffEnds, Stalled
    <3>2. CASE Take(k) \/ BackoffEnds(k)
      BY <1>1, <3>2
      DEF Take, BackoffEnds, Told, dbVars, dockerVars, Inv, TypeOK, JobsConsistent, Running
    <3>3. CASE Stalled(k)
      BY <1>0, <3>3 DEF Stalled, StallsPaid, Inv, TypeOK
    <3>4. CASE HandlerAction(k)
      <4>1. job[k] = "active"
        BY <3>4, HandlerFrame
      <4>2. CASE pc[k] \in {"ready", "return", "live", "shift", "retire", "promote"}
        BY <1>1, <3>4, <4>1, <4>2, HandlerOutcome DEF Told, ListKept
      <4>3. CASE pc[k] \in {"failphase", "failstatus"}
        BY <1>1, <3>4, <4>1, <4>3, HandlerOutcome DEF Told
      <4>4. CASE pc[k] \in {"diagnose", "throw"}
        BY <1>1, <3>4, <4>1, <4>4, HandlerOutcome DEF Told
      <4>5. CASE pc[k] \in {"starting", "deploying", "health", "list", "create"}
        BY <1>1, <3>4, <4>1, <4>5, HandlerOutcome DEF Told
      <4> QED
        BY <3>4, <4>2, <4>3, <4>4, <4>5, HandlerFrame DEF Running, Inv, TypeOK, HandlerStep
    <3> QED  BY <1>6, <3>1, <3>2, <3>3, <3>4 DEF JobAction
  <2> QED  BY <2>1, <2>2
<1>7. CASE WorkerCrash
  BY <1>0, <1>7 DEF WorkerCrash
<1> QED
  BY <1>2, <1>4, <1>5, <1>6, <1>7, OtherSteps

\* All of it together holds in every reachable state.
OutcomeInv == Inv /\ UnsentAlone /\ StallsPaid /\ DebtsKept /\ ListKept /\ OneJobTold

LEMMA OutcomeInvariance == Spec => []OutcomeInv
<1>1. Init => OutcomeInv
  <2>1. Init => Inv
    BY TypeInit, JobsInit
    DEF Inv, Init, Ownership, OnePromoter, ClaimsHold, Claims, KeyFacts
  <2>2. Init => UnsentAlone /\ StallsPaid /\ DebtsKept /\ ListKept /\ OneJobTold
    BY KeyFacts
    DEF Init, UnsentAlone, Unsent, StallsPaid, DebtsKept, Kept, ListKept, OneJobTold, Told
  <2> QED  BY <2>1, <2>2 DEF OutcomeInv
<1>2. OutcomeInv /\ [Next]_vars => OutcomeInv'
  BY TypeStep, JobsStep, OwnershipStep, ReadyStep, UnsentStep, StallsStep, DebtsStep,
     ListStep, ToldStep
  DEF OutcomeInv, Inv
<1> QED  BY <1>1, <1>2, PTL DEF Spec

\* A deployment is only ever called ready, or in TRAFFIC_SHIFT or LIVE, while its
\* containers serve, unless a recovered job ran beside the first and one of the two
\* handlers took its own containers for the old ones.
THEOREM ReadyMeansServing == Spec => []ReadyIsServing
<1>1. OutcomeInv => ReadyIsServing
  BY DEF OutcomeInv, Inv, ClaimsHold, ListKept, ReadyIsServing
<1> QED BY <1>1, OutcomeInvariance, PTL

\* A deployment the worker has begun is not forgotten, whatever its handlers, its
\* retries and the recovery scan do, as long as no callback is lost and the worker
\* crashes no more often than BullMQ forgives one job.  With more crashes the job
\* itself is failed with nobody told, and after a recovery that is the end.
THEOREM NothingForgotten == Spec => []NotForgotten
<1>1. OutcomeInv => NotForgotten
  BY KeyFacts, KeysOf DEF OutcomeInv, DebtsKept, Kept, Owes, NotForgotten
<1> QED  BY <1>1, OutcomeInvariance, PTL

\* With no fault and no second job, a completed job has left the phase LIVE and
\* containers that serve, and a failed one FAILED and none that do.
THEOREM OutcomeIsTold == Spec => []PhaseTellsOutcome
<1>1. OutcomeInv => PhaseTellsOutcome
  <2> SUFFICES ASSUME OutcomeInv, lost = 0, crashes = 0,
                      NEW d \in Deployments, job[RecoveryKey(d)] = "none"
               PROVE  /\ job[DeployKey(d)] = "completed" =>
                            phase[d] = "LIVE" /\ cont[d] = "serving"
                      /\ job[DeployKey(d)] = "failed" =>
                            phase[d] = "FAILED" /\ cont[d] # "serving"
    BY DEF PhaseTellsOutcome
  <2>1. Told(d)
    BY DEF OutcomeInv, OneJobTold
  <2>2. job[DeployKey(d)] # "active" => pc[DeployKey(d)] = "idle"
    BY KeyFacts DEF OutcomeInv, Inv, JobsConsistent, Running
  <2> QED  BY <2>1, <2>2 DEF Told
<1> QED  BY <1>1, OutcomeInvariance, PTL
=============================================================================
