--------------------------- MODULE ReplicasProofs ---------------------------
(***************************************************************************)
(* Theorems about Replicas and Autoscaler, for any number of generations,  *)
(* replicas, ticks, faults and crashes.  All but the types need that calls *)
(* for one runtime do not overlap.                                         *)
(***************************************************************************)
EXTENDS Autoscaler, FiniteSetTheorems, TLAPS

(***************************************************************************)
(* The inductive invariant.                                                *)
(***************************************************************************)

\* One deployment of the runtime at a time.
OneCallAtATime == MaxActive = 1

\* Calls do not overlap.
OneCall == \A g, h \in Generations : InProgress(g) /\ InProgress(h) => g = h

Creating == {"create", "start"}
Switching == {"switch", "weigh"}
Shifting == {"soak", "lastSoak", "reweigh", "undo"}

\* What the call has started is its own, and none of it is old.
OwnContainers(g) ==
    /\ started[g] \subseteq Candidates(g)
    /\ started[g] \cap (old[g] \cup oldRunning[g]) = {}
    /\ ~InProgress(g) => old[g] = {} /\ oldRunning[g] = {} /\ started[g] = {}

\* What is old exists, so that a new container is none of it.
OldIsThere(g) ==
    /\ pc[g] \in Creating =>
          \A c \in old[g] \cup oldRunning[g] : cont[c] # "none"
    /\ pc[g] = "start" =>
          \A i \in 1 .. Count : IsNext(g, i) => <<g, i>> \notin old[g] \cup oldRunning[g]

\* All replicas are started before they are tested, and get traffic and replace
\* the old ones only when they have passed.
CandidatesReady(g) ==
    /\ pc[g] \in {"test", "retire"} \cup Switching \cup Shifting =>
          started[g] = Candidates(g)
    /\ pc[g] \in {"retire"} \cup Switching \cup Shifting =>
          Candidates(g) \subseteq Up \cap tested
    /\ pc[g] \in Switching \cup Shifting => public
    /\ pc[g] \in {"retire"} \cup Shifting /\ public => Candidates(g) \subseteq route

\* Until the old containers are retired one of them can serve, and does unless
\* the traffic is being shifted.
OldServes(g) ==
    /\ pc[g] \in {"test", "cleanup"} \cup Creating \cup Switching \cup Shifting
    /\ promised /\ ~stuck
    => \E c \in oldRunning[g] :
          /\ c \in Up \cap tested
          /\ public /\ pc[g] \notin Shifting => c \in route

\* What the invariant says of one call.
CallInv(g) ==
    /\ OwnContainers(g)
    /\ OldIsThere(g)
    /\ CandidatesReady(g)
    /\ OldServes(g)

IInv ==
    /\ TypeOK
    /\ OneCall
    /\ \A g \in Generations : CallInv(g)
    /\ PromiseKept

(***************************************************************************)
(* Facts about the constants and the candidates.                           *)
(***************************************************************************)

\* A deployment has a replica, and its replicas are containers.
LEMMA CandidateFacts ==
  ASSUME NEW g \in Generations
  PROVE  /\ Candidates(g) \subseteq Container
         /\ Candidates(g) # {}
         /\ \A i \in 1 .. Count : <<g, i>> \in Candidates(g)
         /\ \A c \in Candidates(g) : \E i \in 1 .. Count : c = <<g, i>>
<1>1. 1 .. Count \subseteq 1 .. MaxIndex /\ 1 \in 1 .. Count
  BY ReplicasAssumption
<1>2. Candidates(g) \subseteq Container
  BY <1>1 DEF Candidates, Container
<1>3. \A i \in 1 .. Count : <<g, i>> \in Candidates(g)
  BY DEF Candidates
<1>4. \A c \in Candidates(g) : \E i \in 1 .. Count : c = <<g, i>>
  BY DEF Candidates
<1> QED BY <1>1, <1>2, <1>3, <1>4

\* The index a call starts next is unique.
LEMMA NextIsUnique ==
  ASSUME NEW g \in Generations, NEW i \in 1 .. Count, NEW j \in 1 .. Count,
         IsNext(g, i), IsNext(g, j)
  PROVE  i = j
<1>1. (<<g, i>> \in started[g] <=> i < i) /\ (<<g, i>> \in started[g] <=> i < j)
  BY DEF IsNext
<1>2. (<<g, j>> \in started[g] <=> j < j) /\ (<<g, j>> \in started[g] <=> j < i)
  BY DEF IsNext
<1>3. i \in Int /\ j \in Int
  BY ReplicasAssumption
<1> QED BY <1>1, <1>2, <1>3

(***************************************************************************)
(* Type correctness.                                                       *)
(***************************************************************************)

\* The first state has the right types.
LEMMA TypeInit == Init => TypeOK
<1> SUFFICES ASSUME Init PROVE TypeOK
  OBVIOUS
<1>1. faults \in 0 .. MaxFaults /\ crashes \in 0 .. MaxCrashes
  BY ReplicasAssumption DEF Init
<1>2. pc \in [Generations -> Step] /\ cont \in [Container -> ContainerState]
  BY DEF Init, Step, ContainerState
<1>3. /\ old \in [Generations -> SUBSET Container]
      /\ oldRunning \in [Generations -> SUBSET Container]
      /\ started \in [Generations -> SUBSET Container]
  BY DEF Init
<1> QED BY <1>1, <1>2, <1>3 DEF Init, TypeOK

\* Every step of a call keeps the types.
LEMMA TypeCall ==
  ASSUME TypeOK, NEW g \in Generations, CallAction(g)
  PROVE  TypeOK'
<1> USE DEF TypeOK, Step, ContainerState, Goto, locals, counters, fixed
<1>0. ASSUME NEW c \in Container, Remove(c)
      PROVE  cont' \in [Container -> ContainerState] /\ faults' \in 0 .. MaxFaults
  BY <1>0, ReplicasAssumption DEF Remove
<1>1. CASE Begin(g) BY <1>1 DEF Begin, Existing, Up, Available
<1>2. CASE Create(g) BY <1>2, CandidateFacts DEF Create
<1>3. CASE Start(g)
  <2>1. PICK i \in 1 .. Count :
          /\ pc' = [pc EXCEPT ![g] = IF i = Count THEN "test" ELSE "create"]
          /\ cont' = [cont EXCEPT ![<<g, i>>] = "running"]
          /\ started' = [started EXCEPT ![g] = @ \cup {<<g, i>>}]
    BY <1>3 DEF Start
  <2>2. <<g, i>> \in Container
    BY CandidateFacts
  <2>3. pc' \in [Generations -> Step]
    BY <2>1
  <2>4. cont' \in [Container -> ContainerState]
    BY <2>1
  <2>5. started' \in [Generations -> SUBSET Container]
    BY <2>1, <2>2
  <2> QED BY <1>3, <2>3, <2>4, <2>5 DEF Start
<1>4. CASE CreateOrStartFails(g) BY <1>4 DEF CreateOrStartFails
<1>5. CASE TestPasses(g)
  <2>1. AfterTest(g) \in Step
    BY DEF AfterTest
  <2> QED BY <1>5, <2>1 DEF TestPasses
<1>6. CASE TestFails(g) BY <1>6 DEF TestFails
<1>7. CASE SwitchTraffic(g) BY <1>7, CandidateFacts DEF SwitchTraffic
<1>8. CASE SwitchFails(g) BY <1>8 DEF SwitchFails
<1>9. CASE SwitchWeightedTraffic(g)
  BY <1>9, CandidateFacts DEF SwitchWeightedTraffic
<1>10. CASE SoakPasses(g) BY <1>10 DEF SoakPasses
<1>11. CASE SoakFails(g) BY <1>11 DEF SoakFails
<1>12. CASE Undo(g) BY <1>12 DEF Undo
<1>13. CASE UndoFails(g) BY <1>13 DEF UndoFails
<1>14. CASE RetireNext(g) BY <1>14, <1>0 DEF RetireNext
<1>15. CASE CleanupNext(g) BY <1>15, <1>0 DEF CleanupNext
<1>16. CASE Finish(g) BY <1>16 DEF Finish, Forget
<1> QED
  BY <1>1, <1>2, <1>3, <1>4, <1>5, <1>6, <1>7, <1>8, <1>9, <1>10, <1>11,
     <1>12, <1>13, <1>14, <1>15, <1>16
  DEF CallAction

\* Every step keeps the types.
LEMMA TypeStep == TypeOK /\ [Next]_vars => TypeOK'
<1> SUFFICES ASSUME TypeOK, [Next]_vars PROVE TypeOK'
  OBVIOUS
<1>1. CASE Crash
  BY <1>1, ReplicasAssumption DEF Crash, TypeOK, Step, fixed
<1>2. ASSUME NEW g \in Generations, CallAction(g) PROVE TypeOK'
  BY <1>2, TypeCall
<1>3. CASE UNCHANGED vars
  BY <1>3 DEF vars, locals, fixed, counters, TypeOK
<1> QED BY <1>1, <1>2, <1>3 DEF Next

\* Every variable keeps its type; in particular no server gets traffic whose
\* index is out of range (replicas.ts:22).
THEOREM TypeCorrect == Spec => []TypeOK
  BY TypeInit, TypeStep, PTL DEF Spec

(***************************************************************************)
(* The promise.                                                            *)
(***************************************************************************)

\* Nothing has been promised in the first state.
LEMMA InitInv == Init => IInv
<1> SUFFICES ASSUME Init PROVE IInv
  OBVIOUS
<1>1. \A g \in Generations : pc[g] = "new" /\ started[g] = {} /\ old[g] = {}
                             /\ oldRunning[g] = {}
  BY DEF Init
<1>2. OneCall
  BY <1>1 DEF OneCall, InProgress
<1>3. \A g \in Generations : OwnContainers(g) /\ OldIsThere(g)
                             /\ CandidatesReady(g) /\ OldServes(g)
  BY <1>1
  DEF OwnContainers, OldIsThere, CandidatesReady, OldServes, Creating,
      Switching, Shifting
<1>4. PromiseKept
  BY DEF Init, PromiseKept
<1> QED BY <1>2, <1>3, <1>4, TypeInit DEF IInv, CallInv

\* A call that is not in progress holds nothing, and nothing is said of it.
LEMMA IdleCall ==
  ASSUME NEW g \in Generations, ~InProgress(g)', old'[g] = {},
         oldRunning'[g] = {}, started'[g] = {}
  PROVE  CallInv(g)'
<1>1. pc'[g] \in {"new", "done", "failed"}
  BY DEF InProgress
<1> QED
  BY <1>1
  DEF CallInv, OwnContainers, OldIsThere, CandidatesReady, OldServes, Creating,
      Switching, Shifting

\* While a call is in progress the runtime is served by its old containers, or
\* by its candidates once they have been tested.
LEMMA ServedByCall ==
  ASSUME TypeOK', NEW g \in Generations, InProgress(g)', CallInv(g)'
  PROVE  PromiseKept'
<1> SUFFICES ASSUME promised', ~stuck' PROVE Available'
  BY DEF PromiseKept
<1>1. CASE pc'[g] \in {"retire"} \cup Shifting
  <2>1. Candidates(g) \subseteq Up' \cap tested'
    BY <1>1 DEF CallInv, CandidatesReady
  <2>2. public' => Candidates(g) \subseteq route'
    BY <1>1 DEF CallInv, CandidatesReady
  <2> QED BY <2>1, <2>2, CandidateFacts DEF Available
<1>2. CASE pc'[g] \in {"test", "cleanup"} \cup Creating \cup Switching
  <2>1. pc'[g] \notin Shifting
    BY <1>2 DEF Creating, Switching, Shifting
  <2>2. \E c \in oldRunning'[g] :
          c \in Up' \cap tested' /\ (public' => c \in route')
    BY <1>2, <2>1 DEF CallInv, OldServes
  <2> QED BY <2>2 DEF Available
<1> QED
  BY <1>1, <1>2 DEF TypeOK, Step, InProgress, Creating, Switching, Shifting

\* A step of one call leaves the others alone.
Frame(g) ==
    \A h \in Generations \ {g} :
        /\ pc'[h] = pc[h]
        /\ old'[h] = old[h]
        /\ oldRunning'[h] = oldRunning[h]
        /\ started'[h] = started[h]

\* Every step of a call is such a step.
LEMMA CallFrame ==
  ASSUME TypeOK, NEW g \in Generations, CallAction(g)
  PROVE  Frame(g)
<1> USE DEF TypeOK, Frame, Goto, locals
<1>1. CASE Begin(g) \/ Create(g) \/ Start(g) \/ CreateOrStartFails(g)
  BY <1>1 DEF Begin, Create, Start, CreateOrStartFails
<1>2. CASE TestPasses(g) \/ TestFails(g) \/ SwitchTraffic(g) \/ SwitchFails(g)
           \/ SwitchWeightedTraffic(g)
  BY <1>2
  DEF TestPasses, TestFails, SwitchTraffic, SwitchFails, SwitchWeightedTraffic
<1>3. CASE SoakPasses(g) \/ SoakFails(g) \/ Undo(g) \/ UndoFails(g)
  BY <1>3 DEF SoakPasses, SoakFails, Undo, UndoFails
<1>4. CASE RetireNext(g) \/ CleanupNext(g) \/ Finish(g)
  BY <1>4 DEF RetireNext, CleanupNext, Finish, Forget
<1> QED BY <1>1, <1>2, <1>3, <1>4 DEF CallAction

\* A step of a call in progress only has to keep what is said of this call.
LEMMA OneCallStep ==
  ASSUME IInv, TypeOK', NEW g \in Generations, InProgress(g)',
         \A h \in Generations \ {g} : ~InProgress(h), Frame(g), CallInv(g)'
  PROVE  IInv'
<1> USE DEF Frame
<1>1. ASSUME NEW h \in Generations \ {g} PROVE ~InProgress(h)' /\ CallInv(h)'
  <2>1. ~InProgress(h)'
    BY DEF InProgress
  <2>2. old'[h] = {} /\ oldRunning'[h] = {} /\ started'[h] = {}
    BY DEF IInv, CallInv, OwnContainers
  <2> QED BY <2>1, <2>2, IdleCall
<1>2. OneCall'
  BY <1>1 DEF OneCall
<1>3. PromiseKept'
  BY ServedByCall
<1> QED BY <1>1, <1>2, <1>3 DEF IInv, CallInv

\* Nobody else is in progress while a call is.
LEMMA OnlyOne ==
  ASSUME IInv, NEW g \in Generations, InProgress(g)
  PROVE  \A h \in Generations \ {g} : ~InProgress(h)
  BY DEF IInv, OneCall

\* A call begins only when no other one is in progress.
LEMMA NobodyActive ==
  ASSUME OneCallAtATime, Cardinality(Active) < MaxActive
  PROVE  \A h \in Generations : ~InProgress(h)
<1>1. IsFiniteSet(Active)
  BY ReplicasAssumption, FS_Subset DEF Active
<1>2. Cardinality(Active) = 0
  BY <1>1, FS_CardinalityType DEF OneCallAtATime
<1>3. Active = {}
  BY <1>1, <1>2, FS_EmptySet
<1> QED BY <1>3 DEF Active

\* The steps that create and start containers.  A new container is not an old
\* one, so the old ones go on serving.
LEMMA CreatingSteps ==
  ASSUME IInv, OneCallAtATime, NEW g \in Generations,
         Begin(g) \/ Create(g) \/ Start(g) \/ CreateOrStartFails(g)
  PROVE  IInv'
<1> USE DEF Creating, Switching, Shifting
<1>0. TypeOK /\ CallInv(g) /\ CallAction(g)
  BY DEF IInv, CallInv, CallAction
<1>1. TypeOK' /\ Frame(g)
  BY <1>0, TypeCall, CallFrame
<1>2. CASE Begin(g)
  <2>1. pc'[g] = "create" /\ old'[g] = Existing /\ oldRunning'[g] = Up
        /\ started'[g] = {}
    BY <1>0, <1>2 DEF Begin, TypeOK
  <2>2. \A h \in Generations : ~InProgress(h)
    BY <1>2, NobodyActive DEF Begin
  <2>3. InProgress(g)'
    BY <2>1 DEF InProgress
  <2>4. UNCHANGED <<cont, tested, route, public, stuck>>
    BY <1>2 DEF Begin, fixed
  <2>5. OwnContainers(g)'
    BY <2>1, <2>3 DEF OwnContainers
  <2>6. OldIsThere(g)'
    BY <2>1, <2>4 DEF OldIsThere, Existing, Up
  <2>7. CandidatesReady(g)'
    BY <2>1 DEF CandidatesReady
  <2>8. OldServes(g)'
    <3> SUFFICES ASSUME promised', ~stuck'
                 PROVE  \E c \in Up : c \in Up' \cap tested' /\ (public' => c \in route')
      BY <2>1 DEF OldServes
    <3>1. promised' = (promised \/ Available)
      BY <1>2 DEF Begin
    <3>2. promised \/ Available
      BY <3>1, Zenon
    <3>3. ~stuck
      BY <2>4
    <3>4. Available
      BY <3>2, <3>3 DEF IInv, PromiseKept
    <3> QED BY <2>4, <3>4 DEF Available, Up
  <2> QED BY <1>1, <2>2, <2>3, <2>5, <2>6, <2>7, <2>8, OneCallStep DEF CallInv
<1>3. CASE Create(g)
  <2>1. PICK i \in 1 .. Count :
          /\ IsNext(g, i)
          /\ cont[<<g, i>>] = "none"
          /\ cont' = [cont EXCEPT ![<<g, i>>] = "idle"]
          /\ tested' = tested \ {<<g, i>>}
    BY <1>3 DEF Create
  <2>2. pc[g] = "create" /\ pc'[g] = "start"
    BY <1>0, <1>3 DEF Create, Goto, TypeOK
  <2>3. InProgress(g) /\ InProgress(g)'
    BY <2>2 DEF InProgress
  <2>4. UNCHANGED <<old, oldRunning, started, route, public, stuck, promised>>
    BY <1>3 DEF Create, fixed, locals
  <2>5. OwnContainers(g)'
    BY <1>0, <2>3, <2>4 DEF CallInv, OwnContainers, Candidates
  <2>6. <<g, i>> \notin old[g] \cup oldRunning[g]
    BY <1>0, <2>1, <2>2 DEF CallInv, OldIsThere
  <2>7. \A c \in old[g] \cup oldRunning[g] : c \in Container /\ cont'[c] = cont[c]
    BY <1>0, <2>1, <2>6 DEF TypeOK
  <2>8. OldIsThere(g)'
    <3>1. \A c \in old'[g] \cup oldRunning'[g] : cont'[c] # "none"
      BY <1>0, <2>2, <2>4, <2>7 DEF CallInv, OldIsThere
    <3>2. ASSUME NEW j \in 1 .. Count, IsNext(g, j)'
          PROVE  <<g, j>> \notin old'[g] \cup oldRunning'[g]
      <4>1. IsNext(g, j)
        BY <2>4, <3>2 DEF IsNext
      <4> QED BY <2>1, <2>4, <2>6, <4>1, NextIsUnique
    <3> QED BY <3>1, <3>2 DEF OldIsThere
  <2>9. CandidatesReady(g)'
    BY <2>2 DEF CandidatesReady
  <2>10. OldServes(g)'
    BY <1>0, <2>1, <2>2, <2>4, <2>6, <2>7 DEF CallInv, OldServes, Up
  <2> QED
    BY <1>1, <2>3, <2>5, <2>8, <2>9, <2>10, OnlyOne, OneCallStep DEF CallInv
<1>4. CASE Start(g)
  <2>1. PICK i \in 1 .. Count :
          /\ IsNext(g, i)
          /\ Goto(g, "start", IF i = Count THEN "test" ELSE "create")
          /\ cont' = [cont EXCEPT ![<<g, i>>] = "running"]
          /\ started' = [started EXCEPT ![g] = @ \cup {<<g, i>>}]
    BY <1>4 DEF Start
  <2>2. pc[g] = "start" /\ pc'[g] = IF i = Count THEN "test" ELSE "create"
    BY <1>0, <2>1 DEF Goto, TypeOK
  <2>3. InProgress(g) /\ InProgress(g)'
    BY <2>2 DEF InProgress
  <2>4. UNCHANGED <<old, oldRunning, tested, route, public, stuck, promised>>
    BY <1>4 DEF Start, fixed
  <2>5. started'[g] = started[g] \cup {<<g, i>>}
    BY <1>0, <2>1 DEF TypeOK
  <2>6. <<g, i>> \notin old[g] \cup oldRunning[g]
    BY <1>0, <2>1, <2>2 DEF CallInv, OldIsThere
  <2>7. OwnContainers(g)'
    <3>1. started'[g] \subseteq Candidates(g)
      BY <1>0, <2>5, CandidateFacts DEF CallInv, OwnContainers
    <3> QED
      BY <1>0, <2>3, <2>4, <2>5, <2>6, <3>1
      DEF CallInv, OwnContainers, Candidates
  <2>8. \A c \in old[g] \cup oldRunning[g] : c \in Container /\ cont'[c] = cont[c]
    BY <1>0, <2>1, <2>6 DEF TypeOK
  <2>9. OldIsThere(g)'
    BY <1>0, <2>2, <2>4, <2>8 DEF CallInv, OldIsThere
  <2>10. CandidatesReady(g)'
    <3> SUFFICES ASSUME i = Count PROVE started'[g] = Candidates(g)
      BY <2>2 DEF CandidatesReady, Candidates
    <3>1. Count \in Nat
      BY ReplicasAssumption
    <3>2. \A j \in 1 .. Count : j < i \/ j = i
      BY <3>1
    <3>3. \A j \in 1 .. Count : <<g, j>> \in started'[g]
      BY <2>1, <2>5, <3>2 DEF IsNext
    <3> QED BY <2>7, <3>3, CandidateFacts DEF OwnContainers, Candidates
  <2>11. OldServes(g)'
    BY <1>0, <2>2, <2>4, <2>8 DEF CallInv, OldServes, Up
  <2> QED
    BY <1>1, <2>3, <2>7, <2>9, <2>10, <2>11, OnlyOne, OneCallStep DEF CallInv
<1>5. CASE CreateOrStartFails(g)
  <2>1. pc[g] \in Creating /\ pc'[g] = "cleanup"
    BY <1>0, <1>5 DEF CreateOrStartFails, Goto, TypeOK
  <2>2. InProgress(g) /\ InProgress(g)'
    BY <2>1 DEF InProgress
  <2>3. UNCHANGED <<old, oldRunning, started, cont, tested, route, public, stuck,
                    promised>>
    BY <1>5 DEF CreateOrStartFails, fixed, locals
  <2>4. CallInv(g)'
    BY <1>0, <2>1, <2>2, <2>3
    DEF CallInv, OwnContainers, OldIsThere, CandidatesReady, OldServes, Up,
        Candidates
  <2> QED BY <1>1, <2>2, <2>4, OnlyOne, OneCallStep
<1> QED BY <1>2, <1>3, <1>4, <1>5

\* The tests and the steps that shift the traffic.  Traffic goes to candidates
\* that passed, or back to the old containers, one of which can serve.
LEMMA ShiftingSteps ==
  ASSUME IInv, NEW g \in Generations,
         \/ TestPasses(g) \/ TestFails(g) \/ SwitchTraffic(g) \/ SwitchFails(g)
         \/ SwitchWeightedTraffic(g) \/ SoakPasses(g) \/ SoakFails(g)
         \/ Undo(g) \/ UndoFails(g)
  PROVE  IInv'
<1> USE DEF Creating, Switching, Shifting
<1>0. TypeOK /\ CallInv(g) /\ CallAction(g)
  BY DEF IInv, CallInv, CallAction
<1>1. TypeOK' /\ Frame(g)
  BY <1>0, TypeCall, CallFrame
<1>2. UNCHANGED <<old, oldRunning, started, cont, public, promised>>
  BY DEF TestPasses, TestFails, SwitchTraffic, SwitchFails,
         SwitchWeightedTraffic, SoakPasses, SoakFails, Undo, UndoFails, fixed,
         locals
<1>3. Up' = Up
  BY <1>2 DEF Up
<1>4. InProgress(g) /\ InProgress(g)'
  BY <1>0
  DEF TestPasses, TestFails, SwitchTraffic, SwitchFails, SwitchWeightedTraffic,
      SoakPasses, SoakFails, Undo, UndoFails, Goto, InProgress, AfterTest, TypeOK
<1>5. OwnContainers(g)'
  BY <1>0, <1>2, <1>4 DEF CallInv, OwnContainers, Candidates
<1>6. pc'[g] \notin Creating
  BY <1>0
  DEF TestPasses, TestFails, SwitchTraffic, SwitchFails, SwitchWeightedTraffic,
      SoakPasses, SoakFails, Undo, UndoFails, Goto, AfterTest, TypeOK
<1>7. OldIsThere(g)'
  BY <1>6 DEF OldIsThere
<1>8. CandidatesReady(g)' /\ OldServes(g)'
  <2> USE DEF CandidatesReady, OldServes, Candidates
  <2>1. CASE TestPasses(g)
    <3>1. pc[g] = "test" /\ pc'[g] = AfterTest(g) /\ started[g] \subseteq Up
          /\ tested' = tested \cup started[g] /\ UNCHANGED <<route, stuck>>
      BY <1>0, <2>1 DEF TestPasses, Goto, TypeOK
    <3>2. started[g] = Candidates(g)
      BY <1>0, <3>1 DEF CallInv
    <3>3. pc'[g] \in {"retire", "switch", "weigh"} /\ (public <=> pc'[g] # "retire")
      BY <3>1 DEF AfterTest
    <3>4. CandidatesReady(g)'
      BY <1>2, <1>3, <3>1, <3>2, <3>3
    <3>5. OldServes(g)'
      BY <1>0, <1>2, <1>3, <3>1, <3>3 DEF CallInv
    <3> QED BY <3>4, <3>5
  <2>2. CASE TestFails(g)
    <3>1. pc[g] = "test" /\ pc'[g] = "cleanup" /\ UNCHANGED <<tested, route, stuck>>
      BY <1>0, <2>2 DEF TestFails, Goto, TypeOK
    <3> QED BY <1>0, <1>2, <1>3, <3>1 DEF CallInv
  <2>3. CASE SwitchTraffic(g)
    <3>1. pc[g] = "switch" /\ pc'[g] = "retire" /\ route' = Candidates(g)
          /\ UNCHANGED <<tested, stuck>>
      BY <1>0, <2>3 DEF SwitchTraffic, Goto, TypeOK
    <3> QED BY <1>0, <1>2, <1>3, <3>1 DEF CallInv
  <2>4. CASE SwitchFails(g)
    <3>1. UNCHANGED <<tested, route, stuck>>
      BY <2>4 DEF SwitchFails, counters
    <3>2. \/ pc[g] \in Switching /\ pc'[g] = "cleanup"
          \/ pc[g] = "reweigh" /\ pc'[g] = "undo"
      BY <1>0, <2>4 DEF SwitchFails, Goto, TypeOK
    <3> QED BY <1>0, <1>2, <1>3, <3>1, <3>2 DEF CallInv
  <2>5. CASE SwitchWeightedTraffic(g)
    <3>1. UNCHANGED <<tested, stuck>>
      BY <2>5 DEF SwitchWeightedTraffic, counters
    <3>2. pc[g] \in {"weigh", "reweigh"} /\ pc'[g] \in {"soak", "lastSoak"}
          /\ Candidates(g) \subseteq route'
      BY <1>0, <2>5 DEF SwitchWeightedTraffic, Goto, TypeOK
    <3> QED BY <1>0, <1>2, <1>3, <3>1, <3>2 DEF CallInv
  <2>6. CASE SoakPasses(g)
    <3>1. UNCHANGED <<tested, route, stuck>>
      BY <2>6 DEF SoakPasses, counters
    <3>2. \/ pc[g] = "soak" /\ pc'[g] = "reweigh"
          \/ pc[g] = "lastSoak" /\ pc'[g] = "retire"
      BY <1>0, <2>6 DEF SoakPasses, Goto, TypeOK
    <3> QED BY <1>0, <1>2, <1>3, <3>1, <3>2 DEF CallInv
  <2>7. CASE SoakFails(g)
    <3>1. pc[g] \in {"soak", "lastSoak"} /\ pc'[g] = "undo"
          /\ UNCHANGED <<tested, route, stuck>>
      BY <1>0, <2>7 DEF SoakFails, Goto, TypeOK
    <3> QED BY <1>0, <1>2, <1>3, <3>1 DEF CallInv
  <2>8. CASE Undo(g)
    <3>1. pc[g] = "undo" /\ pc'[g] = "cleanup" /\ route' = oldRunning[g]
          /\ UNCHANGED <<tested, stuck>>
      BY <1>0, <2>8 DEF Undo, Goto, TypeOK
    <3> QED BY <1>0, <1>2, <1>3, <3>1 DEF CallInv
  <2>9. CASE UndoFails(g)
    <3>1. pc'[g] = "cleanup" /\ stuck'
      BY <1>0, <2>9 DEF UndoFails, Goto, TypeOK
    <3> QED BY <3>1
  <2> QED BY <2>1, <2>2, <2>3, <2>4, <2>5, <2>6, <2>7, <2>8, <2>9
<1> QED BY <1>1, <1>4, <1>5, <1>7, <1>8, OnlyOne, OneCallStep DEF CallInv

\* remove touches the container it is asked to remove and no other.
LEMMA RemoveOne ==
  ASSUME TypeOK, NEW c \in Container, Remove(c)
  PROVE  \A d \in Container \ {c} : cont'[d] = cont[d]
  BY DEF Remove, TypeOK

\* The steps that remove containers and the end of a call.  What is removed is
\* never what the runtime is served by: the old ones when the candidates have
\* the traffic, the candidates when the old ones have it.
LEMMA RemovingSteps ==
  ASSUME IInv, NEW g \in Generations,
         RetireNext(g) \/ CleanupNext(g) \/ Finish(g)
  PROVE  IInv'
<1> USE DEF Creating, Switching, Shifting
<1>0. TypeOK /\ CallInv(g) /\ CallAction(g)
  BY DEF IInv, CallInv, CallAction
<1>1. TypeOK' /\ Frame(g)
  BY <1>0, TypeCall, CallFrame
<1>2. CASE RetireNext(g)
  <2>1. PICK c \in old[g] : Remove(c) /\ old' = [old EXCEPT ![g] = @ \ {c}]
    BY <1>2 DEF RetireNext
  <2>2. pc[g] = "retire" /\ pc'[g] = "retire"
    BY <1>0, <1>2 DEF RetireNext, Goto, TypeOK
  <2>3. InProgress(g) /\ InProgress(g)'
    BY <2>2 DEF InProgress
  <2>4. UNCHANGED <<oldRunning, started, tested, route, public, stuck, promised>>
    BY <1>2 DEF RetireNext, fixed
  <2>5. c \in Container /\ c \notin Candidates(g)
    BY <1>0, <2>1, <2>2
    DEF TypeOK, CallInv, OwnContainers, CandidatesReady
  <2>6. OwnContainers(g)'
    BY <1>0, <2>1, <2>3, <2>4 DEF TypeOK, CallInv, OwnContainers, Candidates
  <2>7. OldIsThere(g)' /\ OldServes(g)'
    BY <2>2 DEF OldIsThere, OldServes
  <2>8. Candidates(g) \subseteq Up' \cap tested'
    <3>1. Candidates(g) \subseteq Up \cap tested
      BY <1>0, <2>2 DEF CallInv, CandidatesReady
    <3>2. \A d \in Container \ {c} : cont'[d] = cont[d]
      BY <1>0, <2>1, <2>5, RemoveOne
    <3> QED BY <2>4, <2>5, <3>1, <3>2 DEF Up
  <2>9. CandidatesReady(g)'
    BY <1>0, <2>2, <2>4, <2>8 DEF CallInv, CandidatesReady, Candidates
  <2> QED
    BY <1>1, <2>3, <2>6, <2>7, <2>9, OnlyOne, OneCallStep DEF CallInv
<1>3. CASE CleanupNext(g)
  <2>1. PICK c \in started[g] : Remove(c) /\ started' = [started EXCEPT ![g] = @ \ {c}]
    BY <1>3 DEF CleanupNext
  <2>2. pc[g] = "cleanup" /\ pc'[g] = "cleanup"
    BY <1>0, <1>3 DEF CleanupNext, Goto, TypeOK
  <2>3. InProgress(g) /\ InProgress(g)'
    BY <2>2 DEF InProgress
  <2>4. UNCHANGED <<old, oldRunning, tested, route, public, stuck, promised>>
    BY <1>3 DEF CleanupNext, fixed
  <2>5. c \in Container /\ c \notin oldRunning[g]
    BY <1>0, <2>1 DEF TypeOK, CallInv, OwnContainers
  <2>6. OwnContainers(g)'
    BY <1>0, <2>1, <2>3, <2>4 DEF TypeOK, CallInv, OwnContainers, Candidates
  <2>7. OldIsThere(g)' /\ CandidatesReady(g)'
    BY <2>2 DEF OldIsThere, CandidatesReady
  <2>8. OldServes(g)'
    <3>1. \A d \in Container \ {c} : cont'[d] = cont[d]
      BY <1>0, <2>1, <2>5, RemoveOne
    <3> QED
      BY <1>0, <2>2, <2>4, <2>5, <3>1 DEF CallInv, OldServes, Up
  <2> QED
    BY <1>1, <2>3, <2>6, <2>7, <2>8, OnlyOne, OneCallStep DEF CallInv
<1>4. CASE Finish(g)
  <2>1. pc[g] \in {"retire", "cleanup"} /\ pc'[g] \in {"done", "failed"}
    BY <1>0, <1>4 DEF Finish, Goto, TypeOK
  <2>2. old'[g] = {} /\ oldRunning'[g] = {} /\ started'[g] = {}
    BY <1>0, <1>4 DEF Finish, Forget, TypeOK
  <2>3. InProgress(g) /\ ~InProgress(g)'
    BY <2>1 DEF InProgress
  <2>4. \A h \in Generations : ~InProgress(h)' /\ old'[h] = {}
                                /\ oldRunning'[h] = {} /\ started'[h] = {}
    BY <1>1, <2>2, <2>3, OnlyOne DEF IInv, InProgress, CallInv, OwnContainers, Frame
  <2>5. \A h \in Generations : CallInv(h)'
    BY <2>4, IdleCall
  <2>6. PromiseKept'
    BY <1>4 DEF Finish, fixed, IInv, PromiseKept, Available, Up
  <2> QED BY <1>1, <2>4, <2>5, <2>6 DEF IInv, CallInv, OneCall
<1> QED BY <1>2, <1>3, <1>4

\* Every step keeps the invariant.
LEMMA StepInv == OneCallAtATime /\ IInv /\ [Next]_vars => IInv'
<1> SUFFICES ASSUME OneCallAtATime, IInv, [Next]_vars PROVE IInv'
  OBVIOUS
<1>0. TypeOK'
  BY TypeStep DEF IInv
<1>1. ASSUME NEW g \in Generations, CallAction(g) PROVE IInv'
  BY <1>1, CreatingSteps, ShiftingSteps, RemovingSteps DEF CallAction
<1>2. CASE Crash
  <2>1. \A h \in Generations : ~InProgress(h)' /\ old'[h] = {}
                                /\ oldRunning'[h] = {} /\ started'[h] = {}
    BY <1>2 DEF Crash, InProgress, IInv, TypeOK
  <2>2. \A h \in Generations : CallInv(h)'
    BY <2>1, IdleCall
  <2>3. PromiseKept'
    BY <1>2 DEF Crash, fixed, IInv, PromiseKept, Available, Up
  <2> QED BY <1>0, <2>1, <2>2, <2>3 DEF IInv, CallInv, OneCall
<1>3. CASE UNCHANGED vars
  BY <1>3
  DEF vars, locals, fixed, counters, IInv, CallInv, TypeOK, OneCall, InProgress,
      OwnContainers, OldIsThere, CandidatesReady, OldServes, PromiseKept,
      Available, Up, IsNext, Candidates
<1> QED BY <1>1, <1>2, <1>3 DEF Next

\* If calls for one runtime do not overlap, a runtime that a call has found served
\* stays served, through any number of failed rollouts, canary steps undone
\* half-way, crashes and containers that cannot be removed (replicas.ts:40-54).
THEOREM PromiseIsKept == OneCallAtATime /\ Spec => []PromiseKept
<1>1. IInv => PromiseKept
  BY DEF IInv
<1>2. OneCallAtATime => []OneCallAtATime
  BY DEF OneCallAtATime
<1> QED BY InitInv, StepInv, <1>1, <1>2, PTL DEF Spec

(***************************************************************************)
(* Who gets traffic, and what is left running                              *)
(***************************************************************************)

\* Every server that gets traffic runs and is tested.
RouteOK == route \subseteq Up \cap tested

AllDirect == \A g \in Generations : strategy[g] = "direct"

\* Without canary steps the route leads to candidates or to old containers, and a
\* call that has not switched it has started none of its servers.
DirectCall(g) ==
    /\ pc[g] \notin {"weigh"} \cup Shifting
    /\ pc[g] \in Creating \cup {"test", "switch", "cleanup"} =>
          started[g] \cap route = {}
    /\ pc[g] = "start" => \A i \in 1 .. Count : IsNext(g, i) => <<g, i>> \notin route
    /\ pc[g] = "retire" => route \subseteq Candidates(g)

Before == Creating \cup Switching \cup {"test", "cleanup"}

\* Without faults the old containers are the servers of the route and nothing else
\* runs but what the call has started.
CleanCall(g) ==
    /\ pc[g] \in Before => route = oldRunning[g]
    /\ pc[g] \in Before \cup Shifting =>
          /\ oldRunning[g] \subseteq Up \cap tested \cap old[g]
          /\ Up \subseteq oldRunning[g] \cup started[g]
    /\ pc[g] \in Shifting => route \subseteq oldRunning[g] \cup Candidates(g)
    /\ pc[g] \in {"lastSoak", "retire"} => route \subseteq Candidates(g)
    /\ pc[g] = "retire" => Up \subseteq Candidates(g) \cup old[g]

Unrouted == ~public => route = {}

DirectInv == ~stuck /\ AllDirect => RouteOK /\ \A g \in Generations : DirectCall(g)

NoFault == ~stuck /\ faults = 0 /\ crashes = 0

CleanInv ==
    NoFault /\ public =>
        /\ RouteOK
        /\ (\A g \in Generations : ~InProgress(g)) => Up \subseteq route
        /\ \A g \in Generations : CleanCall(g)

RouteInv == Unrouted /\ DirectInv /\ CleanInv

\* Of a call that is not in progress nothing is said.
LEMMA IdleRoute ==
  ASSUME NEW g \in Generations, ~InProgress(g)
  PROVE  DirectCall(g) /\ CleanCall(g)
<1>1. pc[g] \in {"new", "done", "failed"}
  BY DEF InProgress
<1> QED  BY <1>1 DEF DirectCall, CleanCall, Before, Creating, Switching, Shifting

\* A call does not undo a fault, and changes neither the strategy nor whether there
\* is a route; only those that switch write it.
LEMMA FaultsStay ==
  ASSUME TypeOK, NEW g \in Generations, CallAction(g)
  PROVE  /\ stuck => stuck'
         /\ faults' = 0 => faults = 0
         /\ UNCHANGED <<crashes, fixed>>
<1> USE ReplicasAssumption DEF TypeOK, counters
<1>0. ASSUME NEW c \in Container, Remove(c) PROVE faults' = 0 => faults = 0
  BY <1>0 DEF Remove
<1>1. CASE RetireNext(g) \/ CleanupNext(g)
  BY <1>0, <1>1 DEF RetireNext, CleanupNext
<1>2. CASE ~RetireNext(g) /\ ~CleanupNext(g)
  BY <1>2
  DEF CallAction, Begin, Create, Start, CreateOrStartFails, TestPasses, TestFails,
      SwitchTraffic, SwitchFails, SwitchWeightedTraffic, SoakPasses, SoakFails, Undo,
      UndoFails, Finish
<1> QED  BY <1>1, <1>2

\* The two conditions as a step has to establish them.
DirectGoal(g) == ~stuck' /\ AllDirect' => RouteOK' /\ DirectCall(g)'

CleanGoal(g) ==
    NoFault' /\ public' =>
        /\ RouteOK'
        /\ ~InProgress(g)' => Up' \subseteq route'
        /\ CleanCall(g)'

\* What the conditions say before the step.
LEMMA RouteBefore ==
  ASSUME IInv, RouteInv, NEW g \in Generations, CallAction(g)
  PROVE  /\ ~stuck' /\ AllDirect' => RouteOK /\ DirectCall(g) /\ strategy[g] = "direct"
         /\ NoFault' /\ public' => NoFault /\ public /\ RouteOK /\ CleanCall(g)
         /\ (public' <=> public) /\ Unrouted
  BY FaultsStay
  DEF IInv, RouteInv, DirectInv, CleanInv, NoFault, AllDirect, fixed

\* The steps before the traffic is touched: the servers of the route are not those
\* the call starts.
LEMMA CreatingRoute ==
  ASSUME IInv, RouteInv, NEW g \in Generations,
         Create(g) \/ Start(g) \/ CreateOrStartFails(g) \/ TestPasses(g) \/ TestFails(g)
  PROVE  DirectGoal(g) /\ CleanGoal(g) /\ Unrouted'
<1> USE DEF Creating, Switching, Shifting, Before, DirectGoal, CleanGoal
<1>0. TypeOK /\ CallInv(g) /\ CallAction(g)
  BY DEF IInv, CallInv, CallAction
<1>1. UNCHANGED <<old, oldRunning, route, public>>
  BY DEF Create, Start, CreateOrStartFails, TestPasses, TestFails, locals, fixed
<1>2. Unrouted'
  BY <1>1 DEF RouteInv, Unrouted
<1>3. CASE Create(g)
  <2>1. PICK i \in 1 .. Count :
          /\ IsNext(g, i)
          /\ cont[<<g, i>>] = "none"
          /\ cont' = [cont EXCEPT ![<<g, i>>] = "idle"]
          /\ tested' = tested \ {<<g, i>>}
    BY <1>3 DEF Create
  <2>2. pc[g] = "create" /\ pc'[g] = "start" /\ started' = started
    BY <1>0, <1>3 DEF Create, Goto, TypeOK, locals
  <2>3. Up' = Up /\ <<g, i>> \notin Up /\ Up \cap tested' = Up \cap tested
    BY <1>0, <2>1, CandidateFacts DEF Up, TypeOK
  <2>4. RouteOK => RouteOK' /\ <<g, i>> \notin route
    BY <1>1, <2>3 DEF RouteOK
  <2>5. \A j \in 1 .. Count : IsNext(g, j)' => j = i
    BY <2>1, <2>2, NextIsUnique DEF IsNext
  <2>6. DirectGoal(g)
    BY <1>0, <1>1, <2>2, <2>4, <2>5, RouteBefore DEF DirectCall
  <2>7. CleanGoal(g)
    BY <1>0, <1>1, <2>2, <2>3, <2>4, RouteBefore DEF CleanCall, InProgress
  <2> QED  BY <1>2, <2>6, <2>7
<1>4. CASE Start(g)
  <2>1. PICK i \in 1 .. Count :
          /\ IsNext(g, i)
          /\ Goto(g, "start", IF i = Count THEN "test" ELSE "create")
          /\ cont' = [cont EXCEPT ![<<g, i>>] = "running"]
          /\ started' = [started EXCEPT ![g] = @ \cup {<<g, i>>}]
    BY <1>4 DEF Start
  <2>2. pc[g] = "start" /\ pc'[g] \in {"test", "create"} /\ tested' = tested
    BY <1>0, <1>4, <2>1 DEF Start, Goto, TypeOK
  <2>3. Up' = Up \cup {<<g, i>>} /\ started'[g] = started[g] \cup {<<g, i>>}
    BY <1>0, <2>1, CandidateFacts DEF Up, TypeOK
  <2>4. RouteOK => RouteOK'
    BY <1>1, <2>2, <2>3 DEF RouteOK
  <2>5. DirectGoal(g)
    BY <1>0, <1>1, <2>1, <2>2, <2>3, <2>4, RouteBefore DEF DirectCall
  <2>6. CleanGoal(g)
    BY <1>0, <1>1, <2>2, <2>3, <2>4, RouteBefore DEF CleanCall, InProgress
  <2> QED  BY <1>2, <2>5, <2>6
<1>5. CASE CreateOrStartFails(g) \/ TestFails(g)
  <2>1. /\ pc[g] \in {"create", "start", "test"} /\ pc'[g] = "cleanup"
        /\ UNCHANGED <<cont, tested, started>>
    BY <1>0, <1>5 DEF CreateOrStartFails, TestFails, Goto, TypeOK, locals
  <2>2. Up' = Up /\ (RouteOK => RouteOK')
    BY <1>1, <2>1 DEF Up, RouteOK
  <2>3. DirectGoal(g)
    BY <1>0, <1>1, <2>1, <2>2, RouteBefore DEF DirectCall
  <2>4. CleanGoal(g)
    BY <1>0, <1>1, <2>1, <2>2, RouteBefore DEF CleanCall, InProgress
  <2> QED  BY <1>2, <2>3, <2>4
<1>6. CASE TestPasses(g)
  <2>1. /\ pc[g] = "test" /\ pc'[g] = AfterTest(g)
        /\ tested' = tested \cup started[g] /\ UNCHANGED <<cont, started>>
    BY <1>0, <1>6 DEF TestPasses, Goto, TypeOK, locals
  <2>2. Up' = Up /\ (RouteOK => RouteOK')
    BY <1>1, <2>1 DEF Up, RouteOK
  <2>3. /\ public => pc'[g] \in {"weigh", "switch"}
        /\ ~public => pc'[g] = "retire"
        /\ strategy[g] = "direct" => pc'[g] # "weigh"
    BY <2>1 DEF AfterTest
  <2>4. DirectGoal(g)
    BY <1>0, <1>1, <2>1, <2>2, <2>3, RouteBefore DEF DirectCall, Unrouted
  <2>5. CleanGoal(g)
    BY <1>0, <1>1, <2>1, <2>2, <2>3, RouteBefore DEF CleanCall, InProgress
  <2> QED  BY <1>2, <2>4, <2>5
<1> QED  BY <1>3, <1>4, <1>5, <1>6

\* The steps that shift the traffic: to tested candidates, or back to containers
\* that were serving.
LEMMA ShiftingRoute ==
  ASSUME IInv, RouteInv, NEW g \in Generations,
         \/ SwitchTraffic(g) \/ SwitchFails(g) \/ SwitchWeightedTraffic(g)
         \/ SoakPasses(g) \/ SoakFails(g) \/ Undo(g) \/ UndoFails(g)
  PROVE  DirectGoal(g) /\ CleanGoal(g) /\ Unrouted'
<1> USE DEF Creating, Switching, Shifting, Before, DirectGoal, CleanGoal
<1>0. TypeOK /\ CallInv(g) /\ CallAction(g)
  BY DEF IInv, CallInv, CallAction
<1>1. UNCHANGED <<old, oldRunning, started, cont, tested, public>>
  BY DEF SwitchTraffic, SwitchFails, SwitchWeightedTraffic, SoakPasses, SoakFails,
         Undo, UndoFails, locals, fixed
<1>2. Up' = Up
  BY <1>1 DEF Up
<1>3. pc[g] \in Switching \cup Shifting
  BY <1>0
  DEF SwitchTraffic, SwitchFails, SwitchWeightedTraffic, SoakPasses, SoakFails,
      Undo, UndoFails, Goto
<1>4. /\ public /\ Unrouted' /\ started[g] = Candidates(g)
      /\ pc[g] \in Switching \cup Shifting => Candidates(g) \subseteq Up \cap tested
      /\ started[g] \cap oldRunning[g] = {}
  BY <1>0, <1>1, <1>3 DEF CallInv, CandidatesReady, OwnContainers, Unrouted
<1>5. CASE SwitchTraffic(g)
  <2>1. pc[g] = "switch" /\ pc'[g] = "retire" /\ route' = Candidates(g)
    BY <1>0, <1>5 DEF SwitchTraffic, Goto, TypeOK
  <2>2. RouteOK' /\ DirectCall(g)'
    BY <1>1, <1>2, <1>3, <1>4, <2>1 DEF RouteOK, DirectCall, Candidates
  <2>3. CleanGoal(g)
    BY <1>1, <1>2, <1>4, <2>1, <2>2, RouteBefore, <1>0
    DEF CleanCall, InProgress, Candidates
  <2> QED  BY <1>4, <2>2, <2>3
<1>6. CASE SwitchFails(g)
  <2>1. /\ route' = route
        /\ \/ pc[g] \in Switching /\ pc'[g] = "cleanup"
           \/ pc[g] = "reweigh" /\ pc'[g] = "undo"
    BY <1>0, <1>6 DEF SwitchFails, Goto, TypeOK
  <2>2. RouteOK => RouteOK'
    BY <1>1, <1>2, <2>1 DEF RouteOK
  <2>3. DirectGoal(g)
    BY <1>0, <1>1, <2>1, <2>2, RouteBefore DEF DirectCall
  <2>4. CleanGoal(g)
    BY <1>0, <1>1, <1>2, <2>1, <2>2, RouteBefore DEF CleanCall, InProgress, Candidates
  <2> QED  BY <1>4, <2>3, <2>4
<1>7. CASE SwitchWeightedTraffic(g)
  <2>1. /\ pc[g] \in {"weigh", "reweigh"}
        /\ \/ pc'[g] = "soak" /\ route' = oldRunning[g] \cup Candidates(g)
           \/ pc'[g] = "lastSoak" /\ route' = Candidates(g)
    BY <1>0, <1>7 DEF SwitchWeightedTraffic, Goto, TypeOK
  <2>2. DirectGoal(g)
    BY <1>0, <2>1, RouteBefore DEF DirectCall
  <2>3. CleanGoal(g)
    <3> SUFFICES ASSUME NoFault', public' PROVE RouteOK' /\ CleanCall(g)'
      BY <2>1 DEF InProgress
    <3>1. CleanCall(g)
      BY <1>0, RouteBefore
    <3>2. RouteOK'
      BY <1>1, <1>2, <1>3, <1>4, <2>1, <3>1 DEF RouteOK, CleanCall
    <3> QED  BY <1>1, <1>2, <2>1, <3>1, <3>2 DEF CleanCall, Candidates
  <2> QED  BY <1>4, <2>2, <2>3
<1>8. CASE SoakPasses(g) \/ SoakFails(g)
  <2>1. /\ route' = route
        /\ \/ pc[g] = "soak" /\ pc'[g] \in {"reweigh", "undo"}
           \/ pc[g] = "lastSoak" /\ pc'[g] \in {"retire", "undo"}
    BY <1>0, <1>8 DEF SoakPasses, SoakFails, Goto, TypeOK
  <2>2. DirectGoal(g)
    BY <1>0, <2>1, RouteBefore DEF DirectCall
  <2>3. RouteOK => RouteOK'
    BY <1>1, <1>2, <2>1 DEF RouteOK
  <2>4. CleanGoal(g)
    <3> SUFFICES ASSUME NoFault', public' PROVE RouteOK' /\ CleanCall(g)'
      BY <2>1 DEF InProgress
    <3>1. CleanCall(g) /\ RouteOK
      BY <1>0, RouteBefore
    <3> QED  BY <1>1, <1>2, <1>4, <2>1, <2>3, <3>1 DEF CleanCall, Candidates
  <2> QED  BY <1>4, <2>2, <2>4
<1>9. CASE Undo(g)
  <2>1. pc[g] = "undo" /\ pc'[g] = "cleanup" /\ route' = oldRunning[g]
    BY <1>0, <1>9 DEF Undo, Goto, TypeOK
  <2>2. DirectGoal(g)
    BY <1>0, <2>1, RouteBefore DEF DirectCall
  <2>3. CleanGoal(g)
    <3> SUFFICES ASSUME NoFault', public' PROVE RouteOK' /\ CleanCall(g)'
      BY <2>1 DEF InProgress
    <3>1. CleanCall(g)
      BY <1>0, RouteBefore
    <3> QED  BY <1>1, <1>2, <2>1, <3>1 DEF CleanCall, RouteOK
  <2> QED  BY <1>4, <2>2, <2>3
<1>10. CASE UndoFails(g)
  BY <1>4, <1>10 DEF UndoFails, NoFault
<1> QED  BY <1>5, <1>6, <1>7, <1>8, <1>9, <1>10

\* The steps that remove: never a server of the route, and in the end everything
\* but those.
LEMMA RemovingRoute ==
  ASSUME IInv, RouteInv, NEW g \in Generations,
         RetireNext(g) \/ CleanupNext(g) \/ Finish(g)
  PROVE  DirectGoal(g) /\ CleanGoal(g) /\ Unrouted'
<1> USE DEF Creating, Switching, Shifting, Before, DirectGoal, CleanGoal
<1>0. TypeOK /\ CallInv(g) /\ CallAction(g)
  BY DEF IInv, CallInv, CallAction
<1>1. UNCHANGED <<route, public, tested>>
  BY DEF RetireNext, CleanupNext, Finish, fixed
<1>2. Unrouted'
  BY <1>1 DEF RouteInv, Unrouted
<1>3. ASSUME NEW c \in Container, Remove(c)
      PROVE  /\ \A d \in Container \ {c} : cont'[d] = cont[d]
             /\ NoFault' => cont'[c] = "none"
  <2>1. \A d \in Container \ {c} : cont'[d] = cont[d]
    BY <1>0, <1>3, RemoveOne
  <2>2. faults' = 0 => cont'[c] = "none"
    BY <1>0, <1>3, ReplicasAssumption DEF Remove, TypeOK
  <2> QED  BY <2>1, <2>2 DEF NoFault
<1>4. CASE RetireNext(g)
  <2>1. PICK c \in old[g] : Remove(c) /\ old' = [old EXCEPT ![g] = @ \ {c}]
    BY <1>4 DEF RetireNext
  <2>2. /\ pc[g] = "retire" /\ pc'[g] = "retire"
        /\ old'[g] = old[g] \ {c} /\ UNCHANGED <<oldRunning, started>>
    BY <1>0, <1>4, <2>1 DEF RetireNext, Goto, TypeOK
  <2>3. c \in Container /\ c \notin Candidates(g)
    BY <1>0, <2>1, <2>2 DEF TypeOK, CallInv, OwnContainers, CandidatesReady
  <2>4. Candidates(g) \subseteq Up \cap tested
    BY <1>0, <2>2 DEF CallInv, CandidatesReady
  <2>5. route \subseteq Candidates(g) => RouteOK'
    BY <1>1, <1>3, <2>1, <2>3, <2>4 DEF RouteOK, Up
  <2>6. DirectGoal(g)
    BY <1>0, <1>1, <2>2, <2>5, RouteBefore DEF DirectCall, Candidates
  <2>7. CleanGoal(g)
    <3> SUFFICES ASSUME NoFault', public' PROVE RouteOK' /\ CleanCall(g)'
      BY <2>2 DEF InProgress
    <3>1. CleanCall(g)
      BY <1>0, RouteBefore
    <3>2. Up' \subseteq Up \ {c}
      BY <1>3, <2>1, <2>3 DEF Up
    <3> QED  BY <1>1, <2>2, <2>5, <3>1, <3>2 DEF CleanCall, Candidates
  <2> QED  BY <1>2, <2>6, <2>7
<1>5. CASE CleanupNext(g)
  <2>1. PICK c \in started[g] : Remove(c) /\ started' = [started EXCEPT ![g] = @ \ {c}]
    BY <1>5 DEF CleanupNext
  <2>2. /\ pc[g] = "cleanup" /\ pc'[g] = "cleanup"
        /\ started'[g] = started[g] \ {c} /\ UNCHANGED <<old, oldRunning>>
    BY <1>0, <1>5, <2>1 DEF CleanupNext, Goto, TypeOK
  <2>3. c \in Container /\ c \notin oldRunning[g]
    BY <1>0, <2>1 DEF TypeOK, CallInv, OwnContainers
  <2>4. RouteOK /\ c \notin route => RouteOK'
    BY <1>0, <1>1, <1>3, <2>1, <2>3 DEF RouteOK, Up
  <2>5. DirectGoal(g)
    BY <1>0, <1>1, <2>1, <2>2, <2>4, RouteBefore DEF DirectCall
  <2>6. CleanGoal(g)
    <3> SUFFICES ASSUME NoFault', public' PROVE RouteOK' /\ CleanCall(g)'
      BY <2>2 DEF InProgress
    <3>1. CleanCall(g) /\ RouteOK
      BY <1>0, RouteBefore
    <3>2. Up' = Up \ {c}
      BY <1>3, <2>1, <2>3 DEF Up
    <3> QED  BY <1>1, <2>2, <2>3, <2>4, <3>1, <3>2 DEF CleanCall
  <2> QED  BY <1>2, <2>5, <2>6
<1>6. CASE Finish(g)
  <2>1. /\ \/ pc[g] = "retire" /\ old[g] = {}
           \/ pc[g] = "cleanup" /\ started[g] = {}
        /\ pc'[g] \in {"done", "failed"}
        /\ cont' = cont
    BY <1>0, <1>6 DEF Finish, Goto, TypeOK
  <2>2. ~InProgress(g)' /\ Up' = Up /\ (RouteOK => RouteOK')
    BY <1>1, <2>1 DEF InProgress, Up, RouteOK
  <2>3. DirectCall(g)' /\ CleanCall(g)'
    BY <2>1 DEF DirectCall, CleanCall
  <2>4. DirectGoal(g)
    BY <1>0, <2>2, <2>3, RouteBefore
  <2>5. CleanGoal(g)
    <3> SUFFICES ASSUME NoFault', public' PROVE RouteOK' /\ Up \subseteq route
      BY <1>1, <2>2, <2>3
    <3>1. CleanCall(g) /\ RouteOK
      BY <1>0, RouteBefore
    <3>2. pc[g] = "retire" => Candidates(g) \subseteq route
      BY <1>0, <1>1 DEF CallInv, CandidatesReady
    <3> QED  BY <2>1, <2>2, <3>1, <3>2 DEF CleanCall
  <2> QED  BY <1>2, <2>4, <2>5
<1> QED  BY <1>4, <1>5, <1>6

\* A call that begins finds the servers of the route, and only those, running.
LEMMA BeginRoute ==
  ASSUME IInv, RouteInv, OneCallAtATime, NEW g \in Generations, Begin(g)
  PROVE  DirectGoal(g) /\ CleanGoal(g) /\ Unrouted'
<1> USE DEF Creating, Switching, Shifting, Before, DirectGoal, CleanGoal
<1>0. TypeOK /\ CallAction(g)
  BY DEF IInv, CallAction
<1>1. /\ pc'[g] = "create" /\ old'[g] = Existing /\ oldRunning'[g] = Up
      /\ started'[g] = {}
  BY <1>0 DEF Begin, TypeOK
<1>2. UNCHANGED <<cont, tested, route, public>>
  BY DEF Begin, fixed
<1>3. \A h \in Generations : ~InProgress(h)
  BY NobodyActive DEF Begin
<1>4. Up' = Up /\ Up \subseteq Existing /\ (RouteOK => RouteOK')
  BY <1>2 DEF Up, Existing, RouteOK
<1>5. DirectGoal(g)
  BY <1>0, <1>1, <1>4, RouteBefore DEF DirectCall
<1>6. CleanGoal(g)
  <2> SUFFICES ASSUME NoFault', public' PROVE RouteOK' /\ CleanCall(g)'
    BY <1>1 DEF InProgress
  <2>1. RouteOK /\ Up \subseteq route
    BY <1>0, <1>3, RouteBefore DEF RouteInv, CleanInv
  <2>2. route = Up /\ Up \subseteq tested
    BY <2>1 DEF RouteOK
  <2> QED  BY <1>1, <1>2, <1>4, <2>1, <2>2 DEF CleanCall
<1> QED  BY <1>2, <1>5, <1>6 DEF RouteInv, Unrouted

\* Every step keeps the conditions on the route.
LEMMA RouteStep == OneCallAtATime /\ IInv /\ RouteInv /\ [Next]_vars => RouteInv'
<1> SUFFICES ASSUME OneCallAtATime, IInv, RouteInv, [Next]_vars PROVE RouteInv'
  OBVIOUS
<1>1. ASSUME NEW g \in Generations, CallAction(g) PROVE RouteInv'
  <2>1. DirectGoal(g) /\ CleanGoal(g) /\ Unrouted'
    BY <1>1, CreatingRoute, ShiftingRoute, RemovingRoute, BeginRoute DEF CallAction
  <2>2. \A h \in Generations \ {g} : ~InProgress(h)
    <3>1. CASE Begin(g)
      BY <3>1, NobodyActive DEF Begin
    <3>2. CASE ~Begin(g)
      <4>1. InProgress(g)
        BY <1>1, <3>2
        DEF CallAction, Create, Start, CreateOrStartFails, TestPasses, TestFails,
            SwitchTraffic, SwitchFails, SwitchWeightedTraffic, SoakPasses, SoakFails,
            Undo, UndoFails, RetireNext, CleanupNext, Finish, Goto, InProgress
      <4> QED  BY <4>1, OnlyOne
    <3> QED  BY <3>1, <3>2
  <2>3. \A h \in Generations \ {g} : ~InProgress(h)'
    BY <1>1, <2>2, CallFrame DEF Frame, InProgress, IInv
  <2>4. \A h \in Generations \ {g} : DirectCall(h)' /\ CleanCall(h)'
    <3> SUFFICES ASSUME NEW h \in Generations \ {g}, ~InProgress(h)'
                 PROVE  DirectCall(h)' /\ CleanCall(h)'
      BY <2>3
    <3>1. pc'[h] \in {"new", "done", "failed"}
      BY DEF InProgress
    <3> QED
      BY <3>1 DEF DirectCall, CleanCall, Before, Creating, Switching, Shifting
  <2> QED
    BY <2>1, <2>4 DEF RouteInv, DirectGoal, CleanGoal, DirectInv, CleanInv
<1>2. CASE Crash
  <2>1. \A h \in Generations : pc'[h] \in {"new", "done", "failed"}
    BY <1>2 DEF Crash, InProgress, IInv, TypeOK
  <2>2. \A h \in Generations : DirectCall(h)'
    BY <2>1 DEF DirectCall, Creating, Shifting
  <2>3. UNCHANGED <<cont, tested, route, fixed, stuck>> /\ crashes' # 0
    BY <1>2, ReplicasAssumption DEF Crash, IInv, TypeOK
  <2>4. DirectInv'
    BY <2>2, <2>3 DEF RouteInv, DirectInv, RouteOK, AllDirect, Up, fixed
  <2> QED
    BY <2>3, <2>4 DEF RouteInv, CleanInv, NoFault, Unrouted, fixed
<1>3. CASE UNCHANGED vars
  BY <1>3
  DEF vars, locals, fixed, counters, RouteInv, Unrouted, DirectInv, CleanInv, NoFault,
      RouteOK, AllDirect, DirectCall, CleanCall, InProgress, Up, IsNext, Candidates
<1> QED  BY <1>1, <1>2, <1>3 DEF Next

\* Both invariants hold in every reachable state.
LEMMA RouteInvariance == OneCallAtATime /\ Spec => [](IInv /\ RouteInv)
<1>1. Init => RouteInv
  <2> SUFFICES ASSUME Init PROVE RouteInv
    OBVIOUS
  <2>1. \A g \in Generations : DirectCall(g) /\ CleanCall(g)
    BY IdleRoute DEF Init, InProgress
  <2> QED
    BY <2>1
    DEF Init, RouteInv, Unrouted, DirectInv, CleanInv, RouteOK, Up, Container
<1>2. OneCallAtATime => []OneCallAtATime
  BY DEF OneCallAtATime
<1> QED  BY <1>1, <1>2, InitInv, StepInv, RouteStep, PTL DEF Spec

\* Every server that gets traffic runs and has passed its test, without canary steps
\* through every fault and crash, and with them until the first one
\* (replicas.ts:34, 45).
THEOREM RouteAlwaysServes == OneCallAtATime /\ Spec => []RouteServes
<1>1. RouteInv => RouteServes
  BY DEF RouteInv, RouteServes, RouteOK, Unrouted, DirectInv, CleanInv, NoFault,
         AllDirect
<1> QED  BY <1>1, RouteInvariance, PTL

\* Without faults, when no call is in progress, only what gets traffic runs
\* (replicas.ts:48, 53).
THEOREM NothingIsLeftRunning == OneCallAtATime /\ Spec => []NothingLeftRunning
<1>1. RouteInv => NothingLeftRunning
  BY DEF RouteInv, NothingLeftRunning, CleanInv, NoFault, Active
<1> QED  BY <1>1, RouteInvariance, PTL

(***************************************************************************)
(* The refinement of Rollout                                               *)
(***************************************************************************)

\* With one call in progress, it is its old containers that can have the traffic back.
LEMMA FallbackOf ==
  ASSUME IInv, Undisturbed, NEW g \in Generations,
         \A h \in Generations \ {g} : ~InProgress(h)
  PROVE  Fallback = IF InProgress(g) /\ pc[g] # "retire" THEN oldRunning[g] ELSE route
<1>1. \A h \in Generations \ {g} : oldRunning[h] = {}
  BY DEF IInv, CallInv, OwnContainers
<1>2. UNION {oldRunning[h] : h \in Generations} = oldRunning[g]
  BY <1>1
<1>3. Undoing <=> InProgress(g) /\ pc[g] # "retire"
  BY DEF Undoing, Active
<1> QED BY <1>2, <1>3 DEF Fallback

LEMMA FallbackThen ==
  ASSUME IInv', Undisturbed', NEW g \in Generations,
         \A h \in Generations \ {g} : ~InProgress(h)'
  PROVE  Fallback' = IF InProgress(g)' /\ pc'[g] # "retire" THEN oldRunning'[g] ELSE route'
<1>1. \A h \in Generations \ {g} : oldRunning'[h] = {}
  BY DEF IInv, CallInv, OwnContainers
<1>2. UNION {oldRunning'[h] : h \in Generations} = oldRunning'[g]
  BY <1>1
<1>3. Undoing' <=> InProgress(g)' /\ pc'[g] # "retire"
  BY DEF Undoing, Active
<1> QED BY <1>2, <1>3 DEF Fallback

\* Whoever has the traffic is healthy, and whoever can have it back.
LEMMA FallbackServes ==
  ASSUME IInv', RouteInv', Undisturbed', NEW g \in Generations,
         \A h \in Generations \ {g} : ~InProgress(h)'
  PROVE  Serving' \cup Fallback' \subseteq Healthy'
<1>1. RouteOK' /\ CleanCall(g)'
  BY DEF RouteInv, CleanInv, NoFault, Undisturbed
<1>2. InProgress(g)' /\ pc'[g] # "retire" => pc'[g] \in Before \cup Shifting
  BY DEF IInv, TypeOK, Step, InProgress, Before, Creating, Switching, Shifting
<1>3. Fallback' \subseteq Up' \cap tested'
  BY <1>1, <1>2, FallbackThen DEF RouteOK, CleanCall
<1> QED BY <1>1, <1>3 DEF Healthy, Serving, RouteOK

\* The steps that leave the route alone.
LEMMA PreparingRollsOut ==
  ASSUME IInv, RouteInv, IInv', RouteInv', Undisturbed, Undisturbed',
         NEW g \in Generations, \A h \in Generations \ {g} : ~InProgress(h)',
         \A h \in Generations \ {g} : ~InProgress(h),
         \/ Begin(g) \/ Create(g) \/ Start(g) \/ CreateOrStartFails(g)
         \/ TestPasses(g) \/ TestFails(g) \/ SwitchFails(g) \/ SoakFails(g)
         \/ RetireNext(g) \/ CleanupNext(g) \/ Finish(g)
  PROVE  Traffic!Next
<1> USE DEF Goto
<1>0. TypeOK
  BY DEF IInv
<1>1. route' = route
  BY DEF Begin, Create, Start, CreateOrStartFails, TestPasses, TestFails, SwitchFails,
     SoakFails, RetireNext, CleanupNext, Finish
<1>2. /\ Fallback = IF InProgress(g) /\ pc[g] # "retire" THEN oldRunning[g] ELSE route
      /\ Fallback' = IF InProgress(g)' /\ pc'[g] # "retire" THEN oldRunning'[g] ELSE route'
  BY FallbackOf, FallbackThen
<1>3. RouteOK /\ CleanCall(g) /\ public
  BY DEF RouteInv, CleanInv, NoFault, Undisturbed
<1>4. Fallback' = Fallback
  <2>1. CASE Begin(g)
    <3>1. ~InProgress(g) /\ pc'[g] = "create" /\ oldRunning'[g] = Up
      BY <1>0, <2>1 DEF Begin, TypeOK
    <3>2. Up = route
      <4>1. \A h \in Generations : ~InProgress(h)
        BY <3>1
      <4> QED BY <4>1, <1>3 DEF RouteInv, CleanInv, NoFault, Undisturbed, RouteOK
    <3> QED BY <1>2, <3>1, <3>2 DEF InProgress
  <2>2. CASE Create(g) \/ Start(g) \/ CreateOrStartFails(g)
    <3>1. /\ pc[g] \in {"create", "start"}
          /\ pc'[g] \in {"create", "start", "test", "cleanup"}
          /\ oldRunning' = oldRunning
      BY <1>0, <2>2 DEF Create, Start, CreateOrStartFails, locals, TypeOK
    <3> QED BY <1>2, <3>1 DEF InProgress
  <2>3. CASE TestPasses(g) \/ TestFails(g)
    <3>1. /\ pc[g] = "test" /\ pc'[g] \in {"weigh", "switch", "cleanup"}
          /\ oldRunning' = oldRunning
      BY <1>0, <1>3, <2>3 DEF TestPasses, TestFails, AfterTest, locals, TypeOK
    <3> QED BY <1>2, <3>1 DEF InProgress
  <2>4. CASE SwitchFails(g) \/ SoakFails(g)
    <3>1. /\ pc[g] \in {"switch", "weigh", "reweigh", "soak", "lastSoak"}
          /\ pc'[g] \in {"cleanup", "undo"} /\ oldRunning' = oldRunning
      BY <1>0, <2>4 DEF SwitchFails, SoakFails, locals, TypeOK
    <3> QED BY <1>2, <3>1 DEF InProgress
  <2>5. CASE RetireNext(g)
    <3>1. pc[g] = "retire" /\ pc'[g] = "retire"
      BY <1>0, <2>5 DEF RetireNext, TypeOK
    <3> QED BY <1>1, <1>2, <3>1
  <2>6. CASE CleanupNext(g)
    <3>1. pc[g] = "cleanup" /\ pc'[g] = "cleanup" /\ oldRunning' = oldRunning
      BY <1>0, <2>6 DEF CleanupNext, TypeOK
    <3> QED BY <1>2, <3>1 DEF InProgress
  <2>7. CASE Finish(g)
    <3>1. pc[g] \in {"retire", "cleanup"} /\ pc'[g] \in {"done", "failed"}
      BY <1>0, <2>7 DEF Finish, TypeOK
    <3>2. pc[g] = "cleanup" => route = oldRunning[g]
      BY <1>3 DEF CleanCall, Before
    <3> QED BY <1>1, <1>2, <3>1, <3>2 DEF InProgress
  <2> QED BY <2>1, <2>2, <2>3, <2>4, <2>5, <2>6, <2>7
<1>5. Serving' = Serving /\ Serving \cup Fallback \subseteq Healthy'
  BY <1>1, <1>4, FallbackServes DEF Serving
<1> QED BY <1>4, <1>5 DEF Traffic!Next, Traffic!ComeAndGo

\* The steps that shift the traffic, keep the new servers, or give it back.
LEMMA ShiftingRollsOut ==
  ASSUME IInv, RouteInv, IInv', RouteInv', Undisturbed, Undisturbed',
         NEW g \in Generations, \A h \in Generations \ {g} : ~InProgress(h)',
         \A h \in Generations \ {g} : ~InProgress(h),
         \/ SwitchTraffic(g) \/ SwitchWeightedTraffic(g) \/ SoakPasses(g)
         \/ Undo(g) \/ UndoFails(g)
  PROVE  Traffic!Next
<1> USE DEF Goto
<1>0. TypeOK /\ CallInv(g)
  BY DEF IInv
<1>1. /\ Healthy' = Healthy /\ oldRunning' = oldRunning
      /\ Serving = route /\ Serving' = route'
  BY DEF SwitchTraffic, SwitchWeightedTraffic, SoakPasses, Undo, UndoFails, locals,
     Healthy, Serving, Up
<1>2. /\ Fallback = IF InProgress(g) /\ pc[g] # "retire" THEN oldRunning[g] ELSE route
      /\ Fallback' = IF InProgress(g)' /\ pc'[g] # "retire" THEN oldRunning'[g] ELSE route'
  BY FallbackOf, FallbackThen
<1>3. CleanCall(g) /\ public
  BY DEF RouteInv, CleanInv, NoFault, Undisturbed
<1>4. /\ pc[g] \in Switching \cup Shifting =>
            Candidates(g) \subseteq Healthy /\ route \subseteq oldRunning[g] \cup Candidates(g)
      /\ pc[g] = "lastSoak" => route = Candidates(g)
  BY <1>0, <1>3
  DEF CallInv, CandidatesReady, CleanCall, Before, Switching, Shifting, Healthy
<1>5. CASE SwitchTraffic(g)
  <2>1. pc[g] = "switch" /\ pc'[g] = "retire" /\ route' = Candidates(g)
    BY <1>0, <1>5 DEF SwitchTraffic, TypeOK
  <2>2. Fallback = oldRunning[g] /\ Fallback' = Candidates(g)
    BY <1>2, <2>1 DEF InProgress
  <2>3. Traffic!Shift(Candidates(g))
    BY <1>1, <1>4, <2>1, <2>2 DEF Traffic!Shift, Traffic!Between, Switching
  <2> QED BY <2>3 DEF Traffic!Next
<1>6. CASE SwitchWeightedTraffic(g)
  <2>1. /\ pc[g] \in {"weigh", "reweigh"}
        /\ \/ pc'[g] = "soak" /\ route' = oldRunning[g] \cup Candidates(g)
           \/ pc'[g] = "lastSoak" /\ route' = Candidates(g)
    BY <1>0, <1>6 DEF SwitchWeightedTraffic, TypeOK
  <2>2. Fallback = oldRunning[g] /\ Fallback' = oldRunning[g]
    BY <1>1, <1>2, <2>1 DEF InProgress
  <2>3. Traffic!Share(Candidates(g)) \/ Traffic!Shift(Candidates(g))
    BY <1>1, <1>4, <2>1, <2>2
    DEF Traffic!Share, Traffic!Shift, Traffic!Between, Switching, Shifting
  <2> QED BY <2>3 DEF Traffic!Next
<1>7. CASE SoakPasses(g)
  <2>1. /\ route' = route
        /\ \/ pc[g] = "soak" /\ pc'[g] = "reweigh"
           \/ pc[g] = "lastSoak" /\ pc'[g] = "retire"
    BY <1>0, <1>7 DEF SoakPasses, TypeOK
  <2>2. CASE pc[g] = "soak" /\ pc'[g] = "reweigh"
    <3>1. Fallback' = Fallback /\ Serving' = Serving
      BY <1>1, <1>2, <2>1, <2>2 DEF InProgress
    <3>2. Serving \cup Fallback \subseteq Healthy'
      BY <3>1, FallbackServes
    <3> QED BY <3>1, <3>2 DEF Traffic!Next, Traffic!ComeAndGo
  <2>3. CASE pc[g] = "lastSoak" /\ pc'[g] = "retire"
    <3>1. Serving = Candidates(g) /\ Serving' = Serving /\ Fallback' = Candidates(g)
      BY <1>1, <1>2, <1>4, <2>1, <2>3
    <3>2. Traffic!Keep(Candidates(g))
      BY <1>1, <3>1 DEF Traffic!Keep
    <3> QED BY <3>2 DEF Traffic!Next
  <2> QED BY <2>1, <2>2, <2>3
<1>8. CASE Undo(g)
  <2>1. pc[g] = "undo" /\ pc'[g] = "cleanup" /\ route' = oldRunning[g]
    BY <1>0, <1>8 DEF Undo, TypeOK
  <2>2. Fallback = oldRunning[g] /\ Fallback' = oldRunning[g]
    BY <1>1, <1>2, <2>1 DEF InProgress
  <2> QED BY <1>1, <2>1, <2>2 DEF Traffic!Next, Traffic!GiveBack
<1>9. CASE UndoFails(g)
  BY <1>9 DEF UndoFails, Undisturbed
<1> QED BY <1>5, <1>6, <1>7, <1>8, <1>9

\* Every step of deployReplicas is a step of Rollout or none.
LEMMA StepRollsOut ==
  /\ OneCallAtATime /\ IInv /\ RouteInv /\ IInv' /\ RouteInv' /\ [Next]_vars
  => [Traffic!Next]_<<Healthy, Serving, Fallback, Undisturbed>>
<1> SUFFICES ASSUME OneCallAtATime, IInv, RouteInv, IInv', RouteInv', [Next]_vars
             PROVE  [Traffic!Next]_<<Healthy, Serving, Fallback, Undisturbed>>
  OBVIOUS
<1>1. CASE UNCHANGED vars
  <2>1. Undisturbed' = Undisturbed /\ Up' = Up
    BY <1>1 DEF vars, fixed, counters, Undisturbed, Up
  <2>2. Undoing' = Undoing
    BY <1>1 DEF vars, Undoing, Active, InProgress
  <2> QED BY <1>1, <2>1, <2>2 DEF vars, locals, Healthy, Serving, Fallback
<1>2. CASE ~Undisturbed /\ ~Undisturbed'
  BY <1>2 DEF Healthy, Serving, Fallback, Undisturbed
<1>3. CASE Undisturbed /\ ~Undisturbed'
  <2>1. Undisturbed' = FALSE
    BY <1>3 DEF Undisturbed
  <2> QED BY <1>3, <2>1 DEF Traffic!Next, Traffic!Disturb, Healthy, Serving, Fallback
<1>4. CASE Crash
  <2>1. crashes \in Nat /\ crashes' = crashes + 1
    BY <1>4, ReplicasAssumption DEF Crash, IInv, TypeOK
  <2>2. ~Undisturbed'
    BY <2>1 DEF Undisturbed
  <2> QED BY <1>2, <1>3, <2>2
<1>5. ASSUME NEW g \in Generations, CallAction(g), Undisturbed'
      PROVE  Traffic!Next
  <2>1. Undisturbed
    BY <1>5, FaultsStay DEF IInv, Undisturbed, fixed
  <2>2. \A h \in Generations \ {g} : ~InProgress(h)
    <3>1. CASE Begin(g)
      BY <3>1, NobodyActive DEF Begin
    <3>2. CASE ~Begin(g)
      <4>1. InProgress(g)
        BY <1>5, <3>2
        DEF CallAction, Create, Start, CreateOrStartFails, TestPasses, TestFails,
            SwitchTraffic, SwitchFails, SwitchWeightedTraffic, SoakPasses, SoakFails,
            Undo, UndoFails, RetireNext, CleanupNext, Finish, Goto, InProgress
      <4> QED BY <4>1, OnlyOne
    <3> QED BY <3>1, <3>2
  <2>3. \A h \in Generations \ {g} : ~InProgress(h)'
    BY <1>5, <2>2, CallFrame DEF Frame, InProgress, IInv
  <2> QED
    BY <1>5, <2>1, <2>2, <2>3, PreparingRollsOut, ShiftingRollsOut DEF CallAction
<1> QED BY <1>1, <1>2, <1>3, <1>4, <1>5 DEF Next

\* If calls for one runtime do not overlap, deployReplicas implements Rollout: until the
\* first fault, the traffic arrives at the new generation or is back where it was
\* before the call, and whoever it can go back to serves as long as it can
\* (replicas.ts:40-54).
THEOREM ImplementsRollout == OneCallAtATime /\ Spec => RollsOutOrBack
<1>1. Init => Traffic!Init
  <2> SUFFICES ASSUME Init PROVE Traffic!Init
    OBVIOUS
  <2>1. Up = {} /\ route = {} /\ ~Undoing
    BY DEF Init, Up, Undoing, Active, InProgress
  <2> QED
    BY <2>1 DEF Init, Traffic!Init, Healthy, Serving, Fallback, Undisturbed
<1>2. OneCallAtATime => []OneCallAtATime
  BY DEF OneCallAtATime
<1> QED
  BY <1>1, <1>2, StepRollsOut, RouteInvariance, PTL DEF Spec, RollsOutOrBack, Traffic!Spec

(***************************************************************************)
(* The autoscaler never goes below the minimum                             *)
(***************************************************************************)

\* A deployment has at least the replicas its autoscale part asks for.  The engine
\* does not compare the two numbers (index.ts:26, 34).
EnoughReplicas == MinReplicas <= Count

\* The replicas that make up the minimum.
Base(g) == {g} \X (1 .. MinReplicas)

\* A tick is of the generation the timer is for, and removes only its replicas.
TickInv(t) ==
    /\ tpc[t] # "idle" => timer \in Generations /\ tgen[t] = timer /\ Active = {}
    /\ tpc[t] = "shrink" => \A c \in todo[t] : c[1] = timer

\* What a tick removes has an index above the minimum.
AimsHigh(t) ==
    /\ tpc[t] = "reconcile" => target[t] >= MinReplicas
    /\ tpc[t] = "shrink" => \A c \in todo[t] : c[2] > MinReplicas

AllStarted == {"test", "switch", "weigh", "reweigh", "soak", "lastSoak", "retire"}

\* What a call has started runs, and is not what it will retire.
StartedRuns(g) ==
    /\ ~InProgress(g) => old[g] = {} /\ started[g] = {}
    /\ started[g] \subseteq Up
    /\ started[g] \cap old[g] = {}
    /\ pc[g] \in Creating => old[g] \subseteq Existing
    /\ pc[g] = "start" =>
          \A i \in 1 .. Count :
              IsNext(g, i) => <<g, i>> \notin old[g] /\ cont[<<g, i>>] = "idle"
    /\ pc[g] \in AllStarted => Candidates(g) \subseteq started[g]

\* What the call of g will remove: the old containers or, if it fails, its own.
Doomed(g) == IF pc[g] = "retire" THEN old[g] ELSE started[g]

\* The base replicas of w run, and neither a call nor a tick is about to remove one.
BaseKept(w) ==
    /\ Base(w) \subseteq Up
    /\ \A g \in Generations : Base(w) \cap Doomed(g) = {}
    /\ w = timer => \A t \in Ticks : AimsHigh(t)

\* Once there is a timer, some generation keeps its base replicas: the timer's or,
\* if its spec had no autoscale part, the one that replaced it.
SomeBaseKept == timer # NoTimer => \E w \in Generations : BaseKept(w)

ScaleTypeOK ==
    /\ TypeOK
    /\ timer \in Generations \cup {NoTimer}
    /\ tpc \in [Ticks -> {"idle", "reconcile", "grow", "probe", "shrink", "list", "write"}]
    /\ tgen \in [Ticks -> Generations \cup {NoTimer}]
    /\ target \in [Ticks -> 0 .. MaxIndex]
    /\ todo \in [Ticks -> SUBSET Container]

ScaleInv ==
    /\ ScaleTypeOK
    /\ OneCall
    /\ \A t \in Ticks : TickInv(t)
    /\ \A g \in Generations : StartedRuns(g)
    /\ EnoughReplicas => SomeBaseKept

\* As many containers as indices.
LEMMA IndexCount ==
  ASSUME NEW g, NEW n \in Nat
  PROVE  IsFiniteSet({g} \X (1 .. n)) /\ Cardinality({g} \X (1 .. n)) = n
<1> DEFINE f == [i \in 1 .. n |-> <<g, i>>]
<1>1. f \in Bijection(1 .. n, {g} \X (1 .. n))
  <2>1. f \in [1 .. n -> {g} \X (1 .. n)]
    OBVIOUS
  <2>2. \A i, j \in 1 .. n : f[i] = f[j] => i = j
    OBVIOUS
  <2>3. \A c \in {g} \X (1 .. n) : \E i \in 1 .. n : f[i] = c
    OBVIOUS
  <2> QED BY <2>1, <2>2, <2>3 DEF Bijection, Injection, Surjection, IsInjective
<1>2. ExistsBijection(1 .. n, {g} \X (1 .. n))
  BY <1>1 DEF ExistsBijection
<1>3. IsFiniteSet(1 .. n) /\ Cardinality(1 .. n) = n
  BY FS_Interval
<1> QED BY <1>2, <1>3, FS_Bijection

\* The container with the n-th highest index is above all that stay: fewer of one
\* generation than its index have an index up to it.
LEMMA HighestAreAbove ==
  ASSUME NEW g, NEW S \in SUBSET ({g} \X (1 .. MaxIndex)), NEW k \in Nat,
         Cardinality(S) > k, NEW c \in Highest(S, Cardinality(S) - k)
  PROVE  c[2] > k
<1> DEFINE above == {d \in S : d[2] > c[2]}
           upTo == {g} \X (1 .. c[2])
<1>1. c \in S /\ Cardinality(above) < Cardinality(S) - k
  BY DEF Highest
<1>2. c[2] \in 1 .. MaxIndex /\ MaxIndex \in Nat
  BY <1>1, ReplicasAssumption
<1>3. IsFiniteSet(S)
  BY <1>2, IndexCount, FS_Subset
<1>4. IsFiniteSet(upTo) /\ Cardinality(upTo) = c[2]
  <2>1. ASSUME NEW i \in Nat
        PROVE  IsFiniteSet({g} \X (1 .. i)) /\ Cardinality({g} \X (1 .. i)) = i
    BY IndexCount
  <2>2. c[2] \in Nat
    BY <1>2
  <2> QED BY <2>1, <2>2
<1>5. S \ above \subseteq upTo
  BY <1>2
<1>6. Cardinality(S \ above) <= c[2]
  BY <1>4, <1>5, FS_Subset
<1>7. Cardinality(S \ above) = Cardinality(S) - Cardinality(above)
  <2>1. S \cap above = above
    OBVIOUS
  <2>2. Cardinality(S \ above) = Cardinality(S) - Cardinality(S \cap above)
    BY <1>3, FS_Difference
  <2> QED BY <2>1, <2>2
<1>8. Cardinality(S) \in Nat /\ Cardinality(above) \in Nat
  BY <1>3, FS_CardinalityType, FS_Subset
<1>9. ASSUME NEW a \in Nat, NEW s \in Nat, NEW i \in Nat, a < s - k, s - a <= i
      PROVE  i > k
  BY <1>9
<1>10. c[2] \in Nat
  BY <1>2
<1>11. Cardinality(S) - Cardinality(above) <= c[2]
  BY <1>6, <1>7
<1> HIDE DEF above
<1> QED BY <1>1, <1>8, <1>9, <1>10, <1>11

\* The base replicas are containers, and every generation has one.
LEMMA BaseFacts ==
  ASSUME NEW g \in Generations
  PROVE  Base(g) \subseteq Container /\ <<g, 1>> \in Base(g)
<1>1. 1 .. MinReplicas \subseteq 1 .. MaxIndex /\ 1 \in 1 .. MinReplicas
  BY ReplicasAssumption, AutoscalerAssumption
<1> QED BY <1>1 DEF Base, Container

\* The replicas of a generation are counted by a natural number, at least the
\* minimum if the base replicas run.
LEMMA ReplicaCount ==
  ASSUME ScaleTypeOK, NEW g \in Generations
  PROVE  /\ Of(g) \in SUBSET ({g} \X (1 .. MaxIndex))
         /\ Cardinality(Of(g)) \in 0 .. MaxIndex
         /\ Base(g) \subseteq Up => Cardinality(Of(g)) >= MinReplicas
<1>1. Of(g) \in SUBSET ({g} \X (1 .. MaxIndex))
  BY DEF Of, Up, Container
<1>2. /\ IsFiniteSet(Of(g))
      /\ Cardinality(Of(g)) \in 0 .. MaxIndex
  <2>1. /\ IsFiniteSet({g} \X (1 .. MaxIndex))
        /\ Cardinality({g} \X (1 .. MaxIndex)) = MaxIndex
    BY ReplicasAssumption, IndexCount
  <2>2. IsFiniteSet(Of(g)) /\ Cardinality(Of(g)) <= MaxIndex
    BY <1>1, <2>1, FS_Subset
  <2> QED BY <2>2, ReplicasAssumption, FS_CardinalityType
<1>3. ASSUME Base(g) \subseteq Up PROVE Cardinality(Of(g)) >= MinReplicas
  <2>1. Base(g) \subseteq Of(g)
    BY <1>3 DEF Of, Base
  <2>2. Cardinality(Base(g)) = MinReplicas
    BY AutoscalerAssumption, IndexCount DEF Base
  <2>3. Cardinality(Base(g)) <= Cardinality(Of(g))
    BY <1>2, <2>1, FS_Subset
  <2> QED BY <2>2, <2>3, <1>2, FS_CardinalityType, AutoscalerAssumption
<1> QED BY <1>1, <1>2, <1>3, FS_CardinalityType

\* Nothing runs and there is no timer in the first state.
LEMMA ScaleInitInv == ScaleInit => ScaleInv
<1> SUFFICES ASSUME ScaleInit PROVE ScaleInv
  OBVIOUS
<1>1. \A g \in Generations : pc[g] = "new" /\ started[g] = {} /\ old[g] = {}
  BY DEF ScaleInit, Init
<1>2. OneCall
  BY <1>1 DEF OneCall, InProgress
<1>3. \A g \in Generations : StartedRuns(g)
  BY <1>1 DEF StartedRuns, Creating, AllStarted
<1>4. \A t \in Ticks : TickInv(t)
  BY DEF ScaleInit, TickInv
<1>5. SomeBaseKept
  BY DEF ScaleInit, SomeBaseKept
<1>6. 0 \in 0 .. MaxIndex
  BY ReplicasAssumption
<1>7. ScaleTypeOK
  BY <1>6, TypeInit DEF ScaleInit, ScaleTypeOK
<1> QED BY <1>2, <1>3, <1>4, <1>5, <1>7 DEF ScaleInv

\* The other ticks are as before.
TickFrame(t) ==
    \A u \in Ticks \ {t} :
        /\ tpc'[u] = tpc[u]
        /\ tgen'[u] = tgen[u]
        /\ target'[u] = target[u]
        /\ todo'[u] = todo[u]

\* A tick keeps the invariant if it removes none but its own replicas, and none of
\* the base replicas if those of its generation are the ones that are kept.
LEMMA TickKeeps ==
  ASSUME ScaleInv, ScaleTypeOK', NEW t \in Ticks, TickFrame(t),
         UNCHANGED <<pc, old, started, timer>>,
         timer \in Generations, Active = {},
         TickInv(t)',
         BaseKept(timer) => AimsHigh(t)',
         \A c \in Up \ Up' : c[1] = timer /\ (BaseKept(timer) => c \notin Base(timer))
  PROVE  ScaleInv'
<1>1. \A g \in Generations : ~InProgress(g) /\ ~InProgress(g)' /\ pc[g] # "retire"
                             /\ old'[g] = {} /\ started'[g] = {} /\ started[g] = {}
  BY DEF Active, ScaleInv, StartedRuns, InProgress
<1>2. OneCall' /\ Active' = {}
  BY <1>1 DEF OneCall, Active
<1>3. \A g \in Generations : StartedRuns(g)'
  BY <1>1 DEF StartedRuns, InProgress, Creating, AllStarted
<1>4. \A u \in Ticks : TickInv(u)'
  BY <1>2 DEF ScaleInv, TickInv, TickFrame
<1>5. ASSUME EnoughReplicas PROVE SomeBaseKept'
  <2>1. PICK w \in Generations : BaseKept(w)
    BY <1>5, AutoscalerAssumption DEF ScaleInv, SomeBaseKept
  <2>2. \A g \in Generations : Doomed(g)' = {}
    BY <1>1 DEF Doomed
  <2>3. Base(w) \subseteq Up'
    <3>1. Base(w) \subseteq Up /\ \A c \in Base(w) : c[1] = w
      BY <2>1 DEF BaseKept, Base
    <3> QED BY <2>1, <3>1
  <2>4. w = timer => \A u \in Ticks : AimsHigh(u)'
    BY <2>1 DEF BaseKept, AimsHigh, TickFrame
  <2> QED BY <2>2, <2>3, <2>4 DEF SomeBaseKept, BaseKept
<1> QED BY <1>2, <1>3, <1>4, <1>5 DEF ScaleInv, EnoughReplicas

\* A tick that begins or goes on without touching a container.
LEMMA QuietTicks ==
  ASSUME ~Overlap, ScaleInv, NEW t \in Ticks,
         Tick(t) \/ Reconcile(t) \/ GrowFails(t) \/ ListActive(t) \/ WriteRoute(t)
  PROVE  ScaleInv'
<1> USE DEF GoOn, Return
<1>0. ScaleTypeOK /\ TickInv(t)
  BY DEF ScaleInv
<1>1. UNCHANGED <<pc, old, started, timer, cont>> /\ TickFrame(t)
  BY <1>0 DEF Tick, Reconcile, GrowFails, ListActive, WriteRoute, vars, locals,
     TickFrame, ScaleTypeOK
<1>2. Up' = Up
  BY <1>1 DEF Up
<1>3. timer \in Generations /\ Active = {} /\ Active' = {}
  <2>1. timer \in Generations /\ Active = {}
    <3>1. CASE Tick(t)
      BY <1>0, <3>1 DEF Tick, ScaleTypeOK
    <3>2. CASE ~Tick(t)
      BY <1>0, <3>2 DEF Reconcile, GrowFails, ListActive, WriteRoute, TickInv
    <3> QED BY <3>1, <3>2
  <2> QED BY <1>1, <2>1 DEF Active, InProgress
<1>4. SUFFICES ScaleTypeOK' /\ TickInv(t)' /\ (BaseKept(timer) => AimsHigh(t)')
  BY <1>1, <1>2, <1>3, <1>4, TickKeeps
<1>5. /\ Cardinality(Of(timer)) \in 0 .. MaxIndex
      /\ BaseKept(timer) => Cardinality(Of(timer)) >= MinReplicas
  BY <1>0, <1>3, ReplicaCount DEF BaseKept
<1>6. CASE Tick(t)
  <2>1. PICK n \in 0 .. MaxIndex :
          /\ target' = [target EXCEPT ![t] = n]
          /\ BaseKept(timer) => n >= MinReplicas
    <3> DEFINE current == Cardinality(Of(timer))
    <3>0. /\ current \in 0 .. MaxIndex /\ MaxReplicas \in 0 .. MaxIndex
          /\ MinReplicas \in 1 .. MaxIndex /\ MaxIndex \in Nat
      BY <1>5, ReplicasAssumption, AutoscalerAssumption
    <3>1. \/ current < MaxReplicas /\ target' = [target EXCEPT ![t] = current + 1]
          \/ current > MinReplicas /\ target' = [target EXCEPT ![t] = current - 1]
      BY <1>6 DEF Tick
    <3> HIDE DEF current
    <3>2. CASE current < MaxReplicas /\ target' = [target EXCEPT ![t] = current + 1]
      <4>1. current + 1 \in 0 .. MaxIndex
        BY <3>0, <3>2
      <4>2. current >= MinReplicas => current + 1 >= MinReplicas
        BY <3>0
      <4> QED BY <1>5, <3>2, <4>1, <4>2 DEF current
    <3>3. CASE current > MinReplicas /\ target' = [target EXCEPT ![t] = current - 1]
      <4>1. current - 1 \in 0 .. MaxIndex /\ current - 1 >= MinReplicas
        BY <3>0, <3>3
      <4> QED BY <3>3, <4>1
    <3> QED BY <3>1, <3>2, <3>3
  <2>2. tpc'[t] = "reconcile" /\ tgen'[t] = timer /\ target'[t] = n
    BY <1>0, <1>6, <2>1 DEF Tick, ScaleTypeOK
  <2>3. TickInv(t)' /\ (BaseKept(timer) => AimsHigh(t)')
    BY <1>1, <1>3, <2>1, <2>2 DEF TickInv, AimsHigh
  <2>4. UNCHANGED vars /\ tpc' = [tpc EXCEPT ![t] = "reconcile"]
        /\ tgen' = [tgen EXCEPT ![t] = timer] /\ UNCHANGED <<timer, todo>>
    BY <1>6 DEF Tick
  <2>5. ScaleTypeOK'
    BY <1>0, <1>3, <2>1, <2>4
    DEF vars, locals, fixed, counters, TypeOK, ScaleTypeOK
  <2> QED BY <2>3, <2>5
<1>7. CASE Reconcile(t)
  <2> DEFINE items == Of(timer)
             current == Cardinality(items)
             n == target[t]
  <2>0. /\ tpc[t] = "reconcile" /\ tgen[t] = timer /\ n \in 0 .. MaxIndex
        /\ current \in 0 .. MaxIndex /\ MaxIndex \in Nat /\ UNCHANGED vars
        /\ BaseKept(timer) => n >= MinReplicas
    BY <1>0, <1>3, <1>5, <1>7, ReplicasAssumption
    DEF Reconcile, TickInv, ScaleTypeOK, BaseKept, AimsHigh
  <2>1. CASE current = n /\ Return(t)
    <3>1. tpc'[t] = "idle" /\ TickInv(t)' /\ AimsHigh(t)'
      BY <1>0, <2>1 DEF ScaleTypeOK, TickInv, AimsHigh
    <3>2. 0 \in 0 .. MaxIndex
      BY ReplicasAssumption
    <3>3. ScaleTypeOK'
      BY <1>0, <1>7, <2>0, <2>1, <3>2
      DEF Reconcile, ScaleTypeOK, TypeOK, vars, locals, fixed, counters
    <3> QED BY <3>1, <3>3
  <2>2. CASE /\ current < n /\ GoOn(t, "reconcile", "grow")
             /\ todo' = [todo EXCEPT ![t] = {timer} \X (current + 1 .. n)]
             /\ UNCHANGED <<tgen, target>>
    <3>1. {timer} \X (current + 1 .. n) \subseteq Container
      BY <1>3, <2>0 DEF Container
    <3>2. ScaleTypeOK'
      BY <1>0, <1>7, <2>0, <2>2, <3>1
      DEF Reconcile, ScaleTypeOK, TypeOK, vars, locals, fixed, counters
    <3> QED
      BY <1>0, <1>1, <1>3, <2>0, <2>2, <3>2 DEF ScaleTypeOK, TickInv, AimsHigh
  <2>3. CASE /\ current > n /\ GoOn(t, "reconcile", "shrink")
             /\ todo' = [todo EXCEPT ![t] = Highest(items, current - n)]
             /\ UNCHANGED <<tgen, target>>
    <3>1. items \in SUBSET ({timer} \X (1 .. MaxIndex))
      BY <1>0, <1>3, ReplicaCount
    <3>2. /\ Highest(items, current - n) \subseteq Container
          /\ \A c \in Highest(items, current - n) : c[1] = timer
      BY <1>3, <3>1 DEF Highest, Container
    <3>3. ASSUME NEW c \in Highest(items, current - n) PROVE c[2] > n
      <4>1. n \in Nat /\ current > n
        BY <2>0, <2>3
      <4> HIDE DEF items, n
      <4> QED BY <3>1, <4>1, HighestAreAbove
    <3>4. \A c \in Highest(items, current - n) : BaseKept(timer) => c[2] > MinReplicas
      <4>1. \A c \in Highest(items, current - n) : c[2] \in Int
        BY <3>2 DEF Container
      <4>2. ASSUME NEW i \in Int, i > n, n >= MinReplicas PROVE i > MinReplicas
        BY <2>0, <4>2, AutoscalerAssumption
      <4> HIDE DEF items, current, n
      <4> QED BY <2>0, <3>3, <4>1, <4>2
    <3>5. ScaleTypeOK'
      BY <1>0, <1>7, <2>0, <2>3, <3>2
      DEF Reconcile, ScaleTypeOK, TypeOK, vars, locals, fixed, counters
    <3>6. tpc'[t] = "shrink" /\ todo'[t] = Highest(items, current - n) /\ tgen'[t] = timer
      BY <1>0, <2>0, <2>3 DEF ScaleTypeOK
    <3> QED
      BY <1>1, <1>3, <3>2, <3>4, <3>5, <3>6 DEF TickInv, AimsHigh
  <2> QED BY <1>7, <2>0, <2>1, <2>2, <2>3 DEF Reconcile
<1>8. CASE GrowFails(t) \/ WriteRoute(t)
  <2>1. tpc'[t] = "idle" /\ TickInv(t)' /\ AimsHigh(t)'
    BY <1>0, <1>8 DEF GrowFails, WriteRoute, ScaleTypeOK, TickInv, AimsHigh
  <2>2. 0 \in 0 .. MaxIndex
    BY ReplicasAssumption
  <2> QED
    BY <1>0, <1>8, <2>1, <2>2
    DEF GrowFails, WriteRoute, ScaleTypeOK, TypeOK, vars, locals, fixed, counters
<1>9. CASE ListActive(t)
  <2>1. Of(tgen[t]) \subseteq Container
    BY DEF Of, Up
  <2>2. tpc[t] = "list" /\ tpc'[t] = "write" /\ tgen' = tgen
    BY <1>0, <1>9 DEF ListActive, ScaleTypeOK
  <2>3. TickInv(t)' /\ AimsHigh(t)'
    BY <1>0, <1>1, <1>3, <2>2 DEF TickInv, AimsHigh
  <2> QED
    BY <1>0, <1>9, <2>1, <2>3
    DEF ListActive, ScaleTypeOK, TypeOK, vars, locals, fixed, counters
<1> QED BY <1>6, <1>7, <1>8, <1>9

\* A tick that adds a replica, tests it, or removes one.
LEMMA ChangingTicks ==
  ASSUME ScaleInv, NEW t \in Ticks, Grow(t) \/ ProbePasses(t) \/ Shrink(t)
  PROVE  ScaleInv'
<1> USE DEF GoOn
<1>0. ScaleTypeOK /\ TickInv(t)
  BY DEF ScaleInv
<1>1. UNCHANGED <<pc, old, started, timer, tgen, target>> /\ TickFrame(t)
  BY <1>0 DEF Grow, ProbePasses, Shrink, locals, TickFrame, ScaleTypeOK
<1>2. tpc[t] # "idle"
  <2>1. CASE Shrink(t)
    BY <2>1 DEF Shrink
  <2>2. CASE Grow(t) \/ ProbePasses(t)
    BY <2>2 DEF Grow, ProbePasses
  <2> QED BY <2>1, <2>2
<1>3. timer \in Generations /\ tgen[t] = timer /\ Active = {} /\ Active' = {}
  BY <1>0, <1>1, <1>2 DEF TickInv, Active, InProgress
<1>4. CASE Grow(t) \/ ProbePasses(t)
  <2>1. tpc'[t] \in {"probe", "grow", "list"} /\ Up \subseteq Up'
    BY <1>0, <1>4 DEF Grow, ProbePasses, ScaleTypeOK, TypeOK, Up
  <2>2. TickInv(t)' /\ AimsHigh(t)'
    BY <1>1, <1>3, <2>1 DEF TickInv, AimsHigh
  <2>3. ScaleTypeOK'
    <3>1. CASE Grow(t)
      BY <1>0, <3>1
      DEF Grow, ScaleTypeOK, TypeOK, ContainerState, locals, fixed, counters
    <3>2. CASE ProbePasses(t)
      <4>1. PICK c \in todo[t] :
              /\ tested' = tested \cup {c}
              /\ tpc' = [tpc EXCEPT ![t] = IF todo[t] = {c} THEN "list" ELSE "grow"]
              /\ todo' = [todo EXCEPT ![t] = @ \ {c}]
        BY <3>2 DEF ProbePasses
      <4>2. tested' \subseteq Container /\ todo' \in [Ticks -> SUBSET Container]
        BY <1>0, <4>1 DEF ScaleTypeOK, TypeOK
      <4> QED
        BY <1>0, <3>2, <4>1, <4>2
        DEF ProbePasses, ScaleTypeOK, TypeOK, locals, fixed, counters
    <3> QED BY <1>4, <3>1, <3>2
  <2> QED BY <1>1, <1>3, <2>1, <2>2, <2>3, TickKeeps
<1>5. CASE Shrink(t)
  <2>1. PICK c \in todo[t] :
          /\ Remove(c)
          /\ tpc[t] = "shrink"
          /\ tpc' = [tpc EXCEPT ![t] = IF todo[t] = {c} THEN "list" ELSE "shrink"]
          /\ todo' = [todo EXCEPT ![t] = @ \ {c}]
    BY <1>5 DEF Shrink
  <2>2. c \in Container /\ c[1] = timer
    BY <1>0, <2>1 DEF TickInv, ScaleTypeOK
  <2>3. cont' \in [Container -> ContainerState] /\ faults' \in 0 .. MaxFaults
    BY <1>0, <2>1, <2>2, ReplicasAssumption
    DEF Remove, ScaleTypeOK, TypeOK, ContainerState
  <2>4. Up \ Up' \subseteq {c}
    BY <1>0, <2>1 DEF Remove, Up, ScaleTypeOK, TypeOK
  <2>5. BaseKept(timer) => c[2] > MinReplicas /\ AimsHigh(t)
    BY <2>1 DEF BaseKept, AimsHigh
  <2>6. BaseKept(timer) => c \notin Base(timer)
    <3>1. \A b \in Base(timer) : b[2] \in 1 .. MinReplicas
      BY DEF Base
    <3> QED BY <2>5, <3>1, AutoscalerAssumption
  <2>7. tpc'[t] \in {"list", "shrink"} /\ todo'[t] \subseteq todo[t]
    BY <1>0, <2>1 DEF ScaleTypeOK
  <2>8. TickInv(t)' /\ (AimsHigh(t) => AimsHigh(t)')
    BY <1>0, <1>1, <1>3, <2>1, <2>7 DEF TickInv, AimsHigh
  <2>9. todo' \in [Ticks -> SUBSET Container]
    BY <1>0, <2>1 DEF ScaleTypeOK
  <2>10. ScaleTypeOK'
    BY <1>0, <1>5, <2>1, <2>3, <2>9
    DEF Shrink, ScaleTypeOK, TypeOK, locals, fixed, counters
  <2> QED BY <1>1, <1>3, <2>2, <2>4, <2>5, <2>6, <2>8, <2>10, TickKeeps
<1> QED BY <1>4, <1>5

\* What one call has to do: it keeps what is said of it, and removes no replica
\* but what it was going to, unless its own candidates are the ones that are kept.
LEMMA DeployKeeps ==
  ASSUME ~Overlap, ScaleInv, NEW g \in Generations, Deploy(g),
         \A h \in Generations \ {g} : ~InProgress(h),
         StartedRuns(g)',
         \/ pc'[g] \in {"retire", "done"} /\ Candidates(g) \subseteq Up'
            /\ Candidates(g) \cap Doomed(g)' = {}
         \/ /\ timer' = timer
            /\ \A w \in Generations : Base(w) \subseteq Up /\ Base(w) \cap Doomed(g) = {}
                  => Base(w) \subseteq Up' /\ Base(w) \cap Doomed(g)' = {}
  PROVE  ScaleInv'
<1>0. TypeOK /\ TypeOK' /\ CallAction(g)
  BY TypeCall DEF ScaleInv, ScaleTypeOK, Deploy
<1>1. Frame(g)
  BY <1>0, CallFrame
<1>2. \A t \in Ticks : tpc[t] = "idle"
  BY DEF Deploy
<1>3. UNCHANGED <<tpc, tgen, target, todo>> /\ timer' \in {g, timer}
  BY DEF Deploy, tickVars
<1>4. ScaleTypeOK'
  BY <1>0, <1>3 DEF ScaleInv, ScaleTypeOK
<1>5. \A h \in Generations \ {g} : ~InProgress(h)' /\ old'[h] = {} /\ started'[h] = {}
                                   /\ Doomed(h)' = {}
  BY <1>1 DEF Frame, InProgress, ScaleInv, StartedRuns, Doomed
<1>6. OneCall'
  BY <1>5 DEF OneCall
<1>7. \A h \in Generations : StartedRuns(h)'
  BY <1>5 DEF StartedRuns, InProgress, Creating, AllStarted
<1>8. \A t \in Ticks : TickInv(t)' /\ AimsHigh(t)'
  BY <1>2, <1>3 DEF TickInv, AimsHigh
<1>9. ASSUME EnoughReplicas PROVE SomeBaseKept'
  <2>1. CASE /\ Candidates(g) \subseteq Up'
             /\ Candidates(g) \cap Doomed(g)' = {}
    <3>1. Base(g) \subseteq Candidates(g)
      BY <1>9, ReplicasAssumption, AutoscalerAssumption
      DEF EnoughReplicas, Base, Candidates
    <3> QED BY <1>5, <1>8, <2>1, <3>1 DEF SomeBaseKept, BaseKept
  <2>2. CASE /\ timer' = timer
             /\ \A w \in Generations : Base(w) \subseteq Up /\ Base(w) \cap Doomed(g) = {}
                  => Base(w) \subseteq Up' /\ Base(w) \cap Doomed(g)' = {}
    BY <1>5, <1>8, <1>9, <2>2 DEF ScaleInv, SomeBaseKept, BaseKept
  <2> QED BY <2>1, <2>2
<1> QED BY <1>4, <1>6, <1>7, <1>8, <1>9 DEF ScaleInv, EnoughReplicas

\* Beginning, creating and starting: a new container is neither old nor one of
\* those that are kept.
LEMMA CreatingKeepsBase ==
  ASSUME ~Overlap, OneCallAtATime, ScaleInv,
         NEW g \in Generations, Deploy(g), Begin(g) \/ Create(g) \/ Start(g)
  PROVE  ScaleInv'
<1> USE DEF Goto
<1>0. TypeOK /\ TypeOK' /\ CallAction(g) /\ StartedRuns(g)
  BY TypeCall DEF ScaleInv, ScaleTypeOK, Deploy
<1>1. CASE Begin(g)
  <2>1. \A h \in Generations : ~InProgress(h)
    BY <1>1, NobodyActive DEF Begin
  <2>2. pc'[g] = "create" /\ old'[g] = Existing /\ started'[g] = {} /\ cont' = cont
    BY <1>0, <1>1 DEF Begin, TypeOK
  <2>3. timer' = timer /\ Up' = Up /\ Existing' = Existing /\ Doomed(g)' = {}
    BY <2>2 DEF Deploy, Up, Existing, Doomed
  <2>4. StartedRuns(g)'
    BY <2>2, <2>3 DEF StartedRuns, InProgress, Creating, AllStarted
  <2> QED BY <2>1, <2>3, <2>4, DeployKeeps
<1>2. CASE Create(g)
  <2>1. PICK i \in 1 .. Count :
          /\ IsNext(g, i)
          /\ cont[<<g, i>>] = "none"
          /\ cont' = [cont EXCEPT ![<<g, i>>] = "idle"]
    BY <1>2 DEF Create
  <2>2. pc[g] = "create" /\ pc'[g] = "start" /\ UNCHANGED <<old, started>>
    BY <1>0, <1>2 DEF Create, locals, TypeOK
  <2>3. <<g, i>> \in Container /\ cont'[<<g, i>>] = "idle"
    BY <1>0, <2>1, CandidateFacts DEF TypeOK
  <2>4. timer' = timer /\ Up' = Up /\ Existing \subseteq Existing'
        /\ Doomed(g)' = Doomed(g)
    BY <1>0, <2>1, <2>2, <2>3 DEF Deploy, Up, Existing, Doomed, TypeOK
  <2>5. <<g, i>> \notin old[g]
    BY <1>0, <2>1, <2>2 DEF StartedRuns, Existing, Creating
  <2>6. \A j \in 1 .. Count : IsNext(g, j)' => j = i
    <3>1. \A j \in 1 .. Count : IsNext(g, j)' => IsNext(g, j)
      BY <2>2 DEF IsNext
    <3> QED BY <2>1, <3>1, NextIsUnique
  <2>7. StartedRuns(g)'
    BY <1>0, <2>2, <2>3, <2>4, <2>5, <2>6
    DEF StartedRuns, InProgress, Creating, AllStarted
  <2>8. \A h \in Generations \ {g} : ~InProgress(h)
    BY <2>2 DEF ScaleInv, OneCall, InProgress
  <2> QED BY <2>4, <2>7, <2>8, DeployKeeps
<1>3. CASE Start(g)
  <2>1. PICK i \in 1 .. Count :
          /\ IsNext(g, i)
          /\ pc' = [pc EXCEPT ![g] = IF i = Count THEN "test" ELSE "create"]
          /\ cont' = [cont EXCEPT ![<<g, i>>] = "running"]
          /\ started' = [started EXCEPT ![g] = @ \cup {<<g, i>>}]
    BY <1>3 DEF Start
  <2>2. pc[g] = "start" /\ old' = old /\ started'[g] = started[g] \cup {<<g, i>>}
        /\ pc'[g] = IF i = Count THEN "test" ELSE "create"
    BY <1>0, <1>3, <2>1 DEF Start, TypeOK
  <2>3. <<g, i>> \in Container /\ <<g, i>> \notin old[g] /\ cont[<<g, i>>] = "idle"
    BY <1>0, <2>1, <2>2, CandidateFacts DEF StartedRuns
  <2>4. timer' = timer /\ Up' = Up \cup {<<g, i>>} /\ Existing' = Existing
    BY <1>0, <2>1, <2>2, <2>3 DEF Deploy, Up, Existing, TypeOK
  <2>5. pc'[g] = "test" => Candidates(g) \subseteq started'[g]
    <3>1. ASSUME i = Count, NEW j \in 1 .. Count PROVE <<g, j>> \in started'[g]
      <4>1. j < i \/ j = i
        BY <3>1, ReplicasAssumption
      <4> QED BY <2>1, <2>2, <4>1 DEF IsNext
    <3> QED BY <2>2, <3>1, CandidateFacts
  <2>6. StartedRuns(g)'
    BY <1>0, <2>2, <2>3, <2>4, <2>5
    DEF StartedRuns, InProgress, Creating, AllStarted
  <2>7. ASSUME NEW w \in Generations, Base(w) \subseteq Up,
               Base(w) \cap Doomed(g) = {}
        PROVE  Base(w) \subseteq Up' /\ Base(w) \cap Doomed(g)' = {}
    <3>1. w # g
      <4> SUFFICES ASSUME w = g PROVE FALSE
        OBVIOUS
      <4>1. <<g, 1>> \in Up /\ <<g, 1>> \notin started[g]
        BY <2>2, <2>7, BaseFacts DEF Doomed
      <4>2. 1 \in 1 .. Count /\ ~(1 < i)
        BY <2>1, <4>1, ReplicasAssumption DEF IsNext
      <4>3. i = 1
        BY <4>2, ReplicasAssumption
      <4> QED BY <2>3, <4>1, <4>3 DEF Up
    <3>2. <<g, i>> \notin Base(w)
      BY <3>1 DEF Base
    <3>3. Doomed(g)' = Doomed(g) \cup {<<g, i>>}
      BY <2>2 DEF Doomed
    <3> QED BY <2>4, <2>7, <3>2, <3>3
  <2>8. \A h \in Generations \ {g} : ~InProgress(h)
    BY <2>2 DEF ScaleInv, OneCall, InProgress
  <2> QED BY <2>4, <2>6, <2>7, <2>8, DeployKeeps
<1> QED BY <1>1, <1>2, <1>3

\* Testing and shifting the traffic change no container; when a call begins to
\* retire the old ones, its own are the ones that are kept.
LEMMA ShiftingKeepsBase ==
  ASSUME ~Overlap, ScaleInv, NEW g \in Generations, Deploy(g),
         \/ CreateOrStartFails(g) \/ TestPasses(g) \/ TestFails(g)
         \/ SwitchTraffic(g) \/ SwitchFails(g) \/ SwitchWeightedTraffic(g)
         \/ SoakPasses(g) \/ SoakFails(g) \/ Undo(g) \/ UndoFails(g)
  PROVE  ScaleInv'
<1> USE DEF Goto
<1>0. TypeOK /\ StartedRuns(g)
  BY DEF ScaleInv, ScaleTypeOK
<1>1. UNCHANGED <<old, started, cont>>
  BY DEF CreateOrStartFails, TestPasses, TestFails, SwitchTraffic, SwitchFails,
     SwitchWeightedTraffic, SoakPasses, SoakFails, Undo, UndoFails, locals
<1>2. Up' = Up /\ Existing' = Existing
  BY <1>1 DEF Up, Existing
<1>3. /\ pc[g] \in AllStarted \cup {"create", "start", "undo"}
      /\ pc[g] # "retire"
      /\ pc'[g] \in {"cleanup", "undo"}
         \/ (pc[g] \in AllStarted /\ pc'[g] \in AllStarted)
  BY <1>0
  DEF CreateOrStartFails, TestPasses, TestFails, SwitchTraffic, SwitchFails,
      SwitchWeightedTraffic, SoakPasses, SoakFails, Undo, UndoFails, TypeOK,
      AfterTest, AllStarted
<1>4. timer' = timer
  BY <1>3 DEF Deploy
<1>5. InProgress(g) /\ InProgress(g)'
  BY <1>3 DEF InProgress, AllStarted
<1>6. StartedRuns(g)'
  BY <1>0, <1>1, <1>2, <1>3, <1>5 DEF StartedRuns, Creating, AllStarted
<1>7. \A h \in Generations \ {g} : ~InProgress(h)
  BY <1>5 DEF ScaleInv, OneCall
<1>8. CASE pc'[g] = "retire"
  <2>1. Candidates(g) \subseteq Up' /\ Candidates(g) \cap Doomed(g)' = {}
    BY <1>6, <1>8 DEF StartedRuns, AllStarted, Doomed
  <2> QED BY <1>6, <1>7, <1>8, <2>1, DeployKeeps
<1>9. CASE pc'[g] # "retire"
  <2>1. Doomed(g)' = Doomed(g)
    BY <1>1, <1>3, <1>9 DEF Doomed
  <2> QED BY <1>2, <1>4, <1>6, <1>7, <2>1, DeployKeeps
<1> QED BY <1>8, <1>9

\* Removing takes down only what was doomed; when a call is done, its candidates
\* run.
LEMMA RemovingKeepsBase ==
  ASSUME ~Overlap, ScaleInv, NEW g \in Generations, Deploy(g),
         RetireNext(g) \/ CleanupNext(g) \/ Finish(g)
  PROVE  ScaleInv'
<1> USE DEF Goto
<1>0. TypeOK /\ StartedRuns(g)
  BY DEF ScaleInv, ScaleTypeOK
<1>1. pc[g] \in {"retire", "cleanup"}
  BY DEF RetireNext, CleanupNext, Finish
<1>2. \A h \in Generations \ {g} : ~InProgress(h)
  BY <1>1 DEF ScaleInv, OneCall, InProgress
<1>3. ASSUME NEW c \in Doomed(g), Remove(c), UNCHANGED pc,
             pc[g] = "retire" => started'[g] = started[g] /\ old'[g] = old[g] \ {c},
             pc[g] = "cleanup" => started'[g] = started[g] \ {c} /\ old'[g] = old[g]
      PROVE  ScaleInv'
  <2>1. c \in Container
    BY <1>0, <1>3 DEF Doomed, TypeOK
  <2>2. Up \ {c} \subseteq Up'
    BY <1>0, <1>3 DEF Remove, Up, TypeOK
  <2>3. pc'[g] = pc[g] /\ timer' = timer
    BY <1>0, <1>3 DEF Deploy, TypeOK
  <2>4. Doomed(g)' \subseteq Doomed(g) /\ c \notin Doomed(g)'
    BY <1>1, <1>3, <2>3 DEF Doomed
  <2>5. started'[g] \subseteq Up' /\ started'[g] \cap old'[g] = {}
    BY <1>0, <1>1, <1>3, <2>2 DEF StartedRuns, Doomed
  <2>6. StartedRuns(g)'
    BY <1>0, <1>1, <1>3, <2>3, <2>5
    DEF StartedRuns, InProgress, Creating, AllStarted
  <2> QED BY <1>2, <1>3, <2>2, <2>3, <2>4, <2>6, DeployKeeps
<1>4. CASE RetireNext(g)
  <2>1. PICK c \in old[g] : Remove(c) /\ old' = [old EXCEPT ![g] = @ \ {c}]
    BY <1>4 DEF RetireNext
  <2>2. pc[g] = "retire" /\ UNCHANGED <<pc, started>>
    BY <1>0, <1>4 DEF RetireNext, TypeOK
  <2>3. c \in Doomed(g) /\ old'[g] = old[g] \ {c}
    BY <1>0, <2>1, <2>2 DEF Doomed, TypeOK
  <2> QED BY <1>3, <2>1, <2>2, <2>3
<1>5. CASE CleanupNext(g)
  <2>1. PICK c \in started[g] : Remove(c) /\ started' = [started EXCEPT ![g] = @ \ {c}]
    BY <1>5 DEF CleanupNext
  <2>2. pc[g] = "cleanup" /\ UNCHANGED <<pc, old>>
    BY <1>0, <1>5 DEF CleanupNext, TypeOK
  <2>3. c \in Doomed(g) /\ started'[g] = started[g] \ {c}
    BY <1>0, <2>1, <2>2 DEF Doomed, TypeOK
  <2> QED BY <1>3, <2>1, <2>2, <2>3
<1>6. CASE Finish(g)
  <2>1. old'[g] = {} /\ started'[g] = {} /\ cont' = cont
        /\ ((pc[g] = "retire" /\ pc'[g] = "done") \/ (pc[g] = "cleanup" /\ pc'[g] = "failed"))
    BY <1>0, <1>6 DEF Finish, Forget, TypeOK
  <2>2. StartedRuns(g)' /\ Doomed(g)' = {} /\ Up' = Up
    BY <2>1 DEF StartedRuns, InProgress, Creating, AllStarted, Doomed, Up
  <2>3. CASE pc[g] = "retire" /\ pc'[g] = "done"
    <3>1. Candidates(g) \subseteq Up
      BY <1>0, <2>3 DEF StartedRuns, AllStarted
    <3> QED BY <1>2, <2>2, <2>3, <3>1, DeployKeeps
  <2>4. CASE pc[g] = "cleanup" /\ pc'[g] = "failed"
    <3>1. timer' = timer
      BY <2>4 DEF Deploy
    <3> QED BY <1>2, <2>2, <3>1, DeployKeeps
  <2> QED BY <2>1, <2>3, <2>4
<1> QED BY <1>4, <1>5, <1>6

\* Every step of a deployment or a tick keeps the invariant, and so does a crash.
LEMMA ScaleStep ==
  ~Overlap /\ OneCallAtATime /\ ScaleInv /\ [ScaleNext]_allVars => ScaleInv'
<1> SUFFICES ASSUME ~Overlap, OneCallAtATime, ScaleInv, [ScaleNext]_allVars
             PROVE  ScaleInv'
  OBVIOUS
<1>1. ASSUME NEW g \in Generations, Deploy(g) PROVE ScaleInv'
  BY <1>1, CreatingKeepsBase, ShiftingKeepsBase, RemovingKeepsBase
  DEF Deploy, CallAction
<1>2. ASSUME NEW t \in Ticks, TickAction(t) PROVE ScaleInv'
  BY <1>2, QuietTicks, ChangingTicks DEF TickAction
<1>3. CASE ScaleCrash
  <2>1. \A g \in Generations : ~InProgress(g)' /\ old'[g] = {} /\ started'[g] = {}
    BY <1>3 DEF ScaleCrash, Crash, InProgress, ScaleInv, ScaleTypeOK, TypeOK
  <2>2. OneCall' /\ \A g \in Generations : StartedRuns(g)'
    BY <2>1 DEF OneCall, StartedRuns, InProgress, Creating, AllStarted
  <2>3. SomeBaseKept' /\ \A t \in Ticks : TickInv(t)'
    BY <1>3 DEF ScaleCrash, SomeBaseKept, TickInv
  <2>4. TypeOK'
    BY <1>3, TypeStep DEF ScaleCrash, Next, ScaleInv, ScaleTypeOK
  <2>5. 0 \in 0 .. MaxIndex
    BY ReplicasAssumption
  <2>6. ScaleTypeOK'
    BY <1>3, <2>4, <2>5 DEF ScaleCrash, ScaleTypeOK
  <2> QED BY <2>2, <2>3, <2>6 DEF ScaleInv
<1>4. CASE UNCHANGED allVars
  <2>1. UNCHANGED <<pc, old, started, cont, timer, tpc, tgen, target, todo>>
    BY <1>4 DEF allVars, vars, locals, scaleVars, tickVars
  <2>2. TypeOK'
    BY <1>4, TypeStep DEF allVars, ScaleInv, ScaleTypeOK
  <2>3. Up' = Up /\ Existing' = Existing /\ Active' = Active
    BY <2>1 DEF Up, Existing, Active, InProgress
  <2>4. ScaleTypeOK' /\ OneCall'
    BY <2>1, <2>2 DEF ScaleInv, ScaleTypeOK, OneCall, InProgress
  <2>5. \A g \in Generations : StartedRuns(g)' /\ Doomed(g)' = Doomed(g)
    BY <2>1, <2>3 DEF ScaleInv, StartedRuns, InProgress, IsNext, Doomed
  <2>6. \A t \in Ticks : TickInv(t)' /\ (AimsHigh(t) => AimsHigh(t)')
    BY <2>1, <2>3 DEF ScaleInv, TickInv, AimsHigh
  <2>7. SomeBaseKept => SomeBaseKept'
    BY <2>1, <2>3, <2>5, <2>6 DEF SomeBaseKept, BaseKept
  <2> QED BY <2>4, <2>5, <2>6, <2>7 DEF ScaleInv, EnoughReplicas
<1> QED BY <1>1, <1>2, <1>3, <1>4 DEF ScaleNext

\* The invariant holds in every reachable state.
LEMMA ScaleInvariance == ~Overlap /\ OneCallAtATime /\ ScaleSpec => []ScaleInv
<1>1. ~Overlap /\ OneCallAtATime => [](~Overlap /\ OneCallAtATime)
  BY DEF OneCallAtATime
<1> QED BY ScaleInitInv, ScaleStep, <1>1, PTL DEF ScaleSpec

\* If neither calls nor ticks and calls overlap, and a deployment has at least its
\* minimum, then however many ticks overlap, and whatever faults and crashes there
\* are, they never scale a generation that runs alone below the minimum
\* (replicas.ts:61-63, 67).
THEOREM TicksRespectMinimum ==
  ~Overlap /\ OneCallAtATime /\ EnoughReplicas /\ ScaleSpec => []NeverBelowMin
<1>1. ASSUME EnoughReplicas, ScaleInv PROVE NeverBelowMin
  <2> SUFFICES ASSUME timer # NoTimer, Up \subseteq Of(timer)
               PROVE  Cardinality(Of(timer)) >= MinReplicas
    BY DEF NeverBelowMin
  <2>1. timer \in Generations
    BY <1>1 DEF ScaleInv, ScaleTypeOK
  <2>2. PICK w \in Generations : Base(w) \subseteq Up
    BY <1>1 DEF ScaleInv, SomeBaseKept, BaseKept
  <2>3. w = timer
    BY <2>2, BaseFacts DEF Of
  <2> QED BY <1>1, <2>1, <2>2, <2>3, ReplicaCount DEF ScaleInv
<1>2. EnoughReplicas => []EnoughReplicas
  BY DEF EnoughReplicas
<1> QED BY ScaleInvariance, <1>1, <1>2, PTL
(***************************************************************************)
(* The autoscaler keeps the promise                                        *)
(***************************************************************************)

\* The first replica of the generation the timer is for serves.
FirstServes ==
    /\ <<timer, 1>> \in Up \cap tested
    /\ public => <<timer, 1>> \in route

\* While a call is in progress, all that runs is old or its own; and until it retires
\* the old ones, the timer's generation has no replica but those that the call has
\* started, or its first replica is one that the call will not lose.
TimerCall(g) ==
    /\ Up \subseteq old[g] \cup started[g]
    /\ timer # NoTimer /\ pc[g] # "retire" =>
          \/ Of(timer) \subseteq started[g]
          \/ /\ <<timer, 1>> \in oldRunning[g] \cap Up \cap tested
             /\ public /\ pc[g] \notin Shifting => <<timer, 1>> \in route

\* While a tick is in progress the first replica serves: the tick does not aim below
\* it, does not remove it, and has it in the list it writes to the route.
TickServes(t) ==
    /\ tpc[t] # "idle" => FirstServes
    /\ tpc[t] = "reconcile" => target[t] >= 1
    /\ tpc[t] = "shrink" => \A c \in todo[t] : c[2] > 1
    /\ tpc[t] = "write" => <<timer, 1>> \in todo[t]

\* Nothing has been left behind, and no undo has been lost.
Faultless == faults = 0 /\ ~stuck

ServeInv ==
    /\ IInv
    /\ \A g \in Generations : InProgress(g) => TimerCall(g)
    /\ timer # NoTimer /\ Active = {} => Of(timer) = {} \/ FirstServes
    /\ \A t \in Ticks : TickServes(t)

\* A tick keeps the invariant if the first replica serves after it, and it goes on
\* accordingly: no call is in progress.
LEMMA TickServesOn ==
  ASSUME ScaleInv, ServeInv, ScaleTypeOK', NEW t \in Ticks, TickFrame(t),
         UNCHANGED <<pc, locals, timer>>, Active = {}, FirstServes', TickServes(t)'
  PROVE  ServeInv'
<1>1. \A g \in Generations : /\ ~InProgress(g) /\ ~InProgress(g)'
                             /\ old'[g] = {} /\ oldRunning'[g] = {} /\ started'[g] = {}
  BY DEF Active, ServeInv, IInv, CallInv, OwnContainers, InProgress, locals
<1>2. OneCall' /\ \A g \in Generations : CallInv(g)'
  BY <1>1, IdleCall DEF OneCall
<1>3. PromiseKept'
  BY DEF PromiseKept, Available, FirstServes
<1>4. \A u \in Ticks : TickServes(u)'
  BY DEF ServeInv, TickServes, TickFrame
<1> QED BY <1>1, <1>2, <1>3, <1>4 DEF ServeInv, IInv, ScaleTypeOK

\* Ticks keep it: they begin only where the first replica serves.
LEMMA TickKeepsServing ==
  ASSUME ~Overlap, ScaleInv, ScaleInv', ServeInv, NEW t \in Ticks, TickAction(t)
  PROVE  ServeInv'
<1> USE DEF GoOn, Return
<1>0. ScaleTypeOK /\ TickInv(t) /\ TickServes(t) /\ ScaleTypeOK'
  BY DEF ScaleInv, ServeInv
<1>1. UNCHANGED <<pc, locals, public, timer>> /\ TickFrame(t)
  BY <1>0 DEF TickAction, Tick, Reconcile, Grow, ProbePasses, GrowFails, Shrink,
     ListActive, WriteRoute, vars, locals, fixed, TickFrame, ScaleTypeOK
<1>2. /\ timer \in Generations /\ Active = {} /\ FirstServes
      /\ tpc[t] # "idle" => tgen[t] = timer
  <2>1. CASE Tick(t)
    <3>1. timer \in Generations /\ Active = {} /\ tpc[t] = "idle"
      BY <1>0, <2>1 DEF Tick, ScaleTypeOK
    <3>2. Cardinality(Of(timer)) > 0
      BY <2>1 DEF Tick
    <3>3. Of(timer) # {}
      BY <3>2, FS_EmptySet
    <3> QED BY <3>1, <3>3, AutoscalerAssumption DEF ServeInv
  <2>2. CASE ~Tick(t)
    <3>1. tpc[t] # "idle"
      <4>1. CASE Reconcile(t) \/ GrowFails(t) \/ ListActive(t) \/ WriteRoute(t)
        BY <4>1 DEF Reconcile, GrowFails, ListActive, WriteRoute
      <4>2. CASE Grow(t) \/ ProbePasses(t) \/ Shrink(t)
        BY <4>2 DEF Grow, ProbePasses, Shrink
      <4> QED BY <2>2, <4>1, <4>2 DEF TickAction
    <3> QED BY <1>0, <3>1 DEF TickInv, TickServes
  <2> QED BY <2>1, <2>2
<1>3. SUFFICES FirstServes' /\ TickServes(t)'
  BY <1>0, <1>1, <1>2, TickServesOn
<1>4. ASSUME UNCHANGED vars PROVE FirstServes'
  BY <1>1, <1>2, <1>4 DEF FirstServes, vars, locals, fixed, Up
<1>5. CASE Tick(t)
  <2> DEFINE current == Cardinality(Of(timer))
  <2>1. current \in Nat /\ MinReplicas \in Nat /\ MinReplicas >= 1
    BY <1>0, <1>2, ReplicaCount, ReplicasAssumption, AutoscalerAssumption
  <2>2. \/ target' = [target EXCEPT ![t] = current + 1]
        \/ current > MinReplicas /\ target' = [target EXCEPT ![t] = current - 1]
    BY <1>5 DEF Tick
  <2> HIDE DEF current
  <2>3. current + 1 >= 1 /\ (current > MinReplicas => current - 1 >= 1)
    BY <2>1
  <2>4. target'[t] >= 1
    BY <1>0, <2>2, <2>3 DEF ScaleTypeOK
  <2>5. UNCHANGED vars /\ tpc'[t] = "reconcile"
    BY <1>0, <1>5 DEF Tick, ScaleTypeOK
  <2> QED BY <1>4, <2>4, <2>5 DEF TickServes
<1>6. CASE Reconcile(t)
  <2>1. UNCHANGED vars
    BY <1>6 DEF Reconcile
  <2>2. tpc[t] = "reconcile" /\ tgen[t] = timer
    BY <1>2, <1>6 DEF Reconcile
  <2>3. CASE tpc'[t] # "shrink"
    <3>1. tpc'[t] \in {"idle", "grow"}
      BY <1>0, <1>6, <2>3 DEF Reconcile, ScaleTypeOK
    <3> QED BY <1>4, <2>1, <3>1 DEF TickServes
  <2>4. CASE tpc'[t] = "shrink"
    <3> DEFINE items == Of(timer)
               n == target[t]
    <3>1. /\ Cardinality(items) > n
          /\ todo'[t] = Highest(items, Cardinality(items) - n)
      BY <1>0, <1>6, <2>2, <2>4 DEF Reconcile, ScaleTypeOK
    <3>2. items \in SUBSET ({timer} \X (1 .. MaxIndex))
      BY <1>0, <1>2, ReplicaCount
    <3>3. n \in Nat /\ n >= 1
      BY <1>0, <2>2, ReplicasAssumption DEF ScaleTypeOK, TickServes
    <3>4. ASSUME NEW c \in todo'[t] PROVE c[2] > 1
      <4>1. c \in items /\ c[2] \in Nat
        BY <3>1, <3>2, ReplicasAssumption DEF Highest
      <4>2. c[2] > n
        <5> HIDE DEF items, n
        <5> QED BY <3>1, <3>2, <3>3, HighestAreAbove
      <4>3. ASSUME NEW i \in Nat, i > n PROVE i > 1
        BY <3>3, <4>3
      <4> HIDE DEF items, n
      <4> QED BY <4>1, <4>2, <4>3
    <3> QED BY <1>4, <2>1, <2>4, <3>4 DEF TickServes
  <2> QED BY <2>3, <2>4
<1>7. CASE Grow(t)
  <2>1. PICK c \in todo[t] :
          /\ cont[c] = "none"
          /\ cont' = [cont EXCEPT ![c] = "running"]
          /\ tested' = tested \ {c}
    BY <1>7 DEF Grow
  <2>2. c # <<timer, 1>> /\ Up \subseteq Up' /\ route' = route
    BY <1>0, <1>2, <1>7, <2>1 DEF Grow, FirstServes, Up, ScaleTypeOK, TypeOK
  <2>3. FirstServes'
    BY <1>1, <1>2, <2>1, <2>2 DEF FirstServes
  <2>4. tpc'[t] = "probe"
    BY <1>0, <1>7 DEF Grow, ScaleTypeOK
  <2> QED BY <2>3, <2>4 DEF TickServes
<1>8. CASE ProbePasses(t)
  <2>1. tested \subseteq tested' /\ UNCHANGED <<cont, route>>
    BY <1>8 DEF ProbePasses
  <2>2. FirstServes'
    BY <1>1, <1>2, <2>1 DEF FirstServes, Up
  <2>3. tpc'[t] \in {"list", "grow"}
    BY <1>0, <1>8 DEF ProbePasses, ScaleTypeOK
  <2> QED BY <2>2, <2>3 DEF TickServes
<1>9. CASE GrowFails(t)
  <2>1. UNCHANGED vars /\ tpc'[t] = "idle"
    BY <1>0, <1>9 DEF GrowFails, ScaleTypeOK
  <2> QED BY <1>4, <2>1 DEF TickServes
<1>10. CASE Shrink(t)
  <2>1. PICK c \in todo[t] :
          /\ Remove(c)
          /\ tpc[t] = "shrink"
          /\ tpc' = [tpc EXCEPT ![t] = IF todo[t] = {c} THEN "list" ELSE "shrink"]
          /\ todo' = [todo EXCEPT ![t] = @ \ {c}]
    BY <1>10 DEF Shrink
  <2>2. \A d \in todo[t] : d[2] > 1
    BY <1>0, <2>1 DEF TickServes
  <2>3. c # <<timer, 1>>
    BY <2>2
  <2>4. Up \ {c} \subseteq Up' /\ UNCHANGED <<tested, route>>
    BY <1>0, <1>10, <2>1 DEF Shrink, Remove, Up, ScaleTypeOK, TypeOK
  <2>5. FirstServes'
    BY <1>1, <1>2, <2>3, <2>4 DEF FirstServes
  <2>6. tpc'[t] \in {"list", "shrink"} /\ todo'[t] \subseteq todo[t]
    BY <1>0, <2>1 DEF ScaleTypeOK
  <2> QED BY <2>2, <2>5, <2>6 DEF TickServes
<1>11. CASE ListActive(t)
  <2>1. UNCHANGED vars /\ tpc'[t] = "write" /\ todo'[t] = Of(timer)
    BY <1>0, <1>2, <1>11 DEF ListActive, ScaleTypeOK
  <2>2. <<timer, 1>> \in todo'[t]
    BY <1>2, <2>1 DEF FirstServes, Of
  <2> QED BY <1>1, <1>4, <2>1, <2>2 DEF TickServes
<1>12. CASE WriteRoute(t)
  <2>1. <<timer, 1>> \in todo[t]
    BY <1>0, <1>12 DEF WriteRoute, TickServes
  <2>2. FirstServes'
    BY <1>1, <1>2, <1>12, <2>1 DEF WriteRoute, FirstServes, Up
  <2>3. tpc'[t] = "idle"
    BY <1>0, <1>12 DEF WriteRoute, ScaleTypeOK
  <2> QED BY <2>2, <2>3 DEF TickServes
<1> QED
  BY <1>5, <1>6, <1>7, <1>8, <1>9, <1>10, <1>11, <1>12 DEF TickAction

\* What a step of the call of g has to establish.
ServeGoal(g) ==
    /\ InProgress(g)' => TimerCall(g)'
    /\ timer' # NoTimer /\ ~InProgress(g)' => Of(timer)' = {} \/ FirstServes'

\* A call that begins finds the first replica serving, or none of its generation.
LEMMA BeginServing ==
  ASSUME OneCallAtATime, ScaleInv, ServeInv, NEW g \in Generations, Deploy(g), Begin(g)
  PROVE  ServeGoal(g)
<1>1. TypeOK
  BY DEF ServeInv, IInv
<1>2. Active = {}
  BY NobodyActive DEF Begin, Active
<1>3. /\ pc'[g] = "create" /\ old'[g] = Existing /\ oldRunning'[g] = Up
      /\ started'[g] = {}
  BY <1>1 DEF Begin, TypeOK
<1>4. UNCHANGED <<cont, tested, route, public, timer>>
  BY <1>3 DEF Begin, fixed, Deploy
<1>5. Up' = Up /\ Of(timer)' = Of(timer) /\ Up \subseteq Existing
  BY <1>4 DEF Up, Of, Existing
<1>6. timer # NoTimer => Of(timer) = {} \/ FirstServes
  BY <1>2 DEF ServeInv
<1>7. TimerCall(g)'
  BY <1>3, <1>4, <1>5, <1>6 DEF TimerCall, FirstServes
<1>8. InProgress(g)'
  BY <1>3 DEF InProgress
<1> QED BY <1>7, <1>8 DEF ServeGoal

\* A new container is not the first replica, which exists, or is one that the call has
\* started.
LEMMA CreatingServing ==
  ASSUME ScaleInv, ServeInv, NEW g \in Generations, Deploy(g), Create(g) \/ Start(g)
  PROVE  ServeGoal(g)
<1> USE DEF Goto
<1>0. TypeOK /\ timer' = timer
  <2>1. pc[g] # "retire"
    BY DEF Create, Start
  <2> QED BY <2>1 DEF ServeInv, IInv, Deploy
<1>1. InProgress(g) /\ TimerCall(g) /\ pc[g] \notin Shifting \cup {"retire"}
  BY DEF Create, Start, InProgress, ServeInv, Shifting
<1>2. CASE Create(g)
  <2>1. PICK i \in 1 .. Count :
          /\ cont[<<g, i>>] = "none"
          /\ cont' = [cont EXCEPT ![<<g, i>>] = "idle"]
          /\ tested' = tested \ {<<g, i>>}
    BY <1>2 DEF Create
  <2>2. UNCHANGED <<locals, route, public>> /\ pc'[g] = "start"
    BY <1>0, <1>2 DEF Create, fixed, TypeOK
  <2>3. <<g, i>> \in Container /\ <<g, i>> \notin Up
    BY <2>1, CandidateFacts DEF Up
  <2>4. Up' = Up
    BY <1>0, <2>1, <2>3 DEF Up, TypeOK
  <2>5. Of(timer)' = Of(timer)
    BY <1>0, <2>4 DEF Of
  <2>6. TimerCall(g)'
    BY <1>0, <1>1, <2>1, <2>2, <2>3, <2>4, <2>5 DEF TimerCall, locals, Shifting
  <2> QED BY <2>2, <2>6 DEF ServeGoal, InProgress
<1>3. CASE Start(g)
  <2>1. PICK i \in 1 .. Count :
          /\ pc' = [pc EXCEPT ![g] = IF i = Count THEN "test" ELSE "create"]
          /\ cont' = [cont EXCEPT ![<<g, i>>] = "running"]
          /\ started' = [started EXCEPT ![g] = @ \cup {<<g, i>>}]
    BY <1>3 DEF Start
  <2>2. /\ UNCHANGED <<old, oldRunning, tested, route, public>>
        /\ pc'[g] \in {"test", "create"}
        /\ started'[g] = started[g] \cup {<<g, i>>}
    BY <1>0, <1>3, <2>1 DEF Start, fixed, TypeOK
  <2>3. Up' = Up \cup {<<g, i>>}
    BY <1>0, <2>1, CandidateFacts DEF Up, TypeOK
  <2>4. Of(timer)' \subseteq Of(timer) \cup {<<g, i>>}
    BY <1>0, <2>3 DEF Of
  <2>5. TimerCall(g)'
    BY <1>0, <1>1, <2>2, <2>3, <2>4 DEF TimerCall, Shifting
  <2> QED BY <2>2, <2>5 DEF ServeGoal, InProgress
<1> QED BY <1>2, <1>3

\* Testing and shifting the traffic touch no container, and a call that fails has the
\* old containers in the route again before it cleans up.
LEMMA ShiftingServing ==
  ASSUME ScaleInv, ServeInv, ~stuck', NEW g \in Generations, Deploy(g),
         \/ CreateOrStartFails(g) \/ TestPasses(g) \/ TestFails(g)
         \/ SwitchTraffic(g) \/ SwitchFails(g) \/ SwitchWeightedTraffic(g)
         \/ SoakPasses(g) \/ SoakFails(g) \/ Undo(g) \/ UndoFails(g)
  PROVE  ServeGoal(g)
<1> USE DEF Goto
<1>0. TypeOK
  BY DEF ServeInv, IInv
<1>1. UNCHANGED <<locals, cont, public>> /\ tested \subseteq tested'
  BY DEF CreateOrStartFails, TestPasses, TestFails, SwitchTraffic, SwitchFails,
     SwitchWeightedTraffic, SoakPasses, SoakFails, Undo, UndoFails, fixed
<1>2. /\ InProgress(g) /\ InProgress(g)' /\ pc[g] # "retire"
      /\ pc'[g] \notin Shifting \cup {"retire"} =>
            \/ pc[g] \notin Shifting /\ route' = route
            \/ route' = oldRunning[g]
  <2>1. CASE CreateOrStartFails(g) \/ TestFails(g)
    BY <1>0, <2>1 DEF CreateOrStartFails, TestFails, InProgress, Shifting, TypeOK
  <2>2. CASE TestPasses(g)
    BY <1>0, <2>2 DEF TestPasses, AfterTest, InProgress, Shifting, TypeOK
  <2>3. CASE SwitchTraffic(g) \/ SwitchFails(g) \/ SwitchWeightedTraffic(g)
    BY <1>0, <2>3
    DEF SwitchTraffic, SwitchFails, SwitchWeightedTraffic, InProgress, Shifting, TypeOK
  <2>4. CASE SoakPasses(g) \/ SoakFails(g) \/ Undo(g)
    BY <1>0, <2>4 DEF SoakPasses, SoakFails, Undo, InProgress, Shifting, TypeOK
  <2>5. CASE UndoFails(g)
    BY <2>5 DEF UndoFails
  <2> QED BY <2>1, <2>2, <2>3, <2>4, <2>5
<1>3. timer' = timer /\ TimerCall(g)
  BY <1>2 DEF Deploy, ServeInv
<1>4. Up' = Up /\ Of(timer)' = Of(timer)
  BY <1>1, <1>3 DEF Up, Of
<1>5. TimerCall(g)'
  BY <1>1, <1>2, <1>3, <1>4 DEF TimerCall, locals
<1> QED BY <1>2, <1>5 DEF ServeGoal

\* What is removed is old, once the call's own have the traffic, or the call's own; and
\* when the call ends all that is left of the timer's generation is its candidates, or
\* what was there when it began.
LEMMA RemovingServing ==
  ASSUME ScaleInv, ServeInv, Faultless, Faultless', NEW g \in Generations, Deploy(g),
         RetireNext(g) \/ CleanupNext(g) \/ Finish(g)
  PROVE  ServeGoal(g)
<1> USE DEF Goto
<1>0. TypeOK /\ CallInv(g)
  BY DEF ServeInv, IInv
<1>1. UNCHANGED <<route, public, tested>>
  BY DEF RetireNext, CleanupNext, Finish, fixed
<1>2. InProgress(g) /\ TimerCall(g)
  BY DEF RetireNext, CleanupNext, Finish, InProgress, ServeInv
<1>3. ASSUME NEW c \in Container, Remove(c) PROVE Up' = Up \ {c}
  <2>1. faults' # faults + 1
    BY DEF Faultless
  <2>2. cont' = [cont EXCEPT ![c] = "none"]
    BY <1>3, <2>1 DEF Remove
  <2> QED BY <1>0, <2>2 DEF Up, TypeOK
<1>4. CASE RetireNext(g)
  <2>1. PICK c \in old[g] : Remove(c) /\ old' = [old EXCEPT ![g] = @ \ {c}]
    BY <1>4 DEF RetireNext
  <2>2. /\ pc'[g] = "retire" /\ old'[g] = old[g] \ {c} /\ started' = started
        /\ Up' = Up \ {c}
    BY <1>0, <1>3, <1>4, <2>1 DEF RetireNext, TypeOK
  <2>3. TimerCall(g)'
    BY <1>2, <2>2 DEF TimerCall
  <2> QED BY <2>2, <2>3 DEF ServeGoal, InProgress
<1>5. CASE CleanupNext(g)
  <2>1. PICK c \in started[g] : Remove(c) /\ started' = [started EXCEPT ![g] = @ \ {c}]
    BY <1>5 DEF CleanupNext
  <2>2. /\ pc[g] = "cleanup" /\ pc'[g] = "cleanup" /\ UNCHANGED <<old, oldRunning>>
        /\ started'[g] = started[g] \ {c} /\ Up' = Up \ {c} /\ timer' = timer
    BY <1>0, <1>3, <1>5, <2>1 DEF CleanupNext, TypeOK, Deploy
  <2>3. c \notin oldRunning[g]
    BY <1>0, <2>1 DEF CallInv, OwnContainers
  <2>4. Of(timer)' = Of(timer) \ {c}
    BY <2>2 DEF Of
  <2>5. TimerCall(g)'
    BY <1>1, <1>2, <2>2, <2>3, <2>4 DEF TimerCall
  <2> QED BY <2>2, <2>5 DEF ServeGoal, InProgress
<1>6. CASE Finish(g)
  <2>1. /\ ~InProgress(g)' /\ Up' = Up /\ timer' \in {timer, g}
        /\ \/ pc[g] = "retire" /\ old[g] = {}
           \/ pc[g] = "cleanup" /\ started[g] = {} /\ timer' = timer
    BY <1>0, <1>6 DEF Finish, TypeOK, Deploy, InProgress, Up
  <2>2. CASE pc[g] = "retire" /\ old[g] = {}
    <3>1. /\ started[g] = Candidates(g) /\ Candidates(g) \subseteq Up \cap tested
          /\ public => Candidates(g) \subseteq route
      BY <1>0, <2>2 DEF CallInv, CandidatesReady
    <3>2. Up \subseteq Candidates(g)
      BY <1>2, <2>2, <3>1 DEF TimerCall
    <3>3. <<g, 1>> \in Candidates(g) /\ \A c \in Candidates(g) : c[1] = g
      BY ReplicasAssumption DEF Candidates
    <3>4. CASE timer' = g
      BY <1>1, <2>1, <3>1, <3>3, <3>4 DEF ServeGoal, FirstServes
    <3>5. CASE timer' # g
      <4>1. Of(timer)' = {}
        BY <2>1, <3>2, <3>3, <3>5 DEF Of
      <4> QED BY <2>1, <4>1 DEF ServeGoal
    <3> QED BY <3>4, <3>5
  <2>3. CASE pc[g] = "cleanup" /\ started[g] = {} /\ timer' = timer
    <3>1. timer # NoTimer => Of(timer) = {} \/ FirstServes
      BY <1>2, <2>3 DEF TimerCall, FirstServes, Shifting
    <3>2. Of(timer)' = Of(timer) /\ (FirstServes => FirstServes')
      BY <1>1, <2>1, <2>3 DEF Of, FirstServes
    <3> QED BY <2>1, <2>3, <3>1, <3>2 DEF ServeGoal
  <2> QED BY <2>1, <2>2, <2>3
<1> QED BY <1>4, <1>5, <1>6

LEMMA CallKeepsServing ==
  ASSUME ~Overlap, OneCallAtATime, ScaleInv, ScaleInv', ServeInv, Faultless, Faultless',
         NEW g \in Generations, Deploy(g)
  PROVE  ServeInv'
<1>1. CallAction(g) /\ Frame(g)
  BY CallFrame DEF Deploy, ServeInv, IInv
<1>2. IInv'
  BY <1>1, StepInv DEF Next, ServeInv
<1>3. ServeGoal(g)
  BY <1>1, BeginServing, CreatingServing, ShiftingServing, RemovingServing
  DEF CallAction, Faultless
<1>4. \A t \in Ticks : tpc'[t] = "idle"
  BY DEF Deploy, tickVars
<1>5. \A h \in Generations \ {g} : ~InProgress(h)'
  <2>1. \A h \in Generations \ {g} : ~InProgress(h)
    <3>1. CASE Begin(g)
      BY <3>1, NobodyActive DEF Begin
    <3>2. CASE ~Begin(g)
      <4>1. InProgress(g)
        BY <1>1, <3>2
        DEF CallAction, Create, Start, CreateOrStartFails, TestPasses, TestFails,
            SwitchTraffic, SwitchFails, SwitchWeightedTraffic, SoakPasses, SoakFails,
            Undo, UndoFails, RetireNext, CleanupNext, Finish, Goto, InProgress
      <4> QED BY <4>1, OnlyOne DEF ServeInv
    <3> QED BY <3>1, <3>2
  <2> QED BY <1>1, <2>1 DEF Frame, InProgress
<1>6. \A h \in Generations : InProgress(h)' => TimerCall(h)'
  BY <1>3, <1>5 DEF ServeGoal
<1>7. timer' # NoTimer /\ Active' = {} => Of(timer)' = {} \/ FirstServes'
  BY <1>3 DEF ServeGoal, Active
<1> QED BY <1>2, <1>4, <1>6, <1>7 DEF ServeInv, TickServes

\* What was left behind, or lost, stays so.
LEMMA FaultlessBefore ==
  ASSUME ScaleInv, [ScaleNext]_allVars, Faultless'
  PROVE  Faultless
<1>0. faults \in Nat
  BY ReplicasAssumption DEF ScaleInv, ScaleTypeOK, TypeOK
<1>1. ASSUME NEW c, Remove(c) PROVE faults' = faults \/ faults' = faults + 1
  BY <1>1 DEF Remove
<1>2. ASSUME NEW g \in Generations, CallAction(g)
      PROVE  (stuck => stuck') /\ (faults' = faults \/ faults' = faults + 1)
  <2>1. CASE RetireNext(g) \/ CleanupNext(g)
    BY <1>1, <2>1 DEF RetireNext, CleanupNext
  <2>2. CASE ~RetireNext(g) /\ ~CleanupNext(g)
    BY <1>2, <2>2
    DEF CallAction, Begin, Create, Start, CreateOrStartFails, TestPasses, TestFails,
        SwitchTraffic, SwitchFails, SwitchWeightedTraffic, SoakPasses, SoakFails, Undo,
        UndoFails, Finish, counters
  <2> QED BY <2>1, <2>2
<1>3. ASSUME NEW t \in Ticks, TickAction(t)
      PROVE  (stuck => stuck') /\ (faults' = faults \/ faults' = faults + 1)
  <2>1. CASE Shrink(t)
    BY <1>1, <2>1 DEF Shrink
  <2>2. CASE ~Shrink(t)
    BY <1>3, <2>2
    DEF TickAction, Tick, Reconcile, Grow, ProbePasses, GrowFails, ListActive, WriteRoute,
        vars, counters
  <2> QED BY <2>1, <2>2
<1>4. CASE ScaleCrash \/ UNCHANGED allVars
  BY <1>4 DEF ScaleCrash, Crash, allVars, vars, counters, Faultless
<1>5. CASE ScaleNext /\ ~ScaleCrash
  <2>1. (stuck => stuck') /\ (faults' = faults \/ faults' = faults + 1)
    BY <1>2, <1>3, <1>5 DEF ScaleNext, Deploy
  <2> QED BY <1>0, <2>1 DEF Faultless
<1> QED BY <1>4, <1>5

LEMMA ServeStep ==
  /\ ~Overlap /\ OneCallAtATime /\ ScaleInv /\ ScaleInv'
  /\ (Faultless => ServeInv) /\ [ScaleNext]_allVars
  => (Faultless' => ServeInv')
<1> SUFFICES ASSUME ~Overlap, OneCallAtATime, ScaleInv, ScaleInv', Faultless => ServeInv,
                    [ScaleNext]_allVars, Faultless'
             PROVE  ServeInv'
  OBVIOUS
<1>1. Faultless /\ ServeInv
  BY FaultlessBefore
<1>2. ASSUME NEW g \in Generations, Deploy(g) PROVE ServeInv'
  BY <1>1, <1>2, CallKeepsServing
<1>3. ASSUME NEW t \in Ticks, TickAction(t) PROVE ServeInv'
  BY <1>1, <1>3, TickKeepsServing
<1>4. CASE ScaleCrash
  <2>1. IInv'
    BY <1>1, <1>4, StepInv DEF ScaleCrash, Next, ServeInv
  <2>2. \A g \in Generations : ~InProgress(g)'
    BY <1>4 DEF ScaleCrash, Crash, InProgress, ScaleInv, ScaleTypeOK, TypeOK
  <2> QED BY <1>4, <2>1, <2>2 DEF ScaleCrash, ServeInv, TickServes
<1>5. CASE UNCHANGED allVars
  <2>1. IInv'
    BY <1>1, <1>5, StepInv DEF allVars, ServeInv
  <2>2. UNCHANGED <<pc, locals, cont, tested, route, public, timer, tpc, target, todo>>
    BY <1>5 DEF allVars, vars, fixed, scaleVars, tickVars
  <2>3. Up' = Up /\ Of(timer)' = Of(timer) /\ Active' = Active
    BY <2>2 DEF Up, Of, Active, InProgress
  <2>4. FirstServes' = FirstServes
    BY <2>2, <2>3 DEF FirstServes
  <2>5. \A g \in Generations : InProgress(g)' => TimerCall(g)'
    BY <1>1, <2>2, <2>3 DEF ServeInv, TimerCall, InProgress, locals
  <2>6. \A t \in Ticks : TickServes(t)'
    BY <1>1, <2>2, <2>4 DEF ServeInv, TickServes
  <2> QED BY <1>1, <2>1, <2>2, <2>3, <2>4, <2>5, <2>6 DEF ServeInv
<1> QED BY <1>2, <1>3, <1>4, <1>5 DEF ScaleNext

\* If neither calls nor ticks and calls overlap, the ticks of the autoscaler keep the
\* promise as long as every container is removed that should be: a tick never removes
\* the first replica of the generation it is for, and writes it to the route
\* (replicas.ts:61-64, 66-67).
THEOREM TicksKeepPromise ==
  ~Overlap /\ OneCallAtATime /\ ScaleSpec => [](faults = 0 => PromiseKept)
<1>1. ScaleInit => (Faultless => ServeInv)
  <2> SUFFICES ASSUME ScaleInit PROVE ServeInv
    OBVIOUS
  <2>1. IInv /\ \A g \in Generations : ~InProgress(g)
    BY InitInv DEF ScaleInit, Init, InProgress
  <2> QED BY <2>1 DEF ScaleInit, ServeInv, TickServes
<1>2. (Faultless => ServeInv) => (faults = 0 => PromiseKept)
  BY DEF Faultless, ServeInv, IInv, PromiseKept
<1>3. ~Overlap /\ OneCallAtATime => [](~Overlap /\ OneCallAtATime)
  BY DEF OneCallAtATime
<1> QED BY <1>1, <1>2, <1>3, ScaleInvariance, ServeStep, PTL DEF ScaleSpec
=============================================================================
