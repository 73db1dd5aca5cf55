------------------------- MODULE RuntimeSwitchProofs -------------------------
(***************************************************************************)
(* If the calls for one runtime do not overlap, deployRuntime keeps the    *)
(* promise of Handoff, for any number of calls and any number of failures  *)
(* and crashes.  Without the proxy there is no route and nothing to prove. *)
(***************************************************************************)
EXTENDS RuntimeSwitch, TLAPS, FiniteSetTheorems

OneCallAtATime == MaxActive = 1

\* Behind the proxy no container is renamed: a candidate name names one call.
NamesFixed == \A c \in Calls : name[c] = c /\ pc[c] # "rename"

Alone == \A c, d \in Active : c = d

\* What a call has behind it tells where the route and its container are.  The
\* middle conjunct is the reason why Cleanup and RetirePrevious are harmless.
CallInv(c) ==
    /\ pc[c] \in {"new", "create"} => cont[c] = "none"
    /\ pc[c] \in {"new", "create", "start", "health", "switch", "cleanup"}
          => route # c
    /\ prev[c] # c
    /\ pc[c] = "switch" => cont[c] = "running" /\ c \in tested
    /\ pc[c] = "retire" => route = c

SwitchInv ==
    /\ mode = "proxy"
    /\ SwitchTypeOK
    /\ NamesFixed
    /\ Alone
    /\ RouteServes
    /\ \A c \in Calls : CallInv(c)

\* Without the proxy no call ever gets to the switch.
NoRoute ==
    /\ mode # "proxy"
    /\ route = None
    /\ pc \in [Calls -> SwitchStep]
    /\ \A c \in Calls : pc[c] # "switch"

\* The first state satisfies the invariant of its mode.
LEMMA InitInv == OneCallAtATime /\ SwitchInit => SwitchInv \/ NoRoute
  BY SwitchAssumption
  DEF SwitchInit, SwitchInv, SwitchTypeOK, NamesFixed, Alone, Active, RouteServes, CallInv,
      SwitchStep, ContainerState, OneCallAtATime, NoRoute

\* Nobody else is in progress while a call is.
LEMMA OnlyOne ==
  ASSUME SwitchInv, NEW c \in Calls, c \in Active, NEW d \in Calls, d # c
  PROVE  pc[d] \in {"new", "done", "failed"}
  BY DEF SwitchInv, Alone, Active

\* A call starts only when no other one is in progress.
LEMMA NobodyActive ==
  ASSUME OneCallAtATime, Cardinality(Active) < MaxActive
  PROVE  Active = {}
<1>1. IsFiniteSet(Active)
  BY SwitchAssumption, FS_Subset DEF Active
<1>2. Cardinality(Active) = 0
  BY <1>1, FS_CardinalityType DEF OneCallAtATime
<1> QED  BY <1>1, <1>2, FS_EmptySet

\* removeContainer touches the container of that name only.
LEMMA RemoveFrame ==
  ASSUME SwitchInv, NEW n \in Calls \cup {None, RuntimeName}, Remove(n)
  PROVE  /\ cont' \in [Calls -> ContainerState]
         /\ \A c \in Calls : c # n \/ cont[c] = "none" => cont'[c] = cont[c]
         /\ published' \subseteq Calls
         /\ faults' \in 0 .. MaxFaults
<1>1. {c \in Existing : name[c] = n} \subseteq {n} \cap Calls
  BY DEF SwitchInv, NamesFixed, Existing
<1> DEFINE named == {c \in Existing : name[c] = n}
<1>2. CASE /\ cont' = [c \in Calls |-> IF c \in named THEN "none" ELSE cont[c]]
           /\ published' = published \ named
           /\ UNCHANGED faults
  BY <1>1, <1>2 DEF SwitchInv, SwitchTypeOK, ContainerState
<1>3. CASE /\ faults < MaxFaults
           /\ faults' = faults + 1
           /\ UNCHANGED published
           /\ \E left \in {"running", "stopped"} :
                 cont' = [c \in Calls |-> IF c \in named /\ cont[c] = "running"
                                          THEN left ELSE cont[c]]
  BY <1>1, <1>3, SwitchAssumption DEF SwitchInv, SwitchTypeOK, ContainerState
<1> QED  BY <1>2, <1>3 DEF Remove

\* Every step keeps the invariant.
LEMMA NextInv == OneCallAtATime /\ SwitchInv /\ [SwitchNext]_switchVars => SwitchInv'
<1> SUFFICES ASSUME OneCallAtATime, SwitchInv, [SwitchNext]_switchVars PROVE SwitchInv'
  OBVIOUS
<1> USE DEF OneCallAtATime, Goto
<1>1. CASE UNCHANGED switchVars
  BY <1>1 DEF switchVars, docker, SwitchInv, SwitchTypeOK, NamesFixed, Alone, Active,
              RouteServes, CallInv
<1>2. CASE Crash
  <2>1. pc' \in [Calls -> SwitchStep]
        /\ \A c \in Calls : pc'[c] \in {pc[c], "failed"}
    BY <1>2 DEF Crash, SwitchInv, SwitchTypeOK, SwitchStep
  <2>2. crashes' \in 0 .. MaxCrashes
    BY <1>2, SwitchAssumption DEF Crash, SwitchInv, SwitchTypeOK
  <2>3. Alone'
    BY <1>2 DEF Crash, Alone, Active
  <2> QED
    BY <1>2, <2>1, <2>2, <2>3
    DEF Crash, docker, SwitchInv, SwitchTypeOK, NamesFixed, RouteServes, CallInv
<1>3. ASSUME NEW c \in Calls, FindPrevious(c) PROVE SwitchInv'
  <2>1. Active = {}  BY <1>3, NobodyActive DEF FindPrevious
  <2>2. prev' \in [Calls -> Calls \cup {None, RuntimeName}]
        /\ \A d \in Calls : prev'[d] # d
    <3>1. cont[c] = "none" /\ prev[c] # c
      BY <1>3 DEF FindPrevious, SwitchInv, CallInv
    <3>2. \A p \in Candidates : p \in Calls /\ p # c /\ name[p] = p
      BY <3>1 DEF Candidates, Stable, Up, SwitchInv, NamesFixed
    <3> QED  BY <1>3, <3>1, <3>2 DEF FindPrevious, SwitchInv, SwitchTypeOK, CallInv
  <2>3. pc' = [pc EXCEPT ![c] = "create"] /\ pc[c] = "new"
        /\ UNCHANGED <<cont, name, published, tested, route, faults, crashes,
                      mode>>
    BY <1>3 DEF FindPrevious, docker
  <2>4. Alone'
    BY <2>1, <2>3 DEF Alone, Active, SwitchInv, SwitchTypeOK
  <2>5. (SwitchTypeOK /\ NamesFixed /\ RouteServes)'
    BY <2>2, <2>3 DEF SwitchInv, SwitchTypeOK, NamesFixed, RouteServes, SwitchStep
  <2>6. (\A d \in Calls : CallInv(d))'
    BY <2>2, <2>3 DEF SwitchInv, SwitchTypeOK, CallInv
  <2> QED
    BY <2>3, <2>4, <2>5, <2>6 DEF SwitchInv
<1>4. ASSUME NEW c \in Calls, CreateCandidate(c) PROVE SwitchInv'
  BY <1>4
  DEF CreateCandidate, SetContainer, SwitchInv, SwitchTypeOK, NamesFixed, Alone, Active,
      RouteServes, CallInv, SwitchStep, ContainerState
<1>5. ASSUME NEW c \in Calls, StartCandidate(c) PROVE SwitchInv'
  BY <1>5
  DEF StartCandidate, SetContainer, SwitchInv, SwitchTypeOK, NamesFixed, Alone, Active,
      RouteServes, CallInv, SwitchStep, ContainerState
<1>6. ASSUME NEW c \in Calls, CreateOrStartFails(c) PROVE SwitchInv'
  BY <1>6
  DEF CreateOrStartFails, docker, SwitchInv, SwitchTypeOK, NamesFixed, Alone, Active,
      RouteServes, CallInv, SwitchStep
<1>7. ASSUME NEW c \in Calls, HealthPasses(c) PROVE SwitchInv'
  BY <1>7
  DEF HealthPasses, docker, SwitchInv, SwitchTypeOK, NamesFixed, Alone, Active,
      RouteServes, CallInv, SwitchStep
<1>8. ASSUME NEW c \in Calls, HealthFails(c) PROVE SwitchInv'
  BY <1>8
  DEF HealthFails, docker, SwitchInv, SwitchTypeOK, NamesFixed, Alone, Active,
      RouteServes, CallInv, SwitchStep
<1>9. ASSUME NEW c \in Calls, SwitchRoute(c) PROVE SwitchInv'
  <2>1. \A d \in Calls : d # c => pc[d] \in {"new", "done", "failed"}
    BY <1>9, OnlyOne DEF SwitchRoute, Active
  <2> QED
    BY <1>9, <2>1
    DEF SwitchRoute, docker, SwitchInv, SwitchTypeOK, NamesFixed, Alone, Active,
        RouteServes, CallInv, SwitchStep
<1>10. ASSUME NEW c \in Calls, SwitchFails(c) PROVE SwitchInv'
  BY <1>10
  DEF SwitchFails, docker, SwitchInv, SwitchTypeOK, NamesFixed, Alone, Active,
      RouteServes, CallInv, SwitchStep
<1>11. ASSUME NEW c \in Calls, RetirePrevious(c) PROVE SwitchInv'
  <2>1. prev[c] \in Calls \cup {None, RuntimeName} /\ prev[c] # c /\ route = c
    BY <1>11 DEF RetirePrevious, SwitchInv, SwitchTypeOK, CallInv
  <2>2. /\ cont' \in [Calls -> ContainerState]
        /\ \A d \in Calls :
              d # prev[c] \/ cont[d] = "none" => cont'[d] = cont[d]
        /\ published' \subseteq Calls
        /\ faults' \in 0 .. MaxFaults
    <3>1. CASE prev[c] = None
      BY <1>11, <3>1 DEF RetirePrevious, SwitchInv, SwitchTypeOK
    <3>2. CASE prev[c] # None
      BY <1>11, <2>1, <3>2, RemoveFrame DEF RetirePrevious
    <3> QED  BY <3>1, <3>2
  <2>3. \A d \in Calls : d # c => pc[d] \in {"new", "done", "failed"}
    BY <1>11, OnlyOne DEF RetirePrevious, Active
  <2>4. pc' = [pc EXCEPT ![c] = "done"] /\ pc[c] = "retire"
        /\ UNCHANGED <<prev, name, tested, route, crashes, mode>>
    BY <1>11 DEF RetirePrevious, AfterRetire, SwitchInv
  <2>5. ASSUME NEW d \in Calls PROVE CallInv(d)'
    <3>1. CASE d = c
      BY <2>1, <2>4, <3>1 DEF SwitchInv, SwitchTypeOK, CallInv
    <3>2. CASE d # c
      BY <2>2, <2>3, <2>4, <3>2 DEF SwitchInv, SwitchTypeOK, CallInv
    <3> QED  BY <3>1, <3>2
  <2>6. (SwitchTypeOK /\ NamesFixed /\ Alone)'
    BY <2>2, <2>4 DEF SwitchInv, SwitchTypeOK, NamesFixed, Alone, Active, SwitchStep
  <2>7. RouteServes'
    BY <2>1, <2>2, <2>4 DEF SwitchInv, SwitchTypeOK, RouteServes
  <2> QED
    BY <2>4, <2>5, <2>6, <2>7 DEF SwitchInv
<1>12. ASSUME NEW c \in Calls, Cleanup(c) PROVE SwitchInv'
  <2>1. /\ cont' \in [Calls -> ContainerState]
        /\ \A d \in Calls : d # c => cont'[d] = cont[d]
        /\ published' \subseteq Calls
        /\ faults' \in 0 .. MaxFaults
    BY <1>12, RemoveFrame DEF Cleanup
  <2>2. pc' = [pc EXCEPT ![c] = "failed"] /\ pc[c] = "cleanup" /\ route # c
        /\ UNCHANGED <<prev, name, tested, route, crashes, mode>>
    BY <1>12 DEF Cleanup, SwitchInv, CallInv
  <2>3. (SwitchTypeOK /\ NamesFixed /\ Alone)'
    BY <2>1, <2>2 DEF SwitchInv, SwitchTypeOK, NamesFixed, Alone, Active, SwitchStep
  <2>4. RouteServes'
    BY <2>1, <2>2 DEF SwitchInv, SwitchTypeOK, RouteServes
  <2>5. (\A d \in Calls : CallInv(d))'
    BY <2>1, <2>2 DEF SwitchInv, SwitchTypeOK, CallInv
  <2> QED
    BY <2>2, <2>3, <2>4, <2>5 DEF SwitchInv
<1>13. ASSUME NEW c \in Calls, Rename(c) \/ RenameFails(c) PROVE SwitchInv'
  BY <1>13 DEF Rename, RenameFails, SwitchInv, NamesFixed
<1> QED
  BY <1>1, <1>2, <1>3, <1>4, <1>5, <1>6, <1>7, <1>8, <1>9, <1>10, <1>11,
     <1>12, <1>13
  DEF SwitchNext, CallAction

LEMMA NextNoRoute == NoRoute /\ [SwitchNext]_switchVars => NoRoute'
<1> SUFFICES ASSUME NoRoute, [SwitchNext]_switchVars PROVE NoRoute'
  OBVIOUS
<1> USE DEF NoRoute, Goto, SwitchStep
<1>1. CASE UNCHANGED switchVars
  BY <1>1 DEF switchVars
<1>2. CASE Crash
  BY <1>2 DEF Crash
<1>3. ASSUME NEW c \in Calls, CallAction(c) PROVE NoRoute'
  BY <1>3
  DEF CallAction, FindPrevious, CreateCandidate, StartCandidate,
      CreateOrStartFails, HealthPasses, HealthFails, SwitchRoute, SwitchFails,
      RetirePrevious, AfterRetire, Rename, RenameFails, Cleanup
<1> QED  BY <1>1, <1>2, <1>3 DEF SwitchNext

\* One of the two holds in every reachable state.
LEMMA SwitchInvariance == OneCallAtATime /\ SwitchSpec => [](SwitchInv \/ NoRoute)
<1>1. OneCallAtATime => []OneCallAtATime
  BY DEF OneCallAtATime
<1> QED  BY <1>1, InitInv, NextInv, NextNoRoute, PTL DEF SwitchSpec

\* The route never leads to a container that is gone or untested
\* (deploy.ts:53-65).
THEOREM RouteAlwaysServes == OneCallAtATime /\ SwitchSpec => []RouteServes
<1>1. SwitchInv \/ NoRoute => RouteServes  BY DEF SwitchInv, NoRoute, RouteServes
<1> QED  BY <1>1, SwitchInvariance, PTL

\* A step of deployRuntime is a test, a handover, or invisible.
LEMMA StepKeepsPromise ==
  (SwitchInv \/ NoRoute) /\ (SwitchInv \/ NoRoute)' /\ [SwitchNext]_switchVars
    => [Promise!Next]_<<tested, Serving>>
<1> SUFFICES ASSUME SwitchInv \/ NoRoute, (SwitchInv \/ NoRoute)', [SwitchNext]_switchVars
             PROVE  [Promise!Next]_<<tested, Serving>>
  OBVIOUS
<1>1. Serving = route /\ Serving' = route'
  BY DEF Serving, SwitchInv, NoRoute, RouteServes
<1>2. ASSUME NEW c \in Calls, HealthPasses(c) PROVE Promise!Next
  BY <1>1, <1>2 DEF HealthPasses, Promise!Next, Promise!Test
<1>3. ASSUME NEW c \in Calls, SwitchRoute(c) PROVE Promise!Next
  <2>1. c \in tested  BY <1>3 DEF SwitchRoute, Goto, SwitchInv, NoRoute, CallInv
  <2> QED  BY <1>1, <1>3, <2>1 DEF SwitchRoute, Promise!Next, Promise!HandOver
<1>4. CASE UNCHANGED <<tested, route>>
  BY <1>1, <1>4
<1>5. ASSUME NEW c \in Calls, CallAction(c),
             ~HealthPasses(c), ~SwitchRoute(c)
      PROVE  UNCHANGED <<tested, route>>
  BY <1>5
  DEF CallAction, FindPrevious, CreateCandidate, StartCandidate,
      CreateOrStartFails, HealthFails, SwitchFails, RetirePrevious, Rename,
      RenameFails, Cleanup
<1>6. Crash \/ UNCHANGED switchVars => UNCHANGED <<tested, route>>
  BY DEF Crash, switchVars
<1> QED  BY <1>2, <1>3, <1>4, <1>5, <1>6 DEF SwitchNext

\* One call at a time, deployRuntime implements Handoff: traffic goes
\* to tested candidates only and never to nobody again (deploy.ts:42-74).
THEOREM ImplementsHandoff == OneCallAtATime /\ SwitchSpec => KeepsPromise
<1>1. SwitchInit => Promise!Init
  BY DEF SwitchInit, Promise!Init, Serving
<1> QED  BY <1>1, StepKeepsPromise, SwitchInvariance, PTL
   DEF SwitchSpec, KeepsPromise, Promise!Spec

(***************************************************************************)
(* Nothing is left running, and somebody stays available                   *)
(***************************************************************************)

\* Who may run while a call is where it is: the container with the traffic, which
\* is the one the call has found, and the call's own.
CallTidy(c) ==
    /\ pc[c] = "new" => prev[c] = None
    /\ pc[c] \in {"create", "start"} => Up \subseteq {route} /\ prev[c] = route
    /\ pc[c] \in {"health", "switch", "cleanup"} =>
          Up \subseteq {route, c} /\ prev[c] = route
    /\ pc[c] = "retire" => Up \subseteq {c, prev[c]}

Tidy ==
    faults = 0 /\ crashes = 0 =>
        /\ Active = {} => Up \subseteq {route}
        /\ \A c \in Calls : CallTidy(c)

\* What removeContainer does to the containers, whatever their names; when Docker
\* obeys, all of that name are gone.
LEMMA RemoveEffect ==
  ASSUME SwitchTypeOK, NEW n, Remove(n)
  PROVE  /\ cont' \in [Calls -> ContainerState]
         /\ \A c \in Calls : cont'[c] = cont[c] \/ (name[c] = n /\ cont[c] # "none")
         /\ published' \subseteq Calls
         /\ faults' \in 0 .. MaxFaults
         /\ faults' = 0 => /\ faults = 0
                           /\ \A c \in Calls : name[c] = n => cont'[c] = "none"
<1> DEFINE named == {c \in Existing : name[c] = n}
<1> USE SwitchAssumption DEF SwitchTypeOK, ContainerState, Existing
<1>1. CASE /\ cont' = [c \in Calls |-> IF c \in named THEN "none" ELSE cont[c]]
           /\ published' = published \ named
           /\ UNCHANGED faults
  BY <1>1
<1>2. CASE /\ faults < MaxFaults
           /\ faults' = faults + 1
           /\ UNCHANGED published
           /\ \E left \in {"running", "stopped"} :
                 cont' = [c \in Calls |-> IF c \in named /\ cont[c] = "running"
                                          THEN left ELSE cont[c]]
  BY <1>2
<1> QED  BY <1>1, <1>2 DEF Remove

\* The counters of failures do not go back.
LEMMA FaultsCount ==
  ASSUME SwitchTypeOK, [SwitchNext]_switchVars
  PROVE  (faults' = 0 => faults = 0) /\ (crashes' = 0 => crashes = 0)
<1> USE SwitchAssumption DEF SwitchTypeOK
<1>1. ASSUME NEW c \in Calls, RetirePrevious(c) \/ Cleanup(c)
      PROVE  (faults' = 0 => faults = 0) /\ (crashes' = 0 => crashes = 0)
  BY <1>1, RemoveEffect DEF RetirePrevious, Cleanup
<1>2. ASSUME NEW c \in Calls, CallAction(c), ~RetirePrevious(c), ~Cleanup(c)
      PROVE  (faults' = 0 => faults = 0) /\ UNCHANGED crashes
  BY <1>2
  DEF CallAction, FindPrevious, CreateCandidate, StartCandidate,
      CreateOrStartFails, HealthPasses, HealthFails, SwitchRoute, SwitchFails,
      Rename, RenameFails
<1>3. CASE Crash
  BY <1>3 DEF Crash
<1> QED  BY <1>1, <1>2, <1>3 DEF SwitchNext, switchVars

\* The call that finds the previous container finds the one with the traffic, and
\* retires that one.
LEMMA TidyStep == OneCallAtATime /\ SwitchInv /\ Tidy /\ [SwitchNext]_switchVars => Tidy'
<1> SUFFICES ASSUME OneCallAtATime, SwitchInv, Tidy, [SwitchNext]_switchVars,
                    faults' = 0, crashes' = 0
             PROVE  /\ Active' = {} => Up' \subseteq {route'}
                    /\ \A c \in Calls : CallTidy(c)'
  BY DEF Tidy
<1> USE DEF Goto, SwitchTypeOK
<1>0. faults = 0 /\ crashes = 0
  BY FaultsCount DEF SwitchInv
<1>1. (Active = {} => Up \subseteq {route}) /\ \A c \in Calls : CallTidy(c)
  BY <1>0 DEF Tidy
<1>2. CASE UNCHANGED switchVars
  BY <1>1, <1>2 DEF switchVars, docker, CallTidy, Up, Active
<1>3. CASE Crash
  BY <1>0, <1>3, SwitchAssumption DEF Crash
<1>4. ASSUME NEW c \in Calls, FindPrevious(c)
      PROVE  /\ Active' = {} => Up' \subseteq {route'}
             /\ \A d \in Calls : CallTidy(d)'
  <2>1. Active = {}
    BY <1>4, NobodyActive DEF FindPrevious
  <2>2. Candidates = Up /\ \A d \in Up : name[d] = d
    BY SwitchAssumption DEF Candidates, Stable, Up, SwitchInv, NamesFixed
  <2>3. prev'[c] = route
    <3>1. CASE Up = {}
      BY <1>1, <1>4, <2>2, <3>1 DEF FindPrevious, CallTidy, SwitchInv, RouteServes, Up
    <3>2. CASE Up # {}
      BY <1>1, <1>4, <2>1, <2>2, <3>2 DEF FindPrevious, SwitchInv
    <3> QED  BY <3>1, <3>2
  <2>4. \A d \in Calls : pc'[d] = IF d = c THEN "create" ELSE pc[d]
    BY <1>4 DEF FindPrevious, SwitchInv
  <2>5. \A d \in Calls \ {c} : prev'[d] = prev[d]
    BY <1>4 DEF FindPrevious, SwitchInv
  <2>6. Up' = Up /\ route' = route
    BY <1>4 DEF FindPrevious, docker, Up
  <2>7. \A d \in Calls \ {c} : CallTidy(d)'
    BY <1>1, <2>4, <2>5, <2>6 DEF CallTidy
  <2>8. CallTidy(c)'
    BY <1>1, <2>1, <2>3, <2>4, <2>6 DEF CallTidy
  <2> QED  BY <2>4, <2>7, <2>8 DEF Active
<1>5. ASSUME NEW c \in Calls, c \in Active,
             prev' = prev,
             \A d \in Calls \ {c} : pc'[d] = pc[d],
             CallTidy(c)',
             c \notin Active' => Up' \subseteq {route'}
      PROVE  /\ Active' = {} => Up' \subseteq {route'}
             /\ \A d \in Calls : CallTidy(d)'
  <2>1. \A d \in Calls \ {c} : pc[d] \in {"new", "done", "failed"}
    BY <1>5, OnlyOne
  <2> QED  BY <1>1, <1>5, <2>1 DEF CallTidy
<1>6. ASSUME NEW c \in Calls, CallAction(c), ~FindPrevious(c)
      PROVE  /\ Active' = {} => Up' \subseteq {route'}
             /\ \A d \in Calls : CallTidy(d)'
  <2>1. /\ c \in Active /\ prev' = prev
        /\ \A d \in Calls \ {c} : pc'[d] = pc[d]
    BY <1>6
    DEF CallAction, CreateCandidate, StartCandidate, CreateOrStartFails,
        HealthPasses, HealthFails, SwitchRoute, SwitchFails, RetirePrevious,
        Rename, RenameFails, Cleanup, Active, SwitchInv
  <2>2. CallTidy(c)' /\ (c \notin Active' => Up' \subseteq {route'})
    <3> USE DEF CallTidy, Active, SwitchInv, docker
    <3>1. CASE CreateCandidate(c)
      <4>1. Up' \subseteq Up /\ pc'[c] = "start" /\ route' = route /\ pc[c] = "create"
        BY <3>1 DEF CreateCandidate, SetContainer, Up
      <4> QED  BY <1>1, <2>1, <4>1
    <3>2. CASE StartCandidate(c)
      <4>1. /\ Up' \subseteq Up \cup {c} /\ pc'[c] = "health" /\ route' = route
            /\ pc[c] = "start"
        BY <3>2 DEF StartCandidate, SetContainer, Up
      <4> QED  BY <1>1, <2>1, <4>1
    <3>3. CASE CreateOrStartFails(c)
      <4>1. Up' = Up /\ pc'[c] = "failed" /\ route' = route /\ pc[c] \in {"create", "start"}
        BY <3>3 DEF CreateOrStartFails, Up
      <4> QED  BY <1>1, <2>1, <4>1
    <3>4. CASE HealthPasses(c) \/ HealthFails(c) \/ SwitchFails(c)
      <4>1. /\ Up' = Up /\ pc'[c] \in {"switch", "cleanup"} /\ route' = route
            /\ pc[c] \in {"health", "switch"}
        BY <3>4 DEF HealthPasses, HealthFails, SwitchFails, Up
      <4> QED  BY <1>1, <2>1, <4>1
    <3>5. CASE SwitchRoute(c)
      <4>1. Up' = Up /\ pc'[c] = "retire" /\ pc[c] = "switch"
        BY <3>5 DEF SwitchRoute, Up
      <4> QED  BY <1>1, <2>1, <4>1
    <3>6. CASE RetirePrevious(c)
      <4>1. pc[c] = "retire" /\ pc'[c] = "done" /\ route' = c
        BY <3>6 DEF RetirePrevious, AfterRetire, CallInv
      <4>2. Up' \subseteq {c}
        <5>1. CASE prev[c] = None
          BY <1>1, <3>6, <4>1, <5>1, SwitchAssumption DEF RetirePrevious, Up
        <5>2. CASE prev[c] # None
          <6>1. /\ \A d \in Calls : cont'[d] = cont[d] \/ cont'[d] = "none"
                /\ prev[c] \in Calls => cont'[prev[c]] = "none"
            <7>1. \A d \in Calls : name[d] = prev[c] => cont'[d] = "none"
              BY <3>6, <5>2, RemoveEffect DEF RetirePrevious
            <7>2. \A d \in Calls : cont'[d] = cont[d] \/ name[d] = prev[c]
              BY <3>6, <5>2, RemoveEffect DEF RetirePrevious
            <7> QED  BY <7>1, <7>2 DEF NamesFixed
          <6> QED  BY <1>1, <4>1, <6>1 DEF Up
        <5> QED  BY <5>1, <5>2
      <4> QED  BY <4>1, <4>2
    <3>7. CASE Cleanup(c)
      <4>1. pc[c] = "cleanup" /\ pc'[c] = "failed" /\ route' = route
        BY <3>7 DEF Cleanup
      <4>2. Up' \subseteq Up \ {c}
        <5>1. /\ \A d \in Calls : name[d] = c => cont'[d] = "none"
              /\ \A d \in Calls : cont'[d] = cont[d] \/ name[d] = c
          BY <3>7, RemoveEffect DEF Cleanup
        <5> QED  BY <5>1 DEF Up, NamesFixed
      <4> QED  BY <1>1, <4>1, <4>2
    <3>8. CASE Rename(c) \/ RenameFails(c)
      BY <3>8 DEF Rename, RenameFails, NamesFixed
    <3> QED
      BY <1>6, <3>1, <3>2, <3>3, <3>4, <3>5, <3>6, <3>7, <3>8 DEF CallAction
  <2> QED  BY <1>5, <2>1, <2>2
<1> QED  BY <1>2, <1>3, <1>4, <1>6 DEF SwitchNext

\* Behind the proxy, with one call at a time and no failure, a finished call has left
\* nothing running but the container with the traffic (deploy.ts:63, 71).
THEOREM NothingIsLeftRunning ==
  OneCallAtATime /\ SwitchSpec => []NothingLeftRunning
<1>1. OneCallAtATime => []OneCallAtATime
  BY DEF OneCallAtATime
<1>2. SwitchInit => Tidy
  BY DEF SwitchInit, Tidy, CallTidy, Up, Active
<1>3. OneCallAtATime /\ SwitchInit => (SwitchInv /\ Tidy) \/ NoRoute
  BY <1>2, InitInv
<1>4. (SwitchInv /\ Tidy) \/ NoRoute => NothingLeftRunning
  BY DEF Tidy, NoRoute, NothingLeftRunning
<1>5. OneCallAtATime /\ ((SwitchInv /\ Tidy) \/ NoRoute) /\ [SwitchNext]_switchVars
         => ((SwitchInv /\ Tidy) \/ NoRoute)'
  BY NextInv, TidyStep, NextNoRoute
<1> QED  BY <1>1, <1>3, <1>4, <1>5, PTL DEF SwitchSpec

\* The containers that have got the runtime's own name.
Named == {d \in Existing : name[d] = RuntimeName}

\* Without a proxy: a call that comes to the rename has removed the holder of the
\* name, so that with Docker obeying a tested candidate is never cleaned up.
DirectCall(c) ==
    /\ name[c] \in {c, RuntimeName}
    /\ name[c] = RuntimeName => pc[c] = "done"
    /\ prev[c] # c
    /\ pc[c] # "switch"
    /\ pc[c] \in {"new", "create"} => cont[c] = "none"
    /\ pc[c] = "start" => cont[c] = "created"
    /\ pc[c] \in {"health", "retire", "rename"} => cont[c] = "running"
    /\ pc[c] \in {"retire", "rename"} => c \in tested
    /\ pc[c] \in {"new", "create", "start", "health"} => c \notin tested
    /\ faults = 0 =>
          /\ c \in Named => cont[c] = "running"
          /\ pc[c] = "cleanup" => c \notin tested
          /\ pc[c] \in {"create", "start", "health", "retire"} /\ Named # {} =>
                prev[c] = RuntimeName
          /\ pc[c] = "rename" => Named = {}

DirectInv ==
    /\ mode # "proxy"
    /\ SwitchTypeOK
    /\ Alone
    /\ \A c \in Calls : DirectCall(c)

\* While a call is in progress the others have not begun or have ended.
LEMMA OthersRest ==
  ASSUME Alone, SwitchTypeOK, NEW c \in Calls, c \in Active, NEW d \in Calls, d # c
  PROVE  pc[d] \in {"new", "done", "failed"}
  BY DEF Alone, Active

\* A call that is resting is not disturbed by a step that leaves its name alone and
\* removes whole containers at most.
LEMMA RestUndisturbed ==
  ASSUME NEW d \in Calls, DirectCall(d), pc[d] \in {"new", "done", "failed"},
         pc'[d] = pc[d], prev'[d] = prev[d], name'[d] = name[d],
         pc[d] = "new" => d \notin tested',
         faults' = 0 => faults = 0 /\ cont'[d] \in {cont[d], "none"},
         cont'[d] = cont[d] \/ cont[d] # "none"
  PROVE  DirectCall(d)'
  BY DEF DirectCall, Named, Existing

\* The first state.
LEMMA DirectInit == SwitchInit => mode = "proxy" \/ DirectInv
  BY SwitchAssumption
  DEF SwitchInit, DirectInv, SwitchTypeOK, Alone, Active, DirectCall, Named,
      Existing, SwitchStep, ContainerState

\* Every step keeps the invariant of the modes without a proxy.
LEMMA DirectStep ==
  OneCallAtATime /\ DirectInv /\ [SwitchNext]_switchVars => DirectInv'
<1> SUFFICES ASSUME OneCallAtATime, DirectInv, [SwitchNext]_switchVars
             PROVE  DirectInv'
  OBVIOUS
<1> USE SwitchAssumption DEF Goto, SwitchTypeOK, DirectInv
<1>1. CASE UNCHANGED switchVars
  BY <1>1 DEF switchVars, docker, Alone, Active, DirectCall, Named, Existing
<1>2. CASE Crash
  <2>1. pc' \in [Calls -> SwitchStep] /\ crashes' \in 0 .. MaxCrashes
        /\ \A c \in Calls : pc'[c] \in {pc[c], "failed"} /\ (pc[c] = "done" => pc'[c] = "done")
    BY <1>2 DEF Crash, SwitchStep, Active
  <2>2. Alone'
    BY <1>2 DEF Crash, Alone, Active
  <2>3. UNCHANGED <<prev, docker, tested, route, faults, mode>>
    BY <1>2 DEF Crash
  <2>4. ASSUME NEW c \in Calls PROVE DirectCall(c)'
    BY <2>1, <2>3 DEF DirectCall, Named, Existing, docker
  <2> QED  BY <2>1, <2>2, <2>3, <2>4 DEF docker
<1>3. ASSUME NEW c \in Calls, FindPrevious(c) PROVE DirectInv'
  <2>1. Active = {}
    BY <1>3, NobodyActive DEF FindPrevious
  <2>2. /\ pc' = [pc EXCEPT ![c] = "create"] /\ pc[c] = "new"
        /\ UNCHANGED <<cont, name, published, tested, route, faults, crashes, mode>>
    BY <1>3 DEF FindPrevious, docker
  <2>3. cont[c] = "none" /\ name[c] = c /\ prev[c] # c /\ c \notin tested
    BY <2>2 DEF DirectCall
  <2>4. \A p \in Candidates : p \in Calls /\ p # c /\ name[p] \in {p, RuntimeName}
    BY <2>3 DEF Candidates, Stable, Up, DirectCall
  <2>5. /\ prev' \in [Calls -> Calls \cup {None, RuntimeName}]
        /\ prev'[c] # c /\ \A d \in Calls \ {c} : prev'[d] = prev[d]
    BY <1>3, <2>3, <2>4 DEF FindPrevious
  <2>6. faults = 0 /\ Named # {} => prev'[c] = RuntimeName
    <3>1. SUFFICES ASSUME faults = 0, NEW d \in Named PROVE prev'[c] = RuntimeName
      OBVIOUS
    <3>2. d \in Stable
      BY <3>1 DEF Named, Existing, Stable, Up, DirectCall
    <3>3. Candidates = Stable /\ Stable # {}
      BY <3>2 DEF Candidates
    <3>4. PICK p \in Stable : prev' = [prev EXCEPT ![c] = name[p]]
      BY <1>3, <3>3 DEF FindPrevious
    <3> QED  BY <3>4 DEF Stable
  <2>7. Alone'
    BY <2>1, <2>2 DEF Alone, Active
  <2>8. DirectCall(c)'
    BY <2>2, <2>3, <2>5, <2>6 DEF DirectCall, Named, Existing
  <2>9. ASSUME NEW d \in Calls \ {c} PROVE DirectCall(d)'
    BY <2>1, <2>2, <2>5 DEF DirectCall, Named, Existing
  <2> QED  BY <2>2, <2>5, <2>7, <2>8, <2>9 DEF SwitchStep
<1>4. ASSUME NEW c \in Calls, c \in Active,
             SwitchTypeOK', mode' = mode,
             \A d \in Calls \ {c} :
                /\ pc'[d] = pc[d] /\ prev'[d] = prev[d] /\ name'[d] = name[d]
                /\ cont'[d] = cont[d] \/ cont[d] # "none"
                /\ faults' = 0 => cont'[d] \in {cont[d], "none"},
             faults' = 0 => faults = 0,
             tested' \subseteq tested \cup {c},
             DirectCall(c)'
      PROVE  DirectInv'
  <2>1. Alone'
    BY <1>4 DEF Alone, Active
  <2>2. ASSUME NEW d \in Calls \ {c} PROVE DirectCall(d)'
    <3>1. pc[d] \in {"new", "done", "failed"}
      BY <1>4, OthersRest
    <3>2. pc[d] = "new" => d \notin tested'
      BY <1>4 DEF DirectCall
    <3> QED  BY <1>4, <3>1, <3>2, RestUndisturbed
  <2> QED  BY <1>4, <2>1, <2>2
<1>5. ASSUME NEW c \in Calls, CreateCandidate(c) PROVE DirectInv'
  <2>1. SwitchTypeOK'
    BY <1>5 DEF CreateCandidate, SetContainer, SwitchStep, ContainerState
  <2>2. DirectCall(c)'
    BY <1>5 DEF CreateCandidate, SetContainer, DirectCall, Named, Existing
  <2> QED
    BY <1>4, <1>5, <2>1, <2>2 DEF CreateCandidate, SetContainer, Active
<1>6. ASSUME NEW c \in Calls, StartCandidate(c) PROVE DirectInv'
  <2>1. SwitchTypeOK'
    BY <1>6 DEF StartCandidate, SetContainer, SwitchStep, ContainerState
  <2>2. DirectCall(c)'
    BY <1>6 DEF StartCandidate, SetContainer, DirectCall, Named, Existing
  <2> QED
    BY <1>4, <1>6, <2>1, <2>2 DEF StartCandidate, SetContainer, Active
<1>7. ASSUME NEW c \in Calls,
             CreateOrStartFails(c) \/ HealthPasses(c) \/ HealthFails(c)
      PROVE  DirectInv'
  <2>0. UNCHANGED <<prev, cont, name, published, route, faults, crashes, mode>>
    BY <1>7 DEF CreateOrStartFails, HealthPasses, HealthFails, docker
  <2>1. SwitchTypeOK'
    BY <1>7, <2>0 DEF CreateOrStartFails, HealthPasses, HealthFails, SwitchStep
  <2>2. DirectCall(c)'
    BY <1>7, <2>0
    DEF CreateOrStartFails, HealthPasses, HealthFails, DirectCall, Named, Existing
  <2> QED
    BY <1>4, <1>7, <2>0, <2>1, <2>2
    DEF CreateOrStartFails, HealthPasses, HealthFails, Active
<1>8. ASSUME NEW c \in Calls, RetirePrevious(c) PROVE DirectInv'
  <2>1. /\ pc[c] = "retire" /\ pc' = [pc EXCEPT ![c] = "rename"]
        /\ UNCHANGED <<prev, name, tested, route, crashes, mode>>
    BY <1>8 DEF RetirePrevious, AfterRetire
  <2>2. cont[c] = "running" /\ c \in tested /\ name[c] = c /\ prev[c] # c
    BY <2>1 DEF DirectCall
  <2>3. /\ cont' \in [Calls -> ContainerState]
        /\ \A d \in Calls : cont'[d] = cont[d] \/ (name[d] = prev[c] /\ cont[d] # "none")
        /\ published' \subseteq Calls
        /\ faults' \in 0 .. MaxFaults
        /\ faults' = 0 => /\ faults = 0
                          /\ \A d \in Calls : name[d] = prev[c] => cont'[d] = "none"
    <3>1. CASE prev[c] = None
      BY <1>8, <3>1 DEF RetirePrevious
    <3>2. CASE prev[c] # None
      BY <1>8, <3>2, RemoveEffect DEF RetirePrevious
    <3> QED  BY <3>1, <3>2
  <2>4. SwitchTypeOK'
    BY <2>1, <2>3 DEF SwitchStep
  <2>5. cont'[c] = "running"
    BY <2>2, <2>3
  <2>6. faults' = 0 => Named' = {}
    <3>1. SUFFICES ASSUME faults' = 0, NEW d \in Named' PROVE FALSE
      OBVIOUS
    <3>2. d \in Calls /\ name[d] = RuntimeName /\ cont'[d] # "none"
      BY <2>1 DEF Named, Existing
    <3>3. d \in Named
      BY <2>3, <3>2 DEF Named, Existing
    <3>4. prev[c] = RuntimeName
      BY <2>1, <2>3, <3>1, <3>3 DEF DirectCall
    <3> QED  BY <2>3, <3>1, <3>2, <3>4
  <2>7. DirectCall(c)'
    BY <2>1, <2>2, <2>5, <2>6 DEF DirectCall
  <2> QED
    BY <1>4, <2>1, <2>3, <2>4, <2>7 DEF Active
<1>9. ASSUME NEW c \in Calls, Cleanup(c) PROVE DirectInv'
  <2>1. /\ pc[c] = "cleanup" /\ pc' = [pc EXCEPT ![c] = "failed"]
        /\ UNCHANGED <<prev, name, tested, route, crashes, mode>>
    BY <1>9 DEF Cleanup
  <2>2. /\ cont' \in [Calls -> ContainerState]
        /\ \A d \in Calls : cont'[d] = cont[d] \/ (name[d] = c /\ cont[d] # "none")
        /\ published' \subseteq Calls
        /\ faults' \in 0 .. MaxFaults
        /\ faults' = 0 => /\ faults = 0
                          /\ \A d \in Calls : name[d] = c => cont'[d] = "none"
    BY <1>9, RemoveEffect DEF Cleanup
  <2>3. SwitchTypeOK'
    BY <2>1, <2>2 DEF SwitchStep
  <2>4. DirectCall(c)'
    BY <2>1, <2>2 DEF DirectCall, Named, Existing
  <2> QED
    BY <1>4, <2>1, <2>2, <2>3, <2>4 DEF Active
<1>10. ASSUME NEW c \in Calls, Rename(c) PROVE DirectInv'
  <2>1. SwitchTypeOK'
    BY <1>10 DEF Rename, SwitchStep
  <2>2. DirectCall(c)'
    BY <1>10 DEF Rename, DirectCall
  <2> QED
    BY <1>4, <1>10, <2>1, <2>2 DEF Rename, Active
<1>11. ASSUME NEW c \in Calls, RenameFails(c) PROVE DirectInv'
  <2>0. /\ UNCHANGED <<prev, cont, name, published, tested, route, crashes, mode>>
        /\ faults' \in 0 .. MaxFaults /\ (faults' = 0 => faults = 0)
    BY <1>11 DEF RenameFails, docker
  <2>1. SwitchTypeOK'
    BY <1>11, <2>0 DEF RenameFails, SwitchStep
  <2>2. faults' # 0
    BY <1>11, <2>0 DEF RenameFails, NameTaken, DirectCall, Named
  <2>3. DirectCall(c)'
    BY <1>11, <2>0, <2>2 DEF RenameFails, DirectCall
  <2> QED
    BY <1>4, <1>11, <2>0, <2>1, <2>3 DEF RenameFails, Active
<1>12. ASSUME NEW c \in Calls, SwitchRoute(c) \/ SwitchFails(c) PROVE DirectInv'
  BY <1>12 DEF SwitchRoute, SwitchFails, DirectCall
<1> QED
  BY <1>1, <1>2, <1>3, <1>5, <1>6, <1>7, <1>8, <1>9, <1>10, <1>11, <1>12
  DEF SwitchNext, CallAction

\* Of the containers that run and are tested, only the previous one is removed, and
\* then the candidate runs and is tested.
LEMMA AvailableStep ==
  ASSUME DirectInv, [SwitchNext]_switchVars, faults' = 0, Available
  PROVE  Available'
<1> USE SwitchAssumption DEF DirectInv, SwitchTypeOK, Goto
<1>1. PICK a \in Calls : cont[a] = "running" /\ a \in tested
  BY DEF Available, Up
<1>2. ASSUME NEW b \in Calls, cont'[b] = "running", b \in tested'
      PROVE  Available'
  BY <1>2 DEF Available, Up
<1>3. CASE cont'[a] = "running" /\ a \in tested'
  BY <1>2, <1>3
<1>4. ASSUME NEW c \in Calls, RetirePrevious(c) PROVE Available'
  <2>1. pc[c] = "retire" /\ tested' = tested
    BY <1>4 DEF RetirePrevious
  <2>2. cont[c] = "running" /\ c \in tested /\ name[c] = c /\ prev[c] # c
    BY <2>1 DEF DirectCall
  <2>3. cont'[c] = cont[c]
    BY <1>4, <2>2, RemoveEffect DEF RetirePrevious
  <2> QED  BY <1>2, <2>1, <2>2, <2>3
<1>5. ASSUME NEW c \in Calls, Cleanup(c) PROVE Available'
  <2>1. pc[c] = "cleanup" /\ tested' = tested /\ faults = 0
    BY <1>5, RemoveEffect DEF Cleanup
  <2>2. a # c
    BY <1>1, <2>1 DEF DirectCall
  <2>3. cont'[a] = cont[a]
    BY <1>5, <2>2, RemoveEffect DEF Cleanup, DirectCall
  <2> QED  BY <1>1, <1>2, <2>1, <2>3
<1>6. ASSUME NEW c \in Calls, CallAction(c), ~RetirePrevious(c), ~Cleanup(c)
      PROVE  cont'[a] = "running" /\ a \in tested'
  <2>1. CASE CreateCandidate(c)
    BY <1>1, <2>1 DEF CreateCandidate, SetContainer, DirectCall
  <2>2. CASE ~CreateCandidate(c)
    BY <1>1, <1>6, <2>2
    DEF CallAction, FindPrevious, StartCandidate, SetContainer, CreateOrStartFails,
        HealthPasses, HealthFails, SwitchRoute, SwitchFails, Rename, RenameFails, docker
  <2> QED  BY <2>1, <2>2
<1>7. CASE Crash \/ UNCHANGED switchVars
  BY <1>1, <1>3, <1>7 DEF Crash, switchVars, docker
<1> QED  BY <1>3, <1>4, <1>5, <1>6, <1>7 DEF SwitchNext

\* Without a proxy, a tested container stays up while the next one is brought in,
\* across crashes and failed candidates (deploy.ts:67-71).
THEOREM OneStaysAvailable == OneCallAtATime /\ SwitchSpec => StaysAvailable
<1>1. OneCallAtATime => []OneCallAtATime
  BY DEF OneCallAtATime
<1>2. (mode = "proxy") /\ [SwitchNext]_switchVars => (mode = "proxy")'
  BY DEF SwitchNext, switchVars, CallAction, FindPrevious, CreateCandidate,
         StartCandidate, CreateOrStartFails, HealthPasses, HealthFails, SwitchRoute,
         SwitchFails, RetirePrevious, Rename, RenameFails, Cleanup, Crash
<1>3. (mode = "proxy" \/ DirectInv) /\ [SwitchNext]_switchVars
         => [mode # "proxy" /\ faults' = 0 /\ Available => Available']_switchVars
  BY AvailableStep
<1> QED
  BY <1>1, <1>2, <1>3, DirectInit, DirectStep, PTL DEF SwitchSpec, StaysAvailable
=============================================================================
