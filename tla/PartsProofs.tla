------------------------------ MODULE PartsProofs ------------------------------
(***************************************************************************)
(* Three parts that share nothing: the table of phases keeps unchecked     *)
(* deployments from going live; the in-memory queue keeps to its limit,    *)
(* wastes no slot and serves in the order of submission; the API listens   *)
(* only on a whole schema and with secrets of its operator.  At the end    *)
(* they are put together with the runtime switch, the runtime nodes and    *)
(* the deploy page, as TLC checks them.                                    *)
(***************************************************************************)
EXTENDS MCParts, RuntimeSwitchProofs, NodeClaimsProofs, ConsoleProofs, TLAPS,
        FiniteSetTheorems, SequenceTheorems

-----------------------------------------------------------------------------
(* The table of phases *)

\* The states before the health check.
Early == {"QUEUED", "CLONING", "DETECTING", "BUILDING", "TESTING",
          "SECURITY_SCAN", "PROVISIONING", "DEPLOYING"}

\* A record that has seen neither a health check nor a failure is still early, or
\* stopped; that is why no traffic state can be in its path.
Unchecked(d) == path[d] \cap {"HEALTH_CHECK", "FAILED"} = {}

PhasesInv ==
    /\ PhasesTypeOK
    /\ \A d \in Ids :
          Unchecked(d) => /\ status[d] \in Early \cup {"STOPPED", "absent"}
                          /\ path[d] \cap {"LIVE", "TRAFFIC_SHIFT"} = {}

\* From an early state the table leads to early states, the health check, a
\* failure or a stop; from STOPPED it leads nowhere.
LEMMA EarlyLeadsTo ==
  ASSUME NEW from \in Early \cup {"STOPPED"}, NEW to \in DeploymentState,
         canTransition(from, to)
  PROVE  to \in Early \cup {"STOPPED", "HEALTH_CHECK", "FAILED"}
<1>1. /\ allowedTransitions["QUEUED"] = {"CLONING", "FAILED", "STOPPED"}
      /\ allowedTransitions["CLONING"] = {"DETECTING", "FAILED", "STOPPED"}
      /\ allowedTransitions["DETECTING"] = {"BUILDING", "FAILED", "STOPPED"}
      /\ allowedTransitions["BUILDING"] = {"TESTING", "FAILED", "STOPPED"}
      /\ allowedTransitions["TESTING"] =
            {"SECURITY_SCAN", "PROVISIONING", "FAILED", "STOPPED"}
      /\ allowedTransitions["SECURITY_SCAN"] =
            {"PROVISIONING", "FAILED", "STOPPED"}
      /\ allowedTransitions["PROVISIONING"] =
            {"DEPLOYING", "FAILED", "STOPPED"}
      /\ allowedTransitions["DEPLOYING"] =
            {"HEALTH_CHECK", "FAILED", "STOPPED"}
      /\ allowedTransitions["STOPPED"] = {}
  BY DEF allowedTransitions
<1>2. from = to \/ to \in allowedTransitions[from]
  BY DEF canTransition
<1>3. CASE from \in {"QUEUED", "CLONING", "DETECTING", "BUILDING"}
  BY <1>1, <1>2, <1>3 DEF Early
<1>4. CASE from \in {"TESTING", "SECURITY_SCAN", "PROVISIONING", "DEPLOYING",
                     "STOPPED"}
  BY <1>1, <1>2, <1>4 DEF Early
<1> QED  BY <1>3, <1>4 DEF Early

\* A created record satisfies the invariant, whatever was there before.
LEMMA CreateStep ==
  ASSUME PhasesInv, NEW d \in Ids, createDeployment(d)
  PROVE  PhasesInv'
<1>1. PhasesTypeOK'
  BY DEF createDeployment, PhasesInv, PhasesTypeOK, DeploymentState
<1> QED
  BY <1>1 DEF createDeployment, PhasesInv, PhasesTypeOK, Unchecked, Early

\* A transition along the table keeps the invariant.
LEMMA UpdateStep ==
  ASSUME PhasesInv, NEW d \in Ids, NEW to \in DeploymentState,
         updateDeployment(d, to)
  PROVE  PhasesInv'
<1>1. PhasesTypeOK'
  BY DEF updateDeployment, PhasesInv, PhasesTypeOK
<1>2. status'[d] = to /\ path'[d] = path[d] \cup {to}
      /\ \A e \in Ids : e # d => status'[e] = status[e] /\ path'[e] = path[e]
  BY DEF updateDeployment, PhasesInv, PhasesTypeOK
<1>3. ASSUME Unchecked(d)'
      PROVE  /\ status'[d] \in Early \cup {"STOPPED", "absent"}
             /\ path'[d] \cap {"LIVE", "TRAFFIC_SHIFT"} = {}
  <2>1. Unchecked(d) /\ to \notin {"HEALTH_CHECK", "FAILED"}
    BY <1>2, <1>3 DEF Unchecked
  <2>2. status[d] \in Early \cup {"STOPPED"}
    BY <2>1 DEF PhasesInv, updateDeployment
  <2>3. to \in Early \cup {"STOPPED"}
    BY <2>1, <2>2, EarlyLeadsTo DEF updateDeployment
  <2> QED  BY <1>2, <2>1, <2>3 DEF PhasesInv, Early
<1>4. ASSUME NEW e \in Ids, e # d, Unchecked(e)'
      PROVE  /\ status'[e] \in Early \cup {"STOPPED", "absent"}
             /\ path'[e] \cap {"LIVE", "TRAFFIC_SHIFT"} = {}
  BY <1>2, <1>4 DEF PhasesInv, Unchecked
<1> QED  BY <1>1, <1>3, <1>4 DEF PhasesInv

\* The invariant holds in every reachable state.
LEMMA PhasesInvariance == PhasesSpec => []PhasesInv
<1>1. PhasesInit => PhasesInv
  BY DEF PhasesInit, PhasesInv, PhasesTypeOK, Unchecked
<1>2. PhasesInv /\ [PhasesNext]_phasesVars => PhasesInv'
  <2>1. ASSUME PhasesInv, UNCHANGED phasesVars PROVE PhasesInv'
    BY <2>1 DEF phasesVars, PhasesInv, PhasesTypeOK, Unchecked
  <2> QED  BY <2>1, CreateStep, UpdateStep DEF PhasesNext
<1> QED  BY <1>1, <1>2, PTL DEF PhasesSpec

\* No deployment carries traffic without a health check unless it has failed
\* before (deployment-state.ts:8-25, 57).
THEOREM CheckedOrFailed == PhasesSpec => []LiveWasCheckedOrFailed
<1>1. PhasesInv => LiveWasCheckedOrFailed
  BY DEF PhasesInv, LiveWasCheckedOrFailed, Unchecked
<1> QED  BY <1>1, PhasesInvariance, PTL

\* Only a new record of the same id leaves STOPPED (deployment-state.ts:24).
THEOREM StoppedStays == PhasesSpec => StoppedIsFinal
<1>1. ASSUME PhasesInv, [PhasesNext]_phasesVars, NEW d \in Ids, status[d] = "STOPPED"
      PROVE  status'[d] \in {"STOPPED", "QUEUED"}
  <2>1. ASSUME NEW e \in Ids, createDeployment(e)
        PROVE  status'[d] \in {"STOPPED", "QUEUED"}
    BY <1>1, <2>1 DEF createDeployment, PhasesInv, PhasesTypeOK
  <2>2. ASSUME NEW e \in Ids, NEW to \in DeploymentState,
               updateDeployment(e, to)
        PROVE  status'[d] \in {"STOPPED", "QUEUED"}
    BY <1>1, <2>2
    DEF updateDeployment, canTransition, allowedTransitions, PhasesInv, PhasesTypeOK
  <2>3. CASE UNCHANGED phasesVars
    BY <1>1, <2>3 DEF phasesVars
  <2> QED  BY <1>1, <2>1, <2>2, <2>3 DEF PhasesNext
<1>2. PhasesInv /\ [PhasesNext]_phasesVars
      => [\A d \in Ids : status[d] = "STOPPED"
                          => status'[d] \in {"STOPPED", "QUEUED"}]_phasesVars
  BY <1>1
<1> QED  BY <1>2, PhasesInvariance, PTL DEF PhasesSpec, StoppedIsFinal

-----------------------------------------------------------------------------
(* The in-memory queue *)

\* The calls of enqueue are told apart, and a job in flight was started: with
\* FirstInFirstOut this makes the next job in the list one that is not in
\* flight, which is what the counter needs.
Distinct(s) == \A i, k \in 1 .. Len(s) : s[i] = s[k] => i = k

QueueInv ==
    /\ QueueTypeOK
    /\ SlotsBounded
    /\ WorkConserving
    /\ FirstInFirstOut
    /\ Distinct(submitted)
    /\ inFlight \subseteq Elements(started)

\* What the arguments of a drain satisfy: as QueueInv, but one slot may be free while
\* jobs wait, or one job may have come while slots are free.
Drainable(r, p, f, s, sub) ==
    /\ r \in Nat /\ p \in Seq(Jobs) /\ f \subseteq Jobs
    /\ s \in Seq(Jobs) /\ sub \in Seq(Jobs)
    /\ r = Cardinality(f) /\ r <= concurrency
    /\ Len(p) > 1 => r >= concurrency - 1
    /\ s \o p = sub
    /\ Distinct(sub)
    /\ f \subseteq Elements(s)

\* The limit is a positive number, whatever the environment variable holds.
LEMMA LimitIsPositive == concurrency \in Nat /\ concurrency >= 1
  BY QueueAssumption DEF concurrency

\* The jobs already started are the first of those submitted, and the head of
\* the list is the one after them.
LEMMA HeadIsNext ==
  ASSUME NEW s \in Seq(Jobs), NEW p \in Seq(Jobs), p # <<>>
  PROVE  /\ \A i \in 1 .. Len(s) : (s \o p)[i] = s[i]
         /\ (s \o p)[Len(s) + 1] = Head(p)
         /\ Len(s \o p) = Len(s) + Len(p)
         /\ Len(p) >= 1
         /\ Head(p) \in Jobs
         /\ Tail(p) \in Seq(Jobs)
         /\ Len(Tail(p)) = Len(p) - 1
  BY ConcatProperties, HeadTailProperties, EmptySeq

\* Moving the head of the list to the end of the started jobs keeps the order.
LEMMA MoveHead ==
  ASSUME NEW s \in Seq(Jobs), NEW p \in Seq(Jobs), p # <<>>
  PROVE  Append(s, Head(p)) \o Tail(p) = s \o p
<1>1. <<Head(p)>> \o Tail(p) = p
  BY ConcatProperties, HeadTailProperties, EmptySeq
<1>2. Append(s, Head(p)) = s \o <<Head(p)>>
  BY AppendIsConcat, HeadTailProperties
<1>3. (s \o <<Head(p)>>) \o Tail(p) = s \o (<<Head(p)>> \o Tail(p))
  BY ConcatAssociative, HeadTailProperties
<1> QED  BY <1>1, <1>2, <1>3

\* The job drain() takes from the list is not in flight.
LEMMA HeadNotInFlight ==
  ASSUME NEW r, NEW p, NEW f, NEW s, NEW sub,
         Drainable(r, p, f, s, sub), p # <<>>
  PROVE  Head(p) \notin f
<1>1. s \in Seq(Jobs) /\ p \in Seq(Jobs) /\ sub = s \o p /\ Distinct(sub)
      /\ f \subseteq Elements(s)
  BY DEF Drainable
<1>2. SUFFICES ASSUME NEW i \in 1 .. Len(s), s[i] = Head(p) PROVE FALSE
  BY <1>1 DEF Elements
<1>3. sub[i] = sub[Len(s) + 1] /\ Len(sub) = Len(s) + Len(p) /\ Len(p) >= 1
  BY <1>1, <1>2, HeadIsNext
<1>4. i \in 1 .. Len(sub) /\ Len(s) + 1 \in 1 .. Len(sub)
  BY <1>1, <1>3
<1>5. i # Len(s) + 1
  BY <1>1, <1>2
<1>6. \A m, n \in 1 .. Len(sub) : sub[m] = sub[n] => m = n
  BY <1>1 DEF Distinct
<1> QED  BY <1>3, <1>4, <1>5, <1>6

\* A drain of such arguments ends in a state that satisfies the invariant.
LEMMA DrainStep ==
  ASSUME NEW r, NEW p, NEW f, NEW s, NEW sub,
         Drainable(r, p, f, s, sub), submitted' = sub, Drain(r, p, f, s)
  PROVE  QueueInv'
<1> USE LimitIsPositive
<1>1. CASE HasRoom(r) /\ p # <<>>
  <2>1. /\ running' = r + 1 /\ pending' = Tail(p)
        /\ inFlight' = f \cup {Head(p)} /\ started' = Append(s, Head(p))
    BY <1>1 DEF Drain
  <2>2. Head(p) \notin f  BY <1>1, HeadNotInFlight
  <2>3. IsFiniteSet(f)
    <3>1. IsFiniteSet(Jobs) /\ f \subseteq Jobs
      BY QueueAssumption DEF Drainable
    <3> QED  BY <3>1, FS_Subset
  <2>4. Cardinality(f \cup {Head(p)}) = Cardinality(f) + 1
    BY <2>2, <2>3, FS_AddElement
  <2>5. s \in Seq(Jobs) /\ p \in Seq(Jobs) /\ Head(p) \in Jobs
        /\ Tail(p) \in Seq(Jobs) /\ Len(Tail(p)) = Len(p) - 1 /\ Len(p) >= 1
    BY <1>1, HeadIsNext DEF Drainable
  <2>6. Append(s, Head(p)) \in Seq(Jobs)  BY <2>5, AppendProperties
  <2>7. QueueTypeOK'  BY <2>1, <2>5, <2>6 DEF QueueTypeOK, Drainable
  <2>8. SlotsBounded'
    BY <1>1, <2>1, <2>4 DEF SlotsBounded, Drainable, HasRoom
  <2>9. WorkConserving'
    <3>1. Tail(p) # <<>> => Len(p) > 1  BY <2>5, EmptySeq
    <3> QED  BY <2>1, <3>1 DEF WorkConserving, Drainable
  <2>10. FirstInFirstOut'
    BY <1>1, <2>1, <2>5, MoveHead DEF FirstInFirstOut, Drainable
  <2>11. (inFlight \subseteq Elements(started))'
    <3>1. Len(Append(s, Head(p))) = Len(s) + 1
          /\ \A i \in 1 .. Len(s) : Append(s, Head(p))[i] = s[i]
          /\ Append(s, Head(p))[Len(s) + 1] = Head(p)
          /\ Len(s) \in Nat
      BY <2>5, AppendProperties
    <3>2. Elements(s) \cup {Head(p)} \subseteq Elements(Append(s, Head(p)))
      BY <3>1 DEF Elements
    <3> QED  BY <2>1, <3>2 DEF Drainable
  <2> QED  BY <2>7, <2>8, <2>9, <2>10, <2>11 DEF QueueInv, Drainable
<1>2. CASE ~(HasRoom(r) /\ p # <<>>)
  <2>1. running' = r /\ pending' = p /\ inFlight' = f /\ started' = s
    BY <1>2 DEF Drain
  <2>2. WorkConserving'
    BY <1>2, <2>1 DEF WorkConserving, HasRoom, Drainable
  <2> QED
    BY <2>1, <2>2
    DEF QueueInv, QueueTypeOK, SlotsBounded, FirstInFirstOut, Drainable
<1> QED  BY <1>1, <1>2

\* A call of enqueue keeps the invariant.
LEMMA EnqueueStep ==
  ASSUME QueueInv, NEW j \in Jobs, enqueue(j)
  PROVE  QueueInv'
<1> DEFINE p == Append(pending, j)
           sub == Append(submitted, j)
<1>1. p \in Seq(Jobs) /\ sub \in Seq(Jobs) /\ Len(p) = Len(pending) + 1
      /\ Len(sub) = Len(submitted) + 1
      /\ (\A i \in 1 .. Len(submitted) : sub[i] = submitted[i])
      /\ sub[Len(submitted) + 1] = j
  BY AppendProperties DEF QueueInv, QueueTypeOK
<1>2. Len(p) > 1 => running >= concurrency
  BY <1>1, EmptySeq DEF QueueInv, QueueTypeOK, WorkConserving
<1>3. started \o p = sub
  <2>1. p = pending \o <<j>> /\ sub = submitted \o <<j>>
    BY AppendIsConcat DEF QueueInv, QueueTypeOK
  <2>2. (started \o pending) \o <<j>> = started \o (pending \o <<j>>)
    BY ConcatAssociative DEF QueueInv, QueueTypeOK
  <2> QED  BY <2>1, <2>2 DEF QueueInv, FirstInFirstOut
<1>4. Distinct(sub)
  <2>1. \A i \in 1 .. Len(submitted) : submitted[i] # j
    BY DEF enqueue, Elements
  <2>2. Len(submitted) \in Nat  BY DEF QueueInv, QueueTypeOK
  <2>3. SUFFICES ASSUME NEW i \in 1 .. Len(sub), NEW k \in 1 .. Len(sub),
                        sub[i] = sub[k]
                 PROVE  i = k
    BY DEF Distinct
  <2>4. CASE i \in 1 .. Len(submitted) /\ k \in 1 .. Len(submitted)
    BY <1>1, <2>3, <2>4 DEF QueueInv, Distinct
  <2>5. CASE i = Len(submitted) + 1
    BY <1>1, <2>1, <2>2, <2>3, <2>5
  <2>6. CASE k = Len(submitted) + 1
    BY <1>1, <2>1, <2>2, <2>3, <2>6
  <2> QED  BY <1>1, <2>2, <2>4, <2>5, <2>6
<1>5. Drainable(running, p, inFlight, started, sub)
  BY <1>1, <1>2, <1>3, <1>4, LimitIsPositive
  DEF QueueInv, QueueTypeOK, SlotsBounded, Drainable
<1>6. submitted' = sub /\ Drain(running, p, inFlight, started)
  BY DEF enqueue
<1> HIDE DEF p, sub
<1> QED  BY <1>5, <1>6, DrainStep

\* A job that settles keeps the invariant.
LEMMA SettleStep ==
  ASSUME QueueInv, NEW j \in Jobs, Settle(j)
  PROVE  QueueInv'
<1>1. IsFiniteSet(inFlight)
  BY QueueAssumption, FS_Subset DEF QueueInv, QueueTypeOK
<1>2. Cardinality(inFlight \ {j}) = Cardinality(inFlight) - 1
      /\ Cardinality(inFlight \ {j}) \in Nat
  BY <1>1, FS_RemoveElement, FS_CardinalityType, FS_Subset DEF Settle
<1>3. Len(pending) > 1 => running >= concurrency
  BY EmptySeq DEF QueueInv, QueueTypeOK, WorkConserving
<1>4. Drainable(running - 1, pending, inFlight \ {j}, started, submitted)
  BY <1>2, <1>3, LimitIsPositive
  DEF QueueInv, QueueTypeOK, SlotsBounded, FirstInFirstOut, Drainable
<1> QED  BY <1>4, DrainStep DEF Settle

\* The invariant holds in every reachable state.
LEMMA QueueInvariance == QueueSpec => []QueueInv
<1>1. QueueInit => QueueInv
  BY LimitIsPositive, FS_EmptySet, EmptySeq, ConcatEmptySeq
  DEF QueueInit, QueueInv, QueueTypeOK, SlotsBounded, WorkConserving, FirstInFirstOut,
      Distinct, Elements
<1>2. QueueInv /\ [QueueNext]_queueVars => QueueInv'
  <2>1. ASSUME QueueInv, UNCHANGED queueVars PROVE QueueInv'
    BY <2>1 DEF queueVars, QueueInv, QueueTypeOK, SlotsBounded, WorkConserving,
                FirstInFirstOut
  <2> QED  BY <2>1, EnqueueStep, SettleStep DEF QueueNext
<1> QED  BY <1>1, <1>2, PTL DEF QueueSpec

\* Never more jobs in flight than the limit, no job waits beside a free slot, and jobs are
\* started in the order of the calls of enqueue (queue.ts:13-23).
THEOREM OrderIsKept == QueueSpec => []QueueKeepsOrder
<1>1. QueueInv => QueueKeepsOrder  BY DEF QueueInv, QueueKeepsOrder
<1> QED  BY <1>1, QueueInvariance, PTL

-----------------------------------------------------------------------------
(* The start of the API *)

\* What the scripts before the one a process is at have made is there.
Prepared(p) ==
    /\ boot[p] = "listening" => \A x \in Scripts : Script[x].makes \subseteq schema
    /\ \A i \in DOMAIN Boot :
          boot[p] = Boot[i] => \A j \in 1 .. i - 1 : Script[Boot[j]].makes \subseteq schema

\* A process that is up has an environment that its checks have let pass.
Admitted(p) == boot[p] # "down" => Starts(env[p])

StartupInv ==
    /\ StartupTypeOK
    /\ \A p \in Processes : Prepared(p) /\ Admitted(p)

\* Boot runs every script once.
LEMMA BootOrder ==
  /\ DOMAIN Boot = 1 .. 6 /\ Len(Boot) = 6
  /\ Scripts = {Boot[i] : i \in 1 .. 6}
  /\ \A i, j \in 1 .. 6 : Boot[i] = Boot[j] => i = j
  /\ Scripts \cap {"down", "listening"} = {}
<1>1. DOMAIN Boot = 1 .. 6 /\ Len(Boot) = 6
  BY DEF Boot
<1>2. /\ Boot[1] = "ensurePreviewLifecycleSchema" /\ Boot[2] = "initDb"
      /\ Boot[3] = "ensurePlatformSchema" /\ Boot[4] = "ensureQuotaSchema"
      /\ Boot[5] = "ensureMarketSchema" /\ Boot[6] = "ensureSchema"
  BY DEF Boot
<1>3. Scripts = {"initDb", "ensurePreviewLifecycleSchema", "ensurePlatformSchema",
                 "ensureQuotaSchema", "ensureMarketSchema", "ensureSchema"}
  BY DEF Scripts, Script
<1>4. 1 .. 6 = {1, 2, 3, 4, 5, 6}
  OBVIOUS
<1>5. Scripts = {Boot[i] : i \in 1 .. 6}
  BY <1>2, <1>3, <1>4
<1>6. ASSUME NEW i \in 1 .. 6, NEW j \in 1 .. 6, Boot[i] = Boot[j] PROVE i = j
  BY <1>2, <1>4, <1>6
<1>7. Scripts \cap {"down", "listening"} = {}
  BY <1>3
<1> QED  BY <1>1, <1>5, <1>6, <1>7

LEMMA AfterNext ==
  ASSUME NEW i \in 1 .. 6
  PROVE  /\ i = 6 => After(Boot[i]) = "listening"
         /\ i # 6 => After(Boot[i]) = Boot[i + 1]
<1>1. (CHOOSE k \in DOMAIN Boot : Boot[k] = Boot[i]) = i
  BY BootOrder
<1> QED  BY <1>1, BootOrder DEF After

\* A commit leaves the next script all that it may refer to of the ones before.
LEMMA ScriptStep ==
  ASSUME StartupInv, NEW p \in Processes, ScriptSucceeds(p)
  PROVE  StartupInv'
<1>1. PICK i \in 1 .. 6 : boot[p] = Boot[i]
  BY BootOrder DEF ScriptSucceeds
<1>2. /\ schema' = schema \cup Script[Boot[i]].makes
      /\ boot' = [boot EXCEPT ![p] = After(Boot[i])]
      /\ raced' = (raced \ {p}) \cup Racing(p)
      /\ UNCHANGED <<database, env, ends>>
      /\ boot \in [Processes -> Scripts \cup {"down", "listening"}]
      /\ raced \subseteq {q \in Processes : boot[q] \in Scripts}
  BY <1>1 DEF ScriptSucceeds, StartupInv, StartupTypeOK
<1>3. After(Boot[i]) \in Scripts \cup {"listening"}
  <2>1. i # 6 => i + 1 \in 1 .. 6
    OBVIOUS
  <2> QED  BY <2>1, AfterNext, BootOrder
<1>4. StartupTypeOK'
  <2>1. Script[Boot[i]].makes \subseteq Made(Scripts)
    BY BootOrder DEF Made
  <2>2. Racing(p) \subseteq {q \in Processes \ {p} : boot[q] \in Scripts}
    BY DEF Racing, ScriptSucceeds
  <2>3. boot' \in [Processes -> Scripts \cup {"down", "listening"}]
    BY <1>2, <1>3
  <2>4. raced' \subseteq {q \in Processes : boot'[q] \in Scripts}
    BY <1>2, <2>2
  <2> QED  BY <1>2, <2>1, <2>3, <2>4 DEF StartupInv, StartupTypeOK
<1>5. Prepared(p)'
  <2>1. \A j \in 1 .. i : Script[Boot[j]].makes \subseteq schema'
    <3>1. \A j \in 1 .. i - 1 : Script[Boot[j]].makes \subseteq schema
      BY <1>1, BootOrder DEF StartupInv, Prepared
    <3> QED  BY <1>2, <3>1
  <2>2. boot'[p] = After(Boot[i])
    BY <1>2
  <2>3. CASE i = 6
    <3>1. boot'[p] = "listening"
      BY <2>2, <2>3, AfterNext
    <3>2. \A x \in Scripts : Script[x].makes \subseteq schema'
      BY <2>1, <2>3, BootOrder
    <3>3. \A k \in DOMAIN Boot : boot'[p] # Boot[k]
      BY <3>1, BootOrder
    <3> QED  BY <3>2, <3>3 DEF Prepared
  <2>4. CASE i # 6
    <3>1. boot'[p] = Boot[i + 1] /\ i + 1 \in 1 .. 6
      BY <2>2, <2>4, AfterNext
    <3>2. boot'[p] # "listening"
      BY <3>1, BootOrder
    <3>3. \A k \in DOMAIN Boot : boot'[p] = Boot[k] => k = i + 1
      BY <3>1, BootOrder
    <3> QED  BY <2>1, <3>2, <3>3 DEF Prepared
  <2> QED  BY <2>3, <2>4
<1>6. ASSUME NEW q \in Processes, q # p PROVE Prepared(q)'
  BY <1>2, <1>6 DEF StartupInv, Prepared
<1>7. ASSUME NEW q \in Processes PROVE Admitted(q)'
  BY <1>1, <1>2, <1>7, BootOrder DEF StartupInv, Admitted
<1> QED  BY <1>4, <1>5, <1>6, <1>7 DEF StartupInv

\* A process starts with an environment that passes, at the first script.
LEMMA StartStep ==
  ASSUME StartupInv, NEW p \in Processes, StartProcess(p)
  PROVE  StartupInv'
<1>1. PICK e \in Environments : Starts(e) /\ env' = [env EXCEPT ![p] = e]
  BY DEF StartProcess
<1>2. /\ boot' = [boot EXCEPT ![p] = Boot[1]]
      /\ boot[p] = "down"
      /\ UNCHANGED <<schema, database, raced, ends>>
      /\ boot \in [Processes -> Scripts \cup {"down", "listening"}]
      /\ env \in [Processes -> [Names -> Settings \cup {Production}]]
  BY DEF StartProcess, StartupInv, StartupTypeOK
<1>3. Boot[1] \in Scripts
  BY BootOrder
<1>4. StartupTypeOK'
  <2>1. env' \in [Processes -> [Names -> Settings \cup {Production}]]
    BY <1>1, <1>2, StartupAssumption
  <2>2. boot' \in [Processes -> Scripts \cup {"down", "listening"}]
    BY <1>2, <1>3
  <2>3. raced' \subseteq {q \in Processes : boot'[q] \in Scripts}
    BY <1>2, <1>3 DEF StartupInv, StartupTypeOK
  <2> QED  BY <1>2, <2>1, <2>2, <2>3 DEF StartupInv, StartupTypeOK
<1>5. Prepared(p)'
  <2>1. boot'[p] = Boot[1] /\ boot'[p] # "listening"
    BY <1>2, <1>3, BootOrder
  <2>2. \A i \in DOMAIN Boot : boot'[p] = Boot[i] => 1 .. i - 1 = {}
    <3>1. ASSUME NEW i \in DOMAIN Boot, boot'[p] = Boot[i] PROVE i = 1
      <4>1. i \in 1 .. 6 /\ 1 \in 1 .. 6 /\ Boot[i] = Boot[1]
        BY <2>1, <3>1, BootOrder
      <4> QED  BY <4>1, BootOrder
    <3>2. 1 .. 1 - 1 = {}
      OBVIOUS
    <3> QED  BY <3>1, <3>2
  <2> QED  BY <2>1, <2>2 DEF Prepared
<1>6. Admitted(p)'
  BY <1>1, <1>2 DEF Admitted
<1>7. ASSUME NEW q \in Processes, q # p PROVE Prepared(q)' /\ Admitted(q)'
  BY <1>1, <1>2, <1>7 DEF StartupInv, Prepared, Admitted
<1> QED  BY <1>4, <1>5, <1>6, <1>7 DEF StartupInv

\* What ends a process leaves the schema as it is.
LEMMA EndStep ==
  ASSUME StartupInv,
         \/ \E p \in Processes : ScriptFails(p) \/ ProcessEnds(p)
         \/ Outage \/ Reconnect \/ UNCHANGED startupVars
  PROVE  StartupInv'
<1>1. CASE Outage \/ Reconnect \/ UNCHANGED startupVars
  <2>1. UNCHANGED <<schema, env, boot, raced>>
    BY <1>1 DEF Outage, Reconnect, startupVars
  <2>2. database' \in BOOLEAN /\ ends' \in 0 .. MaxEnds
    <3>1. CASE Outage
      <4>1. database' \in BOOLEAN
        BY <3>1 DEF Outage
      <4>2. ends \in 0 .. MaxEnds /\ ends < MaxEnds /\ ends' = ends + 1 /\ MaxEnds \in Nat
        BY <3>1, StartupAssumption DEF Outage, StartupInv, StartupTypeOK
      <4> QED  BY <4>1, <4>2
    <3>2. CASE Reconnect
      BY <3>2 DEF Reconnect, StartupInv, StartupTypeOK
    <3>3. CASE UNCHANGED startupVars
      BY <3>3 DEF startupVars, StartupInv, StartupTypeOK
    <3> QED  BY <1>1, <3>1, <3>2, <3>3
  <2>3. StartupTypeOK'
    BY <2>1, <2>2 DEF StartupInv, StartupTypeOK
  <2>4. \A p \in Processes : Prepared(p)' /\ Admitted(p)'
    BY <2>1 DEF StartupInv, Prepared, Admitted
  <2> QED  BY <2>3, <2>4 DEF StartupInv
<1>2. ASSUME NEW p \in Processes, ScriptFails(p) \/ ProcessEnds(p) PROVE StartupInv'
  <2>1. /\ boot' = [boot EXCEPT ![p] = "down"] /\ raced' = raced \ {p}
        /\ UNCHANGED <<schema, database, env>>
        /\ ends' \in 0 .. MaxEnds
        /\ boot \in [Processes -> Scripts \cup {"down", "listening"}]
        /\ raced \subseteq {q \in Processes : boot[q] \in Scripts}
    BY <1>2, StartupAssumption DEF ScriptFails, ProcessEnds, StartupInv, StartupTypeOK
  <2>2. StartupTypeOK'
    BY <2>1 DEF StartupInv, StartupTypeOK
  <2>3. Prepared(p)' /\ Admitted(p)'
    BY <2>1, BootOrder DEF Prepared, Admitted
  <2>4. ASSUME NEW q \in Processes, q # p PROVE Prepared(q)' /\ Admitted(q)'
    BY <2>1, <2>4 DEF StartupInv, Prepared, Admitted
  <2> QED  BY <2>2, <2>3, <2>4 DEF StartupInv
<1> QED  BY <1>1, <1>2

LEMMA StartupInvariance == StartupInit /\ [][StartupNext]_startupVars => []StartupInv
<1>1. StartupInit => StartupInv
  <2> SUFFICES ASSUME StartupInit PROVE StartupInv
    OBVIOUS
  <2>1. schema \subseteq Made(Scripts)
    BY DatabasesAssumption DEF StartupInit, Made
  <2>2. StartupTypeOK
    BY <2>1, StartupAssumption DEF StartupInit, StartupTypeOK, Settings
  <2> QED  BY <2>2, BootOrder DEF StartupInit, StartupInv, Prepared, Admitted
<1>2. StartupInv /\ [StartupNext]_startupVars => StartupInv'
  BY ScriptStep, StartStep, EndStep DEF StartupNext
<1> QED  BY <1>1, <1>2, PTL

\* Whatever a start finds, and whatever outages and other starts do meanwhile, requests
\* are taken on the whole schema, and in production with secrets that are neither unset
\* nor published nor short (index.ts:20-56, auth-routes.ts:13, production-guard.ts:35).
THEOREM ListensWhenSound == StartupSpec => []ListensSoundly
<1>1. StartupInv => ListensSoundly
  <2> SUFFICES ASSUME StartupInv, NEW p \in Processes, boot[p] = "listening"
               PROVE  /\ schema = Made(Scripts)
                      /\ env[p]["NODE_ENV"] = Production =>
                            /\ env[p]["AUTH_SECRET"] \notin {"unset", "default", "short"}
                            /\ \A key \in Secrets : required(env[p], key)
    BY DEF ListensSoundly, ListensOnWholeSchema, ListensWithSoundSecrets
  <2>1. schema = Made(Scripts)
    BY DEF StartupInv, StartupTypeOK, Prepared, Made
  <2>2. Starts(env[p])
    BY DEF StartupInv, Admitted
  <2> QED
    BY <2>1, <2>2
    DEF Starts, AuthRoutesLoad, assertProductionConfiguration, required, Secrets
<1> QED  BY <1>1, StartupInvariance, PTL DEF StartupSpec

-----------------------------------------------------------------------------
(* The composed instance *)

\* The runtime switch keeps its types however many calls overlap.
LEMMA SwitchTyping == SwitchSpec => []SwitchTypeOK
<1>1. SwitchInit => SwitchTypeOK
  BY SwitchAssumption DEF SwitchInit, SwitchTypeOK, SwitchStep, ContainerState
<1>2. SwitchTypeOK /\ [SwitchNext]_switchVars => SwitchTypeOK'
  <2> SUFFICES ASSUME SwitchTypeOK, [SwitchNext]_switchVars PROVE SwitchTypeOK'
    OBVIOUS
  <2> USE SwitchAssumption DEF SwitchTypeOK, docker, Goto, SwitchStep
  <2>1. CASE UNCHANGED switchVars
    BY <2>1 DEF switchVars
  <2>2. CASE Crash
    BY <2>2 DEF Crash
  <2>3. ASSUME NEW c \in Calls, FindPrevious(c) PROVE SwitchTypeOK'
    BY <2>3 DEF FindPrevious, Candidates, Stable, Up
  <2>4. ASSUME NEW c \in Calls, CreateCandidate(c) \/ StartCandidate(c) PROVE SwitchTypeOK'
    BY <2>4 DEF CreateCandidate, StartCandidate, SetContainer, ContainerState
  <2>5. ASSUME NEW c \in Calls,
               \/ CreateOrStartFails(c) \/ HealthPasses(c) \/ HealthFails(c)
               \/ SwitchRoute(c) \/ SwitchFails(c) \/ RenameFails(c)
        PROVE  SwitchTypeOK'
    BY <2>5
    DEF CreateOrStartFails, HealthPasses, HealthFails, SwitchRoute, SwitchFails, RenameFails
  <2>6. ASSUME NEW c \in Calls, Rename(c) PROVE SwitchTypeOK'
    BY <2>6 DEF Rename
  <2>7. ASSUME NEW n, Remove(n)
        PROVE  /\ cont' \in [Calls -> ContainerState] /\ published' \subseteq Calls
               /\ faults' \in 0 .. MaxFaults
    BY <2>7 DEF Remove, ContainerState
  <2>8. ASSUME NEW c \in Calls, RetirePrevious(c) \/ Cleanup(c) PROVE SwitchTypeOK'
    <3>1. /\ cont' \in [Calls -> ContainerState] /\ published' \subseteq Calls
          /\ faults' \in 0 .. MaxFaults
      BY <2>7, <2>8 DEF RetirePrevious, Cleanup
    <3>2. pc' \in [Calls -> SwitchStep]
      BY <2>8 DEF RetirePrevious, Cleanup, AfterRetire
    <3>3. UNCHANGED <<prev, name, tested, route, crashes, mode>>
      BY <2>8 DEF RetirePrevious, Cleanup
    <3> QED  BY <3>1, <3>2, <3>3
  <2> QED  BY <2>1, <2>2, <2>3, <2>4, <2>5, <2>6, <2>8 DEF SwitchNext, CallAction
<1> QED  BY <1>1, <1>2, PTL DEF SwitchSpec

\* Whichever part a behaviour of the instance is of, every part keeps to its own
\* specification, of which the theorems speak: what they say of it holds of the instance
\* that TLC checks, and of every other value of its constants.
THEOREM EveryPartIsItsOwn ==
  PartsSpec => /\ PhasesSpec /\ QueueSpec /\ SwitchSpec /\ NodesSpec
               /\ StartupInit /\ [][StartupNext]_startupVars
               /\ DeployPageInit /\ [][DeployPageNext]_pageVars
<1>1. PartsInit => /\ PhasesInit /\ QueueInit /\ SwitchInit
                   /\ NodesInit /\ StartupInit /\ DeployPageInit
  BY DEF PartsInit
<1>2. [PartsNext]_partsVars => /\ [PhasesNext]_phasesVars /\ [QueueNext]_queueVars
                               /\ [SwitchNext]_switchVars /\ [NodesNext]_nodeVars
                               /\ [StartupNext]_startupVars /\ [DeployPageNext]_pageVars
  BY DEF PartsNext, partsVars
<1> QED
  BY <1>1, <1>2, PTL DEF PartsSpec, PhasesSpec, QueueSpec, SwitchSpec, NodesSpec

\* The tables, containers, queues and pages of the parts keep their types and bounds,
\* and what is recorded in one variable of a part in the others it goes with.
THEOREM PartsStayTyped == PartsSpec => []PartsTypeOK
<1>1. /\ PhasesInv => PhasesTypeOK
      /\ QueueInv => QueueTypeOK
      /\ NodesInv => NodesTypeOK
      /\ StartupInv => StartupTypeOK
      /\ PageInv => DeployPageTypeOK
  BY DEF PhasesInv, QueueInv, NodesInv, StartupInv, PageInv
<1>2. (/\ PhasesTypeOK /\ QueueTypeOK /\ SwitchTypeOK
       /\ NodesTypeOK /\ StartupTypeOK /\ DeployPageTypeOK) => PartsTypeOK
  BY DEF PartsTypeOK
<1> QED
  BY <1>1, <1>2, EveryPartIsItsOwn, PhasesInvariance, QueueInvariance, SwitchTyping,
     NodesInvariance, StartupInvariance, PageInvariance, PTL
=============================================================================
