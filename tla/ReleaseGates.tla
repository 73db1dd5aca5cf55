---------------------------- MODULE ReleaseGates ----------------------------
(***************************************************************************)
(* The release gates of one project (apps/api/src/release-gates.ts): a     *)
(* wrapper around the handler of POST /api/v1/deployments checks the gates *)
(* that need no build, lets the handler answer, and leaves a detached      *)
(* runner behind that looks for the deployment which the handler has made, *)
(* by project and time, and stores a result for every gate.                *)
(*                                                                         *)
(* A deployment is identified with the request, or with the push (the      *)
(* GitHub webhook), that made it.  Nothing waits for the runner: the       *)
(* outcome of a deployment (Finish) does not depend on any result.  No two *)
(* things happen in the same millisecond.                                  *)
(***************************************************************************)
EXTENDS Naturals, Sequences

CONSTANTS
    Requests,
    Pushes,     \* deployments that the webhook makes, without a wrapper or a runner
    Gates,      \* what may be configured: a name, and what it is at the time
    EnvOf       \* request -> the keys of its env and of the process

\* "github" stands for the kinds that are never judged.
GateKinds == {"environment", "approval", "security", "github", "build", "health"}
Outcomes == {"passed", "failed", "skipped"}
Released == Requests \cup Pushes

ASSUME ReleaseGatesAssumption ==
    /\ Gates \subseteq [name : STRING, kind : GateKinds, required : BOOLEAN,
                        needs : SUBSET STRING]
    /\ EnvOf \in [Requests -> SUBSET STRING]
    /\ Requests \cap Pushes = {}

VARIABLES
    config,     \* release_gate_configs: rows are added and changed, and never removed
    made,       \* deployments in the order of created_at
    outcome,    \* deployment -> deployments.status: "open", "ready" or "failed"
    result,     \* release_gate_results: deployment -> its rows, with the gate as it was read
    request,    \* request -> where it is, and its local variables
    known,      \* request -> the gates its wrapper read (history)
    slipped,    \* request -> the names of gates moved, while its runner waited for the end
                \* of the release, from those after it to those before it (history)
    overtaken   \* requests beside which another deployment was made, and those (history)
gateVars == <<config, made, outcome, result, request, known, slipped, overtaken>>

NotSent == [at |-> "none", started |-> 0, accepted |-> "none"]
Proceed(r, at) == request' = [request EXCEPT ![r].at = at]
RequestEnds == {"refused", "done", "gave_up", "lost"}

\* The kinds that are evaluated before and during a release, and those after it.
IsPre(gate) == gate.kind \notin {"build", "health"}

\* runOne and the build case of runPostReleaseGates: what a gate may come to for the
\* request r.  A health gate needs a URL, which a worker has none, and asks it.
runOne(gate, r, built) ==
    CASE gate.kind = "environment" -> {IF gate.needs \subseteq EnvOf[r]
                                       THEN "passed" ELSE "failed"}
      [] gate.kind = "approval"    -> {"failed"}
      [] gate.kind = "security"    -> {"passed"}
      [] gate.kind = "github"      -> {"skipped"}
      [] gate.kind = "build"       -> {IF built THEN "passed" ELSE "failed"}
      [] gate.kind = "health"      -> IF built THEN Outcomes ELSE {"skipped"}

Blocks(gate, r) == IsPre(gate) /\ gate.required /\ runOne(gate, r, FALSE) = {"failed"}

\* UNIQUE(project_id,name).
OneOfAName(gates) == \A g, h \in gates : g.name = h.name => g = h

GatesInit ==
    /\ config \in SUBSET Gates /\ OneOfAName(config)
    /\ made = <<>>
    /\ outcome = [d \in Released |-> "open"]
    /\ result = [d \in Released |-> {}]
    /\ request = [r \in Requests |-> NotSent]
    /\ known = [r \in Requests |-> {}]
    /\ slipped = [r \in Requests |-> {}]
    /\ overtaken = {}

\* The gate takes the place of one that runs after a release, and runs before it.
MovedUp(gate) == IsPre(gate) /\ \E old \in config : old.name = gate.name /\ ~IsPre(old)

\* PUT /release-gates: the gate is added, or takes the place of the one of its name.
Configure ==
    \E gate \in Gates \ config :
        /\ config' = {g \in config : g.name # gate.name} \cup {gate}
        /\ slipped' = [r \in Requests |->
              IF request[r].at = "poll" /\ MovedUp(gate)
              THEN slipped[r] \cup {gate.name} ELSE slipped[r]]
        /\ UNCHANGED <<made, outcome, result, request, known, overtaken>>

\* The wrapper takes the time and asks for the gates.
Arrive(r) ==
    /\ request[r].at = "none"
    /\ request' = [request EXCEPT ![r].started = Len(made) + 1, ![r].at = "assert"]
    /\ UNCHANGED <<config, made, outcome, result, known, slipped, overtaken>>

\* It evaluates the gates; one that blocks ends the request with an error before the
\* handler is called.
assertPreReleaseGates(r) ==
    /\ request[r].at = "assert"
    /\ Proceed(r, IF \E g \in config : Blocks(g, r) THEN "refused" ELSE "handler")
    /\ known' = [known EXCEPT ![r] = config]
    /\ UNCHANGED <<config, made, outcome, result, slipped, overtaken>>

\* Requests whose runner may find a deployment made now.
Looking == {r \in Requests : request[r].at \in {"assert", "handler", "find"}}

\* createDeployment, which marks those who may take it for their own.
CreateDeployment(d) ==
    /\ made' = Append(made, d)
    /\ overtaken' = IF Looking \subseteq {d} THEN overtaken ELSE overtaken \cup Looking \cup {d}

\* The handler makes the deployment and answers.
MakeDeployment(r) ==
    /\ request[r].at = "handler"
    /\ CreateDeployment(r)
    /\ Proceed(r, "find")
    /\ UNCHANGED <<config, outcome, result, known, slipped>>

\* A push to the repository of the project makes a deployment as well.
PushDeployment ==
    /\ \E p \in Pushes :
          (\A i \in DOMAIN made : made[i] # p) /\ CreateDeployment(p)
    /\ UNCHANGED <<config, outcome, result, request, known, slipped>>

\* The handler answers with an error, and the runner starts all the same; or it throws.
HandlerRefuses(r) ==
    /\ request[r].at = "handler"
    /\ \E at \in {"find", "refused"} : Proceed(r, at)
    /\ UNCHANGED <<config, made, outcome, result, known, slipped, overtaken>>

\* The deployments made since the request began.
Since(r) == {i \in DOMAIN made : i >= request[r].started}

\* Mutant of Find: the time is not compared.
FindAny(r) ==
    /\ request[r].at = "find"
    /\ \E i \in DOMAIN made :
          request' = [request EXCEPT ![r].at = "pre", ![r].accepted = made[i]]
    /\ UNCHANGED <<config, made, outcome, result, known, slipped, overtaken>>

\* listDeployments has the newest first.
Find(r) ==
    /\ request[r].at = "find"
    /\ \E i \in Since(r) :
          /\ \A j \in Since(r) : j <= i
          /\ request' = [request EXCEPT ![r].at = "pre", ![r].accepted = made[i]]
    /\ UNCHANGED <<config, made, outcome, result, known, slipped, overtaken>>

\* Five looks without an answer.
FindNothing(r) ==
    /\ request[r].at = "find" /\ Since(r) = {}
    /\ Proceed(r, "gave_up")
    /\ UNCHANGED <<config, made, outcome, result, known, slipped, overtaken>>

\* ensureResult for every gate of the set, each with one of its outcomes: a row takes the
\* place of the one with the gate's name.
StoreResults(r, gates, built) ==
    \E status \in [gates -> Outcomes] :
        /\ \A g \in gates : status[g] \in runOne(g, r, built)
        /\ result' = [result EXCEPT ![request[r].accepted] =
              {x \in @ : \A g \in gates : g.name # x.gate.name} \cup
              {[gate |-> g, status |-> status[g], by |-> r] : g \in gates}]

\* The results are stored one after the other, until a statement fails or the process
\* ends; what reads or writes them beside this runner is another runner that has found
\* the same deployment.
RunGates(r, gates, built, next) ==
    \/ StoreResults(r, gates, built) /\ Proceed(r, next)
    \/ \E some \in SUBSET gates : StoreResults(r, some, built) /\ Proceed(r, "lost")

runPreReleaseGates(r) ==
    /\ request[r].at = "pre"
    /\ RunGates(r, {g \in config : IsPre(g)}, FALSE,
                IF \E g \in config : Blocks(g, r) THEN "done" ELSE "poll")
    /\ UNCHANGED <<config, made, outcome, known, slipped, overtaken>>

\* A look at the row, every two seconds, finds it "failed", "ready" or LIVE; the gates are
\* read again.
runPostReleaseGates(r) ==
    /\ request[r].at = "poll"
    /\ outcome[request[r].accepted] # "open"
    /\ RunGates(r, {g \in config : ~IsPre(g)}, outcome[request[r].accepted] = "ready", "done")
    /\ UNCHANGED <<config, made, outcome, known, slipped, overtaken>>

\* Sixty looks without an end.
PollGivesUp(r) ==
    /\ request[r].at = "poll" /\ outcome[request[r].accepted] = "open"
    /\ Proceed(r, "gave_up")
    /\ UNCHANGED <<config, made, outcome, result, known, slipped, overtaken>>

\* The pipeline and the worker settle the deployment.
Finish ==
    /\ \E i \in DOMAIN made : \E end \in {"ready", "failed"} :
          outcome[made[i]] = "open" /\ outcome' = [outcome EXCEPT ![made[i]] = end]
    /\ UNCHANGED <<config, made, result, request, known, slipped, overtaken>>

\* A statement fails, or the process ends, between two runs; the runner is in memory only.
RunnerEnds(r) ==
    /\ request[r].at \in {"find", "poll"}
    /\ Proceed(r, "lost")
    /\ UNCHANGED <<config, made, outcome, result, known, slipped, overtaken>>

GatesNext ==
    \/ Configure \/ PushDeployment \/ Finish
    \/ \E r \in Requests :
          \/ Arrive(r) \/ assertPreReleaseGates(r) \/ MakeDeployment(r) \/ HandlerRefuses(r)
          \/ Find(r) \/ FindNothing(r) \/ runPreReleaseGates(r)
          \/ runPostReleaseGates(r) \/ PollGivesUp(r) \/ RunnerEnds(r)

GatesSpec == GatesInit /\ [][GatesNext]_gateVars

(***************************************************************************)
(* Properties                                                              *)
(***************************************************************************)

\* Every variable keeps its type; no two gates and no two results share a name.
GatesTypeOK ==
    /\ config \subseteq Gates /\ OneOfAName(config)
    /\ made \in Seq(Released)
    /\ outcome \in [Released -> {"open", "ready", "failed"}]
    /\ result \in [Released -> SUBSET [gate : Gates, status : Outcomes, by : Requests]]
    /\ \A d \in Released : \A x, y \in result[d] : x.gate.name = y.gate.name => x = y
    /\ request \in [Requests ->
          [at : {"none", "assert", "handler", "find", "pre", "poll"} \cup RequestEnds,
           started : Nat, accepted : Released \cup {"none"}]]
    /\ known \in [Requests -> SUBSET Gates]
    /\ slipped \in [Requests -> SUBSET STRING]
    /\ overtaken \subseteq Released

\* A result is the judgement of the request that made the deployment, with its env and
\* its time, unless another deployment of the project, of a request or of a push, was made
\* beside it: then a runner takes the newest one for its own (release-gates.ts:24).
OwnGates ==
    \A d \in Released : \A x \in result[d] : x.by = d \/ d \in overtaken

\* No deployment gets past a gate without a result of that name when its runner has come
\* to an end, unless a required gate has failed, another deployment was made beside it,
\* or the gate was made one that runs before a release while the runner waited for the
\* end of it (the gates are read twice: release-gates.ts:22,23).
NoSilentPass ==
    \A r \in Requests :
        request[r].at = "done" /\ r \notin overtaken =>
            \A g \in known[r] :
                \/ \E x \in result[r] : x.gate.name = g.name
                \/ \E x \in result[r] : x.status = "failed" /\ Blocks(x.gate, r)
                \/ g.name \in slipped[r]

\* A deployment with the failure of a required gate on record that needs no build exists
\* only because the gate was added or changed after its request had been let through, or
\* because of another deployment (release-gates.ts:21,22).
FailureCameLate ==
    \A d \in Requests : \A x \in result[d] :
        x.status = "failed" /\ Blocks(x.gate, d) => x.gate \notin known[d] \/ d \in overtaken

\* What the results of a deployment say is true of it, except of deployments side by side.
ResultsAreTrue == OwnGates /\ NoSilentPass /\ FailureCameLate
=============================================================================
