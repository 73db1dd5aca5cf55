----------------------------- MODULE DeployPage -----------------------------
(***************************************************************************)
(* The console's page for a deployment (apps/web/app/deploy/page.tsx):     *)
(* it posts a deployment and follows its status with a timer whose         *)
(* requests may overlap, be answered in any order and fail.  The timer     *)
(* belongs to the pair (id, status) the page shows: React stops it when    *)
(* the pair changes, which does not stop the requests it has sent.         *)
(***************************************************************************)
EXTENDS Naturals, FiniteSets

CONSTANTS
    Rows,       \* deployments of the API, of this page and of other clients
    Slots,      \* bound: the polls in flight at once
    NoRow

ASSUME DeployPageAssumption == NoRow \notin Rows /\ IsFiniteSet(Slots)

VARIABLES
    row,        \* the API's status of a deployment
    shown,      \* state `deployment`: [id, status]
    posting,    \* state `busy`: the deployment the API has answered with, if any
    busy,
    poll,       \* slot -> the id the timer's closure holds, and the answer
    latest,     \* the last deployment deploy() has been answered with (history)
    overtaken,  \* a poll for another deployment was in flight then (history)
    reopened    \* deployments whose row has left a final status (history)

pageVars == <<row, shown, posting, busy, poll, latest, overtaken, reopened>>

Final == {"ready", "failed"}
Statuses == {"queued", "building", "starting", "rolling_back"} \cup Final

NoPoll == [id |-> NoRow, answer |-> "none"]
Unshown == [id |-> NoRow, status |-> "none"]

DeployPageInit ==
    /\ row = [d \in Rows |-> "none"]
    /\ shown = Unshown
    /\ posting = NoRow
    /\ busy = FALSE
    /\ poll = [s \in Slots |-> NoPoll]
    /\ latest = NoRow
    /\ overtaken = FALSE
    /\ reopened = {}

-----------------------------------------------------------------------------
(* The API *)

\* Another client's deployment.
OtherDeploys(d) ==
    /\ row[d] = "none"
    /\ row' = [row EXCEPT ![d] = "queued"]
    /\ UNCHANGED <<shown, posting, busy, poll, latest, overtaken, reopened>>

\* The pipeline and the worker report the next status.
Progress(d) ==
    /\ \E next \in Statuses :
          /\ <<row[d], next>> \in {<<"queued", "building">>, <<"building", "starting">>,
                                   <<"starting", "ready">>, <<"rolling_back", "ready">>}
                               \cup (Statuses \ Final) \X {"failed"}
          /\ row' = [row EXCEPT ![d] = next]
    /\ UNCHANGED <<shown, posting, busy, poll, latest, overtaken, reopened>>

\* A rollback, or the late "starting" of the pipeline, on a row that was final.
Reopen(d) ==
    /\ row[d] \in Final /\ d \notin reopened
    /\ \E next \in {"rolling_back", "starting"} : row' = [row EXCEPT ![d] = next]
    /\ reopened' = reopened \cup {d}
    /\ UNCHANGED <<shown, posting, busy, poll, latest, overtaken>>

-----------------------------------------------------------------------------
(* The page *)

\* deploy(), as far as the API's answer.
Deploy(d) ==
    /\ ~busy
    /\ busy' = TRUE
    /\ row[d] = "none"
    /\ \/ /\ row' = [row EXCEPT ![d] = "queued"]
          /\ posting' = d
       \/ UNCHANGED <<row, posting>>
    /\ UNCHANGED <<shown, poll, latest, overtaken, reopened>>

\* deploy() goes on with the answer, or with an error.
DeployAnswers ==
    /\ busy
    /\ busy' = FALSE
    /\ posting' = NoRow
    /\ IF posting = NoRow
       THEN UNCHANGED <<shown, latest, overtaken>>
       ELSE /\ shown' = [id |-> posting, status |-> "queued"]
            /\ latest' = posting
            /\ overtaken' = \E s \in Slots : poll[s].id # NoRow
    /\ UNCHANGED <<row, poll, reopened>>

\* Mutant of Polling: a deployment that starts is as good as ready.
PollingUntilStarting == shown.id # NoRow /\ shown.status \notin Final \cup {"starting"}

\* The effect has started the timer.
Polling == shown.id # NoRow /\ shown.status \notin Final

SendPoll(s) ==
    /\ Polling
    /\ poll[s] = NoPoll
    /\ poll' = [poll EXCEPT ![s].id = shown.id]
    /\ UNCHANGED <<row, shown, posting, busy, latest, overtaken, reopened>>

\* The API reads the rows.
AnswerPoll(s) ==
    /\ poll[s].id # NoRow /\ poll[s].answer = "none"
    /\ poll' = [poll EXCEPT ![s].answer = row[poll[s].id]]
    /\ UNCHANGED <<row, shown, posting, busy, latest, overtaken, reopened>>

\* The response has failed: the page keeps the last known state.
FailPoll(s) ==
    /\ poll[s].id # NoRow /\ poll[s].answer = "none"
    /\ poll' = [poll EXCEPT ![s] = NoPoll]
    /\ UNCHANGED <<row, shown, posting, busy, latest, overtaken, reopened>>

\* Mutant of ApplyPoll: the newest deployment of the list, whoever made it.
ApplyNewest(s) ==
    /\ poll[s].answer # "none"
    /\ poll' = [poll EXCEPT ![s] = NoPoll]
    /\ \E d \in Rows :
          row[d] # "none" /\ shown' = [id |-> d, status |-> row[d]]
    /\ UNCHANGED <<row, posting, busy, latest, overtaken, reopened>>

\* setDeployment(current), whatever the page shows by now.
ApplyPoll(s) ==
    /\ poll[s].answer # "none"
    /\ poll' = [poll EXCEPT ![s] = NoPoll]
    /\ shown' = [id |-> poll[s].id, status |-> poll[s].answer]
    /\ UNCHANGED <<row, posting, busy, latest, overtaken, reopened>>

DeployPageNext ==
    \/ \E d \in Rows :
          OtherDeploys(d) \/ Progress(d) \/ Reopen(d) \/ Deploy(d)
    \/ DeployAnswers
    \/ \E s \in Slots : SendPoll(s) \/ AnswerPoll(s) \/ FailPoll(s) \/ ApplyPoll(s)

\* Every request ends; a timer goes on firing, and not every poll fails.
DeployPageFairness ==
    /\ WF_pageVars(DeployAnswers)
    /\ WF_pageVars(\E s \in Slots : SendPoll(s))
    /\ SF_pageVars(\E s \in Slots : AnswerPoll(s))
    /\ WF_pageVars(\E s \in Slots : ApplyPoll(s))

DeployPageSpec == DeployPageInit /\ [][DeployPageNext]_pageVars /\ DeployPageFairness

(***************************************************************************)
(* Properties                                                              *)
(***************************************************************************)

DeployPageTypeOK ==
    /\ row \in [Rows -> Statuses \cup {"none"}]
    /\ shown \in [id : Rows \cup {NoRow}, status : Statuses \cup {"none"}]
    /\ posting \in Rows \cup {NoRow}
    /\ busy \in BOOLEAN
    /\ poll \in [Slots -> [id : Rows \cup {NoRow}, answer : Statuses \cup {"none"}]]
    /\ latest \in Rows \cup {NoRow}
    /\ overtaken \in BOOLEAN
    /\ reopened \subseteq Rows

\* The page shows the deployment its last deploy() was answered with, unless a request
\* for an earlier one was in flight then: the timer's closure keeps its own id, and
\* nothing compares it with what the page shows by the time of the answer (page.tsx:42).
ShowsOwnLatest == shown.id = latest \/ overtaken

\* In the end the page shows the status the row has, however the polls overlap, fail
\* and overtake each other, unless the row had left a final status before: the page
\* asks no more once it has shown one (page.tsx:37).
ShowsOutcome ==
    <>[](shown.id # NoRow => shown.status = row[shown.id] \/ shown.id \in reopened)
=============================================================================
