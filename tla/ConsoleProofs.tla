---------------------------- MODULE ConsoleProofs ----------------------------
(***************************************************************************)
(* Two pages of the console whose requests may be answered in any order.   *)
(* The settings page: a project gets the settings of another one only by a *)
(* save that the history calls hasty, and "saved" is true of the save it   *)
(* is said of.  The page for a deployment: it shows its own latest one.    *)
(***************************************************************************)
EXTENDS SettingsPage, DeployPage, TLAPS

-----------------------------------------------------------------------------
(* The settings page: whose settings a project is given *)

\* Only the parts of the type that the argument needs.
Typed ==
    /\ selected \in Projects \cup {NoProject}
    /\ stored \in [Projects -> [Parts -> Values]]
    /\ \A put \in puts : put.save.project \in Projects /\ put.part \in Parts
                         /\ put.save.value \in Values

\* The form is of the selected project, or there is a reason why not: its load is under
\* way or has failed, or the load of another project was when this one was selected.
FormExplained ==
    /\ ~listed => selected = NoProject
    /\ loads \ {selected} # {} => crossed \/ selected = NoProject
    /\ selected # NoProject /\ form # selected =>
          selected \in loads \/ crossed \/ unloaded

\* A request carries its own project's settings, or is one of a hasty save.
PutsExplained ==
    \A put \in puts : put.save.value = put.save.project \/ put.save.project \in hasty

SettingsInv == Typed /\ FormExplained /\ PutsExplained /\ SavesOwnSettings

Untouched == UNCHANGED <<puts, stored, hasty>>

\* What leaves the requests and the rows alone leaves their invariants alone.
LEMMA FrameStep ==
  ASSUME SettingsInv, Untouched
  PROVE  PutsExplained' /\ SavesOwnSettings'
BY DEF SettingsInv, Untouched, PutsExplained, SavesOwnSettings

\* A selection marks the loads it crosses.
LEMMA ChooseStep ==
  ASSUME SettingsInv, LoadProjects \/ UserSelects
  PROVE  SettingsInv'
<1>1. Untouched
  BY DEF LoadProjects, UserSelects, Untouched
<1>2. Typed'
  BY DEF SettingsInv, Typed, LoadProjects, UserSelects, Select
<1>3. FormExplained'
  <2>1. PICK p \in Projects \cup {NoProject} : Select(p) /\ listed'
    BY DEF LoadProjects, UserSelects
  <2>2. selected' = p /\ loads' \ {p} = loads \ {p}
    BY <2>1 DEF Select
  <2>3. loads \ {p} # {} => crossed'
    BY <2>1 DEF Select
  <2>4. p # NoProject => p \in loads'
    BY <2>1 DEF Select
  <2> QED  BY <2>1, <2>2, <2>3, <2>4 DEF FormExplained
<1> QED  BY <1>1, <1>2, <1>3, FrameStep DEF SettingsInv

\* An answer fills the form for its own project; if that is not the selected one, the
\* selection had been crossed.
LEMMA LoadStep ==
  ASSUME SettingsInv, NEW p \in Projects, LoadAnswers(p) \/ LoadFails(p)
  PROVE  SettingsInv'
<1>1. Untouched
  BY DEF LoadAnswers, LoadFails, Untouched
<1>2. Typed'
  BY DEF SettingsInv, Typed, LoadAnswers, LoadFails
<1>3. FormExplained'
  BY DEF SettingsInv, FormExplained, LoadAnswers, LoadFails
<1> QED  BY <1>1, <1>2, <1>3, FrameStep DEF SettingsInv

\* A save sends what the form holds, and is hasty if that may be another project's.
LEMMA SaveStep ==
  ASSUME SettingsInv, Save, form \in Values
  PROVE  SettingsInv'
<1>1. /\ last'.project = selected /\ last'.value = form
      /\ selected \in Projects
  BY DEF SettingsInv, Typed, Save
<1>2. \A put \in puts' \ puts : put.save = last' /\ put.part \in Parts
  BY DEF Save
<1>3. hasty \subseteq hasty' /\ UNCHANGED stored
  BY DEF Save
<1>4. Typed'
  BY <1>1, <1>2 DEF SettingsInv, Typed, Save
<1>5. FormExplained'
  BY DEF SettingsInv, FormExplained, Save
<1>6. PutsExplained'
  BY <1>1, <1>2, <1>3 DEF SettingsInv, FormExplained, PutsExplained, Save
<1>7. SavesOwnSettings'
  BY <1>3 DEF SettingsInv, SavesOwnSettings
<1> QED  BY <1>4, <1>5, <1>6, <1>7 DEF SettingsInv

\* The end of a request writes one part of its project's row, or nothing.
LEMMA PutStep ==
  ASSUME SettingsInv, NEW put \in puts, PutSucceeds(put) \/ PutFails(put)
  PROVE  SettingsInv'
<1>1. /\ puts' \subseteq puts
      /\ UNCHANGED <<selected, listed, form, loads, crossed, unloaded, hasty>>
      /\ \/ UNCHANGED stored
         \/ stored' = [stored EXCEPT ![put.save.project][put.part] = put.save.value]
  BY DEF PutSucceeds, PutFails
<1>2. put.save.project \in Projects /\ put.part \in Parts /\ put.save.value \in Values
  BY DEF SettingsInv, Typed
<1>3. Typed'
  BY <1>1, <1>2 DEF SettingsInv, Typed
<1>4. FormExplained' /\ PutsExplained'
  BY <1>1 DEF SettingsInv, FormExplained, PutsExplained
<1>5. SavesOwnSettings'
  BY <1>1, <1>2 DEF SettingsInv, Typed, PutsExplained, SavesOwnSettings
<1> QED  BY <1>3, <1>4, <1>5 DEF SettingsInv

LEMMA SettingsInvariance == SettingsSpec => [](SettingsInv /\ form \in Values)
<1>1. SettingsInit => SettingsInv /\ form \in Values
  BY DEF SettingsInit, SettingsInv, Typed, Values, FormExplained, PutsExplained,
         SavesOwnSettings
<1>2. SettingsInv /\ form \in Values /\ [SettingsNext]_settingsVars
        => SettingsInv' /\ (form \in Values)'
  <2> SUFFICES ASSUME SettingsInv, form \in Values, [SettingsNext]_settingsVars
               PROVE  SettingsInv' /\ (form \in Values)'
    OBVIOUS
  <2>1. SettingsInv'
    <3>1. ASSUME UNCHANGED settingsVars PROVE SettingsInv'
      BY <3>1 DEF settingsVars, SettingsInv, Typed, FormExplained, PutsExplained, SavesOwnSettings
    <3> QED  BY <3>1, ChooseStep, LoadStep, SaveStep, PutStep DEF SettingsNext
  <2>2. (form \in Values)'
    BY DEF SettingsNext, settingsVars, LoadProjects, UserSelects, LoadAnswers, LoadFails,
           Save, PutSucceeds, PutFails, Values
  <2> QED  BY <2>1, <2>2
<1> QED  BY <1>1, <1>2, PTL DEF SettingsSpec

\* No project is given another one's settings but by a hasty save, for any number of
\* projects and saves and any order of answers (settings/page.tsx:36).
THEOREM SettingsStayApart == SettingsSpec => []SavesOwnSettings
<1>1. SettingsInv => SavesOwnSettings
  BY DEF SettingsInv
<1> QED  BY <1>1, SettingsInvariance, PTL

-----------------------------------------------------------------------------
(* What "saved" tells *)

\* A request in flight is one of the save the page waits for, or its project is torn.
NobodyElseWrites ==
    \A put \in puts : \/ put.save.project \in torn
                      \/ notice = "saving" /\ put.save = last

\* Each part of the save the page waits for, or has reported, is stored or on its way.
PartIsKept(part) ==
    \/ stored[last.project][part] = last.value
    \/ notice = "saving" /\ [save |-> last, part |-> part] \in puts

SaveIsKept ==
    notice \in {"saving", "saved"} =>
        /\ last.project \in Projects
        /\ last.project \in torn \/ \A part \in Parts : PartIsKept(part)

SaveInv == NobodyElseWrites /\ SaveIsKept

\* A selection, and an answer of a load, are nothing to a save.
LEMMA FormSaveStep ==
  ASSUME SaveInv,
         \/ LoadProjects \/ UserSelects \/ UNCHANGED settingsVars
         \/ \E p \in Projects : LoadAnswers(p) \/ LoadFails(p)
  PROVE  SaveInv'
<1>1. /\ UNCHANGED <<puts, last, stored, torn>>
      /\ UNCHANGED notice \/ (notice # "saving" /\ notice' = "error")
  <2>1. CASE LoadProjects \/ UserSelects \/ UNCHANGED settingsVars
    BY <2>1 DEF LoadProjects, UserSelects, settingsVars
  <2>2. ASSUME NEW p \in Projects, LoadAnswers(p)
        PROVE  UNCHANGED <<puts, last, stored, torn, notice>>
    BY <2>2 DEF LoadAnswers
  <2>3. ASSUME NEW p \in Projects, LoadFails(p)
        PROVE  /\ UNCHANGED <<puts, last, stored, torn>>
               /\ notice' = notice \/ (notice # "saving" /\ notice' = "error")
    BY <2>3 DEF LoadFails
  <2> QED  BY <2>1, <2>2, <2>3
<1>2. NobodyElseWrites'
  BY <1>1 DEF SaveInv, NobodyElseWrites
<1>3. SaveIsKept'
  <2>1. CASE UNCHANGED notice
    BY <1>1, <2>1 DEF SaveInv, SaveIsKept, PartIsKept
  <2>2. CASE notice' = "error"
    BY <2>2 DEF SaveIsKept
  <2> QED  BY <1>1, <2>1, <2>2
<1> QED  BY <1>2, <1>3 DEF SaveInv

\* A save begins when nobody waits for one: what is still under way is torn.
LEMMA SaveSaveStep ==
  ASSUME Typed, SaveInv, Save
  PROVE  SaveInv'
<1>1. NobodyElseWrites'
  BY DEF SaveInv, NobodyElseWrites, Save
<1>2. \A part \in Parts : [save |-> last', part |-> part] \in puts'
  BY DEF Save
<1>3. SaveIsKept'
  BY <1>2 DEF Typed, SaveIsKept, PartIsKept, Save
<1> QED  BY <1>1, <1>3 DEF SaveInv

\* A request that is stored is the last save's own, or its project is torn.
LEMMA SuccessSaveStep ==
  ASSUME Typed, SaveInv, NEW put \in puts, PutSucceeds(put)
  PROVE  SaveInv'
<1>1. /\ puts' = puts \ {put} /\ UNCHANGED <<last, torn>>
      /\ stored' = [stored EXCEPT ![put.save.project][put.part] = put.save.value]
      /\ put.save.project \in Projects /\ put.part \in Parts
      /\ stored \in [Projects -> [Parts -> Values]]
  BY DEF PutSucceeds, Typed
<1>2. \/ UNCHANGED notice
      \/ /\ notice = "saving" /\ notice' = "saved" /\ put.save = last
         /\ \A other \in puts' : other.save # last
  BY DEF PutSucceeds
<1>3. NobodyElseWrites'
  BY <1>1, <1>2 DEF SaveInv, NobodyElseWrites
<1>4. SaveIsKept'
  <2> SUFFICES ASSUME notice' \in {"saving", "saved"}, last.project \in Projects,
                      last.project \notin torn, NEW part \in Parts
               PROVE  PartIsKept(part)'
    BY <1>1, <1>2 DEF SaveInv, SaveIsKept
  <2>1. PartIsKept(part)
    BY <1>2 DEF SaveInv, SaveIsKept
  <2>2. CASE put.save = last /\ put.part = part
    BY <1>1, <2>2 DEF PartIsKept
  <2>3. CASE put.save = last /\ put.part # part
    <3>1. [save |-> last, part |-> part] # put
      BY <2>3
    <3>2. stored'[last.project][part] = stored[last.project][part]
      BY <1>1, <2>3
    <3> QED  BY <1>1, <1>2, <2>1, <3>1, <3>2 DEF PartIsKept
  <2>4. CASE put.save # last
    <3>1. put.save.project # last.project
      BY <2>4 DEF SaveInv, NobodyElseWrites
    <3>2. stored'[last.project] = stored[last.project]
      BY <1>1, <3>1
    <3>3. UNCHANGED notice /\ [save |-> last, part |-> part] # put
      BY <1>2, <2>4
    <3> QED  BY <1>1, <2>1, <3>2, <3>3 DEF PartIsKept
  <2> QED  BY <2>2, <2>3, <2>4
<1> QED  BY <1>3, <1>4 DEF SaveInv

\* One that fails makes its project torn, and ends the wait if it is the last save's.
LEMMA FailureSaveStep ==
  ASSUME Typed, SaveInv, NEW put \in puts, PutFails(put)
  PROVE  SaveInv'
<1>1. /\ puts' = puts \ {put} /\ UNCHANGED last
      /\ torn' = torn \cup {put.save.project}
      /\ \/ UNCHANGED stored
         \/ stored' = [stored EXCEPT ![put.save.project][put.part] = put.save.value]
      /\ put.save.project \in Projects /\ put.part \in Parts
      /\ stored \in [Projects -> [Parts -> Values]]
  BY DEF PutFails, Typed
<1>2. \/ UNCHANGED notice
      \/ notice' = "error" /\ put.save = last
  BY DEF PutFails
<1>3. NobodyElseWrites'
  BY <1>1, <1>2 DEF SaveInv, NobodyElseWrites
<1>4. SaveIsKept'
  <2> SUFFICES ASSUME notice' \in {"saving", "saved"}, last.project \in Projects,
                      last.project \notin torn', NEW part \in Parts
               PROVE  PartIsKept(part)'
    BY <1>1, <1>2 DEF SaveInv, SaveIsKept
  <2>1. UNCHANGED notice /\ put.save.project # last.project
    BY <1>1, <1>2
  <2>2. PartIsKept(part)
    BY <1>1, <2>1 DEF SaveInv, SaveIsKept
  <2>3. stored'[last.project] = stored[last.project]
    BY <1>1, <2>1
  <2>4. [save |-> last, part |-> part] # put
    BY <2>1
  <2> QED  BY <1>1, <2>1, <2>2, <2>3, <2>4 DEF PartIsKept
<1> QED  BY <1>3, <1>4 DEF SaveInv

LEMMA SaveInvariance == SettingsSpec => []SaveInv
<1>1. SettingsInit => SaveInv
  BY DEF SettingsInit, SaveInv, NobodyElseWrites, SaveIsKept
<1>2. SettingsInv /\ SaveInv /\ [SettingsNext]_settingsVars => SaveInv'
  <2> SUFFICES ASSUME Typed, SaveInv, [SettingsNext]_settingsVars
               PROVE  SaveInv'
    BY DEF SettingsInv
  <2> QED  BY FormSaveStep, SaveSaveStep, SuccessSaveStep, FailureSaveStep
           DEF SettingsNext
<1> QED  BY <1>1, <1>2, SettingsInvariance, PTL DEF SettingsSpec

\* "Saved" is true of both parts, unless a request of an earlier save of the project has
\* failed, for any number of saves and any order of answers (settings/page.tsx:46-51).
THEOREM SavedIsStored == SettingsSpec => []SavedMeansStored
<1>1. SaveInv => SavedMeansStored
  BY DEF SaveInv, SaveIsKept, PartIsKept, SavedMeansStored
<1> QED  BY <1>1, SaveInvariance, PTL

-----------------------------------------------------------------------------
(* The page for a deployment *)

\* A slot without an id has no answer to apply.
PollsAreSent == \A s \in Slots : poll[s].answer # "none" => poll[s].id # NoRow

\* What is shown, and what a poll may make the page show, is of the latest deployment,
\* since deploy() found no poll of another one.
AllOfLatest ==
    overtaken \/ (shown.id = latest /\ \A s \in Slots : poll[s].id \in {NoRow, latest})

PageInv == DeployPageTypeOK /\ PollsAreSent /\ AllOfLatest

\* What only touches the API's rows, or ends the wait for an answer.
LEMMA RowStep ==
  ASSUME PageInv,
         \/ \E d \in Rows : OtherDeploys(d) \/ Progress(d) \/ Reopen(d) \/ Deploy(d)
         \/ UNCHANGED pageVars
  PROVE  PageInv'
<1>1. UNCHANGED <<shown, poll, latest, overtaken>>
  BY DEF OtherDeploys, Progress, Reopen, Deploy, pageVars
<1>2. DeployPageTypeOK'
  <2>1. ASSUME NEW d \in Rows, OtherDeploys(d) \/ Progress(d) PROVE DeployPageTypeOK'
    <3>1. PICK next \in Statuses : row' = [row EXCEPT ![d] = next]
      BY <2>1 DEF OtherDeploys, Progress, Statuses
    <3>2. UNCHANGED <<shown, posting, busy, poll, latest, overtaken, reopened>>
      BY <2>1 DEF OtherDeploys, Progress
    <3> QED  BY <3>1, <3>2 DEF PageInv, DeployPageTypeOK
  <2>2. ASSUME NEW d \in Rows, Reopen(d) \/ Deploy(d) PROVE DeployPageTypeOK'
    BY <2>2 DEF PageInv, DeployPageTypeOK, Reopen, Deploy, Statuses
  <2>3. CASE UNCHANGED pageVars
    BY <2>3 DEF PageInv, DeployPageTypeOK, pageVars
  <2> QED  BY <2>1, <2>2, <2>3
<1> QED  BY <1>1, <1>2 DEF PageInv, PollsAreSent, AllOfLatest

\* The answer of a deploy() is what the page shows; it is overtaken if any poll waits.
LEMMA AnswerStep ==
  ASSUME PageInv, DeployAnswers
  PROVE  PageInv'
<1>1. CASE posting = NoRow
  BY <1>1 DEF PageInv, DeployPageTypeOK, PollsAreSent, AllOfLatest, DeployAnswers
<1>2. CASE posting # NoRow
  <2>1. /\ shown' = [id |-> posting, status |-> "queued"] /\ latest' = posting
        /\ overtaken' = (\E s \in Slots : poll[s].id # NoRow)
        /\ UNCHANGED <<row, poll, reopened>> /\ busy' = FALSE /\ posting' = NoRow
    BY <1>2 DEF DeployAnswers
  <2>2. DeployPageTypeOK'
    BY <2>1 DEF PageInv, DeployPageTypeOK, Statuses
  <2> QED  BY <2>1, <2>2 DEF PageInv, PollsAreSent, AllOfLatest
<1> QED  BY <1>1, <1>2

\* A poll is sent for what is shown, and what it is applied for is shown.
LEMMA PollStep ==
  ASSUME PageInv, NEW s \in Slots,
         SendPoll(s) \/ AnswerPoll(s) \/ FailPoll(s) \/ ApplyPoll(s)
  PROVE  PageInv'
<1> USE DEF PageInv, DeployPageTypeOK, PollsAreSent, AllOfLatest
<1>1. CASE SendPoll(s)
  BY <1>1 DEF SendPoll, Polling, NoPoll
<1>2. CASE AnswerPoll(s)
  BY <1>2 DEF AnswerPoll
<1>3. CASE FailPoll(s)
  BY <1>3 DEF FailPoll, NoPoll
<1>4. CASE ApplyPoll(s)
  BY <1>4 DEF ApplyPoll, NoPoll
<1> QED  BY <1>1, <1>2, <1>3, <1>4

LEMMA PageInvariance == DeployPageInit /\ [][DeployPageNext]_pageVars => []PageInv
<1>1. DeployPageInit => PageInv
  <2> SUFFICES ASSUME DeployPageInit PROVE PageInv
    OBVIOUS
  <2>1. DeployPageTypeOK
    BY DEF DeployPageInit, DeployPageTypeOK, NoPoll, Unshown
  <2>2. PollsAreSent /\ AllOfLatest
    BY DEF DeployPageInit, PollsAreSent, AllOfLatest, NoPoll, Unshown
  <2> QED  BY <2>1, <2>2 DEF PageInv
<1>2. PageInv /\ [DeployPageNext]_pageVars => PageInv'
  BY RowStep, AnswerStep, PollStep DEF DeployPageNext
<1> QED  BY <1>1, <1>2, PTL

\* The page shows the deployment its last deploy() was answered with, unless a poll for
\* an earlier one was in flight then, however many polls there are and in whatever order
\* they are answered (deploy/page.tsx:42).
THEOREM ShowsLatest == DeployPageSpec => []ShowsOwnLatest
<1>1. PageInv => ShowsOwnLatest
  BY DEF PageInv, AllOfLatest, ShowsOwnLatest
<1> QED  BY <1>1, PageInvariance, PTL DEF DeployPageSpec
=============================================================================
