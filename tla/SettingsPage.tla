---------------------------- MODULE SettingsPage ----------------------------
(***************************************************************************)
(* The console's project settings (apps/web/app/settings/page.tsx): one    *)
(* form for whichever project is selected, filled by the answers of loads  *)
(* that may arrive in any order, and saved by two requests at once.        *)
(*                                                                         *)
(* A value is abstracted to the project the form had last been filled for. *)
(***************************************************************************)
EXTENDS Naturals, FiniteSets

CONSTANTS
    Projects,
    NoProject,
    MaxSaves    \* bound: how often the user saves

ASSUME SettingsAssumption == NoProject \notin Projects /\ MaxSaves \in Nat

VARIABLES
    selected,   \* state `projectId`
    listed,     \* the projects have been loaded
    form,       \* the project whose settings the form holds
    loads,      \* projects whose loadProject waits
    crossed,    \* another project's load waited when this one was selected (history)
    unloaded,   \* the load of the selected project failed (history)
    saves,      \* saves so far; each has its number
    puts,       \* PUT requests in flight
    last,       \* the save the page waits for, or has waited for
    notice,     \* state `message`, and `busy` as "saving"
    stored,     \* the API's project_settings and preview_policies
    hasty,      \* projects saved while the form was in doubt (history)
    torn        \* projects a PUT of which failed (history)

settingsVars == <<selected, listed, form, loads, crossed, unloaded, saves, puts, last,
                  notice, stored, hasty, torn>>

Parts == {"settings", "preview"}
Values == Projects \cup {"initial", NoProject}
NoSave == [number |-> 0, project |-> NoProject, value |-> NoProject]

SettingsInit ==
    /\ selected = NoProject
    /\ listed = FALSE
    /\ form = NoProject
    /\ loads = {}
    /\ crossed = FALSE
    /\ unloaded = FALSE
    /\ saves = 0
    /\ puts = {}
    /\ last = NoSave
    /\ notice = "none"
    /\ stored = [p \in Projects |-> [part \in Parts |-> "initial"]]
    /\ hasty = {}
    /\ torn = {}

-----------------------------------------------------------------------------
(* Loading *)

\* Mutant of Select: the effect does not depend on projectId.
SelectOnly(p) ==
    /\ selected' = p
    /\ crossed' = FALSE
    /\ unloaded' = FALSE
    /\ loads' = IF selected = NoProject THEN {p} \ {NoProject} ELSE loads

\* setProjectId, and the effect that calls loadProject for it.
Select(p) ==
    /\ selected' = p
    /\ crossed' = (loads \ {p} # {})
    /\ unloaded' = FALSE
    /\ loads' = loads \cup ({p} \ {NoProject})

\* loadProjects selects the first one.
LoadProjects ==
    /\ ~listed
    /\ listed' = TRUE
    /\ \E p \in Projects : Select(p)
    /\ UNCHANGED <<form, saves, puts, last, notice, stored, hasty, torn>>

UserSelects ==
    /\ listed
    /\ \E p \in (Projects \cup {NoProject}) \ {selected} : Select(p)
    /\ UNCHANGED <<listed, form, saves, puts, last, notice, stored, hasty, torn>>

\* Both answers of loadProject are there: the form is filled, whatever is selected.
LoadAnswers(p) ==
    /\ p \in loads
    /\ loads' = loads \ {p}
    /\ form' = p
    /\ UNCHANGED <<selected, listed, crossed, unloaded, saves, puts, last, notice, stored,
                   hasty, torn>>

LoadFails(p) ==
    /\ p \in loads
    /\ loads' = loads \ {p}
    /\ unloaded' = (unloaded \/ p = selected)
    /\ notice' = IF notice = "saving" THEN notice ELSE "error"
    /\ UNCHANGED <<selected, listed, form, crossed, saves, puts, last, stored, hasty, torn>>

-----------------------------------------------------------------------------
(* Saving *)

\* save(): two requests with the form as it is.
Save ==
    /\ selected # NoProject /\ notice # "saving" /\ saves < MaxSaves
    /\ saves' = saves + 1
    /\ last' = [number |-> saves', project |-> selected, value |-> form]
    /\ puts' = puts \cup {[save |-> last', part |-> part] : part \in Parts}
    /\ notice' = "saving"
    /\ hasty' = IF selected \in loads \/ crossed \/ unloaded
                THEN hasty \cup {selected} ELSE hasty
    /\ UNCHANGED <<selected, listed, form, loads, crossed, unloaded, stored, torn>>

\* The API stores a part and the page has its answer; with both, Promise.all goes on.
PutSucceeds(put) ==
    /\ put \in puts
    /\ puts' = puts \ {put}
    /\ stored' = [stored EXCEPT ![put.save.project][put.part] = put.save.value]
    /\ notice' = IF notice = "saving" /\ put.save = last
                    /\ ~ \E other \in puts' : other.save = last
                 THEN "saved" ELSE notice
    /\ UNCHANGED <<selected, listed, form, loads, crossed, unloaded, saves, last, hasty, torn>>

\* Mutant of PutFails: Promise.allSettled, and the page looks at nothing.
PutSettles(put) ==
    /\ put \in puts
    /\ puts' = puts \ {put}
    /\ notice' = IF notice = "saving" /\ put.save = last
                    /\ ~ \E other \in puts' : other.save = last
                 THEN "saved" ELSE notice
    /\ UNCHANGED <<selected, listed, form, loads, crossed, unloaded, saves, last, stored,
                   hasty, torn>>

\* A request fails, before or after the API has stored its part: Promise.all rejects at
\* once, and the other request goes on without anybody waiting for it.
PutFails(put) ==
    /\ put \in puts
    /\ puts' = puts \ {put}
    /\ \/ UNCHANGED stored
       \/ stored' = [stored EXCEPT ![put.save.project][put.part] = put.save.value]
    /\ notice' = IF notice = "saving" /\ put.save = last THEN "error" ELSE notice
    /\ torn' = torn \cup {put.save.project}
    /\ UNCHANGED <<selected, listed, form, loads, crossed, unloaded, saves, last, hasty>>

SettingsNext ==
    \/ LoadProjects \/ UserSelects \/ Save
    \/ \E p \in Projects : LoadAnswers(p) \/ LoadFails(p)
    \/ \E put \in puts : PutSucceeds(put) \/ PutFails(put)

SettingsSpec == SettingsInit /\ [][SettingsNext]_settingsVars

(***************************************************************************)
(* Properties                                                              *)
(***************************************************************************)

SavesNumbered == [number : 0 .. MaxSaves, project : Projects \cup {NoProject},
                  value : Projects \cup {NoProject}]

SettingsTypeOK ==
    /\ selected \in Projects \cup {NoProject}
    /\ listed \in BOOLEAN
    /\ form \in Projects \cup {NoProject}
    /\ loads \subseteq Projects
    /\ crossed \in BOOLEAN
    /\ unloaded \in BOOLEAN
    /\ saves \in 0 .. MaxSaves
    /\ puts \subseteq [save : SavesNumbered, part : Parts]
    /\ last \in SavesNumbered
    /\ notice \in {"none", "saving", "saved", "error"}
    /\ stored \in [Projects -> [Parts -> Values]]
    /\ hasty \subseteq Projects
    /\ torn \subseteq Projects

\* A project's settings are overwritten with another project's only by a save while its
\* own load was under way or had failed, or after a selection while another project's
\* load was under way: nothing compares an answer with the selection (page.tsx:36).
SavesOwnSettings ==
    \A p \in Projects, part \in Parts : stored[p][part] \notin {"initial", p} => p \in hasty

\* When the page says that the settings are saved, the API has both parts as they were
\* in the form, unless a request of an earlier save of the project failed: the rest of
\* that save may arrive later than this one (page.tsx:46-51).
SavedMeansStored ==
    notice = "saved" =>
        \/ \A part \in Parts : stored[last.project][part] = last.value
        \/ last.project \in torn
=============================================================================
