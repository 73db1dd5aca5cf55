---------------------------- MODULE ManagedData ----------------------------
(***************************************************************************)
(* Provisioning of a database for one service: the route of the API        *)
(* (apps/api/src/runtime-platform-routes.ts:22) asks the engine for a      *)
(* container (apps/engine/src/managed-data.ts:10-30) and then writes three *)
(* rows in three statements.  A call has an instance id of its own, and    *)
(* its container is named after it.  Nothing takes a container down again: *)
(* destroyManagedData is called nowhere.                                   *)
(*                                                                         *)
(* Only this route writes secrets of a service: the conflict target of the *)
(* upsert in platform-routes.ts:29 names no index when there is a service  *)
(* (platform-schema.ts:14 is partial), and the statement fails.            *)
(***************************************************************************)
EXTENDS Naturals, FiniteSets

CONSTANTS
    Provisions,     \* calls of the route
    Ports,          \* host ports hostPort may draw
    NoProvision

ASSUME ManagedDataAssumption == NoProvision \notin Provisions

VARIABLES
    provision,  \* call -> where it is
    database,   \* call -> its container: "absent", "created" or "running"
    port,       \* call -> the host port of its container
    secretOf,   \* secrets: the call whose connection URI the service's DATABASE_URL is
    instances,  \* database_instances: calls whose row is there, all of them "ready"
    managed,    \* services.config: the call whose instance it names
    severed     \* calls ended by an error or the end of a process (history)
dataVars == <<provision, database, port, secretOf, instances, managed, severed>>

MoveTo(p, at) == provision' = [provision EXCEPT ![p] = at]

DataInit ==
    /\ provision = [p \in Provisions |-> "none"]
    /\ database = [p \in Provisions |-> "absent"]
    /\ port \in [Provisions -> Ports]
    /\ secretOf = NoProvision
    /\ instances = {}
    /\ managed = NoProvision
    /\ severed = {}

\* The checks of the route pass, and the engine removes a container of the name, of which
\* there is none: a call is not repeated with its id.
RequestProvision(p) ==
    /\ provision[p] = "none"
    /\ MoveTo(p, "create")
    /\ UNCHANGED <<database, port, secretOf, instances, managed, severed>>

CreateDatabase(p) ==
    /\ provision[p] = "create"
    /\ database' = [database EXCEPT ![p] = "created"]
    /\ MoveTo(p, "start")
    /\ UNCHANGED <<port, secretOf, instances, managed, severed>>

PortInUse(p) ==
    \E q \in Provisions \ {p} : database[q] = "running" /\ port[q] = port[p]

\* An error to connect the container to the network is ignored.
StartDatabase(p) ==
    /\ provision[p] = "start" /\ ~PortInUse(p)
    /\ database' = [database EXCEPT ![p] = "running"]
    /\ MoveTo(p, "secret")
    /\ UNCHANGED <<port, secretOf, instances, managed, severed>>

\* The container stays, and the route answers 502 or 500.
StartDatabaseFails(p) ==
    /\ provision[p] = "start" /\ PortInUse(p)
    /\ MoveTo(p, "failed")
    /\ UNCHANGED <<database, port, secretOf, instances, managed, severed>>

\* Mutant of InsertSecret: the last URI wins.
UpsertSecret(p) ==
    /\ provision[p] = "secret"
    /\ secretOf' = p
    /\ MoveTo(p, "instance")
    /\ UNCHANGED <<database, port, instances, managed, severed>>

\* INSERT of DATABASE_URL, which is unique in the service: a second one is an error.
InsertSecret(p) ==
    /\ provision[p] = "secret"
    /\ IF secretOf = NoProvision
       THEN secretOf' = p /\ MoveTo(p, "instance")
       ELSE UNCHANGED secretOf /\ MoveTo(p, "failed")
    /\ UNCHANGED <<database, port, instances, managed, severed>>

InsertInstance(p) ==
    /\ provision[p] = "instance"
    /\ instances' = instances \cup {p}
    /\ MoveTo(p, "config")
    /\ UNCHANGED <<database, port, secretOf, managed, severed>>

UpdateConfig(p) ==
    /\ provision[p] = "config"
    /\ managed' = p
    /\ MoveTo(p, "done")
    /\ UNCHANGED <<database, port, secretOf, instances, severed>>

\* A statement or a call of Docker fails, the request to the engine is cut off, or the
\* API ends.  The engine may end its part alone: from "create" and "start" its steps go
\* on, with nobody to receive the URI.
Sever(p) ==
    /\ provision[p] \in {"create", "start", "secret", "instance", "config"}
    /\ severed' = severed \cup {p}
    /\ MoveTo(p, "failed")
    /\ \/ UNCHANGED database
       \/ provision[p] = "create" /\ database' = [database EXCEPT ![p] = "created"]
       \/ /\ provision[p] \in {"create", "start"} /\ ~PortInUse(p)
          /\ database' = [database EXCEPT ![p] = "running"]
    /\ UNCHANGED <<port, secretOf, instances, managed>>

DataNext ==
    \E p \in Provisions :
        \/ RequestProvision(p) \/ CreateDatabase(p) \/ StartDatabase(p)
        \/ StartDatabaseFails(p) \/ InsertSecret(p) \/ InsertInstance(p)
        \/ UpdateConfig(p) \/ Sever(p)

DataSpec == DataInit /\ [][DataNext]_dataVars

(***************************************************************************)
(* Properties                                                              *)
(***************************************************************************)

\* Every variable keeps its type.
DataTypeOK ==
    /\ provision \in [Provisions -> {"none", "create", "start", "secret", "instance",
                                     "config", "done", "failed"}]
    /\ database \in [Provisions -> {"absent", "created", "running"}]
    /\ port \in [Provisions -> Ports]
    /\ {secretOf, managed} \subseteq Provisions \cup {NoProvision}
    /\ instances \cup severed \subseteq Provisions

\* A service never has two databases on record, and its credentials, its row and its
\* configuration are of one and the same running container, however often it is asked for
\* one and wherever a call is cut off.  Only the unique secret sees to it, the first of
\* the three statements (runtime-platform-routes.ts:22; platform-schema.ts:14).  A running
\* database that no secret leads to is the work of a call that is not yet there, came
\* second, or was cut off.
OneDatabase ==
    /\ Cardinality(instances) <= 1
    /\ instances \cup ({managed} \ {NoProvision}) \subseteq {secretOf}
    /\ \A p \in Provisions : secretOf = p => database[p] = "running"
    /\ \A p \in Provisions :
          database[p] = "running" /\ secretOf # p =>
              \/ provision[p] = "secret"
              \/ p \in severed
              \/ provision[p] = "failed" /\ secretOf # NoProvision

=============================================================================
