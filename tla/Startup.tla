------------------------------ MODULE Startup ------------------------------
(***************************************************************************)
(* The start of the API (apps/api/src/index.ts:20-56): the checks of the   *)
(* environment, the scripts that bring the database's schema up to date,   *)
(* and the listening socket.  Several processes may start at once against  *)
(* one database (two instances, or an old and a new one of a rollout), and *)
(* `restart: unless-stopped` starts a process that has ended again.        *)
(*                                                                         *)
(* A script is one query of many statements, and so one transaction: it is *)
(* applied as a whole or not at all.                                       *)
(***************************************************************************)
EXTENDS Naturals, Sequences

CONSTANTS
    Processes,
    Databases,      \* the sets of scripts a database may have seen before
    Environments,   \* environments an operator may start a process with
    MaxEnds         \* bound: processes that end by themselves, outages

Secrets == {"DATABASE_URL", "AUTH_SECRET", "ENGINE_INTERNAL_SECRET",
            "ENGINE_CALLBACK_SECRET", "SECRETS_ENCRYPTION_KEY"}
PublicUrls == {"WEB_URL", "PUBLIC_API_URL"}
Names == {"NODE_ENV", "ENGINE_URL", "GITHUB_CLIENT_ID", "GITHUB_CLIENT_SECRET",
          "GITHUB_WEBHOOK_SECRET"} \cup Secrets \cup PublicUrls

\* What is set: nothing, a value from the sources, one of fewer than 32 characters, no
\* absolute URL, an http: URL, an https: URL of this host, or a value that will do.
Settings == {"unset", "default", "short", "relative", "http", "localhost", "good"}

Production == "production"

ASSUME StartupAssumption ==
    /\ Environments \subseteq [Names -> Settings \cup {Production}]
    /\ MaxEnds \in Nat

VARIABLES
    schema,     \* the tables, and the columns added to them, of the database
    database,   \* whether the database answers
    env,        \* process -> its environment
    boot,       \* process -> where its start is
    raced,      \* processes whose script another one has overtaken
    ends        \* outages and ends of processes so far (bound)
startupVars == <<schema, database, env, boot, raced, ends>>

-----------------------------------------------------------------------------
(* The environment *)

\* required: set, and none of INSECURE_DEFAULTS.
required(e, name) == e[name] \notin {"unset", "default"}

\* assertPublicUrl: an absolute https: URL that is not on this host.
assertPublicUrl(e, name) ==
    required(e, name) /\ e[name] \notin {"relative", "http", "localhost"}

\* assertProductionConfiguration.
assertProductionConfiguration(e) ==
    e["NODE_ENV"] = Production =>
        /\ \A name \in Secrets : required(e, name)
        /\ \A name \in PublicUrls : assertPublicUrl(e, name)
        /\ required(e, "ENGINE_URL") /\ e["ENGINE_URL"] # "relative"
        /\ e["GITHUB_CLIENT_ID"] = "unset" <=> e["GITHUB_CLIENT_SECRET"] = "unset"
        /\ e["GITHUB_WEBHOOK_SECRET"] # "short"

\* What auth-routes.ts throws while it is imported, before index.ts has run a line.
AuthRoutesLoad(e) ==
    e["NODE_ENV"] = Production =>
        /\ e["AUTH_SECRET"] \notin {"unset", "short"}
        /\ \A name \in PublicUrls : e[name] \in {"localhost", "good"}

Starts(e) == AuthRoutesLoad(e) /\ assertProductionConfiguration(e)

-----------------------------------------------------------------------------
(* The schema: what a script refers to and what it adds.  Tables that no other script *)
(* refers to stand for the rest of theirs.                                             *)

initDb == [needs |-> {},
           makes |-> {"users", "projects", "deployments", "deployment_events"}]

\* The columns of a preview.
ensurePreviewLifecycleSchema == [
    needs |-> {"environments"},
    makes |-> {"environments.is_preview"}]

ensurePlatformSchema == [
    needs |-> {"users", "projects", "deployments"},
    makes |-> {"organizations", "organization_members", "environments", "services",
               "volumes", "runtime_nodes", "deployment_events", "preview_policies",
               "deployment_comments", "project_settings"}]

\* organization_quotas and the triggers on five tables.
ensureQuotaSchema == [
    needs |-> {"organizations", "organization_members", "projects", "services",
               "volumes", "deployments"},
    makes |-> {"organization_quotas"}]

ensureMarketSchema == [
    needs |-> {"users", "organizations", "projects", "services"},
    makes |-> {"subscriptions", "backup_jobs"}]

ensureSchema == [
    needs |-> {"users", "projects", "deployments"},
    makes |-> {"release_gate_configs", "release_gate_results", "preview_policies",
               "deployment_comments", "project_settings"}]

Script == [initDb |-> initDb,
           ensurePreviewLifecycleSchema |-> ensurePreviewLifecycleSchema,
           ensurePlatformSchema |-> ensurePlatformSchema,
           ensureQuotaSchema |-> ensureQuotaSchema,
           ensureMarketSchema |-> ensureMarketSchema,
           ensureSchema |-> ensureSchema]
Scripts == DOMAIN Script

Made(scripts) == UNION {Script[x].makes : x \in scripts}

ASSUME DatabasesAssumption == Databases \subseteq SUBSET Scripts

\* index.ts registers the routes, and with them the first script, before it awaits
\* initDb; the last one runs in an onReady hook, inside of listen.
Boot == <<"ensurePreviewLifecycleSchema", "initDb", "ensurePlatformSchema",
          "ensureQuotaSchema", "ensureMarketSchema", "ensureSchema">>

StartupInit ==
    /\ schema \in {Made(scripts) : scripts \in Databases}
    /\ database = TRUE
    /\ env = [p \in Processes |-> [name \in Names |-> "unset"]]
    /\ boot = [p \in Processes |-> "down"]
    /\ raced = {}
    /\ ends = 0

\* Mutant of StartProcess: a process that has ended is not started again.
StartProcessOnce(p) ==
    /\ boot[p] = "down" /\ ends = 0
    /\ \E e \in Environments :
          /\ Starts(e)
          /\ env' = [env EXCEPT ![p] = e]
    /\ boot' = [boot EXCEPT ![p] = Boot[1]]
    /\ UNCHANGED <<schema, database, raced, ends>>

\* The container is started: with an environment that is refused it ends at once.
StartProcess(p) ==
    /\ boot[p] = "down"
    /\ \E e \in Environments :
          /\ Starts(e)
          /\ env' = [env EXCEPT ![p] = e]
    /\ boot' = [boot EXCEPT ![p] = Boot[1]]
    /\ UNCHANGED <<schema, database, raced, ends>>

\* Where a process goes after a script.
After(script) ==
    LET i == CHOOSE i \in DOMAIN Boot : Boot[i] = script
    IN  IF i = Len(Boot) THEN "listening" ELSE Boot[i + 1]

\* Processes at the same script, which replaces the same functions and triggers, or at one
\* that makes a table which this one has made first.
Racing(p) ==
    {q \in Processes \ {p} :
        \/ boot[q] = boot[p]
        \/ /\ boot[q] \in Scripts
           /\ (Script[boot[q]].makes \cap Script[boot[p]].makes) \ schema # {}}

\* It commits, and the scripts others have begun meet objects they have not seen.
ScriptSucceeds(p) ==
    /\ boot[p] \in Scripts
    /\ database
    /\ Script[boot[p]].needs \subseteq schema
    /\ schema' = schema \cup Script[boot[p]].makes
    /\ boot' = [boot EXCEPT ![p] = After(boot[p])]
    /\ raced' = (raced \ {p}) \cup Racing(p)
    /\ UNCHANGED <<database, env, ends>>

\* A query throws without the database, without a table it refers to, or because another
\* process has changed the same objects meanwhile: IF NOT EXISTS and OR REPLACE do not
\* wait for a concurrent transaction.
Throws(p) ==
    /\ boot[p] \in Scripts
    /\ \/ ~database
       \/ ~(Script[boot[p]].needs \subseteq schema)
       \/ p \in raced

\* Mutant of ScriptFails: the error is logged, and the start goes on.
ScriptFailsQuietly(p) ==
    /\ Throws(p)
    /\ boot' = [boot EXCEPT ![p] = After(boot[p])]
    /\ raced' = raced \ {p}
    /\ UNCHANGED <<schema, database, env, ends>>

\* Mutant of ScriptFails: the error is caught, and the process stays without listening.
ScriptHangs(p) ==
    /\ Throws(p)
    /\ boot' = [boot EXCEPT ![p] = "stuck"]
    /\ raced' = raced \ {p}
    /\ UNCHANGED <<schema, database, env, ends>>

\* The error leaves the top-level await, and the process ends.
ScriptFails(p) ==
    /\ Throws(p)
    /\ boot' = [boot EXCEPT ![p] = "down"]
    /\ raced' = raced \ {p}
    /\ UNCHANGED <<schema, database, env, ends>>

\* A process ends: killed, replaced, or by an error nobody handles.
ProcessEnds(p) ==
    /\ boot[p] # "down" /\ ends < MaxEnds
    /\ boot' = [boot EXCEPT ![p] = "down"]
    /\ raced' = raced \ {p}
    /\ ends' = ends + 1
    /\ UNCHANGED <<schema, database, env>>

Outage ==
    /\ database /\ ends < MaxEnds
    /\ database' = FALSE
    /\ ends' = ends + 1
    /\ UNCHANGED <<schema, env, boot, raced>>

Reconnect ==
    /\ ~database
    /\ database' = TRUE
    /\ UNCHANGED <<schema, env, boot, raced, ends>>

StartupNext ==
    \/ Outage \/ Reconnect
    \/ \E p \in Processes :
          StartProcess(p) \/ ScriptSucceeds(p) \/ ScriptFails(p) \/ ProcessEnds(p)

\* The database comes back, a container that has ended is started again, and a query
\* that is sent is answered.
StartupFairness ==
    /\ WF_startupVars(Reconnect)
    /\ WF_startupVars(\E p \in Processes : StartProcess(p))
    /\ WF_startupVars(\E p \in Processes : ScriptSucceeds(p) \/ ScriptFails(p))

StartupSpec == StartupInit /\ [][StartupNext]_startupVars /\ StartupFairness

(***************************************************************************)
(* Properties                                                              *)
(***************************************************************************)

\* Every variable keeps its type; the bounds hold.
StartupTypeOK ==
    /\ schema \subseteq Made(Scripts)
    /\ database \in BOOLEAN
    /\ env \in [Processes -> [Names -> Settings \cup {Production}]]
    /\ boot \in [Processes -> Scripts \cup {"down", "listening"}]
    /\ raced \subseteq {p \in Processes : boot[p] \in Scripts}
    /\ ends \in 0 .. MaxEnds

\* A process takes requests only on a database with every table and trigger the routes
\* use, whatever it found, and whatever other processes and outages do while it starts
\* (index.ts:55, platform-advanced-routes.ts:10).
ListensOnWholeSchema ==
    \A p \in Processes : boot[p] = "listening" => schema = Made(Scripts)

\* A production API that takes requests signs with a secret that is neither unset nor
\* published nor short, although auth-routes.ts:17 has a secret to fall back on: it
\* takes the checks of two modules, auth-routes.ts:13 and production-guard.ts:35.
ListensWithSoundSecrets ==
    \A p \in Processes :
        boot[p] = "listening" /\ env[p]["NODE_ENV"] = Production =>
            /\ env[p]["AUTH_SECRET"] \notin {"unset", "default", "short"}
            /\ \A name \in Secrets : required(env[p], name)

\* What a process that takes requests may rely on.
ListensSoundly == ListensOnWholeSchema /\ ListensWithSoundSecrets

\* Once a process has been started all of them come up in the end and stay up, through
\* outages, ends and starts at the same time (README.md:239-245).
EventuallyListens ==
    (\E p \in Processes : boot[p] # "down") ~> [](\A p \in Processes : boot[p] = "listening")
=============================================================================
