------------------------------ MODULE MCStartup ------------------------------
(***************************************************************************)
(* Environments and databases the starts of the API are checked with.      *)
(***************************************************************************)
EXTENDS Startup

\* Environments that an operator may get wrong in one setting.
Sound == [n \in Names |-> IF n = "NODE_ENV" THEN Production ELSE "good"]
AllUnset == [n \in Names |-> "unset"]
OneWrong ==
    {AllUnset, Sound}
        \cup {[Sound EXCEPT ![n] = x] : n \in Secrets, x \in {"unset", "default"}}
        \cup {[Sound EXCEPT ![n] = x] : n \in PublicUrls, x \in {"relative", "http", "localhost"}}
        \cup {[Sound EXCEPT !["AUTH_SECRET"] = "short"],
              [Sound EXCEPT !["ENGINE_URL"] = "relative"],
              [Sound EXCEPT !["GITHUB_CLIENT_ID"] = "unset"],
              [Sound EXCEPT !["GITHUB_WEBHOOK_SECRET"] = "short"]}

\* Databases that an earlier version has started on: what comes first is there.
StartedBefore == {d \in SUBSET Scripts : {"initDb", "ensurePlatformSchema"} \subseteq d}

\* The empty volume of a first `docker compose up`.
EmptyDatabase == {{}}
=============================================================================
