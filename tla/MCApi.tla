------------------------------- MODULE MCApi -------------------------------
(***************************************************************************)
(* Instances for TLC of what is written through the API's routes: a        *)
(* behaviour is one of one part, chosen at the start, and the others keep  *)
(* their first state.                                                      *)
(***************************************************************************)
EXTENDS Accounts, SettingsPage, Quotas, ReleaseGates, Webhook, ManagedData, TLC

VARIABLE route
apiVars == <<route, accountVars, settingsVars, quotaVars, gateVars, hookVars, dataVars>>

\* Two accounts that share a mail address, one of which spells it with capitals.
SharedMail ==
    [a \in Accounts |->
        IF a = "g1" THEN {[address |-> "x", spelling |-> "lower"]}
        ELSE {[address |-> "x", spelling |-> "mixed"], [address |-> "y", spelling |-> "lower"]}]

\* Two members and two deployments, of which one takes the whole limit.
ItemKind == [i \in Items |-> IF i \in {"d1", "d2"} THEN "deployment" ELSE "member"]
ItemSize == [i \in Items |-> IF i = "d1" THEN 2 ELSE 1]
LimitOfTwo == [k \in Kinds |-> 2]

\* A gate that one of the requests does not get past, and one that may be changed.
TwoGates ==
    {[name |-> "vars", kind |-> "environment", required |-> TRUE, needs |-> {"KEY"}]} \cup
    {[name |-> "up", kind |-> kind, required |-> kind = "approval", needs |-> {}] :
        kind \in {"health", "approval"}}
KeyOfFirst == [r \in Requests |-> IF r = "r1" THEN {"KEY"} ELSE {}]

\* Two of the requests and pushes, each of them with the other two left out.
MaxReleases == 2
FewReleases ==
    Cardinality({r \in Requests : request[r].at # "none"} \cup
                {made[i] : i \in DOMAIN made}) <= MaxReleases

Interchangeable == Permutations(Calls)

ApiInit ==
    /\ route \in {"accounts", "settings", "quotas", "gates", "webhook", "data"}
    /\ AccountsInit /\ SettingsInit /\ QuotasInit /\ GatesInit /\ WebhookInit /\ DataInit
    /\ route = "gates" \/ config = {}
    /\ route = "data" \/ port = [p \in Provisions |-> CHOOSE x \in Ports : TRUE]

ApiNext ==
    /\ UNCHANGED route
    /\ \/ /\ route = "accounts" /\ AccountsNext
          /\ UNCHANGED <<settingsVars, quotaVars, gateVars, hookVars, dataVars>>
       \/ /\ route = "settings" /\ SettingsNext
          /\ UNCHANGED <<accountVars, quotaVars, gateVars, hookVars, dataVars>>
       \/ /\ route = "quotas" /\ QuotasNext
          /\ UNCHANGED <<accountVars, settingsVars, gateVars, hookVars, dataVars>>
       \/ /\ route = "gates" /\ GatesNext /\ FewReleases'
          /\ UNCHANGED <<accountVars, settingsVars, quotaVars, hookVars, dataVars>>
       \/ /\ route = "webhook" /\ WebhookNext
          /\ UNCHANGED <<accountVars, settingsVars, quotaVars, gateVars, dataVars>>
       \/ /\ route = "data" /\ DataNext
          /\ UNCHANGED <<accountVars, settingsVars, quotaVars, gateVars, hookVars>>

ApiSpec == ApiInit /\ [][ApiNext]_apiVars

\* Every variable of every part keeps its type, and what is recorded in one of a part's
\* tables or sets is recorded in the others it goes with.
ApiTypeOK ==
    /\ AccountsTypeOK /\ SettingsTypeOK /\ QuotasTypeOK
    /\ GatesTypeOK /\ WebhookTypeOK /\ DataTypeOK
=============================================================================
