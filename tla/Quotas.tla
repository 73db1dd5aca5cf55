------------------------------- MODULE Quotas -------------------------------
(***************************************************************************)
(* The quotas of one organization, enforced by triggers                    *)
(* (apps/api/src/quotas.ts:6-16).  Every trigger does the same within the  *)
(* transaction of the statement it guards: lock the organization's row of  *)
(* limits, or insert it with the defaults, then count what others have     *)
(* committed, and raise an exception if the new row goes over the limit.   *)
(* PostgreSQL's READ COMMITTED is modelled: a statement sees what was      *)
(* committed before it, and a transaction its own rows.                    *)
(***************************************************************************)
EXTENDS Integers, FiniteSets

CONSTANTS
    Writers,        \* transactions that may be open at the same time
    Items,          \* projects, services, members, volumes and deployments
    KindOf,         \* item -> its kind
    SizeOf,         \* item -> 1, or the units of a resource that a volume or deployment takes
    DefaultLimit,   \* kind -> the default of its column in organization_quotas
    NoWriter

Kinds == {"project", "service", "member", "volume", "deployment"}

ASSUME QuotasAssumption ==
    /\ IsFiniteSet(Items)
    /\ KindOf \in [Items -> Kinds]
    /\ SizeOf \in [Items -> Nat]
    /\ DefaultLimit \in [Kinds -> Nat]
    /\ NoWriter \notin Writers

VARIABLES
    quotaRow,   \* whether the organization's row of organization_quotas is committed
    inserter,   \* the writer that has inserted that row and not committed, or NoWriter
    holder,     \* the writer that holds its lock, or NoWriter
    counted,    \* items that are committed and count
    writer      \* writer -> where it is, and the item it writes
quotaVars == <<quotaRow, inserter, holder, counted, writer>>

Free == [at |-> "none", item |-> "none"]
Reach(w, at) == writer' = [writer EXCEPT ![w].at = at]

QuotasInit ==
    /\ quotaRow = FALSE
    /\ inserter = NoWriter
    /\ holder = NoWriter
    /\ counted = {}
    /\ writer = [w \in Writers |-> Free]

\* The statement begins: an item is inserted, moved into the organization, or, if it is a
\* deployment that had failed, given another status.  Its own row is locked from here on.
BeginWrite(w) ==
    /\ writer[w].at = "none"
    /\ \E item \in Items \ counted :
          /\ \A v \in Writers : writer[v].item # item
          /\ writer' = [writer EXCEPT ![w] = [at |-> "select", item |-> item]]
    /\ UNCHANGED <<quotaRow, inserter, holder, counted>>

\* An item is deleted, or a deployment fails and the trigger returns at once.
Release ==
    /\ \E item \in counted :
          /\ \A v \in Writers : writer[v].item # item
          /\ counted' = counted \ {item}
    /\ UNCHANGED <<quotaRow, inserter, holder, writer>>

\* Mutant of SelectForUpdate: SELECT without FOR UPDATE.
SelectOnlyRow(w) ==
    /\ writer[w].at = "select" /\ quotaRow
    /\ Reach(w, "count")
    /\ UNCHANGED <<quotaRow, inserter, holder, counted>>

\* SELECT ... FOR UPDATE finds the row, once nobody else holds its lock.
SelectForUpdate(w) ==
    /\ writer[w].at = "select" /\ quotaRow
    /\ holder \in {NoWriter, w}
    /\ holder' = w
    /\ Reach(w, "count")
    /\ UNCHANGED <<quotaRow, inserter, counted>>

\* IF NOT FOUND.
SelectNothing(w) ==
    /\ writer[w].at = "select" /\ ~quotaRow /\ inserter # w
    /\ Reach(w, "insert")
    /\ UNCHANGED <<quotaRow, inserter, holder, counted>>

\* INSERT ... ON CONFLICT DO NOTHING waits for an insert of the same key to end, then
\* inserts, which holds the lock too, or does nothing; the trigger selects again.
InsertDefaults(w) ==
    /\ writer[w].at = "insert" /\ inserter = NoWriter
    /\ IF quotaRow
       THEN Reach(w, "select") /\ UNCHANGED <<inserter, holder>>
       ELSE inserter' = w /\ holder' = w /\ Reach(w, "count")
    /\ UNCHANGED <<quotaRow, counted>>

\* What COUNT and SUM add up: an item of size n is n units of its own.
Units(items) == UNION {{item} \X (1 .. SizeOf[item]) : item \in items}
OfKind(items, kind) == {item \in items : KindOf[item] = kind}

\* What the count finds: committed items of the kind other than the new one.
used(item) == Cardinality(Units(OfKind(counted \ {item}, KindOf[item])))

\* Nothing in the sources changes a limit.
Fits(item) == used(item) + SizeOf[item] <= DefaultLimit[KindOf[item]]

\* The count is right, and the statement goes on to the end of its transaction.
Count(w) ==
    /\ writer[w].at = "count"
    /\ Fits(writer[w].item)
    /\ Reach(w, "commit")
    /\ UNCHANGED <<quotaRow, inserter, holder, counted>>

\* The end of a transaction gives its lock back.
EndTransaction(w) ==
    /\ writer' = [writer EXCEPT ![w] = Free]
    /\ inserter' = IF inserter = w THEN NoWriter ELSE inserter
    /\ holder' = IF holder = w THEN NoWriter ELSE holder

Commit(w) ==
    /\ writer[w].at = "commit"
    /\ counted' = counted \cup {writer[w].item}
    /\ quotaRow' = (quotaRow \/ inserter = w)
    /\ EndTransaction(w)

\* RAISE EXCEPTION, an error of the statement, or the end of the connection.
Abort(w) ==
    /\ writer[w].at # "none"
    /\ EndTransaction(w)
    /\ UNCHANGED <<quotaRow, counted>>

QuotaStep(w) ==
    SelectForUpdate(w) \/ SelectNothing(w) \/ InsertDefaults(w) \/ Count(w) \/ Commit(w)

QuotasNext == Release \/ \E w \in Writers : BeginWrite(w) \/ QuotaStep(w) \/ Abort(w)

QuotasSpec == QuotasInit /\ [][QuotasNext]_quotaVars

(***************************************************************************)
(* Properties                                                              *)
(***************************************************************************)

\* Every variable keeps its type.
QuotasTypeOK ==
    /\ quotaRow \in BOOLEAN
    /\ {inserter, holder} \subseteq Writers \cup {NoWriter}
    /\ counted \subseteq Items
    /\ writer \in [Writers -> [at : {"none", "select", "insert", "count", "commit"},
                               item : Items \cup {"none"}]]

\* What the organization has never exceeds a limit, however many transactions insert, move
\* and revive at the same time, the first ones included, which find no row to lock
\* (quotas.ts:7-15).
NeverOverQuota ==
    \A kind \in Kinds : Cardinality(Units(OfKind(counted, kind))) <= DefaultLimit[kind]

=============================================================================
