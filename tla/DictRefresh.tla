----------------------------- MODULE DictRefresh -----------------------------
(***************************************************************************)
(* `modrinth tags`: the dictionary tables (categories, loaders, game       *)
(* versions) have no key to upsert by.  A run fetches all listings, takes  *)
(* one timestamp, and then, table by table, inserts its documents and      *)
(* deletes those with an older timestamp (Database::refresh_collection).   *)
(* Neither insert_many nor delete_many is atomic, a run may fail or die    *)
(* anywhere, and runs of different processes may overlap.                  *)
(*                                                                         *)
(* A run happens once.  A document is <<run, item>>, its sync_at is the    *)
(* stamp of the run.                                                       *)
(***************************************************************************)
EXTENDS Naturals

CONSTANTS
    Runs,           \* runs of sync_tags
    Items,          \* what a listing may contain
    LastTable,      \* number of tables
    MaxNow          \* bound on the clock

Tables == 1 .. LastTable

ASSUME RefreshAssumption == LastTable \in Nat \ {0} /\ MaxNow \in Nat

VARIABLES
    now,        \* the clock, as BSON keeps it
    stage,      \* of each run
    table,      \* the table a run is at
    stamp,      \* the timestamp of each run
    listing,    \* what upstream answered a run, for each table
    todo,       \* documents to insert, or found by delete_many when it began
    docs,       \* the documents of each table
    alone       \* history: runs no other run has overlapped so far

vars == <<now, stage, table, stamp, listing, todo, docs, alone>>

Stages == {"idle", "fetch", "insert", "delete", "done", "abandoned"}
Docs   == Runs \X Items

Active == {r \in Runs : stage[r] \in {"fetch", "insert", "delete"}}

\* The documents run r puts into table t.
Generation(r, t) == {r} \X listing[r][t]

\* Mutant: $lte for $lt.
OlderOrEqual(r, t) == {d \in docs[t] : stamp[d[1]] <= stamp[r]}

Older(r, t) == {d \in docs[t] : stamp[d[1]] < stamp[r]}

-----------------------------------------------------------------------------
(* sync_tags *)

Begin(r) ==
    /\ stage[r] = "idle" /\ now < MaxNow
    /\ now' = now + 1
    /\ stage' = [stage EXCEPT ![r] = "fetch"]
    /\ alone' = IF Active = {} THEN alone \cup {r} ELSE alone \ Active
    /\ UNCHANGED <<table, stamp, listing, todo, docs>>

\* All listings are there, and nothing is written before.
Fetch(r) ==
    /\ stage[r] = "fetch"
    /\ \E l \in [Tables -> SUBSET Items] :
         /\ listing' = [listing EXCEPT ![r] = l]
         /\ todo' = [todo EXCEPT ![r] = {r} \X l[1]]
    /\ stamp' = [stamp EXCEPT ![r] = now]
    /\ stage' = [stage EXCEPT ![r] = "insert"]
    /\ UNCHANGED <<now, table, docs, alone>>

\* An empty listing is refused, and the tables after it are left as they are.
Refuse(r) ==
    /\ stage[r] = "insert" /\ listing[r][table[r]] = {}
    /\ stage' = [stage EXCEPT ![r] = "abandoned"]
    /\ UNCHANGED <<now, table, stamp, listing, todo, docs, alone>>

\* Mutant: deletes first, as the Python version did.
InsertAfterDelete(r) ==
    /\ stage[r] = "insert" /\ todo[r] # {}
    /\ \E d \in todo[r] :
         /\ docs' = [docs EXCEPT ![table[r]] = (@ \ Older(r, table[r])) \cup {d}]
         /\ todo' = [todo EXCEPT ![r] = @ \ {d}]
    /\ UNCHANGED <<now, stage, table, stamp, listing, alone>>

Insert(r) ==
    /\ stage[r] = "insert"
    /\ \E d \in todo[r] :
         /\ docs' = [docs EXCEPT ![table[r]] = @ \cup {d}]
         /\ todo' = [todo EXCEPT ![r] = @ \ {d}]
    /\ UNCHANGED <<now, stage, table, stamp, listing, alone>>

BeginDelete(r) ==
    /\ stage[r] = "insert" /\ listing[r][table[r]] # {} /\ todo[r] = {}
    /\ stage' = [stage EXCEPT ![r] = "delete"]
    /\ todo' = [todo EXCEPT ![r] = Older(r, table[r])]
    /\ UNCHANGED <<now, table, stamp, listing, docs, alone>>

\* Mutant: deletes whatever is not the run's own.
DeleteOthers(r) ==
    /\ stage[r] = "delete"
    /\ \E d \in docs[table[r]] :
         /\ d[1] # r
         /\ docs' = [docs EXCEPT ![table[r]] = @ \ {d}]
    /\ UNCHANGED <<now, stage, table, stamp, listing, todo, alone>>

\* delete_many comes upon an older document, of those inserted since it began
\* perhaps.
Delete(r) ==
    /\ stage[r] = "delete"
    /\ \E d \in Older(r, table[r]) : docs' = [docs EXCEPT ![table[r]] = @ \ {d}]
    /\ UNCHANGED <<now, stage, table, stamp, listing, todo, alone>>

\* Mutant: no table but the first is refreshed.
DeleteDoneEarly(r) ==
    /\ stage[r] = "delete" /\ todo[r] \cap docs[table[r]] = {}
    /\ stage' = [stage EXCEPT ![r] = "done"]
    /\ UNCHANGED <<now, table, stamp, listing, todo, docs, alone>>

\* Mutant: one table too many.
DeleteDonePastLast(r) ==
    /\ stage[r] = "delete" /\ todo[r] \cap docs[table[r]] = {}
    /\ stage' = [stage EXCEPT ![r] = "insert"]
    /\ table' = [table EXCEPT ![r] = @ + 1]
    /\ todo' = [todo EXCEPT ![r] = {}]
    /\ UNCHANGED <<now, stamp, listing, docs, alone>>

\* All that was there when it began is gone; on to the next table.
DeleteDone(r) ==
    /\ stage[r] = "delete" /\ todo[r] \cap docs[table[r]] = {}
    /\ \/ /\ table[r] < LastTable
          /\ stage' = [stage EXCEPT ![r] = "insert"]
          /\ table' = [table EXCEPT ![r] = @ + 1]
          /\ todo' = [todo EXCEPT ![r] = Generation(r, table[r] + 1)]
       \/ /\ table[r] = LastTable
          /\ stage' = [stage EXCEPT ![r] = "done"]
          /\ UNCHANGED <<table, todo>>
    /\ UNCHANGED <<now, stamp, listing, docs, alone>>

\* A request or a write fails, or the process dies.
Abandon(r) ==
    /\ r \in Active
    /\ stage' = [stage EXCEPT ![r] = "abandoned"]
    /\ UNCHANGED <<now, table, stamp, listing, todo, docs, alone>>

-----------------------------------------------------------------------------
(* Specification *)

Init ==
    /\ now = 0
    /\ stage = [r \in Runs |-> "idle"]
    /\ table = [r \in Runs |-> 1]
    /\ stamp = [r \in Runs |-> 0]
    /\ listing = [r \in Runs |-> [t \in Tables |-> {}]]
    /\ todo = [r \in Runs |-> {}]
    /\ docs = [t \in Tables |-> {}]
    /\ alone = {}

Step(r) ==
    \/ Begin(r) \/ Fetch(r) \/ Refuse(r) \/ Insert(r) \/ BeginDelete(r) \/ Delete(r)
    \/ DeleteDone(r) \/ Abandon(r)

Next == \E r \in Runs : Step(r)

Spec == Init /\ [][Next]_vars

-----------------------------------------------------------------------------
(* Properties *)

TypeOK ==
    /\ now \in Nat
    /\ stage \in [Runs -> Stages]
    /\ table \in [Runs -> Tables]
    /\ stamp \in [Runs -> Nat]
    /\ listing \in [Runs -> [Tables -> SUBSET Items]]
    /\ todo \in [Runs -> SUBSET Docs]
    /\ docs \in [Tables -> SUBSET Docs]
    /\ alone \subseteq Runs

Complete(r, t) == listing[r][t] # {} /\ Generation(r, t) \subseteq docs[t]

Whole(t) == \E r \in Runs : Complete(r, t)

\* "Readers never see an empty collection": once a table holds a complete
\* listing it always does, an old one or a new one, however many runs overlap
\* and wherever they fail (refresh_collection inserts before it deletes).
StaysWhole == [][\A t \in Tables : Whole(t) => Whole(t)']_vars

\* A table holds complete listings and never gives one up but for a later one that
\* it holds: readers are not taken back to an older listing, whichever runs overlap
\* and wherever they fail (refresh_collection deletes what is older, no more).
Readers == INSTANCE Table WITH holds <- [t \in Tables |-> {r \in Runs : Complete(r, t)}]
ImplementsTable == Readers!Spec

\* Of a refresh no other run overlapped, each table holds that generation and
\* nothing else when it ends, whatever failed runs had left behind.
AloneMeansClean ==
    [][\A r \in alone : stage[r] # "done" /\ stage'[r] = "done" =>
        \A t \in Tables : docs'[t] = Generation(r, t)]_vars

-----------------------------------------------------------------------------
(* The inductive invariant behind the properties *)

Superseded(r, t) == \E q \in Runs : Complete(q, t) /\ stamp[q] > stamp[r]

Inserted(r) == Generation(r, table[r]) \ (IF stage[r] = "insert" THEN todo[r] ELSE {})

InsertedStays(r) ==
    stage[r] \in {"insert", "delete"} =>
        Inserted(r) \subseteq docs[table[r]] \/ Superseded(r, table[r])

\* Why a run that deletes never leaves a table without a complete listing: what it
\* has put into the table it is at is still there, or a complete listing with a
\* later timestamp is, and neither is older than the run (refresh_collection).
RunsInv ==
    \A r \in Runs :
        /\ InsertedStays(r)
        /\ stage[r] \in {"idle", "fetch"} =>
              table[r] = 1 /\ \A t \in Tables : listing[r][t] = {}
        /\ stage[r] \in {"idle", "fetch"} => \A t \in Tables : \A d \in docs[t] : d[1] # r
        /\ stage[r] = "insert" => todo[r] \subseteq Generation(r, table[r])
        /\ stage[r] = "delete" => listing[r][table[r]] # {}

\* The tables a run has left behind hold what it has put there, and what is older
\* in the table it deletes from it has found.
LeftClean(r) ==
    /\ \A t \in Tables : t < table[r] => docs[t] = Generation(r, t)
    /\ stage[r] = "delete" => Older(r, table[r]) \subseteq todo[r]

\* A run that no other has overlapped is the latest.
Latest(r) ==
    /\ Active = {r}
    /\ stage[r] = "fetch" => \A q \in Runs : stamp[q] < now
    /\ stage[r] \in {"insert", "delete"} => \A q \in Runs \ {r} : stamp[q] < stamp[r]

\* Why it leaves nothing but its own generation (sync_tags takes the timestamp
\* after the answers, so no two runs that do not overlap have the same).
AloneInv ==
    /\ \A r \in Runs : stamp[r] <= now
    /\ \A t \in Tables : \A d \in docs[t] : d \in Generation(d[1], t)
    /\ \A r \in alone : stage[r] # "idle"
    /\ \A r \in alone \cap Active : Latest(r) /\ LeftClean(r)

IInv == RunsInv /\ AloneInv

=============================================================================
