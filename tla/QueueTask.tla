------------------------------ MODULE QueueTask ------------------------------
(***************************************************************************)
(* The queue tasks (`curseforge queue`, `modrinth queue`): the web API     *)
(* puts the ids it could not answer into Redis sets, the task takes them   *)
(* out with SPOP, resolves file ids, fingerprints, version ids and hashes  *)
(* to mod ids, syncs the mods, and puts back what failed.                  *)
(*                                                                         *)
(* From the SPOP on, the task's memory is the only place that knows of a   *)
(* request.  The history variable `owed` says which requests have not been *)
(* served.  A mod is synced in one step here; ModrinthSync has its inside. *)
(*                                                                         *)
(* A member of a queue is an id; KindOf gives its queue, ModOf the mod or  *)
(* project upstream resolves it to.  Queue 1 holds mod ids themselves.     *)
(***************************************************************************)
EXTENDS Naturals, FiniteSets

CONSTANTS
    Consumers,      \* processes running the task: the daemon, one-off runs
    Members,        \* ids that may be asked for
    Mods,           \* mod or project ids, members of queue 1 themselves
    NoMod,          \* what an id upstream does not know, or no id at all, resolves to
    LastKind,       \* number of queues
    KindOf,         \* the queue of each member
    ModOf,          \* the mod of each member
    Accepted,       \* mods in the range that is kept (MIN_MOD_ID)
    Hidden,         \* files upstream resolves but does not list
    DrainAllFirst,  \* CurseForge drains all queues first, Modrinth one at a time
    DrainBatch,     \* DRAIN_BATCH, members taken by one SPOP
    ChunkSize,      \* members resolved by one request
    RedisFails,     \* may a SPOP or SADD fail?
    StoreFails,     \* may the write of hidden files fail?
    Crashes,        \* may the task panic, be aborted, or its process die?
    MaxPushes,      \* bound on requests of the web API
    MaxFaults       \* bound on faults of any kind

Kinds == 1 .. LastKind

ASSUME QueueAssumption ==
    /\ LastKind \in Nat \ {0}
    /\ IsFiniteSet(Members)
    /\ Mods \subseteq Members /\ NoMod \notin Mods
    /\ Accepted \subseteq Mods /\ Hidden \subseteq Members
    /\ KindOf \in [Members -> Kinds]
    /\ ModOf \in [Members -> Mods \cup {NoMod}]
    /\ \A m \in Mods : KindOf[m] = 1 /\ ModOf[m] = m
    /\ \A m \in Members \ Mods : KindOf[m] = 1 => ModOf[m] = NoMod
    /\ \A m \in Hidden : KindOf[m] # 1 /\ ModOf[m] # NoMod
    /\ DrainBatch \in Nat \ {0} /\ ChunkSize \in Nat \ {0}
    /\ {DrainAllFirst, RedisFails, StoreFails, Crashes} \subseteq BOOLEAN
    /\ MaxPushes \in Nat /\ MaxFaults \in Nat

VARIABLES
    queues,     \* the Redis sets
    stored,     \* hidden files written to MongoDB
    run,        \* the memory of each consumer
    owed,       \* history: requests not served yet
    pushes,     \* requests so far
    faults      \* faults so far

vars == <<queues, stored, run, owed, pushes, faults>>

-----------------------------------------------------------------------------
(* The memory of a run *)

Stages == {"idle", "drain", "resolve", "store", "putBack", "sync", "retry", "done"}

\* todo: taken and not resolved yet; hand: the batch an answer is awaited for;
\* ok and bad: mods settled and failed; the rest is accounting.
Runs == [stage : Stages, kind : Kinds, todo : SUBSET Members, hand : SUBSET Members,
         targets : SUBSET Mods, ok : SUBSET Mods, bad : SUBSET Mods,
         unprocessed : Nat, requeued : Nat]

NoRun == [stage |-> "idle", kind |-> 1, todo |-> {}, hand |-> {}, targets |-> {},
          ok |-> {}, bad |-> {}, unprocessed |-> 0, requeued |-> 0]

Put(c, r) == run' = [run EXCEPT ![c] = r]

OfKind(S, k) == {m \in S : KindOf[m] = k}

\* What c alone remembers; a resolved member lives on as its mod, until what
\* failed is back in the queue.
Held(r) == r.todo \cup r.hand \cup r.targets \cup IF r.stage = "done" THEN {} ELSE r.bad
Holds(c) == Held(run[c])

Queued(m) == m \in queues[KindOf[m]]

\* A request is served unless somebody has asked again meanwhile, or another
\* run has it in hand, or its hidden file is not stored.
Serve(c, S) ==
    owed' = {m \in owed : \/ m \notin S
                          \/ Queued(m)
                          \/ m \in Hidden \ stored
                          \/ \E d \in Consumers \ {c} : m \in Holds(d)}

-----------------------------------------------------------------------------
(* The order in which the queues are gone through *)

\* curseforge::sync_queue drains the three queues, then resolves each.
CurseforgeAfterDrain(k) ==
    IF k < LastKind THEN <<"drain", k + 1>> ELSE <<"resolve", 1>>
CurseforgeAfterResolve(k) ==
    IF k < LastKind THEN <<"resolve", k + 1>> ELSE <<"sync", k>>

\* modrinth::sync_queue drains and resolves one queue after the other.
ModrinthAfterDrain(k) == <<"resolve", k>>
\* Mutant: the last queue is never looked at, as once the one of sha512.
ModrinthAfterResolveSkipsLast(k) ==
    IF k + 1 < LastKind THEN <<"drain", k + 1>> ELSE <<"sync", k>>
ModrinthAfterResolve(k) ==
    IF k < LastKind THEN <<"drain", k + 1>> ELSE <<"sync", k>>

AfterDrain(k)   == IF DrainAllFirst THEN CurseforgeAfterDrain(k) ELSE ModrinthAfterDrain(k)
AfterResolve(k) == IF DrainAllFirst THEN CurseforgeAfterResolve(k) ELSE ModrinthAfterResolve(k)

-----------------------------------------------------------------------------
(* The web API, which is another program *)

Push(m) ==
    /\ pushes < MaxPushes
    /\ queues' = [queues EXCEPT ![KindOf[m]] = @ \cup {m}]
    /\ owed' = owed \cup {m}
    /\ pushes' = pushes + 1
    /\ UNCHANGED <<stored, run, faults>>

-----------------------------------------------------------------------------
(* One run of the task *)

Start(c) ==
    /\ run[c].stage = "idle"
    /\ Put(c, [NoRun EXCEPT !.stage = "drain"])
    /\ UNCHANGED <<queues, stored, owed, pushes, faults>>

\* One SPOP: any DrainBatch members, or all there are.  A full batch is
\* followed by another SPOP.
Drain(c) ==
    LET r == run[c]
        q == queues[r.kind]
    IN  /\ r.stage = "drain"
        /\ \E b \in SUBSET q :
             /\ Cardinality(b) = DrainBatch \/ (b = q /\ Cardinality(b) < DrainBatch)
             /\ queues' = [queues EXCEPT ![r.kind] = q \ b]
             /\ LET next == IF Cardinality(b) = DrainBatch THEN <<"drain", r.kind>>
                                                           ELSE AfterDrain(r.kind)
                IN  Put(c, [r EXCEPT !.todo = @ \cup b, !.stage = next[1], !.kind = next[2]])
        /\ UNCHANGED <<stored, owed, pushes, faults>>

\* Ids of queue 1 need no request; what is no id is dropped (parse_ids).
TakeMods(c) ==
    LET r == run[c]
        ids == OfKind(r.todo, 1)
        next == AfterResolve(1)
    IN  /\ r.stage = "resolve" /\ r.kind = 1
        /\ Put(c, [r EXCEPT !.todo = @ \ ids,
                            !.targets = @ \cup (ids \cap Mods),
                            !.stage = next[1], !.kind = next[2]])
        /\ Serve(c, ids \ Mods)
        /\ UNCHANGED <<queues, stored, pushes, faults>>

IsChunk(b, S) ==
    /\ b \in SUBSET S \ {{}}
    /\ Cardinality(b) = ChunkSize \/ (b = S /\ Cardinality(b) < ChunkSize)

\* A request for a batch is answered: its mods become targets, ids upstream
\* does not know are done with, hidden files are to be stored.
Resolve(c) ==
    LET r == run[c] IN
    /\ r.stage = "resolve" /\ r.kind # 1
    /\ \E b \in SUBSET r.todo :
         /\ IsChunk(b, OfKind(r.todo, r.kind))
         /\ Put(c, [r EXCEPT !.todo = @ \ b,
                             !.targets = @ \cup ({ModOf[m] : m \in b} \ {NoMod}),
                             !.hand = b \cap Hidden,
                             !.stage = IF b \cap Hidden = {} THEN "resolve" ELSE "store"])
         /\ Serve(c, {m \in b : ModOf[m] = NoMod})
    /\ UNCHANGED <<queues, stored, pushes, faults>>

\* Mutant: the batch counts as failed and is not put back.
ResolveFailsForGood(c) ==
    LET r == run[c] IN
    /\ r.stage = "resolve" /\ r.kind # 1 /\ faults < MaxFaults
    /\ \E b \in SUBSET r.todo :
         /\ IsChunk(b, OfKind(r.todo, r.kind))
         /\ Put(c, [r EXCEPT !.todo = @ \ b, !.unprocessed = @ + Cardinality(b)])
    /\ faults' = faults + 1
    /\ UNCHANGED <<queues, stored, owed, pushes>>

\* The request for a batch fails, and the batch is to be put back.
ResolveFails(c) ==
    LET r == run[c] IN
    /\ r.stage = "resolve" /\ r.kind # 1 /\ faults < MaxFaults
    /\ \E b \in SUBSET r.todo :
         /\ IsChunk(b, OfKind(r.todo, r.kind))
         /\ Put(c, [r EXCEPT !.todo = @ \ b, !.hand = b, !.stage = "putBack"])
    /\ faults' = faults + 1
    /\ UNCHANGED <<queues, stored, owed, pushes>>

\* Mutant: the batch goes to the queue of mods.
PutBackElsewhere(c) ==
    LET r == run[c] IN
    /\ r.stage = "putBack"
    /\ queues' = [queues EXCEPT ![1] = @ \cup r.hand]
    /\ Put(c, [r EXCEPT !.hand = {}, !.stage = "resolve",
                        !.requeued = @ + Cardinality(r.hand),
                        !.unprocessed = @ + Cardinality(r.hand)])
    /\ UNCHANGED <<stored, owed, pushes, faults>>

\* Mutant: a batch put back does not count as failed.
PutBackUncounted(c) ==
    LET r == run[c] IN
    /\ r.stage = "putBack"
    /\ queues' = [queues EXCEPT ![r.kind] = @ \cup r.hand]
    /\ Put(c, [r EXCEPT !.hand = {}, !.stage = "resolve",
                        !.requeued = @ + Cardinality(r.hand)])
    /\ UNCHANGED <<stored, owed, pushes, faults>>

PutBack(c) ==
    LET r == run[c] IN
    /\ r.stage = "putBack"
    /\ queues' = [queues EXCEPT ![r.kind] = @ \cup r.hand]
    /\ Put(c, [r EXCEPT !.hand = {}, !.stage = "resolve",
                        !.requeued = @ + Cardinality(r.hand),
                        !.unprocessed = @ + Cardinality(r.hand)])
    /\ UNCHANGED <<stored, owed, pushes, faults>>

StoreHidden(c) ==
    LET r == run[c] IN
    /\ r.stage = "store"
    /\ stored' = stored \cup r.hand
    /\ Put(c, [r EXCEPT !.hand = {}, !.stage = "resolve"])
    /\ UNCHANGED <<queues, owed, pushes, faults>>

\* upsert_many stops at an error, having written some.  The batch counts as
\* failed, and is not put back.
StoreHiddenFails(c) ==
    LET r == run[c] IN
    /\ StoreFails /\ faults < MaxFaults
    /\ r.stage = "store"
    /\ \E part \in SUBSET r.hand \ {r.hand} : stored' = stored \cup part
    /\ Put(c, [r EXCEPT !.hand = {}, !.stage = "resolve",
                        !.unprocessed = @ + Cardinality(r.hand)])
    /\ faults' = faults + 1
    /\ UNCHANGED <<queues, owed, pushes>>

ResolveDone(c) ==
    LET r == run[c]
        next == AfterResolve(r.kind)
    IN  /\ r.stage = "resolve" /\ r.kind # 1 /\ OfKind(r.todo, r.kind) = {}
        /\ Put(c, [r EXCEPT !.stage = next[1], !.kind = next[2]])
        /\ UNCHANGED <<queues, stored, owed, pushes, faults>>

\* Mods out of range are dropped before the sync, without being counted.
DropUnaccepted(c) ==
    LET r == run[c] IN
    /\ r.stage = "sync" /\ ~ r.targets \subseteq Accepted
    /\ Put(c, [r EXCEPT !.targets = @ \cap Accepted])
    /\ Serve(c, {m \in Members : ModOf[m] \in r.targets \ Accepted})
    /\ UNCHANGED <<queues, stored, pushes, faults>>

\* A mod is synced, or found missing, or skipped: it is done with.
Settle(c) ==
    LET r == run[c] IN
    /\ r.stage = "sync" /\ r.targets \subseteq Accepted
    /\ \E m \in r.targets :
         /\ Put(c, [r EXCEPT !.targets = @ \ {m}, !.ok = @ \cup {m}])
         /\ Serve(c, {x \in Members : ModOf[x] = m})
    /\ UNCHANGED <<queues, stored, pushes, faults>>

SyncFails(c) ==
    LET r == run[c] IN
    /\ r.stage = "sync" /\ r.targets \subseteq Accepted /\ faults < MaxFaults
    /\ \E m \in r.targets :
         Put(c, [r EXCEPT !.targets = @ \ {m}, !.bad = @ \cup {m}])
    /\ faults' = faults + 1
    /\ UNCHANGED <<queues, stored, owed, pushes>>

\* Mutant: the summary of the sync replaces what was counted before it.
SyncDoneForgets(c) ==
    LET r == run[c] IN
    /\ r.stage = "sync" /\ r.targets = {}
    /\ Put(c, [r EXCEPT !.stage = "retry", !.unprocessed = 0])
    /\ UNCHANGED <<queues, stored, owed, pushes, faults>>

SyncDone(c) ==
    LET r == run[c] IN
    /\ r.stage = "sync" /\ r.targets = {}
    /\ Put(c, [r EXCEPT !.stage = "retry"])
    /\ UNCHANGED <<queues, stored, owed, pushes, faults>>

\* Mutant: the queue is written anew.
RetryOverwrites(c) ==
    LET r == run[c] IN
    /\ r.stage = "retry"
    /\ queues' = [queues EXCEPT ![1] = r.bad]
    /\ Put(c, [r EXCEPT !.stage = "done", !.requeued = @ + Cardinality(r.bad)])
    /\ UNCHANGED <<stored, owed, pushes, faults>>

\* The ids of report.failed go back to queue 1, wherever they came from.
Retry(c) ==
    LET r == run[c] IN
    /\ r.stage = "retry"
    /\ queues' = [queues EXCEPT ![1] = @ \cup r.bad]
    /\ Put(c, [r EXCEPT !.stage = "done", !.requeued = @ + Cardinality(r.bad)])
    /\ UNCHANGED <<stored, owed, pushes, faults>>

Finish(c) ==
    /\ run[c].stage = "done"
    /\ Put(c, NoRun)
    /\ UNCHANGED <<queues, stored, owed, pushes, faults>>

\* A SPOP or SADD fails: `?` ends the run, and with it all it had taken.  Redis
\* may have done it nonetheless, and only the reply got lost.
RedisError(c) ==
    LET r == run[c] IN
    /\ RedisFails /\ faults < MaxFaults
    /\ \/ /\ r.stage = "drain"
          /\ \E b \in SUBSET queues[r.kind] :
               /\ Cardinality(b) \in {0, DrainBatch} \/ b = queues[r.kind]
               /\ Cardinality(b) <= DrainBatch
               /\ queues' = [queues EXCEPT ![r.kind] = @ \ b]
       \/ /\ r.stage = "putBack"
          /\ \E b \in {{}, r.hand} : queues' = [queues EXCEPT ![r.kind] = @ \cup b]
       \/ /\ r.stage = "retry" /\ r.bad # {}
          /\ \E b \in {{}, r.bad} : queues' = [queues EXCEPT ![1] = @ \cup b]
    /\ Put(c, NoRun)
    /\ faults' = faults + 1
    /\ UNCHANGED <<stored, owed, pushes>>

Crash(c) ==
    /\ Crashes /\ faults < MaxFaults
    /\ run[c].stage # "idle"
    /\ Put(c, NoRun)
    /\ faults' = faults + 1
    /\ UNCHANGED <<queues, stored, owed, pushes>>

Work(c) ==
    \/ Start(c) \/ Drain(c) \/ TakeMods(c) \/ Resolve(c) \/ PutBack(c) \/ StoreHidden(c)
    \/ ResolveDone(c) \/ DropUnaccepted(c) \/ Settle(c) \/ SyncDone(c) \/ Retry(c)
    \/ Finish(c)

Fault(c) ==
    \/ ResolveFails(c) \/ StoreHiddenFails(c) \/ SyncFails(c)
    \/ RedisError(c) \/ Crash(c)

-----------------------------------------------------------------------------
(* Specification *)

Init ==
    /\ queues = [k \in Kinds |-> {}]
    /\ stored = {}
    /\ run = [c \in Consumers |-> NoRun]
    /\ owed = {}
    /\ pushes = 0
    /\ faults = 0

Next ==
    \/ \E m \in Members : Push(m)
    \/ \E c \in Consumers : Work(c) \/ Fault(c)

Spec == Init /\ [][Next]_vars

\* The daemon starts the task every few minutes and polls it to its end.
FairSpec == Spec /\ \A c \in Consumers : WF_vars(Work(c))

-----------------------------------------------------------------------------
(* Properties *)

TypeOK ==
    /\ queues \in [Kinds -> SUBSET Members]
    /\ \A k \in Kinds : \A m \in queues[k] : KindOf[m] = k
    /\ stored \subseteq Hidden
    /\ run \in [Consumers -> Runs]
    /\ owed \subseteq Members
    /\ pushes \in Nat /\ faults \in Nat

Pending(m) == Queued(m) \/ \E c \in Consumers : m \in Holds(c)

\* Every request not served yet is in its queue or in some run's hands, itself
\* or as the mod it was resolved to: "what was taken from the queue and not
\* processed must be put back" (requeue).  A hidden file must still be there
\* itself, the listing of its mod will not bring it.
Kept(m) == \/ Pending(m)
           \/ ModOf[m] # NoMod /\ m \notin Hidden \ stored /\ Pending(ModOf[m])

NoneLost == \A m \in owed : Kept(m)

\* Whatever else happens, an outside fault has to cut a run short, or keep it
\* from storing a hidden file, for a request to be lost: no step of a run that
\* goes on, and none of another run or of the web API, loses one.
Lost == {m \in owed : ~ Kept(m)}

CutShort == \E c \in Consumers : run[c].stage \notin {"idle", "done"} /\ run'[c] = NoRun

UnstoredHidden == \E c \in Consumers :
    run[c].stage = "store" /\ run'[c].stage = "resolve" /\ ~ run[c].hand \subseteq stored'

OnlyFaultsLose == [][CutShort \/ UnstoredHidden \/ Lost' \subseteq Lost]_vars

\* The summary of a run that ended: summarize and record_unprocessed.
Failed(c) == Cardinality(run[c].bad) + run[c].unprocessed

\* What a run put back is among what it reports as failed, so that the daemon
\* never calls a run a success that left work behind.
RequeuedIsFailed ==
    \A c \in Consumers : run[c].stage = "done" => run[c].requeued <= Failed(c)

\* Conversely, all that a run reports as failed has gone back to a queue.
FailedIsRequeued ==
    \A c \in Consumers : run[c].stage = "done" => run[c].requeued = Failed(c)

\* Nobody has to ask twice: every request is served in the end, once upstream
\* answers again.
EventuallyServed == \A m \in Members : m \in owed ~> m \notin owed

-----------------------------------------------------------------------------
(* The inductive invariant behind the safety properties *)

\* What has been taken is resolved queue by queue and gone before the sync; the
\* batch in hand is one to be stored, whose mods are targets, or to be put back.
InOrder(r) ==
    /\ r.stage \notin {"store", "putBack"} => r.hand = {}
    /\ r.stage \in {"sync", "retry", "done"} => r.todo = {}
    /\ r.stage \in {"retry", "done"} => r.targets = {}
    /\ r.stage \in {"resolve", "store", "putBack"} =>
         \A m \in r.todo : r.kind <= KindOf[m]
    /\ r.stage # "sync" /\ ~ DrainAllFirst => \A m \in r.todo : KindOf[m] = r.kind
    /\ r.stage = "store" => \A m \in r.hand : m \in Hidden /\ ModOf[m] \in r.targets
    /\ r.stage = "putBack" => \A m \in r.hand : KindOf[m] = r.kind

\* What has been put back so far was counted as failed; what was counted so far
\* was put back, hidden files that were not stored apart.
Accounted(r) ==
    LET failed == r.unprocessed + IF r.stage = "done" THEN Cardinality(r.bad) ELSE 0
    IN  /\ r.requeued <= failed
        /\ ~ StoreFails => r.requeued = failed

RunInv(r) ==
    /\ r.stage = "idle" => r = NoRun
    /\ InOrder(r)
    /\ Accounted(r)

\* Why no run drops what it holds (sync_queue, resolve_*_queue, summarize).
IInv == \A c \in Consumers : RunInv(run[c])

=============================================================================
