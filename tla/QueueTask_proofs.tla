--------------------------- MODULE QueueTask_proofs ---------------------------
(***************************************************************************)
(* Proofs about QueueTask, for any ids, queues, batches and consumers: its *)
(* types and the order a run goes through its queues in, that what a run   *)
(* reports as failed is what it put back, and that no request is lost      *)
(* unless an outside fault cuts a run short.                               *)
(***************************************************************************)
EXTENDS QueueTask, FiniteSetTheorems, TLAPS

-----------------------------------------------------------------------------
(* Ids, queues and counts *)

LEMMA Counts ==
  /\ \A S \in SUBSET Members : Cardinality(S) \in Nat
  /\ Cardinality({}) = 0
<1>1. ASSUME NEW S \in SUBSET Members PROVE Cardinality(S) \in Nat
  BY QueueAssumption, FS_Subset, FS_CardinalityType
<1> QED
  BY <1>1, FS_EmptySet

\* A mod is a member of queue 1, and no hidden file.
LEMMA ModsAreMembers ==
  /\ \A m \in Mods : m \in Members /\ KindOf[m] = 1 /\ ModOf[m] = m /\ m # NoMod
  /\ Mods \cap Hidden = {} /\ Hidden \subseteq Members
BY QueueAssumption

LEMMA KindTypes ==
  /\ LastKind \in Nat /\ 1 <= LastKind
  /\ \A m \in Members : KindOf[m] \in Nat /\ 1 <= KindOf[m] /\ KindOf[m] <= LastKind
BY QueueAssumption DEF Kinds

\* After a queue comes the next, and after the last the sync.
LEMMA Order ==
  ASSUME NEW k \in Kinds
  PROVE  /\ AfterDrain(k)[2] \in Kinds /\ AfterResolve(k)[2] \in Kinds
         /\ AfterDrain(k)[1] \in {"drain", "resolve"}
         /\ AfterDrain(k)[1] = "drain" => DrainAllFirst
         /\ AfterDrain(k)[1] = "resolve" /\ DrainAllFirst => AfterDrain(k)[2] = 1
         /\ ~ DrainAllFirst => AfterDrain(k)[2] = k
         /\ AfterResolve(k)[1] \in {"drain", "resolve", "sync"}
         /\ AfterResolve(k)[1] = "resolve" => DrainAllFirst /\ AfterResolve(k)[2] = k + 1
         /\ AfterResolve(k)[1] = "drain" => ~ DrainAllFirst
         /\ AfterResolve(k)[1] = "sync" => k = LastKind
BY KindTypes DEF Kinds, AfterDrain, AfterResolve, CurseforgeAfterDrain,
   CurseforgeAfterResolve, ModrinthAfterDrain, ModrinthAfterResolve

LEMMA RunTypes ==
  ASSUME NEW r \in Runs
  PROVE  /\ r.stage \in Stages /\ r.kind \in Kinds /\ r.kind \in Nat
         /\ r.todo \subseteq Members /\ r.hand \subseteq Members
         /\ r.targets \subseteq Mods /\ r.ok \subseteq Mods /\ r.bad \subseteq Mods
         /\ r.unprocessed \in Nat /\ r.requeued \in Nat
BY DEF Runs, Kinds

\* A run that has not begun, or has begun just now, is in order.
LEMMA NoRunInOrder ==
  /\ NoRun \in Runs /\ RunInv(NoRun)
  /\ [NoRun EXCEPT !.stage = "drain"] \in Runs
  /\ RunInv([NoRun EXCEPT !.stage = "drain"])
<1>1. 1 \in Kinds
  BY KindTypes DEF Kinds
<1>2. NoRun \in Runs
  BY <1>1 DEF Runs, Stages, NoRun
<1>3. [NoRun EXCEPT !.stage = "drain"] \in Runs
  BY <1>2 DEF Runs, Stages
<1>4. RunInv(NoRun) /\ RunInv([NoRun EXCEPT !.stage = "drain"])
  BY DEF RunInv, InOrder, Accounted, NoRun
<1> QED
  BY <1>2, <1>3, <1>4

-----------------------------------------------------------------------------
(* The order of a run *)

\* A run takes members of the queue it is at, and goes on in order.
LEMMA DrainInOrder ==
  ASSUME TypeOK, NEW c \in Consumers, RunInv(run[c]), Drain(c)
  PROVE  \E r \in Runs : Put(c, r) /\ RunInv(r)
<1> DEFINE r == run[c]
           q == queues[r.kind]
<1>1. r \in Runs /\ RunInv(r) /\ r.stage = "drain" /\ r.kind \in Kinds
  BY RunTypes DEF TypeOK, Drain
<1>2. PICK b \in SUBSET q :
        LET next == IF Cardinality(b) = DrainBatch THEN <<"drain", r.kind>>
                                                   ELSE AfterDrain(r.kind)
        IN  Put(c, [r EXCEPT !.todo = @ \cup b, !.stage = next[1], !.kind = next[2]])
  BY DEF Drain
<1> DEFINE next == IF Cardinality(b) = DrainBatch THEN <<"drain", r.kind>>
                                                  ELSE AfterDrain(r.kind)
           new == [r EXCEPT !.todo = @ \cup b, !.stage = next[1], !.kind = next[2]]
<1>3. /\ next[1] \in {"drain", "resolve"} /\ next[2] \in Kinds
      /\ next[1] = "resolve" => ~ DrainAllFirst \/ next[2] = 1
      /\ ~ DrainAllFirst => next[2] = r.kind
  BY <1>1, Order
<1>4. q \in SUBSET Members /\ \A m \in b : KindOf[m] = r.kind
  BY <1>1 DEF TypeOK
<1> HIDE DEF next, q
<1>5. /\ new \in Runs /\ new.todo = r.todo \cup b
      /\ new.stage = next[1] /\ new.kind = next[2] /\ new.hand = r.hand
      /\ new.requeued = r.requeued /\ new.unprocessed = r.unprocessed
  BY <1>1, <1>3, <1>4 DEF Runs, Stages
<1> HIDE DEF new
<1>6. InOrder(new)
  BY <1>1, <1>3, <1>4, <1>5, RunTypes, KindTypes DEF RunInv, InOrder
<1>7. Accounted(new)
  BY <1>1, <1>3, <1>5 DEF RunInv, Accounted
<1> QED
  BY <1>2, <1>3, <1>5, <1>6, <1>7 DEF RunInv, new, next

\* The ids of queue 1 leave for the targets.
LEMMA TakeModsInOrder ==
  ASSUME TypeOK, NEW c \in Consumers, RunInv(run[c]), TakeMods(c)
  PROVE  \E r \in Runs : Put(c, r) /\ RunInv(r)
<1> DEFINE r == run[c]
           ids == OfKind(r.todo, 1)
           next == AfterResolve(1)
           new == [r EXCEPT !.todo = @ \ ids, !.targets = @ \cup (ids \cap Mods),
                            !.stage = next[1], !.kind = next[2]]
<1>1. r \in Runs /\ RunInv(r) /\ r.stage = "resolve" /\ r.kind = 1 /\ Put(c, new)
  BY DEF TypeOK, TakeMods
<1>2. \A m \in r.todo \ ids : KindOf[m] \in Nat /\ 2 <= KindOf[m] /\ KindOf[m] <= LastKind
  BY <1>1, RunTypes, KindTypes DEF OfKind
<1>3. /\ next[1] \in {"drain", "resolve", "sync"} /\ next[2] \in Kinds
      /\ next[1] = "resolve" => DrainAllFirst /\ next[2] = 2
      /\ next[1] = "drain" => ~ DrainAllFirst
      /\ next[1] = "sync" => LastKind = 1
  BY Order, KindTypes DEF Kinds
<1> HIDE DEF next, ids
<1>4. /\ new \in Runs /\ new.todo = r.todo \ ids /\ new.stage = next[1]
      /\ new.kind = next[2] /\ new.hand = r.hand
      /\ new.requeued = r.requeued /\ new.unprocessed = r.unprocessed
  BY <1>1, <1>3 DEF Runs, Stages
<1> HIDE DEF new
<1>5. InOrder(new)
  <2>1. ~ DrainAllFirst => new.todo = {}
    BY <1>1, <1>2, <1>4 DEF RunInv, InOrder
  <2>2. new.stage = "sync" => new.todo = {}
    BY <1>2, <1>3, <1>4
  <2> QED
    BY <1>1, <1>2, <1>3, <1>4, <2>1, <2>2 DEF RunInv, InOrder
<1>6. Accounted(new)
  BY <1>1, <1>3, <1>4 DEF RunInv, Accounted
<1> QED
  BY <1>1, <1>3, <1>4, <1>5, <1>6 DEF RunInv

\* A batch is answered: its mods are targets before its hidden files are stored.
LEMMA ResolveInOrder ==
  ASSUME TypeOK, NEW c \in Consumers, RunInv(run[c]), Resolve(c)
  PROVE  \E r \in Runs : Put(c, r) /\ RunInv(r)
<1> DEFINE r == run[c]
<1>1. r \in Runs /\ RunInv(r) /\ r.stage = "resolve"
  BY DEF TypeOK, Resolve
<1>2. PICK b \in SUBSET r.todo :
        Put(c, [r EXCEPT !.todo = @ \ b,
                         !.targets = @ \cup ({ModOf[m] : m \in b} \ {NoMod}),
                         !.hand = b \cap Hidden,
                         !.stage = IF b \cap Hidden = {} THEN "resolve" ELSE "store"])
  BY DEF Resolve
<1> DEFINE mods == {ModOf[m] : m \in b} \ {NoMod}
           hid == b \cap Hidden
           s == IF b \cap Hidden = {} THEN "resolve" ELSE "store"
           new == [r EXCEPT !.todo = @ \ b, !.targets = @ \cup mods, !.hand = hid,
                            !.stage = s]
<1>3. b \subseteq Members /\ mods \subseteq Mods /\ \A m \in hid : ModOf[m] \in mods
  BY <1>1, RunTypes, QueueAssumption
<1>4. s \in {"resolve", "store"} /\ (s = "resolve" => hid = {})
      /\ hid \subseteq Members /\ hid \subseteq Hidden
  BY <1>3
<1> HIDE DEF mods, hid, s
<1>5. /\ new \in Runs /\ new.todo = r.todo \ b /\ new.stage = s /\ new.hand = hid
      /\ new.targets = r.targets \cup mods /\ new.kind = r.kind
      /\ new.requeued = r.requeued /\ new.unprocessed = r.unprocessed
  BY <1>1, <1>3, <1>4 DEF Runs, Stages
<1> HIDE DEF new
<1>6. InOrder(new)
  BY <1>1, <1>3, <1>4, <1>5 DEF RunInv, InOrder
<1>7. Accounted(new)
  BY <1>1, <1>4, <1>5 DEF RunInv, Accounted
<1> QED
  BY <1>2, <1>4, <1>5, <1>6, <1>7 DEF RunInv, new, mods, hid, s

\* A batch that could not be resolved is in hand until it is put back.
LEMMA ResolveFailsInOrder ==
  ASSUME TypeOK, NEW c \in Consumers, RunInv(run[c]), ResolveFails(c)
  PROVE  \E r \in Runs : Put(c, r) /\ RunInv(r)
<1> DEFINE r == run[c]
<1>1. r \in Runs /\ RunInv(r) /\ r.stage = "resolve"
  BY DEF TypeOK, ResolveFails
<1>2. PICK b \in SUBSET r.todo :
        /\ IsChunk(b, OfKind(r.todo, r.kind))
        /\ Put(c, [r EXCEPT !.todo = @ \ b, !.hand = b, !.stage = "putBack"])
  BY DEF ResolveFails
<1> DEFINE new == [r EXCEPT !.todo = @ \ b, !.hand = b, !.stage = "putBack"]
<1>3. b \subseteq Members /\ \A m \in b : KindOf[m] = r.kind
  BY <1>1, <1>2, RunTypes DEF IsChunk, OfKind
<1>4. /\ new \in Runs /\ new.todo = r.todo \ b /\ new.stage = "putBack" /\ new.hand = b
      /\ new.kind = r.kind
      /\ new.requeued = r.requeued /\ new.unprocessed = r.unprocessed
  BY <1>1, <1>3 DEF Runs, Stages
<1> HIDE DEF new
<1>5. InOrder(new) /\ Accounted(new)
  BY <1>1, <1>3, <1>4 DEF RunInv, InOrder, Accounted
<1> QED
  BY <1>2, <1>4, <1>5 DEF RunInv, new

\* What is put back is counted twice alike; hidden files that are not stored are
\* only counted as failed.
LEMMA HandEmptied ==
  ASSUME TypeOK, NEW c \in Consumers, RunInv(run[c]),
         PutBack(c) \/ StoreHidden(c) \/ StoreHiddenFails(c)
  PROVE  \E r \in Runs : Put(c, r) /\ RunInv(r)
<1> DEFINE r == run[c]
           n == Cardinality(r.hand)
<1>1. r \in Runs /\ RunInv(r) /\ r.stage \in {"store", "putBack"}
  BY DEF TypeOK, PutBack, StoreHidden, StoreHiddenFails
<1>2. n \in Nat /\ r.requeued \in Nat /\ r.unprocessed \in Nat
  BY <1>1, RunTypes, Counts
<1> HIDE DEF n
<1>3. r.requeued + n \in Nat /\ r.unprocessed + n \in Nat
  BY <1>2
<1>4. ASSUME NEW new \in Runs, NEW a \in Nat, NEW d \in Nat,
             new.stage = "resolve", new.hand = {}, new.todo = r.todo, new.kind = r.kind,
             new.requeued = r.requeued + a, new.unprocessed = r.unprocessed + d,
             a <= d, a = d \/ StoreFails
      PROVE  RunInv(new)
  <2>1. InOrder(new)
    BY <1>1, <1>4 DEF RunInv, InOrder
  <2>2. Accounted(new)
    BY <1>1, <1>2, <1>4 DEF RunInv, Accounted
  <2> QED
    BY <1>4, <2>1, <2>2 DEF RunInv
<1>5. CASE PutBack(c)
  <2> DEFINE a == r.requeued + n
             d == r.unprocessed + n
             new == [r EXCEPT !.hand = {}, !.stage = "resolve", !.requeued = a,
                              !.unprocessed = d]
  <2>1. Put(c, new)
    BY <1>5 DEF PutBack, n
  <2>2. a \in Nat /\ d \in Nat
    BY <1>3
  <2> HIDE DEF a, d
  <2>3. /\ new \in Runs /\ new.stage = "resolve" /\ new.hand = {}
        /\ new.todo = r.todo /\ new.kind = r.kind
        /\ new.requeued = a /\ new.unprocessed = d
    BY <1>1, <2>2 DEF Runs, Stages
  <2> HIDE DEF new
  <2>4. RunInv(new)
    BY <1>2, <1>4, <2>3 DEF a, d
  <2> QED
    BY <2>1, <2>3, <2>4
<1>6. CASE StoreHidden(c)
  <2> DEFINE new == [r EXCEPT !.hand = {}, !.stage = "resolve"]
  <2>1. Put(c, new)
    BY <1>6 DEF StoreHidden
  <2>2. /\ new \in Runs /\ new.stage = "resolve" /\ new.hand = {}
        /\ new.todo = r.todo /\ new.kind = r.kind
        /\ new.requeued = r.requeued /\ new.unprocessed = r.unprocessed
    BY <1>1 DEF Runs, Stages
  <2> HIDE DEF new
  <2>3. new.requeued = r.requeued + 0 /\ new.unprocessed = r.unprocessed + 0
    BY <1>2, <2>2
  <2>4. RunInv(new)
    BY <1>4, <2>2, <2>3
  <2> QED
    BY <2>1, <2>2, <2>4
<1>7. CASE StoreHiddenFails(c)
  <2> DEFINE d == r.unprocessed + n
             new == [r EXCEPT !.hand = {}, !.stage = "resolve", !.unprocessed = d]
  <2>1. Put(c, new) /\ StoreFails
    BY <1>7 DEF StoreHiddenFails, n
  <2>2. d \in Nat
    BY <1>3
  <2> HIDE DEF d
  <2>3. /\ new \in Runs /\ new.stage = "resolve" /\ new.hand = {}
        /\ new.todo = r.todo /\ new.kind = r.kind
        /\ new.requeued = r.requeued /\ new.unprocessed = d
    BY <1>1, <2>2 DEF Runs, Stages
  <2> HIDE DEF new
  <2>4. new.requeued = r.requeued + 0 /\ new.unprocessed = r.unprocessed + n
    BY <1>2, <2>3 DEF d
  <2>5. RunInv(new)
    BY <1>2, <1>4, <2>1, <2>3, <2>4
  <2> QED
    BY <2>1, <2>3, <2>5
<1> QED
  BY <1>5, <1>6, <1>7

\* A queue is done with once nothing of it is left to resolve.
LEMMA ResolveDoneInOrder ==
  ASSUME TypeOK, NEW c \in Consumers, RunInv(run[c]), ResolveDone(c)
  PROVE  \E r \in Runs : Put(c, r) /\ RunInv(r)
<1> DEFINE r == run[c]
           next == AfterResolve(r.kind)
           new == [r EXCEPT !.stage = next[1], !.kind = next[2]]
<1>1. /\ r \in Runs /\ RunInv(r) /\ r.stage = "resolve" /\ r.kind \in Kinds
      /\ OfKind(r.todo, r.kind) = {} /\ Put(c, new)
  BY RunTypes DEF TypeOK, ResolveDone
<1>2. \A m \in r.todo : /\ KindOf[m] \in Nat /\ r.kind + 1 <= KindOf[m]
                        /\ KindOf[m] <= LastKind
  BY <1>1, RunTypes, KindTypes DEF OfKind, RunInv, InOrder
<1>3. /\ next[1] \in {"drain", "resolve", "sync"} /\ next[2] \in Kinds
      /\ next[1] = "resolve" => DrainAllFirst /\ next[2] = r.kind + 1
      /\ next[1] = "drain" => ~ DrainAllFirst
      /\ next[1] = "sync" => r.kind = LastKind
  BY <1>1, Order
<1> HIDE DEF next
<1>4. /\ new \in Runs /\ new.todo = r.todo /\ new.stage = next[1]
      /\ new.kind = next[2] /\ new.hand = r.hand
      /\ new.requeued = r.requeued /\ new.unprocessed = r.unprocessed
  BY <1>1, <1>3 DEF Runs, Stages
<1> HIDE DEF new
<1>5. InOrder(new)
  <2>1. ~ DrainAllFirst => new.todo = {}
    BY <1>1, <1>4 DEF OfKind, RunInv, InOrder
  <2>2. new.stage = "sync" => new.todo = {}
    BY <1>2, <1>3, <1>4, KindTypes
  <2> QED
    BY <1>1, <1>2, <1>3, <1>4, <2>1, <2>2 DEF RunInv, InOrder
<1>6. Accounted(new)
  BY <1>1, <1>3, <1>4 DEF RunInv, Accounted
<1> QED
  BY <1>1, <1>3, <1>4, <1>5, <1>6 DEF RunInv

\* The sync settles its targets or puts them aside as failed.
LEMMA SyncInOrder ==
  ASSUME TypeOK, NEW c \in Consumers, RunInv(run[c]),
         DropUnaccepted(c) \/ Settle(c) \/ SyncFails(c) \/ SyncDone(c)
  PROVE  \E r \in Runs : Put(c, r) /\ RunInv(r)
<1> DEFINE r == run[c]
<1>1. r \in Runs /\ RunInv(r) /\ r.stage = "sync"
  BY DEF TypeOK, DropUnaccepted, Settle, SyncFails, SyncDone
<1>2. ASSUME NEW new \in Runs, new.stage \in {"sync", "retry"},
             new.stage = "retry" => new.targets = {},
             new.todo = r.todo, new.hand = r.hand, new.kind = r.kind,
             new.requeued = r.requeued, new.unprocessed = r.unprocessed
      PROVE  RunInv(new)
  BY <1>1, <1>2 DEF RunInv, InOrder, Accounted
<1>3. CASE DropUnaccepted(c)
  <2> DEFINE new == [r EXCEPT !.targets = @ \cap Accepted]
  <2>1. new \in Runs /\ Put(c, new) /\ RunInv(new)
    BY <1>1, <1>2, <1>3 DEF DropUnaccepted, Runs
  <2> QED
    BY <2>1
<1>4. CASE Settle(c)
  <2>1. PICK m \in r.targets :
          Put(c, [r EXCEPT !.targets = @ \ {m}, !.ok = @ \cup {m}])
    BY <1>4 DEF Settle
  <2> DEFINE new == [r EXCEPT !.targets = @ \ {m}, !.ok = @ \cup {m}]
  <2>2. new \in Runs /\ RunInv(new)
    BY <1>1, <1>2 DEF Runs
  <2> QED
    BY <2>1, <2>2
<1>5. CASE SyncFails(c)
  <2>1. PICK m \in r.targets :
          Put(c, [r EXCEPT !.targets = @ \ {m}, !.bad = @ \cup {m}])
    BY <1>5 DEF SyncFails
  <2> DEFINE new == [r EXCEPT !.targets = @ \ {m}, !.bad = @ \cup {m}]
  <2>2. new \in Runs /\ RunInv(new)
    BY <1>1, <1>2 DEF Runs
  <2> QED
    BY <2>1, <2>2
<1>6. CASE SyncDone(c)
  <2> DEFINE new == [r EXCEPT !.stage = "retry"]
  <2>1. new \in Runs /\ Put(c, new) /\ RunInv(new)
    BY <1>1, <1>2, <1>6 DEF SyncDone, Runs, Stages
  <2> QED
    BY <2>1
<1> QED
  BY <1>3, <1>4, <1>5, <1>6

\* The mods that failed go back and are counted.
LEMMA RetryInOrder ==
  ASSUME TypeOK, NEW c \in Consumers, RunInv(run[c]), Retry(c)
  PROVE  \E r \in Runs : Put(c, r) /\ RunInv(r)
<1> DEFINE r == run[c]
           n == Cardinality(r.bad)
           q == r.requeued + n
           new == [r EXCEPT !.stage = "done", !.requeued = q]
<1>1. r \in Runs /\ RunInv(r) /\ r.stage = "retry" /\ Put(c, new)
  BY DEF TypeOK, Retry
<1>2. n \in Nat /\ r.requeued \in Nat
  BY <1>1, RunTypes, ModsAreMembers, Counts
<1> HIDE DEF n
<1>3. q \in Nat
  BY <1>2
<1> HIDE DEF q
<1>4. /\ new \in Runs /\ new.todo = r.todo /\ new.stage = "done" /\ new.hand = r.hand
      /\ new.kind = r.kind /\ new.targets = r.targets /\ new.requeued = q
      /\ new.unprocessed = r.unprocessed /\ new.bad = r.bad
  BY <1>1, <1>3 DEF Runs, Stages
<1> HIDE DEF new
<1>5. InOrder(new)
  BY <1>1, <1>4 DEF RunInv, InOrder
<1>6. Accounted(new)
  BY <1>1, <1>2, <1>4, RunTypes DEF RunInv, Accounted, n, q
<1> QED
  BY <1>1, <1>4, <1>5, <1>6 DEF RunInv

\* Whatever a run does, or is done to it, leaves it in order.
LEMMA StepInOrder ==
  ASSUME TypeOK, NEW c \in Consumers, RunInv(run[c]), Work(c) \/ Fault(c)
  PROVE  \E r \in Runs : Put(c, r) /\ RunInv(r)
<1>1. CASE Start(c) \/ Finish(c) \/ RedisError(c) \/ Crash(c)
  BY <1>1, NoRunInOrder DEF Start, Finish, RedisError, Crash
<1> QED
  BY <1>1, DrainInOrder, TakeModsInOrder, ResolveInOrder, ResolveFailsInOrder, HandEmptied,
     ResolveDoneInOrder, SyncInOrder, RetryInOrder DEF Work, Fault

-----------------------------------------------------------------------------
(* Types, and the order and the accounts of all runs *)

\* What goes into a queue is of its kind.
LEMMA QueuePut ==
  ASSUME TypeOK, NEW k \in Kinds, NEW S \in SUBSET Members, \A m \in S : KindOf[m] = k,
         queues' = [queues EXCEPT ![k] = @ \cup S]
  PROVE  /\ queues' \in [Kinds -> SUBSET Members]
         /\ \A i \in Kinds : \A m \in queues'[i] : KindOf[m] = i
BY DEF TypeOK

LEMMA QueueTaken ==
  ASSUME TypeOK, NEW k \in Kinds, NEW S, queues' = [queues EXCEPT ![k] = @ \ S]
  PROVE  /\ queues' \in [Kinds -> SUBSET Members]
         /\ \A i \in Kinds : \A m \in queues'[i] : KindOf[m] = i
BY DEF TypeOK

LEMMA QueuesTyped ==
  ASSUME TypeOK, NEW c \in Consumers, RunInv(run[c]), Work(c) \/ Fault(c)
  PROVE  /\ queues' \in [Kinds -> SUBSET Members]
         /\ \A k \in Kinds : \A m \in queues'[k] : KindOf[m] = k
<1> DEFINE r == run[c]
<1>1. r \in Runs /\ r.kind \in Kinds /\ r.hand \subseteq Members /\ 1 \in Kinds
      /\ \A m \in r.bad : m \in Members /\ KindOf[m] = 1
  BY RunTypes, ModsAreMembers, KindTypes DEF TypeOK, Kinds
<1>2. r.stage = "putBack" => \A m \in r.hand : KindOf[m] = r.kind
  BY DEF RunInv, InOrder
<1>3. CASE Drain(c)
  <2>1. PICK b \in SUBSET queues[r.kind] : queues' = [queues EXCEPT ![r.kind] = @ \ b]
    BY <1>1, <1>3 DEF Drain, TypeOK
  <2> QED
    BY <1>1, <2>1, QueueTaken
<1>4. CASE PutBack(c)
  BY <1>1, <1>2, <1>4, QueuePut DEF PutBack
<1>5. CASE Retry(c)
  BY <1>1, <1>5, QueuePut DEF Retry
<1>6. CASE RedisError(c)
  <2>1. CASE r.stage = "drain"
    BY <1>1, <1>6, <2>1, QueueTaken DEF RedisError
  <2>2. CASE r.stage = "putBack"
    <3>1. PICK b \in {{}, r.hand} : queues' = [queues EXCEPT ![r.kind] = @ \cup b]
      BY <1>6, <2>2 DEF RedisError
    <3> QED
      BY <1>1, <1>2, <2>2, <3>1, QueuePut
  <2>3. CASE r.stage = "retry"
    <3>1. PICK b \in {{}, r.bad} : queues' = [queues EXCEPT ![1] = @ \cup b]
      BY <1>6, <2>3 DEF RedisError
    <3> QED
      BY <1>1, <3>1, QueuePut
  <2> QED
    BY <1>6, <2>1, <2>2, <2>3 DEF RedisError
<1>7. CASE UNCHANGED queues
  BY <1>7 DEF TypeOK
<1> QED
  BY <1>3, <1>4, <1>5, <1>6, <1>7 DEF Work, Fault, Start, TakeMods, Resolve, StoreHidden,
     ResolveDone, DropUnaccepted, Settle, SyncDone, Finish, ResolveFails, StoreHiddenFails,
     SyncFails, Crash

LEMMA RestTyped ==
  ASSUME TypeOK, NEW c \in Consumers, RunInv(run[c]), Work(c) \/ Fault(c)
  PROVE  /\ stored' \subseteq Hidden /\ owed' \subseteq owed
         /\ pushes' = pushes /\ faults' \in {faults, faults + 1}
<1>1. stored' \subseteq Hidden
  <2>1. CASE StoreHidden(c) \/ StoreHiddenFails(c)
    <3>1. \A m \in run[c].hand : m \in Hidden
      BY <2>1 DEF RunInv, InOrder, StoreHidden, StoreHiddenFails
    <3> QED
      BY <2>1, <3>1 DEF StoreHidden, StoreHiddenFails, TypeOK
  <2> QED
    BY <2>1 DEF TypeOK, Work, Fault, Start, Drain, TakeMods, Resolve, PutBack, ResolveDone,
         DropUnaccepted, Settle, SyncDone, Retry, Finish, ResolveFails, SyncFails,
         RedisError, Crash
<1>2. owed' \subseteq owed
  BY DEF Work, Fault, Start, Drain, TakeMods, Resolve, PutBack, StoreHidden, ResolveDone,
     DropUnaccepted, Settle, SyncDone, Retry, Finish, ResolveFails, StoreHiddenFails,
     SyncFails, RedisError, Crash, Serve
<1>3. pushes' = pushes /\ faults' \in {faults, faults + 1}
  BY DEF Work, Fault, Start, Drain, TakeMods, Resolve, PutBack, StoreHidden, ResolveDone,
     DropUnaccepted, Settle, SyncDone, Retry, Finish, ResolveFails, StoreHiddenFails,
     SyncFails, RedisError, Crash
<1> QED
  BY <1>1, <1>2, <1>3

\* The types, and the conjunction that is inductive: every run goes through its
\* queues in order, and its accounts balance.
THEOREM Inductive == Spec => [](TypeOK /\ IInv)
<1>1. Init => TypeOK /\ IInv
  BY NoRunInOrder DEF Init, TypeOK, IInv
<1>2. TypeOK /\ IInv /\ [Next]_vars => TypeOK' /\ IInv'
  <2> SUFFICES ASSUME TypeOK, IInv, [Next]_vars PROVE TypeOK' /\ IInv'
    OBVIOUS
  <2>1. CASE UNCHANGED vars
    BY <2>1 DEF vars, TypeOK, IInv
  <2>2. ASSUME NEW m \in Members, Push(m) PROVE TypeOK' /\ IInv'
    <3>1. /\ KindOf[m] \in Kinds /\ {m} \in SUBSET Members
          /\ \A x \in {m} : KindOf[x] = KindOf[m]
          /\ queues' = [queues EXCEPT ![KindOf[m]] = @ \cup {m}]
      BY <2>2, QueueAssumption DEF Push
    <3>2. /\ queues' \in [Kinds -> SUBSET Members]
          /\ \A k \in Kinds : \A x \in queues'[k] : KindOf[x] = k
      BY <3>1, QueuePut
    <3> QED
      BY <2>2, <3>2 DEF Push, TypeOK, IInv
  <2>3. ASSUME NEW c \in Consumers, Work(c) \/ Fault(c) PROVE TypeOK' /\ IInv'
    <3>1. RunInv(run[c])
      BY DEF IInv
    <3>2. PICK r \in Runs : Put(c, r) /\ RunInv(r)
      BY <2>3, <3>1, StepInOrder
    <3>3. run' \in [Consumers -> Runs] /\ \A d \in Consumers : RunInv(run'[d])
      BY <3>2 DEF Put, TypeOK, IInv
    <3>4. TypeOK'
      BY <2>3, <3>1, <3>3, QueuesTyped, RestTyped DEF TypeOK
    <3> QED
      BY <3>3, <3>4 DEF IInv
  <2> QED
    BY <2>1, <2>2, <2>3 DEF Next
<1> QED
  BY <1>1, <1>2, PTL DEF Spec

\* The types; a queue holds ids of its own kind only.
THEOREM TypeCorrect == Spec => []TypeOK
BY Inductive, PTL

\* A run that put something back never reports that nothing failed.
THEOREM PutBackIsReported == Spec => []RequeuedIsFailed
<1>1. TypeOK /\ IInv => RequeuedIsFailed
  <2> SUFFICES ASSUME TypeOK, IInv, NEW c \in Consumers, run[c].stage = "done"
               PROVE  run[c].requeued <= Failed(c)
    BY DEF RequeuedIsFailed
  <2> DEFINE r == run[c]
  <2>1. r \in Runs /\ Accounted(r)
    BY DEF TypeOK, IInv, RunInv
  <2>2. r.unprocessed \in Nat /\ Cardinality(r.bad) \in Nat
    BY <2>1, RunTypes, ModsAreMembers, Counts
  <2> QED
    BY <2>1, <2>2 DEF Accounted, Failed
<1> QED
  BY <1>1, Inductive, PTL

\* As long as hidden files can be stored, whatever a run reports as failed is back
\* in a queue.
THEOREM ReportedIsPutBack ==
  ASSUME ~ StoreFails PROVE Spec => []FailedIsRequeued
<1>1. TypeOK /\ IInv => FailedIsRequeued
  <2> SUFFICES ASSUME TypeOK, IInv, NEW c \in Consumers, run[c].stage = "done"
               PROVE  run[c].requeued = Failed(c)
    BY DEF FailedIsRequeued
  <2> DEFINE r == run[c]
  <2>1. r \in Runs /\ Accounted(r)
    BY DEF TypeOK, IInv, RunInv
  <2>2. r.unprocessed \in Nat /\ Cardinality(r.bad) \in Nat
    BY <2>1, RunTypes, ModsAreMembers, Counts
  <2> QED
    BY <2>1, <2>2 DEF Accounted, Failed
<1> QED
  BY <1>1, Inductive, PTL

-----------------------------------------------------------------------------
(* No step of a run that goes on loses a request *)

LEMMA HoldsAfter ==
  ASSUME TypeOK, NEW c \in Consumers, NEW r, Put(c, r)
  PROVE  /\ Holds(c)' = Held(r)
         /\ \A d \in Consumers \ {c} : Holds(d)' = Holds(d)
BY DEF TypeOK, Put, Holds, Held

\* What stays with its run, or goes to its queue, is still pending.
LEMMA PendingStays ==
  ASSUME TypeOK, NEW c \in Consumers, NEW r, Put(c, r), NEW x, Pending(x),
         x \in Holds(c) => x \in Held(r) \/ Queued(x)',
         Queued(x) => Queued(x)' \/ x \in Held(r)
  PROVE  Pending(x)'
<1>1. Holds(c)' = Held(r) /\ \A d \in Consumers \ {c} : Holds(d)' = Holds(d)
  BY HoldsAfter
<1>2. CASE Queued(x)' \/ x \in Held(r)
  BY <1>1, <1>2 DEF Pending
<1>3. CASE \E d \in Consumers \ {c} : x \in Holds(d)
  BY <1>1, <1>3 DEF Pending
<1> QED
  BY <1>2, <1>3 DEF Pending

\* If all that was pending is pending, nothing more is lost.
LEMMA NothingSlips ==
  ASSUME TypeOK, stored \subseteq stored', \A m \in owed' : m \in owed \/ Pending(m)',
         \A x \in Members : Pending(x) => Pending(x)'
  PROVE  Lost' \subseteq Lost
<1> SUFFICES ASSUME NEW m \in owed', ~ Kept(m)' PROVE m \in owed /\ ~ Kept(m)
  BY DEF Lost
<1>1. m \in owed /\ ~ Pending(m)'
  BY DEF Kept
<1>2. m \in Members /\ (ModOf[m] # NoMod => ModOf[m] \in Members)
  BY <1>1, QueueAssumption DEF TypeOK
<1>3. ~ Pending(m)
  BY <1>1, <1>2
<1> QED
  BY <1>1, <1>2, <1>3 DEF Kept

LEMMA LostShrinks ==
  ASSUME \A m \in owed' : m \in owed /\ (Kept(m) => Kept(m)')
  PROVE  Lost' \subseteq Lost
BY DEF Lost

\* A request is not taken for served while somebody else may serve it.
LEMMA Unserved ==
  ASSUME TypeOK, NEW c \in Consumers, NEW r, Put(c, r), NEW S, Serve(c, S),
         queues' = queues, NEW m \in owed', m \in S
  PROVE  Pending(m)' \/ m \in Hidden \ stored
<1>1. Queued(m) \/ m \in Hidden \ stored \/ \E d \in Consumers \ {c} : m \in Holds(d)
  BY DEF Serve
<1>2. Queued(m) => Pending(m)'
  BY DEF Pending, Queued
<1> QED
  BY <1>1, <1>2, HoldsAfter DEF Pending

LEMMA ResolvedToMod ==
  ASSUME TypeOK, NEW m \in owed
  PROVE  m \in Members /\ (ModOf[m] # NoMod => ModOf[m] \in Mods)
BY QueueAssumption DEF TypeOK

\* Requests of the web API, and the steps of a run that move what it holds from
\* one place to another.
LEMMA PushLosesNothing ==
  ASSUME TypeOK, NEW m \in Members, Push(m)
  PROVE  Lost' \subseteq Lost
<1>1. \A x \in Members : Queued(x) => Queued(x)'
  BY QueueAssumption DEF Push, Queued, TypeOK
<1>2. \A x \in Members : Pending(x) => Pending(x)'
  BY <1>1 DEF Push, Pending, Holds
<1>3. Pending(m)'
  BY QueueAssumption DEF Push, Pending, Queued, TypeOK
<1> QED
  BY <1>2, <1>3, NothingSlips DEF Push

LEMMA DrainLosesNothing ==
  ASSUME TypeOK, NEW c \in Consumers, Drain(c)
  PROVE  Lost' \subseteq Lost
<1> DEFINE r == run[c]
<1>1. r \in Runs /\ r.kind \in Kinds /\ r.stage = "drain"
  BY RunTypes DEF TypeOK, Drain
<1>2. PICK b \in SUBSET queues[r.kind] :
        /\ queues' = [queues EXCEPT ![r.kind] = @ \ b]
        /\ LET next == IF Cardinality(b) = DrainBatch THEN <<"drain", r.kind>>
                                                      ELSE AfterDrain(r.kind)
           IN  Put(c, [r EXCEPT !.todo = @ \cup b, !.stage = next[1], !.kind = next[2]])
  BY DEF Drain
<1> DEFINE next == IF Cardinality(b) = DrainBatch THEN <<"drain", r.kind>>
                                                  ELSE AfterDrain(r.kind)
           new == [r EXCEPT !.todo = @ \cup b, !.stage = next[1], !.kind = next[2]]
<1>3. Put(c, new) /\ next[1] # "done"
  BY <1>1, <1>2, Order
<1> HIDE DEF next
<1>4. /\ new.todo = r.todo \cup b /\ new.hand = r.hand /\ new.targets = r.targets
      /\ new.bad = r.bad /\ new.stage = next[1]
  BY <1>1 DEF Runs
<1> HIDE DEF new
<1>5. Held(new) = Held(r) \cup b
  BY <1>1, <1>3, <1>4 DEF Held
<1>6. \A x : Queued(x) => Queued(x)' \/ x \in b
  BY <1>2, <1>1 DEF Queued, TypeOK
<1>7. \A x \in Members : Pending(x) => Pending(x)'
  BY <1>3, <1>5, <1>6, PendingStays DEF Holds
<1> QED
  BY <1>7, NothingSlips DEF Drain

LEMMA MoveLosesNothing ==
  ASSUME TypeOK, NEW c \in Consumers, NEW r, Put(c, r), stored' = stored, owed' = owed,
         \A x \in Members : Queued(x) => Queued(x)',
         \A x \in Holds(c) : x \in Held(r) \/ Queued(x)'
  PROVE  Lost' \subseteq Lost
BY NothingSlips, PendingStays

LEMMA MovesLoseNothing ==
  ASSUME TypeOK, NEW c \in Consumers, RunInv(run[c]),
         Start(c) \/ ResolveFails(c) \/ PutBack(c) \/ ResolveDone(c) \/ SyncFails(c)
           \/ SyncDone(c) \/ Retry(c) \/ Finish(c)
  PROVE  Lost' \subseteq Lost
<1> DEFINE r == run[c]
<1>1. r \in Runs /\ r.kind \in Kinds /\ InOrder(r)
      /\ \A m \in r.bad : m \in Members /\ KindOf[m] = 1
  BY RunTypes, ModsAreMembers DEF TypeOK, RunInv
<1>2. 1 \in Kinds
  BY KindTypes DEF Kinds
<1>3. CASE Start(c)
  <2>1. Held(NoRun) = {} /\ r = NoRun
    BY <1>3 DEF Held, NoRun, RunInv, Start
  <2> QED
    BY <1>3, <2>1, MoveLosesNothing DEF Start, Holds, Queued
<1>4. CASE ResolveFails(c)
  <2>1. PICK b \in SUBSET r.todo :
          Put(c, [r EXCEPT !.todo = @ \ b, !.hand = b, !.stage = "putBack"])
    BY <1>4 DEF ResolveFails
  <2> DEFINE new == [r EXCEPT !.todo = @ \ b, !.hand = b, !.stage = "putBack"]
  <2>2. Held(r) \subseteq Held(new)
    BY <1>1, <1>4 DEF Runs, Held, InOrder, ResolveFails
  <2> QED
    BY <1>4, <2>1, <2>2, MoveLosesNothing DEF ResolveFails, Holds, Queued
<1>5. CASE PutBack(c)
  <2> DEFINE n == r.requeued + Cardinality(r.hand)
             d == r.unprocessed + Cardinality(r.hand)
             new == [r EXCEPT !.hand = {}, !.stage = "resolve", !.requeued = n,
                              !.unprocessed = d]
  <2>1. Put(c, new) /\ queues' = [queues EXCEPT ![r.kind] = @ \cup r.hand]
    BY <1>5 DEF PutBack
  <2> HIDE DEF n, d
  <2>2. Held(r) \subseteq Held(new) \cup r.hand
    BY <1>1, <1>5 DEF Runs, Held, PutBack
  <2>3. \A m \in r.hand : Queued(m)'
    BY <1>1, <1>5, <2>1 DEF Queued, InOrder, PutBack, TypeOK
  <2>4. \A x \in Members : Queued(x) => Queued(x)'
    BY <1>1, <2>1 DEF Queued, TypeOK
  <2> QED
    BY <1>5, <2>1, <2>2, <2>3, <2>4, MoveLosesNothing DEF PutBack, Holds
<1>6. CASE ResolveDone(c)
  <2> DEFINE next == AfterResolve(r.kind)
             new == [r EXCEPT !.stage = next[1], !.kind = next[2]]
  <2>1. Put(c, new) /\ next[1] # "done" /\ r.stage = "resolve"
    BY <1>1, <1>6, Order DEF ResolveDone
  <2> HIDE DEF next
  <2>2. Held(r) \subseteq Held(new)
    BY <1>1, <2>1 DEF Runs, Held
  <2> QED
    BY <1>6, <2>1, <2>2, MoveLosesNothing DEF ResolveDone, Holds, Queued
<1>7. CASE SyncFails(c)
  <2>1. PICK m \in r.targets :
          Put(c, [r EXCEPT !.targets = @ \ {m}, !.bad = @ \cup {m}])
    BY <1>7 DEF SyncFails
  <2> DEFINE new == [r EXCEPT !.targets = @ \ {m}, !.bad = @ \cup {m}]
  <2>2. Held(r) \subseteq Held(new)
    BY <1>1, <1>7 DEF Runs, Held, SyncFails
  <2> QED
    BY <1>7, <2>1, <2>2, MoveLosesNothing DEF SyncFails, Holds, Queued
<1>8. CASE SyncDone(c)
  <2> DEFINE new == [r EXCEPT !.stage = "retry"]
  <2>1. Held(r) \subseteq Held(new)
    BY <1>1, <1>8 DEF Runs, Held, SyncDone
  <2> QED
    BY <1>8, <2>1, MoveLosesNothing DEF SyncDone, Holds, Queued
<1>9. CASE Retry(c)
  <2> DEFINE n == r.requeued + Cardinality(r.bad)
             new == [r EXCEPT !.stage = "done", !.requeued = n]
  <2>1. Put(c, new) /\ queues' = [queues EXCEPT ![1] = @ \cup r.bad]
    BY <1>9 DEF Retry
  <2> HIDE DEF n
  <2>2. Held(r) \subseteq Held(new) \cup r.bad
    BY <1>1 DEF Runs, Held
  <2>3. \A m \in r.bad : Queued(m)'
    BY <1>1, <1>2, <2>1 DEF Queued, TypeOK
  <2>4. \A x \in Members : Queued(x) => Queued(x)'
    BY <1>2, <2>1 DEF Queued, TypeOK
  <2> QED
    BY <1>9, <2>1, <2>2, <2>3, <2>4, MoveLosesNothing DEF Retry, Holds
<1>10. CASE Finish(c)
  <2>1. Held(r) = {}
    BY <1>1, <1>10 DEF Held, InOrder, Finish
  <2> QED
    BY <1>10, <2>1, MoveLosesNothing DEF Finish, Holds, Queued
<1> QED
  BY <1>3, <1>4, <1>5, <1>6, <1>7, <1>8, <1>9, <1>10

\* What is no id is served by being dropped, the mods are kept.
LEMMA TakeModsLosesNothing ==
  ASSUME TypeOK, NEW c \in Consumers, RunInv(run[c]), TakeMods(c)
  PROVE  Lost' \subseteq Lost
<1> DEFINE r == run[c]
           ids == OfKind(r.todo, 1)
           next == AfterResolve(1)
           new == [r EXCEPT !.todo = @ \ ids, !.targets = @ \cup (ids \cap Mods),
                            !.stage = next[1], !.kind = next[2]]
<1>1. /\ r \in Runs /\ r.stage = "resolve" /\ Put(c, new) /\ Serve(c, ids \ Mods)
      /\ queues' = queues /\ stored' = stored
  BY DEF TypeOK, TakeMods
<1>2. next[1] # "done"
  BY Order, KindTypes DEF Kinds
<1>3. ids \subseteq Members /\ \A m \in ids : KindOf[m] = 1
  BY <1>1, RunTypes DEF OfKind
<1> HIDE DEF next, ids
<1>4. Held(r) \ (ids \ Mods) \subseteq Held(new)
  BY <1>1, <1>2 DEF Held, Runs
<1> HIDE DEF new
<1>5. ASSUME NEW x, x \notin ids \ Mods, Pending(x) PROVE Pending(x)'
  BY <1>1, <1>4, <1>5, PendingStays DEF Holds, Queued
<1>6. ASSUME NEW m \in owed', Kept(m) PROVE m \in owed /\ Kept(m)'
  <2>1. m \in owed
    BY <1>1 DEF Serve
  <2>2. CASE m \in ids \ Mods
    <3>1. m \notin Hidden
      BY <1>3, <2>2, QueueAssumption
    <3> QED
      BY <1>1, <2>1, <2>2, <3>1, Unserved DEF Kept
  <2>3. CASE m \notin ids \ Mods
    BY <1>1, <1>5, <1>6, <2>1, <2>3, ResolvedToMod DEF Kept
  <2> QED
    BY <2>1, <2>2, <2>3
<1> QED
  BY <1>1, <1>6, LostShrinks DEF Serve

\* An answered batch lives on as its mods, and as the hidden files to be stored.
LEMMA ResolveLosesNothing ==
  ASSUME TypeOK, NEW c \in Consumers, RunInv(run[c]), Resolve(c)
  PROVE  Lost' \subseteq Lost
<1> DEFINE r == run[c]
<1>1. /\ r \in Runs /\ r.stage = "resolve" /\ r.kind # 1 /\ r.hand = {}
      /\ queues' = queues /\ stored' = stored
  BY DEF TypeOK, Resolve, RunInv, InOrder
<1>2. PICK b \in SUBSET r.todo :
        /\ IsChunk(b, OfKind(r.todo, r.kind))
        /\ Put(c, [r EXCEPT !.todo = @ \ b,
                            !.targets = @ \cup ({ModOf[m] : m \in b} \ {NoMod}),
                            !.hand = b \cap Hidden,
                            !.stage = IF b \cap Hidden = {} THEN "resolve" ELSE "store"])
        /\ Serve(c, {m \in b : ModOf[m] = NoMod})
  BY DEF Resolve
<1> DEFINE mods == {ModOf[m] : m \in b} \ {NoMod}
           hid == b \cap Hidden
           s == IF b \cap Hidden = {} THEN "resolve" ELSE "store"
           new == [r EXCEPT !.todo = @ \ b, !.targets = @ \cup mods, !.hand = hid,
                            !.stage = s]
<1>3. b \cap Mods = {} /\ s # "done"
  BY <1>1, <1>2, ModsAreMembers DEF IsChunk, OfKind
<1>4. \A m \in b : ModOf[m] # NoMod => ModOf[m] \in mods
  OBVIOUS
<1>5. \A m \in b : m \in Hidden => m \in hid
  OBVIOUS
<1> HIDE DEF mods, hid, s
<1>6. (Held(r) \ b) \cup mods \cup hid \subseteq Held(new)
  BY <1>1, <1>3 DEF Held, Runs
<1>7. Put(c, new)
  BY <1>2 DEF mods, hid, s
<1> HIDE DEF new
<1>8. ASSUME NEW x, x \notin b, Pending(x) PROVE Pending(x)'
  BY <1>1, <1>6, <1>7, <1>8, PendingStays DEF Holds, Queued
<1>9. \A x \in mods \cup hid : Pending(x)'
  BY <1>6, <1>7, HoldsAfter DEF Pending
<1>10. ASSUME NEW m \in owed', Kept(m) PROVE m \in owed /\ Kept(m)'
  <2>1. m \in owed
    BY <1>2 DEF Serve
  <2>2. CASE m \in b /\ ModOf[m] = NoMod
    <3>1. m \notin Hidden /\ m \in {x \in b : ModOf[x] = NoMod}
      BY <2>2, QueueAssumption
    <3> QED
      BY <1>1, <1>2, <1>7, <2>1, <3>1, Unserved DEF Kept
  <2>3. CASE m \in b /\ ModOf[m] # NoMod
    BY <1>1, <1>4, <1>5, <1>9, <2>1, <2>3 DEF Kept
  <2>4. CASE m \notin b
    BY <1>1, <1>3, <1>8, <1>10, <2>1, <2>4, ResolvedToMod DEF Kept
  <2> QED
    BY <2>1, <2>2, <2>3, <2>4
<1> QED
  BY <1>2, <1>10, LostShrinks DEF Serve

\* A hidden file that is stored needs its mod only.
LEMMA StoreLosesNothing ==
  ASSUME TypeOK, NEW c \in Consumers, RunInv(run[c]),
         StoreHidden(c) \/ StoreHiddenFails(c), run[c].hand \subseteq stored'
  PROVE  Lost' \subseteq Lost
<1> DEFINE r == run[c]
<1>1. /\ r \in Runs /\ r.stage = "store"
      /\ \A m \in r.hand : m \in Hidden /\ ModOf[m] \in r.targets
      /\ queues' = queues /\ stored \subseteq stored' /\ owed' = owed
  BY DEF TypeOK, StoreHidden, StoreHiddenFails, RunInv, InOrder
<1>2. PICK new : Put(c, new) /\ Held(r) \ r.hand \subseteq Held(new)
                 /\ r.targets \subseteq Held(new)
  <2>1. CASE StoreHidden(c)
    <3> DEFINE new == [r EXCEPT !.hand = {}, !.stage = "resolve"]
    <3>1. Held(r) \ r.hand \subseteq Held(new) /\ r.targets \subseteq Held(new)
      BY <1>1 DEF Held, Runs
    <3> QED
      BY <2>1, <3>1 DEF StoreHidden
  <2>2. CASE StoreHiddenFails(c)
    <3> DEFINE n == r.unprocessed + Cardinality(r.hand)
               new == [r EXCEPT !.hand = {}, !.stage = "resolve", !.unprocessed = n]
    <3>1. Put(c, new)
      BY <2>2 DEF StoreHiddenFails
    <3> HIDE DEF n
    <3>2. Held(r) \ r.hand \subseteq Held(new) /\ r.targets \subseteq Held(new)
      BY <1>1 DEF Held, Runs
    <3> QED
      BY <3>1, <3>2
  <2> QED
    BY <2>1, <2>2
<1>3. ASSUME NEW x, x \notin r.hand, Pending(x) PROVE Pending(x)'
  BY <1>1, <1>2, <1>3, PendingStays DEF Holds, Queued
<1>4. \A x \in r.targets : Pending(x)'
  BY <1>2, HoldsAfter DEF Pending
<1>5. ASSUME NEW m \in owed', Kept(m) PROVE m \in owed /\ Kept(m)'
  <2>1. m \in owed
    BY <1>1
  <2>2. CASE m \in r.hand
    <3>1. m \in stored' /\ ModOf[m] # NoMod /\ Pending(ModOf[m])'
      BY <1>1, <1>4, <2>2, QueueAssumption
    <3> QED
      BY <2>1, <3>1 DEF Kept
  <2>3. CASE m \notin r.hand
    <3>1. ModOf[m] # NoMod => ModOf[m] \notin r.hand
      BY <1>1, <2>1, ResolvedToMod, ModsAreMembers
    <3> QED
      BY <1>1, <1>3, <1>5, <2>1, <2>3, <3>1 DEF Kept
  <2> QED
    BY <2>2, <2>3
<1> QED
  BY <1>1, <1>5, LostShrinks

\* Mods that are done with are served to all who asked for them or their files,
\* files that are still to be stored excepted.
LEMMA ModsServed ==
  ASSUME TypeOK, NEW c \in Consumers, NEW new, NEW mods \in SUBSET Mods,
         Put(c, new), Serve(c, {m \in Members : ModOf[m] \in mods}),
         queues' = queues, stored' = stored, Holds(c) \ mods \subseteq Held(new)
  PROVE  Lost' \subseteq Lost
<1>1. ASSUME NEW x, x \notin mods, Pending(x) PROVE Pending(x)'
  BY <1>1, PendingStays DEF Queued
<1>2. ASSUME NEW m \in owed', Kept(m) PROVE m \in owed /\ Kept(m)'
  <2>1. m \in owed /\ m \in Members
    BY DEF Serve, TypeOK
  <2>2. CASE ModOf[m] \in mods
    <3>1. Pending(m)' \/ m \in Hidden \ stored
      BY <2>1, <2>2, Unserved
    <3>2. CASE m \in Hidden \ stored
      BY <1>1, <1>2, <2>1, <3>2, ModsAreMembers DEF Kept
    <3> QED
      BY <2>1, <3>1, <3>2 DEF Kept
  <2>3. CASE ModOf[m] \notin mods
    <3>1. m \notin mods
      BY <2>3, ModsAreMembers
    <3> QED
      BY <1>1, <1>2, <2>1, <2>3, <3>1 DEF Kept
  <2> QED
    BY <2>1, <2>2, <2>3
<1> QED
  BY <1>2, LostShrinks DEF Serve

LEMMA SyncLosesNothing ==
  ASSUME TypeOK, NEW c \in Consumers, DropUnaccepted(c) \/ Settle(c)
  PROVE  Lost' \subseteq Lost
<1> DEFINE r == run[c]
<1>1. r \in Runs /\ r.stage = "sync" /\ r.targets \subseteq Mods
  BY RunTypes DEF TypeOK, DropUnaccepted, Settle
<1>2. CASE DropUnaccepted(c)
  <2> DEFINE new == [r EXCEPT !.targets = @ \cap Accepted]
             mods == r.targets \ Accepted
  <2>1. Holds(c) \ mods \subseteq Held(new) /\ mods \in SUBSET Mods
    BY <1>1 DEF Holds, Held, Runs
  <2> QED
    BY <1>2, <2>1, ModsServed DEF DropUnaccepted
<1>3. CASE Settle(c)
  <2>1. PICK m \in r.targets :
          /\ Put(c, [r EXCEPT !.targets = @ \ {m}, !.ok = @ \cup {m}])
          /\ Serve(c, {x \in Members : ModOf[x] = m})
    BY <1>3 DEF Settle
  <2> DEFINE new == [r EXCEPT !.targets = @ \ {m}, !.ok = @ \cup {m}]
  <2>2. Holds(c) \ {m} \subseteq Held(new) /\ {m} \in SUBSET Mods
    BY <1>1 DEF Holds, Held, Runs
  <2>3. {x \in Members : ModOf[x] = m} = {x \in Members : ModOf[x] \in {m}}
    OBVIOUS
  <2>4. Serve(c, {x \in Members : ModOf[x] \in {m}})
    BY <2>1, <2>3
  <2> QED
    BY <1>3, <2>1, <2>2, <2>4, ModsServed DEF Settle
<1> QED
  BY <1>2, <1>3

\* Only three kinds of step can lose a request, and they are faults.
LEMMA StepLosesNothing ==
  ASSUME TypeOK, NEW c \in Consumers, RunInv(run[c]), Work(c) \/ Fault(c)
  PROVE  RedisError(c) \/ Crash(c) \/ StoreHiddenFails(c) \/ Lost' \subseteq Lost
<1>1. StoreHidden(c) => run[c].hand \subseteq stored'
  BY DEF StoreHidden
<1> QED
  BY <1>1, DrainLosesNothing, MovesLoseNothing, TakeModsLosesNothing, ResolveLosesNothing,
     StoreLosesNothing, SyncLosesNothing DEF Work, Fault

LEMMA StutterLosesNothing ==
  ASSUME UNCHANGED vars PROVE Lost' \subseteq Lost
BY DEF vars, Lost, Kept, Pending, Queued, Holds

\* A request is lost only where a run is cut short by Redis or by the end of its
\* process, or could not store a hidden file; whatever else happens to it and to
\* other runs.
THEOREM LostToFaults == Spec => OnlyFaultsLose
<1>1. ASSUME TypeOK, IInv, [Next]_vars
      PROVE  CutShort \/ UnstoredHidden \/ Lost' \subseteq Lost
  <2>1. ASSUME NEW c \in Consumers, Work(c) \/ Fault(c)
        PROVE  CutShort \/ UnstoredHidden \/ Lost' \subseteq Lost
    <3>1. run[c] \in Runs /\ RunInv(run[c]) /\ run \in [Consumers -> Runs]
      BY <1>1 DEF TypeOK, IInv
    <3>2. CASE RedisError(c)
      BY <3>1, <3>2 DEF RedisError, Put, CutShort
    <3>3. CASE Crash(c)
      <4>1. CASE run[c].stage = "done"
        <5>1. Held(run[c]) = {}
          BY <3>1, <4>1 DEF Held, RunInv, InOrder
        <5> QED
          BY <1>1, <3>3, <5>1, MoveLosesNothing DEF Crash, Holds, Queued
      <4>2. CASE run[c].stage # "done"
        BY <3>1, <3>3, <4>2 DEF Crash, Put, CutShort
      <4> QED
        BY <4>1, <4>2
    <3>4. CASE StoreHiddenFails(c)
      <4>1. CASE run[c].hand \subseteq stored'
        BY <1>1, <3>1, <3>4, <4>1, StoreLosesNothing
      <4>2. CASE ~ run[c].hand \subseteq stored'
        <5> DEFINE n == run[c].unprocessed + Cardinality(run[c].hand)
        <5>1. /\ run[c].stage = "store"
              /\ run' = [run EXCEPT ![c] =
                   [run[c] EXCEPT !.hand = {}, !.stage = "resolve", !.unprocessed = n]]
          BY <3>4 DEF StoreHiddenFails, Put
        <5> HIDE DEF n
        <5>2. run'[c].stage = "resolve"
          BY <3>1, <5>1 DEF Runs
        <5> QED
          BY <4>2, <5>1, <5>2 DEF UnstoredHidden
      <4> QED
        BY <4>1, <4>2
    <3> QED
      BY <1>1, <2>1, <3>1, <3>2, <3>3, <3>4, StepLosesNothing
  <2> QED
    BY <1>1, <2>1, PushLosesNothing, StutterLosesNothing DEF Next
<1>2. TypeOK /\ IInv /\ [Next]_vars => [CutShort \/ UnstoredHidden \/ Lost' \subseteq Lost]_vars
  BY <1>1
<1> QED
  BY <1>2, Inductive, PTL DEF Spec, OnlyFaultsLose

\* Where Redis and MongoDB answer and no process dies, no request is ever lost,
\* however many requests to upstream fail.
THEOREM NothingIsLost ==
  ASSUME ~ RedisFails, ~ StoreFails, ~ Crashes PROVE Spec => []NoneLost
<1>1. Init => NoneLost
  BY DEF Init, NoneLost
<1>2. TypeOK /\ IInv /\ NoneLost /\ [Next]_vars => NoneLost'
  <2> SUFFICES ASSUME TypeOK, IInv, NoneLost, [Next]_vars PROVE NoneLost'
    OBVIOUS
  <2>1. Lost' \subseteq Lost
    <3>1. ASSUME NEW c \in Consumers, Work(c) \/ Fault(c) PROVE Lost' \subseteq Lost
      BY <3>1, StepLosesNothing DEF IInv, RedisError, Crash, StoreHiddenFails
    <3> QED
      BY <3>1, PushLosesNothing, StutterLosesNothing DEF Next
  <2>2. Lost = {}
    BY DEF Lost, NoneLost
  <2> QED
    BY <2>1, <2>2 DEF Lost, NoneLost
<1> QED
  BY <1>1, <1>2, Inductive, PTL DEF Spec

=============================================================================
