------------------------- MODULE DictRefresh_proofs -------------------------
(***************************************************************************)
(* Proofs about DictRefresh, for any number of runs, tables and documents: *)
(* its types, its inductive invariant, that a table once complete never    *)
(* ceases to hold a complete listing, that a refresh no other overlapped   *)
(* leaves its own generation only, and that the module implements Table.   *)
(***************************************************************************)
EXTENDS DictRefresh, TLAPS

\* A run that has deleted what it had to goes on to the next table, unless it was
\* the last.
LEMMA NextTable ==
  ASSUME TypeOK, NEW r \in Runs, DeleteDone(r), table[r] # LastTable
  PROVE  /\ stage' = [stage EXCEPT ![r] = "insert"]
         /\ table' = [table EXCEPT ![r] = @ + 1]
         /\ todo' = [todo EXCEPT ![r] = Generation(r, table[r] + 1)]
         /\ table[r] + 1 \in Tables
<1>1. table[r] < LastTable
  BY DEF DeleteDone
<1>2. table[r] + 1 \in Tables
  BY <1>1, RefreshAssumption DEF TypeOK, Tables
<1> QED
  BY <1>2 DEF DeleteDone

\* At the last table it is done, and stays where it is.
LEMMA LastTableDone ==
  ASSUME TypeOK, NEW r \in Runs, DeleteDone(r), table[r] = LastTable
  PROVE  stage' = [stage EXCEPT ![r] = "done"] /\ table' = table /\ todo' = todo
<1>1. ~(table[r] < LastTable)
  BY RefreshAssumption
<1> QED
  BY <1>1 DEF DeleteDone

\* The types: no run leaves the stages, the tables or the documents there are.
THEOREM TypeCorrect == Spec => []TypeOK
<1>1. Init => TypeOK
  BY RefreshAssumption DEF Init, TypeOK, Stages, Docs, Tables
<1>2. TypeOK /\ [Next]_vars => TypeOK'
  <2> SUFFICES ASSUME TypeOK, [Next]_vars PROVE TypeOK'
    OBVIOUS
  <2>1. CASE UNCHANGED vars
    BY <2>1 DEF vars, TypeOK
  <2>2. CASE Next
    <3> PICK r \in Runs : Step(r)
      BY <2>2 DEF Next
    <3>1. CASE Begin(r)
      BY <3>1 DEF Begin, TypeOK, Stages, Active
    <3>2. CASE Fetch(r)
      <4> PICK l \in [Tables -> SUBSET Items] :
            /\ listing' = [listing EXCEPT ![r] = l]
            /\ todo' = [todo EXCEPT ![r] = {r} \X l[1]]
        BY <3>2 DEF Fetch
      <4> 1 \in Tables
        BY RefreshAssumption DEF Tables
      <4> {r} \X l[1] \in SUBSET Docs
        BY DEF Docs
      <4> QED
        BY <3>2 DEF Fetch, TypeOK, Stages
    <3>3. CASE Refuse(r)
      BY <3>3 DEF Refuse, TypeOK, Stages
    <3>4. CASE Insert(r)
      BY <3>4 DEF Insert, TypeOK
    <3>5. CASE BeginDelete(r)
      BY <3>5 DEF BeginDelete, Older, TypeOK, Stages
    <3>6. CASE Delete(r)
      BY <3>6 DEF Delete, TypeOK
    <3>7. CASE DeleteDone(r)
      <4>1. CASE table[r] # LastTable
        <5>1. Generation(r, table[r] + 1) \in SUBSET Docs
          BY <3>7, <4>1, NextTable DEF Generation, TypeOK, Docs
        <5>2. UNCHANGED <<now, stamp, listing, docs, alone>>
          BY <3>7 DEF DeleteDone
        <5>3. stage' \in [Runs -> Stages]
          BY <3>7, <4>1, NextTable DEF TypeOK, Stages
        <5>4. table' \in [Runs -> Tables]
          BY <3>7, <4>1, NextTable DEF TypeOK
        <5>5. todo' \in [Runs -> SUBSET Docs]
          BY <3>7, <4>1, <5>1, NextTable DEF TypeOK
        <5> QED
          BY <5>2, <5>3, <5>4, <5>5 DEF TypeOK
      <4>2. CASE table[r] = LastTable
        <5>1. UNCHANGED <<now, stamp, listing, docs, alone>>
          BY <3>7 DEF DeleteDone
        <5> QED
          BY <3>7, <4>2, <5>1, LastTableDone DEF TypeOK, Stages
      <4> QED
        BY <4>1, <4>2
    <3>8. CASE Abandon(r)
      BY <3>8 DEF Abandon, TypeOK, Stages
    <3> QED
      BY <3>1, <3>2, <3>3, <3>4, <3>5, <3>6, <3>7, <3>8 DEF Step
  <2> QED
    BY <2>1, <2>2
<1> QED
  BY <1>1, <1>2, PTL DEF Spec

-----------------------------------------------------------------------------
(* What a step takes away *)

\* A listing that is complete in its table stays complete in a step that leaves
\* the listing alone and takes no document from the table.
LEMMA CompleteStays ==
  ASSUME NEW q \in Runs, NEW t \in Tables, Complete(q, t),
         listing'[q][t] = listing[q][t], docs[t] \subseteq docs'[t]
  PROVE  Complete(q, t)'
BY DEF Complete, Generation

\* No step but Delete takes a document away.
LEMMA OnlyDeleteTakes ==
  ASSUME TypeOK, NEW r \in Runs, Step(r), ~Delete(r), NEW t \in Tables
  PROVE  docs[t] \subseteq docs'[t]
<1>1. CASE Insert(r)
  BY <1>1 DEF Insert, TypeOK
<1> QED
  BY <1>1 DEF Step, Begin, Fetch, Refuse, BeginDelete, DeleteDone, Abandon

\* A listing that is complete at a table belongs to a run past its fetch, so no
\* step changes it or its timestamp.
LEMMA WitnessStays ==
  ASSUME TypeOK, RunsInv, NEW r \in Runs, Step(r),
         NEW q \in Runs, NEW t \in Tables, Complete(q, t)
  PROVE  listing'[q] = listing[q] /\ stamp'[q] = stamp[q]
<1>1. CASE Fetch(r)
  <2> q # r
    BY <1>1 DEF Fetch, RunsInv, Complete
  <2> QED
    BY <1>1 DEF Fetch, TypeOK
<1> QED
  BY <1>1 DEF Step, Begin, Refuse, Insert, BeginDelete, Delete, DeleteDone, Abandon

\* A run that deletes finds a complete listing in its table that is not older
\* than the run: its own, or the one that supersedes it.
LEMMA DeleterIsCovered ==
  ASSUME TypeOK, RunsInv, NEW r \in Runs, stage[r] = "delete"
  PROVE  \E q \in Runs : Complete(q, table[r]) /\ stamp[q] >= stamp[r]
<1>1. Inserted(r) = Generation(r, table[r])
  BY DEF Inserted
<1>2. CASE Inserted(r) \subseteq docs[table[r]]
  <2> Complete(r, table[r])
    BY <1>1, <1>2 DEF Complete, RunsInv
  <2> QED
    BY DEF TypeOK
<1>3. CASE Superseded(r, table[r])
  BY <1>3 DEF Superseded, TypeOK
<1> QED
  BY <1>2, <1>3 DEF RunsInv, InsertedStays

\* What Delete takes is older than the run, so it belongs to no listing that is
\* not; and no other table changes.
LEMMA DeleteTakesOlder ==
  ASSUME TypeOK, RunsInv, NEW r \in Runs, Delete(r)
  PROVE  /\ \E d \in Docs :
              /\ stamp[d[1]] < stamp[r]
              /\ docs'[table[r]] = docs[table[r]] \ {d}
         /\ \A t \in Tables : t # table[r] => docs'[t] = docs[t]
         /\ \A q \in Runs : Complete(q, table[r]) /\ stamp[q] >= stamp[r]
                              => Complete(q, table[r])'
<1> PICK d \in Older(r, table[r]) : docs' = [docs EXCEPT ![table[r]] = @ \ {d}]
  BY DEF Delete
<1>1. d \in Docs /\ stamp[d[1]] < stamp[r]
  BY DEF Older, TypeOK
<1>2. docs'[table[r]] = docs[table[r]] \ {d}
  BY DEF TypeOK
<1>3. \A t \in Tables : t # table[r] => docs'[t] = docs[t]
  BY DEF TypeOK
<1>4. ASSUME NEW q \in Runs, Complete(q, table[r]), stamp[q] >= stamp[r]
      PROVE  Complete(q, table[r])'
  <2>1. d[1] # q
    BY <1>1, <1>4 DEF TypeOK, Docs
  <2>2. d \notin Generation(q, table[r])
    BY <2>1 DEF Generation
  <2>3. listing' = listing /\ table' = table
    BY DEF Delete
  <2> QED
    BY <1>2, <1>4, <2>2, <2>3 DEF Complete, Generation
<1> QED
  BY <1>1, <1>2, <1>3, <1>4

-----------------------------------------------------------------------------
(* A table once complete *)

\* A table that holds a complete listing holds one after any step of a run.
LEMMA StepKeepsWhole ==
  ASSUME TypeOK, RunsInv, NEW r \in Runs, Step(r), NEW t \in Tables, Whole(t)
  PROVE  Whole(t)'
<1> PICK q \in Runs : Complete(q, t)
  BY DEF Whole
<1>1. CASE docs[t] \subseteq docs'[t]
  <2>1. Complete(q, t)'
    BY <1>1, WitnessStays, CompleteStays
  <2> QED
    BY <2>1 DEF Whole
<1>2. CASE Delete(r) /\ t = table[r]
  <2>1. stage[r] = "delete"
    BY <1>2 DEF Delete
  <2>2. PICK p \in Runs : Complete(p, table[r]) /\ stamp[p] >= stamp[r]
    BY <2>1, DeleterIsCovered
  <2>3. Complete(p, table[r])'
    BY <1>2, <2>2, DeleteTakesOlder
  <2>4. table' = table
    BY <1>2 DEF Delete
  <2> QED
    BY <1>2, <2>3, <2>4 DEF Whole, Complete, Generation
<1> QED
  BY <1>1, <1>2, OnlyDeleteTakes, DeleteTakesOlder

\* A superseded run stays superseded in every step that takes nothing of the table.
LEMMA SupersededStays ==
  ASSUME TypeOK, RunsInv, NEW r \in Runs, Step(r), NEW x \in Runs, NEW t \in Tables,
         Superseded(x, t), stamp'[x] = stamp[x], docs[t] \subseteq docs'[t]
  PROVE  Superseded(x, t)'
<1> PICK q \in Runs : Complete(q, t) /\ stamp[q] > stamp[x]
  BY DEF Superseded
<1>1. Complete(q, t)' /\ stamp'[q] = stamp[q]
  BY WitnessStays, CompleteStays
<1> QED
  BY <1>1 DEF Superseded

\* What a deleting run takes from another one's listing leaves that superseded.
LEMMA DeleteKeepsInserted ==
  ASSUME TypeOK, RunsInv, NEW r \in Runs, Delete(r), NEW x \in Runs, InsertedStays(x)
  PROVE  InsertedStays(x)'
<1> SUFFICES ASSUME stage[x] \in {"insert", "delete"}
             PROVE  \/ Inserted(x) \subseteq docs'[table[x]]
                    \/ Superseded(x, table[x])'
  BY DEF InsertedStays, Inserted, Generation, Delete
<1> DEFINE t == table[x]
<1>1. t \in Tables
  BY DEF TypeOK
<1>2. CASE t # table[r]
  <2>1. docs'[t] = docs[t]
    BY <1>1, <1>2, DeleteTakesOlder
  <2>2. stamp' = stamp /\ table' = table /\ Step(r)
    BY DEF Delete, Step
  <2>3. Superseded(x, t) => Superseded(x, t)'
    BY <1>1, <2>1, <2>2, SupersededStays DEF Superseded, Complete, Generation, Delete
  <2> QED
    BY <2>1, <2>2, <2>3 DEF InsertedStays
<1>3. CASE t = table[r] /\ stamp[x] < stamp[r]
  <2>1. PICK q \in Runs : Complete(q, table[r]) /\ stamp[q] >= stamp[r]
    BY DeleterIsCovered DEF Delete
  <2>2. Complete(q, table[r])' /\ stamp' = stamp /\ table' = table
    BY <2>1, DeleteTakesOlder DEF Delete
  <2>3. stamp[q] > stamp[x]
    BY <1>3, <2>1 DEF TypeOK
  <2> QED
    BY <1>3, <2>2, <2>3 DEF Superseded
<1>4. CASE t = table[r] /\ stamp[x] >= stamp[r]
  <2> PICK d \in Docs : stamp[d[1]] < stamp[r] /\ docs'[table[r]] = docs[table[r]] \ {d}
    BY DeleteTakesOlder
  <2>1. CASE Inserted(x) \subseteq docs[t]
    <3>1. d[1] # x
      BY <1>4 DEF TypeOK, Docs
    <3>2. d \notin Inserted(x)
      BY <3>1 DEF Inserted, Generation
    <3> QED
      BY <1>4, <2>1, <3>2
  <2>2. CASE Superseded(x, t)
    <3>1. PICK w \in Runs : Complete(w, t) /\ stamp[w] > stamp[x]
      BY <2>2 DEF Superseded
    <3>2. stamp[w] >= stamp[r]
      BY <1>4, <3>1 DEF TypeOK
    <3>3. Complete(w, table[r])' /\ stamp' = stamp /\ table' = table
      BY <1>4, <3>1, <3>2, DeleteTakesOlder DEF Delete
    <3> QED
      BY <1>4, <3>1, <3>3 DEF Superseded
  <2> QED
    BY <2>1, <2>2 DEF InsertedStays
<1> QED
  BY <1>2, <1>3, <1>4 DEF TypeOK

-----------------------------------------------------------------------------
(* The invariant and what follows from it *)

\* Of a run still idle or fetching the invariant claims that it is at the first
\* table and has no listing, of a deleting one that its listing is not empty.
LEMMA StagesStay ==
  ASSUME TypeOK, RunsInv, NEW r \in Runs, Step(r), NEW x \in Runs
  PROVE  /\ stage'[x] \in {"idle", "fetch"} =>
              table'[x] = 1 /\ \A t \in Tables : listing'[x][t] = {}
         /\ stage'[x] = "delete" => listing'[x][table'[x]] # {}
<1>1. CASE Begin(r)
  BY <1>1 DEF Begin, RunsInv, TypeOK
<1>2. CASE Fetch(r)
  BY <1>2 DEF Fetch, RunsInv, TypeOK
<1>3. CASE Refuse(r) \/ Abandon(r)
  BY <1>3 DEF Refuse, Abandon, RunsInv, TypeOK
<1>4. CASE Insert(r) \/ Delete(r)
  BY <1>4 DEF Insert, Delete, RunsInv, TypeOK
<1>5. CASE BeginDelete(r)
  BY <1>5 DEF BeginDelete, RunsInv, TypeOK
<1>6. CASE DeleteDone(r)
  <2>1. stage'[r] \in {"insert", "done"} /\ listing' = listing
    BY <1>6, NextTable, LastTableDone DEF DeleteDone, TypeOK
  <2>2. x # r => stage'[x] = stage[x] /\ table'[x] = table[x]
    BY <1>6 DEF DeleteDone, TypeOK
  <2> QED
    BY <2>1, <2>2 DEF RunsInv
<1> QED
  BY <1>1, <1>2, <1>3, <1>4, <1>5, <1>6 DEF Step

\* A run inserts its own documents, and nobody has inserted them before it has
\* fetched them.
LEMMA DocsAreFetched ==
  ASSUME TypeOK, RunsInv, NEW r \in Runs, Step(r), NEW x \in Runs
  PROVE  /\ stage'[x] \in {"idle", "fetch"} =>
              \A t \in Tables : \A d \in docs'[t] : d[1] # x
         /\ stage'[x] = "insert" => todo'[x] \subseteq Generation(x, table[x])'
<1>1. CASE Begin(r) \/ Refuse(r) \/ Abandon(r)
  BY <1>1 DEF Begin, Refuse, Abandon, RunsInv, TypeOK, Generation
<1>2. CASE Fetch(r)
  <2>1. table[r] = 1
    BY <1>2 DEF Fetch, RunsInv
  <2>2. /\ stage' = [stage EXCEPT ![r] = "insert"] /\ docs' = docs /\ table' = table
        /\ todo'[r] = {r} \X listing'[r][1]
        /\ x # r => listing'[x] = listing[x] /\ todo'[x] = todo[x]
    BY <1>2 DEF Fetch, TypeOK
  <2>3. CASE x = r
    BY <2>1, <2>2, <2>3 DEF TypeOK, Generation
  <2>4. CASE x # r
    BY <2>2, <2>4 DEF RunsInv, TypeOK, Generation
  <2> QED
    BY <2>3, <2>4
<1>3. CASE Insert(r)
  <2>1. PICK d \in todo[r] : /\ docs' = [docs EXCEPT ![table[r]] = @ \cup {d}]
                             /\ todo' = [todo EXCEPT ![r] = @ \ {d}]
    BY <1>3 DEF Insert
  <2>2. d[1] = r
    BY <1>3, <2>1 DEF Insert, RunsInv, Generation
  <2>3. stage[r] = "insert" /\ UNCHANGED <<stage, table, listing>>
    BY <1>3 DEF Insert
  <2>4. \A t \in Tables : docs'[t] \subseteq docs[t] \cup {d}
    BY <2>1 DEF TypeOK
  <2>5. todo'[x] \subseteq todo[x]
    BY <2>1 DEF TypeOK
  <2> QED
    BY <2>2, <2>3, <2>4, <2>5 DEF RunsInv, Generation
<1>4. CASE BeginDelete(r)
  BY <1>4 DEF BeginDelete, RunsInv, TypeOK, Generation
<1>5. CASE Delete(r)
  <2>1. \A t \in Tables : docs'[t] \subseteq docs[t]
    BY <1>5 DEF Delete, TypeOK
  <2> QED
    BY <1>5, <2>1 DEF Delete, RunsInv, Generation
<1>6. CASE DeleteDone(r)
  <2>1. /\ stage'[r] \in {"insert", "done"} /\ listing' = listing /\ docs' = docs
        /\ stage'[r] = "insert" => todo'[r] = Generation(r, table'[r])
    <3>1. CASE table[r] # LastTable
      BY <1>6, <3>1, NextTable DEF DeleteDone, TypeOK
    <3>2. CASE table[r] = LastTable
      BY <1>6, <3>2, LastTableDone DEF DeleteDone, TypeOK
    <3> QED
      BY <3>1, <3>2
  <2>2. x # r => stage'[x] = stage[x] /\ table'[x] = table[x] /\ todo'[x] = todo[x]
    BY <1>6 DEF DeleteDone, TypeOK
  <2> QED
    BY <2>1, <2>2 DEF RunsInv, Generation
<1> QED
  BY <1>1, <1>2, <1>3, <1>4, <1>5, <1>6 DEF Step

\* A step of one run keeps what the others have inserted or that it is superseded.
LEMMA OthersStay ==
  ASSUME TypeOK, RunsInv, NEW r \in Runs, Step(r), ~Delete(r), NEW x \in Runs, x # r
  PROVE  InsertedStays(x)'
<1>1. /\ stage'[x] = stage[x] /\ table'[x] = table[x] /\ stamp'[x] = stamp[x]
      /\ listing'[x] = listing[x] /\ todo'[x] = todo[x]
  BY DEF Step, Begin, Fetch, Refuse, Insert, BeginDelete, DeleteDone, Abandon, TypeOK
<1>2. table[x] \in Tables /\ docs[table[x]] \subseteq docs'[table[x]]
  BY OnlyDeleteTakes DEF TypeOK
<1>3. Inserted(x)' = Inserted(x)
  BY <1>1 DEF Inserted, Generation
<1>4. Superseded(x, table[x]) => Superseded(x, table[x])'
  BY <1>1, <1>2, SupersededStays
<1>5. InsertedStays(x)
  BY DEF RunsInv
<1> QED
  BY <1>1, <1>2, <1>3, <1>4, <1>5 DEF InsertedStays, Superseded, Complete, Generation

\* The step of a run itself: what it inserts stays, and it has inserted nothing
\* when it comes to a table.
LEMMA OwnStays ==
  ASSUME TypeOK, RunsInv, NEW r \in Runs, Step(r), ~Delete(r)
  PROVE  InsertedStays(r)'
<1>1. CASE Begin(r) \/ Refuse(r) \/ Abandon(r)
  BY <1>1 DEF Begin, Refuse, Abandon, InsertedStays, TypeOK
<1>2. CASE Fetch(r)
  <2>1. table'[r] = 1 /\ stage'[r] = "insert" /\ todo'[r] = {r} \X listing'[r][1]
    BY <1>2 DEF Fetch, RunsInv, TypeOK
  <2>2. Inserted(r)' = {}
    BY <2>1 DEF Inserted, Generation
  <2> QED
    BY <2>2 DEF InsertedStays
<1>3. CASE Insert(r)
  <2> PICK d \in todo[r] :
        /\ docs' = [docs EXCEPT ![table[r]] = @ \cup {d}]
        /\ todo' = [todo EXCEPT ![r] = @ \ {d}]
    BY <1>3 DEF Insert
  <2>1. /\ stage[r] = "insert" /\ stage' = stage /\ table' = table
        /\ stamp' = stamp /\ listing' = listing
    BY <1>3 DEF Insert
  <2>2. table[r] \in Tables /\ docs'[table[r]] = docs[table[r]] \cup {d}
    BY DEF TypeOK
  <2>3. todo'[r] = todo[r] \ {d}
    BY DEF TypeOK
  <2>4. Inserted(r)' \subseteq Inserted(r) \cup {d}
    BY <2>1, <2>3 DEF Inserted, Generation
  <2>5. CASE Inserted(r) \subseteq docs[table[r]]
    BY <2>1, <2>2, <2>4, <2>5 DEF InsertedStays
  <2>6. CASE Superseded(r, table[r])
    <3>1. \E q \in Runs : Complete(q, table[r])' /\ stamp[q] > stamp[r]
      BY <2>1, <2>2, <2>6, CompleteStays DEF Superseded
    <3> QED
      BY <2>1, <3>1 DEF InsertedStays, Superseded, Complete, Generation
  <2> QED
    BY <2>1, <2>5, <2>6 DEF RunsInv, InsertedStays
<1>4. CASE BeginDelete(r)
  <2>1. /\ stage[r] = "insert" /\ todo[r] = {} /\ stage'[r] = "delete"
        /\ table' = table /\ stamp' = stamp /\ listing' = listing /\ docs' = docs
    BY <1>4 DEF BeginDelete, TypeOK
  <2>2. Inserted(r)' = Inserted(r)
    BY <2>1 DEF Inserted, Generation
  <2>3. Superseded(r, table[r]) => Superseded(r, table[r])'
    BY <2>1 DEF Superseded, Complete, Generation
  <2> QED
    BY <2>1, <2>2, <2>3 DEF RunsInv, InsertedStays
<1>5. CASE DeleteDone(r)
  <2>1. CASE table[r] # LastTable
    <3>1. /\ stage'[r] = "insert" /\ table'[r] = table[r] + 1
          /\ todo'[r] = Generation(r, table[r] + 1)
      BY <1>5, <2>1, NextTable DEF TypeOK
    <3>2. listing' = listing
      BY <1>5 DEF DeleteDone
    <3>3. Inserted(r)' = {}
      BY <3>1, <3>2 DEF Inserted, Generation
    <3> QED
      BY <3>3 DEF InsertedStays
  <2>2. CASE table[r] = LastTable
    BY <1>5, <2>2, LastTableDone DEF InsertedStays, TypeOK
  <2> QED
    BY <2>1, <2>2
<1> QED
  BY <1>1, <1>2, <1>3, <1>4, <1>5 DEF Step

\* What a run has put into its table is still there, or a later listing is, for
\* any number of runs that overlap or fail.
LEMMA Covered == Spec => []RunsInv
<1>1. Init => RunsInv
  BY DEF Init, RunsInv, InsertedStays
<1>2. TypeOK /\ RunsInv /\ [Next]_vars => RunsInv'
  <2> SUFFICES ASSUME TypeOK, RunsInv, [Next]_vars PROVE RunsInv'
    OBVIOUS
  <2>1. CASE UNCHANGED vars
    BY <2>1 DEF vars, RunsInv, InsertedStays, Inserted, Superseded, Complete, Generation
  <2>2. CASE Next
    <3> PICK r \in Runs : Step(r)
      BY <2>2 DEF Next
    <3>1. ASSUME NEW x \in Runs PROVE InsertedStays(x)'
      <4>1. CASE Delete(r)
        BY <4>1, DeleteKeepsInserted DEF RunsInv
      <4>2. CASE ~Delete(r)
        BY <4>2, OthersStay, OwnStays
      <4> QED
        BY <4>1, <4>2
    <3> QED
      BY <3>1, StagesStay, DocsAreFetched DEF RunsInv
  <2> QED
    BY <2>1, <2>2
<1> QED
  BY <1>1, <1>2, TypeCorrect, PTL DEF Spec

\* Readers never see a table without a complete listing once it has had one, for
\* any number of runs that overlap or fail.
THEOREM NeverHalfATable == Spec => StaysWhole
<1>1. TypeOK /\ RunsInv /\ [Next]_vars => [\A t \in Tables : Whole(t) => Whole(t)']_vars
  BY StepKeepsWhole DEF Next
<1> QED
  BY <1>1, TypeCorrect, Covered, PTL DEF Spec, StaysWhole

-----------------------------------------------------------------------------
(* A run that no other overlaps *)

\* No timestamp is in the future.
LEMMA StampsPast ==
  ASSUME TypeOK, AloneInv, NEW r \in Runs, Step(r), NEW q \in Runs
  PROVE  stamp'[q] <= now'
<1>1. now \in Nat /\ stamp \in [Runs -> Nat] /\ stamp[q] <= now
  BY DEF TypeOK, AloneInv
<1>2. CASE Begin(r)
  BY <1>1, <1>2 DEF Begin
<1>3. CASE Fetch(r)
  BY <1>1, <1>3 DEF Fetch
<1> QED
  BY <1>1, <1>2, <1>3 DEF Step, Refuse, Insert, BeginDelete, Delete, DeleteDone, Abandon

\* Whatever a table holds is of the listing of a run.
LEMMA DocsAreListed ==
  ASSUME TypeOK, RunsInv, AloneInv, NEW r \in Runs, Step(r), NEW t \in Tables,
         NEW d \in docs'[t]
  PROVE  d \in Generation(d[1], t)'
<1>1. \A e \in docs[t] : e \in Generation(e[1], t)
  BY DEF AloneInv
<1>2. CASE Fetch(r)
  <2>1. d \in docs[t] /\ d[1] # r /\ d[1] \in Runs
    BY <1>2 DEF Fetch, RunsInv, TypeOK, Docs
  <2>2. listing'[d[1]] = listing[d[1]]
    BY <1>2, <2>1 DEF Fetch, TypeOK
  <2> QED
    BY <1>1, <2>1, <2>2 DEF Generation
<1>3. CASE Insert(r)
  <2>1. PICK e \in todo[r] : docs' = [docs EXCEPT ![table[r]] = @ \cup {e}]
    BY <1>3 DEF Insert
  <2>2. e \in Generation(r, table[r]) /\ e[1] = r /\ listing' = listing
    BY <1>3, <2>1 DEF Insert, RunsInv, Generation
  <2>3. d \in docs[t] \/ (t = table[r] /\ d = e)
    BY <2>1 DEF TypeOK
  <2> QED
    BY <1>1, <2>2, <2>3 DEF Generation
<1>4. CASE ~Fetch(r) /\ ~Insert(r)
  <2>1. listing' = listing
    BY <1>4 DEF Step, Begin, Refuse, BeginDelete, Delete, DeleteDone, Abandon
  <2>2. docs'[t] \subseteq docs[t]
    BY <1>4 DEF Step, Begin, Refuse, BeginDelete, Delete, DeleteDone, Abandon, TypeOK
  <2> QED
    BY <1>1, <2>1, <2>2 DEF Generation
<1> QED
  BY <1>2, <1>3, <1>4

\* A run that no other has overlapped finds nothing older left, and nothing later
\* has come: when it has deleted, the table holds its generation and no more.
LEMMA TableClean ==
  ASSUME TypeOK, RunsInv, AloneInv, NEW r \in alone, DeleteDone(r)
  PROVE  docs[table[r]] = Generation(r, table[r])
<1> DEFINE t == table[r]
<1>1. r \in Runs /\ t \in Tables /\ stage[r] = "delete" /\ todo[r] \cap docs[t] = {}
  BY DEF TypeOK, DeleteDone
<1>2. r \in Active
  BY <1>1 DEF Active
<1>3. /\ \A q \in Runs \ {r} : stamp[q] < stamp[r]
      /\ Older(r, t) \subseteq todo[r]
  BY <1>1, <1>2 DEF AloneInv, Latest, LeftClean
<1>4. ASSUME NEW d \in docs[t] PROVE d \in Generation(r, t)
  <2>1. d[1] \in Runs /\ d \in Generation(d[1], t)
    BY <1>1 DEF TypeOK, Docs, AloneInv
  <2>2. d \notin Older(r, t)
    BY <1>1, <1>3
  <2>3. d[1] = r
    BY <1>3, <2>1, <2>2 DEF Older
  <2> QED
    BY <2>1, <2>3
<1>5. Generation(r, t) \subseteq docs[t]
  <2>1. Inserted(r) = Generation(r, t)
    BY <1>1 DEF Inserted
  <2>2. ~ Superseded(r, t)
    BY <1>1, <1>3 DEF Superseded, TypeOK
  <2> QED
    BY <1>1, <2>1, <2>2 DEF RunsInv, InsertedStays
<1> QED
  BY <1>4, <1>5

\* While it is alone, each of its steps leaves the tables behind it clean.
LEMMA OwnStepLeavesClean ==
  ASSUME TypeOK, RunsInv, AloneInv, NEW r \in alone \cap Active, Step(r),
         stage'[r] \in {"fetch", "insert", "delete"}
  PROVE  /\ stage'[r] = "fetch" => \A q \in Runs : stamp'[q] < now'
         /\ stage'[r] \in {"insert", "delete"} => \A q \in Runs \ {r} : stamp'[q] < stamp'[r]
         /\ LeftClean(r)'
<1>1. r \in Runs /\ stage[r] \in {"fetch", "insert", "delete"} /\ Latest(r) /\ LeftClean(r)
  BY DEF AloneInv, Active
<1>2. CASE Fetch(r)
  <2>1. /\ stage'[r] = "insert" /\ stamp'[r] = now /\ table'[r] = 1
        /\ \A q \in Runs \ {r} : stamp'[q] = stamp[q]
    BY <1>1, <1>2 DEF Fetch, TypeOK, RunsInv
  <2>2. \A q \in Runs : stamp[q] < now
    BY <1>1, <1>2 DEF Fetch, Latest
  <2>3. \A t \in Tables : ~ (t < 1)
    BY RefreshAssumption DEF Tables
  <2> QED
    BY <2>1, <2>2, <2>3 DEF LeftClean
<1>3. CASE Insert(r)
  <2>1. /\ stage'[r] = "insert" /\ stage[r] = "insert"
        /\ UNCHANGED <<now, stage, table, stamp, listing>>
        /\ \A t \in Tables : t # table[r] => docs'[t] = docs[t]
    BY <1>1, <1>3 DEF Insert, TypeOK
  <2>2. \A t \in Tables : t < table[r] => t # table[r]
    BY <1>1 DEF TypeOK, Tables
  <2> QED
    BY <1>1, <2>1, <2>2 DEF LeftClean, Latest, Generation
<1>4. CASE BeginDelete(r)
  <2>1. /\ stage'[r] = "delete" /\ stage[r] = "insert"
        /\ UNCHANGED <<now, table, stamp, listing, docs>>
        /\ todo'[r] = Older(r, table[r])
    BY <1>1, <1>4 DEF BeginDelete, TypeOK
  <2> QED
    BY <1>1, <2>1 DEF LeftClean, Latest, Generation, Older
<1>5. CASE Delete(r)
  <2>1. /\ stage'[r] = "delete" /\ stage[r] = "delete"
        /\ UNCHANGED <<now, table, stamp, listing, todo>>
        /\ \A t \in Tables : t # table[r] => docs'[t] = docs[t]
        /\ docs'[table[r]] \subseteq docs[table[r]]
    BY <1>1, <1>5 DEF Delete, TypeOK
  <2>2. \A t \in Tables : t < table[r] => t # table[r]
    BY <1>1 DEF TypeOK, Tables
  <2> QED
    BY <1>1, <2>1, <2>2 DEF LeftClean, Latest, Generation, Older
<1>6. CASE DeleteDone(r)
  <2>1. table[r] # LastTable
    <3>1. ASSUME table[r] = LastTable PROVE stage'[r] = "done"
      BY <1>1, <1>6, <3>1, LastTableDone DEF TypeOK
    <3> QED
      BY <3>1
  <2>2. /\ stage'[r] = "insert" /\ table'[r] = table[r] + 1 /\ stage[r] = "delete"
        /\ UNCHANGED <<now, stamp, listing, docs>>
    BY <1>1, <1>6, <2>1, NextTable DEF DeleteDone, TypeOK
  <2>3. docs[table[r]] = Generation(r, table[r])
    BY <1>6, TableClean
  <2>4. \A t \in Tables : t < table[r] + 1 => t < table[r] \/ t = table[r]
    BY <1>1 DEF TypeOK, Tables
  <2> QED
    BY <1>1, <2>2, <2>3, <2>4 DEF LeftClean, Latest, Generation
<1>7. ~ Begin(r) /\ ~ Refuse(r) /\ ~ Abandon(r)
  BY <1>1 DEF Begin, Refuse, Abandon, TypeOK
<1> QED
  BY <1>2, <1>3, <1>4, <1>5, <1>6, <1>7 DEF Step

LEMMA StepKeepsAlone ==
  ASSUME TypeOK, RunsInv, AloneInv, NEW r \in Runs, Step(r)
  PROVE  AloneInv'
<1>1. \A x \in alone' : stage'[x] # "idle"
  <2>1. CASE Begin(r)
    BY <2>1 DEF Begin, AloneInv, TypeOK
  <2>2. CASE ~ Begin(r)
    <3>1. alone' = alone
      BY <2>2 DEF Step, Fetch, Refuse, Insert, BeginDelete, Delete, DeleteDone, Abandon
    <3>2. stage'[r] # "idle"
      BY <2>2 DEF Step, Fetch, Refuse, Insert, BeginDelete, Delete, DeleteDone, Abandon, TypeOK
    <3>3. \A x \in Runs \ {r} : stage'[x] = stage[x]
      BY <2>2 DEF Step, Fetch, Refuse, Insert, BeginDelete, Delete, DeleteDone, Abandon, TypeOK
    <3> QED
      BY <3>1, <3>2, <3>3 DEF AloneInv, TypeOK
  <2> QED
    BY <2>1, <2>2
<1>2. ASSUME NEW x \in alone' \cap Active' PROVE (Latest(x) /\ LeftClean(x))'
  <2>1. x \in Runs /\ stage'[x] \in {"fetch", "insert", "delete"}
    BY <1>2 DEF Active
  <2>2. CASE Begin(r)
    <3>1. stage[r] = "idle" /\ r \notin alone /\ r \notin Active
      BY <2>2 DEF Begin, AloneInv, Active
    <3>2. Active' = Active \cup {r}
      BY <2>2 DEF Begin, Active, TypeOK
    <3>3. x = r /\ Active = {}
      BY <1>2, <2>2, <3>1, <3>2 DEF Begin
    <3>4. \A q \in Runs : stamp'[q] < now'
      BY <2>2 DEF Begin, AloneInv, TypeOK
    <3>5. stage'[r] = "fetch" /\ table'[r] = 1
      BY <2>2 DEF Begin, RunsInv, TypeOK
    <3>6. \A t \in Tables : ~ (t < 1)
      BY RefreshAssumption DEF Tables
    <3> QED
      BY <3>2, <3>3, <3>4, <3>5, <3>6 DEF Latest, LeftClean
  <2>3. CASE ~ Begin(r)
    <3>1. alone' = alone /\ r \in Active
      BY <2>3 DEF Step, Fetch, Refuse, Insert, BeginDelete, Delete, DeleteDone, Abandon, Active
    <3>2. \A q \in Runs \ {r} : stage'[q] = stage[q]
      BY <2>3 DEF Step, Fetch, Refuse, Insert, BeginDelete, Delete, DeleteDone, Abandon, TypeOK
    <3>3. x \in Active
      BY <2>1, <3>1, <3>2 DEF Active
    <3>4. Active = {x} /\ x = r
      BY <1>2, <3>1, <3>3 DEF AloneInv, Latest
    <3>5. Active' = {x}
      <4>1. \A q \in Runs : q # x => stage'[q] \notin {"fetch", "insert", "delete"}
        BY <3>2, <3>4 DEF Active
      <4> QED
        BY <2>1, <4>1 DEF Active
    <3>6. /\ stage'[x] = "fetch" => \A q \in Runs : stamp'[q] < now'
          /\ stage'[x] \in {"insert", "delete"} =>
                \A q \in Runs \ {x} : stamp'[q] < stamp'[x]
          /\ LeftClean(r)'
      BY <1>2, <2>1, <3>1, <3>3, <3>4, OwnStepLeavesClean
    <3>7. LeftClean(x)'
      BY <3>4, <3>6
    <3> QED
      BY <3>5, <3>6, <3>7 DEF Latest
  <2> QED
    BY <2>2, <2>3
<1> QED
  BY <1>1, <1>2, StampsPast, DocsAreListed DEF AloneInv

\* What a run has put into its table is still there, or a later listing is; and a
\* run that no other has overlapped leaves its generation and nothing else.  For any
\* number of runs that overlap or fail.
THEOREM Inductive == Spec => []IInv
<1>1. Init => AloneInv
  BY DEF Init, AloneInv, Active
<1>2. TypeOK /\ RunsInv /\ AloneInv /\ [Next]_vars => AloneInv'
  <2> SUFFICES ASSUME TypeOK, RunsInv, AloneInv, [Next]_vars PROVE AloneInv'
    OBVIOUS
  <2>1. CASE UNCHANGED vars
    BY <2>1 DEF vars, AloneInv, Latest, LeftClean, Active, Generation, Older
  <2> QED
    BY <2>1, StepKeepsAlone DEF Next
<1>3. RunsInv /\ AloneInv => IInv
  BY DEF IInv
<1> QED
  BY <1>1, <1>2, <1>3, TypeCorrect, Covered, PTL DEF Spec

\* A refresh that no other overlapped leaves each table with its generation and
\* nothing else, whatever failed runs have left behind.
THEOREM AloneLeavesClean == Spec => AloneMeansClean
<1>1. ASSUME TypeOK, IInv, [Next]_vars, NEW r \in alone, stage[r] # "done",
             stage'[r] = "done", NEW t \in Tables
      PROVE  docs'[t] = Generation(r, t)
  <2>1. r \in Runs
    BY <1>1 DEF TypeOK
  <2>2. PICK q \in Runs : Step(q)
    BY <1>1 DEF Next, vars
  <2>3. DeleteDone(r)
    <3>1. CASE DeleteDone(q)
      <4>1. \A x \in Runs : x # q => stage'[x] = stage[x]
        BY <1>1, <3>1 DEF DeleteDone, TypeOK
      <4> QED
        BY <1>1, <2>1, <3>1, <4>1
    <3>2. CASE ~ DeleteDone(q)
      <4>1. stage'[r] \in {stage[r], "fetch", "insert", "delete", "abandoned"}
        BY <1>1, <2>1, <2>2, <3>2 DEF Step, Begin, Fetch, Refuse, Insert, BeginDelete, Delete,
             Abandon, TypeOK
      <4> QED
        BY <1>1, <4>1
    <3> QED
      BY <3>1, <3>2
  <2>4. table[r] = LastTable /\ docs' = docs
    <3>1. ASSUME table[r] # LastTable PROVE FALSE
      <4>1. stage'[r] = "insert"
        BY <1>1, <2>1, <2>3, <3>1, NextTable DEF TypeOK
      <4> QED
        BY <1>1, <4>1
    <3> QED
      BY <2>3, <3>1 DEF DeleteDone
  <2>5. r \in Active
    BY <2>1, <2>3 DEF DeleteDone, Active
  <2>6. t = LastTable \/ t < LastTable
    BY RefreshAssumption DEF Tables
  <2>7. CASE t = LastTable
    BY <1>1, <2>3, <2>4, <2>7, TableClean DEF IInv
  <2>8. CASE t < LastTable
    BY <1>1, <2>4, <2>5, <2>8 DEF IInv, AloneInv, LeftClean
  <2> QED
    BY <2>6, <2>7, <2>8
<1>2. TypeOK /\ IInv /\ [Next]_vars =>
        [\A r \in alone : stage[r] # "done" /\ stage'[r] = "done" =>
          \A t \in Tables : docs'[t] = Generation(r, t)]_vars
  BY <1>1
<1> QED
  BY <1>2, TypeCorrect, Inductive, PTL DEF Spec, AloneMeansClean

-----------------------------------------------------------------------------
(* DictRefresh implements Table *)

\* A document inserted can complete no listing but that of its run.
LEMMA InsertAppears ==
  ASSUME TypeOK, RunsInv, NEW r \in Runs, Insert(r)
  PROVE  Readers!Appear(r, table[r]) \/ UNCHANGED Readers!vars
<1> DEFINE Held(t) == {q \in Runs : Complete(q, t)}
<1>1. PICK d \in todo[r] : docs' = [docs EXCEPT ![table[r]] = @ \cup {d}]
  BY DEF Insert
<1>2. d[1] = r /\ table[r] \in Tables /\ UNCHANGED <<listing, table, stamp>>
  BY DEF Insert, RunsInv, Generation, TypeOK
<1>3. ASSUME NEW t \in Tables, t # table[r] PROVE Held(t)' = Held(t)
  <2>1. docs'[t] = docs[t]
    BY <1>1, <1>3 DEF TypeOK
  <2> QED
    BY <1>2, <2>1 DEF Complete, Generation
<1>4. ASSUME NEW q \in Runs, q # r PROVE Complete(q, table[r])' <=> Complete(q, table[r])
  <2>1. docs'[table[r]] = docs[table[r]] \cup {d} /\ d \notin Generation(q, table[r])
    BY <1>1, <1>2, <1>4 DEF TypeOK, Generation
  <2> QED
    BY <1>2, <2>1 DEF Complete, Generation
<1>5. Complete(r, table[r]) => Complete(r, table[r])'
  BY <1>1, <1>2 DEF Complete, Generation, TypeOK
<1>6. CASE Complete(r, table[r]) \/ ~Complete(r, table[r])'
  <2>1. \A t \in Tables : Held(t)' = Held(t)
    BY <1>2, <1>3, <1>4, <1>5, <1>6
  <2> QED
    BY <1>2, <2>1 DEF Readers!vars
<1>7. CASE ~Complete(r, table[r]) /\ Complete(r, table[r])'
  <2>1. Held(table[r])' = Held(table[r]) \cup {r}
    <3>1. \A q \in Runs : q \in Held(table[r])' <=> q = r \/ q \in Held(table[r])
      BY <1>2, <1>4, <1>7
    <3> QED
      BY <3>1
  <2> HIDE DEF Held
  <2>2. [t \in Tables |-> Held(t)]' = [[t \in Tables |-> Held(t)] EXCEPT ![table[r]] = @ \cup {r}]
    BY <1>2, <1>3, <2>1
  <2> USE DEF Held
  <2> QED
    BY <1>2, <2>2 DEF Readers!Appear
<1> QED
  BY <1>6, <1>7

\* A document deleted can break no listing but that of its run, which is older than
\* one that stays.
LEMMA DeleteRetires ==
  ASSUME TypeOK, RunsInv, NEW r \in Runs, Delete(r)
  PROVE  (\E p \in Runs : Readers!Retire(p, table[r])) \/ UNCHANGED Readers!vars
<1> DEFINE Held(t) == {q \in Runs : Complete(q, t)}
<1>1. PICK d \in Docs : /\ stamp[d[1]] < stamp[r]
                        /\ docs'[table[r]] = docs[table[r]] \ {d}
  BY DeleteTakesOlder
<1> DEFINE p == d[1]
<1>2. p \in Runs /\ table[r] \in Tables /\ UNCHANGED <<listing, table, stamp>>
  BY DEF Delete, TypeOK, Docs
<1>3. ASSUME NEW t \in Tables, t # table[r] PROVE Held(t)' = Held(t)
  <2>1. docs'[t] = docs[t]
    BY <1>3, DeleteTakesOlder
  <2> QED
    BY <1>2, <2>1 DEF Complete, Generation
<1>4. ASSUME NEW q \in Runs, q # p PROVE Complete(q, table[r])' <=> Complete(q, table[r])
  <2>1. d \notin Generation(q, table[r])
    BY <1>4 DEF Generation
  <2> QED
    BY <1>1, <1>2, <2>1 DEF Complete, Generation
<1>5. Complete(p, table[r])' => Complete(p, table[r])
  BY <1>1, <1>2 DEF Complete, Generation
<1>6. CASE Complete(p, table[r])' <=> Complete(p, table[r])
  <2>1. \A t \in Tables : Held(t)' = Held(t)
    BY <1>2, <1>3, <1>4, <1>6
  <2> QED
    BY <1>2, <2>1 DEF Readers!vars
<1>7. CASE Complete(p, table[r]) /\ ~Complete(p, table[r])'
  <2>1. Held(table[r])' = Held(table[r]) \ {p}
    BY <1>2, <1>4, <1>7
  <2>2. PICK q \in Runs : Complete(q, table[r]) /\ stamp[q] >= stamp[r]
    BY DeleterIsCovered DEF Delete
  <2>3. q \in Held(table[r]) /\ stamp[q] > stamp[p]
    BY <1>1, <1>2, <2>2 DEF TypeOK
  <2> DEFINE holds == [t \in Tables |-> Held(t)]
  <2>4. holds' = [holds EXCEPT ![table[r]] = @ \ {p}]
    BY <1>2, <1>3, <2>1
  <2>5. q \in holds[table[r]]
    BY <1>2, <2>3
  <2>6. \E x \in holds[table[r]] : stamp[x] > stamp[p]
    BY <2>3, <2>5
  <2>7. Readers!Retire(p, table[r])
    BY <1>2, <2>4, <2>6 DEF Readers!Retire
  <2> QED
    BY <1>2, <2>7
<1> QED
  BY <1>5, <1>6, <1>7

LEMMA FetchStamps ==
  ASSUME TypeOK, RunsInv, NEW r \in Runs, Fetch(r)
  PROVE  Readers!Stamp(r)
<1>1. docs' = docs /\ \A t \in Tables : \A d \in docs[t] : d[1] # r
  BY DEF Fetch, RunsInv
<1>2. ASSUME NEW t \in Tables PROVE ~Complete(r, t) /\ ~Complete(r, t)'
  <2>1. listing[r][t] = {}
    BY DEF Fetch, RunsInv
  <2>2. ASSUME listing'[r][t] # {} PROVE ~(Generation(r, t)' \subseteq docs'[t])
    <3>1. PICK i : i \in listing'[r][t]
      BY <2>2
    <3>2. <<r, i>> \in Generation(r, t)' /\ <<r, i>>[1] = r
      BY <3>1 DEF Generation
    <3> QED
      BY <1>1, <3>2
  <2> QED
    BY <2>1, <2>2 DEF Complete
<1>3. ASSUME NEW q \in Runs, q # r, NEW t \in Tables
      PROVE  Complete(q, t)' <=> Complete(q, t)
  BY <1>3 DEF Fetch, Complete, Generation, TypeOK
<1>4. \A t \in Tables : {q \in Runs : Complete(q, t)}' = {q \in Runs : Complete(q, t)}
  BY <1>2, <1>3
<1>5. stamp' \in [Runs -> Nat] /\ \A q \in Runs \ {r} : stamp'[q] = stamp[q]
  BY DEF Fetch, TypeOK
<1> QED
  BY <1>2, <1>4, <1>5 DEF Readers!Stamp

\* Readers see listings appear and retire, one at a time, and nothing else.
LEMMA StepImplementsTable ==
  ASSUME TypeOK, RunsInv, [Next]_vars
  PROVE  [Readers!Next]_(Readers!vars)
<1>1. CASE UNCHANGED <<listing, docs, stamp>>
  BY <1>1 DEF Readers!vars, Complete, Generation
<1>2. ASSUME NEW r \in Runs, Fetch(r) PROVE Readers!Next
  BY <1>2, FetchStamps DEF Readers!Next
<1>3. ASSUME NEW r \in Runs, Insert(r) PROVE [Readers!Next]_(Readers!vars)
  BY <1>3, InsertAppears DEF Readers!Next, TypeOK
<1>4. ASSUME NEW r \in Runs, Delete(r) PROVE [Readers!Next]_(Readers!vars)
  BY <1>4, DeleteRetires DEF Readers!Next, TypeOK
<1> QED
  BY <1>1, <1>2, <1>3, <1>4
     DEF Next, Step, Begin, Refuse, BeginDelete, DeleteDone, Abandon, vars

\* The readers of the tables get what Table promises, for any number of runs that
\* overlap or fail.
THEOREM Implements == Spec => ImplementsTable
<1>1. Init => Readers!Init
  BY DEF Init, Readers!Init, Complete
<1>2. TypeOK /\ RunsInv /\ [Next]_vars => [Readers!Next]_(Readers!vars)
  BY StepImplementsTable
<1> QED
  BY <1>1, <1>2, TypeCorrect, Covered, PTL DEF Spec, ImplementsTable, Readers!Spec

=============================================================================
