---------------------------- MODULE Search_proofs ----------------------------
(***************************************************************************)
(* Proofs about Search, for any number of projects and failures, any page  *)
(* size and search limit: its types, its inductive invariant, and from it  *)
(* that search leaves no gap between runs, and that a full run finds all   *)
(* that was listed when it began.                                          *)
(***************************************************************************)
EXTENDS Search, Integers, FiniteSetTheorems, WellFoundedInduction, TLAPS

-----------------------------------------------------------------------------
(* Lists and pages *)

\* Does x come before y in the order of the pages?
Precedes(up, x, y) == IF up THEN x < y ELSE x > y

Ahead(L, up, p) == {q \in L : Precedes(up, q, p)}
Pos(L, up, p)   == Cardinality(Ahead(L, up, p))
Page(L, up, o)  == {p \in L : o <= Pos(L, up, p) /\ Pos(L, up, p) < o + PageSize}

LEMMA LeastNumber ==
  ASSUME NEW S \in SUBSET Nat, S # {}
  PROVE  \E x \in S : \A y \in S : x <= y
<1>1. IsWellFoundedOn({p \in Nat \X Nat : p[1] < p[2]}, Nat)
  BY NatLessThanWellFounded DEF OpToRel
<1>2. PICK x \in S : \A y \in S : <<y, x>> \notin {p \in Nat \X Nat : p[1] < p[2]}
  BY <1>1, WFMin
<1>3. ASSUME NEW y \in S PROVE x <= y
  <2>1. <<y, x>> \in Nat \X Nat /\ y \in Nat /\ x \in Nat
    OBVIOUS
  <2>2. <<y, x>>[1] = y /\ <<y, x>>[2] = x
    OBVIOUS
  <2>3. <<y, x>> \notin {p \in Nat \X Nat : p[1] < p[2]}
    BY <1>2
  <2>4. ~(<<y, x>>[1] < <<y, x>>[2])
    BY <2>1, <2>3
  <2> QED
    BY <2>1, <2>2, <2>4
<1> QED
  BY <1>3

\* A list that is not empty has a first element in either order.
LEMMA HasFirst ==
  ASSUME NEW n \in Nat, NEW S \in SUBSET (1 .. n), S # {}, NEW up \in BOOLEAN
  PROVE  \E x \in S : \A y \in S : y = x \/ Precedes(up, x, y)
<1>1. CASE up
  <2>1. S \in SUBSET Nat
    OBVIOUS
  <2>2. PICK x \in S : \A y \in S : x <= y
    BY <2>1, LeastNumber
  <2> QED
    BY <1>1, <2>1, <2>2 DEF Precedes
<1>2. CASE ~ up
  <2> DEFINE T == {m \in Nat : n - m \in S}
  <2>1. T \in SUBSET Nat
    OBVIOUS
  <2>2. \A y \in S : n - y \in T
    OBVIOUS
  <2>3. PICK m \in T : \A k \in T : m <= k
    BY <2>1, <2>2, LeastNumber
  <2>4. n - m \in S /\ m \in Nat
    OBVIOUS
  <2>5. ASSUME NEW y \in S PROVE y <= n - m
    <3>1. m <= n - y
      BY <2>2, <2>3
    <3> QED
      BY <2>4, <3>1
  <2> QED
    BY <1>2, <2>4, <2>5 DEF Precedes
<1> QED
  BY <1>1, <1>2

LEMMA Counted ==
  ASSUME NEW n \in Nat, NEW L \in SUBSET (1 .. n)
  PROVE  /\ IsFiniteSet(L) /\ Cardinality(L) \in Nat
         /\ \A S \in SUBSET L : /\ IsFiniteSet(S) /\ Cardinality(S) \in Nat
                                /\ Cardinality(S) <= Cardinality(L)
<1>1. IsFiniteSet(1 .. n)
  BY FS_Interval
<1>2. IsFiniteSet(L)
  BY <1>1, FS_Subset
<1> QED
  BY <1>2, FS_Subset, FS_CardinalityType

\* Positions follow the order, and end before the length of the list.
LEMMA Positions ==
  ASSUME NEW n \in Nat, NEW L \in SUBSET (1 .. n), NEW up \in BOOLEAN, NEW p \in L
  PROVE  /\ Pos(L, up, p) \in Nat /\ Pos(L, up, p) < Cardinality(L)
         /\ \A q \in L : Precedes(up, q, p) => Pos(L, up, q) < Pos(L, up, p)
         /\ \A q \in L : q = p \/ Precedes(up, q, p) \/ Precedes(up, p, q)
<1>1. ASSUME NEW S \in SUBSET L, NEW q \in L \ S
      PROVE  Cardinality(S) \in Nat /\ Cardinality(S) < Cardinality(S \cup {q})
             /\ Cardinality(S \cup {q}) \in Nat
  <2>1. IsFiniteSet(S) /\ Cardinality(S) \in Nat
    BY Counted
  <2>2. Cardinality(S \cup {q}) = Cardinality(S) + 1
    BY <2>1, FS_AddElement
  <2> QED
    BY <2>1, <2>2
<1>2. p \in Nat /\ p \notin Ahead(L, up, p) /\ Ahead(L, up, p) \in SUBSET L
  BY DEF Ahead, Precedes
<1>3. Pos(L, up, p) \in Nat /\ Pos(L, up, p) < Cardinality(L)
  <2>1. /\ Pos(L, up, p) \in Nat
        /\ Pos(L, up, p) < Cardinality(Ahead(L, up, p) \cup {p})
        /\ Cardinality(Ahead(L, up, p) \cup {p}) \in Nat
    BY <1>1, <1>2 DEF Pos
  <2>2. Ahead(L, up, p) \cup {p} \in SUBSET L
    BY <1>2
  <2>3. Cardinality(L) \in Nat /\ Cardinality(Ahead(L, up, p) \cup {p}) <= Cardinality(L)
    BY <2>2, Counted
  <2> QED
    BY <2>1, <2>3
<1>4. ASSUME NEW q \in L, Precedes(up, q, p) PROVE Pos(L, up, q) < Pos(L, up, p)
  <2>1. q \notin Ahead(L, up, q) /\ Ahead(L, up, q) \in SUBSET L
    BY DEF Ahead, Precedes
  <2>2. Ahead(L, up, q) \cup {q} \in SUBSET Ahead(L, up, p)
    <3>1. \A x \in L : Precedes(up, x, q) => Precedes(up, x, p)
      BY <1>4 DEF Precedes
    <3> QED
      BY <1>4, <3>1 DEF Ahead
  <2>3. /\ Pos(L, up, q) \in Nat
        /\ Pos(L, up, q) < Cardinality(Ahead(L, up, q) \cup {q})
        /\ Cardinality(Ahead(L, up, q) \cup {q}) \in Nat
    BY <1>1, <2>1 DEF Pos
  <2>4. Ahead(L, up, p) \in SUBSET (1 .. n)
    BY DEF Ahead
  <2>5. Cardinality(Ahead(L, up, q) \cup {q}) <= Pos(L, up, p)
    BY <2>2, <2>4, Counted DEF Pos
  <2> QED
    BY <1>3, <2>3, <2>5
<1>5. \A q \in L : q = p \/ Precedes(up, q, p) \/ Precedes(up, p, q)
  BY DEF Precedes
<1> QED
  BY <1>3, <1>4, <1>5

\* What is not ahead of a project is behind it.
LEMMA BothWays ==
  ASSUME NEW n \in Nat, NEW L \in SUBSET (1 .. n), NEW p \in L
  PROVE  Pos(L, TRUE, p) + Pos(L, FALSE, p) + 1 = Cardinality(L)
<1> DEFINE A == Ahead(L, TRUE, p)
           B == Ahead(L, FALSE, p)
<1>1. A \cap B = {} /\ A \cup B = L \ {p} /\ A \in SUBSET L /\ B \in SUBSET L
  <2>1. A = {q \in L : q < p} /\ B = {q \in L : q > p}
    BY DEF Ahead, Precedes
  <2>2. \A q \in L : q \in Nat /\ p \in Nat
    OBVIOUS
  <2> HIDE DEF A, B
  <2>3. \A q : q \in A <=> q \in L /\ q < p
    BY <2>1
  <2>4. \A q : q \in B <=> q \in L /\ q > p
    BY <2>1
  <2>5. \A q \in L : q # p => q < p \/ q > p
    BY <2>2
  <2>6. A \cap B = {}
    <3> SUFFICES ASSUME NEW q \in L, q < p, q > p PROVE FALSE
      BY <2>3, <2>4
    <3> QED
      BY <2>2
  <2>7. p \notin A /\ p \notin B
    BY <2>2, <2>3, <2>4
  <2>8. A \cup B = L \ {p}
    BY <2>3, <2>4, <2>5, <2>7
  <2> QED
    BY <2>3, <2>4, <2>6, <2>8
<1>2. /\ IsFiniteSet(A) /\ IsFiniteSet(B) /\ IsFiniteSet(L)
      /\ Cardinality(A) \in Nat /\ Cardinality(B) \in Nat /\ Cardinality(L) \in Nat
  BY <1>1, Counted
<1> HIDE DEF A, B
<1>3. Cardinality(A \cup B) = Cardinality(A) + Cardinality(B) - Cardinality(A \cap B)
  BY <1>2, FS_Union
<1>4. Cardinality(A \cap B) = 0
  BY <1>1, FS_EmptySet
<1>5. Cardinality(L \ {p}) = Cardinality(L) - 1
  BY <1>2, FS_RemoveElement
<1>6. Cardinality(A) + Cardinality(B) + 1 = Cardinality(L)
  BY <1>1, <1>2, <1>3, <1>4, <1>5
<1> QED
  BY <1>6 DEF A, B, Pos

\* A page that is not full is the last of the list.
LEMMA ShortPage ==
  ASSUME NEW n \in Nat, NEW L \in SUBSET (1 .. n), NEW up \in BOOLEAN, NEW o \in Nat,
         Cardinality(Page(L, up, o)) < PageSize, NEW p \in L
  PROVE  Pos(L, up, p) < o + PageSize
<1> DEFINE far    == {q \in L : Pos(L, up, q) >= o + PageSize}
           before == {q \in L : Pos(L, up, q) < o}
<1>1. PageSize \in Nat /\ PageSize > 0
  BY SearchAssumption
<1>2. \A q \in L : Pos(L, up, q) \in Nat
  BY Positions
<1> SUFFICES ASSUME far # {} PROVE FALSE
  BY <1>1, <1>2
<1>3. before \in SUBSET L /\ far \in SUBSET L /\ far \in SUBSET (1 .. n)
      /\ before \in SUBSET (1 .. n)
  OBVIOUS
<1>4. PICK x \in far : \A y \in far : y = x \/ Precedes(up, x, y)
  BY <1>3, HasFirst
<1>5. x \in L /\ Pos(L, up, x) \in Nat /\ Pos(L, up, x) >= o + PageSize
  BY <1>2
<1>6. Ahead(L, up, x) \subseteq before \cup Page(L, up, o)
  <2> SUFFICES ASSUME NEW q \in L, Precedes(up, q, x)
               PROVE  q \in before \cup Page(L, up, o)
    BY DEF Ahead
  <2>1. Pos(L, up, q) \in Nat /\ q \in 1 .. n /\ x \in 1 .. n
    BY <1>2, <1>5
  <2>2. q # x /\ ~ Precedes(up, x, q)
    BY <2>1 DEF Precedes
  <2>3. q \notin far
    BY <1>4, <2>2
  <2> QED
    BY <1>1, <2>1, <2>3 DEF Page
<1>7. Cardinality(before) \in Nat /\ Cardinality(before) <= o
  <2>1. CASE before = {}
    BY <2>1, FS_EmptySet
  <2>2. CASE before # {}
    <3>1. (~ up) \in BOOLEAN
      OBVIOUS
    <3>2. PICK z \in before : \A y \in before : y = z \/ Precedes(~ up, z, y)
      BY <1>3, <2>2, <3>1, HasFirst
    <3>3. z \in L /\ Pos(L, up, z) < o /\ Pos(L, up, z) \in Nat
      BY <1>2
    <3>4. before \in SUBSET (Ahead(L, up, z) \cup {z})
      BY <3>2 DEF Precedes, Ahead
    <3>5. Ahead(L, up, z) \in SUBSET L /\ IsFiniteSet(Ahead(L, up, z))
      <4>1. Ahead(L, up, z) \in SUBSET L
        BY DEF Ahead
      <4> QED
        BY <4>1, Counted
    <3>6. /\ IsFiniteSet(Ahead(L, up, z) \cup {z})
          /\ \/ Cardinality(Ahead(L, up, z) \cup {z}) = Pos(L, up, z)
             \/ Cardinality(Ahead(L, up, z) \cup {z}) = Pos(L, up, z) + 1
      BY <3>5, FS_AddElement DEF Pos
    <3>7. Cardinality(before) <= Cardinality(Ahead(L, up, z) \cup {z})
      BY <3>4, <3>6, FS_Subset
    <3>8. Cardinality(before) \in Nat
      BY <1>3, Counted
    <3> HIDE DEF before
    <3> QED
      BY <3>3, <3>6, <3>7, <3>8
  <2> QED
    BY <2>1, <2>2
<1>8. Page(L, up, o) \in SUBSET L
  BY DEF Page
<1> DEFINE page == Page(L, up, o)
<1>9. /\ IsFiniteSet(before) /\ IsFiniteSet(page) /\ Cardinality(page) \in Nat
      /\ before \cup page \in SUBSET L /\ before \cap page \in SUBSET L
  BY <1>3, <1>8, Counted
<1>10. Cardinality(before \cap page) \in Nat /\ IsFiniteSet(before \cup page)
  BY <1>9, Counted
<1>11. Pos(L, up, x) <= Cardinality(before \cup page)
  BY <1>6, <1>10, FS_Subset DEF Pos
<1> HIDE DEF before, page
<1>12. Cardinality(before \cup page) =
         Cardinality(before) + Cardinality(page) - Cardinality(before \cap page)
  BY <1>9, FS_Union
<1>13. Cardinality(page) < PageSize
  BY DEF page
<1> QED
  BY <1>1, <1>5, <1>7, <1>9, <1>10, <1>11, <1>12, <1>13

\* An empty page lies beyond the end.
LEMMA EmptyPage ==
  ASSUME NEW n \in Nat, NEW L \in SUBSET (1 .. n), NEW up \in BOOLEAN, NEW o \in Nat,
         Page(L, up, o) = {}, NEW p \in L
  PROVE  Pos(L, up, p) < o
<1>1. Cardinality(Page(L, up, o)) < PageSize
  BY FS_EmptySet, SearchAssumption
<1>2. Pos(L, up, p) \in Nat /\ Pos(L, up, p) < o + PageSize
  BY <1>1, ShortPage, Positions
<1> QED
  BY <1>2 DEF Page

\* The list goes on to the end of a full page.
LEMMA FullPage ==
  ASSUME NEW n \in Nat, NEW L \in SUBSET (1 .. n), NEW up \in BOOLEAN, NEW o \in Nat,
         ~ (Cardinality(Page(L, up, o)) < PageSize)
  PROVE  o + PageSize <= Cardinality(L)
<1> DEFINE page == Page(L, up, o)
<1>1. PageSize \in Nat /\ PageSize > 0
  BY SearchAssumption
<1>2. page \in SUBSET L /\ page \in SUBSET (1 .. n)
  BY DEF Page
<1>3. page # {}
  BY <1>1, FS_EmptySet
<1>4. PICK x \in page : \A y \in page : y = x \/ Precedes(up, x, y)
  BY <1>2, <1>3, HasFirst
<1>5. x \in L /\ o <= Pos(L, up, x) /\ Pos(L, up, x) \in Nat
  BY Positions DEF Page
<1>6. page \cap Ahead(L, up, x) = {}
  <2> SUFFICES ASSUME NEW q \in page, q \in Ahead(L, up, x) PROVE FALSE
    OBVIOUS
  <2>1. Precedes(up, q, x) /\ q \in 1 .. n /\ x \in 1 .. n
    BY <1>2, <1>5 DEF Ahead
  <2> QED
    BY <1>4, <2>1 DEF Precedes
<1> DEFINE ahead == Ahead(L, up, x)
<1>7. ahead \in SUBSET L
  BY DEF Ahead
<1>8. /\ IsFiniteSet(ahead) /\ IsFiniteSet(page) /\ Cardinality(page) \in Nat
      /\ Cardinality(ahead) \in Nat /\ Cardinality(L) \in Nat
      /\ Cardinality(page \cup ahead) <= Cardinality(L)
  BY <1>2, <1>7, Counted
<1>9. Cardinality(ahead) = Pos(L, up, x)
  BY DEF Pos
<1>10. ~ (Cardinality(page) < PageSize)
  OBVIOUS
<1> HIDE DEF ahead, page
<1>11. Cardinality(page \cap ahead) = 0
  BY <1>6, FS_EmptySet DEF ahead
<1>12. Cardinality(page \cup ahead) =
         Cardinality(page) + Cardinality(ahead) - Cardinality(page \cap ahead)
  BY <1>8, FS_Union
<1> QED
  BY <1>1, <1>5, <1>8, <1>9, <1>10, <1>11, <1>12

\* A project published is the newest: it moves the others back by one in
\* descending order, and comes after all of them in ascending order.
LEMMA PublishMoves ==
  ASSUME NEW n \in Nat, NEW L \in SUBSET (1 .. n)
  PROVE  /\ Cardinality(L \cup {n + 1}) = Cardinality(L) + 1
         /\ Pos(L \cup {n + 1}, TRUE, n + 1) = Cardinality(L)
         /\ \A p \in L : /\ Pos(L \cup {n + 1}, TRUE, p) = Pos(L, TRUE, p)
                         /\ Pos(L \cup {n + 1}, FALSE, p) = Pos(L, FALSE, p) + 1
<1>1. n + 1 \notin L
  OBVIOUS
<1>2. IsFiniteSet(L)
  BY Counted
<1>3. Cardinality(L \cup {n + 1}) = Cardinality(L) + 1
  BY <1>1, <1>2, FS_AddElement
<1>4. Ahead(L \cup {n + 1}, TRUE, n + 1) = L
  <2>1. \A q \in L : Precedes(TRUE, q, n + 1)
    BY DEF Precedes
  <2>2. ~ Precedes(TRUE, n + 1, n + 1)
    BY DEF Precedes
  <2> QED
    BY <2>1, <2>2, Zenon DEF Ahead
<1>5. ASSUME NEW p \in L PROVE Ahead(L \cup {n + 1}, TRUE, p) = Ahead(L, TRUE, p)
  BY DEF Ahead, Precedes
<1>6. ASSUME NEW p \in L
      PROVE  Pos(L \cup {n + 1}, FALSE, p) = Pos(L, FALSE, p) + 1
  <2>1. Ahead(L \cup {n + 1}, FALSE, p) = Ahead(L, FALSE, p) \cup {n + 1}
    BY DEF Ahead, Precedes
  <2>2. n + 1 \notin Ahead(L, FALSE, p) /\ Ahead(L, FALSE, p) \in SUBSET L
    BY <1>1 DEF Ahead
  <2>3. IsFiniteSet(Ahead(L, FALSE, p))
    BY <2>2, Counted
  <2> QED
    BY <2>1, <2>2, <2>3, FS_AddElement DEF Pos
<1> QED
  BY <1>3, <1>4, <1>5, <1>6 DEF Pos

-----------------------------------------------------------------------------
(* Types, and what is always true of a run *)

LEMMA RunFields ==
  ASSUME NEW r \in Runs
  PROVE  /\ r.stage \in {"idle", "fetch", "sync", "turn"} /\ r.full \in BOOLEAN
         /\ r.limit \in Nat /\ r.ascending \in BOOLEAN /\ r.offset \in Nat /\ r.pages \in Nat
         /\ r.hits \subseteq Projects /\ r.met \in BOOLEAN /\ r.fresh \subseteq Projects
         /\ r.bad \subseteq Projects /\ r.seen \subseteq Projects /\ r.calm \in BOOLEAN
         /\ r.shown \subseteq Projects /\ r.twice \in BOOLEAN
BY DEF Runs

LEMMA NoRunFields ==
  /\ NoRun \in Runs /\ NoRun.stage = "idle" /\ ~ NoRun.full /\ NoRun.limit = 0
  /\ ~ NoRun.ascending /\ NoRun.offset = 0 /\ NoRun.pages = 0 /\ NoRun.hits = {}
  /\ NoRun.fresh = {} /\ NoRun.bad = {} /\ NoRun.seen = {} /\ ~ NoRun.calm
  /\ NoRun.shown = {} /\ ~ NoRun.twice
BY DEF NoRun, Runs

\* What Upset leaves of a run.
LEMMA UpsetRun ==
  ASSUME run \in Runs, Upset(run)
  PROVE  /\ run' \in Runs /\ ~ run'.calm /\ run'.seen = {} /\ steady' = FALSE
         /\ run'.stage = run.stage /\ run'.full = run.full /\ run'.hits = run.hits
         /\ run'.fresh = run.fresh /\ run'.bad = run.bad /\ run'.ascending = run.ascending
         /\ run'.shown = run.shown /\ run'.offset = run.offset /\ run'.pages = run.pages
<1>1. run' = [run EXCEPT !.calm = FALSE, !.seen = {}] /\ steady' = FALSE
  BY DEF Upset
<1> QED
  BY <1>1 DEF Runs

\* A list that is done is followed by the other order, or by nothing.
LEMMA ListDoneRun ==
  ASSUME run \in Runs, NEW frontier, ListDone(frontier)
  PROVE  \/ /\ run.full /\ source = "curseforge" /\ ~ run.ascending
            /\ run' \in Runs /\ run'.stage = "fetch" /\ run'.full /\ run'.ascending
            /\ run'.limit = run.limit /\ run'.seen = run.seen /\ run'.calm = run.calm
            /\ run'.offset = 0 /\ run'.pages = 0 /\ run'.hits = {}
            /\ run'.fresh = {} /\ run'.bad = {}
            /\ steady' = steady
         \/ /\ ~ (run.full /\ source = "curseforge" /\ ~ run.ascending)
            /\ run' = NoRun
            /\ steady' = IF run.full THEN run.calm /\ Within ELSE steady /\ frontier
<1>1. CASE run.full /\ source = "curseforge" /\ ~ run.ascending
  <2>1. /\ run' = [NoRun EXCEPT !.stage = "fetch", !.full = TRUE, !.limit = run.limit,
                                !.ascending = TRUE, !.seen = run.seen, !.calm = run.calm]
        /\ steady' = steady
    BY <1>1 DEF ListDone
  <2> QED
    BY <1>1, <2>1 DEF NoRun, Runs
<1>2. CASE ~ (run.full /\ source = "curseforge" /\ ~ run.ascending)
  BY <1>2 DEF ListDone
<1> QED
  BY <1>1, <1>2

LEMMA ListDoneKeeps ==
  ASSUME TypeOK, RunInv, NEW frontier \in BOOLEAN, ListDone(frontier),
         UNCHANGED <<source, newest, listed, known, queue, faults>>
  PROVE  TypeOK' /\ RunInv'
<1>1. run' \in Runs /\ run'.fresh = {} /\ run'.bad = {} /\ run'.hits = {} /\ run'.offset = 0
      /\ run'.pages = 0 /\ run'.stage \in {"idle", "fetch"}
      /\ (run'.stage = "idle" => ~ run'.full)
      /\ (run'.ascending => run'.full /\ source = "curseforge")
      /\ (run'.calm => run.calm /\ run'.limit = run.limit /\ run'.seen = run.seen /\ run'.full)
  BY ListDoneRun, NoRunFields DEF TypeOK
<1>2. steady' \in BOOLEAN
  <2>1. run.full \in BOOLEAN /\ run.calm \in BOOLEAN
    BY RunFields DEF TypeOK
  <2>2. Within \in BOOLEAN
    BY DEF Within
  <2> QED
    BY <2>1, <2>2, ListDoneRun DEF TypeOK
<1>3. TypeOK'
  BY <1>1, <1>2 DEF TypeOK
<1>4. PageSize * 0 = 0 /\ PageSize \in Nat /\ SearchLimit \in Nat
  BY SearchAssumption
<1>5. Turned' <= SearchLimit
  BY <1>1, <1>4 DEF Turned, Fetched
<1>6. newest' <= MaxProjects /\ (run'.calm => run'.limit = 0 /\ run'.seen \subseteq listed')
  BY <1>1 DEF RunInv
<1>7. run'.offset = PageSize * run'.pages
  BY <1>1, <1>4
<1> QED
  BY <1>1, <1>3, <1>5, <1>6, <1>7 DEF RunInv, Running

\* What goes on around a run.
LEMMA WorldKeepsRun ==
  ASSUME TypeOK, RunInv, Publish \/ Withdraw \/ Ask \/ Serve
  PROVE  TypeOK' /\ RunInv'
<1>1. /\ newest \in Nat /\ MaxProjects \in Nat /\ newest <= MaxProjects /\ run \in Runs
      /\ listed \subseteq 1 .. newest /\ known \subseteq 1 .. newest
      /\ queue \subseteq 1 .. newest /\ run.hits \subseteq 1 .. newest
      /\ run.fresh \cup run.bad \subseteq run.hits
  BY SearchAssumption DEF TypeOK, RunInv
<1>2. CASE Publish
  <2>1. /\ newest' = newest + 1 /\ newest < MaxProjects /\ listed' = listed \cup {newest + 1}
        /\ UNCHANGED <<source, known, queue, run, steady, faults>>
    BY <1>2 DEF Publish
  <2>2. 1 .. newest \subseteq 1 .. newest' /\ newest + 1 \in 1 .. newest' /\ newest' \in Nat
        /\ newest' <= MaxProjects
    BY <1>1, <2>1
  <2>3. TypeOK'
    BY <1>1, <2>1, <2>2 DEF TypeOK
  <2>4. listed \subseteq listed'
    BY <2>1
  <2> QED
    BY <1>1, <2>1, <2>2, <2>3, <2>4 DEF RunInv, Running, Turned, Fetched
<1>3. CASE Serve
  <2>1. /\ queue' \subseteq queue /\ known' \subseteq known \cup listed
        /\ UNCHANGED <<source, newest, listed, run, steady, faults>>
    BY <1>3 DEF Serve
  <2>2. TypeOK'
    BY <1>1, <2>1 DEF TypeOK
  <2> QED
    BY <2>1, <2>2 DEF RunInv, Running, Turned, Fetched
<1>4. CASE Withdraw \/ Ask
  <2>1. /\ Upset(run) /\ listed' \subseteq listed /\ known' \subseteq known \cup listed
        /\ UNCHANGED <<source, newest, queue, faults>>
    BY <1>4 DEF Withdraw, Ask
  <2>2. TypeOK'
    BY <1>1, <2>1, UpsetRun DEF TypeOK
  <2> QED
    BY <1>1, <2>1, <2>2, UpsetRun DEF RunInv, Running, Turned, Fetched
<1> QED
  BY <1>2, <1>3, <1>4

\* What each step makes of the run.
LEMMA BeginRun ==
  ASSUME TypeOK, RunInv, Begin
  PROVE  /\ run.stage = "idle" /\ run' \in Runs /\ run'.stage = "fetch"
         /\ run'.offset = 0 /\ run'.pages = 0 /\ ~ run'.ascending /\ run'.hits = {}
         /\ run'.fresh = {} /\ run'.bad = {} /\ run'.shown = {} /\ ~ run'.twice
         /\ run'.calm => run'.full /\ run'.limit = 0
         /\ run'.full => run'.seen = listed
         /\ UNCHANGED <<source, newest, listed, known, queue, steady, faults>>
<1>1. PICK full \in BOOLEAN, limit \in {0, 1} :
        run' = [NoRun EXCEPT !.stage = "fetch", !.full = full, !.limit = limit,
                             !.calm = full /\ limit = 0,
                             !.seen = IF full THEN listed ELSE {}]
  BY DEF Begin
<1> DEFINE calm == full /\ limit = 0
           seen == IF full THEN listed ELSE {}
<1>2. listed \in SUBSET Projects
  BY SearchAssumption DEF TypeOK, RunInv, Projects
<1>3. /\ calm \in BOOLEAN /\ (calm => full /\ limit = 0) /\ limit \in Nat
      /\ seen \in SUBSET Projects /\ (full => seen = listed)
  BY <1>2
<1>4. run' = [NoRun EXCEPT !.stage = "fetch", !.full = full, !.limit = limit,
                           !.calm = calm, !.seen = seen]
  BY <1>1
<1> HIDE DEF calm, seen
<1>5. /\ run'.stage = "fetch" /\ run'.full = full /\ run'.limit = limit
      /\ run'.calm = calm /\ run'.seen = seen
      /\ run'.offset = 0 /\ run'.pages = 0 /\ run'.ascending = FALSE /\ run'.hits = {}
      /\ run'.fresh = {} /\ run'.bad = {} /\ run'.shown = {} /\ run'.twice = FALSE
  BY <1>4 DEF NoRun
<1>6. run' \in Runs
  BY <1>3, <1>4 DEF NoRun, Runs
<1>7. /\ run.stage = "idle"
      /\ UNCHANGED <<source, newest, listed, known, queue, steady, faults>>
  BY DEF Begin, Running
<1> QED
  BY <1>3, <1>5, <1>6, <1>7

LEMMA FetchRun ==
  ASSUME run \in Runs, Hits \subseteq Projects, FetchPage
  PROVE  /\ run.stage = "fetch" /\ Hits # {} /\ Reachable(run.offset) /\ ~ LimitReached
         /\ run' \in Runs /\ run'.stage = "sync" /\ run'.hits = Hits
         /\ run'.met = (Existing(Hits) # {}) /\ run'.fresh = Hits \ Existing(Hits)
         /\ run'.bad = run.bad
         /\ run'.shown = (IF run.full THEN {} ELSE run.shown \cup Hits)
         /\ run'.twice = (run.twice \/ Hits \cap run.shown # {})
         /\ run'.full = run.full /\ run'.limit = run.limit /\ run'.ascending = run.ascending
         /\ run'.offset = run.offset /\ run'.pages = run.pages /\ run'.seen = run.seen
         /\ run'.calm = run.calm
         /\ UNCHANGED <<source, newest, listed, known, queue, steady, faults>>
<1>1. run' = [run EXCEPT !.stage = "sync", !.hits = Hits,
                         !.met = Existing(Hits) # {}, !.fresh = Hits \ Existing(Hits),
                         !.shown = IF run.full THEN {} ELSE @ \cup Hits,
                         !.twice = @ \/ Hits \cap run.shown # {}]
  BY DEF FetchPage
<1> DEFINE met   == Existing(Hits) # {}
           fresh == Hits \ Existing(Hits)
           shown == IF run.full THEN {} ELSE run.shown \cup Hits
           twice == run.twice \/ Hits \cap run.shown # {}
<1>2. /\ met \in BOOLEAN /\ fresh \in SUBSET Projects /\ shown \in SUBSET Projects
      /\ twice \in BOOLEAN /\ Hits \in SUBSET Projects
  BY RunFields
<1>3. run' = [run EXCEPT !.stage = "sync", !.hits = Hits, !.met = met, !.fresh = fresh,
                         !.shown = shown, !.twice = twice]
  BY <1>1
<1> HIDE DEF met, fresh, shown, twice
<1>4. run' \in Runs
  BY <1>2, <1>3 DEF Runs
<1>5. /\ run'.stage = "sync" /\ run'.hits = Hits /\ run'.met = met /\ run'.fresh = fresh
      /\ run'.bad = run.bad /\ run'.shown = shown /\ run'.twice = twice
      /\ run'.full = run.full /\ run'.limit = run.limit /\ run'.ascending = run.ascending
      /\ run'.offset = run.offset /\ run'.pages = run.pages /\ run'.seen = run.seen
      /\ run'.calm = run.calm
  BY <1>3 DEF Runs
<1> QED
  BY <1>4, <1>5 DEF FetchPage, met, fresh, shown, twice

\* The steps within a page.
LEMMA PageRun ==
  ASSUME TypeOK, Sync \/ SyncFails \/ Requeue
  PROVE  /\ run.stage = "sync" /\ run'.stage \in {"sync", "turn"} /\ run' \in Runs
         /\ run'.hits = run.hits /\ run'.met = run.met /\ run'.shown = run.shown
         /\ run'.twice = run.twice /\ run'.full = run.full /\ run'.limit = run.limit
         /\ run'.ascending = run.ascending /\ run'.offset = run.offset
         /\ run'.pages = run.pages /\ run'.seen = run.seen /\ run'.calm = run.calm
         /\ run'.fresh \cup run'.bad \subseteq run.fresh \cup run.bad
         /\ run'.stage = "turn" => run'.fresh = {} /\ run'.bad = {}
         /\ known' \subseteq known \cup (listed \cap run.fresh)
         /\ queue' \subseteq queue \cup run.bad
         /\ Handled \cap listed \subseteq Handled' /\ faults' \in Nat
         /\ UNCHANGED <<source, newest, listed, steady>>
<1>1. run \in Runs /\ run.fresh \subseteq Projects /\ run.bad \subseteq Projects /\ faults \in Nat
  BY RunFields DEF TypeOK
<1>2. CASE Sync
  <2>1. PICK p \in run.fresh : /\ known' = known \cup ({p} \cap listed)
                               /\ run' = [run EXCEPT !.fresh = @ \ {p}]
    BY <1>2 DEF Sync
  <2>2. run'.fresh = run.fresh \ {p} /\ run'.bad = run.bad /\ run'.stage = run.stage
    BY <1>1, <2>1 DEF Runs
  <2>3. /\ run' \in Runs
        /\ run'.hits = run.hits /\ run'.met = run.met /\ run'.shown = run.shown
        /\ run'.twice = run.twice /\ run'.full = run.full /\ run'.limit = run.limit
        /\ run'.ascending = run.ascending /\ run'.offset = run.offset
        /\ run'.pages = run.pages /\ run'.seen = run.seen /\ run'.calm = run.calm
    BY <1>1, <2>1 DEF Runs
  <2>4. run.stage = "sync" /\ UNCHANGED <<source, newest, listed, queue, steady, faults>>
    BY <1>2 DEF Sync
  <2>5. Handled \cap listed \subseteq Handled'
    BY <2>1, <2>2, <2>4 DEF Handled
  <2> QED
    BY <1>1, <2>1, <2>2, <2>3, <2>4, <2>5
<1>3. CASE SyncFails
  <2>1. PICK p \in run.fresh : run' = [run EXCEPT !.fresh = @ \ {p}, !.bad = @ \cup {p}]
    BY <1>3 DEF SyncFails
  <2>2. run'.fresh = run.fresh \ {p} /\ run'.bad = run.bad \cup {p} /\ run'.stage = run.stage
    BY <1>1, <2>1 DEF Runs
  <2>3. /\ run' \in Runs
        /\ run'.hits = run.hits /\ run'.met = run.met /\ run'.shown = run.shown
        /\ run'.twice = run.twice /\ run'.full = run.full /\ run'.limit = run.limit
        /\ run'.ascending = run.ascending /\ run'.offset = run.offset
        /\ run'.pages = run.pages /\ run'.seen = run.seen /\ run'.calm = run.calm
    BY <1>1, <2>1 DEF Runs
  <2>4. run.stage = "sync" /\ UNCHANGED <<source, newest, listed, known, queue, steady>>
        /\ faults' = faults + 1
    BY <1>3 DEF SyncFails
  <2>5. Handled \cap listed \subseteq Handled'
    BY <2>1, <2>2, <2>4 DEF Handled
  <2> QED
    BY <1>1, <2>1, <2>2, <2>3, <2>4, <2>5
<1>4. CASE Requeue
  <2>1. run' = [run EXCEPT !.stage = "turn", !.bad = {}] /\ queue' = queue \cup run.bad
    BY <1>4 DEF Requeue
  <2>2. run'.fresh = run.fresh /\ run'.bad = {} /\ run'.stage = "turn"
    BY <1>1, <2>1 DEF Runs
  <2>3. /\ run' \in Runs
        /\ run'.hits = run.hits /\ run'.met = run.met /\ run'.shown = run.shown
        /\ run'.twice = run.twice /\ run'.full = run.full /\ run'.limit = run.limit
        /\ run'.ascending = run.ascending /\ run'.offset = run.offset
        /\ run'.pages = run.pages /\ run'.seen = run.seen /\ run'.calm = run.calm
    BY <1>1, <2>1 DEF Runs
  <2>4. /\ run.stage = "sync" /\ run.fresh = {}
        /\ UNCHANGED <<source, newest, listed, known, steady, faults>>
    BY <1>4 DEF Requeue
  <2>5. Handled \cap listed \subseteq Handled'
    BY <2>1, <2>2, <2>4 DEF Handled
  <2> QED
    BY <1>1, <2>1, <2>2, <2>3, <2>4, <2>5
<1> QED
  BY <1>2, <1>3, <1>4

LEMMA TurnRun ==
  ASSUME TypeOK, RunInv, Turn
  PROVE  /\ run.stage = "turn" /\ run'.stage = "fetch" /\ ~ LastPage /\ ~ StopsAt
         /\ run' \in Runs
         /\ run'.offset = run.offset + PageSize /\ run'.pages = run.pages + 1
         /\ run'.hits = run.hits /\ run'.shown = run.shown
         /\ run'.twice = run.twice /\ run'.full = run.full /\ run'.limit = run.limit
         /\ run'.ascending = run.ascending /\ run'.seen = run.seen /\ run'.calm = run.calm
         /\ run'.fresh = {} /\ run'.bad = {}
         /\ UNCHANGED <<source, newest, listed, known, queue, steady, faults>>
<1>1. run' = [run EXCEPT !.stage = "fetch", !.offset = @ + PageSize, !.pages = @ + 1]
  BY DEF Turn
<1>2. run \in Runs /\ run.offset \in Nat /\ run.pages \in Nat /\ PageSize \in Nat
  BY RunFields, SearchAssumption DEF TypeOK
<1>3. run.offset + PageSize \in Nat /\ run.pages + 1 \in Nat
  BY <1>2
<1>4. /\ run' \in Runs /\ run'.stage = "fetch"
      /\ run'.offset = run.offset + PageSize /\ run'.pages = run.pages + 1
      /\ run'.hits = run.hits /\ run'.shown = run.shown
      /\ run'.twice = run.twice /\ run'.full = run.full /\ run'.limit = run.limit
      /\ run'.ascending = run.ascending /\ run'.seen = run.seen /\ run'.calm = run.calm
      /\ run'.fresh = run.fresh /\ run'.bad = run.bad
  BY <1>1, <1>2, <1>3 DEF Runs
<1>5. run.stage = "turn" /\ ~ LastPage /\ ~ StopsAt
      /\ UNCHANGED <<source, newest, listed, known, queue, steady, faults>>
  BY DEF Turn
<1>6. run.fresh = {} /\ run.bad = {}
  BY <1>5 DEF RunInv
<1> QED
  BY <1>4, <1>5, <1>6

LEMMA RunStepKeepsRun ==
  ASSUME TypeOK, RunInv, Begin \/ FetchPage \/ Sync \/ SyncFails \/ Requeue \/ Turn \/ Abort
  PROVE  TypeOK' /\ RunInv'
<1>1. /\ newest \in Nat /\ MaxProjects \in Nat /\ newest <= MaxProjects /\ run \in Runs
      /\ listed \subseteq 1 .. newest /\ known \subseteq 1 .. newest
      /\ queue \subseteq 1 .. newest /\ run.hits \subseteq 1 .. newest
      /\ run.fresh \cup run.bad \subseteq run.hits
      /\ PageSize \in Nat /\ SearchLimit \in Nat /\ run.offset \in Nat /\ run.pages \in Nat
      /\ faults \in Nat
  BY SearchAssumption, RunFields DEF TypeOK, RunInv
<1>2. PageSize * 0 = 0 /\ PageSize * (run.pages + 1) = PageSize * run.pages + PageSize
  BY <1>1
<1>3. CASE Begin
  <2>1. TypeOK'
    BY <1>1, <1>3, BeginRun DEF TypeOK
  <2>2. Turned' = 0
    BY <1>3, BeginRun DEF Turned, Fetched
  <2> QED
    BY <1>1, <1>2, <1>3, <2>1, <2>2, BeginRun DEF RunInv, Running
<1>4. CASE FetchPage
  <2>1. Hits \subseteq listed /\ Hits \subseteq Projects
    <3>1. Hits \subseteq listed
      BY DEF Hits
    <3>2. listed \subseteq Projects
      BY <1>1 DEF Projects
    <3> QED
      BY <3>1, <3>2
  <2>2. TypeOK'
    <3>1. run'.fresh \cup run'.bad \subseteq run'.hits
      BY <1>4, <2>1, <1>1, FetchRun DEF RunInv
    <3> QED
      BY <1>1, <1>4, <2>1, <3>1, FetchRun DEF TypeOK
  <2>3. source = "curseforge" => Turned' <= SearchLimit
    BY <1>1, <1>4, <2>1, FetchRun DEF Turned, Fetched, Reachable
  <2>4. run'.hits \subseteq 1 .. newest /\ (~ run'.full => run'.hits \subseteq run'.shown)
    BY <1>1, <1>4, <2>1, FetchRun
  <2> QED
    BY <1>1, <1>4, <2>1, <2>2, <2>3, <2>4, FetchRun DEF RunInv, Running
<1>5. CASE Sync \/ SyncFails \/ Requeue
  <2>1. TypeOK'
    <3>1. known' \subseteq 1 .. newest /\ queue' \subseteq 1 .. newest
      BY <1>1, <1>5, PageRun
    <3>2. run'.fresh \cup run'.bad \subseteq run'.hits
      BY <1>1, <1>5, PageRun
    <3> QED
      BY <1>1, <1>5, <3>1, <3>2, PageRun DEF TypeOK
  <2>2. Turned' = Turned
    BY <1>5, PageRun DEF Turned, Fetched
  <2>3. run'.stage # "sync" => run'.fresh = {} /\ run'.bad = {}
    BY <1>5, PageRun
  <2> QED
    BY <1>5, <2>1, <2>2, <2>3, PageRun DEF RunInv, Running
<1>6. CASE Turn
  <2>1. TypeOK'
    BY <1>1, <1>6, TurnRun DEF TypeOK
  <2>2. Turned' = Turned
    BY <1>6, TurnRun DEF Turned, Fetched
  <2>3. run'.offset = PageSize * run'.pages
    BY <1>1, <1>2, <1>6, TurnRun DEF RunInv
  <2> QED
    BY <1>1, <1>6, <2>1, <2>2, <2>3, TurnRun DEF RunInv, Running
<1>7. CASE Abort
  <2>1. /\ run' = NoRun /\ steady' = FALSE /\ faults' = faults + 1
        /\ UNCHANGED <<source, newest, listed, known, queue>>
    BY <1>7 DEF Abort
  <2>2. TypeOK'
    <3>1. run' \in Runs /\ run'.fresh = {} /\ run'.bad = {}
      BY <2>1, NoRunFields
    <3>2. run'.fresh \cup run'.bad \subseteq run'.hits
      BY <3>1
    <3>3. source \in Sources /\ faults' \in Nat
      BY <1>1, <2>1 DEF TypeOK
    <3>4. steady' \in BOOLEAN
      BY <2>1, Zenon
    <3> QED
      BY <1>1, <2>1, <3>1, <3>2, <3>3, <3>4 DEF TypeOK
  <2>3. Turned' = 0
    BY <2>1, NoRunFields DEF Turned, Fetched
  <2> QED
    BY <1>1, <1>2, <2>1, <2>2, <2>3, NoRunFields DEF RunInv, Running
<1> QED
  BY <1>3, <1>4, <1>5, <1>6, <1>7

\* A step that ends a list, or one of the two orders.
LEMMA Enders ==
  ASSUME PastReach \/ ReachLimit \/ NoMorePages \/ Stop
  PROVE  /\ UNCHANGED <<source, newest, listed, known, queue, faults>>
         /\ \E frontier \in BOOLEAN :
              /\ ListDone(frontier)
              /\ PastReach \/ ReachLimit => ~ frontier
              /\ Stop => frontier = (LastPage \/ ~ run.twice)
<1>1. CASE PastReach \/ ReachLimit
  <2>1. ListDone(FALSE) /\ run.stage = "fetch"
    BY <1>1 DEF PastReach, ReachLimit
  <2>2. ~ Stop
    BY <2>1 DEF Stop
  <2> QED
    BY <1>1, <2>1, <2>2 DEF PastReach, ReachLimit
<1>2. CASE NoMorePages
  <2>1. /\ ListDone(TRUE) /\ run.stage = "fetch" /\ Reachable(run.offset) /\ ~ LimitReached
    BY <1>2 DEF NoMorePages
  <2>2. ~ Stop /\ ~ PastReach /\ ~ ReachLimit
    BY <2>1 DEF Stop, PastReach, ReachLimit
  <2> QED
    BY <1>2, <2>1, <2>2 DEF NoMorePages
<1>3. CASE Stop
  <2>1. ListDone(LastPage \/ ~ run.twice) /\ run.stage = "turn"
    BY <1>3 DEF Stop
  <2>2. ~ PastReach /\ ~ ReachLimit
    BY <2>1 DEF PastReach, ReachLimit
  <2>3. (LastPage \/ ~ run.twice) \in BOOLEAN
    OBVIOUS
  <2> QED
    BY <1>3, <2>1, <2>2, <2>3 DEF Stop
<1> QED
  BY <1>1, <1>2, <1>3

LEMMA AlwaysTyped == Spec => [](TypeOK /\ RunInv)
<1>1. Init => TypeOK /\ RunInv
  <2> SUFFICES ASSUME Init PROVE TypeOK /\ RunInv
    OBVIOUS
  <2>1. newest \in Nat /\ newest <= MaxProjects /\ PageSize * 0 = 0 /\ SearchLimit \in Nat
    BY SearchAssumption DEF Init, Projects
  <2>2. TypeOK
    BY <2>1, NoRunFields DEF Init, TypeOK
  <2>3. Turned = 0
    BY NoRunFields DEF Init, Turned, Fetched
  <2> QED
    BY <2>1, <2>2, <2>3, NoRunFields DEF Init, RunInv, Running
<1>2. TypeOK /\ RunInv /\ [Next]_vars => (TypeOK /\ RunInv)'
  <2> SUFFICES ASSUME TypeOK, RunInv, [Next]_vars PROVE TypeOK' /\ RunInv'
    OBVIOUS
  <2>1. CASE UNCHANGED vars
    BY <2>1 DEF vars, TypeOK, RunInv, Running, Turned, Fetched
  <2>2. CASE PastReach \/ ReachLimit \/ NoMorePages \/ Stop
    <3>1. /\ UNCHANGED <<source, newest, listed, known, queue, faults>>
          /\ \E frontier \in BOOLEAN : ListDone(frontier)
      BY <2>2, Enders
    <3> QED
      BY <3>1, ListDoneKeeps
  <2> QED
    BY <2>1, <2>2, WorldKeepsRun, RunStepKeepsRun DEF Next
<1> QED
  BY <1>1, <1>2, PTL DEF Spec

\* The types: no project, page or run is ever outside of what there is.
THEOREM TypeCorrect == Spec => []TypeOK
<1>1. TypeOK /\ RunInv => TypeOK
  OBVIOUS
<1> QED
  BY <1>1, AlwaysTyped, PTL

-----------------------------------------------------------------------------
(* The inductive invariant: what goes on around a run *)

\* The positions of the module are those of the lemmas on lists.
LEMMA Ranks ==
  /\ \A p : Rank(p) = Pos(listed, run.ascending, p) /\ Newer(p) = Pos(listed, FALSE, p)
  /\ Hits = Page(listed, run.ascending, run.offset)
<1>1. ASSUME NEW p PROVE Rank(p) = Pos(listed, run.ascending, p)
  BY DEF Rank, Pos, Ahead, Precedes
<1>2. ASSUME NEW p PROVE Newer(p) = Pos(listed, FALSE, p)
  BY DEF Newer, Pos, Ahead, Precedes
<1>3. Hits = Page(listed, run.ascending, run.offset)
  BY <1>1 DEF Hits, Page
<1> QED
  BY <1>1, <1>2, <1>3

LEMMA RanksNext ==
  \A p : Rank(p)' = Pos(listed', run'.ascending, p) /\ Newer(p)' = Pos(listed', FALSE, p)
<1>1. ASSUME NEW p PROVE Rank(p)' = Pos(listed', run'.ascending, p)
  BY DEF Rank, Pos, Ahead, Precedes
<1>2. ASSUME NEW p PROVE Newer(p)' = Pos(listed', FALSE, p)
  BY DEF Newer, Pos, Ahead, Precedes
<1> QED
  BY <1>1, <1>2

\* What the proofs need of the types.
LEMMA Numbers ==
  ASSUME TypeOK, RunInv
  PROVE  /\ newest \in Nat /\ listed \in SUBSET (1 .. newest) /\ Handled \subseteq 1 .. newest
         /\ run \in Runs /\ run.full \in BOOLEAN /\ run.ascending \in BOOLEAN
         /\ run.calm \in BOOLEAN /\ run.offset \in Nat /\ run.pages \in Nat
         /\ PageSize \in Nat /\ PageSize > 0 /\ SearchLimit \in Nat /\ Turned \in Nat
         /\ Cardinality(listed) \in Nat
         /\ \A p \in listed : Rank(p) \in Nat /\ Newer(p) \in Nat
<1>1. /\ newest \in Nat /\ listed \in SUBSET (1 .. newest) /\ run \in Runs
      /\ run.full \in BOOLEAN /\ run.ascending \in BOOLEAN /\ run.calm \in BOOLEAN
      /\ run.offset \in Nat /\ run.pages \in Nat
      /\ PageSize \in Nat /\ PageSize > 0 /\ SearchLimit \in Nat
  BY RunFields, SearchAssumption DEF TypeOK
<1>2. Handled \subseteq 1 .. newest
  BY DEF TypeOK, RunInv, Handled
<1>3. Turned \in Nat
  BY <1>1 DEF Turned
<1>4. Cardinality(listed) \in Nat
  BY <1>1, Counted
<1>5. \A p \in listed : Rank(p) \in Nat /\ Newer(p) \in Nat
  BY <1>1, Ranks, Positions
<1> QED
  BY <1>1, <1>2, <1>3, <1>4, <1>5

\* A step by which projects are handled in another way than before.
LEMMA QuietKeepsOrder ==
  ASSUME OrderInv, UNCHANGED <<source, listed, steady>>,
         run'.full = run.full, run'.calm = run.calm, run'.ascending = run.ascending,
         run'.offset = run.offset, run'.hits = run.hits, run'.met = run.met,
         run'.seen = run.seen, run'.shown = run.shown, run'.twice = run.twice,
         Fetched' = Fetched, Running' = Running,
         Handled' \subseteq Handled, Handled \cap listed \subseteq Handled',
         Running /\ ~ run.full =>
           (known' \cup queue') \ run.shown \subseteq (known \cup queue) \ run.shown,
         run.calm => run.seen \subseteq listed
  PROVE  OrderInv'
<1>1. Unseen' = Unseen
  BY DEF Unseen
<1>2. \A p : Rank(p)' = Rank(p) /\ Newer(p)' = Newer(p)
  BY Ranks, RanksNext
<1>3. Turned' = Turned /\ LastPage' = LastPage
  BY DEF Turned, LastPage
<1>4. Gapless => Gapless'
  BY <1>1 DEF Gapless
<1>5. DescendingInv => DescendingInv'
  BY <1>1, <1>2, <1>3, <1>4 DEF DescendingInv
<1>6. Running /\ ~ run.full /\ FrontierInv => FrontierInv'
  BY <1>1, <1>4 DEF FrontierInv
<1>7. run.calm /\ FullInv => FullInv'
  BY <1>2, <1>3 DEF FullInv
<1>8. AscendingInv => AscendingInv'
  BY <1>1, <1>2, <1>3, <1>4 DEF AscendingInv
<1> QED
  BY <1>4, <1>5, <1>6, <1>7, <1>8 DEF OrderInv

\* A project published is not handled, and is newer than all that are.
LEMMA PublishKeepsOrder ==
  ASSUME TypeOK, IInv, Publish
  PROVE  OrderInv'
<1> DEFINE new == newest + 1
<1>1. /\ listed' = listed \cup {new}
      /\ UNCHANGED <<source, known, queue, run, steady, faults>>
  BY DEF Publish
<1>2. /\ newest \in Nat /\ listed \in SUBSET (1 .. newest) /\ Handled \subseteq 1 .. newest
      /\ Turned \in Nat /\ Cardinality(listed) \in Nat /\ run.ascending \in BOOLEAN
      /\ \A p \in listed : Rank(p) \in Nat /\ Newer(p) \in Nat
  BY Numbers DEF IInv
<1>3. Handled' = Handled /\ Turned' = Turned /\ LastPage' = LastPage /\ Fetched' = Fetched
      /\ Running' = Running
  BY <1>1 DEF Handled, Turned, LastPage, Fetched, Running
<1>4. Unseen' = Unseen \cup {new} /\ Unseen \subseteq listed
  BY <1>1, <1>2, <1>3 DEF Unseen
<1>5. \A q \in Handled : new > q
  BY <1>2
<1>6. /\ Cardinality(listed') = Cardinality(listed) + 1
      /\ Pos(listed', TRUE, new) = Cardinality(listed)
      /\ \A p \in listed : /\ Pos(listed', TRUE, p) = Pos(listed, TRUE, p)
                           /\ Pos(listed', FALSE, p) = Pos(listed, FALSE, p) + 1
  BY <1>1, <1>2, PublishMoves
<1>7. /\ \A p \in listed : Newer(p)' = Newer(p) + 1
      /\ \A p \in listed : Rank(p)' = IF run.ascending THEN Rank(p) ELSE Rank(p) + 1
      /\ run.ascending => \A p : p = new => Rank(p)' = Cardinality(listed)
  <2>1. CASE run.ascending
    <3>1. run.ascending = TRUE
      BY <1>2, <2>1
    <3> QED
      BY <1>1, <1>6, <3>1, Ranks, RanksNext
  <2>2. CASE ~ run.ascending
    <3>1. run.ascending = FALSE
      BY <1>2, <2>2
    <3> QED
      BY <1>1, <1>6, <3>1, Ranks, RanksNext
  <2> QED
    BY <2>1, <2>2
<1>8. Gapless => Gapless'
  BY <1>3, <1>4, <1>5 DEF Gapless
<1>9. ASSUME DescendingInv, ~ run.ascending PROVE DescendingInv'
  <2>1. ASSUME NEW p \in Unseen', Rank(p)' < Turned', NEW q \in Handled' PROVE p > q
    <3>1. CASE p = new
      BY <1>3, <1>5, <3>1
    <3>2. CASE p \in Unseen
      <4>1. Rank(p)' = Rank(p) + 1 /\ Rank(p) \in Nat
        BY <1>2, <1>4, <1>7, <1>9, <3>2
      <4>2. Rank(p) < Turned
        BY <1>2, <1>3, <2>1, <4>1
      <4> QED
        BY <1>3, <1>9, <2>1, <3>2, <4>2 DEF DescendingInv
    <3> QED
      BY <1>4, <3>1, <3>2
  <2> QED
    BY <1>3, <1>8, <1>9, <2>1 DEF DescendingInv
<1>10. ASSUME FrontierInv PROVE FrontierInv'
  <2>1. \A q \in known \cup queue : new > q
    BY <1>5 DEF Handled
  <2> QED
    BY <1>1, <1>3, <1>4, <1>8, <1>10, <2>1 DEF FrontierInv
<1>11. ASSUME FullInv, run.seen \subseteq listed PROVE FullInv'
  <2>1. ASSUME NEW p \in run.seen
        PROVE  p \in Handled \/ Newer(p)' >= (IF run.ascending THEN Reach ELSE Turned)
    <3>1. Newer(p)' = Newer(p) + 1 /\ Newer(p) \in Nat
      BY <1>2, <1>7, <1>11
    <3>2. Reach \in Int
      BY SearchAssumption DEF Reach
    <3>3. p \in Handled \/ Newer(p) >= (IF run.ascending THEN Reach ELSE Turned)
      BY <1>11 DEF FullInv
    <3> QED
      BY <1>2, <3>1, <3>2, <3>3
  <2>2. Reach' = Reach
    BY DEF Reach
  <2> QED
    BY <1>1, <1>3, <1>11, <2>1, <2>2 DEF FullInv
<1>12. ASSUME AscendingInv, run.ascending PROVE AscendingInv'
  <2>1. ASSUME NEW p \in Unseen', Newer(p)' < Reach, NEW q \in Handled PROVE p > q
    <3>1. CASE p = new
      BY <1>5, <3>1
    <3>2. CASE p \in Unseen
      <4>1. Newer(p)' = Newer(p) + 1 /\ Newer(p) \in Nat /\ Reach \in Int
        BY <1>2, <1>4, <1>7, <3>2, SearchAssumption DEF Reach
      <4>2. Newer(p) < Reach
        BY <2>1, <4>1
      <4> QED
        BY <1>12, <2>1, <3>2, <4>2 DEF AscendingInv
    <3> QED
      BY <1>4, <3>1, <3>2
  <2>2. CASE Fetched /\ LastPage
    <3>1. Gapless'
      BY <1>8, <1>12, <2>2 DEF AscendingInv
    <3> QED
      BY <1>3, <2>1, <2>2, <3>1 DEF AscendingInv, Reach
  <2>3. CASE ~ (Fetched /\ LastPage)
    <3>1. Turned <= Cardinality(listed) /\ \A p \in Unseen : Turned <= Rank(p)
      BY <1>12, <2>3 DEF AscendingInv
    <3>2. Turned <= Cardinality(listed')
      BY <1>2, <1>6, <3>1
    <3>3. ASSUME NEW p \in Unseen' PROVE Turned <= Rank(p)'
      <4>1. CASE p = new
        BY <1>7, <1>12, <3>1, <4>1
      <4>2. CASE p \in Unseen
        BY <1>4, <1>7, <1>12, <3>1, <4>2
      <4> QED
        BY <1>4, <4>1, <4>2
    <3> QED
      BY <1>3, <2>1, <2>3, <3>2, <3>3 DEF AscendingInv, Reach
  <2> QED
    BY <2>2, <2>3
<1>13. /\ run.ascending => run.full
       /\ run.calm => run.seen \subseteq listed
  BY DEF IInv, RunInv
<1> QED
  BY <1>1, <1>3, <1>8, <1>9, <1>10, <1>11, <1>12, <1>13 DEF IInv, OrderInv

-----------------------------------------------------------------------------
(* The inductive invariant: a page *)

\* A page makes handled what it shows, and the rest of the list lies before it or
\* behind it.
LEMMA PageShown ==
  ASSUME TypeOK, IInv, FetchPage
  PROVE  /\ Handled' = Handled \cup Hits /\ Unseen' = Unseen \ Hits
         /\ Handled = known \cup queue /\ Turned = run.offset
         /\ Turned' = run.offset + PageSize /\ LastPage' = (Cardinality(Hits) < PageSize)
         /\ Fetched' /\ Running /\ Running' /\ Hits \subseteq listed /\ Hits \subseteq Projects
         /\ \A p : Rank(p)' = Rank(p) /\ Newer(p)' = Newer(p)
         /\ \A p \in listed \ Hits :
              Rank(p) < run.offset \/ run.offset + PageSize <= Rank(p)
         /\ \A p \in Hits : run.offset <= Rank(p) /\ Rank(p) < run.offset + PageSize
         /\ Cardinality(Hits) < PageSize =>
              \A p \in listed : Rank(p) < run.offset + PageSize
         /\ ~ (Cardinality(Hits) < PageSize) =>
              run.offset + PageSize <= Cardinality(listed)
<1>1. /\ newest \in Nat /\ listed \in SUBSET (1 .. newest) /\ run \in Runs
      /\ run.ascending \in BOOLEAN /\ run.offset \in Nat /\ PageSize \in Nat
      /\ \A p \in listed : Rank(p) \in Nat
  BY Numbers DEF IInv
<1>2. Hits \subseteq listed
  BY DEF Hits
<1>3. Hits \subseteq Projects
  BY <1>1, <1>2, SearchAssumption DEF IInv, RunInv, Projects
<1>4. /\ run.stage = "fetch" /\ run'.stage = "sync" /\ run'.hits = Hits
      /\ run'.fresh = Hits \ Existing(Hits) /\ run'.bad = run.bad
      /\ run'.ascending = run.ascending /\ run'.offset = run.offset
      /\ UNCHANGED <<listed, known, queue>>
  BY <1>1, <1>3, FetchRun
<1>5. run.fresh = {} /\ run.bad = {}
  BY <1>4 DEF IInv, RunInv
<1>6. Handled = known \cup queue
  BY <1>5 DEF Handled
<1>7. Handled' = Handled \cup Hits
  BY <1>4, <1>5, <1>6 DEF Handled, Existing
<1>8. Unseen' = Unseen \ Hits
  BY <1>4, <1>7 DEF Unseen
<1>9. /\ Turned = run.offset /\ Turned' = run.offset + PageSize
      /\ LastPage' = (Cardinality(Hits) < PageSize) /\ Fetched' /\ Running /\ Running'
  BY <1>4 DEF Turned, Fetched, LastPage, Running
<1>10. \A p : Rank(p)' = Rank(p) /\ Newer(p)' = Newer(p)
  BY <1>4, Ranks, RanksNext
<1>11. \A p \in listed \ Hits :
         Rank(p) < run.offset \/ run.offset + PageSize <= Rank(p)
  BY <1>1 DEF Hits
<1>12. \A p \in Hits : run.offset <= Rank(p) /\ Rank(p) < run.offset + PageSize
  BY DEF Hits
<1>13. ASSUME Cardinality(Hits) < PageSize, NEW p \in listed
       PROVE  Rank(p) < run.offset + PageSize
  BY <1>1, <1>13, Ranks, ShortPage
<1>14. ASSUME ~ (Cardinality(Hits) < PageSize)
       PROVE  run.offset + PageSize <= Cardinality(listed)
  BY <1>1, <1>14, Ranks, FullPage
<1> QED
  BY <1>2, <1>3, <1>6, <1>7, <1>8, <1>9, <1>10, <1>11, <1>12, <1>13, <1>14

\* Of two listed projects the one with the smaller position comes first.
LEMMA RankOrders ==
  ASSUME TypeOK, RunInv, NEW p \in listed, NEW q \in listed, Rank(p) < Rank(q)
  PROVE  IF run.ascending THEN p < q ELSE p > q
<1>1. /\ newest \in Nat /\ listed \in SUBSET (1 .. newest) /\ run.ascending \in BOOLEAN
      /\ Rank(p) \in Nat /\ Rank(q) \in Nat
  BY Numbers
<1>2. /\ Precedes(run.ascending, q, p) => Rank(q) < Rank(p)
      /\ q = p \/ Precedes(run.ascending, q, p) \/ Precedes(run.ascending, p, q)
  BY <1>1, Ranks, Positions
<1>3. Precedes(run.ascending, p, q)
  BY <1>1, <1>2
<1> QED
  BY <1>3 DEF Precedes

LEMMA FetchDescends ==
  ASSUME TypeOK, IInv, FetchPage, ~ run.ascending, DescendingInv
  PROVE  DescendingInv'
<1>1. ASSUME NEW p \in Unseen', Rank(p) < run.offset + PageSize, NEW q \in Handled'
      PROVE  p > q
  <2>1. p \in Unseen /\ p \in listed /\ p \notin Hits
    BY <1>1, PageShown DEF Unseen
  <2>2. Rank(p) < run.offset /\ Rank(p) \in Nat /\ run.offset \in Nat /\ PageSize \in Nat
    BY <1>1, <2>1, PageShown, Numbers DEF IInv
  <2>3. CASE q \in Handled
    BY <2>1, <2>2, <2>3, PageShown DEF DescendingInv
  <2>4. CASE q \in Hits
    <3>1. q \in listed /\ run.offset <= Rank(q) /\ Rank(q) \in Nat
      BY <2>4, PageShown, Numbers DEF IInv
    <3>2. Rank(p) < Rank(q)
      BY <2>2, <3>1
    <3> QED
      BY <2>1, <3>1, <3>2, RankOrders DEF IInv
  <2> QED
    BY <1>1, <2>3, <2>4, PageShown
<1>2. ASSUME Cardinality(Hits) < PageSize PROVE Gapless'
  <2>1. \A p \in Unseen' : Rank(p) < run.offset + PageSize
    BY <1>2, PageShown DEF Unseen
  <2> QED
    BY <1>1, <2>1 DEF Gapless
<1> QED
  BY <1>1, <1>2, PageShown DEF DescendingInv

LEMMA FetchFindsFrontier ==
  ASSUME TypeOK, IInv, FetchPage, ~ run.full, DescendingInv, FrontierInv
  PROVE  FrontierInv'
<1>1. ~ run.ascending
  BY DEF IInv, RunInv
<1>2. /\ run'.shown = run.shown \cup Hits /\ run'.met = (Existing(Hits) # {})
      /\ run'.twice = (run.twice \/ Hits \cap run.shown # {})
      /\ UNCHANGED <<known, queue>> /\ run'.full = run.full
  <2>1. run \in Runs /\ Hits \subseteq Projects
    BY PageShown DEF TypeOK
  <2> QED
    BY <2>1, FetchRun
<1>3. \A p \in Unseen' : \A q \in (known' \cup queue') \ run'.shown : p > q
  BY <1>2, PageShown DEF FrontierInv
<1>4. ASSUME run'.met, ~ run'.twice PROVE Gapless'
  <2>1. PICK f \in Hits : f \in known /\ f \notin run.shown
    BY <1>2, <1>4 DEF Existing
  <2>2. ASSUME NEW p \in Unseen' PROVE Rank(p) < run.offset + PageSize
    <3>1. p \in Unseen /\ p \in listed /\ f \in listed /\ Rank(f) < run.offset + PageSize
      BY PageShown DEF Unseen
    <3>2. p > f
      BY <2>1, <3>1 DEF FrontierInv
    <3>3. p \in Nat /\ f \in Nat /\ Rank(p) \in Nat /\ Rank(f) \in Nat
          /\ run.offset + PageSize \in Nat
      BY <3>1, Numbers DEF IInv
    <3>4. ASSUME ~ (Rank(p) < run.offset + PageSize) PROVE FALSE
      <4>1. Rank(f) < Rank(p)
        BY <3>1, <3>3, <3>4
      <4>2. f > p
        BY <1>1, <3>1, <4>1, RankOrders DEF IInv
      <4> QED
        BY <3>2, <3>3, <4>2
    <3> QED
      BY <3>4
  <2>3. DescendingInv'
    BY <1>1, FetchDescends
  <2> QED
    BY <2>2, <2>3, PageShown DEF DescendingInv, Gapless
<1> QED
  BY <1>3, <1>4 DEF FrontierInv

LEMMA FetchAscends ==
  ASSUME TypeOK, IInv, FetchPage, run.ascending, AscendingInv
  PROVE  AscendingInv' /\ (LastPage' => Unseen' = {})
<1>1. ~ Fetched
  BY DEF FetchPage, Fetched
<1>2. \A p \in Unseen : run.offset <= Rank(p)
  BY <1>1, PageShown DEF AscendingInv
<1>3. ASSUME NEW p \in Unseen' PROVE run.offset + PageSize <= Rank(p)
  <2>1. p \in Unseen /\ p \in listed /\ p \notin Hits
    BY PageShown DEF Unseen
  <2>2. Rank(p) \in Nat /\ run.offset \in Nat
    BY <2>1, Numbers DEF IInv
  <2> QED
    BY <1>2, <2>1, <2>2, PageShown
<1>4. ASSUME NEW p \in Unseen', Newer(p) < Reach, NEW q \in Handled' PROVE p > q
  <2>1. p \in Unseen /\ p \in listed
    BY PageShown DEF Unseen
  <2>2. CASE q \in Handled
    BY <1>4, <2>1, <2>2 DEF AscendingInv
  <2>3. CASE q \in Hits
    <3>1. q \in listed /\ Rank(q) < run.offset + PageSize
      BY <2>3, PageShown
    <3>2. Rank(p) \in Nat /\ Rank(q) \in Nat /\ run.offset + PageSize \in Nat
          /\ p \in Nat /\ q \in Nat
      BY <2>1, <3>1, Numbers DEF IInv
    <3>3. Rank(q) < Rank(p)
      BY <1>3, <3>1, <3>2
    <3>4. q < p
      BY <2>1, <3>1, <3>3, RankOrders DEF IInv
    <3> QED
      BY <3>2, <3>4
  <2> QED
    BY <1>4, <2>2, <2>3, PageShown
<1>5. ASSUME Cardinality(Hits) < PageSize PROVE Unseen' = {}
  <2> SUFFICES ASSUME NEW p \in Unseen' PROVE FALSE
    OBVIOUS
  <2>1. p \in listed
    BY PageShown DEF Unseen
  <2>2. Rank(p) \in Nat /\ run.offset + PageSize \in Nat
    BY <2>1, Numbers DEF IInv
  <2>3. Rank(p) < run.offset + PageSize
    BY <1>5, <2>1, PageShown
  <2> QED
    BY <1>3, <2>2, <2>3
<1>6. Cardinality(Hits) < PageSize => Gapless'
  BY <1>5 DEF Gapless
<1>7. listed' = listed
  BY DEF FetchPage
<1> QED
  BY <1>3, <1>4, <1>5, <1>6, <1>7, PageShown DEF AscendingInv, Reach

\* A full run has found what was listed when it began, but for what comes yet.
LEMMA FetchFindsAll ==
  ASSUME TypeOK, IInv, FetchPage, run.full, run.calm, FullInv,
         run.ascending => AscendingInv
  PROVE  FullInv'
<1>1. run.seen \subseteq listed
  BY DEF IInv, RunInv
<1>2. run'.seen = run.seen /\ run'.ascending = run.ascending
  <2>1. run \in Runs /\ Hits \subseteq Projects
    BY PageShown DEF TypeOK
  <2> QED
    BY <2>1, FetchRun
<1>3. run.ascending \in BOOLEAN
  BY Numbers DEF IInv
<1>4. ASSUME NEW p \in run.seen, ~ run.ascending
      PROVE  p \in Handled' \/ run.offset + PageSize <= Newer(p)
  <2>1. Newer(p) = Rank(p)
    <3>1. run.ascending = FALSE
      BY <1>3, <1>4
    <3> QED
      BY <3>1, Ranks
  <2>2. p \in listed /\ Rank(p) \in Nat /\ run.offset \in Nat
    BY <1>1, Numbers DEF IInv
  <2>3. p \in Handled \/ Newer(p) >= run.offset
    BY <1>4, PageShown DEF FullInv
  <2> QED
    BY <2>1, <2>2, <2>3, PageShown
<1>5. ASSUME NEW p \in run.seen, run.ascending PROVE p \in Handled' \/ Newer(p) >= Reach
  BY <1>5, PageShown DEF FullInv
<1>6. ASSUME LastPage', NEW p \in run.seen PROVE p \in Handled'
  <2>1. CASE run.ascending
    <3>1. Unseen' = {}
      BY <1>6, <2>1, FetchAscends
    <3>2. listed' = listed
      BY DEF FetchPage
    <3> QED
      BY <1>1, <3>1, <3>2 DEF Unseen
  <2>2. CASE ~ run.ascending
    <3>1. Newer(p) = Rank(p)
      <4>1. run.ascending = FALSE
        BY <1>3, <2>2
      <4> QED
        BY <4>1, Ranks
    <3>2. p \in listed /\ Rank(p) \in Nat /\ run.offset + PageSize \in Nat
      BY <1>1, Numbers DEF IInv
    <3>3. Rank(p) < run.offset + PageSize
      BY <1>6, <3>2, PageShown
    <3> QED
      BY <1>4, <2>2, <3>1, <3>2, <3>3
  <2> QED
    BY <2>1, <2>2
<1>7. ASSUME NEW p \in run.seen
      PROVE  p \in Handled' \/ Newer(p) >= (IF run.ascending THEN Reach
                                            ELSE run.offset + PageSize)
  <2>1. CASE run.ascending
    BY <1>5, <2>1
  <2>2. CASE ~ run.ascending
    <3>1. Newer(p) \in Nat /\ run.offset + PageSize \in Nat
      BY <1>1, Numbers DEF IInv
    <3> QED
      BY <1>4, <2>2, <3>1
  <2> QED
    BY <2>1, <2>2
<1> QED
  BY <1>2, <1>6, <1>7, PageShown DEF FullInv, Reach

LEMMA FetchKeepsOrder ==
  ASSUME TypeOK, IInv, FetchPage
  PROVE  OrderInv'
<1>1. run \in Runs
  BY Numbers DEF IInv
<1>2. /\ run'.full = run.full /\ run'.calm = run.calm /\ run'.ascending = run.ascending
      /\ steady' = steady
  BY <1>1, PageShown, FetchRun
<1>3. ASSUME ~ run.full, steady PROVE DescendingInv' /\ FrontierInv'
  <2>1. ~ run.ascending /\ DescendingInv /\ FrontierInv
    BY <1>3, PageShown DEF IInv, RunInv, OrderInv
  <2> QED
    BY <1>3, <2>1, FetchDescends, FetchFindsFrontier
<1>4. ASSUME run.full, run.calm
      PROVE  FullInv' /\ IF run.ascending THEN AscendingInv' ELSE DescendingInv'
  <2>1. FullInv /\ IF run.ascending THEN AscendingInv ELSE DescendingInv
    BY <1>4 DEF IInv, OrderInv
  <2>2. FullInv'
    BY <1>4, <2>1, FetchFindsAll
  <2>3. CASE run.ascending
    BY <2>1, <2>2, <2>3, FetchAscends
  <2>4. CASE ~ run.ascending
    BY <2>1, <2>2, <2>4, FetchDescends
  <2> QED
    BY <2>3, <2>4
<1> QED
  BY <1>2, <1>3, <1>4, PageShown DEF OrderInv

LEMMA TurnKeepsOrder ==
  ASSUME TypeOK, IInv, Turn
  PROVE  OrderInv'
<1>1. /\ run.stage = "turn" /\ run'.stage = "fetch" /\ ~ LastPage
      /\ run'.offset = run.offset + PageSize /\ run'.shown = run.shown
      /\ run'.full = run.full /\ run'.ascending = run.ascending
      /\ run'.seen = run.seen /\ run'.calm = run.calm
      /\ run'.fresh = {} /\ run'.bad = {}
      /\ UNCHANGED <<listed, known, queue, steady>>
  BY TurnRun DEF IInv
<1>2. run.fresh = {} /\ run.bad = {}
  BY <1>1 DEF IInv, RunInv
<1>3. Handled' = Handled /\ Unseen' = Unseen
  BY <1>1, <1>2 DEF Handled, Unseen
<1>4. Turned' = Turned /\ Fetched /\ ~ Fetched' /\ Running /\ Running'
  BY <1>1 DEF Turned, Fetched, Running
<1>5. \A p : Rank(p)' = Rank(p) /\ Newer(p)' = Newer(p)
  BY <1>1, Ranks, RanksNext
<1>6. DescendingInv => DescendingInv'
  BY <1>3, <1>4, <1>5 DEF DescendingInv
<1>7. FrontierInv => FrontierInv'
  BY <1>1, <1>3, <1>4 DEF FrontierInv
<1>8. FullInv => FullInv'
  BY <1>1, <1>3, <1>4, <1>5 DEF FullInv, Reach
<1>9. AscendingInv => AscendingInv'
  BY <1>1, <1>3, <1>4, <1>5 DEF AscendingInv, Reach
<1> QED
  BY <1>1, <1>4, <1>6, <1>7, <1>8, <1>9 DEF IInv, OrderInv

\* A run begins at the top of the list.
LEMMA BeginKeepsOrder ==
  ASSUME TypeOK, IInv, Begin
  PROVE  OrderInv'
<1>1. /\ run.stage = "idle" /\ run'.stage = "fetch" /\ run'.offset = 0 /\ ~ run'.ascending
      /\ run'.fresh = {} /\ run'.bad = {} /\ run'.shown = {}
      /\ run'.full => run'.seen = listed
      /\ UNCHANGED <<listed, known, queue, steady>> /\ run' \in Runs
  BY BeginRun DEF IInv
<1>2. run'.ascending = FALSE
  BY <1>1, RunFields
<1>3. run.fresh = {} /\ run.bad = {} /\ ~ Running
  BY <1>1 DEF IInv, RunInv, Running
<1>4. Handled' = Handled /\ Unseen' = Unseen /\ Handled = known \cup queue
  BY <1>1, <1>3 DEF Handled, Unseen
<1>5. Turned' = 0 /\ ~ Fetched' /\ Running'
  BY <1>1 DEF Turned, Fetched, Running
<1>6. \A p \in listed : Rank(p)' \in Nat /\ Newer(p)' \in Nat
  <2>1. newest \in Nat /\ listed \in SUBSET (1 .. newest)
    BY Numbers DEF IInv
  <2> QED
    BY <1>1, <1>2, <2>1, RanksNext, Positions
<1>7. \A p \in listed : ~ (Rank(p)' < 0) /\ Newer(p)' >= 0
  BY <1>6
<1>8. DescendingInv'
  <2>1. \A p \in Unseen' : ~ (Rank(p)' < Turned')
    BY <1>4, <1>5, <1>7 DEF Unseen
  <2> QED
    BY <1>5, <2>1 DEF DescendingInv
<1>9. steady => FrontierInv'
  <2>1. steady => Gapless
    BY <1>3 DEF IInv, OrderInv
  <2> QED
    BY <1>1, <1>4, <1>5, <2>1 DEF FrontierInv, Gapless
<1>10. run'.full => FullInv'
  BY <1>1, <1>5, <1>7 DEF FullInv
<1> QED
  BY <1>1, <1>5, <1>8, <1>9, <1>10 DEF OrderInv

\* What follows a withdrawal, somebody else's request or an abort is not claimed.
LEMMA UpsetKeepsOrder ==
  ASSUME steady' = FALSE, ~ run'.calm
  PROVE  OrderInv'
BY DEF OrderInv

-----------------------------------------------------------------------------
(* The inductive invariant: the end of a list *)

\* Once the pages have come to the end, nothing older than what is handled is left.
LEMMA Exhausted ==
  ASSUME TypeOK, IInv, NoMorePages \/ (Stop /\ LastPage),
         (~ run.full /\ steady) \/ (run.full /\ run.calm)
  PROVE  Gapless /\ (run.full => run.seen \subseteq Handled)
<1>1. /\ newest \in Nat /\ listed \in SUBSET (1 .. newest) /\ run.ascending \in BOOLEAN
      /\ run.offset \in Nat /\ \A p \in listed : Rank(p) \in Nat /\ Newer(p) \in Nat
  BY Numbers DEF IInv
<1>2. Running
  BY DEF NoMorePages, Stop, Running
<1>3. run.calm => run.seen \subseteq listed
  BY DEF IInv, RunInv
<1>4. run.ascending => run.full
  BY DEF IInv, RunInv
<1>5. /\ run.full => FullInv
      /\ run.ascending => AscendingInv
      /\ ~ run.ascending => DescendingInv
  BY <1>2, <1>4 DEF IInv, OrderInv
<1>6. CASE Stop /\ LastPage
  <2>1. Fetched
    BY <1>6 DEF Stop, Fetched
  <2> QED
    BY <1>5, <1>6, <2>1 DEF FullInv, AscendingInv, DescendingInv
<1>7. CASE NoMorePages
  <2>1. ~ Fetched /\ Turned = run.offset /\ Hits = {}
    BY <1>7 DEF NoMorePages, Fetched, Turned
  <2>2. \A p \in listed : Rank(p) < run.offset
    BY <1>1, <2>1, Ranks, EmptyPage
  <2>3. CASE run.ascending
    <3>1. Unseen = {}
      <4> SUFFICES ASSUME NEW p \in Unseen PROVE FALSE
        OBVIOUS
      <4>1. p \in listed /\ run.offset <= Rank(p)
        BY <1>5, <2>1, <2>3 DEF AscendingInv, Unseen
      <4> QED
        BY <1>1, <2>2, <4>1
    <3> QED
      BY <1>3, <1>4, <2>3, <3>1 DEF Gapless, Unseen
  <2>4. CASE ~ run.ascending
    <3>1. Gapless
      BY <1>5, <2>1, <2>2, <2>4 DEF DescendingInv, Gapless, Unseen
    <3>2. ASSUME run.full, NEW p \in run.seen PROVE p \in Handled
      <4>1. run.ascending = FALSE
        BY <1>1, <2>4
      <4>2. Newer(p) = Rank(p)
        BY <4>1, Ranks
      <4>3. p \in listed
        BY <1>3, <3>2
      <4>4. p \in Handled \/ Newer(p) >= run.offset
        BY <1>5, <2>1, <2>4, <3>2 DEF FullInv
      <4> QED
        BY <1>1, <2>2, <4>2, <4>3, <4>4
    <3> QED
      BY <3>1, <3>2
  <2> QED
    BY <2>3, <2>4
<1> QED
  BY <1>6, <1>7

\* Pages are turned as far as the limit allows.
LEMMA ReachedAll ==
  ASSUME TypeOK, RunInv, ~ Reachable(run.offset)
  PROVE  Reach <= run.offset /\ Reach \in Nat
<1> DEFINE d == SearchLimit \div PageSize
<1>1. /\ PageSize \in Nat /\ PageSize > 0 /\ SearchLimit \in Nat
      /\ run.offset \in Nat /\ run.pages \in Nat
  BY Numbers
<1>2. d \in Nat /\ PageSize * d <= SearchLimit
  BY <1>1
<1>3. run.offset + PageSize > SearchLimit /\ run.offset = PageSize * run.pages
  BY <1>1 DEF Reachable, RunInv
<1> HIDE DEF d
<1>4. d <= run.pages
  <2> SUFFICES ASSUME run.pages < d PROVE FALSE
    BY <1>1, <1>2
  <2>1. PICK e \in Nat : d = run.pages + 1 + e
    <3>1. d - (run.pages + 1) \in Nat /\ d = run.pages + 1 + (d - (run.pages + 1))
      BY <1>1, <1>2
    <3> QED
      BY <3>1
  <2>2. PageSize * d = PageSize * run.pages + PageSize + PageSize * e
    BY <1>1, <2>1
  <2>3. PageSize * e \in Nat /\ PageSize * run.pages \in Nat /\ PageSize * d \in Nat
    BY <1>1, <1>2, <2>1
  <2> QED
    BY <1>1, <1>2, <1>3, <2>2, <2>3
<1>5. PICK e \in Nat : run.pages = d + e
  <2>1. run.pages - d \in Nat /\ run.pages = d + (run.pages - d)
    BY <1>1, <1>2, <1>4
  <2> QED
    BY <2>1
<1>6. PageSize * run.pages = PageSize * d + PageSize * e
  BY <1>1, <1>2, <1>5
<1>7. PageSize * e \in Nat /\ PageSize * d \in Nat
  BY <1>1, <1>2, <1>5
<1>8. Reach = PageSize * d
  BY DEF Reach, d
<1> QED
  BY <1>3, <1>6, <1>7, <1>8

\* The newest in one order, the oldest in the other, and none in between.
LEMMA BothOrders ==
  ASSUME TypeOK, IInv, PastReach, run.ascending, run.calm, Within
  PROVE  Gapless /\ run.seen \subseteq Handled
<1>1. /\ newest \in Nat /\ listed \in SUBSET (1 .. newest)
      /\ run.offset \in Nat /\ Cardinality(listed) \in Nat
      /\ \A p \in listed : Rank(p) \in Nat /\ Newer(p) \in Nat
      /\ PageSize \in Nat /\ SearchLimit \in Nat /\ run.ascending \in BOOLEAN
      /\ PageSize > 0
  BY Numbers DEF IInv
<1>2. source = "curseforge" /\ run.full /\ run.seen \subseteq listed
  BY DEF IInv, RunInv
<1>3. FullInv /\ AscendingInv
  BY <1>2 DEF IInv, OrderInv
<1>4. ~ Fetched /\ Turned = run.offset /\ Reach <= run.offset /\ Reach \in Nat
  BY ReachedAll DEF PastReach, Fetched, Turned, IInv
<1>5. Cardinality(listed) <= 2 * Reach
  <2>1. SearchLimit \div PageSize \in Nat
    BY <1>1
  <2>2. 2 * PageSize * (SearchLimit \div PageSize) = 2 * Reach
    BY <1>1, <2>1 DEF Reach
  <2> QED
    BY <1>2, <2>2 DEF Within
<1>6. ASSUME NEW p \in listed, run.offset <= Rank(p) PROVE Newer(p) < Reach
  <2>1. run.ascending = TRUE
    BY <1>1
  <2>2. Rank(p) = Pos(listed, TRUE, p) /\ Newer(p) = Pos(listed, FALSE, p)
    BY <2>1, Ranks
  <2>3. Rank(p) + Newer(p) + 1 = Cardinality(listed)
    BY <1>1, <2>2, BothWays
  <2> QED
    BY <1>1, <1>4, <1>5, <1>6, <2>3
<1>7. \A p \in Unseen : p \in listed /\ Newer(p) < Reach
  BY <1>3, <1>4, <1>6 DEF AscendingInv, Unseen
<1>8. Gapless
  BY <1>3, <1>7 DEF AscendingInv, Gapless
<1>9. ASSUME NEW p \in run.seen PROVE p \in Handled
  <2>1. p \in listed /\ Newer(p) \in Nat
    BY <1>1, <1>2
  <2>2. p \in Handled \/ Newer(p) >= Reach
    BY <1>3 DEF FullInv
  <2> QED
    BY <1>4, <1>7, <2>1, <2>2 DEF Unseen
<1> QED
  BY <1>8, <1>9

\* A run that could claim to have found all of a list has no limit on its pages.
LEMMA CalmHasNoLimit ==
  ASSUME RunInv, run.calm
  PROVE  run.full /\ run.seen \subseteq listed /\ ~ ReachLimit
<1>1. run.full /\ run.limit = 0 /\ run.seen \subseteq listed
  BY Zenon DEF RunInv
<1>2. ~ (run.limit > 0)
  BY <1>1, SMT
<1> QED
  BY <1>1, <1>2, Zenon DEF ReachLimit, LimitReached

\* A list is only left before its end by a run that reads the other order next, or
\* that claims nothing; unless a known project has been met.
LEMMA EndKeepsOrder ==
  ASSUME TypeOK, IInv, PastReach \/ ReachLimit \/ NoMorePages \/ Stop
  PROVE  OrderInv'
<1>1. PICK frontier \in BOOLEAN :
        /\ ListDone(frontier)
        /\ PastReach \/ ReachLimit => ~ frontier
        /\ Stop => frontier = (LastPage \/ ~ run.twice)
  BY Enders
<1>2. UNCHANGED <<source, listed, known, queue>>
  BY Enders
<1>3. run \in Runs /\ run.full \in BOOLEAN /\ run.calm \in BOOLEAN
  BY Numbers DEF IInv
<1>4. run.fresh = {} /\ run.bad = {} /\ Running
  BY DEF PastReach, ReachLimit, NoMorePages, Stop, IInv, RunInv, Running
<1>5. run.calm => run.full /\ ~ ReachLimit /\ run.seen \subseteq listed
  BY CalmHasNoLimit DEF IInv
<1>6. Stop /\ run.full => LastPage
  BY DEF Stop, StopsAt
<1>7. CASE run.full /\ source = "curseforge" /\ ~ run.ascending
  <2>1. /\ run' \in Runs /\ run'.stage = "fetch" /\ run'.full /\ run'.ascending
        /\ run'.seen = run.seen /\ run'.calm = run.calm /\ run'.offset = 0
        /\ run'.fresh = {} /\ run'.bad = {}
    BY <1>1, <1>3, <1>7, ListDoneRun
  <2>2. Handled' = Handled /\ Unseen' = Unseen
    BY <1>2, <1>4, <2>1 DEF Handled, Unseen
  <2>3. Turned' = 0 /\ ~ Fetched' /\ Running'
    BY <2>1 DEF Turned, Fetched, Running
  <2>4. \A p : Newer(p)' = Newer(p)
    BY <1>2, Ranks, RanksNext
  <2>5. \A p \in listed : Rank(p)' \in Nat
    <3>1. newest \in Nat /\ listed \in SUBSET (1 .. newest)
      BY Numbers DEF IInv
    <3>2. run'.ascending \in BOOLEAN
      BY <2>1, RunFields
    <3> QED
      BY <1>2, <3>1, <3>2, RanksNext, Positions
  <2>6. ASSUME run.calm
        PROVE  /\ \A p \in Unseen : Newer(p) < Reach => \A q \in Handled : p > q
               /\ \A p \in run.seen : p \in Handled \/ Newer(p) >= Reach
    <3>1. CASE NoMorePages \/ Stop
      <4>1. Gapless /\ run.seen \subseteq Handled
        BY <1>6, <1>7, <2>6, <3>1, Exhausted
      <4> QED
        BY <4>1 DEF Gapless
    <3>2. CASE PastReach
      <4>1. FullInv /\ DescendingInv
        BY <1>7, <2>6 DEF IInv, OrderInv
      <4>2. Turned = run.offset /\ Reach <= run.offset /\ Reach \in Nat /\ run.offset \in Nat
        BY <3>2, ReachedAll, Numbers DEF PastReach, Turned, Fetched, IInv
      <4>3. run.ascending = FALSE
        BY <1>7, Numbers DEF IInv
      <4>4. \A p \in listed : Rank(p) = Newer(p) /\ Newer(p) \in Nat
        BY <4>3, Ranks, Numbers DEF IInv
      <4>5. ASSUME NEW p \in Unseen, Newer(p) < Reach, NEW q \in Handled PROVE p > q
        <5>1. p \in listed
          BY DEF Unseen
        <5>2. Rank(p) < Turned
          BY <4>2, <4>4, <4>5, <5>1
        <5> QED
          BY <4>1, <4>5, <5>2 DEF DescendingInv
      <4>6. ASSUME NEW p \in run.seen, p \notin Handled PROVE Newer(p) >= Reach
        <5>1. p \in listed
          BY <1>5, <2>6
        <5>2. Newer(p) >= Turned
          BY <1>7, <4>1, <4>6 DEF FullInv
        <5> QED
          BY <4>2, <4>4, <5>1, <5>2
      <4> QED
        BY <4>5, <4>6
    <3> QED
      BY <1>5, <2>6, <3>1, <3>2
  <2>7. ASSUME run.calm PROVE AscendingInv' /\ FullInv'
    <3>1. Cardinality(listed) \in Nat
      BY Numbers DEF IInv
    <3>2. Turned' <= Cardinality(listed') /\ \A p \in Unseen' : Turned' <= Rank(p)'
      BY <1>2, <2>2, <2>3, <2>5, <3>1 DEF Unseen
    <3>3. Reach' = Reach
      BY DEF Reach
    <3>4. AscendingInv'
      BY <2>2, <2>3, <2>4, <2>6, <2>7, <3>2, <3>3 DEF AscendingInv
    <3>5. FullInv'
      BY <2>1, <2>2, <2>3, <2>4, <2>6, <2>7, <3>3 DEF FullInv
    <3> QED
      BY <3>4, <3>5
  <2> QED
    BY <2>1, <2>3, <2>7 DEF OrderInv
<1>8. CASE ~ (run.full /\ source = "curseforge" /\ ~ run.ascending)
  <2>1. /\ run' = NoRun
        /\ steady' = IF run.full THEN run.calm /\ Within ELSE steady /\ frontier
    BY <1>1, <1>3, <1>8, ListDoneRun
  <2>2. Handled' = Handled /\ Unseen' = Unseen
    BY <1>2, <1>4, <2>1, NoRunFields DEF Handled, Unseen
  <2>3. ASSUME run.full, run.calm, Within PROVE Gapless
    <3>1. CASE NoMorePages \/ Stop
      BY <1>6, <2>3, <3>1, Exhausted
    <3>2. CASE PastReach
      <4>1. run.ascending
        BY <1>8, <2>3, <3>2 DEF PastReach, Reachable
      <4> QED
        BY <2>3, <3>2, <4>1, BothOrders
    <3> QED
      BY <1>5, <2>3, <3>1, <3>2
  <2>4. ASSUME ~ run.full, steady, frontier PROVE Gapless
    <3>1. CASE NoMorePages \/ (Stop /\ LastPage)
      BY <2>4, <3>1, Exhausted
    <3>2. CASE Stop /\ ~ LastPage
      <4>1. run.met /\ ~ run.twice /\ Fetched
        BY <1>1, <2>4, <3>2 DEF Stop, StopsAt, Fetched
      <4>2. FrontierInv
        BY <1>4, <2>4 DEF IInv, OrderInv
      <4> QED
        BY <4>1, <4>2 DEF FrontierInv
    <3> QED
      BY <1>1, <2>4, <3>1, <3>2
  <2>5. steady' => Gapless
    BY <1>3, <2>1, <2>3, <2>4
  <2>6. Gapless => Gapless'
    BY <2>2 DEF Gapless
  <2> QED
    BY <2>1, <2>5, <2>6, NoRunFields DEF OrderInv, Running
<1> QED
  BY <1>7, <1>8

-----------------------------------------------------------------------------
(* The theorems *)

\* The conjunction that is inductive holds in every state.
THEOREM Inductive == Spec => []IInv
<1>1. Init => OrderInv
  <2> SUFFICES ASSUME Init PROVE OrderInv
    OBVIOUS
  <2>1. Handled = {} /\ ~ Running
    BY NoRunFields DEF Init, Handled, Running
  <2> QED
    BY <2>1, NoRunFields DEF Init, OrderInv, Gapless
<1>2. TypeOK /\ RunInv /\ OrderInv /\ [Next]_vars => OrderInv'
  <2> SUFFICES ASSUME TypeOK, IInv, [Next]_vars PROVE OrderInv'
    BY DEF IInv
  <2>1. CASE UNCHANGED vars
    <3>1. UNCHANGED <<source, listed, known, queue, run, steady>>
      BY <2>1 DEF vars
    <3>2. Handled' = Handled /\ Fetched' = Fetched /\ Running' = Running
      BY <3>1 DEF Handled, Fetched, Running
    <3> QED
      BY <3>1, <3>2, QuietKeepsOrder DEF IInv, RunInv
  <2>2. CASE Serve
    <3>1. PICK p \in queue : queue' = queue \ {p} /\ known' = known \cup ({p} \cap listed)
      BY <2>2 DEF Serve
    <3>2. UNCHANGED <<source, listed, run, steady>>
      BY <2>2 DEF Serve
    <3>3. Handled' \subseteq Handled /\ Handled \cap listed \subseteq Handled'
          /\ known' \cup queue' \subseteq known \cup queue
      BY <3>1, <3>2 DEF Handled
    <3>4. Fetched' = Fetched /\ Running' = Running
      BY <3>2 DEF Fetched, Running
    <3> QED
      BY <3>2, <3>3, <3>4, QuietKeepsOrder DEF IInv, RunInv
  <2>3. CASE Sync \/ SyncFails \/ Requeue
    <3>1. Fetched' = Fetched /\ Running' = Running
      BY <2>3, PageRun DEF Fetched, Running
    <3>2. Handled' \subseteq Handled
      BY <2>3, PageRun DEF Handled
    <3>3. ASSUME ~ run.full
          PROVE  (known' \cup queue') \ run.shown \subseteq (known \cup queue) \ run.shown
      <4>1. run.fresh \cup run.bad \subseteq run.shown
        BY <3>3 DEF TypeOK, IInv, RunInv
      <4> QED
        BY <2>3, <4>1, PageRun
    <3> QED
      BY <2>3, <3>1, <3>2, <3>3, PageRun, QuietKeepsOrder DEF IInv, RunInv
  <2>4. CASE Withdraw \/ Ask \/ Abort
    <3>1. steady' = FALSE /\ ~ run'.calm
      BY <2>4, UpsetRun, NoRunFields DEF Withdraw, Ask, Abort, TypeOK
    <3> QED
      BY <3>1, UpsetKeepsOrder
  <2> QED
    BY <2>1, <2>2, <2>3, <2>4, PublishKeepsOrder, BeginKeepsOrder, FetchKeepsOrder,
       TurnKeepsOrder, EndKeepsOrder DEF Next
<1>3. TypeOK /\ RunInv /\ OrderInv => IInv
  BY DEF IInv
<1> QED
  BY <1>1, <1>2, <1>3, AlwaysTyped, PTL DEF Spec

\* Between runs, what search has not found is newer than all that is known, unless
\* something has happened after which gaps are to be expected.
THEOREM NoGapsLeft == Spec => []NothingMissed
<1>1. TypeOK /\ IInv => NothingMissed
  <2> SUFFICES ASSUME TypeOK, IInv, steady, ~ Running PROVE NoGap
    BY DEF NothingMissed
  <2>1. Gapless /\ run.fresh = {} /\ run.bad = {}
    BY DEF IInv, RunInv, OrderInv, Running
  <2> QED
    BY <2>1 DEF Gapless, NoGap, Missed, Unseen, Handled
<1> QED
  BY <1>1, TypeCorrect, Inductive, PTL

\* A full run that nothing upsets ends with all found that was listed when it began.
THEOREM FullRunFindsAll == Spec => FullFindsAll
<1>1. ASSUME TypeOK, IInv, [Next]_vars, run.full, run.calm, run'.stage = "idle",
             faults' = faults, Within
      PROVE  run.seen \subseteq known \cup queue
  <2>1. Running
    BY <1>1 DEF IInv, RunInv
  <2>2. ~ Begin /\ ~ UNCHANGED vars
    BY <1>1, <2>1 DEF Begin, Running, vars
  <2>3. ~ (Publish \/ Serve)
    BY <1>1, <2>1 DEF Publish, Serve, Running
  <2>4. ~ (Withdraw \/ Ask)
    BY <1>1, <2>1, UpsetRun DEF Withdraw, Ask, Running, TypeOK
  <2>5. ~ FetchPage
    BY <1>1, PageShown DEF Running
  <2>6. ~ (Sync \/ SyncFails \/ Requeue \/ Turn)
    BY <1>1, PageRun, TurnRun DEF IInv
  <2>7. ~ Abort
    BY <1>1 DEF Abort, TypeOK
  <2>8. PastReach \/ ReachLimit \/ NoMorePages \/ Stop
    BY <1>1, <2>2, <2>3, <2>4, <2>5, <2>6, <2>7 DEF Next
  <2>9. run.fresh = {} /\ run.bad = {} /\ run \in Runs
    BY <1>1, <2>8 DEF PastReach, ReachLimit, NoMorePages, Stop, IInv, RunInv, TypeOK
  <2>10. ~ (run.full /\ source = "curseforge" /\ ~ run.ascending)
    BY <1>1, <2>8, <2>9, Enders, ListDoneRun
  <2>11. CASE NoMorePages \/ Stop
    <3>1. Stop => LastPage
      BY <1>1 DEF Stop, StopsAt
    <3> QED
      BY <1>1, <2>9, <2>11, <3>1, Exhausted DEF Handled
  <2>12. CASE PastReach
    <3>1. run.ascending
      BY <1>1, <2>10, <2>12 DEF PastReach, Reachable
    <3> QED
      BY <1>1, <2>9, <2>12, <3>1, BothOrders DEF Handled
  <2>13. ~ ReachLimit
    BY <1>1, CalmHasNoLimit DEF IInv
  <2> QED
    BY <2>8, <2>11, <2>12, <2>13
<1>2. TypeOK /\ IInv /\ [Next]_vars =>
        [run.full /\ run.calm /\ run'.stage = "idle" /\ faults' = faults /\ Within
         => run.seen \subseteq known \cup queue]_vars
  BY <1>1
<1> QED
  BY <1>2, TypeCorrect, Inductive, PTL DEF Spec, FullFindsAll

=============================================================================
