------------------------ MODULE CurseforgeSync_proofs ------------------------
(***************************************************************************)
(* Proofs about CurseforgeSync, for any number of tasks, files, edits and  *)
(* failures and any page size: its types, its inductive invariant, and     *)
(* from it that a document with upstream's dateModified vouches for files  *)
(* and translation, that hidden files survive every sync, and that a task  *)
(* that ends without an error leaves the mod current.                      *)
(***************************************************************************)
EXTENDS CurseforgeSync, FiniteSetTheorems, WellFoundedInduction, TLAPS

-----------------------------------------------------------------------------
(* Times *)

LEMMA FirstNumber ==
  ASSUME NEW S \in SUBSET Nat, S # {}
  PROVE  \E x \in S : \A y \in S : x <= y
<1>1. IsWellFoundedOn({p \in Nat \X Nat : p[1] < p[2]}, Nat)
  BY NatLessThanWellFounded DEF OpToRel
<1>2. PICK x \in S : \A y \in S : <<y, x>> \notin {p \in Nat \X Nat : p[1] < p[2]}
  BY <1>1, WFMin
<1>3. ASSUME NEW y \in S PROVE x <= y
  <2>1. <<y, x>> \in Nat \X Nat /\ y \in Nat /\ x \in Nat
    OBVIOUS
  <2>2. <<y, x>>[1] = y /\ <<y, x>>[2] = x
    OBVIOUS
  <2>3. <<y, x>> \notin {p \in Nat \X Nat : p[1] < p[2]}
    BY <1>2
  <2>4. ~(<<y, x>>[1] < <<y, x>>[2])
    BY <2>1, <2>3
  <2> QED
    BY <2>1, <2>2, <2>4
<1> QED
  BY <1>3

\* A later dateModified never falls in an earlier second.
LEMMA LaterSecond ==
  ASSUME SecondsPass, NEW a \in 1 .. MaxModified, NEW b \in 1 .. MaxModified, a <= b
  PROVE  /\ second[a] \in Nat /\ second[b] \in Nat
         /\ second[a] <= second[b]
<1> DEFINE early == {n \in Nat : a <= n /\ n <= MaxModified /\ second[n] < second[a]}
<1>1. \A n \in 1 .. MaxModified : second[n] \in Nat
  BY CurseforgeAssumption DEF SecondsPass
<1>2. early = {}
  <2> SUFFICES ASSUME early # {} PROVE FALSE
    OBVIOUS
  <2>1. early \in SUBSET Nat
    OBVIOUS
  <2>2. PICK x \in early : \A y \in early : x <= y
    BY <2>1, FirstNumber
  <2>3. x \in Nat /\ a <= x /\ x <= MaxModified /\ second[x] < second[a] /\ a \in Nat /\ 1 <= a
    BY CurseforgeAssumption
  <2>4. x # a
    BY <1>1, <2>3
  <2>5. x - 1 \in Nat /\ a <= x - 1 /\ x - 1 <= MaxModified /\ x \in 2 .. MaxModified
    BY <2>3, <2>4, CurseforgeAssumption
  <2>6. x - 1 \notin early
    BY <2>2, <2>3
  <2>7. ~ (second[x - 1] < second[a])
    BY <2>5, <2>6
  <2>8. second[x] - second[x - 1] \in {0, 1}
    BY <2>5 DEF SecondsPass
  <2>9. second[x] \in Nat /\ second[x - 1] \in Nat /\ second[a] \in Nat
    BY <1>1, <2>3, <2>5, CurseforgeAssumption
  <2> QED
    BY <2>3, <2>7, <2>8, <2>9
<1>3. b \notin early /\ b \in Nat /\ b <= MaxModified
  BY <1>2, CurseforgeAssumption
<1>4. ~ (second[b] < second[a])
  BY <1>3
<1> QED
  BY <1>1, <1>4

-----------------------------------------------------------------------------
(* Lists and pages *)

LEMMA Counts ==
  ASSUME TypeOK
  PROVE  /\ IsFiniteSet(upstream.listed)
         /\ \A S \in SUBSET upstream.listed :
              Cardinality(S) \in Nat /\ Cardinality(S) <= Cardinality(upstream.listed)
         /\ Cardinality(upstream.listed) \in 0 .. MaxFiles
<1>1. IsFiniteSet(Files) /\ Cardinality(Files) = MaxFiles
  BY FS_Interval, CurseforgeAssumption DEF Files
<1>2. upstream.listed \in SUBSET Files
  BY DEF TypeOK, Upstream
<1>3. IsFiniteSet(upstream.listed) /\ Cardinality(upstream.listed) <= MaxFiles
  BY <1>1, <1>2, FS_Subset
<1>4. ASSUME NEW S \in SUBSET upstream.listed
      PROVE  Cardinality(S) \in Nat /\ Cardinality(S) <= Cardinality(upstream.listed)
  BY <1>3, FS_Subset, FS_CardinalityType
<1> QED
  BY <1>3, <1>4, CurseforgeAssumption

\* A listed file has a place before the end of the list.
LEMMA RankInList ==
  ASSUME TypeOK, NEW f \in upstream.listed
  PROVE  Rank(f) \in Nat /\ Rank(f) < Cardinality(upstream.listed)
<1> DEFINE later == {g \in upstream.listed : g > f}
<1>1. f \in Int
  BY DEF TypeOK, Upstream, Files
<1>2. later \in SUBSET (upstream.listed \ {f})
  BY <1>1
<1>3. /\ IsFiniteSet(upstream.listed \ {f})
      /\ Cardinality(upstream.listed \ {f}) = Cardinality(upstream.listed) - 1
  BY Counts, FS_RemoveElement
<1>4. Cardinality(later) \in Nat /\ Cardinality(later) <= Cardinality(upstream.listed) - 1
  BY <1>2, <1>3, FS_Subset, FS_CardinalityType
<1>5. Cardinality(upstream.listed) \in Nat
  BY Counts, CurseforgeAssumption
<1> QED
  BY <1>4, <1>5 DEF Rank

\* Two pages that follow each other are one, and pages up to the end are all.
LEMMA PagesJoin ==
  ASSUME TypeOK, NEW a \in Nat, NEW b \in Nat, a <= b
  PROVE  /\ Between(0, a) \cup Between(a, b) = Between(0, b)
         /\ Between(0, 0) = {} /\ Between(0, b) \subseteq upstream.listed
         /\ b >= Cardinality(upstream.listed) => Between(0, b) = upstream.listed
<1>1. \A f \in upstream.listed : Rank(f) \in Nat /\ Rank(f) < Cardinality(upstream.listed)
  BY RankInList
<1>2. Cardinality(upstream.listed) \in Nat
  BY Counts, CurseforgeAssumption
<1> QED
  BY <1>1, <1>2 DEF Between

-----------------------------------------------------------------------------
(* Types *)

LEMMA JobTypes ==
  ASSUME NEW j \in Jobs
  PROVE  /\ j.step \in Steps /\ j.asOf \in Nat /\ j.modified \in Nat /\ j.summary \in Nat
         /\ j.got \subseteq Files /\ j.todo \subseteq Files /\ j.alone \in BOOLEAN
         /\ j.index \in Nat
BY CurseforgeAssumption DEF Jobs

LEMMA NoJobTyped ==
  /\ NoJob \in Jobs /\ NoJob.todo = {} /\ NoJob.got = {} /\ NoJob.index = 0
  /\ NoJob.step = "idle" /\ ~ NoJob.alone /\ NoJob.modified = 0
BY CurseforgeAssumption DEF NoJob, Jobs, Steps

\* One answered page: the next begins where it ended, within the list, or it was
\* the last.
LEMMA PageTurned ==
  ASSUME TypeOK, NEW t \in Tasks, GetPage(t)
  PROVE  \E next \in Nat, got \in SUBSET Files :
           /\ job[t].index <= next
           /\ got = job[t].got \cup Between(job[t].index, next)
           /\ \/ /\ Written(t, got)
                 /\ EmptyPages \/ next >= Cardinality(upstream.listed)
              \/ /\ Set(t, [job[t] EXCEPT !.got = got, !.index = next])
                 /\ next < Cardinality(upstream.listed)
<1> DEFINE from == job[t].index
           total == Cardinality(upstream.listed)
<1>1. job[t] \in Jobs /\ from \in Nat /\ job[t].got \subseteq Files /\ total \in Nat
      /\ upstream.listed \subseteq Files
  BY JobTypes, Counts, CurseforgeAssumption DEF TypeOK, Upstream
<1>2. PICK returned \in 0 .. PageSize :
        /\ returned = 0 => EmptyPages \/ from >= total
        /\ LET got == job[t].got \cup Between(from, from + returned)
           IN  IF returned = 0 \/ from + returned >= total
               THEN Written(t, got)
               ELSE Set(t, [job[t] EXCEPT !.got = got, !.index = from + returned])
  BY DEF GetPage
<1> DEFINE next == from + returned
           got  == job[t].got \cup Between(from, next)
<1>3. returned \in Nat /\ next \in Nat /\ from <= next /\ (returned = 0 => next = from)
  BY <1>1, CurseforgeAssumption
<1>4. got \in SUBSET Files
  BY <1>1 DEF Between
<1>5. \/ Written(t, got) /\ (EmptyPages \/ next >= total)
      \/ Set(t, [job[t] EXCEPT !.got = got, !.index = next]) /\ next < total
  <2>1. IF returned = 0 \/ next >= total
        THEN Written(t, got)
        ELSE Set(t, [job[t] EXCEPT !.got = got, !.index = next])
    BY <1>2
  <2> HIDE DEF next, got, from, total
  <2> QED
    BY <1>1, <1>2, <1>3, <2>1
<1>6. got = job[t].got \cup Between(from, next)
  OBVIOUS
<1> HIDE DEF next, got
<1> QED
  BY <1>3, <1>4, <1>5, <1>6

\* The types of jobs.
LEMMA JobsTyped ==
  ASSUME TypeOK, NEW t \in Tasks, Request(t) \/ Work(t) \/ Fails(t)
  PROVE  job' \in [Tasks -> Jobs] /\ \A o \in Tasks : job'[o].todo \subseteq job'[o].got
<1> DEFINE j == job[t]
<1>1. /\ job \in [Tasks -> Jobs] /\ j \in Jobs /\ j.todo \subseteq j.got
      /\ upstream.modified \in Nat /\ upstream.summary \in Nat
      /\ upstream.listed \subseteq Files /\ modDoc \in Nat
  BY DEF TypeOK, Upstream
<1>2. ASSUME NEW new \in Jobs, new.todo \subseteq new.got, Set(t, new)
      PROVE  job' \in [Tasks -> Jobs] /\ \A o \in Tasks : job'[o].todo \subseteq job'[o].got
  BY <1>2 DEF TypeOK, Set
<1>3. CASE Refresh(t) \/ Request(t)
  <2> DEFINE read  == [NoJob EXCEPT !.step = "compare", !.asOf = upstream.modified,
                                    !.modified = modDoc]
             asked == [NoJob EXCEPT !.step = "start", !.asOf = upstream.modified]
  <2>1. /\ read \in Jobs /\ read.todo \subseteq read.got
        /\ asked \in Jobs /\ asked.todo \subseteq asked.got
    BY <1>1, NoJobTyped DEF Jobs, Steps
  <2> QED
    BY <1>2, <1>3, <2>1 DEF Refresh, Request
<1>4. CASE Compare(t)
  <2> DEFINE new == [NoJob EXCEPT !.step = "start", !.asOf = j.asOf]
  <2>1. new \in Jobs /\ new.todo \subseteq new.got
    BY <1>1, NoJobTyped DEF Jobs, Steps
  <2> QED
    BY <1>2, <1>4, <2>1, NoJobTyped DEF Compare
<1>5. CASE NotFound(t) \/ Fails(t) \/ WriteMod(t)
  BY <1>2, <1>5, NoJobTyped DEF NotFound, Fails, WriteMod
<1>6. CASE GetMod(t)
  <2>1. \A o \in Tasks : [job[o] EXCEPT !.alone = FALSE] \in Jobs
                         /\ [job[o] EXCEPT !.alone = FALSE].todo = job[o].todo
                         /\ [job[o] EXCEPT !.alone = FALSE].got = job[o].got
    BY <1>1 DEF Jobs
  <2> DEFINE new == [j EXCEPT !.step = "list", !.modified = upstream.modified,
                              !.summary = upstream.summary, !.alone = AloneNow(t)]
  <2>2. AloneNow(t) \in BOOLEAN
    BY DEF AloneNow
  <2> HIDE DEF AloneNow
  <2>3. new \in Jobs /\ new.todo = j.todo /\ new.got = j.got
    BY <1>1, <2>2 DEF Jobs, Steps
  <2>4. job' = [o \in Tasks |-> IF o = t THEN new ELSE [job[o] EXCEPT !.alone = FALSE]]
    BY <1>6 DEF GetMod
  <2> HIDE DEF new
  <2> QED
    BY <1>1, <2>1, <2>3, <2>4 DEF TypeOK
<1>7. ASSUME NEW files \in SUBSET Files, Written(t, files)
      PROVE  job' \in [Tasks -> Jobs] /\ \A o \in Tasks : job'[o].todo \subseteq job'[o].got
  <2> DEFINE new == [j EXCEPT !.step = "files", !.got = files, !.todo = files]
  <2>1. new \in Jobs /\ new.todo \subseteq new.got
    BY <1>1 DEF Jobs, Steps
  <2> QED
    BY <1>2, <1>7, <2>1 DEF Written
<1>8. ASSUME NEW s \in Steps, GoTo(t, s)
      PROVE  job' \in [Tasks -> Jobs] /\ \A o \in Tasks : job'[o].todo \subseteq job'[o].got
  <2> DEFINE new == [j EXCEPT !.step = s]
  <2>1. new \in Jobs /\ new.todo = j.todo /\ new.got = j.got
    BY <1>1 DEF Jobs
  <2> QED
    BY <1>1, <1>2, <1>8, <2>1 DEF GoTo
<1>9. CASE GetFiles(t)
  <2>1. CASE Written(t, upstream.listed)
    BY <1>1, <1>7, <2>1
  <2>2. CASE GoTo(t, "page")
    BY <1>8, <2>2 DEF Steps
  <2> QED
    BY <1>9, <2>1, <2>2 DEF GetFiles
<1>10. CASE GetPage(t)
  <2>1. PICK next \in Nat, got \in SUBSET Files :
          /\ got = j.got \cup Between(j.index, next)
          /\ \/ Written(t, got)
             \/ /\ Set(t, [j EXCEPT !.got = got, !.index = next])
                /\ next < Cardinality(upstream.listed)
    BY <1>10, PageTurned
  <2> DEFINE new == [j EXCEPT !.got = got, !.index = next]
  <2>2. CASE Written(t, got)
    BY <1>7, <2>2
  <2>3. CASE Set(t, new) /\ next < Cardinality(upstream.listed)
    <3>1. next \in 0 .. MaxFiles - 1 /\ j.got \subseteq got
      BY <2>1, <2>3, Counts, CurseforgeAssumption
    <3>2. new \in Jobs /\ new.todo = j.todo /\ new.got = got
      BY <1>1, <3>1 DEF Jobs
    <3> QED
      BY <1>1, <1>2, <2>3, <3>1, <3>2
  <2> QED
    BY <2>1, <2>2, <2>3
<1>11. CASE UpsertFile(t)
  <2>1. PICK f \in j.todo : Set(t, [j EXCEPT !.todo = @ \ {f}])
    BY <1>11 DEF UpsertFile
  <2> DEFINE new == [j EXCEPT !.todo = @ \ {f}]
  <2>2. new \in Jobs /\ new.todo \subseteq new.got
    BY <1>1 DEF Jobs
  <2> QED
    BY <1>2, <2>1, <2>2
<1>12. CASE FilesWritten(t) \/ Drop(t) \/ ReadTranslation(t) \/ WriteTranslation(t)
  BY <1>8, <1>12 DEF FilesWritten, Drop, ReadTranslation, WriteTranslation, Steps
<1> QED
  BY <1>3, <1>4, <1>5, <1>6, <1>9, <1>10, <1>11, <1>12 DEF Work

LEMMA UpstreamTyped ==
  ASSUME TypeOK, UpstreamNext
  PROVE  TypeOK'
<1>1. ASSUME NEW listed \in SUBSET Files, NEW hidden \in SUBSET Files, NEW summary \in Nat,
             Edited(listed, hidden, summary)
      PROVE  TypeOK'
  BY <1>1 DEF Edited, store, TypeOK, Upstream
<1>2. /\ upstream.listed \subseteq Files /\ upstream.hidden \subseteq Files
      /\ upstream.summary \in Nat /\ upstream.modified \in Nat
  BY DEF TypeOK, Upstream
<1>3. CASE Publish
  BY <1>1, <1>2, <1>3 DEF Publish
<1>4. CASE HideFile
  BY <1>1, <1>2, <1>4 DEF HideFile
<1>5. CASE EditSummary
  BY <1>1, <1>2, <1>5 DEF EditSummary
<1>6. CASE HideMod
  BY <1>6 DEF HideMod, store, TypeOK, Upstream
<1> QED
  BY <1>3, <1>4, <1>5, <1>6 DEF UpstreamNext

\* The types; what is left to write is among what upstream listed, and the next
\* page begins within the list.
THEOREM TypeCorrect == Spec => []TypeOK
<1>1. Init => TypeOK
  <2> SUFFICES ASSUME Init PROVE TypeOK
    OBVIOUS
  <2> DEFINE lists == {1 .. n : n \in 0 .. MaxFiles}
  <2>1. upstream \in [visible : {TRUE}, modified : {1}, summary : {1}, listed : lists,
                      hidden : {{}}]
    BY DEF Init
  <2>2. lists \subseteq SUBSET Files
    BY CurseforgeAssumption DEF Files
  <2> HIDE DEF lists
  <2>3. /\ upstream.visible = TRUE /\ upstream.modified = 1 /\ upstream.summary = 1
        /\ upstream.listed \in lists /\ upstream.hidden = {}
        /\ upstream = [visible |-> upstream.visible, modified |-> upstream.modified,
                       summary |-> upstream.summary, listed |-> upstream.listed,
                       hidden |-> upstream.hidden]
    BY <2>1
  <2>5. upstream \in Upstream
    <3>1. upstream.listed \in SUBSET Files
      BY <2>2, <2>3
    <3>2. /\ upstream.modified \in Nat /\ upstream.summary \in Nat
          /\ upstream.hidden \in SUBSET Files
      BY <2>3
    <3>3. upstream.visible \in BOOLEAN
      BY <2>3, Zenon
    <3> QED
      BY <2>3, <3>1, <3>2, <3>3 DEF Upstream
  <2>4. job \in [Tasks -> Jobs] /\ \A t \in Tasks : job[t].todo \subseteq job[t].got
    BY NoJobTyped DEF Init
  <2> QED
    BY <2>4, <2>5 DEF Init, TypeOK
<1>2. TypeOK /\ [Next]_vars => TypeOK'
  <2> SUFFICES ASSUME TypeOK, [Next]_vars PROVE TypeOK'
    OBVIOUS
  <2>1. CASE UNCHANGED vars
    BY <2>1 DEF vars, store, TypeOK
  <2>2. CASE UpstreamNext
    BY <2>2, UpstreamTyped
  <2>3. CASE StoreHidden
    BY <2>3 DEF StoreHidden, TypeOK
  <2>4. ASSUME NEW t \in Tasks, Request(t) \/ Work(t) \/ Fails(t) PROVE TypeOK'
    <3>1. job[t] \in Jobs /\ job[t].modified \in Nat /\ job[t].summary \in Nat
      BY JobTypes DEF TypeOK
    <3>2. modDoc' \in Nat /\ translation' \in Nat /\ overlapped' \in BOOLEAN
          /\ upstream' = upstream /\ faults' \in {faults, faults + 1}
      BY <2>4, <3>1 DEF TypeOK, Request, Work, Fails, Refresh, Compare, GetMod, NotFound,
           GetFiles, GetPage, UpsertFile, FilesWritten, Drop, ReadTranslation,
           WriteTranslation, WriteMod, store
    <3>3. fileDocs' \in [Files -> {"none", "available", "hidden"}]
      BY <2>4 DEF TypeOK, Request, Work, Fails, Refresh, Compare, GetMod, NotFound,
           GetFiles, GetPage, UpsertFile, FilesWritten, Drop, ReadTranslation,
           WriteTranslation, WriteMod, store
    <3> QED
      BY <2>4, <3>2, <3>3, JobsTyped DEF TypeOK
  <2> QED
    BY <2>1, <2>2, <2>3, <2>4 DEF Next
<1> QED
  BY <1>1, <1>2, PTL DEF Spec

-----------------------------------------------------------------------------
(* The inductive invariant: steps that write nothing of the mod *)

\* Only the list counts for the progress of a sync, be the mod visible or not.
LEMMA ProgressStays ==
  ASSUME UNCHANGED <<fileDocs, translation>>, upstream'.listed = upstream.listed,
         upstream'.summary = upstream.summary, NEW j
  PROVE  (Progress(j))' <=> Progress(j)
BY DEF Progress, FilesMirrored, Between, Rank

\* An edit leaves every document and every sync behind.
LEMMA EditedKeepsInv ==
  ASSUME TypeOK, IInv, NEW listed, NEW hidden, NEW summary, Edited(listed, hidden, summary),
         listed \cap hidden = {}
  PROVE  IInv'
<1>1. /\ upstream'.modified = upstream.modified + 1 /\ upstream.modified < MaxModified
      /\ upstream'.listed = listed /\ upstream'.hidden = hidden
      /\ UNCHANGED <<second, modDoc, fileDocs, translation, job, overlapped>>
      /\ upstream.modified \in Nat /\ modDoc \in Nat /\ MaxModified \in Nat
  BY CurseforgeAssumption DEF Edited, store, TypeOK, Upstream
<1>2. SecondsPass' /\ DocInv'
  <2>1. modDoc <= upstream.modified /\ 1 <= upstream.modified
    BY DEF IInv, DocInv
  <2>2. modDoc' <= upstream'.modified /\ modDoc' # upstream'.modified
        /\ 1 <= upstream'.modified /\ upstream'.modified <= MaxModified
    BY <1>1, <2>1
  <2> QED
    BY <1>1, <2>2 DEF IInv, SecondsPass, DocInv, CurrentMeansMirrored
<1>3. ASSUME NEW t \in Tasks PROVE JobInv(t, job[t])'
  <2>1. /\ JobInv(t, job[t]) /\ job[t].modified \in Nat /\ job[t].asOf \in Nat
    BY JobTypes DEF IInv, TypeOK
  <2>2. job[t].alone => (AloneInv(t, job[t]))'
    BY <1>1, <2>1 DEF JobInv, AloneInv, InSync, AloneNow
  <2> QED
    BY <1>1, <2>1, <2>2 DEF JobInv, InSync
<1> QED
  BY <1>1, <1>2, <1>3 DEF IInv

LEMMA UpstreamKeepsInv ==
  ASSUME TypeOK, IInv, UpstreamNext
  PROVE  IInv'
<1>1. /\ upstream.listed \cap upstream.hidden = {}
      /\ upstream.listed \subseteq Files /\ Files \subseteq Int
  BY CurseforgeAssumption DEF IInv, DocInv, TypeOK, Upstream, Files
<1>2. CASE Publish
  <2>1. PICK f \in Files :
          /\ \A g \in Files : g < f <=> g \in upstream.listed \cup upstream.hidden
          /\ Edited(upstream.listed \cup {f}, upstream.hidden, upstream.summary)
    BY <1>2 DEF Publish
  <2>2. f \notin upstream.hidden
    <3>1. ~ (f < f)
      BY <1>1
    <3> QED
      BY <2>1, <3>1
  <2>3. (upstream.listed \cup {f}) \cap upstream.hidden = {}
    BY <1>1, <2>2
  <2> QED
    BY <2>1, <2>3, EditedKeepsInv
<1>3. CASE HideFile
  <2>1. PICK f \in upstream.listed :
          Edited(upstream.listed \ {f}, upstream.hidden \cup {f}, upstream.summary)
    BY <1>3 DEF HideFile
  <2>2. (upstream.listed \ {f}) \cap (upstream.hidden \cup {f}) = {}
    BY <1>1
  <2> QED
    BY <2>1, <2>2, EditedKeepsInv
<1>4. CASE EditSummary
  BY <1>1, <1>4, EditedKeepsInv DEF EditSummary
<1>5. CASE HideMod
  <2>1. /\ upstream'.modified = upstream.modified /\ upstream'.listed = upstream.listed
        /\ upstream'.hidden = upstream.hidden /\ upstream'.summary = upstream.summary
        /\ upstream'.visible = FALSE
        /\ UNCHANGED <<second, modDoc, fileDocs, translation, job, overlapped>>
    BY <1>5 DEF HideMod, store, TypeOK, Upstream
  <2>2. SecondsPass' /\ DocInv'
    BY <2>1 DEF IInv, SecondsPass, DocInv, CurrentMeansMirrored
  <2>3. ASSUME NEW t \in Tasks PROVE JobInv(t, job[t])'
    <3>1. JobInv(t, job[t])
      BY DEF IInv
    <3>2. AloneInv(t, job[t]) => (AloneInv(t, job[t]))'
      BY <2>1, ProgressStays DEF AloneInv, InSync, AloneNow
    <3> QED
      BY <2>1, <3>1, <3>2 DEF JobInv, InSync
  <2> QED
    BY <2>1, <2>2, <2>3 DEF IInv
<1> QED
  BY <1>2, <1>3, <1>4, <1>5 DEF UpstreamNext

\* A hidden file is none of the list.
LEMMA StoreHiddenKeepsInv ==
  ASSUME TypeOK, IInv, StoreHidden
  PROVE  IInv'
<1>1. PICK f \in upstream.hidden : fileDocs' = [fileDocs EXCEPT ![f] = "hidden"]
  BY DEF StoreHidden
<1>2. /\ UNCHANGED <<second, upstream, modDoc, translation, job, overlapped>>
      /\ f \notin upstream.listed /\ upstream.listed \subseteq Files
      /\ fileDocs \in [Files -> {"none", "available", "hidden"}]
  BY DEF StoreHidden, IInv, DocInv, TypeOK, Upstream
<1>3. \A g \in upstream.listed : fileDocs'[g] = fileDocs[g]
  BY <1>1, <1>2
<1>4. FilesMirrored => FilesMirrored'
  BY <1>1, <1>2 DEF FilesMirrored
<1>5. ASSUME NEW j, Progress(j) PROVE (Progress(j))'
  BY <1>2, <1>3, <1>4, <1>5 DEF Progress, Between, Rank
<1>6. SecondsPass' /\ DocInv'
  BY <1>2, <1>4 DEF IInv, SecondsPass, DocInv, CurrentMeansMirrored, Mirrored
<1>7. ASSUME NEW t \in Tasks PROVE JobInv(t, job[t])'
  <2>1. JobInv(t, job[t])
    BY DEF IInv
  <2>2. AloneInv(t, job[t]) => (AloneInv(t, job[t]))'
    BY <1>2, <1>5 DEF AloneInv, InSync, AloneNow
  <2> QED
    BY <1>2, <2>1, <2>2 DEF JobInv, InSync
<1> QED
  BY <1>2, <1>6, <1>7 DEF IInv

\* A job that is no sync, or no longer one, stands in nobody's way.
LEMMA LeaveKeepsInv ==
  ASSUME TypeOK, IInv, NEW t \in Tasks, NEW new \in Jobs, Set(t, new),
         UNCHANGED <<second, upstream, modDoc, fileDocs, translation, overlapped>>,
         new.step \in {"idle", "compare", "start"}, ~ new.alone,
         new.got = {}, new.index = 0,
         new.modified = 0 \/ new.modified = modDoc,
         new.step # "idle" => 1 <= new.asOf /\ new.asOf <= upstream.modified,
         new.step = "compare" => 1 <= new.modified
  PROVE  IInv'
<1>1. /\ job \in [Tasks -> Jobs] /\ job' = [job EXCEPT ![t] = new]
      /\ modDoc \in Nat /\ upstream.modified \in Nat
  BY DEF Set, TypeOK, Upstream
<1>2. SecondsPass' /\ DocInv'
  BY DEF IInv, SecondsPass, DocInv, CurrentMeansMirrored, Mirrored, FilesMirrored
<1>3. ASSUME NEW o \in Tasks PROVE JobInv(o, job[o])'
  <2>1. CASE o = t
    <3>1. new.modified <= upstream.modified /\ new.modified <= modDoc
      BY <1>1 DEF IInv, DocInv
    <3> QED
      BY <1>1, <2>1, <3>1 DEF JobInv, InSync
  <2>2. CASE o # t
    <3>1. JobInv(o, job[o]) /\ job'[o] = job[o] /\ InSync(o)' = InSync(o)
          /\ job[o].modified \in Nat
      BY <1>1, <2>2, JobTypes DEF IInv, InSync
    <3>2. ASSUME AloneInv(o, job[o]) PROVE (AloneInv(o, job[o]))'
      <4>1. AloneNow(o)'
        BY <1>1, <3>2 DEF AloneInv, AloneNow, InSync
      <4>2. \A u \in Tasks : job'[u].step = "compare" => job'[u].modified <= job[o].modified
        BY <1>1, <3>1, <3>2 DEF AloneInv
      <4> QED
        BY <3>1, <3>2, <4>1, <4>2, ProgressStays DEF AloneInv
    <3> QED
      BY <3>1, <3>2 DEF JobInv
  <2> QED
    BY <2>1, <2>2
<1> QED
  BY <1>2, <1>3 DEF IInv

LEMMA LeavesKeepInv ==
  ASSUME TypeOK, IInv, NEW t \in Tasks,
         Refresh(t) \/ Compare(t) \/ Request(t) \/ NotFound(t) \/ Fails(t)
  PROVE  IInv'
<1>1. UNCHANGED <<second, upstream, modDoc, fileDocs, translation, overlapped>>
  BY DEF Refresh, Compare, Request, NotFound, Fails, store
<1>2. /\ job[t] \in Jobs /\ JobInv(t, job[t]) /\ modDoc \in Nat
      /\ upstream.modified \in Nat /\ 1 <= upstream.modified
  BY DEF TypeOK, Upstream, IInv, DocInv
<1>3. CASE Set(t, NoJob)
  BY <1>1, <1>3, NoJobTyped, LeaveKeepsInv
<1>4. CASE Refresh(t)
  <2> DEFINE new == [NoJob EXCEPT !.step = "compare", !.asOf = upstream.modified,
                                  !.modified = modDoc]
  <2>1. /\ new \in Jobs /\ new.step = "compare" /\ ~ new.alone /\ new.got = {}
        /\ new.index = 0 /\ new.modified = modDoc /\ new.asOf = upstream.modified
    BY <1>2, NoJobTyped DEF Jobs, Steps
  <2>2. Set(t, new) /\ 1 <= modDoc
    BY <1>2, <1>4 DEF Refresh
  <2> HIDE DEF new
  <2> QED
    BY <1>1, <1>2, <2>1, <2>2, LeaveKeepsInv
<1>5. ASSUME NEW n \in Nat, 1 <= n, n <= upstream.modified,
             Set(t, [NoJob EXCEPT !.step = "start", !.asOf = n])
      PROVE  IInv'
  <2> DEFINE new == [NoJob EXCEPT !.step = "start", !.asOf = n]
  <2>1. /\ new \in Jobs /\ new.step = "start" /\ ~ new.alone /\ new.got = {}
        /\ new.index = 0 /\ new.modified = 0 /\ new.asOf = n
    BY <1>2, NoJobTyped DEF Jobs, Steps
  <2> HIDE DEF new
  <2> QED
    BY <1>1, <1>2, <1>5, <2>1, LeaveKeepsInv DEF new
<1>6. CASE Compare(t)
  <2>1. job[t].asOf \in Nat /\ 1 <= job[t].asOf /\ job[t].asOf <= upstream.modified
    BY <1>2, <1>6, JobTypes DEF Compare, JobInv
  <2> QED
    BY <1>3, <1>5, <1>6, <2>1 DEF Compare
<1>7. CASE Request(t)
  <2>1. Set(t, [NoJob EXCEPT !.step = "start", !.asOf = upstream.modified])
    BY <1>7 DEF Request
  <2>2. upstream.modified <= upstream.modified
    BY <1>2
  <2> QED
    BY <1>2, <1>5, <2>1, <2>2
<1> QED
  BY <1>3, <1>4, <1>6, <1>7 DEF NotFound, Fails

\* A sync that begins is alone, or all that are under way are known to overlap.
LEMMA GetModKeepsInv ==
  ASSUME TypeOK, IInv, NEW t \in Tasks, GetMod(t)
  PROVE  IInv'
<1> DEFINE new == [job[t] EXCEPT !.step = "list", !.modified = upstream.modified,
                                 !.summary = upstream.summary, !.alone = AloneNow(t)]
           other(o) == [job[o] EXCEPT !.alone = FALSE]
<1>1. /\ job' = [o \in Tasks |-> IF o = t THEN new ELSE other(o)]
      /\ overlapped' = (overlapped \/ ~ AloneNow(t)) /\ job[t].step = "start"
      /\ UNCHANGED <<second, upstream, modDoc, fileDocs, translation>>
  BY DEF GetMod, store
<1>2. /\ job \in [Tasks -> Jobs] /\ modDoc \in Nat /\ upstream.modified \in Nat
      /\ \A o \in Tasks : JobInv(o, job[o]) /\ job[o].modified \in Nat
      /\ modDoc <= upstream.modified
  BY JobTypes DEF TypeOK, Upstream, IInv, DocInv
<1>3. AloneNow(t) \in BOOLEAN
  BY DEF AloneNow
<1>4. /\ new.step = "list" /\ new.modified = upstream.modified
      /\ new.summary = upstream.summary /\ (new.alone <=> AloneNow(t))
      /\ new.asOf = job[t].asOf /\ new.got = job[t].got /\ new.index = job[t].index
  <2> HIDE DEF AloneNow
  <2> QED
    BY <1>2 DEF Jobs
<1>5. ASSUME NEW o \in Tasks
      PROVE  /\ other(o).step = job[o].step /\ other(o).modified = job[o].modified
             /\ other(o).asOf = job[o].asOf /\ other(o).got = job[o].got
             /\ other(o).index = job[o].index /\ other(o).alone = FALSE
  BY <1>2 DEF Jobs
<1> HIDE DEF new, other
<1>6. \A o \in Tasks \ {t} : InSync(o)' = InSync(o)
  BY <1>1, <1>5 DEF InSync
<1>7. SecondsPass' /\ DocInv'
  BY <1>1 DEF IInv, SecondsPass, DocInv, CurrentMeansMirrored, Mirrored, FilesMirrored
<1>8. JobInv(t, job[t])'
  <2>1. job[t].got = {} /\ job[t].index = 0 /\ 1 <= job[t].asOf
        /\ job[t].asOf <= upstream.modified
    BY <1>1, <1>2 DEF JobInv
  <2>2. job'[t] = new
    BY <1>1
  <2>3. AloneNow(t) => (AloneInv(t, job[t]))'
    <3>1. AloneNow(t) => AloneNow(t)' /\ InSync(t)'
      BY <1>4, <1>6, <2>2 DEF AloneNow, InSync
    <3>2. \A o \in Tasks : job'[o].step = "compare" => job'[o].modified <= upstream.modified
      BY <1>1, <1>2, <1>4, <1>5 DEF JobInv
    <3> QED
      BY <1>1, <1>2, <1>4, <2>2, <3>1, <3>2 DEF AloneInv, Progress
  <2>4. new.alone \/ overlapped'
    BY <1>1, <1>4, Zenon
  <2>5. /\ job'[t].step = "list" /\ job'[t].got = {} /\ job'[t].index = 0
        /\ job'[t].modified = upstream'.modified /\ job'[t].asOf = job[t].asOf
        /\ (job'[t].alone => AloneNow(t)) /\ (job'[t].alone \/ overlapped')
        /\ upstream'.modified \in Nat
    BY <1>1, <1>2, <1>4, <2>1, <2>2, <2>4
  <2> QED
    BY <1>1, <2>1, <2>3, <2>5 DEF JobInv
<1>9. ASSUME NEW o \in Tasks, o # t PROVE JobInv(o, job[o])'
  <2>1. job'[o] = other(o)
    BY <1>1, <1>9
  <2>2. InSync(o) => ~ AloneNow(t)
    BY <1>9 DEF AloneNow
  <2> QED
    BY <1>1, <1>2, <1>5, <1>6, <1>9, <2>1, <2>2 DEF JobInv
<1> QED
  BY <1>7, <1>8, <1>9 DEF IInv

-----------------------------------------------------------------------------
(* The inductive invariant: steps of a sync *)

\* What has to be shown of a step of a sync is that a sync whose first answer is
\* still current makes progress by it, and undoes nothing.
LEMMA SyncStepKeepsInv ==
  ASSUME TypeOK, IInv, NEW t \in Tasks, InSync(t), NEW new \in Jobs, Set(t, new),
         UNCHANGED <<second, upstream, modDoc, overlapped>>,
         new.step \notin {"idle", "compare", "start", "list"},
         new.asOf = job[t].asOf, new.modified = job[t].modified,
         new.alone = job[t].alone,
         ~ EmptyPages /\ Progress(job[t]) =>
           /\ \A j : j = new => (Progress(j))'
           /\ Mirrored => Mirrored'
  PROVE  IInv'
<1> DEFINE old == job[t]
<1>1. /\ job \in [Tasks -> Jobs] /\ job' = [job EXCEPT ![t] = new]
      /\ modDoc \in Nat /\ upstream.modified \in Nat /\ old.modified \in Nat
      /\ JobInv(t, old)
  BY JobTypes DEF Set, TypeOK, Upstream, IInv
<1>2. \A o \in Tasks : InSync(o)' = InSync(o)
  BY <1>1 DEF InSync
<1>3. \A o \in Tasks : AloneNow(o)' = AloneNow(o)
  BY <1>2 DEF AloneNow
<1>4. SecondsPass'
  BY DEF IInv, SecondsPass
<1>5. DocInv'
  <2>1. ASSUME ~ EmptyPages, CurrentMeansMirrored, upstream.visible,
               modDoc = upstream.modified, ~ overlapped
        PROVE  Mirrored'
    <3>1. Mirrored /\ old.alone
      BY <1>1, <2>1 DEF CurrentMeansMirrored, JobInv
    <3>2. modDoc <= old.modified /\ old.modified <= upstream.modified
      BY <1>1, <3>1 DEF JobInv, AloneInv
    <3>3. old.modified = upstream.modified
      BY <1>1, <2>1, <3>2
    <3>4. Progress(old)
      BY <1>1, <2>1, <3>1, <3>3 DEF JobInv, AloneInv
    <3> QED
      BY <2>1, <3>1, <3>4
  <2> QED
    BY <2>1 DEF IInv, DocInv, CurrentMeansMirrored
<1>6. ASSUME NEW o \in Tasks, o # t PROVE JobInv(o, job[o])'
  <2>1. JobInv(o, job[o]) /\ job'[o] = job[o]
    BY <1>1, <1>6 DEF IInv
  <2>2. ~ job[o].alone
    BY <1>6, <2>1 DEF JobInv, AloneInv, AloneNow
  <2> QED
    BY <1>2, <2>1, <2>2 DEF JobInv
<1>7. JobInv(t, job[t])'
  <2>1. job'[t] = new
    BY <1>1
  <2>2. ASSUME old.alone PROVE (AloneInv(t, job[t]))'
    <3>1. AloneInv(t, old)
      BY <1>1, <2>2 DEF JobInv
    <3>2. \A o \in Tasks : job'[o].step = "compare" => job'[o].modified <= new.modified
      BY <1>1, <3>1 DEF AloneInv
    <3>3. ~ EmptyPages /\ new.modified = upstream.modified => (Progress(job[t]))'
      <4> SUFFICES ASSUME ~ EmptyPages, new.modified = upstream.modified
                   PROVE  (Progress(job[t]))'
        OBVIOUS
      <4>1. Progress(old)
        BY <3>1 DEF AloneInv
      <4>2. \A j : j = new => (Progress(j))'
        BY <4>1
      <4> QED
        BY <2>1, <4>2 DEF Progress
    <3> QED
      BY <1>2, <1>3, <2>1, <3>1, <3>2, <3>3 DEF AloneInv
  <2>3. /\ new.modified <= upstream'.modified
        /\ 1 <= new.asOf /\ new.asOf <= upstream'.modified
        /\ new.asOf <= new.modified /\ (new.alone \/ overlapped')
    BY <1>1 DEF JobInv, InSync
  <2>4. new.step \notin {"idle", "compare", "start", "list"} /\ new.alone = old.alone
    OBVIOUS
  <2> QED
    BY <2>1, <2>2, <2>3, <2>4 DEF JobInv
<1> QED
  BY <1>4, <1>5, <1>6, <1>7 DEF IInv

\* A step that only goes on with the files of the answers.
LEMMA FetchKeepsInv ==
  ASSUME TypeOK, IInv, NEW t \in Tasks, GetFiles(t) \/ GetPage(t)
  PROVE  IInv'
<1> DEFINE j == job[t]
<1>1. /\ j \in Jobs /\ JobInv(t, j) /\ j.step \in {"list", "page"} /\ InSync(t)
      /\ UNCHANGED <<second, upstream, modDoc, fileDocs, translation, overlapped>>
      /\ upstream.listed \subseteq Files
  BY DEF TypeOK, Upstream, IInv, GetFiles, GetPage, InSync, store
<1>2. Mirrored => Mirrored'
  BY <1>1 DEF Mirrored, FilesMirrored
<1>3. ASSUME NEW files \in SUBSET Files, Written(t, files),
             ~ EmptyPages /\ Progress(j) => files = upstream.listed
      PROVE  IInv'
  <2> DEFINE new == [j EXCEPT !.step = "files", !.got = files, !.todo = files]
  <2>1. /\ new \in Jobs /\ new.step = "files" /\ new.got = files /\ new.todo = files
        /\ new.asOf = j.asOf /\ new.modified = j.modified /\ new.summary = j.summary
        /\ new.alone = j.alone
    BY <1>1 DEF Jobs, Steps
  <2>2. Set(t, new)
    BY <1>3 DEF Written
  <2> HIDE DEF new
  <2>3. ASSUME ~ EmptyPages, Progress(j), NEW i, i = new PROVE (Progress(i))'
    BY <1>1, <1>3, <2>1, <2>3 DEF Progress
  <2> QED
    BY <1>1, <1>2, <2>1, <2>2, <2>3, SyncStepKeepsInv
<1>4. CASE GetFiles(t)
  <2>1. CASE Written(t, upstream.listed)
    BY <1>1, <1>3, <2>1
  <2>2. CASE GoTo(t, "page")
    <3> DEFINE new == [j EXCEPT !.step = "page"]
    <3>1. /\ new \in Jobs /\ new.step = "page" /\ new.got = j.got /\ new.index = j.index
          /\ new.asOf = j.asOf /\ new.modified = j.modified /\ new.summary = j.summary
          /\ new.alone = j.alone
      BY <1>1 DEF Jobs, Steps
    <3>2. Set(t, new)
      BY <2>2 DEF GoTo
    <3>3. j.got = {} /\ j.index = 0 /\ Between(0, 0) = {}
      BY <1>1, <1>4, PagesJoin DEF GetFiles, JobInv
    <3> HIDE DEF new
    <3>4. Between(0, 0)' = Between(0, 0)
      BY <1>1 DEF Between, Rank
    <3>5. ASSUME Progress(j), NEW i, i = new PROVE (Progress(i))'
      BY <1>1, <3>1, <3>3, <3>4, <3>5 DEF Progress
    <3> QED
      BY <1>1, <1>2, <3>1, <3>2, <3>5, SyncStepKeepsInv
  <2> QED
    BY <1>4, <2>1, <2>2 DEF GetFiles
<1>5. CASE GetPage(t)
  <2>1. PICK next \in Nat, got \in SUBSET Files :
          /\ j.index <= next
          /\ got = j.got \cup Between(j.index, next)
          /\ \/ /\ Written(t, got)
                /\ EmptyPages \/ next >= Cardinality(upstream.listed)
             \/ /\ Set(t, [j EXCEPT !.got = got, !.index = next])
                /\ next < Cardinality(upstream.listed)
    BY <1>5, PageTurned
  <2>2. j.index \in Nat /\ j.step = "page"
    BY <1>1, <1>5, JobTypes DEF GetPage
  <2>3. Progress(j) => got = Between(0, next)
    BY <2>1, <2>2, PagesJoin DEF Progress
  <2>4. CASE Written(t, got) /\ (EmptyPages \/ next >= Cardinality(upstream.listed))
    BY <1>3, <2>3, <2>4, PagesJoin
  <2>5. CASE /\ Set(t, [j EXCEPT !.got = got, !.index = next])
             /\ next < Cardinality(upstream.listed)
    <3> DEFINE new == [j EXCEPT !.got = got, !.index = next]
    <3>1. next \in 0 .. MaxFiles - 1
      BY <2>5, Counts, CurseforgeAssumption
    <3>2. /\ new \in Jobs /\ new.step = j.step /\ new.got = got /\ new.index = next
          /\ new.asOf = j.asOf /\ new.modified = j.modified /\ new.summary = j.summary
          /\ new.alone = j.alone
      BY <1>1, <3>1 DEF Jobs, Steps
    <3> HIDE DEF new
    <3>3. Between(0, next)' = Between(0, next)
      BY <1>1 DEF Between, Rank
    <3>4. ASSUME Progress(j), NEW i, i = new PROVE (Progress(i))'
      BY <1>1, <2>2, <2>3, <3>2, <3>3, <3>4 DEF Progress
    <3> QED
      BY <1>1, <1>2, <2>2, <2>5, <3>2, <3>4, SyncStepKeepsInv DEF new
  <2> QED
    BY <2>1, <2>4, <2>5
<1> QED
  BY <1>4, <1>5

LEMMA FilesKeepInv ==
  ASSUME TypeOK, IInv, NEW t \in Tasks, UpsertFile(t) \/ FilesWritten(t) \/ Drop(t)
  PROVE  IInv'
<1> DEFINE j == job[t]
<1>1. /\ j \in Jobs /\ j.step \in {"files", "drop"} /\ InSync(t)
      /\ UNCHANGED <<second, upstream, modDoc, translation, overlapped>>
      /\ upstream.listed \subseteq Files /\ fileDocs \in [Files -> {"none", "available", "hidden"}]
      /\ j.todo \subseteq j.got /\ j.got \subseteq Files
  BY JobTypes DEF TypeOK, Upstream, UpsertFile, FilesWritten, Drop, InSync, store
<1>2. CASE UpsertFile(t)
  <2>1. PICK f \in j.todo : /\ fileDocs' = [fileDocs EXCEPT ![f] = "available"]
                            /\ Set(t, [j EXCEPT !.todo = @ \ {f}])
    BY <1>2 DEF UpsertFile
  <2> DEFINE new == [j EXCEPT !.todo = @ \ {f}]
  <2>2. /\ new \in Jobs /\ new.step = "files" /\ new.got = j.got /\ new.todo = j.todo \ {f}
        /\ new.asOf = j.asOf /\ new.modified = j.modified /\ new.summary = j.summary
        /\ new.alone = j.alone
    BY <1>1, <1>2 DEF Jobs, UpsertFile
  <2> HIDE DEF new
  <2>3. ASSUME Progress(j) PROVE Mirrored => Mirrored'
    <3>1. f \in upstream.listed
      BY <1>1, <2>3 DEF Progress
    <3> QED
      BY <1>1, <2>1, <3>1 DEF Mirrored, FilesMirrored
  <2>4. ASSUME Progress(j), NEW i, i = new PROVE (Progress(i))'
    <3>1. \A g \in upstream.listed \ j.todo : fileDocs[g] = "available"
      BY <1>2, <2>4 DEF Progress, UpsertFile
    <3>2. \A g \in upstream.listed \ (j.todo \ {f}) : fileDocs'[g] = "available"
      BY <1>1, <2>1, <3>1
    <3>3. j.got = upstream.listed /\ j.summary = upstream.summary
      BY <1>1, <2>4 DEF Progress
    <3> QED
      BY <1>1, <2>2, <2>4, <3>2, <3>3 DEF Progress
  <2> QED
    BY <1>1, <2>1, <2>2, <2>3, <2>4, SyncStepKeepsInv DEF new
<1>3. CASE FilesWritten(t)
  <2> DEFINE new == [j EXCEPT !.step = "drop"]
  <2>1. /\ new \in Jobs /\ new.step = "drop" /\ new.got = j.got
        /\ new.asOf = j.asOf /\ new.modified = j.modified /\ new.summary = j.summary
        /\ new.alone = j.alone
    BY <1>1 DEF Jobs, Steps
  <2>2. Set(t, new) /\ j.todo = {} /\ j.step = "files" /\ fileDocs' = fileDocs
    BY <1>3 DEF FilesWritten, GoTo, store
  <2> HIDE DEF new
  <2>3. Mirrored => Mirrored'
    BY <1>1, <2>2 DEF Mirrored, FilesMirrored
  <2>4. ASSUME Progress(j), NEW i, i = new PROVE (Progress(i))'
    BY <1>1, <2>1, <2>2, <2>4 DEF Progress
  <2> QED
    BY <1>1, <2>1, <2>2, <2>3, <2>4, SyncStepKeepsInv
<1>4. CASE Drop(t)
  <2> DEFINE new == [j EXCEPT !.step = "readTranslation"]
  <2>1. /\ new \in Jobs /\ new.step = "readTranslation" /\ new.got = j.got
        /\ new.asOf = j.asOf /\ new.modified = j.modified /\ new.summary = j.summary
        /\ new.alone = j.alone
    BY <1>1 DEF Jobs, Steps
  <2>2. /\ Set(t, new) /\ j.step = "drop"
        /\ fileDocs' = [f \in Files |-> IF f \notin j.got /\ fileDocs[f] = "available"
                                        THEN "none" ELSE fileDocs[f]]
    BY <1>4 DEF Drop, GoTo
  <2> HIDE DEF new
  <2>3. ASSUME Progress(j) PROVE FilesMirrored'
    <3>1. j.got = upstream.listed /\ \A f \in upstream.listed : fileDocs[f] = "available"
      BY <2>2, <2>3 DEF Progress
    <3> QED
      BY <1>1, <2>2, <3>1 DEF FilesMirrored
  <2>4. ASSUME Progress(j) PROVE Mirrored => Mirrored'
    BY <1>1, <2>3, <2>4 DEF Mirrored
  <2>5. ASSUME Progress(j), NEW i, i = new PROVE (Progress(i))'
    <3>1. FilesMirrored' /\ j.got = upstream.listed /\ j.summary = upstream.summary
      BY <2>2, <2>3, <2>5 DEF Progress
    <3> QED
      BY <1>1, <2>1, <2>5, <3>1 DEF Progress
  <2> QED
    BY <1>1, <2>1, <2>2, <2>4, <2>5, SyncStepKeepsInv
<1> QED
  BY <1>2, <1>3, <1>4

LEMMA TranslationKeepsInv ==
  ASSUME TypeOK, IInv, NEW t \in Tasks, ReadTranslation(t) \/ WriteTranslation(t)
  PROVE  IInv'
<1> DEFINE j == job[t]
<1>1. /\ j \in Jobs /\ j.step \in {"readTranslation", "writeTranslation"} /\ InSync(t)
      /\ UNCHANGED <<second, upstream, modDoc, fileDocs, overlapped>>
  BY DEF TypeOK, ReadTranslation, WriteTranslation, InSync, store
<1>2. PICK s \in {"writeTranslation", "mod"} :
        /\ GoTo(t, s)
        /\ s = "mod" => translation' = j.summary
        /\ translation' \in {translation, j.summary}
  BY DEF ReadTranslation, WriteTranslation, store
<1> DEFINE new == [j EXCEPT !.step = s]
<1>3. /\ new \in Jobs /\ new.step = s /\ new.got = j.got
      /\ new.asOf = j.asOf /\ new.modified = j.modified /\ new.summary = j.summary
      /\ new.alone = j.alone
  BY <1>1 DEF Jobs, Steps
<1>4. Set(t, new)
  BY <1>2 DEF GoTo
<1> HIDE DEF new
<1>5. FilesMirrored' <=> FilesMirrored
  BY <1>1 DEF FilesMirrored
<1>6. ASSUME Progress(j) PROVE Mirrored => Mirrored'
  <2>1. j.summary = upstream.summary
    BY <1>6 DEF Progress
  <2> QED
    BY <1>1, <1>2, <1>5, <2>1 DEF Mirrored
<1>7. ASSUME Progress(j), NEW i, i = new PROVE (Progress(i))'
  <2>1. FilesMirrored /\ j.got = upstream.listed /\ j.summary = upstream.summary
    BY <1>1, <1>7 DEF Progress
  <2> QED
    BY <1>1, <1>2, <1>3, <1>5, <1>7, <2>1 DEF Progress
<1> QED
  BY <1>1, <1>2, <1>3, <1>4, <1>6, <1>7, SyncStepKeepsInv

\* The document is written last: by then all it vouches for is there.
LEMMA WriteModKeepsInv ==
  ASSUME TypeOK, IInv, NEW t \in Tasks, WriteMod(t)
  PROVE  IInv'
<1> DEFINE j == job[t]
<1>1. /\ job \in [Tasks -> Jobs] /\ job' = [job EXCEPT ![t] = NoJob] /\ j.step = "mod"
      /\ modDoc' = j.modified /\ overlapped' = (overlapped /\ ~ j.alone)
      /\ UNCHANGED <<second, upstream, fileDocs, translation>>
      /\ modDoc \in Nat /\ upstream.modified \in Nat /\ j.modified \in Nat
      /\ JobInv(t, j) /\ InSync(t)
  BY JobTypes DEF WriteMod, Set, TypeOK, Upstream, IInv, InSync
<1>2. \A o \in Tasks \ {t} : InSync(o)' = InSync(o) /\ job'[o] = job[o]
  BY <1>1 DEF InSync
<1>3. SecondsPass'
  BY <1>1 DEF IInv, SecondsPass
<1>4. DocInv'
  <2>1. ASSUME ~ EmptyPages, upstream.visible, modDoc' = upstream.modified, ~ overlapped'
        PROVE  Mirrored'
    <3>1. j.alone /\ j.modified = upstream.modified
      BY <1>1, <2>1 DEF JobInv
    <3>2. Progress(j)
      BY <1>1, <2>1, <3>1 DEF JobInv, AloneInv
    <3>3. FilesMirrored /\ translation = upstream.summary
      BY <1>1, <3>2 DEF Progress
    <3> QED
      BY <1>1, <3>3 DEF Mirrored, FilesMirrored
  <2>2. j.modified <= upstream.modified
    BY <1>1 DEF JobInv
  <2> QED
    BY <1>1, <2>1, <2>2 DEF IInv, DocInv, CurrentMeansMirrored
<1>5. ASSUME NEW o \in Tasks, o # t PROVE JobInv(o, job[o])'
  <2>1. JobInv(o, job[o]) /\ job[o].modified \in Nat
    BY <1>1, JobTypes DEF IInv
  <2>2. ~ job[o].alone
    BY <1>1, <1>5, <2>1 DEF JobInv, AloneInv, AloneNow
  <2>3. InSync(o) => ~ j.alone /\ overlapped
    BY <1>1, <1>5, <2>1, <2>2 DEF JobInv, AloneInv, AloneNow
  <2>4. ~ overlapped' => j.alone
    BY <1>1 DEF JobInv
  <2>5. job[o].step = "compare" /\ ~ overlapped' => job[o].modified <= modDoc'
    BY <1>1, <2>4 DEF JobInv, AloneInv
  <2>6. InSync(o) => overlapped'
    BY <1>1, <2>3
  <2> QED
    BY <1>1, <1>2, <1>5, <2>1, <2>2, <2>5, <2>6 DEF JobInv
<1>6. JobInv(t, job[t])'
  BY <1>1, NoJobTyped DEF JobInv, InSync
<1> QED
  BY <1>3, <1>4, <1>5, <1>6 DEF IInv

-----------------------------------------------------------------------------
(* The theorems *)

\* The conjunction that is inductive holds in every state.
THEOREM Inductive == Spec => []IInv
<1>1. Init => IInv
  <2> SUFFICES ASSUME Init PROVE IInv
    OBVIOUS
  <2>1. SecondsPass
    BY DEF Init, SecondsPass
  <2>2. upstream.modified = 1 /\ upstream.hidden = {}
    BY DEF Init
  <2>3. DocInv
    BY <2>2, CurseforgeAssumption DEF Init, DocInv, CurrentMeansMirrored
  <2>4. ASSUME NEW t \in Tasks PROVE JobInv(t, job[t])
    BY <2>2, NoJobTyped DEF Init, JobInv, InSync
  <2> QED
    BY <2>1, <2>3, <2>4 DEF IInv
<1>2. TypeOK /\ IInv /\ [Next]_vars => IInv'
  <2> SUFFICES ASSUME TypeOK, IInv, [Next]_vars PROVE IInv'
    OBVIOUS
  <2>1. CASE UNCHANGED vars
    <3>1. UNCHANGED <<second, upstream, modDoc, fileDocs, translation, job, overlapped>>
      BY <2>1 DEF vars, store
    <3>2. ASSUME NEW t \in Tasks PROVE JobInv(t, job[t])'
      <4>1. JobInv(t, job[t])
        BY DEF IInv
      <4> QED
        BY <3>1, <4>1, ProgressStays DEF JobInv, AloneInv, InSync, AloneNow
    <3> QED
      BY <3>1, <3>2 DEF IInv, SecondsPass, DocInv, CurrentMeansMirrored, Mirrored,
           FilesMirrored
  <2>2. ASSUME NEW t \in Tasks, Request(t) \/ Work(t) \/ Fails(t) PROVE IInv'
    BY <2>2, LeavesKeepInv, GetModKeepsInv, FetchKeepsInv, FilesKeepInv,
       TranslationKeepsInv, WriteModKeepsInv DEF Work
  <2> QED
    BY <2>1, <2>2, UpstreamKeepsInv, StoreHiddenKeepsInv DEF Next
<1> QED
  BY <1>1, <1>2, TypeCorrect, PTL DEF Spec

\* A document with upstream's dateModified vouches for files and translation,
\* however the pages moved, as long as upstream sends no empty page before the end.
THEOREM CurrentIsMirrored ==
  ASSUME ~ EmptyPages PROVE Spec => []CurrentMeansMirrored
<1>1. IInv => CurrentMeansMirrored
  BY DEF IInv, DocInv
<1> QED
  BY <1>1, Inductive, PTL

\* A hidden file outlives every sync that has not been shown it in a list.
THEOREM HiddenStays == Spec => HiddenSurvives
<1>1. ASSUME TypeOK, [Next]_vars, NEW f \in Files, fileDocs[f] = "hidden",
             \A t \in Tasks : f \notin job[t].got
      PROVE  fileDocs'[f] = "hidden"
  <2>0. fileDocs \in [Files -> {"none", "available", "hidden"}]
    BY <1>1 DEF TypeOK
  <2>1. ASSUME NEW t \in Tasks, UpsertFile(t) PROVE fileDocs'[f] = "hidden"
    <3>1. PICK g \in job[t].todo : fileDocs' = [fileDocs EXCEPT ![g] = "available"]
      BY <2>1 DEF UpsertFile
    <3>2. g # f
      BY <1>1 DEF TypeOK
    <3> QED
      BY <1>1, <2>0, <3>1, <3>2
  <2>2. ASSUME NEW t \in Tasks, Drop(t) PROVE fileDocs'[f] = "hidden"
    BY <1>1, <2>2 DEF Drop
  <2>3. CASE StoreHidden
    BY <1>1, <2>0, <2>3 DEF StoreHidden
  <2>4. ASSUME NEW t \in Tasks, Request(t) \/ Work(t) \/ Fails(t)
        PROVE  UpsertFile(t) \/ Drop(t) \/ fileDocs' = fileDocs
    BY <2>4 DEF Request, Work, Fails, Refresh, Compare, GetMod, NotFound, GetFiles, GetPage,
         FilesWritten, ReadTranslation, WriteTranslation, WriteMod, store
  <2>5. UpstreamNext => fileDocs' = fileDocs
    BY DEF UpstreamNext, Publish, HideFile, EditSummary, HideMod, Edited, store
  <2> QED
    BY <1>1, <2>1, <2>2, <2>3, <2>4, <2>5 DEF Next, vars, store
<1>2. TypeOK /\ [Next]_vars =>
        [\A f \in Files :
          fileDocs[f] = "hidden" /\ (\A t \in Tasks : f \notin job[t].got)
          => fileDocs'[f] = "hidden"]_vars
  BY <1>1
<1> QED
  BY <1>2, TypeCorrect, PTL DEF Spec, HiddenSurvives

\* A task that ends without an error leaves the mod as it was when the task began,
\* or newer, to the second, and with the files and the translation of upstream if
\* that did not change meanwhile: the second part rests on what a current document
\* vouches for (CurrentMeansMirrored).
THEOREM CleanIsCurrent ==
  ASSUME ~ EmptyPages PROVE Spec => CleanMeansCurrent
<1>1. ASSUME TypeOK, IInv, [Next]_vars, NEW t \in Tasks,
             job[t].step # "idle", job'[t].step = "idle", faults' = faults,
             upstream.visible, ~ overlapped, ~ overlapped'
      PROVE  /\ second[modDoc'] >= second[job[t].asOf]
             /\ 1 <= modDoc' /\ UNCHANGED <<second, upstream>>
  <2> DEFINE j == job[t]
  <2>1. /\ j \in Jobs /\ j.asOf \in Nat /\ j.modified \in Nat /\ JobInv(t, j)
        /\ job \in [Tasks -> Jobs] /\ modDoc \in Nat /\ upstream.modified \in Nat
        /\ SecondsPass /\ upstream.modified <= MaxModified /\ modDoc <= upstream.modified
        /\ faults \in Nat
    BY <1>1, JobTypes DEF TypeOK, Upstream, IInv, DocInv
  <2>2. 1 <= j.asOf /\ j.asOf <= upstream.modified
    BY <1>1, <2>1 DEF JobInv
  <2>3. CASE Compare(t)
    <3>1. /\ modDoc' = modDoc /\ UNCHANGED <<second, upstream>> /\ SameSecond(j.modified, upstream.modified)
          /\ j.step = "compare"
      <4>1. ASSUME ~ SameSecond(j.modified, upstream.modified) PROVE FALSE
        <5>1. Set(t, [NoJob EXCEPT !.step = "start", !.asOf = j.asOf])
          BY <1>1, <2>3, <4>1 DEF Compare
        <5>2. [NoJob EXCEPT !.step = "start", !.asOf = j.asOf].step = "start"
          BY DEF NoJob
        <5>3. job'[t].step = "start"
          BY <2>1, <5>1, <5>2 DEF Set
        <5> QED
          BY <1>1, <5>3
      <4> QED
        BY <2>3, <4>1 DEF Compare, store
    <3>2. 1 <= j.modified /\ j.modified <= modDoc
      BY <1>1, <2>1, <3>1 DEF JobInv
    <3>3. /\ j.modified \in 1 .. MaxModified /\ modDoc \in 1 .. MaxModified
          /\ j.asOf \in 1 .. MaxModified /\ upstream.modified \in 1 .. MaxModified
      BY <2>1, <2>2, <3>2, CurseforgeAssumption
    <3>4. second[j.modified] <= second[modDoc] /\ second[j.asOf] <= second[upstream.modified]
          /\ second[modDoc] \in Nat /\ second[j.asOf] \in Nat
          /\ second[j.modified] = second[upstream.modified]
          /\ second[j.modified] \in Nat
      BY <2>1, <2>2, <3>1, <3>2, <3>3, LaterSecond DEF SameSecond
    <3> QED
      BY <2>1, <3>1, <3>2, <3>4 DEF Jobs
  <2>4. CASE WriteMod(t)
    <3>1. /\ modDoc' = j.modified /\ UNCHANGED <<second, upstream>> /\ j.asOf <= j.modified
          /\ j.modified <= upstream.modified
      BY <2>1, <2>4 DEF WriteMod, JobInv, InSync
    <3>2. j.asOf \in 1 .. MaxModified /\ j.modified \in 1 .. MaxModified
      BY <2>1, <2>2, <3>1, CurseforgeAssumption
    <3>3. /\ second[j.asOf] <= second[j.modified]
          /\ second[j.asOf] \in Nat /\ second[j.modified] \in Nat
      BY <2>1, <3>1, <3>2, LaterSecond
    <3> QED
      BY <2>1, <2>2, <3>1, <3>3
  <2>5. ASSUME NEW o \in Tasks, Request(o) \/ Work(o) \/ Fails(o)
        PROVE  Compare(t) \/ WriteMod(t)
    <3>1. job[t].step # "idle" /\ job'[t].step = "idle" /\ faults' = faults /\ upstream.visible
      BY <1>1
    <3>2. ~ GetMod(o)
      <4> SUFFICES ASSUME GetMod(o) PROVE FALSE
        OBVIOUS
      <4>1. ASSUME o = t PROVE FALSE
        <5>1. job'[t] = [j EXCEPT !.step = "list", !.modified = upstream.modified,
                                  !.summary = upstream.summary, !.alone = AloneNow(t)]
          BY <4>1 DEF GetMod
        <5>2. job'[t].step = "list"
          BY <2>1, <5>1 DEF Jobs
        <5> QED
          BY <3>1, <5>2
      <4>2. ASSUME o # t PROVE FALSE
        <5>1. job'[t] = [j EXCEPT !.alone = FALSE]
          BY <4>2 DEF GetMod
        <5>2. job'[t].step = j.step
          BY <2>1, <5>1 DEF Jobs
        <5> QED
          BY <3>1, <5>2
      <4> QED
        BY <4>1, <4>2
    <3>3. ~ Fails(o) /\ ~ NotFound(o)
      BY <2>1, <3>1 DEF Fails, NotFound
    <3>4. ASSUME NEW k, Set(o, k) PROVE o = t /\ k.step = "idle"
      BY <2>1, <3>1, <3>4 DEF Set
    <3>5. \A k : Set(o, k) => o = t /\ k.step = "idle"
      BY <3>4
    <3>6. ASSUME NEW s, GoTo(o, s) PROVE s = "idle"
      <4>1. o = t /\ [job[o] EXCEPT !.step = s].step = "idle"
        BY <3>5, <3>6 DEF GoTo
      <4> QED
        BY <2>1, <4>1 DEF Jobs
    <3>7. ASSUME NEW files, Written(o, files) PROVE FALSE
      <4>1. o = t /\ [job[o] EXCEPT !.step = "files", !.got = files, !.todo = files].step = "idle"
        BY <3>5, <3>7 DEF Written
      <4> QED
        BY <2>1, <4>1 DEF Jobs
    <3>8. ~ FilesWritten(o) /\ ~ Drop(o) /\ ~ ReadTranslation(o) /\ ~ WriteTranslation(o)
      BY <3>6 DEF FilesWritten, Drop, ReadTranslation, WriteTranslation
    <3>9. ~ Request(o) /\ ~ Refresh(o)
      <4>1. job[o].step = "idle" => o # t
        BY <3>1
      <4> QED
        BY <3>5, <4>1 DEF Request, Refresh
    <3>10. ~ GetFiles(o)
      BY <3>6, <3>7 DEF GetFiles
    <3>11. ~ GetPage(o)
      <4> SUFFICES ASSUME GetPage(o) PROVE FALSE
        OBVIOUS
      <4>1. PICK next \in Nat, got \in SUBSET Files :
              Written(o, got) \/ Set(o, [job[o] EXCEPT !.got = got, !.index = next])
        BY <1>1, PageTurned
      <4>2. Set(o, [job[o] EXCEPT !.got = got, !.index = next])
        BY <3>7, <4>1
      <4>3. o = t /\ [job[o] EXCEPT !.got = got, !.index = next].step = "idle"
        BY <3>5, <4>2
      <4> QED
        BY <2>1, <3>1, <4>3 DEF Jobs
    <3>12. ~ UpsertFile(o)
      <4> SUFFICES ASSUME UpsertFile(o) PROVE FALSE
        OBVIOUS
      <4>1. PICK f \in job[o].todo : Set(o, [job[o] EXCEPT !.todo = @ \ {f}])
        BY DEF UpsertFile
      <4>2. o = t /\ [job[o] EXCEPT !.todo = @ \ {f}].step = "idle"
        BY <3>5, <4>1
      <4> QED
        BY <2>1, <3>1, <4>2 DEF Jobs
    <3>13. Compare(o) \/ WriteMod(o) => o = t
      BY <3>5 DEF Compare, WriteMod
    <3> QED
      BY <2>5, <3>2, <3>3, <3>8, <3>9, <3>10, <3>11, <3>12, <3>13 DEF Work
  <2>6. ~ (UpstreamNext \/ StoreHidden \/ UNCHANGED vars)
    BY <1>1 DEF UpstreamNext, Publish, HideFile, EditSummary, HideMod, Edited, StoreHidden, vars
  <2> QED
    BY <1>1, <2>3, <2>4, <2>5, <2>6 DEF Next
<1>2. ASSUME TypeOK, IInv, TypeOK', IInv', [Next]_vars, NEW t \in Tasks,
             job[t].step # "idle", job'[t].step = "idle", faults' = faults,
             upstream.visible, ~ overlapped, ~ overlapped',
             job[t].asOf = upstream.modified, ~ Blurred'
      PROVE  Mirrored'
  <2>1. /\ second[modDoc'] >= second[upstream.modified]
        /\ 1 <= modDoc' /\ second' = second /\ upstream' = upstream
    BY <1>1, <1>2
  <2>2. /\ SecondsPass /\ modDoc' <= upstream.modified /\ upstream.modified <= MaxModified
        /\ modDoc' \in Nat /\ upstream.modified \in Nat
        /\ (CurrentMeansMirrored)'
    BY <1>2, <2>1 DEF IInv, DocInv, TypeOK, Upstream
  <2>3. modDoc' \in 1 .. MaxModified /\ upstream.modified \in 1 .. MaxModified
    BY <2>1, <2>2, CurseforgeAssumption
  <2>4. /\ second[modDoc'] <= second[upstream.modified]
        /\ second[modDoc'] \in Nat /\ second[upstream.modified] \in Nat
    BY <2>2, <2>3, LaterSecond
  <2>5. second[modDoc'] = second[upstream.modified]
    BY <2>1, <2>4
  <2>6. modDoc' = upstream'.modified
    BY <1>2, <2>1, <2>5 DEF Blurred, SameSecond
  <2> QED
    BY <1>2, <2>1, <2>2, <2>6 DEF CurrentMeansMirrored
<1>3. TypeOK /\ IInv /\ TypeOK' /\ IInv' /\ [Next]_vars =>
        [\A t \in Tasks :
          /\ job[t].step # "idle" /\ job'[t].step = "idle" /\ faults' = faults
          /\ upstream.visible /\ ~ overlapped /\ ~ overlapped'
          => /\ second[modDoc'] >= second[job[t].asOf]
             /\ job[t].asOf = upstream.modified /\ ~ Blurred' => Mirrored']_vars
  BY <1>1, <1>2
<1> QED
  BY <1>3, TypeCorrect, Inductive, PTL DEF Spec, CleanMeansCurrent

=============================================================================
