------------------------- MODULE ModrinthSync_proofs -------------------------
(***************************************************************************)
(* Proofs about ModrinthSync, for any projects, versions, tasks and bounds. *)
(***************************************************************************)
EXTENDS ModrinthSync, TLAPS

LEMMA PutType ==
    ASSUME NEW A, NEW B, NEW C, NEW f \in [A -> [B -> C]],
           NEW a \in A, NEW b \in B, NEW c \in C
    PROVE  [f EXCEPT ![a][b] = c] \in [A -> [B -> C]]
  OBVIOUS

\* A step of a job replaces one entry of job by another of its type.
LEMMA SetJobType ==
    ASSUME job \in [Tasks -> [Projects -> Jobs]],
           NEW t \in Tasks, NEW p \in Projects, NEW j \in Jobs,
           SetJob(t, p, j)
    PROVE  job' \in [Tasks -> [Projects -> Jobs]]
  BY DEF SetJob

LEMMA NoJobType == NoJob \in Jobs
  BY DEF NoJob, NewJob, Jobs, NoDoc, Stamp, EmptyListing, Listing, Steps

LEMMA AnswerType ==
    ASSUME TypeOK, NEW p \in Projects
    PROVE  Answer(p) \in Stamp
  BY DEF TypeOK, Answer, Stamp, Upstream, Listed

LEMMA AtType ==
    ASSUME NEW j \in Jobs, NEW step \in Steps, NEW l \in Listing,
           NEW todo \in SUBSET Versions
    PROVE  At(j, step, l, todo) \in Jobs
  BY DEF Jobs, At

LEMMA GoToType ==
    ASSUME job \in [Tasks -> [Projects -> Jobs]],
           NEW t \in Tasks, NEW p \in Projects,
           NEW step \in Steps, NEW todo \in SUBSET Versions,
           GoTo(t, p, step, todo)
    PROVE  job' \in [Tasks -> [Projects -> Jobs]]
<1>1. job[t][p] \in Jobs
  OBVIOUS
<1>2. job[t][p].versions \in Listing
  BY <1>1 DEF Jobs
<1>. QED  BY <1>1, <1>2, AtType, SetJobType DEF GoTo

LEMMA LaunchType ==
    ASSUME TypeOK, NEW t \in Tasks, NEW S \in SUBSET Projects,
           NEW step \in Steps, Launch(t, S, step)
    PROVE  /\ job' \in [Tasks -> [Projects -> Jobs]]
           /\ overlapped' \in [Projects -> BOOLEAN]
<1>1. ASSUME NEW o \in Tasks, NEW p \in Projects
      PROVE  job'[o][p] \in Jobs
  <2>1. job[o][p] \in Jobs
    BY DEF TypeOK
  <2>2. Met(job[o][p]) \in Jobs
    BY <2>1 DEF Jobs, Met
  <2>3. NewJob(step, Answer(p), Alone(t, p)) \in Jobs
    <3>1. Alone(t, p) \in BOOLEAN
      BY DEF Alone
    <3>2. EmptyListing \in Listing
      BY DEF EmptyListing, Listing
    <3>. QED  BY <3>1, <3>2, AnswerType DEF Jobs, NewJob
  <2>. QED  BY <2>1, <2>2, <2>3 DEF Launch
<1>2. job' = [o \in Tasks |-> [p \in Projects |-> job'[o][p]]]
  BY DEF Launch
<1>3. overlapped' \in [Projects -> BOOLEAN]
  BY DEF Launch, TypeOK, Alone
<1>. QED  BY <1>1, <1>2, <1>3
LEMMA EditedType ==
    ASSUME TypeOK, NEW p \in Projects, NEW b \in BOOLEAN, NEW u \in Nat,
           NEW l \in Listing, NEW d \in Nat, Edited(p, b, u, l, d)
    PROVE  upstream' \in [Projects -> Upstream]
  BY DEF Edited, TypeOK, Upstream

LEMMA UpstreamNextType ==
    ASSUME TypeOK, UpstreamNext
    PROVE  TypeOK'
<1>1. PICK p \in Projects :
         Publish(p) \/ EditVersion(p) \/ EditDescription(p)
         \/ Withdraw(p) \/ Hide(p) \/ Relist(p)
  BY DEF UpstreamNext
<1>2. /\ upstream[p].listing \in Listing
      /\ upstream[p].updated \in Nat
      /\ upstream[p].description \in Nat
      /\ Touched(p) \in Nat
  BY DEF TypeOK, Upstream, Touched
<1>3. \A v \in Versions, n \in Nat : [upstream[p].listing EXCEPT ![v] = n] \in Listing
  BY <1>2 DEF Listing
<1>4. UNCHANGED <<store, taskVars, job, overlapped, faults>>
  BY <1>1 DEF Publish, EditVersion, EditDescription, Withdraw, Hide, Relist
<1>5. upstream' \in [Projects -> Upstream]
  <2>1. CASE Publish(p) \/ EditVersion(p)
    BY <2>1, <1>2, <1>3, EditedType DEF Publish, EditVersion, Listed
  <2>2. CASE EditDescription(p)
    BY <2>2, <1>2, EditedType DEF EditDescription
  <2>3. CASE Withdraw(p)
    BY <2>3, <1>2, <1>3, EditedType DEF Withdraw, Listed
  <2>4. CASE Hide(p)
    BY <2>4, <1>2, EditedType DEF Hide
  <2>5. CASE Relist(p)
    <3>1. (IF RelistTouches THEN Touched(p) ELSE upstream[p].updated) \in Nat
      BY <1>2
    <3>. QED  BY <2>5, <3>1, <1>2, EditedType DEF Relist
  <2>. QED  BY <1>1, <2>1, <2>2, <2>3, <2>4, <2>5
<1>. QED  BY <1>4, <1>5 DEF TypeOK, store, taskVars

LEMMA JobStepType ==
    ASSUME TypeOK, NEW t \in Tasks, NEW p \in Projects, JobStep(t, p)
    PROVE  TypeOK'
<1>. USE DEF TypeOK
<1>1. /\ job[t][p] \in Jobs
      /\ job[t][p].project \in Stamp
      /\ job[t][p].project.description \in Nat
      /\ job[t][p].versions \in Listing
      /\ job[t][p].todo \in SUBSET Versions
      /\ Listed(job[t][p].versions) \in SUBSET Versions
  <2>1. job[t][p] \in Jobs
    OBVIOUS
  <2>. QED  BY <2>1 DEF Jobs, Stamp, Listed
<1>2. \A step \in Steps, todo \in SUBSET Versions :
        GoTo(t, p, step, todo) => job' \in [Tasks -> [Projects -> Jobs]]
  BY GoToType
<1>3. EndJob(t, p) => job' \in [Tasks -> [Projects -> Jobs]]
  BY SetJobType, NoJobType DEF EndJob
<1>4. CASE FetchProject(t, p)
  BY <1>4, LaunchType DEF FetchProject, store, Steps, SyncSteps
<1>5. CASE ProjectNotFound(t, p)
  BY <1>5 DEF ProjectNotFound, store
<1>6. CASE FetchVersions(t, p)
  <2>1. upstream[p].listing \in Listing /\ Listed(upstream[p].listing) \in SUBSET Versions
    BY DEF Upstream, Listed
  <2>2. At(job[t][p], "files", upstream[p].listing, Listed(upstream[p].listing)) \in Jobs
    BY <1>1, <2>1, AtType DEF Steps, SyncSteps
  <2>3. job' \in [Tasks -> [Projects -> Jobs]]
    BY <1>6, <2>2, SetJobType DEF FetchVersions
  <2>. QED  BY <1>6, <2>3 DEF FetchVersions, store, taskVars
<1>7. CASE VersionsNotFound(t, p)
  BY <1>7, <1>3 DEF VersionsNotFound, store, taskVars
<1>8. CASE UpsertFile(t, p)
  <2>1. PICK v \in job[t][p].todo :
          /\ fileDocs' = [fileDocs EXCEPT ![p][v] = @ \cup {job[t][p].versions[v]}]
          /\ GoTo(t, p, "files", job[t][p].todo \ {v})
    BY <1>8 DEF UpsertFile
  <2>2. job[t][p].versions[v] \in Nat
    BY <1>1, <2>1 DEF Listing
  <2>3. fileDocs[p][v] \cup {job[t][p].versions[v]} \in SUBSET Nat
    BY <1>1, <2>1, <2>2
  <2>4. fileDocs' = [fileDocs EXCEPT ![p][v] = fileDocs[p][v] \cup {job[t][p].versions[v]}]
    BY <2>1
  <2>5. fileDocs' \in [Projects -> [Versions -> SUBSET Nat]]
    BY <1>1, <2>3, <2>4, PutType
  <2>. QED  BY <1>1, <1>2, <1>8, <2>1, <2>5 DEF UpsertFile, taskVars, Steps, SyncSteps
<1>9. CASE FilesWritten(t, p)
  BY <1>1, <1>2, <1>9 DEF FilesWritten, store, taskVars, Steps, SyncSteps
<1>10. CASE UpsertVersion(t, p)
  <2>1. PICK v \in job[t][p].todo :
          /\ versionDocs' = [versionDocs EXCEPT ![p][v] = job[t][p].versions[v]]
          /\ GoTo(t, p, "versions", job[t][p].todo \ {v})
    BY <1>10 DEF UpsertVersion
  <2>2. job[t][p].versions[v] \in Nat
    BY <1>1, <2>1 DEF Listing
  <2>3. versionDocs' \in [Projects -> Listing]
    BY <2>1, <2>2 DEF Listing
  <2>. QED  BY <1>1, <1>2, <1>10, <2>1, <2>3 DEF UpsertVersion, taskVars, Steps, SyncSteps
<1>11. CASE VersionsWritten(t, p)
  BY <1>2, <1>11 DEF VersionsWritten, store, taskVars, Steps, SyncSteps
<1>12. CASE DropVersions(t, p)
  <2>1. versionDocs' \in [Projects -> Listing]
    BY <1>12 DEF DropVersions, Listing
  <2>. QED  BY <1>2, <1>12, <2>1 DEF DropVersions, taskVars, Steps, SyncSteps
<1>13. CASE DropFiles(t, p)
  <2>1. fileDocs' \in [Projects -> [Versions -> SUBSET Nat]]
    BY <1>13 DEF DropFiles
  <2>. QED  BY <1>2, <1>13, <2>1 DEF DropFiles, taskVars, Steps, SyncSteps
<1>14. CASE ReadTranslation(t, p)
  <2>1. (IF translations[p] = job[t][p].project.description
         THEN "project" ELSE "writeTranslation") \in Steps
    BY DEF Steps, SyncSteps
  <2>2. job' \in [Tasks -> [Projects -> Jobs]]
    BY <1>2, <1>14, <2>1 DEF ReadTranslation
  <2>. QED  BY <1>14, <2>2 DEF ReadTranslation, store, taskVars
<1>15. CASE WriteTranslation(t, p)
  <2>1. translations' \in [Projects -> Nat]
    BY <1>1, <1>15 DEF WriteTranslation
  <2>2. job' \in [Tasks -> [Projects -> Jobs]]
    <3>1. "project" \in Steps
      BY DEF Steps, SyncSteps
    <3>. QED  BY <1>2, <1>15, <3>1 DEF WriteTranslation
  <2>. QED  BY <1>15, <2>1, <2>2 DEF WriteTranslation, taskVars
<1>16. CASE WriteProject(t, p)
  <2>1. overlapped' \in [Projects -> BOOLEAN]
    BY <1>16 DEF WriteProject
  <2>. QED  BY <1>1, <1>3, <1>16, <2>1 DEF WriteProject, taskVars
<1>17. CASE RemoveFiles(t, p)
  BY <1>2, <1>17 DEF RemoveFiles, taskVars, Steps, RemovalSteps
<1>18. CASE RemoveVersions(t, p)
  <2>1. EmptyListing \in Listing
    BY DEF EmptyListing, Listing
  <2>. QED  BY <1>2, <1>18, <2>1 DEF RemoveVersions, taskVars, Steps, RemovalSteps
<1>19. CASE RemoveTranslation(t, p)
  BY <1>2, <1>19 DEF RemoveTranslation, taskVars, Steps, RemovalSteps
<1>20. CASE RemoveProject(t, p)
  <2>1. NoDoc \in Stamp
    BY DEF NoDoc, Stamp
  <2>. QED  BY <1>3, <1>20, <2>1 DEF RemoveProject, taskVars
<1>. QED
  BY <1>4, <1>5, <1>6, <1>7, <1>8, <1>9, <1>10, <1>11, <1>12, <1>13, <1>14, <1>15,
     <1>16, <1>17, <1>18, <1>19, <1>20 DEF JobStep

LEMMA TaskType ==
    ASSUME TypeOK, NEW t \in Tasks, Submit(t) \/ TaskStep(t) \/ TaskFault(t)
    PROVE  TypeOK'
<1>. USE DEF TypeOK
<1>1. NoDoc \in Stamp /\ [p \in Projects |-> NoDoc] \in [Projects -> Stamp]
  BY DEF NoDoc, Stamp
<1>2. CASE Submit(t)
  BY <1>2 DEF Submit, store, Phases
<1>3. CASE OpenCursor(t)
  BY <1>3 DEF OpenCursor, store, Phases, Present
<1>4. CASE ReadBatch(t)
  <2>1. PICK ids \in SUBSET remaining[t] \ {{}} :
          /\ remaining' = [remaining EXCEPT ![t] = @ \ ids]
          /\ batch' = [batch EXCEPT ![t] =
               [p \in Projects |-> IF p \in ids THEN projectDocs[p] ELSE NoDoc]]
    BY <1>4 DEF ReadBatch
  <2>2. batch' \in [Tasks -> [Projects -> Stamp]]
    BY <2>1, <1>1
  <2>. QED  BY <1>4, <2>1, <2>2 DEF ReadBatch, store, Phases
<1>5. CASE CompareBatch(t)
  <2>. DEFINE dead == {p \in InBatch(t) : ~ upstream[p].visible}
              stale == {p \in InBatch(t) \ dead : Outdated(batch[t][p], Answer(p))}
  <2>1. /\ Launch(t, dead, "removeFiles")
        /\ targets' = [targets EXCEPT ![t] = @ \cup stale]
    BY <1>5 DEF CompareBatch
  <2>2. dead \in SUBSET Projects /\ stale \in SUBSET Projects
    BY DEF InBatch
  <2>3. job' \in [Tasks -> [Projects -> Jobs]] /\ overlapped' \in [Projects -> BOOLEAN]
    <3>. HIDE DEF dead
    <3>. QED  BY <2>1, <2>2, LaunchType DEF Steps, RemovalSteps
  <2>4. targets' \in [Tasks -> SUBSET Projects]
    BY <2>1, <2>2
  <2>. QED  BY <1>1, <1>5, <2>3, <2>4 DEF CompareBatch, store, Phases
<1>6. CASE ScanDone(t)
  BY <1>6 DEF ScanDone, store, Phases
<1>7. CASE RemovalDone(t)
  BY <1>7 DEF RemovalDone, store, Phases
<1>8. CASE Finish(t)
  BY <1>8 DEF Finish, store, Phases
<1>9. CASE \E p \in Projects : JobStep(t, p)
  BY <1>9, JobStepType
<1>10. CASE BatchFails(t)
  BY <1>1, <1>10 DEF BatchFails, store, Phases
<1>11. CASE Crash(t)
  <2>1. [p \in Projects |-> NoJob] \in [Projects -> Jobs]
    BY NoJobType
  <2>. QED  BY <1>1, <1>11, <2>1 DEF Crash, store, Phases
<1>12. CASE \E p \in Projects : FetchFails(t, p)
  BY <1>12 DEF FetchFails, store
<1>13. CASE \E p \in Projects : JobFails(t, p)
  BY <1>13, SetJobType, NoJobType DEF JobFails, EndJob, store, taskVars
<1>. QED
  BY <1>2, <1>3, <1>4, <1>5, <1>6, <1>7, <1>8, <1>9, <1>10, <1>11, <1>12, <1>13
     DEF TaskStep, TaskFault

LEMMA InitType == Init => TypeOK
<1>. SUFFICES ASSUME Init PROVE TypeOK
  OBVIOUS
<1>1. upstream \in [Projects -> Upstream]
  <2>1. ASSUME NEW l \in [Versions -> {0, 1}]
        PROVE  [visible |-> TRUE, updated |-> 1, description |-> 1, listing |-> l] \in Upstream
    <3>1. l \in Listing
      BY DEF Listing
    <3>. QED  BY <3>1 DEF Upstream
  <2>. QED  BY <2>1 DEF Init
<1>2. /\ NoDoc \in Stamp
      /\ EmptyListing \in Listing
  BY DEF NoDoc, Stamp, EmptyListing, Listing
<1>3. /\ projectDocs \in [Projects -> Stamp]
      /\ versionDocs \in [Projects -> Listing]
      /\ batch \in [Tasks -> [Projects -> Stamp]]
      /\ job \in [Tasks -> [Projects -> Jobs]]
  BY <1>2, NoJobType DEF Init
<1>. QED  BY <1>1, <1>3 DEF Init, TypeOK, Phases

\* The variables keep their types: no step, fault or upstream edit leads the
\* mirror out of the states the code's types allow.
THEOREM TypeCorrect == Spec => []TypeOK
<1>1. TypeOK /\ [Next]_vars => TypeOK'
  <2>1. ASSUME TypeOK, Next PROVE TypeOK'
    BY <2>1, UpstreamNextType, TaskType DEF Next
  <2>2. ASSUME TypeOK, UNCHANGED vars PROVE TypeOK'
    BY <2>2 DEF vars, store, taskVars, TypeOK
  <2>. QED  BY <2>1, <2>2
<1>. QED  BY InitType, <1>1, PTL DEF Spec
-----------------------------------------------------------------------------
(* The inductive invariant.  It speaks of one project at a time. *)

\* A step that leaves a project alone keeps its part of the invariant.
LEMMA Frame ==
    ASSUME NEW p \in Projects, ProjectInv(p),
           upstream'[p] = upstream[p], overlapped'[p] = overlapped[p],
           projectDocs'[p] = projectDocs[p], versionDocs'[p] = versionDocs[p],
           fileDocs'[p] = fileDocs[p], translations'[p] = translations[p],
           \A t \in Tasks : job'[t][p] = job[t][p]
    PROVE  ProjectInv(p)'
<1>1. Answer(p)' = Answer(p) /\ (Current(p))' = Current(p)
  BY DEF Answer, Current, Present, Outdated
<1>2. DocInv(p)'
  BY <1>1 DEF ProjectInv, DocInv, NotAhead, Mirrored
<1>3. ASSUME NEW t \in Tasks PROVE JobInv(t, p)'
  <2>1. JobInv(t, p)
    BY DEF ProjectInv
  <2>2. Alone(t, p)' = Alone(t, p)
    BY DEF Alone
  <2>3. NotAhead(p, job[t][p].project)'
    BY <2>1 DEF JobInv, NotAhead
  <2>4. SyncInv(p, job[t][p]) => SyncInv(p, job[t][p])'
    BY <1>1 DEF SyncInv, Progress, Present, FilesIn, VersionsIn, OnlyListedFiles
  <2>5. RemovalInv(p, job[t][p]) => RemovalInv(p, job[t][p])'
    BY <1>1 DEF RemovalInv
  <2>. QED  BY <2>1, <2>2, <2>3, <2>4, <2>5 DEF JobInv
<1>. QED  BY <1>2, <1>3 DEF ProjectInv

LEMMA SetJobPoint ==
    ASSUME TypeOK, NEW t \in Tasks, NEW p \in Projects, NEW j, SetJob(t, p, j)
    PROVE  /\ job'[t][p] = j
           /\ \A o \in Tasks \ {t} : job'[o][p] = job[o][p]
           /\ \A o \in Tasks, q \in Projects \ {p} : job'[o][q] = job[o][q]
  BY DEF TypeOK, SetJob

\* A job that is in flight leaves no other job on its project alone.
LEMMA OthersNotAlone ==
    ASSUME NEW p \in Projects, ProjectInv(p),
           NEW t \in Tasks, job[t][p].step # "none",
           NEW o \in Tasks \ {t}
    PROVE  ~ job[o][p].alone
  BY DEF ProjectInv, JobInv, Alone

\* Upstream moves on: every snapshot anybody holds is outdated from then on.
LEMMA Staled ==
    ASSUME TypeOK, NEW p \in Projects, ProjectInv(p),
           \A s \in Stamp : NotAhead(p, s) => NotAhead(p, s)' /\ Outdated(s, Answer(p)'),
           upstream'[p].updated > 0,
           UNCHANGED <<store, job, overlapped>>
    PROVE  ProjectInv(p)'
<1>1. projectDocs[p] \in Stamp /\ \A t \in Tasks : job[t][p].project \in Stamp
  BY DEF TypeOK, Jobs
<1>2. ~ Current(p)'
  BY <1>1 DEF Current, ProjectInv, DocInv, store
<1>3. DocInv(p)'
  BY <1>1, <1>2 DEF ProjectInv, DocInv, store
<1>4. ASSUME NEW t \in Tasks PROVE JobInv(t, p)'
  <2>1. JobInv(t, p)
    BY DEF ProjectInv
  <2>2. NotAhead(p, job[t][p].project)' /\ Outdated(job[t][p].project, Answer(p)')
    BY <1>1, <2>1 DEF JobInv
  <2>3. Outdated(projectDocs[p], Answer(p)')
    BY <1>1 DEF ProjectInv, DocInv
  <2>4. SyncInv(p, job[t][p]) => SyncInv(p, job[t][p])'
    BY <2>2, <2>3 DEF SyncInv, store
  <2>5. RemovalInv(p, job[t][p]) => RemovalInv(p, job[t][p])'
    BY <1>2 DEF RemovalInv, store
  <2>. QED  BY <2>1, <2>2, <2>4, <2>5 DEF JobInv, Alone
<1>. QED  BY <1>3, <1>4 DEF ProjectInv

\* A job ends, or is cut off, without having written anything more.
LEMMA EndInv ==
    ASSUME NEW p \in Projects, ProjectInv(p), NEW t \in Tasks,
           UNCHANGED <<upstream, store, overlapped>>,
           TypeOK,
           job'[t][p] = NoJob,
           \A o \in Tasks \ {t} : job'[o][p] = job[o][p]
    PROVE  ProjectInv(p)'
<1>1. (Current(p))' = Current(p) /\ Answer(p)' = Answer(p)
  BY DEF Current, Present, Answer, Outdated, store
<1>2. DocInv(p)'
  BY <1>1 DEF ProjectInv, DocInv, NotAhead, Mirrored, store
<1>3. JobInv(t, p)'
  BY DEF JobInv, NoJob, NewJob, NotAhead, NoDoc, ProjectInv, DocInv, TypeOK, Upstream
<1>4. ASSUME NEW o \in Tasks \ {t} PROVE JobInv(o, p)'
  <2>1. JobInv(o, p)
    BY DEF ProjectInv
  <2>2. Alone(o, p) => Alone(o, p)'
    BY DEF Alone, NoJob, NewJob
  <2>3. NotAhead(p, job[o][p].project)'
    BY <2>1 DEF JobInv, NotAhead
  <2>4. SyncInv(p, job[o][p]) => SyncInv(p, job[o][p])'
    BY <1>1 DEF SyncInv, Progress, Present, FilesIn, VersionsIn, OnlyListedFiles, store
  <2>5. RemovalInv(p, job[o][p]) => RemovalInv(p, job[o][p])'
    BY <1>1 DEF RemovalInv, store
  <2>. QED  BY <2>1, <2>2, <2>3, <2>4, <2>5 DEF JobInv
<1>. QED  BY <1>2, <1>3, <1>4 DEF ProjectInv
\* A new job starts with the current answer, or upon an answer that the
\* project is gone; those it meets are no longer alone.
LEMMA LaunchInv ==
    ASSUME TypeOK, NEW p \in Projects, ProjectInv(p), NEW t \in Tasks,
           NEW S \in SUBSET Projects, p \in S, NEW step, Launch(t, S, step),
           step = "list" \/ (step = "removeFiles" /\ ~ upstream[p].visible),
           UNCHANGED <<upstream, store>>
    PROVE  ProjectInv(p)'
<1>1. (Current(p))' = Current(p) /\ Answer(p)' = Answer(p)
  BY DEF Current, Present, Answer, Outdated, store
<1>2. /\ job'[t][p] = NewJob(step, Answer(p), Alone(t, p))
      /\ \A o \in Tasks \ {t} : job'[o][p] = Met(job[o][p])
      /\ overlapped'[p] = (overlapped[p] \/ ~ Alone(t, p))
  BY DEF Launch
<1>3. DocInv(p)'
  BY <1>1, <1>2 DEF ProjectInv, DocInv, NotAhead, Mirrored, store
<1>4. JobInv(t, p)'
  <2>1. /\ job'[t][p].step = step
        /\ job'[t][p].project = Answer(p)
        /\ job'[t][p].alone = Alone(t, p)
    BY <1>2 DEF NewJob
  <2>2. NotAhead(p, Answer(p))'
    BY <1>1 DEF NotAhead, Answer, TypeOK, Upstream
  <2>3. Alone(t, p)' = Alone(t, p)
    <3>1. \A o \in Tasks \ {t} : job[o][p] \in Jobs
      BY DEF TypeOK
    <3>2. \A o \in Tasks \ {t} : job'[o][p].step = job[o][p].step
      BY <1>2, <3>1 DEF Met, Jobs
    <3>. QED  BY <3>2 DEF Alone
  <2>4. CASE step = "list"
    <3>1. SyncInv(p, job[t][p])'
      <4>1. (projectDocs[p].updated <= job[t][p].project.updated)'
        BY <2>1 DEF store, ProjectInv, DocInv, NotAhead, Answer
      <4>2. ~ Outdated(job[t][p].project, Answer(p))'
        BY <1>1, <2>1 DEF Outdated
      <4>3. Progress(p, job[t][p])'
        BY <2>1, <2>4 DEF Progress
      <4>. QED  BY <4>1, <4>2, <4>3 DEF SyncInv
    <3>. QED  BY <1>1, <1>2, <2>1, <2>2, <2>3, <2>4, <3>1 DEF JobInv, RemovalSteps
  <2>5. CASE step = "removeFiles" /\ ~ upstream[p].visible
    <3>1. RemovalInv(p, job[t][p])'
      BY <2>1, <2>5 DEF RemovalInv, Current
    <3>. QED  BY <1>1, <1>2, <2>1, <2>2, <2>3, <2>5, <3>1 DEF JobInv, SyncSteps
  <2>. QED  BY <2>4, <2>5
<1>5. ASSUME NEW o \in Tasks \ {t} PROVE JobInv(o, p)'
  <2>1. job[o][p] \in Jobs
    BY DEF TypeOK
  <2>2. /\ job'[o][p].step = job[o][p].step
        /\ job'[o][p].project = job[o][p].project
        /\ job'[o][p].alone = FALSE
    BY <1>2, <2>1 DEF Met, Jobs
  <2>3. job[o][p].step # "none" => overlapped'[p]
    BY <1>2 DEF Alone
  <2>. QED  BY <2>2, <2>3 DEF JobInv, ProjectInv, NotAhead
<1>. QED  BY <1>3, <1>4, <1>5 DEF ProjectInv

\* A sync writes to versions, files or the translation.  It is enough that its
\* own progress is kept, and that nothing already mirrored is lost.
LEMMA SyncWrite ==
    ASSUME TypeOK, NEW p \in Projects, ProjectInv(p), NEW t \in Tasks, NEW j,
           job[t][p].step \in SyncSteps,
           UNCHANGED <<upstream, projectDocs, overlapped>>,
           job'[t][p] = j,
           \A o \in Tasks \ {t} : job'[o][p] = job[o][p],
           j.step \in SyncSteps,
           j.project = job[t][p].project,
           j.alone = job[t][p].alone,
           job[t][p].alone /\ ~ Outdated(job[t][p].project, Answer(p)) =>
              /\ Progress(p, job[t][p]) => Progress(p, j)'
              /\ Progress(p, job[t][p]) /\ Mirrored(p) => Mirrored(p)'
    PROVE  ProjectInv(p)'
<1>1. (Current(p))' = Current(p) /\ Answer(p)' = Answer(p)
  BY DEF Current, Present, Answer, Outdated
<1>2. JobInv(t, p) /\ DocInv(p)
  BY DEF ProjectInv
<1>3. job[t][p].step # "none" /\ job[t][p].step \notin RemovalSteps
  BY DEF SyncSteps, RemovalSteps
<1>4. DocInv(p)'
  <2>1. Current(p) /\ ~ overlapped[p] =>
          /\ Mirrored(p)
          /\ job[t][p].alone
          /\ ~ Outdated(job[t][p].project, Answer(p))
          /\ Progress(p, job[t][p])
    BY <1>2, <1>3 DEF DocInv, JobInv, SyncInv, Current
  <2>. QED  BY <1>1, <1>2, <2>1 DEF DocInv, NotAhead
<1>5. JobInv(t, p)'
  <2>1. Alone(t, p)' = Alone(t, p)
    BY DEF Alone
  <2>2. job[t][p].alone => SyncInv(p, j)'
    BY <1>1, <1>2 DEF JobInv, SyncInv, Present
  <2>3. j.step \notin RemovalSteps /\ j.step # "none"
    BY DEF SyncSteps, RemovalSteps
  <2>. QED  BY <1>2, <1>3, <2>1, <2>2, <2>3 DEF JobInv, NotAhead
<1>6. ASSUME NEW o \in Tasks \ {t} PROVE JobInv(o, p)'
  <2>1. ~ job[o][p].alone
    BY <1>3, OthersNotAlone
  <2>. QED  BY <2>1 DEF JobInv, ProjectInv, NotAhead
<1>. QED  BY <1>4, <1>5, <1>6 DEF ProjectInv

\* A removal deletes: what it deletes belongs to no current document.
LEMMA RemovalWrite ==
    ASSUME TypeOK, NEW p \in Projects, ProjectInv(p), NEW t \in Tasks, NEW j,
           job[t][p].step \in RemovalSteps,
           UNCHANGED <<upstream, projectDocs, overlapped>>,
           job'[t][p] = j,
           \A o \in Tasks \ {t} : job'[o][p] = job[o][p],
           j.step \in RemovalSteps,
           j.project = job[t][p].project,
           j.alone = job[t][p].alone,
           RemovalInv(p, job[t][p]) => RemovalInv(p, j)'
    PROVE  ProjectInv(p)'
<1>1. (Current(p))' = Current(p)
  BY DEF Current, Present, Answer, Outdated
<1>2. JobInv(t, p) /\ DocInv(p)
  BY DEF ProjectInv
<1>3. job[t][p].step # "none"
  BY DEF RemovalSteps
<1>4. DocInv(p)'
  <2>1. Current(p) => overlapped[p]
    BY <1>2, <1>3 DEF JobInv, RemovalInv
  <2>. QED  BY <1>1, <1>2, <2>1 DEF DocInv, NotAhead
<1>5. JobInv(t, p)'
  <2>1. Alone(t, p)' = Alone(t, p)
    BY DEF Alone
  <2>2. j.step \notin SyncSteps /\ j.step # "none"
    BY DEF SyncSteps, RemovalSteps
  <2>. QED  BY <1>2, <1>3, <2>1, <2>2 DEF JobInv, NotAhead
<1>6. ASSUME NEW o \in Tasks \ {t} PROVE JobInv(o, p)'
  <2>1. ~ job[o][p].alone
    BY <1>3, OthersNotAlone
  <2>. QED  BY <2>1 DEF JobInv, ProjectInv, NotAhead
<1>. QED  BY <1>4, <1>5, <1>6 DEF ProjectInv
-----------------------------------------------------------------------------
(* One step at a time. *)

LEMMA UpstreamInv ==
    ASSUME TypeOK, IInv, RelistTouches, UpstreamNext
    PROVE  IInv'
<1>1. PICK p \in Projects :
         Publish(p) \/ EditVersion(p) \/ EditDescription(p)
         \/ Withdraw(p) \/ Hide(p) \/ Relist(p)
  BY DEF UpstreamNext
<1>2. UNCHANGED <<store, job, overlapped>>
  BY <1>1 DEF Publish, EditVersion, EditDescription, Withdraw, Hide, Relist
<1>3. /\ upstream[p] \in Upstream
      /\ upstream[p].updated \in Nat
      /\ upstream[p].listing \in Listing
  BY DEF TypeOK, Upstream
<1>4. ProjectInv(p) /\ upstream[p].updated > 0
  BY DEF IInv, ProjectInv, DocInv
<1>5. \A q \in Projects \ {p} : upstream'[q] = upstream[q]
  BY <1>1 DEF Publish, EditVersion, EditDescription, Withdraw, Hide, Relist, Edited, TypeOK
<1>6. ProjectInv(p)'
  <2>1. CASE Publish(p) \/ EditVersion(p) \/ EditDescription(p) \/ Relist(p)
    <3>1. upstream'[p].updated = upstream[p].updated + 1
      BY <2>1 DEF Publish, EditVersion, EditDescription, Relist, Edited, Touched, TypeOK
    <3>2. ASSUME NEW s \in Stamp, NotAhead(p, s)
          PROVE  NotAhead(p, s)' /\ Outdated(s, Answer(p)')
      <4>1. s.updated \in Nat
        BY DEF Stamp
      <4>. QED  BY <1>3, <3>1, <3>2, <4>1 DEF NotAhead, Outdated, Answer
    <3>. QED  BY <1>2, <1>3, <1>4, <3>1, <3>2, Staled
  <2>2. CASE Withdraw(p)
    <3>1. PICK v \in Listed(upstream[p].listing) :
            Edited(p, TRUE, upstream[p].updated, [upstream[p].listing EXCEPT ![v] = 0],
                   upstream[p].description)
      BY <2>2 DEF Withdraw
    <3>2. /\ upstream'[p].updated = upstream[p].updated
          /\ upstream'[p].description = upstream[p].description
          /\ Listed(upstream'[p].listing) = Listed(upstream[p].listing) \ {v}
      BY <1>3, <3>1 DEF Edited, TypeOK, Listed, Listing
    <3>3. ASSUME NEW s \in Stamp, NotAhead(p, s)
          PROVE  NotAhead(p, s)' /\ Outdated(s, Answer(p)')
      BY <3>1, <3>2, <3>3 DEF NotAhead, Outdated, Answer
    <3>. QED  BY <1>2, <1>4, <3>2, <3>3, Staled
  <2>3. CASE Hide(p)
    <3>1. /\ upstream'[p].visible = FALSE
          /\ upstream'[p].updated = upstream[p].updated
          /\ upstream'[p].listing = upstream[p].listing
          /\ upstream'[p].description = upstream[p].description
      BY <2>3 DEF Hide, Edited, TypeOK
    <3>2. Answer(p)' = Answer(p) /\ ~ Current(p)'
      BY <3>1 DEF Answer, Current
    <3>3. DocInv(p)'
      BY <1>2, <1>4, <3>1, <3>2 DEF ProjectInv, DocInv, NotAhead, store
    <3>4. ASSUME NEW t \in Tasks PROVE JobInv(t, p)'
      <4>1. JobInv(t, p)
        BY <1>4 DEF ProjectInv
      <4>2. NotAhead(p, job[t][p].project)' /\ Alone(t, p)' = Alone(t, p)
        BY <1>2, <3>1, <4>1 DEF JobInv, NotAhead, Alone
      <4>3. SyncInv(p, job[t][p]) => SyncInv(p, job[t][p])'
        BY <1>2, <3>1, <3>2 DEF SyncInv, Progress, Present, FilesIn, VersionsIn,
           OnlyListedFiles, store
      <4>4. RemovalInv(p, job[t][p]) => RemovalInv(p, job[t][p])'
        BY <1>2, <3>2 DEF RemovalInv, store
      <4>. QED  BY <1>2, <4>1, <4>2, <4>3, <4>4 DEF JobInv
    <3>. QED  BY <3>3, <3>4 DEF ProjectInv
  <2>. QED  BY <1>1, <2>1, <2>2, <2>3
<1>. QED  BY <1>2, <1>5, <1>6, Frame DEF IInv, store

\* The writes of a sync.
LEMMA SyncStepInv ==
    ASSUME TypeOK, NEW p \in Projects, ProjectInv(p), NEW t \in Tasks,
           \/ FetchVersions(t, p) \/ UpsertFile(t, p) \/ FilesWritten(t, p)
           \/ UpsertVersion(t, p) \/ VersionsWritten(t, p) \/ DropVersions(t, p)
           \/ DropFiles(t, p) \/ ReadTranslation(t, p) \/ WriteTranslation(t, p)
    PROVE  ProjectInv(p)'
<1>. DEFINE J == job[t][p]
            live == Listed(upstream[p].listing)
<1>1. /\ J \in Jobs
      /\ upstream[p].listing \in Listing
      /\ fileDocs[p] \in [Versions -> SUBSET Nat]
      /\ versionDocs[p] \in Listing
      /\ J.project \in Stamp
      /\ J.versions \in Listing
      /\ J.todo \in SUBSET Versions
  BY DEF TypeOK, Jobs, Upstream
<1>2. live \subseteq Versions
  BY DEF Listed
<1>3. Answer(p).description = upstream[p].description
  BY DEF Answer
<1>4. NotAhead(p, J.project)
  BY DEF ProjectInv, JobInv
<1>5. ~ Outdated(J.project, Answer(p)) => J.project.description = upstream[p].description
  BY <1>4 DEF Outdated, Answer, NotAhead
<1>6. ASSUME NEW j, SetJob(t, p, j)
      PROVE  /\ job'[t][p] = j
             /\ \A o \in Tasks \ {t} : job'[o][p] = job[o][p]
  BY <1>6, SetJobPoint
<1>7. CASE FetchVersions(t, p)
  <2>1. PICK j : j = At(J, "files", upstream[p].listing, live)
    OBVIOUS
  <2>2. /\ j.step = "files" /\ j.versions = upstream[p].listing /\ j.todo = live
        /\ j.project = J.project /\ j.alone = J.alone
    BY <2>1 DEF At
  <2>3. J.step = "list" /\ SetJob(t, p, j) /\ UNCHANGED <<upstream, store, overlapped>>
    BY <1>7, <2>1 DEF FetchVersions
  <2>4. Progress(p, j)'
    BY <2>2, <2>3 DEF Progress, FilesIn
  <2>5. Mirrored(p) => Mirrored(p)'
    BY <2>3 DEF Mirrored, store
  <2>. QED  BY <1>6, <2>2, <2>3, <2>4, <2>5, SyncWrite DEF SyncSteps, store
<1>8. CASE UpsertFile(t, p)
  <2>1. PICK v \in J.todo :
          /\ fileDocs' = [fileDocs EXCEPT ![p][v] = @ \cup {J.versions[v]}]
          /\ GoTo(t, p, "files", J.todo \ {v})
    BY <1>8 DEF UpsertFile
  <2>2. PICK j : j = At(J, "files", J.versions, J.todo \ {v})
    OBVIOUS
  <2>3. /\ j.step = "files" /\ j.versions = J.versions /\ j.todo = J.todo \ {v}
        /\ j.project = J.project /\ j.alone = J.alone
    BY <2>2 DEF At
  <2>4. /\ J.step = "files" /\ SetJob(t, p, j)
        /\ UNCHANGED <<upstream, projectDocs, versionDocs, translations, overlapped>>
    BY <1>8, <2>1, <2>2 DEF UpsertFile, GoTo
  <2>5. \A w \in Versions :
          fileDocs'[p][w] = IF w = v THEN fileDocs[p][w] \cup {J.versions[w]}
                                     ELSE fileDocs[p][w]
    BY <1>1, <2>1 DEF TypeOK
  <2>6. Progress(p, J) => Progress(p, j)'
    BY <1>2, <2>3, <2>4, <2>5 DEF Progress, FilesIn
  <2>7. Progress(p, J) => J.versions = upstream[p].listing /\ v \in live
    BY <2>4 DEF Progress
  <2>8. Mirrored(p) /\ J.versions = upstream[p].listing /\ v \in live => Mirrored(p)'
    BY <2>4, <2>5 DEF Mirrored, Listed
  <2>. QED  BY <1>6, <2>3, <2>4, <2>6, <2>7, <2>8, SyncWrite DEF SyncSteps
<1>9. CASE FilesWritten(t, p)
  <2>1. PICK j : j = At(J, "versions", J.versions, Listed(J.versions))
    OBVIOUS
  <2>2. /\ j.step = "versions" /\ j.versions = J.versions /\ j.todo = Listed(J.versions)
        /\ j.project = J.project /\ j.alone = J.alone
    BY <2>1 DEF At
  <2>3. /\ J.step = "files" /\ J.todo = {} /\ SetJob(t, p, j)
        /\ UNCHANGED <<upstream, store, overlapped>>
    BY <1>9, <2>1 DEF FilesWritten, GoTo
  <2>4. Progress(p, J) => Progress(p, j)'
    BY <2>2, <2>3 DEF Progress, FilesIn, VersionsIn, store
  <2>5. Mirrored(p) => Mirrored(p)'
    BY <2>3 DEF Mirrored, store
  <2>. QED  BY <1>6, <2>2, <2>3, <2>4, <2>5, SyncWrite DEF SyncSteps, store
<1>10. CASE UpsertVersion(t, p)
  <2>1. PICK v \in J.todo :
          /\ versionDocs' = [versionDocs EXCEPT ![p][v] = J.versions[v]]
          /\ GoTo(t, p, "versions", J.todo \ {v})
    BY <1>10 DEF UpsertVersion
  <2>2. PICK j : j = At(J, "versions", J.versions, J.todo \ {v})
    OBVIOUS
  <2>3. /\ j.step = "versions" /\ j.versions = J.versions /\ j.todo = J.todo \ {v}
        /\ j.project = J.project /\ j.alone = J.alone
    BY <2>2 DEF At
  <2>4. /\ J.step = "versions" /\ SetJob(t, p, j)
        /\ UNCHANGED <<upstream, projectDocs, fileDocs, translations, overlapped>>
    BY <1>10, <2>1, <2>2 DEF UpsertVersion, GoTo
  <2>5. /\ versionDocs'[p] \in [Versions -> Nat]
        /\ \A w \in Versions :
              versionDocs'[p][w] = IF w = v THEN J.versions[w] ELSE versionDocs[p][w]
    BY <1>1, <2>1 DEF TypeOK, Listing
  <2>6. Progress(p, J) => Progress(p, j)'
    BY <1>2, <2>3, <2>4, <2>5 DEF Progress, FilesIn, VersionsIn
  <2>7. Progress(p, J) => J.versions = upstream[p].listing
    BY <2>4 DEF Progress
  <2>8. Mirrored(p) /\ J.versions = upstream[p].listing => Mirrored(p)'
    <3>1. ASSUME versionDocs[p] = upstream[p].listing, J.versions = upstream[p].listing
          PROVE  versionDocs'[p] = upstream[p].listing
      BY <1>1, <2>5, <3>1 DEF Listing
    <3>. QED  BY <2>4, <3>1 DEF Mirrored
  <2>. QED  BY <1>6, <2>3, <2>4, <2>6, <2>7, <2>8, SyncWrite DEF SyncSteps
<1>11. CASE VersionsWritten(t, p)
  <2>1. PICK j : j = At(J, "dropVersions", J.versions, {})
    OBVIOUS
  <2>2. /\ j.step = "dropVersions" /\ j.versions = J.versions
        /\ j.project = J.project /\ j.alone = J.alone
    BY <2>1 DEF At
  <2>3. /\ J.step = "versions" /\ J.todo = {} /\ SetJob(t, p, j)
        /\ UNCHANGED <<upstream, store, overlapped>>
    BY <1>11, <2>1 DEF VersionsWritten, GoTo
  <2>4. Progress(p, J) => Progress(p, j)'
    BY <2>2, <2>3 DEF Progress, FilesIn, VersionsIn, store
  <2>5. Mirrored(p) => Mirrored(p)'
    BY <2>3 DEF Mirrored, store
  <2>. QED  BY <1>6, <2>2, <2>3, <2>4, <2>5, SyncWrite DEF SyncSteps, store
<1>12. CASE DropVersions(t, p)
  <2>1. PICK j : j = At(J, "dropFiles", J.versions, {})
    OBVIOUS
  <2>2. /\ j.step = "dropFiles" /\ j.versions = J.versions
        /\ j.project = J.project /\ j.alone = J.alone
    BY <2>1 DEF At
  <2>3. /\ J.step = "dropVersions" /\ SetJob(t, p, j)
        /\ UNCHANGED <<upstream, projectDocs, fileDocs, translations, overlapped>>
    BY <1>12, <2>1 DEF DropVersions, GoTo
  <2>4. versionDocs'[p] =
          [v \in Versions |-> IF v \in Listed(J.versions) THEN versionDocs[p][v] ELSE 0]
    BY <1>12 DEF DropVersions, TypeOK
  <2>5. ASSUME J.versions = upstream[p].listing, VersionsIn(p, live)
        PROVE  versionDocs'[p] = upstream[p].listing
    <3>1. \A v \in Versions : versionDocs'[p][v] = upstream[p].listing[v]
      BY <2>4, <2>5 DEF VersionsIn, Listed
    <3>. QED  BY <1>1, <2>4, <3>1 DEF Listing
  <2>6. Progress(p, J) => J.versions = upstream[p].listing /\ VersionsIn(p, live)
    BY <2>3 DEF Progress
  <2>7. Progress(p, J) => Progress(p, j)'
    BY <1>2, <2>2, <2>3, <2>5, <2>6 DEF Progress, FilesIn, VersionsIn
  <2>8. Progress(p, J) /\ Mirrored(p) => Mirrored(p)'
    BY <2>3, <2>5, <2>6 DEF Mirrored
  <2>. QED  BY <1>6, <2>2, <2>3, <2>7, <2>8, SyncWrite DEF SyncSteps
<1>13. CASE DropFiles(t, p)
  <2>1. PICK j : j = At(J, "readTranslation", J.versions, {})
    OBVIOUS
  <2>2. /\ j.step = "readTranslation" /\ j.versions = J.versions
        /\ j.project = J.project /\ j.alone = J.alone
    BY <2>1 DEF At
  <2>3. /\ J.step = "dropFiles" /\ SetJob(t, p, j)
        /\ UNCHANGED <<upstream, projectDocs, versionDocs, translations, overlapped>>
    BY <1>13, <2>1 DEF DropFiles, GoTo
  <2>4. fileDocs'[p] =
          [v \in Versions |-> IF v \in Listed(J.versions) THEN fileDocs[p][v] ELSE {}]
    BY <1>13 DEF DropFiles, TypeOK
  <2>5. Progress(p, J) => J.versions = upstream[p].listing
    BY <2>3 DEF Progress
  <2>6. J.versions = upstream[p].listing => OnlyListedFiles(p)'
    BY <2>3, <2>4 DEF OnlyListedFiles, Listed
  <2>7. Progress(p, J) => Progress(p, j)'
    BY <1>2, <2>2, <2>3, <2>4, <2>5, <2>6 DEF Progress, FilesIn, VersionsIn
  <2>8. Progress(p, J) /\ Mirrored(p) => Mirrored(p)'
    BY <2>3, <2>4, <2>5 DEF Mirrored, Listed
  <2>. QED  BY <1>6, <2>2, <2>3, <2>7, <2>8, SyncWrite DEF SyncSteps
<1>14. CASE ReadTranslation(t, p)
  <2>1. PICK s : s = IF translations[p] = J.project.description
                     THEN "project" ELSE "writeTranslation"
    OBVIOUS
  <2>2. PICK j : j = At(J, s, J.versions, {})
    OBVIOUS
  <2>3. /\ j.step = s /\ j.versions = J.versions
        /\ j.project = J.project /\ j.alone = J.alone
    BY <2>2 DEF At
  <2>4. /\ J.step = "readTranslation" /\ SetJob(t, p, j)
        /\ UNCHANGED <<upstream, store, overlapped>>
    BY <1>14, <2>1, <2>2 DEF ReadTranslation, GoTo
  <2>5. /\ s \in {"project", "writeTranslation"}
        /\ s = "project" => translations[p] = J.project.description
    BY <2>1
  <2>6. Progress(p, J) /\ J.project.description = upstream[p].description => Progress(p, j)'
    BY <2>3, <2>4, <2>5 DEF Progress, FilesIn, VersionsIn, OnlyListedFiles, store
  <2>7. Mirrored(p) => Mirrored(p)'
    BY <2>4 DEF Mirrored, store
  <2>. QED  BY <1>5, <1>6, <2>3, <2>4, <2>5, <2>6, <2>7, SyncWrite DEF SyncSteps, store
<1>15. CASE WriteTranslation(t, p)
  <2>1. PICK j : j = At(J, "project", J.versions, {})
    OBVIOUS
  <2>2. /\ j.step = "project" /\ j.versions = J.versions
        /\ j.project = J.project /\ j.alone = J.alone
    BY <2>1 DEF At
  <2>3. /\ J.step = "writeTranslation" /\ SetJob(t, p, j)
        /\ UNCHANGED <<upstream, projectDocs, versionDocs, fileDocs, overlapped>>
        /\ translations'[p] = J.project.description
    BY <1>15, <2>1 DEF WriteTranslation, GoTo, TypeOK
  <2>4. Progress(p, J) /\ J.project.description = upstream[p].description => Progress(p, j)'
    BY <2>2, <2>3 DEF Progress, FilesIn, VersionsIn, OnlyListedFiles
  <2>5. Mirrored(p) /\ J.project.description = upstream[p].description => Mirrored(p)'
    BY <2>3 DEF Mirrored
  <2>. QED  BY <1>5, <1>6, <2>2, <2>3, <2>4, <2>5, SyncWrite DEF SyncSteps
<1>. QED
  BY <1>7, <1>8, <1>9, <1>10, <1>11, <1>12, <1>13, <1>14, <1>15

\* The last write of a sync.
LEMMA WriteProjectInv ==
    ASSUME TypeOK, NEW p \in Projects, ProjectInv(p), NEW t \in Tasks, WriteProject(t, p)
    PROVE  ProjectInv(p)'
<1>. DEFINE J == job[t][p]
<1>1. /\ projectDocs'[p] = J.project
      /\ overlapped'[p] = (overlapped[p] /\ ~ J.alone)
      /\ UNCHANGED <<upstream, versionDocs, fileDocs, translations>>
      /\ J.step = "project"
  BY DEF WriteProject, TypeOK
<1>2. /\ job'[t][p] = NoJob
      /\ \A o \in Tasks \ {t} : job'[o][p] = job[o][p]
  BY SetJobPoint DEF WriteProject, EndJob
<1>3. JobInv(t, p) /\ DocInv(p)
  BY DEF ProjectInv
<1>4. J.step # "none" /\ J.step \in SyncSteps
  BY <1>1 DEF SyncSteps
<1>5. DocInv(p)'
  <2>1. NotAhead(p, projectDocs[p])'
    BY <1>1, <1>3 DEF JobInv, NotAhead
  <2>2. Current(p)' => ~ Outdated(J.project, Answer(p))
    BY <1>1 DEF Current, Answer
  <2>3. ~ overlapped'[p] => J.alone
    BY <1>1, <1>3, <1>4 DEF JobInv
  <2>4. J.alone /\ ~ Outdated(J.project, Answer(p)) => Progress(p, J)
    BY <1>3, <1>4 DEF JobInv, SyncInv
  <2>5. Progress(p, J) => Mirrored(p)
    BY <1>1 DEF Progress, Mirrored, FilesIn, OnlyListedFiles, Listed
  <2>6. Mirrored(p)' = Mirrored(p)
    BY <1>1 DEF Mirrored
  <2>. QED  BY <1>1, <1>3, <2>1, <2>2, <2>3, <2>4, <2>5, <2>6 DEF DocInv
<1>6. JobInv(t, p)'
  BY <1>1, <1>2, <1>3 DEF JobInv, NoJob, NewJob, NotAhead, NoDoc, DocInv, TypeOK, Upstream
<1>7. ASSUME NEW o \in Tasks \ {t} PROVE JobInv(o, p)'
  <2>1. ~ job[o][p].alone
    BY <1>4, OthersNotAlone
  <2>2. J.alone => job[o][p].step = "none"
    BY <1>3 DEF JobInv, Alone
  <2>3. JobInv(o, p)
    BY DEF ProjectInv
  <2>. QED  BY <1>1, <1>2, <2>1, <2>2, <2>3 DEF JobInv, NotAhead
<1>. QED  BY <1>5, <1>6, <1>7 DEF ProjectInv

\* The deletions of a removal.
LEMMA RemovalStepInv ==
    ASSUME TypeOK, NEW p \in Projects, ProjectInv(p), NEW t \in Tasks,
           RemoveFiles(t, p) \/ RemoveVersions(t, p) \/ RemoveTranslation(t, p)
    PROVE  ProjectInv(p)'
<1>. DEFINE J == job[t][p]
<1>1. ASSUME NEW j, SetJob(t, p, j)
      PROVE  /\ job'[t][p] = j
             /\ \A o \in Tasks \ {t} : job'[o][p] = job[o][p]
  BY <1>1, SetJobPoint
<1>2. UNCHANGED <<upstream, projectDocs, overlapped>> => (Current(p))' = Current(p)
  BY DEF Current, Present, Answer, Outdated
<1>3. CASE RemoveFiles(t, p)
  <2>1. PICK j : j = At(J, "removeVersions", J.versions, {})
    OBVIOUS
  <2>2. /\ j.step = "removeVersions" /\ j.project = J.project /\ j.alone = J.alone
    BY <2>1 DEF At
  <2>3. /\ J.step = "removeFiles" /\ SetJob(t, p, j)
        /\ UNCHANGED <<upstream, projectDocs, versionDocs, translations, overlapped>>
        /\ fileDocs'[p] = [v \in Versions |-> {}]
    BY <1>3, <2>1 DEF RemoveFiles, Removing, GoTo, TypeOK
  <2>4. RemovalInv(p, J) => RemovalInv(p, j)'
    BY <1>2, <2>2, <2>3 DEF RemovalInv
  <2>. QED  BY <1>1, <2>2, <2>3, <2>4, RemovalWrite DEF RemovalSteps
<1>4. CASE RemoveVersions(t, p)
  <2>1. PICK j : j = At(J, "removeTranslation", J.versions, {})
    OBVIOUS
  <2>2. /\ j.step = "removeTranslation" /\ j.project = J.project /\ j.alone = J.alone
    BY <2>1 DEF At
  <2>3. /\ J.step = "removeVersions" /\ SetJob(t, p, j)
        /\ UNCHANGED <<upstream, projectDocs, fileDocs, translations, overlapped>>
        /\ versionDocs'[p] = EmptyListing
    BY <1>4, <2>1 DEF RemoveVersions, Removing, GoTo, TypeOK
  <2>4. RemovalInv(p, J) => RemovalInv(p, j)'
    BY <1>2, <2>2, <2>3 DEF RemovalInv, EmptyListing
  <2>. QED  BY <1>1, <2>2, <2>3, <2>4, RemovalWrite DEF RemovalSteps
<1>5. CASE RemoveTranslation(t, p)
  <2>1. PICK j : j = At(J, "removeProject", J.versions, {})
    OBVIOUS
  <2>2. /\ j.step = "removeProject" /\ j.project = J.project /\ j.alone = J.alone
    BY <2>1 DEF At
  <2>3. /\ J.step = "removeTranslation" /\ SetJob(t, p, j)
        /\ UNCHANGED <<upstream, projectDocs, fileDocs, versionDocs, overlapped>>
        /\ translations'[p] = 0
    BY <1>5, <2>1 DEF RemoveTranslation, Removing, GoTo, TypeOK
  <2>4. RemovalInv(p, J) => RemovalInv(p, j)'
    BY <1>2, <2>2, <2>3 DEF RemovalInv, EmptyListing
  <2>. QED  BY <1>1, <2>2, <2>3, <2>4, RemovalWrite DEF RemovalSteps
<1>. QED  BY <1>3, <1>4, <1>5

LEMMA RemoveProjectInv ==
    ASSUME TypeOK, NEW p \in Projects, ProjectInv(p), NEW t \in Tasks, RemoveProject(t, p)
    PROVE  ProjectInv(p)'
<1>1. /\ projectDocs'[p] = NoDoc
      /\ UNCHANGED <<upstream, versionDocs, fileDocs, translations, overlapped>>
      /\ job[t][p].step = "removeProject"
  BY DEF RemoveProject, Removing, TypeOK
<1>2. /\ job'[t][p] = NoJob
      /\ \A o \in Tasks \ {t} : job'[o][p] = job[o][p]
  BY SetJobPoint DEF RemoveProject, EndJob
<1>3. JobInv(t, p) /\ DocInv(p)
  BY DEF ProjectInv
<1>4. upstream[p].updated \in Nat
  BY DEF TypeOK, Upstream
<1>5. DocInv(p)'
  BY <1>1, <1>3, <1>4 DEF DocInv, NotAhead, NoDoc, Current, Present
<1>6. JobInv(t, p)'
  BY <1>1, <1>2, <1>3, <1>4 DEF JobInv, NoJob, NewJob, NotAhead, NoDoc, DocInv
<1>7. ASSUME NEW o \in Tasks \ {t} PROVE JobInv(o, p)'
  <2>1. ~ job[o][p].alone
    BY <1>1, OthersNotAlone
  <2>2. JobInv(o, p)
    BY DEF ProjectInv
  <2>. QED  BY <1>1, <1>2, <2>1, <2>2 DEF JobInv, NotAhead
<1>. QED  BY <1>5, <1>6, <1>7 DEF ProjectInv

LEMMA JobStepInv ==
    ASSUME TypeOK, IInv, NEW t \in Tasks, NEW p \in Projects, JobStep(t, p)
    PROVE  IInv'
<1>. SUFFICES ASSUME NEW q \in Projects PROVE ProjectInv(q)'
  BY DEF IInv
<1>1. ProjectInv(p) /\ ProjectInv(q)
  BY DEF IInv
<1>2. CASE FetchProject(t, p)
  <2>1. /\ Launch(t, {p}, "list") /\ UNCHANGED <<upstream, store>>
    BY <1>2 DEF FetchProject
  <2>2. CASE q = p
    BY <1>1, <2>1, <2>2, LaunchInv
  <2>3. CASE q # p
    <3>1. overlapped'[q] = overlapped[q] /\ \A o \in Tasks : job'[o][q] = job[o][q]
      BY <2>1, <2>3 DEF Launch, TypeOK
    <3>. QED  BY <1>1, <2>1, <3>1, Frame DEF store
  <2>. QED  BY <2>2, <2>3
<1>3. CASE ProjectNotFound(t, p)
  BY <1>1, <1>3, Frame DEF ProjectNotFound, store
<1>4. CASE VersionsNotFound(t, p)
  <2>1. SetJob(t, p, NoJob) /\ UNCHANGED <<upstream, store, overlapped>>
    BY <1>4 DEF VersionsNotFound, EndJob
  <2>2. CASE q = p
    BY <1>1, <2>1, <2>2, SetJobPoint, EndInv
  <2>3. CASE q # p
    BY <1>1, <2>1, <2>3, SetJobPoint, Frame DEF store
  <2>. QED  BY <2>2, <2>3
<1>5. CASE \/ FetchVersions(t, p) \/ UpsertFile(t, p) \/ FilesWritten(t, p)
           \/ UpsertVersion(t, p) \/ VersionsWritten(t, p) \/ DropVersions(t, p)
           \/ DropFiles(t, p) \/ ReadTranslation(t, p) \/ WriteTranslation(t, p)
  <2>1. CASE q = p
    BY <1>1, <1>5, <2>1, SyncStepInv
  <2>2. CASE q # p
    <3>1. \A o \in Tasks : job'[o][q] = job[o][q]
      <4>1. PICK j : SetJob(t, p, j)
        BY <1>5 DEF FetchVersions, UpsertFile, FilesWritten, UpsertVersion, VersionsWritten,
           DropVersions, DropFiles, ReadTranslation, WriteTranslation, GoTo
      <4>. QED  BY <2>2, <4>1, SetJobPoint
    <3>2. /\ upstream'[q] = upstream[q] /\ overlapped'[q] = overlapped[q]
          /\ projectDocs'[q] = projectDocs[q] /\ versionDocs'[q] = versionDocs[q]
          /\ fileDocs'[q] = fileDocs[q] /\ translations'[q] = translations[q]
      BY <1>5, <2>2 DEF TypeOK, FetchVersions, UpsertFile, FilesWritten, UpsertVersion,
         VersionsWritten, DropVersions, DropFiles, ReadTranslation, WriteTranslation, store
    <3>. QED  BY <1>1, <3>1, <3>2, Frame
  <2>. QED  BY <2>1, <2>2
<1>6. CASE WriteProject(t, p)
  <2>1. CASE q = p
    BY <1>1, <1>6, <2>1, WriteProjectInv
  <2>2. CASE q # p
    <3>1. \A o \in Tasks : job'[o][q] = job[o][q]
      BY <1>6, <2>2 DEF TypeOK, WriteProject, EndJob, SetJob
    <3>2. projectDocs'[q] = projectDocs[q] /\ overlapped'[q] = overlapped[q]
      BY <1>6, <2>2 DEF TypeOK, WriteProject
    <3>. QED  BY <1>1, <1>6, <3>1, <3>2, Frame DEF WriteProject
  <2>. QED  BY <2>1, <2>2
<1>7. CASE RemoveFiles(t, p) \/ RemoveVersions(t, p) \/ RemoveTranslation(t, p)
  <2>1. CASE q = p
    BY <1>1, <1>7, <2>1, RemovalStepInv
  <2>2. CASE q # p
    <3>1. \A o \in Tasks : job'[o][q] = job[o][q]
      <4>1. PICK j : SetJob(t, p, j)
        BY <1>7 DEF RemoveFiles, RemoveVersions, RemoveTranslation, GoTo
      <4>. QED  BY <2>2, <4>1, SetJobPoint
    <3>2. /\ upstream'[q] = upstream[q] /\ overlapped'[q] = overlapped[q]
          /\ projectDocs'[q] = projectDocs[q] /\ versionDocs'[q] = versionDocs[q]
          /\ fileDocs'[q] = fileDocs[q] /\ translations'[q] = translations[q]
      BY <1>7, <2>2 DEF TypeOK, RemoveFiles, RemoveVersions, RemoveTranslation
    <3>. QED  BY <1>1, <3>1, <3>2, Frame
  <2>. QED  BY <2>1, <2>2
<1>8. CASE RemoveProject(t, p)
  <2>1. CASE q = p
    BY <1>1, <1>8, <2>1, RemoveProjectInv
  <2>2. CASE q # p
    <3>1. \A o \in Tasks : job'[o][q] = job[o][q]
      BY <1>8, <2>2 DEF TypeOK, RemoveProject, EndJob, SetJob
    <3>2. projectDocs'[q] = projectDocs[q]
      BY <1>8, <2>2 DEF TypeOK, RemoveProject
    <3>. QED  BY <1>1, <1>8, <3>1, <3>2, Frame DEF RemoveProject
  <2>. QED  BY <2>1, <2>2
<1>. QED
  BY <1>2, <1>3, <1>4, <1>5, <1>6, <1>7, <1>8 DEF JobStep

LEMMA TaskInv ==
    ASSUME TypeOK, IInv, NEW t \in Tasks, Submit(t) \/ TaskStep(t) \/ TaskFault(t)
    PROVE  IInv'
<1>1. CASE \/ Submit(t) \/ OpenCursor(t) \/ ReadBatch(t) \/ ScanDone(t)
           \/ RemovalDone(t) \/ Finish(t) \/ BatchFails(t)
           \/ \E p \in Projects : FetchFails(t, p)
  <2>1. UNCHANGED <<upstream, store, job, overlapped>>
    BY <1>1 DEF Submit, OpenCursor, ReadBatch, ScanDone, RemovalDone, Finish, BatchFails,
       FetchFails
  <2>. QED  BY <2>1, Frame DEF IInv, store
<1>2. CASE CompareBatch(t)
  <2>. DEFINE dead == {p \in InBatch(t) : ~ upstream[p].visible}
  <2>1. Launch(t, dead, "removeFiles") /\ UNCHANGED <<upstream, store>>
    BY <1>2 DEF CompareBatch
  <2>2. dead \in SUBSET Projects /\ \A p \in dead : ~ upstream[p].visible
    BY DEF InBatch
  <2>. HIDE DEF dead
  <2>3. ASSUME NEW q \in Projects PROVE ProjectInv(q)'
    <3>1. CASE q \in dead
      BY <2>1, <2>2, <3>1, LaunchInv DEF IInv
    <3>2. CASE q \notin dead
      <4>1. overlapped'[q] = overlapped[q] /\ \A o \in Tasks : job'[o][q] = job[o][q]
        BY <2>1, <3>2 DEF Launch, TypeOK
      <4>. QED  BY <2>1, <4>1, Frame DEF store, IInv
    <3>. QED  BY <3>1, <3>2
  <2>. QED  BY <2>3 DEF IInv
<1>3. CASE \E p \in Projects : JobStep(t, p)
  BY <1>3, JobStepInv
<1>4. CASE Crash(t)
  <2>1. UNCHANGED <<upstream, store, overlapped>>
    BY <1>4 DEF Crash
  <2>2. \A p \in Projects : /\ job'[t][p] = NoJob
                            /\ \A o \in Tasks \ {t} : job'[o][p] = job[o][p]
    BY <1>4 DEF Crash, TypeOK
  <2>. QED  BY <2>1, <2>2, EndInv DEF IInv
<1>5. CASE \E p \in Projects : JobFails(t, p)
  <2>1. PICK p \in Projects : JobFails(t, p)
    BY <1>5
  <2>2. SetJob(t, p, NoJob) /\ UNCHANGED <<upstream, store, overlapped>>
    BY <2>1 DEF JobFails, EndJob
  <2>3. ASSUME NEW q \in Projects PROVE ProjectInv(q)'
    <3>1. CASE q = p
      BY <2>2, <3>1, SetJobPoint, EndInv DEF IInv
    <3>2. CASE q # p
      BY <2>2, <3>2, SetJobPoint, Frame DEF store, IInv
    <3>. QED  BY <3>1, <3>2
  <2>. QED  BY <2>3 DEF IInv
<1>. QED
  BY <1>1, <1>2, <1>3, <1>4, <1>5 DEF TaskStep, TaskFault

LEMMA InitInv == Init => IInv
<1>. SUFFICES ASSUME Init, NEW p \in Projects PROVE ProjectInv(p)
  BY DEF IInv
<1>1. upstream[p].updated = 1
  BY DEF Init
<1>2. projectDocs[p].updated = 0
  BY DEF Init, NoDoc
<1>3. \A t \in Tasks : /\ job[t][p].step = "none" /\ ~ job[t][p].alone
                       /\ job[t][p].project.updated = 0
  BY DEF Init, NoJob, NewJob, NoDoc
<1>4. DocInv(p)
  BY <1>1, <1>2 DEF DocInv, NotAhead, Current, Present
<1>5. \A t \in Tasks : JobInv(t, p)
  BY <1>1, <1>3 DEF JobInv, NotAhead
<1>. QED  BY <1>4, <1>5 DEF ProjectInv

LEMMA NextInv == ASSUME RelistTouches PROVE TypeOK /\ IInv /\ [Next]_vars => IInv'
<1>1. ASSUME TypeOK, IInv, Next PROVE IInv'
  BY <1>1, UpstreamInv, TaskInv DEF Next
<1>2. ASSUME IInv, UNCHANGED vars PROVE IInv'
  BY <1>2, Frame DEF IInv, vars, store
<1>. QED  BY <1>1, <1>2

\* The inductive invariant holds, provided a project that reappears upstream
\* counts as updated.
THEOREM Inductive == ASSUME RelistTouches PROVE Spec => []IInv
<1>1. TypeOK /\ IInv /\ [Next]_vars => IInv'
  BY NextInv
<1>. QED  BY InitInv, TypeCorrect, <1>1, PTL DEF Spec

\* A project document that compares as up to date vouches for versions, files
\* and translation, whatever failed or crashed before, unless jobs overlapped:
\* the reason sync_project writes the document last.
THEOREM FreshnessCorrect == ASSUME RelistTouches PROVE Spec => []CurrentMeansMirrored
<1>1. IInv => CurrentMeansMirrored
  BY DEF IInv, ProjectInv, DocInv, CurrentMeansMirrored
<1>. QED  BY Inductive, <1>1, PTL

LEMMA WhoWritesProjects ==
    ASSUME Next
    PROVE  \/ projectDocs' = projectDocs
           \/ \E t \in Tasks, q \in Projects : WriteProject(t, q) \/ RemoveProject(t, q)
<1>1. UpstreamNext => projectDocs' = projectDocs
  BY DEF UpstreamNext, Publish, EditVersion, EditDescription, Withdraw, Hide, Relist, store
<1>2. ASSUME NEW t \in Tasks, Submit(t) \/ TaskFault(t) PROVE projectDocs' = projectDocs
  BY <1>2 DEF Submit, TaskFault, BatchFails, Crash, FetchFails, JobFails, store
<1>3. ASSUME NEW t \in Tasks, TaskStep(t)
      PROVE  \/ projectDocs' = projectDocs
             \/ \E q \in Projects : WriteProject(t, q) \/ RemoveProject(t, q)
  BY <1>3 DEF TaskStep, OpenCursor, ReadBatch, CompareBatch, ScanDone, RemovalDone,
     Finish, JobStep, FetchProject, ProjectNotFound, FetchVersions, VersionsNotFound,
     UpsertFile, FilesWritten, UpsertVersion, VersionsWritten, DropVersions, DropFiles,
     ReadTranslation, WriteTranslation, RemoveFiles, RemoveVersions,
     RemoveTranslation, store
<1>. QED  BY <1>1, <1>2, <1>3 DEF Next

\* What the argument about removals rests on: a sync holds a project that
\* exists, a removal one that an answer was without.
WordOf(t, p) ==
    /\ job[t][p].step \in SyncSteps => job[t][p].project.updated > 0
    /\ job[t][p].step \in RemovalSteps => DeadOnce(t, p)

WordInv == \A t \in Tasks, p \in Projects : WordOf(t, p)

\* A step ends what a task does to a project, goes on with the answer it began
\* with, or begins with the answer of this moment.
JobMoves(t, p) ==
    \/ job'[t][p].step = "none"
    \/ /\ job'[t][p].project = job[t][p].project
       /\ job'[t][p].step \in SyncSteps => job[t][p].step \in SyncSteps
       /\ job'[t][p].step \in RemovalSteps => job[t][p].step \in RemovalSteps
    \/ /\ job'[t][p].project = Answer(p)
       /\ job'[t][p].step \in SyncSteps
    \/ /\ job'[t][p].step \in RemovalSteps
       /\ ~ upstream[p].visible

LEMMA GoOnMoves ==
    ASSUME TypeOK, NEW t \in Tasks, NEW q \in Projects, NEW j \in Jobs,
           SetJob(t, q, j), j.project = job[t][q].project,
           j.step \in SyncSteps => job[t][q].step \in SyncSteps,
           j.step \in RemovalSteps => job[t][q].step \in RemovalSteps,
           NEW o \in Tasks, NEW p \in Projects
    PROVE  JobMoves(o, p)
<1>1. job' = [job EXCEPT ![t][q] = j]
  BY DEF SetJob
<1>2. CASE o = t /\ p = q
  <2>1. job'[o][p] = j
    BY <1>1, <1>2 DEF TypeOK
  <2>. QED  BY <2>1, <1>2 DEF JobMoves
<1>3. CASE ~ (o = t /\ p = q)
  <2>1. job'[o][p] = job[o][p]
    BY <1>1, <1>3 DEF TypeOK
  <2>. QED  BY <2>1 DEF JobMoves
<1>. QED  BY <1>2, <1>3

LEMMA EndMoves ==
    ASSUME TypeOK, NEW t \in Tasks, NEW q \in Projects, EndJob(t, q),
           NEW o \in Tasks, NEW p \in Projects
    PROVE  JobMoves(o, p)
<1>1. job' = [job EXCEPT ![t][q] = NoJob]
  BY DEF EndJob, SetJob
<1>2. job'[o][p] = NoJob \/ job'[o][p] = job[o][p]
  BY <1>1 DEF TypeOK
<1>. QED  BY <1>2 DEF JobMoves, NoJob, NewJob

LEMMA LaunchMoves ==
    ASSUME TypeOK, NEW t \in Tasks, NEW S, NEW step, Launch(t, S, step),
           \/ step \in SyncSteps
           \/ /\ step \in RemovalSteps
              /\ \A q \in S \cap Projects : ~ upstream[q].visible,
           NEW o \in Tasks, NEW p \in Projects
    PROVE  JobMoves(o, p)
<1>1. \/ job'[o][p] = job[o][p]
      \/ job'[o][p] = Met(job[o][p])
      \/ p \in S /\ job'[o][p] = NewJob(step, Answer(p), Alone(t, p))
  BY DEF Launch
<1>2. CASE job'[o][p] = job[o][p] \/ job'[o][p] = Met(job[o][p])
  <2>1. job[o][p] \in Jobs
    BY DEF TypeOK
  <2>2. job'[o][p].step = job[o][p].step /\ job'[o][p].project = job[o][p].project
    BY <1>2, <2>1 DEF Met, Jobs
  <2>. QED  BY <2>2 DEF JobMoves
<1>3. CASE p \in S /\ job'[o][p] = NewJob(step, Answer(p), Alone(t, p))
  <2>1. job'[o][p].step = step /\ job'[o][p].project = Answer(p)
    BY <1>3 DEF NewJob
  <2>. QED  BY <2>1, <1>3 DEF JobMoves
<1>. QED  BY <1>1, <1>2, <1>3

LEMMA TaskMoves ==
    ASSUME TypeOK, NEW t \in Tasks, Submit(t) \/ TaskStep(t) \/ TaskFault(t),
           NEW o \in Tasks, NEW p \in Projects
    PROVE  JobMoves(o, p) /\ upstream' = upstream
<1>1. CASE UNCHANGED <<upstream, job>>
  BY <1>1 DEF JobMoves
<1>2. ASSUME NEW q \in Projects, FetchProject(t, q)
      PROVE  JobMoves(o, p) /\ upstream' = upstream
  BY <1>2, LaunchMoves DEF FetchProject, SyncSteps
<1>3. CASE CompareBatch(t)
  <2>. DEFINE dead == {q \in InBatch(t) : ~ upstream[q].visible}
  <2>1. Launch(t, dead, "removeFiles") /\ upstream' = upstream
    BY <1>3 DEF CompareBatch
  <2>. QED  BY <2>1, LaunchMoves DEF RemovalSteps
<1>4. ASSUME NEW q \in Projects, NEW step \in Steps, NEW todo \in SUBSET Versions,
             GoTo(t, q, step, todo),
             step \in SyncSteps => job[t][q].step \in SyncSteps,
             step \in RemovalSteps => job[t][q].step \in RemovalSteps
      PROVE  JobMoves(o, p)
  <2>1. job[t][q] \in Jobs /\ job[t][q].versions \in Listing
    BY DEF TypeOK, Jobs
  <2>. DEFINE j == At(job[t][q], step, job[t][q].versions, todo)
  <2>2. j \in Jobs
    BY <2>1, AtType
  <2>3. j.step = step /\ j.project = job[t][q].project
    BY DEF At
  <2>4. SetJob(t, q, j)
    BY <1>4 DEF GoTo
  <2>. HIDE DEF j
  <2>. QED  BY <1>4, <2>2, <2>3, <2>4, GoOnMoves
<1>5. ASSUME NEW q \in Projects, FetchVersions(t, q)
      PROVE  JobMoves(o, p) /\ upstream' = upstream
  <2>1. upstream[q].listing \in Listing /\ job[t][q] \in Jobs
    BY DEF TypeOK, Upstream
  <2>. DEFINE j == At(job[t][q], "files", upstream[q].listing, Listed(upstream[q].listing))
  <2>2. j \in Jobs
    BY <2>1, AtType DEF Steps, SyncSteps, Listed
  <2>3. j.step = "files" /\ j.project = job[t][q].project
    BY DEF At
  <2>4. SetJob(t, q, j) /\ job[t][q].step \in SyncSteps /\ upstream' = upstream
    BY <1>5 DEF FetchVersions, SyncSteps
  <2>. HIDE DEF j
  <2>. QED  BY <2>2, <2>3, <2>4, GoOnMoves DEF SyncSteps, RemovalSteps
<1>6. ASSUME NEW q \in Projects,
             \/ UpsertFile(t, q) \/ FilesWritten(t, q)
             \/ UpsertVersion(t, q) \/ VersionsWritten(t, q)
             \/ DropVersions(t, q) \/ DropFiles(t, q)
             \/ ReadTranslation(t, q) \/ WriteTranslation(t, q)
      PROVE  JobMoves(o, p) /\ upstream' = upstream
  <2>1. PICK step \in {"files", "versions", "dropVersions", "dropFiles",
                       "readTranslation", "writeTranslation", "project"},
             todo \in SUBSET Versions : GoTo(t, q, step, todo)
    <3>1. job[t][q].todo \in SUBSET Versions
      BY DEF TypeOK, Jobs
    <3>2. Listed(job[t][q].versions) \in SUBSET Versions
      BY DEF Listed
    <3>. QED  BY <1>6, <3>1, <3>2 DEF UpsertFile, FilesWritten, UpsertVersion, VersionsWritten,
              DropVersions, DropFiles, ReadTranslation, WriteTranslation
  <2>2. job[t][q].step \in SyncSteps /\ upstream' = upstream
    BY <1>6 DEF UpsertFile, FilesWritten, UpsertVersion, VersionsWritten,
       DropVersions, DropFiles, ReadTranslation, WriteTranslation, SyncSteps
  <2>. QED  BY <2>1, <2>2, <1>4 DEF Steps, SyncSteps, RemovalSteps
<1>7. ASSUME NEW q \in Projects,
             RemoveFiles(t, q) \/ RemoveVersions(t, q) \/ RemoveTranslation(t, q)
      PROVE  JobMoves(o, p) /\ upstream' = upstream
  <2>1. PICK step \in {"removeVersions", "removeTranslation", "removeProject"} :
          GoTo(t, q, step, {})
    BY <1>7 DEF RemoveFiles, RemoveVersions, RemoveTranslation
  <2>2. job[t][q].step \in RemovalSteps /\ upstream' = upstream
    BY <1>7 DEF RemoveFiles, RemoveVersions, RemoveTranslation, Removing, RemovalSteps
  <2>. QED  BY <2>1, <2>2, <1>4 DEF Steps, SyncSteps, RemovalSteps
<1>8. ASSUME NEW q \in Projects,
             \/ VersionsNotFound(t, q) \/ WriteProject(t, q)
             \/ RemoveProject(t, q) \/ JobFails(t, q)
      PROVE  JobMoves(o, p) /\ upstream' = upstream
  BY <1>8, EndMoves DEF VersionsNotFound, WriteProject, RemoveProject, JobFails
<1>9. CASE Crash(t)
  <2>1. job'[o][p] = NoJob \/ job'[o][p] = job[o][p]
    BY <1>9 DEF Crash, TypeOK
  <2>. QED  BY <2>1, <1>9 DEF JobMoves, NoJob, NewJob, Crash
<1>10. CASE \/ Submit(t) \/ OpenCursor(t) \/ ReadBatch(t) \/ ScanDone(t)
            \/ RemovalDone(t) \/ Finish(t) \/ BatchFails(t)
            \/ \E q \in Projects : ProjectNotFound(t, q) \/ FetchFails(t, q)
  BY <1>10, <1>1 DEF Submit, OpenCursor, ReadBatch, ScanDone, RemovalDone, Finish,
     BatchFails, ProjectNotFound, FetchFails
<1>. QED
  BY <1>2, <1>3, <1>5, <1>6, <1>7, <1>8, <1>9, <1>10 DEF TaskStep, TaskFault, JobStep

\* Upstream never goes back: what is listed again counts as updated.
LEMMA UpstreamMoves ==
    ASSUME RelistTouches, TypeOK, UpstreamNext, NEW p \in Projects
    PROVE  /\ job' = job
           /\ upstream[p].updated <= upstream'[p].updated
           /\ ~ upstream[p].visible /\ upstream'[p].visible =>
                 upstream[p].updated < upstream'[p].updated
<1>1. PICK q \in Projects :
         Publish(q) \/ EditVersion(q) \/ EditDescription(q)
         \/ Withdraw(q) \/ Hide(q) \/ Relist(q)
  BY DEF UpstreamNext
<1>2. PICK b \in BOOLEAN, u \in {upstream[q].updated, Touched(q)} :
        /\ \E l, d : Edited(q, b, u, l, d)
        /\ ~ upstream[q].visible /\ b => u = Touched(q)
  BY <1>1 DEF Publish, EditVersion, EditDescription, Withdraw, Hide, Relist, MayTouch
<1>3. upstream[q].updated \in Nat /\ upstream[p].updated \in Nat
  BY DEF TypeOK, Upstream
<1>4. IF p = q THEN upstream'[p].updated = u /\ upstream'[p].visible = b
               ELSE upstream'[p] = upstream[p]
  BY <1>2 DEF Edited, TypeOK
<1>5. job' = job
  BY <1>1 DEF Publish, EditVersion, EditDescription, Withdraw, Hide, Relist
<1>. QED  BY <1>2, <1>3, <1>4, <1>5 DEF Touched

LEMMA NextWord ==
    ASSUME RelistTouches, TypeOK, IInv, WordInv, [Next]_vars
    PROVE  WordInv'
<1>. SUFFICES ASSUME NEW t \in Tasks, NEW p \in Projects PROVE WordOf(t, p)'
  BY DEF WordInv
<1>1. WordOf(t, p)
  BY DEF WordInv
<1>2. /\ upstream[p].updated \in Nat /\ upstream[p].updated > 0
      /\ job[t][p].project.updated \in Nat
      /\ job[t][p].project.updated <= upstream[p].updated
  <2>1. job[t][p].project \in Stamp
    BY DEF TypeOK, Jobs
  <2>2. upstream[p].updated \in Nat
    BY DEF TypeOK, Upstream
  <2>. QED  BY <2>1, <2>2 DEF IInv, ProjectInv, DocInv, JobInv, NotAhead, Stamp
<1>3. CASE UpstreamNext
  <2>1. /\ job' = job
        /\ upstream'[p].updated \in Nat
        /\ upstream[p].updated <= upstream'[p].updated
        /\ ~ upstream[p].visible /\ upstream'[p].visible =>
              upstream[p].updated < upstream'[p].updated
    BY <1>3, UpstreamMoves, UpstreamNextType DEF TypeOK, Upstream
  <2>. QED  BY <1>1, <1>2, <2>1 DEF WordOf, DeadOnce
<1>4. CASE \E o \in Tasks : Submit(o) \/ TaskStep(o) \/ TaskFault(o)
  <2>1. JobMoves(t, p) /\ upstream' = upstream
    BY <1>4, TaskMoves
  <2>2. CASE job'[t][p].step = "none"
    BY <2>2 DEF WordOf, SyncSteps, RemovalSteps
  <2>3. CASE /\ job'[t][p].project = job[t][p].project
             /\ job'[t][p].step \in SyncSteps => job[t][p].step \in SyncSteps
             /\ job'[t][p].step \in RemovalSteps => job[t][p].step \in RemovalSteps
    BY <1>1, <2>1, <2>3 DEF WordOf, DeadOnce
  <2>4. CASE job'[t][p].project = Answer(p) /\ job'[t][p].step \in SyncSteps
    BY <1>2, <2>4 DEF WordOf, Answer, SyncSteps, RemovalSteps
  <2>5. CASE job'[t][p].step \in RemovalSteps /\ ~ upstream[p].visible
    BY <2>1, <2>5 DEF WordOf, DeadOnce, SyncSteps, RemovalSteps
  <2>. QED  BY <2>1, <2>2, <2>3, <2>4, <2>5 DEF JobMoves
<1>5. CASE UNCHANGED vars
  BY <1>1, <1>5 DEF vars, WordOf, DeadOnce
<1>. QED  BY <1>3, <1>4, <1>5 DEF Next

\* Whatever overlaps it and whatever fails, refresh deletes a project document
\* only on an answer that was without the project; the project is hidden still
\* or was listed anew in the meantime.
THEOREM RemovalRestsOnAnswer == ASSUME RelistTouches PROVE Spec => RemovesOnlyTheDead
<1>. DEFINE A == \A p \in Projects :
                   p \in Present /\ projectDocs'[p] = NoDoc =>
                      \E t \in Tasks : job[t][p].step = "removeProject" /\ DeadOnce(t, p)
<1>1. Init => WordInv
  BY DEF Init, WordInv, WordOf, NoJob, NewJob, SyncSteps, RemovalSteps
<1>2. TypeOK /\ IInv /\ WordInv /\ [Next]_vars => WordInv'
  BY NextWord
<1>3. TypeOK /\ WordInv /\ [Next]_vars => [A]_vars
  <2>. SUFFICES ASSUME TypeOK, WordInv, Next,
                       NEW p \in Projects, p \in Present, projectDocs'[p] = NoDoc
                PROVE  \E t \in Tasks : job[t][p].step = "removeProject" /\ DeadOnce(t, p)
    OBVIOUS
  <2>1. projectDocs'[p] # projectDocs[p]
    BY DEF Present, NoDoc
  <2>2. PICK t \in Tasks : WriteProject(t, p) \/ RemoveProject(t, p)
    <3>1. PICK t \in Tasks, q \in Projects : WriteProject(t, q) \/ RemoveProject(t, q)
      BY <2>1, WhoWritesProjects
    <3>2. q = p
      BY <2>1, <3>1 DEF WriteProject, RemoveProject, TypeOK
    <3>. QED  BY <3>1, <3>2
  <2>3. ~ WriteProject(t, p)
    <3>. SUFFICES ASSUME WriteProject(t, p) PROVE FALSE
      OBVIOUS
    <3>1. projectDocs'[p] = job[t][p].project /\ job[t][p].step = "project"
      BY DEF WriteProject, TypeOK
    <3>2. job[t][p].project.updated > 0
      BY <3>1 DEF WordInv, WordOf, SyncSteps
    <3>. QED  BY <3>1, <3>2 DEF NoDoc
  <2>4. job[t][p].step = "removeProject"
    BY <2>2, <2>3 DEF RemoveProject, Removing
  <2>. QED  BY <2>4 DEF WordInv, WordOf, RemovalSteps
<1>. QED  BY <1>1, <1>2, <1>3, TypeCorrect, Inductive, PTL DEF RemovesOnlyTheDead, Spec

\* A sync that met no other never puts an older project document back.
THEOREM StampsNeverRecede == ASSUME RelistTouches PROVE Spec => StampsAdvance
<1>. DEFINE A == \A p \in Projects :
                   /\ p \in Present /\ projectDocs'[p] # NoDoc
                   /\ ~ overlapped[p] /\ ~ overlapped'[p]
                   => projectDocs[p].updated <= projectDocs'[p].updated
<1>1. TypeOK /\ IInv /\ [Next]_vars => [A]_vars
  <2>. SUFFICES ASSUME TypeOK, IInv, Next,
                       NEW p \in Projects, projectDocs'[p] # NoDoc, ~ overlapped[p]
                PROVE  projectDocs[p].updated <= projectDocs'[p].updated
    OBVIOUS
  <2>1. CASE projectDocs'[p] = projectDocs[p]
    BY <2>1 DEF TypeOK, Stamp
  <2>2. ASSUME NEW t \in Tasks, WriteProject(t, p)
        PROVE  projectDocs[p].updated <= projectDocs'[p].updated
    <3>1. /\ projectDocs'[p] = job[t][p].project
          /\ job[t][p].step \in SyncSteps /\ job[t][p].step # "none"
      BY <2>2 DEF WriteProject, TypeOK, SyncSteps
    <3>. QED  BY <3>1 DEF IInv, ProjectInv, JobInv, SyncInv
  <2>3. ASSUME NEW t \in Tasks PROVE ~ RemoveProject(t, p)
    BY DEF RemoveProject, TypeOK
  <2>4. ASSUME NEW t \in Tasks, NEW q \in Projects \ {p},
               WriteProject(t, q) \/ RemoveProject(t, q)
        PROVE  projectDocs'[p] = projectDocs[p]
    BY <2>4 DEF WriteProject, RemoveProject, TypeOK
  <2>. QED  BY <2>1, <2>2, <2>3, <2>4, WhoWritesProjects
<1>. QED  BY <1>1, TypeCorrect, Inductive, PTL DEF StampsAdvance, Spec

\* When the document of a removed project goes, its versions, files and
\* translation are gone, unless another job met the removal.
THEOREM RemovalComplete == ASSUME RelistTouches PROVE Spec => RemovalLeavesNothing
<1>. DEFINE A == \A p \in Projects :
                   p \in Present /\ projectDocs'[p] = NoDoc /\ ~ overlapped[p] =>
                      /\ versionDocs'[p] = EmptyListing
                      /\ fileDocs'[p] = [v \in Versions |-> {}]
                      /\ translations'[p] = 0
<1>1. TypeOK /\ IInv /\ [Next]_vars => [A]_vars
  <2>. SUFFICES ASSUME TypeOK, IInv, Next,
                       NEW p \in Projects, p \in Present, projectDocs'[p] = NoDoc,
                       ~ overlapped[p]
                PROVE  /\ versionDocs'[p] = EmptyListing
                       /\ fileDocs'[p] = [v \in Versions |-> {}]
                       /\ translations'[p] = 0
    OBVIOUS
  <2>1. projectDocs'[p] # projectDocs[p]
    BY DEF Present, NoDoc
  <2>2. ASSUME NEW t \in Tasks PROVE ~ WriteProject(t, p)
    <3>. SUFFICES ASSUME WriteProject(t, p) PROVE FALSE
      OBVIOUS
    <3>1. /\ projectDocs'[p] = job[t][p].project
          /\ job[t][p].step \in SyncSteps /\ job[t][p].step # "none"
      BY DEF WriteProject, TypeOK, SyncSteps
    <3>2. projectDocs[p].updated <= 0
      BY <3>1 DEF IInv, ProjectInv, JobInv, SyncInv, NoDoc
    <3>3. projectDocs[p].updated \in Nat /\ projectDocs[p].updated # 0
      BY DEF TypeOK, Stamp, Present
    <3>. QED  BY <3>2, <3>3
  <2>3. ASSUME NEW t \in Tasks, RemoveProject(t, p)
        PROVE  /\ versionDocs'[p] = EmptyListing
               /\ fileDocs'[p] = [v \in Versions |-> {}]
               /\ translations'[p] = 0
    <3>1. job[t][p].step = "removeProject"
      BY <2>3 DEF RemoveProject, Removing
    <3>2. job[t][p].alone
      BY <3>1 DEF IInv, ProjectInv, JobInv
    <3>3. RemovalInv(p, job[t][p])
      BY <3>1, <3>2 DEF IInv, ProjectInv, JobInv, RemovalSteps
    <3>. QED  BY <2>3, <3>1, <3>3 DEF RemovalInv, RemoveProject
  <2>4. ASSUME NEW t \in Tasks, NEW q \in Projects \ {p},
               WriteProject(t, q) \/ RemoveProject(t, q)
        PROVE  projectDocs'[p] = projectDocs[p]
    BY <2>4 DEF WriteProject, RemoveProject, TypeOK
  <2>. QED  BY <2>1, <2>2, <2>3, <2>4, WhoWritesProjects
<1>. QED  BY <1>1, TypeCorrect, Inductive, PTL DEF RemovalLeavesNothing, Spec
=============================================================================
