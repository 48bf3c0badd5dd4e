---------------------------- MODULE ModrinthSync ----------------------------
(***************************************************************************)
(* The Modrinth mirror: projects, versions, files and translations copied  *)
(* from the upstream API into four MongoDB collections by sync_project,    *)
(* compared with upstream by refresh, and deleted by remove_project.       *)
(*                                                                         *)
(* A task of the daemon (or a one-off process) syncs one project as a      *)
(* chain of awaits: two upstream requests, then writes to one collection   *)
(* after another, the project document last.  Other tasks, upstream edits, *)
(* failures and crashes may fall between any two of them.                  *)
(*                                                                         *)
(* Abstraction of the data.  A project's `updated` is a counter.  The      *)
(* content of a version is the value `updated` had when it was last        *)
(* edited, 0 meaning that there is no such version; every edit of a        *)
(* version replaces its file, so that same number also names the file.     *)
(* `game_versions` behaves as `versions` does and is left out.  A          *)
(* delete_many is one step.  Upstream is assumed to move `updated` with    *)
(* every edit except the withdrawal of a version, and no two edits of a    *)
(* project to fall into one second, for `updated` is compared by the       *)
(* second; module CurseforgeSync has what happens otherwise.  checked_at,  *)
(* which refresh writes beside the document, decides nothing and is left   *)
(* out.                                                                    *)
(***************************************************************************)
EXTENDS Naturals, FiniteSets

CONSTANTS
    Projects,       \* project ids
    Versions,       \* version ids of a project
    Refreshers,     \* tasks that run `modrinth refresh`
    Syncers,        \* tasks that sync given ids: queue, search, refresh-full
    ChunkSize,      \* modrinth_chunk_size: documents compared in one batch
    RelistTouches,  \* does a project that reappears upstream get a new `updated`?
    MaxUpdated,     \* bound on upstream edits
    MaxFaults       \* bound on failed requests, failed writes and crashes

ASSUME BoundsAssumption ==
    /\ ChunkSize \in Nat \ {0}
    /\ MaxUpdated \in Nat
    /\ MaxFaults \in Nat
    /\ RelistTouches \in BOOLEAN

ASSUME TaskAssumption == Refreshers \cap Syncers = {}

Tasks == Refreshers \cup Syncers

VARIABLES
    upstream,       \* what the Modrinth API would answer now
    projectDocs,    \* collection modrinth_projects
    versionDocs,    \* collection modrinth_versions
    fileDocs,       \* collection modrinth_files
    translations,   \* collection modrinth_translated: the `original` text
    phase,          \* where each task is
    remaining,      \* ids its cursor has not delivered
    batch,          \* local stamps of the batch it is comparing
    targets,        \* ids it has yet to sync
    job,            \* what it is doing to each project
    overlapped,     \* history: the last completed sync did not run alone
    faults          \* faults so far

store    == <<projectDocs, versionDocs, fileDocs, translations>>
taskVars == <<phase, remaining, batch, targets>>
vars     == <<upstream, store, taskVars, job, overlapped, faults>>

-----------------------------------------------------------------------------
(* Data *)

\* A project document, reduced to what refresh compares and the text to translate.
Stamp == [updated : Nat, versions : SUBSET Versions, description : Nat]
NoDoc == [updated |-> 0, versions |-> {}, description |-> 0]

Listing      == [Versions -> Nat]
EmptyListing == [v \in Versions |-> 0]
Listed(l)    == {v \in Versions : l[v] # 0}

Upstream == [visible : BOOLEAN, updated : Nat, listing : Listing, description : Nat]

\* The answer of get_project, and one entry of that of get_projects.
Answer(p) == [updated     |-> upstream[p].updated,
              versions    |-> Listed(upstream[p].listing),
              description |-> upstream[p].description]

Present == {p \in Projects : projectDocs[p].updated # 0}

SyncSteps == {"list", "files", "versions", "dropVersions", "dropFiles",
              "readTranslation", "writeTranslation", "project"}
RemovalSteps == {"removeFiles", "removeVersions", "removeTranslation", "removeProject"}
Steps  == {"none"} \cup SyncSteps \cup RemovalSteps
Phases == {"idle", "scan", "compare", "remove", "sync"}

\* project and versions are the two answers a sync holds, todo the documents
\* upsert_many has yet to write, alone says that no other job met it so far.
Jobs  == [step : Steps, project : Stamp, versions : Listing,
          todo : SUBSET Versions, alone : BOOLEAN]
NewJob(step, project, alone) ==
    [step |-> step, project |-> project, versions |-> EmptyListing,
     todo |-> {}, alone |-> alone]
NoJob == NewJob("none", NoDoc, FALSE)
At(j, step, listing, todo) ==
    [step |-> step, project |-> j.project, versions |-> listing,
     todo |-> todo, alone |-> j.alone]
Met(j) == [j EXCEPT !.alone = FALSE]

Idle(t) == \A p \in Projects : job[t][p].step = "none"
Alone(t, p) == \A o \in Tasks \ {t} : job[o][p].step = "none"

\* Mutant: only the time is compared, a withdrawal goes unnoticed.
OutdatedByTimeOnly(local, remote) == local.updated # remote.updated

\* Does the document need a sync?  (same_second and same_set)
Outdated(local, remote) ==
    \/ local.updated # remote.updated
    \/ local.versions # remote.versions

-----------------------------------------------------------------------------
(* Upstream: what other people do to the projects on Modrinth *)

Edited(p, visible, updated, listing, description) ==
    upstream' = [upstream EXCEPT ![p] =
        [visible |-> visible, updated |-> updated,
         listing |-> listing, description |-> description]]

\* An edit that moves `updated`; it is also the new content of what it edits.
Touched(p) == upstream[p].updated + 1
MayTouch(p) == upstream[p].visible /\ upstream[p].updated < MaxUpdated

Publish(p) ==
    /\ MayTouch(p)
    /\ \E v \in Versions \ Listed(upstream[p].listing) :
         Edited(p, TRUE, Touched(p), [upstream[p].listing EXCEPT ![v] = Touched(p)],
                upstream[p].description)
    /\ UNCHANGED <<store, taskVars, job, overlapped, faults>>

EditVersion(p) ==
    /\ MayTouch(p)
    /\ \E v \in Listed(upstream[p].listing) :
         Edited(p, TRUE, Touched(p), [upstream[p].listing EXCEPT ![v] = Touched(p)],
                upstream[p].description)
    /\ UNCHANGED <<store, taskVars, job, overlapped, faults>>

EditDescription(p) ==
    /\ MayTouch(p)
    /\ Edited(p, TRUE, Touched(p), upstream[p].listing, Touched(p))
    /\ UNCHANGED <<store, taskVars, job, overlapped, faults>>

Withdraw(p) ==
    /\ upstream[p].visible
    /\ \E v \in Listed(upstream[p].listing) :
         Edited(p, TRUE, upstream[p].updated, [upstream[p].listing EXCEPT ![v] = 0],
                upstream[p].description)
    /\ UNCHANGED <<store, taskVars, job, overlapped, faults>>

Hide(p) ==
    /\ upstream[p].visible
    /\ Edited(p, FALSE, upstream[p].updated, upstream[p].listing, upstream[p].description)
    /\ UNCHANGED <<store, taskVars, job, overlapped, faults>>

Relist(p) ==
    /\ ~ upstream[p].visible /\ upstream[p].updated < MaxUpdated
    /\ Edited(p, TRUE, IF RelistTouches THEN Touched(p) ELSE upstream[p].updated,
              upstream[p].listing, upstream[p].description)
    /\ UNCHANGED <<store, taskVars, job, overlapped, faults>>

UpstreamNext == \E p \in Projects :
    \/ Publish(p) \/ EditVersion(p) \/ EditDescription(p)
    \/ Withdraw(p) \/ Hide(p) \/ Relist(p)

-----------------------------------------------------------------------------
(* Jobs: what a task does to one project *)

SetJob(t, p, j) == job' = [job EXCEPT ![t][p] = j]
EndJob(t, p)    == SetJob(t, p, NoJob)
GoTo(t, p, step, todo) ==
    SetJob(t, p, At(job[t][p], step, job[t][p].versions, todo))

\* Task t starts a job on every project of S; whoever meets is no longer alone.
\* A removal counts as a job from the comparison that found the project dead.
Launch(t, S, step) ==
    /\ job' = [o \in Tasks |-> [p \in Projects |->
                 IF p \notin S THEN job[o][p]
                 ELSE IF o = t THEN NewJob(step, Answer(p), Alone(t, p))
                               ELSE Met(job[o][p])]]
    /\ overlapped' = [p \in Projects |->
                        overlapped[p] \/ (p \in S /\ ~ Alone(t, p))]

\* sync_project, first request: the project.
FetchProject(t, p) ==
    /\ phase[t] = "sync" /\ p \in targets[t] /\ job[t][p].step = "none"
    /\ upstream[p].visible
    /\ targets' = [targets EXCEPT ![t] = @ \ {p}]
    /\ Launch(t, {p}, "list")
    /\ UNCHANGED <<upstream, store, phase, remaining, batch, faults>>

\* 404 on the first request: Outcome::NotFound, nothing is touched.
ProjectNotFound(t, p) ==
    /\ phase[t] = "sync" /\ p \in targets[t] /\ job[t][p].step = "none"
    /\ ~ upstream[p].visible
    /\ targets' = [targets EXCEPT ![t] = @ \ {p}]
    /\ UNCHANGED <<upstream, store, phase, remaining, batch, job, overlapped, faults>>

\* Mutant: the project document is written before versions and files.
FetchVersionsProjectFirst(t, p) ==
    /\ job[t][p].step = "list"
    /\ upstream[p].visible
    /\ SetJob(t, p, At(job[t][p], "files", upstream[p].listing,
                       Listed(upstream[p].listing)))
    /\ projectDocs' = [projectDocs EXCEPT ![p] = job[t][p].project]
    /\ UNCHANGED <<upstream, versionDocs, fileDocs, translations, taskVars,
                   overlapped, faults>>

\* sync_project_versions: the complete list, possibly empty.
FetchVersions(t, p) ==
    /\ job[t][p].step = "list"
    /\ upstream[p].visible
    /\ SetJob(t, p, At(job[t][p], "files", upstream[p].listing,
                       Listed(upstream[p].listing)))
    /\ UNCHANGED <<upstream, store, taskVars, overlapped, faults>>

\* The project vanished between the two requests.
VersionsNotFound(t, p) ==
    /\ job[t][p].step = "list"
    /\ ~ upstream[p].visible
    /\ EndJob(t, p)
    /\ UNCHANGED <<upstream, store, taskVars, overlapped, faults>>

\* upsert_many writes the documents of a batch concurrently, in any order.
UpsertFile(t, p) ==
    /\ job[t][p].step = "files"
    /\ \E v \in job[t][p].todo :
         /\ fileDocs' = [fileDocs EXCEPT ![p][v] = @ \cup {job[t][p].versions[v]}]
         /\ GoTo(t, p, "files", job[t][p].todo \ {v})
    /\ UNCHANGED <<upstream, projectDocs, versionDocs, translations, taskVars,
                   overlapped, faults>>

FilesWritten(t, p) ==
    /\ job[t][p].step = "files" /\ job[t][p].todo = {}
    /\ GoTo(t, p, "versions", Listed(job[t][p].versions))
    /\ UNCHANGED <<upstream, store, taskVars, overlapped, faults>>

UpsertVersion(t, p) ==
    /\ job[t][p].step = "versions"
    /\ \E v \in job[t][p].todo :
         /\ versionDocs' = [versionDocs EXCEPT ![p][v] = job[t][p].versions[v]]
         /\ GoTo(t, p, "versions", job[t][p].todo \ {v})
    /\ UNCHANGED <<upstream, projectDocs, fileDocs, translations, taskVars,
                   overlapped, faults>>

VersionsWritten(t, p) ==
    /\ job[t][p].step = "versions" /\ job[t][p].todo = {}
    /\ GoTo(t, p, "dropVersions", {})
    /\ UNCHANGED <<upstream, store, taskVars, overlapped, faults>>

\* The versions that are gone are those not in the list just written.
DropVersions(t, p) ==
    /\ job[t][p].step = "dropVersions"
    /\ versionDocs' = [versionDocs EXCEPT ![p] =
         [v \in Versions |-> IF v \in Listed(job[t][p].versions) THEN @[v] ELSE 0]]
    /\ GoTo(t, p, "dropFiles", {})
    /\ UNCHANGED <<upstream, projectDocs, fileDocs, translations, taskVars,
                   overlapped, faults>>

\* Mutant: the files of versions that are gone are not deleted.
DropFilesForgotten(t, p) ==
    /\ job[t][p].step = "dropFiles"
    /\ GoTo(t, p, "readTranslation", {})
    /\ UNCHANGED <<upstream, store, taskVars, overlapped, faults>>

\* Files go with their version: the filter names version_id, not the hashes.
DropFiles(t, p) ==
    /\ job[t][p].step = "dropFiles"
    /\ fileDocs' = [fileDocs EXCEPT ![p] =
         [v \in Versions |-> IF v \in Listed(job[t][p].versions) THEN @[v] ELSE {}]]
    /\ GoTo(t, p, "readTranslation", {})
    /\ UNCHANGED <<upstream, projectDocs, versionDocs, translations, taskVars,
                   overlapped, faults>>

\* sync_translation reads the record and leaves it when the text is unchanged.
ReadTranslation(t, p) ==
    /\ job[t][p].step = "readTranslation"
    /\ GoTo(t, p, IF translations[p] = job[t][p].project.description
                  THEN "project" ELSE "writeTranslation", {})
    /\ UNCHANGED <<upstream, store, taskVars, overlapped, faults>>

WriteTranslation(t, p) ==
    /\ job[t][p].step = "writeTranslation"
    /\ translations' = [translations EXCEPT ![p] = job[t][p].project.description]
    /\ GoTo(t, p, "project", {})
    /\ UNCHANGED <<upstream, projectDocs, versionDocs, fileDocs, taskVars,
                   overlapped, faults>>

\* The project document comes last; the history forgets an overlap when the
\* sync that completes met no other job.
WriteProject(t, p) ==
    /\ job[t][p].step = "project"
    /\ projectDocs' = [projectDocs EXCEPT ![p] = job[t][p].project]
    /\ overlapped' = [overlapped EXCEPT ![p] = @ /\ ~ job[t][p].alone]
    /\ EndJob(t, p)
    /\ UNCHANGED <<upstream, versionDocs, fileDocs, translations, taskVars, faults>>

\* remove_dead goes through the dead one at a time.
Removing(t, p, step) ==
    /\ phase[t] = "remove"
    /\ job[t][p].step = step
    /\ \A q \in Projects \ {p} : job[t][q].step \in {"none", "removeFiles"}

\* Mutant: the files are looked for in another collection.
RemoveFilesElsewhere(t, p) ==
    /\ Removing(t, p, "removeFiles")
    /\ GoTo(t, p, "removeVersions", {})
    /\ UNCHANGED <<upstream, store, taskVars, overlapped, faults>>

RemoveFiles(t, p) ==
    /\ Removing(t, p, "removeFiles")
    /\ fileDocs' = [fileDocs EXCEPT ![p] = [v \in Versions |-> {}]]
    /\ GoTo(t, p, "removeVersions", {})
    /\ UNCHANGED <<upstream, projectDocs, versionDocs, translations, taskVars,
                   overlapped, faults>>

RemoveVersions(t, p) ==
    /\ Removing(t, p, "removeVersions")
    /\ versionDocs' = [versionDocs EXCEPT ![p] = EmptyListing]
    /\ GoTo(t, p, "removeTranslation", {})
    /\ UNCHANGED <<upstream, projectDocs, fileDocs, translations, taskVars,
                   overlapped, faults>>

RemoveTranslation(t, p) ==
    /\ Removing(t, p, "removeTranslation")
    /\ translations' = [translations EXCEPT ![p] = 0]
    /\ GoTo(t, p, "removeProject", {})
    /\ UNCHANGED <<upstream, projectDocs, versionDocs, fileDocs, taskVars,
                   overlapped, faults>>

RemoveProject(t, p) ==
    /\ Removing(t, p, "removeProject")
    /\ projectDocs' = [projectDocs EXCEPT ![p] = NoDoc]
    /\ EndJob(t, p)
    /\ UNCHANGED <<upstream, versionDocs, fileDocs, translations, taskVars,
                   overlapped, faults>>

\* The first request fails: the id ends up in report.failed.
FetchFails(t, p) ==
    /\ faults < MaxFaults
    /\ phase[t] = "sync" /\ p \in targets[t]
    /\ targets' = [targets EXCEPT ![t] = @ \ {p}]
    /\ faults' = faults + 1
    /\ UNCHANGED <<upstream, store, phase, remaining, batch, job, overlapped>>

\* A request or a write fails: the job stops where it is, its task goes on.
JobFails(t, p) ==
    /\ faults < MaxFaults
    /\ job[t][p].step \in SyncSteps \/ (job[t][p].step \in RemovalSteps /\ phase[t] = "remove")
    /\ EndJob(t, p)
    /\ faults' = faults + 1
    /\ UNCHANGED <<upstream, store, taskVars, overlapped>>

JobStep(t, p) ==
    \/ FetchProject(t, p) \/ ProjectNotFound(t, p)
    \/ FetchVersions(t, p) \/ VersionsNotFound(t, p)
    \/ UpsertFile(t, p) \/ FilesWritten(t, p)
    \/ UpsertVersion(t, p) \/ VersionsWritten(t, p)
    \/ DropVersions(t, p) \/ DropFiles(t, p)
    \/ ReadTranslation(t, p) \/ WriteTranslation(t, p) \/ WriteProject(t, p)
    \/ RemoveFiles(t, p) \/ RemoveVersions(t, p)
    \/ RemoveTranslation(t, p) \/ RemoveProject(t, p)

-----------------------------------------------------------------------------
(* Tasks *)

\* sync_projects on ids resolved from a queue, found by a search, or read from
\* the collection by refresh_full.
Submit(t) ==
    /\ t \in Syncers /\ phase[t] = "idle"
    /\ \E ids \in SUBSET Projects \ {{}} :
         targets' = [targets EXCEPT ![t] = ids]
    /\ phase' = [phase EXCEPT ![t] = "sync"]
    /\ UNCHANGED <<upstream, store, remaining, batch, job, overlapped, faults>>

OpenCursor(t) ==
    /\ t \in Refreshers /\ phase[t] = "idle"
    /\ phase' = [phase EXCEPT ![t] = "scan"]
    /\ remaining' = [remaining EXCEPT ![t] = Present]
    /\ UNCHANGED <<upstream, store, batch, targets, job, overlapped, faults>>

\* The cursor delivers documents as they are now; those deleted meanwhile are missed.
ReadBatch(t) ==
    /\ phase[t] = "scan"
    /\ \E ids \in SUBSET remaining[t] \ {{}} :
         /\ Cardinality(ids) <= ChunkSize
         /\ remaining' = [remaining EXCEPT ![t] = @ \ ids]
         /\ batch' = [batch EXCEPT ![t] =
              [p \in Projects |-> IF p \in ids THEN projectDocs[p] ELSE NoDoc]]
    /\ phase' = [phase EXCEPT ![t] = "compare"]
    /\ UNCHANGED <<upstream, store, targets, job, overlapped, faults>>

InBatch(t) == {p \in Projects : batch[t][p].updated # 0}

\* Mutant: recording the check replaces documents by what the batch read.
CompareBatchReplaces(t) ==
    /\ phase[t] = "compare"
    /\ projectDocs' = [p \in Projects |-> IF p \in InBatch(t) THEN batch[t][p]
                                                            ELSE projectDocs[p]]
    /\ phase' = [phase EXCEPT ![t] = "scan"]
    /\ batch' = [batch EXCEPT ![t] = [p \in Projects |-> NoDoc]]
    /\ UNCHANGED <<upstream, versionDocs, fileDocs, translations, remaining, targets,
                   job, overlapped, faults>>

\* get_projects answers for the whole batch: what is missing is dead, what
\* differs from the stamps read before is to be synced.
CompareBatch(t) ==
    /\ phase[t] = "compare"
    /\ LET dead  == {p \in InBatch(t) : ~ upstream[p].visible}
           stale == {p \in InBatch(t) \ dead : Outdated(batch[t][p], Answer(p))}
       IN  /\ Launch(t, dead, "removeFiles")
           /\ targets' = [targets EXCEPT ![t] = @ \cup stale]
    /\ phase' = [phase EXCEPT ![t] = "scan"]
    /\ batch' = [batch EXCEPT ![t] = [p \in Projects |-> NoDoc]]
    /\ UNCHANGED <<upstream, store, remaining, faults>>

\* Mutant: a batch without an answer is taken for dead.
BatchFailsAsDead(t) ==
    /\ faults < MaxFaults
    /\ phase[t] = "compare"
    /\ Launch(t, InBatch(t), "removeFiles")
    /\ phase' = [phase EXCEPT ![t] = "scan"]
    /\ batch' = [batch EXCEPT ![t] = [p \in Projects |-> NoDoc]]
    /\ faults' = faults + 1
    /\ UNCHANGED <<upstream, store, remaining, targets>>

\* The request for the batch fails: unprocessed, and none of it is dead.
BatchFails(t) ==
    /\ faults < MaxFaults
    /\ phase[t] = "compare"
    /\ phase' = [phase EXCEPT ![t] = "scan"]
    /\ batch' = [batch EXCEPT ![t] = [p \in Projects |-> NoDoc]]
    /\ faults' = faults + 1
    /\ UNCHANGED <<upstream, store, remaining, targets, job, overlapped>>

ScanDone(t) ==
    /\ phase[t] = "scan" /\ remaining[t] = {}
    /\ phase' = [phase EXCEPT ![t] = "remove"]
    /\ UNCHANGED <<upstream, store, remaining, batch, targets, job, overlapped, faults>>

RemovalDone(t) ==
    /\ phase[t] = "remove" /\ Idle(t)
    /\ phase' = [phase EXCEPT ![t] = "sync"]
    /\ UNCHANGED <<upstream, store, remaining, batch, targets, job, overlapped, faults>>

\* Mutant: a finished run leaves its task in a state of its own.
FinishForGood(t) ==
    /\ phase[t] = "sync" /\ targets[t] = {} /\ Idle(t)
    /\ phase' = [phase EXCEPT ![t] = "finished"]
    /\ UNCHANGED <<upstream, store, remaining, batch, targets, job, overlapped, faults>>

Finish(t) ==
    /\ phase[t] = "sync" /\ targets[t] = {} /\ Idle(t)
    /\ phase' = [phase EXCEPT ![t] = "idle"]
    /\ UNCHANGED <<upstream, store, remaining, batch, targets, job, overlapped, faults>>

\* The cursor fails, the task panics or is aborted, the process dies: what the
\* task held in memory is gone, what it wrote stays.
Crash(t) ==
    /\ faults < MaxFaults
    /\ phase[t] # "idle"
    /\ phase' = [phase EXCEPT ![t] = "idle"]
    /\ remaining' = [remaining EXCEPT ![t] = {}]
    /\ batch' = [batch EXCEPT ![t] = [p \in Projects |-> NoDoc]]
    /\ targets' = [targets EXCEPT ![t] = {}]
    /\ job' = [job EXCEPT ![t] = [p \in Projects |-> NoJob]]
    /\ faults' = faults + 1
    /\ UNCHANGED <<upstream, store, overlapped>>

\* A step of a task that goes well.
TaskStep(t) ==
    \/ OpenCursor(t) \/ ReadBatch(t) \/ CompareBatch(t) \/ ScanDone(t)
    \/ RemovalDone(t) \/ Finish(t)
    \/ \E p \in Projects : JobStep(t, p)

TaskFault(t) ==
    \/ BatchFails(t) \/ Crash(t)
    \/ \E p \in Projects : FetchFails(t, p) \/ JobFails(t, p)

-----------------------------------------------------------------------------
(* Specification *)

Init ==
    /\ upstream \in [Projects -> {[visible |-> TRUE, updated |-> 1, description |-> 1,
                                   listing |-> l] : l \in [Versions -> {0, 1}]}]
    /\ projectDocs = [p \in Projects |-> NoDoc]
    /\ versionDocs = [p \in Projects |-> EmptyListing]
    /\ fileDocs = [p \in Projects |-> [v \in Versions |-> {}]]
    /\ translations = [p \in Projects |-> 0]
    /\ phase = [t \in Tasks |-> "idle"]
    /\ remaining = [t \in Tasks |-> {}]
    /\ batch = [t \in Tasks |-> [p \in Projects |-> NoDoc]]
    /\ targets = [t \in Tasks |-> {}]
    /\ job = [t \in Tasks |-> [p \in Projects |-> NoJob]]
    /\ overlapped = [p \in Projects |-> FALSE]
    /\ faults = 0

Next ==
    \/ UpstreamNext
    \/ \E t \in Tasks : Submit(t) \/ TaskStep(t) \/ TaskFault(t)

Spec == Init /\ [][Next]_vars

\* The daemon schedules refresh again and again and polls every task it has
\* spawned; nothing makes upstream edit, users ask, or a request fail.
FairSpec == Spec /\ \A t \in Tasks : WF_vars(TaskStep(t))

-----------------------------------------------------------------------------
(* Properties *)

TypeOK ==
    /\ upstream \in [Projects -> Upstream]
    /\ projectDocs \in [Projects -> Stamp]
    /\ versionDocs \in [Projects -> Listing]
    /\ fileDocs \in [Projects -> [Versions -> SUBSET Nat]]
    /\ translations \in [Projects -> Nat]
    /\ phase \in [Tasks -> Phases]
    /\ remaining \in [Tasks -> SUBSET Projects]
    /\ batch \in [Tasks -> [Projects -> Stamp]]
    /\ targets \in [Tasks -> SUBSET Projects]
    /\ job \in [Tasks -> [Projects -> Jobs]]
    /\ overlapped \in [Projects -> BOOLEAN]
    /\ faults \in Nat

\* The document refresh would find nothing to do about.
Current(p) ==
    p \in Present /\ upstream[p].visible /\ ~ Outdated(projectDocs[p], Answer(p))

\* Versions, files and translation record are those upstream lists.
Mirrored(p) ==
    /\ versionDocs[p] = upstream[p].listing
    /\ \A v \in Versions : IF upstream[p].listing[v] = 0
                           THEN fileDocs[p][v] = {}
                           ELSE upstream[p].listing[v] \in fileDocs[p][v]
    /\ translations[p] = upstream[p].description

\* A project document that compares as up to date vouches for the other three
\* collections, whatever failed or crashed on the way: that is what writing it
\* last is for (sync_project), since refresh will not look at the project again.
CurrentMeansMirrored ==
    \A p \in Projects : Current(p) /\ ~ overlapped[p] => Mirrored(p)

\* The same without regard to overlapping jobs, once none is left in flight.
\* Two tasks of the daemon may sync one project at once, and it does not hold:
\* the one with the older listing writes it over the newer, the other writes
\* the newer project document last, and refresh finds nothing to repair.
CurrentAlwaysMirrored ==
    \A p \in Projects :
        Current(p) /\ (\A t \in Tasks : job[t][p].step = "none") =>
            versionDocs[p] = upstream[p].listing

\* sync_project_versions "clears what has disappeared": no file is left that
\* upstream does not list.  The filter of the second delete_many names only
\* the version, so the old file of an edited version stays.
NoFileLeftBehind ==
    \A p \in Projects : Current(p) /\ ~ overlapped[p] =>
        \A v \in Versions : fileDocs[p][v] \subseteq {upstream[p].listing[v]}

\* Absent jobs that overlap, a project document never goes back to an older
\* upstream state: a sync that fetched early does not write late.
StampsAdvance ==
    [][\A p \in Projects :
          /\ p \in Present /\ projectDocs'[p] # NoDoc
          /\ ~ overlapped[p] /\ ~ overlapped'[p]
          => projectDocs[p].updated <= projectDocs'[p].updated]_vars

\* What task t was told of p when it took up its job there, hidden then, still
\* holds, or p has been listed anew since.
DeadOnce(t, p) ==
    ~ upstream[p].visible \/ job[t][p].project.updated < upstream[p].updated

\* refresh deletes documents after its last batch, on the word of answers that
\* are old by then: whatever overlaps it and whatever fails, a document goes
\* only if an answer was without the project, which is hidden to this day or
\* has come back since.  A request that failed is no such answer.
RemovesOnlyTheDead ==
    [][\A p \in Projects :
          p \in Present /\ projectDocs'[p] = NoDoc =>
             \E t \in Tasks : job[t][p].step = "removeProject" /\ DeadOnce(t, p)]_vars

\* refresh deletes "projects that have disappeared upstream", so never one that
\* is listed and up to date in the mirror.  It does not hold: nothing looks
\* again before the deletion, and a project that came back and that another
\* task has synced since the comparison is deleted all the same.
KeepsCurrent ==
    [][\A p \in Projects : Current(p) => projectDocs'[p] # NoDoc]_vars

\* remove_project takes the document last, when no version, file or translation
\* of the project is left for nobody to find again.
RemovalLeavesNothing ==
    [][\A p \in Projects :
          p \in Present /\ projectDocs'[p] = NoDoc /\ ~ overlapped[p] =>
             /\ versionDocs'[p] = EmptyListing
             /\ fileDocs'[p] = [v \in Versions |-> {}]
             /\ translations'[p] = 0]_vars

\* Once upstream stays quiet and requests succeed, the rounds of refresh bring
\* every cached project to what upstream shows, and delete the dead ones.
Settled(p) ==
    p \in Present => upstream[p].visible /\ Mirrored(p)

Converges == <>[](\A p \in Projects : overlapped[p] \/ Settled(p))

-----------------------------------------------------------------------------
(* The inductive invariant behind those properties *)

\* No snapshot is ahead of upstream, and one with the same `updated` can only
\* have missed withdrawals: upstream never returns to a state it has left.
NotAhead(p, s) ==
    /\ s.updated <= upstream[p].updated
    /\ s.updated = upstream[p].updated =>
         /\ Listed(upstream[p].listing) \subseteq s.versions
         /\ s.description = upstream[p].description

FilesIn(p, S) == \A v \in S : upstream[p].listing[v] \in fileDocs[p][v]
VersionsIn(p, S) == \A v \in S : versionDocs[p][v] = upstream[p].listing[v]
OnlyListedFiles(p) ==
    \A v \in Versions \ Listed(upstream[p].listing) : fileDocs[p][v] = {}

\* What a sync whose first answer is still current has achieved by each step.
Progress(p, j) ==
    LET live == Listed(upstream[p].listing)
    IN  /\ j.step # "list" => j.versions = upstream[p].listing
        /\ j.step = "files" => j.todo \subseteq live /\ FilesIn(p, live \ j.todo)
        /\ j.step \notin {"list", "files"} => FilesIn(p, live)
        /\ j.step = "versions" => VersionsIn(p, live \ j.todo)
        /\ j.step \notin {"list", "files", "versions"} => VersionsIn(p, live)
        /\ j.step \notin {"list", "files", "versions", "dropVersions"} =>
              versionDocs[p] = upstream[p].listing
        /\ j.step \in {"readTranslation", "writeTranslation", "project"} =>
              OnlyListedFiles(p)
        /\ j.step = "project" => translations[p] = upstream[p].description

\* A sync that has met no other job.
SyncInv(p, j) ==
    /\ projectDocs[p].updated <= j.project.updated
    /\ p \in Present /\ ~ Outdated(projectDocs[p], Answer(p)) =>
          ~ Outdated(j.project, Answer(p))
    /\ ~ Outdated(j.project, Answer(p)) => Progress(p, j)

\* A removal that has met no other job.
RemovalInv(p, j) ==
    /\ ~ Current(p)
    /\ j.step # "removeFiles" => fileDocs[p] = [v \in Versions |-> {}]
    /\ j.step \in {"removeTranslation", "removeProject"} => versionDocs[p] = EmptyListing
    /\ j.step = "removeProject" => translations[p] = 0

JobInv(t, p) ==
    /\ NotAhead(p, job[t][p].project)
    /\ job[t][p].step # "none" => job[t][p].alone \/ overlapped[p]
    /\ job[t][p].alone =>
         /\ Alone(t, p)
         /\ job[t][p].step \in SyncSteps => SyncInv(p, job[t][p])
         /\ job[t][p].step \in RemovalSteps => RemovalInv(p, job[t][p])

DocInv(p) ==
    /\ upstream[p].updated > 0
    /\ NotAhead(p, projectDocs[p])
    /\ Current(p) /\ ~ overlapped[p] => Mirrored(p)

ProjectInv(p) == DocInv(p) /\ \A t \in Tasks : JobInv(t, p)

IInv == \A p \in Projects : ProjectInv(p)

=============================================================================
