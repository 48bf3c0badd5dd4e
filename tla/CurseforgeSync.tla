--------------------------- MODULE CurseforgeSync ---------------------------
(***************************************************************************)
(* The mirror of one CurseForge mod: sync_mod copies the mod, its files    *)
(* and its translation record, refresh compares dateModified, and the      *)
(* queue task stores files that upstream does not list.  The file list is  *)
(* fetched in one request, or page by page if that answer is incomplete,   *)
(* while authors go on publishing and withdrawing files.                   *)
(*                                                                         *)
(* Mods do not interact, so there is one.  dateModified is a counter, and  *)
(* second says in which second each value falls, for that is all that      *)
(* refresh compares.  A file is a number, a newer file a greater one; the  *)
(* list shows the newest first.  A file does not change, only its          *)
(* availability does.  Upstream is assumed to move dateModified with every *)
(* change of the list.                                                     *)
(***************************************************************************)
EXTENDS Integers, FiniteSets

CONSTANTS
    Tasks,          \* tasks that refresh the mod, or sync it on request
    PageSize,       \* CURSEFORGE_FILES_FALLBACK_PAGE_SIZE
    EmptyPages,     \* may upstream send a page with nothing before the end?
    MaxFiles,       \* bound on files
    MaxModified,    \* bound on upstream edits
    MaxFaults       \* bound on failures

Files == 1 .. MaxFiles

ASSUME CurseforgeAssumption ==
    /\ PageSize \in Nat \ {0} /\ MaxFiles \in Nat \ {0}
    /\ MaxModified \in Nat \ {0} /\ MaxFaults \in Nat
    /\ EmptyPages \in BOOLEAN

VARIABLES
    second,         \* the second of each dateModified, fixed from the start
    upstream,       \* what the CurseForge API would answer
    modDoc,         \* dateModified in curseforge_mods, 0 without a document
    fileDocs,       \* collection curseforge_files: isAvailable of each file
    translation,    \* curseforge_translated: the text it was made from
    job,            \* what each task is doing
    overlapped,     \* history: the last completed sync did not run alone
    faults          \* failures so far

store == <<modDoc, fileDocs, translation>>
vars  == <<second, upstream, store, job, overlapped, faults>>

-----------------------------------------------------------------------------
(* Upstream *)

Upstream == [visible : BOOLEAN, modified : Nat, summary : Nat,
             listed : SUBSET Files, hidden : SUBSET Files]

Edited(listed, hidden, summary) ==
    /\ upstream.visible /\ upstream.modified < MaxModified
    /\ upstream' = [visible |-> TRUE, modified |-> upstream.modified + 1,
                    summary |-> summary, listed |-> listed, hidden |-> hidden]
    /\ UNCHANGED <<second, store, job, overlapped, faults>>

Publish ==
    \E f \in Files :
        /\ \A g \in Files : (g < f) <=> (g \in upstream.listed \cup upstream.hidden)
        /\ Edited(upstream.listed \cup {f}, upstream.hidden, upstream.summary)

\* A file leaves the list, yet can still be fetched by its id.
HideFile ==
    \E f \in upstream.listed :
        Edited(upstream.listed \ {f}, upstream.hidden \cup {f}, upstream.summary)

EditSummary == Edited(upstream.listed, upstream.hidden, upstream.modified + 1)

HideMod ==
    /\ upstream.visible
    /\ upstream' = [upstream EXCEPT !.visible = FALSE]
    /\ UNCHANGED <<second, store, job, overlapped, faults>>

UpstreamNext == Publish \/ HideFile \/ EditSummary \/ HideMod

-----------------------------------------------------------------------------
(* Jobs *)

\* Timestamps are compared by the second.
SameSecond(a, b) == second[a] = second[b]

Steps == {"idle", "compare", "start", "list", "page", "files", "drop",
          "readTranslation", "writeTranslation", "mod"}

\* A job in "compare" has modified as it read it from the database, later it is
\* the one of the answer.  got: the files of the answers, todo: those of them not
\* yet written, index: where the next page begins, before the end of the list.
\* History: asOf, the dateModified when the job began, alone, no other met so far.
Jobs == [step : Steps, asOf : Nat, modified : Nat, summary : Nat, got : SUBSET Files,
         todo : SUBSET Files, index : 0 .. MaxFiles - 1, alone : BOOLEAN]
NoJob == [step |-> "idle", asOf |-> 0, modified |-> 0, summary |-> 0, got |-> {}, todo |-> {},
          index |-> 0, alone |-> FALSE]

Set(t, j)   == job' = [job EXCEPT ![t] = j]
GoTo(t, s)  == Set(t, [job[t] EXCEPT !.step = s])
InSync(t)   == job[t].step \notin {"idle", "compare", "start"}
AloneNow(t) == \A o \in Tasks \ {t} : ~ InSync(o)

\* chunked_all reads the stamp of the document...
Refresh(t) ==
    /\ job[t].step = "idle" /\ modDoc # 0
    /\ Set(t, [NoJob EXCEPT !.step = "compare", !.asOf = upstream.modified, !.modified = modDoc])
    /\ UNCHANGED <<second, upstream, store, overlapped, faults>>

\* ... and get_mods answers later.  A mod that is missing is left alone.
Compare(t) ==
    /\ job[t].step = "compare"
    /\ IF upstream.visible /\ ~ SameSecond(job[t].modified, upstream.modified)
       THEN Set(t, [NoJob EXCEPT !.step = "start", !.asOf = job[t].asOf])
       ELSE Set(t, NoJob)
    /\ UNCHANGED <<second, upstream, store, overlapped, faults>>

\* The queue or a search asks for the mod.
Request(t) ==
    /\ job[t].step = "idle"
    /\ Set(t, [NoJob EXCEPT !.step = "start", !.asOf = upstream.modified])
    /\ UNCHANGED <<second, upstream, store, overlapped, faults>>

\* sync_mod, first request.
GetMod(t) ==
    /\ job[t].step = "start" /\ upstream.visible
    /\ job' = [o \in Tasks |->
          IF o = t THEN [job[t] EXCEPT !.step = "list", !.modified = upstream.modified,
                                       !.summary = upstream.summary, !.alone = AloneNow(t)]
          ELSE [job[o] EXCEPT !.alone = FALSE]]
    /\ overlapped' = (overlapped \/ ~ AloneNow(t))
    /\ UNCHANGED <<second, upstream, store, faults>>

\* 404 on any request, or a game that is not kept: the job ends, and is no failure.
NotFound(t) ==
    /\ job[t].step \in {"start", "list", "page"} /\ ~ upstream.visible
    /\ Set(t, NoJob)
    /\ UNCHANGED <<second, upstream, store, overlapped, faults>>

Written(t, files) ==
    Set(t, [job[t] EXCEPT !.step = "files", !.got = files, !.todo = files])

\* fetch_all_files: one answer with everything, or one that says there is more.
GetFiles(t) ==
    /\ job[t].step = "list" /\ upstream.visible
    /\ \/ Written(t, upstream.listed)
       \/ GoTo(t, "page")
    /\ UNCHANGED <<second, upstream, store, overlapped, faults>>

\* The files of the list between two positions.
Rank(f) == Cardinality({g \in upstream.listed : g > f})
Between(from, to) == {f \in upstream.listed : from <= Rank(f) /\ Rank(f) < to}

\* Mutant: a page that is not full is taken for the last one.
GetPageFullOnly(t) ==
    LET from  == job[t].index
        total == Cardinality(upstream.listed)
    IN  /\ job[t].step = "page" /\ upstream.visible
        /\ \E returned \in 0 .. PageSize :
             /\ from + returned <= total \/ returned = 0
             /\ returned = 0 => EmptyPages \/ from >= total
             /\ LET got == job[t].got \cup Between(from, from + returned)
                IN  IF returned < PageSize \/ from + returned >= total
                    THEN Written(t, got)
                    ELSE Set(t, [job[t] EXCEPT !.got = got, !.index = from + returned])
        /\ UNCHANGED <<second, upstream, store, overlapped, faults>>

\* Mutant: one more page is asked for.
GetPageBeyondEnd(t) ==
    LET from  == job[t].index
        total == Cardinality(upstream.listed)
    IN  /\ job[t].step = "page" /\ upstream.visible
        /\ \E returned \in 0 .. PageSize :
             /\ from + returned <= total \/ returned = 0
             /\ returned = 0 => EmptyPages \/ from >= total
             /\ LET got == job[t].got \cup Between(from, from + returned)
                IN  IF returned = 0 \/ from + returned > total
                    THEN Written(t, got)
                    ELSE Set(t, [job[t] EXCEPT !.got = got, !.index = from + returned])
        /\ UNCHANGED <<second, upstream, store, overlapped, faults>>

\* A page has PageSize files or less; the next one begins after what was
\* returned, and the total is that of the last answer.
GetPage(t) ==
    LET from  == job[t].index
        total == Cardinality(upstream.listed)
    IN  /\ job[t].step = "page" /\ upstream.visible
        /\ \E returned \in 0 .. PageSize :
             /\ from + returned <= total \/ returned = 0
             /\ returned = 0 => EmptyPages \/ from >= total
             /\ LET got == job[t].got \cup Between(from, from + returned)
                IN  IF returned = 0 \/ from + returned >= total
                    THEN Written(t, got)
                    ELSE Set(t, [job[t] EXCEPT !.got = got, !.index = from + returned])
        /\ UNCHANGED <<second, upstream, store, overlapped, faults>>

UpsertFile(t) ==
    /\ job[t].step = "files"
    /\ \E f \in job[t].todo :
         /\ fileDocs' = [fileDocs EXCEPT ![f] = "available"]
         /\ Set(t, [job[t] EXCEPT !.todo = @ \ {f}])
    /\ UNCHANGED <<second, upstream, modDoc, translation, overlapped, faults>>

FilesWritten(t) ==
    /\ job[t].step = "files" /\ job[t].todo = {}
    /\ GoTo(t, "drop")
    /\ UNCHANGED <<second, upstream, store, overlapped, faults>>

\* Mutant: whatever is not in the list is deleted.
DropAll(t) ==
    /\ job[t].step = "drop"
    /\ fileDocs' = [f \in Files |-> IF f \in job[t].got THEN fileDocs[f] ELSE "none"]
    /\ GoTo(t, "readTranslation")
    /\ UNCHANGED <<second, upstream, modDoc, translation, overlapped, faults>>

\* Only what claims to be available is deleted when the list lacks it.
Drop(t) ==
    /\ job[t].step = "drop"
    /\ fileDocs' = [f \in Files |->
          IF f \notin job[t].got /\ fileDocs[f] = "available" THEN "none" ELSE fileDocs[f]]
    /\ GoTo(t, "readTranslation")
    /\ UNCHANGED <<second, upstream, modDoc, translation, overlapped, faults>>

ReadTranslation(t) ==
    /\ job[t].step = "readTranslation"
    /\ GoTo(t, IF translation = job[t].summary THEN "mod" ELSE "writeTranslation")
    /\ UNCHANGED <<second, upstream, store, overlapped, faults>>

WriteTranslation(t) ==
    /\ job[t].step = "writeTranslation"
    /\ translation' = job[t].summary
    /\ GoTo(t, "mod")
    /\ UNCHANGED <<second, upstream, modDoc, fileDocs, overlapped, faults>>

\* Mutant: a document that is there is not replaced.
WriteModOnce(t) ==
    /\ job[t].step = "mod"
    /\ modDoc' = IF modDoc = 0 THEN job[t].modified ELSE modDoc
    /\ overlapped' = (overlapped /\ ~ job[t].alone)
    /\ Set(t, NoJob)
    /\ UNCHANGED <<second, upstream, fileDocs, translation, faults>>

\* Mutant: the document gets the dateModified upstream has by now.
WriteModAsOfNow(t) ==
    /\ job[t].step = "mod"
    /\ modDoc' = upstream.modified
    /\ overlapped' = (overlapped /\ ~ job[t].alone)
    /\ Set(t, NoJob)
    /\ UNCHANGED <<second, upstream, fileDocs, translation, faults>>

WriteMod(t) ==
    /\ job[t].step = "mod"
    /\ modDoc' = job[t].modified
    /\ overlapped' = (overlapped /\ ~ job[t].alone)
    /\ Set(t, NoJob)
    /\ UNCHANGED <<second, upstream, fileDocs, translation, faults>>

\* resolve_file_ids stores a file that upstream does not list.
StoreHidden ==
    /\ upstream.visible
    /\ \E f \in upstream.hidden : fileDocs' = [fileDocs EXCEPT ![f] = "hidden"]
    /\ UNCHANGED <<second, upstream, modDoc, translation, job, overlapped, faults>>

\* A request or a write fails, or the task dies.
Fails(t) ==
    /\ job[t].step # "idle" /\ faults < MaxFaults
    /\ Set(t, NoJob)
    /\ faults' = faults + 1
    /\ UNCHANGED <<second, upstream, store, overlapped>>

Work(t) ==
    \/ Refresh(t) \/ Compare(t) \/ GetMod(t) \/ NotFound(t) \/ GetFiles(t) \/ GetPage(t)
    \/ UpsertFile(t) \/ FilesWritten(t) \/ Drop(t)
    \/ ReadTranslation(t) \/ WriteTranslation(t) \/ WriteMod(t)

-----------------------------------------------------------------------------
(* Specification *)

Init ==
    /\ second \in {s \in [1 .. MaxModified -> 1 .. MaxModified] :
                     s[1] = 1 /\ \A i \in 2 .. MaxModified : s[i] - s[i - 1] \in {0, 1}}
    /\ upstream \in [visible : {TRUE}, modified : {1}, summary : {1},
                    listed : {1 .. n : n \in 0 .. MaxFiles}, hidden : {{}}]
    /\ modDoc = 0
    /\ fileDocs = [f \in Files |-> "none"]
    /\ translation = 0
    /\ job = [t \in Tasks |-> NoJob]
    /\ overlapped = FALSE
    /\ faults = 0

Next ==
    \/ UpstreamNext \/ StoreHidden
    \/ \E t \in Tasks : Request(t) \/ Work(t) \/ Fails(t)

Spec == Init /\ [][Next]_vars

\* The daemon refreshes again and again; nothing makes anybody ask for a mod.
FairSpec == Spec /\ \A t \in Tasks : WF_vars(Work(t))

-----------------------------------------------------------------------------
(* Properties *)

TypeOK ==
    /\ upstream \in Upstream
    /\ modDoc \in Nat /\ translation \in Nat
    /\ fileDocs \in [Files -> {"none", "available", "hidden"}]
    /\ job \in [Tasks -> Jobs]
    /\ \A t \in Tasks : job[t].todo \subseteq job[t].got
    /\ overlapped \in BOOLEAN /\ faults \in Nat

FilesMirrored == \A f \in Files : (fileDocs[f] = "available") <=> (f \in upstream.listed)
Mirrored == FilesMirrored /\ translation = upstream.summary

\* A mod document with the dateModified of upstream vouches for files and
\* translation, whatever failed, and however the list moved under the pages:
\* refresh will skip the mod (sync_mod writes the mod last).
CurrentMeansMirrored ==
    upstream.visible /\ modDoc = upstream.modified /\ ~ overlapped => Mirrored

\* A file stored because upstream hides it outlives every sync, though no list
\* will ever contain it.  The exception is a sync that got its list when the file
\* was still on it: it makes an ordinary document of it, for the next to delete.
HiddenSurvives ==
    [][\A f \in Files :
          fileDocs[f] = "hidden" /\ (\A t \in Tasks : f \notin job[t].got)
          => fileDocs'[f] = "hidden"]_vars

\* An edit in the very second of the one the document has: refresh takes the
\* document for current, and nothing is claimed of it.
Blurred == modDoc # upstream.modified /\ SameSecond(modDoc, upstream.modified)

\* Once upstream stays quiet and requests succeed, refresh repairs what failed
\* syncs and moving pages have left.
Converges ==
    <>[](upstream.visible /\ modDoc # 0 /\ ~ overlapped /\ ~ Blurred => Mirrored)

\* A task that ends without an error leaves the mod as upstream had it when the
\* task began, or newer, to the second; and if upstream did not change under it,
\* files and translation are those of upstream too.  That is what the exit code
\* 0 stands for, be it that refresh found nothing to do (refresh) or that the mod
\* was synced (sync_mods).
CleanMeansCurrent ==
    [][\A t \in Tasks :
          /\ job[t].step # "idle" /\ job'[t].step = "idle" /\ faults' = faults
          /\ upstream.visible /\ ~ overlapped /\ ~ overlapped'
          => /\ second[modDoc'] >= second[job[t].asOf]
             /\ job[t].asOf = upstream.modified /\ ~ Blurred' => Mirrored']_vars

-----------------------------------------------------------------------------
(* The inductive invariant behind the safety properties *)

SecondsPass ==
    /\ second \in [1 .. MaxModified -> 1 .. MaxModified]
    /\ \A i \in 2 .. MaxModified : second[i] - second[i - 1] \in {0, 1}

\* What a sync whose first answer is still current has achieved by each step.
Progress(j) ==
    /\ j.summary = upstream.summary
    /\ j.step = "page" => j.got = Between(0, j.index)
    /\ j.step \notin {"list", "page"} => j.got = upstream.listed
    /\ j.step = "files" => \A f \in upstream.listed \ j.todo : fileDocs[f] = "available"
    /\ j.step = "drop" => \A f \in upstream.listed : fileDocs[f] = "available"
    /\ j.step \in {"readTranslation", "writeTranslation", "mod"} => FilesMirrored
    /\ j.step = "mod" => translation = upstream.summary

\* A sync that has met no other is ahead of the document and of all that was
\* read from it.
AloneInv(t, j) ==
    /\ InSync(t) /\ AloneNow(t)
    /\ modDoc <= j.modified
    /\ \A o \in Tasks : job[o].step = "compare" => job[o].modified <= j.modified
    /\ ~ EmptyPages /\ j.modified = upstream.modified => Progress(j)

JobInv(t, j) ==
    /\ j.modified <= upstream.modified
    /\ j.step # "idle" => 1 <= j.asOf /\ j.asOf <= upstream.modified
    /\ InSync(t) => j.asOf <= j.modified /\ (j.alone \/ overlapped)
    /\ j.step \in {"idle", "compare", "start", "list"} => j.got = {} /\ j.index = 0
    /\ j.step = "compare" => 1 <= j.modified /\ (overlapped \/ j.modified <= modDoc)
    /\ j.alone => AloneInv(t, j)

DocInv ==
    /\ 1 <= upstream.modified /\ upstream.modified <= MaxModified
    /\ upstream.listed \cap upstream.hidden = {}
    /\ modDoc <= upstream.modified
    /\ ~ EmptyPages => CurrentMeansMirrored

\* Why no step disturbs what the document vouches for (sync_mod, fetch_all_files,
\* refresh).
IInv == SecondsPass /\ DocInv /\ \A t \in Tasks : JobInv(t, job[t])

=============================================================================
