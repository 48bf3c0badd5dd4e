------------------------------- MODULE Search -------------------------------
(***************************************************************************)
(* The search tasks: pages of the newest projects (or mods) are fetched    *)
(* and their unknown ids synced, until a page shows a known one; with      *)
(* --full until there are no more pages.  While a run turns the pages,     *)
(* projects are published and withdrawn, and other tasks sync projects     *)
(* somebody asked for.                                                     *)
(*                                                                         *)
(* Projects are numbers, a newer one a greater one; the sync of a project  *)
(* is one step.  Modrinth has one list.  CurseForge has one per class or   *)
(* category, all treated alike, of which one is modelled; it shows no more *)
(* of a list than SearchLimit mods, so --full reads it in both orders.     *)
(***************************************************************************)
EXTENDS Naturals, FiniteSets

CONSTANTS
    Sources,        \* the upstream services searched
    PageSize,       \* MODRINTH_SEARCH_PAGE_SIZE, CURSEFORGE_SEARCH_PAGE_SIZE
    SearchLimit,    \* CURSEFORGE_SEARCH_LIMIT
    OthersAsk,      \* do other tasks sync projects that search has not found?
    Disturbed,      \* do projects disappear, and runs fail or end early?
    MaxProjects,    \* bound on projects
    MaxFaults       \* bound on failures

Projects == 1 .. MaxProjects

ASSUME SearchAssumption ==
    /\ Sources \subseteq {"curseforge", "modrinth"}
    /\ PageSize \in Nat \ {0} /\ SearchLimit \in Nat
    /\ MaxProjects \in Nat /\ MaxFaults \in Nat
    /\ OthersAsk \in BOOLEAN /\ Disturbed \in BOOLEAN

VARIABLES
    source,     \* which service this is
    newest,     \* the last project published
    listed,     \* projects upstream lists
    known,      \* projects in the database
    queue,      \* projects put back for the queue task
    run,        \* the search under way
    steady,     \* history: a frontier that is only reached from above
    faults      \* failures so far

vars == <<source, newest, listed, known, queue, run, steady, faults>>

-----------------------------------------------------------------------------
(* The run *)

\* hits: the page; met: did it show a known id; fresh: ids to sync; bad: ids that
\* failed.  History: of a full run, seen, what was listed when it began, and calm,
\* nothing has upset the order of things since; of any other, shown, all that was on
\* the pages so far, and twice, was anything on two of them?
Runs == [stage : {"idle", "fetch", "sync", "turn"}, full : BOOLEAN, limit : Nat,
         ascending : BOOLEAN, offset : Nat, pages : Nat, hits : SUBSET Projects, met : BOOLEAN,
         fresh : SUBSET Projects, bad : SUBSET Projects,
         seen : SUBSET Projects, calm : BOOLEAN, shown : SUBSET Projects, twice : BOOLEAN]
NoRun == [stage |-> "idle", full |-> FALSE, limit |-> 0,
          ascending |-> FALSE, offset |-> 0, pages |-> 0, hits |-> {}, met |-> FALSE, fresh |-> {}, bad |-> {},
          seen |-> {}, calm |-> FALSE, shown |-> {}, twice |-> FALSE]

Running == run.stage # "idle"

\* Something happens after which gaps are to be expected.
Upset(r) == run' = [r EXCEPT !.calm = FALSE, !.seen = {}] /\ steady' = FALSE

-----------------------------------------------------------------------------
(* The world *)

Publish ==
    /\ newest < MaxProjects
    /\ newest' = newest + 1
    /\ listed' = listed \cup {newest + 1}
    /\ UNCHANGED <<source, known, queue, run, steady, faults>>

Withdraw ==
    /\ Disturbed
    /\ \E p \in listed : listed' = listed \ {p}
    /\ Upset(run)
    /\ UNCHANGED <<source, newest, known, queue, faults>>

\* A project somebody asked the web API for.
Ask ==
    /\ OthersAsk
    /\ \E p \in listed \ known : known' = known \cup {p}
    /\ Upset(run)
    /\ UNCHANGED <<source, newest, listed, queue, faults>>

\* The queue task syncs what was put back.
Serve ==
    /\ \E p \in queue : /\ queue' = queue \ {p}
                        /\ known' = known \cup ({p} \cap listed)
    /\ UNCHANGED <<source, newest, listed, run, steady, faults>>

-----------------------------------------------------------------------------
(* search *)

Begin ==
    /\ ~ Running
    /\ \E full \in BOOLEAN, limit \in {0, 1} :
         /\ limit = 0 \/ Disturbed
         /\ run' = [NoRun EXCEPT !.stage = "fetch", !.full = full, !.limit = limit,
                                 !.calm = full /\ limit = 0,
                                 !.seen = IF full THEN listed ELSE {}]
    /\ UNCHANGED <<source, newest, listed, known, queue, steady, faults>>

\* The page asked for: release dates descending, or ascending.
Rank(p) == Cardinality({q \in listed : IF run.ascending THEN q < p ELSE q > p})
Hits == {p \in listed : run.offset <= Rank(p) /\ Rank(p) < run.offset + PageSize}

Reachable(offset) == source = "curseforge" => offset + PageSize <= SearchLimit

\* Can the two orders together show all there is?
Within == source = "curseforge" =>
    Cardinality(listed) <= 2 * PageSize * (SearchLimit \div PageSize)

\* The end of the list, or of what is read of it: a full CurseForge run takes the
\* other order next.  A full run leaves no gap; another one leaves one, perhaps, if
\* it has not come to a frontier.
ListDone(frontier) ==
    IF run.full /\ source = "curseforge" /\ ~ run.ascending
    THEN /\ run' = [NoRun EXCEPT !.stage = "fetch", !.full = TRUE, !.limit = run.limit,
                                 !.ascending = TRUE, !.seen = run.seen, !.calm = run.calm]
         /\ steady' = steady
    ELSE /\ run' = NoRun
         /\ steady' = IF run.full THEN run.calm /\ Within ELSE steady /\ frontier

\* index + CURSEFORGE_SEARCH_PAGE_SIZE > CURSEFORGE_SEARCH_LIMIT
PastReach ==
    /\ run.stage = "fetch" /\ ~ Reachable(run.offset)
    /\ ListDone(FALSE)
    /\ UNCHANGED <<source, newest, listed, known, queue, faults>>

LimitReached == run.limit > 0 /\ run.pages >= run.limit

\* --max-pages
ReachLimit ==
    /\ run.stage = "fetch" /\ Reachable(run.offset) /\ LimitReached
    /\ ListDone(FALSE)
    /\ UNCHANGED <<source, newest, listed, known, queue, faults>>

NoMorePages ==
    /\ run.stage = "fetch" /\ Reachable(run.offset) /\ ~ LimitReached
    /\ Hits = {}
    /\ ListDone(TRUE)
    /\ UNCHANGED <<source, newest, listed, known, queue, faults>>

Existing(S) == S \cap known

\* One page, and existing_ids.
FetchPage ==
    /\ run.stage = "fetch" /\ Reachable(run.offset) /\ ~ LimitReached
    /\ Hits # {}
    /\ run' = [run EXCEPT !.stage = "sync", !.hits = Hits,
                          !.met = Existing(Hits) # {}, !.fresh = Hits \ Existing(Hits),
                          !.shown = IF run.full THEN {} ELSE @ \cup Hits,
                          !.twice = @ \/ Hits \cap run.shown # {}]
    /\ UNCHANGED <<source, newest, listed, known, queue, steady, faults>>

\* sync_projects: each is synced, or found to be gone...
Sync ==
    /\ run.stage = "sync"
    /\ \E p \in run.fresh : /\ known' = known \cup ({p} \cap listed)
                            /\ run' = [run EXCEPT !.fresh = @ \ {p}]
    /\ UNCHANGED <<source, newest, listed, queue, steady, faults>>

\* ... or fails, and is put back for the queue task.
SyncFails ==
    /\ run.stage = "sync" /\ faults < MaxFaults
    /\ \E p \in run.fresh :
         run' = [run EXCEPT !.fresh = @ \ {p}, !.bad = @ \cup {p}]
    /\ faults' = faults + 1
    /\ UNCHANGED <<source, newest, listed, known, queue, steady>>

\* Mutant: one list of failed ids for all pages.
RequeueKeepsBad ==
    /\ run.stage = "sync" /\ run.fresh = {}
    /\ queue' = queue \cup run.bad
    /\ run' = [run EXCEPT !.stage = "turn"]
    /\ UNCHANGED <<source, newest, listed, known, steady, faults>>

\* Mutant: what failed is not put back.
RequeueForgotten ==
    /\ run.stage = "sync" /\ run.fresh = {}
    /\ run' = [run EXCEPT !.stage = "turn", !.bad = {}]
    /\ UNCHANGED <<source, newest, listed, known, queue, steady, faults>>

Requeue ==
    /\ run.stage = "sync" /\ run.fresh = {}
    /\ queue' = queue \cup run.bad
    /\ run' = [run EXCEPT !.stage = "turn", !.bad = {}]
    /\ UNCHANGED <<source, newest, listed, known, steady, faults>>

LastPage == Cardinality(run.hits) < PageSize

\* Mutant: a full run stops at what is known, too.
StopsAlways == run.met
StopsAt == run.met /\ ~ run.full

\* A page that is not full is the last, and so is one with a known id.
Stop ==
    /\ run.stage = "turn" /\ (LastPage \/ StopsAt)
    /\ ListDone(LastPage \/ ~ run.twice)
    /\ UNCHANGED <<source, newest, listed, known, queue, faults>>

Turn ==
    /\ run.stage = "turn" /\ ~ LastPage /\ ~ StopsAt
    /\ run' = [run EXCEPT !.stage = "fetch", !.offset = @ + PageSize, !.pages = @ + 1]
    /\ UNCHANGED <<source, newest, listed, known, queue, steady, faults>>

\* A request, a query or the SADD fails, or the process dies.
Abort ==
    /\ Disturbed /\ Running /\ faults < MaxFaults
    /\ run' = NoRun /\ steady' = FALSE
    /\ faults' = faults + 1
    /\ UNCHANGED <<source, newest, listed, known, queue>>

Next ==
    \/ Publish \/ Withdraw \/ Ask \/ Serve
    \/ Begin \/ PastReach \/ ReachLimit \/ NoMorePages \/ FetchPage \/ Sync \/ SyncFails \/ Requeue
    \/ Stop \/ Turn \/ Abort

-----------------------------------------------------------------------------
(* Specification *)

\* The cold start: some projects are listed, none is known.
Init ==
    /\ source \in Sources
    /\ newest \in Projects \cup {0}
    /\ listed = 1 .. newest
    /\ known = {} /\ queue = {}
    /\ run = NoRun
    /\ steady = TRUE
    /\ faults = 0

Spec == Init /\ [][Next]_vars

-----------------------------------------------------------------------------
(* Properties *)

TypeOK ==
    /\ source \in Sources /\ newest \in Nat
    /\ listed \subseteq 1 .. newest /\ known \subseteq 1 .. newest /\ queue \subseteq 1 .. newest
    /\ run \in Runs
    /\ run.fresh \cup run.bad \subseteq run.hits
    /\ steady \in BOOLEAN /\ faults \in Nat

Missed == listed \ (known \cup queue)

NoGap == \A p \in Missed : \A q \in known : p > q

\* Between runs, what search has not found is newer than all that is known, so
\* that the next run meets it before it stops.  That holds as long as projects
\* become known by search alone, none is withdrawn, no run ends early, and none
\* stops at a project it has synced itself, because the pages moved; a full run
\* makes up for all of that.
NothingMissed == steady /\ ~ Running => NoGap

\* A full run during which nothing is withdrawn ends with everything found that
\* was listed when it began, whatever was missing before, as long as both orders
\* together reach it all.
FullFindsAll ==
    [][run.full /\ run.calm /\ run'.stage = "idle" /\ faults' = faults /\ Within
       => run.seen \subseteq known \cup queue]_vars

\* README: search "keeps turning pages until no new entries appear".  One project
\* published between two pages moves the others on by one: the next page shows one
\* the run has just synced, the run takes that for the frontier and stops, and the
\* new ones behind it are left to a run with --full.
NoGapEver == ~ Running => NoGap

-----------------------------------------------------------------------------
(* The inductive invariant behind the safety properties *)

Handled == known \cup queue \cup run.fresh \cup run.bad
Unseen  == listed \ Handled
Gapless == \A p \in Unseen : \A q \in Handled : p > q

\* The positions of the list that have been on a page.
Fetched == run.stage \in {"sync", "turn"}
Turned  == IF Fetched THEN run.offset + PageSize ELSE run.offset

\* What CurseForge shows of a list, in each of the orders.
Reach    == PageSize * (SearchLimit \div PageSize)
Newer(p) == Cardinality({q \in listed : q > p})

RunInv ==
    /\ newest <= MaxProjects /\ run.hits \subseteq 1 .. newest
    /\ ~ Running => ~ run.full
    /\ run.stage # "sync" => run.fresh = {} /\ run.bad = {}
    /\ run.ascending => run.full /\ source = "curseforge"
    /\ run.calm => run.full /\ run.limit = 0 /\ run.seen \subseteq listed
    /\ ~ run.full => run.hits \subseteq run.shown
    /\ run.offset = PageSize * run.pages
    /\ source = "curseforge" => Turned <= SearchLimit

\* Publishing moves projects on to later pages, never back: what the pages turned
\* have not shown is newer than all they have.
DescendingInv ==
    /\ \A p \in Unseen : Rank(p) < Turned => \A q \in Handled : p > q
    /\ Fetched /\ LastPage => Gapless

\* A known project that is not of the run's own making is the frontier.
FrontierInv ==
    /\ \A p \in Unseen : \A q \in (known \cup queue) \ run.shown : p > q
    /\ Fetched /\ run.met /\ ~ run.twice => Gapless

FullInv ==
    /\ \A p \in run.seen :
          p \in Handled \/ Newer(p) >= (IF run.ascending THEN Reach ELSE Turned)
    /\ Fetched /\ LastPage => run.seen \subseteq Handled

\* In ascending order publishing moves nothing, but lengthens the list.
AscendingInv ==
    /\ \A p \in Unseen : Newer(p) < Reach => \A q \in Handled : p > q
    /\ IF Fetched /\ LastPage
       THEN Gapless
       ELSE Turned <= Cardinality(listed) /\ \A p \in Unseen : Turned <= Rank(p)

\* Why a run that nothing has upset ends without a gap (search, of either service).
OrderInv ==
    /\ ~ Running /\ steady => Gapless
    /\ Running /\ ~ run.full /\ steady => DescendingInv /\ FrontierInv
    /\ run.full /\ run.calm =>
          FullInv /\ IF run.ascending THEN AscendingInv ELSE DescendingInv

IInv == RunInv /\ OrderInv

=============================================================================
