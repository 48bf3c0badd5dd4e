------------------------------- MODULE Daemon -------------------------------
(***************************************************************************)
(* The daemon and the history of task runs.  A loop dispatches every job   *)
(* whose cron time has come to a tokio task of its own; a slot per job     *)
(* keeps a job from overlapping itself; a signal stops the loop, and the   *)
(* tasks still running have a grace period before they are aborted.  Every *)
(* task, and every task run from the command line by a process of its own, *)
(* has a record in MongoDB, which a starting daemon tidies up.             *)
(*                                                                         *)
(* What a task does is not modelled here, only how it ends.  A run is      *)
(* named <<job, n>>, its record stays in `records` under that name.        *)
(***************************************************************************)
EXTENDS Integers, FiniteSets, FiniteSetsExt

CONSTANTS
    Jobs,           \* the keys of `schedule`
    OneOffs,        \* tasks run from the command line, each its own process
    Cron,           \* the times each job's cron expression names
    Unrecorded,     \* jobs whose command has no record (`indexes`)
    MaxNow,         \* bound on the clock
    MaxRuns,        \* bound on the runs of each job
    MaxCrashes,     \* bound on the ends of a process that nobody asked for
    MaxFaults       \* bound on panics and failing writes to MongoDB

Never == MaxNow + 1     \* MAX_UTC

ASSUME DaemonAssumption ==
    /\ Jobs \cap OneOffs = {}
    /\ MaxNow \in Nat /\ MaxRuns \in Nat /\ MaxCrashes \in Nat /\ MaxFaults \in Nat
    /\ Cron \in [Jobs -> SUBSET (1 .. MaxNow)]
    /\ Unrecorded \subseteq Jobs

VARIABLES
    now,        \* the clock
    mode,       \* of the daemon's process
    next,       \* Job::next
    slot,       \* Job::slot, is it taken?
    failures,   \* Job::failures
    gauge,      \* the metric task_running
    tasks,      \* the runs under way, those of the command line included
    records,    \* the collection task_runs
    started,    \* how often each job was started
    lastStart,  \* history: when a job was last started, 0 at first
    crashes, faults

vars == <<now, mode, next, slot, failures, gauge, tasks, records, started, lastStart,
          crashes, faults>>
memory == <<next, slot, failures, gauge>>

Modes == {"down", "booting", "up", "stopping"}

\* A task is spawned, begins, works once its record is inserted, and at the end
\* of its work brings the record up to date.
Stages   == {"spawned", "insert", "work", "update", "end"}
Results  == {"success", "partial_failure", "error"}
Statuses == Results \cup {"none", "running", "interrupted"}

Names == (Jobs \cup OneOffs) \X (1 .. MaxRuns)
Tasks == [name : Names, stage : Stages, result : Results]

Job(task) == task.name[1]
Of(j) == {task \in tasks : Job(task) = j}
DaemonTasks == {task \in tasks : Job(task) \in Jobs}

Spawned(j) == [name |-> <<j, started[j] + 1>>, stage |-> "spawned", result |-> "error"]

At(task, s) == [task EXCEPT !.stage = s]
Moves(task, s) == tasks' = (tasks \ {task}) \cup {At(task, s)}

Recorded(task) == Job(task) \notin Unrecorded

-----------------------------------------------------------------------------
(* The clock and the schedule *)

NextAfter(j, t) ==
    LET later == {u \in Cron[j] : u > t}
    IN  IF later = {} THEN Never ELSE Min(later)

\* Mutant: one shift after the other, those missed included.
NextShiftBackfilled(j) == NextAfter(j, next[j])
\* Mutant: a fixed pause in place of the cron expression.
NextShiftByPause(j) == now + 2

\* The shifts that were missed are skipped.
NextShift(j) == NextAfter(j, now)

Tick ==
    /\ now < MaxNow
    /\ now' = now + 1
    /\ UNCHANGED <<mode, memory, tasks, records, started, lastStart, crashes, faults>>

-----------------------------------------------------------------------------
(* Starting and stopping the daemon *)

\* build: a schedule that names a job with no time to come is an error.
Boot ==
    /\ mode = "down"
    /\ Jobs # {} /\ \A j \in Jobs : NextAfter(j, now) # Never
    /\ mode' = "booting"
    /\ next' = [j \in Jobs |-> NextAfter(j, now)]
    /\ slot' = [j \in Jobs |-> FALSE]
    /\ failures' = [j \in Jobs |-> 0]
    /\ gauge' = [j \in Jobs |-> FALSE]
    /\ UNCHANGED <<now, tasks, records, started, lastStart, crashes, faults>>

\* Mutant: whatever is in the collection is marked.
MarkAll == [n \in Names |-> IF records[n] = "none" THEN "none" ELSE "interrupted"]
\* Mutant: nothing is marked.
MarkNone == records

Marked == [n \in Names |-> IF records[n] = "running" THEN "interrupted" ELSE records[n]]

\* mark_running_task_runs_interrupted; the loop is entered even if it fails.
MarkInterrupted ==
    /\ mode = "booting"
    /\ mode' = "up"
    /\ \/ records' = Marked /\ UNCHANGED faults
       \/ faults < MaxFaults /\ faults' = faults + 1 /\ UNCHANGED records
    /\ UNCHANGED <<now, memory, tasks, started, lastStart, crashes>>

\* SIGTERM or SIGINT ends the loop.
Stop ==
    /\ mode = "up"
    /\ mode' = "stopping"
    /\ UNCHANGED <<now, memory, tasks, records, started, lastStart, crashes, faults>>

AllJoined ==
    /\ mode = "stopping" /\ DaemonTasks = {}
    /\ mode' = "down"
    /\ UNCHANGED <<now, memory, tasks, records, started, lastStart, crashes, faults>>

\* Mutant: shutdown waits for the tasks as long as they take.
GraceNeverOver ==
    /\ mode = "stopping" /\ DaemonTasks = {}
    /\ mode' = "down"
    /\ UNCHANGED <<now, memory, tasks, records, started, lastStart, crashes, faults>>

\* The grace period is over, and running.shutdown() aborts what is left.
GraceOver ==
    /\ mode = "stopping" /\ DaemonTasks # {}
    /\ mode' = "down"
    /\ tasks' = tasks \ DaemonTasks
    /\ slot' = [j \in Jobs |-> FALSE]
    /\ UNCHANGED <<now, next, failures, gauge, records, started, lastStart, crashes, faults>>

\* The daemon's process dies.
Crash ==
    /\ mode # "down" /\ crashes < MaxCrashes
    /\ mode' = "down"
    /\ tasks' = tasks \ DaemonTasks
    /\ slot' = [j \in Jobs |-> FALSE]
    /\ crashes' = crashes + 1
    /\ UNCHANGED <<now, next, failures, gauge, records, started, lastStart, faults>>

-----------------------------------------------------------------------------
(* spawn_due *)

Due  == {j \in Jobs : next[j] <= now}

\* Mutant: the claim is dropped where it was made, not when the task ends.
SlotsKeptBriefly(S) == slot

\* claim, for every job of S
SlotsClaimed(S) == [j \in Jobs |-> slot[j] \/ j \in S]

\* Mutant: a job whose last run goes on is left as it is, its time included.
DispatchClaimsFirst ==
    LET free == {j \in Due : ~ slot[j]}
    IN  /\ mode = "up" /\ Due # {}
        /\ \A j \in free : started[j] < MaxRuns
        /\ next' = [j \in Jobs |-> IF j \in free THEN NextShift(j) ELSE next[j]]
        /\ slot' = SlotsClaimed(free)
        /\ tasks' = tasks \cup {Spawned(j) : j \in free}
        /\ started' = [j \in DOMAIN started |-> started[j] + IF j \in free THEN 1 ELSE 0]
        /\ lastStart' = [j \in Jobs |-> IF j \in free THEN now ELSE lastStart[j]]
        /\ UNCHANGED <<now, mode, failures, gauge, records, crashes, faults>>

\* Every job that is due gets its next time and, unless its slot is taken, is
\* started.  Nothing in the loop waits for anything.
Dispatch ==
    LET free == {j \in Due : ~ slot[j]}
    IN  /\ mode = "up" /\ Due # {}
        /\ \A j \in free : started[j] < MaxRuns
        /\ next' = [j \in Jobs |-> IF j \in Due THEN NextShift(j) ELSE next[j]]
        /\ slot' = SlotsClaimed(free)
        /\ tasks' = tasks \cup {Spawned(j) : j \in free}
        /\ started' = [j \in DOMAIN started |-> started[j] + IF j \in free THEN 1 ELSE 0]
        /\ lastStart' = [j \in Jobs |-> IF j \in free THEN now ELSE lastStart[j]]
        /\ UNCHANGED <<now, mode, failures, gauge, records, crashes, faults>>

-----------------------------------------------------------------------------
(* A run: the future that spawn_due spawns, with execute_with_history *)

\* main::run: a process of its own, which has neither slot nor metrics.
RunOnce(o) ==
    /\ Of(o) = {} /\ started[o] < MaxRuns
    /\ tasks' = tasks \cup {Spawned(o)}
    /\ started' = [started EXCEPT ![o] = @ + 1]
    /\ UNCHANGED <<now, mode, memory, records, lastStart, crashes, faults>>

\* The task is polled for the first time.
Begin(task) ==
    /\ task.stage = "spawned"
    /\ gauge' = [j \in Jobs |-> gauge[j] \/ j = Job(task)]
    /\ Moves(task, IF Recorded(task) THEN "insert" ELSE "work")
    /\ UNCHANGED <<now, mode, next, slot, failures, records, started, lastStart, crashes, faults>>

\* insert_task_run; a failure is only logged.
Insert(task) ==
    /\ task.stage = "insert"
    /\ Moves(task, "work")
    /\ \/ records' = [records EXCEPT ![task.name] = "running"] /\ UNCHANGED faults
       \/ faults < MaxFaults /\ faults' = faults + 1 /\ UNCHANGED records
    /\ UNCHANGED <<now, mode, memory, started, lastStart, crashes>>

\* execute returns.
Work(task) ==
    /\ task.stage = "work"
    /\ \E r \in Results :
         tasks' = (tasks \ {task})
            \cup {[name |-> task.name, result |-> r,
                   stage |-> IF Recorded(task) THEN "update" ELSE "end"]}
    /\ UNCHANGED <<now, mode, memory, records, started, lastStart, crashes, faults>>

\* update_task_run replaces the record if there is one, whatever it says by now.
Update(task) ==
    /\ task.stage = "update"
    /\ Moves(task, "end")
    /\ \/ /\ records' = [records EXCEPT ![task.name] =
                            IF @ = "none" THEN "none" ELSE task.result]
          /\ UNCHANGED faults
       \/ faults < MaxFaults /\ faults' = faults + 1 /\ UNCHANGED records
    /\ UNCHANGED <<now, mode, memory, started, lastStart, crashes>>

\* Mutant: the slot is freed by the last statement of the task, not by Drop.
PanicKeepsSlot(task) ==
    /\ task.stage = "work" /\ faults < MaxFaults
    /\ tasks' = tasks \ {task}
    /\ faults' = faults + 1
    /\ UNCHANGED <<now, mode, memory, records, started, lastStart, crashes>>

\* The task panics.  Its claim is dropped; the lines after execute are not run.
Panic(task) ==
    /\ task.stage = "work" /\ faults < MaxFaults
    /\ tasks' = tasks \ {task}
    /\ slot' = [j \in Jobs |-> slot[j] /\ j # Job(task)]
    /\ faults' = faults + 1
    /\ UNCHANGED <<now, mode, next, failures, gauge, records, started, lastStart, crashes>>

\* The metrics, and the claim's Drop.
End(task) ==
    /\ task.stage = "end"
    /\ tasks' = tasks \ {task}
    /\ failures' = [j \in Jobs |-> IF j # Job(task) THEN failures[j]
                                   ELSE IF task.result = "error" THEN failures[j] + 1
                                   ELSE 0]
    /\ gauge' = [j \in Jobs |-> gauge[j] /\ j # Job(task)]
    /\ slot' = [j \in Jobs |-> slot[j] /\ j # Job(task)]
    /\ UNCHANGED <<now, mode, next, records, started, lastStart, crashes, faults>>

\* The process of a task run from the command line is killed.
Kill(task) ==
    /\ Job(task) \in OneOffs /\ crashes < MaxCrashes
    /\ tasks' = tasks \ {task}
    /\ crashes' = crashes + 1
    /\ UNCHANGED <<now, mode, memory, records, started, lastStart, faults>>

TaskStep(task) ==
    \/ Begin(task) \/ Insert(task) \/ Work(task) \/ Update(task) \/ End(task)
    \/ Panic(task) \/ Kill(task)

-----------------------------------------------------------------------------
(* Specification *)

Init ==
    /\ now = 0
    /\ mode = "down"
    /\ next = [j \in Jobs |-> Never]
    /\ slot = [j \in Jobs |-> FALSE]
    /\ failures = [j \in Jobs |-> 0]
    /\ gauge = [j \in Jobs |-> FALSE]
    /\ tasks = {}
    /\ records = [n \in Names |-> "none"]
    /\ started = [j \in Jobs \cup OneOffs |-> 0]
    /\ lastStart = [j \in Jobs |-> 0]
    /\ crashes = 0
    /\ faults = 0

Next ==
    \/ Tick
    \/ Boot \/ MarkInterrupted \/ Dispatch \/ Stop \/ AllJoined \/ GraceOver \/ Crash
    \/ \E o \in OneOffs : RunOnce(o)
    \/ \E task \in tasks : TaskStep(task)

Spec == Init /\ [][Next]_vars

\* The loop is woken when a job is due, and by nothing else for at most MAX_SLEEP;
\* shutdown has a timeout.  That a task makes progress is not assumed: it may
\* hang in a request for as long as it likes.
FairSpec == Spec /\ WF_vars(Dispatch) /\ WF_vars(AllJoined) /\ WF_vars(GraceOver)

-----------------------------------------------------------------------------
(* Properties *)

\* The types; a job's time is one its cron expression names.
TypeOK ==
    /\ now \in 0 .. MaxNow
    /\ mode \in Modes
    /\ next \in [Jobs -> Nat] /\ \A j \in Jobs : next[j] \in Cron[j] \cup {Never}
    /\ slot \in [Jobs -> BOOLEAN]
    /\ failures \in [Jobs -> Nat]
    /\ gauge \in [Jobs -> BOOLEAN]
    /\ tasks \subseteq Tasks
    /\ records \in [Names -> Statuses]
    /\ started \in [Jobs \cup OneOffs -> 0 .. MaxRuns]
    /\ lastStart \in [Jobs -> 0 .. MaxNow]
    /\ crashes \in Nat /\ faults \in Nat

\* "A job does not overlap itself": at any time at most one run of a job is
\* under way (claim in spawn_due).
NoSelfOverlap == \A j \in Jobs : \A s, t \in Of(j) : s = t

\* A slot is taken exactly as long as a run of its job is under way, whether it
\* returns, panics or is aborted: a leaked claim would keep the job from ever
\* being started again.  task_running agrees as long as nothing panics: it is set
\* to 0 by the last statement of the task, which a panic skips.
SlotMeansRunning ==
    \A j \in Jobs :
        /\ slot[j] <=> Of(j) # {}
        /\ (\E task \in Of(j) : task.stage # "spawned") => gauge[j]
        /\ mode = "up" /\ faults = 0 /\ gauge[j] => Of(j) # {}

\* Between two starts of a job there is a time its cron names: no shift is run
\* twice, and none that was missed is made up for, restarts included.
OncePerShift ==
    [][\A j \in Jobs : started'[j] # started[j] =>
        \E u \in Cron[j] : lastStart[j] < u /\ u <= now]_vars

\* A result that has been recorded stays, though restarting daemons rewrite
\* records and runs of other processes finish at any time.
ResultsStay ==
    [][\A n \in Names : records[n] \in Results => records'[n] = records[n]]_vars

\* Unless a task panicked or MongoDB refused a write, a record that says
\* "running" while the daemon is up belongs to a run under way, or to a process
\* of its own.
RunningIsLive ==
    mode = "up" /\ faults = 0 =>
        \A n \in Jobs \X (1 .. MaxRuns) :
            records[n] = "running" => \E task \in tasks : task.name = n

\* A job that is due gets another time, though its last run may hang forever.
DueIsDispatched ==
    \A j \in Jobs : mode = "up" /\ next[j] <= now ~> mode # "up" \/ next[j] > now

\* A daemon that was asked to stop does, though its tasks may hang.
StopIsObeyed == mode = "stopping" ~> mode = "down"

-----------------------------------------------------------------------------
(* The inductive invariant behind the safety properties *)

\* What the collection says of a run, by the stage the run is at.
RecordInv(task) ==
    /\ task.name[2] <= started[Job(task)]
    /\ task.stage \in {"spawned", "insert"} \/ ~ Recorded(task) => records[task.name] = "none"
    /\ ~ Recorded(task) => task.stage \notin {"insert", "update"}
    /\ task.stage \in {"work", "update"} => records[task.name] \notin Results
    /\ faults = 0 /\ task.stage = "end" => records[task.name] # "running"

\* No two runs have a job in common, so none a record.
NoTwins == \A s, t \in tasks : Job(s) = Job(t) => s = t

\* A process that is not there has no runs, nor has one that has just started.
DownIsEmpty ==
    /\ mode \in {"down", "booting"} => DaemonTasks = {}
    /\ mode = "booting" => \A j \in Jobs : ~ gauge[j]

\* The names of the runs to come are not in use.
Numbered == \A n \in Names : records[n] # "none" => n[2] <= started[n[1]]

\* The time a job waits for is later than its last start.
ShiftsAhead == \A j \in Jobs : lastStart[j] <= now /\ lastStart[j] < next[j]

\* Why no step disturbs slots, shifts and history (spawn_due, Claim, runner).
IInv ==
    /\ NoTwins
    /\ SlotMeansRunning
    /\ DownIsEmpty
    /\ Numbered
    /\ \A task \in tasks : RecordInv(task)
    /\ RunningIsLive
    /\ ShiftsAhead

=============================================================================
