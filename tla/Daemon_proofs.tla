---------------------------- MODULE Daemon_proofs ----------------------------
(***************************************************************************)
(* Proofs about Daemon, for any jobs and cron expressions and any number   *)
(* of runs, panics, failing writes and crashes: its types, its inductive   *)
(* invariant, and from it that no job overlaps itself, that no slot leaks, *)
(* that no shift runs twice and that the history stays true.               *)
(***************************************************************************)
EXTENDS Daemon, WellFoundedInduction, TLAPS

-----------------------------------------------------------------------------
(* Times *)

\* Among some times there is a first.
LEMMA FirstTime ==
  ASSUME NEW S \in SUBSET Nat, S # {}
  PROVE  Min(S) \in S /\ \A y \in S : Min(S) <= y
<1>1. IsWellFoundedOn({p \in Nat \X Nat : p[1] < p[2]}, Nat)
  BY NatLessThanWellFounded DEF OpToRel
<1>2. PICK x \in S : \A y \in S : <<y, x>> \notin {p \in Nat \X Nat : p[1] < p[2]}
  BY <1>1, WFMin
<1>3. ASSUME NEW y \in S PROVE x <= y
  <2>1. <<y, x>> \in Nat \X Nat /\ y \in Nat /\ x \in Nat
    OBVIOUS
  <2>2. <<y, x>>[1] = y /\ <<y, x>>[2] = x
    OBVIOUS
  <2>3. <<y, x>> \notin {p \in Nat \X Nat : p[1] < p[2]}
    BY <1>2
  <2>4. ~(<<y, x>>[1] < <<y, x>>[2])
    BY <2>1, <2>3
  <2>5. ~(y < x)
    BY <2>2, <2>4
  <2> QED
    BY <2>1, <2>5
<1> QED
  BY <1>3 DEF Min

\* The next time of a job is to come, and its cron expression names it.
LEMMA NextAfterIsLater ==
  ASSUME NEW j \in Jobs, NEW t \in 0 .. MaxNow
  PROVE  /\ NextAfter(j, t) \in Nat
         /\ NextAfter(j, t) \in Cron[j] \cup {Never}
         /\ t < NextAfter(j, t)
<1> DEFINE later == {u \in Cron[j] : u > t}
<1>1. later \in SUBSET Nat /\ later \in SUBSET Cron[j]
  BY DaemonAssumption
<1>2. Never \in Nat /\ t < Never
  BY DaemonAssumption DEF Never
<1>3. CASE later = {}
  BY <1>2, <1>3 DEF NextAfter
<1>4. CASE later # {}
  <2>1. Min(later) \in later
    BY <1>1, <1>4, FirstTime
  <2>2. NextAfter(j, t) = Min(later)
    BY <1>4 DEF NextAfter
  <2> QED
    BY <1>1, <2>1, <2>2
<1> QED
  BY <1>3, <1>4

-----------------------------------------------------------------------------
(* Runs *)

\* A run that moves on keeps its name and its result.
LEMMA AtKeeps ==
  ASSUME NEW task \in Tasks, NEW s \in Stages
  PROVE  /\ At(task, s) \in Tasks
         /\ At(task, s).name = task.name /\ Job(At(task, s)) = Job(task)
         /\ At(task, s).stage = s /\ At(task, s).result = task.result
BY DEF At, Tasks, Job

\* A job that may start another run gets a new name.
LEMMA SpawnedIsNew ==
  ASSUME TypeOK, NEW j \in Jobs \cup OneOffs, started[j] < MaxRuns
  PROVE  /\ Spawned(j) \in Tasks /\ Job(Spawned(j)) = j
         /\ Spawned(j).name = <<j, started[j] + 1>> /\ Spawned(j).name \in Names
         /\ Spawned(j).stage = "spawned"
<1>1. started[j] + 1 \in 1 .. MaxRuns
  BY DaemonAssumption DEF TypeOK
<1>2. <<j, started[j] + 1>> \in Names
  BY <1>1 DEF Names
<1> QED
  BY <1>2 DEF Spawned, Tasks, Job, Stages, Results

LEMMA TaskTypes ==
  ASSUME NEW task \in Tasks
  PROVE  /\ task.name \in Names /\ Job(task) \in Jobs \cup OneOffs
         /\ task.stage \in Stages /\ task.result \in Results
         /\ task.name[2] \in 1 .. MaxRuns /\ task.name = <<Job(task), task.name[2]>>
BY DEF Tasks, Names, Job

\* What one step of a run does to the runs: it is gone, or it has moved on.
LEMMA StepOfTask ==
  ASSUME TypeOK, NEW task \in tasks, TaskStep(task)
  PROVE  \/ tasks' = tasks \ {task}
         \/ \E u \in Tasks : u.name = task.name /\ tasks' = (tasks \ {task}) \cup {u}
<1>1. task \in Tasks
  BY DEF TypeOK
<1>2. CASE Begin(task)
  BY <1>1, <1>2, AtKeeps DEF Begin, Moves, Stages
<1>3. CASE Insert(task)
  BY <1>1, <1>3, AtKeeps DEF Insert, Moves, Stages
<1>4. CASE Work(task)
  <2> PICK r \in Results :
        tasks' = (tasks \ {task})
            \cup {[name |-> task.name, result |-> r,
                   stage |-> IF Recorded(task) THEN "update" ELSE "end"]}
    BY <1>4 DEF Work
  <2> DEFINE u == [name |-> task.name, result |-> r,
                   stage |-> IF Recorded(task) THEN "update" ELSE "end"]
  <2>1. u \in Tasks /\ u.name = task.name
    BY <1>1 DEF Tasks, Stages
  <2> QED
    BY <2>1
<1>5. CASE Update(task)
  BY <1>1, <1>5, AtKeeps DEF Update, Moves, Stages
<1> QED
  BY <1>2, <1>3, <1>4, <1>5 DEF TaskStep, End, Panic, Kill

-----------------------------------------------------------------------------
(* Types *)

\* A step of a run leaves well-typed runs behind.
LEMMA TasksTyped ==
  ASSUME TypeOK, NEW task \in tasks, TaskStep(task)
  PROVE  tasks' \subseteq Tasks
BY StepOfTask DEF TypeOK

\* Whatever the daemon dispatches, or a user starts, is well typed and within the
\* bounds.
LEMMA DispatchTyped ==
  ASSUME TypeOK, Dispatch
  PROVE  TypeOK'
<1> DEFINE free == {j \in Due : ~ slot[j]}
<1>1. /\ \A j \in free : started[j] < MaxRuns
      /\ next' = [j \in Jobs |-> IF j \in Due THEN NextShift(j) ELSE next[j]]
      /\ slot' = SlotsClaimed(free)
      /\ tasks' = tasks \cup {Spawned(j) : j \in free}
      /\ started' = [j \in DOMAIN started |-> started[j] + IF j \in free THEN 1 ELSE 0]
      /\ lastStart' = [j \in Jobs |-> IF j \in free THEN now ELSE lastStart[j]]
      /\ UNCHANGED <<now, mode, failures, gauge, records, crashes, faults>>
  BY DEF Dispatch
<1>2. free \subseteq Jobs
  BY DEF Due
<1>3. \A j \in Jobs : NextShift(j) \in Nat /\ NextShift(j) \in Cron[j] \cup {Never}
  BY NextAfterIsLater DEF NextShift, TypeOK
<1>4. next' \in [Jobs -> Nat] /\ \A j \in Jobs : next'[j] \in Cron[j] \cup {Never}
  BY <1>1, <1>3 DEF TypeOK
<1>5. tasks' \subseteq Tasks
  BY <1>1, <1>2, SpawnedIsNew DEF TypeOK
<1>6. started' \in [Jobs \cup OneOffs -> 0 .. MaxRuns]
  <2>1. DOMAIN started = Jobs \cup OneOffs
    BY DEF TypeOK
  <2>2. ASSUME NEW j \in Jobs \cup OneOffs
        PROVE  started[j] + (IF j \in free THEN 1 ELSE 0) \in 0 .. MaxRuns
    BY <1>1, DaemonAssumption DEF TypeOK
  <2> QED
    BY <1>1, <2>1, <2>2
<1>7. slot' \in [Jobs -> BOOLEAN]
  BY <1>1 DEF SlotsClaimed
<1>8. lastStart' \in [Jobs -> 0 .. MaxNow]
  BY <1>1 DEF TypeOK
<1> QED
  BY <1>1, <1>4, <1>5, <1>6, <1>7, <1>8 DEF TypeOK

LEMMA StepTyped ==
  ASSUME TypeOK, NEW task \in tasks, TaskStep(task)
  PROVE  TypeOK'
<1>1. tasks' \subseteq Tasks /\ task \in Tasks
  BY TasksTyped DEF TypeOK
<1>2. /\ UNCHANGED <<now, mode, next, started, lastStart>>
      /\ crashes' \in {crashes, crashes + 1} /\ faults' \in {faults, faults + 1}
  BY DEF TaskStep, Begin, Insert, Work, Update, End, Panic, Kill, memory
<1>3. slot' \in [Jobs -> BOOLEAN] /\ gauge' \in [Jobs -> BOOLEAN]
  BY DEF TypeOK, TaskStep, Begin, Insert, Work, Update, End, Panic, Kill, memory
<1>4. failures' \in [Jobs -> Nat]
  <2>1. CASE End(task)
    BY <2>1 DEF End, TypeOK
  <2> QED
    BY <2>1 DEF TypeOK, TaskStep, Begin, Insert, Work, Update, Panic, Kill, memory
<1>5. records' \in [Names -> Statuses]
  <2>1. task.name \in Names /\ task.result \in Results
    BY <1>1, TaskTypes
  <2>2. CASE Insert(task)
    BY <2>1, <2>2 DEF Insert, TypeOK, Statuses
  <2>3. CASE Update(task)
    BY <2>1, <2>3 DEF Update, TypeOK, Statuses
  <2> QED
    BY <2>2, <2>3 DEF TypeOK, TaskStep, Begin, Work, End, Panic, Kill
<1> QED
  BY <1>1, <1>2, <1>3, <1>4, <1>5 DEF TypeOK

\* The types; a job's time is one that its cron expression names, or none.
THEOREM TypeCorrect == Spec => []TypeOK
<1>1. Init => TypeOK
  BY DaemonAssumption DEF Init, TypeOK, Never, Modes, Statuses
<1>2. TypeOK /\ [Next]_vars => TypeOK'
  <2> SUFFICES ASSUME TypeOK, [Next]_vars PROVE TypeOK'
    OBVIOUS
  <2>1. CASE UNCHANGED vars
    BY <2>1 DEF vars, TypeOK
  <2>2. CASE Tick
    BY <2>2, DaemonAssumption DEF Tick, memory, TypeOK
  <2>3. CASE Boot
    <3>1. \A j \in Jobs : NextAfter(j, now) \in Nat /\ NextAfter(j, now) \in Cron[j] \cup {Never}
      BY NextAfterIsLater DEF TypeOK
    <3> QED
      BY <2>3, <3>1 DEF Boot, TypeOK, Modes
  <2>4. CASE MarkInterrupted
    <3>1. Marked \in [Names -> Statuses]
      BY DEF Marked, TypeOK, Statuses
    <3> QED
      BY <2>4, <3>1 DEF MarkInterrupted, memory, TypeOK, Modes
  <2>5. CASE Dispatch
    BY <2>5, DispatchTyped
  <2>6. CASE Stop \/ AllJoined
    BY <2>6 DEF Stop, AllJoined, memory, TypeOK, Modes
  <2>7. CASE GraceOver \/ Crash
    <3>1. /\ mode' = "down" /\ tasks' \subseteq tasks /\ slot' = [j \in Jobs |-> FALSE]
          /\ crashes' \in {crashes, crashes + 1}
          /\ UNCHANGED <<now, next, failures, gauge, records, started, lastStart, faults>>
      BY <2>7 DEF GraceOver, Crash
    <3> QED
      BY <3>1 DEF TypeOK, Modes
  <2>8. ASSUME NEW o \in OneOffs, RunOnce(o) PROVE TypeOK'
    <3>1. started[o] < MaxRuns /\ Spawned(o) \in Tasks
      BY <2>8, SpawnedIsNew DEF RunOnce
    <3>2. started' \in [Jobs \cup OneOffs -> 0 .. MaxRuns]
      BY <2>8, <3>1, DaemonAssumption DEF RunOnce, TypeOK
    <3> QED
      BY <2>8, <3>1, <3>2 DEF RunOnce, memory, TypeOK
  <2>9. ASSUME NEW task \in tasks, TaskStep(task) PROVE TypeOK'
    BY <2>9, StepTyped
  <2> QED
    BY <2>1, <2>2, <2>3, <2>4, <2>5, <2>6, <2>7, <2>8, <2>9 DEF Next
<1> QED
  BY <1>1, <1>2, PTL DEF Spec

-----------------------------------------------------------------------------
(* The inductive invariant: steps of the daemon *)

\* RecordInv speaks of the run's record, of the number of its job's starts and of
\* whether there have been faults, and of nothing else.
LEMMA RecordInvStays ==
  ASSUME NEW task, RecordInv(task), records'[task.name] = records[task.name],
         started[Job(task)] <= started'[Job(task)], faults' = 0 => faults = 0,
         task.name[2] \in Nat, started[Job(task)] \in Nat, started'[Job(task)] \in Nat
  PROVE  RecordInv(task)'
BY DEF RecordInv, Job, Recorded

\* Time, the start of the process, and the ends of the loop.
LEMMA QuietKeepsInv ==
  ASSUME TypeOK, IInv, Tick \/ Boot \/ Stop \/ AllJoined \/ UNCHANGED vars
  PROVE  IInv'
<1>1. UNCHANGED <<tasks, records, started, lastStart, faults>>
  BY DEF Tick, Boot, Stop, AllJoined, vars
<1>2. NoTwins' /\ Numbered'
  BY <1>1 DEF IInv, NoTwins, Numbered, Job
<1>3. \A task \in tasks' : RecordInv(task)'
  BY <1>1 DEF IInv, RecordInv, Job, Recorded
<1>4. ShiftsAhead'
  <2>1. CASE Boot
    BY <1>1, <2>1, NextAfterIsLater DEF Boot, IInv, ShiftsAhead, TypeOK
  <2>2. CASE Tick
    BY <1>1, <2>2 DEF Tick, memory, IInv, ShiftsAhead, TypeOK
  <2> QED
    BY <1>1, <2>1, <2>2 DEF Stop, AllJoined, memory, vars, IInv, ShiftsAhead
<1>5. SlotMeansRunning' /\ DownIsEmpty' /\ RunningIsLive'
  <2>1. CASE Boot
    <3>1. \A j \in Jobs : Of(j) = {}
      BY <2>1 DEF Boot, IInv, DownIsEmpty, DaemonTasks, Of
    <3> QED
      BY <1>1, <2>1, <3>1 DEF Boot, IInv, SlotMeansRunning, DownIsEmpty, RunningIsLive,
           DaemonTasks, Of, Job
  <2>2. CASE Tick \/ Stop \/ AllJoined \/ UNCHANGED vars
    <3>1. UNCHANGED <<slot, gauge>>
      BY <2>2 DEF Tick, Stop, AllJoined, memory, vars
    <3>2. mode' = mode \/ (mode = "up" /\ mode' = "stopping")
            \/ (DaemonTasks = {} /\ mode' = "down")
      BY <2>2 DEF Tick, Stop, AllJoined, memory, vars
    <3> QED
      BY <1>1, <3>1, <3>2 DEF IInv, SlotMeansRunning, DownIsEmpty, RunningIsLive,
           DaemonTasks, Of, Job
  <2> QED
    BY <2>1, <2>2
<1> QED
  BY <1>2, <1>3, <1>4, <1>5 DEF IInv

\* The records of a daemon that has died, of which none was at work.
LEMMA MarkKeepsInv ==
  ASSUME TypeOK, IInv, MarkInterrupted
  PROVE  IInv'
<1>1. /\ mode = "booting" /\ mode' = "up"
      /\ UNCHANGED <<now, next, slot, gauge, tasks, started, lastStart>>
      /\ \/ records' = Marked /\ faults' = faults
         \/ records' = records /\ faults' = faults + 1
  BY DEF MarkInterrupted, memory
<1>2. \A n \in Names :
        \/ records'[n] = records[n]
        \/ records[n] = "running" /\ records'[n] = "interrupted"
  BY <1>1 DEF Marked
<1>3. NoTwins' /\ ShiftsAhead'
  BY <1>1 DEF IInv, NoTwins, ShiftsAhead, Job
<1>4. SlotMeansRunning' /\ DownIsEmpty'
  BY <1>1 DEF IInv, SlotMeansRunning, DownIsEmpty, DaemonTasks, Of, Job
<1>5. Numbered'
  BY <1>1, <1>2 DEF IInv, Numbered
<1>6. \A task \in tasks' : RecordInv(task)'
  <2> SUFFICES ASSUME NEW task \in tasks PROVE RecordInv(task)'
    BY <1>1
  <2>1. RecordInv(task) /\ task.name \in Names
    BY TaskTypes DEF IInv, TypeOK
  <2>2. faults' = 0 => faults = 0
    BY <1>1 DEF TypeOK
  <2> QED
    BY <1>1, <1>2, <2>1, <2>2 DEF RecordInv, Job, Recorded, Results
<1>7. RunningIsLive'
  <2>1. CASE records' = Marked
    BY <2>1 DEF Marked, RunningIsLive, Names
  <2>2. CASE faults' = faults + 1
    BY <2>2 DEF TypeOK, RunningIsLive
  <2> QED
    BY <1>1, <2>1, <2>2
<1> QED
  BY <1>3, <1>4, <1>5, <1>6, <1>7 DEF IInv

\* The end of the daemon takes all its runs and frees all slots.
LEMMA EndOfDaemonKeepsInv ==
  ASSUME TypeOK, IInv, GraceOver \/ Crash
  PROVE  IInv'
<1>1. /\ mode' = "down" /\ tasks' = tasks \ DaemonTasks /\ slot' = [j \in Jobs |-> FALSE]
      /\ UNCHANGED <<now, next, gauge, records, started, lastStart, faults>>
  BY DEF GraceOver, Crash
<1>2. NoTwins' /\ ShiftsAhead' /\ Numbered'
  BY <1>1 DEF IInv, NoTwins, ShiftsAhead, Numbered, Job
<1>3. \A task \in tasks' : RecordInv(task)'
  BY <1>1 DEF IInv, RecordInv, Job, Recorded
<1>4. \A task \in tasks' : Job(task) \notin Jobs
  BY <1>1 DEF DaemonTasks
<1>5. SlotMeansRunning'
  BY <1>1, <1>4 DEF SlotMeansRunning, Of, Job
<1>6. DownIsEmpty' /\ RunningIsLive'
  BY <1>1, <1>4 DEF DownIsEmpty, RunningIsLive, DaemonTasks, Job
<1> QED
  BY <1>2, <1>3, <1>5, <1>6 DEF IInv

\* A dispatch starts the jobs that are due and free, each at a time that comes
\* after its last start and before its next.
LEMMA DispatchKeepsInv ==
  ASSUME TypeOK, IInv, Dispatch
  PROVE  IInv'
<1> DEFINE free == {j \in Due : ~ slot[j]}
<1>1. /\ mode = "up" /\ \A j \in free : started[j] < MaxRuns
      /\ next' = [j \in Jobs |-> IF j \in Due THEN NextShift(j) ELSE next[j]]
      /\ slot' = [j \in Jobs |-> slot[j] \/ j \in free]
      /\ tasks' = tasks \cup {Spawned(j) : j \in free}
      /\ started' = [j \in DOMAIN started |-> started[j] + IF j \in free THEN 1 ELSE 0]
      /\ lastStart' = [j \in Jobs |-> IF j \in free THEN now ELSE lastStart[j]]
      /\ UNCHANGED <<now, mode, failures, gauge, records, crashes, faults>>
  BY DEF Dispatch, SlotsClaimed
<1>2. /\ free \subseteq Jobs
      /\ \A j \in free : next[j] <= now /\ ~ slot[j]
  BY DEF Due
<1>3. \A j \in free : /\ Of(j) = {}
                      /\ Spawned(j) \in Tasks /\ Job(Spawned(j)) = j
                      /\ Spawned(j).name = <<j, started[j] + 1>>
                      /\ Spawned(j).name \in Names /\ Spawned(j).stage = "spawned"
  BY <1>1, <1>2, SpawnedIsNew DEF IInv, SlotMeansRunning
<1>4. \A j \in Jobs \cup OneOffs :
        /\ started[j] \in Nat /\ started'[j] \in Nat /\ started[j] <= started'[j]
        /\ j \in free => started'[j] = started[j] + 1
  <2>1. DOMAIN started = Jobs \cup OneOffs /\ \A j \in Jobs \cup OneOffs : started[j] \in Nat
    BY DEF TypeOK
  <2> QED
    BY <1>1, <2>1
<1>5. NoTwins'
  <2> SUFFICES ASSUME NEW s \in tasks', NEW t \in tasks', Job(s) = Job(t) PROVE s = t
    BY DEF NoTwins, Job
  <2>1. \A u \in tasks, j \in free : Job(u) # j
    BY <1>3 DEF Of
  <2> QED
    BY <1>1, <1>3, <2>1 DEF IInv, NoTwins
<1>6. SlotMeansRunning'
  <2> SUFFICES ASSUME NEW j \in Jobs
               PROVE  /\ slot'[j] <=> Of(j)' # {}
                      /\ (\E task \in Of(j)' : task.stage # "spawned") => gauge'[j]
                      /\ mode' = "up" /\ faults' = 0 /\ gauge'[j] => Of(j)' # {}
    BY DEF SlotMeansRunning
  <2>1. CASE j \in free
    <3>1. Of(j)' = {Spawned(j)}
      BY <1>1, <1>3, <2>1 DEF Of, Job
    <3> QED
      BY <1>1, <1>3, <2>1, <3>1
  <2>2. CASE j \notin free
    <3>1. Of(j)' = Of(j)
      BY <1>1, <1>3, <2>2 DEF Of, Job
    <3> QED
      BY <1>1, <2>2, <3>1 DEF IInv, SlotMeansRunning
  <2> QED
    BY <2>1, <2>2
<1>7. DownIsEmpty'
  BY <1>1 DEF DownIsEmpty
<1>8. Numbered'
  <2> SUFFICES ASSUME NEW n \in Names, records[n] # "none" PROVE n[2] <= started'[n[1]]
    BY <1>1 DEF Numbered
  <2>1. n[1] \in Jobs \cup OneOffs /\ n[2] \in Nat /\ n[2] <= started[n[1]]
    BY DEF IInv, Numbered, Names
  <2> QED
    BY <1>4, <2>1
<1>9. \A task \in tasks' : RecordInv(task)'
  <2>1. ASSUME NEW task \in tasks PROVE RecordInv(task)'
    <3>1. task.name[2] \in Nat /\ Job(task) \in Jobs \cup OneOffs /\ RecordInv(task)
      BY TaskTypes DEF IInv, TypeOK
    <3> QED
      BY <1>1, <1>4, <3>1, RecordInvStays
  <2>2. ASSUME NEW j \in free, NEW new, new = Spawned(j) PROVE RecordInv(new)'
    <3>1. /\ new.name = <<j, started[j] + 1>> /\ new.name \in Names
          /\ new.name[1] = j /\ new.name[2] = started[j] + 1 /\ new.stage = "spawned"
      BY <1>3, <2>2
    <3>2. ~ (started[j] + 1 <= started[j]) /\ new.name[2] <= started'[new.name[1]]
      BY <1>2, <1>4, <3>1
    <3>3. records'[new.name] = "none"
      BY <1>1, <3>1, <3>2 DEF IInv, Numbered
    <3> QED
      BY <3>1, <3>2, <3>3 DEF RecordInv, Job, Results
  <2> QED
    BY <1>1, <2>1, <2>2
<1>10. RunningIsLive'
  BY <1>1 DEF IInv, RunningIsLive
<1>11. ShiftsAhead'
  <2> SUFFICES ASSUME NEW j \in Jobs PROVE lastStart'[j] <= now' /\ lastStart'[j] < next'[j]
    BY DEF ShiftsAhead
  <2>1. now \in Nat /\ lastStart[j] \in Nat /\ next[j] \in Nat
    BY DaemonAssumption DEF TypeOK
  <2>2. NextShift(j) \in Nat /\ now < NextShift(j)
    BY NextAfterIsLater DEF NextShift, TypeOK
  <2>3. lastStart[j] <= now /\ lastStart[j] < next[j]
    BY DEF IInv, ShiftsAhead
  <2> QED
    BY <1>1, <2>1, <2>2, <2>3
<1> QED
  BY <1>5, <1>6, <1>7, <1>8, <1>9, <1>10, <1>11 DEF IInv

-----------------------------------------------------------------------------
(* The inductive invariant: steps of a run *)

\* A process of its own has its name to itself, and nothing else of the daemon.
LEMMA RunOnceKeepsInv ==
  ASSUME TypeOK, IInv, NEW o \in OneOffs, RunOnce(o)
  PROVE  IInv'
<1> DEFINE new == Spawned(o)
<1>1. /\ Of(o) = {} /\ started[o] < MaxRuns
      /\ tasks' = tasks \cup {new} /\ started' = [started EXCEPT ![o] = @ + 1]
      /\ UNCHANGED <<now, mode, next, slot, failures, gauge, records, lastStart, faults>>
  BY DEF RunOnce, memory
<1>2. /\ Job(new) = o /\ new.stage = "spawned"
      /\ new.name = <<o, started[o] + 1>> /\ new.name \in Names
      /\ o \notin Jobs
  BY <1>1, SpawnedIsNew, DaemonAssumption
<1>3. \A j \in Jobs \cup OneOffs :
        /\ started[j] \in Nat /\ started'[j] \in Nat /\ started[j] <= started'[j]
        /\ j = o => started'[j] = started[j] + 1
  BY <1>1 DEF TypeOK
<1>4. new.name[1] = o /\ new.name[2] = started[o] + 1
  BY <1>2
<1> HIDE DEF new
<1>5. NoTwins'
  BY <1>1, <1>2 DEF IInv, NoTwins, Of, Job
<1>6. \A j \in Jobs : Of(j)' = Of(j)
  BY <1>1, <1>2 DEF Of, Job
<1>7. DaemonTasks' = DaemonTasks
  BY <1>1, <1>2 DEF DaemonTasks, Job
<1>8. SlotMeansRunning' /\ DownIsEmpty'
  BY <1>1, <1>6, <1>7 DEF IInv, SlotMeansRunning, DownIsEmpty
<1>9. Numbered'
  <2> SUFFICES ASSUME NEW n \in Names, records[n] # "none" PROVE n[2] <= started'[n[1]]
    BY <1>1 DEF Numbered
  <2>1. n[1] \in Jobs \cup OneOffs /\ n[2] \in Nat /\ n[2] <= started[n[1]]
    BY DEF IInv, Numbered, Names
  <2> QED
    BY <1>3, <2>1
<1>10. \A task \in tasks' : RecordInv(task)'
  <2>1. ASSUME NEW task \in tasks PROVE RecordInv(task)'
    <3>1. task.name[2] \in Nat /\ Job(task) \in Jobs \cup OneOffs /\ RecordInv(task)
      BY TaskTypes DEF IInv, TypeOK
    <3> QED
      BY <1>1, <1>3, <3>1, RecordInvStays
  <2>2. ASSUME NEW task, task = new PROVE RecordInv(task)'
    <3>1. ~ (started[o] + 1 <= started[o]) /\ task.name[2] <= started'[task.name[1]]
      BY <1>3, <1>4, <2>2
    <3>2. records'[task.name] = "none" /\ task.stage = "spawned"
      BY <1>1, <1>2, <1>4, <2>2, <3>1 DEF IInv, Numbered
    <3> QED
      BY <3>1, <3>2 DEF RecordInv, Job, Results
  <2> QED
    BY <1>1, <2>1, <2>2
<1>11. RunningIsLive' /\ ShiftsAhead'
  BY <1>1 DEF IInv, RunningIsLive, ShiftsAhead
<1> QED
  BY <1>5, <1>8, <1>9, <1>10, <1>11 DEF IInv

\* A run that moves on keeps its place: what has to be shown of a step is what it
\* makes of its own record.
LEMMA MoveKeepsInv ==
  ASSUME TypeOK, IInv, NEW task \in tasks, NEW u \in Tasks,
         u.name = task.name, u.stage # "spawned",
         tasks' = (tasks \ {task}) \cup {u},
         UNCHANGED <<now, mode, next, slot, started, lastStart>>,
         \A j \in Jobs : gauge'[j] <=> gauge[j] \/ j = Job(task),
         \A n \in Names : n # task.name => records'[n] = records[n],
         faults' = 0 => faults = 0,
         RecordInv(u)'
  PROVE  IInv'
<1>1. Job(u) = Job(task) /\ task \in Tasks
  BY DEF Job, TypeOK
<1>2. \A t \in tasks : t # task => Job(t) # Job(task) /\ t.name # task.name
  BY DEF IInv, NoTwins, Job
<1>3. NoTwins'
  BY <1>1, <1>2 DEF IInv, NoTwins, Job
<1>4. \A j \in Jobs : /\ j # Job(task) => Of(j)' = Of(j)
                      /\ j = Job(task) => Of(j)' = {u} /\ Of(j) = {task}
  BY <1>1, <1>2 DEF Of, Job
<1>5. SlotMeansRunning'
  BY <1>4 DEF IInv, SlotMeansRunning
<1>6. DownIsEmpty'
  <2>1. DaemonTasks = {} => DaemonTasks' = {} /\ Job(task) \notin Jobs
    BY <1>1 DEF DaemonTasks, Job
  <2> QED
    BY <2>1 DEF IInv, DownIsEmpty
<1>7. Numbered'
  <2>1. task.name[2] <= started[task.name[1]]
    BY DEF IInv, RecordInv, Job
  <2> QED
    BY <2>1 DEF IInv, Numbered
<1>8. \A t \in tasks' : RecordInv(t)'
  <2>1. ASSUME NEW t \in tasks, t # task PROVE RecordInv(t)'
    <3>1. /\ t.name[2] \in Nat /\ started[Job(t)] \in Nat /\ RecordInv(t)
          /\ t.name \in Names
      BY TaskTypes DEF IInv, TypeOK
    <3> QED
      BY <1>2, <2>1, <3>1, RecordInvStays
  <2> QED
    BY <2>1
<1>9. RunningIsLive'
  <2> SUFFICES ASSUME mode = "up", faults = 0, NEW n \in Jobs \X (1 .. MaxRuns),
                      records'[n] = "running"
               PROVE  \E t \in tasks' : t.name = n
    BY DEF RunningIsLive
  <2>1. CASE n = task.name
    BY <2>1
  <2>2. CASE n # task.name
    <3>1. records[n] = "running"
      BY <2>2 DEF Names
    <3>2. PICK t \in tasks : t.name = n
      BY <3>1 DEF IInv, RunningIsLive
    <3> QED
      BY <2>2, <3>2
  <2> QED
    BY <2>1, <2>2
<1>10. ShiftsAhead'
  BY DEF IInv, ShiftsAhead
<1> QED
  BY <1>3, <1>5, <1>6, <1>7, <1>8, <1>9, <1>10 DEF IInv

\* A run that is over takes its slot with it; that it also takes the gauge, and
\* leaves no "running" behind, has to be shown only while there were no faults.
LEMMA GoneKeepsInv ==
  ASSUME TypeOK, IInv, NEW task \in tasks,
         tasks' = tasks \ {task},
         UNCHANGED <<now, mode, next, records, started, lastStart>>,
         \A j \in Jobs : slot'[j] <=> slot[j] /\ j # Job(task),
         \A j \in Jobs : /\ gauge'[j] => gauge[j]
                         /\ j # Job(task) => gauge'[j] = gauge[j]
                         /\ faults' = 0 => ~ (j = Job(task) /\ gauge'[j]),
         faults' = 0 => faults = 0,
         faults' = 0 => Job(task) \notin Jobs \/ records[task.name] # "running"
  PROVE  IInv'
<1>1. \A t \in tasks : t # task => Job(t) # Job(task)
  BY DEF IInv, NoTwins
<1>2. \A j \in Jobs : /\ j # Job(task) => Of(j)' = Of(j)
                      /\ j = Job(task) => Of(j)' = {}
  BY <1>1 DEF Of, Job
<1>3. NoTwins' /\ Numbered' /\ ShiftsAhead'
  BY DEF IInv, NoTwins, Numbered, ShiftsAhead, Job
<1>4. SlotMeansRunning'
  BY <1>2 DEF IInv, SlotMeansRunning
<1>5. DownIsEmpty'
  BY DEF IInv, DownIsEmpty, DaemonTasks, Job
<1>6. \A t \in tasks' : RecordInv(t)'
  <2>1. ASSUME NEW t \in tasks PROVE RecordInv(t)'
    <3>1. t.name[2] \in Nat /\ started[Job(t)] \in Nat /\ RecordInv(t)
      BY TaskTypes DEF IInv, TypeOK
    <3> QED
      BY <3>1, RecordInvStays
  <2> QED
    BY <2>1
<1>7. RunningIsLive'
  <2> SUFFICES ASSUME mode = "up", faults' = 0, NEW n \in Jobs \X (1 .. MaxRuns),
                      records[n] = "running"
               PROVE  \E t \in tasks' : t.name = n
    BY DEF RunningIsLive
  <2>1. PICK t \in tasks : t.name = n
    BY DEF IInv, RunningIsLive
  <2>2. Job(t) \in Jobs
    BY <2>1 DEF Job
  <2> QED
    BY <2>1, <2>2
<1> QED
  BY <1>3, <1>4, <1>5, <1>6, <1>7 DEF IInv

\* Every step of a run is one of the two.
LEMMA StepKeepsInv ==
  ASSUME TypeOK, IInv, NEW task \in tasks, TaskStep(task)
  PROVE  IInv'
<1>1. /\ task \in Tasks /\ task.name \in Names /\ task.name[2] \in Nat
      /\ Job(task) \in Jobs \cup OneOffs /\ task.result \in Results
  BY TaskTypes DEF TypeOK
<1>2. RecordInv(task) /\ faults \in Nat /\ records \in [Names -> Statuses]
  BY DEF IInv, TypeOK
<1>3. \A j \in Jobs : task.stage # "spawned" =>
        (gauge[j] <=> gauge[j] \/ j = Job(task))
  BY DEF IInv, SlotMeansRunning, Of
<1>4. CASE Begin(task)
  <2> DEFINE u == At(task, IF Recorded(task) THEN "insert" ELSE "work")
  <2>1. u \in Tasks /\ u.name = task.name /\ Job(u) = Job(task)
        /\ u.stage = (IF Recorded(task) THEN "insert" ELSE "work")
    BY <1>1, AtKeeps DEF Stages
  <2>2. /\ tasks' = (tasks \ {task}) \cup {u} /\ task.stage = "spawned"
        /\ gauge' = [j \in Jobs |-> gauge[j] \/ j = Job(task)]
        /\ UNCHANGED <<now, mode, next, slot, records, started, lastStart, faults>>
    BY <1>4 DEF Begin, Moves
  <2> HIDE DEF u
  <2>3. RecordInv(u)'
    BY <1>2, <2>1, <2>2 DEF RecordInv, Recorded, Job, Results
  <2> QED
    BY <2>1, <2>2, <2>3, MoveKeepsInv
<1>5. CASE Insert(task)
  <2> DEFINE u == At(task, "work")
  <2>1. u \in Tasks /\ u.name = task.name /\ Job(u) = Job(task) /\ u.stage = "work"
    BY <1>1, AtKeeps DEF Stages
  <2>2. /\ tasks' = (tasks \ {task}) \cup {u} /\ task.stage = "insert"
        /\ UNCHANGED <<now, mode, next, slot, gauge, started, lastStart>>
        /\ \/ records' = [records EXCEPT ![task.name] = "running"] /\ faults' = faults
           \/ records' = records /\ faults' = faults + 1
    BY <1>5 DEF Insert, Moves, memory
  <2> HIDE DEF u
  <2>3. RecordInv(u)'
    BY <1>1, <1>2, <2>1, <2>2 DEF RecordInv, Recorded, Job, Results
  <2> QED
    BY <1>1, <1>2, <1>3, <2>1, <2>2, <2>3, MoveKeepsInv
<1>6. CASE Work(task)
  <2>1. PICK r \in Results :
        tasks' = (tasks \ {task})
            \cup {[name |-> task.name, result |-> r,
                   stage |-> IF Recorded(task) THEN "update" ELSE "end"]}
    BY <1>6 DEF Work
  <2> DEFINE u == [name |-> task.name, result |-> r,
                   stage |-> IF Recorded(task) THEN "update" ELSE "end"]
  <2>2. u \in Tasks /\ u.name = task.name /\ Job(u) = Job(task)
        /\ u.stage = (IF Recorded(task) THEN "update" ELSE "end")
    BY <1>1 DEF Tasks, Stages, Job
  <2>3. /\ tasks' = (tasks \ {task}) \cup {u} /\ task.stage = "work"
        /\ UNCHANGED <<now, mode, next, slot, gauge, records, started, lastStart, faults>>
    BY <1>6, <2>1 DEF Work, memory
  <2> HIDE DEF u
  <2>4. RecordInv(u)'
    BY <1>2, <2>2, <2>3 DEF RecordInv, Recorded, Job, Results
  <2> QED
    BY <1>3, <2>2, <2>3, <2>4, MoveKeepsInv
<1>7. CASE Update(task)
  <2> DEFINE u == At(task, "end")
  <2>1. u \in Tasks /\ u.name = task.name /\ Job(u) = Job(task) /\ u.stage = "end"
    BY <1>1, AtKeeps DEF Stages
  <2>2. /\ tasks' = (tasks \ {task}) \cup {u} /\ task.stage = "update"
        /\ UNCHANGED <<now, mode, next, slot, gauge, started, lastStart>>
        /\ \/ /\ records' = [records EXCEPT ![task.name] =
                              IF @ = "none" THEN "none" ELSE task.result]
              /\ faults' = faults
           \/ records' = records /\ faults' = faults + 1
    BY <1>7 DEF Update, Moves, memory
  <2> HIDE DEF u
  <2>3. RecordInv(u)'
    BY <1>1, <1>2, <2>1, <2>2 DEF RecordInv, Recorded, Job, Results
  <2> QED
    BY <1>1, <1>2, <1>3, <2>1, <2>2, <2>3, MoveKeepsInv
<1>8. CASE End(task)
  <2>1. /\ task.stage = "end" /\ tasks' = tasks \ {task}
        /\ gauge' = [j \in Jobs |-> gauge[j] /\ j # Job(task)]
        /\ slot' = [j \in Jobs |-> slot[j] /\ j # Job(task)]
        /\ UNCHANGED <<now, mode, next, records, started, lastStart, faults>>
    BY <1>8 DEF End
  <2>2. faults = 0 => records[task.name] # "running"
    BY <1>2, <2>1 DEF RecordInv
  <2> QED
    BY <2>1, <2>2, GoneKeepsInv DEF TypeOK
<1>9. CASE Panic(task)
  <2>1. /\ tasks' = tasks \ {task} /\ faults' = faults + 1
        /\ slot' = [j \in Jobs |-> slot[j] /\ j # Job(task)]
        /\ UNCHANGED <<now, mode, next, gauge, records, started, lastStart>>
    BY <1>9 DEF Panic
  <2>2. faults' # 0
    BY <1>2, <2>1
  <2> QED
    BY <2>1, <2>2, GoneKeepsInv DEF TypeOK
<1>10. CASE Kill(task)
  <2>1. /\ tasks' = tasks \ {task} /\ Job(task) \notin Jobs
        /\ UNCHANGED <<now, mode, next, slot, gauge, records, started, lastStart, faults>>
    BY <1>10, DaemonAssumption DEF Kill, memory
  <2> QED
    BY <2>1, GoneKeepsInv
<1> QED
  BY <1>4, <1>5, <1>6, <1>7, <1>8, <1>9, <1>10 DEF TaskStep

-----------------------------------------------------------------------------
(* The theorems *)

\* The conjunction that is inductive holds in every state.
THEOREM Inductive == Spec => []IInv
<1>1. Init => IInv
  BY DaemonAssumption DEF Init, IInv, NoTwins, SlotMeansRunning, DownIsEmpty, Numbered,
       RunningIsLive, ShiftsAhead, DaemonTasks, Of, Never
<1>2. TypeOK /\ IInv /\ [Next]_vars => IInv'
  BY QuietKeepsInv, MarkKeepsInv, EndOfDaemonKeepsInv, DispatchKeepsInv, RunOnceKeepsInv,
     StepKeepsInv DEF Next
<1> QED
  BY <1>1, <1>2, TypeCorrect, PTL DEF Spec

\* A job does not overlap itself, however long its runs take.
THEOREM OneRunPerJob == Spec => []NoSelfOverlap
<1>1. IInv => NoSelfOverlap
  BY DEF IInv, NoTwins, NoSelfOverlap, Of
<1> QED
  BY <1>1, Inductive, PTL

\* No slot is leaked and none is free too early, whatever way the runs end, and
\* without panics the metric agrees.
THEOREM SlotsAgree == Spec => []SlotMeansRunning
<1>1. IInv => SlotMeansRunning
  BY DEF IInv
<1> QED
  BY <1>1, Inductive, PTL

\* Without panics and failing writes, the history says "running" of no run that
\* is not under way, restarts and crashes included.
THEOREM HistoryIsLive == Spec => []RunningIsLive
<1>1. IInv => RunningIsLive
  BY DEF IInv
<1> QED
  BY <1>1, Inductive, PTL

\* No shift is run twice, and none that was missed is made up for.
THEOREM ShiftsRunOnce == Spec => OncePerShift
<1>1. ASSUME TypeOK, IInv, [Next]_vars, NEW j \in Jobs, started'[j] # started[j]
      PROVE  \E u \in Cron[j] : lastStart[j] < u /\ u <= now
  <2>1. Dispatch
    <3>1. ASSUME NEW o \in OneOffs, RunOnce(o) PROVE started'[j] = started[j]
      BY <3>1, DaemonAssumption DEF RunOnce, TypeOK
    <3>2. ASSUME NEW task \in tasks, TaskStep(task) PROVE started' = started
      BY <3>2 DEF TaskStep, Begin, Insert, Work, Update, End, Panic, Kill, memory
    <3> QED
      BY <1>1, <3>1, <3>2 DEF Next, vars, memory, Tick, Boot, MarkInterrupted, Stop,
           AllJoined, GraceOver, Crash
  <2>2. j \in Due
    BY <1>1, <2>1 DEF Dispatch, TypeOK
  <2>3. next[j] <= now /\ next[j] \in Cron[j] \cup {Never} /\ now \in 0 .. MaxNow
    BY <1>1, <2>2 DEF Due, TypeOK
  <2>4. next[j] \in Cron[j]
    BY <2>3, DaemonAssumption DEF Never
  <2> QED
    BY <1>1, <2>3, <2>4 DEF IInv, ShiftsAhead
<1>2. TypeOK /\ IInv /\ [Next]_vars =>
        [\A j \in Jobs : started'[j] # started[j] =>
            \E u \in Cron[j] : lastStart[j] < u /\ u <= now]_vars
  BY <1>1
<1> QED
  BY <1>2, TypeCorrect, Inductive, PTL DEF Spec, OncePerShift

\* A result that has been recorded stays, whatever daemons start meanwhile.
THEOREM ResultsRemain == Spec => ResultsStay
<1>1. ASSUME TypeOK, IInv, [Next]_vars, NEW n \in Names, records[n] \in Results
      PROVE  records'[n] = records[n]
  <2>1. records[n] # "running" /\ records[n] # "none"
    BY <1>1 DEF Results
  <2>2. CASE MarkInterrupted
    BY <2>1, <2>2 DEF MarkInterrupted, Marked
  <2>3. ASSUME NEW task \in tasks, TaskStep(task) PROVE records'[n] = records[n]
    <3>1. RecordInv(task) /\ records \in [Names -> Statuses]
      BY <1>1 DEF IInv, TypeOK
    <3>2. CASE Insert(task)
      BY <1>1, <2>1, <3>1, <3>2 DEF Insert, RecordInv
    <3>3. CASE Update(task)
      BY <1>1, <2>1, <3>1, <3>3 DEF Update, RecordInv
    <3> QED
      BY <2>3, <3>2, <3>3 DEF TaskStep, Begin, Work, End, Panic, Kill
  <2>4. CASE \E o \in OneOffs : RunOnce(o)
    BY <2>4 DEF RunOnce
  <2> QED
    BY <1>1, <2>2, <2>3, <2>4 DEF Next, vars, Tick, Boot, Dispatch, Stop, AllJoined,
         GraceOver, Crash
<1>2. TypeOK /\ IInv /\ [Next]_vars =>
        [\A n \in Names : records[n] \in Results => records'[n] = records[n]]_vars
  BY <1>1
<1> QED
  BY <1>2, TypeCorrect, Inductive, PTL DEF Spec, ResultsStay

=============================================================================
