------------------------------- MODULE BGTasks -------------------------------
(***************************************************************************)
(* Compaction in BlackWidow: a queue of tasks guarded by a mutex and a      *)
(* condition variable, the background thread that runs them, a caller that  *)
(* compacts synchronously, and the destructor that asks the thread to exit. *)
(* The thread reads bg_tasks_should_exit_ and falls asleep in two steps;    *)
(* the destructor sets the flag and signals without taking the mutex.       *)
(***************************************************************************)
EXTENDS Naturals, Sequences

CONSTANTS
  Types,        \* the data types that can be compacted on their own
  Keys,         \* the keys CompactKey may be asked for
  All,          \* kAll, and the key of a task that is for every key
  None,         \* kNone
  MaxTasks,     \* bound: tasks ever added
  MaxSpurious   \* bound: spurious wakeups

ASSUME TasksAssumption ==
  /\ All \notin Types \cup Keys
  /\ None \notin Types \cup {All}
  /\ MaxTasks \in Nat
  /\ MaxSpurious \in Nat

\* kCompactKey of a key, kCleanAll of a type, and kCleanAll of kAll.
Task == [type : Types, key : Keys \cup {All}] \cup [type : {All}, key : {All}]

VARIABLES
  queue,     \* bg_tasks_queue_
  bg,        \* where the background thread is in RunBGTask
  task,      \* its local variable
  current,   \* current_task_type_
  sync,      \* the type a caller compacts synchronously, or None
  close,     \* where the destructor is
  exit,      \* bg_tasks_should_exit_
  owed,      \* history: the tasks added, and not compacted for since
  added,     \* history: how many tasks were added
  started,   \* history: how many tasks were started
  spurious   \* spurious wakeups so far

vars == <<queue, bg, task, current, sync, close, exit, owed, added, started, spurious>>

TypeOK ==
  /\ queue \in Seq(Task)
  /\ bg \in {"top", "lock", "look", "doze", "asleep", "took", "run", "ended"}
  /\ task \in Task
  /\ current \in Types \cup {All, None}
  /\ sync \in Types \cup {All, None}
  /\ close \in {"open", "signal", "join", "closed"}
  /\ exit \in BOOLEAN
  /\ owed \subseteq Task
  /\ added \in 0 .. MaxTasks
  /\ started \in Nat
  /\ spurious \in 0 .. MaxSpurious

\* BGTask task: its default is a task of kAll.
Init ==
  /\ queue = <<>>
  /\ bg = "top"
  /\ task = [type |-> All, key |-> All]
  /\ current = None
  /\ sync = None
  /\ close = "open"
  /\ exit = FALSE
  /\ owed = {}
  /\ added = 0
  /\ started = 0
  /\ spurious = 0

\* The compaction of t leaves nothing for u to do.
Covers(t, u) ==
  \/ t = u
  \/ t.type = All
  \/ t.type = u.type /\ t.key = All

\* The mutex is held by the background thread.
BgHasMutex == bg \in {"look", "doze"}

\* bg_tasks_cond_var_.Signal(): lost when nobody sleeps.
Signal == bg' = IF bg = "asleep" THEN "lock" ELSE bg

----------------------------------------------------------------------------
(* Callers.                                                                 *)

\* The bug of taking a compaction of one type for a compaction of all.
AddBGTaskClears(t) ==
  /\ close = "open"
  /\ ~BgHasMutex
  /\ added < MaxTasks
  /\ queue' = IF t.key = All THEN <<t>> ELSE Append(queue, t)
  /\ Signal
  /\ owed' = owed \cup {t}
  /\ added' = added + 1
  /\ UNCHANGED <<task, current, sync, close, exit, started, spurious>>

\* The bug of adding a task without a signal.
AddBGTaskQuietly(t) ==
  /\ close = "open"
  /\ ~BgHasMutex
  /\ added < MaxTasks
  /\ queue' = IF t.type = All THEN <<t>> ELSE Append(queue, t)
  /\ owed' = owed \cup {t}
  /\ added' = added + 1
  /\ UNCHANGED <<bg, task, current, sync, close, exit, started, spurious>>

\* A compaction of everything makes those in the queue unnecessary.
AddBGTask(t) ==
  /\ close = "open"
  /\ ~BgHasMutex
  /\ added < MaxTasks
  /\ queue' = IF t.type = All THEN <<t>> ELSE Append(queue, t)
  /\ Signal
  /\ owed' = owed \cup {t}
  /\ added' = added + 1
  /\ UNCHANGED <<task, current, sync, close, exit, started, spurious>>

\* Compact(type, true): DoCompact on the caller's thread, which takes no lock.
SyncCompact(type) ==
  /\ close = "open"
  /\ sync = None
  /\ sync' = type
  /\ current' = type
  /\ UNCHANGED <<queue, bg, task, close, exit, owed, added, started, spurious>>

SyncCompactEnds ==
  /\ sync # None
  /\ sync' = None
  /\ current' = None
  /\ UNCHANGED <<queue, bg, task, close, exit, owed, added, started, spurious>>

\* ~BlackWidow, once no call is under way: set the flag, signal, join.
SetExit ==
  /\ close = "open"
  /\ sync = None
  /\ exit' = TRUE
  /\ close' = "signal"
  /\ UNCHANGED <<queue, bg, task, current, sync, owed, added, started, spurious>>

SignalExit ==
  /\ close = "signal"
  /\ Signal
  /\ close' = "join"
  /\ UNCHANGED <<queue, task, current, sync, exit, owed, added, started, spurious>>

Join ==
  /\ close = "join"
  /\ bg = "ended"
  /\ close' = "closed"
  /\ UNCHANGED <<queue, bg, task, current, sync, exit, owed, added, started, spurious>>

----------------------------------------------------------------------------
(* RunBGTask.                                                               *)

\* The outer loop's condition.
Top ==
  /\ bg = "top"
  /\ bg' = IF exit THEN "ended" ELSE "lock"
  /\ UNCHANGED <<queue, task, current, sync, close, exit, owed, added, started, spurious>>

\* bg_tasks_mutex_.Lock(), or its return from Wait with the mutex.
Lock ==
  /\ bg = "lock"
  /\ bg' = "look"
  /\ UNCHANGED <<queue, task, current, sync, close, exit, owed, added, started, spurious>>

\* The inner loop's condition holds: on to Wait.
FindNothing ==
  /\ bg = "look"
  /\ queue = <<>>
  /\ ~exit
  /\ bg' = "doze"
  /\ UNCHANGED <<queue, task, current, sync, close, exit, owed, added, started, spurious>>

\* Wait releases the mutex as it goes to sleep, whatever the flag says by now.
FallAsleep ==
  /\ bg = "doze"
  /\ bg' = "asleep"
  /\ UNCHANGED <<queue, task, current, sync, close, exit, owed, added, started, spurious>>

SpuriousWakeup ==
  /\ bg = "asleep"
  /\ spurious < MaxSpurious
  /\ spurious' = spurious + 1
  /\ bg' = "lock"
  /\ UNCHANGED <<queue, task, current, sync, close, exit, owed, added, started>>

\* The inner loop ends; the front of the queue, if there is one, is taken.
Take ==
  /\ bg = "look"
  /\ queue # <<>> \/ exit
  /\ \/ queue = <<>> /\ UNCHANGED <<queue, task>>
     \/ queue # <<>> /\ task' = Head(queue) /\ queue' = Tail(queue)
  /\ bg' = "took"
  /\ UNCHANGED <<current, sync, close, exit, owed, added, started, spurious>>

\* DoCompact names what it compacts, CompactKey does not.
Run ==
  /\ bg' = "run"
  /\ current' = IF task.key = All THEN task.type ELSE current
  /\ owed' = {u \in owed : ~Covers(task, u)}
  /\ started' = started + 1

\* The bug of not looking at the flag before the task is run.
StartAnyway ==
  /\ bg = "took"
  /\ Run
  /\ UNCHANGED <<queue, task, sync, close, exit, added, spurious>>

\* The task runs, unless the thread has to exit.
Start ==
  /\ bg = "took"
  /\ \/ exit /\ bg' = "ended" /\ UNCHANGED <<current, owed, started>>
     \/ ~exit /\ Run
  /\ UNCHANGED <<queue, task, sync, close, exit, added, spurious>>

\* The bug of returning from DoCompact without a word.
FinishSilently ==
  /\ bg = "run"
  /\ bg' = "top"
  /\ UNCHANGED <<queue, task, current, sync, close, exit, owed, added, started, spurious>>

Finish ==
  /\ bg = "run"
  /\ bg' = "top"
  /\ current' = IF task.key = All THEN None ELSE current
  /\ UNCHANGED <<queue, task, sync, close, exit, owed, added, started, spurious>>

RunBGTask == Top \/ Lock \/ FindNothing \/ FallAsleep \/ Take \/ Start \/ Finish

Close == SetExit \/ SignalExit \/ Join

Next ==
  \/ \E t \in Task : AddBGTask(t)
  \/ \E type \in Types \cup {All} : SyncCompact(type)
  \/ SyncCompactEnds
  \/ Close
  \/ RunBGTask
  \/ SpuriousWakeup

Spec == Init /\ [][Next]_vars

\* Neither the background thread nor a destructor that has begun stops by itself.
FairSpec == Spec /\ WF_vars(RunBGTask) /\ WF_vars(SignalExit \/ Join)

----------------------------------------------------------------------------
(* Properties.                                                              *)

\* A task that was added and not yet started, or a wider one, is in the queue or
\* in the thread's hands: clearing the queue for a compaction of everything
\* loses no work, and neither does the swap of queue and local variable.
NothingForgotten ==
  exit \/ \A u \in owed :
    \/ \E i \in DOMAIN queue : Covers(queue[i], u)
    \/ bg = "took" /\ Covers(task, u)

\* Every run is of a task of its own: the local variable, which keeps the last
\* task when the queue is empty at exit, is never run a second time.
RunsOnce ==
  /\ started + Len(queue) <= added
  /\ bg = "took" /\ ~exit => started + Len(queue) < added

\* The thread does not sleep, nor is it about to, with work in the queue: no task
\* is added between its look at the queue and its Wait.
AwakeWithWork == bg \in {"doze", "asleep"} => queue = <<>>

\* GetCurrentTaskType names a compaction only while one of a whole type runs, on
\* either thread: whichever of two overlapping ones ends last, "No" remains.
IdleIsNone == current # None => sync # None \/ (bg = "run" /\ task.key = All)

TasksInv ==
  /\ TypeOK
  /\ NothingForgotten
  /\ RunsOnce
  /\ AwakeWithWork
  /\ IdleIsNone

\* A task that was added is started, or a wider one, unless the database is
\* closed before.
Compacted == \A t \in Task : t \in owed ~> (t \notin owed \/ exit)

\* RunBGTask returns, and the destructor with it, once the flag is set.
Closes == exit ~> (close = "closed")
=============================================================================
