---------------------------- MODULE BGTasksProofs ----------------------------
(***************************************************************************)
(* Proofs about the compaction queue, for any types and keys and any bounds *)
(* on tasks and spurious wakeups: TasksInv is inductive as it stands.       *)
(***************************************************************************)
EXTENDS BGTasks, TLAPS

\* A caller's AddBGTask preserves the invariant: the queue it clears is covered
\* by the task it adds, and it finds no thread between a look and a Wait.
LEMMA AddInv ==
  ASSUME TasksInv, NEW t \in Task, AddBGTask(t)
  PROVE  TasksInv'
<1>. USE TasksAssumption
<1>q. queue' \in Seq(Task) /\ Len(queue') \in Nat /\ Len(queue') <= Len(queue) + 1 /\ Len(queue) \in Nat
  <2>1. CASE t.type = All
    BY <2>1 DEF AddBGTask, TasksInv, TypeOK
  <2>2. CASE t.type # All
    BY <2>2 DEF AddBGTask, TasksInv, TypeOK
  <2>. QED BY <2>1, <2>2
<1>1. TypeOK'
  BY <1>q DEF AddBGTask, Signal, TasksInv, TypeOK
<1>2. NothingForgotten'
  <2>. SUFFICES ASSUME ~exit', NEW u \in owed'
                PROVE  \/ \E i \in DOMAIN queue' : Covers(queue'[i], u)
                       \/ bg' = "took" /\ Covers(task', u)
    BY DEF NothingForgotten, Covers
  <2>1. CASE t.type = All
    <3>1. queue' = <<t>>
      BY <2>1 DEF AddBGTask
    <3>2. 1 \in DOMAIN queue' /\ queue'[1] = t
      BY <3>1
    <3>. QED BY <2>1, <3>2 DEF Covers
  <2>2. CASE t.type # All /\ u = t
    <3>1. queue' = Append(queue, t)
      BY <2>2 DEF AddBGTask
    <3>2. Len(queue) + 1 \in DOMAIN queue' /\ queue'[Len(queue) + 1] = t
      BY <3>1 DEF TasksInv, TypeOK
    <3>. QED BY <2>2, <3>2 DEF Covers
  <2>3. CASE t.type # All /\ u # t
    <3>1. queue' = Append(queue, t) /\ u \in owed /\ task' = task
      BY <2>3 DEF AddBGTask
    <3>2. ASSUME NEW i \in DOMAIN queue, Covers(queue[i], u)
          PROVE  i \in DOMAIN queue' /\ queue'[i] = queue[i]
      BY <3>1, <3>2 DEF TasksInv, TypeOK
    <3>3. ASSUME bg = "took" PROVE bg' = "took"
      BY <3>3 DEF AddBGTask, Signal
    <3>4. exit' = exit
      BY DEF AddBGTask
    <3>. QED BY <3>1, <3>2, <3>3, <3>4 DEF TasksInv, NothingForgotten
  <2>. QED BY <2>1, <2>2, <2>3
<1>3. RunsOnce'
  <2>1. bg' = "took" => bg = "took"
    BY DEF AddBGTask, Signal
  <2>. QED BY <1>q, <2>1 DEF AddBGTask, TasksInv, TypeOK, RunsOnce
<1>4. AwakeWithWork'
  BY DEF AddBGTask, Signal, BgHasMutex, TasksInv, AwakeWithWork
<1>5. IdleIsNone'
  BY DEF AddBGTask, Signal, TasksInv, IdleIsNone
<1>. QED BY <1>1, <1>2, <1>3, <1>4, <1>5 DEF TasksInv

\* So do a synchronous compaction and its end.
LEMMA SyncInv ==
  ASSUME TasksInv, (\E type \in Types \cup {All} : SyncCompact(type)) \/ SyncCompactEnds
  PROVE  TasksInv'
<1>. USE TasksAssumption
<1>1. TypeOK'
  BY DEF SyncCompact, SyncCompactEnds, TasksInv, TypeOK
<1>2. NothingForgotten'
  BY DEF SyncCompact, SyncCompactEnds, TasksInv, NothingForgotten, Covers
<1>3. RunsOnce' /\ AwakeWithWork'
  BY DEF SyncCompact, SyncCompactEnds, TasksInv, RunsOnce, AwakeWithWork
<1>4. IdleIsNone'
  BY DEF SyncCompact, SyncCompactEnds, TasksInv, IdleIsNone
<1>. QED BY <1>1, <1>2, <1>3, <1>4 DEF TasksInv

\* So does the destructor.
LEMMA CloseInv ==
  ASSUME TasksInv, Close
  PROVE  TasksInv'
<1>1. TypeOK'
  BY DEF Close, SetExit, SignalExit, Join, Signal, TasksInv, TypeOK
<1>2. NothingForgotten'
  BY DEF Close, SetExit, SignalExit, Join, Signal, TasksInv, NothingForgotten, Covers
<1>3. RunsOnce'
  BY DEF Close, SetExit, SignalExit, Join, Signal, TasksInv, RunsOnce
<1>4. AwakeWithWork'
  BY DEF Close, SetExit, SignalExit, Join, Signal, TasksInv, AwakeWithWork
<1>5. IdleIsNone'
  BY DEF Close, SetExit, SignalExit, Join, Signal, TasksInv, IdleIsNone
<1>. QED BY <1>1, <1>2, <1>3, <1>4, <1>5 DEF TasksInv

\* So does a step of the background thread that neither takes nor starts a task.
LEMMA ThreadWaitsInv ==
  ASSUME TasksInv, Top \/ Lock \/ FindNothing \/ FallAsleep \/ SpuriousWakeup \/ Finish
  PROVE  TasksInv'
<1>. USE TasksAssumption
<1>1. TypeOK'
  BY DEF Top, Lock, FindNothing, FallAsleep, SpuriousWakeup, Finish, Task, TasksInv, TypeOK
<1>2. NothingForgotten'
  BY DEF Top, Lock, FindNothing, FallAsleep, SpuriousWakeup, Finish, TasksInv,
         NothingForgotten, Covers
<1>3. RunsOnce'
  BY DEF Top, Lock, FindNothing, FallAsleep, SpuriousWakeup, Finish, TasksInv, RunsOnce
<1>4. AwakeWithWork' /\ IdleIsNone'
  BY DEF Top, Lock, FindNothing, FallAsleep, SpuriousWakeup, Finish, TasksInv,
         AwakeWithWork, IdleIsNone
<1>. QED BY <1>1, <1>2, <1>3, <1>4 DEF TasksInv

\* So does taking the front of the queue: what it covered is in the thread's hands.
LEMMA TakeInv ==
  ASSUME TasksInv, Take
  PROVE  TasksInv'
<1>1. CASE queue = <<>>
  BY <1>1 DEF Take, TasksInv, TypeOK, NothingForgotten, RunsOnce, AwakeWithWork, IdleIsNone, Covers
<1>2. CASE queue # <<>>
  <2>1. /\ task' = queue[1] /\ queue' = Tail(queue) /\ queue[1] \in Task
        /\ queue' \in Seq(Task) /\ Len(queue') = Len(queue) - 1 /\ Len(queue) \in Nat
    BY <1>2 DEF Take, TasksInv, TypeOK
  <2>2. TypeOK'
    BY <2>1 DEF Take, TasksInv, TypeOK
  <2>3. NothingForgotten'
    <3>. SUFFICES ASSUME ~exit', NEW u \in owed'
                  PROVE  \/ \E i \in DOMAIN queue' : Covers(queue'[i], u)
                         \/ bg' = "took" /\ Covers(task', u)
      BY DEF NothingForgotten, Covers
    <3>1. PICK i \in DOMAIN queue : Covers(queue[i], u)
      BY DEF Take, TasksInv, NothingForgotten
    <3>2. CASE i = 1
      BY <2>1, <3>1, <3>2 DEF Take
    <3>3. CASE i # 1
      <4>1. i - 1 \in DOMAIN queue' /\ queue'[i - 1] = queue[i]
        BY <2>1, <3>3 DEF TasksInv, TypeOK
      <4>. QED BY <3>1, <4>1
    <3>. QED BY <3>2, <3>3
  <2>4. RunsOnce'
    <3>1. /\ started \in Nat /\ added \in Nat /\ started + Len(queue) <= added
          /\ started' = started /\ added' = added
      BY TasksAssumption DEF Take, TasksInv, TypeOK, RunsOnce
    <3>. QED BY <2>1, <3>1 DEF RunsOnce
  <2>5. AwakeWithWork' /\ IdleIsNone'
    BY DEF Take, TasksInv, AwakeWithWork, IdleIsNone
  <2>. QED BY <2>2, <2>3, <2>4, <2>5 DEF TasksInv
<1>. QED BY <1>1, <1>2

\* So does starting it: what it covered is no longer owed.
LEMMA StartInv ==
  ASSUME TasksInv, Start
  PROVE  TasksInv'
<1>1. CASE exit
  BY <1>1 DEF Start, Run, TasksInv, TypeOK, NothingForgotten, RunsOnce, AwakeWithWork, IdleIsNone, Covers
<1>2. CASE ~exit
  <2>1. TypeOK'
    BY <1>2 DEF Start, Run, Task, TasksInv, TypeOK
  <2>2. NothingForgotten'
    BY <1>2 DEF Start, Run, TasksInv, NothingForgotten, Covers
  <2>3. RunsOnce'
    BY <1>2 DEF Start, Run, TasksInv, TypeOK, RunsOnce
  <2>4. AwakeWithWork' /\ IdleIsNone'
    BY <1>2 DEF Start, Run, TasksInv, AwakeWithWork, IdleIsNone
  <2>. QED BY <2>1, <2>2, <2>3, <2>4 DEF TasksInv
<1>. QED BY <1>1, <1>2

\* TasksInv holds in every reachable state: the queue and the background thread
\* lose no task, run none twice, sleep on none, and name what they compact.
THEOREM TasksInvHolds == Spec => []TasksInv
<1>1. Init => TasksInv
  <2>. SUFFICES ASSUME Init PROVE TasksInv
    OBVIOUS
  <2>1. TypeOK
    <3>1. queue \in Seq(Task) /\ task \in Task
      BY DEF Init, Task
    <3>2. owed \subseteq Task
      BY DEF Init
    <3>3. added \in 0 .. MaxTasks /\ spurious \in 0 .. MaxSpurious /\ started \in Nat
      BY TasksAssumption DEF Init
    <3>. QED BY <3>1, <3>2, <3>3 DEF Init, TypeOK
  <2>2. NothingForgotten /\ RunsOnce
    BY TasksAssumption DEF Init, NothingForgotten, RunsOnce
  <2>3. AwakeWithWork /\ IdleIsNone
    BY DEF Init, AwakeWithWork, IdleIsNone
  <2>. QED BY <2>1, <2>2, <2>3 DEF TasksInv
<1>2. TasksInv /\ [Next]_vars => TasksInv'
  <2>. SUFFICES ASSUME TasksInv, [Next]_vars PROVE TasksInv'
    OBVIOUS
  <2>1. CASE UNCHANGED vars
    BY <2>1 DEF vars, TasksInv, TypeOK, NothingForgotten, RunsOnce, AwakeWithWork, IdleIsNone, Covers
  <2>2. CASE Next
    BY <2>2, AddInv, SyncInv, CloseInv, ThreadWaitsInv, TakeInv, StartInv DEF Next, RunBGTask
  <2>. QED BY <2>1, <2>2
<1>. QED BY <1>1, <1>2, PTL DEF Spec

\* No task is forgotten before the database is closed, whatever the queue's
\* clearing, the thread's waits and the callers' interleaving.
THEOREM NoTaskIsForgotten == Spec => []NothingForgotten
<1>1. TasksInv => NothingForgotten
  BY DEF TasksInv
<1>. QED BY <1>1, TasksInvHolds, PTL

\* No task is run more often than it was added.
THEOREM NoTaskRunsTwice == Spec => []RunsOnce
<1>1. TasksInv => RunsOnce
  BY DEF TasksInv
<1>. QED BY <1>1, TasksInvHolds, PTL

\* While there is work the background thread is awake, or on its way: no caller's
\* Signal falls between the thread's check of the queue and its wait.
THEOREM NoSignalIsLost == Spec => []AwakeWithWork
<1>1. TasksInv => AwakeWithWork
  BY DEF TasksInv
<1>. QED BY <1>1, TasksInvHolds, PTL

\* GetCurrentTaskType names nothing while no compaction of a whole type runs.
THEOREM NothingNamedWhenIdle == Spec => []IdleIsNone
<1>1. TasksInv => IdleIsNone
  BY DEF TasksInv
<1>. QED BY <1>1, TasksInvHolds, PTL
=============================================================================
