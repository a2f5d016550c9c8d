------------------------------- MODULE LockMgr -------------------------------
(***************************************************************************)
(* The record locks.  LockMgr keeps the locked keys in stripes, each with a *)
(* mutex and a condition variable; a thread that finds its key locked waits *)
(* on the stripe, where it shares the condition variable with waiters for   *)
(* other keys.  MultiScopeRecordLock locks several keys one after another,  *)
(* and ScopeRecordLock is the case of one key.                              *)
(***************************************************************************)
EXTENDS Integers, FiniteSets

CONSTANTS
  Threads,
  LastKey,      \* the user keys are numbered in the order std::sort gives them
  Stripe,       \* the stripe each key hashes to
  Requests,     \* the sets of keys an operation locks
  MaxLocks,     \* max_num_locks_; 0 is no limit, and what Redis::Redis passes
  Free,         \* what a mutex that nobody holds is held by
  Rounds,       \* bound: operations per thread
  MaxSpurious   \* bound: spurious wakeups

Keys == 0 .. LastKey

ASSUME LockAssumption ==
  /\ LastKey \in Nat
  /\ Requests \subseteq (SUBSET Keys) \ {{}}
  /\ Free \notin Threads
  /\ MaxLocks \in Nat
  /\ Rounds \in Nat
  /\ MaxSpurious \in Nat

Stripes == {Stripe[k] : k \in Keys}

VARIABLES
  pc,        \* where each thread is
  want,      \* the keys of its operation
  held,      \* those it has locked and not yet unlocked
  last,      \* the key it locks or unlocks at present
  mutex,     \* the holder of each stripe's mutex
  locked,    \* the keys of all stripes' sets
  rounds,    \* operations each thread has begun
  spurious   \* spurious wakeups so far

vars == <<pc, want, held, last, mutex, locked, rounds, spurious>>

TypeOK ==
  /\ pc \in [Threads -> {"idle", "enter", "own", "wait", "work", "leave", "erase",
                         "notify"}]
  /\ want \in [Threads -> SUBSET Keys]
  /\ held \in [Threads -> SUBSET Keys]
  /\ last \in [Threads -> Keys]
  /\ mutex \in [Stripes -> Threads \cup {Free}]
  /\ locked \in SUBSET Keys
  /\ rounds \in [Threads -> 0 .. Rounds]
  /\ spurious \in 0 .. MaxSpurious

Init ==
  /\ pc = [t \in Threads |-> "idle"]
  /\ want = [t \in Threads |-> {}]
  /\ held = [t \in Threads |-> {}]
  /\ last = [t \in Threads |-> CHOOSE k \in Keys : TRUE]
  /\ mutex = [s \in Stripes |-> Free]
  /\ locked = {}
  /\ rounds = [t \in Threads |-> 0]
  /\ spurious = 0

----------------------------------------------------------------------------

\* The bug of locking the keys in the order the caller gave them.
FirstUnsorted(S, k) == k \in S

\* The next key of a sorted and deduplicated list.
First(S, k) == k \in S /\ \A j \in S : k <= j

Goto(t, where) == pc' = [pc EXCEPT ![t] = where]

\* TryLock begins with the stripe of the first key that is still to be locked.
Approach(t, S) ==
  \E k \in Keys :
    /\ First(S, k)
    /\ last' = [last EXCEPT ![t] = k]

\* An operation begins: the constructor of (Multi)ScopeRecordLock.
Begin(t) ==
  /\ pc[t] = "idle"
  /\ rounds[t] < Rounds
  /\ \E keys \in Requests :
       want' = [want EXCEPT ![t] = keys] /\ Approach(t, keys)
  /\ rounds' = [rounds EXCEPT ![t] = @ + 1]
  /\ Goto(t, "enter")
  /\ UNCHANGED <<held, mutex, locked, spurious>>

LockMutex(t, from, to) ==
  /\ pc[t] = from
  /\ mutex[Stripe[last[t]]] = Free
  /\ mutex' = [mutex EXCEPT ![Stripe[last[t]]] = t]
  /\ Goto(t, to)
  /\ UNCHANGED <<want, held, last, locked, rounds, spurious>>

UnLockMutex(t) == mutex' = [mutex EXCEPT ![Stripe[last[t]]] = Free]

\* Acquire takes the stripe's mutex, at first and after every wakeup.
Acquire(t) == LockMutex(t, "enter", "own")

\* AcquireLocked answers kLockTimeout or kLockLimit.
Busy(k) == k \in locked \/ (MaxLocks > 0 /\ Cardinality(locked) >= MaxLocks)

\* The bug of not looking again at the key's lock after a wakeup.
InsertUnchecked(t) ==
  /\ pc[t] = "own"
  /\ Busy(last[t]) => spurious > 0
  /\ locked' = locked \cup {last[t]}
  /\ held' = [held EXCEPT ![t] = @ \cup {last[t]}]
  /\ UnLockMutex(t)
  /\ \/ want[t] = held'[t] /\ Goto(t, "work") /\ UNCHANGED last
     \/ want[t] # held'[t] /\ Goto(t, "enter") /\ Approach(t, want[t] \ held'[t])
  /\ UNCHANGED <<want, rounds, spurious>>

\* AcquireLocked succeeds: on to the next key, or to the operation's work.
Insert(t) ==
  /\ pc[t] = "own"
  /\ ~Busy(last[t])
  /\ locked' = locked \cup {last[t]}
  /\ held' = [held EXCEPT ![t] = @ \cup {last[t]}]
  /\ UnLockMutex(t)
  /\ \/ want[t] = held'[t] /\ Goto(t, "work") /\ UNCHANGED last
     \/ want[t] # held'[t] /\ Goto(t, "enter") /\ Approach(t, want[t] \ held'[t])
  /\ UNCHANGED <<want, rounds, spurious>>

\* Wait releases the mutex as it goes to sleep.
Wait(t) ==
  /\ pc[t] = "own"
  /\ Busy(last[t])
  /\ UnLockMutex(t)
  /\ Goto(t, "wait")
  /\ UNCHANGED <<want, held, last, locked, rounds, spurious>>

SpuriousWakeup(t) ==
  /\ pc[t] = "wait"
  /\ spurious < MaxSpurious
  /\ spurious' = spurious + 1
  /\ Goto(t, "enter")
  /\ UNCHANGED <<want, held, last, mutex, locked, rounds>>

\* The handler is through, and the destructor unlocks the first key.
Work(t) ==
  /\ pc[t] = "work"
  /\ Approach(t, held[t])
  /\ Goto(t, "leave")
  /\ UNCHANGED <<want, held, mutex, locked, rounds, spurious>>

UnLock(t) == LockMutex(t, "leave", "erase")

\* The key is erased and the mutex released before anyone is notified.
UnLockKey(t) ==
  /\ pc[t] = "erase"
  /\ locked' = locked \ {last[t]}
  /\ held' = [held EXCEPT ![t] = @ \ {last[t]}]
  /\ UnLockMutex(t)
  /\ Goto(t, "notify")
  /\ UNCHANGED <<want, last, rounds, spurious>>

\* The threads asleep on the stripe of k.
Sleepers(k) == {u \in Threads : pc[u] = "wait" /\ Stripe[last[u]] = Stripe[k]}

\* The bug of waking one waiter where a stripe's waiters want different keys.
NotifyOne(t) ==
  /\ pc[t] = "notify"
  /\ \E woken \in SUBSET Sleepers(last[t]) :
       /\ Cardinality(woken) <= 1
       /\ Sleepers(last[t]) # {} => woken # {}
       /\ pc' = [u \in Threads |->
                   IF u = t THEN IF held[t] = {} THEN "idle" ELSE "leave"
                   ELSE IF u \in woken THEN "enter" ELSE pc[u]]
  /\ \/ held[t] = {} /\ UNCHANGED last
     \/ held[t] # {} /\ Approach(t, held[t])
  /\ UNCHANGED <<want, held, mutex, locked, rounds, spurious>>

NotifyAll(t) ==
  /\ pc[t] = "notify"
  /\ pc' = [u \in Threads |->
              IF u = t THEN IF held[t] = {} THEN "idle" ELSE "leave"
              ELSE IF u \in Sleepers(last[t]) THEN "enter" ELSE pc[u]]
  /\ \/ held[t] = {} /\ UNCHANGED last
     \/ held[t] # {} /\ Approach(t, held[t])
  /\ UNCHANGED <<want, held, mutex, locked, rounds, spurious>>

Step(t) ==
  \/ Acquire(t) \/ Insert(t) \/ Wait(t)
  \/ Work(t) \/ UnLock(t) \/ UnLockKey(t) \/ NotifyAll(t)

Next == \E t \in Threads : Begin(t) \/ Step(t) \/ SpuriousWakeup(t)

Spec == Init /\ [][Next]_vars

\* A thread that can run runs.
FairSpec == Spec /\ \A t \in Threads : WF_vars(Step(t))

----------------------------------------------------------------------------
(* Properties.                                                              *)

\* TryLock and UnLock keep a key to one thread.
MutualExclusion ==
  \A t, u \in Threads : t # u => held[t] \cap held[u] = {}

\* A thread sleeps only while its key is locked, or while the thread that
\* unlocked a key of its stripe is still about to notify it: releasing the
\* mutex before NotifyAll loses no wakeup.
NoLostWakeup ==
  \A t \in Threads : pc[t] = "wait" =>
    \/ last[t] \in locked
    \/ \E u \in Threads : pc[u] = "notify" /\ Stripe[last[u]] = Stripe[last[t]]

\* As long as a thread sleeps, another has work to do: operations that lock
\* several keys cannot wait for each other in a circle.
SomeoneRuns ==
  (\E t \in Threads : pc[t] = "wait") =>
     \E t \in Threads : pc[t] \notin {"idle", "wait"}

\* Every operation gets its locks and ends.
Served == \A t \in Threads : (pc[t] # "idle") ~> (pc[t] = "idle")

----------------------------------------------------------------------------
(* The inductive invariant.                                                 *)

\* The stripes' sets hold the keys that threads hold, each for one thread.
LockedAreHeld == \A k \in Keys : k \in locked <=> \E t \in Threads : k \in held[t]

\* A stripe's mutex is held by the thread that is inside TryLock or UnLock.
MutexHeld ==
  /\ \A t \in Threads :
       pc[t] \in {"own", "erase"} => mutex[Stripe[last[t]]] = t
  /\ \A s \in Stripes : mutex[s] # Free =>
       pc[mutex[s]] \in {"own", "erase"} /\ Stripe[last[mutex[s]]] = s

\* A thread that is still locking holds the keys of its operation below the
\* one it is at; then it holds all of them; then it gives them back.
LockedInOrder ==
  \A t \in Threads :
    /\ pc[t] \in {"enter", "own", "wait"} =>
         last[t] \in want[t] /\ held[t] = {k \in want[t] : k < last[t]}
    /\ pc[t] = "work" => held[t] = want[t] /\ held[t] # {}
    /\ pc[t] \in {"leave", "erase"} => last[t] \in held[t]
    /\ pc[t] = "idle" => held[t] = {}

LockInv ==
  /\ TypeOK
  /\ MutualExclusion
  /\ LockedAreHeld
  /\ MutexHeld
  /\ LockedInOrder
=============================================================================
