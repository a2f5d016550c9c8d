---------------------------- MODULE LockMgrProofs ----------------------------
(***************************************************************************)
(* LockInv is inductive, for any number of threads, keys and stripes; from  *)
(* it follow mutual exclusion and, with no limit on the number of locks,    *)
(* that no wakeup is lost and no circle of waiting threads closes.          *)
(***************************************************************************)
EXTENDS LockMgr, TLAPS, NaturalsInduction, WellFoundedInduction

----------------------------------------------------------------------------
(* One lemma per step of a thread.                                          *)

\* An operation that begins holds nothing yet.
LEMMA BeginInv ==
  ASSUME LockInv, NEW t \in Threads, Begin(t)
  PROVE  LockInv'
  <1>1. TypeOK'
    BY LockAssumption DEF LockInv, TypeOK, Stripes, Keys, Begin, Approach, First, Goto
  <1>2. MutualExclusion' /\ LockedAreHeld'
    BY DEF LockInv, TypeOK, MutualExclusion, LockedAreHeld, MutexHeld, LockedInOrder, Begin, Approach, First, Goto
  <1>3. MutexHeld'
    BY LockAssumption DEF LockInv, TypeOK, Stripes, MutexHeld, LockedInOrder, Begin, Approach, First, Goto
  <1>4. LockedInOrder'
    <2>1. PICK keys \in Requests, k \in Keys :
            /\ k \in keys /\ \A j \in keys : k <= j
            /\ want' = [want EXCEPT ![t] = keys] /\ last' = [last EXCEPT ![t] = k]
            /\ pc' = [pc EXCEPT ![t] = "enter"] /\ held' = held /\ pc[t] = "idle"
      BY DEF Begin, Approach, First, Goto
    <2>2. keys \subseteq Keys /\ \A j \in Keys : j \in Int
      BY LockAssumption DEF Keys
    <2>3. {j \in keys : j < k} = {}
      BY <2>1, <2>2
    <2>4. /\ pc'[t] = "enter" /\ last'[t] = k /\ want'[t] = keys /\ held'[t] = {}
          /\ \A u \in Threads \ {t} : /\ pc'[u] = pc[u] /\ last'[u] = last[u]
                                      /\ want'[u] = want[u] /\ held'[u] = held[u]
      BY <2>1 DEF LockInv, TypeOK, LockedInOrder
    <2>5. QED BY <2>1, <2>3, <2>4 DEF LockInv, LockedInOrder
  <1>5. QED BY <1>1, <1>2, <1>3, <1>4 DEF LockInv

\* A thread enters a stripe to lock a key.
LEMMA AcquireInv ==
  ASSUME LockInv, NEW t \in Threads, Acquire(t)
  PROVE  LockInv'
  <1>1. TypeOK'
    BY LockAssumption DEF LockInv, TypeOK, Stripes, Keys, Acquire, LockMutex, Goto
  <1>2. MutualExclusion' /\ LockedAreHeld'
    BY DEF LockInv, TypeOK, MutualExclusion, LockedAreHeld, MutexHeld, LockedInOrder, Acquire, LockMutex, Goto
  <1>3. MutexHeld'
    BY LockAssumption DEF LockInv, TypeOK, Stripes, MutexHeld, LockedInOrder, Acquire, LockMutex, Goto
  <1>4. LockedInOrder'
    BY LockAssumption DEF LockInv, TypeOK, Keys, LockedInOrder, Acquire, LockMutex, Goto
  <1>5. QED BY <1>1, <1>2, <1>3, <1>4 DEF LockInv

\* A thread enters a stripe to unlock a key.
LEMMA UnLockInv ==
  ASSUME LockInv, NEW t \in Threads, UnLock(t)
  PROVE  LockInv'
  <1>1. TypeOK'
    BY LockAssumption DEF LockInv, TypeOK, Stripes, Keys, UnLock, LockMutex, Goto
  <1>2. MutualExclusion' /\ LockedAreHeld'
    BY DEF LockInv, TypeOK, MutualExclusion, LockedAreHeld, MutexHeld, LockedInOrder, UnLock, LockMutex, Goto
  <1>3. MutexHeld'
    BY LockAssumption DEF LockInv, TypeOK, Stripes, MutexHeld, LockedInOrder, UnLock, LockMutex, Goto
  <1>4. LockedInOrder'
    BY LockAssumption DEF LockInv, TypeOK, Keys, LockedInOrder, UnLock, LockMutex, Goto
  <1>5. QED BY <1>1, <1>2, <1>3, <1>4 DEF LockInv

\* A free key is locked: the keys above it come next.
LEMMA InsertInv ==
  ASSUME LockInv, NEW t \in Threads, Insert(t)
  PROVE  LockInv'
  <1>1. TypeOK'
    BY LockAssumption DEF LockInv, TypeOK, Stripes, Keys, Insert, Approach, First, Goto, UnLockMutex, Busy
  <1>2. MutualExclusion' /\ LockedAreHeld'
    BY DEF LockInv, TypeOK, MutualExclusion, LockedAreHeld, MutexHeld, LockedInOrder, Insert, Approach, First, Goto, UnLockMutex, Busy
  <1>3. MutexHeld'
    BY LockAssumption DEF LockInv, TypeOK, Stripes, MutexHeld, LockedInOrder, Insert, Approach, First, Goto, UnLockMutex, Busy
  <1>4. LockedInOrder'
    BY LockAssumption DEF LockInv, TypeOK, Keys, LockedInOrder, Insert, Approach, First, Goto, UnLockMutex, Busy
  <1>5. QED BY <1>1, <1>2, <1>3, <1>4 DEF LockInv

\* A thread goes to sleep on its stripe.
LEMMA WaitInv ==
  ASSUME LockInv, NEW t \in Threads, Wait(t)
  PROVE  LockInv'
  <1>1. TypeOK'
    BY LockAssumption DEF LockInv, TypeOK, Stripes, Keys, Wait, Goto, UnLockMutex
  <1>2. MutualExclusion' /\ LockedAreHeld'
    BY DEF LockInv, TypeOK, MutualExclusion, LockedAreHeld, MutexHeld, LockedInOrder, Wait, Goto, UnLockMutex
  <1>3. MutexHeld'
    BY LockAssumption DEF LockInv, TypeOK, Stripes, MutexHeld, LockedInOrder, Wait, Goto, UnLockMutex
  <1>4. LockedInOrder'
    BY LockAssumption DEF LockInv, TypeOK, Keys, LockedInOrder, Wait, Goto, UnLockMutex
  <1>5. QED BY <1>1, <1>2, <1>3, <1>4 DEF LockInv

\* A thread wakes up by itself.
LEMMA SpuriousWakeupInv ==
  ASSUME LockInv, NEW t \in Threads, SpuriousWakeup(t)
  PROVE  LockInv'
  <1>1. TypeOK'
    BY LockAssumption DEF LockInv, TypeOK, Stripes, Keys, SpuriousWakeup, Goto
  <1>2. MutualExclusion' /\ LockedAreHeld'
    BY DEF LockInv, TypeOK, MutualExclusion, LockedAreHeld, MutexHeld, LockedInOrder, SpuriousWakeup, Goto
  <1>3. MutexHeld'
    BY LockAssumption DEF LockInv, TypeOK, Stripes, MutexHeld, LockedInOrder, SpuriousWakeup, Goto
  <1>4. LockedInOrder'
    BY LockAssumption DEF LockInv, TypeOK, Keys, LockedInOrder, SpuriousWakeup, Goto
  <1>5. QED BY <1>1, <1>2, <1>3, <1>4 DEF LockInv

\* The destructor begins with the first key.
LEMMA WorkInv ==
  ASSUME LockInv, NEW t \in Threads, Work(t)
  PROVE  LockInv'
  <1>1. TypeOK'
    BY LockAssumption DEF LockInv, TypeOK, Stripes, Keys, Work, Approach, First, Goto
  <1>2. MutualExclusion' /\ LockedAreHeld'
    BY DEF LockInv, TypeOK, MutualExclusion, LockedAreHeld, MutexHeld, LockedInOrder, Work, Approach, First, Goto
  <1>3. MutexHeld'
    BY LockAssumption DEF LockInv, TypeOK, Stripes, MutexHeld, LockedInOrder, Work, Approach, First, Goto
  <1>4. LockedInOrder'
    BY LockAssumption DEF LockInv, TypeOK, Keys, LockedInOrder, Work, Approach, First, Goto
  <1>5. QED BY <1>1, <1>2, <1>3, <1>4 DEF LockInv

\* A key is given back by the thread that holds it.
LEMMA UnLockKeyInv ==
  ASSUME LockInv, NEW t \in Threads, UnLockKey(t)
  PROVE  LockInv'
  <1>1. TypeOK'
    BY LockAssumption DEF LockInv, TypeOK, Stripes, Keys, UnLockKey, Goto, UnLockMutex
  <1>2. MutualExclusion' /\ LockedAreHeld'
    BY DEF LockInv, TypeOK, MutualExclusion, LockedAreHeld, MutexHeld, LockedInOrder, UnLockKey, Goto, UnLockMutex
  <1>3. MutexHeld'
    BY LockAssumption DEF LockInv, TypeOK, Stripes, MutexHeld, LockedInOrder, UnLockKey, Goto, UnLockMutex
  <1>4. LockedInOrder'
    BY LockAssumption DEF LockInv, TypeOK, Keys, LockedInOrder, UnLockKey, Goto, UnLockMutex
  <1>5. QED BY <1>1, <1>2, <1>3, <1>4 DEF LockInv

\* The sleepers of a stripe look again.
LEMMA NotifyAllInv ==
  ASSUME LockInv, NEW t \in Threads, NotifyAll(t)
  PROVE  LockInv'
  <1>1. TypeOK'
    BY LockAssumption DEF LockInv, TypeOK, Stripes, Keys, NotifyAll, Approach, First, Sleepers
  <1>2. MutualExclusion' /\ LockedAreHeld'
    BY DEF LockInv, TypeOK, MutualExclusion, LockedAreHeld, MutexHeld, LockedInOrder, NotifyAll, Approach, First, Sleepers
  <1>3. MutexHeld'
    BY LockAssumption DEF LockInv, TypeOK, Stripes, MutexHeld, LockedInOrder, NotifyAll, Approach, First, Sleepers
  <1>4. LockedInOrder'
    BY LockAssumption DEF LockInv, TypeOK, Keys, LockedInOrder, NotifyAll, Approach, First, Sleepers
  <1>5. QED BY <1>1, <1>2, <1>3, <1>4 DEF LockInv

----------------------------------------------------------------------------
(* The invariant.                                                           *)

\* Every step of the record locks keeps LockInv.
LEMMA LockNextInv ==
  ASSUME LockInv, [Next]_vars
  PROVE  LockInv'
  <1>1. ASSUME NEW t \in Threads, Begin(t) \/ Step(t) \/ SpuriousWakeup(t)
        PROVE  LockInv'
    BY <1>1, BeginInv, AcquireInv, InsertInv, WaitInv, SpuriousWakeupInv, WorkInv,
       UnLockInv, UnLockKeyInv, NotifyAllInv DEF Step
  <1>2. CASE UNCHANGED vars
    BY <1>2 DEF vars, LockInv, TypeOK, MutualExclusion, LockedAreHeld, MutexHeld,
       LockedInOrder
  <1>3. QED BY <1>1, <1>2 DEF Next

\* The strengthened invariant holds in every reachable state.
THEOREM LockInvHolds == Spec => []LockInv
  <1>1. Init => LockInv
    <2> SUFFICES ASSUME Init PROVE LockInv
      OBVIOUS
    <2>1. (CHOOSE k \in Keys : TRUE) \in Keys
      BY LockAssumption DEF Keys
    <2>2. TypeOK
      BY <2>1, LockAssumption DEF Init, TypeOK
    <2>3. QED BY <2>2 DEF Init, LockInv, MutualExclusion, LockedAreHeld, MutexHeld,
              LockedInOrder
  <1>2. LockInv /\ [Next]_vars => LockInv'
    BY LockNextInv
  <1>3. QED BY <1>1, <1>2, PTL DEF Spec

\* No two threads hold the record lock of one key.
THEOREM RecordLocksExclude == Spec => []MutualExclusion
  <1>1. LockInv => MutualExclusion
    BY DEF LockInv
  <1>2. QED BY <1>1, LockInvHolds, PTL

\* With no limit on the number of locks, as Redis::Redis has it, a thread that
\* sleeps will be notified or has a key that is still locked.
THEOREM NoWakeupIsLost ==
  ASSUME MaxLocks = 0
  PROVE  Spec => []NoLostWakeup
  <1>1. Init => NoLostWakeup
    BY DEF Init, NoLostWakeup
  <1>2. LockInv /\ NoLostWakeup /\ [Next]_vars => NoLostWakeup'
    <2> SUFFICES ASSUME LockInv, NoLostWakeup, [Next]_vars
                 PROVE  NoLostWakeup'
      OBVIOUS
    <2>1. ASSUME NEW t \in Threads, Begin(t)
          PROVE  NoLostWakeup'
      BY <2>1 DEF LockInv, TypeOK, NoLostWakeup, Begin, Approach, Goto
    <2>2. ASSUME NEW t \in Threads, Acquire(t) \/ UnLock(t)
          PROVE  NoLostWakeup'
      BY <2>2 DEF LockInv, TypeOK, NoLostWakeup, Acquire, UnLock, LockMutex, Goto
    <2>3. ASSUME NEW t \in Threads, Insert(t)
          PROVE  NoLostWakeup'
      BY <2>3 DEF LockInv, TypeOK, NoLostWakeup, Insert, Approach, Goto
    <2>4. ASSUME NEW t \in Threads, Wait(t)
          PROVE  NoLostWakeup'
      BY <2>4 DEF LockInv, TypeOK, NoLostWakeup, Wait, Busy, Goto
    <2>5. ASSUME NEW t \in Threads, SpuriousWakeup(t)
          PROVE  NoLostWakeup'
      BY <2>5 DEF LockInv, TypeOK, NoLostWakeup, SpuriousWakeup, Goto
    <2>6. ASSUME NEW t \in Threads, Work(t)
          PROVE  NoLostWakeup'
      BY <2>6 DEF LockInv, TypeOK, NoLostWakeup, Work, Approach, Goto
    <2>7. ASSUME NEW t \in Threads, UnLockKey(t)
          PROVE  NoLostWakeup'
      BY <2>7 DEF LockInv, TypeOK, NoLostWakeup, UnLockKey, Goto
    <2>8. ASSUME NEW t \in Threads, NotifyAll(t)
          PROVE  NoLostWakeup'
      BY <2>8 DEF LockInv, TypeOK, NoLostWakeup, NotifyAll, Sleepers, Approach
    <2>9. CASE UNCHANGED vars
      BY <2>9 DEF vars, NoLostWakeup
    <2>10. QED BY <2>1, <2>2, <2>3, <2>4, <2>5, <2>6, <2>7, <2>8, <2>9 DEF Next, Step
  <1>3. QED BY <1>1, <1>2, LockInvHolds, PTL DEF Spec

\* A set of keys that is not empty has a greatest one.
LEMMA GreatestKey ==
  ASSUME NEW S \in SUBSET Keys, S # {}
  PROVE  \E m \in S : \A k \in S : k <= m
  <1> DEFINE T == {LastKey - k : k \in S}
  <1>1. T \subseteq Nat /\ T # {} /\ LastKey \in Nat
    BY LockAssumption DEF Keys
  <1>2. PICK x \in T : \A y \in T : ~ (<<y, x>> \in OpToRel(<, Nat))
    BY <1>1, NatLessThanWellFounded, WFMin
  <1>3. PICK m \in S : x = LastKey - m
    OBVIOUS
  <1>4. ASSUME NEW k \in S
        PROVE  k <= m
    <2>1. ~ (LastKey - k < LastKey - m)
      BY <1>1, <1>2, <1>3 DEF OpToRel
    <2>2. k \in Int /\ m \in Int
      BY DEF Keys
    <2>3. QED BY <1>1, <2>1, <2>2
  <1>5. QED BY <1>4

\* Operations that lock several keys never wait for each other in a circle:
\* the sleeper at the greatest key waits for a thread that is not asleep.
THEOREM NoCircleOfWaiters ==
  ASSUME MaxLocks = 0
  PROVE  Spec => []SomeoneRuns
  <1>1. LockInv /\ NoLostWakeup => SomeoneRuns
    <2> SUFFICES ASSUME LockInv, NoLostWakeup, NEW w \in Threads, pc[w] = "wait",
                        \A t \in Threads : pc[t] \in {"idle", "wait"}
                 PROVE  FALSE
      BY DEF SomeoneRuns
    <2> DEFINE S == {last[t] : t \in {u \in Threads : pc[u] = "wait"}}
    <2>1. S \in SUBSET Keys /\ S # {}
      BY DEF LockInv, TypeOK
    <2>2. PICK m \in S : \A k \in S : k <= m
      BY <2>1, GreatestKey
    <2>3. PICK t \in Threads : pc[t] = "wait" /\ last[t] = m
      OBVIOUS
    <2>4. m \in locked
      BY <2>3 DEF NoLostWakeup
    <2>5. PICK u \in Threads : m \in held[u]
      BY <2>1, <2>4 DEF LockInv, LockedAreHeld
    <2>6. pc[u] = "wait"
      BY <2>5 DEF LockInv, LockedInOrder
    <2>7. m < last[u] /\ last[u] \in S
      BY <2>5, <2>6 DEF LockInv, LockedInOrder
    <2>8. m \in Int /\ last[u] \in Int /\ last[u] <= m
      BY <2>1, <2>2, <2>7 DEF Keys
    <2>9. QED BY <2>7, <2>8
  <1>2. QED BY <1>1, LockInvHolds, NoWakeupIsLost, PTL
=============================================================================
