\* Three threads, under fairness; keys 0 and 2 share a stripe.
CONSTANTS
  Threads = {t1, t2, t3}
  LastKey = 2
  Stripe <- TwoStripes
  Requests <- SomeRequests
  MaxLocks = 0
  Free = Free
  Rounds = 1
  MaxSpurious = 1
SPECIFICATION FairSpec
INVARIANTS LockInv MutualExclusion NoLostWakeup SomeoneRuns
PROPERTY Served
\* The threads stop when their rounds are used up.
CHECK_DEADLOCK FALSE
