\* Two types, two keys, three tasks, under fairness.
CONSTANTS
  Types = {hashes, sets}
  Keys = {k1, k2}
  All = All
  None = None
  MaxTasks = 3
  MaxSpurious = 1
SPECIFICATION FairSpec
INVARIANTS TasksInv NothingForgotten RunsOnce AwakeWithWork IdleIsNone
PROPERTY Compacted
\* The program stops when it has been closed.
CHECK_DEADLOCK FALSE
