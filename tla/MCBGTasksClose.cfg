\* The destructor signals between the thread's look at the flag and its Wait.
CONSTANTS
  Types = {hashes}
  Keys = {k1}
  All = All
  None = None
  MaxTasks = 1
  MaxSpurious = 0
SPECIFICATION FairSpec
PROPERTY Closes
CHECK_DEADLOCK FALSE
