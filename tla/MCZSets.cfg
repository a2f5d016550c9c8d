\* One key, two members, two scores: walks beside dead versions, two compactions.
CONSTANTS
  NoMeta = NoMeta
  NoKey = NoKey
  NoSnapshot = NoSnapshot
  Keys = {1}
  Members = {1, 2}
  NoMember = 0
  Scores = {1, 2}
  LowestScore = 0
  TopScore = 3
  Intervals <- SomeIntervals
  LexIntervals <- SomeIntervals
  Indexes <- SomeIndexes
  Increments = {1}
  StoreArgs <- SomeStoreArgs
  BatchLimit = 1
  Ttls = {0}
  Timestamps = {1}
  MaxTime = 2
  MaxVersion = 2
  MaxRecords = 3
SPECIFICATION UnracedSpec
INVARIANTS ZSetsInv ReadsAsPromised
PROPERTIES HandlersDoAsPromised KeepsZSetPromise
CHECK_DEADLOCK FALSE
