\* Two lists: RPoplpush between them while compaction crosses from one to the other.
CONSTANTS
  NoMeta = NoMeta
  NoKey = NoKey
  NoValue = NoValue
  Keys = {k1, k2}
  Half = 2
  Members <- AllIndices
  Values = {v1}
  PushArgs <- Pushes
  Indexes <- AllArguments
  MaxRecords = 3
  Ttls = {}
  Timestamps = {1}
  MaxTime = 2
  MaxVersion = 2
SYMMETRY KeySymmetry
SPECIFICATION UnracedSpec
INVARIANTS ListsInv
PROPERTIES KeepsListPromise
CHECK_DEADLOCK FALSE
