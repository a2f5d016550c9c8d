\* A handler of the key between the read and the write of its RPush.
CONSTANTS
  NoMeta = NoMeta
  NoKey = NoKey
  NoValue = NoValue
  Keys = {k1}
  Half = 2
  Members <- AllIndices
  Values = {v1}
  PushArgs <- Pushes
  Indexes <- AllArguments
  MaxRecords = 2
  Ttls = {}
  Timestamps = {}
  MaxTime = 1
  MaxVersion = 1
SPECIFICATION Spec
INVARIANTS LengthAlwaysCountsMembers
CHECK_DEADLOCK FALSE
