\* One list of up to four nodes of two values: what every handler does to it.
CONSTANTS
  NoMeta = NoMeta
  NoKey = NoKey
  NoValue = NoValue
  Keys = {k1}
  Half = 3
  Members <- AllIndices
  Values = {v1, v2}
  PushArgs <- Pushes
  Indexes <- AllArguments
  MaxRecords = 4
  Ttls = {}
  Timestamps = {}
  MaxTime = 1
  MaxVersion = 2
SYMMETRY ValueSymmetry
SPECIFICATION UnracedSpec
INVARIANTS ListsInv ReadsAsPromised
PROPERTIES HandlersDoAsPromised
CHECK_DEADLOCK FALSE
