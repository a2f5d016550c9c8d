\* Two keys, two bytes between them, calls in several steps, expiry, compaction.
CONSTANTS
  NoValue = NoValue
  NoCall = NoCall
  Keys = {1, 2}
  Width = 2
  WordBytes = 2
  Registers = 1
  MaxInt = 1
  Modulus = 64
  BatchLimit = 1
  MaxTimestamp = 2
  Texts <- SomeTexts
  Numbers <- SomeNumbers
  Offsets = {0, 1, 2}
  Indexes <- SomeIndexes
  Ttls <- SomeTtls
  Timestamps = {1}
  Calls <- SomeCalls
  MaxTime = 2
  MaxBytes = 2
  MaxRacedBytes = 0
SPECIFICATION Spec
INVARIANTS StringsInv ReadsAsPromised
PROPERTY HandlersDoAsPromised
CHECK_DEADLOCK FALSE
