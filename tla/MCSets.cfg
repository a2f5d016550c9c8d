\* Two sets of one member: moves between them, *store over them, compaction meanwhile.
CONSTANTS
  NoMeta = NoMeta
  NoKey = NoKey
  Keys = {k1, k2}
  Members = {m1}
  Ttls <- PastTtl
  Timestamps = {1}
  RemArgs <- DistinctArgs
  MaxTime = 3
  MaxVersion = 3
SYMMETRY KeySymmetry
SPECIFICATION UnracedSpec
INVARIANTS SetsInv LengthAlwaysCountsMembers
PROPERTIES NothingResurfaces KeepsPromise
CHECK_DEADLOCK FALSE
