\* One key through three seconds: renewal, expiry and a compaction between any two handlers.
CONSTANTS
  NoMeta = NoMeta
  NoKey = NoKey
  Keys = {k1}
  Members = {f1, f2}
  Ttls <- AnyTtl
  Timestamps <- AnyTimestamp
  MaxTime = 3
  MaxVersion = 4
SYMMETRY MemberSymmetry
SPECIFICATION HashesSpec
INVARIANTS StoreTypeOK VersionsBehindMeta LengthCountsMembers StoreInv
PROPERTIES NothingResurfaces BackgroundInvisible
CHECK_DEADLOCK FALSE
