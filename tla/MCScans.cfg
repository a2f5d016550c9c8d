\* Two scans of two databases and three collections, one change meanwhile, caches of five entries.
CONSTANTS
  All = All
  NoStart = NoStart
  Keys = {1, 2, 3}
  Types <- TwoTypes
  Collections = {3, 4, 5}
  Base = 2
  MaxVersion = 5
  Requests <- SomeRequests
  Scanners = {s1, s2}
  Capacity = 5
  Initial <- SomeContents
  MaxChanges = 1
SPECIFICATION FairSpec
INVARIANTS ScansInv CursorsInv ScanFindsAll ReturnsOnce
PROPERTIES ScansEnd
CHECK_DEADLOCK FALSE
