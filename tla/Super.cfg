SPECIFICATION Spec
CONSTANTS
  Name = {"a", "b", "x"}
  Marker <- MCMarker
  e1 = e1
  e2 = e2
  e3 = e3
  Extent = {e1, e2, e3}
  NoExtent = NoExtent
  Slots = 2
  MaxFileId = 3
  Reserved = 0
  Instances <- Devices
INVARIANTS TypeOK ReplayRebuilds CompactionExact NoReuseBeforeDurable SeekDataExact
PROPERTY ForksIsolated
CHECK_DEADLOCK FALSE
