SPECIFICATION Spec
CONSTANTS
  TotalExtents = 5
  RecordEntries = 1
  Slots = 2
  MaxSeq = 4
  Instances <- ReorderingTwice
INVARIANT MountRecovers
CHECK_DEADLOCK FALSE
