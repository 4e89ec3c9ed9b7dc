SPECIFICATION Spec
CONSTANTS
  TotalExtents = 5
  RecordEntries = 1
  Slots = 2
  MaxSeq = 4
  Instances <- CompactedTwice
INVARIANT CompactionLoads
CHECK_DEADLOCK FALSE
