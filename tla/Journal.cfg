SPECIFICATION Spec
CONSTANTS
  TotalExtents = 5
  RecordEntries = 1
  Slots = 2
  MaxSeq = 4
  Instances <- Devices
INVARIANTS MountRecovers CrashImageKept ExtentsAccounted
PROPERTY DurableMetadata
CHECK_DEADLOCK FALSE
