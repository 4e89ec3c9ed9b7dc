CONSTANTS
  Disk = {d1, d2}
  File = {f1, f2}
  Shared = {f2}
  None = None
SPECIFICATION FairSpec
INVARIANTS
  ChildrenSettled
  NothingDangling
  DriverStopsClean
PROPERTIES
  CallsReturn
CHECK_DEADLOCK FALSE
