SPECIFICATION FairSpec
CONSTANTS
  c1 = c1
  v1 = v1
  Ctl = {c1}
  Vdisk = {v1}
  MaxAppends = 2
  Instances <- Setups
INVARIANTS FlushedIsDurable ClosedQuiet
PROPERTIES EveryCallReturns EntriesWritten
CHECK_DEADLOCK FALSE
