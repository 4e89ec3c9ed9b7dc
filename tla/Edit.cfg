SPECIFICATION FairSpec
CONSTANTS
  MaxCommands = 4
  Inflight = 1
INVARIANTS
  SerialExecution
  NoLostWakeup
  ContextAlive
  SuccessIsDurable
PROPERTIES
  Terminates
