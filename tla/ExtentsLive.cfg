\* Every extent given up is reclaimed, and a requeued write resumes.
CONSTANTS
  TotalExtents = 2
  t1 = t1
  t2 = t2
  Thread = {t1, t2}
  Calls <- WriteVersusTruncate
  File = {f1}
  Cow = {f1}
  Timer = timer
  Exec = exec
  Flusher = {p1}
  None = none
  Reserved = 0
  MaxInflight = 0
  InflightDivisor = 2
  MaxJournal = 1
  MaxJournalExtents = 1
  DiscardEnabled = TRUE
  IoMayFail = FALSE
  RequeueMayFail = FALSE
SPECIFICATION FairSpec
INVARIANTS
  NoBug
PROPERTIES
  EveryExtentReclaimed
  RequeuedWriteResumes
CHECK_DEADLOCK FALSE
