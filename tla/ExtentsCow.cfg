\* Two threads write a slot above parent data; one deletes it.  The
\* device may fail, and cyanfs_requeue may run out of memory.
CONSTANTS
  TotalExtents = 3
  t1 = t1
  t2 = t2
  Thread = {t1, t2}
  Calls <- WriteVersusDelete
  File = {f1}
  Cow = {f1}
  Timer = timer
  Exec = exec
  Flusher = {p1}
  None = none
  Reserved = 0
  MaxInflight = 0
  InflightDivisor = 2
  MaxJournal = 1
  MaxJournalExtents = 1
  DiscardEnabled = FALSE
  IoMayFail = TRUE
  RequeueMayFail = TRUE
SPECIFICATION Spec
INVARIANTS
  CopyDurableBeforeBind
  DurableBeforeReuse
CHECK_DEADLOCK FALSE
