\* One thread writes a plain slot and another discards it; DISCARD is enabled.
CONSTANTS
  TotalExtents = 3
  t1 = t1
  t2 = t2
  Thread = {t1, t2}
  Calls <- WriteVersusDiscard
  File = {f1}
  Cow = {}
  Timer = timer
  Exec = exec
  Flusher = {p1, p2}
  None = none
  Reserved = 0
  MaxInflight = 1
  InflightDivisor = 1
  MaxJournal = 1
  MaxJournalExtents = 2
  DiscardEnabled = TRUE
  IoMayFail = FALSE
  RequeueMayFail = FALSE
SPECIFICATION Spec
INVARIANTS
  TypeOK
  ExtentsPartitioned
  NoWriterOnReclaimedExtent
  DurableBeforeReuse
  DiscardTaskUnique
SYMMETRY Symmetry
CHECK_DEADLOCK FALSE
