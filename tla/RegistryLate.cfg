CONSTANTS
  Dev = {1}
  File = {1}
  Backend = {b1}
  Disk = {d1}
  Id = {0}
  Ctl = {}
  Opener = {o1, o2}
  Configfs = FALSE
  None = None
SPECIFICATION Spec
INVARIANTS
  CallbacksEndBeforeClose
