CONSTANTS
  Dev = {1}
  File = {1, 2}
  Backend = {b1, b2}
  Disk = {d1, d2}
  Id = {0, 1}
  Ctl = {c1}
  Opener = {o1}
  Configfs = TRUE
  None = None
SPECIFICATION FairSpec
INVARIANTS
  OneSuperPerDevice
  FilesCountHandles
  TreesAlive
  OnlyReadersLost
  OpenersKeepTheirDisk
  ListingComplete
PROPERTIES
  DeviceGivenBack
CONSTRAINT NotStolen
