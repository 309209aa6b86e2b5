\* Nothing is assumed of the clock: requests and sleeps take any time, but nobody stops for ever.
\* Lock ids come from the file only (VolumeServeTimely.cfg has --prev-lock-id).
SPECIFICATION FairServeSpec
CONSTANTS
  LockId = {u1, u2}
  NoLock = NoLock
  Handler = {h1, h2}
  NoHandler = NoHandler
  LockTimeout = 0
  MaxTime = 1
  Node = {a, b}
  FileNode = {a}
  FlagNode = {}
  RefreshInterval = 1
  MaxRTT = 0
INVARIANTS
  OwnersDisjoint
PROPERTIES
  LostLockNoticed DeletedNoticed
