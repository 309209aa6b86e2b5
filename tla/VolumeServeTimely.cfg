\* Two machines, one with a lock id file and --prev-lock-id, the tightest timeout the assumption allows.
SPECIFICATION TimelySpec
CONSTANTS
  LockId = {u1, u2, u3}
  NoLock = NoLock
  Handler = {h1, h2}
  NoHandler = NoHandler
  LockTimeout = 4
  MaxTime = 6
  Node = {a, b}
  FileNode = {a}
  FlagNode = {a}
  RefreshInterval = 1
  MaxRTT = 1
SYMMETRY MCSymmetry
INVARIANTS
  MutualExclusion
  ServingHoldsLock
  FileCurrent
PROPERTIES
  RefreshKeepsId
