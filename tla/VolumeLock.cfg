\* Three concurrent requests, three uuids; a lock can expire before the clock stops.
SPECIFICATION LockSpec
CONSTANTS
  LockId = {u1, u2, u3}
  NoLock = NoLock
  Handler = {h1, h2, h3}
  LockTimeout = 1
  MaxTime = 3
SYMMETRY MCSymmetry
INVARIANTS
  NoResurrection
  Promise
PROPERTIES
  LeaseSpec
