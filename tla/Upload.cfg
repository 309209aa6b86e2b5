SPECIFICATION FairSpec
CONSTANTS
  Clients = {c1, c2, c3}
  Nobody = Nobody
  Nothing = Nothing
  Chunks = 2
INVARIANTS
  ShortOnlyIfGone
PROPERTIES
  AckedIsWhole
  PutEnds
  PutSpec
CHECK_DEADLOCK FALSE
