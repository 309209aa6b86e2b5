SPECIFICATION ContentSpec
CONSTANTS
  Sizes = {7, 8}
  ChunkSize = 2
  Piece = 3
  SuperChunk = 3
  SequentialFills = 1
  MaxCachedChunks = 2
  MaxCuts = 1
  MaxUncounted = 2
  MaxFilled = 5
INVARIANTS
  DataUnlessCut
  CacheBounded
  JustReadStays
