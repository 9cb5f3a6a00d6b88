\* Two ends of agreeing and disagreeing opcodes, two calls each, one frame in each direction.
CONSTANTS
  OpCodes <- Pairs
  PipeCap = 1
  MaxCalls = 2
SPECIFICATION FairSpec
INVARIANT TypeOK
PROPERTIES
  MutualOnly
  PoliteCloses
\* The connection really ends, and two ends may wait for each other.
CHECK_DEADLOCK FALSE
