\* Two writers and the reader share a buffer and a socket of one piece each.
CONSTANTS
  Writers = {w1, w2}
  Reader = Reader
  Nobody = Nobody
  BufCap = 1
  PipeCap = 1
  MaxCalls = 3
  MaxIn = 2
SPECIFICATION FairSpec
INVARIANTS
  TypeOK
  FramesWhole
  FlushCovers
PROPERTY WaitsOnPeerOnly
\* The reader gives up, the peer may stop and the writers have no more calls.
CHECK_DEADLOCK FALSE
