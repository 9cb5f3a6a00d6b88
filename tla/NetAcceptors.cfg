\* Two connections, each of a client that speaks or not, two goroutines that close.
CONSTANTS
  Conns = {c1, c2}
  NoConn = NoConn
  Closers = {k1, k2}
SPECIFICATION FairSpec
INVARIANTS
  TypeOK
  LateCallsHarmless
PROPERTIES
  HandsOver
  CloseEndsAccept
  ServesWaiting
\* The acceptor really stops: after Close or a panic.
CHECK_DEADLOCK FALSE
