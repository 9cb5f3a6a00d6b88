\* Three requests on a backlog of one, and two goroutines that close.
CONSTANTS
  Conns = {c1, c2, c3}
  NoConn = NoConn
  Closers = {k1, k2}
  Backlog = 1
SPECIFICATION FairSpec
INVARIANTS
  TypeOK
  OneOwner
  DrainCoversEarly
PROPERTIES
  HandsOver
  GoroutinesEnd
  AcceptEnds
\* The acceptor really stops: after Close, a failed Listen or a panic.
CHECK_DEADLOCK FALSE
