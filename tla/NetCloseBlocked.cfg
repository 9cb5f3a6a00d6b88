\* One client, which speaks or not, and one goroutine that closes.
CONSTANTS
  Conns = {c1}
  NoConn = NoConn
  Closers = {k1}
SPECIFICATION FairSpec
PROPERTIES
  CloseUnblocksAccept
\* The acceptor really stops: after Close or a panic.
CHECK_DEADLOCK FALSE
