\* One peer, the application closes while a datagram is pushed.
CONSTANTS
  Addrs = {a1}
  Transports = {t1, t2}
  NoTransport = NoTransport
  Closers = {c1}
  MainLoop = MainLoop
  ListenerClosers = {l1}
  MaxBacklog = 1
  QueueCap = 1
  MaxPackets = 3
  MaxReads = 2
SYMMETRY Symmetry
SPECIFICATION Spec
INVARIANT ClosedPushIsRefused
CHECK_DEADLOCK FALSE
