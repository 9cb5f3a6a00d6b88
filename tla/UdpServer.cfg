\* Two peers, a transport may be closed and made again for its peer; full
\* queues, and a shutdown while mainLoop sleeps.
CONSTANTS
  Addrs = {a1, a2}
  Transports = {t1, t2}
  NoTransport = NoTransport
  Closers = {c1}
  MainLoop = MainLoop
  ListenerClosers = {l1}
  MaxBacklog = 1
  QueueCap = 2
  MaxPackets = 4
  MaxReads = 1
SPECIFICATION FairSpec
INVARIANTS
  TypeOK
  OneLivePerPeer
  LiveIsRouted
  DoneClosesChildren
  QueuesRoutedInOrder
PROPERTIES
  ForgottenStaysForgotten
  ShutdownOrBackPressure
  AcceptEnds
\* The server really stops: after a shutdown or a panic.
CHECK_DEADLOCK FALSE
