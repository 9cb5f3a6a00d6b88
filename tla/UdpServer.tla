------------------------------ MODULE UdpServer ------------------------------
(***************************************************************************)
(* The server half of the UDP transport: udp/factory.go (udpAcceptor and   *)
(* its mainLoop) together with udp/transport.go (udpServerTransport).      *)
(*                                                                         *)
(* One goroutine, mainLoop, reads the shared socket, demultiplexes by      *)
(* remote address, hands new transports to Accept over the channel         *)
(* `incoming' and pushes datagrams into the channel `receivedQueue' of     *)
(* their transport.  The application closes and reads transports from      *)
(* goroutines of its own, and closes the acceptor from yet another one.    *)
(*                                                                         *)
(* Two things are Go's and not the program's: a select with several ready  *)
(* cases takes any of them, and sending on or closing a closed channel     *)
(* panics, which stops the process (`crashed').                            *)
(***************************************************************************)
EXTENDS Naturals, Sequences, FiniteSets

CONSTANTS
  Addrs,            \* remote addresses (raddr.String(), the keys of the map)
  Transports,       \* identities of udpServerTransport objects
  NoTransport,      \* Go's nil for a transport, and "not in the map"
  Closers,          \* application goroutines that call transport.Close
  MainLoop,         \* the mainLoop goroutine, a closer too when it drains
  ListenerClosers,  \* goroutines that call udpAcceptor.Close
  MaxBacklog,       \* capacity of `incoming' (Options.MaxBacklog)
  QueueCap,         \* capacity of `receivedQueue' (128 in the code)
  MaxPackets,       \* bound: datagrams mainLoop reads
  MaxReads          \* bound: Reads the application completes per transport

ASSUME UdpAssumption ==
  /\ NoTransport \notin Transports \cup Addrs
  /\ MainLoop \notin Closers
  /\ MaxBacklog \in Nat \ {0}
  /\ QueueCap \in Nat \ {0}
  /\ MaxPackets \in Nat
  /\ MaxReads \in Nat

VARIABLES
  mlPc,        \* where mainLoop is
  cur,         \* mainLoop's local `trans'
  src,         \* address of the datagram mainLoop holds
  nread,       \* datagrams read so far; also the number of the one in hand
  parked,      \* mainLoop sleeps inside received's select
  transports,  \* udpAcceptor.transports
  incoming,    \* the channel udpAcceptor.incoming
  handed,      \* transports Accept has returned
  acceptPc,    \* the accept loop: "wait" or "stopped"
  accClosed,   \* udpAcceptor.closed is closed
  sockOpen,    \* the UDP socket is open
  deadline,    \* a read deadline of the shared socket has passed
  lisPc,       \* where each caller of udpAcceptor.Close is
  raddr,       \* udpServerTransport.raddr; NoTransport: not created yet
  closed,      \* udpServerTransport.closed is closed
  queueClosed, \* udpServerTransport.receivedQueue is closed
  queue,       \* udpServerTransport.receivedQueue
  recvPkt,     \* udpServerTransport.recvPkt
  got,         \* history: what each Read that returned io.EOF gave its caller
  stage,       \* where each caller of udpServerTransport.Close is
  target,      \* the transport that caller is closing
  crashed      \* "no", or the panic that stopped the process

loopVars   == <<mlPc, cur, src, nread, parked, transports>>
acceptVars == <<incoming, handed, acceptPc>>
listenVars == <<accClosed, sockOpen, deadline, lisPc>>
transVars  == <<raddr, closed, queueClosed, queue>>
readVars   == <<recvPkt, got>>
closeVars  == <<stage, target>>
vars == <<mlPc, cur, src, nread, parked, transports, incoming, handed,
          acceptPc, accClosed, sockOpen, deadline, lisPc, raddr, closed,
          queueClosed, queue, recvPkt, got, stage, target, crashed>>

Packet == [from : Addrs, no : Nat]
NoPacket == [from |-> NoTransport, no |-> 0]
AllClosers == Closers \cup {MainLoop}
Created == {t \in Transports : raddr[t] # NoTransport}

(* A panic stops every goroutine.                                          *)
Running == crashed = "no"

SendPanic == "send on closed channel"
ClosePanic == "close of closed channel"

TypeOK ==
  /\ mlPc \in {"read", "push", "drain", "done"}
  /\ cur \in Transports \cup {NoTransport}
  /\ src \in Addrs \cup {NoTransport}
  /\ nread \in Nat
  /\ parked \in BOOLEAN
  /\ transports \in [Addrs -> Transports \cup {NoTransport}]
  /\ incoming \in Seq(Transports) /\ Len(incoming) <= MaxBacklog
  /\ handed \subseteq Transports
  /\ acceptPc \in {"wait", "stopped"}
  /\ accClosed \in BOOLEAN
  /\ sockOpen \in BOOLEAN
  /\ deadline \in BOOLEAN
  /\ lisPc \in [ListenerClosers -> {"idle", "checked", "signalled", "returned"}]
  /\ raddr \in [Transports -> Addrs \cup {NoTransport}]
  /\ closed \in [Transports -> BOOLEAN]
  /\ queueClosed \in [Transports -> BOOLEAN]
  /\ queue \in [Transports -> Seq(Packet)]
  /\ \A t \in Transports : Len(queue[t]) <= QueueCap
  /\ recvPkt \in [Transports -> Packet \cup {NoPacket}]
  /\ got \in [Transports -> Seq(Packet \cup {NoPacket})]
  /\ stage \in [AllClosers -> {"idle", "checked", "half"}]
  /\ target \in [AllClosers -> Transports \cup {NoTransport}]
  /\ crashed \in {"no", SendPanic, ClosePanic}

(* Listen: the acceptor is made and `go ua.mainLoop()' started. *)
Init ==
  /\ mlPc = "read"
  /\ cur = NoTransport
  /\ src = NoTransport
  /\ nread = 0
  /\ parked = FALSE
  /\ transports = [a \in Addrs |-> NoTransport]
  /\ incoming = <<>>
  /\ handed = {}
  /\ acceptPc = "wait"
  /\ accClosed = FALSE
  /\ sockOpen = TRUE
  /\ deadline = FALSE
  /\ lisPc = [l \in ListenerClosers |-> "idle"]
  /\ raddr = [t \in Transports |-> NoTransport]
  /\ closed = [t \in Transports |-> FALSE]
  /\ queueClosed = [t \in Transports |-> FALSE]
  /\ queue = [t \in Transports |-> <<>>]
  /\ recvPkt = [t \in Transports |-> NoPacket]
  /\ got = [t \in Transports |-> <<>>]
  /\ stage = [c \in AllClosers |-> "idle"]
  /\ target = [c \in AllClosers |-> NoTransport]
  /\ crashed = "no"

-----------------------------------------------------------------------------
(* mainLoop: udp/factory.go lines 122-161.                                 *)

(* The map's key: raddr.String(), the whole address, port included.        *)
KeyWithoutPort(a) == CHOOSE b \in Addrs : TRUE
Key(a) == a

Reading ==
  Running /\ mlPc = "read" /\ sockOpen /\ ~deadline /\ nread < MaxPackets

(* ReadFromUDP returns a datagram of address a; its transport is looked up. *)
RouteKnown(a) ==
  /\ Reading
  /\ transports[Key(a)] # NoTransport
  /\ mlPc' = "push"
  /\ cur' = transports[Key(a)]
  /\ src' = a
  /\ nread' = nread + 1
  /\ UNCHANGED <<parked, transports, acceptVars, listenVars, transVars,
                 readVars, closeVars, crashed>>

(* The first datagram of an unknown address: a new transport is offered to *)
(* Accept and, when `incoming' takes it, registered.  The map is mainLoop's *)
(* own, so offering and registering are one step for everybody else.       *)
RouteNew(a, t) ==
  /\ Reading
  /\ transports[Key(a)] = NoTransport
  /\ t \notin Created
  /\ Len(incoming) < MaxBacklog
  /\ incoming' = Append(incoming, t)
  /\ transports' = [transports EXCEPT ![Key(a)] = t]
  /\ raddr' = [raddr EXCEPT ![t] = a]
  /\ mlPc' = "push"
  /\ cur' = t
  /\ src' = a
  /\ nread' = nread + 1
  /\ UNCHANGED <<parked, handed, acceptPc, listenVars, closed, queueClosed,
                 queue, readVars, closeVars, crashed>>

(* "acceptor is too slower": the datagram and its transport are dropped.   *)
RouteRefused(a) ==
  /\ Reading
  /\ transports[Key(a)] = NoTransport
  /\ Len(incoming) >= MaxBacklog
  /\ nread' = nread + 1
  /\ UNCHANGED <<mlPc, cur, src, parked, transports, acceptVars, listenVars,
                 transVars, readVars, closeVars, crashed>>

(* The two cases of received's select.                                     *)
HasRoomOffByOne(t) == Len(queue[t]) <= QueueCap
HasRoom(t) == Len(queue[t]) < QueueCap

SeenClosedWhenFull(t) == closed[t] \/ ~HasRoom(t)
SeenClosed(t) == closed[t]

(* received returned and the loop goes round with `map' as its map.        *)
EndPush(map) ==
  /\ mlPc' = "read"
  /\ cur' = NoTransport
  /\ src' = NoTransport
  /\ parked' = FALSE
  /\ transports' = map
  /\ UNCHANGED nread

(* received, case `u.receivedQueue <- data'.  A select that sleeps and is  *)
(* woken by close(u.closed) has made its choice, so a parked send needs an *)
(* open transport; one that arrives when both cases are ready may take it. *)
PushDelivered ==
  /\ Running
  /\ mlPc = "push"
  /\ ~queueClosed[cur]
  /\ HasRoom(cur)
  /\ parked => ~closed[cur]
  /\ queue' = [queue EXCEPT ![cur] = Append(@, [from |-> src, no |-> nread])]
  /\ EndPush(transports)
  /\ UNCHANGED <<acceptVars, listenVars, raddr, closed, queueClosed,
                 readVars, closeVars, crashed>>

(* received, case `<-u.closed': mainLoop forgets the transport.            *)
PushRejected ==
  /\ Running
  /\ mlPc = "push"
  /\ SeenClosed(cur)
  /\ EndPush([transports EXCEPT ![Key(src)] = NoTransport])
  /\ UNCHANGED <<acceptVars, listenVars, transVars, readVars, closeVars,
                 crashed>>

(* received finds the queue full and the transport open: it sleeps.        *)
PushParks ==
  /\ Running
  /\ mlPc = "push"
  /\ ~parked
  /\ ~SeenClosed(cur)
  /\ ~HasRoom(cur)
  /\ parked' = TRUE
  /\ UNCHANGED <<mlPc, cur, src, nread, transports, acceptVars, listenVars,
                 transVars, readVars, closeVars, crashed>>

(* received evaluates the send case on a closed receivedQueue: panic.      *)
PushPanics ==
  /\ Running
  /\ mlPc = "push"
  /\ ~parked
  /\ queueClosed[cur]
  /\ crashed' = SendPanic
  /\ UNCHANGED <<loopVars, acceptVars, listenVars, transVars, readVars,
                 closeVars>>

(* ReadFromUDP fails: the socket is closed, or some transport armed a read *)
(* deadline on the socket all of them share.                               *)
ReadErrsOnDeadlineOnly == deadline
ReadErrs == ~sockOpen \/ deadline

ReadFails ==
  /\ Running
  /\ mlPc = "read"
  /\ ReadErrs
  /\ mlPc' = "drain"
  /\ UNCHANGED <<cur, src, nread, parked, transports, acceptVars, listenVars,
                 transVars, readVars, closeVars, crashed>>

-----------------------------------------------------------------------------
(* udpServerTransport.Close: udp/transport.go lines 134-142, in the three  *)
(* steps another goroutine can come between.  A call that finds `closed'   *)
(* closed returns at once.                                                 *)

CloseBegins(c, t) ==
  /\ stage[c] = "idle"
  /\ IF closed[t]
       THEN UNCHANGED closeVars
       ELSE /\ stage' = [stage EXCEPT ![c] = "checked"]
            /\ target' = [target EXCEPT ![c] = t]

CloseSignals(c) ==
  /\ Running
  /\ stage[c] = "checked"
  /\ IF closed[target[c]]
       THEN crashed' = ClosePanic /\ UNCHANGED <<closed, stage>>
       ELSE /\ closed' = [closed EXCEPT ![target[c]] = TRUE]
            /\ stage' = [stage EXCEPT ![c] = "half"]
            /\ UNCHANGED crashed
  /\ UNCHANGED <<loopVars, acceptVars, listenVars, raddr, queueClosed, queue,
                 readVars, target>>

CloseQueue(c) ==
  /\ Running
  /\ stage[c] = "half"
  /\ queueClosed' = [queueClosed EXCEPT ![target[c]] = TRUE]
  /\ stage' = [stage EXCEPT ![c] = "idle"]
  /\ target' = [target EXCEPT ![c] = NoTransport]
  /\ UNCHANGED <<loopVars, acceptVars, listenVars, raddr, closed, queue,
                 readVars, crashed>>

(* The application closes a transport it was handed.                       *)
AppCloses(c, t) ==
  /\ Running
  /\ t \in handed
  /\ ~closed[t]
  /\ CloseBegins(c, t)
  /\ UNCHANGED <<loopVars, acceptVars, listenVars, transVars, readVars,
                 crashed>>

(* "closed all child transports": one iteration of the range over the map. *)
DrainNext(a) ==
  /\ Running
  /\ mlPc = "drain"
  /\ transports[a] # NoTransport
  /\ transports' = [transports EXCEPT ![a] = NoTransport]
  /\ CloseBegins(MainLoop, transports[a])
  /\ UNCHANGED <<mlPc, cur, src, nread, parked, acceptVars, listenVars,
                 transVars, readVars, crashed>>

DrainedOne == \E a \in Addrs : transports[a] = NoTransport
Drained == \A a \in Addrs : transports[a] = NoTransport

DrainDone ==
  /\ Running
  /\ mlPc = "drain"
  /\ stage[MainLoop] = "idle"
  /\ Drained
  /\ mlPc' = "done"
  /\ UNCHANGED <<cur, src, nread, parked, transports, acceptVars, listenVars,
                 transVars, readVars, closeVars, crashed>>

-----------------------------------------------------------------------------
(* udpServerTransport.Read: udp/transport.go lines 102-124.                *)

(* The guard of line 104, as it is written: `nil != u.recvPkt'.            *)
TakesPacket(t) == recvPkt[t] # NoPacket

(* A Read whose buffer is long enough.  Line 105 waits for a packet or the *)
(* end of the queue, and a closed and empty queue makes Read fail, which   *)
(* changes nothing.                                                        *)
Read(t) ==
  /\ Running
  /\ t \in handed
  /\ Len(got[t]) < MaxReads
  /\ TakesPacket(t) => queue[t] # <<>>
  /\ queue' = IF TakesPacket(t) THEN [queue EXCEPT ![t] = Tail(@)] ELSE queue
  /\ got' = [got EXCEPT ![t] =
       Append(@, IF TakesPacket(t) THEN Head(queue[t]) ELSE recvPkt[t])]
  /\ recvPkt' = [recvPkt EXCEPT ![t] = NoPacket]
  /\ UNCHANGED <<loopVars, acceptVars, listenVars, raddr, closed,
                 queueClosed, closeVars, crashed>>

(* The embedded *net.UDPConn gives every transport SetReadDeadline of the  *)
(* shared socket; the time it was given passes.                            *)
DeadlinePasses(t) ==
  /\ Running
  /\ t \in handed
  /\ ~deadline
  /\ deadline' = TRUE
  /\ UNCHANGED <<loopVars, acceptVars, accClosed, sockOpen, lisPc, transVars,
                 readVars, closeVars, crashed>>

-----------------------------------------------------------------------------
(* udpAcceptor.Accept and Close: udp/factory.go lines 97-120.              *)

AcceptReturns ==
  /\ Running
  /\ acceptPc = "wait"
  /\ incoming # <<>>
  /\ handed' = handed \cup {Head(incoming)}
  /\ incoming' = Tail(incoming)
  /\ UNCHANGED <<acceptPc, loopVars, listenVars, transVars, readVars,
                 closeVars, crashed>>

(* "udp listener closed": the accept loop ends.                            *)
SeesLoopDone == mlPc = "done"
SeesClosed == accClosed

AcceptFails ==
  /\ Running
  /\ acceptPc = "wait"
  /\ SeesClosed
  /\ acceptPc' = "stopped"
  /\ UNCHANGED <<incoming, handed, loopVars, listenVars, transVars, readVars,
                 closeVars, crashed>>

(* The select of Close: a closed acceptor answers "close a closed listener". *)
ListenerCloseBegins(l) ==
  /\ Running
  /\ lisPc[l] = "idle"
  /\ lisPc' = [lisPc EXCEPT ![l] = IF accClosed THEN "returned" ELSE "checked"]
  /\ UNCHANGED <<loopVars, acceptVars, accClosed, sockOpen, deadline,
                 transVars, readVars, closeVars, crashed>>

ListenerCloseSignals(l) ==
  /\ Running
  /\ lisPc[l] = "checked"
  /\ IF accClosed
       THEN crashed' = ClosePanic /\ UNCHANGED <<accClosed, lisPc>>
       ELSE /\ accClosed' = TRUE
            /\ lisPc' = [lisPc EXCEPT ![l] = "signalled"]
            /\ UNCHANGED crashed
  /\ UNCHANGED <<loopVars, acceptVars, sockOpen, deadline, transVars,
                 readVars, closeVars>>

ListenerClosesSocket(l) ==
  /\ Running
  /\ lisPc[l] = "signalled"
  /\ sockOpen' = FALSE
  /\ lisPc' = [lisPc EXCEPT ![l] = "returned"]
  /\ UNCHANGED <<loopVars, acceptVars, accClosed, deadline, transVars,
                 readVars, closeVars, crashed>>

-----------------------------------------------------------------------------
(* What mainLoop does on its own, without a datagram arriving.             *)
MainLoopStep ==
  \/ PushDelivered
  \/ PushRejected
  \/ PushParks
  \/ PushPanics
  \/ ReadFails
  \/ \E a \in Addrs : DrainNext(a)
  \/ DrainDone
  \/ CloseSignals(MainLoop)
  \/ CloseQueue(MainLoop)

Datagram ==
  \/ \E a \in Addrs : RouteKnown(a)
  \/ \E a \in Addrs, t \in Transports : RouteNew(a, t)
  \/ \E a \in Addrs : RouteRefused(a)

AppCloseStep(c) == CloseSignals(c) \/ CloseQueue(c)

App ==
  \/ \E c \in Closers, t \in Transports : AppCloses(c, t)
  \/ \E c \in Closers : AppCloseStep(c)
  \/ \E t \in Transports : Read(t)
  \/ \E t \in Transports : DeadlinePasses(t)

AcceptLoop == AcceptReturns \/ AcceptFails

ListenerCloseStep(l) == ListenerCloseSignals(l) \/ ListenerClosesSocket(l)

ListenerClose ==
  \/ \E l \in ListenerClosers : ListenerCloseBegins(l)
  \/ \E l \in ListenerClosers : ListenerCloseStep(l)

Next ==
  \/ Datagram
  \/ MainLoopStep
  \/ App
  \/ AcceptLoop
  \/ ListenerClose

(* The Go scheduler runs every goroutine that can run; whether a datagram  *)
(* arrives, and whether the application calls anything, is not assumed. A  *)
(* reader calls Read again as long as its transport is open (the channel's *)
(* read loop).                                                             *)
Fairness ==
  /\ WF_vars(MainLoopStep)
  /\ WF_vars(AcceptLoop)
  /\ \A c \in Closers : WF_vars(AppCloseStep(c))
  /\ \A l \in ListenerClosers : WF_vars(ListenerCloseStep(l))
  /\ \A t \in Transports : WF_vars(Read(t))

Spec == Init /\ [][Next]_vars

FairSpec == Spec /\ Fairness

-----------------------------------------------------------------------------
(* Properties.                                                             *)

(* Two transports of one remote address are never both open: mainLoop      *)
(* forgets a transport only when received says it is closed, so a peer's   *)
(* datagrams are never split between two channels the application holds.   *)
OneLivePerPeer ==
  \A t, u \in Created :
    t # u /\ raddr[t] = raddr[u] => closed[t] \/ closed[u]

(* Until mainLoop drains, an open transport is reachable through the map   *)
(* under its own address: none is orphaned, and none takes a neighbour's   *)
(* place (udp/factory.go lines 137-158).                                   *)
LiveIsRouted ==
  mlPc \in {"read", "push"} =>
    \A t \in Created : ~closed[t] => transports[raddr[t]] = t

(* "closed all child transports" (udp/factory.go line 129): when mainLoop  *)
(* has returned, every transport it ever made is closed, those still in    *)
(* `incoming' included, whoever else was closing them at the time.         *)
DoneClosesChildren ==
  mlPc = "done" => \A t \in Created : closed[t]

(* A transport's queue holds datagrams of its own peer only, in the order  *)
(* the socket gave them, whatever closes and re-creations came between.    *)
QueuesRoutedInOrder ==
  \A t \in Transports : \A i \in 1..Len(queue[t]) :
    /\ queue[t][i].from = raddr[t]
    /\ queue[t][i].no <= nread
    /\ \A j \in 1..(i - 1) : queue[t][j].no < queue[t][i].no

(* mainLoop forgets a transport only when it is closed or the loop drains, *)
(* and never routes to it again: a transport that is registered was not    *)
(* made before (udp/factory.go lines 143 and 157).                         *)
ForgottenStaysForgotten ==
  [][\A a \in Addrs :
       transports'[a] # transports[a] =>
         \/ transports[a] = NoTransport /\ transports'[a] \notin Created
         \/ /\ transports'[a] = NoTransport
            /\ mlPc = "drain" \/ closed[transports[a]]]_vars

(* Closing the acceptor ends mainLoop, unless the process panicked or      *)
(* mainLoop sleeps in received on a full queue of an open transport: a     *)
(* full queue is the only thing that can hold a shutdown up.               *)
ShutdownOrBackPressure ==
  accClosed ~> \/ mlPc = "done"
               \/ crashed # "no"
               \/ parked /\ ~closed[cur]

(* Accept does not outlive the acceptor: once Close has signalled, the     *)
(* accept loop is told so, however many transports wait in `incoming'.     *)
AcceptEnds == accClosed ~> acceptPc = "stopped" \/ crashed # "no"

-----------------------------------------------------------------------------
(* What the source says of itself and the program does not do.             *)

(* udp/factory.go lines 154-157: pushing to a closed transport makes       *)
(* received return false and the loop "remove the closed transport".       *)
ClosedPushIsRefused == crashed # SendPanic
==============================================================================
