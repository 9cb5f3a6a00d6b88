--------------------------- MODULE UdpServerProofs ---------------------------
(***************************************************************************)
(* Proofs about UdpServer, for any number of addresses, transports and     *)
(* closing goroutines and for any capacity of the two channels.            *)
(*                                                                         *)
(* The safety invariants are not inductive: what they say of a transport   *)
(* depends on the datagram mainLoop has in hand and, while it drains, on   *)
(* how far its own call of Close has come.  IInv adds that.  The order in  *)
(* the queues rests on the number of the datagram mainLoop has in hand,    *)
(* which InOrder adds to it.  ClosesInOrder is what it takes to say where  *)
(* a shutdown can stop.                                                    *)
(***************************************************************************)
EXTENDS UdpServer, TLAPS

(* While mainLoop pushes, `cur' is the registered transport of `src'.      *)
HandKnown ==
  mlPc = "push" =>
    /\ cur \in Transports
    /\ src \in Addrs
    /\ raddr[cur] = src
    /\ transports[src] = cur

(* A registered transport is registered under its own address.             *)
MapsBack ==
  \A a \in Addrs : transports[a] # NoTransport => raddr[transports[a]] = a

(* mainLoop closes transports only while it drains, and has then just      *)
(* taken the one it is closing out of the map.                             *)
LoopCloses ==
  /\ mlPc # "drain" => stage[MainLoop] = "idle"
  /\ stage[MainLoop] = "checked" =>
       /\ target[MainLoop] \in Created
       /\ transports[raddr[target[MainLoop]]] = NoTransport

(* An open transport is registered, or mainLoop is about to close it.      *)
OpenIsKnown ==
  \A t \in Created :
    \/ closed[t]
    \/ transports[raddr[t]] = t
    \/ stage[MainLoop] = "checked" /\ target[MainLoop] = t

(* Nothing is registered any more when mainLoop has returned.              *)
DoneIsEmpty == mlPc = "done" => \A a \in Addrs : transports[a] = NoTransport

Routing == HandKnown /\ MapsBack /\ LoopCloses /\ OpenIsKnown /\ DoneIsEmpty

IInv == TypeOK /\ Routing

-----------------------------------------------------------------------------
(* Types.                                                                  *)

LEMMA InitTypeOK == Init => TypeOK
<1> SUFFICES ASSUME Init PROVE TypeOK
    OBVIOUS
<1>1. incoming \in Seq(Transports) /\ Len(incoming) <= MaxBacklog
    BY UdpAssumption DEF Init
<1>2. /\ queue \in [Transports -> Seq(Packet)]
      /\ \A t \in Transports : Len(queue[t]) <= QueueCap
    BY UdpAssumption DEF Init
<1>3. got \in [Transports -> Seq(Packet \cup {NoPacket})]
    BY DEF Init
<1>4. recvPkt \in [Transports -> Packet \cup {NoPacket}]
    BY DEF Init
<1>5. QED
    BY <1>1, <1>2, <1>3, <1>4 DEF Init, TypeOK

(* The steps that route a datagram keep the types.                         *)
LEMMA DatagramTypeOK == TypeOK /\ Datagram => TypeOK'
<1> SUFFICES ASSUME TypeOK, Datagram PROVE TypeOK'
    OBVIOUS
<1> USE UdpAssumption DEF TypeOK, acceptVars, listenVars, transVars, readVars,
                          closeVars, Key
<1>1. ASSUME NEW a \in Addrs, RouteKnown(a) PROVE TypeOK'
    BY <1>1 DEF RouteKnown
<1>2. ASSUME NEW a \in Addrs, NEW t \in Transports, RouteNew(a, t) PROVE TypeOK'
    BY <1>2 DEF RouteNew
<1>3. ASSUME NEW a \in Addrs, RouteRefused(a) PROVE TypeOK'
    BY <1>3 DEF RouteRefused
<1>4. QED
    BY <1>1, <1>2, <1>3 DEF Datagram

(* So does every step of a call of udpServerTransport.Close.               *)
LEMMA CloseTypeOK ==
  ASSUME TypeOK, NEW c \in AllClosers, CloseSignals(c) \/ CloseQueue(c)
  PROVE  TypeOK'
<1> USE DEF TypeOK, loopVars, acceptVars, listenVars, transVars, readVars
<1>1. CASE CloseSignals(c) /\ closed[target[c]]
    BY <1>1 DEF CloseSignals
<1>2. CASE CloseSignals(c) /\ ~closed[target[c]]
  <2>1. closed' \in [Transports -> BOOLEAN]
      BY <1>2 DEF CloseSignals
  <2>2. stage' \in [AllClosers -> {"idle", "checked", "half"}]
      BY <1>2, ZenonT(40) DEF CloseSignals
  <2>3. QED
      BY <1>2, <2>1, <2>2 DEF CloseSignals
<1>3. CASE CloseQueue(c)
    BY <1>3, ZenonT(40) DEF CloseQueue
<1>4. QED
    BY <1>1, <1>2, <1>3

(* So do mainLoop's pushes, its failing read and its draining.             *)
LEMMA LoopTypeOK == TypeOK /\ HandKnown /\ MainLoopStep => TypeOK'
<1> SUFFICES ASSUME TypeOK, HandKnown, MainLoopStep PROVE TypeOK'
    OBVIOUS
<1> USE UdpAssumption DEF TypeOK, loopVars, acceptVars, listenVars, transVars,
                          readVars, closeVars, Key, EndPush
<1>1. ASSUME PushDelivered PROVE TypeOK'
  <2> DEFINE p == [from |-> src, no |-> nread]
  <2>1. cur \in Transports /\ p \in Packet /\ Len(queue[cur]) < QueueCap
      BY <1>1 DEF PushDelivered, HandKnown, Packet, HasRoom
  <2>2. /\ Append(queue[cur], p) \in Seq(Packet)
        /\ Len(Append(queue[cur], p)) <= QueueCap
      BY <2>1
  <2>3. queue' = [queue EXCEPT ![cur] = Append(queue[cur], p)]
      BY <1>1 DEF PushDelivered
  <2>4. /\ queue' \in [Transports -> Seq(Packet)]
        /\ \A t \in Transports : Len(queue'[t]) <= QueueCap
    <3> HIDE DEF p
    <3>1. QED
        BY <2>1, <2>2, <2>3
  <2>5. QED
      BY <1>1, <2>4 DEF PushDelivered
<1>2. ASSUME PushRejected PROVE TypeOK'
    BY <1>2 DEF PushRejected
<1>3. ASSUME PushParks PROVE TypeOK'
    BY <1>3 DEF PushParks
<1>4. ASSUME PushPanics PROVE TypeOK'
    BY <1>4 DEF PushPanics
<1>5. ASSUME ReadFails PROVE TypeOK'
    BY <1>5 DEF ReadFails
<1>6. ASSUME NEW a \in Addrs, DrainNext(a) PROVE TypeOK'
    BY <1>6 DEF DrainNext, CloseBegins, AllClosers
<1>7. ASSUME DrainDone PROVE TypeOK'
    BY <1>7 DEF DrainDone
<1>8. ASSUME CloseSignals(MainLoop) \/ CloseQueue(MainLoop) PROVE TypeOK'
    BY <1>8, CloseTypeOK DEF AllClosers
<1>9. QED
    BY <1>1, <1>2, <1>3, <1>4, <1>5, <1>6, <1>7, <1>8 DEF MainLoopStep

(* So do the goroutines of the application, Accept and Close.              *)
LEMMA OthersTypeOK == TypeOK /\ (App \/ AcceptLoop \/ ListenerClose) => TypeOK'
<1> SUFFICES ASSUME TypeOK, App \/ AcceptLoop \/ ListenerClose PROVE TypeOK'
    OBVIOUS
<1> USE UdpAssumption DEF TypeOK, loopVars, acceptVars, listenVars, transVars,
                          readVars, closeVars
<1>1. ASSUME NEW c \in Closers, NEW t \in Transports, AppCloses(c, t) PROVE TypeOK'
  <2>1. stage' = [stage EXCEPT ![c] = "checked"] /\ target' = [target EXCEPT ![c] = t]
      BY <1>1 DEF AppCloses, CloseBegins
  <2>2. QED
      BY <1>1, <2>1 DEF AppCloses, AllClosers
<1>2. ASSUME NEW c \in Closers, AppCloseStep(c) PROVE TypeOK'
    BY <1>2, CloseTypeOK DEF AppCloseStep, AllClosers
<1>3. ASSUME NEW t \in Transports, Read(t) PROVE TypeOK'
  <2>1. /\ queue' \in [Transports -> Seq(Packet)]
        /\ \A u \in Transports : Len(queue'[u]) <= QueueCap
      BY <1>3 DEF Read
  <2>2. got' \in [Transports -> Seq(Packet \cup {NoPacket})]
    <3> DEFINE p == IF TakesPacket(t) THEN Head(queue[t]) ELSE recvPkt[t]
    <3>1. p \in Packet \cup {NoPacket}
        BY <1>3 DEF Read
    <3>2. got' = [got EXCEPT ![t] = Append(got[t], p)]
        BY <1>3 DEF Read
    <3> HIDE DEF p
    <3>3. Append(got[t], p) \in Seq(Packet \cup {NoPacket})
        BY <3>1
    <3>4. QED
        BY <3>2, <3>3
  <2>3. recvPkt' \in [Transports -> Packet \cup {NoPacket}]
      BY <1>3 DEF Read
  <2>4. QED
      BY <1>3, <2>1, <2>2, <2>3, SMTT(40) DEF Read
<1>4. ASSUME NEW t \in Transports, DeadlinePasses(t) PROVE TypeOK'
    BY <1>4 DEF DeadlinePasses
<1>5. ASSUME AcceptReturns PROVE TypeOK'
    BY <1>5 DEF AcceptReturns
<1>6. ASSUME AcceptFails PROVE TypeOK'
    BY <1>6 DEF AcceptFails
<1>7. ASSUME NEW l \in ListenerClosers, ListenerCloseBegins(l) PROVE TypeOK'
    BY <1>7 DEF ListenerCloseBegins
<1>8. ASSUME NEW l \in ListenerClosers, ListenerCloseStep(l) PROVE TypeOK'
  <2>1. CASE ListenerCloseSignals(l) /\ accClosed
      BY <2>1 DEF ListenerCloseSignals
  <2>2. CASE ListenerCloseSignals(l) /\ ~accClosed
      BY <2>2, ZenonT(40) DEF ListenerCloseSignals
  <2>3. CASE ListenerClosesSocket(l)
      BY <2>3, ZenonT(40) DEF ListenerClosesSocket
  <2>4. QED
      BY <1>8, <2>1, <2>2, <2>3 DEF ListenerCloseStep
<1>9. QED
    BY <1>1, <1>2, <1>3, <1>4, <1>5, <1>6, <1>7, <1>8
    DEF App, AcceptLoop, ListenerClose

-----------------------------------------------------------------------------
(* Routing.                                                                *)

LEMMA InitRouting == Init => Routing
  BY UdpAssumption
  DEF Init, Routing, HandKnown, MapsBack, LoopCloses, OpenIsKnown, DoneIsEmpty,
      Created, AllClosers

(* What a step of anybody but mainLoop may do to what routing rests on.    *)
Quiet ==
  /\ UNCHANGED <<mlPc, cur, src, transports, raddr>>
  /\ stage'[MainLoop] = stage[MainLoop]
  /\ target'[MainLoop] = target[MainLoop]
  /\ \A t \in Transports : closed[t] => closed'[t]

LEMMA QuietKeepsRouting == Routing /\ Quiet => Routing'
  BY DEF Quiet, Routing, HandKnown, MapsBack, LoopCloses, OpenIsKnown,
         DoneIsEmpty, Created

LEMMA OthersAreQuiet ==
  TypeOK /\ (App \/ AcceptLoop \/ ListenerClose) => Quiet
<1> SUFFICES ASSUME TypeOK, App \/ AcceptLoop \/ ListenerClose PROVE Quiet
    OBVIOUS
<1> USE UdpAssumption DEF Quiet, loopVars, transVars, closeVars
<1>1. ASSUME NEW c \in Closers, NEW t \in Transports, AppCloses(c, t) PROVE Quiet
    BY <1>1 DEF AppCloses, CloseBegins, TypeOK, AllClosers
<1>2. ASSUME NEW c \in Closers, CloseSignals(c) PROVE Quiet
  <2>1. c # MainLoop
      OBVIOUS
  <2>2. CASE closed[target[c]]
      BY <1>2, <2>1, <2>2 DEF CloseSignals, TypeOK, AllClosers
  <2>3. CASE ~closed[target[c]]
      BY <1>2, <2>1, <2>3, ZenonT(40) DEF CloseSignals, TypeOK, AllClosers
  <2>4. QED
      BY <2>2, <2>3
<1>3. ASSUME NEW c \in Closers, CloseQueue(c) PROVE Quiet
    BY <1>3 DEF CloseQueue, TypeOK, AllClosers
<1>4. ASSUME NEW t \in Transports, Read(t) \/ DeadlinePasses(t) PROVE Quiet
    BY <1>4 DEF Read, DeadlinePasses
<1>5. ASSUME AcceptLoop PROVE Quiet
    BY <1>5 DEF AcceptLoop, AcceptReturns, AcceptFails
<1>6. ASSUME ListenerClose PROVE Quiet
    BY <1>6 DEF ListenerClose, ListenerCloseBegins, ListenerCloseStep,
                ListenerCloseSignals, ListenerClosesSocket
<1>7. QED
    BY <1>1, <1>2, <1>3, <1>4, <1>5, <1>6 DEF App, AppCloseStep

LEMMA DatagramKeepsRouting == TypeOK /\ Routing /\ Datagram => Routing'
<1> SUFFICES ASSUME TypeOK, Routing, Datagram PROVE Routing'
    OBVIOUS
<1> USE UdpAssumption DEF Routing, HandKnown, MapsBack, LoopCloses, OpenIsKnown,
                          DoneIsEmpty, Created, Reading, Key, TypeOK,
                          transVars, closeVars
<1>1. ASSUME NEW a \in Addrs, RouteKnown(a) PROVE Routing'
    BY <1>1 DEF RouteKnown
<1>2. ASSUME NEW a \in Addrs, NEW t \in Transports, RouteNew(a, t) PROVE Routing'
  <2>1. /\ transports[a] = NoTransport /\ raddr[t] = NoTransport
        /\ transports'[a] = t /\ raddr'[t] = a
        /\ \A b \in Addrs : b # a => transports'[b] = transports[b]
        /\ \A u \in Transports : u # t => raddr'[u] = raddr[u]
      BY <1>2 DEF RouteNew
  <2>2. /\ mlPc' = "push" /\ cur' = t /\ src' = a
        /\ UNCHANGED <<closed, stage, target>>
        /\ stage[MainLoop] = "idle"
      BY <1>2 DEF RouteNew
  <2>3. HandKnown' /\ LoopCloses' /\ DoneIsEmpty'
      BY <2>1, <2>2
  <2>4. MapsBack'
    <3> SUFFICES ASSUME NEW b \in Addrs, transports'[b] # NoTransport
                 PROVE  raddr'[transports'[b]] = b
        OBVIOUS
    <3>1. CASE b = a
        BY <3>1, <2>1
    <3>2. CASE b # a
      <4>1. transports'[b] = transports[b] /\ raddr[transports[b]] = b
          BY <3>2, <2>1
      <4>2. transports[b] \in Transports /\ transports[b] # t
          BY <2>1, <4>1
      <4>3. QED
          BY <2>1, <4>1, <4>2
    <3>3. QED
        BY <3>1, <3>2
  <2>5. OpenIsKnown'
    <3> SUFFICES ASSUME NEW u \in Transports, raddr'[u] # NoTransport, ~closed'[u]
                 PROVE  transports'[raddr'[u]] = u
        BY DEF Created
    <3>1. CASE u = t
        BY <3>1, <2>1
    <3>2. CASE u # t
        BY <3>2, <2>1, <2>2
    <3>3. QED
        BY <3>1, <3>2
  <2>6. QED
      BY <2>3, <2>4, <2>5
<1>3. ASSUME NEW a \in Addrs, RouteRefused(a) PROVE Routing'
    BY <1>3 DEF RouteRefused
<1>4. QED
    BY <1>1, <1>2, <1>3 DEF Datagram

LEMMA LoopKeepsRouting == TypeOK /\ Routing /\ MainLoopStep => Routing'
<1> SUFFICES ASSUME TypeOK, Routing, MainLoopStep PROVE Routing'
    OBVIOUS
<1> USE UdpAssumption DEF Routing, HandKnown, MapsBack, LoopCloses, OpenIsKnown,
                          DoneIsEmpty, Created, TypeOK
<1>1. ASSUME PushDelivered PROVE Routing'
    BY <1>1 DEF PushDelivered, EndPush, closeVars
<1>2. ASSUME PushRejected PROVE Routing'
  <2>1. /\ cur \in Transports /\ src \in Addrs /\ raddr[cur] = src
        /\ transports[src] = cur /\ closed[cur] /\ stage[MainLoop] = "idle"
      BY <1>2 DEF PushRejected, SeenClosed
  <2>2. /\ transports' = [transports EXCEPT ![src] = NoTransport]
        /\ mlPc' = "read" /\ UNCHANGED <<raddr, closed, stage, target>>
      BY <1>2 DEF PushRejected, EndPush, Key, transVars, closeVars
  <2>3. QED
      BY <2>1, <2>2
<1>3. ASSUME PushParks \/ PushPanics \/ ReadFails PROVE Routing'
    BY <1>3 DEF PushParks, PushPanics, ReadFails, loopVars, transVars, closeVars
<1>4. ASSUME NEW a \in Addrs, DrainNext(a) PROVE Routing'
  <2>1. /\ mlPc = "drain" /\ mlPc' = "drain" /\ stage[MainLoop] = "idle"
        /\ transports[a] \in Transports /\ raddr[transports[a]] = a
        /\ transports' = [transports EXCEPT ![a] = NoTransport]
        /\ UNCHANGED <<raddr, closed>>
      BY <1>4 DEF DrainNext, CloseBegins, transVars
  <2>2. CASE closed[transports[a]]
      BY <2>1, <2>2, <1>4 DEF DrainNext, CloseBegins, closeVars
  <2>3. CASE ~closed[transports[a]]
    <3>1. stage'[MainLoop] = "checked" /\ target'[MainLoop] = transports[a]
        BY <2>3, <1>4 DEF DrainNext, CloseBegins, AllClosers
    <3>2. QED
        BY <2>1, <3>1
  <2>4. QED
      BY <2>2, <2>3
<1>5. ASSUME DrainDone PROVE Routing'
    BY <1>5 DEF DrainDone, Drained, transVars, closeVars
<1>6. ASSUME CloseSignals(MainLoop) PROVE Routing'
  <2>1. CASE closed[target[MainLoop]]
      BY <1>6, <2>1 DEF CloseSignals, loopVars, AllClosers
  <2>2. CASE ~closed[target[MainLoop]]
    <3>1. /\ closed' = [closed EXCEPT ![target[MainLoop]] = TRUE]
          /\ stage'[MainLoop] = "half" /\ stage[MainLoop] = "checked"
          /\ mlPc = "drain"
          /\ UNCHANGED <<mlPc, cur, src, transports, raddr>>
        BY <1>6, <2>2 DEF CloseSignals, loopVars, AllClosers
    <3>2. QED
        BY <3>1
  <2>3. QED
      BY <2>1, <2>2
<1>7. ASSUME CloseQueue(MainLoop) PROVE Routing'
  <2>1. /\ stage'[MainLoop] = "idle" /\ stage[MainLoop] = "half"
        /\ UNCHANGED <<mlPc, cur, src, transports, raddr, closed>>
      BY <1>7 DEF CloseQueue, loopVars, AllClosers
  <2>2. QED
      BY <2>1
<1>8. QED
    BY <1>1, <1>2, <1>3, <1>4, <1>5, <1>6, <1>7 DEF MainLoopStep

-----------------------------------------------------------------------------
(* The invariant holds of every state the server can reach.                *)

LEMMA NextKeepsIInv == IInv /\ [Next]_vars => IInv'
<1> SUFFICES ASSUME IInv, [Next]_vars PROVE IInv'
    OBVIOUS
<1>1. CASE Datagram
    BY <1>1, DatagramTypeOK, DatagramKeepsRouting DEF IInv
<1>2. CASE MainLoopStep
    BY <1>2, LoopTypeOK, LoopKeepsRouting DEF IInv, Routing
<1>3. CASE App \/ AcceptLoop \/ ListenerClose
    BY <1>3, OthersTypeOK, OthersAreQuiet, QuietKeepsRouting DEF IInv
<1>4. CASE UNCHANGED vars
  <2>1. Quiet
      BY <1>4 DEF vars, Quiet
  <2>2. TypeOK'
      BY <1>4 DEF IInv, TypeOK, vars
  <2>3. QED
      BY <2>1, <2>2, QuietKeepsRouting DEF IInv
<1>5. QED
    BY <1>1, <1>2, <1>3, <1>4 DEF Next

(* The inductive invariant: types, and what routing rests on.              *)
THEOREM IInvHolds == Spec => []IInv
<1>1. Init => IInv
    BY InitTypeOK, InitRouting DEF IInv
<1>2. QED
    BY <1>1, NextKeepsIInv, PTL DEF Spec

(* Every reachable state of the server is well typed; in particular no     *)
(* channel ever holds more than its capacity.                              *)
THEOREM TypeCorrect == Spec => []TypeOK
  BY IInvHolds, PTL DEF IInv

(* mainLoop, lines 137-158: until it drains, an open transport is routed   *)
(* to under its own address.                                               *)
THEOREM LiveAlwaysRouted == Spec => []LiveIsRouted
<1>1. IInv => LiveIsRouted
    BY DEF IInv, Routing, LoopCloses, OpenIsKnown, LiveIsRouted
<1>2. QED
    BY <1>1, IInvHolds, PTL

(* mainLoop never has two open transports for one remote address, not even *)
(* while it drains.                                                        *)
THEOREM NeverTwoPerPeer == Spec => []OneLivePerPeer
<1>1. IInv => OneLivePerPeer
  <2> SUFFICES ASSUME IInv, NEW t \in Created, NEW u \in Created,
                      t # u, raddr[t] = raddr[u], ~closed[t], ~closed[u]
               PROVE  FALSE
      BY DEF OneLivePerPeer
  <2>1. t # NoTransport /\ u # NoTransport
      BY UdpAssumption DEF Created
  <2>2. CASE transports[raddr[t]] = t
      BY <2>1, <2>2 DEF IInv, Routing, OpenIsKnown, LoopCloses
  <2>3. CASE stage[MainLoop] = "checked" /\ target[MainLoop] = t
      BY <2>1, <2>3 DEF IInv, Routing, OpenIsKnown, LoopCloses
  <2>4. QED
      BY <2>2, <2>3 DEF IInv, Routing, OpenIsKnown
<1>2. QED
    BY <1>1, IInvHolds, PTL

(* Line 129: a mainLoop that returns leaves no transport open, whoever     *)
(* else was closing transports meanwhile.                                  *)
THEOREM DoneAlwaysClosesChildren == Spec => []DoneClosesChildren
<1>1. IInv => DoneClosesChildren
  <2> SUFFICES ASSUME IInv, mlPc = "done", NEW t \in Created PROVE closed[t]
      BY DEF DoneClosesChildren
  <2>1. t # NoTransport /\ raddr[t] \in Addrs
      BY UdpAssumption DEF Created, IInv, TypeOK
  <2>2. QED
      BY <2>1 DEF IInv, Routing, LoopCloses, OpenIsKnown, DoneIsEmpty
<1>2. QED
    BY <1>1, IInvHolds, PTL

(* Lines 143 and 157: a transport is registered once, when it is made, and *)
(* forgotten only when it is closed or the loop drains.                    *)
THEOREM MapOnlyForgetsClosed == Spec => ForgottenStaysForgotten
<1> DEFINE Forgets ==
      \A a \in Addrs :
        transports'[a] # transports[a] =>
          \/ transports[a] = NoTransport /\ transports'[a] \notin Created
          \/ /\ transports'[a] = NoTransport
             /\ mlPc = "drain" \/ closed[transports[a]]
<1>1. IInv /\ [Next]_vars => [Forgets]_vars
  <2> SUFFICES ASSUME IInv, Next PROVE Forgets
      OBVIOUS
  <2> USE DEF IInv, TypeOK
  <2>1. ASSUME NEW a \in Addrs, NEW t \in Transports, RouteNew(a, t) PROVE Forgets
      BY <2>1 DEF RouteNew, Key
  <2>2. CASE PushRejected
      BY <2>2 DEF PushRejected, EndPush, SeenClosed, Key, Routing, HandKnown
  <2>3. ASSUME NEW a \in Addrs, DrainNext(a) PROVE Forgets
      BY <2>3 DEF DrainNext
  <2>4. ASSUME NEW a \in Addrs, RouteKnown(a) \/ RouteRefused(a) PROVE Forgets
      BY <2>4 DEF RouteKnown, RouteRefused
  <2>5. CASE \/ PushDelivered \/ PushParks \/ PushPanics \/ ReadFails
             \/ DrainDone \/ CloseSignals(MainLoop) \/ CloseQueue(MainLoop)
      BY <2>5 DEF PushDelivered, EndPush, PushParks, PushPanics, ReadFails,
                  DrainDone, CloseSignals, CloseQueue, loopVars
  <2>6. CASE App \/ AcceptLoop \/ ListenerClose
      BY <2>6, OthersAreQuiet DEF Quiet
  <2>7. QED
      BY <2>1, <2>2, <2>3, <2>4, <2>5, <2>6 DEF Next, Datagram, MainLoopStep
<1>2. QED
    BY <1>1, IInvHolds, PTL DEF Spec, ForgottenStaysForgotten
-----------------------------------------------------------------------------
(* The order in the queues.                                                *)

(* The datagram mainLoop is about to push is newer than all those before   *)
(* it in the queue it goes to.                                             *)
HandIsNewer ==
  mlPc = "push" => \A i \in 1..Len(queue[cur]) : queue[cur][i].no < nread

InOrder == QueuesRoutedInOrder /\ HandIsNewer

(* What is at a place of a queue of datagrams.                             *)
LEMMA PlaceHoldsPacket ==
  ASSUME NEW q \in Seq(Packet), NEW i \in 1..Len(q)
  PROVE  q[i] \in Packet /\ q[i].from \in Addrs /\ q[i].no \in Nat
<1>1. q[i] \in Packet
    OBVIOUS
<1>2. QED
    BY <1>1 DEF Packet

LEMMA AppendPlaces ==
  ASSUME NEW S, NEW q \in Seq(S), NEW p \in S
  PROVE  /\ Len(Append(q, p)) = Len(q) + 1
         /\ \A i \in 1..Len(q) : Append(q, p)[i] = q[i]
         /\ Append(q, p)[Len(q) + 1] = p
  OBVIOUS

LEMMA TailPlaces ==
  ASSUME NEW S, NEW q \in Seq(S), q # <<>>
  PROVE  /\ Tail(q) \in Seq(S)
         /\ Len(Tail(q)) = Len(q) - 1
         /\ \A i \in 1..(Len(q) - 1) : Tail(q)[i] = q[i + 1]
  OBVIOUS

(* A transport that is not created yet has an empty queue: what a queue    *)
(* holds is of the transport's address.                                    *)
LEMMA UncreatedIsEmpty ==
  ASSUME TypeOK, QueuesRoutedInOrder,
         NEW t \in Transports, raddr[t] = NoTransport
  PROVE  1..Len(queue[t]) = {}
<1>1. queue[t] \in Seq(Packet)
    BY DEF TypeOK
<1>2. ASSUME NEW i \in 1..Len(queue[t]) PROVE FALSE
  <2>1. queue[t][i].from \in Addrs
      BY <1>1, PlaceHoldsPacket
  <2>2. queue[t][i].from = NoTransport
      BY DEF QueuesRoutedInOrder
  <2>3. QED
      BY <2>1, <2>2, UdpAssumption
<1>3. QED
    BY <1>2

LEMMA InitInOrder == Init => InOrder
<1> SUFFICES ASSUME Init PROVE InOrder
    OBVIOUS
<1>1. \A t \in Transports : Len(queue[t]) = 0
    BY DEF Init
<1>2. QED
    BY <1>1 DEF Init, InOrder, QueuesRoutedInOrder, HandIsNewer

(* A step that leaves the queues and the addresses alone, and does not     *)
(* begin to push.                                                          *)
LEMMA SameQueuesKeepOrder ==
  ASSUME TypeOK, InOrder, UNCHANGED <<queue, raddr, nread>>,
         mlPc' = "push" => mlPc = "push" /\ cur' = cur
  PROVE  InOrder'
  BY DEF InOrder, QueuesRoutedInOrder, HandIsNewer

(* A datagram read: its number is above every number in a queue.           *)
LEMMA DatagramKeepsOrder == TypeOK /\ InOrder /\ Datagram => InOrder'
<1> SUFFICES ASSUME TypeOK, InOrder, Datagram PROVE InOrder'
    OBVIOUS
<1>1. /\ nread \in Nat /\ nread' = nread + 1 /\ queue' = queue
      /\ mlPc' = "push" => cur' \in Transports
      /\ \A t \in Transports : raddr'[t] # raddr[t] => raddr[t] = NoTransport
  <2> USE UdpAssumption DEF TypeOK, transVars, Reading, Key, Created
  <2>1. ASSUME NEW a \in Addrs, RouteKnown(a) PROVE <1>1!:
      BY <2>1 DEF RouteKnown
  <2>2. ASSUME NEW a \in Addrs, NEW t \in Transports, RouteNew(a, t)
        PROVE  <1>1!:
      BY <2>2 DEF RouteNew
  <2>3. ASSUME NEW a \in Addrs, RouteRefused(a) PROVE <1>1!:
      BY <2>3 DEF RouteRefused
  <2>4. QED
      BY <2>1, <2>2, <2>3 DEF Datagram
<1>2. ASSUME NEW t \in Transports, NEW i \in 1..Len(queue[t])
      PROVE  /\ queue[t][i].no < nread' /\ queue[t][i].no <= nread'
             /\ queue[t][i].from = raddr'[t]
             /\ \A j \in 1..(i - 1) : queue[t][j].no < queue[t][i].no
  <2>1. queue[t][i].no \in Nat
      BY PlaceHoldsPacket DEF TypeOK
  <2>2. raddr[t] # NoTransport
      BY UncreatedIsEmpty DEF InOrder
  <2>3. QED
      BY <1>1, <2>1, <2>2 DEF InOrder, QueuesRoutedInOrder
<1>3. QueuesRoutedInOrder'
    BY <1>1, <1>2 DEF QueuesRoutedInOrder
<1>4. HandIsNewer'
    BY <1>1, <1>2 DEF HandIsNewer
<1>5. QED
    BY <1>3, <1>4 DEF InOrder

(* The datagram in hand joins the end of its own peer's queue.             *)
LEMMA PushKeepsOrder ==
  TypeOK /\ HandKnown /\ InOrder /\ PushDelivered => InOrder'
<1> SUFFICES ASSUME TypeOK, HandKnown, InOrder, PushDelivered PROVE InOrder'
    OBVIOUS
<1> DEFINE p == [from |-> src, no |-> nread]
           q == Append(queue[cur], p)
<1>1. /\ cur \in Transports /\ src \in Addrs /\ raddr[cur] = src
      /\ nread \in Nat /\ queue[cur] \in Seq(Packet) /\ p \in Packet
    BY DEF TypeOK, HandKnown, PushDelivered, Packet
<1>2. /\ queue' = [queue EXCEPT ![cur] = q]
      /\ mlPc' = "read" /\ mlPc = "push" /\ UNCHANGED <<nread, raddr>>
    BY DEF PushDelivered, EndPush
<1>3. /\ Len(q) = Len(queue[cur]) + 1 /\ Len(queue[cur]) \in Nat
      /\ \A i \in 1..Len(queue[cur]) : q[i] = queue[cur][i]
      /\ q[Len(queue[cur]) + 1] = p
    BY <1>1, AppendPlaces
<1>4. p.from = src /\ p.no = nread
    OBVIOUS
<1> HIDE DEF p, q
<1>5. ASSUME NEW i \in 1..Len(q)
      PROVE  /\ q[i].from = raddr[cur] /\ q[i].no <= nread
             /\ \A j \in 1..(i - 1) : q[j].no < q[i].no
  <2>1. CASE i = Len(queue[cur]) + 1
    <3>1. \A j \in 1..(i - 1) : q[j].no < nread
        BY <1>2, <1>3, <2>1 DEF InOrder, HandIsNewer
    <3>2. q[i] = p
        BY <1>3, <2>1
    <3>3. QED
        BY <1>1, <1>4, <3>1, <3>2
  <2>2. CASE i # Len(queue[cur]) + 1
    <3>1. /\ i \in 1..Len(queue[cur]) /\ q[i] = queue[cur][i]
          /\ \A j \in 1..(i - 1) : q[j] = queue[cur][j]
        BY <1>3, <2>2
    <3>2. QED
        BY <1>1, <3>1 DEF InOrder, QueuesRoutedInOrder
  <2>3. QED
      BY <2>1, <2>2
<1>6. QueuesRoutedInOrder'
  <2> SUFFICES ASSUME NEW t \in Transports, NEW i \in 1..Len(queue'[t])
               PROVE  /\ queue'[t][i].from = raddr[t] /\ queue'[t][i].no <= nread
                      /\ \A j \in 1..(i - 1) : queue'[t][j].no < queue'[t][i].no
      BY <1>2 DEF QueuesRoutedInOrder
  <2>1. CASE t = cur
    <3>1. queue'[t] = q
        BY <1>1, <1>2, <2>1 DEF TypeOK
    <3>2. QED
        BY <1>5, <2>1, <3>1
  <2>2. CASE t # cur
    <3>1. queue'[t] = queue[t]
        BY <1>2, <2>2 DEF TypeOK
    <3>2. QED
        BY <3>1 DEF InOrder, QueuesRoutedInOrder
  <2>3. QED
      BY <2>1, <2>2
<1>7. HandIsNewer'
    BY <1>2 DEF HandIsNewer
<1>8. QED
    BY <1>6, <1>7 DEF InOrder

(* A Read takes the first datagram of a queue, or nothing.                 *)
LEMMA ReadKeepsOrder ==
  ASSUME TypeOK, HandKnown, InOrder, NEW t \in Transports, Read(t)
  PROVE  InOrder'
<1>1. /\ UNCHANGED <<raddr, mlPc, cur, nread>>
      /\ queue[t] \in Seq(Packet)
    BY DEF Read, loopVars, TypeOK
<1>2. CASE ~TakesPacket(t)
  <2>1. queue' = queue
      BY <1>2 DEF Read
  <2>2. QED
      BY <1>1, <2>1, SameQueuesKeepOrder
<1>3. CASE TakesPacket(t)
  <2> DEFINE q == Tail(queue[t])
  <2>1. queue[t] # <<>> /\ queue' = [queue EXCEPT ![t] = q]
      BY <1>3 DEF Read
  <2>2. /\ queue'[t] = q
        /\ \A u \in Transports : u # t => queue'[u] = queue[u]
      BY <2>1 DEF TypeOK
  <2>3. /\ Len(q) = Len(queue[t]) - 1 /\ Len(queue[t]) \in Nat
        /\ \A i \in 1..(Len(queue[t]) - 1) : q[i] = queue[t][i + 1]
      BY <1>1, <2>1, TailPlaces
  <2> HIDE DEF q
  <2>4. ASSUME NEW i \in 1..Len(q)
        PROVE  /\ q[i].from = raddr[t] /\ q[i].no <= nread
               /\ \A j \in 1..(i - 1) : q[j].no < q[i].no
    <3>1. /\ i + 1 \in 1..Len(queue[t]) /\ q[i] = queue[t][i + 1]
          /\ \A j \in 1..(i - 1) : /\ q[j] = queue[t][j + 1]
                                   /\ j + 1 \in 1..((i + 1) - 1)
        BY <2>3
    <3>2. /\ queue[t][i + 1].from = raddr[t] /\ queue[t][i + 1].no <= nread
          /\ \A k \in 1..((i + 1) - 1) : queue[t][k].no < queue[t][i + 1].no
        BY <3>1 DEF InOrder, QueuesRoutedInOrder
    <3>3. QED
        BY <3>1, <3>2
  <2>5. QueuesRoutedInOrder'
    <3> SUFFICES ASSUME NEW u \in Transports, NEW i \in 1..Len(queue'[u])
                 PROVE  /\ queue'[u][i].from = raddr[u]
                        /\ queue'[u][i].no <= nread
                        /\ \A j \in 1..(i - 1) :
                              queue'[u][j].no < queue'[u][i].no
        BY <1>1 DEF QueuesRoutedInOrder
    <3>1. CASE u = t
        BY <2>2, <2>4, <3>1
    <3>2. CASE u # t
        BY <2>2, <3>2 DEF InOrder, QueuesRoutedInOrder
    <3>3. QED
        BY <3>1, <3>2
  <2>6. HandIsNewer'
    <3> SUFFICES ASSUME mlPc = "push", NEW i \in 1..Len(queue'[cur])
                 PROVE  queue'[cur][i].no < nread
        BY <1>1 DEF HandIsNewer
    <3>1. CASE cur = t
      <4>1. queue'[cur] = q /\ i \in 1..Len(q)
          BY <2>2, <3>1
      <4>2. i + 1 \in 1..Len(queue[cur]) /\ q[i] = queue[cur][i + 1]
          BY <2>3, <3>1, <4>1
      <4>3. queue[cur][i + 1].no < nread
          BY <4>2 DEF InOrder, HandIsNewer
      <4>4. QED
          BY <4>1, <4>2, <4>3
    <3>2. CASE cur # t
        BY <2>2, <3>2 DEF InOrder, HandIsNewer, HandKnown
    <3>3. QED
        BY <3>1, <3>2
  <2>7. QED
      BY <2>5, <2>6 DEF InOrder
<1>4. QED
    BY <1>2, <1>3

LEMMA NextKeepsOrder == IInv /\ InOrder /\ [Next]_vars => InOrder'
<1> SUFFICES ASSUME IInv, InOrder, [Next]_vars PROVE InOrder'
    OBVIOUS
<1> USE DEF IInv, Routing
<1>1. CASE Datagram
    BY <1>1, DatagramKeepsOrder
<1>2. CASE PushDelivered
    BY <1>2, PushKeepsOrder
<1>3. ASSUME NEW t \in Transports, Read(t) PROVE InOrder'
    BY <1>3, ReadKeepsOrder
<1>4. CASE /\ UNCHANGED <<queue, raddr, nread>>
           /\ mlPc' = "push" => mlPc = "push" /\ cur' = cur
    BY <1>4, SameQueuesKeepOrder
<1>5. CASE \/ PushRejected \/ PushParks \/ PushPanics \/ ReadFails \/ DrainDone
           \/ CloseSignals(MainLoop) \/ CloseQueue(MainLoop)
           \/ \E a \in Addrs : DrainNext(a)
    BY <1>4, <1>5
    DEF PushRejected, EndPush, PushParks, PushPanics, ReadFails, DrainDone,
        CloseSignals, CloseQueue, DrainNext, loopVars, transVars
<1>6. CASE \/ \E c \in Closers, t \in Transports : AppCloses(c, t)
           \/ \E c \in Closers : AppCloseStep(c)
           \/ \E t \in Transports : DeadlinePasses(t)
    BY <1>4, <1>6
    DEF AppCloses, AppCloseStep, CloseSignals, CloseQueue, DeadlinePasses,
        loopVars, transVars
<1>7. CASE AcceptLoop \/ ListenerClose
    BY <1>4, <1>7
    DEF AcceptLoop, AcceptReturns, AcceptFails, ListenerClose,
        ListenerCloseBegins, ListenerCloseStep, ListenerCloseSignals,
        ListenerClosesSocket, loopVars, transVars
<1>8. CASE UNCHANGED vars
    BY <1>4, <1>8 DEF vars
<1>9. QED
    BY <1>1, <1>2, <1>3, <1>5, <1>6, <1>7, <1>8 DEF Next, MainLoopStep, App

(* Lines 137-158 with transport.go 144-152: a queue holds datagrams of its *)
(* own peer only, in the order the socket gave them.                       *)
THEOREM QueuesAlwaysInOrder == Spec => []QueuesRoutedInOrder
<1>1. InOrder => QueuesRoutedInOrder
    BY DEF InOrder
<1>2. QED
    BY <1>1, InitInOrder, NextKeepsOrder, IInvHolds, PTL DEF Spec

-----------------------------------------------------------------------------
(* What Read gives.                                                        *)

(* No Read is about to take a packet, and none has given one.              *)
NothingTaken ==
  \A t \in Transports :
    /\ ~TakesPacket(t)
    /\ \A i \in 1..Len(got[t]) : got[t][i] = NoPacket

LEMMA NextTakesNothing == TypeOK /\ NothingTaken /\ [Next]_vars => NothingTaken'
<1> SUFFICES ASSUME TypeOK, NothingTaken, [Next]_vars PROVE NothingTaken'
    OBVIOUS
<1>1. ASSUME NEW t \in Transports, Read(t) PROVE NothingTaken'
  <2>1. /\ recvPkt' = [recvPkt EXCEPT ![t] = NoPacket]
        /\ got' = [got EXCEPT ![t] = Append(@, NoPacket)]
      BY <1>1 DEF Read, NothingTaken, TakesPacket
  <2>2. ASSUME NEW u \in Transports PROVE ~TakesPacket(u)'
      BY <2>1, <2>2 DEF NothingTaken, TakesPacket, TypeOK
  <2>3. ASSUME NEW u \in Transports, NEW i \in 1..Len(got'[u])
        PROVE  got'[u][i] = NoPacket
    <3>1. got[t] \in Seq(Packet \cup {NoPacket})
        BY DEF TypeOK
    <3>2. CASE u = t
      <4>1. got'[u] = Append(got[t], NoPacket)
          BY <2>1, <3>2 DEF TypeOK
      <4>2. CASE i = Len(got[t]) + 1
          BY <3>1, <4>1, <4>2
      <4>3. CASE i # Len(got[t]) + 1
        <5>1. i \in 1..Len(got[t]) /\ got'[u][i] = got[t][i]
            BY <2>3, <3>1, <4>1, <4>3
        <5>2. QED
            BY <5>1 DEF NothingTaken
      <4>4. QED
          BY <4>2, <4>3
    <3>3. CASE u # t
        BY <2>1, <2>3, <3>3 DEF NothingTaken, TypeOK
    <3>4. QED
        BY <3>2, <3>3
  <2>4. QED
      BY <2>2, <2>3 DEF NothingTaken
<1>2. CASE UNCHANGED readVars
    BY <1>2 DEF NothingTaken, TakesPacket, readVars
<1>3. CASE UNCHANGED vars
    BY <1>2, <1>3 DEF vars, readVars
<1>4. CASE Datagram
    BY <1>2, <1>4 DEF Datagram, RouteKnown, RouteNew, RouteRefused
<1>5. CASE MainLoopStep
    BY <1>2, <1>5 DEF MainLoopStep, PushDelivered, PushRejected, PushParks,
       PushPanics, ReadFails, DrainNext, DrainDone, CloseSignals, CloseQueue
<1>6. CASE App
  <2>1. ASSUME NEW t \in Transports, DeadlinePasses(t)
        PROVE  UNCHANGED readVars
      BY <2>1 DEF DeadlinePasses
  <2>2. ASSUME NEW c \in Closers, NEW t \in Transports, AppCloses(c, t)
        PROVE  UNCHANGED readVars
      BY <2>2 DEF AppCloses
  <2>3. ASSUME NEW c \in Closers, AppCloseStep(c) PROVE UNCHANGED readVars
      BY <2>3 DEF AppCloseStep, CloseSignals, CloseQueue
  <2>4. QED
      BY <1>1, <1>2, <1>6, <2>1, <2>2, <2>3 DEF App
<1>7. CASE AcceptLoop \/ ListenerClose
    BY <1>2, <1>7 DEF AcceptLoop, AcceptReturns, AcceptFails, ListenerClose,
       ListenerCloseBegins, ListenerCloseStep, ListenerCloseSignals,
       ListenerClosesSocket
<1>8. QED
    BY <1>3, <1>4, <1>5, <1>6, <1>7 DEF Next

(* Line 104 tests `nil != u.recvPkt' where nil is what recvPkt always is:  *)
(* no Read ever takes a packet from receivedQueue, and every one that      *)
(* completes (line 121) has given its caller nothing.                      *)
THEOREM ReadsComeEmpty == Spec => []NothingTaken
<1>1. Init => NothingTaken
    BY DEF Init, NothingTaken, TakesPacket
<1>2. QED
    BY <1>1, NextTakesNothing, TypeCorrect, PTL DEF Spec

-----------------------------------------------------------------------------
(* Where a shutdown can stop.                                              *)

(* What the goroutines of a server that runs wait for: mainLoop room in a  *)
(* queue, the close of a transport or an error of the socket; Accept a     *)
(* transport or the signal; a Close nothing.  When all that fails them,    *)
(* nothing moves before a datagram comes or the application calls.         *)
LoopMay ==
  \/ mlPc = "push" /\ closed[cur]
  \/ mlPc = "push" /\ ~queueClosed[cur] /\ HasRoom(cur) /\ (parked => ~closed[cur])
  \/ mlPc = "push" /\ ~parked /\ ~closed[cur] /\ ~HasRoom(cur)
  \/ mlPc = "push" /\ ~parked /\ queueClosed[cur]
  \/ mlPc = "read" /\ ReadErrs
  \/ mlPc = "drain" /\ stage[MainLoop] = "idle"
  \/ stage[MainLoop] \in {"checked", "half"}

AcceptMay == acceptPc = "wait" /\ (incoming # <<>> \/ accClosed)
CloseMay(l) == lisPc[l] \in {"checked", "signalled"}

Halted == ~LoopMay /\ ~AcceptMay /\ \A l \in ListenerClosers : ~CloseMay(l)

(* Who has signalled closes the socket next, and who closes a queue has    *)
(* closed its transport first.                                             *)
ClosesInOrder ==
  /\ accClosed => ~sockOpen \/ \E l \in ListenerClosers : lisPc[l] = "signalled"
  /\ \A c \in AllClosers :
       /\ stage[c] # "idle" => target[c] \in Transports
       /\ stage[c] = "half" => closed[target[c]]
  /\ \A t \in Transports : queueClosed[t] => closed[t]

LEMMA InitClosesInOrder == Init => ClosesInOrder
  BY DEF Init, ClosesInOrder

(* A step of a transport's Close, whoever makes it.                        *)
LEMMA ClosingKeepsOrder ==
  ASSUME TypeOK, ClosesInOrder, NEW c \in AllClosers,
         CloseSignals(c) \/ CloseQueue(c)
  PROVE  ClosesInOrder'
<1>1. /\ UNCHANGED <<accClosed, sockOpen, lisPc>>
      /\ target[c] \in Transports
    BY DEF CloseSignals, CloseQueue, listenVars, ClosesInOrder
<1>2. CASE CloseSignals(c)
  <2>1. UNCHANGED <<queueClosed, target>>
      BY <1>2 DEF CloseSignals
  <2>2. \A t \in Transports : closed[t] => closed'[t]
      BY <1>2 DEF CloseSignals, TypeOK
  <2>3. \A d \in AllClosers : stage'[d] = stage[d] \/ (d = c /\ closed'[target[c]])
      BY <1>1, <1>2 DEF CloseSignals, TypeOK
  <2>4. stage[c] = "checked"
      BY <1>2 DEF CloseSignals
  <2>5. QED
      BY <1>1, <2>1, <2>2, <2>3, <2>4 DEF ClosesInOrder
<1>3. CASE CloseQueue(c)
  <2>1. UNCHANGED closed /\ closed[target[c]]
      BY <1>3 DEF CloseQueue, ClosesInOrder
  <2>2. \A d \in AllClosers :
          \/ stage'[d] = stage[d] /\ target'[d] = target[d]
          \/ stage'[d] = "idle"
      BY <1>3 DEF CloseQueue, TypeOK
  <2>3. \A t \in Transports : queueClosed'[t] = queueClosed[t] \/ t = target[c]
      BY <1>3 DEF CloseQueue, TypeOK
  <2>4. QED
      BY <1>1, <2>1, <2>2, <2>3 DEF ClosesInOrder
<1>4. QED
    BY <1>2, <1>3

(* A step that begins a transport's Close.                                 *)
LEMMA BeginningKeepsOrder ==
  ASSUME TypeOK, ClosesInOrder, NEW c \in AllClosers, NEW t \in Transports,
         CloseBegins(c, t), UNCHANGED listenVars, UNCHANGED transVars
  PROVE  ClosesInOrder'
<1>1. \A d \in AllClosers :
        \/ stage'[d] = stage[d] /\ target'[d] = target[d]
        \/ stage'[d] = "checked" /\ target'[d] = t
    BY DEF CloseBegins, closeVars, TypeOK
<1>2. UNCHANGED <<accClosed, sockOpen, lisPc, closed, queueClosed>>
    BY DEF listenVars, transVars
<1>3. QED
    BY <1>1, <1>2 DEF ClosesInOrder

LEMMA NextClosesInOrder == TypeOK /\ ClosesInOrder /\ [Next]_vars => ClosesInOrder'
<1> SUFFICES ASSUME TypeOK, ClosesInOrder, [Next]_vars PROVE ClosesInOrder'
    OBVIOUS
<1>0. ASSUME UNCHANGED <<accClosed, sockOpen, lisPc, closed, queueClosed>>,
             UNCHANGED closeVars
      PROVE  ClosesInOrder'
    BY <1>0 DEF ClosesInOrder, closeVars
<1>1. CASE Datagram
    BY <1>0, <1>1 DEF Datagram, RouteKnown, RouteNew, RouteRefused, listenVars,
                      transVars
<1>2. CASE MainLoopStep
  <2>1. MainLoop \in AllClosers
      BY DEF AllClosers
  <2>2. ASSUME NEW a \in Addrs, DrainNext(a) PROVE ClosesInOrder'
    <3>1. transports[a] \in Transports
        BY <2>2 DEF DrainNext, TypeOK
    <3>2. QED
        BY <2>1, <2>2, <3>1, BeginningKeepsOrder DEF DrainNext
  <2>3. CASE CloseSignals(MainLoop) \/ CloseQueue(MainLoop)
      BY <2>1, <2>3, ClosingKeepsOrder
  <2>4. CASE PushDelivered \/ PushRejected \/ PushParks \/ PushPanics \/ ReadFails
             \/ DrainDone
      BY <1>0, <2>4 DEF PushDelivered, PushRejected, PushParks, PushPanics,
                        ReadFails, DrainDone, listenVars, transVars
  <2>5. QED
      BY <1>2, <2>2, <2>3, <2>4 DEF MainLoopStep
<1>3. CASE App
  <2>1. Closers \subseteq AllClosers
      BY DEF AllClosers
  <2>2. ASSUME NEW c \in Closers, NEW t \in Transports, AppCloses(c, t)
        PROVE  ClosesInOrder'
      BY <2>1, <2>2, BeginningKeepsOrder DEF AppCloses
  <2>3. ASSUME NEW c \in Closers, AppCloseStep(c) PROVE ClosesInOrder'
      BY <2>1, <2>3, ClosingKeepsOrder DEF AppCloseStep
  <2>4. ASSUME NEW t \in Transports, Read(t) \/ DeadlinePasses(t)
        PROVE  ClosesInOrder'
      BY <1>0, <2>4 DEF Read, DeadlinePasses, listenVars, transVars
  <2>5. QED
      BY <1>3, <2>2, <2>3, <2>4 DEF App
<1>4. CASE AcceptLoop
    BY <1>0, <1>4 DEF AcceptLoop, AcceptReturns, AcceptFails, listenVars, transVars
<1>5. CASE ListenerClose
  <2>1. UNCHANGED <<closed, queueClosed, stage, target>>
      BY <1>5 DEF ListenerClose, ListenerCloseBegins, ListenerCloseStep,
                  ListenerCloseSignals, ListenerClosesSocket, transVars, closeVars
  <2>2. accClosed' => ~sockOpen' \/ \E l \in ListenerClosers : lisPc'[l] = "signalled"
    <3> DEFINE Follows ==
          accClosed' => ~sockOpen' \/ \E l \in ListenerClosers : lisPc'[l] = "signalled"
    <3>1. ASSUME NEW l \in ListenerClosers, ListenerCloseBegins(l) PROVE Follows
      <4>1. /\ lisPc[l] = "idle" /\ UNCHANGED <<accClosed, sockOpen>>
            /\ \A k \in ListenerClosers : k # l => lisPc'[k] = lisPc[k]
          BY <3>1 DEF ListenerCloseBegins, TypeOK
      <4>2. QED
          BY <4>1 DEF ClosesInOrder
    <3>2. ASSUME NEW l \in ListenerClosers, ListenerCloseSignals(l) PROVE Follows
        BY <3>2 DEF ListenerCloseSignals, ClosesInOrder, TypeOK
    <3>3. ASSUME NEW l \in ListenerClosers, ListenerClosesSocket(l) PROVE Follows
        BY <3>3 DEF ListenerClosesSocket
    <3>4. QED
        BY <1>5, <3>1, <3>2, <3>3 DEF ListenerClose, ListenerCloseStep
  <2>3. QED
      BY <2>1, <2>2 DEF ClosesInOrder
<1>6. CASE UNCHANGED vars
    BY <1>0, <1>6 DEF vars, closeVars
<1>7. QED
    BY <1>1, <1>2, <1>3, <1>4, <1>5, <1>6 DEF Next

(* When nothing in a server that runs can go on after the acceptor's Close *)
(* has signalled, Accept has returned its error and mainLoop has closed    *)
(* all children and returned, or it sleeps in received on the full queue   *)
(* of an open transport: whatever was closing, reading or arriving when    *)
(* the Close came (udp/factory.go lines 97-161, udp/transport.go lines     *)
(* 134-152).  It is what ShutdownOrBackPressure needs beside the           *)
(* scheduler.                                                              *)
THEOREM OnlyBackPressureHalts ==
  Spec => [](accClosed /\ Running /\ Halted =>
               /\ acceptPc = "stopped"
               /\ mlPc = "done" \/ (parked /\ ~closed[cur] /\ ~HasRoom(cur)))
<1>1. IInv /\ ClosesInOrder /\ accClosed /\ Halted =>
        /\ acceptPc = "stopped"
        /\ mlPc = "done" \/ (parked /\ ~closed[cur] /\ ~HasRoom(cur))
  <2>1. SUFFICES ASSUME IInv, ClosesInOrder, accClosed, Halted
                 PROVE  /\ acceptPc = "stopped"
                        /\ mlPc = "done" \/ (parked /\ ~closed[cur] /\ ~HasRoom(cur))
      OBVIOUS
  <2>2. acceptPc = "stopped"
      BY <2>1 DEF IInv, TypeOK, Halted, AcceptMay
  <2>3. ~sockOpen
      BY <2>1 DEF ClosesInOrder, Halted, CloseMay
  <2>4. mlPc # "read"
      BY <2>1, <2>3 DEF Halted, LoopMay, ReadErrs
  <2>5. mlPc # "drain"
    <3>1. stage[MainLoop] \in {"idle", "checked", "half"}
        BY <2>1 DEF IInv, TypeOK, AllClosers
    <3>2. QED
        BY <2>1, <3>1 DEF Halted, LoopMay
  <2>6. CASE mlPc = "push"
    <3>1. cur \in Transports
        BY <2>1, <2>6 DEF IInv, Routing, HandKnown
    <3>2. ~closed[cur] /\ ~queueClosed[cur]
        BY <2>1, <2>6, <3>1 DEF Halted, LoopMay, ClosesInOrder
    <3>3. ~HasRoom(cur) /\ parked
        BY <2>1, <2>6, <3>2 DEF Halted, LoopMay, IInv, TypeOK
    <3>4. QED
        BY <2>2, <3>2, <3>3
  <2>7. QED
      BY <2>1, <2>2, <2>4, <2>5, <2>6 DEF IInv, TypeOK
<1>2. IInv => TypeOK
    BY DEF IInv
<1>3. QED
    BY <1>1, <1>2, IInvHolds, InitClosesInOrder, NextClosesInOrder, PTL DEF Spec
==============================================================================
