-------------------------- MODULE WsAcceptorProofs --------------------------
(***************************************************************************)
(* Proofs about WsAcceptor, for any connections, any closers and any       *)
(* backlog: the ownership of connections, the drain, and that the acceptor *)
(* implements ConnHandoff.                                                 *)
(*                                                                         *)
(* OneOwner counts owners and says nothing of the connections that are     *)
(* closed or delivered; the induction needs to know of each place what its *)
(* connections are.  StopsInOrder is what it takes to say where a closed   *)
(* acceptor can stop.                                                      *)
(***************************************************************************)
EXTENDS WsAcceptor, FiniteSetTheorems, TLAPS

(* What a handler that has not ended says of its connection.               *)
HandlersHold ==
  \A c \in Conns :
    /\ hPc[c] \in {"idle", "upgrading"} => conn[c] = "none"
    /\ hPc[c] = "posting" => conn[c] = "open"

(* A connection that has left its handler, is open and undelivered.        *)
Posted(c) == hPc[c] = "done" /\ conn[c] = "open" /\ c \notin delivered

(* The queue holds posted connections, each once, and not the one Accept   *)
(* has in its hands.                                                       *)
QueueHolds ==
  /\ \A i \in 1..Len(incoming) : Posted(incoming[i]) /\ incoming[i] # ev
  /\ \A i, j \in 1..Len(incoming) : incoming[i] = incoming[j] => i = j

AcceptHolds ==
  /\ acceptPc = "building" <=> ev # NoConn
  /\ ev # NoConn => Posted(ev)

(* Nobody takes a connection back from the application.                    *)
AppHolds == \A c \in delivered : hPc[c] = "done"

(* Somebody holds every other open connection.                             *)
NoneLost ==
  \A c \in Conns :
    conn[c] = "open" /\ c \notin delivered =>
      \/ hPc[c] = "posting"
      \/ ev = c
      \/ \E i \in 1..Len(incoming) : incoming[i] = c

(* Accept drains only after the signal; what was posted before it has      *)
(* left its handler.                                                       *)
DrainAfterSignal ==
  /\ acceptPc \in {"draining", "drained"} => signal
  /\ \A c \in early : hPc[c] = "done"
  /\ DrainCoversEarly

Holds == HandlersHold /\ QueueHolds /\ AcceptHolds /\ AppHolds /\ NoneLost

IInv == TypeOK /\ Holds /\ DrainAfterSignal

-----------------------------------------------------------------------------
(* Sequences: a queue that gives its head, and one that takes c.           *)

LEMMA TailShifts ==
  ASSUME NEW s \in Seq(Conns), s # <<>>
  PROVE  /\ Head(s) = s[1] /\ 1 \in 1..Len(s)
         /\ Tail(s) \in Seq(Conns)
         /\ Len(Tail(s)) = Len(s) - 1
         /\ \A i \in 1..Len(Tail(s)) : i + 1 \in 1..Len(s) /\ Tail(s)[i] = s[i + 1]
         /\ \A i \in 1..Len(s) : i = 1 \/ (i - 1 \in 1..Len(Tail(s)) /\ Tail(s)[i - 1] = s[i])
  OBVIOUS

LEMMA AppendKeeps ==
  ASSUME NEW s \in Seq(Conns), NEW c \in Conns
  PROVE  /\ Append(s, c) \in Seq(Conns)
         /\ Len(Append(s, c)) = Len(s) + 1
         /\ \A i \in 1..Len(s) : i \in 1..(Len(s) + 1) /\ Append(s, c)[i] = s[i]
         /\ \A i \in 1..(Len(s) + 1) : i \in 1..Len(s) \/ i = Len(s) + 1
         /\ Append(s, c)[Len(s) + 1] = c
  OBVIOUS

-----------------------------------------------------------------------------
LEMMA InitIInv == Init => IInv
<1> SUFFICES ASSUME Init PROVE IInv
    OBVIOUS
<1>1. TypeOK
  <2>1. incoming \in Seq(Conns) /\ Len(incoming) <= Backlog
      BY WsAcceptorAssumption DEF Init
  <2>2. errs \in 0..ErrCap
      BY DEF Init, ErrCap
  <2>3. /\ hPc \in [Conns -> {"idle", "upgrading", "posting", "done"}]
        /\ conn \in [Conns -> {"none", "open", "closed"}]
        /\ closePc \in [Closers -> {"idle", "checked", "signalled", "returned"}]
      BY DEF Init
  <2> QED
      BY <2>1, <2>2, <2>3 DEF Init, TypeOK, AcceptPcs
<1>2. HandlersHold /\ QueueHolds /\ AcceptHolds /\ AppHolds /\ NoneLost
    BY DEF Init, HandlersHold, QueueHolds, AcceptHolds, AppHolds, NoneLost, Posted
<1>3. DrainAfterSignal
    BY DEF Init, DrainAfterSignal, DrainCoversEarly
<1> QED
    BY <1>1, <1>2, <1>3 DEF IInv, Holds

-----------------------------------------------------------------------------
(* Types.                                                                  *)

LEMMA NextTypeOK == TypeOK /\ AcceptHolds /\ [Next]_vars => TypeOK'
<1> SUFFICES ASSUME TypeOK, AcceptHolds, [Next]_vars PROVE TypeOK'
    OBVIOUS
<1> USE DEF TypeOK, handlerVars, acceptVars, closeVars, listenVars
<1>1. CASE ServeReturns
    BY <1>1 DEF ServeReturns
<1>2. CASE ServeReports
    BY <1>2 DEF ServeReports, ErrCap
<1>3. CASE ListenFails
    BY <1>3 DEF ListenFails, ErrCap
<1>4. CASE ListenSucceeds
    BY <1>4 DEF ListenSucceeds
<1>5. ASSUME NEW c \in Conns, Request(c) PROVE TypeOK'
    BY <1>5 DEF Request
<1>6. ASSUME NEW c \in Conns, UpgradeFails(c) PROVE TypeOK'
    BY <1>6 DEF UpgradeFails
<1>7. ASSUME NEW c \in Conns, Upgrades(c) PROVE TypeOK'
    BY <1>7 DEF Upgrades
<1>8. ASSUME NEW c \in Conns, Posts(c) PROVE TypeOK'
  <2>1. incoming' \in Seq(Conns) /\ Len(incoming') <= Backlog
      BY <1>8, AppendKeeps, WsAcceptorAssumption DEF Posts, BacklogHasRoom
  <2> QED
      BY <1>8, <2>1 DEF Posts, AfterPost
<1>9. ASSUME NEW c \in Conns, Drops(c) PROVE TypeOK'
    BY <1>9 DEF Drops
<1>10. CASE AcceptTakes
  <2>1. /\ ev' \in Conns
        /\ incoming' \in Seq(Conns) /\ Len(incoming') <= Backlog
      BY <1>10, TailShifts, WsAcceptorAssumption DEF AcceptTakes
  <2> QED
      BY <1>10, <2>1 DEF AcceptTakes, AcceptPcs
<1>11. CASE AcceptDelivers
  <2>1. ev \in Conns
      BY <1>11 DEF AcceptHolds, AcceptDelivers
  <2>2. delivered' \subseteq Conns
      BY <1>11, <2>1 DEF AcceptDelivers
  <2> QED
      BY <1>11, <2>2 DEF AcceptDelivers, AcceptPcs
<1>12. CASE AcceptBuildFails
    BY <1>12 DEF AcceptBuildFails, AcceptPcs
<1>13. CASE AcceptIsTold
    BY <1>13 DEF AcceptIsTold, AcceptPcs
<1>14. CASE DrainOne
  <2>1. incoming' \in Seq(Conns) /\ Len(incoming') <= Backlog
      BY <1>14, TailShifts, WsAcceptorAssumption DEF DrainOne
  <2> QED
      BY <1>14, <2>1 DEF DrainOne
<1>15. CASE DrainEnds
    BY <1>15 DEF DrainEnds, AcceptPcs
<1>16. ASSUME NEW k \in Closers, CloseBegins(k) PROVE TypeOK'
    BY <1>16 DEF CloseBegins
<1>17. ASSUME NEW k \in Closers, CloseSignals(k) PROVE TypeOK'
    BY <1>17 DEF CloseSignals
<1>18. ASSUME NEW k \in Closers, CloseStopsServer(k) PROVE TypeOK'
    BY <1>18 DEF CloseStopsServer
<1>19. CASE UNCHANGED vars
    BY <1>19 DEF vars
<1> QED
    BY <1>1, <1>2, <1>3, <1>4, <1>5, <1>6, <1>7, <1>8, <1>9, <1>10, <1>11,
       <1>12, <1>13, <1>14, <1>15, <1>16, <1>17, <1>18, <1>19
    DEF Next, HandlerStep, AcceptStep, CloseStep

-----------------------------------------------------------------------------
(* Ownership.                                                              *)

(* Steps that move no connection.                                          *)
Still ==
  /\ UNCHANGED <<hPc, conn, incoming, ev, delivered>>
  /\ acceptPc' = "building" <=> acceptPc = "building"

LEMMA StillHolds == Holds /\ Still => Holds'
  BY DEF Holds, Still, HandlersHold, QueueHolds, AcceptHolds, AppHolds,
         NoneLost, Posted

LEMMA PostsHolds ==
  ASSUME IInv, NEW c \in Conns, Posts(c)
  PROVE  Holds'
<1> USE DEF IInv, Holds, Posts, AfterPost, acceptVars
<1>1. /\ incoming' = Append(incoming, c)
      /\ hPc[c] = "posting" /\ hPc' = [hPc EXCEPT ![c] = "done"]
      /\ hPc \in [Conns -> {"idle", "upgrading", "posting", "done"}]
      /\ UNCHANGED <<conn, ev, delivered, acceptPc>>
      /\ incoming \in Seq(Conns) /\ delivered \subseteq Conns
    BY DEF TypeOK
<1>2. conn[c] = "open" /\ c \notin delivered /\ c # ev
    BY <1>1, WsAcceptorAssumption
    DEF HandlersHold, AppHolds, AcceptHolds, Posted
<1>3. \A i \in 1..Len(incoming) : incoming[i] \in Conns /\ incoming[i] # c
    BY <1>1 DEF QueueHolds, Posted
<1>4. HandlersHold' /\ AcceptHolds' /\ AppHolds'
    BY <1>1 DEF HandlersHold, AcceptHolds, AppHolds, Posted, TypeOK
<1>5. QueueHolds'
    BY <1>1, <1>2, <1>3, AppendKeeps DEF QueueHolds, Posted
<1>6. NoneLost'
  <2> SUFFICES ASSUME NEW d \in Conns, conn[d] = "open", d \notin delivered
               PROVE  \/ hPc'[d] = "posting"
                      \/ ev = d
                      \/ \E i \in 1..Len(incoming') : incoming'[i] = d
      BY <1>1 DEF NoneLost
  <2>1. CASE d = c
      BY <2>1, <1>1, AppendKeeps
  <2>2. CASE d # c
      BY <2>2, <1>1, AppendKeeps DEF NoneLost
  <2> QED
      BY <2>1, <2>2
<1> QED
    BY <1>4, <1>5, <1>6

(* A handler's other steps.                                                *)
LEMMA HandlerHolds ==
  ASSUME IInv, NEW c \in Conns,
         Request(c) \/ UpgradeFails(c) \/ Upgrades(c) \/ Drops(c)
  PROVE  Holds'
<1> USE DEF IInv, Holds
<1>1. /\ UNCHANGED <<incoming, ev, delivered, acceptPc>>
      /\ hPc[c] # "done"
      /\ \A d \in Conns \ {c} : hPc'[d] = hPc[d] /\ conn'[d] = conn[d]
      /\ \/ hPc'[c] \in {"upgrading", "done"} /\ conn'[c] # "open"
         \/ hPc'[c] = "posting" /\ conn'[c] = "open"
      /\ hPc'[c] \in {"upgrading"} => conn'[c] = "none"
    BY DEF TypeOK, Request, UpgradeFails, Upgrades, Drops, acceptVars,
           HandlersHold
<1>2. HandlersHold'
    BY <1>1 DEF HandlersHold
<1>3. c \notin delivered /\ c # ev
    BY <1>1, WsAcceptorAssumption DEF AppHolds, AcceptHolds, Posted
<1>4. \A i \in 1..Len(incoming) : incoming[i] \in Conns \ {c}
    BY <1>1 DEF QueueHolds, Posted, TypeOK
<1>5. QueueHolds'
    BY <1>1, <1>4 DEF QueueHolds, Posted
<1>6. AcceptHolds' /\ AppHolds'
    BY <1>1, <1>3 DEF AcceptHolds, AppHolds, Posted, TypeOK
<1>7. NoneLost'
    BY <1>1, <1>4 DEF NoneLost
<1> QED
    BY <1>2, <1>5, <1>6, <1>7

LEMMA TakesHolds ==
  ASSUME IInv, AcceptTakes
  PROVE  Holds'
<1> USE DEF IInv, Holds, AcceptTakes
<1>1. /\ incoming \in Seq(Conns) /\ incoming # <<>>
      /\ incoming' = Tail(incoming) /\ ev' = incoming[1] /\ ev = NoConn
      /\ acceptPc' = "building"
      /\ UNCHANGED <<hPc, conn, delivered>>
    BY TailShifts DEF TypeOK, AcceptHolds
<1>2. ev' \in Conns /\ Posted(ev')
    BY <1>1, TailShifts DEF QueueHolds
<1>3. HandlersHold' /\ AppHolds'
    BY <1>1 DEF HandlersHold, AppHolds
<1>4. AcceptHolds'
    BY <1>1, <1>2, WsAcceptorAssumption DEF AcceptHolds, Posted
<1>5. QueueHolds'
  <2>1. (\A i \in 1..Len(incoming) : Posted(incoming[i]) /\ incoming[i] # ev)'
      BY <1>1, TailShifts DEF QueueHolds, Posted
  <2>2. \A i, j \in 1..Len(incoming') : incoming'[i] = incoming'[j] => i = j
      BY <1>1, TailShifts DEF QueueHolds
  <2> QED
      BY <2>1, <2>2 DEF QueueHolds
<1>6. NoneLost'
  <2> SUFFICES ASSUME NEW d \in Conns, conn[d] = "open", d \notin delivered,
                      hPc[d] # "posting"
               PROVE  \/ ev' = d
                      \/ \E i \in 1..Len(incoming') : incoming'[i] = d
      BY <1>1 DEF NoneLost
  <2>1. PICK i \in 1..Len(incoming) : incoming[i] = d
      BY <1>1, WsAcceptorAssumption DEF NoneLost
  <2>2. \/ i = 1
        \/ /\ i - 1 \in 1..Len(Tail(incoming))
           /\ Tail(incoming)[i - 1] = incoming[i]
      BY <1>1, TailShifts
  <2> QED
      BY <1>1, <2>1, <2>2
<1> QED
    BY <1>3, <1>4, <1>5, <1>6

(* Accept gets rid of what it has in its hands.                            *)
LEMMA BuiltHolds ==
  ASSUME IInv, AcceptDelivers \/ AcceptBuildFails
  PROVE  Holds'
<1> USE DEF IInv, Holds
<1>1. /\ ev \in Conns /\ Posted(ev)
      /\ ev' = NoConn /\ acceptPc' # "building"
      /\ UNCHANGED <<hPc, incoming>>
    BY DEF AcceptDelivers, AcceptBuildFails, AcceptHolds, TypeOK, handlerVars
<1>2. /\ \A d \in Conns \ {ev} : conn'[d] = conn[d]
                                 /\ (d \in delivered' <=> d \in delivered)
      /\ conn'[ev] # "open" \/ ev \in delivered'
      /\ delivered' \subseteq delivered \cup {ev}
      /\ conn'[ev] # "none"
    BY <1>1 DEF AcceptDelivers, AcceptBuildFails, Posted, TypeOK, handlerVars
<1>3. HandlersHold' /\ AppHolds' /\ AcceptHolds'
    BY <1>1, <1>2 DEF HandlersHold, AppHolds, AcceptHolds, Posted
<1>4. \A i \in 1..Len(incoming) : incoming[i] \in Conns \ {ev}
    BY DEF QueueHolds, TypeOK
<1>5. QueueHolds'
    BY <1>1, <1>2, <1>4, WsAcceptorAssumption DEF QueueHolds, Posted
<1>6. NoneLost'
    BY <1>1, <1>2 DEF NoneLost
<1> QED
    BY <1>3, <1>5, <1>6

LEMMA DrainHolds ==
  ASSUME IInv, DrainOne
  PROVE  Holds'
<1> USE DEF IInv, Holds, DrainOne, acceptVars
<1> DEFINE h == incoming[1]
<1>1. /\ incoming \in Seq(Conns) /\ incoming # <<>> /\ h \in Conns
      /\ incoming' = Tail(incoming) /\ Posted(h)
      /\ conn' = [conn EXCEPT ![h] = "closed"]
      /\ conn \in [Conns -> {"none", "open", "closed"}]
      /\ UNCHANGED <<hPc, ev, delivered, acceptPc>>
    BY TailShifts DEF TypeOK, QueueHolds
<1>2. h # ev /\ \A i \in 1..Len(incoming') : incoming'[i] # h
    BY <1>1, TailShifts DEF QueueHolds
<1> HIDE DEF h
<1>3. HandlersHold' /\ AppHolds'
    BY <1>1 DEF HandlersHold, AppHolds, Posted
<1>4. AcceptHolds'
    BY <1>1, <1>2 DEF AcceptHolds, Posted, TypeOK
<1>5. QueueHolds'
  <2>1. (\A i \in 1..Len(incoming) : Posted(incoming[i]) /\ incoming[i] # ev)'
      BY <1>1, <1>2, TailShifts DEF QueueHolds, Posted
  <2>2. \A i, j \in 1..Len(incoming') : incoming'[i] = incoming'[j] => i = j
      BY <1>1, TailShifts DEF QueueHolds
  <2> QED
      BY <2>1, <2>2 DEF QueueHolds
<1>6. NoneLost'
  <2> SUFFICES ASSUME NEW d \in Conns, conn'[d] = "open", d \notin delivered
               PROVE  \/ hPc[d] = "posting"
                      \/ ev = d
                      \/ \E i \in 1..Len(incoming') : incoming'[i] = d
      BY <1>1 DEF NoneLost
  <2>1. d # h /\ conn[d] = "open"
      BY <1>1
  <2>2. CASE \E i \in 1..Len(incoming) : incoming[i] = d
    <3>1. PICK i \in 1..Len(incoming) : incoming[i] = d
        BY <2>2
    <3>2. i # 1
        BY <2>1, <3>1 DEF h
    <3>3. /\ i - 1 \in 1..Len(Tail(incoming))
          /\ Tail(incoming)[i - 1] = incoming[i]
        BY <1>1, <3>2, TailShifts
    <3> QED
        BY <1>1, <3>1, <3>3
  <2> QED
      BY <2>1, <2>2 DEF NoneLost
<1> QED
    BY <1>3, <1>4, <1>5, <1>6

LEMMA NextHolds == IInv /\ [Next]_vars => Holds'
<1> SUFFICES ASSUME IInv, [Next]_vars PROVE Holds'
    OBVIOUS
<1>1. CASE \/ ServeReturns \/ ServeReports \/ ListenFails \/ ListenSucceeds
           \/ AcceptIsTold \/ DrainEnds \/ UNCHANGED vars
           \/ \E k \in Closers : CloseBegins(k) \/ CloseStep(k)
  <2>1. Still
      BY <1>1 DEF ServeReturns, ServeReports, ListenFails, ListenSucceeds,
                  AcceptIsTold, DrainEnds, vars, CloseBegins, CloseStep,
                  CloseSignals, CloseStopsServer, Still, handlerVars, acceptVars
  <2> QED
      BY <2>1, StillHolds DEF IInv
<1>2. ASSUME NEW c \in Conns, Request(c) \/ HandlerStep(c) PROVE Holds'
    BY <1>2, HandlerHolds, PostsHolds DEF HandlerStep
<1>3. CASE AcceptTakes \/ AcceptDelivers \/ AcceptBuildFails \/ DrainOne
    BY <1>3, TakesHolds, BuiltHolds, DrainHolds
<1> QED
    BY <1>1, <1>2, <1>3 DEF Next, AcceptStep

-----------------------------------------------------------------------------
(* The drain.                                                              *)

LEMMA NextDrains == IInv /\ [Next]_vars => DrainAfterSignal'
<1> SUFFICES ASSUME IInv, [Next]_vars PROVE DrainAfterSignal'
    OBVIOUS
<1> USE DEF IInv, DrainAfterSignal, DrainCoversEarly
<1>1. ASSUME NEW c \in Conns, Posts(c) PROVE DrainAfterSignal'
  <2>1. /\ incoming \in Seq(Conns) /\ incoming' = Append(incoming, c)
        /\ hPc' = [hPc EXCEPT ![c] = "done"]
        /\ hPc \in [Conns -> {"idle", "upgrading", "posting", "done"}]
        /\ UNCHANGED <<acceptPc, signal>> /\ early \subseteq Conns
        /\ early' = IF signal THEN early ELSE early \cup {c}
      BY <1>1 DEF Posts, TypeOK, acceptVars, closeVars
  <2>2. c \notin early
      BY <1>1 DEF Posts
  <2>3. Queued' \subseteq Queued \cup {c}
      BY <2>1, AppendKeeps DEF Queued
  <2>4. \A d \in early' : hPc'[d] = "done"
      BY <2>1
  <2> QED
      BY <2>1, <2>2, <2>3, <2>4
<1>2. ASSUME NEW c \in Conns,
             Request(c) \/ UpgradeFails(c) \/ Upgrades(c) \/ Drops(c)
      PROVE DrainAfterSignal'
  <2>1. /\ UNCHANGED <<acceptPc, signal, early, incoming>>
        /\ \A d \in Conns : hPc[d] = "done" => hPc'[d] = "done"
        /\ early \subseteq Conns
      BY <1>2 DEF Request, UpgradeFails, Upgrades, Drops, TypeOK, acceptVars,
                  closeVars
  <2> QED
      BY <2>1 DEF Queued
<1>3. CASE DrainEnds
  <2>1. Queued' = {}
      BY <1>3 DEF DrainEnds, QueueEmpty, Queued, handlerVars, TypeOK
  <2> QED
      BY <1>3, <2>1 DEF DrainEnds, handlerVars, closeVars
<1>4. CASE AcceptTakes \/ AcceptDelivers \/ AcceptBuildFails \/ DrainOne
           \/ AcceptIsTold
    BY <1>4 DEF AcceptTakes, AcceptDelivers, AcceptBuildFails, DrainOne,
                AcceptIsTold, AcceptSeesSignal, handlerVars, acceptVars, closeVars
<1>5. CASE \/ ServeReturns \/ ServeReports \/ ListenFails \/ ListenSucceeds
           \/ UNCHANGED vars \/ \E k \in Closers : CloseBegins(k) \/ CloseStep(k)
  <2>1. UNCHANGED <<acceptPc, early, incoming, hPc>> /\ (signal => signal')
      BY <1>5 DEF ServeReturns, ServeReports, ListenFails, ListenSucceeds,
                  vars, CloseBegins, CloseStep, CloseSignals, CloseStopsServer,
                  handlerVars, acceptVars, closeVars
  <2> QED
      BY <2>1 DEF Queued
<1> QED
    BY <1>1, <1>2, <1>3, <1>4, <1>5 DEF Next, HandlerStep, AcceptStep

-----------------------------------------------------------------------------
(* The theorems.                                                           *)

(* The inductive invariant: types, what each place that holds connections  *)
(* knows of them, and the drain (websocket/factory.go lines 152-191).      *)
THEOREM IInvHolds == Spec => []IInv
<1>1. IInv /\ [Next]_vars => IInv'
    BY NextTypeOK, NextHolds, NextDrains DEF IInv, Holds
<1> QED
    BY InitIInv, <1>1, PTL DEF Spec

(* The state is well typed; neither `incoming' nor errorChan ever holds    *)
(* more than its capacity.                                                 *)
THEOREM TypeCorrect == Spec => []TypeOK
<1>1. IInv => TypeOK
    BY DEF IInv
<1> QED
    BY IInvHolds, <1>1, PTL

(* What was posted before Close signalled is out of the queue when Accept  *)
(* returns its last error ("close all incoming connections", line 181).    *)
THEOREM DrainCovers == Spec => []DrainCoversEarly
<1>1. IInv => DrainCoversEarly
    BY DEF IInv, DrainAfterSignal
<1> QED
    BY IInvHolds, <1>1, PTL

(* Every upgraded connection that is open and not the application's has    *)
(* exactly one owner: its handler, a place in `incoming', or Accept.       *)
THEOREM AlwaysOneOwner == Spec => []OneOwner
<1>1. IInv => OneOwner
  <2> SUFFICES ASSUME IInv, NEW c \in Conns
               PROVE  Cardinality(Owners(c)) =
                        IF conn[c] = "open" /\ c \notin delivered THEN 1 ELSE 0
      BY DEF OneOwner
  <2> USE DEF IInv, Holds
  <2>1. CASE conn[c] = "open" /\ c \notin delivered
    <3>1. \E x : Owners(c) = {x}
      <4>1. CASE hPc[c] = "posting"
        <5>1. c # ev /\ \A i \in 1..Len(incoming) : incoming[i] # c
            BY <4>1, WsAcceptorAssumption DEF QueueHolds, AcceptHolds, Posted
        <5> QED
            BY <4>1, <5>1 DEF Owners
      <4>2. CASE hPc[c] # "posting" /\ ev = c
        <5>1. \A i \in 1..Len(incoming) : incoming[i] # c
            BY <4>2 DEF QueueHolds
        <5> QED
            BY <4>2, <5>1 DEF Owners
      <4>3. CASE hPc[c] # "posting" /\ ev # c
        <5>1. PICK i \in 1..Len(incoming) : incoming[i] = c
            BY <2>1, <4>3 DEF NoneLost
        <5>2. \A j \in 1..Len(incoming) : incoming[j] = c => j = i
            BY <5>1 DEF QueueHolds
        <5>3. {j \in 1..Len(incoming) : incoming[j] = c} = {i}
            BY <5>1, <5>2
        <5>4. Owners(c) = {<<"queue", i>>}
            BY <4>3, <5>3 DEF Owners
        <5> QED
            BY <5>4
      <4> QED
          BY <4>1, <4>2, <4>3
    <3> QED
        BY <2>1, <3>1, FS_Singleton
  <2>2. CASE ~(conn[c] = "open" /\ c \notin delivered)
    <3>1. hPc[c] # "posting" /\ ev # c
        BY <2>2, WsAcceptorAssumption
        DEF HandlersHold, AppHolds, AcceptHolds, Posted
    <3>2. \A i \in 1..Len(incoming) : incoming[i] # c
        BY <2>2 DEF QueueHolds, Posted
    <3>3. Owners(c) = {}
        BY <3>1, <3>2 DEF Owners
    <3> QED
        BY <2>2, <3>3, FS_EmptySet
  <2> QED
      BY <2>1, <2>2
<1> QED
    BY IInvHolds, <1>1, PTL

-----------------------------------------------------------------------------
(* The acceptor implements ConnHandoff.                                    *)

Status == [c \in Conns |-> IF c \in delivered THEN "delivered" ELSE conn[c]]

LEMMA InitRefines == Init => Handoff!Init
  BY DEF Init, Handoff!Init, AcceptOver

(* A step that moves no connection is a stutter, unless it ends Accept.    *)
LEMMA StutterRefines ==
  ASSUME Status' = Status, AcceptOver' = AcceptOver \/ AcceptOver' = TRUE
  PROVE  [Handoff!Next]_(Handoff!vars)
  BY DEF Handoff!Next, Handoff!End, Handoff!vars, Status

LEMMA MovesRefine ==
  ASSUME IInv, NEW c \in Conns, Upgrades(c) \/ Drops(c)
  PROVE  [Handoff!Next]_(Handoff!vars)
<1> USE DEF IInv, Holds
<1>1. c \notin delivered /\ UNCHANGED <<delivered, acceptPc>>
      /\ conn \in [Conns -> {"none", "open", "closed"}]
    BY DEF Upgrades, Drops, AppHolds, TypeOK, acceptVars
<1>2. CASE Upgrades(c)
  <2>1. conn[c] = "none" /\ conn' = [conn EXCEPT ![c] = "open"]
      BY <1>2 DEF Upgrades, HandlersHold
  <2>2. Handoff!Establish(c)
      BY <1>1, <2>1 DEF Handoff!Establish, Handoff!Move, AcceptOver
  <2> QED
      BY <2>2 DEF Handoff!Next
<1>3. CASE Drops(c)
  <2>1. conn[c] = "open" /\ conn' = [conn EXCEPT ![c] = "closed"]
      BY <1>3 DEF Drops, HandlersHold
  <2>2. Handoff!Drop(c)
      BY <1>1, <2>1 DEF Handoff!Drop, Handoff!Move, AcceptOver
  <2> QED
      BY <2>2 DEF Handoff!Next
<1> QED
    BY <1>2, <1>3

(* Accept, or its drain, is done with connection c.                        *)
LEMMA DropRefines ==
  ASSUME NEW c \in Conns, conn[c] = "open", c \notin delivered,
         conn \in [Conns -> {"none", "open", "closed"}],
         conn' = [conn EXCEPT ![c] = "closed"], UNCHANGED delivered,
         AcceptOver' \in {AcceptOver, TRUE}
  PROVE  [Handoff!Next]_(Handoff!vars)
<1>1. Handoff!Drop(c)
    BY DEF Handoff!Drop, Handoff!Move
<1> QED
    BY <1>1 DEF Handoff!Next

LEMMA AcceptRefines ==
  ASSUME IInv, AcceptDelivers \/ AcceptBuildFails \/ DrainOne
  PROVE  [Handoff!Next]_(Handoff!vars)
<1> USE DEF IInv, Holds
<1>1. conn \in [Conns -> {"none", "open", "closed"}]
    BY DEF TypeOK
<1>2. CASE AcceptDelivers
  <2>1. /\ ev \in Conns /\ conn[ev] = "open" /\ ev \notin delivered
        /\ delivered' = delivered \cup {ev} /\ conn' = conn
        /\ acceptPc = "building" /\ acceptPc' = "wait"
      BY <1>2 DEF AcceptDelivers, AcceptHolds, Posted, TypeOK, handlerVars
  <2>2. PICK c \in Conns : c = ev
      BY <2>1
  <2>3. Handoff!Deliver(c)
    <3>1. AcceptOver = FALSE /\ AcceptOver' = FALSE
        BY <2>1 DEF AcceptOver
    <3>2. c \notin delivered /\ conn[c] = "open" /\ delivered' = delivered \cup {c}
        BY <2>1, <2>2
    <3>3. Handoff!Move(c, "open", "delivered")
        BY <1>1, <2>1, <3>2 DEF Handoff!Move
    <3> QED
        BY <2>1, <3>1, <3>3 DEF Handoff!Deliver
  <2> QED
      BY <2>3 DEF Handoff!Next
<1>3. CASE AcceptBuildFails
  <2>1. /\ ev \in Conns /\ conn[ev] = "open" /\ ev \notin delivered
        /\ delivered' = delivered /\ conn' = [conn EXCEPT ![ev] = "closed"]
      BY <1>3 DEF AcceptBuildFails, AcceptHolds, Posted, TypeOK
  <2>2. AcceptOver' \in {AcceptOver, TRUE}
    <3>1. CASE acceptPc' = "wait"
        BY <1>3, <3>1 DEF AcceptBuildFails, AcceptOver
    <3>2. CASE acceptPc' = "stopped"
        BY <3>2 DEF AcceptOver
    <3> QED
        BY <1>3, <3>1, <3>2 DEF AcceptBuildFails
  <2>3. PICK c \in Conns : c = ev
      BY <2>1
  <2> QED
      BY <1>1, <2>1, <2>2, <2>3, DropRefines
<1>4. CASE DrainOne
  <2>1. /\ incoming[1] \in Conns /\ conn[incoming[1]] = "open"
        /\ incoming[1] \notin delivered /\ delivered' = delivered
        /\ conn' = [conn EXCEPT ![incoming[1]] = "closed"]
        /\ acceptPc' = acceptPc
      BY <1>4, TailShifts DEF DrainOne, QueueHolds, Posted, TypeOK, acceptVars
  <2>2. AcceptOver' \in {AcceptOver, TRUE}
      BY <2>1 DEF AcceptOver
  <2>3. PICK c \in Conns : c = incoming[1]
      BY <2>1
  <2> QED
      BY <1>1, <2>1, <2>2, <2>3, DropRefines
<1> QED
    BY <1>2, <1>3, <1>4

LEMMA NextRefines == IInv /\ [Next]_vars => [Handoff!Next]_(Handoff!vars)
<1> SUFFICES ASSUME IInv, [Next]_vars PROVE [Handoff!Next]_(Handoff!vars)
    OBVIOUS
<1>1. ASSUME NEW c \in Conns, Request(c) \/ HandlerStep(c)
      PROVE  [Handoff!Next]_(Handoff!vars)
  <2>1. CASE Request(c) \/ UpgradeFails(c) \/ Posts(c)
    <3>1. UNCHANGED <<conn, delivered, acceptPc>>
        BY <2>1 DEF Request, UpgradeFails, Posts, AfterPost, acceptVars
    <3> QED
        BY <3>1, StutterRefines DEF Status, AcceptOver
  <2> QED
      BY <1>1, <2>1, MovesRefine DEF HandlerStep
<1>2. CASE AcceptDelivers \/ AcceptBuildFails \/ DrainOne
    BY <1>2, AcceptRefines
<1>3. CASE \/ ServeReturns \/ ServeReports \/ ListenFails \/ ListenSucceeds
           \/ AcceptTakes \/ AcceptIsTold \/ DrainEnds \/ UNCHANGED vars
           \/ \E k \in Closers : CloseBegins(k) \/ CloseStep(k)
  <2>1. /\ UNCHANGED <<conn, delivered>>
        /\ AcceptOver' = AcceptOver \/ AcceptOver' = TRUE
      BY <1>3 DEF ServeReturns, ServeReports, ListenFails, ListenSucceeds,
                  AcceptTakes, AcceptIsTold, DrainEnds, vars, CloseBegins,
                  CloseStep, CloseSignals, CloseStopsServer, handlerVars,
                  acceptVars, AcceptOver
  <2> QED
      BY <2>1, StutterRefines DEF Status
<1> QED
    BY <1>1, <1>2, <1>3 DEF Next, AcceptStep

(* Refinement: whatever the goroutines do, each connection is handed over  *)
(* or closed, once and never both, and none is handed over after the end.  *)
THEOREM ImplementsHandoff == Spec => HandsOver
<1>1. []IInv /\ [][Next]_vars => [][Handoff!Next]_(Handoff!vars)
    BY NextRefines, PTL
<1> QED
    BY IInvHolds, InitRefines, <1>1, PTL DEF Spec, HandsOver, Handoff!Spec

-----------------------------------------------------------------------------
(* Where a closed acceptor can stop.                                       *)

(* What the goroutines of an acceptor that runs wait for: a handler room   *)
(* in `incoming' or the signal; Accept, once there is an acceptor, a       *)
(* connection or the signal; the one that serves the end of the server and *)
(* room in errorChan; Listen its timer; a Close nothing.  When all that    *)
(* fails them, nothing moves before a request comes, the application calls *)
(* or the server fails.                                                    *)
HandlerMay(c) ==
  hPc[c] = "upgrading" \/ (hPc[c] = "posting" /\ (BacklogHasRoom \/ signal))

AcceptMay ==
  \/ listenPc = "ok" /\ acceptPc = "wait" /\ (incoming # <<>> \/ signal)
  \/ acceptPc \in {"building", "draining"}

ServeMay ==
  \/ servePc = "serving" /\ server = "closed"
  \/ servePc = "returned" /\ errs < ErrCap

CloseMay(k) == closePc[k] \in {"checked", "signalled"}

Halted ==
  /\ \A c \in Conns : ~HandlerMay(c)
  /\ ~AcceptMay /\ ~ServeMay /\ listenPc # "waiting"
  /\ \A k \in Closers : ~CloseMay(k)

(* Only an acceptor that Listen has returned is closed, who has signalled  *)
(* stops the server next, and only the end of Serve is reported.           *)
StopsInOrder ==
  /\ \A k \in Closers : closePc[k] # "idle" => listenPc = "ok"
  /\ signal =>
       /\ listenPc = "ok"
       /\ server = "closed" \/ \E k \in Closers : closePc[k] = "signalled"
  /\ errs > 0 => servePc = "exited"

LEMMA InitStopsInOrder == Init => StopsInOrder
  BY DEF Init, StopsInOrder

LEMMA NextStopsInOrder == TypeOK /\ StopsInOrder /\ [Next]_vars => StopsInOrder'
<1> SUFFICES ASSUME TypeOK, StopsInOrder, [Next]_vars PROVE StopsInOrder'
    OBVIOUS
<1>1. ASSUME UNCHANGED closeVars, UNCHANGED listenVars PROVE StopsInOrder'
    BY <1>1 DEF StopsInOrder, closeVars, listenVars
<1>2. CASE ServeReturns \/ ServeReports
    BY <1>2 DEF ServeReturns, ServeReports, StopsInOrder, closeVars
<1>3. CASE ListenFails \/ ListenSucceeds
  <2>1. listenPc = "waiting" /\ UNCHANGED closeVars /\ UNCHANGED servePc
      BY <1>3 DEF ListenFails, ListenSucceeds
  <2>2. errs' > 0 => errs > 0
      BY <1>3 DEF ListenFails, ListenSucceeds, TypeOK, ErrCap
  <2>3. QED
      BY <2>1, <2>2 DEF StopsInOrder, closeVars
<1>4. ASSUME NEW c \in Conns, Request(c) \/ HandlerStep(c) PROVE StopsInOrder'
    BY <1>1, <1>4 DEF Request, HandlerStep, UpgradeFails, Upgrades, Posts, Drops
<1>5. CASE AcceptStep
    BY <1>1, <1>5 DEF AcceptStep, AcceptTakes, AcceptDelivers, AcceptBuildFails,
                      AcceptIsTold, DrainOne, DrainEnds
<1>6. ASSUME NEW k \in Closers, CloseBegins(k) PROVE StopsInOrder'
  <2>1. /\ UNCHANGED <<signal, server, servePc, errs, listenPc>>
        /\ listenPc = "ok" /\ closePc[k] = "idle"
        /\ \A j \in Closers : j # k => closePc'[j] = closePc[j]
      BY <1>6 DEF CloseBegins, listenVars, TypeOK
  <2>2. QED
      BY <2>1 DEF StopsInOrder
<1>7. ASSUME NEW k \in Closers, CloseSignals(k) PROVE StopsInOrder'
  <2>1. UNCHANGED <<server, servePc, errs, listenPc>> /\ listenPc = "ok"
      BY <1>7 DEF CloseSignals, listenVars, StopsInOrder
  <2>2. CASE signal
      BY <1>7, <2>1, <2>2 DEF CloseSignals, StopsInOrder
  <2>3. CASE ~signal
      BY <1>7, <2>1, <2>3 DEF CloseSignals, StopsInOrder, TypeOK
  <2>4. QED
      BY <2>2, <2>3
<1>8. ASSUME NEW k \in Closers, CloseStopsServer(k) PROVE StopsInOrder'
  <2>1. UNCHANGED <<signal, servePc, errs, listenPc>> /\ listenPc = "ok"
        /\ server' = "closed"
      BY <1>8 DEF CloseStopsServer, listenVars, StopsInOrder
  <2>2. QED
      BY <2>1 DEF StopsInOrder
<1>9. CASE UNCHANGED vars
    BY <1>1, <1>9 DEF vars, closeVars, listenVars
<1>10. QED
    BY <1>2, <1>3, <1>4, <1>5, <1>6, <1>7, <1>8, <1>9 DEF Next, CloseStep

(* When nothing in an acceptor that has not panicked can go on after its   *)
(* Close has signalled, all its goroutines have ended: Accept has returned *)
(* its last error, every handler has posted its connection or dropped it,  *)
(* the server is closed and the goroutine that served has reported and     *)
(* gone, though nobody reads errorChan any more (websocket/factory.go      *)
(* lines 118-207).  It is what GoroutinesEnd and AcceptEnds need beside    *)
(* the scheduler.                                                          *)
THEOREM NothingHaltsClose ==
  Spec => [](signal /\ ~crashed /\ Halted =>
               /\ AcceptOver
               /\ \A c \in Conns : hPc[c] \in {"idle", "done"}
               /\ server = "closed" /\ servePc = "exited")
<1> DEFINE AllOver ==
      /\ AcceptOver
      /\ \A c \in Conns : hPc[c] \in {"idle", "done"}
      /\ server = "closed" /\ servePc = "exited"
<1>1. ASSUME TypeOK, StopsInOrder, signal, Halted PROVE AllOver
  <2>1. listenPc = "ok" /\ server = "closed"
      BY <1>1 DEF StopsInOrder, Halted, CloseMay
  <2>2. AcceptOver
      BY <1>1, <2>1 DEF TypeOK, AcceptPcs, Halted, AcceptMay, AcceptOver
  <2>3. ASSUME NEW c \in Conns PROVE hPc[c] \in {"idle", "done"}
      BY <1>1 DEF TypeOK, Halted, HandlerMay
  <2>4. servePc = "exited"
      BY <1>1, <2>1 DEF TypeOK, StopsInOrder, Halted, ServeMay, ErrCap
  <2>5. QED
      BY <2>1, <2>2, <2>3, <2>4
<1>2. TypeOK /\ StopsInOrder => (signal /\ ~crashed /\ Halted => AllOver)
    BY <1>1
<1>3. QED
    BY <1>2, TypeCorrect, InitStopsInOrder, NextStopsInOrder, PTL DEF Spec
=============================================================================
