-------------------------- MODULE NetAcceptorsProofs --------------------------
(***************************************************************************)
(* Proofs about NetAcceptors, for any connections and any closers: what    *)
(* calls of Accept and Close find that begin after a Close has returned,   *)
(* and that the acceptors implement ConnHandoff.                           *)
(*                                                                         *)
(* That late calls are harmless depends on the field `listener' being nil  *)
(* for good once one Close has returned, by whichever of its two ways out. *)
(* The refinement depends on a connection being in one place only, and     *)
(* where an acceptor can stop on the listener being closed first.          *)
(***************************************************************************)
EXTENDS NetAcceptors, TLAPS

(* Close returns when the field is nil, or makes it nil before it does;    *)
(* nothing sets it again.                                                  *)
ReturnedIsCleared == CloseReturned => ~present

(* A late Close finds nothing to do.                                       *)
LateReturns == \A k \in lateCloses : closePc[k] = "returned"

LateIInv == ReturnedIsCleared /\ LateReturns /\ LateAcceptRefused

(* A connection that is established and that Accept is not done with.      *)
Waiting(c) == peer[c] # "none" /\ c \notin delivered /\ c \notin dropped

(* The listener's queue holds such connections, each once, and not the one *)
(* in Accept's hands.                                                      *)
QueueHolds ==
  /\ \A i \in 1..Len(queue) : Waiting(queue[i]) /\ queue[i] # ev
  /\ \A i, j \in 1..Len(queue) : queue[i] = queue[j] => i = j

EvHolds == ev # NoConn => Waiting(ev)

EndsOnce ==
  /\ delivered \cap dropped = {}
  /\ \A c \in delivered \cup dropped : peer[c] # "none"

Holds == QueueHolds /\ EvHolds /\ EndsOnce

IInv == TypeOK /\ LateIInv /\ Holds

-----------------------------------------------------------------------------
(* Sequences: a queue that gives its head, and one that takes c.           *)

LEMMA TailShifts ==
  ASSUME NEW s \in Seq(Conns), s # <<>>
  PROVE  /\ Head(s) = s[1] /\ 1 \in 1..Len(s) /\ Head(s) \in Conns
         /\ Tail(s) \in Seq(Conns)
         /\ Len(Tail(s)) = Len(s) - 1
         /\ \A i \in 1..Len(Tail(s)) :
              i + 1 \in 1..Len(s) /\ i + 1 # 1 /\ Tail(s)[i] = s[i + 1]
         /\ \A i, j \in 1..Len(Tail(s)) : i + 1 = j + 1 => i = j
  OBVIOUS

LEMMA AppendKeeps ==
  ASSUME NEW s \in Seq(Conns), NEW c \in Conns
  PROVE  /\ Append(s, c) \in Seq(Conns)
         /\ Len(Append(s, c)) = Len(s) + 1
         /\ \A i \in 1..Len(s) : i \in 1..(Len(s) + 1) /\ Append(s, c)[i] = s[i]
         /\ \A i \in 1..(Len(s) + 1) : i \in 1..Len(s) \/ i = Len(s) + 1
         /\ Append(s, c)[Len(s) + 1] = c
  OBVIOUS

-----------------------------------------------------------------------------
LEMMA InitIInv == Init => IInv
<1> SUFFICES ASSUME Init PROVE IInv
    OBVIOUS
<1>1. TypeOK
  <2>1. queue \in Seq(Conns)
      BY DEF Init
  <2> QED
      BY <2>1, NetAcceptorsAssumption DEF Init, TypeOK, AcceptPcs, InAccept
<1>2. LateIInv
    BY DEF Init, LateIInv, ReturnedIsCleared, LateReturns, LateAcceptRefused,
           CloseReturned
<1>3. Holds
  <2>1. Len(queue) = 0
      BY DEF Init
  <2> QED
      BY <2>1 DEF Init, Holds, QueueHolds, EvHolds, EndsOnce
<1> QED
    BY <1>1, <1>2, <1>3 DEF IInv

-----------------------------------------------------------------------------
(* Type correctness.                                                       *)

LEMMA NextTypeOK == TypeOK /\ [Next]_vars => TypeOK'
<1> SUFFICES ASSUME TypeOK, [Next]_vars PROVE TypeOK'
    OBVIOUS
<1> USE NetAcceptorsAssumption
    DEF TypeOK, AcceptPcs, InAccept, choice, peerVars, acceptVars, closeVars
<1>1. ASSUME NEW c \in Conns, Connects(c) PROVE TypeOK'
    BY <1>1, AppendKeeps DEF Connects
<1>2. ASSUME NEW c \in Conns, Talks(c) \/ Dies(c) PROVE TypeOK'
    BY <1>2 DEF Talks, Dies
<1>3. CASE AcceptChecks
    BY <1>3 DEF AcceptChecks, CloseReturned
<1>4. CASE AcceptCalls
  <2>1. acceptPc \in {"checked", "outside"} /\ acceptPc' \in {"waiting", "panicked"}
        /\ lateAccept' \in BOOLEAN
      BY <1>4 DEF AcceptCalls, CloseReturned
  <2> QED
      BY <1>4, <2>1 DEF AcceptCalls
<1>5. CASE ListenerGives
  <2>1. ev' \in Conns /\ queue' \in Seq(Conns)
      BY <1>5, TailShifts DEF ListenerGives
  <2>2. acceptPc' \in {"stream", "building"}
      BY <1>5 DEF ListenerGives
  <2> QED
      BY <1>5, <2>1, <2>2 DEF ListenerGives
<1>6. CASE ListenerErrs
    BY <1>6 DEF ListenerErrs, AfterError
<1>7. CASE StreamArrives
    BY <1>7 DEF StreamArrives
<1>8. CASE StreamFails
    BY <1>8 DEF StreamFails, AfterError
<1>9. CASE AcceptDelivers
    BY <1>9 DEF AcceptDelivers, HandsEmpty
<1>10. ASSUME NEW k \in Closers, CloseChecks(k) PROVE TypeOK'
    BY <1>10 DEF CloseChecks
<1>11. ASSUME NEW k \in Closers, CloseCalls(k) PROVE TypeOK'
    BY <1>11 DEF CloseCalls, LisClosed
<1>12. ASSUME NEW k \in Closers, CloseClears(k) PROVE TypeOK'
    BY <1>12 DEF CloseClears, FieldCleared
<1>13. CASE UNCHANGED vars
    BY <1>13 DEF vars
<1> QED
    BY <1>1, <1>2, <1>3, <1>4, <1>5, <1>6, <1>7, <1>8, <1>9, <1>10, <1>11,
       <1>12, <1>13 DEF Next, AcceptStep, CloseStep

-----------------------------------------------------------------------------
(* Late calls.                                                             *)

LEMMA NextLate == TypeOK /\ LateIInv /\ [Next]_vars => LateIInv'
<1> SUFFICES ASSUME TypeOK, LateIInv, [Next]_vars PROVE LateIInv'
    OBVIOUS
<1> USE DEF LateIInv, ReturnedIsCleared, LateReturns, LateAcceptRefused,
            CloseReturned
<1>1. CASE AcceptChecks
    BY <1>1 DEF AcceptChecks, ChecksListener, closeVars, choice, InAccept
<1>2. CASE AcceptCalls
  <2>1. UNCHANGED <<closePc, present, lateCloses, kind>>
      BY <1>2 DEF AcceptCalls, closeVars, choice
  <2>2. CASE ChecksListener
    <3>1. ~lateAccept /\ ~lateAccept'
        BY <1>2, <2>2 DEF AcceptCalls, InAccept
    <3> QED
        BY <2>1, <3>1
  <2>3. CASE ~ChecksListener
    <3>1. lateAccept' => ~present
        BY <1>2, <2>3 DEF AcceptCalls
    <3>2. ~present => acceptPc' = "panicked"
        BY <1>2 DEF AcceptCalls
    <3>3. kind' # "tls"
        BY <2>1, <2>3 DEF ChecksListener
    <3> QED
        BY <2>1, <3>1, <3>2, <3>3 DEF InAccept
  <2> QED
      BY <2>2, <2>3
<1>3. CASE ListenerGives \/ ListenerErrs \/ StreamArrives \/ StreamFails
           \/ AcceptDelivers
  <2>1. ~lateAccept /\ lateAccept' = lateAccept
        /\ UNCHANGED <<closePc, present, lateCloses>>
      BY <1>3 DEF ListenerGives, ListenerErrs, StreamArrives, StreamFails,
                  AcceptDelivers, InAccept, closeVars
  <2> QED
      BY <2>1 DEF TypeOK
<1>4. ASSUME NEW k \in Closers, CloseChecks(k) PROVE LateIInv'
  <2>1. UNCHANGED <<present, acceptPc, lateAccept, kind>>
      BY <1>4 DEF CloseChecks, acceptVars, choice
  <2>2. CloseReturned' => ~present
      BY <1>4 DEF CloseChecks, ListenerThere, TypeOK
  <2>3. ASSUME NEW j \in lateCloses' PROVE closePc'[j] = "returned"
    <3>1. CASE j = k
      <4>1. closePc[k] = "idle" /\ k \notin lateCloses
          BY <1>4 DEF CloseChecks
      <4>2. CloseReturned
          BY <1>4, <2>3, <3>1, <4>1 DEF CloseChecks
      <4>3. ~present
          BY <4>2
      <4> QED
          BY <1>4, <3>1, <4>3 DEF CloseChecks, ListenerThere, TypeOK
    <3>2. CASE j # k
        BY <1>4, <2>3, <3>2 DEF CloseChecks, TypeOK
    <3> QED
        BY <3>1, <3>2
  <2> QED
      BY <2>1, <2>2, <2>3
<1>5. ASSUME NEW k \in Closers, CloseStep(k) PROVE LateIInv'
  <2>1. /\ UNCHANGED <<acceptPc, lateAccept, kind, lateCloses>>
        /\ closePc[k] \in {"checked", "called"} /\ present' \in {present, FALSE}
        /\ \A j \in Closers : j # k => closePc'[j] = closePc[j]
        /\ closePc'[k] = "returned" => ~present'
      BY <1>5 DEF CloseStep, CloseCalls, CloseClears, FieldCleared, acceptVars,
                  choice, TypeOK
  <2>2. ReturnedIsCleared'
    <3> SUFFICES ASSUME NEW j \in Closers, closePc'[j] = "returned"
                 PROVE  ~present'
        OBVIOUS
    <3>1. CASE j = k
        BY <2>1, <3>1
    <3>2. CASE j # k
        BY <2>1, <3>2
    <3> QED
        BY <3>1, <3>2
  <2>3. LateReturns'
      BY <2>1 DEF TypeOK
  <2>4. LateAcceptRefused'
      BY <2>1
  <2> QED
      BY <2>2, <2>3, <2>4
<1>6. CASE \/ \E c \in Conns : Connects(c) \/ Talks(c) \/ Dies(c)
           \/ UNCHANGED vars
    BY <1>6 DEF Connects, Talks, Dies, vars, acceptVars, closeVars, choice
<1> QED
    BY <1>1, <1>2, <1>3, <1>4, <1>5, <1>6 DEF Next, AcceptStep

-----------------------------------------------------------------------------
(* Connections.                                                            *)

(* The queue gives its first connection to Accept.                         *)
LEMMA GivesHolds == TypeOK /\ Holds /\ ListenerGives => Holds'
<1> SUFFICES ASSUME TypeOK, Holds, ListenerGives PROVE Holds'
    OBVIOUS
<1> USE DEF Holds
<1>1. /\ queue \in Seq(Conns) /\ queue # <<>>
      /\ ev' = Head(queue) /\ queue' = Tail(queue)
      /\ UNCHANGED <<peer, delivered, dropped>>
    BY DEF TypeOK, ListenerGives
<1>2. /\ ev' = queue[1] /\ 1 \in 1..Len(queue)
      /\ \A i \in 1..Len(queue') :
           i + 1 \in 1..Len(queue) /\ i + 1 # 1 /\ queue'[i] = queue[i + 1]
      /\ \A i, j \in 1..Len(queue') : i + 1 = j + 1 => i = j
    BY <1>1, TailShifts
<1>3. \A i \in 1..Len(queue') : Waiting(queue'[i]) /\ queue'[i] # ev'
    BY <1>2 DEF QueueHolds
<1>4. \A i, j \in 1..Len(queue') : queue'[i] = queue'[j] => i = j
    BY <1>2 DEF QueueHolds
<1>5. Waiting(ev')
    BY <1>2 DEF QueueHolds
<1> QED
    BY <1>1, <1>3, <1>4, <1>5 DEF QueueHolds, EvHolds, EndsOnce, Waiting

(* A connection joins the queue.                                           *)
LEMMA ConnectsHolds ==
  ASSUME TypeOK, Holds, NEW c \in Conns, Connects(c)
  PROVE  Holds'
<1> USE DEF Holds
<1> DEFINE WaitsOn(d) == peer'[d] # "none" /\ d \notin delivered' /\ d \notin dropped'
<1>1. /\ queue \in Seq(Conns) /\ queue' = Append(queue, c)
      /\ peer[c] = "none" /\ peer' = [peer EXCEPT ![c] = "up"]
      /\ peer \in [Conns -> {"none", "up", "talked", "dead"}]
      /\ delivered \subseteq Conns /\ dropped \subseteq Conns
      /\ ev \in Conns \cup {NoConn}
      /\ UNCHANGED <<ev, delivered, dropped>>
    BY DEF TypeOK, Connects, acceptVars
<1>2. \A d \in Conns : Waiting(d) => WaitsOn(d) /\ d # c
    BY <1>1 DEF Waiting
<1>3. WaitsOn(c) /\ c # ev
    BY <1>1, NetAcceptorsAssumption DEF Waiting, EndsOnce, EvHolds
<1>4. /\ Len(queue') = Len(queue) + 1 /\ queue'[Len(queue) + 1] = c
      /\ \A i \in 1..Len(queue) : i \in 1..(Len(queue) + 1) /\ queue'[i] = queue[i]
      /\ \A i \in 1..(Len(queue) + 1) : i \in 1..Len(queue) \/ i = Len(queue) + 1
    BY <1>1, AppendKeeps
<1>5. \A i \in 1..Len(queue) :
        queue[i] \in Conns /\ Waiting(queue[i]) /\ queue[i] # ev
    BY <1>1 DEF QueueHolds
<1>6. QueueHolds'
  <2>1. ASSUME NEW i \in 1..Len(queue')
        PROVE  WaitsOn(queue'[i]) /\ queue'[i] # ev'
    <3>1. CASE i \in 1..Len(queue)
      <4>1. queue'[i] = queue[i] /\ queue[i] \in Conns /\ Waiting(queue[i])
            /\ queue[i] # ev
          BY <1>4, <1>5, <3>1
      <4> QED
          BY <1>1, <1>2, <4>1
    <3>2. CASE i = Len(queue) + 1
      <4>1. queue'[i] = c
          BY <1>4, <3>2
      <4> QED
          BY <1>1, <1>3, <4>1
    <3> QED
        BY <1>4, <3>1, <3>2
  <2>2. ASSUME NEW i \in 1..Len(queue'), NEW j \in 1..Len(queue'),
               queue'[i] = queue'[j]
        PROVE  i = j
    <3>1. \A h \in 1..Len(queue) : queue'[h] = queue[h] /\ queue[h] # c
        BY <1>2, <1>4, <1>5
    <3> QED
        BY <1>4, <2>2, <3>1 DEF QueueHolds
  <2> QED
      BY <2>1, <2>2 DEF QueueHolds, Waiting
<1>7. EvHolds'
  <2>1. ev # NoConn => ev \in Conns /\ Waiting(ev)
      BY <1>1 DEF EvHolds
  <2>2. ev # NoConn => WaitsOn(ev)
      BY <1>2, <2>1
  <2> QED
      BY <1>1, <2>2 DEF EvHolds, Waiting
<1>8. EndsOnce'
    BY <1>1 DEF EndsOnce
<1> QED
    BY <1>6, <1>7, <1>8

(* Accept is done with the connection in its hands.                        *)
LEMMA DoneHolds == TypeOK /\ Holds /\ (StreamFails \/ AcceptDelivers) => Holds'
<1> SUFFICES ASSUME TypeOK, Holds, StreamFails \/ AcceptDelivers PROVE Holds'
    OBVIOUS
<1> USE DEF Holds
<1>1. /\ ev \in Conns /\ ev # NoConn /\ ev' = NoConn /\ UNCHANGED <<queue, peer>>
      /\ \/ delivered' = delivered \cup {ev} /\ dropped' = dropped
         \/ dropped' = dropped \cup {ev} /\ delivered' = delivered
    BY NetAcceptorsAssumption
    DEF StreamFails, AcceptDelivers, TypeOK, HandsEmpty, peerVars
<1>2. Waiting(ev)
    BY <1>1 DEF EvHolds
<1>3. queue \in Seq(Conns)
    BY DEF TypeOK
<1>4. \A i \in 1..Len(queue) : queue[i] \in Conns /\ queue[i] # NoConn
    BY <1>3, NetAcceptorsAssumption
<1>5. QueueHolds'
    BY <1>1, <1>4 DEF QueueHolds, Waiting
<1>6. EndsOnce'
    BY <1>1, <1>2 DEF EndsOnce, Waiting
<1> QED
    BY <1>1, <1>5, <1>6 DEF EvHolds

LEMMA NextHolds == TypeOK /\ Holds /\ [Next]_vars => Holds'
<1> SUFFICES ASSUME TypeOK, Holds, [Next]_vars PROVE Holds'
    OBVIOUS
<1>1. ASSUME NEW c \in Conns, Talks(c) \/ Dies(c) PROVE Holds'
  <2> DEFINE WaitsOn(d) == peer'[d] # "none" /\ d \notin delivered' /\ d \notin dropped'
  <2>1. /\ UNCHANGED <<queue, ev, delivered, dropped>>
        /\ \A d \in Conns : peer[d] # "none" => peer'[d] # "none"
      BY <1>1 DEF Talks, Dies, TypeOK, acceptVars
  <2>2. \A d \in Conns : Waiting(d) => WaitsOn(d)
      BY <2>1 DEF Waiting
  <2>3. \A i \in 1..Len(queue) : queue[i] \in Conns
      BY DEF TypeOK
  <2>4. QueueHolds'
    <3>1. \A i \in 1..Len(queue) : WaitsOn(queue[i]) /\ queue[i] # ev
        BY <2>2, <2>3 DEF Holds, QueueHolds
    <3> QED
        BY <2>1, <3>1 DEF Holds, QueueHolds, Waiting
  <2>5. EvHolds'
      BY <2>1, <2>2 DEF Holds, EvHolds, TypeOK, Waiting
  <2>6. EndsOnce'
      BY <2>1 DEF Holds, EndsOnce, TypeOK
  <2> QED
      BY <2>4, <2>5, <2>6 DEF Holds
<1>2. CASE \/ AcceptChecks \/ AcceptCalls \/ ListenerErrs \/ StreamArrives
           \/ UNCHANGED vars
           \/ \E k \in Closers : CloseChecks(k) \/ CloseStep(k)
  <2>1. UNCHANGED <<queue, peer, ev, delivered, dropped>>
      BY <1>2 DEF AcceptChecks, AcceptCalls, ListenerErrs, StreamArrives, vars,
                  CloseChecks, CloseStep, CloseCalls, CloseClears, peerVars,
                  acceptVars
  <2> QED
      BY <2>1 DEF Holds, QueueHolds, EvHolds, EndsOnce, Waiting
<1> QED
    BY <1>1, <1>2, GivesHolds, ConnectsHolds, DoneHolds DEF Next, AcceptStep

-----------------------------------------------------------------------------
LEMMA IInvHolds == Spec => []IInv
<1>1. IInv /\ [Next]_vars => IInv'
    BY NextTypeOK, NextLate, NextHolds DEF IInv
<1> QED
    BY InitIInv, <1>1, PTL DEF Spec

(* The fields of the three acceptors and the places of their goroutines    *)
(* stay in their types; a connection is in Accept's hands exactly while it *)
(* waits for a stream or builds a transport.                               *)
THEOREM TypeCorrect == Spec => []TypeOK
<1>1. IInv => TypeOK
    BY DEF IInv
<1> QED
    BY IInvHolds, <1>1, PTL

(* After the end of a Close neither a further Accept nor a further Close   *)
(* finds anything to do harm with: Accept gets nothing from the closed     *)
(* listener and Close nothing to close (quic, kcp and tls factory.go).     *)
THEOREM LateCalls == Spec => []LateCallsHarmless
<1>1. IInv => LateCallsHarmless
  <2> SUFFICES ASSUME IInv PROVE LateCallsHarmless
      OBVIOUS
  <2>1. LateAcceptRefused
      BY DEF IInv, LateIInv
  <2>2. LateCloseHarmless
      BY DEF IInv, LateIInv, LateReturns, LateCloseHarmless
  <2> QED
      BY <2>1, <2>2 DEF LateCallsHarmless
<1> QED
    BY IInvHolds, <1>1, PTL

-----------------------------------------------------------------------------
(* The acceptors implement ConnHandoff.                                    *)

Status ==
  [c \in Conns |-> IF c \in delivered THEN "delivered"
                   ELSE IF c \in dropped THEN "closed"
                   ELSE IF peer[c] = "none" THEN "none" ELSE "open"]
Over == acceptPc = "over"

LEMMA InitRefines == Init => Handoff!Init
  BY DEF Init, Handoff!Init

(* A step that moves no connection is a stutter, unless it ends Accept.    *)
LEMMA StutterRefines ==
  ASSUME Status' = Status, Over' = Over \/ Over' = TRUE
  PROVE  [Handoff!Next]_(Handoff!vars)
  BY DEF Handoff!Next, Handoff!End, Handoff!vars, Status, Over

LEMMA NextRefines == IInv /\ [Next]_vars => [Handoff!Next]_(Handoff!vars)
<1> SUFFICES ASSUME IInv, [Next]_vars PROVE [Handoff!Next]_(Handoff!vars)
    OBVIOUS
<1> USE DEF IInv, Holds
<1>1. peer \in [Conns -> {"none", "up", "talked", "dead"}]
    BY DEF TypeOK
<1>2. ASSUME NEW c \in Conns, Connects(c)
      PROVE  [Handoff!Next]_(Handoff!vars)
  <2>1. /\ peer[c] = "none" /\ peer' = [peer EXCEPT ![c] = "up"]
        /\ c \notin delivered /\ c \notin dropped
        /\ UNCHANGED <<delivered, dropped, acceptPc>>
      BY <1>2 DEF Connects, EndsOnce, acceptVars
  <2>2. Handoff!Establish(c)
      BY <1>1, <2>1 DEF Handoff!Establish, Handoff!Move
  <2> QED
      BY <2>2 DEF Handoff!Next
<1>3. CASE AcceptDelivers
  <2>1. /\ ev \in Conns /\ Waiting(ev) /\ delivered' = delivered \cup {ev}
        /\ acceptPc = "building" /\ acceptPc' = "outside"
        /\ UNCHANGED <<peer, dropped>>
      BY <1>3, NetAcceptorsAssumption
      DEF AcceptDelivers, TypeOK, EvHolds, peerVars
  <2>2. PICK c \in Conns : c = ev
      BY <2>1
  <2>3. Handoff!Move(c, "open", "delivered")
      BY <2>1, <2>2 DEF Handoff!Move, Waiting
  <2>4. Handoff!Deliver(c)
      BY <2>1, <2>3 DEF Handoff!Deliver
  <2> QED
      BY <2>4 DEF Handoff!Next
<1>4. CASE StreamFails
  <2>1. /\ ev \in Conns /\ Waiting(ev) /\ dropped' = dropped \cup {ev}
        /\ acceptPc = "stream" /\ acceptPc' \in {"outside", "over"}
        /\ UNCHANGED <<peer, delivered>>
      BY <1>4, NetAcceptorsAssumption
      DEF StreamFails, AfterError, TypeOK, EvHolds, peerVars
  <2>2. PICK c \in Conns : c = ev
      BY <2>1
  <2>3. Handoff!Move(c, "open", "closed")
      BY <2>1, <2>2 DEF Handoff!Move, Waiting
  <2>4. Handoff!Drop(c)
    <3>1. Over' \in {Over, TRUE}
        BY <2>1 DEF Over
    <3> QED
        BY <2>3, <3>1 DEF Handoff!Drop, Over
  <2> QED
      BY <2>4 DEF Handoff!Next
<1>5. ASSUME NEW c \in Conns, Talks(c) \/ Dies(c)
      PROVE  [Handoff!Next]_(Handoff!vars)
  <2>1. /\ UNCHANGED <<delivered, dropped, acceptPc>>
        /\ \A d \in Conns : peer[d] = "none" <=> peer'[d] = "none"
      BY <1>1, <1>5 DEF Talks, Dies, acceptVars
  <2> QED
      BY <2>1, StutterRefines DEF Status, Over
<1>6. CASE \/ AcceptChecks \/ AcceptCalls \/ ListenerGives \/ ListenerErrs
           \/ StreamArrives \/ UNCHANGED vars
           \/ \E k \in Closers : CloseChecks(k) \/ CloseStep(k)
  <2>1. UNCHANGED <<peer, delivered, dropped>>
      BY <1>6 DEF AcceptChecks, AcceptCalls, ListenerGives, ListenerErrs,
                  StreamArrives, vars, CloseChecks, CloseStep, CloseCalls,
                  CloseClears, peerVars, acceptVars
  <2>2. Over' = Over \/ Over' = TRUE
      BY <1>6 DEF AcceptChecks, AcceptCalls, ListenerGives, ListenerErrs,
                  StreamArrives, vars, CloseChecks, CloseStep, CloseCalls,
                  CloseClears, acceptVars, Over, ChecksListener
  <2> QED
      BY <2>1, <2>2, StutterRefines DEF Status
<1> QED
    BY <1>2, <1>3, <1>4, <1>5, <1>6 DEF Next, AcceptStep

(* Refinement: each connection is delivered or given up, once and never    *)
(* both, whoever closes at the same time and wherever the process stops on *)
(* a nil listener, and none is delivered after the accept loop has ended.  *)
THEOREM ImplementsHandoff == Spec => HandsOver
<1>1. []IInv /\ [][Next]_vars => [][Handoff!Next]_(Handoff!vars)
    BY NextRefines, PTL
<1> QED
    BY IInvHolds, InitRefines, <1>1, PTL DEF Spec, HandsOver, Handoff!Spec

-----------------------------------------------------------------------------
(* Where a closed or a busy acceptor can stop.                             *)

(* What the goroutines of a process that runs wait for: Accept an error, a *)
(* connection, or its stream or end; a client that is not silent, and a    *)
(* Close, nothing.  When all that fails them, nothing moves before a       *)
(* client connects or dies, or the application calls.                      *)
AcceptMay ==
  \/ acceptPc \in {"outside", "checked", "building"}
  \/ acceptPc = "waiting" /\ (lis = "closed" \/ queue # <<>>)
  \/ acceptPc = "stream" /\ peer[ev] \in {"talked", "dead"}

TalkMay(c) == kind = "quic" /\ peer[c] = "up" /\ c \notin silent
CloseMay(k) == closePc[k] \in {"checked", "called"}

Halted ==
  /\ ~AcceptMay
  /\ \A c \in Conns : ~TalkMay(c)
  /\ \A k \in Closers : ~CloseMay(k)

(* A Close has closed the listener before it clears the field.             *)
ClosedFirst ==
  /\ ~present => lis = "closed"
  /\ \A k \in Closers : closePc[k] = "called" => lis = "closed"
  /\ acceptPc = "checked" => ChecksListener
  /\ acceptPc = "stream" => WaitsForStream

LEMMA InitClosedFirst == Init => ClosedFirst
  BY DEF Init, ClosedFirst

LEMMA NextClosedFirst == IInv /\ ClosedFirst /\ [Next]_vars => ClosedFirst'
<1> SUFFICES ASSUME IInv, ClosedFirst, [Next]_vars PROVE ClosedFirst'
    OBVIOUS
<1> USE DEF ClosedFirst, ChecksListener, WaitsForStream, choice
<1>1. ASSUME UNCHANGED <<kind, acceptPc, closeVars>> PROVE ClosedFirst'
    BY <1>1 DEF closeVars
<1>2. ASSUME NEW c \in Conns, Connects(c) \/ Talks(c) \/ Dies(c) PROVE ClosedFirst'
    BY <1>1, <1>2 DEF Connects, Talks, Dies, acceptVars
<1>3. CASE AcceptStep \/ ListenerErrs
  <2>1. UNCHANGED <<kind, closeVars>>
      BY <1>3 DEF AcceptStep, AcceptChecks, AcceptCalls, ListenerGives,
                  StreamArrives, StreamFails, AcceptDelivers, ListenerErrs
  <2>2. /\ acceptPc' = "checked" => ChecksListener
        /\ acceptPc' = "stream" => WaitsForStream
      BY <1>3 DEF AcceptStep, AcceptChecks, AcceptCalls, ListenerGives,
                  StreamArrives, StreamFails, AcceptDelivers, ListenerErrs,
                  AfterError
  <2>3. QED
      BY <2>1, <2>2 DEF closeVars
<1>4. ASSUME NEW k \in Closers, CloseChecks(k) PROVE ClosedFirst'
    BY <1>4 DEF CloseChecks, acceptVars, ListenerThere, IInv, TypeOK
<1>5. ASSUME NEW k \in Closers, CloseCalls(k) PROVE ClosedFirst'
    BY <1>5 DEF CloseCalls, acceptVars, LisClosed, IInv, TypeOK
<1>6. ASSUME NEW k \in Closers, CloseClears(k) PROVE ClosedFirst'
    BY <1>6 DEF CloseClears, acceptVars, FieldCleared, IInv, TypeOK
<1>7. CASE UNCHANGED vars
    BY <1>1, <1>7 DEF vars, acceptVars
<1>8. QED
    BY <1>2, <1>3, <1>4, <1>5, <1>6, <1>7 DEF Next, CloseStep

(* When nothing in an acceptor that has not panicked can go on, and a      *)
(* Close has returned or a connection waits to be given, the accept loop   *)
(* has ended or is held by a QUIC client that opens no stream: neither the *)
(* field `listener' nor the order of the two calls leaves a loop that      *)
(* nobody ends, and KCP and TLS clients never hold each other up (quic,    *)
(* kcp and tls factory.go, quick.listener).  It is what CloseEndsAccept    *)
(* and ServesWaiting need beside the scheduler.                            *)
THEOREM OnlySilenceHalts ==
  Spec => [](~Crashed /\ Halted /\ (CloseReturned \/ Queued # {})
               => acceptPc = "over" \/ HeldBySilent)
<1>1. ASSUME IInv, ClosedFirst, ~Crashed, Halted, CloseReturned \/ Queued # {}
      PROVE  acceptPc = "over" \/ HeldBySilent
  <2>1. acceptPc \in {"over", "waiting", "stream"}
      BY <1>1 DEF IInv, TypeOK, AcceptPcs, InAccept, Crashed, Halted, AcceptMay
  <2>2. acceptPc # "waiting"
    <3>1. CASE CloseReturned
        BY <1>1, <3>1 DEF IInv, LateIInv, ReturnedIsCleared, ClosedFirst, Halted,
                          AcceptMay
    <3>2. CASE Queued # {}
      <4>1. queue # <<>>
          BY <3>2 DEF Queued
      <4>2. QED
          BY <1>1, <4>1 DEF Halted, AcceptMay
    <3>3. QED
        BY <1>1, <3>1, <3>2
  <2>3. CASE acceptPc = "stream"
    <3>1. ev \in Conns /\ ev # NoConn
        BY <1>1, <2>3, NetAcceptorsAssumption DEF IInv, TypeOK
    <3>2. peer[ev] = "up" /\ kind = "quic"
        BY <1>1, <2>3, <3>1 DEF IInv, TypeOK, Holds, EvHolds, Waiting, Halted,
                                AcceptMay, ClosedFirst, WaitsForStream
    <3>3. QED
        BY <1>1, <2>3, <3>1, <3>2 DEF Halted, TalkMay, HeldBySilent
  <2>4. QED
      BY <2>1, <2>2, <2>3
<1>2. IInv /\ ClosedFirst =>
        (~Crashed /\ Halted /\ (CloseReturned \/ Queued # {})
           => acceptPc = "over" \/ HeldBySilent)
    BY <1>1
<1>3. QED
    BY <1>2, IInvHolds, InitClosedFirst, NextClosedFirst, PTL DEF Spec
=============================================================================
