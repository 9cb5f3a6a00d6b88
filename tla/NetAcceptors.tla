----------------------------- MODULE NetAcceptors -----------------------------
(***************************************************************************)
(* The accepting side of the QUIC, KCP and TLS transports: Accept and      *)
(* Close of quicAcceptor, kcpAcceptor and tlsAcceptor, with quick.listener *)
(* below the first.                                                        *)
(*                                                                         *)
(* go-netty calls Accept in a loop, in one goroutine; Close may come from  *)
(* any other.  Both read the field `listener' and Close sets it to nil,    *)
(* without a lock: each read is a step of its own.  (A torn read of the    *)
(* interface is a panic like that of nil, a stale one an earlier read.)    *)
(* newQuicTransport, newKcpTransport and newTlsTransport return no error   *)
(* on the accepting side, so the lines that close the connection then are  *)
(* never reached.                                                          *)
(***************************************************************************)
EXTENDS Naturals, Sequences

CONSTANTS
  Conns,   \* connections the listener establishes
  NoConn,  \* no connection in Accept's hands
  Closers  \* goroutines that call Close

ASSUME NetAcceptorsAssumption == NoConn \notin Conns

VARIABLES
  kind,      \* which of the three acceptors this is
  silent,    \* connections whose client never opens a stream
  present,   \* the field `listener' is not nil
  lis,       \* the listener itself: "open" or "closed"
  queue,     \* established connections it has not given yet
  peer,      \* the client's side: "none", "up", "talked", "dead"
  acceptPc,  \* the accept loop, see AcceptPcs
  ev,        \* the connection in Accept's hands
  delivered, \* connections whose transport Accept has returned
  dropped,   \* connections Accept has given up
  closePc,   \* where each caller of Close is
  lateAccept,\* history: this call of Accept began after a Close had returned
  lateCloses \* history: the calls of Close that did

peerVars   == <<queue, peer>>
acceptVars == <<acceptPc, ev, delivered, dropped, lateAccept>>
closeVars  == <<present, lis, closePc, lateCloses>>
choice     == <<kind, silent>>
vars == <<choice, peerVars, acceptVars, closeVars>>

(* "outside": between two calls; "checked": past the nil check of TLS;     *)
(* "waiting": in listener.Accept; "stream": in AcceptStream of QUIC.       *)
InAccept == {"checked", "waiting", "stream", "building"}
AcceptPcs == InAccept \cup {"outside", "over", "panicked"}

(* A nil `listener' was used: the process is gone.                         *)
Crashed == acceptPc = "panicked" \/ \E k \in Closers : closePc[k] = "panicked"

Queued == {queue[i] : i \in 1..Len(queue)}

TypeOK ==
  /\ kind \in {"quic", "kcp", "tls"}
  /\ silent \subseteq Conns
  /\ present \in BOOLEAN
  /\ lis \in {"open", "closed"}
  /\ queue \in Seq(Conns)
  /\ peer \in [Conns -> {"none", "up", "talked", "dead"}]
  /\ acceptPc \in AcceptPcs
  /\ ev \in Conns \cup {NoConn}
  /\ ev # NoConn <=> acceptPc \in {"stream", "building"}
  /\ delivered \subseteq Conns
  /\ dropped \subseteq Conns
  /\ closePc \in [Closers -> {"idle", "checked", "called", "returned",
                              "panicked"}]
  /\ lateAccept \in BOOLEAN
  /\ lateCloses \subseteq Closers

Init ==
  /\ kind \in {"quic", "kcp", "tls"}
  /\ silent \in SUBSET Conns
  /\ present = TRUE
  /\ lis = "open"
  /\ queue = <<>>
  /\ peer = [c \in Conns |-> "none"]
  /\ acceptPc = "outside"
  /\ ev = NoConn
  /\ delivered = {}
  /\ dropped = {}
  /\ closePc = [k \in Closers |-> "idle"]
  /\ lateAccept = FALSE
  /\ lateCloses = {}

-----------------------------------------------------------------------------
(* The clients and the listener below (quic-go, kcp-go, crypto/tls).       *)

Connects(c) ==
  /\ ~Crashed
  /\ lis = "open"
  /\ peer[c] = "none"
  /\ peer' = [peer EXCEPT ![c] = "up"]
  /\ queue' = Append(queue, c)
  /\ UNCHANGED <<choice, acceptVars, closeVars>>

(* The client opens its stream and sends on it.                            *)
Talks(c) ==
  /\ ~Crashed
  /\ kind = "quic"
  /\ peer[c] = "up"
  /\ c \notin silent
  /\ peer' = [peer EXCEPT ![c] = "talked"]
  /\ UNCHANGED <<choice, queue, acceptVars, closeVars>>

(* A QUIC connection times out or is closed by its client.                 *)
Dies(c) ==
  /\ ~Crashed
  /\ kind = "quic"
  /\ peer[c] \in {"up", "talked"}
  /\ c \notin delivered
  /\ peer' = [peer EXCEPT ![c] = "dead"]
  /\ UNCHANGED <<choice, queue, acceptVars, closeVars>>

-----------------------------------------------------------------------------
(* Accept, called in a loop.                                               *)

CloseReturned == \E k \in Closers : closePc[k] = "returned"

(* `if nil == t.listener' of tlsAcceptor.Accept; the others have no check. *)
ChecksListener == kind = "tls"

AcceptChecks ==
  /\ ~Crashed
  /\ acceptPc = "outside"
  /\ ChecksListener
  /\ lateAccept' = CloseReturned
  /\ acceptPc' = IF present THEN "checked" ELSE "over"
  /\ UNCHANGED <<choice, peerVars, ev, delivered, dropped, closeVars>>

(* The field is read for the call of listener.Accept.                      *)
AcceptCalls ==
  /\ ~Crashed
  /\ acceptPc = IF ChecksListener THEN "checked" ELSE "outside"
  /\ lateAccept' = IF ChecksListener THEN lateAccept ELSE CloseReturned
  /\ acceptPc' = IF present THEN "waiting" ELSE "panicked"
  /\ UNCHANGED <<choice, peerVars, ev, delivered, dropped, closeVars>>

(* quick.listener.Accept goes on to wait for the client's stream.          *)
KcpWaitsToo == kind # "tls"
WaitsForStream == kind = "quic"

(* The listeners of QUIC and KCP may still give a connection once closed.  *)
ListenerGives ==
  /\ ~Crashed
  /\ acceptPc = "waiting"
  /\ queue # <<>>
  /\ lis = "open" \/ kind # "tls"
  /\ ev' = Head(queue)
  /\ queue' = Tail(queue)
  /\ acceptPc' = IF WaitsForStream THEN "stream" ELSE "building"
  /\ UNCHANGED <<choice, peer, delivered, dropped, lateAccept, closeVars>>

(* Whether the loop goes on after an error is go-netty's and left open,    *)
(* except that it ends once the listener is closed.                        *)
AfterError == IF lis = "closed" THEN {"over"} ELSE {"outside", "over"}

ListenerErrs ==
  /\ ~Crashed
  /\ acceptPc = "waiting"
  /\ acceptPc' \in AfterError
  /\ UNCHANGED <<choice, peerVars, ev, delivered, dropped, lateAccept,
                 closeVars>>

StreamArrives ==
  /\ ~Crashed
  /\ acceptPc = "stream"
  /\ peer[ev] = "talked"
  /\ acceptPc' = "building"
  /\ UNCHANGED <<choice, peerVars, ev, delivered, dropped, lateAccept,
                 closeVars>>

(* AcceptStream returned an error, here if Accept went on regardless.      *)
StreamErrorIgnored ==
  /\ ~Crashed
  /\ acceptPc = "stream"
  /\ peer[ev] = "dead"
  /\ acceptPc' = "building"
  /\ dropped' = dropped \cup {ev}
  /\ UNCHANGED <<choice, peerVars, ev, delivered, lateAccept, closeVars>>

StreamFails ==
  /\ ~Crashed
  /\ acceptPc = "stream"
  /\ peer[ev] = "dead"
  /\ acceptPc' \in AfterError
  /\ ev' = NoConn
  /\ dropped' = dropped \cup {ev}
  /\ UNCHANGED <<choice, peerVars, delivered, lateAccept, closeVars>>

(* The connection in Accept's hands when it returns, and if it were kept.  *)
StillHeld == ev
HandsEmpty == NoConn

AcceptDelivers ==
  /\ ~Crashed
  /\ acceptPc = "building"
  /\ delivered' = delivered \cup {ev}
  /\ ev' = HandsEmpty
  /\ acceptPc' = "outside"
  /\ UNCHANGED <<choice, peerVars, dropped, lateAccept, closeVars>>

-----------------------------------------------------------------------------
(* Close: `if listener != nil { defer ... = nil; return listener.Close() }'*)

AlwaysThere == TRUE
ListenerThere == present

CloseChecks(k) ==
  /\ ~Crashed
  /\ closePc[k] = "idle"
  /\ lateCloses' = IF CloseReturned THEN lateCloses \cup {k} ELSE lateCloses
  /\ closePc' =
       [closePc EXCEPT ![k] = IF ListenerThere THEN "checked" ELSE "returned"]
  /\ UNCHANGED <<choice, peerVars, acceptVars, present, lis>>

(* What Close makes of the listener it has called.                         *)
LisLeftOpen == lis
LisClosed == "closed"

CloseCalls(k) ==
  /\ ~Crashed
  /\ closePc[k] = "checked"
  /\ closePc' =
       [closePc EXCEPT ![k] = IF present THEN "called" ELSE "panicked"]
  /\ lis' = IF present THEN LisClosed ELSE lis
  /\ UNCHANGED <<choice, peerVars, acceptVars, present, lateCloses>>

(* The deferred assignment, and the field if it were forgotten.            *)
FieldKept == present
FieldCleared == FALSE

CloseClears(k) ==
  /\ ~Crashed
  /\ closePc[k] = "called"
  /\ present' = FieldCleared
  /\ closePc' = [closePc EXCEPT ![k] = "returned"]
  /\ UNCHANGED <<choice, peerVars, acceptVars, lis, lateCloses>>

-----------------------------------------------------------------------------
AcceptStep ==
  \/ AcceptChecks
  \/ AcceptCalls
  \/ ListenerGives
  \/ StreamArrives
  \/ StreamFails
  \/ AcceptDelivers

CloseStep(k) == CloseCalls(k) \/ CloseClears(k)

Next ==
  \/ \E c \in Conns : Connects(c) \/ Talks(c) \/ Dies(c)
  \/ AcceptStep
  \/ ListenerErrs
  \/ \E k \in Closers : CloseChecks(k) \/ CloseStep(k)

(* Goroutines that can run do; a closed listener reports it; one that is   *)
(* asked again and again gives what it has; a client that is not silent    *)
(* speaks, if it lives.                                                    *)
Fairness ==
  /\ WF_vars(AcceptStep \/ (lis = "closed" /\ ListenerErrs))
  /\ SF_vars(ListenerGives)
  /\ \A c \in Conns : WF_vars(Talks(c))
  /\ \A k \in Closers : WF_vars(CloseStep(k))

Spec == Init /\ [][Next]_vars

FairSpec == Spec /\ Fairness

-----------------------------------------------------------------------------
(* Properties.                                                             *)

(* An Accept that begins after a Close has returned gets nothing from the  *)
(* closed listener, although quic-go and kcp-go would still give what they *)
(* had queued; and the check of TLS's Accept (tls/factory.go:81) turns the *)
(* panic that QUIC and KCP meet there into an error.                       *)
LateAcceptRefused ==
  lateAccept =>
    /\ acceptPc \notin InAccept
    /\ acceptPc = "panicked" => kind # "tls"

(* A Close that begins after another has returned is harmless: only two    *)
(* that overlap can make one of them use a nil listener.                   *)
LateCloseHarmless ==
  \A k \in Closers : closePc[k] = "panicked" => k \notin lateCloses

(* After the end of a Close neither a further Accept nor a further Close   *)
(* finds anything to do harm with.                                         *)
LateCallsHarmless == LateAcceptRefused /\ LateCloseHarmless

(* Refinement: ConnHandoff's view of the three acceptors: what Accept has  *)
(* given up is never delivered, nor is anything once the loop has ended.   *)
Handoff == INSTANCE ConnHandoff WITH
  status <- [c \in Conns |->
               IF c \in delivered THEN "delivered"
               ELSE IF c \in dropped THEN "closed"
               ELSE IF peer[c] = "none" THEN "none" ELSE "open"],
  ended <- acceptPc = "over"

HandsOver == Handoff!Spec

(* Accept is held in its second wait by a client that says nothing.        *)
HeldBySilent == kind = "quic" /\ acceptPc = "stream" /\ ev \in silent

(* "Close closes the listener.  Any blocked Accept operations will be      *)
(* unblocked and return errors" (quic/internal/quick/listener.go:61-62).   *)
(* The code does not keep this: AcceptStream (line 45) waits with a        *)
(* context that nobody cancels, on a connection that the closing of        *)
(* quicServer leaves alone.                                                *)
Blocked == acceptPc \in {"waiting", "stream"}

CloseUnblocksAccept ==
  kind = "quic" /\ CloseReturned /\ Blocked ~> ~Blocked \/ Crashed

(* What holds in spite of this.  A Close that has returned ends the accept *)
(* loop, by an error or, QUIC and KCP, by the panic of a further Accept,   *)
(* unless the loop is held where CloseUnblocksAccept fails: KCP and TLS    *)
(* clients never hold it, and a QUIC client only if it keeps its           *)
(* connection alive and opens no stream.                                   *)
CloseEndsAccept ==
  CloseReturned ~> acceptPc = "over" \/ Crashed \/ HeldBySilent

(* While the acceptor runs, an established connection does not wait for    *)
(* ever behind others: KCP and TLS clients never hold each other up, QUIC  *)
(* clients only in the wait for a stream.                                  *)
ServesWaiting ==
  \A c \in Conns :
    c \in Queued ~>
      c \notin Queued \/ acceptPc = "over" \/ Crashed \/ HeldBySilent
==============================================================================
