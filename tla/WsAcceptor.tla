------------------------------ MODULE WsAcceptor ------------------------------
(***************************************************************************)
(* The listening side of the websocket transport: websocket/factory.go,    *)
(* Listen, upgradeHTTP, Accept and Close of wsAcceptor.                    *)
(*                                                                         *)
(* net/http runs upgradeHTTP in a goroutine per request; it posts the      *)
(* hijacked connection on the channel `incoming' or, once `closedSignal'   *)
(* is closed, drops it.  Accept runs in go-netty's accept loop and Close   *)
(* in any goroutine.  Hijacked connections are out of the http server's    *)
(* hands: whoever holds one has to close it.  A select with several ready  *)
(* cases takes any of them.                                                *)
(***************************************************************************)
EXTENDS Naturals, Sequences, FiniteSets

CONSTANTS
  Conns,    \* connections, one per http request
  NoConn,   \* no connection in Accept's hands
  Closers,  \* goroutines that call wsAcceptor.Close
  Backlog   \* capacity of `incoming' (Options.Backlog, at least 64 there)

ASSUME WsAcceptorAssumption ==
  /\ NoConn \notin Conns
  /\ Backlog \in Nat \ {0}

VARIABLES
  hPc,       \* the request's goroutine: "idle", "upgrading", "posting", "done"
  conn,      \* the hijacked connection: "none", "open", "closed"
  incoming,  \* the channel wsAcceptor.incoming
  acceptPc,  \* the accept loop, see AcceptPcs
  ev,        \* the event Accept took from `incoming'
  delivered, \* connections whose transport Accept has returned
  signal,    \* wsAcceptor.closedSignal is closed
  server,    \* the http server: "up" or "closed"
  closePc,   \* where each caller of wsAcceptor.Close is
  servePc,   \* the goroutine of Listen: "serving", "returned", "exited"
  errs,      \* the channel errorChan, by its length
  listenPc,  \* Listen itself: "waiting", "ok" or "failed"
  early,     \* history: connections posted before `signal'
  crashed    \* Close panicked: close of a closed channel

handlerVars == <<hPc, conn, incoming, early>>
acceptVars  == <<acceptPc, ev, delivered>>
closeVars   == <<signal, server, closePc>>
listenVars  == <<servePc, errs, listenPc>>
vars == <<hPc, conn, incoming, acceptPc, ev, delivered, signal, server,
          closePc, servePc, errs, listenPc, early, crashed>>

(* "stopped": Accept returned an error and the loop ended; "drained": it   *)
(* ended because Accept saw the signal and emptied `incoming'.             *)
AcceptPcs == {"wait", "building", "draining", "stopped", "drained"}
AcceptOver == acceptPc \in {"stopped", "drained"}

Queued == {incoming[i] : i \in 1..Len(incoming)}

(* The capacity of errorChan: one, so that the goroutine that serves never *)
(* waits for a Listen that has returned.                                   *)
ErrCapUnbuffered == 0
ErrCap == 1

TypeOK ==
  /\ hPc \in [Conns -> {"idle", "upgrading", "posting", "done"}]
  /\ conn \in [Conns -> {"none", "open", "closed"}]
  /\ incoming \in Seq(Conns) /\ Len(incoming) <= Backlog
  /\ acceptPc \in AcceptPcs
  /\ ev \in Conns \cup {NoConn}
  /\ delivered \subseteq Conns
  /\ signal \in BOOLEAN
  /\ server \in {"up", "closed"}
  /\ closePc \in [Closers -> {"idle", "checked", "signalled", "returned"}]
  /\ servePc \in {"serving", "returned", "exited"}
  /\ errs \in 0..ErrCap
  /\ listenPc \in {"waiting", "ok", "failed"}
  /\ early \subseteq Conns
  /\ crashed \in BOOLEAN

Init ==
  /\ hPc = [c \in Conns |-> "idle"]
  /\ conn = [c \in Conns |-> "none"]
  /\ incoming = <<>>
  /\ acceptPc = "wait"
  /\ ev = NoConn
  /\ delivered = {}
  /\ signal = FALSE
  /\ server = "up"
  /\ closePc = [k \in Closers |-> "idle"]
  /\ servePc = "serving"
  /\ errs = 0
  /\ listenPc = "waiting"
  /\ early = {}
  /\ crashed = FALSE

-----------------------------------------------------------------------------
(* Listen: lines 118-136.                                                  *)

(* Serve returns: the server was closed, or the listener broke.            *)
ServeReturns ==
  /\ ~crashed
  /\ servePc = "serving"
  /\ servePc' = "returned"
  /\ UNCHANGED <<errs, listenPc, handlerVars, acceptVars, closeVars, crashed>>

ServeReports ==
  /\ ~crashed
  /\ servePc = "returned"
  /\ errs < ErrCap
  /\ errs' = errs + 1
  /\ servePc' = "exited"
  /\ UNCHANGED <<listenPc, handlerVars, acceptVars, closeVars, crashed>>

ListenFails ==
  /\ ~crashed
  /\ listenPc = "waiting"
  /\ errs > 0
  /\ errs' = errs - 1
  /\ listenPc' = "failed"
  /\ UNCHANGED <<servePc, handlerVars, acceptVars, closeVars, crashed>>

(* The second is over: "waiting for server initialization".                *)
ListenSucceeds ==
  /\ ~crashed
  /\ listenPc = "waiting"
  /\ listenPc' = "ok"
  /\ UNCHANGED <<servePc, errs, handlerVars, acceptVars, closeVars, crashed>>

-----------------------------------------------------------------------------
(* upgradeHTTP: lines 152-169.                                             *)

Request(c) ==
  /\ ~crashed
  /\ hPc[c] = "idle"
  /\ server = "up"
  /\ servePc = "serving"
  /\ hPc' = [hPc EXCEPT ![c] = "upgrading"]
  /\ UNCHANGED <<conn, incoming, early, acceptVars, closeVars, listenVars,
                 crashed>>

UpgradeFails(c) ==
  /\ ~crashed
  /\ hPc[c] = "upgrading"
  /\ hPc' = [hPc EXCEPT ![c] = "done"]
  /\ UNCHANGED <<conn, incoming, early, acceptVars, closeVars, listenVars,
                 crashed>>

Upgrades(c) ==
  /\ ~crashed
  /\ hPc[c] = "upgrading"
  /\ hPc' = [hPc EXCEPT ![c] = "posting"]
  /\ conn' = [conn EXCEPT ![c] = "open"]
  /\ UNCHANGED <<incoming, early, acceptVars, closeVars, listenVars, crashed>>

(* What posting does to the connection itself: nothing, Accept owns it.    *)
AfterPostClosed(c) == [conn EXCEPT ![c] = "closed"]
AfterPost(c) == conn

(* The case `w.incoming <- ...' of the handler's select is ready.          *)
RoomOffByOne == Len(incoming) <= Backlog
BacklogHasRoom == Len(incoming) < Backlog

Posts(c) ==
  /\ ~crashed
  /\ hPc[c] = "posting"
  /\ BacklogHasRoom
  /\ incoming' = Append(incoming, c)
  /\ early' = IF signal THEN early ELSE early \cup {c}
  /\ hPc' = [hPc EXCEPT ![c] = "done"]
  /\ conn' = AfterPost(c)
  /\ UNCHANGED <<acceptVars, closeVars, listenVars, crashed>>

HandlerIgnoresSignal == FALSE
HandlerSeesSignal == signal

Drops(c) ==
  /\ ~crashed
  /\ hPc[c] = "posting"
  /\ HandlerSeesSignal
  /\ hPc' = [hPc EXCEPT ![c] = "done"]
  /\ conn' = [conn EXCEPT ![c] = "closed"]
  /\ UNCHANGED <<incoming, early, acceptVars, closeVars, listenVars, crashed>>

-----------------------------------------------------------------------------
(* Accept: lines 171-191, called in a loop once Listen has returned it.    *)

AcceptTakes ==
  /\ ~crashed
  /\ listenPc = "ok"
  /\ acceptPc = "wait"
  /\ incoming # <<>>
  /\ ev' = Head(incoming)
  /\ incoming' = Tail(incoming)
  /\ acceptPc' = "building"
  /\ UNCHANGED <<hPc, conn, early, delivered, closeVars, listenVars, crashed>>

(* newWebsocketTransport succeeds and the loop serves the channel.         *)
AcceptDelivers ==
  /\ ~crashed
  /\ acceptPc = "building"
  /\ delivered' = delivered \cup {ev}
  /\ ev' = NoConn
  /\ acceptPc' = "wait"
  /\ UNCHANGED <<handlerVars, closeVars, listenVars, crashed>>

(* newWebsocketTransport fails (SetNoDelay).  Whether the loop goes on     *)
(* after an error is go-netty's and left open.                             *)
AcceptBuildFails ==
  /\ ~crashed
  /\ acceptPc = "building"
  /\ conn' = [conn EXCEPT ![ev] = "closed"]
  /\ ev' = NoConn
  /\ acceptPc' \in {"wait", "stopped"}
  /\ UNCHANGED <<hPc, incoming, early, delivered, closeVars, listenVars,
                 crashed>>

(* The case `<-w.closedSignal' of Accept's select.                         *)
AcceptOnlyTakes == FALSE
AcceptSeesSignal == signal

AcceptIsTold ==
  /\ ~crashed
  /\ listenPc = "ok"
  /\ acceptPc = "wait"
  /\ AcceptSeesSignal
  /\ acceptPc' = "draining"
  /\ UNCHANGED <<handlerVars, ev, delivered, closeVars, listenVars, crashed>>

(* "close all incoming connections"                                        *)
DrainOne ==
  /\ ~crashed
  /\ acceptPc = "draining"
  /\ incoming # <<>>
  /\ conn' = [conn EXCEPT ![Head(incoming)] = "closed"]
  /\ incoming' = Tail(incoming)
  /\ UNCHANGED <<hPc, early, acceptVars, closeVars, listenVars, crashed>>

QueueShort == Len(incoming) <= 1
QueueEmpty == incoming = <<>>

(* "ws acceptor closed"                                                    *)
DrainEnds ==
  /\ ~crashed
  /\ acceptPc = "draining"
  /\ QueueEmpty
  /\ acceptPc' = "drained"
  /\ UNCHANGED <<handlerVars, ev, delivered, closeVars, listenVars, crashed>>

-----------------------------------------------------------------------------
(* Close: lines 193-207, in the steps another goroutine can come between.  *)

CloseBegins(k) ==
  /\ ~crashed
  /\ listenPc = "ok"
  /\ closePc[k] = "idle"
  /\ closePc' = [closePc EXCEPT ![k] = IF signal THEN "returned" ELSE "checked"]
  /\ UNCHANGED <<signal, server, handlerVars, acceptVars, listenVars, crashed>>

CloseSignals(k) ==
  /\ ~crashed
  /\ closePc[k] = "checked"
  /\ IF signal
       THEN crashed' = TRUE /\ UNCHANGED <<signal, closePc>>
       ELSE /\ signal' = TRUE
            /\ closePc' = [closePc EXCEPT ![k] = "signalled"]
            /\ UNCHANGED crashed
  /\ UNCHANGED <<server, handlerVars, acceptVars, listenVars>>

CloseStopsServer(k) ==
  /\ ~crashed
  /\ closePc[k] = "signalled"
  /\ server' = "closed"
  /\ closePc' = [closePc EXCEPT ![k] = "returned"]
  /\ UNCHANGED <<signal, handlerVars, acceptVars, listenVars, crashed>>

-----------------------------------------------------------------------------
HandlerStep(c) == UpgradeFails(c) \/ Upgrades(c) \/ Posts(c) \/ Drops(c)

AcceptStep ==
  \/ AcceptTakes
  \/ AcceptDelivers
  \/ AcceptBuildFails
  \/ AcceptIsTold
  \/ DrainOne
  \/ DrainEnds

CloseStep(k) == CloseSignals(k) \/ CloseStopsServer(k)

Next ==
  \/ ServeReturns
  \/ ServeReports
  \/ ListenFails
  \/ ListenSucceeds
  \/ \E c \in Conns : Request(c)
  \/ \E c \in Conns : HandlerStep(c)
  \/ AcceptStep
  \/ \E k \in Closers : CloseBegins(k)
  \/ \E k \in Closers : CloseStep(k)

(* The scheduler runs every goroutine that can run; the timer of Listen    *)
(* fires; a closed server's Serve returns.  Requests and the calls of      *)
(* Close are the environment's, and so is a Serve that fails.              *)
Fairness ==
  /\ WF_vars(ServeReturns /\ server = "closed")
  /\ WF_vars(ServeReports)
  /\ WF_vars(ListenFails \/ ListenSucceeds)
  /\ WF_vars(AcceptStep)
  /\ \A c \in Conns : WF_vars(HandlerStep(c))
  /\ \A k \in Closers : WF_vars(CloseStep(k))

Spec == Init /\ [][Next]_vars

FairSpec == Spec /\ Fairness

-----------------------------------------------------------------------------
(* Properties.                                                             *)

(* An upgraded connection that is still open and not the application's is  *)
(* in the hands of exactly one goroutine or in `incoming' exactly once, so *)
(* no two of them can close it or hand it over, and none loses it while    *)
(* the acceptor runs.                                                      *)
Owners(c) ==
  {<<"handler">> : x \in {h \in {c} : hPc[h] = "posting"}}
    \cup {<<"accept">> : x \in {h \in {c} : ev = h}}
    \cup {<<"queue", i>> : i \in {j \in 1..Len(incoming) : incoming[j] = c}}

OneOwner ==
  \A c \in Conns :
    Cardinality(Owners(c)) =
      IF conn[c] = "open" /\ c \notin delivered THEN 1 ELSE 0

(* Refinement: ConnHandoff's view of the acceptor.                         *)
Handoff == INSTANCE ConnHandoff WITH
  status <- [c \in Conns |-> IF c \in delivered THEN "delivered" ELSE conn[c]],
  ended <- AcceptOver

HandsOver == Handoff!Spec

(* "close all incoming connections" (line 181) covers every connection     *)
(* that was posted before Close signalled: none of them is left in the     *)
(* queue when Accept returns its last error.  What a handler posts later   *)
(* stays open: its select may prefer the channel to the signal.            *)
DrainCoversEarly == acceptPc = "drained" => early \cap Queued = {}

(* A handler never waits for ever on a full `incoming' once Close has      *)
(* signalled: its goroutine, which the closed http server no longer knows, *)
(* ends.                                                                   *)
HandlersEnd ==
  \A c \in Conns : signal /\ hPc[c] = "posting" ~> hPc[c] = "done" \/ crashed

(* Close ends the accept loop, however many connections are waiting and    *)
(* even while handlers go on posting.                                      *)
AcceptEnds == signal ~> AcceptOver \/ crashed

(* The goroutine that serves ends after Close although Listen has stopped  *)
(* listening to errorChan.                                                 *)
ServeEnds == server = "closed" ~> servePc = "exited" \/ crashed

(* No goroutine that the acceptor started outlives its Close.              *)
GoroutinesEnd == HandlersEnd /\ ServeEnds
==============================================================================
