------------------------------- MODULE WsWriter -------------------------------
(***************************************************************************)
(* The writing side of a websocket connection: Write, WriteClose and Flush *)
(* of websocketTransport (websocket/transport.go) called by any number of  *)
(* goroutines, and the answers to control frames that the reading          *)
(* goroutine writes (websocket/internal/wsutils/cipher_handler.go), all    *)
(* under writeLocker.                                                      *)
(*                                                                         *)
(* What one call of the underlying Write puts out is a piece: a whole      *)
(* frame, or its header and its payload apart.  Pieces go through the      *)
(* buffer of go-netty's transport, if it has one, and through the socket.  *)
(* The peer reads them, or stops; it sends control frames, and may take    *)
(* its time between the header of one and its payload.                     *)
(***************************************************************************)
EXTENDS Naturals, Sequences, SequencesExt

CONSTANTS
  Writers,   \* goroutines that write
  Reader,    \* the goroutine that reads and answers
  Nobody,    \* holds writeLocker when it is free
  BufCap,    \* pieces the write buffer holds, where there is one
  PipeCap,   \* pieces the socket holds
  MaxCalls,  \* bound: calls of all writers together
  MaxIn      \* bound: what the peer sends, headers and payloads

ASSUME WsWriterAssumption ==
  /\ Reader \notin Writers
  /\ Nobody \notin Writers \cup {Reader}
  /\ BufCap \in Nat \ {0}
  /\ PipeCap \in Nat \ {0}
  /\ BufCap <= PipeCap
  /\ MaxCalls \in Nat
  /\ MaxIn \in Nat

VARIABLES
  buffered,\* WriteBufferSize is positive: the transport has a write buffer
  pc,      \* where each goroutine is, see Pcs
  job,     \* what it is doing: one of Calls, or of Answers for the reader
  lock,    \* who holds writeLocker
  buf,     \* the write buffer of transport.Transport
  pipe,    \* pieces in the socket
  last,    \* history: the piece the peer has read last, if any
  inbound, \* what the peer has sent and the reader has not taken
  sent,    \* history: how much the peer has sent
  calls,   \* history: how many calls the writers have made
  broken   \* the connection is broken: every write and read fails

peerVars == <<pipe, last, inbound, sent, broken>>
vars == <<buffered, pc, job, lock, buf, pipe, last, inbound, sent, calls, broken>>

Procs == Writers \cup {Reader}

Calls == {"write", "close", "flush"}
(* "refusal": Read's WriteClose for a message of a type it cannot accept.  *)
Answers == {"pong", "emptyPong", "closeReply", "protocolError", "refusal"}
Final == {"closeReply", "protocolError"}

(* "idle": the goroutine is elsewhere (the reader waits for a header).     *)
(* "want": it waits for the lock.  "payload": it waits for the payload of  *)
(* a control frame.  "put": it writes a frame, or its header.  "rest": it  *)
(* writes the payload.  "flush": it flushes.  "over": Read gave up.        *)
Pcs == {"idle", "want", "payload", "put", "rest", "flush", "over"}

WithPayload == {"ping", "close", "badClose"}
Inbound == WithPayload \cup {"emptyPing", "emptyClose", "unwanted", "payload"}

Piece == [by : Procs, job : Calls \cup Answers,
          part : {"frame", "header", "payload"}]

TypeOK ==
  /\ buffered \in BOOLEAN
  /\ pc \in [Procs -> Pcs]
  /\ job \in [Procs -> Calls \cup Answers \cup {"none"}]
  /\ lock \in Procs \cup {Nobody}
  /\ buf \in Seq(Piece) /\ Len(buf) <= BufCap
  /\ pipe \in Seq(Piece) /\ Len(pipe) <= PipeCap
  /\ last \in Seq(Piece) /\ Len(last) <= 1
  /\ inbound \in Seq(Inbound)
  /\ sent \in 0..MaxIn
  /\ calls \in 0..MaxCalls
  /\ broken \in BOOLEAN

Init ==
  /\ buffered \in BOOLEAN
  /\ pc = [p \in Procs |-> "idle"]
  /\ job = [p \in Procs |-> "none"]
  /\ lock = Nobody
  /\ buf = <<>>
  /\ pipe = <<>>
  /\ last = <<>>
  /\ inbound = <<>>
  /\ sent = 0
  /\ calls = 0
  /\ broken = FALSE

-----------------------------------------------------------------------------
(* The lock.                                                               *)

(* A ping's payload is read under the lock (cipher_handler.go line 100), a *)
(* close's before it is taken (line 135).                                  *)
AfterLock(p) ==
  CASE job[p] = "flush" -> "flush"
    [] job[p] = "pong"  -> "payload"
    [] OTHER            -> "put"

LockEvenIfHeld(p) == TRUE
LockFree(p) == lock = Nobody

Locks(p) ==
  /\ pc[p] = "want"
  /\ LockFree(p)
  /\ lock' = p
  /\ pc' = [pc EXCEPT ![p] = AfterLock(p)]
  /\ UNCHANGED <<buffered, job, buf, calls, peerVars>>

(* The deferred Unlock, on every way out; the reader gives up after an     *)
(* error and after a Close, but not after a refusal (transport.go 238).    *)
HoldsOnError(p) == p
FreeOnError(p) == Nobody

Leaves(p, failed) ==
  /\ lock' = IF failed THEN FreeOnError(p) ELSE Nobody
  /\ pc' = [pc EXCEPT ![p] =
       IF p = Reader /\ job[p] # "refusal" /\ (failed \/ job[p] \in Final)
       THEN "over" ELSE "idle"]

-----------------------------------------------------------------------------
(* The calls of the application, and what the reader finds to answer.      *)
Begins(w, call) ==
  /\ pc[w] = "idle"
  /\ calls < MaxCalls
  /\ calls' = calls + 1
  /\ job' = [job EXCEPT ![w] = call]
  /\ pc' = [pc EXCEPT ![w] = "want"]
  /\ UNCHANGED <<buffered, lock, buf, peerVars>>

(* The reader has the header of a control frame, or an unwanted message.   *)
AnswerTo(header) ==
  CASE header = "ping"      -> "pong"
    [] header = "emptyPing" -> "emptyPong"
    [] header = "badClose"  -> "protocolError"
    [] header = "unwanted"  -> "refusal"
    [] header \in {"close", "emptyClose"} -> "closeReply"

ReaderTakes ==
  /\ pc[Reader] = "idle"
  /\ inbound # <<>>
  /\ job' = [job EXCEPT ![Reader] = AnswerTo(Head(inbound))]
  /\ pc' = [pc EXCEPT ![Reader] =
       IF Head(inbound) \in {"close", "badClose"} THEN "payload" ELSE "want"]
  /\ inbound' = Tail(inbound)
  /\ UNCHANGED <<buffered, lock, buf, pipe, last, sent, calls, broken>>

ReaderHasPayload ==
  /\ pc[Reader] = "payload"
  /\ inbound # <<>>
  /\ pc' = [pc EXCEPT ![Reader] = IF job[Reader] = "pong" THEN "put" ELSE "want"]
  /\ inbound' = Tail(inbound)
  /\ UNCHANGED <<buffered, job, lock, buf, pipe, last, sent, calls, broken>>

(* The connection is broken: the reader stops, without or with the lock.   *)
ReaderFails ==
  /\ broken
  /\ inbound = <<>>
  /\ \/ pc[Reader] = "idle"
     \/ pc[Reader] = "payload"
  /\ IF lock = Reader
       THEN Leaves(Reader, TRUE)
       ELSE /\ pc' = [pc EXCEPT ![Reader] = "over"]
            /\ UNCHANGED lock
  /\ UNCHANGED <<buffered, job, buf, calls, peerVars>>

-----------------------------------------------------------------------------
(* Writing, with the lock held.                                            *)

RoomOffByOne == Len(buf) <= BufCap
HasRoom == Len(buf) < BufCap

(* transport.Write of a piece: into the buffer while it has room, else all *)
(* that is buffered goes out first; without a buffer, into the socket.     *)

Puts(piece) ==
  \/ /\ buffered /\ HasRoom
     /\ buf' = Append(buf, piece)
     /\ UNCHANGED pipe
  \/ /\ buffered /\ Len(buf) = BufCap
     /\ Len(pipe) + Len(buf) <= PipeCap
     /\ pipe' = pipe \o buf
     /\ buf' = <<piece>>
  \/ /\ ~buffered /\ Len(pipe) < PipeCap
     /\ pipe' = Append(pipe, piece)
     /\ UNCHANGED buf

(* ws.WriteFrame writes header and payload apart: for WriteClose and for a *)
(* protocol error.  Write and the other answers put out a frame at once.   *)
InTwo(p) == job[p] \in {"close", "protocolError", "refusal"}

(* WriteClose flushes, the answers do not (cipher_handler.go).             *)
NeverFlushes(p) == FALSE
FlushesAfter(p) == job[p] \in {"close", "refusal"}

PutsFirst(p) ==
  /\ ~broken
  /\ pc[p] = "put"
  /\ Puts([by |-> p, job |-> job[p], part |-> IF InTwo(p) THEN "header" ELSE "frame"])
  /\ IF InTwo(p)
       THEN pc' = [pc EXCEPT ![p] = "rest"] /\ UNCHANGED lock
       ELSE Leaves(p, FALSE)
  /\ UNCHANGED <<buffered, job, last, inbound, sent, calls, broken>>

PutsRest(p) ==
  /\ ~broken
  /\ pc[p] = "rest"
  /\ Puts([by |-> p, job |-> job[p], part |-> "payload"])
  /\ IF FlushesAfter(p)
       THEN pc' = [pc EXCEPT ![p] = "flush"] /\ UNCHANGED lock
       ELSE Leaves(p, FALSE)
  /\ UNCHANGED <<buffered, job, last, inbound, sent, calls, broken>>

Flushes(p) ==
  /\ ~broken
  /\ pc[p] = "flush"
  /\ Len(pipe) + Len(buf) <= PipeCap
  /\ pipe' = pipe \o buf
  /\ buf' = <<>>
  /\ Leaves(p, FALSE)
  /\ UNCHANGED <<buffered, job, last, inbound, sent, calls, broken>>

WriteFails(p) ==
  /\ broken
  /\ pc[p] \in {"put", "rest", "flush"}
  /\ Leaves(p, TRUE)
  /\ UNCHANGED <<buffered, job, buf, calls, peerVars>>

-----------------------------------------------------------------------------
(* The peer and the network.                                               *)
PeerReads ==
  /\ ~broken
  /\ pipe # <<>>
  /\ last' = <<Head(pipe)>>
  /\ pipe' = Tail(pipe)
  /\ UNCHANGED <<buffered, pc, job, lock, buf, inbound, sent, calls, broken>>

(* A header that has a payload is followed by it, sooner or later.         *)
NeedsPayload ==
  \/ inbound # <<>> /\ Last(inbound) \in WithPayload
  \/ inbound = <<>> /\ pc[Reader] = "payload"
  \/ inbound = <<>> /\ pc[Reader] = "want" /\ job[Reader] = "pong"

PeerSends(x) ==
  /\ ~broken
  /\ sent < MaxIn
  /\ (x = "payload") <=> NeedsPayload
  /\ inbound' = Append(inbound, x)
  /\ sent' = sent + 1
  /\ UNCHANGED <<buffered, pc, job, lock, buf, pipe, last, calls, broken>>

(* What is in the socket is lost.                                         *)
Breaks ==
  /\ ~broken
  /\ broken' = TRUE
  /\ pipe' = <<>>
  /\ last' = <<>>
  /\ UNCHANGED <<buffered, pc, job, lock, buf, inbound, sent, calls>>

-----------------------------------------------------------------------------
Working(p) == PutsFirst(p) \/ PutsRest(p) \/ Flushes(p) \/ WriteFails(p)

Reading == ReaderTakes \/ ReaderHasPayload \/ ReaderFails

Next ==
  \/ \E w \in Writers, call \in Calls : Begins(w, call)
  \/ \E p \in Procs : Locks(p)
  \/ \E p \in Procs : Working(p)
  \/ Reading
  \/ PeerReads
  \/ \E x \in Inbound : PeerSends(x)
  \/ Breaks

(* Goroutines that can run do.  Go's mutex does not starve a waiter.  The  *)
(* peer owes nothing.                                                      *)
Fairness ==
  /\ \A p \in Procs : SF_vars(Locks(p)) /\ WF_vars(Working(p))
  /\ WF_vars(Reading)

Spec == Init /\ [][Next]_vars

FairSpec == Spec /\ Fairness

-----------------------------------------------------------------------------
(* Properties.                                                             *)

(* What the peer read last and all that is on its way to it.               *)
Out == last \o pipe \o buf

(* Frames are never interleaved: the payload of a frame that goes out in   *)
(* two pieces follows its header at once, whoever else writes, and only    *)
(* the goroutine that holds the lock has a header without a payload.       *)
FramesWhole ==
  \A i \in 1..Len(Out) :
    Out[i].part = "header" =>
      IF i < Len(Out)
        THEN Out[i + 1] = [Out[i] EXCEPT !.part = "payload"]
        ELSE lock = Out[i].by \/ broken

(* A Flush or WriteClose that has returned leaves nothing behind of what   *)
(* its goroutine wrote before, unless the connection broke.                *)
FlushCovers ==
  ~broken => \A p \in Procs :
    pc[p] = "idle" /\ job[p] \in {"flush", "close", "refusal"} =>
      \A i \in 1..Len(buf) : buf[i].by # p

(* A goroutine that waits for writeLocker for ever does so for the peer's  *)
(* sake, for ever: what the lock's holder writes does not fit into the     *)
(* socket, or the payload of the ping it has begun to answer does not come *)
(* (cipher_handler.go line 100).  An error or a Close never keeps the lock. *)
PeerHoldsUp ==
  \/ Len(pipe) + Len(buf) > PipeCap \/ Len(pipe) = PipeCap
  \/ lock = Reader /\ pc[Reader] = "payload" /\ inbound = <<>>

WaitsOnPeerOnly ==
  \A p \in Procs : <>[](pc[p] = "want") => <>[]PeerHoldsUp

==============================================================================
