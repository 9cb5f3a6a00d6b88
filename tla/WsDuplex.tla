------------------------------- MODULE WsDuplex -------------------------------
(***************************************************************************)
(* Two ends of this code, connected: can they wait for each other?  Each   *)
(* has a goroutine that writes (Write and WriteClose of                    *)
(* websocket/transport.go) and one that reads, which itself writes under   *)
(* the same writeLocker: the answer to a Close frame (HandleClose in       *)
(* internal/wsutils/cipher_handler.go) and the refusal of a message of a   *)
(* type that Options.OpCode does not accept (Read).  Each direction holds  *)
(* a few frames; a full one stops who writes into it, with the lock held.  *)
(*                                                                         *)
(* Frames are whole here; WsWriter has them in pieces and the write buffer *)
(* in front of the socket.  No end pings: the transport has no call for    *)
(* it.                                                                     *)
(***************************************************************************)
EXTENDS Naturals, Sequences

CONSTANTS
  OpCodes,  \* what the two ends' Options.OpCode may be, see below
  PipeCap,  \* frames one direction holds
  MaxCalls  \* bound: calls of each writing goroutine

Ends == {"client", "server"}
Other(e) == IF e = "client" THEN "server" ELSE "client"
Roles == {"writer", "reader"}

(* Options.OpCode is a set of bits: OpText is 1, OpBinary is 2.  With      *)
(* neither an end accepts no message.                                      *)
OpCode == SUBSET {"text", "binary"}

ASSUME WsDuplexAssumption ==
  /\ OpCodes \subseteq [Ends -> OpCode]
  /\ PipeCap \in Nat \ {0}
  /\ MaxCalls \in Nat

VARIABLES
  opCode,  \* Options.OpCode of each end
  polite,  \* the applications write nothing after a WriteClose
  pc,      \* where each goroutine is: "idle", "want", "put" or "over"
  job,     \* what it writes
  lock,    \* writeLocker of each end: who holds it, or "nobody"
  pipe,    \* the frames an end has written and the other has not read
  calls,   \* history: calls of each end's writer
  saidBye, \* history: the end's WriteClose has returned without an error
  closed   \* the end has closed its connection

fixed == <<opCode, polite>>
vars == <<opCode, polite, pc, job, lock, pipe, calls, saidBye, closed>>

Jobs == {"none", "text", "binary", "close", "refusal", "reply"}

TypeOK ==
  /\ opCode \in OpCodes
  /\ polite \in BOOLEAN
  /\ pc \in [Ends -> [Roles -> {"idle", "want", "put", "over"}]]
  /\ job \in [Ends -> [Roles -> Jobs]]
  /\ lock \in [Ends -> Roles \cup {"nobody"}]
  /\ \A e \in Ends : Len(pipe[e]) <= PipeCap
  /\ calls \in [Ends -> 0..MaxCalls]
  /\ saidBye \in [Ends -> BOOLEAN]
  /\ closed \in [Ends -> BOOLEAN]

Init ==
  /\ opCode \in OpCodes
  /\ polite \in BOOLEAN
  /\ pc = [e \in Ends |-> [r \in Roles |-> "idle"]]
  /\ job = [e \in Ends |-> [r \in Roles |-> "none"]]
  /\ lock = [e \in Ends |-> "nobody"]
  /\ pipe = [e \in Ends |-> <<>>]
  /\ calls = [e \in Ends |-> 0]
  /\ saidBye = [e \in Ends |-> FALSE]
  /\ closed = [e \in Ends |-> FALSE]

Goes(e, r, where) == pc' = [pc EXCEPT ![e][r] = where]
WantsTo(e, r, what) ==
  Goes(e, r, "want") /\ job' = [job EXCEPT ![e][r] = what]

-----------------------------------------------------------------------------
(* Writing, under writeLocker.                                             *)

(* The type of the messages an end sends: newWebsocketTransport.           *)
SendType(e) == IF "text" \in opCode[e] THEN "text" ELSE "binary"

Says(e, what) ==
  /\ pc[e]["writer"] = "idle"
  /\ calls[e] < MaxCalls
  /\ ~(polite /\ saidBye[e])
  /\ calls' = [calls EXCEPT ![e] = @ + 1]
  /\ WantsTo(e, "writer", what)
  /\ UNCHANGED <<fixed, lock, pipe, saidBye, closed>>

Writes(e) == Says(e, SendType(e))
WriteCloses(e) == Says(e, "close")

Locks(e, r) ==
  /\ pc[e][r] = "want"
  /\ lock[e] = "nobody"
  /\ lock' = [lock EXCEPT ![e] = r]
  /\ Goes(e, r, "put")
  /\ UNCHANGED <<fixed, job, pipe, calls, saidBye, closed>>

(* HandleClose returns an error whether its reply went out or not, and     *)
(* Read returns it; a refusal's error is ignored, and Read goes on.        *)
AfterAlways(what) == "idle"
After(what) == IF what = "reply" THEN "over" ELSE "idle"

Leaves(e, r) ==
  /\ Goes(e, r, After(job[e][r]))
  /\ job' = [job EXCEPT ![e][r] = "none"]

HasRoomOffByOne(e) == Len(pipe[e]) <= PipeCap
HasRoom(e) == Len(pipe[e]) < PipeCap

FrameOf(what) == IF what \in {"text", "binary"} THEN what ELSE "close"

Puts(e, r) ==
  /\ pc[e][r] = "put"
  /\ ~closed[e]
  /\ HasRoom(e)
  /\ pipe' = IF closed[Other(e)] THEN pipe
             ELSE [pipe EXCEPT ![e] = Append(@, FrameOf(job[e][r]))]
  /\ lock' = [lock EXCEPT ![e] = "nobody"]
  /\ saidBye' = [saidBye EXCEPT ![e] = @ \/ job[e][r] = "close"]
  /\ Leaves(e, r)
  /\ UNCHANGED <<fixed, calls, closed>>

Gone == \E e \in Ends : closed[e]

(* The unlock is deferred: an error frees the lock as well.                *)
KeptOnError(e) == lock
FreeOnError(e) == [lock EXCEPT ![e] = "nobody"]

WriteFails(e, r) ==
  /\ pc[e][r] = "put"
  /\ Gone
  /\ lock' = FreeOnError(e)
  /\ Leaves(e, r)
  /\ UNCHANGED <<fixed, pipe, calls, saidBye, closed>>

-----------------------------------------------------------------------------
(* Reading.                                                                *)

Refuses(e, frame) == frame \notin opCode[e]

ReaderTakes(e) ==
  /\ pc[e]["reader"] = "idle"
  /\ ~closed[e]
  /\ pipe[Other(e)] # <<>>
  /\ pipe' = [pipe EXCEPT ![Other(e)] = Tail(@)]
  /\ LET frame == Head(pipe[Other(e)])
     IN  CASE frame = "close" -> WantsTo(e, "reader", "reply")
           [] frame # "close" /\ Refuses(e, frame) ->
                WantsTo(e, "reader", "refusal")
           [] frame # "close" /\ ~Refuses(e, frame) -> UNCHANGED <<pc, job>>
  /\ UNCHANGED <<fixed, lock, calls, saidBye, closed>>

(* The header cannot be read: the connection has gone, on this side or,    *)
(* perhaps with frames still on the way, on the other.                     *)
ReaderFails(e) ==
  /\ pc[e]["reader"] = "idle"
  /\ Gone
  /\ Goes(e, "reader", "over")
  /\ UNCHANGED <<fixed, job, lock, pipe, calls, saidBye, closed>>

-----------------------------------------------------------------------------
(* The application closes when it likes; go-netty does after Read has      *)
(* failed.  What was not read is lost, and what the other end writes       *)
(* afterwards.  A network that breaks looks to an end like that.           *)
Closes(e) ==
  /\ ~closed[e]
  /\ closed' = [closed EXCEPT ![e] = TRUE]
  /\ pipe' = [pipe EXCEPT ![Other(e)] = <<>>]
  /\ UNCHANGED <<fixed, pc, job, lock, calls, saidBye>>

ClosesAfterRead(e) == pc[e]["reader"] = "over" /\ Closes(e)

-----------------------------------------------------------------------------
Next ==
  \/ \E e \in Ends : Writes(e)
  \/ \E e \in Ends : WriteCloses(e)
  \/ \E e \in Ends, r \in Roles : Locks(e, r)
  \/ \E e \in Ends, r \in Roles : Puts(e, r)
  \/ \E e \in Ends, r \in Roles : WriteFails(e, r)
  \/ \E e \in Ends : ReaderTakes(e)
  \/ \E e \in Ends : ReaderFails(e)
  \/ \E e \in Ends : Closes(e)

(* Each goroutine runs, and go-netty's read loop calls Read again; the     *)
(* mutex does not pass a waiter over for ever.  Nothing is assumed of the  *)
(* application's calls or of the network.                                  *)
Fairness ==
  /\ \A e \in Ends, r \in Roles :
       SF_vars(Locks(e, r)) /\ WF_vars(Puts(e, r) \/ WriteFails(e, r))
  /\ \A e \in Ends :
       /\ WF_vars(ReaderTakes(e) \/ ReaderFails(e))
       /\ WF_vars(ClosesAfterRead(e))

Spec == Init /\ [][Next]_vars
FairSpec == Spec /\ Fairness

-----------------------------------------------------------------------------
(* Properties.                                                             *)

Stuck(e, r) == pc[e][r] \in {"want", "put"}

(* Both directions are full, and neither reader reads, since it wants to   *)
(* write itself.                                                           *)
Jammed ==
  /\ ~Gone
  /\ \A e \in Ends : ~HasRoom(e) /\ Stuck(e, "reader")

(* No goroutine waits for ever to write, unless both readers wait to write *)
(* and both directions are full (HandleClose, cipher_handler.go line 143,  *)
(* and Read's refusal, transport.go line 238): never because of a lock     *)
(* that an error has left held, and never one end alone.                   *)
MutualOnly ==
  \A e \in Ends, r \in Roles :
    <>[]Stuck(e, r) => <>[]Jammed

Accepting == \A e \in Ends : SendType(Other(e)) \in opCode[e]

(* Ends that accept what the other sends, and send nothing after a Close   *)
(* frame of their own, never jam: every call of theirs ends, and a         *)
(* WriteClose that has gone out ends the reading on both sides, though     *)
(* nobody remembers which Close frame is an answer.                        *)
PoliteCloses ==
  polite /\ Accepting =>
    /\ \A e \in Ends, r \in Roles : []<>~Stuck(e, r)
    /\ \A e, f \in Ends : saidBye[e] ~> pc[f]["reader"] = "over"
==============================================================================
