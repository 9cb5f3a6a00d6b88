------------------------------- MODULE WsReader -------------------------------
(***************************************************************************)
(* The reading side of a websocket connection: websocketTransport.Read     *)
(* (websocket/transport.go) on top of FrameReader                          *)
(* (websocket/internal/wsutils/frame_reader.go), in the one goroutine that *)
(* reads.                                                                  *)
(*                                                                         *)
(* The peer sends frames, drawn here when their header is read, and may    *)
(* break off at any time.  Bytes are counted, not told apart.  A           *)
(* compressed byte stands for Expand bytes of the message; the inflater    *)
(* stops after Window compressed bytes with output pending, and may take   *)
(* up to Prefetch more from the connection than it decodes.  Payloads that *)
(* the code reads to their end whatever they are (control frames, and      *)
(* frames it throws away) go with their header, in one step.  A Read that  *)
(* returns an error other than io.EOF ends the read loop.                  *)
(***************************************************************************)
EXTENDS Naturals

CONSTANTS
  Accepted,      \* Options.OpCode: the data opcodes the application takes
  CheckUTF8,     \* Options.CheckUTF8
  MaxFrameSize,  \* Options.MaxFrameSize, set
  Expand,        \* message bytes in a compressed byte
  Window,        \* compressed bytes the inflater decodes at a time
  Prefetch,      \* compressed bytes it may hold undecoded
  BufLens,       \* lengths of the buffers the application reads into
  Lens,          \* bound: lengths of the peer's frames
  MaxFrames      \* bound: frames the peer sends

ASSUME WsReaderAssumption ==
  /\ Accepted \subseteq {"text", "binary"}
  /\ CheckUTF8 \in BOOLEAN
  /\ MaxFrameSize \in Nat
  /\ Expand \in Nat \ {0}
  /\ Window \in Nat \ {0}
  /\ Prefetch \in Nat
  /\ BufLens \subseteq Nat \ {0}
  /\ Lens \subseteq Nat
  /\ MaxFrames \in Nat

VARIABLES
  compress,    \* the peer may compress its messages, see Arrives
  pc,          \* where the goroutine is, see Pcs
  want,        \* len(p) of the Read under way
  msgReader,   \* websocketTransport.msgReader is set
  fragmented,  \* FrameReader.State has StateFragmented
  opText,      \* FrameReader.opCode is ws.OpText
  frame,       \* FrameReader.frame: "none", "raw" or "flate"
  raw,         \* FrameReader.raw.N
  flateReader, \* FrameReader.flateReader is set
  pool,        \* flate readers taken from the pool and not put back
  held,        \* compressed bytes the inflater has fetched, not decoded
  pending,     \* message bytes it has decoded, not returned
  utf8,        \* FrameReader.utf8: "whole", or "cut" inside a character
  refusals,    \* Close frames sent for messages of another type
  last,        \* what the last Read returned: "none", "more", "eof", "err"
  frames,      \* history: frames the peer has sent
  unwanted,    \* history: messages of another type among them
  msg          \* history: the message at hand, see NoMessage

readerVars == <<fragmented, opText, frame, raw, flateReader, pool, held,
                pending, utf8>>
vars == <<compress, pc, want, msgReader, fragmented, opText, frame, raw,
          flateReader, pool, held, pending, utf8, refusals, last, frames, unwanted, msg>>

(* "idle": no Read is under way.  "header": in NextFrame, called by one of *)
(* the two Reads.  "payload": in frame.Read.  "discard": in the NextFrame  *)
(* of Discard.  "failed": Read gave up.                                    *)
Pcs == {"idle", "header", "payload", "discard", "failed"}

Data == {"text", "binary"}
Control == {"ping", "pong", "close"}

(* `ends': how the text of the message stands after this frame.            *)
Frame == [op : Data \cup Control \cup {"cont"}, fin : BOOLEAN,
          rsv1 : BOOLEAN, len : Lens, ends : {"whole", "cut"}]

(* The application's message at hand: bytes the peer has announced and     *)
(* bytes Read has returned; it is compressed, and bytes of it were         *)
(* returned that no inflater has seen; how its text stands.                *)
NoMessage == [sent |-> 0, got |-> 0, comp |-> FALSE, mangled |-> FALSE,
              text |-> "whole"]

TypeOK ==
  /\ compress \in BOOLEAN
  /\ pc \in Pcs
  /\ want \in BufLens \cup {0}
  /\ msgReader \in BOOLEAN
  /\ fragmented \in BOOLEAN
  /\ opText \in BOOLEAN
  /\ frame \in {"none", "raw", "flate"}
  /\ raw \in Nat
  /\ flateReader \in BOOLEAN
  /\ pool \in 0..1
  /\ held \in 0..Prefetch
  /\ pending \in 0..(Window * Expand)
  /\ utf8 \in {"whole", "cut"}
  /\ refusals \in Nat
  /\ last \in {"none", "more", "eof", "err"}
  /\ frames \in 0..MaxFrames
  /\ unwanted \in Nat
  /\ msg \in [sent : Nat, got : Nat, comp : BOOLEAN, mangled : BOOLEAN,
              text : {"whole", "cut"}]

Init ==
  /\ compress \in BOOLEAN
  /\ pc = "idle"
  /\ want = 0
  /\ msgReader = FALSE
  /\ fragmented = FALSE
  /\ opText = FALSE
  /\ frame = "none"
  /\ raw = 0
  /\ flateReader = FALSE
  /\ pool = 0
  /\ held = 0
  /\ pending = 0
  /\ utf8 = "whole"
  /\ refusals = 0
  /\ last = "none"
  /\ frames = 0
  /\ unwanted = 0
  /\ msg = NoMessage

-----------------------------------------------------------------------------
(* FrameReader.reset gives the flate reader back.                          *)
KeepsReader == pool
PutsReader == IF flateReader THEN pool - 1 ELSE pool

Reset ==
  /\ frame' = "none"
  /\ raw' = 0
  /\ opText' = FALSE
  /\ flateReader' = FALSE
  /\ pool' = PutsReader
  /\ held' = 0
  /\ pending' = 0
  /\ utf8' = "whole"

(* FrameReader.resetFragment: what the UTF-8 check knows so far survives.  *)
Utf8Forgets(u) == "whole"
Utf8Survives(u) == u

ResetFragment(u) ==
  /\ frame' = "none"
  /\ raw' = 0
  /\ held' = 0
  /\ pending' = 0
  /\ utf8' = Utf8Survives(u)
  /\ UNCHANGED <<opText, flateReader, pool>>

(* The headers NextFrame accepts: ws.CheckHeader, wsflate.IsCompressed and *)
(* MaxFrameSize.                                                           *)
HeaderOk(f) ==
  /\ f.len <= MaxFrameSize
  /\ f.op \in Control => f.fin
  /\ f.rsv1 => f.op \in Data
  /\ f.op \in Data => ~fragmented
  /\ f.op = "cont" => fragmented

(* What the peer may send next.  Only text has characters to cut; an empty *)
(* frame cuts none; a compressed one is not empty.  A peer can compress    *)
(* whether that was negotiated or not: ws.StateExtended and GetFlateReader *)
(* are always set (transport.go lines 96-105), so RSV1 is always accepted. *)
Arrives(f) ==
  /\ frames < MaxFrames
  /\ frames' = frames + 1
  /\ UNCHANGED compress
  /\ f.rsv1 => compress /\ f.len > 0
  /\ f.ends = "cut" => /\ f.op \in {"text", "cont"}
                       /\ f.op = "cont" => opText
                       /\ f.len = 0 => f.op = "cont" /\ msg.text = "cut"
  /\ f.op = "cont" /\ opText /\ f.len = 0 => f.ends = msg.text

Wanted(f) == f.op \in Accepted

-----------------------------------------------------------------------------
(* A Read begins: transport.go line 211, frame_reader.go lines 45-49.      *)
Call(n) ==
  /\ pc = "idle"
  /\ want' = n
  /\ pc' = IF msgReader /\ frame # "none" THEN "payload" ELSE "header"
  /\ UNCHANGED <<compress, msgReader, readerVars, refusals, last, frames,
                 unwanted, msg>>

(* NextFrame's bookkeeping of a frame it hands on: lines 113-132, 153-171. *)
Opens(f) ==
  /\ frame' = IF f.rsv1 THEN "flate" ELSE "raw"
  /\ raw' = f.len
  /\ flateReader' = (flateReader \/ f.rsv1)
  /\ pool' = IF f.rsv1 THEN pool + 1 ELSE pool
  /\ opText' = IF f.op = "cont" THEN opText ELSE f.op = "text"
  /\ fragmented' = ~f.fin
  /\ UNCHANGED <<held, pending, utf8>>

(* The first frame of a message the application takes.                     *)
HeaderData(f) ==
  /\ pc = "header" /\ ~msgReader
  /\ f.op \in Data /\ Wanted(f)
  /\ Arrives(f) /\ HeaderOk(f)
  /\ Opens(f)
  /\ msgReader' = TRUE
  /\ pc' = "payload"
  /\ msg' = [sent |-> IF f.rsv1 THEN f.len * Expand ELSE f.len, got |-> 0,
             comp |-> f.rsv1, mangled |-> FALSE, text |-> f.ends]
  /\ UNCHANGED <<want, refusals, last, unwanted>>

(* The next frame of that message, which the call of Read goes on with.    *)
HeaderContinues(f) ==
  /\ pc = "header" /\ msgReader
  /\ f.op = "cont"
  /\ Arrives(f) /\ HeaderOk(f)
  /\ Opens(f)
  /\ pc' = "payload"
  /\ msg' = [msg EXCEPT !.sent = @ + IF msg.comp THEN f.len * Expand ELSE f.len,
                        !.text = f.ends]
  /\ UNCHANGED <<want, msgReader, refusals, last, unwanted>>

(* A frame of a message of another type is thrown away; its last one is    *)
(* followed by reset and by WriteClose "unsupported data type".            *)
RefusesEach(f) == TRUE
RefusesLast(f) == f.fin

Unwanted(f) ==
  /\ Arrives(f) /\ HeaderOk(f)
  /\ fragmented' = ~f.fin
  /\ IF f.fin THEN Reset
     ELSE Opens([f EXCEPT !.len = 0])
  /\ refusals' = IF RefusesLast(f) THEN refusals + 1 ELSE refusals
  /\ pc' = IF f.fin THEN "header" ELSE "discard"
  /\ UNCHANGED <<want, msgReader, last, msg>>

HeaderUnwanted(f) ==
  /\ pc = "header" /\ ~msgReader
  /\ f.op \in Data /\ ~Wanted(f)
  /\ unwanted' = unwanted + 1
  /\ Unwanted(f)

DiscardContinues(f) ==
  /\ pc = "discard"
  /\ f.op = "cont"
  /\ Unwanted(f)
  /\ UNCHANGED unwanted

(* A ping or a pong.  Between messages it is answered through FrameReader, *)
(* which resets unless there was no payload to read.  Inside a message     *)
(* NextFrame answers it, and FrameReader.Read returns (0, nil).            *)
ControlFinEnds(f) == ~f.fin
StaysFragmented(f) == fragmented

ControlBetween(f) ==
  /\ pc = "header" /\ ~msgReader
  /\ f.op \in {"ping", "pong"}
  /\ Arrives(f) /\ HeaderOk(f)
  /\ IF f.len > 0 THEN Reset /\ UNCHANGED fragmented ELSE Opens(f)
  /\ UNCHANGED <<pc, want, msgReader, refusals, last, unwanted, msg>>

ControlWithin(f) ==
  /\ (pc = "header" /\ msgReader) \/ pc = "discard"
  /\ f.op \in {"ping", "pong"}
  /\ Arrives(f) /\ HeaderOk(f)
  /\ fragmented' = StaysFragmented(f)
  /\ IF pc = "header"
       THEN pc' = "idle" /\ want' = 0 /\ last' = "more"
       ELSE UNCHANGED <<pc, want, last>>
  /\ UNCHANGED <<msgReader, opText, frame, raw, flateReader, pool, held,
                 pending, utf8, refusals, unwanted, msg>>

(* Read gives up: HandleClose has answered a Close, or a header is not     *)
(* acceptable.  Discard resets in this case too (frame_reader.go line 94). *)
Fails ==
  /\ pc' = "failed"
  /\ want' = 0
  /\ last' = "err"
  /\ IF pc = "discard" THEN Reset /\ UNCHANGED fragmented
     ELSE UNCHANGED readerVars
  /\ UNCHANGED <<msgReader, refusals, unwanted, msg>>

PeerCloses(f) ==
  /\ pc \in {"header", "discard"}
  /\ f.op = "close"
  /\ Arrives(f) /\ HeaderOk(f)
  /\ Fails

HeaderRefused(f) ==
  /\ pc \in {"header", "discard"}
  /\ Arrives(f) /\ ~HeaderOk(f)
  /\ Fails

(* The connection breaks, the inflater fails or the text is not UTF-8.     *)
Breaks ==
  /\ pc \in {"header", "payload", "discard"}
  /\ Fails
  /\ UNCHANGED <<compress, frames>>

-----------------------------------------------------------------------------
(* frame.Read has returned n bytes, and the switch of FrameReader.Read     *)
(* (lines 57-78) decides what Read returns.                                *)
EveryFrameIsLast == FALSE
MoreFrames == fragmented

TextIsCut(u) == CheckUTF8 /\ opText /\ u = "cut"

ReadReturns(n, rawLeft, heldLeft, pendingLeft, u) ==
  /\ want' = 0
  /\ msg' = [msg EXCEPT
       !.got = @ + n,
       !.mangled = @ \/ (msg.comp /\ frame = "raw" /\ n > 0)]
  /\ \/ /\ rawLeft > 0
        /\ pc' = "idle" /\ last' = "more"
        /\ raw' = rawLeft /\ held' = heldLeft /\ pending' = pendingLeft
        /\ utf8' = u
        /\ UNCHANGED <<msgReader, opText, frame, flateReader, pool>>
     \/ /\ rawLeft = 0 /\ MoreFrames
        /\ pc' = "idle" /\ last' = "more"
        /\ ResetFragment(u)
        /\ UNCHANGED msgReader
     \/ /\ rawLeft = 0 /\ ~MoreFrames /\ TextIsCut(u)
        /\ pc' = "failed" /\ last' = "err"
        /\ raw' = 0 /\ held' = heldLeft /\ pending' = pendingLeft
        /\ utf8' = u
        /\ UNCHANGED <<msgReader, opText, frame, flateReader, pool>>
     \/ /\ rawLeft = 0 /\ ~MoreFrames /\ ~TextIsCut(u)
        /\ pc' = "idle" /\ last' = "eof"
        /\ Reset
        /\ msgReader' = FALSE
  /\ UNCHANGED <<compress, fragmented, refusals, frames, unwanted>>

Least(m, n) == IF m < n THEN m ELSE n

(* The connection gives what it has, at least a byte.                      *)
PayloadRaw(n) ==
  /\ pc = "payload" /\ frame = "raw"
  /\ n <= want /\ n <= raw
  /\ raw > 0 => n > 0
  /\ ReadReturns(n, raw - n, 0, 0,
       IF CheckUTF8 /\ opText /\ n > 0 /\ n = raw THEN msg.text ELSE utf8)

(* The inflater returns what it has pending; with nothing pending, it      *)
(* decodes a window, fetching more than that by `left' bytes.              *)
PayloadFlate(left, u) ==
  LET avail   == held + raw
      decodes == pending = 0
      decoded == IF decodes THEN Least(Window, avail) * Expand ELSE pending
      n       == Least(want, decoded)
      rest    == IF decodes THEN avail - Least(Window, avail) ELSE avail
  IN /\ pc = "payload" /\ frame = "flate"
     /\ left <= rest /\ rest - left <= raw
     /\ ~decodes => left = held
     /\ u = "cut" => opText
     /\ n = decoded /\ rest = 0 => u = msg.text
     /\ ReadReturns(n, rest - left, left, decoded - n, u)

-----------------------------------------------------------------------------
Next ==
  \/ \E n \in BufLens : Call(n)
  \/ \E f \in Frame : HeaderData(f)
  \/ \E f \in Frame : HeaderContinues(f)
  \/ \E f \in Frame : HeaderUnwanted(f)
  \/ \E f \in Frame : DiscardContinues(f)
  \/ \E f \in Frame : ControlBetween(f)
  \/ \E f \in Frame : ControlWithin(f)
  \/ \E f \in Frame : PeerCloses(f)
  \/ \E f \in Frame : HeaderRefused(f)
  \/ Breaks
  \/ \E n \in 0..want : PayloadRaw(n)
  \/ \E left \in 0..Prefetch, u \in {"whole", "cut"} : PayloadFlate(left, u)

Spec == Init /\ [][Next]_vars

-----------------------------------------------------------------------------
(* Properties.                                                             *)

(* Without compression Read keeps the promise of MessageStream: io.EOF     *)
(* comes with the last byte of a message and only then, whatever fragments,*)
(* control frames and short reads the message comes in.                    *)
Stream == INSTANCE MessageStream WITH
  MaxFrame <- MaxFrameSize,
  phase    <- IF compress \/ ~msgReader THEN "between"
              ELSE IF fragmented THEN "part" ELSE "whole",
  arrived  <- IF compress THEN 0 ELSE msg.sent,
  taken    <- IF compress THEN 0 ELSE msg.got,
  over     <- ~compress /\ pc = "failed"

ReadsMessages == Stream!Spec

(* Every flate reader that is taken from the shared pool is put back once, *)
(* and none is kept after the end of the message it inflates.              *)
FlateBorrowed ==
  /\ pool = IF flateReader THEN 1 ELSE 0
  /\ flateReader => msgReader \/ fragmented \/ pc = "failed"

(* Each message of a type the application does not take is refused with    *)
(* one Close frame, after its last frame, and is never what Read returns.  *)
OneRefusalEach ==
  /\ refusals + (IF pc = "discard" THEN 1 ELSE 0) = unwanted \/ pc = "failed"
  /\ refusals <= unwanted

(* A message that is over, refused ones included, leaves nothing behind    *)
(* for the next: no continuation is expected, no decoder holds input or    *)
(* output, the UTF-8 check starts afresh, the pool has its flate reader    *)
(* back, and an unwanted message has been refused, once.                   *)
CleanBetween ==
  /\ ~msgReader /\ pc \in {"idle", "header"} =>
       /\ ~fragmented
       /\ raw = 0 /\ held = 0 /\ pending = 0
       /\ utf8 = "whole"
  /\ FlateBorrowed
  /\ OneRefusalEach

(* Read never meets ErrNoFrameAdvance (transport.go line 207): when the    *)
(* message at hand has no frame, FrameReader is still in the fragmented    *)
(* state and advances by itself.                                           *)
NoFrameAdvance == msgReader /\ frame = "none" => fragmented

(* With CheckUTF8 no text ends in the middle of a character, even when the *)
(* cut falls between two frames (without compression).                     *)
TextEndsWhole ==
  CheckUTF8 /\ ~compress /\ last = "eof" /\ ~msgReader => msg.text = "whole"

(* transport.go line 203: "The error is io.EOF only if all of message      *)
(* bytes were read."                                                       *)
EofMeansWhole == last = "eof" /\ ~msgReader => msg.got = msg.sent

(* transport.go line 201: "It takes care on fragmented messages."          *)
InflatesEveryFragment == ~msg.mangled
==============================================================================
