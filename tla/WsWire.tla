-------------------------------- MODULE WsWire --------------------------------
(***************************************************************************)
(* Do the bytes arrive?  One end of a connection writes messages through   *)
(* compressor, cbuf, mask and header (Write, writeCompress and packHeader  *)
(* in websocket/transport.go, FlateWriter in flate_wrapper.go), the other  *)
(* reads them through header, LimitedReader, CipherReader and              *)
(* suffixedReader (frame_reader.go, cipher_handler.go, flate_wrapper.go),  *)
(* in chunks of any size.  The objects in between are used for one message *)
(* after another.                                                          *)
(*                                                                         *)
(* The bytes are those of WsCodec.  The compressor is external: it writes  *)
(* a block that starts with a byte of its own, and the tail of a flush.    *)
(* Who holds which lock or object is WsWriter's and WsFlate's matter, and  *)
(* how a Read fails WsReader's: here a reader that failed reads no more.   *)
(***************************************************************************)
EXTENDS WsCodec, SequencesExt

CONSTANTS
  Lens,        \* lengths of messages
  HeaderLens,  \* more of them, for headers alone
  Threshold,   \* CompressThreshold
  OpCode,      \* the opcode of this connection's messages
  MaxWrites    \* bound: calls of Write

ASSUME WsWireAssumption ==
  /\ \A n \in HeaderLens : Int64(n)
  /\ \A n \in Lens : Int64(n) /\ Int64(n + 1)
  /\ Threshold \in Nat
  /\ OpCode \in {1, 2}
  /\ MaxWrites \in Nat

VARIABLES
  client,   \* which side writes: a client masks
  deflate,  \* CompressEnabled, and negotiated
  slice,    \* the caller's slice
  filled,   \* history: what the caller put into it
  writes,   \* history: calls of Write so far
  wpc,      \* where Write is: "idle", "deflating" or "flushed"
  todo,     \* what the compressor has still to write to cbuf
  total,    \* history: the compressor's whole output for the message
  cbuf,     \* FlateWriter.cbuf
  out,      \* payloadBuffer: what cbuf has flushed
  werr,     \* FlateWriter.err is set
  wire,     \* bytes on their way
  want,     \* history: messages that Write has sent
  got,      \* history: what Read returned of each message that has ended
  lost,     \* history: what the inflater still held of it at its end
  frame,    \* the frame the reader is in: none, or its header
  raw,      \* raw.N
  cipher,   \* CipherReader: its mask m and its pos
  suffix,   \* suffixedReader.pos
  in        \* what was taken of the frame so far, unmasked

callVars   == <<slice, filled, writes>>
writerVars == <<wpc, todo, total, cbuf, out, werr>>
readerVars == <<got, lost, frame, raw, cipher, suffix, in>>
fixed      == <<client, deflate>>
vars == <<client, deflate, slice, filled, writes, wpc, todo, total, cbuf, out,
          werr, wire, want, got, lost, frame, raw, cipher, suffix, in>>

MaskBytes == (1..MaxWrites) \X (1..4)
Bytes == [v : Nat, k : SUBSET MaskBytes]

(* A byte for byte i of the slice that is filled before call c.            *)
Fresh(c, n) == [i \in 1..n |-> Byte(1000 * c + i)]
Mask(c) == [i \in 1..4 |-> <<c, i>>]
NoMask == <<0, 0, 0, 0>>

NoFrame == [length |-> 0]
InFrame == frame # NoFrame

AreBytes(s) == \A i \in DOMAIN s : s[i] \in Bytes

TypeOK ==
  /\ client \in BOOLEAN /\ deflate \in BOOLEAN
  /\ AreBytes(slice) /\ AreBytes(filled)
  /\ writes \in 0..MaxWrites
  /\ wpc \in {"idle", "deflating", "flushed"}
  /\ AreBytes(todo) /\ AreBytes(total) /\ AreBytes(out) /\ AreBytes(in)
  /\ Len(cbuf.buf) = 4 /\ AreBytes(cbuf.buf) /\ cbuf.n \in 0..4
  /\ werr \in BOOLEAN
  /\ \A i \in DOMAIN want : AreBytes(want[i])
  /\ Len(got) = Len(lost)
  /\ \A i \in DOMAIN got : AreBytes(got[i]) /\ AreBytes(lost[i])
  /\ raw \in 0..frame.length
  /\ cipher.pos \in 0..3
  /\ suffix \in 0..4

Init ==
  /\ client \in BOOLEAN /\ deflate \in BOOLEAN
  /\ slice = <<>> /\ filled = <<>>
  /\ writes = 0
  /\ wpc = "idle"
  /\ todo = <<>> /\ total = <<>> /\ out = <<>>
  /\ cbuf = CbufReset
  /\ werr = FALSE
  /\ wire = <<>>
  /\ want = <<>> /\ got = <<>> /\ lost = <<>>
  /\ frame = NoFrame
  /\ raw = 0
  /\ cipher = [m |-> NoMask, pos |-> 0]
  /\ suffix = 0
  /\ in = <<>>

-----------------------------------------------------------------------------
(* Writing.                                                                *)

(* The caller fills a slice, of a length of its choice; it may pass the    *)
(* same slice to the next Write as well.                                   *)
Fills(n) ==
  /\ wpc = "idle"
  /\ writes < MaxWrites
  /\ slice' = Fresh(writes + 1, n)
  /\ filled' = slice'
  /\ UNCHANGED <<fixed, writes, writerVars, wire, want, readerVars>>

Compresses(p) == deflate /\ Len(p) >= Threshold

Call ==
  /\ wpc = "idle"
  /\ writes < MaxWrites
  /\ writes' = writes + 1

(* xor bytes if client side                                                *)
CipheredAlways(p, c) == FastCipher(p, Mask(c), 0)
Ciphered(p, c) == IF client THEN FastCipher(p, Mask(c), 0) ELSE p

Header(n, compressed, c) ==
  [fin |-> TRUE, compressed |-> compressed, opCode |-> OpCode,
   masked |-> client, length |-> n, mask |-> IF client THEN Mask(c) ELSE <<>>]

(* The header, and the payload behind it.                                  *)
Sends(p, compressed, c) ==
  wire' = wire \o PackHeader(Header(Len(p), compressed, c)) \o p

(* Write without compression masks the caller's bytes where they are.      *)
WritesPlain ==
  /\ Call
  /\ ~Compresses(slice)
  /\ slice' = Ciphered(slice, writes')
  /\ Sends(slice', FALSE, writes')
  /\ want' = Append(want, slice)
  /\ UNCHANGED <<fixed, filled, writerVars, readerVars>>

(* FlateWriter.Reset.                                                      *)
StaleCbuf == [cbuf EXCEPT !.n = 0]
EmptyCbuf == CbufReset

Deflated(p) == <<Byte(1)>> \o p \o CompressionTail

(* writeCompress resets the flate writer and passes it the message.  Of    *)
(* what the compressor should write the last `missing' bytes may be        *)
(* missing.                                                                *)
CompressBegins(missing) ==
  /\ Call
  /\ Compresses(slice)
  /\ missing <= Len(Deflated(slice))
  /\ cbuf' = EmptyCbuf
  /\ werr' = FALSE
  /\ out' = <<>>
  /\ total' = SubSeq(Deflated(slice), 1, Len(Deflated(slice)) - missing)
  /\ todo' = total'
  /\ wpc' = "deflating"
  /\ UNCHANGED <<fixed, slice, filled, wire, want, readerVars>>

(* The compressor writes to cbuf.                                          *)
CompressorWrites(n) ==
  /\ wpc = "deflating"
  /\ n \in 1..Len(todo)
  /\ cbuf' = CbufWrite(cbuf, SubSeq(todo, 1, n))
  /\ out' = out \o CbufFlushes(cbuf, SubSeq(todo, 1, n))
  /\ todo' = SubSeq(todo, n + 1, Len(todo))
  /\ UNCHANGED <<fixed, callVars, wpc, total, werr, wire, want, readerVars>>

(* FlateWriter.Flush, checkTail included.                                  *)
Flushes ==
  /\ wpc = "deflating"
  /\ todo = <<>>
  /\ werr' = (werr \/ ~CheckTail(cbuf))
  /\ wpc' = "flushed"
  /\ UNCHANGED <<fixed, callVars, todo, total, cbuf, out, wire, want, readerVars>>

(* What cbuf has flushed goes out, masked where it is, and nothing if an   *)
(* error was met.                                                          *)
WritesCompressed ==
  /\ wpc = "flushed"
  /\ wpc' = "idle"
  /\ IF werr
       THEN UNCHANGED <<out, wire, want>>
       ELSE /\ out' = Ciphered(out, writes)
            /\ Sends(out', TRUE, writes)
            /\ want' = Append(want, slice)
  /\ UNCHANGED <<fixed, callVars, todo, total, cbuf, werr, readerVars>>

-----------------------------------------------------------------------------
(* Reading.                                                                *)

PosKept == cipher.pos
PosAtStart == 0

(* NextFrame: the header, the reader's parts reset for the frame.          *)
NextFrame ==
  /\ ~InFrame
  /\ wire # <<>>
  /\ ~MSBSet(wire)
  /\ frame' = ReadHeader(wire)
  /\ wire' = SubSeq(wire, HeaderSize(wire) + 1, Len(wire))
  /\ raw' = frame'.length
  /\ cipher' = IF frame'.masked THEN [m |-> frame'.mask, pos |-> PosAtStart]
               ELSE cipher
  /\ suffix' = IF frame'.compressed THEN 0 ELSE suffix
  /\ in' = <<>>
  /\ UNCHANGED <<fixed, callVars, writerVars, want, got, lost>>

(* CipherReader.Read, or that of the LimitedReader below it.               *)
Chunk(n) ==
  IF frame.masked THEN FastCipher(SubSeq(wire, 1, n), cipher.m, cipher.pos)
  ELSE SubSeq(wire, 1, n)

AdvanceUnwrapped(n) == cipher.pos + n
Advance(n) == (cipher.pos + n) % 4

ReadsChunk(n) ==
  /\ InFrame
  /\ n \in 1..raw
  /\ in' = in \o Chunk(n)
  /\ cipher' = IF frame.masked THEN [cipher EXCEPT !.pos = Advance(n)]
               ELSE cipher
  /\ raw' = raw - n
  /\ wire' = SubSeq(wire, n + 1, Len(wire))
  /\ UNCHANGED <<fixed, callVars, writerVars, want, got, lost, frame, suffix>>

(* suffixedReader goes on with the tail that cbuf has cut off.             *)
ReadsSuffix(n) ==
  /\ InFrame
  /\ frame.compressed
  /\ raw = 0
  /\ n \in 1..4 - suffix
  /\ in' = in \o SubSeq(CompressionTail, suffix + 1, suffix + n)
  /\ suffix' = suffix + n
  /\ UNCHANGED <<fixed, callVars, writerVars, wire, want, got, lost, frame, raw, cipher>>

Inflated(s) ==
  IF /\ s # <<>> /\ Head(s) = Byte(1)
     /\ IsSuffix(CompressionTail, Tail(s))
    THEN SubSeq(s, 2, Len(s) - 4)
    ELSE <<Byte(2)>>

(* The message is over: FrameReader.reset.                                 *)
Ends(read, unread) ==
  /\ got' = Append(got, read)
  /\ lost' = Append(lost, unread)
  /\ frame' = NoFrame
  /\ cipher' = [m |-> NoMask, pos |-> PosAtStart]
  /\ suffix' = IF frame.compressed THEN 0 ELSE suffix
  /\ in' = <<>>
  /\ UNCHANGED <<fixed, callVars, writerVars, wire, want, raw>>

(* The Read that takes the last byte of an uncompressed frame.             *)
PlainEnds ==
  /\ InFrame /\ ~frame.compressed
  /\ raw = 0
  /\ Ends(in, <<>>)

(* A compressed message ends with the first Read that leaves raw.N at 0    *)
(* (frame_reader.go, line 61), whatever the inflater has then returned:    *)
(* n bytes, with those of the Reads before it.  What is pending in it and  *)
(* in suffixedReader goes.  An inflater with nothing to return fails.      *)
Output == Inflated(in \o SubSeq(CompressionTail, suffix + 1, 4))

CompressedEnds(n) ==
  /\ InFrame /\ frame.compressed
  /\ raw = 0
  /\ n \in 1..Len(Output)
  /\ Ends(SubSeq(Output, 1, n), SubSeq(Output, n + 1, Len(Output)))

-----------------------------------------------------------------------------
Next ==
  \/ \E n \in Lens : Fills(n)
  \/ WritesPlain
  \/ \E missing \in {0, 1, 4, 5, Len(Deflated(slice))} : CompressBegins(missing)
  \/ \E n \in 1..Len(todo) : CompressorWrites(n)
  \/ Flushes
  \/ WritesCompressed
  \/ NextFrame
  \/ \E n \in 1..raw : ReadsChunk(n)
  \/ \E n \in 1..4 : ReadsSuffix(n)
  \/ PlainEnds
  \/ \E n \in 1..Len(Output) : CompressedEnds(n)

Spec == Init /\ [][Next]_vars

-----------------------------------------------------------------------------
(* Properties.                                                             *)

(* The messages arrive one for one and in order; what Read returned of one *)
(* and what the inflater held at its end make up what was written, byte    *)
(* for byte: whatever the pieces the compressor and the reader work in,    *)
(* and whatever the message before has left in cbuf, CipherReader and      *)
(* suffixedReader.  Only a compressed message can lose its end, and then   *)
(* to an inflater that was not emptied; an uncompressed one never does.    *)
SameStream ==
  /\ Len(got) = Len(lost) /\ Len(got) <= Len(want)
  /\ \A i \in DOMAIN got :
       /\ got[i] \o lost[i] = want[i]
       /\ lost[i] # <<>> => Compresses(want[i])
  /\ wire = <<>> /\ ~InFrame => Len(got) = Len(want)

(* FlateWriter.Flush refuses a message exactly if the compressor's output  *)
(* for this message does not end in 00 00 ff ff; an output shorter than    *)
(* four bytes, and an error or a tail of the message before, included.     *)
TailDecides == wpc = "flushed" => (werr <=> ~IsSuffix(CompressionTail, total))

(* Write leaves the caller's slice as it was, but for the one case of a    *)
(* client's uncompressed message (transport.go, line 272): there the slice *)
(* is masked, and a second Write of it sends the masked bytes.             *)
SliceKept == slice = filled \/ (client /\ ~Compresses(slice))

(* What a length needs, of the three forms a header has for it.            *)
LeastSize(n) == CASE n < 126                -> 2
                  [] 126 <= n /\ n < 65536 -> 4
                  [] n >= 65536             -> 10

(* A header that packHeader makes is read back by ReadHeader as it was,    *)
(* exactly its bytes are read, and it is no longer than it has to be, at   *)
(* every boundary of the length.                                           *)
HeaderSurvives ==
  \A n \in HeaderLens, compressed \in BOOLEAN :
    LET h == Header(n, compressed, 1)
        bts == PackHeader(h)
    IN  /\ ~MSBSet(bts)
        /\ ReadHeader(bts \o bts) = h
        /\ HeaderSize(bts) = Len(bts)
        /\ Len(bts) = Bit(client, 4) + LeastSize(n)
==============================================================================
