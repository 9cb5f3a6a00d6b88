------------------------------- MODULE WsCodec -------------------------------
(***************************************************************************)
(* What a websocket connection does to bytes: masking (FastCipher in       *)
(* internal/wsutils/cipher_handler.go), the frame header (packHeader in    *)
(* transport.go, ReadHeader in internal/wsutils/frame_reader.go), and the  *)
(* buffer that keeps the last four bytes of the compressor's output (cbuf  *)
(* in internal/wsutils/flate_wrapper.go).                                  *)
(*                                                                         *)
(* Operators only.  A byte of a payload is a record: its value v, and the  *)
(* set k of the mask bytes it has been XORed with.  A byte of a header is  *)
(* a number, but for the four mask bytes, which can be anything.           *)
(***************************************************************************)
EXTENDS Integers, Sequences

Least(a, b) == IF a < b THEN a ELSE b
Most(a, b) == IF a < b THEN b ELSE a

Byte(v) == [v |-> v, k |-> {}]

(* XOR with a mask byte; a second time undoes it.                          *)
Xor(b, m) == [b EXCEPT !.k = (@ \ {m}) \cup ({m} \ @)]

-----------------------------------------------------------------------------
(* Masking.  FastCipher goes byte by byte up to a multiple of four, then   *)
(* by blocks of four with mask[0..3], then byte by byte again.             *)

ToAlign(off) == (4 - (off % 4)) % 4
HeadLen(len, off) == Least(len, ToAlign(off))
BlocksLen(len, off) == 4 * ((len - HeadLen(len, off)) \div 4)

(* Which byte of the mask falls on byte i of len, starting at offset off.  *)
(* The loop over blocks does not advance off, it need not.                 *)
KeyIndex(len, off, i) ==
  LET head == HeadLen(len, off)
      tail == head + BlocksLen(len, off)
  IN  IF i < head THEN (off + i) % 4
      ELSE IF i < tail THEN (i - head) % 4
      ELSE (off + head + (i - tail)) % 4

(* mask is a sequence of four.                                             *)
FastCipher(p, mask, off) ==
  [j \in 1..Len(p) |-> Xor(p[j], mask[KeyIndex(Len(p), off, j - 1) + 1])]

-----------------------------------------------------------------------------
(* The header of a frame.                                                  *)

len7 == 125
len16 == 65535

(* Words of 16 bits, the least significant first.                          *)
Word0(n) == n % 65536
Word1(n) == (n \div 65536) % 65536
Word2(n) == ((n \div 65536) \div 65536) % 65536
Word3(n) == ((n \div 65536) \div 65536) \div 65536

(* A length that an int64 can hold (len64): its top word is.               *)
Int64(n) == n \in Nat /\ Word3(n) < 32768

PutUint16(w) == <<w \div 256, w % 256>>
PutUint64(n) == PutUint16(Word3(n)) \o PutUint16(Word2(n))
                  \o PutUint16(Word1(n)) \o PutUint16(Word0(n))
Uint16(b) == 256 * b[1] + b[2]
Uint64(b) ==
  ((Uint16(SubSeq(b, 1, 2)) * 65536 + Uint16(SubSeq(b, 3, 4))) * 65536
     + Uint16(SubSeq(b, 5, 6))) * 65536 + Uint16(SubSeq(b, 7, 8))

(* The byte for the length, and what follows it.                           *)
FitsByteWide(n) == n <= len7 + 1
FitsByte(n) == n <= len7
LenBytes(n) ==
  CASE FitsByte(n)                  -> <<n>>
    [] ~FitsByte(n) /\ n <= len16   -> <<126>> \o PutUint16(n)
    [] ~FitsByte(n) /\ n > len16    -> <<127>> \o PutUint64(n)

Bit(set, value) == IF set THEN value ELSE 0

(* packHeader, for a length that an int64 can hold.                        *)
PackHeader(h) ==
  LET l == LenBytes(h.length)
  IN  <<h.opCode + Bit(h.fin, 128) + Bit(h.compressed, 64),
        l[1] + Bit(h.masked, 128)>>
        \o Tail(l) \o h.mask

(* Bytes that ReadHeader reads after the first two.                        *)
Extra(b2) ==
  Bit(b2 >= 128, 4) + Bit((b2 % 128) = 126, 2) + Bit((b2 % 128) = 127, 8)
HeaderSize(bts) == 2 + Extra(bts[2])

MSBSet(bts) == bts[2] % 128 = 127 /\ bts[3] >= 128

LengthIn(bts) ==
  CASE bts[2] % 128 < 126 -> bts[2] % 128
    [] bts[2] % 128 = 126 -> Uint16(SubSeq(bts, 3, 4))
    [] bts[2] % 128 = 127 -> Uint64(SubSeq(bts, 3, 10))

(* ReadHeader, when all bytes of the header are there and ~MSBSet.  Of the  *)
(* three reserved bits only RSV1 is told.                                  *)
ReadHeader(bts) ==
  [fin |-> bts[1] >= 128,
   compressed |-> (bts[1] \div 64) % 2 = 1,
   opCode |-> bts[1] % 16,
   masked |-> bts[2] >= 128,
   length |-> LengthIn(bts),
   mask |-> SubSeq(bts, HeaderSize(bts) - Bit(bts[2] >= 128, 4) + 1,
                   HeaderSize(bts))]

-----------------------------------------------------------------------------
(* cbuf keeps the last four bytes that were written to it and flushes the  *)
(* others.  buf is an array: where nothing was written yet it is zero.     *)

Zero == Byte(0)
CompressionTail == <<Zero, Zero, Byte(255), Byte(255)>>
CbufReset == [buf |-> <<Zero, Zero, Zero, Zero>>, n |-> 0]

(* cbuf.split.                                                             *)
SplitHead(p) == SubSeq(p, 1, Len(p) - 4)
SplitTail(p) == SubSeq(p, Most(Len(p) - 4, 0) + 1, Len(p))

(* How many of the kept bytes have to leave for the tail of p.             *)
Leaving(c, p) == Most(c.n + Len(SplitTail(p)) - 4, 0)

CbufFlushes(c, p) == SubSeq(c.buf, 1, Leaving(c, p)) \o SplitHead(p)

(* The two copies of cbuf.Write: to the front of the array, and behind.    *)
CbufWrite(c, p) ==
  LET x == Leaving(c, p)
      moved == SubSeq(c.buf, x + 1, 4) \o SubSeq(c.buf, 5 - x, 4)
      n == c.n - x
      tail == SplitTail(p)
  IN  [buf |-> SubSeq(moved, 1, n) \o tail \o SubSeq(moved, n + Len(tail) + 1, 4),
       n |-> Least(n + Len(tail), 4)]

CheckTail(c) == c.buf = CompressionTail
==============================================================================
