----------------------------- MODULE WsWireProofs -----------------------------
(***************************************************************************)
(* What the operators of WsCodec do, and what WsWire promises, for         *)
(* messages of any number and any length that an int64 can hold, in pieces *)
(* of any size.                                                            *)
(*                                                                         *)
(* The invariant has two halves.  WInv is about the writing side: what     *)
(* cbuf has flushed, what it keeps and what is still to come are the       *)
(* compressor's output.  RInv is about the reading side: all bytes that    *)
(* were ever sent are a row of frames, one for each message, and the       *)
(* reader is either between two of them or, in one of them, where raw,     *)
(* CipherReader and suffixedReader say it is.                              *)
(***************************************************************************)
EXTENDS WsWire, TLAPS

-----------------------------------------------------------------------------
(* Facts about the operators of WsCodec, for every length and offset.      *)

(* Bytes of a payload with values of V, masked with mask bytes of M.       *)
BytesOf(V, M) == [v : V, k : SUBSET M]

(* The loop over blocks and the two loops around it agree with masking     *)
(* byte by byte: whatever the length and the offset, byte i meets mask     *)
(* byte (off + i) mod 4 (FastCipher, cipher_handler.go lines 40-59).       *)
THEOREM KeyIndexIsOffset ==
  ASSUME NEW len \in Nat, NEW off \in Nat, NEW i \in 0..(len - 1)
  PROVE  KeyIndex(len, off, i) = (off + i) % 4
<1> DEFINE head == HeadLen(len, off)
<1> DEFINE tail == head + BlocksLen(len, off)
<1>1. /\ head \in Nat /\ head <= len
      /\ head < len => (off + head) % 4 = 0
  BY SMT DEF HeadLen, ToAlign, Least
<1>2. /\ tail \in Nat /\ head <= tail
      /\ (tail - head) % 4 = 0
      /\ tail > head => head < len
  BY <1>1, SMT DEF BlocksLen
<1>3. KeyIndex(len, off, i) = IF i < head THEN (off + i) % 4
                              ELSE IF i < tail THEN (i - head) % 4
                              ELSE (off + head + (i - tail)) % 4
  BY DEF KeyIndex
<1> HIDE DEF head, tail
<1>4. CASE i < head
  BY <1>3, <1>4
<1>5. CASE ~(i < head) /\ i < tail
  <2>1. (off + head) % 4 = 0
    BY <1>1, <1>2, <1>5, SMT
  <2>2. (i - head) % 4 = (off + i) % 4
    BY <1>1, <1>5, <2>1, SMT
  <2> QED
    BY <1>3, <1>5, <2>2
<1>6. CASE ~(i < head) /\ ~(i < tail)
  <2>1. head < len
    BY <1>1, <1>6, SMT
  <2>2. (off + head + (i - tail)) % 4 = (off + i) % 4
    BY <1>1, <1>2, <1>6, <2>1, SMT
  <2>3. KeyIndex(len, off, i) = (off + head + (i - tail)) % 4
    BY <1>3, <1>6
  <2> QED
    BY <2>2, <2>3
<1> QED
  BY <1>4, <1>5, <1>6

-----------------------------------------------------------------------------
(* XORing a byte with a mask byte, as the loops of FastCipher do, gives a  *)
(* byte again, and doing it twice gives the byte back.                     *)
LEMMA XorType ==
  ASSUME NEW V, NEW M, NEW b \in BytesOf(V, M), NEW m \in M
  PROVE  /\ Xor(b, m) \in BytesOf(V, M)
         /\ Xor(Xor(b, m), m) = b
  BY DEF Xor, BytesOf

(* What FastCipher comes to: every byte is XORed once, with the mask byte  *)
(* that its position calls for, and the length stays.                      *)
LEMMA ByteByByte ==
  ASSUME NEW V, NEW M, NEW p \in Seq(BytesOf(V, M)),
         NEW mask \in [1..4 -> M], NEW off \in Nat
  PROVE  /\ FastCipher(p, mask, off) \in Seq(BytesOf(V, M))
         /\ Len(FastCipher(p, mask, off)) = Len(p)
         /\ \A j \in 1..Len(p) :
              FastCipher(p, mask, off)[j] = Xor(p[j], mask[((off + (j - 1)) % 4) + 1])
<1>1. Len(p) \in Nat /\ \A j \in 1..Len(p) : p[j] \in BytesOf(V, M)
  OBVIOUS
<1>2. FastCipher(p, mask, off) =
        [j \in 1..Len(p) |-> Xor(p[j], mask[KeyIndex(Len(p), off, j - 1) + 1])]
  BY DEF FastCipher
<1>3. ASSUME NEW j \in 1..Len(p)
      PROVE  /\ KeyIndex(Len(p), off, j - 1) = (off + (j - 1)) % 4
             /\ mask[KeyIndex(Len(p), off, j - 1) + 1] \in M
  <2>1. j - 1 \in 0..(Len(p) - 1)
    BY <1>1
  <2>2. KeyIndex(Len(p), off, j - 1) = (off + (j - 1)) % 4
    BY <2>1, <1>1, KeyIndexIsOffset
  <2>3. ((off + (j - 1)) % 4) + 1 \in 1..4
    BY <2>1, <1>1
  <2> QED
    BY <2>2, <2>3
<1>4. ASSUME NEW j \in 1..Len(p)
      PROVE  Xor(p[j], mask[KeyIndex(Len(p), off, j - 1) + 1]) \in BytesOf(V, M)
  BY <1>1, <1>3, XorType
<1>5. FastCipher(p, mask, off) \in Seq(BytesOf(V, M))
  BY <1>1, <1>2, <1>4
<1>6. Len(FastCipher(p, mask, off)) = Len(p)
  BY <1>1, <1>2
<1> QED
  BY <1>2, <1>3, <1>5, <1>6

(* The reader's FastCipher undoes the writer's (transport.go line 272 and  *)
(* cipher_handler.go line 33): the same mask from the same offset.         *)
THEOREM CipherTwiceIsNone ==
  ASSUME NEW V, NEW M, NEW p \in Seq(BytesOf(V, M)),
         NEW mask \in [1..4 -> M], NEW off \in Nat
  PROVE  FastCipher(FastCipher(p, mask, off), mask, off) = p
<1> DEFINE q == FastCipher(p, mask, off)
<1> DEFINE r == FastCipher(q, mask, off)
<1>1. q \in Seq(BytesOf(V, M)) /\ Len(q) = Len(p)
  BY ByteByByte
<1>2. \A j \in 1..Len(p) : q[j] = Xor(p[j], mask[((off + (j - 1)) % 4) + 1])
  BY ByteByByte
<1> HIDE DEF q
<1>3. r \in Seq(BytesOf(V, M)) /\ Len(r) = Len(p)
  BY <1>1, ByteByByte
<1>4. \A j \in 1..Len(p) : r[j] = Xor(q[j], mask[((off + (j - 1)) % 4) + 1])
  BY <1>1, ByteByByte
<1> HIDE DEF r
<1>5. ASSUME NEW j \in 1..Len(p)
      PROVE  r[j] = p[j]
  <2>1. mask[((off + (j - 1)) % 4) + 1] \in M
    BY SMT
  <2>2. p[j] \in BytesOf(V, M)
    OBVIOUS
  <2> QED
    BY <1>2, <1>4, <2>1, <2>2, XorType
<1>6. r = p
  BY <1>3, <1>5
<1> QED
  BY <1>6 DEF r, q

(* CipherReader may read a frame in chunks of any size: masking the second *)
(* chunk from the position the first one has left, modulo 4, is masking    *)
(* both at once (cipher_handler.go lines 30-37).                           *)
THEOREM CipherInChunks ==
  ASSUME NEW V, NEW M, NEW p \in Seq(BytesOf(V, M)),
         NEW q \in Seq(BytesOf(V, M)),
         NEW mask \in [1..4 -> M], NEW pos \in Nat
  PROVE  FastCipher(p \o q, mask, pos) =
           FastCipher(p, mask, pos) \o FastCipher(q, mask, (pos + Len(p)) % 4)
<1> DEFINE pq == p \o q
<1> DEFINE next == (pos + Len(p)) % 4
<1>1. /\ Len(p) \in Nat /\ Len(q) \in Nat /\ next \in Nat
      /\ pq \in Seq(BytesOf(V, M))
      /\ Len(pq) = Len(p) + Len(q)
      /\ \A j \in 1..Len(p) : pq[j] = p[j]
      /\ \A i \in 1..Len(q) : pq[Len(p) + i] = q[i]
  OBVIOUS
<1>2. ASSUME NEW i \in 1..Len(q)
      PROVE  (next + (i - 1)) % 4 = (pos + (Len(p) + i - 1)) % 4
  BY <1>1, SMT
<1> DEFINE a == FastCipher(p, mask, pos)
<1> DEFINE b == FastCipher(q, mask, next)
<1> DEFINE c == FastCipher(pq, mask, pos)
<1> DEFINE ab == a \o b
<1> HIDE DEF pq
<1> HIDE DEF next
<1>3. /\ a \in Seq(BytesOf(V, M)) /\ Len(a) = Len(p)
      /\ \A j \in 1..Len(p) : a[j] = Xor(p[j], mask[((pos + (j - 1)) % 4) + 1])
  BY ByteByByte
<1>4. /\ b \in Seq(BytesOf(V, M)) /\ Len(b) = Len(q)
      /\ \A j \in 1..Len(q) : b[j] = Xor(q[j], mask[((next + (j - 1)) % 4) + 1])
  <2>1. next \in Nat
    BY <1>1
  <2> QED
    BY <2>1, ByteByByte
<1>5. /\ c \in Seq(BytesOf(V, M)) /\ Len(c) = Len(p) + Len(q)
      /\ \A j \in 1..Len(pq) : c[j] = Xor(pq[j], mask[((pos + (j - 1)) % 4) + 1])
  <2>1. pq \in Seq(BytesOf(V, M)) /\ Len(pq) = Len(p) + Len(q)
    BY <1>1
  <2> QED
    BY <2>1, ByteByByte
<1> HIDE DEF a, b, c
<1>6. /\ ab \in Seq(BytesOf(V, M)) /\ Len(ab) = Len(p) + Len(q)
      /\ \A j \in 1..Len(p) : ab[j] = a[j]
      /\ \A i \in 1..Len(q) : ab[Len(p) + i] = b[i]
  BY <1>3, <1>4, SMTT(40)
<1> HIDE DEF ab
<1>7. ASSUME NEW j \in 1..(Len(p) + Len(q))
      PROVE  c[j] = ab[j]
  <2>1. CASE j <= Len(p)
    BY <2>1, <1>1, <1>3, <1>5, <1>6
  <2>2. CASE j > Len(p)
    <3>1. PICK i \in 1..Len(q) : j = Len(p) + i
      <4>1. j - Len(p) \in 1..Len(q) /\ j = Len(p) + (j - Len(p))
        BY <2>2, <1>1
      <4> QED
        BY <4>1
    <3>2. ab[j] = Xor(q[i], mask[((next + (i - 1)) % 4) + 1])
      BY <3>1, <1>4, <1>6
    <3>3. c[j] = Xor(q[i], mask[((pos + (Len(p) + i - 1)) % 4) + 1])
      BY <3>1, <1>1, <1>5, SMTT(40)
    <3> QED
      BY <3>2, <3>3, <1>2
  <2> QED
    BY <2>1, <2>2, <1>1
<1>8. c = ab
  BY <1>1, <1>5, <1>6, <1>7
<1> QED
  BY <1>8 DEF a, b, c, ab, pq, next

-----------------------------------------------------------------------------
(* The header of a frame (packHeader in transport.go, ReadHeader in        *)
(* frame_reader.go).                                                       *)

(* The headers that packHeader is called for, with mask bytes of M.        *)
HeadersOf(M) ==
  {h \in [fin : BOOLEAN, compressed : BOOLEAN, opCode : 0..15,
          masked : BOOLEAN, length : Nat, mask : Seq(M)] :
     Int64(h.length) /\ Len(h.mask) = Bit(h.masked, 4)}

(* The bytes of s stand in t behind the first d.                           *)
StandsAt(t, d, s) ==
  d + Len(s) <= Len(t) /\ \A j \in 1..Len(s) : t[d + j] = s[j]

(* A number is its lowest word and what is above it.                       *)
Short == {w \in Nat : w < 65536}
Hi(n) == n \div 65536
Lo(n) == n % 65536
Join(a, r) == a * 65536 + r

LEMMA LowWord ==
  ASSUME NEW n \in Nat
  PROVE  Hi(n) \in Nat /\ Lo(n) \in Short /\ n = Join(Hi(n), Lo(n))
<1>1. Hi(n) \in Nat
    BY SMT DEF Hi
<1>2. Lo(n) \in Short
    BY SMT DEF Lo, Short
<1>3. n = Join(Hi(n), Lo(n))
    BY SMT DEF Hi, Lo, Join
<1>4. QED
    BY <1>1, <1>2, <1>3, Zenon

LEMMA Words ==
  ASSUME NEW n \in Nat
  PROVE  /\ Word0(n) \in Short /\ Word1(n) \in Short
         /\ Word2(n) \in Short /\ Word3(n) \in Nat
         /\ n = Join(Join(Join(Word3(n), Word2(n)), Word1(n)), Word0(n))
<1>1. /\ Word0(n) = Lo(n) /\ Word1(n) = Lo(Hi(n))
      /\ Word2(n) = Lo(Hi(Hi(n))) /\ Word3(n) = Hi(Hi(Hi(n)))
    BY SMT DEF Word0, Word1, Word2, Word3, Hi, Lo
<1>2. Hi(n) \in Nat /\ Lo(n) \in Short /\ n = Join(Hi(n), Lo(n))
    BY LowWord, Zenon
<1>3. /\ Hi(Hi(n)) \in Nat /\ Lo(Hi(n)) \in Short
      /\ Hi(n) = Join(Hi(Hi(n)), Lo(Hi(n)))
    BY <1>2, LowWord, Zenon
<1>4. /\ Hi(Hi(Hi(n))) \in Nat /\ Lo(Hi(Hi(n))) \in Short
      /\ Hi(Hi(n)) = Join(Hi(Hi(Hi(n))), Lo(Hi(Hi(n))))
    BY <1>3, LowWord, Zenon
<1>5. QED
    BY <1>1, <1>2, <1>3, <1>4, Zenon

LEMMA ShortIsNat == \A w \in Short : w \in Nat
  BY SMT DEF Short

LEMMA BytesOfWord ==
  ASSUME NEW w \in Nat PROVE w \div 256 \in Nat /\ w % 256 \in Nat
  BY SMT

(* Reading two bytes gives the word that was put.                          *)
IsWord(w, x, y) == x = w \div 256 /\ y = w % 256

LEMMA Uint16Back ==
  ASSUME NEW w \in Short, NEW b, IsWord(w, b[1], b[2])
  PROVE  Uint16(b) = w
<1>1. 256 * (w \div 256) + (w % 256) = w
    BY SMT DEF Short
<1>2. QED
    BY <1>1 DEF Uint16, IsWord

(* The bytes of a header, for each of the three forms of its length.       *)
LEMMA ShortHead ==
  ASSUME NEW S, NEW a \in S, NEW b \in S, NEW z \in S, NEW m \in Seq(S)
  PROVE  LET x == (<<a, b>> \o Tail(<<z>>)) \o m
         IN  /\ x \in Seq(S) /\ Len(x) = 2 + Len(m)
             /\ x[1] = a /\ x[2] = b
             /\ \A i \in 1..Len(m) : x[2 + i] = m[i]
  BY SMT

LEMMA MiddleHead ==
  ASSUME NEW S, NEW a \in S, NEW b \in S, NEW z \in S, NEW m \in Seq(S),
         NEW c \in S, NEW d \in S
  PROVE  LET x == (<<a, b>> \o Tail(<<z>> \o <<c, d>>)) \o m
         IN  /\ x \in Seq(S) /\ Len(x) = 4 + Len(m)
             /\ x[1] = a /\ x[2] = b /\ x[3] = c /\ x[4] = d
             /\ \A i \in 1..Len(m) : x[4 + i] = m[i]
  BY SMT

LEMMA LongHead ==
  ASSUME NEW S, NEW a \in S, NEW b \in S, NEW z \in S, NEW m \in Seq(S),
         NEW p \in S, NEW q \in S, NEW r \in S, NEW s \in S,
         NEW t \in S, NEW u \in S, NEW v \in S, NEW w \in S
  PROVE  LET x == (<<a, b>> \o Tail(<<z>> \o
                     (((<<p, q>> \o <<r, s>>) \o <<t, u>>) \o <<v, w>>))) \o m
         IN  /\ x \in Seq(S) /\ Len(x) = 10 + Len(m)
             /\ x[1] = a /\ x[2] = b
             /\ x[3] = p /\ x[4] = q /\ x[5] = r /\ x[6] = s
             /\ x[7] = t /\ x[8] = u /\ x[9] = v /\ x[10] = w
             /\ \A i \in 1..Len(m) : x[10 + i] = m[i]
  BY SMTT(60)

(* What is told by the bits of the first two bytes.                        *)
LEMMA FirstByte ==
  ASSUME NEW o \in 0..15, NEW f \in BOOLEAN, NEW c \in BOOLEAN
  PROVE  o + Bit(f, 128) + Bit(c, 64) \in Nat
<1>1. CASE f /\ c
    BY <1>1, SMT DEF Bit
<1>2. CASE f /\ ~c
    BY <1>2, SMT DEF Bit
<1>3. CASE ~f /\ c
    BY <1>3, SMT DEF Bit
<1>4. CASE ~f /\ ~c
    BY <1>4, SMT DEF Bit
<1>5. QED
    BY <1>1, <1>2, <1>3, <1>4

LEMMA SecondByte ==
  ASSUME NEW l \in 0..127, NEW mk \in BOOLEAN
  PROVE  /\ l + Bit(mk, 128) \in Nat
         /\ l + Bit(mk, 128) >= 128 <=> mk
         /\ (l + Bit(mk, 128)) % 128 = l
<1>1. CASE mk
    BY <1>1, SMT DEF Bit
<1>2. CASE ~mk
    BY <1>2, SMT DEF Bit
<1>3. QED
    BY <1>1, <1>2

(* The byte for the length and what follows it.                            *)
LEMMA LenBytesAre ==
  ASSUME NEW n, Int64(n)
  PROVE  /\ n <= 125 => LenBytes(n) = <<n>>
         /\ n > 125 /\ n <= 65535 => LenBytes(n) = <<126>> \o PutUint16(n)
         /\ n > 65535 => LenBytes(n) = <<127>> \o PutUint64(n)
  BY DEF Int64, LenBytes, FitsByte, len7, len16

(* Bytes behind the first two, mask aside, and what the second one says.   *)
Ext(n) == IF n <= 125 THEN 0 ELSE IF n <= 65535 THEN 2 ELSE 8
Code(n) == IF n <= 125 THEN n ELSE IF n <= 65535 THEN 126 ELSE 127

First(h) == h.opCode + Bit(h.fin, 128) + Bit(h.compressed, 64)
Second(h) == Code(h.length) + Bit(h.masked, 128)

LEMMA CodeIsByte ==
  ASSUME NEW n \in Nat
  PROVE  /\ Code(n) \in 0..127
         /\ Ext(n) = Bit(Code(n) = 126, 2) + Bit(Code(n) = 127, 8)
         /\ Ext(n) \in {0, 2, 8}
         /\ Code(n) < 126 \/ Code(n) = 126 \/ Code(n) = 127
         /\ Code(n) < 126 => n = Code(n)
         /\ Code(n) = 126 => n \in Short
  BY SMT DEF Code, Ext, Bit, Short

LEMMA HeaderBytes ==
  ASSUME NEW M, NEW h \in HeadersOf(M)
  PROVE  /\ PackHeader(h) \in Seq(Nat \cup M)
         /\ Len(PackHeader(h)) = 2 + Ext(h.length) + Len(h.mask)
         /\ PackHeader(h)[1] = First(h)
         /\ PackHeader(h)[2] = Second(h)
         /\ Code(h.length) = 126 =>
              IsWord(h.length, PackHeader(h)[3], PackHeader(h)[4])
         /\ Code(h.length) = 127 =>
              /\ IsWord(Word3(h.length), PackHeader(h)[3], PackHeader(h)[4])
              /\ IsWord(Word2(h.length), PackHeader(h)[5], PackHeader(h)[6])
              /\ IsWord(Word1(h.length), PackHeader(h)[7], PackHeader(h)[8])
              /\ IsWord(Word0(h.length), PackHeader(h)[9], PackHeader(h)[10])
         /\ \A i \in 1..Len(h.mask) :
              PackHeader(h)[2 + Ext(h.length) + i] = h.mask[i]
<1> DEFINE S == Nat \cup M
<1> PICK n \in Nat : n = h.length
    BY DEF HeadersOf
<1>1. /\ h.opCode \in 0..15 /\ h.fin \in BOOLEAN /\ h.compressed \in BOOLEAN
      /\ h.masked \in BOOLEAN /\ h.mask \in Seq(M) /\ Int64(n)
    BY DEF HeadersOf
<1>2. First(h) \in S
  <2>1. PICK o \in 0..15, f \in BOOLEAN, c \in BOOLEAN :
          o = h.opCode /\ f = h.fin /\ c = h.compressed
      BY <1>1
  <2>2. o + Bit(f, 128) + Bit(c, 64) \in Nat
      BY FirstByte
  <2>3. First(h) = o + Bit(f, 128) + Bit(c, 64)
      BY <2>1 DEF First
  <2>4. QED
      BY <2>2, <2>3
<1>3. Second(h) \in S
    BY <1>1, CodeIsByte, SecondByte, ZenonT(40) DEF Second
<1>4. h.mask \in Seq(S)
    BY <1>1
<1>5. n \in S /\ 126 \in S /\ 127 \in S
    OBVIOUS
<1>6. n \div 256 \in S /\ n % 256 \in S
    BY BytesOfWord
<1>7. /\ Word3(n) \div 256 \in S /\ Word3(n) % 256 \in S
      /\ Word2(n) \div 256 \in S /\ Word2(n) % 256 \in S
      /\ Word1(n) \div 256 \in S /\ Word1(n) % 256 \in S
      /\ Word0(n) \div 256 \in S /\ Word0(n) % 256 \in S
    BY Words, ShortIsNat, BytesOfWord, ZenonT(40)
<1> HIDE DEF S
<1>a. CASE n <= 125
  <2>1. Code(n) = n /\ Ext(n) = 0
      BY <1>a DEF Code, Ext
  <2>2. LenBytes(n) = <<n>>
      BY <1>1, <1>a, LenBytesAre
  <2>3. PackHeader(h) = (<<First(h), Second(h)>> \o Tail(<<n>>)) \o h.mask
    <3>1. <<n>>[1] = n
        OBVIOUS
    <3>2. QED
        BY <2>1, <2>2, <3>1, ZenonT(40) DEF PackHeader, First, Second
  <2>4. QED
      BY <1>2, <1>3, <1>4, <1>5, <1>a, <2>1, <2>3, ShortHead DEF S
<1>b. CASE n > 125 /\ n <= 65535
  <2>1. Code(n) = 126 /\ Ext(n) = 2
      BY <1>b DEF Code, Ext
  <2>2. LenBytes(n) = <<126>> \o <<n \div 256, n % 256>>
      BY <1>1, <1>b, LenBytesAre DEF PutUint16
  <2>3. (<<126>> \o <<n \div 256, n % 256>>)[1] = 126
      OBVIOUS
  <2>4. PackHeader(h) =
          (<<First(h), Second(h)>> \o Tail(<<126>> \o <<n \div 256, n % 256>>))
            \o h.mask
      BY <2>1, <2>2, <2>3, ZenonT(40) DEF PackHeader, First, Second
  <2>5. QED
      BY <1>2, <1>3, <1>4, <1>5, <1>6, <2>1, <2>4, MiddleHead DEF S, IsWord
<1>c. CASE n > 65535
  <2>1. Code(n) = 127 /\ Ext(n) = 8
      BY <1>c DEF Code, Ext
  <2> DEFINE l == <<127>> \o (((<<Word3(n) \div 256, Word3(n) % 256>>
                               \o <<Word2(n) \div 256, Word2(n) % 256>>)
                               \o <<Word1(n) \div 256, Word1(n) % 256>>)
                               \o <<Word0(n) \div 256, Word0(n) % 256>>)
  <2>2. LenBytes(n) = l
    <3>1. LenBytes(n) = <<127>> \o PutUint64(n)
        BY <1>1, <1>c, LenBytesAre
    <3>2. QED
        BY <3>1, Zenon DEF PutUint16, PutUint64
  <2>3. l[1] = 127
      BY <1>7
  <2> HIDE DEF l
  <2>4. PackHeader(h) = (<<First(h), Second(h)>> \o Tail(l)) \o h.mask
      BY <2>1, <2>2, <2>3, Zenon DEF PackHeader, First, Second
  <2> USE DEF l
  <2>5. QED
      BY <1>2, <1>3, <1>4, <1>5, <1>7, <2>1, <2>4, LongHead DEF S, IsWord
<1>8. QED
    BY <1>a, <1>b, <1>c

(* A piece of a sequence.                                                  *)
LEMMA Piece ==
  ASSUME NEW S, NEW t \in Seq(S), NEW a \in Nat, NEW c \in Nat,
         1 <= a, c <= Len(t), a <= c + 1
  PROVE  /\ SubSeq(t, a, c) \in Seq(S)
         /\ Len(SubSeq(t, a, c)) = c + 1 - a
         /\ \A i \in 1..(c + 1 - a) : SubSeq(t, a, c)[i] = t[a + i - 1]
  OBVIOUS

LEMMA SameElements ==
  ASSUME NEW S, NEW s \in Seq(S), NEW t \in Seq(S), Len(s) = Len(t),
         \A i \in 1..Len(t) : s[i] = t[i]
  PROVE  s = t
  OBVIOUS

(* The length that ReadHeader reads.                                       *)
LEMMA LengthBack ==
  ASSUME NEW S, NEW t \in Seq(S), NEW n, Int64(n),
         t[2] % 128 = Code(n),
         Len(t) >= 2 + Ext(n),
         Code(n) = 126 => IsWord(n, t[3], t[4]),
         Code(n) = 127 => /\ IsWord(Word3(n), t[3], t[4])
                          /\ IsWord(Word2(n), t[5], t[6])
                          /\ IsWord(Word1(n), t[7], t[8])
                          /\ IsWord(Word0(n), t[9], t[10])
  PROVE  LengthIn(t) = n /\ ~MSBSet(t)
<1>0. n \in Nat /\ Word3(n) \in Short
  <2>1. PICK w \in Nat : w = Word3(n)
      BY Words DEF Int64
  <2>2. w < 32768
      BY <2>1 DEF Int64
  <2>3. Lo(w) = w
      BY <2>2, SMT DEF Lo
  <2>4. w \in Short
      BY <2>3, LowWord
  <2>5. QED
      BY <2>1, <2>4 DEF Int64
<1>1. /\ Code(n) \in 0..127
      /\ Ext(n) = Bit(Code(n) = 126, 2) + Bit(Code(n) = 127, 8)
    BY <1>0, CodeIsByte
<1>2. CASE Code(n) < 126
  <2>1. n = Code(n)
      BY <1>0, <1>2, CodeIsByte
  <2>2. QED
      BY <1>0, <1>2, <2>1 DEF LengthIn, MSBSet
<1>3. CASE Code(n) = 126
  <2>1. n \in Short /\ Len(t) >= 4
      BY <1>0, <1>1, <1>3, CodeIsByte DEF Bit
  <2>2. SubSeq(t, 3, 4)[1] = t[3] /\ SubSeq(t, 3, 4)[2] = t[4]
      BY <2>1
  <2>3. IsWord(n, SubSeq(t, 3, 4)[1], SubSeq(t, 3, 4)[2])
      BY <1>3, <2>2, Zenon
  <2>4. Uint16(SubSeq(t, 3, 4)) = n
      BY <2>1, <2>3, Uint16Back
  <2>5. QED
      BY <1>3, <2>4 DEF LengthIn, MSBSet
<1>4. CASE Code(n) = 127
  <2>1. Len(t) >= 10
      BY <1>1, <1>4 DEF Bit
  <2> PICK b \in Seq(S) : b = SubSeq(t, 3, 10)
    <3>1. SubSeq(t, 3, 10) \in Seq(S)
        BY <2>1, Piece
    <3>2. QED
        BY <3>1
  <2>2. /\ Len(b) = 8
        /\ b[1] = t[3] /\ b[2] = t[4] /\ b[3] = t[5] /\ b[4] = t[6]
        /\ b[5] = t[7] /\ b[6] = t[8] /\ b[7] = t[9] /\ b[8] = t[10]
      BY <2>1
  <2>3. /\ SubSeq(b, 1, 2)[1] = b[1] /\ SubSeq(b, 1, 2)[2] = b[2]
        /\ SubSeq(b, 3, 4)[1] = b[3] /\ SubSeq(b, 3, 4)[2] = b[4]
        /\ SubSeq(b, 5, 6)[1] = b[5] /\ SubSeq(b, 5, 6)[2] = b[6]
        /\ SubSeq(b, 7, 8)[1] = b[7] /\ SubSeq(b, 7, 8)[2] = b[8]
      BY <2>2
  <2>4. /\ Word2(n) \in Short /\ Word1(n) \in Short /\ Word0(n) \in Short
      BY <1>0, Words
  <2>5. Uint16(SubSeq(b, 1, 2)) = Word3(n)
    <3>1. IsWord(Word3(n), SubSeq(b, 1, 2)[1], SubSeq(b, 1, 2)[2])
        BY <1>4, <2>2, <2>3, Zenon
    <3>2. QED
        BY <1>0, <3>1, Uint16Back
  <2>6. Uint16(SubSeq(b, 3, 4)) = Word2(n)
    <3>1. IsWord(Word2(n), SubSeq(b, 3, 4)[1], SubSeq(b, 3, 4)[2])
        BY <1>4, <2>2, <2>3, Zenon
    <3>2. QED
        BY <2>4, <3>1, Uint16Back
  <2>7. Uint16(SubSeq(b, 5, 6)) = Word1(n)
    <3>1. IsWord(Word1(n), SubSeq(b, 5, 6)[1], SubSeq(b, 5, 6)[2])
        BY <1>4, <2>2, <2>3, Zenon
    <3>2. QED
        BY <2>4, <3>1, Uint16Back
  <2>8. Uint16(SubSeq(b, 7, 8)) = Word0(n)
    <3>1. IsWord(Word0(n), SubSeq(b, 7, 8)[1], SubSeq(b, 7, 8)[2])
        BY <1>4, <2>2, <2>3, Zenon
    <3>2. QED
        BY <2>4, <3>1, Uint16Back
  <2>9. Uint64(b) = Join(Join(Join(Word3(n), Word2(n)), Word1(n)), Word0(n))
      BY <2>5, <2>6, <2>7, <2>8 DEF Uint64, Join
  <2>10. Uint64(b) = n
      BY <1>0, <2>9, Words, Zenon
  <2>11. ~(t[3] >= 128)
    <3>1. PICK w \in Short : w = Word3(n)
        BY <1>0
    <3>2. w < 32768
        BY <3>1 DEF Int64
    <3>3. ~(w \div 256 >= 128)
        BY <3>2, SMT DEF Short
    <3>4. QED
        BY <1>4, <3>1, <3>3 DEF IsWord
  <2>12. QED
      BY <1>4, <2>10, <2>11 DEF LengthIn, MSBSet
<1>5. Code(n) < 126 \/ Code(n) = 126 \/ Code(n) = 127
    BY <1>0, CodeIsByte
<1>6. QED
    BY <1>2, <1>3, <1>4, <1>5

(* What the first two bytes tell of the header they were made from.        *)
LEMMA FirstTells ==
  ASSUME NEW M, NEW h \in HeadersOf(M)
  PROVE  /\ (First(h) >= 128) = h.fin
         /\ ((First(h) \div 64) % 2 = 1) = h.compressed
         /\ First(h) % 16 = h.opCode
<1>1. PICK o \in 0..15, f \in BOOLEAN, c \in BOOLEAN :
        o = h.opCode /\ f = h.fin /\ c = h.compressed
    BY DEF HeadersOf
<1>2. PICK w \in Nat : w = o + Bit(f, 128) + Bit(c, 64)
  <2>1. o + Bit(f, 128) + Bit(c, 64) \in Nat
      BY FirstByte
  <2>2. QED
      BY <2>1, Zenon
<1>3. (w >= 128 <=> f) /\ ((w \div 64) % 2 = 1 <=> c) /\ w % 16 = o
  <2>1. CASE f /\ c
      BY <1>2, <2>1, SMT DEF Bit
  <2>2. CASE f /\ ~c
      BY <1>2, <2>2, SMT DEF Bit
  <2>3. CASE ~f /\ c
      BY <1>2, <2>3, SMT DEF Bit
  <2>4. CASE ~f /\ ~c
      BY <1>2, <2>4, SMT DEF Bit
  <2>5. QED
      BY <2>1, <2>2, <2>3, <2>4, Zenon
<1>4. (w >= 128) = f /\ ((w \div 64) % 2 = 1) = c
    BY <1>3
<1>5. First(h) = w
    BY <1>1, <1>2 DEF First
<1>6. QED
    BY <1>1, <1>3, <1>4, <1>5, Zenon

LEMMA SecondTells ==
  ASSUME NEW M, NEW h \in HeadersOf(M)
  PROVE  /\ (Second(h) >= 128) = h.masked
         /\ Second(h) % 128 = Code(h.length)
<1>1. PICK l \in 0..127, mk \in BOOLEAN :
        l = Code(h.length) /\ mk = h.masked
    BY CodeIsByte, ZenonT(40) DEF HeadersOf
<1>2. PICK w \in Nat : w = l + Bit(mk, 128)
  <2>1. l + Bit(mk, 128) \in Nat
      BY SecondByte
  <2>2. QED
      BY <2>1, Zenon
<1>3. (w >= 128 <=> mk) /\ w % 128 = l
    BY <1>2, SecondByte, ZenonT(40)
<1>4. (w >= 128) = mk
    BY <1>3
<1>5. Second(h) = w
    BY <1>1, <1>2 DEF Second
<1>6. QED
    BY <1>1, <1>3, <1>4, <1>5, Zenon

(* ReadHeader gives back what packHeader was given, wherever the bytes end *)
(* that come behind: at every length, masked or not (packHeader,           *)
(* transport.go lines 437-481, and ReadHeader, frame_reader.go).           *)
THEOREM HeaderReadsBack ==
  ASSUME NEW M, NEW S, NEW h \in HeadersOf(M),
         NEW t \in Seq(S), StandsAt(t, 0, PackHeader(h)), M \subseteq S
  PROVE  /\ ~MSBSet(t)
         /\ HeaderSize(t) = Len(PackHeader(h))
         /\ ReadHeader(t) = h
<1> DEFINE x == PackHeader(h)
           n == h.length
<1>1. /\ h.opCode \in 0..15 /\ h.fin \in BOOLEAN /\ h.compressed \in BOOLEAN
      /\ h.masked \in BOOLEAN /\ h.mask \in Seq(M) /\ Int64(n) /\ n \in Nat
      /\ Len(h.mask) = Bit(h.masked, 4)
    BY DEF HeadersOf
<1>2. /\ x \in Seq(Nat \cup M)
      /\ Len(x) = 2 + Ext(n) + Len(h.mask)
      /\ x[1] = First(h) /\ x[2] = Second(h)
      /\ Code(n) = 126 => IsWord(n, x[3], x[4])
      /\ Code(n) = 127 => /\ IsWord(Word3(n), x[3], x[4])
                          /\ IsWord(Word2(n), x[5], x[6])
                          /\ IsWord(Word1(n), x[7], x[8])
                          /\ IsWord(Word0(n), x[9], x[10])
      /\ \A i \in 1..Len(h.mask) : x[2 + Ext(n) + i] = h.mask[i]
    BY HeaderBytes
<1>3. Len(x) <= Len(t) /\ \A j \in 1..Len(x) : t[j] = x[j]
    BY <1>2 DEF StandsAt
<1>4. /\ Code(n) \in 0..127
      /\ Ext(n) = Bit(Code(n) = 126, 2) + Bit(Code(n) = 127, 8)
      /\ Ext(n) \in {0, 2, 8}
    BY <1>1, CodeIsByte
<1> HIDE DEF x
<1>5. t[1] = First(h) /\ t[2] = Second(h)
    BY <1>1, <1>2, <1>3, <1>4
<1>6. /\ Code(n) = 126 => t[3] = x[3] /\ t[4] = x[4]
      /\ Code(n) = 127 => /\ t[3] = x[3] /\ t[4] = x[4] /\ t[5] = x[5] /\ t[6] = x[6]
                          /\ t[7] = x[7] /\ t[8] = x[8] /\ t[9] = x[9] /\ t[10] = x[10]
  <2>1. CASE Code(n) = 126
    <3>1. Ext(n) = 2 /\ Len(x) >= 4
        BY <1>2, <1>4, <2>1 DEF Bit
    <3>2. QED
        BY <1>3, <2>1, <3>1
  <2>2. CASE Code(n) = 127
    <3>1. Ext(n) = 8 /\ Len(x) >= 10
        BY <1>2, <1>4, <2>2 DEF Bit
    <3>2. QED
        BY <1>3, <2>2, <3>1
  <2>3. QED
      BY <2>1, <2>2, Zenon
<1>7. /\ (t[1] >= 128) = h.fin
      /\ ((t[1] \div 64) % 2 = 1) = h.compressed
      /\ t[1] % 16 = h.opCode
    BY <1>5, FirstTells, ZenonT(40)
<1>8. /\ (t[2] >= 128) = h.masked
      /\ t[2] % 128 = Code(n)
    BY <1>5, SecondTells, Zenon
<1>9. Len(t) >= 2 + Ext(n)
    BY <1>1, <1>2, <1>3, <1>4
<1>10. LengthIn(t) = n /\ ~MSBSet(t)
  <2>1. /\ Code(n) = 126 => IsWord(n, t[3], t[4])
        /\ Code(n) = 127 => /\ IsWord(Word3(n), t[3], t[4])
                            /\ IsWord(Word2(n), t[5], t[6])
                            /\ IsWord(Word1(n), t[7], t[8])
                            /\ IsWord(Word0(n), t[9], t[10])
      BY <1>2, <1>6, Zenon
  <2>2. QED
      BY <1>1, <1>8, <1>9, <2>1, LengthBack
<1>11. HeaderSize(t) = Len(x)
    BY <1>1, <1>2, <1>4, <1>8 DEF HeaderSize, Extra, Bit
<1>12. SubSeq(t, HeaderSize(t) - Bit(t[2] >= 128, 4) + 1, HeaderSize(t)) = h.mask
  <2> DEFINE a == 2 + Ext(n)
  <2>1. /\ HeaderSize(t) = a + Len(h.mask) /\ a \in Nat /\ Len(h.mask) \in Nat
        /\ HeaderSize(t) - Bit(t[2] >= 128, 4) + 1 = a + 1
      BY <1>1, <1>2, <1>4, <1>8, <1>11, SMTT(40) DEF Bit
  <2>2. \A i \in 1..Len(h.mask) : t[a + i] = h.mask[i]
      BY <1>1, <1>2, <1>3, <1>4, SMTT(40)
  <2> HIDE DEF a
  <2> PICK k \in Nat : k = Len(h.mask)
      BY <2>1
  <2>3. a + k <= Len(t)
      BY <1>3, <1>11, <2>1
  <2>4. /\ SubSeq(t, a + 1, a + k) \in Seq(S)
        /\ Len(SubSeq(t, a + 1, a + k)) = k
        /\ \A i \in 1..k : SubSeq(t, a + 1, a + k)[i] = t[a + i]
      BY <2>1, <2>3
  <2>5. h.mask \in Seq(S)
      BY <1>1
  <2>6. SubSeq(t, a + 1, a + k) = h.mask
    <3>1. \A i \in 1..Len(h.mask) : SubSeq(t, a + 1, a + k)[i] = h.mask[i]
        BY <2>2, <2>4
    <3>2. QED
        BY <2>4, <2>5, <3>1, SameElements
  <2>7. QED
      BY <2>1, <2>6
<1>13. ReadHeader(t) =
         [fin |-> h.fin, compressed |-> h.compressed, opCode |-> h.opCode,
          masked |-> h.masked, length |-> n, mask |-> h.mask]
    BY <1>7, <1>8, <1>10, <1>12, Zenon DEF ReadHeader
<1>14. h = [fin |-> h.fin, compressed |-> h.compressed, opCode |-> h.opCode,
            masked |-> h.masked, length |-> n, mask |-> h.mask]
    BY DEF HeadersOf
<1>15. QED
    BY <1>10, <1>11, <1>13, <1>14 DEF x

-----------------------------------------------------------------------------
(* cbuf (flate_wrapper.go), with bytes of S: an array of four that is zero *)
(* behind what was written to it.                                          *)
IsCbuf(S, c) ==
  /\ c.buf \in Seq(S) /\ Len(c.buf) = 4 /\ c.n \in 0..4
  /\ \A i \in 1..4 : i > c.n => c.buf[i] = Zero

(* Byte i of s and then t.                                                 *)
Through(s, n, t, i) == IF i <= n THEN s[i] ELSE t[i - n]

(* Sequences of S of length n, sums of lengths, and n elements of s that   *)
(* are found in t behind the first d.                                      *)
IsSeqOf(S, n, s) == s \in Seq(S) /\ Len(s) = n
IsSum(e, k, l) == k \in Nat /\ l \in Nat /\ e = k + l
At(t, d, s, n) == \A i \in 1..n : t[d + i] = s[i]
SameRest(t, s, m, e) == \A i \in 1..e : i > m => t[i] = s[i]
SameBytes(f, k, g, b, n, p, w) ==
  \A i \in 1..w : Through(f, k, g, i) = Through(b, n, p, i)

LEMMA FrontOf ==
  ASSUME NEW S, NEW e, NEW k, NEW l, NEW s, IsSum(e, k, l), IsSeqOf(S, e, s)
  PROVE  IsSeqOf(S, k, SubSeq(s, 1, k)) /\ At(s, 0, SubSeq(s, 1, k), k)
  BY SMT DEF IsSum, IsSeqOf, At

LEMMA BackOf ==
  ASSUME NEW S, NEW e, NEW k, NEW l, NEW s, IsSum(e, k, l), IsSeqOf(S, e, s)
  PROVE  IsSeqOf(S, l, SubSeq(s, k + 1, e)) /\ At(s, k, SubSeq(s, k + 1, e), l)
  BY SMT DEF IsSum, IsSeqOf, At

LEMMA Behind ==
  ASSUME NEW S, NEW e, NEW k, NEW l, NEW s, NEW t,
         IsSum(e, k, l), IsSeqOf(S, k, s), IsSeqOf(S, l, t)
  PROVE  IsSeqOf(S, e, s \o t) /\ At(s \o t, 0, s, k) /\ At(s \o t, k, t, l)
  BY SMT DEF IsSum, IsSeqOf, At

(* The first x bytes of b, with t behind them: what cbuf flushes.          *)
LEMMA Flushed ==
  ASSUME NEW S, NEW x, NEW g, NEW e, NEW y, NEW d, NEW b, NEW t,
         IsSum(e, x, g), IsSum(d, x, y), IsSeqOf(S, e, b), IsSeqOf(S, y, t)
  PROVE  /\ IsSeqOf(S, d, SubSeq(b, 1, x) \o t)
         /\ At(SubSeq(b, 1, x) \o t, 0, b, x)
         /\ At(SubSeq(b, 1, x) \o t, x, t, y)
<1> DEFINE u == SubSeq(b, 1, x)
<1>1. IsSeqOf(S, x, u) /\ At(b, 0, u, x)
    BY FrontOf, Zenon
<1> HIDE DEF u
<1> DEFINE f == u \o t
<1>2. IsSeqOf(S, d, f) /\ At(f, 0, u, x) /\ At(f, x, t, y)
    BY <1>1, Behind, Zenon
<1> HIDE DEF f
<1>3. At(f, 0, b, x)
    BY <1>1, <1>2, SMT DEF At, IsSum
<1>4. QED
    BY <1>2, <1>3, Zenon DEF u, f

(* The first of the two copies of cbuf.Write: to the front of the array.   *)
LEMMA Moved ==
  ASSUME NEW S, NEW x, NEW g, NEW e, NEW b,
         IsSum(e, x, g), IsSum(e, g, x), IsSeqOf(S, e, b)
  PROVE  LET f == SubSeq(b, x + 1, e) \o SubSeq(b, g + 1, e)
         IN  IsSeqOf(S, e, f) /\ At(b, x, f, g)
<1> DEFINE u == SubSeq(b, x + 1, e)
           v == SubSeq(b, g + 1, e)
<1>1. IsSeqOf(S, g, u) /\ At(b, x, u, g)
    BY BackOf, Zenon
<1>2. IsSeqOf(S, x, v)
    BY BackOf, Zenon
<1> HIDE DEF u, v
<1> DEFINE f == u \o v
<1>3. IsSeqOf(S, e, f) /\ At(f, 0, u, g)
    BY <1>1, <1>2, Behind, Zenon
<1> HIDE DEF f
<1>4. At(b, x, f, g)
    BY <1>1, <1>3, SMT DEF At, IsSum
<1>5. QED
    BY <1>3, <1>4, Zenon DEF f, u, v

(* The second one: t behind the first k, the rest of the array stays.      *)
LEMMA Rebuilt ==
  ASSUME NEW S, NEW k, NEW l, NEW m, NEW e, NEW r, NEW o, NEW v, NEW t,
         IsSum(m, k, l), IsSum(e, m, r), IsSum(e, k, o),
         IsSeqOf(S, e, v), IsSeqOf(S, l, t)
  PROVE  LET nb == SubSeq(v, 1, k) \o t \o SubSeq(v, m + 1, e)
         IN  /\ IsSeqOf(S, e, nb)
             /\ At(nb, 0, v, k)
             /\ At(nb, k, t, l)
             /\ SameRest(nb, v, m, e)
<1> DEFINE z == SubSeq(v, 1, k) \o t
           w == SubSeq(v, m + 1, e)
<1>1. IsSeqOf(S, m, z) /\ At(z, 0, v, k) /\ At(z, k, t, l)
    BY Flushed, Zenon
<1>2. IsSeqOf(S, r, w) /\ At(v, m, w, r)
    BY BackOf, Zenon
<1> HIDE DEF z, w
<1> DEFINE nb == z \o w
<1>3. IsSeqOf(S, e, nb) /\ At(nb, 0, z, m) /\ At(nb, m, w, r)
    BY <1>1, <1>2, Behind, Zenon
<1> HIDE DEF nb
<1>4. At(nb, 0, v, k)
    BY <1>1, <1>3, SMT DEF At, IsSum
<1>5. At(nb, k, t, l)
    BY <1>1, <1>3, SMT DEF At, IsSum
<1>6. \A i \in 1..e : i > m => i - m \in 1..r /\ m + (i - m) = i
    BY SMT DEF IsSum
<1>7. SameRest(nb, v, m, e)
    BY <1>2, <1>3, <1>6, SMT DEF At, SameRest
<1>8. QED
    BY <1>3, <1>4, <1>5, <1>7, Zenon DEF nb, z, w

(* cbuf has kept n bytes, q are written to it: l of them may stay and y    *)
(* may not, x of those it had kept have to leave, and k of them stay.      *)
Leave(n, q, l, y, x, k) ==
  /\ IsSum(q, y, l) /\ IsSum(n, x, k) /\ n <= 4
  /\ k + l = Least(n + q, 4)
  /\ l < 4 => y = 0
  /\ k + l < 4 => x = 0 /\ y = 0
  /\ y > 0 => k = 0

LEMMA Leaves ==
  ASSUME NEW n \in 0..4, NEW q \in Nat
  PROVE  LET l == Least(q, 4)
             x == Most(n + l - 4, 0)
         IN  Leave(n, q, l, Most(q - 4, 0), x, n - x)
  BY SMT DEF Leave, IsSum, Least, Most

LEMMA LeaveSums ==
  ASSUME NEW n, NEW q, NEW l, NEW y, NEW x, NEW k, Leave(n, q, l, y, x, k)
  PROVE  /\ IsSum(k + l, k, l) /\ IsSum(4, k, 4 - k)
         /\ IsSum(4, k + l, 4 - (k + l))
  BY SMT DEF Leave, IsSum, Least

LEMMA SameAt ==
  ASSUME NEW y \in Nat, NEW p, NEW f, NEW h, NEW x,
         At(p, 0, h, y), At(f, x, h, y)
  PROVE  At(f, x, p, y)
  BY SMT DEF At

LEMMA FewerAt ==
  ASSUME NEW k \in Nat, NEW g \in Nat, k <= g, NEW b, NEW x, NEW h, NEW t,
         At(b, x, h, g), At(t, 0, h, k)
  PROVE  At(b, x, t, k)
  BY SMT DEF At

(* The bytes of b and p are found in f and nb again.                       *)
LEMMA NoneLost ==
  ASSUME NEW n, NEW q, NEW l, NEW y, NEW x, NEW k, Leave(n, q, l, y, x, k),
         NEW b, NEW p, NEW t, NEW f, NEW nb,
         At(p, y, t, l), At(f, 0, b, x), At(f, x, p, y),
         At(b, x, nb, k), At(nb, k, t, l)
  PROVE  SameBytes(f, x + y, nb, b, n, p, n + q)
<1> SUFFICES ASSUME NEW i \in 1..(n + q)
             PROVE  Through(f, x + y, nb, i) = Through(b, n, p, i)
    BY DEF SameBytes
<1>1. CASE i <= x
    BY <1>1, SMT DEF Leave, IsSum, At, Through
<1>2. CASE i > x /\ i <= x + y
    \* bytes of p are flushed, so all of b is
  <2>1. x = n /\ i > n /\ i - x \in 1..y /\ i = x + (i - x)
      BY <1>2, SMT DEF Leave, IsSum
  <2>2. f[x + (i - x)] = p[i - x]
      BY <2>1, Zenon DEF At
  <2>3. i - n = i - x /\ ~(i <= n)
      BY <2>1, SMT DEF Leave, IsSum
  <2>4. QED
      BY <1>2, <2>1, <2>2, <2>3, Zenon DEF Through
<1>3. CASE i > x + y /\ i <= n
  <2>1. y = 0 /\ i - x \in 1..k /\ x + (i - x) = i
      BY <1>3, SMT DEF Leave, IsSum
  <2>2. b[x + (i - x)] = nb[i - x]
      BY <2>1, Zenon DEF At
  <2>3. QED
      BY <1>3, <2>1, <2>2, SMT DEF Leave, IsSum, Through
<1>4. CASE i > x + y /\ i > n
  <2>1. PICK j \in 1..l : j = i - (n + y)
      BY <1>4, SMT DEF Leave, IsSum
  <2>2. i - (x + y) = k + j /\ i - n = y + j
      BY <2>1, SMT DEF Leave, IsSum
  <2>3. nb[k + j] = t[j] /\ p[y + j] = t[j]
      BY Zenon DEF At
  <2>4. ~(i <= x + y) /\ ~(i <= n)
      BY <1>4, SMT DEF Leave, IsSum
  <2>5. QED
      BY <2>2, <2>3, <2>4, Zenon DEF Through
<1>5. QED
    BY <1>1, <1>2, <1>3, <1>4, SMT DEF Leave, IsSum

(* What cbuf flushes, and what it keeps, are together what it kept before  *)
(* and what is written to it; and it keeps as much of that as it can       *)
(* (cbuf.Write and cbuf.split, flate_wrapper.go).                          *)
THEOREM CbufLosesNothing ==
  ASSUME NEW S, NEW c, IsCbuf(S, c), NEW p \in Seq(S)
  PROVE  LET d == CbufWrite(c, p)
             f == CbufFlushes(c, p)
         IN  /\ IsCbuf(S, d) /\ f \in Seq(S)
             /\ Len(f) + d.n = c.n + Len(p)
             /\ d.n = Least(c.n + Len(p), 4)
             /\ \A i \in 1..(c.n + Len(p)) :
                  Through(f, Len(f), d.buf, i) = Through(c.buf, c.n, p, i)
<1>1. PICK n, b, q : n = c.n /\ b = c.buf /\ q = Len(p)
    OBVIOUS
<1>2. n \in 0..4 /\ q \in Nat
    BY <1>1 DEF IsCbuf
<1>3. PICK l, y, x, k, g : /\ l = Least(q, 4) /\ y = Most(q - 4, 0)
                           /\ x = Most(n + l - 4, 0) /\ k = n - x
                           /\ g = 4 - x
    OBVIOUS
<1>4. Leave(n, q, l, y, x, k)
  <2>1. Leave(n, q, Least(q, 4), Most(q - 4, 0), Most(n + Least(q, 4) - 4, 0),
              n - Most(n + Least(q, 4) - 4, 0))
      BY <1>2, Leaves, Zenon
  <2>2. QED
      BY <1>3, <2>1, Zenon
<1>a. /\ IsSum(q, y, l) /\ IsSum(x + y, x, y)
      /\ IsSum(4, x, g) /\ IsSum(4, g, x) /\ k <= g /\ 5 - x = g + 1
  <2>1. /\ IsSum(q, y, l) /\ IsSum(x + y, x, y)
        /\ IsSum(4, x, 4 - x) /\ IsSum(4, 4 - x, x) /\ k <= 4 - x
        /\ 5 - x = (4 - x) + 1
      BY <1>4, SMT DEF Leave, IsSum, Least
  <2>2. QED
      BY <1>3, <2>1
<1>b. PICK m, r, o : /\ IsSum(m, k, l) /\ IsSum(4, m, r) /\ IsSum(4, k, o)
                     /\ m = k + l
  <2>1. /\ IsSum(k + l, k, l) /\ IsSum(4, k, 4 - k)
        /\ IsSum(4, k + l, 4 - (k + l))
      BY <1>4, LeaveSums, Zenon
  <2>2. QED
      BY <2>1
<1>c. /\ k + l \in 0..4 /\ Least(k + l, 4) = k + l
      /\ (x + y) + (k + l) = n + q /\ k + l = Least(n + q, 4)
    BY <1>4, SMT DEF Leave, IsSum, Least
<1>5. IsSeqOf(S, 4, b) /\ IsSeqOf(S, q, p)
    BY <1>1 DEF IsCbuf, IsSeqOf
<1> DEFINE t == SubSeq(p, y + 1, q)
           hd == SubSeq(p, 1, y)
           f == SubSeq(b, 1, x) \o hd
           moved == SubSeq(b, x + 1, 4) \o SubSeq(b, g + 1, 4)
           nb == SubSeq(moved, 1, k) \o t \o SubSeq(moved, m + 1, 4)
<1>6. IsSeqOf(S, l, t) /\ At(p, y, t, l)
    BY <1>a, <1>5, BackOf, Zenon
<1>7. IsSeqOf(S, y, hd) /\ At(p, 0, hd, y)
    BY <1>a, <1>5, FrontOf, Zenon
<1>8. SplitTail(p) = t /\ SplitHead(p) = hd
  <2>1. SplitTail(p) = t
      BY <1>1, <1>3, Zenon DEF SplitTail
  <2>2. CASE q >= 4
    <3>1. q - 4 = y
        BY <1>2, <1>3, <2>2, SMT DEF Most
    <3>2. QED
        BY <1>1, <2>1, <3>1, Zenon DEF SplitHead
  <2>3. CASE q < 4
    <3>1. y = 0
        BY <1>2, <1>3, <2>3, SMT DEF Most
    <3>2. SplitHead(p) = <<>>
        BY <1>1, <1>2, <2>3 DEF SplitHead
    <3>3. hd = <<>>
        BY <3>1
    <3>4. QED
        BY <2>1, <3>2, <3>3, Zenon
  <2>4. QED
      BY <1>2, <2>2, <2>3, SMT
<1> HIDE DEF t, hd
<1>9. IsSeqOf(S, x + y, f) /\ At(f, 0, b, x) /\ At(f, x, hd, y)
    BY <1>a, <1>5, <1>7, Flushed, Zenon
<1>10. IsSeqOf(S, 4, moved) /\ At(b, x, moved, g)
    BY <1>a, <1>5, Moved, Zenon
<1> HIDE DEF f, moved
<1>11. /\ IsSeqOf(S, 4, nb) /\ At(nb, 0, moved, k) /\ At(nb, k, t, l)
       /\ SameRest(nb, moved, m, 4)
  <2>1. IsSum(m, k, l) /\ IsSum(4, m, r) /\ IsSum(4, k, o)
      BY <1>b, Zenon
  <2>2. IsSeqOf(S, 4, moved) /\ IsSeqOf(S, l, t)
      BY <1>6, <1>10, Zenon
  <2>3. QED
      BY <2>1, <2>2, Rebuilt, Zenon
<1> HIDE DEF nb
<1>12. At(f, x, p, y)
  <2>1. y \in Nat
      BY <1>a, Zenon DEF IsSum
  <2>2. QED
      BY <1>7, <1>9, <2>1, SameAt, Zenon
<1>13. At(b, x, nb, k)
  <2>1. k \in Nat /\ g \in Nat /\ k <= g
      BY <1>a, <1>b, Zenon DEF IsSum
  <2>2. QED
      BY <1>10, <1>11, <2>1, FewerAt, Zenon
<1>14. CbufFlushes(c, p) = f /\ Leaving(c, p) = x
  <2>1. Leaving(c, p) = x
      BY <1>1, <1>3, <1>6, <1>8, Zenon DEF Leaving, IsSeqOf
  <2>2. QED
      BY <1>1, <1>8, <2>1, Zenon DEF CbufFlushes, f
<1>15. CbufWrite(c, p) = [buf |-> nb, n |-> k + l]
  <2>1. Len(t) = l
      BY <1>6, Zenon DEF IsSeqOf
  <2>2. QED
      BY <1>1, <1>3, <1>8, <1>14, <1>a, <1>b, <1>c, <2>1, Zenon
      DEF CbufWrite, nb, moved
<1> PICK d : d = [buf |-> nb, n |-> k + l]
    OBVIOUS
<1>16. d.buf = nb /\ d.n = k + l
    OBVIOUS
<1>17. IsCbuf(S, d)
  <2>1. ASSUME NEW i \in 1..4, i > k + l PROVE nb[i] = Zero
    <3>1. x = 0 /\ i > n /\ i \in 1..g /\ x + i = i
      <4>1. x = 0 /\ i > n /\ i \in 1..(4 - x) /\ x + i = i
          BY <1>4, <2>1, SMT DEF Leave, IsSum, Least
      <4>2. QED
          BY <1>3, <4>1
    <3>2. b[i] = Zero
        BY <1>1, <3>1 DEF IsCbuf
    <3>3. b[x + i] = moved[i]
        BY <1>10, <3>1, Zenon DEF At
    <3>4. QED
        BY <1>11, <1>b, <2>1, <3>1, <3>2, <3>3 DEF SameRest
  <2>2. nb \in Seq(S) /\ Len(nb) = 4
      BY <1>11, Zenon DEF IsSeqOf
  <2>3. QED
      BY <1>16, <1>c, <2>1, <2>2 DEF IsCbuf
<1>18. SameBytes(f, x + y, nb, b, n, p, n + q)
  <2>1. At(p, y, t, l) /\ At(f, 0, b, x) /\ At(nb, k, t, l)
      BY <1>6, <1>9, <1>11, Zenon
  <2>2. QED
      BY <1>4, <1>12, <1>13, <2>1, NoneLost, Zenon
<1>19. f \in Seq(S) /\ Len(f) = x + y
    BY <1>9, Zenon DEF IsSeqOf
<1>20. QED
    BY <1>1, <1>14, <1>15, <1>16, <1>17, <1>18, <1>19, <1>c DEF SameBytes

-----------------------------------------------------------------------------

WireBytes == (Nat \cup MaskBytes) \cup Bytes
Frames == HeadersOf(MaskBytes)

-----------------------------------------------------------------------------
(* HeaderSurvives: it holds whatever the state is.                         *)
LEMMA HeaderLength ==
  ASSUME NEW M, NEW h \in HeadersOf(M)
  PROVE  Len(PackHeader(h)) = Bit(h.masked, 4) + LeastSize(h.length)
<1> PICK n \in Nat, b \in Nat : n = h.length /\ b = Bit(h.masked, 4)
    BY DEF HeadersOf, Bit
<1>1. Len(PackHeader(h)) = 2 + Ext(n) + b
    BY HeaderBytes DEF HeadersOf
<1>2. 2 + Ext(n) = LeastSize(n) /\ Ext(n) \in Nat
    BY SMT DEF Ext, LeastSize
<1>3. QED
    BY <1>1, <1>2

(* Every header that Write asks packHeader for.                            *)
LEMMA HeaderIs ==
  ASSUME client \in BOOLEAN, NEW n, Int64(n), NEW compressed \in BOOLEAN,
         NEW M, NEW c, NEW h, h = Header(n, compressed, c),
         Mask(c) \in Seq(M), Len(Mask(c)) = 4
  PROVE  h \in HeadersOf(M) /\ h.length = n /\ h.masked = client
<1>1. n \in Nat /\ OpCode \in 0..15
    BY WsWireAssumption DEF Int64
<1>2. <<>> \in Seq(M) /\ Len(<<>>) = 0
    OBVIOUS
<1>3. CASE client
    BY <1>1, <1>3 DEF Header, HeadersOf, Bit
<1>4. CASE ~client
    BY <1>1, <1>2, <1>4 DEF Header, HeadersOf, Bit
<1>5. QED
    BY <1>3, <1>4

(* A header that packHeader makes for a message of this connection is read *)
(* back as it was, by exactly its bytes, and is as short as it can be      *)
(* (packHeader in transport.go, ReadHeader in frame_reader.go): whatever   *)
(* the length and the side.                                                *)
LEMMA OneSurvives ==
  ASSUME client \in BOOLEAN, NEW n \in HeaderLens, NEW compressed \in BOOLEAN,
         NEW h, h = Header(n, compressed, 1), NEW bts, bts = PackHeader(h)
  PROVE  /\ ~MSBSet(bts)
         /\ ReadHeader(bts \o bts) = h
         /\ HeaderSize(bts) = Len(bts)
         /\ Len(bts) = Bit(client, 4) + LeastSize(n)
<1> DEFINE M == {1} \X (1..4)
           S == Nat \cup M
<1>1. Mask(1) \in Seq(M) /\ Len(Mask(1)) = 4
    BY DEF Mask
<1>2. Int64(n)
    BY WsWireAssumption
<1> HIDE DEF M
<1>3. h \in HeadersOf(M) /\ h.length = n /\ h.masked = client
    BY <1>1, <1>2, HeaderIs
<1>4. bts \in Seq(S)
    BY <1>3, HeaderBytes
<1> HIDE DEF S
<1> DEFINE twice == bts \o bts
<1>5. /\ twice \in Seq(S)
      /\ StandsAt(bts, 0, PackHeader(h)) /\ StandsAt(twice, 0, PackHeader(h))
    BY <1>4 DEF StandsAt
<1> HIDE DEF twice
<1>6. M \subseteq S
    BY DEF S
<1>7. ~MSBSet(bts) /\ HeaderSize(bts) = Len(PackHeader(h))
    BY <1>3, <1>4, <1>5, <1>6, HeaderReadsBack
<1>8. ReadHeader(twice) = h
    BY <1>3, <1>5, <1>6, HeaderReadsBack
<1>9. Len(bts) = Bit(client, 4) + LeastSize(n)
    BY <1>3, HeaderLength, Zenon
<1>10. QED
    BY <1>7, <1>8, <1>9 DEF twice

LEMMA AllSurvive ==
  ASSUME client \in BOOLEAN
  PROVE  HeaderSurvives
  BY OneSurvives, Zenon DEF HeaderSurvives

-----------------------------------------------------------------------------
(* The writing side: the caller's slice, the compressor's output on its    *)
(* way through cbuf, and the test of the tail.                             *)

(* c holds the last bytes of what has come to it, o what it has flushed,   *)
(* t is still to come: together they are a.  Nothing is flushed as long as *)
(* there is room.                                                          *)
Gathered(c, o, t, a) ==
  /\ Len(a) = (Len(o) + c.n) + Len(t)
  /\ At(a, 0, o, Len(o))
  /\ At(a, Len(o), c.buf, c.n)
  /\ At(a, Len(o) + c.n, t, Len(t))
  /\ c.n < 4 => Len(o) = 0

Settled ==
  /\ client \in BOOLEAN /\ deflate \in BOOLEAN
  /\ writes \in 0..MaxWrites
  /\ wpc \in {"idle", "deflating", "flushed"}
  /\ werr \in BOOLEAN

(* No byte of a message looks like the end of the tail.                    *)
Slices ==
  /\ slice \in Seq(Bytes) /\ filled \in Seq(Bytes)
  /\ Len(slice) = Len(filled)
  /\ Int64(Len(slice)) /\ Int64(Len(slice) + 1)
  /\ \A i \in 1..Len(filled) : filled[i] # Byte(255)

Written ==
  /\ IsCbuf(Bytes, cbuf)
  /\ todo \in Seq(Bytes) /\ total \in Seq(Bytes) /\ out \in Seq(Bytes)
  /\ wpc # "idle" => /\ Compresses(slice)
                     /\ writes > 0
                     /\ Gathered(cbuf, out, todo, total)
                     /\ \E x \in 0..Len(Deflated(slice)) :
                          total = SubSeq(Deflated(slice), 1, x)
  /\ wpc = "flushed" => /\ todo = <<>>
                        /\ werr <=> ~CheckTail(cbuf)
  /\ wpc = "deflating" => ~werr

WInv == Settled /\ Slices /\ SliceKept /\ Written

LEMMA BytesAre ==
  /\ Zero \in Bytes
  /\ \A v \in Nat : Byte(v) \in Bytes
  /\ Bytes = BytesOf(Nat, MaskBytes)
  BY DEF Bytes, BytesOf, Byte, Zero

LEMMA TailIs ==
  /\ CompressionTail \in Seq(Bytes) /\ Len(CompressionTail) = 4
  /\ CompressionTail[1] = Zero /\ CompressionTail[2] = Zero
  /\ CompressionTail[3] = Byte(255) /\ CompressionTail[4] = Byte(255)
<1>1. Zero \in Bytes /\ Byte(255) \in Bytes
    BY BytesAre
<1>2. QED
    BY <1>1 DEF CompressionTail

LEMMA MaskIs ==
  ASSUME NEW c \in 1..MaxWrites
  PROVE  /\ Mask(c) \in Seq(MaskBytes) /\ Len(Mask(c)) = 4
         /\ Mask(c) \in [1..4 -> MaskBytes]
  BY DEF Mask, MaskBytes

LEMMA CipheredIs ==
  ASSUME client \in BOOLEAN, NEW p \in Seq(Bytes), NEW c \in 1..MaxWrites
  PROVE  /\ Ciphered(p, c) \in Seq(Bytes) /\ Len(Ciphered(p, c)) = Len(p)
         /\ ~client => Ciphered(p, c) = p
<1>1. CASE client
  <2>1. /\ p \in Seq(BytesOf(Nat, MaskBytes))
        /\ Mask(c) \in [1..4 -> MaskBytes]
      BY BytesAre, MaskIs
  <2>2. /\ FastCipher(p, Mask(c), 0) \in Seq(BytesOf(Nat, MaskBytes))
        /\ Len(FastCipher(p, Mask(c), 0)) = Len(p)
      BY <2>1, ByteByByte
  <2>3. QED
      BY <1>1, <2>2, BytesAre DEF Ciphered
<1>2. CASE ~client
    BY <1>2 DEF Ciphered
<1>3. QED
    BY <1>1, <1>2

(* A piece of the compressor's output goes through cbuf.                   *)
SameSum(x, y, n, q) == x + y = n + q

Gathers(lo, n, q, lf, m, a, b, p, t, f, g) ==
  /\ lo \in Nat /\ n \in Nat /\ q \in Nat /\ lf \in Nat /\ m \in Nat
  /\ SameSum(lf, m, n, q)
  /\ At(a, lo, b, n) /\ At(a, lo + n, t, q) /\ At(t, 0, p, q)
  /\ SameBytes(f, lf, g, b, n, p, n + q)

LEMMA Gathering ==
  ASSUME NEW lo, NEW n, NEW q, NEW lf, NEW m, NEW a, NEW b, NEW p, NEW t,
         NEW f, NEW g, Gathers(lo, n, q, lf, m, a, b, p, t, f, g)
  PROVE  At(a, lo, f, lf) /\ At(a, lo + lf, g, m)
<1> /\ lo \in Nat /\ n \in Nat /\ q \in Nat /\ lf \in Nat /\ m \in Nat
    /\ SameSum(lf, m, n, q)
    /\ At(a, lo, b, n) /\ At(a, lo + n, t, q) /\ At(t, 0, p, q)
    /\ SameBytes(f, lf, g, b, n, p, n + q)
    BY Zenon DEF Gathers
<1>1. ASSUME NEW i \in 1..(n + q)
      PROVE  Through(b, n, p, i) = a[lo + i]
  <2>1. CASE i <= n
      BY <2>1, SMT DEF Through, At
  <2>2. CASE i > n
    <3>1. i - n \in 1..q /\ (lo + n) + (i - n) = lo + i /\ ~(i <= n)
        BY <2>2
    <3>2. a[lo + i] = t[i - n]
        BY <3>1 DEF At
    <3>3. t[i - n] = p[i - n]
        BY <3>1 DEF At
    <3>4. QED
        BY <3>1, <3>2, <3>3 DEF Through
  <2>3. QED
      BY <2>1, <2>2
<1>2. ASSUME NEW i \in 1..(n + q)
      PROVE  Through(f, lf, g, i) = a[lo + i]
    BY <1>1, Zenon DEF SameBytes
<1>3. ASSUME NEW i \in 1..lf
      PROVE  a[lo + i] = f[i]
  <2>1. i \in 1..(n + q) /\ i <= lf
      BY DEF SameSum
  <2>2. QED
      BY <1>2, <2>1, Zenon DEF Through
<1>4. ASSUME NEW i \in 1..m
      PROVE  a[(lo + lf) + i] = g[i]
  <2>1. /\ lf + i \in 1..(n + q) /\ ~(lf + i <= lf) /\ (lf + i) - lf = i
        /\ lo + (lf + i) = (lo + lf) + i
      BY DEF SameSum
  <2>2. Through(f, lf, g, lf + i) = a[lo + (lf + i)]
      BY <1>2, <2>1
  <2>3. QED
      BY <2>1, <2>2 DEF Through
<1>5. QED
    BY <1>3, <1>4, Zenon DEF At

LEMMA Appended ==
  ASSUME NEW lo \in Nat, NEW lf \in Nat, NEW a, NEW o, NEW f, NEW u,
         At(a, 0, o, lo), At(a, lo, f, lf), At(u, 0, o, lo), At(u, lo, f, lf)
  PROVE  At(a, 0, u, lo + lf)
<1>1. ASSUME NEW i \in 1..(lo + lf)
      PROVE  a[0 + i] = u[i]
  <2>1. CASE i <= lo
      BY <2>1 DEF At
  <2>2. CASE i > lo
    <3>1. i - lo \in 1..lf /\ lo + (i - lo) = i
        BY <2>2
    <3>2. QED
        BY <3>1 DEF At
  <2>3. QED
      BY <2>1, <2>2
<1>2. QED
    BY <1>1 DEF At

LEMMA Pieces ==
  ASSUME NEW x \in Nat, NEW n \in Nat, NEW l \in Nat, NEW e, e = n + l,
         NEW a, NEW t, NEW r, At(a, x, t, e), At(t, n, r, l)
  PROVE  At(a, x, t, n) /\ At(a, x + n, r, l)
<1>1. At(a, x, t, n)
    BY DEF At
<1>2. ASSUME NEW i \in 1..l
      PROVE  a[(x + n) + i] = r[i]
  <2>1. n + i \in 1..e /\ x + (n + i) = (x + n) + i
      OBVIOUS
  <2>2. QED
      BY <2>1 DEF At
<1>3. QED
    BY <1>1, <1>2 DEF At

Sums(k, m, lo, lf, n, l, e, w) ==
  /\ k \in 0..4 /\ m \in 0..4 /\ lo \in Nat /\ lf \in Nat /\ n \in Nat /\ l \in Nat
  /\ e = n + l
  /\ w = (lo + k) + e
  /\ lf + m = k + n
  /\ m = Least(k + n, 4)
  /\ k < 4 => lo = 0

SummedUp(k, m, lo, lf, n, l, w) ==
  /\ (lo + lf) + m = (lo + k) + n
  /\ w = ((lo + lf) + m) + l
  /\ m < 4 => lo + lf = 0

LEMMA KeptSums ==
  ASSUME NEW k, NEW m, NEW lo, NEW lf, NEW n, NEW l, NEW e, NEW w,
         Sums(k, m, lo, lf, n, l, e, w)
  PROVE  SummedUp(k, m, lo, lf, n, l, w)
  BY SMT DEF Least, Sums, SummedUp

LEMMA CbufGathers ==
  ASSUME NEW c, IsCbuf(Bytes, c), NEW o \in Seq(Bytes), NEW t \in Seq(Bytes),
         NEW a, Gathered(c, o, t, a), NEW n \in 1..Len(t)
  PROVE  LET p == SubSeq(t, 1, n)
             u == o \o CbufFlushes(c, p)
             r == SubSeq(t, n + 1, Len(t))
         IN  /\ IsCbuf(Bytes, CbufWrite(c, p))
             /\ u \in Seq(Bytes) /\ r \in Seq(Bytes)
             /\ Gathered(CbufWrite(c, p), u, r, a)
<1> DEFINE p == SubSeq(t, 1, n)
           r == SubSeq(t, n + 1, Len(t))
           d == CbufWrite(c, p)
           f == CbufFlushes(c, p)
           u == o \o f
<1>1. PICK e \in Nat, l \in Nat : /\ e = Len(t) /\ l = e - n /\ n \in Nat
                                  /\ IsSum(e, n, l) /\ e = n + l
    BY DEF IsSum
<1>2. IsSeqOf(Bytes, e, t)
    BY <1>1 DEF IsSeqOf
<1>3. IsSeqOf(Bytes, n, p) /\ At(t, 0, p, n)
    BY <1>1, <1>2, FrontOf, Zenon
<1>4. IsSeqOf(Bytes, l, r) /\ At(t, n, r, l)
  <2>1. IsSeqOf(Bytes, l, SubSeq(t, n + 1, e)) /\ At(t, n, SubSeq(t, n + 1, e), l)
      BY <1>1, <1>2, BackOf, Zenon
  <2>2. QED
      BY <1>1, <2>1, Zenon
<1> HIDE DEF p, r
<1>5. p \in Seq(Bytes) /\ Len(p) = n
    BY <1>3, Zenon DEF IsSeqOf
<1>6. /\ IsCbuf(Bytes, d) /\ f \in Seq(Bytes)
      /\ Len(f) + d.n = c.n + Len(p)
      /\ d.n = Least(c.n + Len(p), 4)
      /\ \A i \in 1..(c.n + Len(p)) :
           Through(f, Len(f), d.buf, i) = Through(c.buf, c.n, p, i)
    BY <1>5, CbufLosesNothing
<1> HIDE DEF d, f
<1>a. c.n \in 0..4 /\ d.n \in 0..4 /\ Len(o) \in Nat /\ Len(f) \in Nat
    BY <1>6 DEF IsCbuf
<1>b. PICK k \in 0..4, m \in 0..4, lo \in Nat, lf \in Nat :
         k = c.n /\ m = d.n /\ lo = Len(o) /\ lf = Len(f)
    BY <1>a, Zenon
<1>7. /\ lf + m = k + n /\ m = Least(k + n, 4)
      /\ IsSum(lo + lf, lo, lf)
      /\ k \in Nat /\ m \in Nat /\ n \in Nat
  <2>1. lf + m = k + n /\ m = Least(k + n, 4)
      BY <1>5, <1>6, <1>b
  <2>2. QED
      BY <1>1, <2>1, SMT DEF IsSum
<1>8. /\ At(a, 0, o, lo) /\ At(a, lo, c.buf, k) /\ At(a, lo + k, t, e)
      /\ Len(a) = (lo + k) + e
      /\ k < 4 => lo = 0
    BY <1>1, <1>b, Zenon DEF Gathered
<1>9. At(a, lo + k, t, n) /\ At(a, (lo + k) + n, r, l)
  <2>1. At(a, lo + k, t, e) /\ At(t, n, r, l)
      BY <1>4, <1>8, Zenon
  <2>2. e = n + l /\ lo + k \in Nat
      BY <1>1
  <2>3. QED
      BY <1>1, <2>1, <2>2, Pieces, Zenon
<1>10. SameBytes(f, lf, d.buf, c.buf, k, p, k + n)
    BY <1>5, <1>6, <1>b, Zenon DEF SameBytes
<1>11. At(a, lo, f, lf) /\ At(a, lo + lf, d.buf, m)
  <2>1. At(t, 0, p, n)
      BY <1>3, Zenon
  <2>2. At(a, lo, c.buf, k) /\ At(a, lo + k, t, n)
      BY <1>8, <1>9, Zenon
  <2>3. SameSum(lf, m, k, n)
      BY <1>7, Zenon DEF SameSum
  <2>4. SameBytes(f, lf, d.buf, c.buf, k, p, k + n)
      BY <1>10, Zenon
  <2>5. lf \in Nat /\ m \in Nat /\ k \in Nat /\ n \in Nat /\ lo \in Nat
      BY <1>7, Zenon
  <2>6. Gathers(lo, k, n, lf, m, a, c.buf, p, t, f, d.buf)
      BY <2>1, <2>2, <2>3, <2>4, <2>5, Zenon DEF Gathers
  <2>7. QED
      BY <2>6, Gathering, Zenon
<1>12. IsSeqOf(Bytes, lo + lf, u) /\ At(u, 0, o, lo) /\ At(u, lo, f, lf)
  <2>1. IsSeqOf(Bytes, lo, o) /\ IsSeqOf(Bytes, lf, f)
      BY <1>6, <1>b, Zenon DEF IsSeqOf
  <2>2. QED
      BY <1>7, <2>1, Behind, Zenon
<1> HIDE DEF u
<1>13. At(a, 0, u, lo + lf)
    BY <1>7, <1>8, <1>11, <1>12, Appended, Zenon
<1>14. /\ (lo + lf) + m = (lo + k) + n /\ Len(a) = ((lo + lf) + m) + l
       /\ m < 4 => lo + lf = 0
  <2>1. Len(a) = (lo + k) + e /\ e = n + l /\ (k < 4 => lo = 0)
      BY <1>1, <1>8, Zenon
  <2>2. Sums(k, m, lo, lf, n, l, e, Len(a))
      BY <1>1, <1>7, <2>1, Zenon DEF Sums
  <2>3. SummedUp(k, m, lo, lf, n, l, Len(a))
      BY <2>2, KeptSums, Zenon
  <2>4. QED
      BY <2>3, Zenon DEF SummedUp
<1>15. u \in Seq(Bytes) /\ Len(u) = lo + lf /\ r \in Seq(Bytes) /\ Len(r) = l
    BY <1>4, <1>12, Zenon DEF IsSeqOf
<1>16. Gathered(d, u, r, a)
  <2>1. /\ Len(a) = (Len(u) + d.n) + Len(r)
        /\ d.n < 4 => Len(u) = 0
      BY <1>b, <1>14, <1>15
  <2>2. At(a, 0, u, Len(u)) /\ At(a, Len(u), d.buf, d.n)
      BY <1>b, <1>11, <1>13, <1>15
  <2>3. At(a, Len(u) + d.n, r, Len(r))
      BY <1>b, <1>9, <1>14, <1>15
  <2>4. QED
      BY <2>1, <2>2, <2>3, Zenon DEF Gathered
<1>17. QED
    BY <1>6, <1>15, <1>16 DEF d, f, u, r, p

LEMMA SuffixIs ==
  ASSUME NEW S, NEW s \in Seq(S), NEW t \in Seq(S)
  PROVE  IsSuffix(s, t) <=> /\ Len(s) <= Len(t)
                            /\ At(t, Len(t) - Len(s), s, Len(s))
<1>1. PICK k \in Nat, n \in Nat : k = Len(s) /\ n = Len(t)
    OBVIOUS
<1> DEFINE u == Reverse(s)
           v == Reverse(t)
<1>2. /\ u \in Seq(S) /\ Len(u) = k
      /\ \A i \in 1..k : u[i] = s[(k - i) + 1]
    BY <1>1 DEF Reverse
<1>3. /\ v \in Seq(S) /\ Len(v) = n
      /\ \A i \in 1..n : v[i] = t[(n - i) + 1]
    BY <1>1 DEF Reverse
<1>4. IsSuffix(s, t) <=> k <= n /\ SubSeq(u, 1, k) = SubSeq(v, 1, k)
    BY <1>2, <1>3 DEF IsSuffix, IsPrefix
<1> HIDE DEF u, v
<1>5. CASE k <= n
  <2>1. /\ SubSeq(u, 1, k) \in Seq(S) /\ Len(SubSeq(u, 1, k)) = k
        /\ \A i \in 1..k : SubSeq(u, 1, k)[i] = u[i]
      BY <1>2
  <2>2. /\ SubSeq(v, 1, k) \in Seq(S) /\ Len(SubSeq(v, 1, k)) = k
        /\ \A i \in 1..k : SubSeq(v, 1, k)[i] = v[i]
      BY <1>3, <1>5
  <2>3. SubSeq(u, 1, k) = SubSeq(v, 1, k) <=> \A i \in 1..k : u[i] = v[i]
      BY <2>1, <2>2
  <2>4. ASSUME NEW i \in 1..k
        PROVE  u[i] = v[i] <=> s[(k - i) + 1] = t[(n - k) + ((k - i) + 1)]
    <3>1. (n - i) + 1 = (n - k) + ((k - i) + 1) /\ i \in 1..n
        BY <1>5
    <3>2. QED
        BY <1>2, <1>3, <3>1
  <2>5. (\A i \in 1..k : u[i] = v[i]) <=> \A j \in 1..k : t[(n - k) + j] = s[j]
    <3>1. ASSUME \A i \in 1..k : u[i] = v[i], NEW j \in 1..k
          PROVE  t[(n - k) + j] = s[j]
      <4>1. (k - j) + 1 \in 1..k /\ (k - ((k - j) + 1)) + 1 = j
          OBVIOUS
      <4>2. QED
          BY <2>4, <3>1, <4>1
    <3>2. ASSUME \A j \in 1..k : t[(n - k) + j] = s[j], NEW i \in 1..k
          PROVE  u[i] = v[i]
      <4>1. (k - i) + 1 \in 1..k
          OBVIOUS
      <4>2. QED
          BY <2>4, <3>2, <4>1
    <3>3. QED
        BY <3>1, <3>2
  <2>6. QED
      BY <1>1, <1>4, <1>5, <2>3, <2>5 DEF At
<1>6. CASE ~(k <= n)
    BY <1>1, <1>4, <1>6
<1>7. QED
    BY <1>5, <1>6

LEMMA BytesDiffer ==
  Zero # Byte(255) /\ Byte(1) # Byte(255)
<1>1. Zero.v = 0 /\ Byte(255).v = 255 /\ Byte(1).v = 1
    BY DEF Zero, Byte
<1>2. QED
    BY <1>1

(* When the compressor has written everything, checkTail sees the last     *)
(* four bytes of it, and cbuf's zeros do not complete a tail.              *)
LEMMA TailTells ==
  ASSUME NEW c, IsCbuf(Bytes, c), NEW o \in Seq(Bytes), NEW a \in Seq(Bytes),
         Gathered(c, o, <<>>, a)
  PROVE  CheckTail(c) <=> IsSuffix(CompressionTail, a)
<1>1. /\ c.buf \in Seq(Bytes) /\ Len(c.buf) = 4 /\ c.n \in 0..4
      /\ \A i \in 1..4 : i > c.n => c.buf[i] = Zero
    BY DEF IsCbuf
<1>2. /\ Len(o) \in Nat /\ Len(a) = Len(o) + c.n
      /\ At(a, Len(o), c.buf, c.n)
      /\ c.n < 4 => Len(o) = 0
    BY <1>1 DEF Gathered
<1>3. IsSuffix(CompressionTail, a) <=>
        4 <= Len(a) /\ At(a, Len(a) - 4, CompressionTail, 4)
    BY TailIs, SuffixIs
<1>4. CASE c.n = 4
  <2>1. Len(a) - 4 = Len(o) /\ 4 <= Len(a)
      BY <1>2, <1>4
  <2>2. At(a, Len(o), c.buf, 4)
      BY <1>2, <1>4
  <2>3. IsSuffix(CompressionTail, a) <=> At(a, Len(o), CompressionTail, 4)
      BY <1>3, <2>1
  <2>4. At(a, Len(o), CompressionTail, 4) <=>
          \A i \in 1..4 : c.buf[i] = CompressionTail[i]
      BY <2>2, SMT DEF At
  <2>5. c.buf = CompressionTail <=> \A i \in 1..4 : c.buf[i] = CompressionTail[i]
      BY <1>1, TailIs, SMTT(40)
  <2>6. QED
      BY <2>3, <2>4, <2>5 DEF CheckTail
<1>5. CASE c.n < 4
  <2>1. c.buf[4] = Zero /\ ~(4 <= Len(a))
      BY <1>1, <1>2, <1>5
  <2>2. c.buf # CompressionTail
      BY <2>1, TailIs, BytesDiffer
  <2>3. QED
      BY <1>3, <2>1, <2>2 DEF CheckTail
<1>6. QED
    BY <1>1, <1>4, <1>5

(* What a message is deflated to.                                          *)
LEMMA DeflatedIs ==
  ASSUME NEW p \in Seq(Bytes)
  PROVE  /\ Deflated(p) \in Seq(Bytes)
         /\ Len(Deflated(p)) = Len(p) + 5
         /\ Deflated(p)[1] = Byte(1)
         /\ At(Deflated(p), 1, p, Len(p))
         /\ At(Deflated(p), Len(p) + 1, CompressionTail, 4)
<1>1. Byte(1) \in Bytes
    BY BytesAre
<1>2. <<Byte(1)>> \in Seq(Bytes) /\ Len(<<Byte(1)>>) = 1
    BY <1>1
<1> DEFINE u == <<Byte(1)>> \o p
<1>3. /\ u \in Seq(Bytes) /\ Len(u) = Len(p) + 1 /\ u[1] = Byte(1)
      /\ \A i \in 1..Len(p) : u[1 + i] = p[i]
    BY <1>2
<1>4. Deflated(p) = u \o CompressionTail
    BY DEF Deflated
<1> HIDE DEF u
<1> DEFINE w == u \o CompressionTail
<1>5. /\ w \in Seq(Bytes) /\ Len(w) = Len(u) + 4
      /\ \A i \in 1..Len(u) : w[i] = u[i]
      /\ At(w, Len(u), CompressionTail, 4)
  <2>1. IsSum(Len(u) + 4, Len(u), 4)
      BY <1>3 DEF IsSum
  <2>2. IsSeqOf(Bytes, Len(u), u) /\ IsSeqOf(Bytes, 4, CompressionTail)
      BY <1>3, TailIs, Zenon DEF IsSeqOf
  <2>3. /\ IsSeqOf(Bytes, Len(u) + 4, w) /\ At(w, 0, u, Len(u))
        /\ At(w, Len(u), CompressionTail, 4)
      BY <2>1, <2>2, Behind, Zenon
  <2>4. QED
      BY <1>3, <2>3 DEF IsSeqOf, At
<1> HIDE DEF w
<1>6. Len(w) = Len(p) + 5 /\ w[1] = Byte(1)
    BY <1>3, <1>5
<1>7. At(w, 1, p, Len(p))
    BY <1>3, <1>5 DEF At
<1>8. At(w, Len(p) + 1, CompressionTail, 4)
    BY <1>3, <1>5
<1>9. QED
    BY <1>4, <1>5, <1>6, <1>7, <1>8 DEF w

-----------------------------------------------------------------------------
(* What a step of Write does to the writing side.                          *)
writerSide == <<fixed, callVars, writerVars>>

LEMMA WInvInit == Init => WInv
<1> SUFFICES ASSUME Init PROVE WInv
    OBVIOUS
<1>1. Zero \in Bytes
    BY BytesAre
<1>2. IsCbuf(Bytes, CbufReset)
    BY <1>1 DEF IsCbuf, CbufReset
<1>3. Int64(0) /\ Int64(1)
  <2>1. 0 \div 65536 = 0 /\ 1 \div 65536 = 0
      BY SMT
  <2>2. QED
      BY <2>1 DEF Int64, Word3
<1>4. Settled
  <2>1. MaxWrites \in Nat
      BY WsWireAssumption, Zenon
  <2>2. 0 \in 0..MaxWrites
      BY <2>1
  <2>3. QED
      BY <2>2, Zenon DEF Init, Settled
<1>5. Slices
    BY <1>3 DEF Init, Slices
<1>6. SliceKept
    BY DEF Init, SliceKept
<1>7. Written
    BY <1>2 DEF Init, Written
<1>8. QED
    BY <1>4, <1>5, <1>6, <1>7 DEF WInv

LEMMA WInvUnchanged ==
  ASSUME WInv, UNCHANGED writerSide
  PROVE  WInv'
  BY DEF WInv, Settled, Slices, SliceKept, Written, Compresses, Ciphered,
         Gathered, writerSide, fixed, callVars, writerVars

LEMMA FillsKeeps ==
  ASSUME WInv, NEW n \in Lens, Fills(n)
  PROVE  WInv'
<1>1. /\ wpc = "idle" /\ slice' = Fresh(writes + 1, n) /\ filled' = slice'
      /\ UNCHANGED <<client, deflate, writes, wpc, todo, total, cbuf, out, werr>>
    BY DEF Fills, fixed, writerVars
<1>2. writes \in Nat /\ n \in Nat /\ Int64(n) /\ Int64(n + 1)
    BY WsWireAssumption DEF WInv, Settled, Int64
<1>3. \A i \in 1..n : 1000 * (writes + 1) + i \in Nat
    BY <1>2
<1>4. \A i \in 1..n : Byte(1000 * (writes + 1) + i) \in Bytes
    BY <1>3, BytesAre
<1>5. slice' \in Seq(Bytes) /\ Len(slice') = n
    BY <1>1, <1>2, <1>4 DEF Fresh
<1>6. ASSUME NEW i \in 1..n
      PROVE  slice'[i] # Byte(255)
  <2>1. slice'[i] = Byte(1000 * (writes + 1) + i)
      BY <1>1, <1>2 DEF Fresh
  <2>2. 1000 * (writes + 1) + i # 255
      BY <1>2
  <2>3. slice'[i].v = 1000 * (writes + 1) + i /\ Byte(255).v = 255
      BY <2>1 DEF Byte
  <2>4. QED
      BY <2>2, <2>3
<1>7. Settled'
    BY <1>1 DEF WInv, Settled
<1>8. Slices'
    BY <1>1, <1>2, <1>5, <1>6 DEF Slices
<1>9. SliceKept'
    BY <1>1 DEF SliceKept
<1>10. Written'
    BY <1>1 DEF WInv, Written
<1>11. QED
    BY <1>7, <1>8, <1>9, <1>10 DEF WInv

LEMMA WritesPlainKeeps ==
  ASSUME WInv, WritesPlain
  PROVE  WInv'
<1>1. /\ wpc = "idle" /\ writes < MaxWrites /\ writes' = writes + 1
      /\ ~Compresses(slice) /\ slice' = Ciphered(slice, writes')
      /\ UNCHANGED <<client, deflate, filled, wpc, todo, total, cbuf, out, werr>>
    BY DEF WritesPlain, Call, fixed, writerVars
<1>2. MaxWrites \in Nat /\ writes \in 0..MaxWrites /\ client \in BOOLEAN
    BY WsWireAssumption DEF WInv, Settled
<1>3. writes' \in 1..MaxWrites
    BY <1>1, <1>2
<1>4. slice \in Seq(Bytes)
    BY DEF WInv, Slices
<1>5. /\ slice' \in Seq(Bytes) /\ Len(slice') = Len(slice)
      /\ ~client => slice' = slice
    BY <1>1, <1>2, <1>3, <1>4, CipheredIs
<1>6. Settled'
    BY <1>1, <1>2, <1>3 DEF WInv, Settled
<1>7. Slices'
    BY <1>1, <1>5 DEF WInv, Slices
<1>8. SliceKept'
    BY <1>1, <1>2, <1>5 DEF WInv, SliceKept, Compresses
<1>9. Written'
    BY <1>1 DEF WInv, Written
<1>10. QED
    BY <1>6, <1>7, <1>8, <1>9 DEF WInv

LEMMA CompressBeginsKeeps ==
  ASSUME WInv, NEW missing \in {0, 1, 4, 5, Len(Deflated(slice))},
         CompressBegins(missing)
  PROVE  WInv'
<1>1. /\ wpc = "idle" /\ writes < MaxWrites /\ writes' = writes + 1
      /\ Compresses(slice) /\ missing <= Len(Deflated(slice))
      /\ cbuf' = CbufReset /\ werr' = FALSE /\ out' = <<>>
      /\ total' = SubSeq(Deflated(slice), 1, Len(Deflated(slice)) - missing)
      /\ todo' = total' /\ wpc' = "deflating"
      /\ UNCHANGED <<client, deflate, slice, filled>>
    BY DEF CompressBegins, Call, fixed, EmptyCbuf
<1>2. MaxWrites \in Nat /\ writes \in 0..MaxWrites /\ slice \in Seq(Bytes)
    BY WsWireAssumption DEF WInv, Settled, Slices
<1>3. Deflated(slice) \in Seq(Bytes)
    BY <1>2, DeflatedIs
<1>4. PICK x \in 0..Len(Deflated(slice)) : x = Len(Deflated(slice)) - missing
  <2>1. Len(Deflated(slice)) \in Nat /\ missing \in Nat
      BY <1>3
  <2>2. QED
      BY <1>1, <2>1
<1>5. total' = SubSeq(Deflated(slice), 1, x) /\ total' \in Seq(Bytes)
    BY <1>1, <1>3, <1>4
<1>6. IsCbuf(Bytes, CbufReset) /\ CbufReset.n = 0
    BY BytesAre DEF IsCbuf, CbufReset
<1>7. Gathered(CbufReset, <<>>, total', total')
    BY <1>5, <1>6 DEF Gathered, At
<1>8. Settled'
  <2>1. /\ writes < MaxWrites /\ writes' = writes + 1
        /\ MaxWrites \in Nat /\ writes \in 0..MaxWrites
      BY <1>1, <1>2, Zenon
  <2>2. writes' \in 0..MaxWrites
      BY <2>1
  <2>3. QED
      BY <1>1, <2>2 DEF WInv, Settled
<1>9. Slices' /\ SliceKept'
    BY <1>1 DEF WInv, Slices, SliceKept, Compresses
<1>10. Written'
  <2>1. Compresses(slice)' /\ writes' > 0
      BY <1>1, <1>2 DEF Compresses
  <2>2. <<>> \in Seq(Bytes)
      OBVIOUS
  <2>3. (Deflated(slice))' = Deflated(slice)
      BY <1>1 DEF Deflated
  <2>4. QED
      BY <1>1, <1>5, <1>6, <1>7, <2>1, <2>2, <2>3 DEF Written
<1>11. QED
    BY <1>8, <1>9, <1>10 DEF WInv

LEMMA CompressorWritesKeeps ==
  ASSUME WInv, NEW n \in 1..Len(todo), CompressorWrites(n)
  PROVE  WInv'
<1>1. /\ wpc = "deflating"
      /\ cbuf' = CbufWrite(cbuf, SubSeq(todo, 1, n))
      /\ out' = out \o CbufFlushes(cbuf, SubSeq(todo, 1, n))
      /\ todo' = SubSeq(todo, n + 1, Len(todo))
      /\ UNCHANGED <<client, deflate, slice, filled, writes, wpc, total, werr>>
    BY DEF CompressorWrites, fixed, callVars
<1>2. /\ IsCbuf(Bytes, cbuf) /\ out \in Seq(Bytes) /\ todo \in Seq(Bytes)
      /\ Gathered(cbuf, out, todo, total)
    BY <1>1 DEF WInv, Written
<1>3. /\ IsCbuf(Bytes, cbuf') /\ out' \in Seq(Bytes) /\ todo' \in Seq(Bytes)
      /\ Gathered(cbuf', out', todo', total)
    BY <1>1, <1>2, CbufGathers
<1>4. Settled' /\ Slices' /\ SliceKept'
    BY <1>1 DEF WInv, Settled, Slices, SliceKept, Compresses
<1>5. Written'
    BY <1>1, <1>3 DEF WInv, Written, Compresses, Deflated
<1>6. QED
    BY <1>4, <1>5 DEF WInv

LEMMA FlushesKeeps ==
  ASSUME WInv, Flushes
  PROVE  WInv'
<1>1. /\ wpc = "deflating" /\ todo = <<>> /\ wpc' = "flushed"
      /\ werr' = (werr \/ ~CheckTail(cbuf))
      /\ UNCHANGED <<client, deflate, slice, filled, writes, todo, total, cbuf, out>>
    BY DEF Flushes, fixed, callVars
<1>2. werr = FALSE
    BY <1>1 DEF WInv, Written, Settled
<1>3. werr' = ~CheckTail(cbuf)
    BY <1>1, <1>2
<1>4. werr' \in BOOLEAN
    BY <1>1, <1>2
<1>5. Settled' /\ Slices' /\ SliceKept'
    BY <1>1, <1>4 DEF WInv, Settled, Slices, SliceKept, Compresses
<1>6. Written'
    BY <1>1, <1>3 DEF WInv, Written, Compresses, Deflated, CheckTail
<1>7. QED
    BY <1>5, <1>6 DEF WInv

LEMMA WritesCompressedKeeps ==
  ASSUME WInv, WritesCompressed
  PROVE  WInv'
<1>1. /\ wpc = "flushed" /\ wpc' = "idle"
      /\ out' = out \/ out' = Ciphered(out, writes)
      /\ UNCHANGED <<client, deflate, slice, filled, writes, todo, total, cbuf, werr>>
    BY DEF WritesCompressed, fixed, callVars
<1>2. writes \in 1..MaxWrites /\ client \in BOOLEAN /\ out \in Seq(Bytes)
    BY <1>1, WsWireAssumption DEF WInv, Settled, Written
<1>3. out' \in Seq(Bytes)
    BY <1>1, <1>2, CipheredIs
<1>4. Settled' /\ Slices' /\ SliceKept'
    BY <1>1 DEF WInv, Settled, Slices, SliceKept, Compresses
<1>5. Written'
    BY <1>1, <1>3 DEF WInv, Written
<1>6. QED
    BY <1>4, <1>5 DEF WInv

THEOREM WInvHolds == Spec => []WInv
<1>1. WInv /\ [Next]_vars => WInv'
  <2> SUFFICES ASSUME WInv, [Next]_vars PROVE WInv'
      OBVIOUS
  <2>1. CASE UNCHANGED vars
      BY <2>1, WInvUnchanged
      DEF vars, writerSide, fixed, callVars, writerVars
  <2>2. CASE \E n \in Lens : Fills(n)
      BY <2>2, FillsKeeps
  <2>3. CASE WritesPlain
      BY <2>3, WritesPlainKeeps
  <2>4. CASE \E missing \in {0, 1, 4, 5, Len(Deflated(slice))} :
               CompressBegins(missing)
      BY <2>4, CompressBeginsKeeps
  <2>5. CASE \E n \in 1..Len(todo) : CompressorWrites(n)
      BY <2>5, CompressorWritesKeeps
  <2>6. CASE Flushes
      BY <2>6, FlushesKeeps
  <2>7. CASE WritesCompressed
      BY <2>7, WritesCompressedKeeps
  <2>8. CASE NextFrame
      BY <2>8, WInvUnchanged DEF NextFrame, writerSide
  <2>9. CASE \E n \in 1..raw : ReadsChunk(n)
      BY <2>9, WInvUnchanged DEF ReadsChunk, writerSide
  <2>10. CASE \E n \in 1..4 : ReadsSuffix(n)
      BY <2>10, WInvUnchanged DEF ReadsSuffix, writerSide
  <2>11. CASE PlainEnds
      BY <2>11, WInvUnchanged DEF PlainEnds, Ends, writerSide
  <2>12. CASE \E n \in 1..Len(Output) : CompressedEnds(n)
      BY <2>12, WInvUnchanged DEF CompressedEnds, Ends, writerSide
  <2>13. QED
      BY <2>1, <2>2, <2>3, <2>4, <2>5, <2>6, <2>7, <2>8, <2>9, <2>10, <2>11,
         <2>12
      DEF Next
<1>2. QED
    BY <1>1, WInvInit, PTL DEF Spec

(* HeaderSurvives, in every state: packHeader and ReadHeader agree on      *)
(* every length a frame can have, masked or not, compressed or not.        *)
THEOREM HeadersAlwaysSurvive == Spec => []HeaderSurvives
<1>1. WInv => HeaderSurvives
    BY AllSurvive DEF WInv, Settled
<1>2. QED
    BY <1>1, WInvHolds, PTL

(* SliceKept: Write (transport.go lines 247-372) leaves the slice of its   *)
(* caller alone, a client's uncompressed message excepted.                 *)
THEOREM SliceAlwaysKept == Spec => []SliceKept
<1>1. WInv => SliceKept
    BY DEF WInv
<1>2. QED
    BY <1>1, WInvHolds, PTL

(* TailDecides: FlateWriter.Flush refuses a message exactly if what the    *)
(* compressor wrote for it does not end in the tail (checkTail and cbuf,   *)
(* flate_wrapper.go).                                                      *)
THEOREM TailAlwaysDecides == Spec => []TailDecides
<1>1. WInv => TailDecides
  <2> SUFFICES ASSUME WInv, wpc = "flushed"
               PROVE  werr <=> ~IsSuffix(CompressionTail, total)
      BY DEF TailDecides
  <2>1. /\ IsCbuf(Bytes, cbuf) /\ out \in Seq(Bytes) /\ total \in Seq(Bytes)
        /\ Gathered(cbuf, out, <<>>, total)
        /\ werr <=> ~CheckTail(cbuf)
      BY DEF WInv, Written
  <2>2. CheckTail(cbuf) <=> IsSuffix(CompressionTail, total)
      BY <2>1, TailTells
  <2>3. QED
      BY <2>1, <2>2
<1>2. QED
    BY <1>1, WInvHolds, PTL

-----------------------------------------------------------------------------
(* The way to the reader.  All bytes that were ever sent are W; message i  *)
(* is the frame between cut[i - 1] and cut[i].                             *)

Plain(h, p) == IF h.masked THEN FastCipher(p, h.mask, 0) ELSE p

(* A frame of header h and payload p brings message m; a compressed one    *)
(* brings the compressor's output without its tail, where compression was  *)
(* negotiated and for a message that is long enough: of a length in z.     *)
Carries(z, h, p, m) ==
  /\ h \in Frames
  /\ h.compressed => Len(m) \in z
  /\ p \in Seq(Bytes) /\ Len(p) = h.length
  /\ Plain(h, p) = IF h.compressed THEN <<Byte(1)>> \o m ELSE m

FrameAt(z, W, a, b, m) ==
  \E h, p : /\ Carries(z, h, p, m)
            /\ StandsAt(W, a, PackHeader(h))
            /\ StandsAt(W, a + Len(PackHeader(h)), p)
            /\ b = (a + Len(PackHeader(h))) + Len(p)

Rising(cut, k) == \A i, j \in 0..k : i < j => cut[i] < cut[j]

Sent(z, W, cut, ms) ==
  /\ W \in Seq(WireBytes) /\ cut \in [Nat -> Nat]
  /\ cut[Len(ms)] = Len(W)
  /\ Rising(cut, Len(ms))
  /\ \A i \in 1..Len(ms) : FrameAt(z, W, cut[i - 1], cut[i], ms[i])

(* The first d bytes of W have been read, w are on their way.              *)
Left(W, d, w) ==
  /\ d \in Nat /\ w \in Seq(WireBytes)
  /\ Len(W) = d + Len(w)
  /\ At(W, d, w, Len(w))

LEMMA WireTypes ==
  /\ \A s : s \in Seq(Bytes) => s \in Seq(WireBytes)
  /\ \A h \in Frames : /\ PackHeader(h) \in Seq(WireBytes)
                       /\ Len(PackHeader(h)) \in Nat
                       /\ Len(PackHeader(h)) >= 2
<1>1. ASSUME NEW s \in Seq(Bytes)
      PROVE  s \in Seq(WireBytes)
  <2>1. \A i \in 1..Len(s) : s[i] \in WireBytes
      BY DEF WireBytes
  <2>2. QED
      BY <2>1
<1>2. ASSUME NEW h \in Frames
      PROVE  /\ PackHeader(h) \in Seq(WireBytes)
             /\ Len(PackHeader(h)) \in Nat
             /\ Len(PackHeader(h)) >= 2
  <2> DEFINE x == PackHeader(h)
  <2>1. x \in Seq(Nat \cup MaskBytes) /\ Len(x) = 2 + Ext(h.length) + Len(h.mask)
      BY HeaderBytes DEF Frames
  <2>2. h.length \in Nat /\ Len(h.mask) \in Nat
      BY DEF Frames, HeadersOf
  <2>3. Ext(h.length) \in Nat
      BY <2>2 DEF Ext
  <2> HIDE DEF x
  <2>4. \A i \in 1..Len(x) : x[i] \in WireBytes
      BY <2>1 DEF WireBytes
  <2>5. x \in Seq(WireBytes)
      BY <2>1, <2>4
  <2>6. QED
      BY <2>1, <2>2, <2>3, <2>5 DEF x
<1>3. QED
    BY <1>1, <1>2

(* What stands somewhere stays there when something is added behind it.    *)
LEMMA StandsOn ==
  ASSUME NEW S, NEW W \in Seq(S), NEW x \in Seq(S), NEW a \in Nat,
         NEW s \in Seq(S), StandsAt(W, a, s)
  PROVE  StandsAt(W \o x, a, s)
  BY DEF StandsAt

LEMMA StandsBehind ==
  ASSUME NEW S, NEW W \in Seq(S), NEW x \in Seq(S)
  PROVE  /\ W \o x \in Seq(S) /\ Len(W \o x) = Len(W) + Len(x)
         /\ StandsAt(W \o x, Len(W), x)
  BY DEF StandsAt

LEMMA InFront ==
  ASSUME NEW S, NEW u \in Seq(S), NEW x \in Seq(S)
  PROVE  /\ u \o x \in Seq(S) /\ Len(u \o x) = Len(u) + Len(x)
         /\ \A i \in 1..Len(u) : (u \o x)[i] = u[i]
  OBVIOUS

LEMMA FrameStays ==
  ASSUME NEW z, NEW W \in Seq(WireBytes), NEW x \in Seq(WireBytes), NEW a \in Nat,
         NEW b, NEW m, FrameAt(z, W, a, b, m)
  PROVE  FrameAt(z, W \o x, a, b, m)
<1>1. PICK h, p : /\ Carries(z, h, p, m)
                  /\ StandsAt(W, a, PackHeader(h))
                  /\ StandsAt(W, a + Len(PackHeader(h)), p)
                  /\ b = (a + Len(PackHeader(h))) + Len(p)
    BY DEF FrameAt
<1>2. /\ PackHeader(h) \in Seq(WireBytes) /\ p \in Seq(WireBytes)
      /\ Len(PackHeader(h)) \in Nat
    BY <1>1, WireTypes DEF Carries
<1>3. a + Len(PackHeader(h)) \in Nat
    BY <1>2
<1>4. StandsAt(W \o x, a, PackHeader(h))
    BY <1>1, <1>2, StandsOn, Zenon
<1>5. StandsAt(W \o x, a + Len(PackHeader(h)), p)
    BY <1>1, <1>2, <1>3, StandsOn, Zenon
<1>6. QED
    BY <1>1, <1>4, <1>5 DEF FrameAt

LEMMA FrameSent ==
  ASSUME NEW z, NEW W \in Seq(WireBytes), NEW h, NEW p, NEW m, Carries(z, h, p, m)
  PROVE  LET V == (W \o PackHeader(h)) \o p
         IN  /\ V \in Seq(WireBytes)
             /\ Len(V) \in Nat /\ Len(V) > Len(W)
             /\ FrameAt(z, V, Len(W), Len(V), m)
<1> DEFINE x == PackHeader(h)
           U == W \o x
           V == U \o p
<1>1. /\ x \in Seq(WireBytes) /\ p \in Seq(WireBytes)
      /\ Len(x) \in Nat /\ Len(x) >= 2 /\ Len(p) \in Nat /\ Len(W) \in Nat
    BY WireTypes DEF Carries
<1> HIDE DEF x
<1>2. U \in Seq(WireBytes) /\ Len(U) = Len(W) + Len(x) /\ StandsAt(U, Len(W), x)
    BY <1>1, StandsBehind, Zenon
<1> HIDE DEF U
<1>3. V \in Seq(WireBytes) /\ Len(V) = Len(U) + Len(p) /\ StandsAt(V, Len(U), p)
    BY <1>1, <1>2, StandsBehind, Zenon
<1>4. StandsAt(V, Len(W), x)
    BY <1>1, <1>2, StandsOn, Zenon
<1> HIDE DEF V
<1>5. Len(V) = (Len(W) + Len(x)) + Len(p) /\ Len(V) > Len(W) /\ Len(V) \in Nat
    BY <1>1, <1>2, <1>3
<1>6. StandsAt(V, Len(W) + Len(x), p)
    BY <1>2, <1>3
<1>7. FrameAt(z, V, Len(W), Len(V), m)
    BY <1>4, <1>5, <1>6 DEF FrameAt, x
<1>8. QED
    BY <1>3, <1>5, <1>7 DEF V, U, x

(* The end of one more frame.                                              *)
CutMore(cut, k, e) == [cut EXCEPT ![k + 1] = e]

LEMMA SentMore ==
  ASSUME NEW z, NEW ms \in Seq(Seq(Bytes)), NEW m \in Seq(Bytes), NEW W, NEW cut,
         Sent(z, W, cut, ms), NEW h, NEW p, Carries(z, h, p, m)
  PROVE  LET V == (W \o PackHeader(h)) \o p
         IN  Sent(z, V, CutMore(cut, Len(ms), Len(V)), Append(ms, m))
<1> DEFINE x == PackHeader(h)
           V == (W \o x) \o p
           all == Append(ms, m)
<1>1. PICK k \in Nat : k = Len(ms)
    OBVIOUS
<1> DEFINE new == CutMore(cut, k, Len(V))
<1>2. /\ W \in Seq(WireBytes) /\ cut \in [Nat -> Nat] /\ cut[k] = Len(W)
      /\ Rising(cut, k)
      /\ \A i \in 1..k : FrameAt(z, W, cut[i - 1], cut[i], ms[i])
    BY <1>1 DEF Sent
<1>a. cut \in [Nat -> Nat]
    BY <1>2, Zenon
<1>3. /\ V \in Seq(WireBytes) /\ Len(V) \in Nat /\ Len(V) > Len(W)
      /\ FrameAt(z, V, Len(W), Len(V), m)
    BY <1>2, FrameSent
<1>4. all \in Seq(Seq(Bytes)) /\ Len(all) = k + 1 /\ all[k + 1] = m
      /\ \A i \in 1..k : all[i] = ms[i]
    BY <1>1
<1>5. x \in Seq(WireBytes) /\ p \in Seq(WireBytes)
    BY WireTypes DEF Carries
<1>6. ASSUME NEW i \in 1..k
      PROVE  FrameAt(z, V, cut[i - 1], cut[i], ms[i])
  <2> i - 1 \in Nat
      OBVIOUS
  <2> cut[i - 1] \in Nat
      BY <1>a
  <2>1. cut[i - 1] \in Nat /\ FrameAt(z, W, cut[i - 1], cut[i], ms[i])
      BY <1>2, Zenon
  <2>2. FrameAt(z, W \o x, cut[i - 1], cut[i], ms[i])
      BY <1>2, <1>5, <2>1, FrameStays, Zenon
  <2>3. W \o x \in Seq(WireBytes)
      BY <1>2, <1>5
  <2>4. QED
      BY <1>5, <2>1, <2>2, <2>3, FrameStays, Zenon
<1> HIDE DEF V, all
<1>7. /\ new \in [Nat -> Nat] /\ new[k + 1] = Len(V)
      /\ \A i \in 0..k : new[i] = cut[i]
  <2>1. Len(V) \in Nat /\ k + 1 \in Nat
      BY <1>3
  <2>2. QED
      BY <1>a, <2>1, SMTT(40) DEF CutMore
<1> HIDE DEF new
<1>8. Rising(new, k + 1)
  <2> SUFFICES ASSUME NEW i \in 0..(k + 1), NEW j \in 0..(k + 1), i < j
               PROVE  new[i] < new[j]
      BY DEF Rising
  <2>1. CASE j <= k
    <3>1. i \in 0..k /\ j \in 0..k
        BY <2>1
    <3>2. QED
        BY <1>2, <1>7, <3>1 DEF Rising
  <2>2. CASE j = k + 1
    <3>1. i \in 0..k /\ k \in 0..k
        BY <2>2
    <3>2. cut[i] \in Nat /\ cut[k] \in Nat
        BY <1>a, <3>1
    <3>3. i < k => cut[i] < cut[k]
        BY <1>2, <3>1 DEF Rising
    <3>4. cut[i] <= cut[k]
        BY <3>1, <3>2, <3>3
    <3>5. QED
        BY <1>2, <1>3, <1>7, <2>2, <3>1, <3>2, <3>4
  <2>3. QED
      BY <2>1, <2>2
<1>9. ASSUME NEW i \in 1..(k + 1)
      PROVE  FrameAt(z, V, new[i - 1], new[i], all[i])
  <2>1. CASE i <= k
    <3>1. i - 1 \in 0..k /\ i \in 0..k /\ i \in 1..k
        BY <2>1
    <3>2. QED
        BY <1>4, <1>6, <1>7, <3>1
  <2>2. CASE i = k + 1
    <3>1. i - 1 = k /\ k \in 0..k
        BY <2>2
    <3>2. QED
        BY <1>2, <1>3, <1>4, <1>7, <2>2, <3>1
  <2>3. QED
      BY <2>1, <2>2
<1>10. Sent(z, V, new, all)
    BY <1>3, <1>4, <1>7, <1>8, <1>9 DEF Sent
<1>11. QED
    BY <1>1, <1>7, <1>10 DEF V, all, x, new

(* More is sent, and some of what was sent is read.                        *)
LEMMA LeftMore ==
  ASSUME NEW W \in Seq(WireBytes), NEW d, NEW w, Left(W, d, w),
         NEW x \in Seq(WireBytes)
  PROVE  Left(W \o x, d, w \o x)
<1>1. /\ d \in Nat /\ w \in Seq(WireBytes) /\ Len(W) = d + Len(w)
      /\ \A i \in 1..Len(w) : W[d + i] = w[i]
    BY DEF Left, At
<1> DEFINE V == W \o x
           v == w \o x
<1>2. /\ V \in Seq(WireBytes) /\ Len(V) = Len(W) + Len(x)
      /\ \A i \in 1..Len(W) : V[i] = W[i]
      /\ \A i \in 1..Len(x) : V[Len(W) + i] = x[i]
    OBVIOUS
<1>3. /\ v \in Seq(WireBytes) /\ Len(v) = Len(w) + Len(x)
      /\ \A i \in 1..Len(w) : v[i] = w[i]
      /\ \A i \in 1..Len(x) : v[Len(w) + i] = x[i]
    BY <1>1
<1> HIDE DEF V, v
<1>4. PICK n \in Nat, l \in Nat : n = Len(w) /\ l = Len(x)
    BY <1>1
<1>5. ASSUME NEW i \in 1..(n + l)
      PROVE  V[d + i] = v[i]
  <2>1. CASE i <= n
    <3>1. i \in 1..n /\ d + i \in 1..(d + n)
        BY <1>1, <2>1
    <3>2. QED
        BY <1>1, <1>2, <1>3, <1>4, <3>1
  <2>2. CASE i > n
    <3>1. i - n \in 1..l /\ n + (i - n) = i /\ (d + n) + (i - n) = d + i
        BY <1>1, <2>2
    <3>2. V[(d + n) + (i - n)] = x[i - n] /\ v[n + (i - n)] = x[i - n]
        BY <1>1, <1>2, <1>3, <1>4, <3>1
    <3>3. QED
        BY <3>1, <3>2
  <2>3. QED
      BY <2>1, <2>2
<1>6. Len(V) = d + Len(v) /\ Len(v) = n + l
    BY <1>1, <1>2, <1>3, <1>4
<1>7. At(V, d, v, Len(v))
    BY <1>5, <1>6 DEF At
<1>8. QED
    BY <1>1, <1>3, <1>6, <1>7 DEF Left, V, v

LEMMA LeftLess ==
  ASSUME NEW W \in Seq(WireBytes), NEW d, NEW w, Left(W, d, w),
         NEW n \in 0..Len(w)
  PROVE  Left(W, d + n, SubSeq(w, n + 1, Len(w)))
<1>1. /\ d \in Nat /\ w \in Seq(WireBytes) /\ Len(W) = d + Len(w)
      /\ \A i \in 1..Len(w) : W[d + i] = w[i]
    BY DEF Left, At
<1>2. PICK e \in Nat : e = Len(w)
    BY <1>1
<1> DEFINE v == SubSeq(w, n + 1, e)
<1>3. /\ v \in Seq(WireBytes) /\ Len(v) = e - n
      /\ \A i \in 1..(e - n) : v[i] = w[n + i]
    BY <1>1, <1>2
<1> HIDE DEF v
<1>4. ASSUME NEW i \in 1..(e - n)
      PROVE  W[(d + n) + i] = v[i]
  <2>1. n + i \in 1..e /\ d + (n + i) = (d + n) + i
      BY <1>1, <1>2
  <2>2. QED
      BY <1>1, <1>2, <1>3, <2>1
<1>5. At(W, d + n, v, Len(v))
    BY <1>3, <1>4 DEF At
<1>6. d + n \in Nat /\ Len(W) = (d + n) + Len(v)
    BY <1>1, <1>2, <1>3
<1>7. QED
    BY <1>2, <1>3, <1>5, <1>6 DEF Left, v

-----------------------------------------------------------------------------
(* The reading side.                                                       *)

RTypes ==
  /\ raw \in Nat /\ suffix \in 0..4 /\ in \in Seq(Bytes)
  /\ cipher \in [m : Seq(Nat \cup MaskBytes), pos : 0..3]
  /\ ~InFrame => suffix = 0

(* The lengths of the messages that Write compresses.                      *)
Long == {n \in Nat : deflate /\ n >= Threshold}

Delivered ==
  /\ got \in Seq(Seq(Bytes)) /\ lost \in Seq(Seq(Bytes))
  /\ want \in Seq(Seq(Bytes))
  /\ Len(lost) = Len(got) /\ Len(got) <= Len(want)
  /\ \A i \in 1..Len(got) :
       /\ got[i] \o lost[i] = want[i]
       /\ lost[i] # <<>> => Len(want[i]) \in Long

(* Between two messages the reader is at the end of a frame; in a message  *)
(* it is raw bytes away from it.                                           *)
Here(cut, d) ==
  IF InFrame THEN Len(got) < Len(want) /\ d + raw = cut[Len(got) + 1]
             ELSE raw = 0 /\ d = cut[Len(got)]

Carried ==
  \E W, cut, d : Sent(Long, W, cut, want) /\ Left(W, d, wire) /\ Here(cut, d)

(* What the reader holds of the frame with payload p that it is in.        *)
Reading(p) ==
  /\ Carries(Long, frame, p, want[Len(got) + 1])
  /\ raw \in 0..Len(p) /\ raw <= Len(wire)
  /\ At(p, Len(p) - raw, wire, raw)
  /\ Len(in) = (Len(p) - raw) + suffix
  /\ At(Plain(frame, p), 0, in, Len(p) - raw)
  /\ At(in, Len(p) - raw, CompressionTail, suffix)
  /\ frame.masked => /\ cipher.m = frame.mask
                     /\ cipher.pos = (Len(p) - raw) % 4
  /\ suffix > 0 => frame.compressed /\ raw = 0

Inside == InFrame => \E p : Reading(p)

RInv == RTypes /\ Delivered /\ Carried /\ Inside

LEMMA RInvInit == Init => RInv
<1> SUFFICES ASSUME Init PROVE RInv
    OBVIOUS
<1>1. /\ ~InFrame /\ got = <<>> /\ lost = <<>> /\ want = <<>> /\ wire = <<>>
      /\ raw = 0
    BY DEF Init, InFrame
<1>2. RTypes
  <2>1. NoMask \in Seq(Nat \cup MaskBytes)
      BY DEF NoMask
  <2>2. cipher \in [m : Seq(Nat \cup MaskBytes), pos : 0..3]
      BY <2>1 DEF Init
  <2>3. QED
      BY <2>2 DEF Init, RTypes
<1>3. Delivered
    BY <1>1 DEF Delivered
<1>4. Carried
  <2> DEFINE cut == [i \in Nat |-> 0]
  <2>1. cut \in [Nat -> Nat] /\ cut[0] = 0
      OBVIOUS
  <2>2. Rising(cut, 0)
      BY DEF Rising
  <2> HIDE DEF cut
  <2>3. Sent(Long, <<>>, cut, want)
      BY <1>1, <2>1, <2>2 DEF Sent
  <2>4. Left(<<>>, 0, wire)
      BY <1>1 DEF Left, At
  <2>5. Here(cut, 0)
      BY <1>1, <2>1 DEF Here
  <2>6. QED
      BY <2>3, <2>4, <2>5 DEF Carried
<1>5. Inside
    BY <1>1 DEF Inside
<1>6. QED
    BY <1>2, <1>3, <1>4, <1>5 DEF RInv

LEMMA RInvUnchanged ==
  ASSUME RInv, UNCHANGED <<deflate, wire, want, readerVars>>
  PROVE  RInv'
<1>1. Long' = Long
    BY DEF Long
<1>2. QED
    BY <1>1 DEF RInv, RTypes, Delivered, Carried, Inside, Reading, Here,
                InFrame, readerVars

(* A frame is sent.                                                        *)
LEMMA SendsKeeps ==
  ASSUME RInv, NEW m \in Seq(Bytes), NEW h, NEW p, Carries(Long, h, p, m),
         wire' = wire \o PackHeader(h) \o p, want' = Append(want, m),
         UNCHANGED <<deflate, readerVars>>
  PROVE  RInv'
<1> DEFINE x == PackHeader(h)
<1>1. x \in Seq(WireBytes) /\ p \in Seq(WireBytes)
    BY WireTypes DEF Carries
<1>2. /\ Long' = Long /\ got' = got /\ lost' = lost /\ frame' = frame
      /\ raw' = raw /\ cipher' = cipher /\ suffix' = suffix /\ in' = in
    BY DEF readerVars, Long
<1>3. PICK W, cut, d : Sent(Long, W, cut, want) /\ Left(W, d, wire) /\ Here(cut, d)
    BY DEF RInv, Carried
<1>4. want \in Seq(Seq(Bytes)) /\ got \in Seq(Seq(Bytes)) /\ Len(got) <= Len(want)
    BY DEF RInv, Delivered
<1>5. /\ want' \in Seq(Seq(Bytes)) /\ Len(want') = Len(want) + 1
      /\ \A i \in 1..Len(want) : want'[i] = want[i]
    BY <1>4
<1>6. W \in Seq(WireBytes)
    BY <1>3 DEF Sent
<1>7. PICK new : /\ Sent(Long, (W \o x) \o p, new, want')
                 /\ \A i \in 0..Len(want) : new[i] = cut[i]
  <2> DEFINE V == (W \o x) \o p
             new == CutMore(cut, Len(want), Len(V))
  <2>1. Sent(Long, V, new, Append(want, m))
      BY <1>3, <1>4, SentMore
  <2>2. V \in Seq(WireBytes)
      BY <1>1, <1>6
  <2>3. cut \in [Nat -> Nat] /\ Len(want) \in Nat /\ Len(V) \in Nat
    <3>1. cut \in [Nat -> Nat]
        BY <1>3, Zenon DEF Sent
    <3>2. Len(want) \in Nat
        BY <1>4
    <3> HIDE DEF V
    <3>3. Len(V) \in Nat
        BY <2>2
    <3>4. QED
        BY <3>1, <3>2, <3>3
  <2> HIDE DEF V
  <2>4. \A i \in 0..Len(want) : new[i] = cut[i]
      BY <2>3, SMTT(40) DEF CutMore
  <2> HIDE DEF new
  <2>5. QED
      BY <2>1, <2>4 DEF V
<1>8. Left((W \o x) \o p, d, (wire \o x) \o p)
  <2>1. Left(W \o x, d, wire \o x)
      BY <1>1, <1>3, <1>6, LeftMore, Zenon
  <2>2. W \o x \in Seq(WireBytes)
      BY <1>1, <1>6
  <2>3. QED
      BY <1>1, <2>1, <2>2, LeftMore, Zenon
<1>9. RTypes'
    BY <1>2 DEF RInv, RTypes, InFrame
<1>10. Delivered'
  <2>1. \A i \in 1..Len(got) : want'[i] = want[i]
      BY <1>4, <1>5
  <2>2. /\ lost \in Seq(Seq(Bytes)) /\ Len(lost) = Len(got)
        /\ \A i \in 1..Len(got) :
             /\ got[i] \o lost[i] = want[i]
             /\ lost[i] # <<>> => Len(want[i]) \in Long
      BY DEF RInv, Delivered
  <2>3. \A i \in 1..Len(got) :
          /\ got[i] \o lost[i] = want'[i]
          /\ lost[i] # <<>> => Len(want'[i]) \in Long
      BY <2>1, <2>2
  <2>4. Len(got) <= Len(want')
      BY <1>4, <1>5
  <2>5. ASSUME NEW i \in 1..Len(got')
        PROVE  /\ got'[i] \o lost'[i] = want'[i]
               /\ lost'[i] # <<>> => Len(want'[i]) \in Long'
    <3>1. i \in 1..Len(got)
        BY <1>2
    <3>2. got'[i] = got[i] /\ lost'[i] = lost[i] /\ Long' = Long
        BY <1>2
    <3>3. /\ got[i] \o lost[i] = want'[i]
          /\ lost[i] # <<>> => Len(want'[i]) \in Long
        BY <2>3, <3>1
    <3>4. QED
        BY <3>2, <3>3
  <2>6. QED
      BY <1>2, <1>4, <1>5, <2>2, <2>4, <2>5 DEF Delivered
<1>11. Here(new, d)'
  <2>1. Len(got) \in 0..Len(want) /\ Len(want) \in Nat
      BY <1>4
  <2>2. CASE InFrame
    <3>1. Len(got) < Len(want) /\ d + raw = cut[Len(got) + 1]
        BY <1>3, <2>2 DEF Here
    <3>2. Len(got) + 1 \in 0..Len(want)
        BY <2>1, <3>1
    <3>3. new[Len(got) + 1] = cut[Len(got) + 1]
        BY <1>7, <3>2
    <3>4. Len(got) < Len(want')
        BY <1>5, <2>1, <3>1
    <3>5. QED
        BY <1>2, <2>2, <3>1, <3>3, <3>4 DEF Here, InFrame
  <2>3. CASE ~InFrame
    <3>1. new[Len(got)] = cut[Len(got)]
        BY <1>7, <2>1
    <3>2. QED
        BY <1>2, <1>3, <2>3, <3>1 DEF Here, InFrame
  <2>4. QED
      BY <2>2, <2>3
<1>12. Carried'
  <2>1. wire' = (wire \o x) \o p
      OBVIOUS
  <2> DEFINE V == (W \o x) \o p
  <2>2. Sent(Long', V, new, want') /\ Left(V, d, wire')
      BY <1>2, <1>7, <1>8, <2>1
  <2> HIDE DEF V
  <2>3. QED
      BY <1>11, <2>2 DEF Carried
<1>13. Inside'
  <2> SUFFICES ASSUME InFrame' PROVE \E q : Reading(q)'
      BY DEF Inside
  <2>1. InFrame
      BY <1>2 DEF InFrame
  <2>2. PICK q : Reading(q)
      BY <2>1 DEF RInv, Inside
  <2>3. wire \in Seq(WireBytes)
      BY <1>3 DEF Left
  <2>4. /\ wire' \in Seq(WireBytes) /\ Len(wire') >= Len(wire)
        /\ \A i \in 1..Len(wire) : wire'[i] = wire[i]
    <3> DEFINE u == wire \o x
    <3>1. /\ u \in Seq(WireBytes) /\ Len(u) = Len(wire) + Len(x)
          /\ \A i \in 1..Len(wire) : u[i] = wire[i]
        BY <1>1, <2>3
    <3> HIDE DEF u
    <3>2. /\ u \o p \in Seq(WireBytes) /\ Len(u \o p) = Len(u) + Len(p)
          /\ \A i \in 1..Len(u) : (u \o p)[i] = u[i]
        BY <1>1, <3>1, InFront
    <3>3. wire' = u \o p
        BY DEF u
    <3>4. Len(x) \in Nat /\ Len(p) \in Nat /\ Len(wire) \in Nat
        BY <1>1, <2>3
    <3>5. QED
        BY <3>1, <3>2, <3>3, <3>4
  <2>5. raw \in Nat /\ raw <= Len(wire) /\ At(q, Len(q) - raw, wire, raw)
      BY <2>2 DEF Reading, RInv, RTypes
  <2>6. raw <= Len(wire') /\ At(q, Len(q) - raw, wire', raw)
    <3>1. \A i \in 1..raw : wire'[i] = wire[i]
        BY <2>3, <2>4, <2>5
    <3>2. Len(wire) \in Nat /\ Len(wire') \in Nat
        BY <2>3, <2>4
    <3>3. QED
        BY <2>4, <2>5, <3>1, <3>2 DEF At
  <2>7. want'[Len(got) + 1] = want[Len(got) + 1]
    <3>1. Len(got) < Len(want)
        BY <1>3, <2>1 DEF Here
    <3>2. QED
        BY <1>4, <1>5, <3>1
  <2>8. Reading(q)'
      BY <1>2, <2>2, <2>6, <2>7 DEF Reading
  <2>9. QED
      BY <2>8
<1>14. QED
    BY <1>9, <1>10, <1>12, <1>13 DEF RInv

(* What Write sends carries the bytes that it masks on the way.            *)
LEMMA PlainBack ==
  ASSUME client \in BOOLEAN, NEW q \in Seq(Bytes), Int64(Len(q)),
         NEW c \in 1..MaxWrites, NEW compressed \in BOOLEAN, NEW h,
         h = Header(Len(Ciphered(q, c)), compressed, c)
  PROVE  /\ h \in Frames /\ h.length = Len(Ciphered(q, c))
         /\ h.compressed = compressed
         /\ Plain(h, Ciphered(q, c)) = q
<1> DEFINE p == Ciphered(q, c)
<1>1. p \in Seq(Bytes) /\ Len(p) = Len(q) /\ (~client => p = q)
    BY CipheredIs
<1>2. Mask(c) \in Seq(MaskBytes) /\ Len(Mask(c)) = 4 /\ Mask(c) \in [1..4 -> MaskBytes]
    BY MaskIs
<1>3. Int64(Len(p))
    BY <1>1
<1> HIDE DEF p
<1>4. h = Header(Len(p), compressed, c)
    BY DEF p
<1>5. h \in HeadersOf(MaskBytes) /\ h.length = Len(p) /\ h.masked = client
    BY <1>2, <1>3, <1>4, HeaderIs
<1>6. h.compressed = compressed /\ (client => h.mask = Mask(c))
    BY <1>4 DEF Header
<1>7. Plain(h, p) = q
  <2>1. CASE client
    <3>1. p = FastCipher(q, Mask(c), 0)
        BY <2>1 DEF p, Ciphered
    <3>2. q \in Seq(BytesOf(Nat, MaskBytes))
        BY BytesAre
    <3>3. FastCipher(FastCipher(q, Mask(c), 0), Mask(c), 0) = q
        BY <1>2, <3>2, CipherTwiceIsNone
    <3>4. Plain(h, p) = FastCipher(p, Mask(c), 0)
        BY <1>5, <1>6, <2>1 DEF Plain
    <3>5. QED
        BY <3>1, <3>3, <3>4
  <2>2. CASE ~client
      BY <1>1, <1>5, <2>2 DEF Plain
  <2>3. QED
      BY <2>1, <2>2
<1>8. QED
    BY <1>5, <1>6, <1>7 DEF p, Frames

LEMMA WritesPlainSends ==
  ASSUME WInv, RInv, WritesPlain
  PROVE  RInv'
<1> DEFINE c == writes + 1
           p == Ciphered(slice, c)
           h == Header(Len(p), FALSE, c)
<1>1. /\ writes < MaxWrites /\ writes' = c /\ slice' = p
      /\ wire' = wire \o PackHeader(h) \o p
      /\ want' = Append(want, slice)
      /\ UNCHANGED <<deflate, readerVars>>
    BY DEF fixed, WritesPlain, Call, Sends
<1>2. MaxWrites \in Nat /\ writes \in 0..MaxWrites /\ client \in BOOLEAN
    BY WsWireAssumption DEF WInv, Settled
<1>3. c \in 1..MaxWrites
    BY <1>1, <1>2
<1>4. slice \in Seq(Bytes) /\ Int64(Len(slice))
    BY DEF WInv, Slices
<1> HIDE DEF c
<1>5. /\ h \in Frames /\ h.length = Len(p) /\ h.compressed = FALSE
      /\ Plain(h, p) = slice
    BY <1>2, <1>3, <1>4, PlainBack
<1>6. p \in Seq(Bytes)
    BY <1>2, <1>3, <1>4, CipheredIs
<1> HIDE DEF p, h
<1>7. Carries(Long, h, p, slice)
    BY <1>5, <1>6 DEF Carries
<1>8. QED
    BY <1>1, <1>4, <1>7, SendsKeeps

(* What goes out behind a flush that found no error is the whole output of *)
(* the compressor, but for the tail: nothing else of it ends like a tail.  *)
LEMMA OutIs ==
  ASSUME WInv, wpc = "flushed", ~werr
  PROVE  out = <<Byte(1)>> \o slice
<1> DEFINE D == Deflated(slice)
           u == <<Byte(1)>> \o slice
<1>1. /\ IsCbuf(Bytes, cbuf) /\ out \in Seq(Bytes) /\ total \in Seq(Bytes)
      /\ Compresses(slice) /\ Gathered(cbuf, out, <<>>, total) /\ CheckTail(cbuf)
      /\ \E x \in 0..Len(D) : total = SubSeq(D, 1, x)
    BY DEF WInv, Written
<1>2. slice \in Seq(Bytes) /\ \A i \in 1..Len(slice) : slice[i] # Byte(255)
    BY <1>1 DEF WInv, Slices, SliceKept
<1>3. PICK n \in Nat : n = Len(slice)
    BY <1>2
<1>4. /\ D \in Seq(Bytes) /\ Len(D) = n + 5 /\ D[1] = Byte(1)
      /\ At(D, 1, slice, n) /\ At(D, n + 1, CompressionTail, 4)
    BY <1>2, <1>3, DeflatedIs
<1> HIDE DEF D
<1>5. PICK x \in 0..(n + 5) : total = SubSeq(D, 1, x)
    BY <1>1, <1>4
<1>6. Len(total) = x /\ \A i \in 1..x : total[i] = D[i]
    BY <1>4, <1>5
<1>7. 4 <= x /\ At(total, x - 4, CompressionTail, 4)
  <2>1. IsSuffix(CompressionTail, total)
      BY <1>1, TailTells
  <2>2. /\ Len(CompressionTail) <= Len(total)
        /\ At(total, Len(total) - Len(CompressionTail), CompressionTail,
              Len(CompressionTail))
      BY <1>1, <2>1, SuffixIs, TailIs, Zenon
  <2>3. QED
      BY <1>6, <2>2, TailIs, Zenon
<1>8. D[x] = Byte(255) /\ D[x - 1] = Byte(255)
  <2>1. total[(x - 4) + 4] = Byte(255) /\ total[(x - 4) + 3] = Byte(255)
      BY <1>7, TailIs DEF At
  <2>2. (x - 4) + 4 = x /\ (x - 4) + 3 = x - 1 /\ x \in 1..x /\ x - 1 \in 1..x
      BY <1>7
  <2>3. QED
      BY <1>6, <2>1, <2>2
<1>9. ASSUME NEW i \in 1..(n + 3)
      PROVE  D[i] # Byte(255)
  <2>1. CASE i = 1
      BY <1>4, <2>1, BytesDiffer
  <2>2. CASE i > 1 /\ i <= n + 1
    <3>1. i - 1 \in 1..n /\ 1 + (i - 1) = i
        BY <2>2
    <3>2. D[i] = slice[i - 1]
        BY <1>4, <3>1 DEF At
    <3>3. QED
        BY <1>2, <1>3, <3>1, <3>2
  <2>3. CASE i > n + 1
    <3>1. i - (n + 1) \in 1..2 /\ (n + 1) + (i - (n + 1)) = i
        BY <2>3
    <3>2. D[i] = CompressionTail[i - (n + 1)]
        BY <1>4, <3>1 DEF At
    <3>3. QED
        BY <3>1, <3>2, TailIs, BytesDiffer
  <2>4. QED
      BY <2>1, <2>2, <2>3
<1>10. x = n + 5
  <2>1. ~(x \in 1..(n + 3)) /\ ~(x - 1 \in 1..(n + 3))
      BY <1>8, <1>9
  <2>2. QED
      BY <1>7, <2>1
<1>11. cbuf.n = 4
  <2>1. cbuf.buf[4] = Byte(255)
      BY <1>1, TailIs DEF CheckTail
  <2>2. ~(4 > cbuf.n) /\ cbuf.n \in 0..4
      BY <1>1, <2>1, BytesDiffer DEF IsCbuf
  <2>3. QED
      BY <2>2
<1>12. Len(out) = n + 1 /\ At(total, 0, out, n + 1)
  <2>1. Len(total) = (Len(out) + cbuf.n) + 0 /\ At(total, 0, out, Len(out))
      BY <1>1 DEF Gathered
  <2>2. Len(out) \in Nat
      BY <1>1
  <2>3. QED
      BY <1>6, <1>10, <1>11, <2>1, <2>2
<1>13. u \in Seq(Bytes) /\ Len(u) = n + 1 /\ u[1] = Byte(1) /\ At(u, 1, slice, n)
  <2>1. Byte(1) \in Bytes
      BY BytesAre
  <2>2. QED
      BY <1>2, <1>3, <2>1 DEF At
<1> HIDE DEF u
<1>14. ASSUME NEW i \in 1..(n + 1)
       PROVE  out[i] = u[i]
  <2>1. out[i] = D[i]
    <3>1. i \in 1..x /\ 0 + i = i
        BY <1>10
    <3>2. QED
        BY <1>6, <1>12, <3>1 DEF At
  <2>2. CASE i = 1
      BY <1>4, <1>13, <2>1, <2>2
  <2>3. CASE i > 1
    <3>1. i - 1 \in 1..n /\ 1 + (i - 1) = i
        BY <2>3
    <3>2. QED
        BY <1>4, <1>13, <2>1, <3>1 DEF At
  <2>4. QED
      BY <2>2, <2>3
<1>15. out = u
    BY <1>1, <1>12, <1>13, <1>14, SameElements
<1>16. QED
    BY <1>15 DEF u

LEMMA WritesCompressedSends ==
  ASSUME WInv, RInv, WritesCompressed
  PROVE  RInv'
<1>1. CASE werr
    BY <1>1, RInvUnchanged DEF WritesCompressed, fixed
<1>2. CASE ~werr
  <2> DEFINE p == Ciphered(out, writes)
             h == Header(Len(p), TRUE, writes)
  <2>1. /\ wpc = "flushed"
        /\ wire' = wire \o PackHeader(h) \o p
        /\ want' = Append(want, slice)
        /\ UNCHANGED <<deflate, readerVars>>
      BY <1>2 DEF fixed, WritesCompressed, Sends
  <2>2. /\ writes \in 1..MaxWrites /\ client \in BOOLEAN /\ out \in Seq(Bytes)
        /\ slice \in Seq(Bytes) /\ Int64(Len(slice) + 1) /\ Compresses(slice)
      BY <2>1, WsWireAssumption DEF WInv, Settled, Written, Slices
  <2>3. out = <<Byte(1)>> \o slice
      BY <1>2, <2>1, OutIs
  <2>4. Len(out) = Len(slice) + 1
      BY <2>2, <2>3
  <2>5. /\ h \in Frames /\ h.length = Len(p) /\ h.compressed = TRUE
        /\ Plain(h, p) = out
      BY <2>2, <2>4, PlainBack
  <2>6. p \in Seq(Bytes)
      BY <2>2, CipheredIs
  <2> HIDE DEF p, h
  <2>7. Carries(Long, h, p, slice)
      BY <2>2, <2>3, <2>5, <2>6 DEF Carries, Compresses, Long
  <2>8. QED
      BY <2>1, <2>2, <2>7, SendsKeeps
<1>3. QED
    BY <1>1, <1>2

LEMMA NotNoFrame ==
  ASSUME NEW h \in Frames
  PROVE  h # NoFrame
<1>1. DOMAIN h = {"fin", "compressed", "opCode", "masked", "length", "mask"}
    BY DEF Frames, HeadersOf
<1>2. "fin" \in DOMAIN h
    BY <1>1
<1>3. "fin" \notin DOMAIN NoFrame
    BY DEF NoFrame
<1>4. QED
    BY <1>2, <1>3

LEMMA FrameTypes ==
  ASSUME NEW h \in Frames
  PROVE  /\ h.masked \in BOOLEAN /\ h.compressed \in BOOLEAN
         /\ h.length \in Nat
         /\ h.mask \in Seq(Nat \cup MaskBytes)
         /\ h.masked => h.mask \in [1..4 -> MaskBytes]
<1>1. /\ h.masked \in BOOLEAN /\ h.compressed \in BOOLEAN /\ h.length \in Nat
      /\ h.mask \in Seq(MaskBytes) /\ Len(h.mask) = Bit(h.masked, 4)
    BY DEF Frames, HeadersOf
<1>2. h.masked => h.mask \in [1..4 -> MaskBytes]
  <2>1. ASSUME h.masked PROVE h.mask \in [1..4 -> MaskBytes]
    <3>1. Len(h.mask) = 4
        BY <1>1, <2>1 DEF Bit
    <3>2. h.mask \in [1..Len(h.mask) -> MaskBytes]
        BY <1>1
    <3>3. QED
        BY <3>1, <3>2
  <2>2. QED
      BY <2>1
<1>3. \A i \in 1..Len(h.mask) : h.mask[i] \in Nat \cup MaskBytes
    BY <1>1
<1>4. h.mask \in Seq(Nat \cup MaskBytes)
    BY <1>1, <1>3
<1>5. QED
    BY <1>1, <1>2, <1>4

(* What NextFrame finds on the wire.                                       *)
LEMMA NextStands ==
  ASSUME NEW z, NEW W, NEW d, NEW w, Left(W, d, w), W \in Seq(WireBytes),
         NEW h, NEW p, NEW m, Carries(z, h, p, m),
         StandsAt(W, d, PackHeader(h)),
         StandsAt(W, d + Len(PackHeader(h)), p)
  PROVE  LET l == Len(PackHeader(h))
             v == SubSeq(w, l + 1, Len(w))
         IN  /\ ReadHeader(w) = h /\ HeaderSize(w) = l
             /\ l \in Nat
             /\ Left(W, d + l, v)
             /\ Len(p) <= Len(v) /\ At(p, 0, v, Len(p))
<1> DEFINE x == PackHeader(h)
<1>1. /\ h \in Frames /\ x \in Seq(WireBytes) /\ Len(x) \in Nat
      /\ p \in Seq(Bytes) /\ Len(p) \in Nat
    BY WireTypes DEF Carries
<1>2. /\ d \in Nat /\ w \in Seq(WireBytes) /\ Len(W) = d + Len(w)
      /\ \A i \in 1..Len(w) : W[d + i] = w[i]
      /\ Len(w) \in Nat
    BY DEF Left, At
<1>3. d + Len(x) <= Len(W) /\ \A j \in 1..Len(x) : W[d + j] = x[j]
    BY DEF StandsAt
<1>4. StandsAt(w, 0, x)
  <2>1. 0 + Len(x) <= Len(w)
      BY <1>1, <1>2, <1>3
  <2>2. ASSUME NEW j \in 1..Len(x) PROVE w[0 + j] = x[j]
      BY <1>1, <1>2, <1>3, <2>1
  <2>3. QED
      BY <2>1, <2>2 DEF StandsAt
<1>5. MaskBytes \subseteq WireBytes
    BY DEF WireBytes
<1>6. ReadHeader(w) = h /\ HeaderSize(w) = Len(x)
    BY <1>1, <1>2, <1>4, <1>5, HeaderReadsBack DEF Frames
<1>7. PICK l \in Nat : l = Len(x)
    BY <1>1
<1> DEFINE v == SubSeq(w, l + 1, Len(w))
<1>8. Left(W, d + l, v)
  <2>1. l \in 0..Len(w)
      BY <1>1, <1>2, <1>3, <1>7
  <2>2. QED
      BY <2>1, LeftLess
<1> HIDE DEF v
<1>9. /\ Len(v) \in Nat /\ Len(W) = (d + l) + Len(v)
      /\ \A i \in 1..Len(v) : W[(d + l) + i] = v[i]
  <2>1. /\ v \in Seq(WireBytes) /\ Len(W) = (d + l) + Len(v)
        /\ At(W, d + l, v, Len(v))
      BY <1>8, Zenon DEF Left
  <2>2. \A i \in 1..Len(v) : W[(d + l) + i] = v[i]
      BY <2>1, Zenon DEF At
  <2>3. QED
      BY <2>1, <2>2
<1>10. (d + l) + Len(p) <= Len(W) /\ \A j \in 1..Len(p) : W[(d + l) + j] = p[j]
    BY <1>7 DEF StandsAt
<1>11. Len(p) <= Len(v)
    BY <1>1, <1>2, <1>9, <1>10
<1>12. ASSUME NEW i \in 1..Len(p) PROVE p[0 + i] = v[i]
    BY <1>1, <1>9, <1>10, <1>11, SMTT(40)
<1>13. At(p, 0, v, Len(p))
    BY <1>12 DEF At
<1>14. QED
    BY <1>6, <1>7, <1>8, <1>11, <1>13 DEF v, x

LEMMA NextFrameKeeps ==
  ASSUME RInv, NextFrame
  PROVE  RInv'
<1>1. /\ ~InFrame /\ wire # <<>>
      /\ frame' = ReadHeader(wire)
      /\ wire' = SubSeq(wire, HeaderSize(wire) + 1, Len(wire))
      /\ raw' = frame'.length
      /\ cipher' = IF frame'.masked THEN [m |-> frame'.mask, pos |-> 0] ELSE cipher
      /\ suffix' = IF frame'.compressed THEN 0 ELSE suffix
      /\ in' = <<>> /\ want' = want /\ got' = got /\ lost' = lost
      /\ Long' = Long
    BY DEF NextFrame, PosAtStart, fixed, Long
<1>2. PICK W, cut, d : Sent(Long, W, cut, want) /\ Left(W, d, wire) /\ Here(cut, d)
    BY DEF RInv, Carried
<1>3. /\ W \in Seq(WireBytes) /\ cut \in [Nat -> Nat]
      /\ cut[Len(want)] = Len(W)
      /\ \A i \in 1..Len(want) : FrameAt(Long, W, cut[i - 1], cut[i], want[i])
    BY <1>2, Zenon DEF Sent
<1>4. PICK k \in Nat, e \in Nat : k = Len(got) /\ e = Len(want) /\ k <= e
    BY DEF RInv, Delivered
<1>5. d = cut[k] /\ suffix = 0
    BY <1>1, <1>2, <1>4 DEF Here, RInv, RTypes
<1>6. d < Len(W)
  <2>1. d \in Nat /\ wire \in Seq(WireBytes) /\ Len(W) = d + Len(wire)
      BY <1>2 DEF Left
  <2>2. QED
      BY <1>1, <2>1
<1>7. k < e
    BY <1>3, <1>4, <1>5, <1>6
<1>8. FrameAt(Long, W, d, cut[k + 1], want[k + 1])
  <2>1. k + 1 \in 1..e /\ (k + 1) - 1 = k
      BY <1>7
  <2>2. FrameAt(Long, W, cut[(k + 1) - 1], cut[k + 1], want[k + 1])
      BY <1>3, <1>4, <2>1
  <2>3. QED
      BY <1>5, <2>1, <2>2
<1>9. PICK h, p : /\ Carries(Long, h, p, want[k + 1])
                  /\ StandsAt(W, d, PackHeader(h))
                  /\ StandsAt(W, d + Len(PackHeader(h)), p)
                  /\ cut[k + 1] = (d + Len(PackHeader(h))) + Len(p)
    BY <1>8 DEF FrameAt
<1>10. PICK l : l = Len(PackHeader(h))
    OBVIOUS
<1>11. /\ ReadHeader(wire) = h /\ HeaderSize(wire) = l /\ l \in Nat
       /\ Left(W, d + l, SubSeq(wire, l + 1, Len(wire)))
       /\ Len(p) <= Len(SubSeq(wire, l + 1, Len(wire)))
       /\ At(p, 0, SubSeq(wire, l + 1, Len(wire)), Len(p))
  <2>1. PICK z, m : z = Long /\ m = want[k + 1]
      OBVIOUS
  <2>2. Carries(z, h, p, m)
      BY <1>9, <2>1
  <2>3. QED
      BY <1>2, <1>3, <1>9, <1>10, <2>2, NextStands
<1>12. /\ frame' = h /\ Left(W, d + l, wire')
       /\ Len(p) <= Len(wire') /\ At(p, 0, wire', Len(p))
    BY <1>1, <1>11
<1>13. h \in Frames /\ Len(p) = h.length /\ Len(p) \in Nat
    BY <1>9 DEF Carries
<1>14. raw' = Len(p)
    BY <1>1, <1>12, <1>13
<1>15. InFrame'
    BY <1>12, <1>13, NotNoFrame DEF InFrame
<1>16. suffix' = 0
    BY <1>1, <1>5
<1>17. RTypes'
  <2>1. /\ h.mask \in Seq(Nat \cup MaskBytes)
        /\ cipher \in [m : Seq(Nat \cup MaskBytes), pos : 0..3]
      BY <1>13, FrameTypes DEF RInv, RTypes
  <2>2. [m |-> h.mask, pos |-> 0] \in [m : Seq(Nat \cup MaskBytes), pos : 0..3]
      BY <2>1
  <2>3. cipher' \in [m : Seq(Nat \cup MaskBytes), pos : 0..3]
      BY <1>1, <1>12, <2>1, <2>2
  <2>4. QED
      BY <1>1, <1>13, <1>14, <1>15, <1>16, <2>3 DEF RTypes
<1>18. Delivered'
    BY <1>1 DEF RInv, Delivered
<1>19. Carried'
  <2>1. (d + l) + raw' = cut[k + 1]
      BY <1>9, <1>10, <1>14
  <2>2. Here(cut, d + l)'
      BY <1>1, <1>4, <1>7, <1>15, <2>1 DEF Here
  <2>3. Sent(Long', W, cut, want')
      BY <1>1, <1>2
  <2>4. QED
      BY <1>12, <2>2, <2>3 DEF Carried
<1>20. Inside'
  <2>1. Carries(Long', frame', p, want'[Len(got') + 1])
      BY <1>1, <1>4, <1>9, <1>12
  <2>2. /\ raw' \in 0..Len(p) /\ raw' <= Len(wire')
        /\ Len(p) - raw' = 0
      BY <1>12, <1>13, <1>14
  <2>3. At(p, Len(p) - raw', wire', raw')
      BY <1>12, <1>14, <2>2
  <2>4. Len(in') = (Len(p) - raw') + suffix'
      BY <1>1, <1>16, <2>2
  <2>5. At(Plain(frame', p), 0, in', Len(p) - raw')
      BY <2>2 DEF At
  <2>6. At(in', Len(p) - raw', CompressionTail, suffix')
      BY <1>16 DEF At
  <2>7. frame'.masked => /\ cipher'.m = frame'.mask
                         /\ cipher'.pos = (Len(p) - raw') % 4
      BY <1>1, <2>2
  <2>8. ~(suffix' > 0)
      BY <1>16
  <2>9. Reading(p)'
      BY <2>1, <2>2, <2>3, <2>4, <2>5, <2>6, <2>7, <2>8 DEF Reading
  <2>10. QED
      BY <2>9 DEF Inside
<1>21. QED
    BY <1>17, <1>18, <1>19, <1>20 DEF RInv

LEMMA PosGoesOn ==
  ASSUME NEW d \in Nat, NEW i \in Nat, i >= 1
  PROVE  ((d % 4) + (i - 1)) % 4 = (0 + ((d + i) - 1)) % 4
  BY SMT

(* A chunk, unmasked from where the last one ended, is the next piece of   *)
(* what the frame brings.                                                  *)
LEMMA ChunkIs ==
  ASSUME wire \in Seq(WireBytes), NEW p, Reading(p), NEW n \in 1..raw,
         NEW d, d = Len(p) - raw
  PROVE  /\ Chunk(n) \in Seq(Bytes) /\ Len(Chunk(n)) = n
         /\ At(Plain(frame, p), d, Chunk(n), n)
<1> DEFINE s == SubSeq(wire, 1, n)
<1>1. /\ frame \in Frames /\ p \in Seq(Bytes) /\ Len(p) \in Nat
      /\ raw \in 0..Len(p) /\ raw <= Len(wire)
      /\ \A i \in 1..raw : p[d + i] = wire[i]
  <2>1. /\ frame \in Frames /\ p \in Seq(Bytes)
        /\ raw \in 0..Len(p) /\ raw <= Len(wire)
        /\ At(p, d, wire, raw)
      BY DEF Reading, Carries
  <2>2. \A i \in 1..raw : p[d + i] = wire[i]
      BY <2>1, Zenon DEF At
  <2>3. QED
      BY <2>1, <2>2
<1>2. d \in Nat /\ n \in Nat /\ d + n <= Len(p)
    BY <1>1
<1>3. Len(s) = n /\ \A i \in 1..n : s[i] = wire[i]
    BY <1>1
<1>4. ASSUME NEW i \in 1..n
      PROVE  s[i] = p[d + i] /\ d + i \in 1..Len(p) /\ s[i] \in Bytes
  <2>1. i \in 1..raw /\ d + i \in 1..Len(p)
      BY <1>1, <1>2
  <2>2. s[i] = p[d + i]
      BY <1>1, <1>3, <2>1
  <2>3. p[d + i] \in Bytes
      BY <1>1, <2>1
  <2>4. QED
      BY <2>1, <2>2, <2>3
<1>5. s \in Seq(Bytes)
  <2>1. s \in Seq(WireBytes)
      BY <1>1
  <2> HIDE DEF s
  <2>2. QED
      BY <1>3, <1>4, <2>1
<1> HIDE DEF s
<1>6. CASE frame.masked
  <2> DEFINE k == frame.mask
             pos == d % 4
             f == FastCipher(s, k, pos)
             q == FastCipher(p, k, 0)
  <2>1. k \in [1..4 -> MaskBytes]
      BY <1>1, <1>6, FrameTypes
  <2>2. cipher.m = k /\ cipher.pos = pos /\ pos \in Nat
      BY <1>2, <1>6 DEF Reading
  <2>3. s \in Seq(BytesOf(Nat, MaskBytes)) /\ p \in Seq(BytesOf(Nat, MaskBytes))
      BY <1>1, <1>5, BytesAre
  <2> HIDE DEF k, pos
  <2>4. /\ f \in Seq(Bytes) /\ Len(f) = Len(s)
        /\ \A j \in 1..Len(s) : f[j] = Xor(s[j], k[((pos + (j - 1)) % 4) + 1])
    <3>1. /\ f \in Seq(BytesOf(Nat, MaskBytes)) /\ Len(f) = Len(s)
          /\ \A j \in 1..Len(s) : f[j] = Xor(s[j], k[((pos + (j - 1)) % 4) + 1])
        BY <2>1, <2>2, <2>3, ByteByByte
    <3>2. QED
        BY <3>1, BytesAre
  <2>5. \A j \in 1..Len(p) : q[j] = Xor(p[j], k[((0 + (j - 1)) % 4) + 1])
      BY <2>1, <2>3, ByteByByte
  <2>6. Chunk(n) = f /\ Plain(frame, p) = q
      BY <1>6, <2>2 DEF Chunk, Plain, s, k
  <2> HIDE DEF f, q
  <2>7. ASSUME NEW i \in 1..n PROVE q[d + i] = f[i]
    <3>1. i \in Nat /\ i >= 1
        OBVIOUS
    <3>2. (pos + (i - 1)) % 4 = (0 + ((d + i) - 1)) % 4
        BY <1>2, <3>1, PosGoesOn DEF pos
    <3>3. f[i] = Xor(s[i], k[((pos + (i - 1)) % 4) + 1])
        BY <1>3, <2>4
    <3>4. q[d + i] = Xor(p[d + i], k[((0 + ((d + i) - 1)) % 4) + 1])
        BY <1>4, <2>5
    <3>5. QED
        BY <1>4, <3>2, <3>3, <3>4
  <2>8. At(q, d, f, n)
      BY <2>7 DEF At
  <2>9. QED
      BY <1>3, <2>4, <2>6, <2>8
<1>7. CASE ~frame.masked
  <2>1. Chunk(n) = s /\ Plain(frame, p) = p
      BY <1>7 DEF Chunk, Plain, s
  <2>2. At(p, d, s, n)
      BY <1>4 DEF At
  <2>3. QED
      BY <1>3, <1>5, <2>1, <2>2
<1>8. QED
    BY <1>6, <1>7

LEMMA ReadsChunkKeeps ==
  ASSUME RInv, NEW n \in 1..raw, ReadsChunk(n)
  PROVE  RInv'
<1>1. /\ InFrame /\ in' = in \o Chunk(n)
      /\ cipher' = IF frame.masked THEN [cipher EXCEPT !.pos = Advance(n)]
                   ELSE cipher
      /\ raw' = raw - n
      /\ wire' = SubSeq(wire, n + 1, Len(wire))
      /\ want' = want /\ got' = got /\ lost' = lost /\ frame' = frame
      /\ suffix' = suffix /\ Long' = Long
    BY DEF ReadsChunk, fixed, Long
<1>2. PICK W, cut, d : Sent(Long, W, cut, want) /\ Left(W, d, wire) /\ Here(cut, d)
    BY DEF RInv, Carried
<1>3. PICK p : Reading(p)
    BY <1>1 DEF RInv, Inside
<1>4. /\ frame \in Frames /\ p \in Seq(Bytes) /\ Len(p) \in Nat
      /\ raw \in 0..Len(p) /\ raw <= Len(wire) /\ suffix = 0
  <2>1. /\ frame \in Frames /\ p \in Seq(Bytes)
        /\ raw \in 0..Len(p) /\ raw <= Len(wire)
        /\ suffix > 0 => raw = 0
      BY <1>3 DEF Reading, Carries
  <2>2. suffix \in 0..4
      BY DEF RInv, RTypes
  <2>3. QED
      BY <2>1, <2>2
<1>5. PICK e \in Nat, done \in Nat : e = Len(p) /\ done = e - raw
    BY <1>4
<1>6. /\ W \in Seq(WireBytes) /\ d \in Nat /\ wire \in Seq(WireBytes)
      /\ Len(wire) \in Nat
    BY <1>2 DEF Sent, Left
<1>7. n \in Nat /\ raw \in Nat /\ n <= raw /\ n \in 0..Len(wire)
    BY <1>4, <1>6
<1>8. Left(W, d + n, wire')
    BY <1>1, <1>2, <1>6, <1>7, LeftLess
<1>9. /\ Chunk(n) \in Seq(Bytes) /\ Len(Chunk(n)) = n
      /\ At(Plain(frame, p), done, Chunk(n), n)
    BY <1>3, <1>5, <1>6, ChunkIs
<1> DEFINE c == Chunk(n)
<1> HIDE DEF c
<1>10. /\ in \in Seq(Bytes) /\ Len(in) = done
       /\ At(Plain(frame, p), 0, in, done)
    BY <1>3, <1>4, <1>5 DEF Reading, RInv, RTypes
<1>11. IsSeqOf(Bytes, done + n, in') /\ At(in', 0, in, done) /\ At(in', done, c, n)
  <2>1. IsSeqOf(Bytes, done, in) /\ IsSeqOf(Bytes, n, c) /\ IsSum(done + n, done, n)
      BY <1>7, <1>9, <1>10 DEF IsSeqOf, IsSum, c
  <2>2. in' = in \o c
      BY <1>1 DEF c
  <2>3. IsSeqOf(Bytes, done + n, in \o c) /\ At(in \o c, 0, in, done) /\ At(in \o c, done, c, n)
      BY <2>1, Behind, Zenon
  <2>4. QED
      BY <2>2, <2>3
<1>12. At(Plain(frame, p), 0, in', done + n)
  <2>1. At(Plain(frame, p), done, c, n)
      BY <1>9 DEF c
  <2>2. QED
      BY <1>7, <1>10, <1>11, <2>1, Appended, Zenon
<1>13. /\ raw' \in 0..e /\ e - raw' = done + n /\ raw' \in Nat
       /\ raw' + n = raw
    BY <1>1, <1>4, <1>5, <1>7
<1>14. RTypes'
  <2>1. cipher \in [m : Seq(Nat \cup MaskBytes), pos : 0..3]
      BY DEF RInv, RTypes
  <2>2. Advance(n) \in 0..3
    <3>1. cipher.pos \in Nat
        BY <2>1
    <3>2. QED
        BY <1>7, <3>1 DEF Advance
  <2>3. cipher' \in [m : Seq(Nat \cup MaskBytes), pos : 0..3]
      BY <1>1, <2>1, <2>2
  <2>4. in' \in Seq(Bytes)
      BY <1>11 DEF IsSeqOf
  <2>5. InFrame'
      BY <1>1 DEF InFrame
  <2>6. QED
      BY <1>1, <1>4, <1>13, <2>3, <2>4, <2>5 DEF RTypes
<1>15. Delivered'
    BY <1>1 DEF RInv, Delivered
<1>16. Carried'
  <2>1. Len(got) < Len(want) /\ d + raw = cut[Len(got) + 1]
      BY <1>1, <1>2 DEF Here
  <2>2. (d + n) + raw' = d + raw
    <3>1. raw' + n = raw /\ raw' \in Nat /\ n \in Nat /\ d \in Nat
        BY <1>6, <1>7, <1>13, Zenon
    <3>2. QED
        BY <3>1
  <2>3. Here(cut, d + n)'
      BY <1>1, <2>1, <2>2 DEF Here, InFrame
  <2>4. QED
      BY <1>1, <1>2, <1>8, <2>3 DEF Carried
<1>17. Inside'
  <2>1. Carries(Long', frame', p, want'[Len(got') + 1])
      BY <1>1, <1>3 DEF Reading
  <2>2. raw' <= Len(wire') /\ At(p, done + n, wire', raw')
    <3>1. At(p, done, wire, raw)
        BY <1>3, <1>5 DEF Reading
    <3>g. PICK g \in Nat : g = raw'
        BY <1>13
    <3>a. g + n = raw /\ raw <= Len(wire) /\ g \in Nat /\ n \in Nat
        BY <1>4, <1>7, <1>13, <3>g
    <3>b. /\ Len(SubSeq(wire, n + 1, Len(wire))) = Len(wire) - n
          /\ \A i \in 1..(Len(wire) - n) :
               SubSeq(wire, n + 1, Len(wire))[i] = wire[n + i]
        BY <1>6, <1>7
    <3>2. Len(wire') = Len(wire) - n /\ \A i \in 1..g : wire'[i] = wire[n + i]
      <4>1. \A i \in 1..g : i \in 1..(Len(wire) - n)
          BY <1>6, <3>a
      <4>2. QED
          BY <1>1, <3>b, <4>1, Zenon
    <3>3. ASSUME NEW i \in 1..g PROVE p[(done + n) + i] = wire'[i]
      <4>1. n + i \in 1..raw /\ done + (n + i) = (done + n) + i
          BY <3>a
      <4>2. p[done + (n + i)] = wire[n + i]
          BY <3>1, <4>1, Zenon DEF At
      <4>3. QED
          BY <3>2, <4>1, <4>2
    <3>4. QED
      <4>1. g <= Len(wire')
          BY <1>6, <3>2, <3>a
      <4>2. QED
          BY <3>3, <3>g, <4>1 DEF At
  <2>3. Len(in') = (done + n) + suffix'
      BY <1>1, <1>4, <1>7, <1>11 DEF IsSeqOf
  <2>4. At(in', done + n, CompressionTail, suffix')
      BY <1>1, <1>4 DEF At
  <2>5. frame'.masked => /\ cipher'.m = frame'.mask
                         /\ cipher'.pos = (done + n) % 4
    <3>1. SUFFICES ASSUME frame.masked
                   PROVE  cipher'.m = frame.mask /\ cipher'.pos = (done + n) % 4
        BY <1>1
    <3>2. cipher.m = frame.mask /\ cipher.pos = done % 4
        BY <1>3, <1>5, <3>1 DEF Reading
    <3>3. cipher \in [m : Seq(Nat \cup MaskBytes), pos : 0..3]
        BY DEF RInv, RTypes
    <3>4. cipher'.m = cipher.m /\ cipher'.pos = Advance(n)
        BY <1>1, <3>1, <3>3
    <3>5. ((done % 4) + n) % 4 = (done + n) % 4
        BY <1>7, SMT
    <3>6. Advance(n) = ((done % 4) + n) % 4
        BY <3>2 DEF Advance
    <3>7. QED
        BY <3>2, <3>4, <3>5, <3>6
  <2>6. ~(suffix' > 0)
      BY <1>1, <1>4
  <2>7. Reading(p)'
      BY <1>1, <1>5, <1>12, <1>13, <2>1, <2>2, <2>3, <2>4, <2>5, <2>6 DEF Reading
  <2>8. QED
      BY <2>7 DEF Inside
<1>18. QED
    BY <1>14, <1>15, <1>16, <1>17 DEF RInv

LEMMA Middle ==
  ASSUME NEW S, NEW u \in Seq(S), NEW s \in Nat, NEW n \in Nat, s + n <= Len(u)
  PROVE  /\ IsSeqOf(S, n, SubSeq(u, s + 1, s + n))
         /\ At(u, s, SubSeq(u, s + 1, s + n), n)
  BY SMT DEF IsSeqOf, At

LEMMA ReadsSuffixKeeps ==
  ASSUME RInv, NEW n \in 1..4, ReadsSuffix(n)
  PROVE  RInv'
<1>1. /\ InFrame /\ frame.compressed /\ raw = 0 /\ n \in 1..(4 - suffix)
      /\ in' = in \o SubSeq(CompressionTail, suffix + 1, suffix + n)
      /\ suffix' = suffix + n
      /\ wire' = wire /\ want' = want /\ got' = got /\ frame' = frame
      /\ raw' = raw /\ cipher' = cipher /\ lost' = lost /\ Long' = Long
    BY DEF ReadsSuffix, fixed, Long
<1>2. PICK p : Reading(p)
    BY <1>1 DEF RInv, Inside
<1>3. PICK e \in Nat : e = Len(p)
    BY <1>2 DEF Reading, Carries
<1>4. PICK s \in 0..4 : s = suffix
    BY DEF RInv, RTypes
<1>5. e - raw = e /\ s + n \in 0..4 /\ n \in Nat /\ s \in Nat
    BY <1>1, <1>3, <1>4
<1>6. /\ IsSeqOf(Bytes, e + s, in) /\ At(Plain(frame, p), 0, in, e)
      /\ At(in, e, CompressionTail, s)
  <2>1. in \in Seq(Bytes)
      BY DEF RInv, RTypes
  <2>2. /\ Len(in) = e + s /\ At(Plain(frame, p), 0, in, e)
        /\ At(in, e, CompressionTail, s)
      BY <1>2, <1>3, <1>4, <1>5 DEF Reading
  <2>3. QED
      BY <2>1, <2>2 DEF IsSeqOf
<1> DEFINE t == SubSeq(CompressionTail, s + 1, s + n)
<1>7. IsSeqOf(Bytes, n, t) /\ At(CompressionTail, s, t, n)
  <2>1. s \in Nat /\ n \in Nat /\ s + n <= Len(CompressionTail)
      BY <1>5, TailIs
  <2>2. CompressionTail \in Seq(Bytes)
      BY TailIs
  <2>3. QED
      BY <2>1, <2>2, Middle, Zenon
<1> HIDE DEF t
<1>8. in' = in \o t
    BY <1>1, <1>4 DEF t
<1>9. /\ IsSeqOf(Bytes, (e + s) + n, in') /\ At(in', 0, in, e + s)
      /\ At(in', e + s, t, n)
  <2>1. IsSum((e + s) + n, e + s, n)
      BY <1>5 DEF IsSum
  <2>2. /\ IsSeqOf(Bytes, (e + s) + n, in \o t) /\ At(in \o t, 0, in, e + s)
        /\ At(in \o t, e + s, t, n)
      BY <1>6, <1>7, <2>1, Behind, Zenon
  <2>3. QED
      BY <1>8, <2>2
<1>10. At(Plain(frame, p), 0, in', e)
  <2>1. ASSUME NEW i \in 1..e PROVE Plain(frame, p)[0 + i] = in'[i]
    <3>1. i \in 1..(e + s) /\ 0 + i = i
        BY <1>5
    <3>2. in'[0 + i] = in[i] /\ Plain(frame, p)[0 + i] = in[i]
        BY <1>6, <1>9, <3>1, Zenon DEF At
    <3>3. QED
        BY <3>1, <3>2
  <2>2. QED
      BY <2>1, Zenon DEF At
<1>11. At(in', e, CompressionTail, s + n)
  <2>1. ASSUME NEW i \in 1..(s + n) PROVE in'[e + i] = CompressionTail[i]
    <3>1. CASE i <= s
      <4>1. i \in 1..s /\ e + i \in 1..(e + s) /\ 0 + (e + i) = e + i
          BY <1>5, <3>1
      <4>2. in'[0 + (e + i)] = in[e + i] /\ in[e + i] = CompressionTail[i]
          BY <1>6, <1>9, <4>1, Zenon DEF At
      <4>3. QED
          BY <4>1, <4>2
    <3>2. CASE i > s
      <4>1. i - s \in 1..n /\ (e + s) + (i - s) = e + i /\ s + (i - s) = i
          BY <1>5, <3>2
      <4>2. /\ in'[(e + s) + (i - s)] = t[i - s]
            /\ CompressionTail[s + (i - s)] = t[i - s]
          BY <1>7, <1>9, <4>1, Zenon DEF At
      <4>3. QED
          BY <4>1, <4>2
    <3>3. QED
        BY <1>5, <3>1, <3>2
  <2>2. QED
      BY <2>1, Zenon DEF At
<1>12. RTypes'
  <2>1. in' \in Seq(Bytes) /\ suffix' \in 0..4 /\ InFrame'
      BY <1>1, <1>4, <1>5, <1>9 DEF IsSeqOf, InFrame
  <2>2. QED
      BY <1>1, <2>1 DEF RInv, RTypes
<1>13. Delivered' /\ Carried'
    BY <1>1 DEF RInv, Delivered, Carried, Here, InFrame
<1>14. Inside'
  <2>1. Len(in') = e + suffix' /\ suffix' = s + n
      BY <1>1, <1>4, <1>5, <1>9 DEF IsSeqOf
  <2>2. Reading(p)'
      BY <1>1, <1>2, <1>3, <1>5, <1>10, <1>11, <2>1 DEF Reading
  <2>3. QED
      BY <2>2 DEF Inside
<1>15. QED
    BY <1>12, <1>13, <1>14 DEF RInv

LEMMA PlainIs ==
  ASSUME NEW h \in Frames, NEW p \in Seq(Bytes)
  PROVE  Plain(h, p) \in Seq(Bytes) /\ Len(Plain(h, p)) = Len(p)
<1>1. CASE h.masked
  <2>1. h.mask \in [1..4 -> MaskBytes] /\ p \in Seq(BytesOf(Nat, MaskBytes))
      BY <1>1, BytesAre, FrameTypes
  <2>2. /\ FastCipher(p, h.mask, 0) \in Seq(BytesOf(Nat, MaskBytes))
        /\ Len(FastCipher(p, h.mask, 0)) = Len(p)
      BY <2>1, ByteByByte
  <2>3. QED
      BY <1>1, <2>2, BytesAre DEF Plain
<1>2. CASE ~h.masked
    BY <1>2 DEF Plain
<1>3. QED
    BY <1>1, <1>2

(* What the inflater makes of a message that has come whole.               *)
LEMMA InflatedBack ==
  ASSUME NEW m \in Seq(Bytes), NEW q, q = <<Byte(1)>> \o m,
         NEW s \in Seq(Bytes), Len(s) = Len(q) + 4,
         At(q, 0, s, Len(q)), At(s, Len(q), CompressionTail, 4)
  PROVE  Inflated(s) = m
<1>1. PICK n \in Nat : n = Len(m)
    OBVIOUS
<1>2. /\ Len(q) = n + 1 /\ q[1] = Byte(1) /\ \A i \in 1..n : q[1 + i] = m[i]
  <2>1. Byte(1) \in Bytes
      BY BytesAre
  <2>2. QED
      BY <1>1, <2>1
<1>3. /\ Len(s) = n + 5
      /\ \A i \in 1..(n + 1) : q[0 + i] = s[i]
      /\ \A i \in 1..4 : s[(n + 1) + i] = CompressionTail[i]
    BY <1>2 DEF At
<1>4. s # <<>> /\ Head(s) = Byte(1)
  <2>1. 1 \in 1..(n + 1) /\ 0 + 1 = 1
      OBVIOUS
  <2>2. s[1] = Byte(1)
      BY <1>2, <1>3, <2>1
  <2>3. QED
      BY <1>3, <2>2
<1>5. IsSuffix(CompressionTail, Tail(s))
  <2> DEFINE t == Tail(s)
  <2>1. /\ t \in Seq(Bytes) /\ Len(t) = n + 4
        /\ \A i \in 1..(n + 4) : t[i] = s[i + 1]
      BY <1>3
  <2> HIDE DEF t
  <2>2. ASSUME NEW i \in 1..4 PROVE t[n + i] = CompressionTail[i]
    <3>1. n + i \in 1..(n + 4) /\ (n + i) + 1 = (n + 1) + i
        OBVIOUS
    <3>2. QED
        BY <1>3, <2>1, <3>1
  <2>3. Len(t) - 4 = n /\ 4 <= Len(t)
      BY <2>1
  <2>4. At(t, Len(t) - 4, CompressionTail, 4)
      BY <2>2, <2>3 DEF At
  <2>5. IsSuffix(CompressionTail, t)
      BY <2>1, <2>3, <2>4, TailIs, SuffixIs
  <2>6. QED
      BY <2>5 DEF t
<1>6. SubSeq(s, 2, Len(s) - 4) = m
  <2> DEFINE r == SubSeq(s, 2, n + 1)
  <2>1. /\ r \in Seq(Bytes) /\ Len(r) = n
        /\ \A i \in 1..n : r[i] = s[1 + i]
      BY <1>3
  <2> HIDE DEF r
  <2>2. ASSUME NEW i \in 1..n PROVE r[i] = m[i]
    <3>1. 1 + i \in 1..(n + 1) /\ 0 + (1 + i) = 1 + i
        OBVIOUS
    <3>2. QED
        BY <1>2, <1>3, <2>1, <3>1
  <2>3. r = m
      BY <1>1, <2>1, <2>2, SameElements
  <2>4. Len(s) - 4 = n + 1
      BY <1>3
  <2>5. QED
      BY <2>3, <2>4 DEF r
<1>7. QED
    BY <1>4, <1>5, <1>6 DEF Inflated

(* A sequence is its first n elements and the others.                      *)
LEMMA Halves ==
  ASSUME NEW S, NEW m \in Seq(S), NEW n \in 1..Len(m)
  PROVE  /\ SubSeq(m, 1, n) \in Seq(S) /\ SubSeq(m, n + 1, Len(m)) \in Seq(S)
         /\ SubSeq(m, 1, n) \o SubSeq(m, n + 1, Len(m)) = m
  OBVIOUS

(* The frame has been taken to its last byte: all of it is in `in', with   *)
(* what suffixedReader has put behind it.                                  *)
LEMMA FrameTaken ==
  ASSUME RInv, InFrame, raw = 0
  PROVE  \E m, q :
           /\ m \in Seq(Bytes) /\ q \in Seq(Bytes) /\ m = want[Len(got) + 1]
           /\ q = IF frame.compressed THEN <<Byte(1)>> \o m ELSE m
           /\ in \in Seq(Bytes) /\ suffix \in 0..4
           /\ Len(in) = Len(q) + suffix
           /\ At(q, 0, in, Len(q)) /\ At(in, Len(q), CompressionTail, suffix)
           /\ suffix > 0 => frame.compressed
           /\ frame.compressed => Len(m) \in Long
<1>1. PICK cut, d : Here(cut, d)
    BY DEF RInv, Carried
<1>2. PICK p : Reading(p)
    BY DEF RInv, Inside
<1>3. /\ got \in Seq(Seq(Bytes)) /\ want \in Seq(Seq(Bytes))
      /\ Len(got) < Len(want)
    BY <1>1 DEF RInv, Delivered, Here
<1> DEFINE m == want[Len(got) + 1]
           q == Plain(frame, p)
<1>4. m \in Seq(Bytes)
  <2>1. Len(got) + 1 \in 1..Len(want)
      BY <1>3
  <2>2. QED
      BY <1>3, <2>1
<1>5. m = want[Len(got) + 1]
    OBVIOUS
<1> HIDE DEF m, q
<1>6. /\ frame \in Frames /\ p \in Seq(Bytes)
      /\ q = IF frame.compressed THEN <<Byte(1)>> \o m ELSE m
      /\ frame.compressed => Len(m) \in Long
    BY <1>2 DEF Reading, Carries, m, q
<1>7. q \in Seq(Bytes) /\ Len(q) = Len(p)
    BY <1>6, PlainIs DEF q
<1>8. in \in Seq(Bytes) /\ suffix \in 0..4
    BY DEF RInv, RTypes
<1>9. Len(p) - raw = Len(q)
    BY <1>7
<1>10. /\ Len(in) = (Len(p) - raw) + suffix
       /\ At(q, 0, in, Len(p) - raw)
       /\ At(in, Len(p) - raw, CompressionTail, suffix)
       /\ suffix > 0 => frame.compressed
    BY <1>2 DEF Reading, q
<1>11. /\ Len(in) = Len(q) + suffix
       /\ At(q, 0, in, Len(q)) /\ At(in, Len(q), CompressionTail, suffix)
    BY <1>9, <1>10
<1>12. QED
    BY <1>4, <1>5, <1>6, <1>7, <1>8, <1>10, <1>11

(* What a message that ends leaves, if what was read of it and what was    *)
(* not are the message.                                                    *)
LEMMA EndsKeeps ==
  ASSUME RInv, InFrame, raw = 0,
         NEW r \in Seq(Bytes), NEW u \in Seq(Bytes),
         r \o u = want[Len(got) + 1], u # <<>> => frame.compressed,
         Ends(r, u)
  PROVE  RInv'
<1>1. /\ got' = Append(got, r) /\ lost' = Append(lost, u)
      /\ frame' = NoFrame
      /\ cipher' = [m |-> NoMask, pos |-> 0]
      /\ suffix' = IF frame.compressed THEN 0 ELSE suffix
      /\ in' = <<>> /\ wire' = wire /\ want' = want /\ raw' = raw
      /\ Long' = Long
    BY DEF Ends, PosAtStart, fixed, Long
<1>2. PICK W, cut, d : Sent(Long, W, cut, want) /\ Left(W, d, wire) /\ Here(cut, d)
    BY DEF RInv, Carried
<1>3. /\ got \in Seq(Seq(Bytes)) /\ lost \in Seq(Seq(Bytes))
      /\ want \in Seq(Seq(Bytes)) /\ Len(lost) = Len(got)
      /\ Len(got) < Len(want) /\ d + raw = cut[Len(got) + 1]
      /\ \A i \in 1..Len(got) :
           /\ got[i] \o lost[i] = want[i]
           /\ lost[i] # <<>> => Len(want[i]) \in Long
    BY <1>2 DEF RInv, Delivered, Here
<1>4. suffix' = 0
  <2>1. suffix \in 0..4 /\ (suffix > 0 => frame.compressed)
      BY FrameTaken
  <2>2. QED
      BY <1>1, <2>1
<1>5. u # <<>> => Len(want[Len(got) + 1]) \in Long
    BY FrameTaken
<1>6. /\ got' \in Seq(Seq(Bytes)) /\ Len(got') = Len(got) + 1
      /\ got'[Len(got) + 1] = r
      /\ \A i \in 1..Len(got) : got'[i] = got[i]
    BY <1>1, <1>3
<1>7. /\ lost' \in Seq(Seq(Bytes)) /\ Len(lost') = Len(got) + 1
      /\ lost'[Len(got) + 1] = u
      /\ \A i \in 1..Len(got) : lost'[i] = lost[i]
    BY <1>1, <1>3
<1>8. RTypes'
  <2>1. NoMask \in Seq(Nat \cup MaskBytes)
      BY DEF NoMask
  <2>2. cipher' \in [m : Seq(Nat \cup MaskBytes), pos : 0..3]
      BY <1>1, <2>1
  <2>3. raw' \in Nat /\ suffix' \in 0..4 /\ in' \in Seq(Bytes) /\ suffix' = 0
      BY <1>1, <1>4
  <2>4. QED
      BY <2>2, <2>3 DEF RTypes
<1>9. Delivered'
  <2>1. ASSUME NEW i \in 1..Len(got')
        PROVE  /\ got'[i] \o lost'[i] = want'[i]
               /\ lost'[i] # <<>> => Len(want'[i]) \in Long'
    <3>1. CASE i \in 1..Len(got)
        BY <1>1, <1>3, <1>6, <1>7, <3>1
    <3>2. CASE i = Len(got) + 1
        BY <1>1, <1>5, <1>6, <1>7, <3>2
    <3>3. i \in 1..Len(got) \/ i = Len(got) + 1
      <4>1. PICK k \in Nat : k = Len(got)
          BY <1>3
      <4>2. i \in 1..(k + 1)
          BY <1>6, <4>1
      <4>3. QED
          BY <4>1, <4>2
    <3>4. QED
        BY <3>1, <3>2, <3>3
  <2>2. Len(lost') = Len(got') /\ Len(got') <= Len(want')
      BY <1>1, <1>3, <1>6, <1>7
  <2>3. QED
      BY <1>1, <1>3, <1>6, <1>7, <2>1, <2>2 DEF Delivered
<1>10. ~InFrame'
    BY <1>1 DEF InFrame
<1>11. Carried'
  <2>1. d \in Nat
      BY <1>2 DEF Left
  <2>2. d = cut[Len(got')]
      BY <1>3, <1>6, <2>1
  <2>3. Here(cut, d)'
      BY <1>1, <1>10, <2>2 DEF Here
  <2>4. QED
      BY <1>1, <1>2, <2>3 DEF Carried
<1>12. Inside'
    BY <1>10 DEF Inside
<1>13. QED
    BY <1>8, <1>9, <1>11, <1>12 DEF RInv

LEMMA PlainEndsKeeps ==
  ASSUME RInv, PlainEnds
  PROVE  RInv'
<1>1. InFrame /\ ~frame.compressed /\ raw = 0 /\ Ends(in, <<>>)
    BY DEF PlainEnds
<1>2. PICK m, q :
        /\ m \in Seq(Bytes) /\ q \in Seq(Bytes) /\ m = want[Len(got) + 1]
        /\ q = IF frame.compressed THEN <<Byte(1)>> \o m ELSE m
        /\ in \in Seq(Bytes) /\ suffix \in 0..4
        /\ Len(in) = Len(q) + suffix
        /\ At(q, 0, in, Len(q)) /\ (suffix > 0 => frame.compressed)
    BY <1>1, FrameTaken
<1>3. q = m /\ Len(in) = Len(m)
    BY <1>1, <1>2
<1>4. \A i \in 1..Len(m) : in[i] = m[i]
    BY <1>2, <1>3 DEF At
<1>5. in = m
    BY <1>2, <1>3, <1>4, SameElements
<1>6. in \o <<>> = want[Len(got) + 1]
    BY <1>2, <1>5
<1>7. <<>> \in Seq(Bytes)
    OBVIOUS
<1>8. QED
    BY <1>1, <1>2, <1>6, <1>7, EndsKeeps

(* With the rest of the tail, the inflater has the message to give.        *)
LEMMA OutputIs ==
  ASSUME RInv, InFrame, raw = 0, frame.compressed
  PROVE  Output = want[Len(got) + 1] /\ Output \in Seq(Bytes)
<1>1. PICK m, q :
        /\ m \in Seq(Bytes) /\ q \in Seq(Bytes) /\ m = want[Len(got) + 1]
        /\ q = <<Byte(1)>> \o m
        /\ in \in Seq(Bytes) /\ suffix \in 0..4
        /\ Len(in) = Len(q) + suffix
        /\ At(q, 0, in, Len(q)) /\ At(in, Len(q), CompressionTail, suffix)
    BY FrameTaken
<1>2. PICK e \in Nat : e = Len(q)
    BY <1>1
<1>3. PICK s \in 0..4 : s = suffix
    BY <1>1
<1>4. PICK n \in Nat : s + n = 4
    BY <1>3
<1>5. e \in Nat /\ s \in Nat /\ n \in Nat
    BY <1>3
<1> DEFINE t == SubSeq(CompressionTail, s + 1, s + n)
           whole == in \o t
<1>6. IsSeqOf(Bytes, n, t) /\ At(CompressionTail, s, t, n)
  <2>1. s + n <= Len(CompressionTail) /\ CompressionTail \in Seq(Bytes)
      BY <1>4, TailIs
  <2>2. QED
      BY <1>5, <2>1, Middle, Zenon
<1> HIDE DEF t
<1>7. /\ IsSeqOf(Bytes, (e + s) + n, whole) /\ At(whole, 0, in, e + s)
      /\ At(whole, e + s, t, n)
  <2>1. IsSum((e + s) + n, e + s, n)
      BY <1>5 DEF IsSum
  <2>2. IsSeqOf(Bytes, e + s, in)
      BY <1>1, <1>2, <1>3 DEF IsSeqOf
  <2>3. QED
      BY <1>6, <2>1, <2>2, Behind, Zenon
<1> HIDE DEF whole
<1>8. At(q, 0, whole, e)
  <2>1. ASSUME NEW i \in 1..e PROVE q[0 + i] = whole[i]
    <3>1. i \in 1..(e + s) /\ 0 + i = i
        BY <1>5
    <3>2. whole[0 + i] = in[i] /\ q[0 + i] = in[i]
        BY <1>1, <1>2, <1>7, <3>1, Zenon DEF At
    <3>3. QED
        BY <3>1, <3>2
  <2>2. QED
      BY <2>1, Zenon DEF At
<1>9. At(whole, e, CompressionTail, 4)
  <2>1. ASSUME NEW i \in 1..4 PROVE whole[e + i] = CompressionTail[i]
    <3>1. CASE i <= s
      <4>1. i \in 1..s /\ e + i \in 1..(e + s) /\ 0 + (e + i) = e + i
          BY <1>5, <3>1
      <4>2. whole[0 + (e + i)] = in[e + i] /\ in[e + i] = CompressionTail[i]
          BY <1>1, <1>2, <1>3, <1>7, <4>1, Zenon DEF At
      <4>3. QED
          BY <4>1, <4>2
    <3>2. CASE i > s
      <4>1. i - s \in 1..n /\ (e + s) + (i - s) = e + i /\ s + (i - s) = i
          BY <1>4, <1>5, <3>2
      <4>2. /\ whole[(e + s) + (i - s)] = t[i - s]
            /\ CompressionTail[s + (i - s)] = t[i - s]
          BY <1>6, <1>7, <4>1, Zenon DEF At
      <4>3. QED
          BY <4>1, <4>2
    <3>3. QED
        BY <1>5, <3>1, <3>2
  <2>2. QED
      BY <2>1, Zenon DEF At
<1>10. whole \in Seq(Bytes) /\ Len(whole) = e + 4
    BY <1>4, <1>5, <1>7 DEF IsSeqOf
<1>11. Inflated(whole) = m
    BY <1>1, <1>2, <1>8, <1>9, <1>10, InflatedBack
<1>12. Output = Inflated(whole)
    BY <1>3, <1>4 DEF Output, whole, t
<1>13. QED
    BY <1>1, <1>11, <1>12

LEMMA CompressedEndsKeeps ==
  ASSUME RInv, NEW n \in 1..Len(Output), CompressedEnds(n)
  PROVE  RInv'
<1>1. InFrame /\ frame.compressed /\ raw = 0
    BY DEF CompressedEnds
<1>2. Output = want[Len(got) + 1] /\ Output \in Seq(Bytes)
    BY <1>1, OutputIs
<1> DEFINE m == Output
           r == SubSeq(m, 1, n)
           u == SubSeq(m, n + 1, Len(m))
<1>3. Ends(r, u)
    BY DEF CompressedEnds
<1>4. m \in Seq(Bytes) /\ n \in 1..Len(m) /\ m = want[Len(got) + 1]
    BY <1>2
<1> HIDE DEF m
<1>5. r \in Seq(Bytes) /\ u \in Seq(Bytes) /\ r \o u = m
    BY <1>4, Halves
<1> HIDE DEF r, u
<1>6. QED
    BY <1>1, <1>3, <1>4, <1>5, EndsKeeps

THEOREM RInvHolds == Spec => []RInv
<1>1. WInv /\ RInv /\ [Next]_vars => RInv'
  <2> SUFFICES ASSUME WInv, RInv, [Next]_vars PROVE RInv'
      OBVIOUS
  <2>1. CASE UNCHANGED vars
      BY <2>1, RInvUnchanged DEF vars, readerVars
  <2>2. CASE \E n \in Lens : Fills(n)
      BY <2>2, RInvUnchanged DEF Fills, fixed
  <2>3. CASE WritesPlain
      BY <2>3, WritesPlainSends
  <2>4. CASE \E missing \in {0, 1, 4, 5, Len(Deflated(slice))} :
               CompressBegins(missing)
      BY <2>4, RInvUnchanged DEF CompressBegins, fixed
  <2>5. CASE \E n \in 1..Len(todo) : CompressorWrites(n)
      BY <2>5, RInvUnchanged DEF CompressorWrites, fixed
  <2>6. CASE Flushes
      BY <2>6, RInvUnchanged DEF Flushes, fixed
  <2>7. CASE WritesCompressed
      BY <2>7, WritesCompressedSends
  <2>8. CASE NextFrame
      BY <2>8, NextFrameKeeps
  <2>9. CASE \E n \in 1..raw : ReadsChunk(n)
      BY <2>9, ReadsChunkKeeps
  <2>10. CASE \E n \in 1..4 : ReadsSuffix(n)
      BY <2>10, ReadsSuffixKeeps
  <2>11. CASE PlainEnds
      BY <2>11, PlainEndsKeeps
  <2>12. CASE \E n \in 1..Len(Output) : CompressedEnds(n)
      BY <2>12, CompressedEndsKeeps
  <2>13. QED
      BY <2>1, <2>2, <2>3, <2>4, <2>5, <2>6, <2>7, <2>8, <2>9, <2>10, <2>11,
         <2>12
      DEF Next
<1>2. QED
    BY <1>1, RInvInit, WInvHolds, PTL DEF Spec

(* SameStream: the messages arrive one for one, in the order in which they *)
(* were passed to Write (transport.go lines 247-372), and none is left     *)
(* once nothing is on the way.  What Read returned of one and what the     *)
(* inflater still held when FrameReader ended it (frame_reader.go line 61) *)
(* make it up, byte for byte; what the inflater held is nothing for an     *)
(* uncompressed message, so that one arrives whole.  A compressed message  *)
(* does if the Read that finds raw.N at 0 empties the inflater.  For       *)
(* messages of any length and number, from either side, in pieces of any   *)
(* size.                                                                   *)
THEOREM StreamAlwaysSame == Spec => []SameStream
<1>1. RInv => SameStream
  <2> SUFFICES ASSUME RInv PROVE SameStream
      OBVIOUS
  <2>1. /\ got \in Seq(Seq(Bytes)) /\ want \in Seq(Seq(Bytes))
        /\ Len(got) = Len(lost) /\ Len(got) <= Len(want)
        /\ \A i \in 1..Len(got) :
             /\ got[i] \o lost[i] = want[i]
             /\ lost[i] # <<>> => Len(want[i]) \in Long
      BY DEF RInv, Delivered
  <2>2. ASSUME NEW i \in DOMAIN got
        PROVE  /\ got[i] \o lost[i] = want[i]
               /\ lost[i] # <<>> => Compresses(want[i])
    <3>1. i \in 1..Len(got)
        BY <2>1
    <3>2. QED
        BY <2>1, <3>1 DEF Compresses, Long
  <2>3. ASSUME wire = <<>>, ~InFrame PROVE Len(got) = Len(want)
    <3>1. PICK W, cut, d : Sent(Long, W, cut, want) /\ Left(W, d, wire) /\ Here(cut, d)
        BY DEF RInv, Carried
    <3>2. d = cut[Len(got)] /\ d \in Nat /\ Len(W) = d
        BY <2>3, <3>1 DEF Here, Left
    <3>3. cut[Len(want)] = Len(W) /\ Rising(cut, Len(want))
        BY <3>1 DEF Sent
    <3>4. ~(Len(got) < Len(want))
      <4>1. Len(got) \in 0..Len(want) /\ Len(want) \in 0..Len(want)
          BY <2>1
      <4>2. Len(got) < Len(want) => cut[Len(got)] < cut[Len(want)]
          BY <3>3, <4>1 DEF Rising
      <4>3. QED
          BY <3>2, <3>3, <4>2
    <3>5. QED
        BY <2>1, <3>4
  <2>4. QED
      BY <2>1, <2>2, <2>3 DEF SameStream
<1>2. QED
    BY <1>1, RInvHolds, PTL

(* TypeOK: every buffer on the way holds bytes, and the counters of        *)
(* CipherReader, LimitedReader, cbuf and suffixedReader stay within what   *)
(* they count (transport.go, flate_wrapper.go, cipher_handler.go).         *)
THEOREM TypeCorrect == Spec => []TypeOK
<1>1. WInv /\ RInv => TypeOK
  <2> SUFFICES ASSUME WInv, RInv PROVE TypeOK
      OBVIOUS
  <2>1. /\ client \in BOOLEAN /\ deflate \in BOOLEAN /\ writes \in 0..MaxWrites
        /\ wpc \in {"idle", "deflating", "flushed"} /\ werr \in BOOLEAN
      BY DEF WInv, Settled
  <2>2. \A s \in Seq(Bytes) : AreBytes(s)
      BY DEF AreBytes
  <2>3. AreBytes(slice) /\ AreBytes(filled)
      BY <2>2 DEF WInv, Slices
  <2>4. AreBytes(todo) /\ AreBytes(total) /\ AreBytes(out) /\ AreBytes(in)
      BY <2>2 DEF WInv, Written, RInv, RTypes
  <2>5. Len(cbuf.buf) = 4 /\ AreBytes(cbuf.buf) /\ cbuf.n \in 0..4
      BY <2>2 DEF WInv, Written, IsCbuf
  <2>6. \A t \in Seq(Seq(Bytes)) : \A i \in DOMAIN t : AreBytes(t[i])
    <3>1. ASSUME NEW t \in Seq(Seq(Bytes)), NEW i \in DOMAIN t
          PROVE  t[i] \in Seq(Bytes)
        OBVIOUS
    <3>2. QED
        BY <2>2, <3>1
  <2>7. /\ \A i \in DOMAIN want : AreBytes(want[i])
        /\ Len(got) = Len(lost)
        /\ \A i \in DOMAIN got : AreBytes(got[i]) /\ AreBytes(lost[i])
    <3>1. /\ got \in Seq(Seq(Bytes)) /\ lost \in Seq(Seq(Bytes))
          /\ want \in Seq(Seq(Bytes)) /\ Len(got) = Len(lost)
        BY DEF RInv, Delivered
    <3>2. DOMAIN got = DOMAIN lost
        BY <3>1
    <3>3. QED
        BY <2>6, <3>1, <3>2
  <2>8. cipher.pos \in 0..3 /\ suffix \in 0..4
      BY DEF RInv, RTypes
  <2>9. raw \in 0..frame.length
    <3>1. CASE InFrame
        BY <3>1 DEF RInv, Inside, Reading, Carries
    <3>2. CASE ~InFrame
      <4>1. raw = 0 /\ frame.length = 0
          BY <3>2 DEF RInv, Carried, Here, InFrame, NoFrame
      <4>2. QED
          BY <4>1
    <3>3. QED
        BY <3>1, <3>2
  <2>10. QED
      BY <2>1, <2>3, <2>4, <2>5, <2>7, <2>8, <2>9 DEF TypeOK
<1>2. QED
    BY <1>1, WInvHolds, RInvHolds, PTL
==============================================================================
