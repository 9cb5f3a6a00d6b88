---------------------------- MODULE WsReaderProofs ----------------------------
(***************************************************************************)
(* Proofs about WsReader, for any lengths of frames and buffers, any limit *)
(* on a frame's size, any window and prefetch of the inflater and any      *)
(* number of frames.                                                       *)
(*                                                                         *)
(* What the properties say of the places between two messages rests on     *)
(* what the reader remembers inside one: which of its states have a frame  *)
(* at hand, how much of it is left, and what the UTF-8 check knows when    *)
(* nothing is left.                                                        *)
(***************************************************************************)
EXTENDS WsReader, TLAPS

(* Where a message and a frame are at hand.  A Read looks for a header only *)
(* when the message has no frame, and Discard runs outside every message.  *)
AtHand ==
  /\ pc = "payload" => msgReader /\ frame # "none"
  /\ pc = "header" /\ msgReader => frame = "none"
  /\ pc = "discard" => /\ ~msgReader /\ fragmented
                       /\ raw = 0 /\ held = 0 /\ pending = 0
                       /\ utf8 = "whole"
  /\ frame = "none" => raw = 0

(* The bytes of a message that was not compressed are those Read returned  *)
(* and those its frame still has.                                          *)
Counted ==
  ~compress =>
    /\ frame # "flate"
    /\ ~msg.comp
    /\ msg.got + (IF msgReader THEN raw ELSE 0) = msg.sent

(* When its frame has nothing left, the check knows how the text stands;   *)
(* only text is cut.                                                       *)
TextKnown ==
  msgReader =>
    /\ CheckUTF8 /\ ~compress /\ opText /\ raw = 0 => utf8 = msg.text
    /\ ~opText => msg.text = "whole"

IInv ==
  /\ TypeOK
  /\ AtHand
  /\ CleanBetween
  /\ NoFrameAdvance
  /\ Counted
  /\ TextKnown
  /\ TextEndsWhole

-----------------------------------------------------------------------------
(* Frames, and the arithmetic of the inflater.                             *)

LEMMA FrameFields ==
  ASSUME NEW f \in Frame
  PROVE  /\ f.op \in {"text", "binary", "ping", "pong", "close", "cont"}
         /\ f.fin \in BOOLEAN /\ f.rsv1 \in BOOLEAN
         /\ f.len \in Nat
         /\ f.ends \in {"whole", "cut"}
  BY WsReaderAssumption DEF Frame, Data, Control

LEMMA ProductBounded ==
  ASSUME NEW m \in Nat, NEW n \in Nat, NEW k \in Nat, m <= n
  PROVE  m * k \in Nat /\ n * k \in Nat /\ m * k <= n * k
<1>1. PICK d \in Nat : n = m + d
    BY n - m \in Nat
<1>2. m * k \in Nat /\ d * k \in Nat
    OBVIOUS
<1>3. (m + d) * k = m * k + d * k
    OBVIOUS
<1>4. QED
    BY <1>1, <1>2, <1>3

MsgType == [sent : Nat, got : Nat, comp : BOOLEAN, mangled : BOOLEAN,
            text : {"whole", "cut"}]

(* The message once a frame has joined it, and once a Read has taken bytes. *)
Grown(m, n, t) ==
  [sent |-> m.sent + n, got |-> m.got, comp |-> m.comp,
   mangled |-> m.mangled, text |-> t]

Taken(m, n, b) ==
  [sent |-> m.sent, got |-> m.got + n, comp |-> m.comp, mangled |-> b,
   text |-> m.text]

LEMMA MsgGrows ==
  ASSUME NEW m \in MsgType, NEW n \in Nat, NEW t \in {"whole", "cut"}
  PROVE  /\ Grown(m, n, t) \in MsgType
         /\ Grown(m, n, t).sent = m.sent + n /\ Grown(m, n, t).text = t
         /\ Grown(m, n, t).got = m.got /\ Grown(m, n, t).comp = m.comp
  BY DEF MsgType, Grown

LEMMA MsgTaken ==
  ASSUME NEW m \in MsgType, NEW n \in Nat, NEW b \in BOOLEAN
  PROVE  /\ Taken(m, n, b) \in MsgType
         /\ Taken(m, n, b).got = m.got + n
         /\ Taken(m, n, b).sent = m.sent /\ Taken(m, n, b).text = m.text
         /\ Taken(m, n, b).comp = m.comp
  BY DEF MsgType, Taken

LEMMA MsgFields ==
  ASSUME NEW m \in MsgType
  PROVE  m = [sent |-> m.sent, got |-> m.got, comp |-> m.comp,
              mangled |-> m.mangled, text |-> m.text]
  BY DEF MsgType

LEMMA InitIInv == Init => IInv
<1> SUFFICES ASSUME Init PROVE IInv
    OBVIOUS
<1> USE WsReaderAssumption DEF Init, NoMessage
<1>1. Window * Expand \in Nat
    BY ProductBounded
<1>2. TypeOK
  <2>1. pending \in 0..(Window * Expand)
      BY <1>1
  <2>2. msg \in MsgType
      BY DEF MsgType
  <2>3. compress \in BOOLEAN /\ want \in BufLens \cup {0} /\ pool \in 0..1
        /\ held \in 0..Prefetch /\ frames \in 0..MaxFrames
      OBVIOUS
  <2>4. QED
      BY <2>1, <2>2, <2>3, Zenon DEF TypeOK, Pcs, MsgType
<1>3. AtHand /\ NoFrameAdvance /\ Counted /\ TextKnown /\ TextEndsWhole
    BY DEF AtHand, NoFrameAdvance, Counted, TextKnown, TextEndsWhole
<1>4. CleanBetween
    BY DEF CleanBetween, FlateBorrowed, OneRefusalEach
<1>5. QED
    BY <1>2, <1>3, <1>4 DEF IInv

(* The first frame of a message: nothing of an earlier one is left.        *)
LEMMA HeaderDataKeeps ==
  ASSUME IInv, NEW f \in Frame, HeaderData(f) PROVE IInv'
<1> USE FrameFields, WsReaderAssumption
    DEF IInv, HeaderData, Opens, Arrives, HeaderOk, Data, Control
<1>1. TypeOK'
  <2>1. msg' \in MsgType
    <3>1. f.len * Expand \in Nat
        BY ProductBounded
    <3>2. QED
        BY <3>1 DEF MsgType
  <2>2. pool' \in 0..1
      BY DEF TypeOK, CleanBetween, FlateBorrowed
  <2>3. frames' \in 0..MaxFrames
      BY DEF TypeOK
  <2>4. QED
      BY <2>1, <2>2, <2>3 DEF TypeOK, Pcs, MsgType
<1>2. AtHand'
    BY DEF AtHand
<1>3. CleanBetween'
    BY DEF CleanBetween, FlateBorrowed, OneRefusalEach, TypeOK
<1>4. NoFrameAdvance'
    BY DEF NoFrameAdvance
<1>5. Counted'
    BY DEF Counted, TypeOK, AtHand
<1>6. TextKnown'
    BY DEF TextKnown, TypeOK, CleanBetween
<1>7. TextEndsWhole'
    BY DEF TextEndsWhole, TypeOK
<1>8. QED
    BY <1>1, <1>2, <1>3, <1>4, <1>5, <1>6, <1>7

LEMMA HeaderContinuesMsg ==
  ASSUME IInv, NEW f \in Frame, HeaderContinues(f)
  PROVE  /\ msg \in MsgType /\ msg' \in MsgType
         /\ msg'.sent = msg.sent + (IF msg.comp THEN f.len * Expand ELSE f.len)
         /\ msg'.text = f.ends
         /\ msg'.got = msg.got /\ msg'.comp = msg.comp
<1> DEFINE n == IF msg.comp THEN f.len * Expand ELSE f.len
<1>1. f.len * Expand \in Nat /\ f.len \in Nat /\ f.ends \in {"whole", "cut"}
    BY ProductBounded, FrameFields, WsReaderAssumption
<1>2. msg \in MsgType
    BY DEF IInv, TypeOK, MsgType
<1>3. n \in Nat
    BY <1>1
<1>4. msg' = Grown(msg, n, f.ends)
  <2>1. msg = [sent |-> msg.sent, got |-> msg.got, comp |-> msg.comp,
               mangled |-> msg.mangled, text |-> msg.text]
      BY <1>2, MsgFields
  <2>2. msg' = [msg EXCEPT !.sent = msg.sent + n, !.text = f.ends]
      BY DEF HeaderContinues
  <2> HIDE DEF n
  <2>3. QED
      BY <2>1, <2>2 DEF Grown
<1> HIDE DEF n
<1>5. /\ Grown(msg, n, f.ends) \in MsgType
      /\ Grown(msg, n, f.ends).sent = msg.sent + n
      /\ Grown(msg, n, f.ends).text = f.ends
      /\ Grown(msg, n, f.ends).got = msg.got
      /\ Grown(msg, n, f.ends).comp = msg.comp
    BY <1>1, <1>2, <1>3, MsgGrows, ZenonT(40)
<1>6. QED
    BY <1>2, <1>4, <1>5 DEF n

LEMMA HeaderContinuesKeeps ==
  ASSUME IInv, NEW f \in Frame, HeaderContinues(f) PROVE IInv'
<1>0. /\ msg \in MsgType /\ msg' \in MsgType
      /\ msg'.sent = msg.sent + (IF msg.comp THEN f.len * Expand ELSE f.len)
      /\ msg'.text = f.ends
      /\ msg'.got = msg.got /\ msg'.comp = msg.comp
    BY HeaderContinuesMsg
<1> USE FrameFields, WsReaderAssumption
    DEF IInv, HeaderContinues, Opens, Arrives, HeaderOk, Data, Control
<1>1. TypeOK'
  <2>1. frames' \in 0..MaxFrames
      BY DEF TypeOK
  <2>2. QED
      BY <1>0, <2>1 DEF TypeOK, Pcs, MsgType
<1>2. AtHand'
    BY DEF AtHand
<1>3. CleanBetween'
    BY DEF CleanBetween, FlateBorrowed, OneRefusalEach, TypeOK
<1>4. NoFrameAdvance'
    BY DEF NoFrameAdvance
<1>5. Counted'
    BY <1>0 DEF Counted, TypeOK, AtHand, MsgType
<1>6. TextKnown'
    BY <1>0 DEF TextKnown, TypeOK, AtHand, MsgType
<1>7. TextEndsWhole'
    BY DEF TextEndsWhole, TypeOK
<1>8. QED
    BY <1>1, <1>2, <1>3, <1>4, <1>5, <1>6, <1>7

(* A message of another type and what Discard throws away of it: what the  *)
(* step does to the reader.                                                *)
LEMMA UnwantedDoes ==
  ASSUME IInv, NEW f \in Frame, HeaderUnwanted(f) \/ DiscardContinues(f)
  PROVE  /\ UNCHANGED <<compress, want, msgReader, last, msg>>
         /\ ~msgReader /\ frames' \in 0..MaxFrames
         /\ \/ pc = "header" /\ unwanted' = unwanted + 1
            \/ pc = "discard" /\ unwanted' = unwanted
         /\ \/ /\ pc' = "header" /\ refusals' = refusals + 1
               /\ ~fragmented' /\ frame' = "none" /\ ~opText' /\ ~flateReader'
               /\ raw' = 0 /\ held' = 0 /\ pending' = 0 /\ utf8' = "whole"
            \/ /\ pc' = "discard" /\ refusals' = refusals
               /\ fragmented' /\ frame' \in {"raw", "flate"}
               /\ ~compress => frame' = "raw"
               /\ opText' \in BOOLEAN
               /\ raw' = 0 /\ UNCHANGED <<held, pending, utf8>>
         /\ fragmented' \in BOOLEAN /\ opText' \in BOOLEAN
         /\ flateReader' \in BOOLEAN
         /\ pool' = IF flateReader' THEN 1 ELSE 0
<1> DEFINE e == [f EXCEPT !.len = 0]
<1>1. e.op = f.op /\ e.fin = f.fin /\ e.rsv1 = f.rsv1 /\ e.len = 0
    BY DEF Frame
<1>2. /\ f.op \in {"text", "binary", "ping", "pong", "close", "cont"}
      /\ f.fin \in BOOLEAN /\ f.rsv1 \in BOOLEAN
    BY FrameFields
<1>3. /\ UNCHANGED <<compress, want, msgReader, last, msg>>
      /\ ~msgReader /\ frames' \in 0..MaxFrames
      /\ \/ pc = "header" /\ unwanted' = unwanted + 1 /\ ~fragmented
         \/ pc = "discard" /\ unwanted' = unwanted /\ ~f.rsv1
      /\ f.rsv1 => compress
    BY <1>2, WsReaderAssumption
    DEF HeaderUnwanted, DiscardContinues, Unwanted, Arrives, HeaderOk, Data,
        IInv, AtHand, CleanBetween, TypeOK
<1>4. pool = (IF flateReader THEN 1 ELSE 0) /\ flateReader \in BOOLEAN
    BY DEF IInv, CleanBetween, FlateBorrowed, TypeOK
<1>5. f.rsv1 => ~flateReader
    BY <1>3 DEF IInv, CleanBetween, FlateBorrowed
<1>6. Unwanted(f)
    BY DEF HeaderUnwanted, DiscardContinues
<1>7. CASE f.fin
  <2>1. /\ Reset /\ pc' = "header" /\ refusals' = refusals + 1
        /\ fragmented' = FALSE
      BY <1>6, <1>7 DEF Unwanted, RefusesLast
  <2>2. /\ frame' = "none" /\ opText' = FALSE /\ flateReader' = FALSE
        /\ raw' = 0 /\ held' = 0 /\ pending' = 0 /\ utf8' = "whole"
      BY <2>1 DEF Reset
  <2>3. pool' = 0
    <3>1. CASE flateReader
        BY <1>4, <2>1, <3>1 DEF Reset, PutsReader
    <3>2. CASE ~flateReader
        BY <1>4, <2>1, <3>2 DEF Reset, PutsReader
    <3>3. QED
        BY <3>1, <3>2
  <2>4. QED
      BY <1>3, <2>1, <2>2, <2>3
<1>8. CASE ~f.fin
  <2>1. /\ Opens(e) /\ pc' = "discard" /\ refusals' = refusals
        /\ fragmented' = TRUE
      BY <1>2, <1>6, <1>8 DEF Unwanted, RefusesLast
  <2> HIDE DEF e
  <2>2. opText \in BOOLEAN
      BY DEF IInv, TypeOK
  <2>3. /\ frame' = IF f.rsv1 THEN "flate" ELSE "raw"
        /\ raw' = 0 /\ flateReader' = (flateReader \/ f.rsv1)
        /\ pool' = IF f.rsv1 THEN pool + 1 ELSE pool
        /\ opText' \in BOOLEAN
        /\ UNCHANGED <<held, pending, utf8>>
      BY <1>1, <2>1, <2>2 DEF Opens
  <2>4. QED
      BY <1>2, <1>3, <1>4, <1>5, <2>1, <2>3
<1>9. QED
    BY <1>2, <1>7, <1>8

LEMMA UnwantedKeeps ==
  ASSUME IInv, NEW f \in Frame, HeaderUnwanted(f) \/ DiscardContinues(f)
  PROVE  IInv'
<1> USE UnwantedDoes DEF IInv
<1>1. TypeOK'
  <2>1. Window * Expand \in Nat
      BY ProductBounded, WsReaderAssumption
  <2>2. held' \in 0..Prefetch /\ pending' \in 0..(Window * Expand)
      BY <2>1, WsReaderAssumption DEF TypeOK
  <2>3. QED
      BY <2>2, WsReaderAssumption DEF TypeOK, Pcs
<1>2. AtHand'
    BY DEF AtHand, CleanBetween
<1>3. CleanBetween'
    BY DEF AtHand, CleanBetween, FlateBorrowed, OneRefusalEach, TypeOK
<1>4. NoFrameAdvance'
    BY DEF NoFrameAdvance
<1>5. Counted'
    BY DEF Counted, TypeOK, AtHand
<1>6. TextKnown'
    BY DEF TextKnown, TypeOK, CleanBetween
<1>7. TextEndsWhole'
    BY DEF TextEndsWhole, TypeOK
<1>8. QED
    BY <1>1, <1>2, <1>3, <1>4, <1>5, <1>6, <1>7

LEMMA ControlBetweenKeeps ==
  ASSUME IInv, NEW f \in Frame, ControlBetween(f) PROVE IInv'
<1> USE FrameFields, WsReaderAssumption
    DEF IInv, ControlBetween, Opens, Reset, PutsReader, Arrives, HeaderOk,
        Data, Control
<1>1. TypeOK'
  <2>1. Window * Expand \in Nat
      BY ProductBounded
  <2>2. /\ held' \in 0..Prefetch /\ pending' \in 0..(Window * Expand)
        /\ pool' \in 0..1 /\ frames' \in 0..MaxFrames
      BY <2>1 DEF TypeOK, CleanBetween, FlateBorrowed
  <2>3. /\ fragmented' \in BOOLEAN /\ opText' \in BOOLEAN
        /\ flateReader' \in BOOLEAN
    <3>1. CASE f.len > 0
        BY <3>1 DEF TypeOK
    <3>2. CASE ~(f.len > 0)
        BY <3>2 DEF TypeOK
    <3>3. QED
        BY <3>1, <3>2
  <2>4. QED
      BY <2>2, <2>3 DEF TypeOK, Pcs
<1>2. AtHand'
    BY DEF AtHand
<1>3. CleanBetween'
    BY DEF CleanBetween, FlateBorrowed, OneRefusalEach, TypeOK
<1>4. NoFrameAdvance'
    BY DEF NoFrameAdvance
<1>5. Counted'
    BY DEF Counted, TypeOK, AtHand
<1>6. TextKnown'
    BY DEF TextKnown, TypeOK, CleanBetween
<1>7. TextEndsWhole'
    BY DEF TextEndsWhole, TypeOK
<1>8. QED
    BY <1>1, <1>2, <1>3, <1>4, <1>5, <1>6, <1>7

LEMMA ControlWithinKeeps ==
  ASSUME IInv, NEW f \in Frame, ControlWithin(f) PROVE IInv'
<1> USE FrameFields, WsReaderAssumption
    DEF IInv, ControlWithin, StaysFragmented, Arrives, HeaderOk, Data, Control
<1>1. TypeOK'
    BY DEF TypeOK, Pcs, CleanBetween, FlateBorrowed
<1>2. AtHand'
    BY DEF AtHand
<1>3. CleanBetween'
    BY DEF CleanBetween, FlateBorrowed, OneRefusalEach, TypeOK
<1>4. NoFrameAdvance'
    BY DEF NoFrameAdvance
<1>5. Counted'
    BY DEF Counted, TypeOK, AtHand
<1>6. TextKnown'
    BY DEF TextKnown, TypeOK, CleanBetween
<1>7. TextEndsWhole'
    BY DEF TextEndsWhole, TypeOK
<1>8. QED
    BY <1>1, <1>2, <1>3, <1>4, <1>5, <1>6, <1>7

(* Read gives up: only where it is and what it answers change, and within  *)
(* Discard the parts that reset clears.                                    *)
LEMMA FailsKeeps ==
  ASSUME IInv, Fails, UNCHANGED compress, frames' \in 0..MaxFrames,
         pc \in {"header", "payload", "discard"}
  PROVE  IInv'
<1>0. /\ pc' = "failed" /\ want' = 0 /\ last' = "err"
      /\ UNCHANGED <<msgReader, fragmented, refusals, unwanted, msg>>
      /\ \/ UNCHANGED readerVars
         \/ /\ frame' = "none" /\ raw' = 0 /\ opText' = FALSE
            /\ flateReader' = FALSE /\ pool' = 0 /\ held' = 0 /\ pending' = 0
            /\ utf8' = "whole" /\ ~msgReader
  <2>1. CASE pc = "discard"
    <3>1. pool' = 0 /\ ~msgReader
        BY <2>1 DEF IInv, AtHand, CleanBetween, FlateBorrowed, Fails, Reset, PutsReader
    <3>2. QED
        BY <2>1, <3>1 DEF Fails, Reset
  <2>2. CASE pc # "discard"
      BY <2>2 DEF Fails, readerVars
  <2>3. QED
      BY <2>1, <2>2
<1> USE WsReaderAssumption DEF IInv, readerVars
<1>1. TypeOK'
  <2>1. /\ fragmented' \in BOOLEAN /\ opText' \in BOOLEAN
        /\ frame' \in {"none", "raw", "flate"} /\ raw' \in Nat
        /\ flateReader' \in BOOLEAN /\ pool' \in 0..1
        /\ held' \in 0..Prefetch /\ pending' \in 0..(Window * Expand)
        /\ utf8' \in {"whole", "cut"}
    <3>1. 0 \in 0..Prefetch /\ 0 \in 0..(Window * Expand)
      <4>1. Window * Expand \in Nat
          BY SMT
      <4>2. QED
          BY <4>1
    <3>2. CASE UNCHANGED readerVars
        BY <3>2 DEF TypeOK
    <3>3. CASE /\ frame' = "none" /\ raw' = 0 /\ opText' = FALSE
               /\ flateReader' = FALSE /\ pool' = 0 /\ held' = 0
               /\ pending' = 0 /\ utf8' = "whole" /\ ~msgReader
      <4>1. fragmented' \in BOOLEAN
          BY <1>0 DEF TypeOK
      <4>2. opText' \in BOOLEAN /\ flateReader' \in BOOLEAN
          BY <3>3, Zenon
      <4>3. /\ frame' \in {"none", "raw", "flate"} /\ raw' \in Nat
            /\ pool' \in 0..1 /\ utf8' \in {"whole", "cut"}
          BY <3>3
      <4>4. held' \in 0..Prefetch /\ pending' \in 0..(Window * Expand)
          BY <3>1, <3>3, Zenon
      <4>5. QED
          BY <4>1, <4>2, <4>3, <4>4, Zenon
    <3>4. QED
        BY <1>0, <3>2, <3>3
  <2>2. QED
      BY <1>0, <2>1 DEF TypeOK, Pcs
<1>2. AtHand'
    BY <1>0 DEF AtHand
<1>3. CleanBetween'
  <2>1. FlateBorrowed'
      BY <1>0 DEF CleanBetween, FlateBorrowed
  <2>2. OneRefusalEach'
      BY <1>0 DEF CleanBetween, OneRefusalEach
  <2>3. QED
      BY <1>0, <2>1, <2>2 DEF CleanBetween
<1>4. NoFrameAdvance'
    BY <1>0 DEF NoFrameAdvance
<1>5. Counted'
    BY <1>0 DEF Counted, TypeOK, AtHand
<1>6. TextKnown'
    BY <1>0 DEF TextKnown, TypeOK, CleanBetween
<1>7. TextEndsWhole'
    BY <1>0 DEF TextEndsWhole, TypeOK
<1>8. QED
    BY <1>1, <1>2, <1>3, <1>4, <1>5, <1>6, <1>7

(* A Read of the payload: n bytes are returned, and what is left of the    *)
(* frame and what the UTF-8 check found are as the caller computed them.   *)
LEMMA ReadReturnsKeeps ==
  ASSUME IInv, pc = "payload",
         NEW n \in Nat, NEW rl \in Nat, NEW hl \in 0..Prefetch,
         NEW pl \in 0..(Window * Expand), NEW u \in {"whole", "cut"},
         ReadReturns(n, rl, hl, pl, u),
         frame = "raw" => n + rl = raw,
         ~compress /\ CheckUTF8 /\ opText /\ rl = 0 => u = msg.text
  PROVE  IInv'
<1>0. /\ msg \in MsgType /\ msg' \in MsgType
      /\ msg'.got = msg.got + n
      /\ msg'.sent = msg.sent /\ msg'.text = msg.text /\ msg'.comp = msg.comp
  <2> DEFINE b == msg.mangled \/ (msg.comp /\ frame = "raw" /\ n > 0)
  <2>1. msg \in MsgType
      BY DEF IInv, TypeOK, MsgType
  <2>2. msg' = [msg EXCEPT !.got = msg.got + n, !.mangled = b]
      BY DEF ReadReturns
  <2>3. b \in BOOLEAN
      BY <2>1 DEF MsgType
  <2> HIDE DEF b
  <2>4. msg' = Taken(msg, n, b)
    <3>1. msg = [sent |-> msg.sent, got |-> msg.got, comp |-> msg.comp,
                 mangled |-> msg.mangled, text |-> msg.text]
        BY <2>1, MsgFields
    <3>2. QED
        BY <2>2, <3>1 DEF Taken
  <2>5. /\ Taken(msg, n, b) \in MsgType
        /\ Taken(msg, n, b).got = msg.got + n
        /\ Taken(msg, n, b).sent = msg.sent
        /\ Taken(msg, n, b).text = msg.text
        /\ Taken(msg, n, b).comp = msg.comp
      BY <2>1, <2>3, MsgTaken
  <2>6. QED
      BY <2>1, <2>4, <2>5
<1>A. /\ UNCHANGED <<compress, fragmented, refusals, frames, unwanted>>
      /\ want' = 0
      /\ \/ /\ rl > 0
            /\ pc' = "idle" /\ last' = "more"
            /\ raw' = rl /\ held' = hl /\ pending' = pl
            /\ utf8' = u
            /\ UNCHANGED <<msgReader, opText, frame, flateReader, pool>>
         \/ /\ rl = 0 /\ fragmented
            /\ pc' = "idle" /\ last' = "more"
            /\ frame' = "none" /\ raw' = 0 /\ held' = 0 /\ pending' = 0
            /\ utf8' = u
            /\ UNCHANGED <<msgReader, opText, flateReader, pool>>
         \/ /\ rl = 0 /\ ~fragmented /\ TextIsCut(u)
            /\ pc' = "failed" /\ last' = "err"
            /\ raw' = 0 /\ held' = hl /\ pending' = pl
            /\ utf8' = u
            /\ UNCHANGED <<msgReader, opText, frame, flateReader, pool>>
         \/ /\ rl = 0 /\ ~fragmented /\ ~TextIsCut(u)
            /\ pc' = "idle" /\ last' = "eof"
            /\ frame' = "none" /\ raw' = 0 /\ held' = 0 /\ pending' = 0
            /\ utf8' = "whole" /\ opText' = FALSE /\ flateReader' = FALSE
            /\ pool' = IF flateReader THEN pool - 1 ELSE pool
            /\ msgReader' = FALSE
    BY DEF ReadReturns, MoreFrames, ResetFragment, Utf8Survives, Reset, PutsReader
<1>B. /\ pool = (IF flateReader THEN 1 ELSE 0) /\ flateReader \in BOOLEAN
      /\ msgReader /\ msgReader' \in BOOLEAN /\ frame # "none"
    BY <1>A DEF IInv, CleanBetween, FlateBorrowed, TypeOK, AtHand
<1>C. pool' = (IF flateReader' THEN 1 ELSE 0) /\ flateReader' \in BOOLEAN
  <2>1. CASE flateReader' = flateReader /\ pool' = pool
      BY <1>B, <2>1
  <2>2. CASE /\ flateReader' = FALSE
             /\ pool' = IF flateReader THEN pool - 1 ELSE pool
    <3>1. CASE flateReader
      <4>1. pool = 1 /\ pool' = pool - 1
          BY <1>B, <2>2, <3>1
      <4>2. pool' = 0
          BY <4>1
      <4>3. QED
          BY <2>2, <4>2
    <3>2. CASE ~flateReader
        BY <1>B, <2>2, <3>2
    <3>3. QED
        BY <3>1, <3>2
  <2>3. QED
      BY <1>A, <2>1, <2>2
<1> USE WsReaderAssumption DEF IInv
<1>1. TypeOK'
  <2>1. pool' \in 0..1 /\ flateReader' \in BOOLEAN
      BY <1>C
  <2>2. pending' \in 0..(Window * Expand) /\ held' \in 0..Prefetch
    <3>1. Window * Expand \in Nat
        BY ProductBounded
    <3>2. QED
        BY <1>A, <3>1
  <2>3. QED
      BY <1>0, <1>A, <2>1, <2>2, ZenonT(40) DEF TypeOK, Pcs, MsgType
<1>2. AtHand'
    BY <1>A DEF AtHand
<1>3. CleanBetween'
    BY <1>A, <1>B, <1>C DEF CleanBetween, FlateBorrowed, OneRefusalEach, TypeOK
<1>4. NoFrameAdvance'
    BY <1>A DEF NoFrameAdvance
<1>5. Counted'
  <2> SUFFICES ASSUME ~compress
               PROVE  /\ frame' # "flate" /\ ~msg'.comp
                      /\ msg'.got + (IF msgReader' THEN raw' ELSE 0) = msg'.sent
      BY <1>A DEF Counted
  <2>1. /\ frame = "raw" /\ ~msg.comp /\ msg.got + raw = msg.sent
        /\ n + rl = raw
      BY <1>B DEF Counted, TypeOK
  <2>2. frame' # "flate" /\ ~msg'.comp
      BY <1>0, <1>A, <2>1
  <2>3. msg.got \in Nat /\ msg.sent \in Nat /\ raw \in Nat
      BY <1>0 DEF MsgType, TypeOK
  <2>4. msg'.got + rl = msg'.sent
      BY <1>0, <2>1, <2>3
  <2>5. \/ msgReader' /\ raw' = rl
        \/ ~msgReader' /\ rl = 0
      BY <1>A, <1>B
  <2>6. QED
    <3>1. CASE msgReader' /\ raw' = rl
        BY <2>2, <2>4, <3>1
    <3>2. CASE ~msgReader' /\ rl = 0
        BY <2>2, <2>4, <3>2
    <3>3. QED
        BY <2>5, <3>1, <3>2
<1>6. TextKnown'
    BY <1>0, <1>A DEF TextKnown, TypeOK, AtHand
<1>7. TextEndsWhole'
    BY <1>0, <1>A DEF TextEndsWhole, TextKnown, TextIsCut, TypeOK, AtHand
<1>8. QED
    BY <1>1, <1>2, <1>3, <1>4, <1>5, <1>6, <1>7

LEMMA PayloadRawKeeps ==
  ASSUME IInv, NEW n \in 0..want, PayloadRaw(n) PROVE IInv'
<1> DEFINE u == IF CheckUTF8 /\ opText /\ n > 0 /\ n = raw
                  THEN msg.text ELSE utf8
<1>1. /\ pc = "payload" /\ frame = "raw" /\ n <= raw
      /\ ReadReturns(n, raw - n, 0, 0, u)
    BY DEF PayloadRaw
<1>2. raw \in Nat /\ want \in Nat /\ Window * Expand \in Nat
    BY WsReaderAssumption, ProductBounded DEF IInv, TypeOK
<1>3. n \in Nat /\ raw - n \in Nat /\ n + (raw - n) = raw
    BY <1>1, <1>2
<1>4. 0 \in 0..Prefetch /\ 0 \in 0..(Window * Expand)
    BY <1>2, WsReaderAssumption
<1>5. u \in {"whole", "cut"}
  <2>1. msg.text \in {"whole", "cut"} /\ utf8 \in {"whole", "cut"}
      BY DEF IInv, TypeOK
  <2>2. QED
      BY <2>1
<1>6. ~compress /\ CheckUTF8 /\ opText /\ raw - n = 0 => u = msg.text
  <2> SUFFICES ASSUME ~compress, CheckUTF8, opText, raw - n = 0
               PROVE  u = msg.text
      OBVIOUS
  <2>1. n = raw
      BY <1>2, <1>3
  <2>2. CASE n > 0
      BY <2>1, <2>2
  <2>3. CASE ~(n > 0)
    <3>1. raw = 0
        BY <1>3, <2>1, <2>3
    <3>2. utf8 = msg.text
        BY <1>1, <3>1 DEF IInv, TextKnown, AtHand
    <3>3. QED
        BY <2>3, <3>2
  <2>4. QED
      BY <2>2, <2>3
<1> HIDE DEF u
<1>7. QED
    BY <1>1, <1>3, <1>4, <1>5, <1>6, ReadReturnsKeeps

LEMMA LeastIs ==
  ASSUME NEW m \in Nat, NEW n \in Nat
  PROVE  Least(m, n) \in Nat /\ Least(m, n) <= m /\ Least(m, n) <= n
  BY DEF Least

(* The inflater never decodes more than a window.                          *)
LEMMA PayloadFlateKeeps ==
  ASSUME IInv, NEW left \in 0..Prefetch, NEW u \in {"whole", "cut"},
         PayloadFlate(left, u)
  PROVE  IInv'
<1> DEFINE avail == held + raw
           bite  == Least(Window, avail)
           d     == IF pending = 0 THEN bite * Expand ELSE pending
           n     == Least(want, d)
           rest  == IF pending = 0 THEN avail - bite ELSE avail
<1>1. /\ pc = "payload" /\ frame = "flate" /\ left <= rest
      /\ ReadReturns(n, rest - left, left, d - n, u)
    BY DEF PayloadFlate
<1>2. /\ held \in Nat /\ raw \in Nat /\ want \in Nat /\ left \in Nat
      /\ pending \in 0..(Window * Expand)
      /\ Window \in Nat /\ Expand \in Nat /\ Prefetch \in Nat
    BY WsReaderAssumption DEF IInv, TypeOK
<1>3. avail \in Nat
    BY <1>2
<1> HIDE DEF avail
<1>4. bite \in Nat /\ bite <= Window /\ bite <= avail
    BY <1>2, <1>3, LeastIs
<1> HIDE DEF bite
<1>5. bite * Expand \in Nat /\ Window * Expand \in Nat
      /\ bite * Expand <= Window * Expand
    BY <1>2, <1>4, ProductBounded
<1>6. d \in Nat /\ d <= Window * Expand
    BY <1>2, <1>5
<1>7. rest \in Nat
    BY <1>3, <1>4
<1> HIDE DEF d, rest
<1>8. n \in Nat /\ n <= d
    BY <1>2, <1>6, LeastIs
<1> HIDE DEF n
<1>9. rest - left \in Nat /\ d - n \in 0..(Window * Expand)
    BY <1>1, <1>2, <1>5, <1>6, <1>7, <1>8
<1>10. compress
    BY <1>1 DEF IInv, Counted
<1>11. frame # "raw"
    BY <1>1
<1>12. QED
    BY <1>1, <1>8, <1>9, <1>10, <1>11, ReadReturnsKeeps

LEMMA CallKeeps ==
  ASSUME IInv, NEW k \in BufLens, Call(k) PROVE IInv'
  BY WsReaderAssumption
  DEF IInv, Call, readerVars, TypeOK, Pcs, AtHand, CleanBetween, FlateBorrowed,
      OneRefusalEach, NoFrameAdvance, Counted, TextKnown, TextEndsWhole

LEMMA NextKeepsIInv == IInv /\ [Next]_vars => IInv'
<1> SUFFICES ASSUME IInv, [Next]_vars PROVE IInv'
    OBVIOUS
<1>1. ASSUME NEW k \in BufLens, Call(k) PROVE IInv'
    BY <1>1, CallKeeps
<1>2. ASSUME NEW f \in Frame, HeaderData(f) PROVE IInv'
    BY <1>2, HeaderDataKeeps
<1>3. ASSUME NEW f \in Frame, HeaderContinues(f) PROVE IInv'
    BY <1>3, HeaderContinuesKeeps
<1>4. ASSUME NEW f \in Frame, HeaderUnwanted(f) \/ DiscardContinues(f) PROVE IInv'
    BY <1>4, UnwantedKeeps
<1>5. ASSUME NEW f \in Frame, ControlBetween(f) PROVE IInv'
    BY <1>5, ControlBetweenKeeps
<1>6. ASSUME NEW f \in Frame, ControlWithin(f) PROVE IInv'
    BY <1>6, ControlWithinKeeps
<1>7. ASSUME NEW f \in Frame, PeerCloses(f) \/ HeaderRefused(f) PROVE IInv'
  <2>1. frames' \in 0..MaxFrames
      BY <1>7, WsReaderAssumption
      DEF PeerCloses, HeaderRefused, Arrives, IInv, TypeOK
  <2>2. QED
      BY <1>7, <2>1, FailsKeeps DEF PeerCloses, HeaderRefused, Arrives
<1>8. CASE Breaks
    BY <1>8, FailsKeeps DEF Breaks, IInv, TypeOK
<1>9. ASSUME NEW n \in 0..want, PayloadRaw(n) PROVE IInv'
    BY <1>9, PayloadRawKeeps
<1>10. ASSUME NEW left \in 0..Prefetch, NEW u \in {"whole", "cut"},
              PayloadFlate(left, u)
       PROVE  IInv'
    BY <1>10, PayloadFlateKeeps
<1>11. CASE UNCHANGED vars
    BY <1>11
    DEF vars, IInv, TypeOK, AtHand, CleanBetween, FlateBorrowed, OneRefusalEach,
        NoFrameAdvance, Counted, TextKnown, TextEndsWhole
<1>12. QED
    BY <1>1, <1>2, <1>3, <1>4, <1>5, <1>6, <1>7, <1>8, <1>9, <1>10, <1>11 DEF Next

-----------------------------------------------------------------------------
(* The theorems.                                                           *)

LEMMA IInvHolds == Spec => []IInv
  BY InitIInv, NextKeepsIInv, PTL DEF Spec

(* Every reachable state of the reader is well typed; in particular at     *)
(* most one flate reader is out of the pool.                               *)
THEOREM TypeCorrect == Spec => []TypeOK
<1>1. IInv => TypeOK
    BY DEF IInv
<1>2. QED
    BY <1>1, IInvHolds, PTL

(* A message that is over leaves nothing behind for the next one           *)
(* (frame_reader.go's reset and transport.go lines 216-242).               *)
THEOREM CleanAlwaysBetween == Spec => []CleanBetween
<1>1. IInv => CleanBetween
    BY DEF IInv
<1>2. QED
    BY <1>1, IInvHolds, PTL

(* transport.go line 207: Read never meets ErrNoFrameAdvance.              *)
THEOREM AlwaysAdvances == Spec => []NoFrameAdvance
<1>1. IInv => NoFrameAdvance
    BY DEF IInv
<1>2. QED
    BY <1>1, IInvHolds, PTL

(* frame_reader.go lines 66-73: no text accepted with CheckUTF8 ends in    *)
(* the middle of a character.                                              *)
THEOREM TextAlwaysEndsWhole == Spec => []TextEndsWhole
<1>1. IInv => TextEndsWhole
    BY DEF IInv
<1>2. QED
    BY <1>1, IInvHolds, PTL

-----------------------------------------------------------------------------
(* Without compression the reader implements MessageStream.                *)

Phase == IF compress \/ ~msgReader THEN "between"
         ELSE IF fragmented THEN "part" ELSE "whole"
Arrived == IF compress THEN 0 ELSE msg.sent
TakenSoFar == IF compress THEN 0 ELSE msg.got
Over == ~compress /\ pc = "failed"

LEMMA InitRefines == Init => Stream!Init
  BY DEF Init, NoMessage, Stream!Init

LEMMA StutterRefines ==
  ASSUME Phase' = Phase, Arrived' = Arrived, TakenSoFar' = TakenSoFar,
         Over' = Over
  PROVE  [Stream!Next]_(Stream!vars)
  BY DEF Stream!vars, Phase, Arrived, TakenSoFar, Over

(* A reader of compressed messages promises nothing: it stays where the    *)
(* abstract reader starts.                                                 *)
LEMMA CompressedRefines ==
  ASSUME compress, compress' = compress PROVE [Stream!Next]_(Stream!vars)
  BY StutterRefines DEF Phase, Arrived, TakenSoFar, Over

LEMMA CompressIsKept == [Next]_vars => compress' = compress
  BY DEF Next, vars, Call, HeaderData, HeaderContinues, HeaderUnwanted,
         DiscardContinues, Unwanted, ControlBetween, ControlWithin, PeerCloses,
         HeaderRefused, Arrives, Breaks, PayloadRaw, PayloadFlate, ReadReturns

(* A step that neither touches the message nor gives up is a stutter.      *)
LEMMA IdleRefines ==
  ASSUME ~compress, ~compress', UNCHANGED <<msgReader, msg>>,
         msgReader => fragmented' = fragmented,
         pc # "failed", pc' # "failed"
  PROVE  [Stream!Next]_(Stream!vars)
  BY StutterRefines DEF Phase, Arrived, TakenSoFar, Over

(* A message begins with its first frame.                                  *)
LEMMA BeginRefines ==
  ASSUME IInv, ~compress, ~compress', NEW f \in Frame, HeaderData(f)
  PROVE  [Stream!Next]_(Stream!vars)
<1>1. /\ f.fin \in BOOLEAN /\ f.rsv1 \in BOOLEAN /\ f.len \in 0..MaxFrameSize
    BY FrameFields, WsReaderAssumption DEF HeaderData, HeaderOk
<1>2. ~f.rsv1
    BY <1>1 DEF HeaderData, Arrives
<1>3. /\ ~msgReader /\ msgReader' = TRUE
      /\ pc = "header" /\ pc' = "payload"
      /\ fragmented' = ~f.fin
      /\ msg'.sent = f.len /\ msg'.got = 0
    BY <1>2 DEF HeaderData, Opens
<1>4. Stream!Begin(f.len, f.fin)
  <2>1. ~Over /\ Over' = Over /\ Phase = "between"
      BY <1>3 DEF Over, Phase
  <2>2. Phase' = IF f.fin THEN "whole" ELSE "part"
      BY <1>1, <1>3 DEF Phase
  <2>3. Arrived' = f.len /\ TakenSoFar' = 0
      BY <1>3 DEF Arrived, TakenSoFar
  <2>4. QED
      BY <2>1, <2>2, <2>3
      DEF Stream!Begin, Stream!Announced, Over, Phase, Arrived, TakenSoFar
<1>5. QED
    BY <1>1, <1>4 DEF Stream!Next

LEMMA ContinueRefines ==
  ASSUME IInv, ~compress, ~compress', NEW f \in Frame, HeaderContinues(f)
  PROVE  [Stream!Next]_(Stream!vars)
<1>1. /\ f.fin \in BOOLEAN /\ f.len \in 0..MaxFrameSize
    BY FrameFields, WsReaderAssumption DEF HeaderContinues, HeaderOk
<1>2. /\ msgReader /\ msgReader' = msgReader
      /\ pc = "header" /\ pc' = "payload"
      /\ fragmented /\ fragmented' = ~f.fin
    BY DEF HeaderContinues, HeaderOk, Opens
<1>3. msg'.sent = msg.sent + f.len /\ msg'.got = msg.got
    BY HeaderContinuesMsg DEF IInv, Counted
<1>4. Stream!Continue(f.len, f.fin)
  <2>1. ~Over /\ Over' = Over /\ Phase = "part"
      BY <1>2 DEF Over, Phase
  <2>2. Phase' = IF f.fin THEN "whole" ELSE "part"
      BY <1>1, <1>2 DEF Phase
  <2>3. Arrived' = Arrived + f.len /\ TakenSoFar' = TakenSoFar
      BY <1>3 DEF Arrived, TakenSoFar
  <2>4. QED
      BY <2>1, <2>2, <2>3
      DEF Stream!Continue, Stream!Announced, Over, Phase, Arrived, TakenSoFar
<1>5. QED
    BY <1>1, <1>4 DEF Stream!Next

(* Reading never gives more than the peer has announced.                   *)
LEMMA NeverTooMuch ==
  ASSUME IInv, ~compress
  PROVE  /\ msg.got \in Nat /\ msg.sent \in Nat /\ raw \in Nat
         /\ msg.got <= msg.sent
         /\ msgReader => msg.got + raw = msg.sent
<1>1. msg.got \in Nat /\ msg.sent \in Nat /\ raw \in Nat
    BY DEF IInv, TypeOK
<1>2. CASE msgReader
    BY <1>1, <1>2 DEF IInv, Counted
<1>3. CASE ~msgReader
    BY <1>1, <1>3 DEF IInv, Counted
<1>4. QED
    BY <1>1, <1>2, <1>3

LEMMA FailRefines ==
  ASSUME IInv, ~compress, ~compress', Fails
  PROVE  [Stream!Next]_(Stream!vars)
<1>1. TakenSoFar \in TakenSoFar..Arrived
    BY NeverTooMuch DEF TakenSoFar, Arrived
<1>2. /\ Over' = TRUE
      /\ Phase' = Phase /\ Arrived' = Arrived /\ TakenSoFar' = TakenSoFar
  <2>1. fragmented' = fragmented /\ msgReader' = msgReader /\ msg' = msg
        /\ pc' = "failed"
      BY DEF Fails, readerVars
  <2>2. QED
      BY <2>1 DEF Over, Phase, Arrived, TakenSoFar
<1>3. Stream!Fail
    BY <1>1, <1>2 DEF Stream!Fail, Over, Phase, Arrived, TakenSoFar
<1>4. QED
    BY <1>3 DEF Stream!Next

(* A Read takes bytes, or takes the last ones and ends the message, or     *)
(* takes the last ones of a text that is cut and gives up.                 *)
LEMMA TakeRefines ==
  ASSUME IInv, ~compress, ~compress', NEW n \in 0..want, PayloadRaw(n)
  PROVE  [Stream!Next]_(Stream!vars)
<1> DEFINE u == IF CheckUTF8 /\ opText /\ n > 0 /\ n = raw
                  THEN msg.text ELSE utf8
<1>1. /\ pc = "payload" /\ n <= raw /\ ReadReturns(n, raw - n, 0, 0, u)
    BY DEF PayloadRaw
<1> HIDE DEF u
<1>2. /\ msg.got \in Nat /\ msg.sent \in Nat /\ raw \in Nat /\ n \in Nat
      /\ msgReader /\ msg.got + raw = msg.sent
      /\ fragmented \in BOOLEAN
    BY <1>1, NeverTooMuch, WsReaderAssumption DEF IInv, AtHand, TypeOK
<1>3. msg'.got = msg.got + n /\ msg'.sent = msg.sent
    BY <1>1, <1>2 DEF ReadReturns, IInv, TypeOK
<1>4. /\ fragmented' = fragmented
      /\ \/ raw - n > 0 /\ pc' = "idle" /\ msgReader' = msgReader
         \/ raw - n = 0 /\ fragmented /\ pc' = "idle" /\ msgReader' = msgReader
         \/ raw - n = 0 /\ ~fragmented /\ pc' = "failed" /\ msgReader' = msgReader
         \/ raw - n = 0 /\ ~fragmented /\ pc' = "idle" /\ msgReader' = FALSE
    BY <1>1 DEF ReadReturns, MoreFrames
<1>5. /\ ~Over /\ Phase = IF fragmented THEN "part" ELSE "whole"
      /\ Arrived = msg.sent /\ TakenSoFar = msg.got
      /\ Arrived' = Arrived /\ TakenSoFar' = TakenSoFar + n
    BY <1>1, <1>2, <1>3 DEF Over, Phase, Arrived, TakenSoFar
<1>6. TakenSoFar + n <= Arrived /\ n \in 0..Arrived
    BY <1>1, <1>2, <1>5
<1>7. CASE \/ raw - n > 0 /\ pc' = "idle" /\ msgReader' = msgReader
           \/ raw - n = 0 /\ fragmented /\ pc' = "idle" /\ msgReader' = msgReader
  <2>1. Phase' = Phase /\ Over' = Over /\ Phase # "between"
    <3>1. /\ pc # "failed" /\ pc' # "failed"
          /\ msgReader' = msgReader /\ fragmented' = fragmented
          /\ compress' = compress
        BY <1>1, <1>4, <1>7 DEF ReadReturns
    <3>2. Phase' = Phase /\ Over' = Over
        BY <3>1 DEF Phase, Over
    <3>3. Phase # "between"
      <4>1. CASE fragmented
          BY <1>5, <4>1
      <4>2. CASE ~fragmented
          BY <1>5, <4>2
      <4>3. QED
          BY <4>1, <4>2
    <3>4. QED
        BY <3>2, <3>3
  <2>2. Phase = "whole" => TakenSoFar + n < Arrived
    <3>1. CASE fragmented
        BY <1>5, <3>1
    <3>2. CASE ~fragmented
      <4>1. raw - n > 0
          BY <1>7, <3>2
      <4>2. msg.got + n < msg.sent
          BY <1>2, <4>1
      <4>3. QED
          BY <1>5, <4>2
    <3>3. QED
        BY <3>1, <3>2
  <2>3. Stream!Take(n)
      BY <1>5, <1>6, <2>1, <2>2
      DEF Stream!Take, Over, Phase, Arrived, TakenSoFar
  <2>4. QED
      BY <1>6, <2>3 DEF Stream!Next, Arrived
<1>8. CASE raw - n = 0 /\ ~fragmented /\ pc' = "failed" /\ msgReader' = msgReader
  <2>1. Phase' = Phase /\ Over' = TRUE
      BY <1>2, <1>4, <1>8 DEF Phase, Over
  <2>2. TakenSoFar' \in TakenSoFar..Arrived
      BY <1>2, <1>5, <1>6
  <2>3. Stream!Fail
      BY <1>5, <2>1, <2>2 DEF Stream!Fail, Over, Phase, Arrived, TakenSoFar
  <2>4. QED
      BY <2>3 DEF Stream!Next
<1>9. CASE raw - n = 0 /\ ~fragmented /\ pc' = "idle" /\ msgReader' = FALSE
  <2>1. Phase = "whole" /\ Phase' = "between" /\ Over' = Over
      BY <1>1, <1>2, <1>5, <1>9 DEF Phase, Over
  <2>2. TakenSoFar' = Arrived
      BY <1>2, <1>5, <1>9
  <2>3. Stream!Finish
      BY <1>5, <2>1, <2>2 DEF Stream!Finish, Over, Phase, Arrived, TakenSoFar
  <2>4. QED
      BY <2>3 DEF Stream!Next
<1>10. QED
    BY <1>4, <1>7, <1>8, <1>9

LEMMA NextRefines == IInv /\ [Next]_vars => [Stream!Next]_(Stream!vars)
<1> SUFFICES ASSUME IInv, [Next]_vars PROVE [Stream!Next]_(Stream!vars)
    OBVIOUS
<1>1. compress \in BOOLEAN /\ compress' = compress
    BY CompressIsKept DEF IInv, TypeOK
<1>2. CASE compress
    BY <1>1, <1>2, CompressedRefines
<1>3. CASE ~compress
  <2>0. ~compress'
      BY <1>1, <1>3
  <2>1. ASSUME NEW k \in BufLens, Call(k) PROVE [Stream!Next]_(Stream!vars)
    <3>1. UNCHANGED <<msgReader, msg, fragmented>> /\ pc # "failed" /\ pc' # "failed"
        BY <2>1 DEF Call, readerVars
    <3>2. QED
        BY <1>3, <2>0, <3>1, IdleRefines
  <2>2. ASSUME NEW f \in Frame, HeaderData(f) PROVE [Stream!Next]_(Stream!vars)
      BY <1>3, <2>0, <2>2, BeginRefines
  <2>3. ASSUME NEW f \in Frame, HeaderContinues(f)
        PROVE  [Stream!Next]_(Stream!vars)
      BY <1>3, <2>0, <2>3, ContinueRefines
  <2>4. ASSUME NEW f \in Frame, HeaderUnwanted(f) \/ DiscardContinues(f)
        PROVE  [Stream!Next]_(Stream!vars)
    <3>1. /\ UNCHANGED <<msgReader, msg>> /\ ~msgReader
          /\ pc # "failed" /\ pc' # "failed"
        BY <2>4, UnwantedDoes
    <3>2. QED
        BY <1>3, <2>0, <3>1, IdleRefines
  <2>5. ASSUME NEW f \in Frame, ControlBetween(f) \/ ControlWithin(f)
        PROVE  [Stream!Next]_(Stream!vars)
    <3>1. /\ UNCHANGED <<msgReader, msg>>
          /\ msgReader => fragmented' = fragmented
          /\ pc # "failed" /\ pc' # "failed"
        BY <2>5 DEF ControlBetween, ControlWithin, StaysFragmented
    <3>2. QED
        BY <1>3, <2>0, <3>1, IdleRefines
  <2>6. ASSUME NEW f \in Frame, PeerCloses(f) \/ HeaderRefused(f)
        PROVE  [Stream!Next]_(Stream!vars)
      BY <1>3, <2>0, <2>6, FailRefines DEF PeerCloses, HeaderRefused
  <2>7. CASE Breaks
      BY <1>3, <2>0, <2>7, FailRefines DEF Breaks
  <2>8. ASSUME NEW n \in 0..want, PayloadRaw(n)
        PROVE  [Stream!Next]_(Stream!vars)
      BY <1>3, <2>0, <2>8, TakeRefines
  <2>9. ASSUME NEW left \in 0..Prefetch, NEW u \in {"whole", "cut"},
               PayloadFlate(left, u)
        PROVE  [Stream!Next]_(Stream!vars)
      BY <1>3, <2>9 DEF PayloadFlate, IInv, Counted
  <2>10. CASE UNCHANGED vars
      BY <2>10, StutterRefines DEF vars, Phase, Arrived, TakenSoFar, Over
  <2>11. QED
      BY <2>1, <2>2, <2>3, <2>4, <2>5, <2>6, <2>7, <2>8, <2>9, <2>10 DEF Next
<1>4. QED
    BY <1>1, <1>2, <1>3

(* Refinement: io.EOF comes with the last byte of a message and only then, *)
(* whatever fragments, control frames and short reads it comes in          *)
(* (transport.go lines 203-244).                                           *)
THEOREM ImplementsStream == Spec => ReadsMessages
<1>1. []IInv /\ [][Next]_vars => [][Stream!Next]_(Stream!vars)
    BY NextRefines, PTL
<1>2. QED
    BY IInvHolds, InitRefines, <1>1, PTL DEF Spec, ReadsMessages, Stream!Spec
==============================================================================
