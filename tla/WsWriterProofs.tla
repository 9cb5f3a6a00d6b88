---------------------------- MODULE WsWriterProofs ----------------------------
(***************************************************************************)
(* Proofs about WsWriter, for any writers, any capacities and any bounds:  *)
(* frames are never interleaved, and a flush covers what its goroutine     *)
(* wrote before it.                                                        *)
(*                                                                         *)
(* FramesWhole is not inductive.  It does not say that a goroutine which   *)
(* is to write a payload finds its own header at the end of what is on its *)
(* way, nor that it is the only one that can write.  The type invariant is *)
(* not inductive either: that the reader finds a header where it expects   *)
(* one depends on what the peer has sent and the reader has taken.         *)
(***************************************************************************)
EXTENDS WsWriter, SequenceTheorems, TLAPS

(* What a goroutine can be doing where it is.                              *)
JobFits ==
  /\ \A w \in Writers : job[w] \in Calls \cup {"none"} /\ pc[w] # "payload"
  /\ job[Reader] \in Answers \cup {"none"}
  /\ \A p \in Procs :
       /\ pc[p] \in {"want", "put"} => job[p] # "none"
       /\ pc[p] = "put"  => job[p] # "flush"
       /\ pc[p] = "rest" => InTwo(p)
       /\ pc[p] = "flush" => job[p] \in {"flush", "close", "refusal"}
  /\ pc[Reader] = "payload" => job[Reader] \in {"pong", "closeReply", "protocolError"}

(* Exactly the lock's holder is between Lock and Unlock.                   *)
Inside(p) ==
  \/ pc[p] \in {"put", "rest", "flush"}
  \/ pc[p] = "payload" /\ job[p] = "pong"

LockKept == \A p \in Procs : Inside(p) <=> lock = p

(* The peer's payloads follow their headers, and the reader is where it    *)
(* expects one when one is next.                                           *)
Awaits == pc[Reader] = "payload" \/ (pc[Reader] = "want" /\ job[Reader] = "pong")

InboundFits ==
  /\ inbound # <<>> => ((inbound[1] = "payload") <=> Awaits)
  /\ \A i \in 1..(Len(inbound) - 1) :
       (inbound[i + 1] = "payload") <=> (inbound[i] \in WithPayload)

(* A connection without a write buffer buffers nothing.                    *)
Unbuffered == ~buffered => buf = <<>>

HeaderOf(p) == [by |-> p, job |-> job[p], part |-> "header"]

(* A header is followed by its payload.                                    *)
Followed ==
  \A i \in 1..(Len(Out) - 1) :
    Out[i].part = "header" => Out[i + 1] = [Out[i] EXCEPT !.part = "payload"]

(* What comes last is a header if and only if its writer has still to      *)
(* write the payload.                                                      *)
LastOpen ==
  ~broken =>
    /\ \A p \in Procs : pc[p] = "rest" => Len(Out) > 0 /\ Out[Len(Out)] = HeaderOf(p)
    /\ Len(Out) > 0 /\ Out[Len(Out)].part = "header" =>
         pc[Out[Len(Out)].by] = "rest"

Places == JobFits /\ LockKept

IInv == TypeOK /\ Places /\ InboundFits /\ Unbuffered /\ Followed /\ LastOpen
        /\ FlushCovers

-----------------------------------------------------------------------------
(* Sequences.                                                              *)

LEMMA TailShifts ==
  ASSUME NEW S, NEW s \in Seq(S), s # <<>>
  PROVE  /\ Head(s) = s[1] /\ 1 \in 1..Len(s) /\ Head(s) \in S
         /\ Tail(s) \in Seq(S)
         /\ Len(Tail(s)) = Len(s) - 1
         /\ \A i \in 1..Len(Tail(s)) : Tail(s)[i] = s[i + 1]
  OBVIOUS

LEMMA AppendKeeps ==
  ASSUME NEW S, NEW s \in Seq(S), NEW e \in S
  PROVE  /\ Append(s, e) \in Seq(S)
         /\ Len(Append(s, e)) = Len(s) + 1
         /\ \A i \in 1..Len(s) : Append(s, e)[i] = s[i]
         /\ Append(s, e)[Len(s) + 1] = e
  OBVIOUS

(* What follows the first part of a sequence.                              *)
LEMMA BehindFirst ==
  ASSUME NEW S, NEW s \in Seq(S), NEW t \in Seq(S)
  PROVE  /\ s \o t \in Seq(S) /\ Len(s) \in Nat /\ Len(t) \in Nat
         /\ Len(t) = Len(s \o t) - Len(s)
         /\ \A i \in 1..Len(t) : t[i] = (s \o t)[i + Len(s)]
         /\ Len(t) > 0 => Len(s \o t) > 0 /\ t[Len(t)] = (s \o t)[Len(s \o t)]
<1>1. Len(s) \in Nat /\ Len(t) \in Nat
    BY LenProperties
<1>2. /\ s \o t \in Seq(S) /\ Len(s \o t) = Len(s) + Len(t)
      /\ \A j \in 1..(Len(s) + Len(t)) :
           (s \o t)[j] = IF j <= Len(s) THEN s[j] ELSE t[j - Len(s)]
    BY ConcatProperties
<1>3. ASSUME NEW i \in 1..Len(t) PROVE t[i] = (s \o t)[i + Len(s)]
  <2>1. /\ i + Len(s) \in 1..(Len(s) + Len(t))
        /\ ~(i + Len(s) <= Len(s)) /\ (i + Len(s)) - Len(s) = i
      BY <1>1
  <2> QED
      BY <1>2, <2>1
<1>4. Len(t) > 0 => Len(t) \in 1..Len(t) /\ Len(t) + Len(s) = Len(s \o t)
    BY <1>1, <1>2
<1> QED
    BY <1>1, <1>2, <1>3, <1>4

(* transport.Write puts a piece behind all that is on its way, wherever    *)
(* the piece itself goes.                                                  *)
LEMMA PutsAppends ==
  ASSUME last \in Seq(Piece), pipe \in Seq(Piece), buf \in Seq(Piece), Unbuffered,
         NEW piece \in Piece, Puts(piece), UNCHANGED last
  PROVE  Out' = Append(Out, piece)
<1> DEFINE front == last \o pipe
<1>1. front \in Seq(Piece) /\ Out = front \o buf /\ <<piece>> \in Seq(Piece)
    BY ConcatProperties DEF Out
<1>2. Append(Out, piece) = (front \o buf) \o <<piece>>
  <2>1. Out \in Seq(Piece)
      BY <1>1, ConcatProperties
  <2> QED
      BY <1>1, <2>1, AppendIsConcat
<1>3. CASE pipe' = pipe /\ buf' = Append(buf, piece)
  <2>1. buf' = buf \o <<piece>>
      BY <1>3, AppendIsConcat
  <2>2. Out' = front \o (buf \o <<piece>>)
      BY <1>3, <2>1 DEF Out
  <2> QED
      BY <1>1, <1>2, <2>2, ConcatAssociative, SMTT(40)
<1>4. CASE pipe' = pipe \o buf /\ buf' = <<piece>>
  <2>1. Out' = (last \o (pipe \o buf)) \o <<piece>>
      BY <1>4 DEF Out
  <2>2. last \o (pipe \o buf) = front \o buf
      BY ConcatAssociative, SMTT(40)
  <2> QED
      BY <1>2, <2>1, <2>2
<1>5. CASE buf = <<>> /\ pipe' = Append(pipe, piece) /\ buf' = buf
  <2>1. Out' = (last \o Append(pipe, piece)) \o <<>>
      BY <1>5 DEF Out
  <2>2. Append(pipe, piece) = pipe \o <<piece>> /\ Append(pipe, piece) \in Seq(Piece)
      BY AppendIsConcat, AppendKeeps
  <2>3. last \o (pipe \o <<piece>>) = front \o <<piece>>
      BY <1>1, ConcatAssociative
  <2>4. last \o Append(pipe, piece) \in Seq(Piece)
      BY <2>2, ConcatProperties
  <2>5. Out' = front \o <<piece>>
      BY <2>1, <2>2, <2>3, <2>4, ConcatEmptySeq
  <2>6. front \o buf = front
      BY <1>1, <1>5, ConcatEmptySeq
  <2> QED
      BY <1>2, <2>5, <2>6
<1> QED
    BY <1>3, <1>4, <1>5 DEF Puts, Unbuffered

-----------------------------------------------------------------------------
LEMMA InitIInv == Init => IInv
<1> SUFFICES ASSUME Init PROVE IInv
    OBVIOUS
<1> USE WsWriterAssumption
<1>1. /\ buf = <<>> /\ pipe = <<>> /\ last = <<>> /\ inbound = <<>>
      /\ pc = [p \in Procs |-> "idle"] /\ job = [p \in Procs |-> "none"]
      /\ lock = Nobody
    BY DEF Init
<1>2. Len(buf) = 0 /\ Len(pipe) = 0 /\ Len(last) = 0 /\ Len(inbound) = 0
      /\ buf \in Seq(Piece) /\ pipe \in Seq(Piece) /\ last \in Seq(Piece)
      /\ inbound \in Seq(Inbound)
    BY <1>1
<1>3. TypeOK
  <2>1. pc \in [Procs -> Pcs] /\ job \in [Procs -> Calls \cup Answers \cup {"none"}]
      BY <1>1 DEF Pcs
  <2>2. /\ Len(buf) <= BufCap /\ Len(pipe) <= PipeCap /\ Len(last) <= 1
        /\ sent \in 0..MaxIn /\ calls \in 0..MaxCalls
      BY <1>2 DEF Init
  <2> QED
      BY <1>1, <1>2, <2>1, <2>2 DEF Init, TypeOK
<1>4. Places
    BY <1>1 DEF Places, JobFits, LockKept, Inside, Procs
<1>5. Out \in Seq(Piece) /\ Len(Out) = 0
    BY <1>2, ConcatProperties DEF Out
<1>6. Followed /\ LastOpen
    BY <1>1, <1>5 DEF Followed, LastOpen
<1>7. InboundFits
    BY <1>1, <1>2 DEF InboundFits
<1>8. Unbuffered /\ FlushCovers
    BY <1>1, <1>2 DEF Unbuffered, FlushCovers
<1> QED
    BY <1>3, <1>4, <1>6, <1>7, <1>8 DEF IInv

-----------------------------------------------------------------------------
(* What each part of an action does.                                       *)

LEMMA LeavesDoes ==
  ASSUME TypeOK, NEW p \in Procs, NEW failed \in BOOLEAN, Leaves(p, failed)
  PROVE  /\ lock' = Nobody
         /\ pc' \in [Procs -> Pcs]
         /\ pc'[p] \in {"idle", "over"}
         /\ pc'[p] = "idle" /\ p = Reader => job[p] = "refusal" \/ (~failed /\ job[p] \notin Final)
         /\ \A q \in Procs : q # p => pc'[q] = pc[q]
  BY DEF Leaves, FreeOnError, TypeOK, Pcs

(* The pieces of a goroutine that writes are pieces.                       *)
LEMMA PieceFits ==
  ASSUME TypeOK, JobFits, NEW p \in Procs, pc[p] \in {"put", "rest"},
         NEW part \in {"frame", "header", "payload"}
  PROVE  [by |-> p, job |-> job[p], part |-> part] \in Piece
<1>1. job[p] \in Calls \cup Answers
    BY DEF TypeOK, JobFits, InTwo, Calls, Answers
<1> QED
    BY <1>1 DEF Piece

LEMMA PutsTypes ==
  ASSUME TypeOK, NEW piece \in Piece, Puts(piece)
  PROVE  /\ buf' \in Seq(Piece) /\ Len(buf') <= BufCap
         /\ pipe' \in Seq(Piece) /\ Len(pipe') <= PipeCap
<1> USE WsWriterAssumption DEF TypeOK
<1>1. CASE HasRoom /\ buf' = Append(buf, piece) /\ UNCHANGED pipe
    BY <1>1, AppendKeeps DEF HasRoom
<1>2. CASE Len(pipe) + Len(buf) <= PipeCap /\ pipe' = pipe \o buf /\ buf' = <<piece>>
  <2>1. pipe' \in Seq(Piece) /\ Len(pipe') = Len(pipe) + Len(buf)
      BY <1>2, ConcatProperties
  <2>2. buf' \in Seq(Piece) /\ Len(buf') = 1
      BY <1>2
  <2> QED
      BY <1>2, <2>1, <2>2
<1>3. CASE Len(pipe) < PipeCap /\ pipe' = Append(pipe, piece) /\ UNCHANGED buf
    BY <1>3, AppendKeeps
<1> QED
    BY <1>1, <1>2, <1>3 DEF Puts

(* A goroutine with the lock writes its frame, or the header of it ...     *)
LEMMA FirstDoes ==
  ASSUME TypeOK, JobFits, NEW p \in Procs, PutsFirst(p)
  PROVE  \E piece \in Piece :
           /\ Puts(piece) /\ piece.by = p
           /\ IF InTwo(p) THEN piece = HeaderOf(p) ELSE piece.part = "frame"
<1> DEFINE piece == [by |-> p, job |-> job[p],
                     part |-> IF InTwo(p) THEN "header" ELSE "frame"]
<1>1. pc[p] = "put" /\ Puts(piece)
    BY DEF PutsFirst
<1>2. piece \in Piece
  <2>1. CASE InTwo(p)
      BY <1>1, <2>1, PieceFits
  <2>2. CASE ~InTwo(p)
      BY <1>1, <2>2, PieceFits
  <2> QED
      BY <2>1, <2>2
<1>3. IF InTwo(p) THEN piece = HeaderOf(p) ELSE piece.part = "frame"
    BY DEF HeaderOf
<1> QED
    BY <1>1, <1>2, <1>3

(* ... and the payload of that header.                                     *)
LEMMA RestDoes ==
  ASSUME TypeOK, JobFits, NEW p \in Procs, PutsRest(p)
  PROVE  \E piece \in Piece :
           Puts(piece) /\ piece.by = p /\ piece = [HeaderOf(p) EXCEPT !.part = "payload"]
<1> DEFINE piece == [by |-> p, job |-> job[p], part |-> "payload"]
<1>1. pc[p] = "rest" /\ Puts(piece)
    BY DEF PutsRest
<1>2. piece \in Piece
    BY <1>1, PieceFits
<1>3. piece = [HeaderOf(p) EXCEPT !.part = "payload"]
    BY DEF HeaderOf
<1> QED
    BY <1>1, <1>2, <1>3

-----------------------------------------------------------------------------
(* Type correctness.                                                       *)

LEMMA NextTypeOK ==
  TypeOK /\ JobFits /\ InboundFits /\ [Next]_vars => TypeOK'
<1> SUFFICES ASSUME TypeOK, JobFits, InboundFits, [Next]_vars PROVE TypeOK'
    OBVIOUS
<1> USE WsWriterAssumption
<1>1. ASSUME NEW w \in Writers, NEW call \in Calls, Begins(w, call) PROVE TypeOK'
    BY <1>1 DEF Begins, TypeOK, peerVars, Pcs, Procs
<1>2. ASSUME NEW p \in Procs, Locks(p) PROVE TypeOK'
    BY <1>2 DEF Locks, AfterLock, TypeOK, peerVars, Pcs
<1>3. ASSUME NEW p \in Procs, PutsFirst(p) PROVE TypeOK'
  <2>1. /\ buf' \in Seq(Piece) /\ Len(buf') <= BufCap
        /\ pipe' \in Seq(Piece) /\ Len(pipe') <= PipeCap
      BY <1>3, FirstDoes, PutsTypes
  <2>2. pc' \in [Procs -> Pcs] /\ lock' \in Procs \cup {Nobody}
    <3>1. CASE InTwo(p)
        BY <1>3, <3>1 DEF PutsFirst, TypeOK, Pcs
    <3>2. CASE ~InTwo(p)
        BY <1>3, <3>2, LeavesDoes DEF PutsFirst
    <3> QED
        BY <3>1, <3>2
  <2> QED
      BY <1>3, <2>1, <2>2 DEF PutsFirst, TypeOK
<1>4. ASSUME NEW p \in Procs, PutsRest(p) PROVE TypeOK'
  <2>1. /\ buf' \in Seq(Piece) /\ Len(buf') <= BufCap
        /\ pipe' \in Seq(Piece) /\ Len(pipe') <= PipeCap
      BY <1>4, RestDoes, PutsTypes
  <2>2. pc' \in [Procs -> Pcs] /\ lock' \in Procs \cup {Nobody}
    <3>1. CASE FlushesAfter(p)
        BY <1>4, <3>1 DEF PutsRest, TypeOK, Pcs
    <3>2. CASE ~FlushesAfter(p)
        BY <1>4, <3>2, LeavesDoes DEF PutsRest
    <3> QED
        BY <3>1, <3>2
  <2> QED
      BY <1>4, <2>1, <2>2 DEF PutsRest, TypeOK
<1>5. ASSUME NEW p \in Procs, Flushes(p) PROVE TypeOK'
  <2>1. pipe' \in Seq(Piece) /\ Len(pipe') = Len(pipe) + Len(buf)
      BY <1>5, ConcatProperties DEF Flushes, TypeOK
  <2>2. buf' \in Seq(Piece) /\ Len(buf') = 0
      BY <1>5 DEF Flushes
  <2>3. pc' \in [Procs -> Pcs] /\ lock' = Nobody
      BY <1>5, LeavesDoes DEF Flushes
  <2> QED
      BY <1>5, <2>1, <2>2, <2>3 DEF Flushes, TypeOK
<1>6. ASSUME NEW p \in Procs, WriteFails(p) PROVE TypeOK'
  <2>1. pc' \in [Procs -> Pcs] /\ lock' = Nobody
      BY <1>6, LeavesDoes DEF WriteFails
  <2> QED
      BY <1>6, <2>1 DEF WriteFails, TypeOK, peerVars
<1>7. CASE ReaderTakes
  <2>1. /\ inbound \in Seq(Inbound) /\ inbound # <<>> /\ inbound[1] # "payload"
        /\ Head(inbound) = inbound[1] /\ Head(inbound) \in Inbound
        /\ Tail(inbound) \in Seq(Inbound)
      BY <1>7, TailShifts DEF ReaderTakes, TypeOK, InboundFits, Awaits
  <2>2. AnswerTo(Head(inbound)) \in Answers
      BY <2>1 DEF AnswerTo, Answers, Inbound, WithPayload
  <2> QED
      BY <1>7, <2>1, <2>2 DEF ReaderTakes, TypeOK, Pcs, Procs
<1>8. CASE ReaderHasPayload
  <2>1. Tail(inbound) \in Seq(Inbound)
      BY <1>8, TailShifts DEF ReaderHasPayload, TypeOK
  <2> QED
      BY <1>8, <2>1 DEF ReaderHasPayload, TypeOK, Pcs, Procs
<1>9. CASE ReaderFails
  <2>1. pc' \in [Procs -> Pcs] /\ lock' \in Procs \cup {Nobody}
    <3>1. CASE lock = Reader
        BY <1>9, <3>1, LeavesDoes DEF ReaderFails, Procs
    <3>2. CASE lock # Reader
        BY <1>9, <3>2 DEF ReaderFails, TypeOK, Pcs, Procs
    <3> QED
        BY <3>1, <3>2
  <2> QED
      BY <1>9, <2>1 DEF ReaderFails, TypeOK, peerVars
<1>10. CASE PeerReads
  <2>1. Head(pipe) \in Piece /\ Tail(pipe) \in Seq(Piece) /\ Len(Tail(pipe)) = Len(pipe) - 1
      BY <1>10, TailShifts DEF PeerReads, TypeOK
  <2>2. last' \in Seq(Piece) /\ Len(last') = 1
      BY <1>10, <2>1 DEF PeerReads
  <2> QED
      BY <1>10, <2>1, <2>2 DEF PeerReads, TypeOK
<1>11. ASSUME NEW x \in Inbound, PeerSends(x) PROVE TypeOK'
  <2>1. Append(inbound, x) \in Seq(Inbound)
      BY AppendKeeps DEF TypeOK
  <2> QED
      BY <1>11, <2>1 DEF PeerSends, TypeOK
<1>12. CASE Breaks
    BY <1>12 DEF Breaks, TypeOK
<1>13. CASE UNCHANGED vars
    BY <1>13 DEF vars, TypeOK
<1> QED
    BY <1>1, <1>2, <1>3, <1>4, <1>5, <1>6, <1>7, <1>8, <1>9, <1>10, <1>11,
       <1>12, <1>13 DEF Next, Working, Reading

-----------------------------------------------------------------------------
(* Where the goroutines are, and who has the lock.                         *)

(* An action of p that changes nothing but what p does and perhaps the     *)
(* lock keeps Places, if p is where it may be afterwards, and the lock is  *)
(* p's exactly if it is inside.                                            *)
LEMMA OneMoves ==
  ASSUME TypeOK, Places, NEW p \in Procs,
         \A q \in Procs : q # p => pc'[q] = pc[q] /\ job'[q] = job[q],
         p \in Writers => job'[p] \in Calls \cup {"none"} /\ pc'[p] # "payload",
         p = Reader => job'[p] \in Answers \cup {"none"},
         pc'[p] \in {"want", "put"} => job'[p] # "none",
         pc'[p] = "put"  => job'[p] # "flush",
         pc'[p] = "rest" => InTwo(p)',
         pc'[p] = "flush" => job'[p] \in {"flush", "close", "refusal"},
         p = Reader /\ pc'[p] = "payload" =>
           job'[p] \in {"pong", "closeReply", "protocolError"},
         \/ lock' = lock /\ lock # p /\ ~Inside(p)'
         \/ lock' = p /\ lock \in {p, Nobody} /\ Inside(p)'
         \/ lock' = Nobody /\ lock \in {p, Nobody} /\ ~Inside(p)'
  PROVE  Places'
<1> USE WsWriterAssumption
<1>1. JobFits'
  <2>1. ASSUME NEW w \in Writers PROVE job'[w] \in Calls \cup {"none"} /\ pc'[w] # "payload"
      BY DEF Places, JobFits, Procs
  <2>2. job'[Reader] \in Answers \cup {"none"}
      BY DEF Places, JobFits, Procs
  <2>3. ASSUME NEW q \in Procs
        PROVE  /\ pc'[q] \in {"want", "put"} => job'[q] # "none"
               /\ pc'[q] = "put"  => job'[q] # "flush"
               /\ pc'[q] = "rest" => InTwo(q)'
               /\ pc'[q] = "flush" => job'[q] \in {"flush", "close", "refusal"}
    <3>1. CASE q = p
        BY <3>1
    <3>2. CASE q # p
        BY <3>2 DEF Places, JobFits, InTwo
    <3> QED
        BY <3>1, <3>2
  <2>4. pc'[Reader] = "payload" => job'[Reader] \in {"pong", "closeReply", "protocolError"}
      BY DEF Places, JobFits, Procs
  <2> QED
      BY <2>1, <2>2, <2>3, <2>4 DEF JobFits
<1>2. LockKept'
  <2>1. \A q \in Procs : q # p => (Inside(q)' <=> Inside(q)) /\ (Inside(q) <=> lock = q)
      BY DEF Places, LockKept, Inside
  <2>2. \A q \in Procs : q # Nobody
      BY DEF Procs
  <2>3. \A q \in Procs : q # p => (Inside(q)' <=> lock' = q)
      BY <2>1, <2>2
  <2>4. Inside(p)' <=> lock' = p
      BY <2>2
  <2> QED
      BY <2>3, <2>4 DEF LockKept
<1> QED
    BY <1>1, <1>2 DEF Places

LEMMA NextPlaces ==
  TypeOK /\ Places /\ InboundFits /\ [Next]_vars => Places'
<1> SUFFICES ASSUME TypeOK, Places, InboundFits, [Next]_vars PROVE Places'
    OBVIOUS
<1> USE WsWriterAssumption
<1>0. \A p \in Procs : (Inside(p) <=> lock = p) /\ p # Nobody
    BY DEF Places, LockKept, Procs
<1>1. ASSUME NEW w \in Writers, NEW call \in Calls, Begins(w, call) PROVE Places'
  <2>1. w \in Procs /\ w # Reader /\ ~Inside(w) /\ ~Inside(w)' /\ lock' = lock
        /\ job' = [job EXCEPT ![w] = call] /\ pc' = [pc EXCEPT ![w] = "want"]
      BY <1>1 DEF Begins, TypeOK, Inside, Procs
  <2> QED
      BY <1>0, <2>1, OneMoves DEF TypeOK, Calls
<1>2. ASSUME NEW p \in Procs, Locks(p) PROVE Places'
  <2>1. /\ pc[p] = "want" /\ lock = Nobody /\ lock' = p /\ job' = job
        /\ pc' = [pc EXCEPT ![p] = AfterLock(p)]
      BY <1>2 DEF Locks, LockFree
  <2>2. /\ job[p] = "flush" => pc'[p] = "flush"
        /\ job[p] = "pong" => pc'[p] = "payload"
        /\ job[p] \notin {"flush", "pong"} => pc'[p] = "put"
      BY <2>1 DEF AfterLock, TypeOK
  <2>3. Inside(p)'
      BY <2>1, <2>2 DEF Inside
  <2>4. /\ p \in Writers => job[p] \in Calls \cup {"none"}
        /\ p = Reader => job[p] \in Answers \cup {"none"}
        /\ job[p] # "none"
      BY <2>1 DEF Places, JobFits
  <2>5. p \in Writers => job[p] # "pong"
      BY <2>4 DEF Calls
  <2>6. p = Reader => job[p] # "flush"
      BY <2>4 DEF Answers
  <2> QED
      BY <2>1, <2>2, <2>3, <2>4, <2>5, <2>6, OneMoves DEF TypeOK
<1>3. ASSUME NEW p \in Procs, PutsFirst(p) PROVE Places'
  <2>1. pc[p] = "put" /\ lock = p /\ job' = job
      BY <1>0, <1>3 DEF PutsFirst, Inside
  <2>2. CASE InTwo(p)
    <3>1. lock' = lock /\ pc' = [pc EXCEPT ![p] = "rest"] /\ pc'[p] = "rest"
        BY <1>3, <2>2 DEF PutsFirst, TypeOK
    <3>2. Inside(p)' /\ InTwo(p)'
        BY <2>1, <2>2, <3>1 DEF Inside, InTwo
    <3> QED
        BY <2>1, <3>1, <3>2, OneMoves DEF TypeOK, Places, JobFits
  <2>3. CASE ~InTwo(p)
    <3>1. /\ lock' = Nobody /\ pc'[p] \in {"idle", "over"}
          /\ \A q \in Procs : q # p => pc'[q] = pc[q]
        BY <1>3, <2>3, LeavesDoes DEF PutsFirst
    <3> QED
        BY <2>1, <3>1, OneMoves DEF Inside, Places, JobFits
  <2> QED
      BY <2>2, <2>3
<1>4. ASSUME NEW p \in Procs, PutsRest(p) PROVE Places'
  <2>1. pc[p] = "rest" /\ lock = p /\ job' = job
      BY <1>0, <1>4 DEF PutsRest, Inside
  <2>2. CASE FlushesAfter(p)
    <3>1. lock' = lock /\ pc' = [pc EXCEPT ![p] = "flush"] /\ pc'[p] = "flush"
        BY <1>4, <2>2 DEF PutsRest, TypeOK
    <3>2. Inside(p)' /\ job[p] \in {"close", "refusal"}
        BY <2>2, <3>1 DEF Inside, FlushesAfter
    <3> QED
        BY <2>1, <3>1, <3>2, OneMoves DEF TypeOK, Places, JobFits
  <2>3. CASE ~FlushesAfter(p)
    <3>1. /\ lock' = Nobody /\ pc'[p] \in {"idle", "over"}
          /\ \A q \in Procs : q # p => pc'[q] = pc[q]
        BY <1>4, <2>3, LeavesDoes DEF PutsRest
    <3> QED
        BY <2>1, <3>1, OneMoves DEF Inside, Places, JobFits
  <2> QED
      BY <2>2, <2>3
<1>5. ASSUME NEW p \in Procs, Flushes(p) \/ WriteFails(p) PROVE Places'
  <2>1. pc[p] \in {"put", "rest", "flush"} /\ lock = p /\ job' = job
      BY <1>0, <1>5 DEF Flushes, WriteFails, Inside
  <2>2. /\ lock' = Nobody /\ pc'[p] \in {"idle", "over"}
        /\ \A q \in Procs : q # p => pc'[q] = pc[q]
      BY <1>5, LeavesDoes DEF Flushes, WriteFails
  <2> QED
      BY <2>1, <2>2, OneMoves DEF Inside, Places, JobFits
<1>6. CASE ReaderTakes
  <2>1. Reader \in Procs /\ Reader \notin Writers
      BY DEF Procs
  <2>2. /\ inbound[1] # "payload" /\ Head(inbound) = inbound[1]
        /\ Head(inbound) \in Inbound
      BY <1>6, TailShifts DEF ReaderTakes, TypeOK, InboundFits, Awaits
  <2> DEFINE answer == AnswerTo(Head(inbound))
  <2>3. /\ answer \in Answers /\ answer # "none"
        /\ Head(inbound) \in {"close", "badClose"} => answer \in {"closeReply", "protocolError"}
      BY <2>2 DEF AnswerTo, Answers, Inbound, WithPayload
  <2>4. /\ pc[Reader] = "idle" /\ lock' = lock
        /\ pc'[Reader] \in {"payload", "want"} /\ job'[Reader] = answer
        /\ pc'[Reader] = "payload" => answer \in {"closeReply", "protocolError"}
        /\ \A q \in Procs : q # Reader => pc'[q] = pc[q] /\ job'[q] = job[q]
      BY <1>6, <2>1, <2>3 DEF ReaderTakes, TypeOK
  <2>5. lock # Reader /\ ~Inside(Reader)'
      BY <1>0, <2>1, <2>4 DEF Inside
  <2> HIDE DEF answer
  <2> QED
      BY <2>1, <2>3, <2>4, <2>5, OneMoves
<1>7. CASE ReaderHasPayload
  <2>1. Reader \in Procs /\ Reader \notin Writers
      BY DEF Procs
  <2>2. /\ pc[Reader] = "payload" /\ lock' = lock /\ job' = job
        /\ pc'[Reader] = (IF job[Reader] = "pong" THEN "put" ELSE "want")
        /\ \A q \in Procs : q # Reader => pc'[q] = pc[q]
        /\ job[Reader] \in {"pong", "closeReply", "protocolError"}
      BY <1>7, <2>1 DEF ReaderHasPayload, TypeOK, Places, JobFits
  <2>3. job'[Reader] \in Answers /\ job'[Reader] # "none" /\ job'[Reader] # "flush"
      BY <2>2 DEF Answers
  <2>4. CASE job[Reader] = "pong"
    <3>1. lock = Reader /\ Inside(Reader)'
        BY <1>0, <2>1, <2>2, <2>4 DEF Inside
    <3> QED
        BY <2>1, <2>2, <2>3, <2>4, <3>1, OneMoves
  <2>5. CASE job[Reader] # "pong"
    <3>1. lock # Reader /\ ~Inside(Reader)'
        BY <1>0, <2>1, <2>2, <2>5 DEF Inside
    <3> QED
        BY <2>1, <2>2, <2>3, <2>5, <3>1, OneMoves
  <2> QED
      BY <2>4, <2>5
<1>8. CASE ReaderFails
  <2>1. Reader \in Procs /\ Reader \notin Writers
      BY DEF Procs
  <2>2. job' = job /\ pc[Reader] \in {"idle", "payload"}
      BY <1>8 DEF ReaderFails
  <2>3. /\ pc'[Reader] \in {"idle", "over"} /\ ~Inside(Reader)'
        /\ \A q \in Procs : q # Reader => pc'[q] = pc[q]
        /\ lock' = IF lock = Reader THEN Nobody ELSE lock
    <3>1. CASE lock = Reader
        BY <1>8, <2>1, <3>1, LeavesDoes DEF ReaderFails, Inside
    <3>2. CASE lock # Reader
        BY <1>8, <2>1, <3>2 DEF ReaderFails, TypeOK, Inside
    <3> QED
        BY <3>1, <3>2
  <2>4. job'[Reader] \in Answers \cup {"none"}
      BY <2>2 DEF Places, JobFits
  <2> QED
      BY <2>1, <2>2, <2>3, <2>4, OneMoves
<1>9. CASE PeerReads \/ Breaks \/ UNCHANGED vars \/ \E x \in Inbound : PeerSends(x)
  <2>1. UNCHANGED <<pc, job, lock>>
      BY <1>9 DEF PeerReads, Breaks, PeerSends, vars
  <2> QED
      BY <2>1 DEF Places, JobFits, LockKept, Inside, InTwo
<1> QED
    BY <1>1, <1>2, <1>3, <1>4, <1>5, <1>6, <1>7, <1>8, <1>9
    DEF Next, Working, Reading

-----------------------------------------------------------------------------
(* What the peer sends.                                                    *)

LEMMA NextInbound ==
  TypeOK /\ Places /\ InboundFits /\ [Next]_vars => InboundFits'
<1> SUFFICES ASSUME TypeOK, Places, InboundFits, [Next]_vars PROVE InboundFits'
    OBVIOUS
<1> USE WsWriterAssumption
<1>0. Reader \in Procs /\ Reader \notin Writers
    BY DEF Procs
<1>1. CASE \/ \E w \in Writers, call \in Calls : Begins(w, call)
           \/ \E p \in Procs : Locks(p) \/ Working(p)
           \/ PeerReads \/ Breaks \/ UNCHANGED vars
  <2>1. inbound' = inbound
      BY <1>1 DEF Begins, Locks, Working, PutsFirst, PutsRest, Flushes, WriteFails,
                  PeerReads, Breaks, vars, peerVars
  <2>2. Awaits' <=> Awaits
    <3>1. ASSUME NEW w \in Writers, NEW call \in Calls, Begins(w, call)
          PROVE  Awaits' <=> Awaits
        BY <1>0, <3>1 DEF Begins, Awaits, TypeOK, Procs
    <3>2. ASSUME NEW p \in Procs, Locks(p) PROVE Awaits' <=> Awaits
      <4>1. CASE p = Reader
        <5>1. /\ pc[Reader] = "want" /\ job' = job
              /\ job[Reader] = "pong" => pc'[Reader] = "payload"
              /\ job[Reader] # "pong" => pc'[Reader] \in {"put", "flush"}
            BY <1>0, <3>2, <4>1 DEF Locks, AfterLock, TypeOK
        <5> QED
            BY <5>1 DEF Awaits
      <4>2. CASE p # Reader
          BY <1>0, <3>2, <4>2 DEF Locks, Awaits, TypeOK
      <4> QED
          BY <4>1, <4>2
    <3>3. ASSUME NEW p \in Procs, Working(p) PROVE Awaits' <=> Awaits
      <4>1. /\ pc[p] \in {"put", "rest", "flush"} /\ job' = job
            /\ pc'[p] \in {"rest", "flush", "idle", "over"}
            /\ \A q \in Procs : q # p => pc'[q] = pc[q]
          BY <3>3, LeavesDoes
          DEF Working, PutsFirst, PutsRest, Flushes, WriteFails, TypeOK
      <4> QED
          BY <1>0, <4>1 DEF Awaits
    <3>4. CASE PeerReads \/ Breaks \/ UNCHANGED vars
        BY <3>4 DEF PeerReads, Breaks, vars, Awaits
    <3> QED
        BY <1>1, <3>1, <3>2, <3>3, <3>4
  <2> QED
      BY <2>1, <2>2 DEF InboundFits
<1>2. CASE ReaderTakes
  <2>1. /\ inbound \in Seq(Inbound) /\ inbound # <<>> /\ inbound' = Tail(inbound)
        /\ pc[Reader] = "idle"
      BY <1>2 DEF ReaderTakes, TypeOK
  <2>2. /\ Head(inbound) = inbound[1] /\ inbound[1] \in Inbound
        /\ Len(inbound') = Len(inbound) - 1
        /\ \A i \in 1..Len(inbound') : inbound'[i] = inbound[i + 1]
      BY <2>1, TailShifts
  <2>3. inbound[1] # "payload"
      BY <2>1 DEF InboundFits, Awaits
  <2>4. Awaits' <=> inbound[1] \in WithPayload
    <3>1. job'[Reader] = AnswerTo(inbound[1])
          /\ pc'[Reader] = (IF inbound[1] \in {"close", "badClose"} THEN "payload" ELSE "want")
        BY <1>0, <1>2, <2>2 DEF ReaderTakes, TypeOK
    <3>2. AnswerTo(inbound[1]) = "pong" <=> inbound[1] = "ping"
        BY <2>2, <2>3 DEF AnswerTo, Inbound, WithPayload
    <3> QED
        BY <3>1, <3>2 DEF Awaits, WithPayload
  <2>5. inbound' # <<>> => ((inbound'[1] = "payload") <=> Awaits')
    <3> SUFFICES ASSUME inbound' # <<>> PROVE (inbound'[1] = "payload") <=> Awaits'
        OBVIOUS
    <3>1. Len(inbound') \in Nat \ {0}
        BY <2>1, <2>2
    <3>2. inbound'[1] = inbound[2] /\ 1 \in 1..(Len(inbound) - 1)
        BY <2>1, <2>2, <3>1
    <3>3. (inbound[1 + 1] = "payload") <=> (inbound[1] \in WithPayload)
        BY <3>2 DEF InboundFits
    <3> QED
        BY <2>4, <3>2, <3>3
  <2>6. ASSUME NEW i \in 1..(Len(inbound') - 1)
        PROVE  (inbound'[i + 1] = "payload") <=> (inbound'[i] \in WithPayload)
    <3>1. i + 1 \in 1..(Len(inbound) - 1) /\ inbound'[i + 1] = inbound[(i + 1) + 1]
          /\ inbound'[i] = inbound[i + 1]
        BY <2>1, <2>2
    <3> QED
        BY <3>1 DEF InboundFits
  <2> QED
      BY <2>5, <2>6 DEF InboundFits
<1>3. CASE ReaderHasPayload
  <2>1. /\ inbound \in Seq(Inbound) /\ inbound # <<>> /\ inbound' = Tail(inbound)
        /\ pc[Reader] = "payload"
      BY <1>3 DEF ReaderHasPayload, TypeOK
  <2>2. /\ Len(inbound') = Len(inbound) - 1
        /\ \A i \in 1..Len(inbound') : inbound'[i] = inbound[i + 1]
      BY <2>1, TailShifts
  <2>3. inbound[1] = "payload" /\ inbound[1] \notin WithPayload
      BY <2>1 DEF InboundFits, Awaits, WithPayload
  <2>4. ~Awaits'
      BY <1>0, <1>3 DEF ReaderHasPayload, Awaits, TypeOK
  <2>5. inbound' # <<>> => inbound'[1] # "payload"
    <3> SUFFICES ASSUME inbound' # <<>> PROVE inbound'[1] # "payload"
        OBVIOUS
    <3>1. Len(inbound') \in Nat \ {0}
        BY <2>1, <2>2
    <3>2. inbound'[1] = inbound[2] /\ 1 \in 1..(Len(inbound) - 1)
        BY <2>1, <2>2, <3>1
    <3>3. (inbound[1 + 1] = "payload") <=> (inbound[1] \in WithPayload)
        BY <3>2 DEF InboundFits
    <3> QED
        BY <2>3, <3>2, <3>3
  <2>6. ASSUME NEW i \in 1..(Len(inbound') - 1)
        PROVE  (inbound'[i + 1] = "payload") <=> (inbound'[i] \in WithPayload)
    <3>1. i + 1 \in 1..(Len(inbound) - 1) /\ inbound'[i + 1] = inbound[(i + 1) + 1]
          /\ inbound'[i] = inbound[i + 1]
        BY <2>1, <2>2
    <3> QED
        BY <3>1 DEF InboundFits
  <2> QED
      BY <2>4, <2>5, <2>6 DEF InboundFits
<1>4. CASE ReaderFails
  <2>1. inbound' = <<>> /\ Len(inbound') = 0
      BY <1>4 DEF ReaderFails, peerVars
  <2> QED
      BY <2>1 DEF InboundFits
<1>5. ASSUME NEW x \in Inbound, PeerSends(x) PROVE InboundFits'
  <2>1. /\ inbound \in Seq(Inbound) /\ inbound' = Append(inbound, x)
        /\ (Awaits' <=> Awaits) /\ ((x = "payload") <=> NeedsPayload)
      BY <1>5 DEF PeerSends, TypeOK, Awaits
  <2>2. /\ Len(inbound') = Len(inbound) + 1 /\ Len(inbound) \in Nat
        /\ \A i \in 1..Len(inbound) : inbound'[i] = inbound[i]
        /\ inbound'[Len(inbound) + 1] = x
      BY <2>1, AppendKeeps
  <2>3. CASE inbound = <<>>
    <3>1. Len(inbound) = 0 /\ inbound'[1] = x
        BY <2>2, <2>3
    <3>2. (x = "payload") <=> Awaits
        BY <2>1, <2>3 DEF NeedsPayload, Awaits
    <3> QED
        BY <2>1, <2>2, <3>1, <3>2 DEF InboundFits
  <2>4. CASE inbound # <<>>
    <3>1. Len(inbound) >= 1 /\ inbound'[1] = inbound[1]
        BY <2>1, <2>2, <2>4
    <3>2. (x = "payload") <=> (inbound[Len(inbound)] \in WithPayload)
        BY <2>1, <2>4 DEF NeedsPayload, Last
    <3>3. (inbound'[1] = "payload") <=> Awaits'
        BY <2>1, <2>4, <3>1 DEF InboundFits
    <3>4. ASSUME NEW i \in 1..(Len(inbound') - 1)
          PROVE  (inbound'[i + 1] = "payload") <=> (inbound'[i] \in WithPayload)
      <4>1. CASE i = Len(inbound)
          BY <2>2, <3>1, <3>2, <4>1
      <4>2. CASE i # Len(inbound)
        <5>1. i \in 1..(Len(inbound) - 1) /\ inbound'[i] = inbound[i]
              /\ inbound'[i + 1] = inbound[i + 1]
            BY <2>2, <4>2
        <5> QED
            BY <5>1 DEF InboundFits
      <4> QED
          BY <4>1, <4>2
    <3> QED
        BY <3>3, <3>4 DEF InboundFits
  <2> QED
      BY <2>3, <2>4
<1> QED
    BY <1>1, <1>2, <1>3, <1>4, <1>5 DEF Next, Reading

-----------------------------------------------------------------------------
(* What is on its way.                                                     *)

LEMMA OutTypes ==
  ASSUME last \in Seq(Piece), pipe \in Seq(Piece), buf \in Seq(Piece)
  PROVE  Out \in Seq(Piece) /\ Len(Out) = Len(last) + Len(pipe) + Len(buf)
<1>1. last \o pipe \in Seq(Piece) /\ Len(last \o pipe) = Len(last) + Len(pipe)
    BY ConcatProperties
<1> QED
    BY <1>1, ConcatProperties DEF Out

(* A piece that fits behind what is on its way.                            *)
LEMMA AppendFollowed ==
  ASSUME NEW o \in Seq(Piece), Out = o, Followed, NEW piece \in Piece,
         Out' = Append(o, piece),
         Len(o) > 0 /\ o[Len(o)].part = "header" =>
           piece = [o[Len(o)] EXCEPT !.part = "payload"]
  PROVE  Followed'
<1>1. /\ Len(Out') = Len(o) + 1 /\ Len(o) \in Nat
      /\ \A i \in 1..Len(o) : Out'[i] = o[i]
      /\ Out'[Len(o) + 1] = piece
    BY AppendKeeps
<1> SUFFICES ASSUME NEW i \in 1..(Len(Out') - 1), Out'[i].part = "header"
             PROVE  Out'[i + 1] = [Out'[i] EXCEPT !.part = "payload"]
    BY DEF Followed
<1>2. CASE i = Len(o)
    BY <1>1, <1>2
<1>3. CASE i # Len(o)
  <2>1. i \in 1..(Len(o) - 1) /\ Out'[i] = o[i] /\ Out'[i + 1] = o[i + 1]
      BY <1>1, <1>3
  <2> QED
      BY <2>1 DEF Followed
<1> QED
    BY <1>2, <1>3

(* What is left when the first n pieces are gone.                          *)
LEMMA DropFollowed ==
  ASSUME NEW o \in Seq(Piece), Out = o, Followed, NEW n \in Nat,
         NEW o2 \in Seq(Piece), Out' = o2, Len(o2) = Len(o) - n,
         \A i \in 1..Len(o2) : o2[i] = o[i + n]
  PROVE  Followed'
<1> SUFFICES ASSUME NEW i \in 1..(Len(o2) - 1), o2[i].part = "header"
             PROVE  o2[i + 1] = [o2[i] EXCEPT !.part = "payload"]
    BY DEF Followed
<1>1. i + n \in 1..(Len(o) - 1) /\ o2[i] = o[i + n] /\ o2[i + 1] = o[(i + n) + 1]
    OBVIOUS
<1> QED
    BY <1>1 DEF Followed

LEMMA LastBy ==
  ASSUME NEW o \in Seq(Piece), Len(o) > 0
  PROVE  o[Len(o)].by \in Procs
<1>1. Len(o) \in 1..Len(o)
    BY LenProperties
<1>2. o[Len(o)] \in Piece
    BY <1>1, ElementOfSeq
<1> QED
    BY <1>2 DEF Piece

(* A goroutine that holds the lock is the only one inside.                 *)
LEMMA OneInside ==
  ASSUME LockKept, NEW p \in Procs, NEW q \in Procs, Inside(p), Inside(q)
  PROVE  p = q
  BY DEF LockKept

LEMMA FirstOut ==
  ASSUME TypeOK, Places, Unbuffered, Followed, LastOpen,
         NEW p \in Procs, PutsFirst(p)
  PROVE  Followed' /\ LastOpen'
<1> USE DEF Places
<1>1. Out \in Seq(Piece) /\ Len(Out) \in Nat
    BY OutTypes DEF TypeOK
<1>2. PICK piece \in Piece :
        /\ Puts(piece) /\ piece.by = p
        /\ IF InTwo(p) THEN piece = HeaderOf(p) ELSE piece.part = "frame"
    BY FirstDoes
<1>3. Out' = Append(Out, piece)
    BY <1>2, PutsAppends DEF TypeOK, PutsFirst
<1>4. /\ Len(Out') = Len(Out) + 1
      /\ Out'[Len(Out')] = piece
    BY <1>1, <1>3, AppendKeeps
<1>5. pc[p] = "put" /\ ~broken /\ broken' = broken /\ job' = job
    BY DEF PutsFirst
<1>6. \A q \in Procs : pc[q] # "rest"
    BY <1>5, OneInside DEF Inside
<1>7. ~(Len(Out) > 0 /\ Out[Len(Out)].part = "header")
  <2>1. Len(Out) > 0 => Out[Len(Out)].by \in Procs
      BY <1>1, LastBy
  <2> QED
      BY <1>5, <1>6, <2>1 DEF LastOpen
<1>8. Followed'
    BY <1>1, <1>3, <1>7, AppendFollowed
<1>9. LastOpen'
  <2>1. CASE InTwo(p)
    <3>1. pc' = [pc EXCEPT ![p] = "rest"]
        BY <2>1 DEF PutsFirst
    <3>2. \A q \in Procs : pc'[q] = "rest" <=> q = p
        BY <1>6, <3>1 DEF TypeOK
    <3>3. piece = HeaderOf(p)' /\ piece.by = p
        BY <1>2, <1>5, <2>1 DEF HeaderOf
    <3> QED
        BY <1>1, <1>4, <3>2, <3>3 DEF LastOpen
  <2>2. CASE ~InTwo(p)
    <3>1. pc'[p] # "rest" /\ \A q \in Procs : q # p => pc'[q] = pc[q]
        BY <2>2, LeavesDoes DEF PutsFirst
    <3>2. piece.part # "header"
        BY <1>2, <2>2
    <3> QED
        BY <1>4, <1>6, <3>1, <3>2 DEF LastOpen
  <2> QED
      BY <2>1, <2>2
<1> QED
    BY <1>8, <1>9

LEMMA RestOut ==
  ASSUME TypeOK, Places, Unbuffered, Followed, LastOpen,
         NEW p \in Procs, PutsRest(p)
  PROVE  Followed' /\ LastOpen'
<1> USE DEF Places
<1>1. Out \in Seq(Piece) /\ Len(Out) \in Nat
    BY OutTypes DEF TypeOK
<1>2. PICK piece \in Piece :
        Puts(piece) /\ piece.by = p /\ piece = [HeaderOf(p) EXCEPT !.part = "payload"]
    BY RestDoes
<1>3. Out' = Append(Out, piece)
    BY <1>2, PutsAppends DEF TypeOK, PutsRest
<1>4. /\ Len(Out') = Len(Out) + 1
      /\ Out'[Len(Out')] = piece
    BY <1>1, <1>3, AppendKeeps
<1>5. pc[p] = "rest" /\ ~broken
    BY DEF PutsRest
<1>6. Out[Len(Out)] = HeaderOf(p)
    BY <1>5 DEF LastOpen
<1>7. Followed'
    BY <1>1, <1>2, <1>3, <1>6, AppendFollowed
<1>8. piece.part # "header"
    BY <1>2 DEF HeaderOf
<1>9. pc'[p] # "rest" /\ \A q \in Procs : q # p => pc'[q] = pc[q]
    BY LeavesDoes DEF PutsRest, TypeOK
<1>10. \A q \in Procs : q # p => pc[q] # "rest"
    BY <1>5, OneInside DEF Inside
<1>11. LastOpen'
    BY <1>4, <1>8, <1>9, <1>10 DEF LastOpen
<1> QED
    BY <1>7, <1>11

(* Flushing moves pieces, and does not change their order.                 *)
LEMMA FlushOut ==
  ASSUME TypeOK, Places, Followed, LastOpen, NEW p \in Procs, Flushes(p)
  PROVE  Followed' /\ LastOpen'
<1>1. Out' = Out
  <2>1. Out' = (last \o (pipe \o buf)) \o <<>>
      BY DEF Flushes, Out
  <2>2. pipe \o buf \in Seq(Piece) /\ last \o (pipe \o buf) \in Seq(Piece)
      BY ConcatProperties DEF TypeOK
  <2>3. Out' = last \o (pipe \o buf)
      BY <2>1, <2>2, ConcatEmptySeq
  <2> QED
      BY <2>3, ConcatAssociative, SMTT(40) DEF Out, TypeOK
<1>2. /\ pc[p] = "flush" /\ pc'[p] # "rest" /\ job' = job /\ broken' = broken
      /\ \A q \in Procs : q # p => pc'[q] = pc[q]
    BY LeavesDoes DEF Flushes
<1>3. \A q \in Procs : pc'[q] = "rest" <=> pc[q] = "rest"
    BY <1>2
<1>4. Followed'
    BY <1>1 DEF Followed
<1>5. Len(Out) > 0 => Out[Len(Out)].by \in Procs
  <2>1. Out \in Seq(Piece) /\ Len(Out) \in Nat
      BY OutTypes DEF TypeOK
  <2> QED
      BY <2>1, LastBy
<1>6. LastOpen'
    BY <1>1, <1>2, <1>3, <1>5 DEF LastOpen, HeaderOf
<1> QED
    BY <1>4, <1>6

(* What the peer reads, or a broken connection loses, goes from the front. *)
LEMMA PeerOut ==
  ASSUME TypeOK, Followed, LastOpen, PeerReads \/ Breaks
  PROVE  Followed' /\ LastOpen'
<1>1. Out \in Seq(Piece) /\ last \in Seq(Piece) /\ pipe \in Seq(Piece)
      /\ buf \in Seq(Piece) /\ Len(last) \in Nat /\ Len(pipe) \in Nat
    BY OutTypes DEF TypeOK
<1>2. CASE PeerReads
  <2> DEFINE o2 == pipe \o buf
  <2>1. pipe # <<>> /\ last' = <<Head(pipe)>> /\ pipe' = Tail(pipe) /\ buf' = buf
        /\ UNCHANGED <<pc, job, broken>>
      BY <1>2 DEF PeerReads
  <2>2. <<Head(pipe)>> \o Tail(pipe) = pipe
    <3>1. Head(pipe) \in Piece /\ Tail(pipe) \in Seq(Piece)
          /\ Len(Tail(pipe)) = Len(pipe) - 1 /\ Head(pipe) = pipe[1]
          /\ \A i \in 1..Len(Tail(pipe)) : Tail(pipe)[i] = pipe[i + 1]
        BY <1>1, <2>1, TailShifts
    <3>2. <<Head(pipe)>> \in Seq(Piece) /\ Len(<<Head(pipe)>>) = 1
          /\ <<Head(pipe)>>[1] = pipe[1]
        BY <3>1
    <3>3. /\ <<Head(pipe)>> \o Tail(pipe) \in Seq(Piece)
          /\ Len(<<Head(pipe)>> \o Tail(pipe)) = Len(pipe)
          /\ \A i \in 1..Len(pipe) : (<<Head(pipe)>> \o Tail(pipe))[i] =
               IF i <= 1 THEN <<Head(pipe)>>[i] ELSE Tail(pipe)[i - 1]
        BY <1>1, <3>1, <3>2, ConcatProperties
    <3>4. \A i \in 1..Len(pipe) : (<<Head(pipe)>> \o Tail(pipe))[i] = pipe[i]
        BY <1>1, <3>1, <3>2, <3>3
    <3> QED
        BY <1>1, <3>3, <3>4, SeqEqual
  <2>3. Out' = o2
      BY <2>1, <2>2 DEF Out
  <2>4. o2 \in Seq(Piece) /\ Len(o2) = Len(pipe) + Len(buf) /\ Len(o2) > 0
      BY <1>1, <2>1, ConcatProperties
  <2>5. Out = last \o o2
      BY <1>1, ConcatAssociative, SMTT(40) DEF Out
  <2> HIDE DEF o2
  <2>6. /\ Len(o2) = Len(Out) - Len(last)
        /\ \A i \in 1..Len(o2) : o2[i] = Out[i + Len(last)]
        /\ Len(Out) > 0 /\ o2[Len(o2)] = Out[Len(Out)]
    <3>1. last \in Seq(Piece) /\ o2 \in Seq(Piece) /\ Len(o2) > 0
        BY <1>1, <2>4
    <3>2. /\ Len(o2) = Len(last \o o2) - Len(last)
          /\ \A i \in 1..Len(o2) : o2[i] = (last \o o2)[i + Len(last)]
          /\ Len(last \o o2) > 0 /\ o2[Len(o2)] = (last \o o2)[Len(last \o o2)]
        BY <3>1, BehindFirst
    <3> QED
        BY <2>5, <3>2
  <2>7. Followed'
      BY <1>1, <2>3, <2>4, <2>6, DropFollowed
  <2>8. Len(Out') > 0 /\ Len(Out) > 0 /\ Out'[Len(Out')] = Out[Len(Out)]
      BY <2>3, <2>4, <2>6
  <2>9. LastOpen'
      BY <2>1, <2>8 DEF LastOpen, HeaderOf
  <2> QED
      BY <2>7, <2>9
<1>3. CASE Breaks
  <2>1. Out' = buf /\ broken'
    <3>1. Out' = (<<>> \o <<>>) \o buf /\ broken'
        BY <1>3 DEF Breaks, Out
    <3>2. <<>> \o <<>> = <<>> /\ <<>> \o buf = buf
        BY <1>1, ConcatEmptySeq
    <3> QED
        BY <3>1, <3>2
  <2>2. last \o pipe \in Seq(Piece) /\ Len(last \o pipe) \in Nat
      BY <1>1, ConcatProperties
  <2>3. /\ Len(buf) = Len(Out) - Len(last \o pipe)
        /\ \A i \in 1..Len(buf) : buf[i] = Out[i + Len(last \o pipe)]
      BY <1>1, <2>2, ConcatProperties DEF Out
  <2>4. Followed'
      BY <1>1, <2>1, <2>2, <2>3, DropFollowed
  <2>5. LastOpen'
      BY <2>1 DEF LastOpen
  <2> QED
      BY <2>4, <2>5
<1> QED
    BY <1>2, <1>3

LEMMA NextOut ==
  /\ TypeOK /\ Places /\ Unbuffered /\ Followed /\ LastOpen /\ [Next]_vars
  => Followed' /\ LastOpen'
<1> SUFFICES ASSUME TypeOK, Places, Unbuffered, Followed, LastOpen, [Next]_vars
             PROVE  Followed' /\ LastOpen'
    OBVIOUS
<1>1. ASSUME NEW p \in Procs, WriteFails(p) PROVE Followed' /\ LastOpen'
  <2>1. UNCHANGED Out /\ broken'
      BY <1>1 DEF WriteFails, peerVars, Out
  <2> QED
      BY <2>1 DEF Followed, LastOpen
<1>2. CASE \/ \E w \in Writers, call \in Calls : Begins(w, call)
           \/ \E p \in Procs : Locks(p)
           \/ Reading \/ UNCHANGED vars \/ \E x \in Inbound : PeerSends(x)
  <2>1. UNCHANGED <<Out, broken>>
      BY <1>2 DEF Begins, Locks, Reading, ReaderTakes, ReaderHasPayload,
                  ReaderFails, PeerSends, vars, peerVars, Out
  <2>2. ~broken => \A p \in Procs :
          /\ pc'[p] = "rest" <=> pc[p] = "rest"
          /\ pc[p] = "rest" => job'[p] = job[p]
    <3>1. ASSUME NEW w \in Writers, NEW call \in Calls, Begins(w, call), NEW p \in Procs
          PROVE  (pc'[p] = "rest" <=> pc[p] = "rest") /\ (pc[p] = "rest" => job'[p] = job[p])
        BY <3>1 DEF Begins, TypeOK, Procs
    <3>2. ASSUME NEW q \in Procs, Locks(q), NEW p \in Procs
          PROVE  (pc'[p] = "rest" <=> pc[p] = "rest") /\ (pc[p] = "rest" => job'[p] = job[p])
      <4>1. job' = job /\ pc[q] = "want" /\ AfterLock(q) # "rest"
            /\ pc' = [pc EXCEPT ![q] = AfterLock(q)]
          BY <3>2 DEF Locks, AfterLock
      <4> QED
          BY <4>1 DEF TypeOK
    <3>3. ASSUME ~broken, Reading, NEW p \in Procs
          PROVE  (pc'[p] = "rest" <=> pc[p] = "rest") /\ (pc[p] = "rest" => job'[p] = job[p])
        BY <3>3 DEF Reading, ReaderTakes, ReaderHasPayload, ReaderFails, TypeOK, Procs
    <3>4. CASE UNCHANGED vars \/ \E x \in Inbound : PeerSends(x)
        BY <3>4 DEF vars, PeerSends
    <3> QED
        BY <1>2, <3>1, <3>2, <3>3, <3>4
  <2>3. Followed'
      BY <2>1 DEF Followed
  <2>4. Len(Out) > 0 => Out[Len(Out)].by \in Procs
    <3>1. Out \in Seq(Piece) /\ Len(Out) \in Nat
        BY OutTypes DEF TypeOK
    <3> QED
        BY <3>1, LastBy
  <2>5. LastOpen'
      BY <2>1, <2>2, <2>4 DEF LastOpen, HeaderOf
  <2> QED
      BY <2>3, <2>5
<1> QED
    BY <1>1, <1>2, FirstOut, RestOut, FlushOut, PeerOut DEF Next, Working

-----------------------------------------------------------------------------
(* What a flush covers.                                                    *)

Covered(p) == pc[p] = "idle" /\ job[p] \in {"flush", "close", "refusal"}

(* What Puts leaves in the buffer was there before, or is the new piece.   *)
LEMMA PutsKeeps ==
  ASSUME buf \in Seq(Piece), NEW piece \in Piece, Puts(piece)
  PROVE  \A i \in 1..Len(buf') :
           buf'[i] = piece \/ (i \in 1..Len(buf) /\ buf'[i] = buf[i])
<1>1. CASE buf' = Append(buf, piece)
    BY <1>1, AppendKeeps
<1>2. CASE buf' = <<piece>>
    BY <1>2
<1>3. CASE buf' = buf
    BY <1>3
<1> QED
    BY <1>1, <1>2, <1>3 DEF Puts

LEMMA NextCovers ==
  /\ TypeOK /\ Places /\ FlushCovers /\ [Next]_vars
  => FlushCovers'
<1> SUFFICES ASSUME TypeOK, Places, FlushCovers, [Next]_vars,
                    ~broken', NEW p \in Procs, Covered(p)',
                    NEW i \in 1..Len(buf')
             PROVE  buf'[i].by # p
    BY DEF FlushCovers, Covered
<1>0. ~broken
    BY DEF Next, Begins, Locks, Working, PutsFirst, PutsRest, Flushes, WriteFails,
           Reading, ReaderTakes, ReaderHasPayload, ReaderFails, PeerReads,
           PeerSends, Breaks, vars, peerVars
<1>1. Covered(p) /\ i \in 1..Len(buf) => buf[i].by # p
    BY <1>0 DEF FlushCovers, Covered
<1>2. ASSUME NEW q \in Procs, PutsFirst(q) \/ PutsRest(q) PROVE buf'[i].by # p
  <2>1. PICK piece \in Piece : Puts(piece) /\ piece.by = q
      BY <1>2, FirstDoes, RestDoes DEF Places
  <2>2. q # p
    <3> SUFFICES ASSUME q = p PROVE FALSE
        OBVIOUS
    <3>1. CASE PutsFirst(p)
      <4>1. job' = job /\ pc[p] = "put" /\ pc'[p] = "idle" /\ ~InTwo(p)
          BY <3>1 DEF PutsFirst, Covered, TypeOK
      <4>2. job[p] = "flush"
          BY <4>1 DEF Covered, InTwo
      <4> QED
          BY <4>1, <4>2 DEF Places, JobFits
    <3>2. CASE PutsRest(p)
      <4>1. job' = job /\ pc[p] = "rest" /\ pc'[p] = "idle" /\ ~FlushesAfter(p)
          BY <3>2 DEF PutsRest, Covered, TypeOK
      <4>2. job[p] \in {"close", "refusal"}
          BY <4>1 DEF Covered, Places, JobFits, InTwo
      <4> QED
          BY <4>1, <4>2 DEF FlushesAfter
    <3> QED
        BY <1>2, <3>1, <3>2
  <2>3. pc'[p] = pc[p] /\ job' = job
      BY <1>2, <2>2, LeavesDoes DEF PutsFirst, PutsRest, TypeOK
  <2>4. Covered(p)
      BY <2>3 DEF Covered
  <2> QED
      BY <1>1, <2>1, <2>2, <2>4, PutsKeeps DEF TypeOK
<1>3. ASSUME NEW q \in Procs, Flushes(q) PROVE buf'[i].by # p
  <2>1. Len(buf') = 0
      BY <1>3 DEF Flushes
  <2> QED
      BY <2>1
<1>4. ASSUME NEW w \in Writers, NEW call \in Calls, Begins(w, call)
      PROVE  buf'[i].by # p
  <2>1. p # w /\ buf' = buf
      BY <1>4 DEF Begins, Covered, TypeOK, Procs
  <2>2. Covered(p)
      BY <1>4, <2>1 DEF Begins, Covered, TypeOK, Procs
  <2> QED
      BY <1>1, <2>1, <2>2
<1>5. ASSUME NEW q \in Procs, Locks(q) PROVE buf'[i].by # p
  <2>1. buf' = buf /\ job' = job /\ pc' = [pc EXCEPT ![q] = AfterLock(q)]
        /\ AfterLock(q) # "idle"
      BY <1>5 DEF Locks, AfterLock
  <2>2. Covered(p)
      BY <2>1 DEF Covered, TypeOK
  <2> QED
      BY <1>1, <2>1, <2>2
<1>6. CASE ReaderTakes \/ ReaderHasPayload
  <2>1. buf' = buf /\ pc'[Reader] # "idle"
      BY <1>6 DEF ReaderTakes, ReaderHasPayload, TypeOK, Procs
  <2>2. Covered(p)
      BY <1>6, <2>1 DEF ReaderTakes, ReaderHasPayload, Covered, TypeOK, Procs
  <2> QED
      BY <1>1, <2>1, <2>2
<1>7. CASE PeerReads \/ UNCHANGED vars \/ \E x \in Inbound : PeerSends(x)
  <2>1. UNCHANGED <<buf, pc, job>>
      BY <1>7 DEF PeerReads, PeerSends, vars
  <2> QED
      BY <1>1, <2>1 DEF Covered
<1> QED
    BY <1>0, <1>2, <1>3, <1>4, <1>5, <1>6, <1>7
    DEF Next, Working, Reading, WriteFails, ReaderFails, Breaks

-----------------------------------------------------------------------------
LEMMA IInvHolds == Spec => []IInv
<1>1. Unbuffered /\ [Next]_vars => Unbuffered'
  <2> SUFFICES ASSUME Unbuffered, [Next]_vars PROVE Unbuffered'
      OBVIOUS
  <2>1. buffered' = buffered
      BY DEF Next, Begins, Locks, Working, PutsFirst, PutsRest, Flushes, WriteFails,
             Reading, ReaderTakes, ReaderHasPayload, ReaderFails, PeerReads,
             PeerSends, Breaks, vars
  <2>2. ASSUME NEW piece, Puts(piece), ~buffered PROVE buf' = buf
      BY <2>2 DEF Puts
  <2>3. ASSUME NEW p \in Procs, Working(p), ~buffered PROVE buf' \in {buf, <<>>}
      BY <2>2, <2>3 DEF Working, PutsFirst, PutsRest, Flushes, WriteFails
  <2>4. ASSUME ~\E p \in Procs : Working(p) PROVE buf' = buf
      BY <2>4 DEF Next, Begins, Locks, Reading, ReaderTakes, ReaderHasPayload,
                  ReaderFails, PeerReads, PeerSends, Breaks, vars
  <2> QED
      BY <2>1, <2>3, <2>4 DEF Unbuffered
<1>2. IInv /\ [Next]_vars => IInv'
    BY <1>1, NextTypeOK, NextPlaces, NextInbound, NextOut, NextCovers
    DEF IInv, Places
<1> QED
    BY InitIInv, <1>2, PTL DEF Spec

(* The fields, the buffer and the socket stay in their types and their     *)
(* capacities, and the reader finds an answer to whatever header it meets: *)
(* it never takes the payload of a control frame for a header.             *)
THEOREM TypeCorrect == Spec => []TypeOK
<1>1. IInv => TypeOK
    BY DEF IInv
<1> QED
    BY IInvHolds, <1>1, PTL

(* Frames are never interleaved, by any number of goroutines that write    *)
(* and a reader that answers between them: a header is followed by its own *)
(* payload, in whatever parts the buffer and the socket hold the two.      *)
THEOREM FramesStayWhole == Spec => []FramesWhole
<1>1. IInv => FramesWhole
  <2> SUFFICES ASSUME IInv, NEW i \in 1..Len(Out), Out[i].part = "header"
               PROVE  IF i < Len(Out)
                        THEN Out[i + 1] = [Out[i] EXCEPT !.part = "payload"]
                        ELSE lock = Out[i].by \/ broken
      BY DEF FramesWhole
  <2>1. Out \in Seq(Piece) /\ Len(Out) \in Nat
      BY OutTypes DEF IInv, TypeOK
  <2>2. CASE i < Len(Out)
    <3>1. i \in 1..(Len(Out) - 1)
        BY <2>1, <2>2
    <3> QED
        BY <2>2, <3>1 DEF IInv, Followed
  <2>3. CASE ~(i < Len(Out)) /\ ~broken
    <3>1. i = Len(Out) /\ Len(Out) > 0
        BY <2>1, <2>3
    <3>2. Out[i].by \in Procs /\ pc[Out[i].by] = "rest"
        BY <2>1, <2>3, <3>1, LastBy DEF IInv, LastOpen
    <3> QED
        BY <2>3, <3>2 DEF IInv, Places, LockKept, Inside
  <2> QED
      BY <2>2, <2>3
<1> QED
    BY IInvHolds, <1>1, PTL

(* A Flush or WriteClose that returned without an error leaves in the      *)
(* write buffer nothing that its goroutine wrote before, though others     *)
(* write into the same buffer.                                             *)
THEOREM FlushesCover == Spec => []FlushCovers
<1>1. IInv => FlushCovers
    BY DEF IInv
<1> QED
    BY IInvHolds, <1>1, PTL

-----------------------------------------------------------------------------
(* Where the writers can stop.                                             *)

(* What the goroutines of a connection wait for: the lock; room in the     *)
(* buffer or the socket, or a connection that is broken; what the peer     *)
(* sends.  When all that fails them, nothing moves before the peer does or *)
(* the application calls.                                                  *)
LockMay(p) == pc[p] = "want" /\ lock = Nobody

RoomFor ==
  \/ buffered /\ (HasRoom \/ Len(pipe) + Len(buf) <= PipeCap)
  \/ ~buffered /\ Len(pipe) < PipeCap

WorkMay(p) ==
  \/ pc[p] \in {"put", "rest"} /\ (broken \/ RoomFor)
  \/ pc[p] = "flush" /\ (broken \/ Len(pipe) + Len(buf) <= PipeCap)

ReadMay == pc[Reader] \in {"idle", "payload"} /\ (broken \/ inbound # <<>>)

Halted == ~ReadMay /\ \A p \in Procs : ~LockMay(p) /\ ~WorkMay(p)

(* When nothing in a connection can go on, and a goroutine waits for       *)
(* writeLocker or has it, the connection is not broken and the peer is     *)
(* what it waits for, as PeerHoldsUp says: no error, no Close and no       *)
(* payload that has come keeps the lock (cipher_handler.go lines 72-160,   *)
(* the deferred Unlock of each call).  It is what WaitsOnPeerOnly needs    *)
(* beside the scheduler.                                                   *)
THEOREM OnlyThePeerHalts ==
  Spec => [](Halted /\ (\E p \in Procs : pc[p] = "want" \/ lock = p)
               => ~broken /\ PeerHoldsUp)
<1>1. ASSUME IInv, Halted, NEW p \in Procs, pc[p] = "want" \/ lock = p
      PROVE  ~broken /\ PeerHoldsUp
  <2>1. PICK h \in Procs : lock = h
    <3>1. CASE pc[p] = "want"
        BY <1>1, <3>1 DEF Halted, LockMay, IInv, TypeOK
    <3>2. QED
        BY <1>1, <3>1
  <2>2. Inside(h)
      BY <1>1, <2>1 DEF IInv, Places, LockKept
  <2>3. CASE pc[h] = "payload"
    <3>1. h = Reader
        BY <1>1, <2>3 DEF IInv, Places, JobFits, Procs
    <3>2. QED
        BY <1>1, <2>1, <2>3, <3>1 DEF Halted, ReadMay, PeerHoldsUp
  <2>4. CASE pc[h] \in {"put", "rest", "flush"}
    <3>1. /\ Len(pipe) \in Nat /\ Len(buf) \in Nat
          /\ Len(pipe) <= PipeCap /\ PipeCap \in Nat /\ buffered \in BOOLEAN
        BY <1>1, WsWriterAssumption DEF IInv, TypeOK
    <3>2. ~broken
        BY <1>1, <2>4 DEF Halted, WorkMay
    <3>3. Len(pipe) + Len(buf) > PipeCap \/ Len(pipe) = PipeCap
      <4>1. CASE pc[h] = "flush"
          BY <1>1, <3>1, <4>1 DEF Halted, WorkMay
      <4>2. CASE pc[h] \in {"put", "rest"}
        <5>1. ~RoomFor
            BY <1>1, <4>2 DEF Halted, WorkMay
        <5>2. QED
            BY <3>1, <5>1 DEF RoomFor
      <4>3. QED
          BY <2>4, <4>1, <4>2
    <3>4. QED
        BY <3>2, <3>3 DEF PeerHoldsUp
  <2>5. QED
      BY <2>2, <2>3, <2>4 DEF Inside
<1>2. IInv => (Halted /\ (\E p \in Procs : pc[p] = "want" \/ lock = p)
                 => ~broken /\ PeerHoldsUp)
    BY <1>1
<1>3. QED
    BY <1>2, IInvHolds, PTL
=============================================================================
