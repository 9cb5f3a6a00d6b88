---------------------------- MODULE WsDuplexProofs ----------------------------
(***************************************************************************)
(* Proofs about WsDuplex, for pipes of any size, any number of calls and   *)
(* any pair of Options.OpCode: what two ends that wait for each other look *)
(* like, that only a Close of the application parts them, and which ends   *)
(* never come to it.                                                       *)
(*                                                                         *)
(* These are the safety halves of MutualOnly and PoliteCloses: whether a   *)
(* goroutine that can run does is the scheduler's and stays with TLC.      *)
(***************************************************************************)
EXTENDS WsDuplex, TLAPS

Frames == {"text", "binary", "close"}

(* What a goroutine can be doing where it is.                              *)
JobFits ==
  /\ pipe \in [Ends -> Seq(Frames)]
  /\ \A e \in Ends :
       /\ job[e]["writer"] \in {"none", "text", "binary", "close"}
       /\ job[e]["reader"] \in {"none", "reply", "refusal"}
       /\ \A r \in Roles : job[e][r] = "none" <=> ~Stuck(e, r)
       /\ pc[e]["writer"] # "over"

(* Exactly the lock's holder is between Lock and Unlock.                   *)
LockKept == \A e \in Ends, r \in Roles : pc[e][r] = "put" <=> lock[e] = r

(* Polite ends that accept each other's messages refuse nothing, and until *)
(* an end answers a Close frame, its own Close frame is the last it sends: *)
(* once the other end has taken it, nothing is behind it.                  *)
ByeIsLast(e) ==
  /\ \A i \in 1..Len(pipe[e]) :
       pipe[e][i] = "close" => i = Len(pipe[e]) /\ saidBye[e]
  /\ job[Other(e)]["reader"] = "reply" \/ pc[Other(e)]["reader"] = "over" =>
       saidBye[e] /\ pipe[e] = <<>>

(* That Close frame is not lost while both ends are there.                 *)
ByeArrives(e) ==
  saidBye[e] =>
    \/ \E i \in 1..Len(pipe[e]) : pipe[e][i] = "close"
    \/ job[Other(e)]["reader"] = "reply"
    \/ pc[Other(e)]["reader"] = "over"

Polite == polite /\ Accepting /\ ~Gone

SaysItLast(e) ==
  /\ saidBye[e] => pc[e]["writer"] = "idle"
  /\ job[e]["reader"] # "refusal"
  /\ job[e]["writer"] \in {"none", SendType(e), "close"}
  /\ \A i \in 1..Len(pipe[e]) : pipe[e][i] \in {SendType(e), "close"}
  /\ pc[e]["reader"] # "over" => ByeIsLast(e)
  /\ ByeArrives(e)

LastWord == Polite => \A e \in Ends : SaysItLast(e)

IInv == TypeOK /\ JobFits /\ LockKept /\ LastWord

(* What the goroutines of the two ends wait for: the lock, room in their   *)
(* direction or a connection that is gone, a frame; and go-netty's Close   *)
(* after a Read that has failed.  When all that fails them, nothing moves  *)
(* before the application calls.                                           *)
MayLock(e, r) == pc[e][r] = "want" /\ lock[e] = "nobody"
MayPut(e, r) == pc[e][r] = "put" /\ (Gone \/ HasRoom(e))
MayRead(e) == pc[e]["reader"] = "idle" /\ (Gone \/ pipe[Other(e)] # <<>>)
MayClose(e) == pc[e]["reader"] = "over" /\ ~closed[e]

Halted ==
  \A e \in Ends :
    /\ \A r \in Roles : ~MayLock(e, r) /\ ~MayPut(e, r)
    /\ ~MayRead(e) /\ ~MayClose(e)

-----------------------------------------------------------------------------
(* Two ends with two goroutines each, and one step of one of them.         *)

Pcs == {"idle", "want", "put", "over"}

LEMMA OtherIs ==
  ASSUME NEW e \in Ends
  PROVE  /\ Other(e) \in Ends /\ Other(e) # e /\ Other(Other(e)) = e
         /\ \A f \in Ends : f = e \/ f = Other(e)
  BY DEF Ends, Other

LEMMA RolesAre ==
  /\ "writer" \in Roles /\ "reader" \in Roles /\ "nobody" \notin Roles
  /\ \A r \in Roles : r = "writer" \/ r = "reader"
  BY DEF Roles

IsSet(h, g, e, r, x) == h = [g EXCEPT ![e][r] = x]

OneIsSet(V, h, g, e, r, x) ==
  /\ h \in [Ends -> [Roles -> V]] /\ h[e][r] = x
  /\ \A f \in Ends, s \in Roles : (f = e /\ s = r) \/ h[f][s] = g[f][s]

LEMMA SetOne ==
  ASSUME NEW V, NEW g \in [Ends -> [Roles -> V]],
         NEW e \in Ends, NEW r \in Roles, NEW x \in V,
         NEW h, IsSet(h, g, e, r, x)
  PROVE  OneIsSet(V, h, g, e, r, x)
  BY DEF IsSet, OneIsSet

(* Goroutine r of e goes to x with j to write; the others stay.            *)
Moved(e, r, x, j) ==
  /\ pc' \in [Ends -> [Roles -> Pcs]]
  /\ job' \in [Ends -> [Roles -> Jobs]]
  /\ pc'[e][r] = x /\ job'[e][r] = j
  /\ \A f \in Ends, s \in Roles :
       (f = e /\ s = r) \/ (pc'[f][s] = pc[f][s] /\ job'[f][s] = job[f][s])

LEMMA Moves ==
  ASSUME TypeOK, NEW e \in Ends, NEW r \in Roles, NEW x \in Pcs, NEW j \in Jobs,
         Goes(e, r, x), job' = [job EXCEPT ![e][r] = j]
  PROVE  Moved(e, r, x, j)
<1>1. pc \in [Ends -> [Roles -> Pcs]] /\ job \in [Ends -> [Roles -> Jobs]]
    BY DEF TypeOK, Pcs
<1>a. IsSet(pc', pc, e, r, x)
    BY Zenon DEF IsSet, Goes
<1>2. OneIsSet(Pcs, pc', pc, e, r, x)
    BY <1>1, <1>a, SetOne, Zenon
<1>b. IsSet(job', job, e, r, j)
    BY Zenon DEF IsSet
<1>3. OneIsSet(Jobs, job', job, e, r, j)
    BY <1>1, <1>b, SetOne, Zenon
<1>4. QED
    BY <1>2, <1>3 DEF Moved, OneIsSet

LEMMA OneMoves ==
  ASSUME TypeOK, NEW e \in Ends, NEW r \in Roles, NEW x \in Pcs,
         Goes(e, r, x), UNCHANGED job
  PROVE  Moved(e, r, x, job[e][r])
<1>1. pc \in [Ends -> [Roles -> Pcs]] /\ job \in [Ends -> [Roles -> Jobs]]
    BY DEF TypeOK, Pcs
<1>a. IsSet(pc', pc, e, r, x)
    BY Zenon DEF IsSet, Goes
<1>2. OneIsSet(Pcs, pc', pc, e, r, x)
    BY <1>1, <1>a, SetOne, Zenon
<1>3. QED
    BY <1>1, <1>2, Zenon DEF Moved, OneIsSet

(* What a goroutine may have to do where it goes.                          *)
Fits(r, x, j) ==
  /\ r = "writer" => j \in {"none", "text", "binary", "close"} /\ x # "over"
  /\ r = "reader" => j \in {"none", "reply", "refusal"}
  /\ j = "none" <=> x \notin {"want", "put"}

LEMMA MovedFits ==
  ASSUME JobFits, NEW e \in Ends, NEW r \in Roles, NEW x, NEW j,
         Moved(e, r, x, j), Fits(r, x, j), pipe' \in [Ends -> Seq(Frames)]
  PROVE  JobFits'
<1>1. ASSUME NEW f \in Ends, NEW s \in Roles
      PROVE  Fits(s, pc'[f][s], job'[f][s])
  <2>1. CASE f = e /\ s = r
      BY <2>1, Zenon DEF Moved
  <2>2. CASE ~(f = e /\ s = r)
    <3>1. pc'[f][s] = pc[f][s] /\ job'[f][s] = job[f][s]
        BY <2>2, Zenon DEF Moved
    <3>2. Fits(s, pc[f][s], job[f][s])
        BY DEF JobFits, Fits, Stuck
    <3>3. QED
        BY <3>1, <3>2, Zenon
  <2>3. QED
      BY <2>1, <2>2, Zenon
<1>2. QED
    BY <1>1, RolesAre DEF JobFits, Fits, Stuck

(* The lock of an end passes to h or from it.                              *)
LockGoes(e, h) == lock' = [lock EXCEPT ![e] = h]

LEMMA MovedKeepsLock ==
  ASSUME TypeOK, LockKept, NEW e \in Ends, NEW r \in Roles, NEW x, NEW j,
         Moved(e, r, x, j),
         \/ x = "put" /\ lock[e] = "nobody" /\ LockGoes(e, r)
         \/ pc[e][r] = "put" /\ x # "put" /\ LockGoes(e, "nobody")
         \/ pc[e][r] # "put" /\ x # "put" /\ UNCHANGED lock
  PROVE  LockKept'
<1>1. lock \in [Ends -> Roles \cup {"nobody"}]
    BY DEF TypeOK
<1>2. ASSUME NEW f \in Ends, NEW s \in Roles
      PROVE  pc'[f][s] = "put" <=> lock'[f] = s
    BY <1>1, RolesAre DEF Moved, LockKept, LockGoes
<1>3. QED
    BY <1>2 DEF LockKept

LEMMA InitIInv == Init => IInv
<1> SUFFICES ASSUME Init PROVE IInv
    OBVIOUS
<1>1. \A e \in Ends, r \in Roles :
        pc[e][r] = "idle" /\ job[e][r] = "none" /\ lock[e] = "nobody"
    BY DEF Init
<1>2. \A e \in Ends : pipe[e] = <<>> /\ ~saidBye[e] /\ ~closed[e]
    BY DEF Init
<1>3. TypeOK
  <2>1. \A e \in Ends : Len(pipe[e]) <= PipeCap
      BY <1>2, WsDuplexAssumption
  <2>2. QED
      BY <2>1, WsDuplexAssumption DEF Init, TypeOK, Jobs
<1>4. JobFits
    BY <1>1, <1>2, RolesAre DEF Init, JobFits, Stuck
<1>5. LockKept
    BY <1>1, RolesAre DEF LockKept
<1>6. LastWord
    BY <1>1, <1>2, RolesAre, OtherIs DEF LastWord, SaysItLast, ByeIsLast, ByeArrives
<1>7. QED
    BY <1>3, <1>4, <1>5, <1>6 DEF IInv

-----------------------------------------------------------------------------
(* One lemma per action.                                                   *)

LEMMA FixedStay ==
  ASSUME UNCHANGED fixed
  PROVE  /\ Accepting' <=> Accepting
         /\ \A e \in Ends : SendType(e)' = SendType(e)
  BY Zenon DEF fixed, Accepting, SendType

LEMMA SendsData ==
  ASSUME NEW e \in Ends
  PROVE  SendType(e) \in {"text", "binary"}
  BY DEF SendType

(* Of an end of which nothing that counts has changed.                     *)
Untouched(f, s) ==
  /\ pc'[f][s] = pc[f][s] /\ job'[f][s] = job[f][s]

LEMMA StillLast ==
  ASSUME NEW f \in Ends, SaysItLast(f), UNCHANGED fixed,
         \A s \in Roles : Untouched(f, s), Untouched(Other(f), "reader"),
         pipe'[f] = pipe[f], saidBye'[f] = saidBye[f]
  PROVE  SaysItLast(f)'
  BY FixedStay, RolesAre
     DEF SaysItLast, ByeIsLast, ByeArrives, Untouched

LEMMA GoneIsNoWord ==
  ASSUME Gone' PROVE LastWord'
  BY DEF LastWord, Polite

LEMMA SaysKeeps ==
  ASSUME IInv, NEW e \in Ends, NEW what \in {SendType(e), "close"}, Says(e, what)
  PROVE  IInv'
<1>1. what \in {"text", "binary", "close"} /\ what \in Jobs
    BY SendsData DEF Jobs
<1>2. Moved(e, "writer", "want", what)
  <2>1. Goes(e, "writer", "want") /\ job' = [job EXCEPT ![e]["writer"] = what]
      BY DEF Says, WantsTo
  <2>2. QED
      BY <1>1, <2>1, Moves, RolesAre DEF IInv, Pcs
<1>3. /\ UNCHANGED <<fixed, lock, pipe, saidBye, closed>>
      /\ pc[e]["writer"] = "idle"
      /\ ~(polite /\ saidBye[e])
    BY DEF Says
<1>4. TypeOK'
  <2>1. calls' \in [Ends -> 0..MaxCalls]
      BY WsDuplexAssumption DEF IInv, TypeOK, Says
  <2>2. QED
      BY <1>2, <1>3, <2>1 DEF IInv, TypeOK, Moved, Pcs, fixed
<1>5. JobFits'
    BY <1>1, <1>2, <1>3, MovedFits, RolesAre DEF IInv, JobFits, Fits
<1>6. LockKept'
    BY <1>2, <1>3, MovedKeepsLock, RolesAre DEF IInv
<1>7. LastWord'
  <2>1. SUFFICES ASSUME Polite', NEW f \in Ends PROVE SaysItLast(f)'
      BY DEF LastWord
  <2>2. Polite
      BY <1>3, <2>1, FixedStay DEF Polite, fixed, Gone
  <2>3. SaysItLast(f)
      BY <2>2 DEF IInv, LastWord
  <2>4. CASE f = e
    <3>1. ~saidBye[e]
        BY <1>3, <2>2 DEF Polite
    <3>2. /\ pc'[e]["reader"] = pc[e]["reader"]
          /\ job'[e]["reader"] = job[e]["reader"] /\ job'[e]["writer"] = what
          /\ Untouched(Other(e), "reader")
        BY <1>2, OtherIs, RolesAre DEF Moved, Untouched
    <3>3. QED
        BY <1>3, <2>3, <2>4, <3>1, <3>2, FixedStay
           DEF SaysItLast, ByeIsLast, ByeArrives, Untouched
  <2>5. CASE f # e
    <3>1. /\ \A s \in Roles : Untouched(f, s)
          /\ Untouched(Other(f), "reader")
        BY <1>2, <2>5, OtherIs, RolesAre DEF Moved, Untouched
    <3>2. QED
        BY <1>3, <2>3, <3>1, StillLast
  <2>6. QED
      BY <2>4, <2>5
<1>8. QED
    BY <1>4, <1>5, <1>6, <1>7 DEF IInv

LEMMA LocksKeeps ==
  ASSUME IInv, NEW e \in Ends, NEW r \in Roles, Locks(e, r)
  PROVE  IInv'
<1>1. /\ UNCHANGED <<fixed, job, pipe, calls, saidBye, closed>>
      /\ pc[e][r] = "want" /\ lock[e] = "nobody" /\ LockGoes(e, r)
    BY DEF Locks, LockGoes
<1>2. Moved(e, r, "put", job[e][r])
    BY OneMoves, <1>1 DEF IInv, Locks, Pcs
<1>3. TypeOK'
    BY <1>1, <1>2 DEF IInv, TypeOK, Moved, Pcs, fixed, LockGoes
<1>4. JobFits'
  <2>1. Fits(r, "put", job[e][r])
      BY <1>1, RolesAre DEF IInv, JobFits, Fits, Stuck
  <2>2. QED
      BY <1>1, <1>2, <2>1, MovedFits DEF IInv, JobFits
<1>5. LockKept'
    BY <1>1, <1>2, MovedKeepsLock DEF IInv
<1>6. LastWord'
  <2>1. SUFFICES ASSUME Polite', NEW f \in Ends PROVE SaysItLast(f)'
      BY DEF LastWord
  <2>2. Polite
      BY <1>1, <2>1, FixedStay DEF Polite, fixed, Gone
  <2>3. SaysItLast(f)
      BY <2>2 DEF IInv, LastWord
  <2>4. /\ pc'[f]["writer"] = pc[f]["writer"] \/ pc[f]["writer"] # "idle"
        /\ pc'[f]["reader"] = pc[f]["reader"]
           \/ (pc[f]["reader"] # "over" /\ pc'[f]["reader"] # "over")
        /\ pc'[Other(f)]["reader"] = pc[Other(f)]["reader"]
           \/ (pc[Other(f)]["reader"] # "over"
                /\ pc'[Other(f)]["reader"] # "over")
    <3>1. ASSUME NEW g \in Ends, NEW s \in Roles
          PROVE  \/ pc'[g][s] = pc[g][s]
                 \/ (pc[g][s] = "want" /\ pc'[g][s] = "put")
        BY <1>1, <1>2 DEF Moved
    <3>2. Other(f) \in Ends
        BY <2>1, OtherIs
    <3>3. QED
        BY <2>1, <3>1, <3>2, RolesAre
  <2>5. QED
      BY <1>1, <2>3, <2>4, FixedStay DEF SaysItLast, ByeIsLast, ByeArrives
<1>7. QED
    BY <1>3, <1>4, <1>5, <1>6 DEF IInv

LEMMA WriteFailsKeeps ==
  ASSUME IInv, NEW e \in Ends, NEW r \in Roles, WriteFails(e, r)
  PROVE  IInv'
<1>1. /\ UNCHANGED <<fixed, pipe, calls, saidBye, closed>>
      /\ pc[e][r] = "put" /\ Gone /\ LockGoes(e, "nobody")
    BY DEF WriteFails, LockGoes, FreeOnError
<1>2. Moved(e, r, After(job[e][r]), "none")
    BY Moves DEF IInv, WriteFails, Leaves, Pcs, Jobs, After
<1>3. TypeOK'
    BY <1>1, <1>2 DEF IInv, TypeOK, Moved, Pcs, fixed, LockGoes
<1>4. JobFits'
  <2>1. Fits(r, After(job[e][r]), "none")
      BY RolesAre DEF IInv, JobFits, Fits, After
  <2>2. QED
      BY <1>1, <1>2, <2>1, MovedFits DEF IInv, JobFits
<1>5. LockKept'
    BY <1>1, <1>2, MovedKeepsLock DEF IInv, After
<1>6. LastWord'
    BY <1>1, GoneIsNoWord DEF Gone
<1>7. QED
    BY <1>3, <1>4, <1>5, <1>6 DEF IInv

LEMMA ReaderFailsKeeps ==
  ASSUME IInv, NEW e \in Ends, ReaderFails(e)
  PROVE  IInv'
<1>1. /\ UNCHANGED <<fixed, job, lock, pipe, calls, saidBye, closed>>
      /\ pc[e]["reader"] = "idle" /\ Gone
    BY DEF ReaderFails
<1>2. Moved(e, "reader", "over", job[e]["reader"])
    BY <1>1, OneMoves, RolesAre DEF IInv, ReaderFails, Pcs
<1>3. TypeOK'
    BY <1>1, <1>2 DEF IInv, TypeOK, Moved, Pcs, fixed
<1>4. JobFits'
  <2>1. Fits("reader", "over", job[e]["reader"])
      BY <1>1, RolesAre DEF IInv, JobFits, Fits, Stuck
  <2>2. QED
      BY <1>1, <1>2, <2>1, MovedFits, RolesAre DEF IInv, JobFits
<1>5. LockKept'
    BY <1>1, <1>2, MovedKeepsLock, RolesAre DEF IInv
<1>6. LastWord'
    BY <1>1, GoneIsNoWord DEF Gone
<1>7. QED
    BY <1>3, <1>4, <1>5, <1>6 DEF IInv

LEMMA ClosesKeeps ==
  ASSUME IInv, NEW e \in Ends, Closes(e)
  PROVE  IInv'
<1>1. /\ UNCHANGED <<fixed, pc, job, lock, calls, saidBye>>
      /\ closed' = [closed EXCEPT ![e] = TRUE]
      /\ pipe' = [pipe EXCEPT ![Other(e)] = <<>>]
    BY DEF Closes
<1>2. closed' \in [Ends -> BOOLEAN] /\ closed'[e] = TRUE
    BY <1>1, Zenon DEF IInv, TypeOK
<1>3. /\ pipe' \in [Ends -> Seq(Frames)]
      /\ \A f \in Ends : pipe'[f] = <<>> \/ pipe'[f] = pipe[f]
  <2>1. pipe \in [Ends -> Seq(Frames)] /\ <<>> \in Seq(Frames)
      BY DEF IInv, JobFits
  <2>2. QED
      BY <1>1, <2>1, OtherIs
<1>4. TypeOK'
  <2>1. \A f \in Ends : Len(pipe'[f]) <= PipeCap
    <3>1. Len(<<>>) <= PipeCap
        BY WsDuplexAssumption
    <3>2. QED
        BY <1>3, <3>1, Zenon DEF IInv, TypeOK
  <2>2. QED
      BY <1>1, <1>2, <2>1 DEF IInv, TypeOK, fixed
<1>5. JobFits'
    BY <1>1, <1>3 DEF IInv, JobFits, Stuck
<1>6. LockKept'
    BY <1>1 DEF IInv, LockKept
<1>7. LastWord'
    BY <1>2, GoneIsNoWord DEF Gone
<1>8. QED
    BY <1>4, <1>5, <1>6, <1>7 DEF IInv

(* The frame a polite end sends: its own data, or a Close.                 *)
LEMMA FramesSent ==
  \A what \in {"text", "binary", "close", "reply", "refusal"} :
    /\ FrameOf(what) \in Frames
    /\ what \in {"text", "binary"} => FrameOf(what) = what
    /\ what \notin {"text", "binary"} => FrameOf(what) = "close"
  BY DEF FrameOf, Frames

LEMMA PutsKeeps ==
  ASSUME IInv, NEW e \in Ends, NEW r \in Roles, Puts(e, r)
  PROVE  IInv'
<1> DEFINE frame == FrameOf(job[e][r])
<1>1. /\ UNCHANGED <<fixed, calls, closed>>
      /\ pc[e][r] = "put" /\ HasRoom(e) /\ LockGoes(e, "nobody")
      /\ saidBye' = [saidBye EXCEPT ![e] = @ \/ job[e][r] = "close"]
    BY DEF Puts, LockGoes
<1>2. Moved(e, r, After(job[e][r]), "none")
    BY Moves DEF IInv, Puts, Leaves, Pcs, Jobs, After
<1>3. /\ job[e][r] \in {"text", "binary", "close", "reply", "refusal"}
      /\ r = "writer" => job[e][r] \in {"text", "binary", "close"}
      /\ r = "reader" => job[e][r] \in {"reply", "refusal"}
    BY <1>1, RolesAre DEF IInv, JobFits, Stuck
<1>4. pipe \in [Ends -> Seq(Frames)] /\ frame \in Frames
    BY <1>3, FramesSent DEF IInv, JobFits
<1>5. /\ pipe' \in [Ends -> Seq(Frames)]
      /\ \A f \in Ends : f # e => pipe'[f] = pipe[f]
      /\ pipe'[e] = pipe[e] \/ pipe'[e] = Append(pipe[e], frame)
      /\ ~Gone => pipe'[e] = Append(pipe[e], frame)
  <2>1. CASE closed[Other(e)]
      BY <1>4, <2>1, OtherIs DEF Puts, Gone
  <2>2. CASE ~closed[Other(e)]
    <3>1. pipe' = [pipe EXCEPT ![e] = Append(pipe[e], frame)]
        BY <2>2 DEF Puts
    <3>2. Append(pipe[e], frame) \in Seq(Frames)
        BY <1>4
    <3>3. QED
        BY <1>4, <3>1, <3>2
  <2>3. QED
      BY <2>1, <2>2
<1>6. /\ saidBye' \in [Ends -> BOOLEAN]
      /\ \A f \in Ends : f # e => saidBye'[f] = saidBye[f]
      /\ saidBye'[e] <=> saidBye[e] \/ job[e][r] = "close"
    BY <1>1, Zenon DEF IInv, TypeOK
<1>7. TypeOK'
  <2>1. \A f \in Ends : Len(pipe'[f]) <= PipeCap
    <3>1. Len(pipe[e]) < PipeCap /\ Len(pipe[e]) \in Nat
        BY <1>1, <1>4 DEF HasRoom
    <3>2. Len(Append(pipe[e], frame)) <= PipeCap
        BY <1>4, <3>1, WsDuplexAssumption
    <3>3. QED
        BY <1>5, <3>2, Zenon DEF IInv, TypeOK
  <2>2. QED
      BY <1>1, <1>2, <1>6, <2>1 DEF IInv, TypeOK, Moved, Pcs, fixed, LockGoes
<1>8. JobFits'
  <2>1. Fits(r, After(job[e][r]), "none")
      BY <1>3, RolesAre DEF Fits, After
  <2>2. QED
      BY <1>2, <1>5, <2>1, MovedFits DEF IInv
<1>9. LockKept'
    BY <1>1, <1>2, MovedKeepsLock DEF IInv, After
<1>10. LastWord'
  <2>1. SUFFICES ASSUME Polite', NEW f \in Ends PROVE SaysItLast(f)'
      BY DEF LastWord
  <2>2. Polite /\ ~Gone /\ (SendType(f)' = SendType(f))
      BY <1>1, <2>1, FixedStay DEF Polite, fixed, Gone
  <2>3. SaysItLast(f) /\ SaysItLast(e)
      BY <2>2 DEF IInv, LastWord
  <2>4. pipe'[e] = Append(pipe[e], frame)
      BY <1>5, <2>2
  <2>5. CASE f # e
    <3>1. \A s \in Roles : Untouched(f, s)
        BY <1>2, <2>5 DEF Moved, Untouched
    <3>2. pipe'[f] = pipe[f] /\ saidBye'[f] = saidBye[f] /\ Other(f) = e
        BY <1>5, <1>6, <2>5, OtherIs
    <3>3. CASE r = "writer"
      <4>1. Untouched(Other(f), "reader")
          BY <1>2, <3>2, <3>3, RolesAre DEF Moved, Untouched
      <4>2. QED
          BY <1>1, <2>3, <3>1, <3>2, <4>1, StillLast
    <3>4. CASE r = "reader"
      <4>1. job[e]["reader"] = "reply"
          BY <1>3, <2>3, <3>4 DEF SaysItLast
      <4>2. pc'[e]["reader"] = "over"
          BY <1>2, <3>4, <4>1 DEF Moved, After
      <4>3. QED
          BY <2>2, <2>3, <3>1, <3>2, <4>1, <4>2, RolesAre
             DEF SaysItLast, ByeIsLast, ByeArrives, Untouched
    <3>5. QED
        BY <3>3, <3>4, RolesAre
  <2>A. /\ \A i \in 1..Len(pipe[e]) :
             i \in 1..Len(pipe'[e]) /\ pipe'[e][i] = pipe[e][i]
        /\ Len(pipe'[e]) \in 1..Len(pipe'[e])
        /\ pipe'[e][Len(pipe'[e])] = frame
      BY <1>4, <2>4
  <2>6. CASE f = e /\ r = "writer"
    <3>1. /\ job[e]["writer"] \in {SendType(e), "close"}
          /\ frame \in {SendType(e), "close"}
          /\ frame = "close" => job[e]["writer"] = "close"
        BY <1>3, <2>3, <2>6, FramesSent, SendsData DEF SaysItLast
    <3>2. ~saidBye[e]
        BY <1>1, <2>3, <2>6 DEF SaysItLast
    <3>3. /\ pc'[e]["writer"] = "idle" /\ job'[e]["writer"] = "none"
          /\ Untouched(e, "reader") /\ Untouched(Other(e), "reader")
        BY <1>2, <1>3, <2>6, RolesAre, OtherIs DEF Moved, After, Untouched
    <3>4. \A i \in 1..Len(pipe'[e]) : pipe'[e][i] \in {SendType(e), "close"}
        BY <1>4, <2>3, <2>4, <3>1 DEF SaysItLast
    <3>5. ASSUME pc'[e]["reader"] # "over" PROVE ByeIsLast(e)'
      <4>1. ByeIsLast(e)
          BY <2>3, <3>3, <3>5 DEF SaysItLast, Untouched
      <4>2. \A i \in 1..Len(pipe[e]) : pipe[e][i] # "close"
          BY <3>2, <4>1 DEF ByeIsLast
      <4>3. \A i \in 1..Len(pipe'[e]) :
              pipe'[e][i] = "close" => i = Len(pipe'[e]) /\ frame = "close"
          BY <1>4, <2>4, <4>2
      <4>4. frame = "close" => saidBye'[e]
          BY <1>6, <2>6, <3>1
      <4>5. ~(job'[Other(e)]["reader"] = "reply" \/ pc'[Other(e)]["reader"] = "over")
          BY <3>2, <3>3, <4>1 DEF ByeIsLast, Untouched
      <4>6. QED
          BY <4>3, <4>4, <4>5 DEF ByeIsLast
    <3>6. ByeArrives(e)'
        BY <1>6, <2>6, <2>A, <3>1, <3>2, FramesSent DEF ByeArrives
    <3>7. QED
        BY <2>2, <2>3, <2>6, <3>3, <3>4, <3>5, <3>6 DEF SaysItLast, Untouched
  <2>7. CASE f = e /\ r = "reader"
    <3>1. job[e]["reader"] = "reply" /\ frame = "close"
        BY <1>3, <2>3, <2>7, FramesSent DEF SaysItLast
    <3>2. /\ pc'[e]["reader"] = "over" /\ job'[e]["reader"] = "none"
          /\ Untouched(e, "writer")
        BY <1>2, <2>7, <3>1, RolesAre DEF Moved, After, Untouched
    <3>3. saidBye'[e] = saidBye[e]
        BY <1>6, <2>7, <3>1 DEF IInv, TypeOK
    <3>4. \A i \in 1..Len(pipe'[e]) : pipe'[e][i] \in {SendType(e), "close"}
        BY <1>4, <2>3, <2>4, <2>7, <3>1 DEF SaysItLast
    <3>5. ByeArrives(e)'
        BY <2>A, <3>1 DEF ByeArrives
    <3>6. QED
        BY <2>2, <2>3, <2>7, <3>2, <3>3, <3>4, <3>5 DEF SaysItLast, Untouched
  <2>8. QED
      BY <2>5, <2>6, <2>7, RolesAre
<1>11. QED
    BY <1>7, <1>8, <1>9, <1>10 DEF IInv

(* What is left of a pipe after its first frame has been taken.            *)
LEMMA TailIs ==
  ASSUME NEW q \in Seq(Frames), q # <<>>
  PROVE  /\ Tail(q) \in Seq(Frames) /\ Head(q) \in Frames /\ Head(q) = q[1]
         /\ Len(q) \in Nat /\ Len(q) # 0 /\ Len(Tail(q)) = Len(q) - 1
         /\ \A i \in 1..Len(Tail(q)) :
              i + 1 \in 1..Len(q) /\ Tail(q)[i] = q[i + 1]
         /\ Len(q) = 1 => Tail(q) = <<>>
<1>1. \A s \in Seq(Frames) : Len(s) = 0 => s = <<>>
    OBVIOUS
<1>2. /\ Tail(q) \in Seq(Frames) /\ Head(q) \in Frames /\ Head(q) = q[1]
      /\ Len(q) \in Nat /\ Len(q) # 0 /\ Len(Tail(q)) = Len(q) - 1
      /\ \A i \in 1..Len(Tail(q)) :
           i + 1 \in 1..Len(q) /\ Tail(q)[i] = q[i + 1]
    OBVIOUS
<1>3. Len(q) = 1 => Len(Tail(q)) = 0
    BY <1>2
<1>4. QED
    BY <1>1, <1>2, <1>3, Zenon

LEMMA ReaderTakesKeeps ==
  ASSUME IInv, NEW e \in Ends, ReaderTakes(e)
  PROVE  IInv'
<1> DEFINE o == Other(e)
           q == pipe[o]
<1>1. /\ UNCHANGED <<fixed, lock, calls, saidBye, closed>>
      /\ pc[e]["reader"] = "idle" /\ q # <<>>
      /\ pipe' = [pipe EXCEPT ![o] = Tail(q)]
    BY DEF ReaderTakes
<1>2. o \in Ends /\ pipe \in [Ends -> Seq(Frames)] /\ q \in Seq(Frames)
    BY OtherIs DEF IInv, JobFits
<1>3. /\ Tail(q) \in Seq(Frames) /\ Head(q) \in Frames /\ Head(q) = q[1]
      /\ Len(q) \in Nat /\ Len(q) # 0 /\ Len(Tail(q)) = Len(q) - 1
      /\ \A i \in 1..Len(Tail(q)) :
           i + 1 \in 1..Len(q) /\ Tail(q)[i] = q[i + 1]
    BY <1>1, <1>2, TailIs
<1>4. /\ pipe' \in [Ends -> Seq(Frames)] /\ pipe'[o] = Tail(q)
      /\ \A f \in Ends : f # o => pipe'[f] = pipe[f]
    BY <1>1, <1>2, <1>3
<1>5. PICK x \in {"idle", "want"}, j \in {"none", "reply", "refusal"} :
        /\ Moved(e, "reader", x, j) /\ Fits("reader", x, j)
        /\ j = "reply" <=> Head(q) = "close"
        /\ j = "refusal" => Refuses(e, Head(q))
  <2>1. CASE Head(q) = "close"
    <3>1. Goes(e, "reader", "want") /\ job' = [job EXCEPT ![e]["reader"] = "reply"]
        BY <2>1 DEF ReaderTakes, WantsTo
    <3>2. Moved(e, "reader", "want", "reply")
        BY <3>1, Moves, RolesAre DEF IInv, Pcs, Jobs
    <3>3. QED
        BY <2>1, <3>2, RolesAre DEF Fits
  <2>2. CASE Head(q) # "close" /\ Refuses(e, Head(q))
    <3>1. /\ Goes(e, "reader", "want")
          /\ job' = [job EXCEPT ![e]["reader"] = "refusal"]
        BY <2>2 DEF ReaderTakes, WantsTo
    <3>2. Moved(e, "reader", "want", "refusal")
        BY <3>1, Moves, RolesAre DEF IInv, Pcs, Jobs
    <3>3. QED
        BY <2>2, <3>2, RolesAre DEF Fits
  <2>3. CASE Head(q) # "close" /\ ~Refuses(e, Head(q))
    <3>1. UNCHANGED <<pc, job>>
        BY <2>3 DEF ReaderTakes
    <3>2. job[e]["reader"] = "none"
        BY <1>1, RolesAre DEF IInv, JobFits, Stuck
    <3>3. Moved(e, "reader", "idle", "none")
        BY <1>1, <3>1, <3>2, RolesAre DEF IInv, TypeOK, Moved, Pcs
    <3>4. QED
        BY <2>3, <3>3, RolesAre DEF Fits
  <2>4. QED
      BY <2>1, <2>2, <2>3
<1>6. TypeOK'
  <2>1. \A f \in Ends : Len(pipe'[f]) <= PipeCap
    <3>1. Len(q) <= PipeCap
        BY <1>2 DEF IInv, TypeOK
    <3>2. Len(Tail(q)) <= PipeCap
        BY <1>3, <3>1, WsDuplexAssumption
    <3>3. QED
        BY <1>4, <3>2, Zenon DEF IInv, TypeOK
  <2>2. QED
      BY <1>1, <1>5, <2>1 DEF IInv, TypeOK, Moved, Pcs, fixed
<1>7. JobFits'
    BY <1>4, <1>5, MovedFits, RolesAre DEF IInv
<1>8. LockKept'
    BY <1>1, <1>5, MovedKeepsLock, RolesAre DEF IInv
<1>9. LastWord'
  <2>1. SUFFICES ASSUME Polite', NEW f \in Ends PROVE SaysItLast(f)'
      BY DEF LastWord
  <2>2. Polite /\ (SendType(f)' = SendType(f))
      BY <1>1, <2>1, FixedStay DEF Polite, fixed, Gone
  <2>3. SaysItLast(f) /\ SaysItLast(o)
      BY <1>2, <2>2 DEF IInv, LastWord
  <2>4. pc'[e]["reader"] # "over" /\ job'[e]["reader"] = j
      BY <1>5 DEF Moved
  <2>5. CASE f # o
    <3>1. f = e /\ pipe'[e] = pipe[e] /\ e # o
        BY <1>4, <2>5, OtherIs
    <3>2. Untouched(e, "writer") /\ Untouched(o, "reader")
        BY <1>2, <1>5, <3>1, RolesAre DEF Moved, Untouched
    <3>3. j # "refusal"
      <4>1. q[1] \in {SendType(o), "close"}
          BY <1>3, <2>3 DEF SaysItLast
      <4>2. SendType(o) \in opCode[e] /\ SendType(o) # "close"
          BY <1>2, <2>2, SendsData DEF Polite, Accepting
      <4>3. QED
          BY <1>3, <1>5, <4>1, <4>2 DEF Refuses
    <3>4. ByeIsLast(e)
        BY <1>1, <2>3, <3>1 DEF SaysItLast
    <3>5. ByeIsLast(e)'
        BY <1>1, <3>1, <3>2, <3>4 DEF ByeIsLast, Untouched
    <3>6. ByeArrives(e)'
        BY <1>1, <2>3, <3>1, <3>2 DEF SaysItLast, ByeArrives, Untouched
    <3>7. QED
        BY <1>1, <2>2, <2>3, <2>4, <3>1, <3>2, <3>3, <3>5, <3>6
           DEF SaysItLast, Untouched
  <2>6. CASE f = o
    <3>1. Other(o) = e /\ o # e
        BY OtherIs
    <3>2. \A s \in Roles : Untouched(o, s)
        BY <1>2, <1>5, <3>1 DEF Moved, Untouched
    <3>3. \A i \in 1..Len(pipe'[o]) : pipe'[o][i] \in {SendType(o), "close"}
        BY <1>3, <1>4, <2>3 DEF SaysItLast
    <3>4. ASSUME pc'[o]["reader"] # "over" PROVE ByeIsLast(o)'
      <4>1. ByeIsLast(o)
          BY <2>3, <3>2, <3>4, RolesAre DEF SaysItLast, Untouched
      <4>2. \A i \in 1..Len(pipe'[o]) :
              pipe'[o][i] = "close" => i = Len(pipe'[o]) /\ saidBye[o]
          BY <1>3, <1>4, <4>1 DEF ByeIsLast
      <4>3. ASSUME j = "reply" PROVE saidBye[o] /\ pipe'[o] = <<>>
        <5>1. 1 \in 1..Len(q) /\ q[1] = "close"
            BY <1>3, <1>5, <4>3
        <5>2. 1 = Len(q) /\ saidBye[o]
            BY <4>1, <5>1, Zenon DEF ByeIsLast
        <5>3. Tail(q) = <<>>
            BY <1>1, <1>2, <5>2, TailIs
        <5>4. QED
            BY <1>4, <5>2, <5>3
      <4>4. QED
          BY <1>1, <2>4, <3>1, <4>2, <4>3 DEF ByeIsLast
    <3>5. ByeArrives(o)'
      <4>1. SUFFICES ASSUME saidBye[o], j # "reply" PROVE
              \/ \E i \in 1..Len(pipe'[o]) : pipe'[o][i] = "close"
              \/ pc'[e]["reader"] = "over"
          BY <1>1, <2>4, <3>1 DEF ByeArrives
      <4>2. job[e]["reader"] = "none"
          BY <1>1, RolesAre DEF IInv, JobFits, Stuck
      <4>3. PICK i \in 1..Len(q) : q[i] = "close"
          BY <1>1, <2>3, <3>1, <4>1, <4>2 DEF SaysItLast, ByeArrives
      <4>4. i # 1
          BY <1>3, <1>5, <4>1, <4>3
      <4>5. i - 1 \in 1..Len(Tail(q)) /\ (i - 1) + 1 = i
          BY <1>3, <4>4
      <4>6. Tail(q)[i - 1] = "close"
          BY <1>3, <4>3, <4>5
      <4>7. QED
          BY <1>4, <4>5, <4>6
    <3>6. QED
        BY <1>1, <2>2, <2>3, <2>6, <3>2, <3>3, <3>4, <3>5, RolesAre
           DEF SaysItLast, Untouched
  <2>7. QED
      BY <2>5, <2>6
<1>10. QED
    BY <1>6, <1>7, <1>8, <1>9 DEF IInv

LEMMA NextKeepsIInv == IInv /\ [Next]_vars => IInv'
<1> SUFFICES ASSUME IInv, [Next]_vars PROVE IInv'
    OBVIOUS
<1>1. ASSUME NEW e \in Ends, Writes(e) PROVE IInv'
    BY <1>1, SaysKeeps DEF Writes
<1>2. ASSUME NEW e \in Ends, WriteCloses(e) PROVE IInv'
    BY <1>2, SaysKeeps DEF WriteCloses
<1>3. ASSUME NEW e \in Ends, NEW r \in Roles, Locks(e, r) PROVE IInv'
    BY <1>3, LocksKeeps
<1>4. ASSUME NEW e \in Ends, NEW r \in Roles, Puts(e, r) PROVE IInv'
    BY <1>4, PutsKeeps
<1>5. ASSUME NEW e \in Ends, NEW r \in Roles, WriteFails(e, r) PROVE IInv'
    BY <1>5, WriteFailsKeeps
<1>6. ASSUME NEW e \in Ends, ReaderTakes(e) PROVE IInv'
    BY <1>6, ReaderTakesKeeps
<1>7. ASSUME NEW e \in Ends, ReaderFails(e) PROVE IInv'
    BY <1>7, ReaderFailsKeeps
<1>8. ASSUME NEW e \in Ends, Closes(e) PROVE IInv'
    BY <1>8, ClosesKeeps
<1>9. CASE UNCHANGED vars
  <2>1. TypeOK'
      BY <1>9 DEF IInv, TypeOK, vars, fixed
  <2>2. JobFits' /\ LockKept'
      BY <1>9 DEF IInv, JobFits, LockKept, Stuck, vars, fixed
  <2>3. LastWord'
    <3>1. SUFFICES ASSUME Polite', NEW f \in Ends PROVE SaysItLast(f)'
        BY DEF LastWord
    <3>2. UNCHANGED fixed /\ UNCHANGED <<pc, job, pipe, saidBye, closed>>
        BY <1>9 DEF vars, fixed
    <3>3. Polite
        BY <3>1, <3>2, FixedStay DEF Polite, fixed, Gone
    <3>4. SaysItLast(f)
        BY <3>1, <3>3 DEF IInv, LastWord
    <3>5. QED
        BY <3>1, <3>2, <3>4, StillLast DEF Untouched
  <2>4. QED
      BY <2>1, <2>2, <2>3 DEF IInv
<1>10. QED
    BY <1>1, <1>2, <1>3, <1>4, <1>5, <1>6, <1>7, <1>8, <1>9, Zenon DEF Next

LEMMA IInvHolds == Spec => []IInv
<1>1. QED
    BY InitIInv, NextKeepsIInv, PTL DEF Spec

(* Each variable has its type, and no direction ever holds more frames     *)
(* than it has room for, whoever writes into it (websocket/transport.go,   *)
(* internal/wsutils/cipher_handler.go).                                    *)
THEOREM TypeCorrect == Spec => []TypeOK
<1>1. IInv => TypeOK
    BY DEF IInv
<1>2. QED
    BY <1>1, IInvHolds, PTL

-----------------------------------------------------------------------------
(* What it means that nothing moves.                                       *)

LEMMA PipeNotEmpty ==
  ASSUME IInv, NEW e \in Ends, ~HasRoom(e)
  PROVE  pipe[e] # <<>>
<1>1. Len(<<>>) < PipeCap
    BY WsDuplexAssumption
<1>2. QED
    BY <1>1 DEF HasRoom

(* A goroutine that cannot go on: the one that has its lock faces a full   *)
(* pipe, and the reader at the other end of the pipe is stuck itself.      *)
LEMMA StuckBehindFull ==
  ASSUME IInv, Halted, NEW e \in Ends, NEW r \in Roles, Stuck(e, r)
  PROVE  ~Gone /\ ~HasRoom(e) /\ Stuck(Other(e), "reader")
<1>1. PICK h \in Roles : pc[e][h] = "put"
  <2>1. CASE pc[e][r] = "put"
      BY <2>1
  <2>2. CASE pc[e][r] = "want"
    <3>1. lock[e] # "nobody"
        BY <2>2 DEF Halted, MayLock
    <3>2. lock[e] \in Roles
        BY <3>1 DEF IInv, TypeOK
    <3>3. QED
        BY <3>2 DEF IInv, LockKept
  <2>3. QED
      BY <2>1, <2>2 DEF Stuck
<1>2. ~Gone /\ ~HasRoom(e)
    BY <1>1 DEF Halted, MayPut
<1>3. pipe[e] # <<>>
    BY <1>2, PipeNotEmpty
<1>4. Other(e) \in Ends /\ Other(Other(e)) = e
    BY OtherIs
<1>5. pc[Other(e)]["reader"] # "idle"
    BY <1>3, <1>4 DEF Halted, MayRead
<1>6. pc[Other(e)]["reader"] # "over"
    BY <1>2, <1>4 DEF Halted, MayClose, Gone
<1>7. pc[Other(e)]["reader"] \in {"idle", "want", "put", "over"}
    BY <1>4, RolesAre DEF IInv, TypeOK
<1>8. QED
    BY <1>2, <1>5, <1>6, <1>7 DEF Stuck

LEMMA HaltedIsJammed ==
  IInv /\ Halted /\ (\E e \in Ends, r \in Roles : Stuck(e, r)) => Jammed
<1>1. SUFFICES ASSUME IInv, Halted, NEW e \in Ends, NEW r \in Roles, Stuck(e, r)
               PROVE  Jammed
    OBVIOUS
<1>2. ~Gone /\ ~HasRoom(e) /\ Stuck(Other(e), "reader")
    BY <1>1, StuckBehindFull
<1>3. Other(e) \in Ends /\ Other(Other(e)) = e
      /\ \A f \in Ends : f = e \/ f = Other(e)
    BY OtherIs
<1>4. ~HasRoom(Other(e)) /\ Stuck(e, "reader")
    BY <1>1, <1>2, <1>3, RolesAre, StuckBehindFull
<1>5. QED
    BY <1>2, <1>3, <1>4 DEF Jammed

(* When none of the goroutines of the two ends can go on, and one of them  *)
(* is in a call that has not returned, then both directions are full and   *)
(* both readers wait to write: never is a lock left held by a call that    *)
(* has failed, and never does one end wait alone (Write, WriteClose and    *)
(* Read of websocket/transport.go; HandleClose of cipher_handler.go).  It  *)
(* is what MutualOnly needs beside the scheduler.                          *)
THEOREM OnlyAJamHalts ==
  Spec => [](Halted /\ (\E e \in Ends, r \in Roles : Stuck(e, r)) => Jammed)
<1>1. QED
    BY HaltedIsJammed, IInvHolds, PTL

(* No call of either end and no frame undoes a jam: only an application    *)
(* that closes its connection does (Close of websocket/transport.go needs  *)
(* no lock).                                                               *)
THEOREM JamsStay ==
  Spec => [][Jammed => Jammed' \/ \E e \in Ends : Closes(e)]_vars
<1> DEFINE Parted == \E e \in Ends : Closes(e)
<1>1. ASSUME IInv, Next, Jammed, ~Parted PROVE Jammed'
  <2>1. /\ ~Gone
        /\ \A e \in Ends : ~HasRoom(e) /\ pc[e]["reader"] \in {"want", "put"}
      BY <1>1 DEF Jammed, Stuck
  <2>2. ASSUME UNCHANGED <<pipe, closed>>,
               \A e \in Ends : pc'[e]["reader"] \in {"want", "put"}
        PROVE  Jammed'
      BY <2>1, <2>2 DEF Jammed, Stuck, Gone, HasRoom
  <2>3. ASSUME NEW e \in Ends, NEW what \in {SendType(e), "close"}, Says(e, what)
        PROVE  Jammed'
    <3>1. Goes(e, "writer", "want") /\ job' = [job EXCEPT ![e]["writer"] = what]
        BY <2>3 DEF Says, WantsTo
    <3>2. Moved(e, "writer", "want", what)
        BY <1>1, <3>1, Moves, RolesAre, SendsData DEF IInv, Pcs, Jobs
    <3>3. \A f \in Ends : pc'[f]["reader"] = pc[f]["reader"]
        BY <3>2, RolesAre DEF Moved
    <3>4. QED
        BY <2>1, <2>2, <2>3, <3>3 DEF Says
  <2>4. ASSUME NEW e \in Ends, NEW r \in Roles, Locks(e, r) PROVE Jammed'
    <3>1. Moved(e, r, "put", job[e][r])
        BY <1>1, <2>4, OneMoves DEF IInv, Locks, Pcs
    <3>2. \A f \in Ends : pc'[f]["reader"] \in {pc[f]["reader"], "put"}
        BY <3>1, RolesAre DEF Moved
    <3>3. QED
        BY <2>1, <2>2, <2>4, <3>2 DEF Locks
  <2>5. QED
      BY <1>1, <2>1, <2>3, <2>4
         DEF Next, Writes, WriteCloses, Puts, WriteFails, ReaderTakes, ReaderFails
<1>2. ASSUME Jammed, UNCHANGED vars PROVE Jammed'
    BY <1>2 DEF Jammed, Stuck, Gone, HasRoom, vars
<1>3. IInv /\ [Next]_vars => [Jammed => Jammed' \/ Parted]_vars
    BY <1>1, <1>2
<1>4. QED
    BY <1>3, IInvHolds, PTL DEF Spec

LEMMA PoliteIsNotJammed == IInv /\ polite /\ Accepting => ~Jammed
<1>1. SUFFICES ASSUME IInv, polite, Accepting, Jammed PROVE FALSE
    OBVIOUS
<1>2. Polite /\ \A e \in Ends : SaysItLast(e)
    BY <1>1 DEF IInv, LastWord, Polite, Jammed
<1>3. PICK e \in Ends : TRUE
    BY DEF Ends
<1>4. ~HasRoom(e) /\ Stuck(e, "reader") /\ Stuck(Other(e), "reader")
    BY <1>1, OtherIs DEF Jammed
<1>5. job[Other(e)]["reader"] = "reply"
    BY <1>1, <1>2, <1>4, OtherIs, RolesAre DEF IInv, JobFits, SaysItLast
<1>6. pipe[e] = <<>>
    BY <1>2, <1>4, <1>5 DEF SaysItLast, ByeIsLast, Stuck
<1>7. QED
    BY <1>1, <1>4, <1>6, PipeNotEmpty

(* Ends that accept what the other sends, and send nothing after a Close   *)
(* frame of their own, never jam, however little the connection holds: an  *)
(* end that answers a Close frame (HandleClose, cipher_handler.go) writes  *)
(* to one that has nothing more to say, and has read it all.               *)
THEOREM PoliteNeverJams == Spec => [](polite /\ Accepting => ~Jammed)
<1>1. QED
    BY PoliteIsNotJammed, IInvHolds, PTL

(* What is left when no goroutine of two such ends can go on: no call that *)
(* has not returned and, if a WriteClose has gone out, two Reads that have *)
(* ended (the state PoliteCloses says the ends come to).                   *)
BothDone ==
  /\ \A e \in Ends, r \in Roles : ~Stuck(e, r)
  /\ (\E e \in Ends : saidBye[e]) => \A f \in Ends : pc[f]["reader"] = "over"

LEMMA PoliteHaltIsDone == IInv /\ polite /\ Accepting /\ Halted => BothDone
<1>1. SUFFICES ASSUME IInv, polite, Accepting, Halted PROVE BothDone
    OBVIOUS
<1>2. \A e \in Ends, r \in Roles : ~Stuck(e, r)
    BY <1>1, HaltedIsJammed, PoliteIsNotJammed
<1>3. \A e \in Ends : pc[e]["reader"] \in {"idle", "over"}
    BY <1>1, <1>2, RolesAre DEF IInv, TypeOK, Stuck
<1>4. ASSUME NEW e \in Ends, saidBye[e], NEW f \in Ends PROVE pc[f]["reader"] = "over"
  <2>1. CASE Gone
      BY <1>1, <1>3, <2>1 DEF Halted, MayRead
  <2>2. CASE ~Gone
    <3>1. Other(e) \in Ends /\ Other(Other(e)) = e
        BY OtherIs
    <3>2. pc[Other(e)]["reader"] = "idle" /\ pipe[e] = <<>>
        BY <1>1, <1>3, <2>2, <3>1 DEF Halted, MayRead, MayClose, Gone
    <3>3. job[Other(e)]["reader"] = "none"
        BY <1>1, <1>2, <3>1, RolesAre DEF IInv, JobFits
    <3>4. ByeArrives(e)
        BY <1>1, <2>2 DEF IInv, LastWord, Polite, SaysItLast
    <3>5. Len(pipe[e]) = 0
        BY <3>2
    <3>6. QED
        BY <1>4, <3>2, <3>3, <3>4, <3>5 DEF ByeArrives
  <2>3. QED
      BY <2>1, <2>2
<1>5. QED
    BY <1>2, <1>4 DEF BothDone

(* Two such ends stop only where they should: every call has returned, and *)
(* a Close frame that has gone out is not lost, since its answer, or the   *)
(* error of a connection that is gone, ends the reading on both sides,     *)
(* though neither remembers which Close frame is an answer (HandleClose,   *)
(* cipher_handler.go).  It is what PoliteCloses needs beside the scheduler.*)
THEOREM PoliteHaltsDone == Spec => [](polite /\ Accepting /\ Halted => BothDone)
<1>1. QED
    BY PoliteHaltIsDone, IInvHolds, PTL
===============================================================================
