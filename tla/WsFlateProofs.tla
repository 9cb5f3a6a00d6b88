---------------------------- MODULE WsFlateProofs ----------------------------
(***************************************************************************)
(* Proofs about WsFlate, for any number of connections, goroutines and     *)
(* objects and any number of messages.                                     *)
(*                                                                         *)
(* Where an object is depends on who is in the middle of a message or of a *)
(* Close.  Three things are kept apart: what holds whatever the            *)
(* application does (Shapes), what an orderly application adds (Orderly),  *)
(* and that an object has one owner (OneOwner), which holds of orderly     *)
(* applications, of options that keep no object, and of readers that one   *)
(* goroutine closes.                                                       *)
(***************************************************************************)
EXTENDS WsFlate, FiniteSetTheorems, TLAPS

(* Close has put the object back and not yet cleared the field.            *)
PutFor(c) == \E k \in Closers : closing[k] = c /\ closeAt[k] = "put"

(* The two ways to own an object: by a connection, and by a message that   *)
(* took it from the pool.                                                  *)
Keeps(c, o) == keeps[c] = o /\ ~PutFor(c)
Holds(g, o) ==
  has[g] = o /\ at[g] \in {"using", "over"} /\ mode[on[g]] = "pooled"

(* What the places of goroutines say, whatever the application does.       *)
UserShape ==
  \A g \in Users :
    /\ at[g] # "idle" => on[g] \in Conns
    /\ at[g] \in {"using", "over"} <=> has[g] # None
    /\ at[g] = "tested" => kind = "writer" /\ mode[on[g]] # "pooled"
    /\ at[g] = "over" => kind = "reader"

CloserShape ==
  \A k \in Closers :
    /\ closeAt[k] = "idle" <=> closing[k] = None
    /\ closing[k] # None =>
         conn[closing[k]] # "new" /\ mode[closing[k]] # "pooled"

ConnShape ==
  \A c \in Conns :
    /\ mode[c] = "pooled" => keeps[c] = None
    /\ conn[c] = "new" => keeps[c] = None

MadeShape ==
  /\ \A o \in Objs : pool[o] > 0 => o \in made
  /\ \A c \in Conns : keeps[c] \in made \cup {None}
  /\ \A g \in Users : has[g] \in made \cup {None}
  /\ applied = "once" => dropped = {}

Shapes == UserShape /\ CloserShape /\ ConnShape /\ MadeShape

(* An orderly application: one goroutine at a time is in a message of a    *)
(* connection, which is open and which nobody closes; a connection has an  *)
(* object of its own exactly when it is to keep one.                       *)
Orderly ==
  /\ \A g, h \in Users :
       at[g] # "idle" /\ at[h] # "idle" /\ on[g] = on[h] => g = h
  /\ \A g \in Users : at[g] \in {"tested", "using"} =>
       conn[on[g]] = "open" /\ ~Closing(on[g])
  /\ \A k \in Closers : closing[k] # None => conn[closing[k]] = "open"
  /\ \A c \in Conns : conn[c] = "open" /\ keeps[c] = None => mode[c] = "pooled"
  /\ \A g \in Users : at[g] = "using" /\ mode[on[g]] # "pooled" =>
       has[g] = keeps[on[g]]

(* A connection is closed by one goroutine, which finds the object.        *)
OneCloser ==
  /\ \A k, l \in Closers : closing[k] # None /\ closing[k] = closing[l] => k = l
  /\ \A k \in Closers : closing[k] # None => keeps[closing[k]] # None

(* An object is in the pool, or has one owner, or went with a pool that    *)
(* Apply replaced.                                                         *)
Unowned(o) == (\A c \in Conns : ~Keeps(c, o)) /\ (\A g \in Users : ~Holds(g, o))

OneOwner ==
  \A o \in Objs :
    /\ pool[o] <= 1
    /\ pool[o] > 0 => Unowned(o)
    /\ \A c, d \in Conns : Keeps(c, o) /\ Keeps(d, o) => c = d
    /\ \A g, h \in Users : Holds(g, o) /\ Holds(h, o) => g = h
    /\ \A c \in Conns, g \in Users : ~(Keeps(c, o) /\ Holds(g, o))
    /\ o \in dropped => pool[o] = 0 /\ Unowned(o)
    /\ o \in made \ dropped => pool[o] > 0 \/ ~Unowned(o)

Guarded == Apart \/ (kind = "reader" /\ \A k, l \in Closers : k = l)

IInv ==
  /\ TypeOK
  /\ Shapes
  /\ orderly => Orderly
  /\ Guarded => OneCloser /\ OneOwner
  /\ BoundToUser
  /\ PoolRefersToNobody

-----------------------------------------------------------------------------
(* Types.                                                                  *)

LEMMA InitTypeOK == Init => TypeOK
<1> SUFFICES ASSUME Init PROVE TypeOK
    OBVIOUS
<1>1. uses \in 0..MaxUses
    BY WsFlateAssumption DEF Init
<1>2. QED
    BY <1>1 DEF Init, TypeOK

(* What the pool gives is an object, and the pool stays a pool.            *)
LEMMA GetsTypes ==
  ASSUME TypeOK, NEW o \in Objs, Gets(o) \/ Makes(o)
  PROVE  /\ pool' \in [Objs -> Nat]
         /\ made' \subseteq Objs /\ made \subseteq made'
         /\ \A x \in made' : x \in made \/ x = o
  BY DEF TypeOK, Gets, Makes, PoolHas

LEMMA NextTypeOK == TypeOK /\ Shapes /\ [Next]_vars => TypeOK'
<1> SUFFICES ASSUME TypeOK, Shapes, [Next]_vars PROVE TypeOK'
    OBVIOUS
<1>0. ASSUME UNCHANGED <<kind, mode>> PROVE mode' \in [Conns -> Modes']
    BY <1>0 DEF TypeOK, Modes, ModeFor
<1> USE WsFlateAssumption DEF fixed, connVars, poolVars, userVars, closeVars
<1>1. ASSUME NEW c \in Conns, OpensPooled(c) PROVE TypeOK'
    BY <1>0, <1>1 DEF OpensPooled, TypeOK
<1>2. ASSUME NEW c \in Conns, NEW o \in Objs, OpensKept(c, o) PROVE TypeOK'
  <2>1. Gets(o) \/ Makes(o)
      BY <1>2 DEF OpensKept
  <2>2. /\ pool' \in [Objs -> Nat] /\ made' \subseteq Objs /\ made \subseteq made'
      BY <2>1, GetsTypes
  <2>3. QED
      BY <1>0, <1>2, <2>2 DEF OpensKept, Unbound, StoresIt, TypeOK
<1>3. ASSUME NEW g \in Users, NEW c \in Conns, NEW o \in Objs, UsesPooled(g, c, o)
      PROVE  TypeOK'
  <2>1. /\ pool' \in [Objs -> Nat] /\ made' \subseteq Objs /\ made \subseteq made'
      BY <1>3, GetsTypes DEF UsesPooled
  <2>2. uses' \in 0..MaxUses
      BY <1>3 DEF UsesPooled, Begins, TypeOK
  <2>3. QED
      BY <1>0, <1>3, <2>1, <2>2 DEF UsesPooled, Begins, Works, BoundTo, TypeOK
<1>4. ASSUME NEW g \in Users, NEW c \in Conns, UsesKept(g, c) PROVE TypeOK'
  <2>1. uses' \in 0..MaxUses
      BY <1>4 DEF UsesKept, Begins, TypeOK
  <2>2. CASE keeps[c] = None
      BY <1>0, <1>4, <2>1, <2>2 DEF UsesKept, Begins, TypeOK
  <2>3. CASE keeps[c] # None
      BY <1>0, <1>4, <2>1, <2>3 DEF UsesKept, Begins, Works, BoundTo, TypeOK
  <2>4. QED
      BY <2>2, <2>3
<1>5. ASSUME NEW g \in Users, NEW c \in Conns, Tests(g, c) PROVE TypeOK'
  <2>1. uses' \in 0..MaxUses
      BY <1>5 DEF Tests, Begins, TypeOK
  <2>2. QED
      BY <1>0, <1>5, <2>1 DEF Tests, Begins, TypeOK
<1>6. ASSUME NEW g \in Users, Loads(g) PROVE TypeOK'
  <2>1. on[g] \in Conns
      BY <1>6 DEF Loads, Shapes, UserShape
  <2>2. CASE keeps[on[g]] = None
      BY <1>0, <1>6, <2>1, <2>2 DEF Loads, TypeOK
  <2>3. CASE keeps[on[g]] # None
      BY <1>0, <1>6, <2>1, <2>3 DEF Loads, Works, BoundTo, TypeOK
  <2>4. QED
      BY <2>2, <2>3
<1>7. ASSUME NEW g \in Users, Finishes(g) PROVE TypeOK'
  <2>1. has[g] \in Objs
      BY <1>7 DEF Finishes, Shapes, UserShape, TypeOK
  <2>2. pool' \in [Objs -> Nat] /\ bound' \in [Objs -> Users \cup {None}]
        /\ made' = made
      BY <1>7, <2>1 DEF Finishes, Puts, Unbound, TypeOK
  <2>3. QED
      BY <1>0, <1>7, <2>2 DEF Finishes, Leaves, TypeOK
<1>8. ASSUME NEW g \in Users, BreaksOff(g) PROVE TypeOK'
    BY <1>0, <1>8 DEF BreaksOff, TypeOK
<1>9. ASSUME NEW k \in Closers, NEW c \in Conns, CloseBegins(k, c) PROVE TypeOK'
    BY <1>0, <1>9 DEF CloseBegins, TypeOK
<1>10. ASSUME NEW k \in Closers, ClosePuts(k) PROVE TypeOK'
  <2>1. closing[k] \in Conns
      BY <1>10 DEF ClosePuts, Shapes, CloserShape, TypeOK
  <2>2. CASE keeps[closing[k]] = None
      BY <1>0, <1>10, <2>1, <2>2 DEF ClosePuts, TypeOK
  <2>3. CASE keeps[closing[k]] # None
      BY <1>0, <1>10, <2>1, <2>3 DEF ClosePuts, Puts, Unbound, TypeOK
  <2>4. QED
      BY <2>2, <2>3
<1>11. ASSUME NEW k \in Closers, CloseClears(k) PROVE TypeOK'
  <2>1. closing[k] \in Conns
      BY <1>11 DEF CloseClears, Shapes, CloserShape, TypeOK
  <2>2. QED
      BY <1>0, <1>11, <2>1 DEF CloseClears, TypeOK
<1>12. CASE ApplyBegins
  <2>1. dropped' \subseteq made'
      BY <1>12 DEF ApplyBegins, PoolHas, Shapes, MadeShape
  <2>2. pool' \in [Objs -> Nat]
      BY <1>12 DEF ApplyBegins
  <2>3. QED
      BY <1>0, <1>12, <2>1, <2>2 DEF ApplyBegins, TypeOK
<1>13. CASE ApplySetsNew \/ GetsNil \/ UNCHANGED vars
    BY <1>0, <1>13 DEF ApplySetsNew, GetsNil, vars, TypeOK
<1>14. QED
    BY <1>1, <1>2, <1>3, <1>4, <1>5, <1>6, <1>7, <1>8, <1>9, <1>10, <1>11,
       <1>12, <1>13 DEF Next

-----------------------------------------------------------------------------
(* What holds whatever the application does.                               *)

LEMMA InitShapes == Init => Shapes
  BY WsFlateAssumption
  DEF Init, Shapes, UserShape, CloserShape, ConnShape, MadeShape

LEMMA NextShapes == TypeOK /\ Shapes /\ [Next]_vars => Shapes'
<1> SUFFICES ASSUME TypeOK, Shapes, [Next]_vars PROVE Shapes'
    OBVIOUS
<1> USE WsFlateAssumption
    DEF fixed, connVars, poolVars, userVars, closeVars, TypeOK, Shapes
<1>1. ASSUME NEW c \in Conns, OpensPooled(c) PROVE Shapes'
    BY <1>1 DEF OpensPooled, UserShape, CloserShape, ConnShape, MadeShape
<1>2. ASSUME NEW c \in Conns, NEW o \in Objs, OpensKept(c, o) PROVE Shapes'
  <2>1. Gets(o) \/ Makes(o)
      BY <1>2 DEF OpensKept
  <2>2. UserShape'
      BY <1>2 DEF OpensKept, UserShape
  <2>3. CloserShape'
      BY <1>2 DEF OpensKept, CloserShape
  <2>4. ConnShape'
      BY <1>2 DEF OpensKept, StoresIt, ConnShape
  <2>5. MadeShape'
      BY <1>2, <2>1 DEF OpensKept, StoresIt, MadeShape, Gets, Makes, PoolHas
  <2>6. QED
      BY <2>2, <2>3, <2>4, <2>5
<1>3. ASSUME NEW g \in Users, NEW c \in Conns, NEW o \in Objs, UsesPooled(g, c, o)
      PROVE  Shapes'
  <2>1. UserShape'
      BY <1>3 DEF UsesPooled, Begins, Works, UserShape
  <2>2. CloserShape' /\ ConnShape'
      BY <1>3 DEF UsesPooled, Begins, CloserShape, ConnShape
  <2>3. MadeShape'
      BY <1>3 DEF UsesPooled, Begins, Works, MadeShape, Gets, Makes, PoolHas
  <2>4. QED
      BY <2>1, <2>2, <2>3
<1>4. ASSUME NEW g \in Users, NEW c \in Conns, UsesKept(g, c) PROVE Shapes'
  <2>1. UserShape'
      BY <1>4 DEF UsesKept, Begins, Works, UserShape
  <2>2. CloserShape' /\ ConnShape'
      BY <1>4 DEF UsesKept, Begins, CloserShape, ConnShape
  <2>3. MadeShape'
      BY <1>4 DEF UsesKept, Begins, Works, MadeShape
  <2>4. QED
      BY <2>1, <2>2, <2>3
<1>5. ASSUME NEW g \in Users, NEW c \in Conns, Tests(g, c) PROVE Shapes'
  <2>1. UserShape'
      BY <1>5 DEF Tests, Begins, UserShape, ConnShape
  <2>2. QED
      BY <1>5, <2>1 DEF Tests, Begins, CloserShape, ConnShape, MadeShape
<1>6. ASSUME NEW g \in Users, Loads(g) PROVE Shapes'
  <2>1. UserShape'
      BY <1>6 DEF Loads, Works, UserShape
  <2>2. CloserShape' /\ ConnShape'
      BY <1>6 DEF Loads, CloserShape, ConnShape
  <2>3. MadeShape'
      BY <1>6 DEF Loads, Works, MadeShape, UserShape
  <2>4. QED
      BY <2>1, <2>2, <2>3
<1>7. ASSUME NEW g \in Users, Finishes(g) PROVE Shapes'
  <2>1. UserShape'
      BY <1>7 DEF Finishes, Leaves, UserShape
  <2>2. CloserShape' /\ ConnShape'
      BY <1>7 DEF Finishes, CloserShape, ConnShape
  <2>3. MadeShape'
      BY <1>7 DEF Finishes, Leaves, Puts, MadeShape, UserShape
  <2>4. QED
      BY <2>1, <2>2, <2>3
<1>8. ASSUME NEW g \in Users, BreaksOff(g) PROVE Shapes'
    BY <1>8 DEF BreaksOff, UserShape, CloserShape, ConnShape, MadeShape
<1>9. ASSUME NEW k \in Closers, NEW c \in Conns, CloseBegins(k, c) PROVE Shapes'
  <2>1. CloserShape'
      BY <1>9 DEF CloseBegins, CloserShape, ConnShape
  <2>2. QED
      BY <1>9, <2>1 DEF CloseBegins, UserShape, ConnShape, MadeShape
<1>10. ASSUME NEW k \in Closers, ClosePuts(k) PROVE Shapes'
  <2>1. CloserShape'
      BY <1>10 DEF ClosePuts, CloserShape
  <2>2. UserShape' /\ ConnShape'
      BY <1>10 DEF ClosePuts, UserShape, ConnShape
  <2>3. MadeShape'
      BY <1>10 DEF ClosePuts, Puts, CloserShape, MadeShape
  <2>4. QED
      BY <2>1, <2>2, <2>3
<1>11. ASSUME NEW k \in Closers, CloseClears(k) PROVE Shapes'
  <2>1. closing[k] \in Conns
      BY <1>11 DEF CloseClears, CloserShape
  <2>2. CloserShape'
      BY <1>11, <2>1 DEF CloseClears, CloserShape
  <2>3. ConnShape'
      BY <1>11, <2>1 DEF CloseClears, ConnShape
  <2>4. UserShape' /\ MadeShape'
      BY <1>11, <2>1 DEF CloseClears, UserShape, MadeShape
  <2>5. QED
      BY <2>2, <2>3, <2>4
<1>12. CASE ApplyBegins
    BY <1>12 DEF ApplyBegins, UserShape, CloserShape, ConnShape, MadeShape
<1>13. CASE ApplySetsNew \/ GetsNil \/ UNCHANGED vars
    BY <1>13
    DEF ApplySetsNew, GetsNil, vars, UserShape, CloserShape, ConnShape, MadeShape
<1>14. QED
    BY <1>1, <1>2, <1>3, <1>4, <1>5, <1>6, <1>7, <1>8, <1>9, <1>10, <1>11,
       <1>12, <1>13 DEF Next

-----------------------------------------------------------------------------
(* Orderly applications stay orderly.                                      *)

LEMMA FixedStays ==
  [Next]_vars => /\ kind' = kind /\ orderly' = orderly /\ mode' = mode
                 /\ applied' = "once" => applied = "once"
<1> SUFFICES ASSUME [Next]_vars
             PROVE  /\ kind' = kind /\ orderly' = orderly /\ mode' = mode
                    /\ applied' = "once" => applied = "once"
    OBVIOUS
<1> USE DEF fixed
<1>1. CASE ApplyBegins \/ ApplySetsNew \/ GetsNil \/ UNCHANGED vars
    BY <1>1 DEF ApplyBegins, ApplySetsNew, GetsNil, vars
<1>2. CASE \/ \E c \in Conns : OpensPooled(c)
           \/ \E c \in Conns, o \in Objs : OpensKept(c, o)
    BY <1>2 DEF OpensPooled, OpensKept
<1>3. CASE \/ \E g \in Users, c \in Conns, o \in Objs : UsesPooled(g, c, o)
           \/ \E g \in Users, c \in Conns : UsesKept(g, c)
           \/ \E g \in Users, c \in Conns : Tests(g, c)
    BY <1>3 DEF UsesPooled, UsesKept, Tests
<1>4. CASE \/ \E g \in Users : Loads(g)
           \/ \E g \in Users : Finishes(g)
           \/ \E g \in Users : BreaksOff(g)
    BY <1>4 DEF Loads, Finishes, BreaksOff
<1>5. CASE \/ \E k \in Closers, c \in Conns : CloseBegins(k, c)
           \/ \E k \in Closers : ClosePuts(k)
           \/ \E k \in Closers : CloseClears(k)
    BY <1>5 DEF CloseBegins, ClosePuts, CloseClears
<1>6. QED
    BY <1>1, <1>2, <1>3, <1>4, <1>5 DEF Next

LEMMA ApartStays == [Next]_vars /\ Apart' => Apart
  BY FixedStays DEF Apart

LEMMA GuardedStays == [Next]_vars /\ Guarded' => Guarded
  BY FixedStays, ApartStays DEF Guarded

(* A connection that an orderly application may use is nobody's.           *)
LEMMA MayUseFinds ==
  ASSUME TypeOK, Shapes, orderly, NEW c \in Conns, MayUse(c)
  PROVE  /\ conn[c] = "open" /\ ~Closing(c)
         /\ \A h \in Users : at[h] # "idle" => on[h] # c
<1>1. conn[c] = "open" /\ ~Closing(c) /\ ~Busy(c)
    BY DEF MayUse
<1>2. ASSUME NEW h \in Users, at[h] # "idle", on[h] = c PROVE FALSE
  <2>1. CASE at[h] \in {"tested", "using"}
      BY <1>1, <1>2, <2>1 DEF Busy
  <2>2. CASE at[h] = "over"
      BY <1>2, <2>2 DEF Shapes, UserShape, MayUse
  <2>3. QED
      BY <1>2, <2>1, <2>2 DEF TypeOK
<1>3. QED
    BY <1>1, <1>2

LEMMA InitOrderly == Init => Orderly
  BY WsFlateAssumption DEF Init, Orderly, Closing

LEMMA NextOrderly == IInv /\ orderly /\ [Next]_vars => Orderly'
<1> SUFFICES ASSUME IInv, orderly, [Next]_vars PROVE Orderly'
    OBVIOUS
<1>0. TypeOK /\ Shapes /\ Orderly
    BY DEF IInv
<1>a. OneCloser
    BY DEF IInv, Guarded, Apart
<1> USE <1>0, WsFlateAssumption
    DEF fixed, connVars, poolVars, userVars, closeVars, TypeOK
<1>1. ASSUME NEW c \in Conns, OpensPooled(c) PROVE Orderly'
    BY <1>1 DEF OpensPooled, Orderly, Shapes, UserShape, Closing
<1>2. ASSUME NEW c \in Conns, NEW o \in Objs, OpensKept(c, o) PROVE Orderly'
    BY <1>2 DEF OpensKept, StoresIt, Orderly, Shapes, UserShape, CloserShape, Closing
<1>3. ASSUME NEW g \in Users, NEW c \in Conns, NEW o \in Objs, UsesPooled(g, c, o)
      PROVE  Orderly'
  <2>1. /\ at' = [at EXCEPT ![g] = "using"] /\ on' = [on EXCEPT ![g] = c]
        /\ has' = [has EXCEPT ![g] = o]
        /\ UNCHANGED <<kind, mode, conn, keeps, closing>>
        /\ MayUse(c) /\ FromPool(c)
      BY <1>3 DEF UsesPooled, Begins, Works
  <2>2. /\ conn[c] = "open" /\ ~Closing(c)
        /\ \A h \in Users : at[h] # "idle" => on[h] # c
      BY <2>1, MayUseFinds
  <2>3. mode[c] = "pooled"
      BY <2>1, <2>2 DEF FromPool, Orderly
  <2>4. QED
      BY <2>1, <2>2, <2>3 DEF Orderly, Closing
<1>4. ASSUME NEW g \in Users, NEW c \in Conns, UsesKept(g, c) PROVE Orderly'
  <2>1. /\ on' = [on EXCEPT ![g] = c] /\ at[g] = "idle"
        /\ UNCHANGED <<kind, mode, conn, keeps, closing>>
        /\ MayUse(c) /\ mode[c] # "pooled"
      BY <1>4 DEF UsesKept, Begins
  <2>2. /\ conn[c] = "open" /\ ~Closing(c)
        /\ \A h \in Users : at[h] # "idle" => on[h] # c
      BY <2>1, MayUseFinds
  <2>3. keeps[c] # None
      BY <2>1, <2>2 DEF Orderly
  <2>4. /\ at' = [at EXCEPT ![g] = "using"] /\ has' = [has EXCEPT ![g] = keeps[c]]
      BY <1>4, <2>3 DEF UsesKept, Works
  <2>5. QED
      BY <2>1, <2>2, <2>4 DEF Orderly, Closing
<1>5. ASSUME NEW g \in Users, NEW c \in Conns, Tests(g, c) PROVE Orderly'
  <2>1. /\ at' = [at EXCEPT ![g] = "tested"] /\ on' = [on EXCEPT ![g] = c]
        /\ UNCHANGED <<kind, mode, conn, keeps, closing, has>>
        /\ MayUse(c)
      BY <1>5 DEF Tests, Begins
  <2>2. /\ conn[c] = "open" /\ ~Closing(c)
        /\ \A h \in Users : at[h] # "idle" => on[h] # c
      BY <2>1, MayUseFinds
  <2>3. QED
      BY <2>1, <2>2 DEF Orderly, Closing
<1>6. ASSUME NEW g \in Users, Loads(g) PROVE Orderly'
  <2>1. at[g] = "tested" /\ UNCHANGED <<kind, mode, conn, keeps, closing, on>>
      BY <1>6 DEF Loads
  <2>2. conn[on[g]] = "open" /\ on[g] \in Conns /\ mode[on[g]] # "pooled"
      BY <2>1 DEF Orderly, Shapes, UserShape
  <2>3. keeps[on[g]] # None
      BY <2>2 DEF Orderly
  <2>4. /\ at' = [at EXCEPT ![g] = "using"]
        /\ has' = [has EXCEPT ![g] = keeps[on[g]]]
      BY <1>6, <2>3 DEF Loads, Works
  <2>5. QED
      BY <2>1, <2>4 DEF Orderly, Closing
<1>7. ASSUME NEW g \in Users, Finishes(g) PROVE Orderly'
    BY <1>7 DEF Finishes, Leaves, Orderly, Closing
<1>8. ASSUME NEW g \in Users, BreaksOff(g) PROVE Orderly'
    BY <1>8 DEF BreaksOff, Orderly, Closing
<1>9. ASSUME NEW k \in Closers, NEW c \in Conns, CloseBegins(k, c) PROVE Orderly'
  <2>1. /\ conn[c] = "open" /\ ~Busy(c) /\ ~Closing(c)
        /\ UNCHANGED <<kind, mode, keeps, at, on, has>>
      BY <1>9 DEF CloseBegins
  <2>2. \A g \in Users : at[g] \in {"tested", "using"} => on[g] # c
      BY <2>1 DEF Busy
  <2>3. CASE keeps[c] = None
    <3>1. conn' = [conn EXCEPT ![c] = "closed"] /\ UNCHANGED closing
        BY <1>9, <2>3 DEF CloseBegins
    <3>2. QED
        BY <2>1, <2>2, <3>1 DEF Orderly, Closing
  <2>4. CASE keeps[c] # None
    <3>1. closing' = [closing EXCEPT ![k] = c] /\ UNCHANGED conn
        BY <1>9, <2>4 DEF CloseBegins
    <3>2. QED
        BY <2>1, <2>2, <3>1 DEF Orderly, Closing
  <2>5. QED
      BY <2>3, <2>4
<1>10. ASSUME NEW k \in Closers, ClosePuts(k) PROVE Orderly'
    BY <1>10 DEF ClosePuts, Orderly, Closing
<1>11. ASSUME NEW k \in Closers, CloseClears(k) PROVE Orderly'
  <2>1. /\ closing[k] \in Conns
        /\ keeps' = [keeps EXCEPT ![closing[k]] = None]
        /\ conn' = [conn EXCEPT ![closing[k]] = "closed"]
        /\ closing' = [closing EXCEPT ![k] = None]
        /\ UNCHANGED <<kind, mode, at, on, has>>
      BY <1>11 DEF CloseClears, Shapes, CloserShape
  <2>2. \A g \in Users : at[g] \in {"tested", "using"} => on[g] # closing[k]
      BY DEF Orderly, Closing
  <2>3. \A l \in Closers : l # k /\ closing[l] # None => closing[l] # closing[k]
      BY <1>a DEF OneCloser
  <2>4. \A g \in Users : at[g] # "idle" => on[g] \in Conns
      BY DEF Shapes, UserShape
  <2>5. ASSUME NEW g \in Users, at[g] \in {"tested", "using"}
        PROVE  conn'[on[g]] = "open" /\ keeps'[on[g]] = keeps[on[g]]
      BY <2>1, <2>2, <2>4, <2>5 DEF Orderly
  <2>6. QED
      BY <2>1, <2>2, <2>3, <2>4, <2>5 DEF Orderly, Closing
<1>12. CASE UNCHANGED <<kind, mode, conn, keeps, at, on, has, closing>>
    BY <1>12 DEF Orderly, Closing
<1>13. CASE ApplyBegins \/ ApplySetsNew \/ GetsNil \/ UNCHANGED vars
    BY <1>12, <1>13 DEF ApplyBegins, ApplySetsNew, GetsNil, vars
<1>14. QED
    BY <1>1, <1>2, <1>3, <1>4, <1>5, <1>6, <1>7, <1>8, <1>9, <1>10, <1>11,
       <1>13 DEF Next

-----------------------------------------------------------------------------
(* One goroutine closes a connection.                                      *)

(* Options that are applied once and keep no object leave Close nothing.   *)
LEMMA OneCloserComes ==
  ASSUME TypeOK, Shapes, Guarded, NEW k \in Closers, NEW c \in Conns,
         CloseBegins(k, c), keeps[c] # None
  PROVE  \A l \in Closers : closing[l] = c => l = k
<1>1. mode[c] # "pooled"
    BY DEF Shapes, ConnShape
<1>2. CASE orderly
    BY <1>2 DEF CloseBegins, Closing
<1>3. CASE kind = "reader" /\ \A l, m \in Closers : l = m
    BY <1>3
<1>4. QED
    BY <1>1, <1>2, <1>3 DEF Guarded, Apart

LEMMA NextOneCloser == IInv /\ Guarded /\ [Next]_vars => OneCloser'
<1> SUFFICES ASSUME IInv, Guarded, [Next]_vars PROVE OneCloser'
    OBVIOUS
<1>0. TypeOK /\ Shapes /\ OneCloser
    BY DEF IInv
<1> USE <1>0, WsFlateAssumption
    DEF fixed, connVars, poolVars, userVars, closeVars, TypeOK
<1>1. ASSUME NEW c \in Conns, OpensPooled(c) PROVE OneCloser'
    BY <1>1 DEF OpensPooled, OneCloser
<1>2. ASSUME NEW c \in Conns, NEW o \in Objs, OpensKept(c, o) PROVE OneCloser'
    BY <1>2 DEF OpensKept, StoresIt, OneCloser
<1>3. CASE UNCHANGED <<keeps, closing>>
    BY <1>3 DEF OneCloser
<1>4. CASE \/ \E g \in Users, c \in Conns, o \in Objs : UsesPooled(g, c, o)
           \/ \E g \in Users, c \in Conns : UsesKept(g, c)
           \/ \E g \in Users, c \in Conns : Tests(g, c)
           \/ \E g \in Users : Loads(g)
           \/ \E g \in Users : Finishes(g)
           \/ \E g \in Users : BreaksOff(g)
    BY <1>3, <1>4 DEF UsesPooled, UsesKept, Tests, Loads, Finishes, BreaksOff
<1>5. ASSUME NEW k \in Closers, NEW c \in Conns, CloseBegins(k, c)
      PROVE  OneCloser'
  <2>1. CASE keeps[c] = None
      BY <1>3, <1>5, <2>1 DEF CloseBegins
  <2>2. CASE keeps[c] # None
    <3>1. \A l \in Closers : closing[l] = c => l = k
        BY <1>5, <2>2, OneCloserComes
    <3>2. closing' = [closing EXCEPT ![k] = c] /\ UNCHANGED keeps
        BY <1>5, <2>2 DEF CloseBegins
    <3>3. QED
        BY <2>2, <3>1, <3>2 DEF OneCloser
  <2>3. QED
      BY <2>1, <2>2
<1>6. ASSUME NEW k \in Closers, ClosePuts(k) PROVE OneCloser'
    BY <1>3, <1>6 DEF ClosePuts
<1>7. ASSUME NEW k \in Closers, CloseClears(k) PROVE OneCloser'
  <2>1. /\ closing[k] \in Conns
        /\ keeps' = [keeps EXCEPT ![closing[k]] = None]
        /\ closing' = [closing EXCEPT ![k] = None]
      BY <1>7 DEF CloseClears, Shapes, CloserShape
  <2>2. QED
      BY <2>1 DEF OneCloser
<1>8. CASE ApplyBegins \/ ApplySetsNew \/ GetsNil \/ UNCHANGED vars
    BY <1>3, <1>8 DEF ApplyBegins, ApplySetsNew, GetsNil, vars
<1>9. QED
    BY <1>1, <1>2, <1>4, <1>5, <1>6, <1>7, <1>8 DEF Next

-----------------------------------------------------------------------------
(* One owner: what may become of an object.                                *)

(* The owners of an object, and where it lies, are as before.              *)
Untouched(x) ==
  /\ pool'[x] = pool[x]
  /\ x \in made' <=> x \in made
  /\ x \in dropped' <=> x \in dropped
  /\ \A c \in Conns : Keeps(c, x)' <=> Keeps(c, x)
  /\ \A g \in Users : Holds(g, x)' <=> Holds(g, x)

LEMMA OwnersStay ==
  ASSUME OneOwner, \A x \in Objs : Untouched(x) PROVE OneOwner'
<1> SUFFICES ASSUME NEW x \in Objs
             PROVE  /\ pool'[x] <= 1
                    /\ pool'[x] > 0 => Unowned(x)'
                    /\ \A c, d \in Conns : Keeps(c, x)' /\ Keeps(d, x)' => c = d
                    /\ \A g, h \in Users : Holds(g, x)' /\ Holds(h, x)' => g = h
                    /\ \A c \in Conns, g \in Users : ~(Keeps(c, x)' /\ Holds(g, x)')
                    /\ x \in dropped' => pool'[x] = 0 /\ Unowned(x)'
                    /\ x \in made' \ dropped' => pool'[x] > 0 \/ ~Unowned(x)'
    BY DEF OneOwner
<1>1. Untouched(x)
    OBVIOUS
<1>2. Unowned(x)' <=> Unowned(x)
    BY <1>1 DEF Untouched, Unowned
<1>3. QED
    BY <1>1, <1>2 DEF OneOwner, Untouched

(* What the pool gives has no owner and did not go with an old pool.       *)
LEMMA FreeObject ==
  ASSUME TypeOK, Shapes, OneOwner, NEW o \in Objs, Gets(o) \/ Makes(o)
  PROVE  /\ Unowned(o) /\ o \notin dropped
         /\ pool'[o] = 0 /\ o \in made'
         /\ \A x \in Objs : x # o => pool'[x] = pool[x] /\ (x \in made' <=> x \in made)
         /\ \A x \in Objs : pool'[x] <= pool[x]
<1>1. CASE Makes(o)
  <2>1. o \notin made /\ pool[o] = 0
      BY <1>1 DEF Makes, TypeOK, Shapes, MadeShape
  <2>2. Unowned(o)
      BY <2>1, WsFlateAssumption DEF Unowned, Keeps, Holds, Shapes, MadeShape
  <2>3. QED
      BY <1>1, <2>1, <2>2 DEF Makes, TypeOK
<1>2. CASE PoolHas(o) /\ pool' = [pool EXCEPT ![o] = @ - 1] /\ UNCHANGED made
  <2>1. pool[o] = 1 /\ Unowned(o) /\ o \notin dropped /\ o \in made
      BY <1>2 DEF PoolHas, OneOwner, TypeOK, Shapes, MadeShape
  <2>2. QED
      BY <1>2, <2>1 DEF TypeOK
<1>3. QED
    BY <1>1, <1>2 DEF Gets

(* It gets one owner, a connection or a message.                           *)
LEMMA OwnerTakes ==
  ASSUME TypeOK, Shapes, OneOwner, NEW o \in Objs, Gets(o) \/ Makes(o),
         dropped' = dropped,
         \A x \in Objs : x # o => /\ \A c \in Conns : Keeps(c, x)' <=> Keeps(c, x)
                                  /\ \A g \in Users : Holds(g, x)' <=> Holds(g, x),
         \/ /\ \E d \in Conns : \A c \in Conns :
                 Keeps(c, o)' <=> Keeps(c, o) \/ c = d
            /\ \A g \in Users : Holds(g, o)' <=> Holds(g, o)
         \/ /\ \E h \in Users : \A g \in Users :
                 Holds(g, o)' <=> Holds(g, o) \/ g = h
            /\ \A c \in Conns : Keeps(c, o)' <=> Keeps(c, o)
  PROVE  OneOwner'
<1>0. /\ Unowned(o) /\ o \notin dropped
      /\ pool'[o] = 0 /\ o \in made'
      /\ \A x \in Objs : x # o => pool'[x] = pool[x] /\ (x \in made' <=> x \in made)
    BY FreeObject
<1> SUFFICES ASSUME NEW x \in Objs
             PROVE  /\ pool'[x] <= 1
                    /\ pool'[x] > 0 => Unowned(x)'
                    /\ \A c, d \in Conns : Keeps(c, x)' /\ Keeps(d, x)' => c = d
                    /\ \A g, h \in Users : Holds(g, x)' /\ Holds(h, x)' => g = h
                    /\ \A c \in Conns, g \in Users : ~(Keeps(c, x)' /\ Holds(g, x)')
                    /\ x \in dropped' => pool'[x] = 0 /\ Unowned(x)'
                    /\ x \in made' \ dropped' => pool'[x] > 0 \/ ~Unowned(x)'
    BY DEF OneOwner
<1>1. CASE x # o
  <2>1. Untouched(x)
      BY <1>0, <1>1 DEF Untouched
  <2>2. Unowned(x)' <=> Unowned(x)
      BY <2>1 DEF Untouched, Unowned
  <2>3. QED
      BY <2>1, <2>2 DEF OneOwner, Untouched
<1>2. CASE x = o
  <2>1. /\ ~(0 > 0) /\ 0 <= 1
        /\ ~Unowned(o)'
      BY <1>0 DEF Unowned
  <2>2. QED
      BY <1>0, <1>2, <2>1 DEF Unowned
<1>3. QED
    BY <1>1, <1>2

(* Its owner gives it back.                                                *)
LEMMA OwnerGives ==
  ASSUME TypeOK, OneOwner, NEW o \in Objs, ~Unowned(o),
         pool' = [pool EXCEPT ![o] = @ + 1], UNCHANGED <<made, dropped>>,
         \A x \in Objs : x # o => /\ \A c \in Conns : Keeps(c, x)' <=> Keeps(c, x)
                                  /\ \A g \in Users : Holds(g, x)' <=> Holds(g, x),
         Unowned(o)'
  PROVE  OneOwner'
<1>0. /\ pool[o] = 0 /\ o \notin dropped
      /\ pool'[o] = 1
      /\ \A x \in Objs : x # o => pool'[x] = pool[x]
  <2>1. pool[o] = 0 /\ o \notin dropped
      BY DEF OneOwner, TypeOK
  <2>2. QED
      BY <2>1 DEF TypeOK
<1> SUFFICES ASSUME NEW x \in Objs
             PROVE  /\ pool'[x] <= 1
                    /\ pool'[x] > 0 => Unowned(x)'
                    /\ \A c, d \in Conns : Keeps(c, x)' /\ Keeps(d, x)' => c = d
                    /\ \A g, h \in Users : Holds(g, x)' /\ Holds(h, x)' => g = h
                    /\ \A c \in Conns, g \in Users : ~(Keeps(c, x)' /\ Holds(g, x)')
                    /\ x \in dropped' => pool'[x] = 0 /\ Unowned(x)'
                    /\ x \in made' \ dropped' => pool'[x] > 0 \/ ~Unowned(x)'
    BY DEF OneOwner
<1>1. CASE x # o
  <2>1. Untouched(x)
      BY <1>0, <1>1 DEF Untouched
  <2>2. Unowned(x)' <=> Unowned(x)
      BY <2>1 DEF Untouched, Unowned
  <2>3. QED
      BY <2>1, <2>2 DEF OneOwner, Untouched
<1>2. CASE x = o
  <2>1. /\ 1 > 0 /\ 1 <= 1
      OBVIOUS
  <2>2. QED
      BY <1>0, <1>2, <2>1 DEF Unowned
<1>3. QED
    BY <1>1, <1>2

LEMMA InitGuarded == Init => OneCloser /\ OneOwner
<1> SUFFICES ASSUME Init PROVE OneCloser /\ OneOwner
    OBVIOUS
<1>1. OneCloser
    BY WsFlateAssumption DEF Init, OneCloser
<1>2. \A o \in Objs : Unowned(o) /\ pool[o] = 0
    BY WsFlateAssumption DEF Init, Unowned, Keeps, Holds
<1>3. OneOwner
    BY <1>2 DEF Init, OneOwner, Unowned
<1>4. QED
    BY <1>1, <1>3

-----------------------------------------------------------------------------
(* One owner: what the steps do to it.                                     *)

(* A message that takes an object from the pool gives it back.             *)
LEMMA PooledIsPooled ==
  ASSUME IInv, Guarded, NEW c \in Conns, MayUse(c), FromPool(c)
  PROVE  mode[c] = "pooled"
<1>1. CASE kind # "writer"
    BY <1>1 DEF FromPool
<1>2. CASE kind = "writer" /\ orderly
    BY <1>2 DEF IInv, Orderly, MayUse, FromPool
<1>3. CASE kind = "writer" /\ ~orderly
    BY <1>3 DEF Guarded, Apart
<1>4. QED
    BY <1>1, <1>2, <1>3

LEMMA GivesWhatItTook ==
  ASSUME IInv, Guarded, NEW g \in Users, at[g] = "using"
  PROVE  GivesBack(g) <=> mode[on[g]] = "pooled"
<1>0. on[g] \in Conns /\ has[g] # None
    BY DEF IInv, Shapes, UserShape
<1>1. CASE kind # "writer"
    BY <1>1 DEF GivesBack
<1>2. CASE kind = "writer" /\ mode[on[g]] = "pooled"
    BY <1>0, <1>2 DEF GivesBack, IInv, Shapes, ConnShape
<1>3. CASE kind = "writer" /\ mode[on[g]] # "pooled"
  <2>1. orderly
      BY <1>0, <1>3 DEF Guarded, Apart
  <2>2. has[g] = keeps[on[g]]
      BY <1>3, <2>1 DEF IInv, Orderly
  <2>3. QED
      BY <1>3, <2>2 DEF GivesBack
<1>4. QED
    BY <1>1, <1>2, <1>3

LEMMA NextOneOwner == IInv /\ Guarded /\ [Next]_vars => OneOwner'
<1> SUFFICES ASSUME IInv, Guarded, [Next]_vars PROVE OneOwner'
    OBVIOUS
<1>0. TypeOK /\ Shapes /\ OneCloser /\ OneOwner
    BY DEF IInv
<1>a. ASSUME UNCHANGED <<pool, made, dropped>>,
             \A x \in Objs : /\ \A c \in Conns : Keeps(c, x)' <=> Keeps(c, x)
                             /\ \A g \in Users : Holds(g, x)' <=> Holds(g, x)
      PROVE  OneOwner'
  <2>1. \A x \in Objs : Untouched(x)
      BY <1>a DEF Untouched
  <2>2. QED
      BY <1>0, <2>1, OwnersStay
<1>b. ASSUME UNCHANGED <<keeps, closing, closeAt>>
      PROVE  \A x \in Objs, c \in Conns : Keeps(c, x)' <=> Keeps(c, x)
    BY <1>b DEF Keeps, PutFor
<1>c. ASSUME UNCHANGED <<has, at, on, mode>>
      PROVE  \A x \in Objs, g \in Users : Holds(g, x)' <=> Holds(g, x)
    BY <1>c DEF Holds
<1> USE <1>0, WsFlateAssumption DEF fixed, connVars, poolVars, userVars, closeVars
<1>1. ASSUME NEW c \in Conns, OpensPooled(c) PROVE OneOwner'
    BY <1>1, <1>a, <1>b, <1>c DEF OpensPooled
<1>2. ASSUME NEW c \in Conns, NEW o \in Objs, OpensKept(c, o) PROVE OneOwner'
  <2>1. /\ Gets(o) \/ Makes(o)
        /\ keeps' = [keeps EXCEPT ![c] = o] /\ conn[c] = "new"
        /\ UNCHANGED <<dropped, has, at, on, mode, closing, closeAt>>
      BY <1>2 DEF OpensKept, StoresIt
  <2>2. keeps[c] = None /\ ~PutFor(c) /\ \A d \in Conns : PutFor(d)' <=> PutFor(d)
      BY <2>1 DEF PutFor, Shapes, ConnShape, CloserShape
  <2>3. \A x \in Objs, d \in Conns : x # o => (Keeps(d, x)' <=> Keeps(d, x))
      BY <2>1, <2>2 DEF Keeps, TypeOK
  <2>4. \A d \in Conns : Keeps(d, o)' <=> Keeps(d, o) \/ d = c
      BY <2>1, <2>2 DEF Keeps, TypeOK
  <2>5. \A x \in Objs, g \in Users : Holds(g, x)' <=> Holds(g, x)
      BY <2>1, <1>c
  <2>6. QED
      BY <2>1, <2>3, <2>4, <2>5, OwnerTakes
<1>3. ASSUME NEW g \in Users, NEW c \in Conns, NEW o \in Objs, UsesPooled(g, c, o)
      PROVE  OneOwner'
  <2>1. /\ Gets(o) /\ MayUse(c) /\ FromPool(c) /\ at[g] = "idle"
        /\ at' = [at EXCEPT ![g] = "using"] /\ on' = [on EXCEPT ![g] = c]
        /\ has' = [has EXCEPT ![g] = o]
        /\ UNCHANGED <<dropped, mode, keeps, closing, closeAt>>
      BY <1>3 DEF UsesPooled, Begins, Works
  <2>2. mode[c] = "pooled"
      BY <2>1, PooledIsPooled
  <2>3. \A x \in Objs, h \in Users : x # o => (Holds(h, x)' <=> Holds(h, x))
      BY <2>1 DEF Holds, TypeOK
  <2>4. \A h \in Users : Holds(h, o)' <=> Holds(h, o) \/ h = g
      BY <2>1, <2>2 DEF Holds, TypeOK
  <2>5. \A x \in Objs, d \in Conns : Keeps(d, x)' <=> Keeps(d, x)
      BY <2>1, <1>b
  <2>6. QED
      BY <2>1, <2>3, <2>4, <2>5, OwnerTakes
<1>4. ASSUME NEW g \in Users, NEW c \in Conns, UsesKept(g, c) PROVE OneOwner'
  <2>1. /\ at[g] = "idle" /\ on' = [on EXCEPT ![g] = c] /\ mode[c] # "pooled"
        /\ UNCHANGED <<pool, made, dropped, mode, keeps, closing, closeAt>>
      BY <1>4 DEF UsesKept, Begins
  <2>2. \/ UNCHANGED <<at, has>>
        \/ /\ at' = [at EXCEPT ![g] = "using"]
           /\ has' = [has EXCEPT ![g] = keeps[c]]
      BY <1>4 DEF UsesKept, Works
  <2>3. \A x \in Objs, h \in Users : Holds(h, x)' <=> Holds(h, x)
      BY <2>1, <2>2 DEF Holds, TypeOK
  <2>4. QED
      BY <2>1, <2>3, <1>a, <1>b
<1>5. ASSUME NEW g \in Users, NEW c \in Conns, Tests(g, c) PROVE OneOwner'
  <2>1. /\ at[g] = "idle" /\ at' = [at EXCEPT ![g] = "tested"]
        /\ on' = [on EXCEPT ![g] = c]
        /\ UNCHANGED <<pool, made, dropped, has, mode, keeps, closing, closeAt>>
      BY <1>5 DEF Tests, Begins
  <2>2. \A x \in Objs, h \in Users : Holds(h, x)' <=> Holds(h, x)
      BY <2>1 DEF Holds, TypeOK
  <2>3. QED
      BY <2>1, <2>2, <1>a, <1>b
<1>6. ASSUME NEW g \in Users, Loads(g) PROVE OneOwner'
  <2>1. /\ at[g] = "tested" /\ mode[on[g]] # "pooled"
        /\ UNCHANGED <<pool, made, dropped, on, mode, keeps, closing, closeAt>>
      BY <1>6 DEF Loads, Shapes, UserShape
  <2>2. \/ UNCHANGED <<at, has>>
        \/ /\ at' = [at EXCEPT ![g] = "using"]
           /\ has' = [has EXCEPT ![g] = keeps[on[g]]]
      BY <1>6 DEF Loads, Works
  <2>3. \A x \in Objs, h \in Users : Holds(h, x)' <=> Holds(h, x)
      BY <2>1, <2>2 DEF Holds, TypeOK
  <2>4. QED
      BY <2>1, <2>3, <1>a, <1>b
<1>7. ASSUME NEW g \in Users, Finishes(g) PROVE OneOwner'
  <2>0. at[g] = "using" /\ has[g] \in Objs
      BY <1>7 DEF Finishes, Shapes, UserShape, TypeOK
  <2> PICK o \in Objs : o = has[g]
      BY <2>0
  <2>1. /\ at[g] = "using" /\ o = has[g]
        /\ at' = [at EXCEPT ![g] = "idle"] /\ on' = [on EXCEPT ![g] = None]
        /\ has' = [has EXCEPT ![g] = None]
        /\ UNCHANGED <<dropped, mode, keeps, closing, closeAt>>
      BY <1>7, <2>0 DEF Finishes, Leaves
  <2>2. \A x \in Objs : /\ ~Holds(g, x)'
                        /\ \A h \in Users : h # g => (Holds(h, x)' <=> Holds(h, x))
      BY <2>1 DEF Holds, TypeOK
  <2>3. \A x \in Objs, d \in Conns : Keeps(d, x)' <=> Keeps(d, x)
      BY <2>1, <1>b
  <2>4. CASE mode[on[g]] = "pooled"
    <3>1. GivesBack(g)
        BY <2>1, <2>4, GivesWhatItTook
    <3>2. pool' = [pool EXCEPT ![o] = @ + 1] /\ UNCHANGED <<made, dropped>>
        BY <1>7, <2>1, <3>1 DEF Finishes, Puts
    <3>3. Holds(g, o) /\ ~Unowned(o)
        BY <2>1, <2>4 DEF Holds, Unowned
    <3>4. \A x \in Objs : x # o => \A h \in Users : Holds(h, x)' <=> Holds(h, x)
        BY <2>1, <2>2 DEF Holds
    <3>5. Unowned(o)'
        BY <2>1, <2>2, <2>3, <3>3 DEF Unowned, OneOwner
    <3>6. QED
        BY <2>1, <2>3, <3>2, <3>3, <3>4, <3>5, OwnerGives
  <2>5. CASE mode[on[g]] # "pooled"
    <3>1. UNCHANGED <<pool, made, dropped>>
        BY <1>7, <2>1, <2>5, GivesWhatItTook DEF Finishes
    <3>2. \A x \in Objs : ~Holds(g, x)
        BY <2>5 DEF Holds
    <3>3. \A x \in Objs, h \in Users : Holds(h, x)' <=> Holds(h, x)
        BY <2>2, <3>2
    <3>4. QED
        BY <2>3, <3>1, <3>3, <1>a
  <2>6. QED
      BY <2>4, <2>5
<1>8. ASSUME NEW g \in Users, BreaksOff(g) PROVE OneOwner'
  <2>1. /\ at[g] = "using" /\ at' = [at EXCEPT ![g] = "over"]
        /\ UNCHANGED <<pool, made, dropped, has, on, mode, keeps, closing, closeAt>>
      BY <1>8 DEF BreaksOff
  <2>2. \A x \in Objs, h \in Users : Holds(h, x)' <=> Holds(h, x)
      BY <2>1 DEF Holds, TypeOK
  <2>3. QED
      BY <2>1, <2>2, <1>a, <1>b
<1>9. ASSUME NEW k \in Closers, NEW c \in Conns, CloseBegins(k, c) PROVE OneOwner'
  <2>1. /\ closeAt[k] = "idle" /\ closing[k] = None
        /\ \/ UNCHANGED <<closeAt, closing>>
           \/ /\ closeAt' = [closeAt EXCEPT ![k] = "found"]
              /\ closing' = [closing EXCEPT ![k] = c]
        /\ UNCHANGED <<pool, made, dropped, has, at, on, mode, keeps>>
      BY <1>9 DEF CloseBegins, Shapes, CloserShape
  <2>2. \A d \in Conns : PutFor(d)' <=> PutFor(d)
      BY <2>1 DEF PutFor, TypeOK
  <2>3. \A x \in Objs, d \in Conns : Keeps(d, x)' <=> Keeps(d, x)
      BY <2>1, <2>2 DEF Keeps
  <2>4. QED
      BY <2>1, <2>3, <1>a, <1>c
<1>10. ASSUME NEW k \in Closers, ClosePuts(k) PROVE OneOwner'
  <2>0. closing[k] \in Conns /\ keeps[closing[k]] \in Objs
      BY <1>10 DEF ClosePuts, OneCloser, Shapes, CloserShape, TypeOK
  <2> PICK c \in Conns, o \in Objs : c = closing[k] /\ o = keeps[c]
      BY <2>0
  <2>1. /\ c = closing[k] /\ closeAt[k] = "found" /\ keeps[c] = o
        /\ UNCHANGED <<dropped, has, at, on, mode, keeps, closing>>
      BY <1>10 DEF ClosePuts
  <2>2. o # None
      OBVIOUS
  <2>3. /\ pool' = [pool EXCEPT ![o] = @ + 1] /\ UNCHANGED made
        /\ closeAt' = [closeAt EXCEPT ![k] = "put"]
      BY <1>10, <2>1, <2>2 DEF ClosePuts, Puts
  <2>4. \A l \in Closers : closing[l] = c => l = k
      BY <2>1 DEF OneCloser
  <2>5. ~PutFor(c) /\ PutFor(c)'
      BY <2>1, <2>3, <2>4 DEF PutFor, TypeOK
  <2>6. \A d \in Conns : d # c => (PutFor(d)' <=> PutFor(d))
      BY <2>1, <2>3 DEF PutFor, TypeOK
  <2>7. Keeps(c, o) /\ ~Unowned(o)
      BY <2>1, <2>5 DEF Keeps, Unowned
  <2>8. \A x \in Objs, d \in Conns : ~Keeps(c, x)' /\ (d # c => (Keeps(d, x)' <=> Keeps(d, x)))
      BY <2>1, <2>5, <2>6 DEF Keeps
  <2>9. \A x \in Objs, d \in Conns : x # o => (Keeps(d, x)' <=> Keeps(d, x))
      BY <2>1, <2>8 DEF Keeps
  <2>10. \A x \in Objs, g \in Users : Holds(g, x)' <=> Holds(g, x)
      BY <2>1, <1>c
  <2>11. Unowned(o)'
      BY <2>1, <2>2, <2>7, <2>8, <2>10 DEF Unowned, OneOwner
  <2>12. QED
      BY <2>1, <2>2, <2>3, <2>7, <2>9, <2>10, <2>11, OwnerGives
<1>11. ASSUME NEW k \in Closers, CloseClears(k) PROVE OneOwner'
  <2>0. closing[k] \in Conns
      BY <1>11 DEF CloseClears, Shapes, CloserShape, TypeOK
  <2> PICK c \in Conns : c = closing[k]
      BY <2>0
  <2>1. /\ c = closing[k] /\ closeAt[k] = "put"
        /\ keeps' = [keeps EXCEPT ![c] = None]
        /\ closeAt' = [closeAt EXCEPT ![k] = "idle"]
        /\ closing' = [closing EXCEPT ![k] = None]
        /\ UNCHANGED <<pool, made, dropped, has, at, on, mode>>
      BY <1>11 DEF CloseClears
  <2>2. PutFor(c)
      BY <2>1 DEF PutFor
  <2>3. \A d \in Conns : d # c => (PutFor(d)' <=> PutFor(d))
      BY <2>1 DEF PutFor, TypeOK
  <2>4. keeps'[c] = None /\ \A d \in Conns : d # c => keeps'[d] = keeps[d]
      BY <2>1 DEF TypeOK
  <2>5. \A x \in Objs, d \in Conns : Keeps(d, x)' <=> Keeps(d, x)
      BY <2>2, <2>3, <2>4 DEF Keeps
  <2>6. QED
      BY <2>1, <2>5, <1>a, <1>c
<1>12. CASE ApplyBegins
  <2>1. /\ dropped = {} /\ dropped' = {x \in Objs : pool[x] > 0}
        /\ pool' = [x \in Objs |-> 0]
        /\ UNCHANGED <<made, has, at, on, mode, keeps, closing, closeAt>>
      BY <1>12 DEF ApplyBegins, PoolHas, Shapes, MadeShape
  <2>2. \A x \in Objs, c \in Conns : Keeps(c, x)' <=> Keeps(c, x)
      BY <2>1, <1>b
  <2>3. \A x \in Objs, g \in Users : Holds(g, x)' <=> Holds(g, x)
      BY <2>1, <1>c
  <2>4. \A x \in Objs : Unowned(x)' <=> Unowned(x)
      BY <2>2, <2>3 DEF Unowned
  <2>5. \A x \in Objs : pool'[x] = 0
      BY <2>1
  <2>6. \A x \in Objs : x \in dropped' <=> pool[x] > 0
      BY <2>1
  <2>7. made' = made
      BY <2>1
  <2>8. QED
      BY <2>1, <2>2, <2>3, <2>4, <2>5, <2>6, <2>7 DEF OneOwner
<1>13. CASE ApplySetsNew \/ GetsNil \/ UNCHANGED vars
  <2>1. UNCHANGED <<pool, made, dropped, has, at, on, mode, keeps, closing, closeAt>>
      BY <1>13 DEF ApplySetsNew, GetsNil, vars
  <2>2. QED
      BY <2>1, <1>a, <1>b, <1>c
<1>14. QED
    BY <1>1, <1>2, <1>3, <1>4, <1>5, <1>6, <1>7, <1>8, <1>9, <1>10, <1>11,
       <1>12, <1>13 DEF Next

-----------------------------------------------------------------------------
(* Whom an object is bound to.                                             *)

(* What a message works with is its own, or its connection's.              *)
LEMMA UsingOwns ==
  ASSUME IInv, Apart, NEW g \in Users, at[g] = "using"
  PROVE  /\ has[g] \in Objs /\ on[g] \in Conns
         /\ \/ Holds(g, has[g])
            \/ orderly /\ Keeps(on[g], has[g]) /\ ~Closing(on[g])
<1>1. has[g] \in Objs /\ on[g] \in Conns
    BY DEF IInv, Shapes, UserShape, TypeOK
<1>2. CASE mode[on[g]] = "pooled"
    BY <1>1, <1>2 DEF Holds
<1>3. CASE mode[on[g]] # "pooled"
  <2>1. orderly
      BY <1>1, <1>3 DEF Apart
  <2>2. has[g] = keeps[on[g]] /\ ~Closing(on[g])
      BY <1>3, <2>1 DEF IInv, Orderly
  <2>3. QED
      BY <1>1, <2>1, <2>2 DEF Keeps, PutFor, Closing
<1>4. QED
    BY <1>2, <1>3, <1>1

(* No two messages work with the same object, nor is it in the pool.       *)
LEMMA UsingAlone ==
  ASSUME IInv, Apart, NEW g \in Users, at[g] = "using"
  PROVE  /\ has[g] \in Objs /\ pool[has[g]] = 0 /\ ~Unowned(has[g])
         /\ \A h \in Users : at[h] = "using" /\ has[h] = has[g] => h = g
<1>1. OneOwner /\ TypeOK
    BY DEF IInv, Guarded
<1>2. /\ has[g] \in Objs /\ on[g] \in Conns
      /\ \/ Holds(g, has[g])
         \/ orderly /\ Keeps(on[g], has[g]) /\ ~Closing(on[g])
    BY UsingOwns
<1>3. ~Unowned(has[g])
    BY <1>2 DEF Unowned
<1>4. pool[has[g]] = 0
    BY <1>1, <1>2, <1>3 DEF OneOwner, TypeOK
<1>5. ASSUME NEW h \in Users, at[h] = "using", has[h] = has[g] PROVE h = g
  <2>1. /\ on[h] \in Conns
        /\ Holds(h, has[g]) \/ (orderly /\ Keeps(on[h], has[g]))
      BY <1>5, UsingOwns
  <2>2. CASE Holds(g, has[g])
      BY <1>1, <1>2, <2>1, <2>2 DEF OneOwner
  <2>3. CASE orderly /\ Keeps(on[g], has[g])
    <3>1. on[h] = on[g]
        BY <1>1, <1>2, <2>1, <2>3 DEF OneOwner
    <3>2. QED
        BY <1>5, <2>3, <3>1 DEF IInv, Orderly
  <2>4. QED
      BY <1>2, <2>2, <2>3
<1>6. QED
    BY <1>2, <1>3, <1>4, <1>5

(* What a connection keeps is worked with on that connection only.         *)
LEMMA KeptIsFree ==
  ASSUME IInv, Apart, NEW c \in Conns, keeps[c] # None, ~PutFor(c)
  PROVE  /\ keeps[c] \in Objs /\ pool[keeps[c]] = 0
         /\ \A h \in Users : at[h] = "using" /\ has[h] = keeps[c] =>
              on[h] = c /\ ~Closing(c)
<1>1. OneOwner /\ TypeOK
    BY DEF IInv, Guarded
<1>2. keeps[c] \in Objs /\ Keeps(c, keeps[c])
    BY <1>1 DEF TypeOK, Keeps
<1>3. pool[keeps[c]] = 0
    BY <1>1, <1>2 DEF OneOwner, TypeOK, Unowned
<1>4. ASSUME NEW h \in Users, at[h] = "using", has[h] = keeps[c]
      PROVE  on[h] = c /\ ~Closing(c)
  <2>1. /\ on[h] \in Conns
        /\ \/ Holds(h, keeps[c])
           \/ orderly /\ Keeps(on[h], keeps[c]) /\ ~Closing(on[h])
      BY <1>4, UsingOwns
  <2>2. ~Holds(h, keeps[c])
      BY <1>1, <1>2 DEF OneOwner
  <2>3. on[h] = c
      BY <1>1, <1>2, <2>1, <2>2 DEF OneOwner
  <2>4. QED
      BY <2>1, <2>2, <2>3
<1>5. QED
    BY <1>2, <1>3, <1>4

LEMMA NextBounds ==
  IInv /\ [Next]_vars => BoundToUser' /\ PoolRefersToNobody'
<1> SUFFICES ASSUME IInv, [Next]_vars, Apart'
             PROVE  /\ ~crashed'
                    /\ \A h \in Users : at'[h] = "using" => bound'[has'[h]] = h
                    /\ \A x \in Objs : pool'[x] > 0 => bound'[x] = None
    BY DEF BoundToUser, PoolRefersToNobody, PoolHas
<1> DEFINE Bounds == /\ ~crashed'
                     /\ \A h \in Users : at'[h] = "using" => bound'[has'[h]] = h
                     /\ \A x \in Objs : pool'[x] > 0 => bound'[x] = None
<1>a. Apart /\ TypeOK /\ Shapes /\ OneOwner /\ OneCloser
    BY ApartStays DEF IInv, Guarded
<1>b. /\ ~crashed
      /\ \A h \in Users : at[h] = "using" => bound[has[h]] = h
      /\ \A x \in Objs : pool[x] > 0 => bound[x] = None
    BY <1>a DEF IInv, BoundToUser, PoolRefersToNobody, PoolHas
<1>c. \A g \in Users : at[g] = "using" =>
        /\ has[g] \in Objs /\ pool[has[g]] = 0 /\ ~Unowned(has[g])
        /\ \A h \in Users : at[h] = "using" /\ has[h] = has[g] => h = g
    BY <1>a, UsingAlone
<1>d. \A c \in Conns : mode[c] # "pooled" => orderly /\ Orderly
    BY <1>a DEF Apart, IInv
<1>e. ASSUME UNCHANGED <<pool, bound, at, has, crashed>> PROVE Bounds
    BY <1>b, <1>e
<1> USE WsFlateAssumption DEF fixed, connVars, poolVars, userVars, closeVars
<1>1. ASSUME NEW c \in Conns, OpensPooled(c) PROVE Bounds
    BY <1>1, <1>e DEF OpensPooled
<1>2. ASSUME NEW c \in Conns, NEW o \in Objs, OpensKept(c, o) PROVE Bounds
  <2>1. /\ Gets(o) \/ Makes(o)
        /\ bound' = [bound EXCEPT ![o] = None] /\ UNCHANGED <<at, has, crashed>>
      BY <1>2 DEF OpensKept, Unbound
  <2>2. /\ Unowned(o) /\ pool'[o] = 0
        /\ \A x \in Objs : x # o => pool'[x] = pool[x]
      BY <1>a, <2>1, FreeObject
  <2>3. QED
      BY <1>a, <1>b, <1>c, <2>1, <2>2 DEF TypeOK
<1>3. ASSUME NEW g \in Users, NEW c \in Conns, NEW o \in Objs, UsesPooled(g, c, o)
      PROVE  Bounds
  <2>1. /\ Gets(o) /\ UNCHANGED crashed
        /\ at' = [at EXCEPT ![g] = "using"] /\ has' = [has EXCEPT ![g] = o]
        /\ bound' = [bound EXCEPT ![o] = g]
      BY <1>3 DEF UsesPooled, Works, BoundTo
  <2>2. /\ Unowned(o) /\ pool'[o] = 0
        /\ \A x \in Objs : x # o => pool'[x] = pool[x]
      BY <1>a, <2>1, FreeObject
  <2>3. QED
      BY <1>a, <1>b, <1>c, <2>1, <2>2 DEF TypeOK
<1>x. ASSUME NEW g \in Users, NEW o \in Objs, Works(g, o), UNCHANGED <<pool, crashed>>,
             pool[o] = 0,
             \A h \in Users : at[h] = "using" /\ has[h] = o => h = g
      PROVE  Bounds
  <2>1. /\ at' = [at EXCEPT ![g] = "using"] /\ has' = [has EXCEPT ![g] = o]
        /\ bound' = [bound EXCEPT ![o] = g]
      BY <1>x DEF Works, BoundTo
  <2>2. QED
      BY <1>a, <1>b, <1>c, <1>x, <2>1 DEF TypeOK
<1>4. ASSUME NEW g \in Users, NEW c \in Conns, UsesKept(g, c) PROVE Bounds
  <2>1. mode[c] # "pooled" /\ MayUse(c) /\ orderly /\ Orderly
      BY <1>4, <1>d DEF UsesKept, Begins
  <2>2. /\ conn[c] = "open" /\ ~Closing(c)
        /\ \A h \in Users : at[h] # "idle" => on[h] # c
      BY <1>a, <2>1, MayUseFinds
  <2>3. keeps[c] # None /\ ~PutFor(c)
      BY <2>1, <2>2 DEF Orderly, PutFor, Closing
  <2>4. Works(g, keeps[c]) /\ UNCHANGED <<pool, crashed>>
      BY <1>4, <2>3 DEF UsesKept
  <2>5. /\ keeps[c] \in Objs /\ pool[keeps[c]] = 0
        /\ \A h \in Users : at[h] = "using" => has[h] # keeps[c]
      BY <1>a, <2>2, <2>3, KeptIsFree
  <2>6. QED
      BY <1>x, <2>4, <2>5
<1>6. ASSUME NEW g \in Users, Loads(g) PROVE Bounds
  <2>1. /\ at[g] = "tested" /\ on[g] \in Conns /\ mode[on[g]] # "pooled"
      BY <1>6, <1>a DEF Loads, Shapes, UserShape
  <2>2. orderly /\ Orderly
      BY <2>1, <1>d
  <2>3. keeps[on[g]] # None /\ ~PutFor(on[g])
      BY <2>1, <2>2 DEF Orderly, PutFor, Closing
  <2>4. Works(g, keeps[on[g]]) /\ UNCHANGED <<pool, crashed>>
      BY <1>6, <2>3 DEF Loads
  <2>5. /\ keeps[on[g]] \in Objs /\ pool[keeps[on[g]]] = 0
        /\ \A h \in Users : at[h] = "using" /\ has[h] = keeps[on[g]] => on[h] = on[g]
      BY <1>a, <2>1, <2>3, KeptIsFree
  <2>6. \A h \in Users : at[h] = "using" /\ has[h] = keeps[on[g]] => h = g
      BY <2>1, <2>2, <2>5 DEF Orderly
  <2>7. QED
      BY <1>x, <2>4, <2>5, <2>6
<1>7. ASSUME NEW g \in Users, Finishes(g) PROVE Bounds
  <2>1. /\ at[g] = "using" /\ UNCHANGED crashed
        /\ at' = [at EXCEPT ![g] = "idle"] /\ has' = [has EXCEPT ![g] = None]
      BY <1>7 DEF Finishes, Leaves
  <2>2. CASE GivesBack(g)
    <3>1. /\ pool' = [pool EXCEPT ![has[g]] = @ + 1]
          /\ bound' = [bound EXCEPT ![has[g]] = None]
        BY <1>7, <2>2 DEF Finishes, Puts, Unbound
    <3>2. QED
        BY <1>a, <1>b, <1>c, <2>1, <3>1 DEF TypeOK
  <2>3. CASE ~GivesBack(g)
    <3>1. UNCHANGED <<pool, bound>>
        BY <1>7, <2>3 DEF Finishes
    <3>2. QED
        BY <1>a, <1>b, <2>1, <3>1 DEF TypeOK
  <2>4. QED
      BY <2>2, <2>3
<1>8. ASSUME NEW g \in Users, BreaksOff(g) PROVE Bounds
  <2>1. /\ at' = [at EXCEPT ![g] = "over"]
        /\ UNCHANGED <<pool, bound, has, crashed>>
      BY <1>8 DEF BreaksOff
  <2>2. QED
      BY <1>a, <1>b, <2>1 DEF TypeOK
<1>10. ASSUME NEW k \in Closers, ClosePuts(k) PROVE Bounds
  <2>0. closing[k] \in Conns /\ mode[closing[k]] # "pooled"
      BY <1>10, <1>a DEF ClosePuts, Shapes, CloserShape, TypeOK
  <2> PICK c \in Conns : c = closing[k]
      BY <2>0
  <2>1. /\ closeAt[k] = "found" /\ keeps[c] # None /\ Closing(c)
      BY <1>10, <1>a DEF ClosePuts, OneCloser, Closing
  <2>2. ~PutFor(c)
      BY <2>1, <1>a DEF PutFor, OneCloser
  <2>3. /\ keeps[c] \in Objs /\ pool[keeps[c]] = 0
        /\ \A h \in Users : at[h] = "using" => has[h] # keeps[c]
      BY <1>a, <2>1, <2>2, KeptIsFree
  <2>4. /\ pool' = [pool EXCEPT ![keeps[c]] = @ + 1]
        /\ bound' = [bound EXCEPT ![keeps[c]] = None]
        /\ UNCHANGED <<at, has, crashed>>
      BY <1>10, <2>1 DEF ClosePuts, Puts, Unbound
  <2>5. QED
      BY <1>a, <1>b, <1>c, <2>3, <2>4 DEF TypeOK
<1>12. CASE ApplyBegins
    BY <1>12, <1>b DEF ApplyBegins
<1>13. CASE GetsNil
    BY <1>13, <1>a DEF GetsNil, HasNew, Apart
<1>14. CASE \/ \E g \in Users, c \in Conns : Tests(g, c)
            \/ \E k \in Closers, c \in Conns : CloseBegins(k, c)
            \/ \E k \in Closers : CloseClears(k)
            \/ ApplySetsNew \/ UNCHANGED vars
  <2>1. CASE \E g \in Users, c \in Conns : Tests(g, c)
    <3>1. PICK g \in Users, c \in Conns : Tests(g, c)
        BY <2>1
    <3>2. at' = [at EXCEPT ![g] = "tested"] /\ UNCHANGED <<pool, bound, has, crashed>>
        BY <3>1 DEF Tests
    <3>3. QED
        BY <1>a, <1>b, <3>2 DEF TypeOK
  <2>2. CASE \E k \in Closers, c \in Conns : CloseBegins(k, c)
      BY <2>2, <1>e DEF CloseBegins
  <2>3. CASE \/ \E k \in Closers : CloseClears(k)
             \/ ApplySetsNew \/ UNCHANGED vars
      BY <2>3, <1>e DEF CloseClears, ApplySetsNew, vars
  <2>4. QED
      BY <1>14, <2>1, <2>2, <2>3
<1>15. QED
    BY <1>1, <1>2, <1>3, <1>4, <1>6, <1>7, <1>8, <1>10, <1>12, <1>13, <1>14
    DEF Next

-----------------------------------------------------------------------------
(* The invariant.                                                          *)

LEMMA InitIInv == Init => IInv
<1> SUFFICES ASSUME Init PROVE IInv
    OBVIOUS
<1>1. BoundToUser /\ PoolRefersToNobody
    BY DEF Init, BoundToUser, PoolRefersToNobody, PoolHas
<1>2. QED
    BY <1>1, InitTypeOK, InitShapes, InitOrderly, InitGuarded DEF IInv

LEMMA NextKeepsIInv == IInv /\ [Next]_vars => IInv'
<1> SUFFICES ASSUME IInv, [Next]_vars PROVE IInv'
    OBVIOUS
<1>1. TypeOK' /\ Shapes'
    BY NextTypeOK, NextShapes DEF IInv
<1>2. (orderly => Orderly)'
    BY NextOrderly, FixedStays
<1>3. (Guarded => OneCloser /\ OneOwner)'
    BY GuardedStays, NextOneCloser, NextOneOwner
<1>4. QED
    BY <1>1, <1>2, <1>3, NextBounds DEF IInv

LEMMA IInvHolds == Spec => []IInv
  BY InitIInv, NextKeepsIInv, PTL DEF Spec

(* What is counted is what owns.                                           *)
LEMMA PlacesCount ==
  ASSUME TypeOK, Shapes, OneOwner, NEW o \in made
  PROVE  Places(o) = IF o \in dropped THEN 0 ELSE 1
<1>0. /\ o \in Objs /\ pool[o] \in Nat /\ pool[o] <= 1
    BY DEF TypeOK, OneOwner
<1>1. /\ KeptBy(o) = {c \in Conns : Keeps(c, o)}
      /\ HeldBy(o) = {g \in Users : Holds(g, o)}
    BY DEF KeptBy, HeldBy, Keeps, Holds, PutFor
<1>e. Cardinality({}) = 0
    BY FS_EmptySet
<1>2. CASE Unowned(o)
  <2>1. KeptBy(o) = {} /\ HeldBy(o) = {}
      BY <1>1, <1>2 DEF Unowned
  <2>2. pool[o] = IF o \in dropped THEN 0 ELSE 1
      BY <1>0, <1>2 DEF OneOwner
  <2>3. QED
      BY <1>0, <1>e, <2>1, <2>2 DEF Places
<1>3. CASE ~Unowned(o)
  <2>1. pool[o] = 0 /\ o \notin dropped
      BY <1>0, <1>3 DEF OneOwner
  <2>2. CASE \E c \in Conns : Keeps(c, o)
    <3>1. PICK c \in Conns : Keeps(c, o)
        BY <2>2
    <3>2. KeptBy(o) = {c} /\ HeldBy(o) = {}
        BY <1>0, <1>1, <3>1 DEF OneOwner
    <3>3. Cardinality({c}) = 1
        BY FS_Singleton
    <3>4. QED
        BY <1>e, <2>1, <3>2, <3>3 DEF Places
  <2>3. CASE \E g \in Users : Holds(g, o)
    <3>1. PICK g \in Users : Holds(g, o)
        BY <2>3
    <3>2. HeldBy(o) = {g} /\ KeptBy(o) = {}
        BY <1>0, <1>1, <3>1 DEF OneOwner
    <3>3. Cardinality({g}) = 1
        BY FS_Singleton
    <3>4. QED
        BY <1>e, <2>1, <3>2, <3>3 DEF Places
  <2>4. QED
      BY <1>3, <2>2, <2>3 DEF Unowned
<1>4. QED
    BY <1>2, <1>3

LEMMA AtMostOneCloser ==
  ASSUME Cardinality(Closers) <= 1 PROVE \A k, l \in Closers : k = l
<1> SUFFICES ASSUME NEW k \in Closers, NEW l \in Closers, k # l PROVE FALSE
    OBVIOUS
<1>1. IsFiniteSet(Closers)
    BY WsFlateAssumption
<1>2. {k} \subseteq Closers /\ {k} # Closers
    OBVIOUS
<1>3. Cardinality({k}) = 1 /\ Cardinality(Closers) \in Nat
    BY <1>1, FS_Singleton, FS_CardinalityType
<1>4. /\ Cardinality({k}) <= Cardinality(Closers)
      /\ Cardinality(Closers) = Cardinality({k}) => Closers = {k}
  <2>1. {k} \in SUBSET Closers
      OBVIOUS
  <2>2. QED
      BY <1>1, <2>1, FS_Subset
<1>5. QED
    BY <1>2, <1>3, <1>4

-----------------------------------------------------------------------------
(* Objects are objects, goroutines and closers are where the code has      *)
(* places, and what went with an old pool existed.                         *)
THEOREM TypeCorrect == Spec => []TypeOK
  BY IInvHolds, PTL DEF IInv

(* However many connections share the pools, each flate reader and writer  *)
(* is in one place as long as Reads, Writes, Close and Apply are kept      *)
(* apart, or nothing is kept: none is put back twice or handed out twice.  *)
(* A flate reader is put back once even when Close overlaps with Read.     *)
THEOREM AlwaysOnePlace == Spec => []OnePlace
<1>1. IInv => OnePlace
  <2> SUFFICES ASSUME IInv PROVE OnePlace
      OBVIOUS
  <2>1. ASSUME Apart PROVE \A o \in made : Places(o) = IF o \in dropped THEN 0 ELSE 1
      BY <2>1, PlacesCount DEF IInv, Guarded
  <2>2. ASSUME kind = "reader", Cardinality(Closers) <= 1
        PROVE  \A o \in Objs : pool[o] <= 1
      BY <2>2, AtMostOneCloser DEF IInv, Guarded, OneOwner
  <2>3. QED
      BY <2>1, <2>2 DEF OnePlace
<1>2. QED
    BY <1>1, IInvHolds, PTL

(* What a message is compressed or inflated with was last Reset for that   *)
(* message, and no nil object is ever used, as long as the application     *)
(* keeps Reads, Writes, Close and Apply apart or nothing is kept.          *)
THEOREM AlwaysBoundToUser == Spec => []BoundToUser
  BY IInvHolds, PTL DEF IInv

(* Under the same condition, an object that lies in a pool refers to no    *)
(* connection's buffer, whichever of the four ways it came there.          *)
THEOREM PoolAlwaysClean == Spec => []PoolRefersToNobody
  BY IInvHolds, PTL DEF IInv
==============================================================================
