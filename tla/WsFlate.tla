------------------------------- MODULE WsFlate -------------------------------
(***************************************************************************)
(* Who has which flate reader or writer.  All connections of an Options    *)
(* share two pools (websocket/options.go, Apply).  A connection without    *)
(* context takeover takes an object per message; one with it keeps one     *)
(* from newWebsocketTransport to Close (websocket/transport.go).           *)
(*                                                                         *)
(* The two pools do not touch; a behaviour is about one of them, `kind'.   *)
(* An object is known by what its last Reset bound it to.  Reads, Writes   *)
(* and Close run in goroutines of their own and share the persistent       *)
(* object without a lock.  WithOptions calls Apply for every Listen or     *)
(* Connect it is an option of, which replaces the pools under the          *)
(* connections that are open.                                              *)
(***************************************************************************)
EXTENDS Naturals, FiniteSets

CONSTANTS
  Conns,    \* connections of one Options
  Users,    \* goroutines that are in a Read or a Write
  Closers,  \* goroutines that call websocketTransport.Close
  Objs,     \* flate readers, or writers; bound: how many are made
  None,     \* Go's nil, and no connection
  MaxUses   \* bound: messages, on all connections together

ASSUME WsFlateAssumption ==
  /\ None \notin Conns \cup Users \cup Closers \cup Objs
  /\ IsFiniteSet(Closers)
  /\ MaxUses \in Nat

VARIABLES
  kind,     \* "reader" or "writer"
  orderly,  \* the application keeps Reads, Writes and Close apart, see below
  mode,     \* of each connection, what the negotiation led to, see Modes
  conn,     \* "new", "open" or "closed"
  keeps,    \* persistentFlateReader or persistentFlateWriter
  pool,     \* how often each object is in the pool
  made,     \* objects that exist
  bound,    \* what the last Reset of an object bound it to
  at,       \* where each user is: "idle", "tested", "using" or "over"
  on,       \* the connection it is at
  has,      \* the object it has in hand
  closeAt,  \* where each closer is: "idle", "found" or "put"
  closing,  \* the connection it closes
  uses,     \* history: messages so far
  applied,  \* Apply: "once", "again" while it runs once more, or "twice"
  dropped,  \* history: objects that went with a pool that Apply replaced
  crashed   \* a nil object was used

connVars  == <<conn, keeps>>
poolVars  == <<pool, made, bound>>
userVars  == <<at, on, has, uses>>
closeVars == <<closeAt, closing>>
fixed     == <<kind, orderly, mode, applied, dropped>>
vars == <<kind, orderly, mode, conn, keeps, pool, made, bound, at, on, has,
          closeAt, closing, uses, applied, dropped, crashed>>

-----------------------------------------------------------------------------
(* What the handshake has agreed on, and what each side makes of it.       *)

Sides == {"client", "server"}
OtherSide(side) == IF side = "client" THEN "server" ELSE "client"

(* The extension's parameters, by the side whose messages they are about:  *)
(* client_no_context_takeover and client_max_window_bits (0 if there is    *)
(* none, or it is no number), and the server's.                            *)
Terms == [Sides -> [noTakeover : BOOLEAN, windowBits : {0, 15}]]

(* newWebsocketTransport: "pooled", nothing is kept from one message to    *)
(* the next; "kept", an object of the pool is; "window", a writer made for *)
(* the window that was agreed on.  A reader looks at its peer's terms.     *)
ModeFor(k, side, terms) ==
  LET mine == terms[IF k = "writer" THEN side ELSE OtherSide(side)]
  IN  IF mine.noTakeover THEN "pooled"
      ELSE IF k = "writer" /\ mine.windowBits > 0 THEN "window"
      ELSE "kept"

Modes == {ModeFor(kind, side, terms) : side \in Sides, terms \in Terms}

TypeOK ==
  /\ kind \in {"reader", "writer"}
  /\ orderly \in BOOLEAN
  /\ mode \in [Conns -> Modes]
  /\ conn \in [Conns -> {"new", "open", "closed"}]
  /\ keeps \in [Conns -> Objs \cup {None}]
  /\ pool \in [Objs -> Nat]
  /\ made \subseteq Objs
  /\ bound \in [Objs -> Users \cup {None}]
  /\ at \in [Users -> {"idle", "tested", "using", "over"}]
  /\ on \in [Users -> Conns \cup {None}]
  /\ has \in [Users -> Objs \cup {None}]
  /\ closeAt \in [Closers -> {"idle", "found", "put"}]
  /\ closing \in [Closers -> Conns \cup {None}]
  /\ uses \in 0..MaxUses
  /\ applied \in {"once", "again", "twice"}
  /\ dropped \subseteq made
  /\ crashed \in BOOLEAN

Init ==
  /\ kind \in {"reader", "writer"}
  /\ orderly \in BOOLEAN
  /\ mode \in [Conns -> Modes]
  /\ conn = [c \in Conns |-> "new"]
  /\ keeps = [c \in Conns |-> None]
  /\ pool = [o \in Objs |-> 0]
  /\ made = {}
  /\ bound = [o \in Objs |-> None]
  /\ at = [g \in Users |-> "idle"]
  /\ on = [g \in Users |-> None]
  /\ has = [g \in Users |-> None]
  /\ closeAt = [k \in Closers |-> "idle"]
  /\ closing = [k \in Closers |-> None]
  /\ uses = 0
  /\ applied = "once"
  /\ dropped = {}
  /\ crashed = FALSE

-----------------------------------------------------------------------------
(* The pools.                                                              *)

PoolMayHave(o) == pool[o] >= 0
PoolHas(o) == pool[o] > 0

Makes(o) == o \notin made /\ made' = made \cup {o} /\ UNCHANGED pool

(* sync.Pool's Get: something that was put, or something New makes; it may *)
(* have forgotten what was put.  A new pool has no New for a moment.       *)
HasNew == applied # "again"
Gets(o) ==
  \/ PoolHas(o) /\ pool' = [pool EXCEPT ![o] = @ - 1] /\ UNCHANGED made
  \/ HasNew /\ Makes(o)

(* An orderly application does not take from a pool that Apply is making.  *)
MayGet == orderly => HasNew

BoundStill(o, g) == bound
BoundTo(o, g) == [bound EXCEPT ![o] = g]

NotUnbound(o) == bound
Unbound(o) == [bound EXCEPT ![o] = None]

(* Reset(nil), and Put.                                                    *)
Puts(o) ==
  /\ bound' = Unbound(o)
  /\ pool' = [pool EXCEPT ![o] = @ + 1]
  /\ UNCHANGED made

-----------------------------------------------------------------------------
(* newWebsocketTransport: lines 120-182.                                   *)
ForgetsIt(o) == None
StoresIt(o) == o

OpensPooled(c) ==
  /\ ~crashed
  /\ conn[c] = "new"
  /\ mode[c] = "pooled"
  /\ conn' = [conn EXCEPT ![c] = "open"]
  /\ UNCHANGED <<fixed, keeps, poolVars, userVars, closeVars, crashed>>

OpensKept(c, o) ==
  /\ ~crashed
  /\ conn[c] = "new"
  /\ mode[c] # "pooled"
  /\ IF mode[c] = "kept" THEN MayGet /\ Gets(o) ELSE Makes(o)
  /\ bound' = Unbound(o)
  /\ keeps' = [keeps EXCEPT ![c] = StoresIt(o)]
  /\ conn' = [conn EXCEPT ![c] = "open"]
  /\ UNCHANGED <<fixed, userVars, closeVars, crashed>>

-----------------------------------------------------------------------------
(* A message is read or written.                                           *)
Busy(c) == \E g \in Users : on[g] = c /\ at[g] \in {"tested", "using"}
Closing(c) == \E k \in Closers : closing[k] = c

(* A connection has one reader, which does not go on after a failure.  An  *)
(* orderly application uses an open connection only, one goroutine at a    *)
(* time, and does not close it meanwhile.                                  *)
MayUse(c) ==
  /\ conn[c] # "new"
  /\ kind = "reader" => ~Busy(c) /\ \A g \in Users : on[g] = c => at[g] # "over"
  /\ orderly => conn[c] = "open" /\ ~Busy(c) /\ ~Closing(c)

Begins(g, c) ==
  /\ ~crashed
  /\ at[g] = "idle"
  /\ uses < MaxUses
  /\ MayUse(c)
  /\ uses' = uses + 1
  /\ on' = [on EXCEPT ![g] = c]

(* The object is in hand and bound to the message's buffer or frame.       *)
Works(g, o) ==
  /\ at' = [at EXCEPT ![g] = "using"]
  /\ has' = [has EXCEPT ![g] = o]
  /\ bound' = BoundTo(o, g)

(* A message of the connection needs an object from the pool: in           *)
(* writeCompress, line 329, if the connection keeps none; GetFlateReader   *)
(* as line 101 has it.                                                     *)
FromPool(c) ==
  IF kind = "writer" THEN keeps[c] = None ELSE mode[c] = "pooled"

UsesPooled(g, c, o) ==
  /\ Begins(g, c)
  /\ FromPool(c)
  /\ MayGet
  /\ Gets(o)
  /\ Works(g, o)
  /\ UNCHANGED <<fixed, connVars, closeVars, crashed>>

(* GetFlateReader as line 141 overrides it.                                *)
UsesKept(g, c) ==
  /\ Begins(g, c)
  /\ kind = "reader" /\ mode[c] # "pooled"
  /\ IF keeps[c] = None
       THEN crashed' = TRUE /\ UNCHANGED <<at, has, bound>>
       ELSE Works(g, keeps[c]) /\ UNCHANGED crashed
  /\ UNCHANGED <<fixed, connVars, pool, made, closeVars>>

(* writeCompress tests for a persistent writer (line 325), ...             *)
Tests(g, c) ==
  /\ Begins(g, c)
  /\ kind = "writer" /\ keeps[c] # None
  /\ at' = [at EXCEPT ![g] = "tested"]
  /\ UNCHANGED <<fixed, connVars, poolVars, has, closeVars, crashed>>

(* ... and loads it.                                                       *)
Loads(g) ==
  /\ ~crashed
  /\ at[g] = "tested"
  /\ IF keeps[on[g]] = None
       THEN crashed' = TRUE /\ UNCHANGED <<at, has, bound>>
       ELSE Works(g, keeps[on[g]]) /\ UNCHANGED crashed
  /\ UNCHANGED <<fixed, connVars, pool, made, on, uses, closeVars>>

(* Whether the object goes back after the message: the deferred test of    *)
(* writeCompress (line 308); PutFlateReader as lines 106 and 145 have it.  *)
GivesAlways(g) == TRUE
GivesBack(g) ==
  IF kind = "writer" THEN has[g] # keeps[on[g]] ELSE mode[on[g]] = "pooled"

Leaves(g) ==
  /\ has' = [has EXCEPT ![g] = None]
  /\ on' = [on EXCEPT ![g] = None]
  /\ at' = [at EXCEPT ![g] = "idle"]

Finishes(g) ==
  /\ ~crashed
  /\ at[g] = "using"
  /\ IF GivesBack(g) THEN Puts(has[g]) ELSE UNCHANGED poolVars
  /\ Leaves(g)
  /\ UNCHANGED <<fixed, connVars, uses, closeVars, crashed>>

(* Reading breaks off in the middle of a message: FrameReader keeps what   *)
(* it has, and Read is not called again.                                   *)
BreaksOff(g) ==
  /\ ~crashed
  /\ kind = "reader"
  /\ at[g] = "using"
  /\ at' = [at EXCEPT ![g] = "over"]
  /\ UNCHANGED <<fixed, connVars, poolVars, on, has, uses, closeVars, crashed>>

-----------------------------------------------------------------------------
(* websocketTransport.Close: lines 418-431.                                *)
CloseBegins(k, c) ==
  /\ ~crashed
  /\ closeAt[k] = "idle"
  /\ conn[c] # "new"
  /\ orderly => conn[c] = "open" /\ ~Busy(c) /\ ~Closing(c)
  /\ IF keeps[c] = None
       THEN conn' = [conn EXCEPT ![c] = "closed"] /\ UNCHANGED closeVars
       ELSE /\ closeAt' = [closeAt EXCEPT ![k] = "found"]
            /\ closing' = [closing EXCEPT ![k] = c]
            /\ UNCHANGED conn
  /\ UNCHANGED <<fixed, keeps, poolVars, userVars, crashed>>

ClosePuts(k) ==
  /\ ~crashed
  /\ closeAt[k] = "found"
  /\ IF keeps[closing[k]] = None
       THEN crashed' = TRUE /\ UNCHANGED <<poolVars, closeAt>>
       ELSE /\ Puts(keeps[closing[k]])
            /\ closeAt' = [closeAt EXCEPT ![k] = "put"]
            /\ UNCHANGED crashed
  /\ UNCHANGED <<fixed, connVars, userVars, closing>>

CloseClears(k) ==
  /\ ~crashed
  /\ closeAt[k] = "put"
  /\ keeps' = [keeps EXCEPT ![closing[k]] = None]
  /\ conn' = [conn EXCEPT ![closing[k]] = "closed"]
  /\ closeAt' = [closeAt EXCEPT ![k] = "idle"]
  /\ closing' = [closing EXCEPT ![k] = None]
  /\ UNCHANGED <<fixed, poolVars, userVars, crashed>>

-----------------------------------------------------------------------------
(* Options.Apply once more: two new pools, ...  An orderly application     *)
(* does not do it in the middle of a Close.                                *)
ApplyBegins ==
  /\ ~crashed
  /\ applied = "once"
  /\ orderly => \A c \in Conns : ~Closing(c)
  /\ applied' = "again"
  /\ pool' = [o \in Objs |-> 0]
  /\ dropped' = {o \in Objs : PoolHas(o)}
  /\ UNCHANGED <<kind, orderly, mode, connVars, made, bound, userVars, closeVars, crashed>>

(* ... and then their New.                                                 *)
ApplySetsNew ==
  /\ ~crashed
  /\ applied = "again"
  /\ applied' = "twice"
  /\ UNCHANGED <<kind, orderly, mode, dropped, connVars, poolVars, userVars,
                 closeVars, crashed>>

(* A pool without New gives nil when it is empty, which no type assertion  *)
(* accepts.                                                                *)
GetsNil ==
  /\ ~crashed
  /\ ~HasNew /\ ~orderly
  /\ \/ \E c \in Conns : conn[c] = "new" /\ mode[c] = "kept"
     \/ \E g \in Users, c \in Conns :
          at[g] = "idle" /\ uses < MaxUses /\ MayUse(c) /\ FromPool(c)
  /\ crashed' = TRUE
  /\ UNCHANGED <<fixed, connVars, poolVars, userVars, closeVars>>

-----------------------------------------------------------------------------
Next ==
  \/ \E c \in Conns : OpensPooled(c)
  \/ \E c \in Conns, o \in Objs : OpensKept(c, o)
  \/ \E g \in Users, c \in Conns, o \in Objs : UsesPooled(g, c, o)
  \/ \E g \in Users, c \in Conns : UsesKept(g, c)
  \/ \E g \in Users, c \in Conns : Tests(g, c)
  \/ \E g \in Users : Loads(g)
  \/ \E g \in Users : Finishes(g)
  \/ \E g \in Users : BreaksOff(g)
  \/ \E k \in Closers, c \in Conns : CloseBegins(k, c)
  \/ \E k \in Closers : ClosePuts(k)
  \/ \E k \in Closers : CloseClears(k)
  \/ ApplyBegins
  \/ ApplySetsNew
  \/ GetsNil

Spec == Init /\ [][Next]_vars

-----------------------------------------------------------------------------
(* Properties.                                                             *)

(* The two ways to be safe: Reads, Writes and Close of a connection never  *)
(* overlap, nor Apply with what takes from a pool, or no connection keeps  *)
(* an object and the options are not applied again.                        *)
Apart ==
  orderly \/ (applied = "once" /\ \A c \in Conns : mode[c] = "pooled")

(* Where an object is: as often as the pool has it, with connections that  *)
(* keep it (one that Close has just put back is the pool's), and with      *)
(* goroutines or broken FrameReaders that took it from the pool.           *)
KeptBy(o) ==
  {c \in Conns : keeps[c] = o /\ ~\E k \in Closers :
                   closing[k] = c /\ closeAt[k] = "put"}
HeldBy(o) ==
  {g \in Users : has[g] = o /\ at[g] \in {"using", "over"}
                 /\ mode[on[g]] = "pooled"}
Places(o) == pool[o] + Cardinality(KeptBy(o)) + Cardinality(HeldBy(o))

(* Every object is in one place: two messages never share one, none is put *)
(* back twice and none is lost, whichever way the pool passes it from one  *)
(* connection to another, and when Apply replaces the pool.  A flate       *)
(* reader is put back once even when Close overlaps with Read: only Close  *)
(* does it, the reader's own PutFlateReader does nothing (line 145).       *)
OnePlace ==
  /\ Apart => \A o \in made : Places(o) = IF o \in dropped THEN 0 ELSE 1
  /\ kind = "reader" /\ Cardinality(Closers) <= 1 =>
       \A o \in Objs : pool[o] <= 1

(* What a goroutine compresses or inflates with is bound to its own        *)
(* message, whoever used it before (the Resets at lines 103, 142, 327 and  *)
(* 330); neither a closed connection nor one that never had an object of   *)
(* its own makes it use a nil one.                                         *)
BoundToUser ==
  Apart => /\ ~crashed
           /\ \A g \in Users : at[g] = "using" => bound[has[g]] = g

(* What lies in the pool refers to nobody's buffer or connection: it is    *)
(* Reset(nil) first, on each of the four ways into the pool.               *)
PoolRefersToNobody ==
  Apart => \A o \in Objs : PoolHas(o) => bound[o] = None
==============================================================================
