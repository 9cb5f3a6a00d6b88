# go-netty-transport in TLA+

This directory holds TLA+ models of the transports that `go-netty-transport`
adds to go-netty (UDP, WebSocket, KCP, QUIC, TLS), the TLC runs that check them
on small instances, and TLAPS proofs of what matters most for instances of any
size. `PROJECT.json` lists components, runs, mutants, hazards, theorems and, for
each definition that models code, the lines it stands for.

- Check a run: `tlc -config UdpServer.cfg MCUdpServer.tla`
- Check the proofs: `tlapm UdpServerProofs.tla`, and so on for `WsAcceptorProofs`,
  `NetAcceptorsProofs`, `WsReaderProofs`, `WsWriterProofs`, `WsFlateProofs`,
  `WsWireProofs` and `WsDuplexProofs`

## The system and its parts

go-netty runs a channel over a *transport* (a byte or message stream) and gets
transports from a *transport factory*: `Connect` for a client, `Listen` for an
*acceptor* whose `Accept` it calls in a loop. Each channel has a goroutine that
reads its transport; any goroutine may write to it or close it. The
repository implements factory, acceptor and transport for five protocols.

| part | state it keeps | operations | goroutines that meet in it |
|---|---|---|---|
| UDP server, `udp/factory.go`, `udp/transport.go` | map of transports by remote address, channel `incoming`, `closed`; per transport `receivedQueue`, `closed`, `recvPkt` | `mainLoop`, `Accept`, `Close`; `received`, `Read`, `Close` of a transport | mainLoop, the accept loop, every channel's reader, whoever closes |
| UDP client, `udp/transport.go` | none beyond the socket | forwards to `net.UDPConn` | - |
| WebSocket acceptor, `websocket/factory.go` | channel `incoming`, `closedSignal`, `errorChan`, the http server | `Listen`, `upgradeHTTP`, `Accept`, `Close` | a goroutine per HTTP request, the one that serves, the accept loop, whoever closes |
| WebSocket message reader, `websocket/transport.go`, `internal/wsutils/frame_reader.go` | `msgReader`; `State`, `frame`, `raw`, `utf8`, `flateReader`, `opCode` of FrameReader | `Read`, `NextFrame`, `Discard`, `reset`, `resetFragment` | the reader alone |
| WebSocket writer and control answers, `websocket/transport.go`, `internal/wsutils/cipher_handler.go` | `writeLocker`, the write buffer of go-netty's transport | `Write`, `Writev`, `WriteClose`, `Flush`; `HandlePing`, `HandleClose` | writers and the reader |
| WebSocket compression, `websocket/options.go`, `flate_wrapper.go` | the two flate pools of an `Options`, persistent reader and writer per connection, `negotiated` | negotiation, `GetFlateReader`, `PutFlateReader`, `writeCompress`, `Close` | all connections of an `Options` share its pools |
| WebSocket codec, `packHeader`, `ReadHeader`, `FastCipher`, `CipherReader`, `cbuf`, `suffixedReader` | mask position, tail bytes | pure functions and small readers | - |
| QUIC, `quic/internal/quick` | listener, the connection's one stream | `Accept` (two waits), `Close`, `Dial` | accept loop, whoever closes |
| KCP, TLS | the listener | `Accept`, `Close` | accept loop, whoever closes |

How they interact: mainLoop hands a new transport over to the accept loop
through `incoming`, and datagrams to a channel's reader through
`receivedQueue`; both channels are bounded, and a full one holds up the
goroutine that feeds it (`receivedQueue`) or makes it drop (`incoming`).
`upgradeHTTP` hands hijacked connections to the accept loop in the same way;
from the hijack on, net/http does not know them any more. A WebSocket
connection's reader calls into the writing side: it answers Ping and Close
frames, and refuses messages of the wrong type, under the writers' lock. The
reader takes flate readers from a pool that all connections share.

### What is hard, and what has to be right

- **Interleavings around `close`.** Acceptors and UDP transports close a channel
  after looking at it with a `select`; the test and the close are two steps.
  Every child must be closed whoever closes at the same time; no connection may
  have two owners, or none.
- **Bounded channels.** A full channel must not stop what it need not stop, and
  shutting down has to work while it is full.
- **Stale entries.** The map of the UDP server is cleaned only when the next
  datagram finds its transport closed. A peer must never have two open
  transports, and an open transport must stay reachable.
- **Protocol sequences.** Fragments, control frames in the middle of a message,
  messages thrown away, empty frames, compressed messages: `Read` keeps its
  promise about io.EOF only if every reset happens at the right frame.
- **Locks and the network.** A lock is held across writes that may block, and
  across the read of a Ping's payload. Framing must survive concurrent writers;
  an error must not keep the lock.
- **Liveness.** Accept, the handlers and the serving goroutine have to end after
  Close.

Every such place has an entry under `hazards` in `PROJECT.json`, with the
properties that watch it, or with a note that says why none does: mostly because
the model lets it happen, and no source says that it must not.

## Modules

| module | what it is | state and actions, and the code |
|---|---|---|
| `UdpServer` | the whole server half of UDP | `mlPc`, `cur`, `src`, `parked` are mainLoop's position and locals, `transports`, `incoming`, `accClosed` the acceptor's fields, `raddr`, `closed`, `queueClosed`, `queue`, `recvPkt` the fields of each transport. `RouteKnown`, `RouteNew`, `RouteRefused` are what one datagram does up to `received`; `PushDelivered`, `PushRejected`, `PushParks`, `PushPanics` the outcomes of received's `select`; `ReadFails`, `DrainNext`, `DrainDone` the way out; `CloseBegins`, `CloseSignals`, `CloseQueue` the three steps of a transport's Close; `Read`, `AcceptReturns`, `AcceptFails`, `ListenerClose...` the rest |
| `UdpServerProofs` | theorems about it | see *Proofs* |
| `ConnHandoff` | abstract: what an acceptor promises of each connection; `WsAcceptor` and `NetAcceptors` implement it | delivered or closed, once, never both, nothing delivered after the end |
| `WsAcceptor` | Listen, upgradeHTTP, Accept and Close of the WebSocket acceptor | `hPc`, `conn` per request, `incoming`, `signal`, `errs` the three channels; one action per step between which another goroutine can come |
| `WsAcceptorProofs` | theorems about it | see *Proofs* |
| `MessageStream` | abstract: what a reader of messages promises | Begin, Continue, Take, Finish, Fail |
| `WsReader` | websocketTransport.Read over FrameReader | `msgReader`, `fragmented` (StateFragmented), `frame`, `raw`, `flateReader`, `utf8` are the code's fields; `held` and `pending` the inflater's. Actions: a Read begins (`Call`), the header of each kind of frame in each position (`Header...`, `DiscardContinues`, `Control...`), and what a call of `frame.Read` brings (`PayloadRaw`, `PayloadFlate`, with the switch of FrameReader.Read in `ReadReturns`) |
| `WsReaderProofs` | theorems about it | see *Proofs* |
| `WsWriter` | everything that writes to a WebSocket connection | `lock` is writeLocker, `buf` the write buffer, `pipe` the socket; a *piece* is what one call of the underlying Write puts out (ws.WriteFrame makes two). `Begins`, `Locks`, `PutsFirst`, `PutsRest`, `Flushes`, `WriteFails` are the writers' and the answers' steps, `ReaderTakes`, `ReaderHasPayload`, `ReaderFails` the reader's |
| `WsWriterProofs` | theorems about it | see *Proofs* |
| `WsFlate` | which connection or goroutine has which flate object, and when an Options is ready for use | `Terms` are what parsePerMessageDeflate finds in the answer, `ModeFor` what newWebsocketTransport makes of them for each side: pooled objects, or one of the connection's own in persistentFlateReader or persistentFlateWriter (`keeps`), from the pool or made for the window. `UsesPooled`, `UsesKept`, `Tests`, `Loads` are the ways a message gets its object, `Finishes` the deferred function of writeCompress or PutFlateReader, `Close...` the steps of Close; `ApplyBegins` and `ApplySetsNew` the two steps in which Options.Apply replaces a pool, `GetsNil` a Get between them |
| `WsFlateProofs` | theorems about it | see *Proofs* |
| `WsCodec` | what is done to bytes, operators only | `FastCipher` with its three loops, `PackHeader` and `ReadHeader`, cbuf's `CbufWrite` and `CbufFlushes` |
| `WsWire` | bytes from Write to Read | `slice` is the caller's slice, `cbuf`, `out`, `werr` the flate writer's parts, `wire` the connection, `raw`, `cipher`, `suffix` the reader's LimitedReader, CipherReader and suffixedReader. `WritesPlain`; `CompressBegins`, `CompressorWrites`, `Flushes`, `WritesCompressed`; `NextFrame`, `ReadsChunk`, `ReadsSuffix`; `PlainEnds`, and `CompressedEnds`, which cuts off what the inflater still holds (`lost`) |
| `WsWireProofs` | theorems about `WsCodec`'s operators (mask, header, cbuf), and about `WsWire`, which cite those | see *Proofs* |
| `WsDuplex` | two ends of this code, connected | per end `lock` is writeLocker, per goroutine `pc` and `job` what it writes, `pipe` the frames in each direction. `Writes`, `WriteCloses` begin a call, `Locks`, `Puts`, `WriteFails` do the writing of both goroutines, `ReaderTakes` reads a frame and decides whether it is answered or refused, `Closes` is either end's Close |
| `WsDuplexProofs` | theorems about it | see *Proofs* |
| `NetAcceptors` | Accept and Close of the QUIC, KCP and TLS acceptors, `kind` says which | `present` is the field `listener` being set, `lis` and `queue` the listener below it, `peer` and `silent` its clients. `AcceptChecks` and `AcceptCalls` are the two reads of the field in Accept, `ListenerGives`, `StreamArrives`, `StreamFails` the two waits, `CloseChecks`, `CloseCalls`, `CloseClears` the steps of Close |
| `NetAcceptorsProofs` | theorems about it | see *Proofs* |
| `MC...` | instances for TLC | symmetry sets and small inputs; `NetAcceptors` is run as it is |

Abstractions: a datagram is its sender and its number; a connection, a transport
and a goroutine are model values; a frame is its kind, length and flags; bytes of
a message are counted, not told apart, but in `WsCodec` and `WsWire`. There a byte
is its value together with the set of mask bytes it has been XORed with, so that a
byte unmasked with the wrong mask byte, or masked twice, never looks right by
chance; and the compressor puts one byte in front of the message and the four
bytes of a flush behind it, in pieces of any size. Where an error is asked for it
lacks some of its last bytes. What is Go's
is written out: a `select` with several ready cases takes any of them, a sleeping
`select` has made its choice when it is woken, and sending on or closing a
closed channel panics, which stops the process (`crashed`).

In `WsReader` the state `frame = "none"` with `msgReader` set and no fragment
expected would be ErrNoFrameAdvance; `Call` does not treat it because
`NoFrameAdvance` shows that it never happens.

## Runs

| run | instance | what it shows |
|---|---|---|
| `udp_server` | 2 peers, 2 transports, one application closer, one acceptor closer, backlog 1, queues of 2, 4 datagrams | all safety and liveness properties of the server |
| `udp_send_panic` | 1 peer, queue of 1 | finding 2: a push to a transport that is being closed |
| `ws_acceptor` | 3 requests, 2 closers, backlog 1 | OneOwner, DrainCoversEarly, refinement of ConnHandoff, and the three liveness properties |
| `ws_reader` | 5 frames of any kind, of 0 to 3 bytes with a limit of 2, buffers of 1 and 2 bytes; with and without compression | cleanliness between messages, pool discipline, refusals, and refinement of MessageStream without compression |
| `ws_read_truncates`, `ws_read_raw_fragment` | one compressed message | findings 3 and 4 |
| `ws_writer` | 2 writers and the reader, 3 calls, 2 inbound frames or payloads, with a buffer of one piece and without, socket of one piece | framing, flushing, and who can keep a goroutine waiting |
| `ws_flate` | 2 connections with any negotiated terms on either side, 2 goroutines, 1 closer, 4 objects, 6 messages, Options.Apply run once more at any time | who owns the shared flate objects, whatever was negotiated and whoever applies the options again |
| `ws_wire` | 3 messages of 0, 2, 3 or 9 bytes from either side, with and without compression, in pieces and chunks of any size; headers of 13 lengths | the bytes arrive, in order and unmasked, but for what a compressed message loses at its end (finding 3); the tail test; what happens to the caller's slice |
| `ws_duplex` | 2 ends, 2 goroutines each, OpCodes that agree, agree one way, or do not, or that admit nothing; 2 calls each, one frame in each direction | when two ends wait for each other, and that otherwise nobody waits for ever |
| `net_acceptors` | each of the three acceptors, 2 connections, 2 closers, any clients silent | overlapping and late calls of Accept and Close, refinement of ConnHandoff, the accept loop's end and its service |
| `net_close_blocked` | 1 connection, silent or not, 1 closer | finding 5: Close does not end the QUIC listener's wait for a stream |

### The properties

- `OneLivePerPeer`, `LiveIsRouted`, `ForgottenStaysForgotten`: a peer's datagrams
  go to one open transport, through closes, re-creations and refusals.
- `DoneClosesChildren`: when mainLoop is gone every transport it made is closed,
  also one that an application goroutine was closing at the same moment.
- `QueuesRoutedInOrder`: a queue holds its peer's datagrams, in order.
- `ShutdownOrBackPressure`, `AcceptEnds` (UDP): a full queue of an open transport is the
  only thing that can hold a shutdown up, and it does not hold up Accept.
- `OneOwner`, `HandsOver`, `DrainCoversEarly`: a hijacked connection has exactly one
  owner; it is delivered or closed; the drain leaves nothing that was posted
  before Close.
- `GoroutinesEnd` (handlers and the serving goroutine), `AcceptEnds`: no goroutine of
  the acceptor outlives Close.
- `ReadsMessages`, `TextEndsWhole`, `NoFrameAdvance`: io.EOF ends each message
  exactly once, with its last byte; text is checked across fragments.
- `CleanBetween`: nothing of a message reaches the next one, a pooled flate reader
  is held only inside a message and put back once, an unwanted message is refused
  once.
- `FramesWhole`: a header is followed by its own payload whoever else writes.
- `FlushCovers`: what a goroutine wrote before its Flush or WriteClose returned has
  left the buffer.
- `OnePlace`, `BoundToUser`, `PoolRefersToNobody`: a flate object is in one place and
  bound to its user, and clean in the pool; nobody finds no object. These hold
  where Reads, Writes and Close of a connection do not overlap (`orderly`), or where
  no connection keeps an object; both kinds of application are explored. Without
  either they fail: Close puts the persistent object back while a message still
  uses it, clears the field, and writeCompress's deferred test then takes the
  object for a pooled one and puts it back again. For readers one part of `OnePlace`
  holds even so: none is in the pool twice.
- `SameStream`: messages arrive one for one and in order, whatever the pieces,
  whatever the message before left behind in cbuf, CipherReader and
  suffixedReader. An uncompressed message arrives byte for byte. A compressed one
  does if the Read that leaves `raw.N` at 0 also empties the inflater, that is, if
  the application's buffer has room for all that is left; else it loses exactly
  what the inflater still holds, `lost` (finding 3), and the messages behind it lose
  nothing by that.
- `TailDecides`: a message is refused exactly if the compressor's output does not
  end in 00 00 ff ff, shorter outputs included.
- `SliceKept`: Write gives the caller's slice back as it was, except to a client that
  does not compress: there it comes back masked, and writing it once more sends the
  masked bytes. (`SameStream` holds even then: it is about the bytes passed in. That
  the slice should be kept there too is said nowhere, so this is no finding.)
- `HeaderSurvives`: ReadHeader gives back what packHeader was given and reads exactly
  its bytes, at every boundary of the length.
- `MutualOnly`: the only way in which a goroutine waits for ever to write is that both
  directions are full and both readers want to write, an answer or a refusal. This
  state is reached: two ends whose OpCodes do not fit refuse each other's messages.
- `PoliteCloses`: ends whose OpCodes fit, and whose applications write nothing after
  WriteClose, never reach it, and a WriteClose that went out ends both readings.
- `LateCallsHarmless`: the QUIC, KCP and TLS acceptors set their listener to nil on
  Close, without a lock. A call that begins after a Close has returned is safe
  (in QUIC and KCP: Close only, Accept panics); one that overlaps with it may
  use the nil listener, in TLS too, whose check and use are two reads.
- `CloseEndsAccept`, `ServesWaiting`: after Close the accept loop ends, and
  connections do not wait for each other, except that a QUIC client which
  opens no stream holds Accept in its second wait, Close or not. For Close this
  exception contradicts the listener's own comment: `CloseUnblocksAccept` states
  the comment, and is violated (finding 5).
- `WaitsOnPeerOnly`: who waits for the lock for ever does so because the peer does
  not read, or does not send the payload of a Ping it announced.

Each property of a passing run has a mutant in `PROJECT.json`: a plausible slip in
one definition (a dropped test, an off-by-one, a missing reset) under which TLC
finds the property violated.

### Bounds, and why they are enough

`MaxPackets`, `MaxReads`, `MaxFrames`, `MaxCalls`, `MaxIn` and `Lens` cap what the
environment does; they sit in guards. Two transports and two addresses let one
peer's transport be closed and made again, or two peers compete for a backlog of
one; four datagrams fill a queue and leave mainLoop asleep. Three requests on a
backlog of one put a connection in Accept's hands, one in the queue and one in a
blocked handler at once; two closers race. For the other acceptors two connections,
each silent or not, are one that holds Accept and one that waits behind it. Five frames make a fragmented message
with a control frame in it, followed by the beginning of another, after one that
is refused. Two writers, the reader and sockets of one piece put every holder of
the lock before a full buffer while the others wait. Nine bytes pass all three
loops of FastCipher from every offset (up to three to the boundary, a block, the
rest), and chunks of any size begin at every offset; two and three bytes lie on
the two sides of the compression threshold, and a message of fewer than four
bytes leaves cbuf partly from the message before; three messages let a leftover
cross from any kind of message to any other, and back. One frame in
each direction is enough to fill it, and two calls fill it twice: one frame for
the reader in hand and one behind it. Of what the proofs cover,
the bounds do not matter.

`CHECK_DEADLOCK FALSE` is set where the system really stops: after a shutdown, a
panic, a broken connection or when the environment has no more to give.

### Fairness

Weak fairness is given per goroutine: the Go scheduler runs what can run. It
covers mainLoop, the accept loop, a Close under way, request handlers, the
serving goroutine (a closed server's Serve returns), the one-second timer of
Listen, and a holder of the lock. `Locks` has strong fairness: Go's mutex hands
itself to a waiter that has waited too long; so has `ListenerGives`: a listener
that errs now and then gives what it has to an Accept that asks again. A channel's reader reads on while
its bound allows. In `WsDuplex` a connection whose Read has failed is closed, which is what
go-netty does with it. Nothing is assumed of the peer, of the network, or of the
application's calls, but that a QUIC client outside the set `silent` opens its
stream, if its connection lives.

## Proofs

Each `...Proofs` module proves what the run of its module checks, for any values of
the constants that the module's named assumption allows: every invariant of every
passing run, the action property `ForgottenStaysForgotten`, and the three
refinements. Next to none of the properties is inductive; what follows
says, for each module, what its inductive invariant `IInv` adds and why. All
follow one plan: `Init` implies `IInv`; each action, under `IInv`, keeps each part of
it (one step per action; actions that leave a part's variables alone share a
lemma); `IInv` implies the property.

### Where the system can stop

The liveness properties cannot be proved here, but half of each is a safety
property, and that half is: *where nothing can go on, the promised end has been
reached, or one of the exceptions that the property names holds*. For five
modules a predicate `Halted` says that no goroutine covered by fairness can take
a step, and a theorem says what is true then:

| theorem | where things can stop | safety half of |
|---|---|---|
| `OnlyBackPressureHalts` (`UdpServerProofs`) | after Close: Accept told, mainLoop gone or asleep on a full queue of an open transport | `ShutdownOrBackPressure`, `AcceptEnds` |
| `NothingHaltsClose` (`WsAcceptorProofs`) | after Close: accept loop, handlers, server and serving goroutine ended | `GoroutinesEnd`, `AcceptEnds` |
| `OnlySilenceHalts` (`NetAcceptorsProofs`) | after Close, or with a connection queued: the loop over, or held by a silent QUIC client | `CloseEndsAccept`, `ServesWaiting` |
| `OnlyThePeerHalts` (`WsWriterProofs`) | with someone waiting for the lock or holding it: the peer does not read, or owes the payload of a Ping | `WaitsOnPeerOnly` |
| `OnlyAJamHalts`, `PoliteHaltsDone` (`WsDuplexProofs`) | with a call under way: both directions full and both readers writing; polite ends: nowhere but at their proper end | `MutualOnly`, `PoliteCloses` |

`Halted` is built from `LockMay`, `LoopMay`, `AcceptMay` and the like. These are the
guards of the actions in `Fairness`, written out, because ENABLED is out of the
prover's reach; on the instances of the runs, TLC was used to confirm that each
is true exactly where its action is ENABLED (in a process that has not panicked),
that every theorem of the table holds, and that states which satisfy its
hypothesis are reachable. What these theorems leave to TLC is that a goroutine
which can run does, and that the steps come to an end.

### `UdpServerProofs`

For any sets of addresses, transports and closers and any capacities
(`UdpAssumption`): `TypeOK`, `LiveIsRouted`, `OneLivePerPeer`, `DoneClosesChildren`,
`QueuesRoutedInOrder` and `ForgottenStaysForgotten`.

Whether an open transport is in the map depends on what mainLoop is doing: it may
hold a datagram for it, or have taken it out of the map and be half through
closing it. `IInv` is the conjunction of

- `TypeOK`;
- `HandKnown`: while mainLoop pushes, its transport is the one registered for the
  sender, so a rejected push removes the right entry;
- `MapsBack`: a registered transport is registered under its own address, so two
  addresses never share one;
- `LoopCloses`: mainLoop closes transports only while draining, and has taken the
  one it closes out of the map before;
- `OpenIsKnown`: an open transport is in the map or is the one mainLoop is about
  to close;
- `DoneIsEmpty`: when mainLoop has returned the map is empty.

`OneLivePerPeer` follows from `OpenIsKnown` and `LoopCloses`, since two open
transports of an address cannot both be its entry, and the one being closed
leaves no entry; `DoneClosesChildren` from `OpenIsKnown`, `DoneIsEmpty` and
`LoopCloses`. `QueuesRoutedInOrder` needs one more part, `HandIsNewer`: the datagram
in hand came after all that are in the queue it goes to; that it goes to its own
peer's follows from `HandKnown` and `MapsBack`.

`ReadsComeEmpty` proves finding 1: `recvPkt` is nil at first, and Read, the only
method that sets it, does so only where it is not nil already (`NothingTaken`).

`OnlyBackPressureHalts` needs `ClosesInOrder`: while the acceptor is closed and its
socket open, some Close is between the two; a transport's queue is closed only
after the transport, so a mainLoop that sleeps on an open transport sleeps on a
queue that is full and not closed.

### `WsAcceptorProofs`

For any connections, closers and backlog (`WsAcceptorAssumption`): `TypeOK`,
`OneOwner`, `DrainCoversEarly`, and the refinement `HandsOver`: `Spec` implies
ConnHandoff's `Spec` under the mapping in `WsAcceptor`. `OneOwner` counts the owners
of open connections; it does not say that a connection in the queue is open, or
that a delivered one has left its handler. `IInv` says so place by place:

- `HandlersHold`: before the hijack there is no connection, while posting it is
  open;
- `QueueHolds`: the queue holds open, undelivered connections of handlers that are
  done, each once, and not the one in Accept's hands;
- `AcceptHolds`: Accept has one exactly while it builds a transport;
- `AppHolds`, `NoneLost`: a delivered connection's handler is done; every other open
  one is somewhere;
- `DrainAfterSignal`: Accept drains only after the signal, and what was posted
  before it is not in the queue once Accept has drained it.

Each step of the code is then a step of ConnHandoff (`Upgrades` establishes, `Drops`,
`DrainOne` and `AcceptBuildFails` drop, `AcceptDelivers` delivers) or a stutter;
ConnHandoff's guards follow from `AcceptHolds`, `HandlersHold` and `QueueHolds`.

`NothingHaltsClose` needs `StopsInOrder`: only an acceptor that Listen has returned is
closed (its Accept runs), a Close that has signalled goes on to stop the server,
and only the end of Serve puts something on errorChan, so that there is room for
it when it comes.

### `NetAcceptorsProofs`

For each of the three acceptors, any connections and any closers: `TypeOK`,
`LateCallsHarmless` and the refinement `HandsOver`.

- `ReturnedIsCleared`: once some Close has returned, whichever way, the field is nil
  and stays so. Of two overlapping calls the one that finds nil may return before
  the other; it found nil because somebody had cleared it. `LateReturns` and
  `LateAcceptRefused` follow step by step.
- `Holds`: a connection is in one place only, the listener's queue or Accept's hands
  (`QueueHolds`, `EvHolds`), and what was delivered or dropped is in neither
  (`EndsOnce`); ConnHandoff's guards need this.
- `ClosedFirst`, for `OnlySilenceHalts`: a field that is nil is that of a closed
  listener, so an Accept that still waits below it gets an error; and only QUIC's
  Accept waits for a stream.

### `WsReaderProofs`

For any lengths of frames and buffers, any limit, window and prefetch of the
inflater (`WsReaderAssumption`): `TypeOK`, `CleanBetween`, `NoFrameAdvance`,
`TextEndsWhole` and the refinement `ReadsMessages` of MessageStream. `IInv` adds to
the properties

- `AtHand`: which of the reader's places have a message and a frame at hand, and that
  `Discard` runs with nothing decoded or left over;
- `Counted`: what Read returned and what is left in the frame make up what the peer
  has sent of an uncompressed message. MessageStream's Take and Finish are
  enabled because of it: io.EOF comes when nothing is left of the last frame;
- `TextKnown`: when a frame has nothing left, the UTF-8 check knows how the text
  stands, and only text is cut.

The refinement holds by definition of the mapping where the peer may send
compressed messages (`compress`; it may whether or not they were negotiated, for
NextFrame inflates what has RSV1 set): `ReadsMessages` promises nothing there, and findings 3 and 4 show that
it could not.

### `WsWriterProofs`

For any number of writers, with and without a buffer, for any capacities
(`WsWriterAssumption`): `TypeOK`, `FramesWhole` and `FlushCovers`. `FramesWhole` does not
say that who has to write a payload finds its own header at the end of what is on
its way, nor that nobody else can write in between. `IInv` adds

- `Places`: what a goroutine can be doing where it is (`JobFits`), and that exactly
  the lock's holder is between Lock and Unlock (`LockKept`);
- `LastOpen`: unless the connection is broken, the last piece is a header if and
  only if its writer still has to write the payload; `Followed`: every other
  header has its payload behind it;
- `InboundFits`: the peer's payloads follow their headers, and the reader waits for
  one when one is next. Even `TypeOK` needs this: the reader looks up what to answer
  by the header it has;
- `Unbuffered`: without a buffer nothing is in it.

`OnlyThePeerHalts` follows from `LockKept` and `JobFits`: a held lock has a holder that
writes, flushes or waits for a Ping's payload, and each of the three can go on
once the connection is broken.

### `WsFlateProofs`

For any connections, goroutines, closers (finitely many, `WsFlateAssumption`,
because `OnePlace` counts them), objects and messages: `TypeOK`, `OnePlace`,
`BoundToUser` and `PoolRefersToNobody`. Three things are kept apart:

- `Shapes` holds whatever the application does: what a goroutine's or a Close's place
  says of its connection and its object, and that a connection with pooled objects
  keeps none;
- `Orderly` holds of an application whose calls on a connection do not overlap: one
  goroutine at a time is in a message of an open connection that nobody closes,
  and a connection which is to keep an object has it, and uses that one;
- `OneOwner` holds wherever `Guarded` does: an object is in the pool at most once, or
  has one owner (a connection, or a message that took it from the pool), or went
  away with a pool that Apply replaced. `Guarded` is `Apart` (orderly, or nothing is
  kept and Apply runs once) or that one goroutine closes and the objects are
  readers; `OneCloser` says that a Close finds the object it puts back.

`OnePlace` is `OneOwner` counted. `BoundToUser` and `PoolRefersToNobody` are in `IInv`
themselves: that an object which a message Resets is nobody else's is `OneOwner`.

### `WsWireProofs`

The module begins with facts about the operators of `WsCodec`, for any mask of four
bytes:

- `KeyIndexIsOffset`: byte i meets mask byte (off + i) mod 4, in each of the three
  loops, although the one over blocks leaves off behind;
- `CipherTwiceIsNone`: the same mask and offset again give the payload back;
- `CipherInChunks`: a payload unmasked in two chunks, the second at the position
  that CipherReader keeps (modulo 4), is the payload unmasked at once; so it is
  in any number of chunks, adding one at a time;
- `HeaderReadsBack`: ReadHeader gives back what packHeader was given and reads only
  its bytes, for every length from 0 to 2^63 - 1 (`Int64`: the top 16-bit word is
  below 2^15) and whatever bytes follow. The proof splits on the two thresholds;
  in the longest form the length is put together again from four words;
- `CbufLosesNothing`: what cbuf flushes and what it then keeps are what it kept and
  what is written, in this order, and it keeps the smaller of four bytes and all
  there are. So the bytes it keeps in the end are the last four of the output.

For any number of messages, pieces and chunks of any size, and lengths that an
int64 holds: `TypeOK`, `SameStream`, `SliceKept`, `TailDecides` and `HeaderSurvives`.
`WsWireAssumption` asks `Int64` of each length in `Lens`, and of one more, because
the compressed message is longer by a byte: a Go slice's length is an int, so no
message the code can be given is left out.

The invariant has two halves.

- `WInv`, the writing side. `Written`: what cbuf has flushed, what it keeps and what is
  still to come are, one behind the other, the compressor's output, and `total` is
  the beginning of it that was written (`CbufLosesNothing`). So the test of the tail looks at the
  output's own last bytes, never at those of the message before: `TailDecides`.
  `Slices`, `Settled` and `SliceKept`: masking twice gives the caller's slice back.
- `RInv`, the reading side. `Carried`: there is a row of frames, one for each message sent,
  such that all bytes ever sent are these frames behind each other, and the
  reader has taken exactly the bytes up to a place in one of them; `raw` is what
  is missing from there to its end. `Inside`: within a frame, the next `raw` bytes on
  the wire are the rest of its payload, what was handed on is the beginning of
  it, unmasked, and `cipher.pos` is the number of bytes read, modulo 4
  (`CipherInChunks` is used here, once for each chunk); suffixedReader gives its
  tail only when `raw` is 0. `Delivered`: the messages that ended, each with what was
  `lost` of it, are those that were written, in order, and only one of a length that
  Write compresses (`Long`) has lost anything. The row remembers of each frame that
  it carries its message compressed if and only if the length is in `Long`; so
  `CompressedEnds`, which cuts, never meets another.

`Carried` needs the existential row because the model, as the code, does not remember
frames: only their bytes are on the wire. That a header is read where one begins
follows from it, and `HeaderReadsBack` says what is read, whatever is behind.

### `WsDuplexProofs`

For pipes of any size, any number of calls and any pair of Options.OpCode
(`WsDuplexAssumption`): `TypeOK`, and what becomes of two ends that wait for each
other. `IInv` adds

- `JobFits`: what a goroutine can be writing where it is, and that the pipes hold
  frames; `LockKept`: exactly the lock's holder is between Lock and Unlock, so one
  that waits for the lock waits for one that is writing, also after an error;
- `LastWord`, of ends that are *polite*: they accept what the other sends and send
  nothing after a Close frame of their own. As long as both are there, nobody
  refuses anything; an end's Close frame is the last it sends until it answers
  the other's, so whoever answers it does so with nothing behind it
  (`ByeIsLast`); and it is in the pipe, being answered or answered, never lost
  (`ByeArrives`).

`OnlyAJamHalts`: a goroutine that cannot go on waits, itself or the holder of its
lock, before a full pipe; the reader at the other end of that pipe is neither
idle, since there is something to read, nor over, since go-netty would close the
connection; so it is stuck itself, and the same holds the other way round.
`JamsStay`: no step but a Close of an application leaves a jam. `PoliteNeverJams`: in
a jam of polite ends both readers would be answering, and by `ByeIsLast` the pipe
from which each took the Close frame would be empty, not full. `PoliteHaltsDone`: so
they stop only with every call returned, and, by `ByeArrives`, with both readings
ended if a WriteClose went out.

### What is only model-checked

- All liveness (`ShutdownOrBackPressure`, both `AcceptEnds`, `GoroutinesEnd`,
  `WaitsOnPeerOnly`, `MutualOnly`, `PoliteCloses`, `CloseEndsAccept`, `ServesWaiting`):
  it needs fairness and ENABLED, which are out of the prover's reach. *Where the
  system can stop* lists the half of each that is proved.
- What the violation runs refute is shown by their counterexamples alone.

## Findings

What the code does and a comment of it says otherwise. Each is a run with the
shortest counterexample, but the first, which happens on every path and is a
theorem.

1. `udp/transport.go:104`: the test for a pending packet is inverted, `Read`
   returns (0, io.EOF), "read completed" (line 121), at once and never takes a
   packet (`ReadsComeEmpty` in `UdpServerProofs`).
2. `udp/transport.go:149`: after a transport's Close has closed `receivedQueue`, the
   `select` of `received` may choose the send and panic (`ClosedPushIsRefused`).
3. `frame_reader.go:61`: with compression the end of the frame is taken for the end
   of the message while the inflater holds output: a message longer than the
   buffer is cut (`EofMeansWhole`).
4. `frame_reader.go:124`: continuations of a compressed message are not inflated
   (`InflatesEveryFragment`).
5. `quic/internal/quick/listener.go:45`: "Any blocked Accept operations will be
   unblocked and return errors", says line 61 of Close, but the wait for a client's
   stream goes on: its context is never cancelled, and closing `quicServer` leaves
   established connections alone (`CloseUnblocksAccept`; what closing does to them
   is quic-go's, which is external, and taken from the release in `go.mod`).

What does hold in spite of these: `ReadsMessages` promises MessageStream where no
message is compressed, `SameStream` says what a compressed one can lose, and
`CloseEndsAccept` that nothing but a silent QUIC client keeps Accept from ending.

Limits that no comment denies, and that the properties therefore name as their
exceptions: a mainLoop asleep on a full queue does not notice Close, and its
children stay open (`ShutdownOrBackPressure`); a WebSocket handler may post a
connection after Accept has drained `incoming`, and nobody closes it
(`DrainCoversEarly` speaks of those posted earlier; ConnHandoff promises no end
for every connection); two ends can wait for each other (`MutualOnly`); a
client's Write masks the caller's slice (`SliceKept`); Options.Apply, run again
on an Options in use, leaves its pool without New for a moment (`Apart`, the
condition of `OnePlace` and `BoundToUser`, excludes it).

## Not modelled

- UDP client, `Write` and `Writev` of UDP transports, dialling, options: straight
  calls into the standard library without state of their own. What Writev says it
  has written when a later buffer fails (`websocket/transport.go:384`) is an
  entry under `hazards` only.
- `Listen` and `Connect` of QUIC, KCP and TLS, and `quick.Conn`: set-up code in one
  goroutine, and calls forwarded to the stream or the socket. The sockets that
  quick's Listen and Dial leave open on an error are single paths without state.
- The bytes that a WebSocket client's dialler has read behind the server's answer:
  gobwas decides what is in its buffer.
- The window of permessage-deflate between foreign peers: this code Resets both
  its readers and its writers for each message, so between two ends of it no
  message refers to an earlier one, and what another implementation's
  compressor refers to is not in `src/`.
- Code that nothing reaches: the `default` of packHeader's switch (an int64 is at
  most `len64`), `FlateWriter.Close`, `suffixedReader.ReadByte` (the bufio
  reader of the inflater hides it).
- A `max_window_bits` that klauspost refuses: `websocket/transport.go:173` ignores the
  error and would wrap a nil compressor; `Terms` has none and the protocol's 15.
- A Read into an empty buffer.
- UTF-8 decoding: `WsReader` has whether a text is cut in a character, and `deflate`
  itself, which is external.
- gobwas/ws, klauspost/compress, kcp-go, quic-go and go-netty are external; what
  `src/` relies on is modelled from its use of them and marked so in the map.

## What is left

No safety property of a run is without a proof. Two things would say more:

1. `WsFlate`: which part of `OnePlace` remains for writers when a Write overlaps with
   Close, as there is one for readers (never in the pool twice).
2. A run over two real ends that speak in pieces, `WsWire` under `WsDuplex`; its state
   space is the product of the two, and what it would add, that bytes arrive while
   both ends wait for room, is covered by the two apart.
