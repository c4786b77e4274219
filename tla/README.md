# TLA+ models and proofs for go.rtmp

The library (`src/rtmp`) is the server side of an RTMP stack: it turns a TCP
connection into a stream of messages in both directions and offers the
operations with which a server talks to players and publishers. The repository
has no tests, so the reference is the code with its comments. `PROJECT.json`
lists every run, mutant, theorem, hazard and finding, and maps each definition
to the lines it models.

## The system

| Part | State | Operations | What makes it hard |
|---|---|---|---|
| Message pump (`protocol.go`) | two channels, two mutexes, `msg_io_err` | the loops and jobs of both goroutines, `SendMessage`, `RecvMessage`, `Destroy` | five kinds of steps interleave; `close` on channels in use; one error field under two locks |
| Chunk reader (`protocol.go`) | chunk streams with partial messages, `inChunkSize`, `inAckSize` | `read_basic_header`, `read_message_header`, `read_message_payload`, `on_recv_message` | interleaved chunk streams, abbreviated headers, extended timestamps that some peers omit |
| Chunk writer (`protocol.go`) | `msg_out_queue`, `outChunkSize`, `SentPayloadLength` | `SendPacket`, `SendMessage`, `on_send_message`, the sending job | user goroutines change what the sending goroutine reads |
| Receive buffer (`buffer.go`, `hp_buffer.go`, `socket.go`) | slice with start, end, position | `EnsureBufferBytes`, `Read*`, `Skip`, `Consume`, `Append`, `Remove` | reads cut anywhere; bytes put back; the list resets when emptied |
| Handshake (`handshake.go`) | `c0c1`, `c2` | `SimpleHandshake2Client` | partial reads, failures, repeated calls |
| Relaying (`messages.go`, `protocol.go`, `socket.go`) | message headers shared by reference | `Message.Copy`, `SendMessage`, the sending jobs, `Socket.Write` | sending goroutines write to messages without a lock; short writes |
| Server session (`rtmp.go`) | `Request`; the locals of each call | `ConnectApp` ... `StartFMLEPublish`, `Ping`, `discovery_app` | clients that run ahead, messages nobody waits for, many ways to write a tcUrl |
| AMF0 and packets (`amf0.go`, `messages.go`, `buffer.go`) | position in the stream | `New`, `Set`, `GetSize`, `Encode`, `Decode`, `DecodePacket` | nesting, lengths chosen by the peer, sizes computed apart from the bytes |
| Constants, errors, version | none | none | |

The handshake starts the pump goroutines. The receiving one runs the chunk
reader over the receive buffer, the sending one the chunk writer; the session
operations use both through `ExpectPacket`, `RecvMessage` and `SendPacket`, which
decode and encode packets. A program that has a message for several connections
copies it for each of them.

## Modules

**`MessagePump`** One action per step between two points where another goroutine
can see a difference. `pc` tells where each goroutine is; a channel is the number
of messages in it. A deferred `Unlock` is merged with the step before it.
Stores to `msg_io_err`, an interface value written without a common lock, are
atomic in the model. `Destroy` is called once, by the owner of the stack. A lost
connection still serves what its buffers hold (`buffered`).

Each job stores its result, nil included, so that a goroutine may erase the error of
the other, which then goes on (`protocol.go:149,159`). The other modules have this as
the step `ErrorErased` and follow what the goroutine does next: the reader begins a
chunk behind the one it gave up, the writer a message behind the one it cut off.

**`ChunkFields`** has the fields that make up a chunk (basic header, message
header, extended timestamp, payload byte) with their sizes, and the chunk header
the writer makes; **`ChunkWire`** is the wire as a sequence of fields.
**`ChunkReader`** has one action per function of the reader. Reading bytes that
are not the field the reader expects makes it `desync`, from which it never
returns. An error leaves it `failed` behind a whole part, `torn` within a message
header, or `cut` when the socket failed within a part; when it is erased, the reader
begins a chunk (`failed`), or takes the rest of the part for one (`astray`), where the
model stops. **`ChunkPeer`** adds a peer that follows the format as the comments of
the reader quote it, with `Habits` for the liberties it takes: leaving out the
extended timestamp of fmt 3 chunks, abbreviating headers with large deltas,
breaking the format; it also sends control messages that are too short.
**`ChunkWriter`** models users and sending goroutine;
**`ChunkLink`** connects it to the reader of a second stack.

**`Handshake`** counts bytes. **`ReceiveBuffer`** keeps the slice with `start`, `end`
and `off` as the code does, and reads each part of a chunk through it: the fields,
which move `off`, and the sizes `bh_size`, `mh_size` and `payload_size`, which the reader
adds up apart and consumes at the end. **`ByteList`** is the plain list that the
comment of `BytesList` describes. **`Inbound`** composes the two on one socket: the buffer takes
over where the last handshake read ended.

**`Relay`** has a heap of messages, a program that receives, copies and sends, and
one sending goroutine per connection; `Socket.Write` hands over its argument in
pieces and may fail at each. A `*Message` is an index into the heap, so that two
goroutines can hold the same one. The wire is what a connection got of the message
its goroutine has in hand, or had last; `failed` tells that a write of it failed.
**`RelayChunks`** defines what should be on the wires.

**`Amf0`** has one operator per value type, from the bytes at a position to a value
or an error. **`PacketDecoder`** is `DecodePacket`: it chooses the packet, whose fields
are a sequence of kinds, and reads them one by one. The recursion of
`Amf0Any.Read` is a stack of open objects, one step per property, so that the
model also has proofs. **`PacketEncoder`** builds packets with `New` and `Set` and has
`GetSize` and `Encode` as separate recursions, as the code has. **`PacketCodec`** joins
the two and adds messages with arbitrary bytes.

**`TcUrl`** is `discovery_app` over sequences of words and marks. The order in which
it meets the query parameters is that of a Go map, so its result is a set.
**`Session`** has one action per operation, or per
round of its loop where it receives; the packets an operation sends go out one
at a time. `DecodePacket` maps a command to its packet type. `ExpectPacket` uses
the test of the code, `ConvertibleTo`, which is weaker than the type equality it
stands for. The clients and the program that calls the operations, in the order
of the `Server` interface, are not part of the repository. One of the clients plays
without createStream, which `IdentifyClient` accepts (`rtmp.go:354`).

`MC*` modules hold the constants of the runs, `*Proofs` the theorems.

## Runs

Runs that pass:

| Run | Shows |
|---|---|
| `pump` | `ClosedMeansQuiet`: closing never meets a running job. `NoSilentLoss`, `ErrorStaysAfterClose`: what callers are told is true, and final. `LossStopsPumps`: a lost connection ends both goroutines unless they wait for the user, however often they erase the error of each other. Once `Destroy` has closed the channels, the goroutines end and blocked callers return; it returns when the goroutines are not running. |
| `chunk_format` | Every message arrives as sent, over two interleaved chunk streams, all four formats, timestamps around the limit, and extended timestamps left out of fmt 3 chunks at will (above the limit). |
| `chunk_faults` | What is sent in full is delivered, with chunk size changes while messages are under way; a chunk the format forbids, or a malformed control message, is answered with an error, and nothing else is. |
| `link` | Two stacks back to back: what is accepted arrives unchanged and the chunk sizes agree, if chunk size changes wait until all is written (`Careful`). |
| `inbound` | The pumps start exactly behind C2, only for plain RTMP, and the call ends. Behind it bytes stay in order, and the sizes counted for a chunk are those of the fields read, in every format and behind chunks given up; the buffer refines `ByteList`. |
| `session` | A tcUrl that names no stream is understood as meant in all its forms, clients are identified as what they are, each request is answered once with its transaction id, a client that asks for a stream hears nothing on it before it knows the id, and every proper client gets to stream. Of what comes in between only closeStream and messages that cannot be decoded do harm. |
| `packets` | What is encoded is decoded to the same packet, whatever was set and in which order; `GetSize` is exact for every packet that can be sent at all, and only the packets named by `Unencodable` cannot; and with arbitrary bytes no read leaves the payload and every step makes progress. |
| `relay` | Two connections send copies of the same messages at once: each wire carries what was queued for it, message by message, and of one whose write failed a prefix; no step of one touches what the other has in hand, and what is queued is written although the other connection or the program may be stuck. |

Runs in which the code disagrees with a comment (the findings quote it):

| Run | Shows |
|---|---|
| `pump_destroy_returns` | `Destroy` waits for a mutex held by a goroutine blocked on an empty queue or a silent connection. |
| `chunk_window` | After the acknowledgement window is exceeded, SetChunkSize is ignored. |
| `link_resize_race` | Messages queued before a SetChunkSize are cut with the new size. |
| `session_close` | `ExpectPacket` panics on a closeStream while it waits for createStream: the packets have the same fields, so they are convertible but not assignable. |

The models show more disagreements. Each appears when a configuration is changed
as follows and the property alone is checked:

| Configuration | Change | Violated | What the code does |
|---|---|---|---|
| `ChunkFormat` | `Habits = {"omit", "limit"}` | `StaysInSync` | An omitted field at exactly 0xFFFFFF is not detected (`protocol.go:682`). |
| `ChunkFormat` | `FairSpec`, one message, one stream | `EventuallyDelivered` | To detect an omitted field the reader waits for four bytes that may only come with the next message (`protocol.go:672`). |
| `ChunkFormat` | `Habits = {"delta"}` | `DeliveredAsSent` | An extended delta is taken for an absolute timestamp (`protocol.go:686`). |
| `Link` | `RawMessages <- LimitMessages` | `LinkInSync` | The writer leaves out the extended field at exactly 0xFFFFFF (`protocol.go:206`). |
| `Link` | `RawMessages <- RelayMessages` | `LinkInSync` | Chunk stream ids from 64 on are cut to six bits (`protocol.go:202`). |
| `Link` | `Packets <- ClientPackets` | `SendPacketReturns` | Sending connect or createStream writes to a nil map (`protocol.go:432`). |
| `Inbound` | `MaxCalls = 2`, `Deadlines = TRUE` | `StartsAtFirstChunk` | A second call takes a half-filled slice for read (`handshake.go:33`). |
| `SessionClose` | `Noise = {"result"}`, or `"malformed"` or `"amf3data"` | `ExpectDropsOthers` | `ExpectPacket` fails on a message that it cannot decode instead of dropping it (`protocol.go:328`, `messages.go:326`). |
| `Session` | invariant `RequestAsDocumented` | `RequestAsDocumented` | The comment on `Request.TcUrl` has the stream behind the app (`rtmp.go:91-95`); `discovery_app` leaves it in the app or in the vhost. |
| `Packets` | `SetValues <- NullValues` | `RoundTrip` | A null or undefined property ends the object (`amf0.go:176`), although the grammar quoted above it allows any value. |
| `Packets` | `Strings <- LongStrings` | `RoundTrip` | The length of a string is cut to 16 bits (`amf0.go:593`). |

More are visible in passing runs. A packet can never be encoded when it is an
onStatus without data, or when a value of it holds an empty object, which counts 0
bytes and writes 4 (`Unencodable`); a connect without properties cannot be decoded
(`Refused`). The comment on `PerferCid` (`messages.go:55`) speaks of sending one
message to all connections; the mutant `Copy_Same` of `Relay` shows that this needs
`Copy`.

Deadlock checking is off: all systems stop once the bounds are used up, the
stack is destroyed or nobody has anything to send.

## Bounds

The limit of the 3-byte timestamp is scaled to 3 and the chunk sizes to 1 to 3,
with timestamps below, at and above the limit and messages of none to three
chunks. A number in a control message has `WordSize` bytes instead of 4: two in
`ChunkFaults`, so that it fits the smallest chunk as 4 bytes fit 128 and one byte of it
can be missing. Chunk stream ids 2, 63, 64 and 320 cover
the forms of the basic header. `MaxMessages`, `MaxBuffered`, `MaxBytes`, `MaxNoise`
bound the behaviours: three messages suffice for one to be under way, one queued
behind it and one that meets what they leave behind. `MaxInFlight` bounds the
bytes between peer and reader. Channels hold one or two messages, so that they
fill up. The handshake has 3 and 2 bytes for 1537 and 1536, and the socket delivers 3
or 16 bytes at a time behind it; only the places where a read may be cut matter. The
20 bytes behind the handshake hold a chunk of every format, whole or given up, and the
beginning of another. `Session` allows two other messages and one ping, and
takes all tcUrls with up to two parameters in three styles, with and without a stream. In `Packets` a byte has
16 values and a float64 one byte, so that the longest string has 255; three calls
of `Set` reach a property set twice next to another one, and four arbitrary bytes
(`WordLength`) follow each of the prefixes that lead into a different function.
`Relay` has two connections with different chunk sizes, and an empty message
between two that are cut differently.

Timestamps do not wrap. The acknowledgement window is compared with the bytes
consumed; reading ahead only makes the code exceed it earlier. Payload bytes
differ from the timestamp, since an omitted field cannot be told from payload
that equals it.

## Fairness

Weak fairness of a goroutine stands for the Go scheduler, which runs what stays
runnable; a read or a write is enabled only when the connection can serve it. In
`MessagePump` a write returns, and a read of a lost connection does; a read of a live
one need not.
Strong fairness occurs only in `pump_destroy_returns`: the run shows that even if
every waiter that gets a chance again and again is served, `Destroy` may not
return. In `Inbound` and `Session` the client is fair as well: the properties are
about a client that plays its part (`HandshakeEnds` includes one that leaves).
In `Relay` only the sending goroutines are fair, not the program. Users are never obliged to call anything; only a call once begun goes on.

## Proofs

TLAPS proves for all values of the constants (with the named assumptions):

- `MessagePumpProofs`: all safety properties of `pump`. The inductive invariant
  `IInv` adds who holds which mutex at each `pc` (`LockInv`). `ClosedMeansQuiet` needs
  it: `Destroy` closes with both mutexes held and a job runs with its own.
- `ChunkReaderProofs`: `ReaderTypeOK` and `PartialMessages` on any wire of
  well-formed fields, in any order, also behind errors that were erased. `RInv` says that all chunk streams but the current one
  are at rest and what the current one looks like in each function.
- `ChunkLinkProofs`: the writer's types and bounds, and the two results above for
  the wire this writer produces. `HeaderDue` (a header is written only while
  payload is left) makes the writer's bounds inductive.
- `InboundProofs`: of the receive buffer, bounds, order of the bytes, agreement of the
  counts with the fields read (from what each part has added to both), and the refinement of `ByteList`; types of the handshake for any number of
  calls; for the first call, that the pumps start behind C2 (the table above shows
  why not for later calls); that only plain RTMP gets a running stack; and, across
  both components, that the receiving goroutine gets the bytes behind the handshake
  in order.
- `PacketDecoderProofs`: for every payload, `ReadsInside`, and that each step lowers
  a measure made of the bytes left, the open objects and the fields left. So
  decoding ends; the depth of the recursion is at most a third of the payload.
- `RelayProofs`: `Isolated` for any connections, sizes, messages and failures. `RelayInv` says
  that a message on the heap is held by one connection at most (`Ownership`), so
  that the writes of a sending goroutine to `SentPayloadLength` and of `SendMessage`
  to the stream id meet nobody; and that every slice taken is inside the payload.
- `SessionProofs`: `IdentifiedRight` and `StreamAnnounced` for any number of messages
  in between. The strengthening is about what is on the way to the server:
  requests of the client's own script, `play` and `publish` of a client that asks for
  a stream only when its id was told, and of an FMLE publisher the releaseStream ahead of the createStream
  until it is identified (`FmleAhead`).
- `TransactionProofs`: `AnswersMatch`, on top of that invariant. `Transactions` says that
  a transaction id was asked for and is in one place at a time: on the way to the
  server, in an answer to be sent, or in an answer sent.

Only model-checked: all liveness (outside the prover's reach), `DeliveredAsSent`,
`StaysInSync`, `BreakIsDetected`, `LinkDelivers`, `LinkInSync`, `SizesAgree` (they need what
folding over the wire yields for every input), `RelayWires`, `RequestRight`,
`OnlyUndecodableFails`, `SizesExact` and `RoundTrip` (recursive definitions).

## Not modelled

- The content of S1 and S2 (random bytes that nothing reads), and the fields of a
  connect that are only stored (`pageUrl`, `swfUrl`, `objectEncoding`).
- `net/url` beyond what `discovery_app` relies on: escapes and malformed ports.
- What the reader makes of the bytes once it is `desync` or `astray`: any bytes can
  follow. `ReceiveBuffer`, where the content of a chunk is a free choice, goes on.
- Wrapping of timestamps, and the 64-bit counters of the socket, which nothing
  compares but the acknowledgement window.
- Constants, error values and texts, version: declarations without state.
- A second handshake after a successful one (it would start a second pair of pump
  goroutines on the same buffers, `handshake.go:100`) and concurrent calls of
  `Destroy`: the program is assumed to make neither. A SetChunkSize packet of 0, which
  only the program itself could send, is excluded by `WriterAssumption`: the loop
  of the sending goroutine would not end.
