---------------------------- MODULE ChunkReader ----------------------------
(***************************************************************************)
(* The receiving half of the chunk protocol (protocol.go, messages.go):    *)
(* recv_interlaced_message with its three readers, then on_recv_message    *)
(* and the delivery of the message.  One action per function; each waits   *)
(* until the bytes it asks EnsureBufferBytes for are there.                *)
(*                                                                         *)
(* An error ends the call and, as a rule, the goroutine; but the sending   *)
(* goroutine may store its own nil over it, and then reading goes on where *)
(* it stopped (ErrorErased).  Once the bytes on the wire are taken for     *)
(* something else than they are ("desync", or "astray" among the last      *)
(* bytes of a lost connection) the model follows no further.               *)
(***************************************************************************)
EXTENDS ChunkWire

CONSTANTS
    Cids,            \* chunk stream ids
    MinChunkSize,    \* RTMP_MIN_CHUNK_SIZE, also the initial chunk size
    MaxChunkSize,    \* RTMP_MAX_CHUNK_SIZE
    WordSize         \* bytes of a 32-bit number in a control message: 4, or scaled down

ASSUME ReaderAssumption ==
    /\ Cids \subseteq Nat
    /\ MinChunkSize \in Nat \ {0}
    /\ MaxChunkSize \in Nat
    /\ MinChunkSize <= MaxChunkSize
    /\ WordSize \in Nat \ {0}

VARIABLES
    rpc,             \* which function the receiving goroutine is in
    rfmt, rcid,      \* locals of recv_interlaced_message: format, cid
    chunkStreams,    \* per chunk stream id: header, partial message
    inChunkSize,
    ackWindow,       \* inAckSize.ack_window_size
    recvBytes,       \* bytes taken from the connection
    delivered        \* messages put into msg_in_queue, per chunk stream

readerVars == <<rpc, rfmt, rcid, chunkStreams, inChunkSize, ackWindow, recvBytes,
                delivered>>

NoMsg == [got |-> <<>>, size |-> 0, partial |-> FALSE]

\* NewMessage: no payload yet (size 0 stands for a nil Payload).
NewMessage == [got |-> <<>>, size |-> 0, partial |-> TRUE]

\* NewChunkStream; started stands for MsgCount > 0.
NewChunkStream ==
    [started |-> FALSE, ext |-> FALSE, ts |-> 0, delta |-> 0,
     len |-> 0, type |-> "none", sid |-> 0, msg |-> NoMsg]

ReaderInit ==
    /\ rpc = "basic"
    /\ rfmt = 0 /\ rcid = 0
    /\ chunkStreams = [c \in Cids |-> NewChunkStream]
    /\ inChunkSize = MinChunkSize
    /\ ackWindow = 0
    /\ recvBytes = 0
    /\ delivered = [c \in Cids |-> <<>>]

\* The bytes on the wire are not what the reader takes them for.
LoseSync ==
    /\ rpc' = "desync"
    /\ UNCHANGED <<wire, rfmt, rcid, chunkStreams, inChunkSize, ackWindow, recvBytes, delivered>>

\* The function returns an error.
ReaderFails ==
    /\ rpc' = "failed"
    /\ UNCHANGED <<wire, rfmt, rcid, chunkStreams, inChunkSize, ackWindow, recvBytes, delivered>>

\* Take the first n fields off the wire.
Consume(n) ==
    /\ wire' = SubSeq(wire, n + 1, Len(wire))
    /\ recvBytes' = recvBytes + BytesOf(SubSeq(wire, 1, n))

-----------------------------------------------------------------------------
(* read_basic_header *)

\* How the six bits, and the bytes after them, make a chunk stream id.
CidSize(low) == IF low \in {0, 1} THEN low + 1 ELSE 0
CidOf(low) == IF low \in {0, 1} THEN 64 + wire[2].rest ELSE low

IsBasicHeader ==
    /\ NextIs("basic")
    /\ CidSize(wire[1].low) > 0 =>
          wire[2].kind = "cid" /\ wire[2].bytes = CidSize(wire[1].low)
    /\ CidOf(wire[1].low) \in Cids

read_basic_header ==
    /\ rpc = "basic"
    /\ Available(1)
    /\ NextIs("basic") => Available(1 + CidSize(wire[1].low))
    /\ IF IsBasicHeader
       THEN /\ rfmt' = wire[1].fmt
            /\ rcid' = CidOf(wire[1].low)
            /\ Consume(IF CidSize(wire[1].low) > 0 THEN 2 ELSE 1)
            /\ rpc' = "header"
            /\ UNCHANGED <<chunkStreams, inChunkSize, ackWindow, delivered>>
       ELSE LoseSync

-----------------------------------------------------------------------------
(* read_message_header *)

\* A new chunk stream starts with fmt 0; a message under way does not start again.
BadStart(c) ==
    \/ ~ c.started /\ rfmt # 0
    \/ c.msg.partial /\ rfmt = 0

\* "cached message size should never change"
SizeChanges(c) == rfmt <= 1 /\ c.msg.size # 0 /\ c.msg.size # wire[1].len

\* The timestamp that a header field leaves in the chunk stream.
TimestampOf(c, h) ==
    IF h.ts >= RTMP_EXTENDED_TIMESTAMP THEN RTMP_EXTENDED_TIMESTAMP
    ELSE IF h.fmt = 0 THEN h.ts ELSE c.ts + h.ts

\* Chunk stream c after a header field h of fmt 0, 1 or 2.
WithHeader(c, h) ==
    [c EXCEPT !.delta = h.ts,
              !.ext = h.ts >= RTMP_EXTENDED_TIMESTAMP,
              !.ts = TimestampOf(c, h),
              !.len = IF h.fmt <= 1 THEN h.len ELSE @,
              !.type = IF h.fmt <= 1 THEN h.type ELSE @,
              !.sid = IF h.fmt = 0 THEN h.sid ELSE @]

\* Mutant: fmt 3 never moves the timestamp.
WithoutHeader_NoDelta(c) == c

\* Chunk stream c after a chunk of fmt 3: the first chunk of a message moves the
\* timestamp on by the last delta.
WithoutHeader(c) ==
    [c EXCEPT !.ts = IF ~ c.msg.partial /\ ~ c.ext THEN @ + c.delta ELSE @]

HeaderReady == rfmt <= 2 => NextIs("header") /\ wire[1].fmt = rfmt

refuse_message_header ==
    /\ rpc = "header"
    /\ BadStart(chunkStreams[rcid])
    /\ ReaderFails

\* The length changes: the timestamp and the length are already those of the new header,
\* the rest of which is not read.
refuse_payload_length ==
    LET c == chunkStreams[rcid]
    IN /\ rpc = "header"
       /\ ~ BadStart(c)
       /\ Available(HeaderSize(rfmt)) /\ HeaderReady /\ SizeChanges(c)
       /\ chunkStreams' = [chunkStreams EXCEPT ![rcid] =
             [WithHeader(c, wire[1]) EXCEPT !.type = c.type]]
       /\ rpc' = "torn"
       /\ UNCHANGED <<wire, rfmt, rcid, inChunkSize, ackWindow, recvBytes, delivered>>

read_message_header ==
    LET c == chunkStreams[rcid]
        h == IF rfmt <= 2 THEN WithHeader(c, wire[1]) ELSE WithoutHeader(c)
    IN /\ rpc = "header"
       /\ ~ BadStart(c)
       /\ Available(HeaderSize(rfmt))
       /\ IF HeaderReady
          THEN /\ ~ SizeChanges(c)
               /\ Consume(IF rfmt <= 2 THEN 1 ELSE 0)
               /\ chunkStreams' = [chunkStreams EXCEPT ![rcid] =
                     [h EXCEPT !.msg = IF @.partial THEN @ ELSE NewMessage]]
               /\ rpc' = IF h.ext THEN "extended" ELSE "payload"
               /\ UNCHANGED <<rfmt, rcid, inChunkSize, ackWindow, delivered>>
          ELSE LoseSync

\* Mutant: the four bytes are always taken for the timestamp.
read_extended_timestamp_Always ==
    /\ rpc = "extended"
    /\ Available(4)
    /\ IF NextIs("extended")
       THEN /\ Consume(1)
            /\ chunkStreams' = [chunkStreams EXCEPT ![rcid].ts = wire[1].ts]
            /\ rpc' = "payload"
            /\ UNCHANGED <<rfmt, rcid, inChunkSize, ackWindow, delivered>>
       ELSE LoseSync

\* The last part of read_message_header.  Some peers leave the field out of fmt 3
\* chunks, so four bytes that differ from the timestamp already known are put back.
\* Payload bytes are taken to differ from it.
read_extended_timestamp ==
    LET c == chunkStreams[rcid]
        known == c.ts > RTMP_EXTENDED_TIMESTAMP
    IN /\ rpc = "extended"
       /\ Available(4)
       /\ IF known /\ ~ (NextIs("extended") /\ wire[1].ts = c.ts)
          THEN /\ rpc' = "payload"
               /\ UNCHANGED <<wire, rfmt, rcid, chunkStreams, inChunkSize, ackWindow,
                              recvBytes, delivered>>
          ELSE IF NextIs("extended")
          THEN /\ Consume(1)
               /\ chunkStreams' = [chunkStreams EXCEPT ![rcid].ts = wire[1].ts]
               /\ rpc' = "payload"
               /\ UNCHANGED <<rfmt, rcid, inChunkSize, ackWindow, delivered>>
          ELSE LoseSync

-----------------------------------------------------------------------------
(* read_message_payload, on_recv_message and the delivery *)

\* Bytes of payload in the chunk being read.
PayloadSize(c) == MinOf(c.len - Len(c.msg.got), inChunkSize)

\* The first chunk allocates the payload; the chunk stream counts as started.
read_message_payload ==
    LET c == chunkStreams[rcid]
        n == PayloadSize(c)
        got == c.msg.got \o SubSeq(wire, 1, n)
        size == IF c.msg.size = 0 THEN c.len ELSE c.msg.size
    IN /\ rpc = "payload"
       /\ Available(n)
       /\ IF NextAreData(n)
          THEN /\ Consume(n)
               /\ chunkStreams' = [chunkStreams EXCEPT ![rcid].started = TRUE,
                     ![rcid].msg = [got |-> got, size |-> size, partial |-> TRUE]]
               /\ rpc' = IF Len(got) = size THEN "message" ELSE "basic"
               /\ UNCHANGED <<rfmt, rcid, inChunkSize, ackWindow, delivered>>
          ELSE LoseSync

\* ShouldAckRead: acked_size is never moved, it stays 0.
ShouldAckRead == ackWindow > 0 /\ recvBytes > ackWindow

PCUCSetBufferLength == 3

\* Mutant: the extra data of SetBufferLength is not required.
ShortUserControl_NoExtra(c) == c.type = "UserControl" /\ c.msg.size < 2 + WordSize

\* A user control message without all of its event type, its data, and the extra data that
\* only SetBufferLength has.
ShortUserControl(c) ==
    /\ c.type = "UserControl"
    /\ \/ c.msg.size < 2 + WordSize
       \/ /\ c.msg.got[1].value = PCUCSetBufferLength
          /\ c.msg.size < 2 + WordSize + WordSize

\* Mutant: the upper limit is not checked.
Undecodable_MinOnly(c) ==
    c.type = "SetChunkSize" /\ c.msg.got[1].value < MinChunkSize

\* The decoder of a control message returns an error: the payload is too short, or a
\* chunk size is out of its limits.
Undecodable(c) ==
    \/ c.type \in {"SetChunkSize", "WindowAckSize"} /\ c.msg.size < WordSize
    \/ c.type = "SetChunkSize" /\ c.msg.got[1].value \notin MinChunkSize .. MaxChunkSize
    \/ ShortUserControl(c)

\* The message is complete: it has left its chunk stream, and the buffer, when
\* on_recv_message fails.  It is not delivered.
refuse_message ==
    LET c == chunkStreams[rcid]
    IN /\ rpc = "message"
       /\ c.msg.size > 0
       /\ ~ ShouldAckRead
       /\ Undecodable(c)
       /\ chunkStreams' = [chunkStreams EXCEPT ![rcid].msg = NoMsg]
       /\ rpc' = "failed"
       /\ UNCHANGED <<wire, rfmt, rcid, inChunkSize, ackWindow, recvBytes, delivered>>

\* Mutant: the new chunk size is not applied.
on_recv_message_NoResize ==
    LET c == chunkStreams[rcid]
    IN /\ rpc = "message"
       /\ delivered' = IF c.msg.size = 0 THEN delivered
                       ELSE [delivered EXCEPT ![rcid] = Append(@,
                               [ts |-> c.ts, type |-> c.type, sid |-> c.sid,
                                payload |-> c.msg.got])]
       /\ chunkStreams' = [chunkStreams EXCEPT ![rcid].msg = NoMsg]
       /\ rpc' = "basic"
       /\ UNCHANGED <<wire, rfmt, rcid, recvBytes, inChunkSize, ackWindow>>

\* Mutant: the chunk stream keeps the message it has delivered.
on_recv_message_KeepsMsg ==
    LET c == chunkStreams[rcid]
    IN /\ rpc = "message"
       /\ delivered' = [delivered EXCEPT ![rcid] = Append(@,
                          [ts |-> c.ts, type |-> c.type, sid |-> c.sid,
                           payload |-> c.msg.got])]
       /\ rpc' = "basic"
       /\ UNCHANGED <<wire, rfmt, rcid, recvBytes, chunkStreams, inChunkSize, ackWindow>>

\* on_recv_message applies control messages, unless an acknowledgement is due: then
\* it returns at once.  Empty messages are dropped.
on_recv_message ==
    LET c == chunkStreams[rcid]
        applied == c.msg.size > 0 /\ ~ ShouldAckRead
        value == c.msg.got[1].value
    IN /\ rpc = "message"
       /\ ~ (applied /\ Undecodable(c))
       /\ inChunkSize' = IF applied /\ c.type = "SetChunkSize" THEN value ELSE inChunkSize
       /\ ackWindow' = IF applied /\ c.type = "WindowAckSize" /\ value > 0
                       THEN value ELSE ackWindow
       /\ delivered' = IF c.msg.size = 0 THEN delivered
                       ELSE [delivered EXCEPT ![rcid] = Append(@,
                               [ts |-> c.ts, type |-> c.type, sid |-> c.sid,
                                payload |-> c.msg.got])]
       /\ chunkStreams' = [chunkStreams EXCEPT ![rcid].msg = NoMsg]
       /\ rpc' = "basic"
       /\ UNCHANGED <<wire, rfmt, rcid, recvBytes>>

-----------------------------------------------------------------------------
(* Errors *)

\* The bytes that the function the goroutine is in waits for are there.
HasBytes ==
    CASE rpc = "basic" -> /\ Available(1)
                          /\ NextIs("basic") => Available(1 + CidSize(wire[1].low))
      [] rpc = "header" -> BadStart(chunkStreams[rcid]) \/ Available(HeaderSize(rfmt))
      [] rpc = "extended" -> Available(4)
      [] rpc = "payload" -> Available(PayloadSize(chunkStreams[rcid]))
      [] OTHER -> TRUE

\* EnsureBufferBytes returns the error of the socket: no more bytes will come.
SocketFails ==
    /\ ~ HasBytes
    /\ rpc' = "cut"
    /\ UNCHANGED <<wire, rfmt, rcid, chunkStreams, inChunkSize, ackWindow, recvBytes, delivered>>

\* The sending goroutine stores the nil of its own job over the error before the loop of
\* the receiving one tests it (LoopCheck in MessagePump).  The next call reads on behind
\* the part that was refused; after an error of the socket, or one in the middle of a
\* message header, it takes what is left of a part for a basic header.
ErrorErased ==
    /\ \/ rpc = "failed" /\ rpc' = "basic"
       \/ rpc \in {"cut", "torn"} /\ wire # <<>> /\ rpc' = "astray"
    /\ UNCHANGED <<wire, rfmt, rcid, chunkStreams, inChunkSize, ackWindow, recvBytes, delivered>>

\* What the receiving goroutine does with the bytes that are there.
ReaderRuns ==
    \/ read_basic_header
    \/ read_message_header
    \/ refuse_message_header
    \/ refuse_payload_length
    \/ read_extended_timestamp
    \/ read_message_payload
    \/ refuse_message
    \/ on_recv_message

ReaderNext == ReaderRuns \/ SocketFails \/ ErrorErased

\* The reader on its own, whatever the connection delivers meanwhile.
ReaderSpec == ReaderInit /\ [][ReaderNext]_readerVars

-----------------------------------------------------------------------------
(* Properties *)

Messages == [got : Seq(Fields), size : Nat, partial : BOOLEAN]

Streams == [started : BOOLEAN, ext : BOOLEAN, ts : Nat, delta : Nat, len : Nat,
            type : MessageTypes, sid : Nat, msg : Messages]

\* Types of the reader's state; the chunk size stays within its limits, and the partial
\* message of a chunk stream never outgrows the payload allocated for it (the slice
\* bounds in read_message_payload).
ReaderTypeOK ==
    /\ rpc \in {"basic", "header", "extended", "payload", "message", "failed", "torn",
                "cut", "astray", "desync"}
    /\ rfmt \in 0 .. 3
    /\ rpc \in {"header", "extended", "payload", "message"} => rcid \in Cids
    /\ inChunkSize \in MinChunkSize .. MaxChunkSize
    /\ chunkStreams \in [Cids -> Streams]
    /\ \A c \in Cids : Len(chunkStreams[c].msg.got) <= chunkStreams[c].msg.size

\* The message of chunk stream s is absent, or begun and incomplete with the length that
\* its header announced.
Resting(s) ==
    IF s.msg.partial
    THEN 0 < Len(s.msg.got) /\ Len(s.msg.got) < s.msg.size /\ s.msg.size = s.len
    ELSE s.msg = NoMsg

\* Between two chunks every chunk stream is at rest, also when reading goes on behind a
\* basic header or a message that was refused: read_message_payload relies on it for its slice
\* bounds and for the test that a message is complete, and a message delivered, dropped or
\* refused never lingers to be mixed into the next one.
PartialMessages == rpc = "basic" => \A c \in Cids : Resting(chunkStreams[c])
=============================================================================
