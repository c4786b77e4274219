--------------------------- MODULE ReceiveBuffer ---------------------------
(***************************************************************************)
(* The receive buffer (hp_buffer.go, buffer.go, socket.go) and how the     *)
(* chunk reader (protocol.go) uses it.  For every part of a chunk it asks  *)
(* for bytes with EnsureBufferBytes, which reads the socket until enough   *)
(* are there, and reads them field by field.  Apart from that it adds up   *)
(* what it believes to have read: bh_size, mh_size and payload_size.  At   *)
(* the end of the chunk it consumes their sum.                             *)
(*                                                                         *)
(* The n-th byte the peer sends is the number n; what a chunk says is a    *)
(* free choice, ChunkReader has its meaning.                               *)
(***************************************************************************)
EXTENDS Integers, Sequences

CONSTANTS
    ReadSizes,    \* how many bytes one Read of the socket may return
    PayloadSizes, \* bytes of payload a chunk may have
    MaxBytes      \* bound: bytes sent by the peer

ASSUME BufferAssumption ==
    /\ ReadSizes \subseteq Nat \ {0}
    /\ PayloadSizes \subseteq Nat
    /\ MaxBytes \in Nat

VARIABLES
    buf, start, end,  \* BytesList
    off,              \* HPBuffer
    arrived,          \* Socket.recv_bytes
    rpc,              \* the part of the chunk that recv_interlaced_message is about to read
    format,           \* the format of the chunk
    cidBytes,         \* bytes that follow the first one of the basic header
    bh_size, mh_size, payload_size,  \* the sizes it counts
    gone,             \* bytes consumed so far
    stale             \* bytes in front of the chunk that belong to chunks given up

listVars == <<buf, start, end>>
chunkVars == <<format, cidBytes, bh_size, mh_size, payload_size>>
vars == <<listVars, off, arrived, rpc, chunkVars, gone, stale>>

Init ==
    /\ buf = <<>> /\ start = 0 /\ end = 0
    /\ off = 0
    /\ arrived = 0
    /\ rpc = "basic" /\ format = 0 /\ cidBytes = 0
    /\ bh_size = 0 /\ mh_size = 0 /\ payload_size = 0
    /\ gone = 0 /\ stale = 0

\* BytesList.Len, BytesList.Bytes and HPBuffer.Len.
ListLen == end - start
Bytes == SubSeq(buf, start + 1, end)
BufferLen == ListLen - off

Zeros(n) == [i \in 1 .. n |-> 0]

\* grow_to: buf with room for n bytes from start on.
GrownBuf(n) ==
    LET capacity_grow == n - (Len(buf) - start)
    IN IF capacity_grow > 0 THEN buf \o Zeros(capacity_grow) ELSE buf

\* Mutant: the place to copy to is counted from the beginning of buf.
AppendBytes_FromZero(b) ==
    LET grown == GrownBuf(ListLen + Len(b))
    IN /\ buf' = [i \in 1 .. Len(grown) |->
                     IF i > ListLen /\ i <= ListLen + Len(b) THEN b[i - ListLen] ELSE grown[i]]
       /\ end' = end + Len(b)
       /\ UNCHANGED start

\* BytesList.Append: grow, then copy behind the bytes that are there.
AppendBytes(b) ==
    LET grown == GrownBuf(ListLen + Len(b))
    IN /\ buf' = [i \in 1 .. Len(grown) |->
                     IF i > end /\ i <= end + Len(b) THEN b[i - end] ELSE grown[i]]
       /\ end' = end + Len(b)
       /\ UNCHANGED start

\* Mutant: a list that becomes empty keeps its end.
Remove_KeepsEnd(n) ==
    IF n >= ListLen THEN start' = 0 /\ end' = end
    ELSE start' = start + n /\ end' = end

\* BytesList.Remove for n > 0.
Remove(n) ==
    IF n >= ListLen THEN start' = 0 /\ end' = 0
    ELSE start' = start + n /\ end' = end

-----------------------------------------------------------------------------
(* EnsureBufferBytes *)

\* How many bytes it is asked for.
Need ==
    CASE rpc = "basic" -> 1
      [] rpc = "cid" -> cidBytes
      [] rpc = "header" -> mh_size
      [] rpc = "extended" -> 4
      [] rpc = "payload" -> payload_size
      [] OTHER -> 0

\* One round of its loop.
SocketRead(k) ==
    /\ BufferLen < Need
    /\ arrived + k <= MaxBytes
    /\ AppendBytes([i \in 1 .. k |-> arrived + i])
    /\ arrived' = arrived + k
    /\ UNCHANGED <<off, rpc, chunkVars, gone, stale>>

\* The peer closes the connection, or the socket reports an error.
SocketFail ==
    /\ BufferLen < Need
    /\ rpc' = "failed"
    /\ UNCHANGED <<listVars, off, arrived, chunkVars, gone, stale>>

-----------------------------------------------------------------------------
(* The parts of a chunk *)

\* The reader is at part p and EnsureBufferBytes has returned: it reads n bytes.
ReadPart(p, n) ==
    /\ rpc = p
    /\ BufferLen >= Need
    /\ off' = off + n
    /\ UNCHANGED <<listVars, arrived, gone, stale>>

\* read_basic_header: format and chunk stream id in one byte, or the escapes 0 and 1.
ReadBasicHeader ==
    /\ ReadPart("basic", 1)
    /\ format' \in 0 .. 3
    /\ cidBytes' \in 0 .. 2
    /\ bh_size' = 1
    /\ rpc' = IF cidBytes' = 0 THEN "begin" ELSE "cid"
    /\ UNCHANGED <<mh_size, payload_size>>

\* Mutant: the basic header of three bytes is counted as two.
ReadCid_CountsTwo ==
    /\ ReadPart("cid", cidBytes)
    /\ bh_size' = 2
    /\ rpc' = "begin"
    /\ UNCHANGED <<format, cidBytes, mh_size, payload_size>>

\* The rest of the basic header: one or two calls of ReadByte.
ReadCid ==
    /\ ReadPart("cid", cidBytes)
    /\ bh_size' = IF cidBytes = 1 THEN 2 ELSE 3
    /\ rpc' = "begin"
    /\ UNCHANGED <<format, cidBytes, mh_size, payload_size>>

\* mh_sizes: what the reader counts for a message header of each format.
mh_sizes == [f \in 0 .. 3 |-> <<11, 7, 3, 0>>[f + 1]]

\* read_message_header looks at the state of the chunk stream, which ReaderRefuses may
\* find wrong, and at the format.
BeginHeader ==
    /\ rpc = "begin"
    /\ mh_size' = mh_sizes[format]
    /\ rpc' = "header"
    /\ UNCHANGED <<listVars, off, arrived, format, cidBytes, bh_size, payload_size, gone, stale>>

\* What it reads: a timestamp, a length and a type, and a stream id.
HeaderFields ==
    (IF format <= 2 THEN 3 ELSE 0) + (IF format <= 1 THEN 3 + 1 ELSE 0)
        + (IF format = 0 THEN 4 ELSE 0)

\* The fields of the message header; an extended timestamp may follow.
ReadMessageHeader ==
    /\ ReadPart("header", HeaderFields)
    /\ \/ rpc' = "extended" /\ mh_size' = mh_size + 4 /\ UNCHANGED payload_size
       \/ rpc' = "payload" /\ payload_size' \in PayloadSizes /\ UNCHANGED mh_size
    /\ UNCHANGED <<format, cidBytes, bh_size>>

\* The extended timestamp.
ReadExtended ==
    /\ ReadPart("extended", 4)
    /\ rpc' = "payload" /\ payload_size' \in PayloadSizes
    /\ UNCHANGED <<format, cidBytes, bh_size, mh_size>>

\* The peer did not send it: mh_size -= 4 and Skip(-4) after the four bytes are read.
PutBack ==
    /\ ReadPart("extended", 4 - 4)
    /\ mh_size' = mh_size - 4
    /\ rpc' = "payload" /\ payload_size' \in PayloadSizes
    /\ UNCHANGED <<format, cidBytes, bh_size>>

\* The chunk breaks the protocol: its format does not suit the state of the chunk stream,
\* which is seen before the message header is read, or the length of a partial message
\* changes, which is seen behind the length.
ReaderRefuses ==
    /\ \/ rpc = "begin" /\ UNCHANGED <<listVars, off, arrived, gone, stale>>
       \/ format <= 1 /\ ReadPart("header", 3 + 3)
    /\ rpc' = "failed"
    /\ UNCHANGED chunkVars

\* read_message_payload: an empty message has nothing to read.
ReadPayload ==
    /\ ReadPart("payload", payload_size)
    /\ rpc' = "consume"
    /\ UNCHANGED chunkVars

\* r.buffer.Consume(mh_size + bh_size + payload_size) at the end of the chunk; for an empty
\* message the sum is without the payload_size, which is 0.
Consume ==
    LET n == mh_size + bh_size + payload_size
    IN /\ rpc = "consume"
       /\ Remove(n)
       /\ off' = off - n
       /\ gone' = gone + n
       /\ bh_size' = 0 /\ mh_size' = 0 /\ payload_size' = 0
       /\ rpc' = "basic"
       /\ UNCHANGED <<buf, arrived, format, cidBytes, stale>>

\* The sending goroutine stores the nil of its own job over the error before the loop of
\* the receiving one tests it (LoopCheck in MessagePump): the next call begins a chunk where
\* the last one stopped, with new counts, and what that one read stays in front.
ErrorErased ==
    /\ rpc = "failed"
    /\ rpc' = "basic"
    /\ bh_size' = 0 /\ mh_size' = 0 /\ payload_size' = 0
    /\ stale' = off
    /\ UNCHANGED <<listVars, off, arrived, format, cidBytes, gone>>

\* What the reader does when it is not waiting for the socket.
ReaderSteps ==
    \/ ReadBasicHeader \/ ReadCid
    \/ BeginHeader \/ ReadMessageHeader \/ ReadExtended \/ PutBack \/ ReaderRefuses
    \/ ReadPayload \/ Consume
    \/ ErrorErased

Next ==
    \/ \E k \in ReadSizes : SocketRead(k)
    \/ SocketFail
    \/ ReaderSteps

Spec == Init /\ [][Next]_vars

-----------------------------------------------------------------------------
(* Properties *)

\* Types and slice bounds: Bytes() and the reading position stay inside the buffer.
BufferTypeOK ==
    /\ buf \in Seq(Nat)
    /\ start \in Nat /\ end \in Nat
    /\ start <= end /\ end <= Len(buf)
    /\ off \in 0 .. ListLen
    /\ arrived \in Nat /\ gone \in Nat /\ stale \in Nat
    /\ rpc \in {"basic", "cid", "begin", "header", "extended", "payload", "consume", "failed"}
    /\ format \in 0 .. 3 /\ cidBytes \in 0 .. 2
    /\ bh_size \in 0 .. 3 /\ mh_size \in 0 .. 15 /\ payload_size \in Nat

\* No byte is lost, repeated or reordered, whatever pieces the socket delivers them in
\* and wherever the list is reset: the list holds the bytes from the first one not
\* consumed to the last one arrived.
BytesInOrder ==
    /\ ListLen = arrived - gone
    /\ \A i \in 1 .. ListLen : buf[start + i] = gone + i

\* The sizes that the reader adds up apart from reading (protocol.go:521-538, 593, 671-684,
\* 716) agree with the fields it has read, so that a Consume removes what the chunk had and
\* no more: a new chunk begins with nothing in front of it but what chunks given up left.
CountsAgree ==
    /\ rpc = "basic" => off = stale
    /\ rpc = "consume" => off = stale + bh_size + mh_size + payload_size

\* BytesList and HPBuffer are a list with a position.
List == INSTANCE ByteList WITH bytes <- Bytes, pos <- off
ImplementsList == List!Spec
=============================================================================
