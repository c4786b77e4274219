---------------------------- MODULE ChunkFields ----------------------------
(***************************************************************************)
(* The byte stream between two RTMP peers is the sequence of fields that   *)
(* the sender wrote.  A field knows how many bytes it occupies.            *)
(***************************************************************************)
EXTENDS Naturals, Sequences

CONSTANT
    RTMP_EXTENDED_TIMESTAMP   \* 0xFFFFFF, the largest value of the 3-byte field

ASSUME ExtendedTimestampAssumption == RTMP_EXTENDED_TIMESTAMP \in Nat \ {0}

MinOf(a, b) == IF a <= b THEN a ELSE b

\* mh_sizes: bytes of the message header for fmt 0, 1, 2, 3.
HeaderSize(fmt) == <<11, 7, 3, 0>>[fmt + 1]

\* The first byte of a chunk: two bits of fmt, six bits of chunk stream id.
BasicField(fmt, low) == [kind |-> "basic", bytes |-> 1, fmt |-> fmt, low |-> low]

\* One or two more bytes of chunk stream id, after the values 0 and 1 of the six bits.
CidField(bytes, rest) == [kind |-> "cid", bytes |-> bytes, rest |-> rest]

\* The fields of a message header; fmt 1 leaves out the stream id, fmt 2 the rest too.
HeaderField(fmt, ts, msg) ==
    [kind |-> "header", bytes |-> HeaderSize(fmt), fmt |-> fmt, ts |-> ts,
     len |-> msg.len, type |-> msg.type, sid |-> msg.sid]

ExtendedField(ts) == [kind |-> "extended", bytes |-> 4, ts |-> ts]

\* Byte i of the payload of message id; value is what the whole payload encodes
\* (the size, the window or the event type of a control message).
DataField(id, i, value) ==
    [kind |-> "data", bytes |-> 1, id |-> id, i |-> i, value |-> value]

\* Bytes of payload first+1 .. first+n of message msg.
DataFields(msg, first, n) ==
    [i \in 1 .. n |-> DataField(msg.id, first + i, msg.value)]

\* The message types the chunk layer tells apart: Request is a connect or createStream
\* command, Media stands for all the others.
MessageTypes == {"none", "Media", "Request", "SetChunkSize", "WindowAckSize", "UserControl"}

\* Everything that can be on the wire.
Fields ==
    [kind : {"basic"}, bytes : {1}, fmt : 0 .. 3, low : 0 .. 63]
    \cup [kind : {"cid"}, bytes : {1, 2}, rest : Nat]
    \cup [kind : {"header"}, bytes : {3, 7, 11}, fmt : 0 .. 2, ts : Nat,
          len : Nat, type : MessageTypes, sid : Nat]
    \cup [kind : {"extended"}, bytes : {4}, ts : Nat]
    \cup [kind : {"data"}, bytes : {1}, id : Nat, i : Nat, value : Nat]

\* Length in bytes of a sequence of fields.
BytesOf(fields) ==
    LET sum[i \in 0 .. Len(fields)] == IF i = 0 THEN 0 ELSE sum[i - 1] + fields[i].bytes
    IN sum[Len(fields)]

-----------------------------------------------------------------------------
(* What do_send_msg_goroutine_job writes *)

\* Messages that are sent; the id tells them apart in the properties.
OutMessages == [cid : Nat, len : Nat, type : MessageTypes, value : Nat, ts : Nat,
                sid : Nat, id : Nat]

\* Mutant: the field is never written.
ExtendedTimestamp_Missing(m) == <<>>

\* The field after a header, in every chunk of the message.
ExtendedTimestamp(m) ==
    IF m.ts > RTMP_EXTENDED_TIMESTAMP THEN <<ExtendedField(m.ts)>> ELSE <<>>

\* Header of the first chunk (fmt 0) or of another one (fmt 3); PerferCid & 0x3F.
ChunkHeader(m, first) ==
    IF first
    THEN <<BasicField(0, m.cid % 64),
           HeaderField(0, MinOf(m.ts, RTMP_EXTENDED_TIMESTAMP), m)>> \o ExtendedTimestamp(m)
    ELSE <<BasicField(3, m.cid % 64)>> \o ExtendedTimestamp(m)
=============================================================================
