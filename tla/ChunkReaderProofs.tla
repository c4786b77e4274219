------------------------- MODULE ChunkReaderProofs -------------------------
(***************************************************************************)
(* The reader keeps its partial messages consistent whatever fields arrive *)
(* on the wire: for every peer, any number of chunk streams and any limits *)
(* of the chunk size, and also when it reads on after an error.            *)
(*                                                                         *)
(* Argument: read_message_header changes the announced length only when    *)
(* no payload is allocated (fmt 0 is refused under way, fmt 1 must repeat  *)
(* the length), so the length of a message under way stays the one that    *)
(* was allocated (Underway), and read_message_payload adds at most what is *)
(* missing.  A refused header leaves the chunk streams alone; a refused    *)
(* message has left its chunk stream before it is decoded.                 *)
(***************************************************************************)
EXTENDS ChunkReader, TLAPS

\* The wire holds fields, in any order.
WireOK == wire \in Seq(Fields)

\* The message of the chunk being read: just created, or as it rested before.
Underway(s) ==
    /\ s.msg.partial
    /\ IF s.msg.size = 0 THEN s.msg.got = <<>>
       ELSE 0 < Len(s.msg.got) /\ Len(s.msg.got) < s.msg.size /\ s.msg.size = s.len

RInv ==
    /\ ReaderTypeOK
    /\ rpc \in {"basic", "header", "failed"} => \A c \in Cids : Resting(chunkStreams[c])
    /\ rpc \in {"extended", "payload", "message"} =>
          \A c \in Cids \ {rcid} : Resting(chunkStreams[c])
    /\ rpc \in {"extended", "payload"} => Underway(chunkStreams[rcid])

\* What the kind of a field says about its parts.
LEMMA FieldParts ==
    ASSUME NEW f \in Fields
    PROVE  /\ f.kind = "basic" => f.fmt \in 0 .. 3
           /\ f.kind = "header" => /\ f.ts \in Nat /\ f.len \in Nat
                                   /\ f.type \in MessageTypes /\ f.sid \in Nat
           /\ f.kind = "extended" => f.ts \in Nat
  BY DEF Fields

\* A new stack satisfies the invariant.
LEMMA ReaderInitRInv == ReaderInit => RInv
  <1> SUFFICES ASSUME ReaderInit PROVE RInv
    OBVIOUS
  <1>1. NoMsg \in Messages /\ Len(NoMsg.got) <= NoMsg.size
    BY DEF NoMsg, Messages
  <1>2. NewChunkStream \in Streams /\ NewChunkStream.msg = NoMsg /\ ~ NoMsg.partial
    <2>1. NewChunkStream \in Streams
      <3>1. ASSUME NEW b \in BOOLEAN, NEW z \in Nat, NEW t \in MessageTypes, NEW m \in Messages
            PROVE  [started |-> b, ext |-> b, ts |-> z, delta |-> z, len |-> z,
                    type |-> t, sid |-> z, msg |-> m] \in Streams
        BY DEF Streams
      <3>2. 0 \in Nat
        OBVIOUS
      <3>3. "none" \in MessageTypes
        BY DEF MessageTypes
      <3>4. FALSE \in BOOLEAN
        BY Zenon
      <3> QED BY <1>1, <3>1, <3>2, <3>3, <3>4, Zenon DEF NewChunkStream
    <2>2. NewChunkStream.msg = NoMsg
      BY DEF NewChunkStream
    <2>3. ~ NoMsg.partial
      BY DEF NoMsg
    <2> QED BY <2>1, <2>2, <2>3
  <1>3. chunkStreams = [c \in Cids |-> NewChunkStream]
    BY DEF ReaderInit
  <1>4. ReaderTypeOK
    BY <1>1, <1>2, <1>3, ReaderAssumption DEF ReaderInit, ReaderTypeOK
  <1>5. \A c \in Cids : Resting(chunkStreams[c])
    BY <1>2, <1>3 DEF Resting
  <1> QED BY <1>4, <1>5 DEF RInv, ReaderInit

\* read_basic_header chooses a chunk stream and touches none.
LEMMA BasicStep == RInv /\ WireOK /\ read_basic_header => RInv'
  <1> SUFFICES ASSUME RInv, WireOK, read_basic_header PROVE RInv'
    OBVIOUS
  <1>1. CASE IsBasicHeader
    <2>1. wire[1] \in Fields /\ wire[1].kind = "basic"
      BY <1>1 DEF IsBasicHeader, NextIs, WireOK
    <2>2. wire[1].fmt \in 0 .. 3
      BY <2>1, FieldParts
    <2> QED BY <1>1, <2>2 DEF read_basic_header, RInv, ReaderTypeOK, IsBasicHeader
  <1>2. CASE ~ IsBasicHeader
    BY <1>2 DEF read_basic_header, LoseSync, RInv, ReaderTypeOK
  <1> QED BY <1>1, <1>2

\* A header field leaves a well-typed chunk stream with the same message.
LEMMA HeaderType ==
    ASSUME NEW s \in Streams, NEW f \in Fields, f.kind = "header", f.fmt \in 0 .. 3
    PROVE  /\ WithHeader(s, f) \in Streams
           /\ WithHeader(s, f).msg = s.msg
           /\ WithHeader(s, f).len = IF f.fmt <= 1 THEN f.len ELSE s.len
  <1>1. f.ts \in Nat /\ f.len \in Nat /\ f.type \in MessageTypes /\ f.sid \in Nat
    BY FieldParts
  <1>2. TimestampOf(s, f) \in Nat
    BY <1>1, ExtendedTimestampAssumption DEF TimestampOf, Streams
  <1> DEFINE len == IF f.fmt <= 1 THEN f.len ELSE s.len
             type == IF f.fmt <= 1 THEN f.type ELSE s.type
             sid == IF f.fmt = 0 THEN f.sid ELSE s.sid
             ext == f.ts >= RTMP_EXTENDED_TIMESTAMP
             ts == TimestampOf(s, f)
  <1>3. /\ len \in Nat /\ type \in MessageTypes /\ sid \in Nat
        /\ ext \in BOOLEAN
    BY <1>1, ExtendedTimestampAssumption DEF Streams
  <1>4. WithHeader(s, f) =
          [s EXCEPT !.delta = f.ts, !.ext = ext, !.ts = ts, !.len = len,
                    !.type = type, !.sid = sid]
    BY DEF WithHeader, Streams
  <1> HIDE DEF len, type, sid, ext, ts
  <1>5. ts \in Nat
    BY <1>2 DEF ts
  <1>6. WithHeader(s, f) \in Streams
    BY <1>1, <1>3, <1>4, <1>5 DEF Streams
  <1>7. WithHeader(s, f).msg = s.msg /\ WithHeader(s, f).len = len
    BY <1>4 DEF Streams
  <1> QED BY <1>6, <1>7 DEF len

\* A chunk without header field leaves a well-typed chunk stream with the same message.
LEMMA NoHeaderType ==
    ASSUME NEW s \in Streams
    PROVE  /\ WithoutHeader(s) \in Streams
           /\ WithoutHeader(s).msg = s.msg
           /\ WithoutHeader(s).len = s.len
  <1> DEFINE ts == IF ~ s.msg.partial /\ ~ s.ext THEN s.ts + s.delta ELSE s.ts
  <1>1. ts \in Nat
    BY DEF Streams
  <1>2. WithoutHeader(s) = [s EXCEPT !.ts = ts]
    BY DEF WithoutHeader, Streams
  <1> HIDE DEF ts
  <1> QED BY <1>1, <1>2 DEF Streams

\* read_message_header: the length changes only when no payload is allocated.
LEMMA HeaderStep == RInv /\ WireOK /\ read_message_header => RInv'
  <1> SUFFICES ASSUME RInv, WireOK, read_message_header PROVE RInv'
    OBVIOUS
  <1> DEFINE c == chunkStreams[rcid]
             h == IF rfmt <= 2 THEN WithHeader(c, wire[1]) ELSE WithoutHeader(c)
             m == IF h.msg.partial THEN h.msg ELSE NewMessage
             s == [h EXCEPT !.msg = m]
  <1>t. /\ rcid \in Cids /\ rfmt \in 0 .. 3
        /\ chunkStreams \in [Cids -> Streams] /\ c \in Streams
        /\ \A d \in Cids : Resting(chunkStreams[d])
        /\ \A d \in Cids : Len(chunkStreams[d].msg.got) <= chunkStreams[d].msg.size
    BY DEF read_message_header, RInv, ReaderTypeOK
  <1>1. CASE HeaderReady
    <2>1. /\ ~ BadStart(c) /\ ~ SizeChanges(c)
          /\ chunkStreams' = [chunkStreams EXCEPT ![rcid] = s]
          /\ rpc' \in {"extended", "payload"}
          /\ rfmt' = rfmt /\ rcid' = rcid /\ inChunkSize' = inChunkSize
      BY <1>1 DEF read_message_header
    <2>2. /\ h \in Streams
          /\ h.msg = c.msg
          /\ h.len = IF rfmt <= 1 THEN wire[1].len ELSE c.len
      <3>1. CASE rfmt <= 2
        <4>1. wire[1] \in Fields /\ wire[1].kind = "header" /\ wire[1].fmt = rfmt
          BY <1>1, <3>1 DEF HeaderReady, NextIs, WireOK
        <4> QED BY <1>t, <3>1, <4>1, HeaderType
      <3>2. CASE ~ (rfmt <= 2)
        BY <1>t, <3>2, NoHeaderType
      <3> QED BY <3>1, <3>2
    <2> HIDE DEF h
    <2>3. NewMessage \in Messages /\ NewMessage.partial /\ NewMessage.got = <<>>
          /\ NewMessage.size = 0
      BY DEF NewMessage, Messages
    <2>4. m \in Messages /\ m.partial /\ Len(m.got) <= m.size
      BY <1>t, <2>2, <2>3 DEF Streams
    <2>5. s \in Streams /\ s.msg = m /\ s.len = h.len
      BY <2>2, <2>4 DEF Streams
    <2>6. Underway(s)
      <3>1. CASE c.msg.partial
        <4>1. 0 < Len(c.msg.got) /\ Len(c.msg.got) < c.msg.size /\ c.msg.size = c.len
          BY <1>t, <3>1 DEF Resting
        <4>2. c.msg.size # 0
          BY <1>t, <4>1 DEF Streams, Messages
        <4>3. h.len = c.len
          BY <1>t, <2>1, <2>2, <4>1, <4>2 DEF SizeChanges
        <4> QED BY <2>2, <2>5, <3>1, <4>1, <4>2, <4>3 DEF Underway
      <3>2. CASE ~ c.msg.partial
        BY <2>2, <2>3, <2>5, <3>2 DEF Underway
      <3> QED BY <3>1, <3>2
    <2> HIDE DEF s, m
    <2>7. ReaderTypeOK'
      BY <1>t, <2>1, <2>4, <2>5 DEF RInv, ReaderTypeOK
    <2>8. \A d \in Cids \ {rcid} : chunkStreams'[d] = chunkStreams[d]
      BY <1>t, <2>1
    <2> QED BY <1>t, <2>1, <2>6, <2>7, <2>8 DEF RInv
  <1>2. CASE ~ HeaderReady
    BY <1>2 DEF read_message_header, LoseSync, RInv, ReaderTypeOK
  <1> QED BY <1>1, <1>2

\* A length that changes leaves the message that is under way as it is.
LEMMA LengthStep == RInv /\ WireOK /\ refuse_payload_length => RInv'
  <1> SUFFICES ASSUME RInv, WireOK, refuse_payload_length PROVE RInv'
    OBVIOUS
  <1> DEFINE c == chunkStreams[rcid]
             h == WithHeader(c, wire[1])
             s == [h EXCEPT !.type = c.type]
  <1>t. /\ rcid \in Cids /\ rfmt \in 0 .. 1
        /\ chunkStreams \in [Cids -> Streams] /\ c \in Streams
        /\ \A d \in Cids : Len(chunkStreams[d].msg.got) <= chunkStreams[d].msg.size
    BY DEF refuse_payload_length, SizeChanges, RInv, ReaderTypeOK
  <1>1. /\ chunkStreams' = [chunkStreams EXCEPT ![rcid] = s]
        /\ rpc' = "torn"
        /\ rfmt' = rfmt /\ rcid' = rcid /\ inChunkSize' = inChunkSize
    BY DEF refuse_payload_length
  <1>2. wire[1] \in Fields /\ wire[1].kind = "header" /\ wire[1].fmt = rfmt
    BY <1>t DEF refuse_payload_length, HeaderReady, NextIs, WireOK
  <1>3. h \in Streams /\ h.msg = c.msg
    BY <1>t, <1>2, HeaderType
  <1> HIDE DEF h
  <1>4. s \in Streams /\ s.msg = c.msg
    BY <1>t, <1>3 DEF Streams
  <1> HIDE DEF s
  <1>5. ReaderTypeOK'
    BY <1>t, <1>1, <1>4 DEF RInv, ReaderTypeOK
  <1> QED BY <1>1, <1>5 DEF RInv

\* The extended timestamp changes nothing but the timestamp.
LEMMA ExtendedStep == RInv /\ WireOK /\ read_extended_timestamp => RInv'
  <1> SUFFICES ASSUME RInv, WireOK, read_extended_timestamp PROVE RInv'
    OBVIOUS
  <1>t. /\ rpc = "extended" /\ rcid \in Cids /\ chunkStreams \in [Cids -> Streams]
        /\ \A d \in Cids \ {rcid} : Resting(chunkStreams[d])
        /\ Underway(chunkStreams[rcid])
        /\ \A d \in Cids : Len(chunkStreams[d].msg.got) <= chunkStreams[d].msg.size
    BY DEF read_extended_timestamp, RInv, ReaderTypeOK
  <1>1. CASE rpc' = "payload" /\ UNCHANGED <<rfmt, rcid, chunkStreams, inChunkSize>>
    BY <1>1, <1>t DEF RInv, ReaderTypeOK
  <1>2. CASE /\ NextIs("extended") /\ rpc' = "payload"
             /\ UNCHANGED <<rfmt, rcid, inChunkSize>>
             /\ chunkStreams' = [chunkStreams EXCEPT ![rcid].ts = wire[1].ts]
    <2>1. wire[1].ts \in Nat
      BY <1>2, FieldParts DEF NextIs, WireOK
    <2>2. /\ chunkStreams'[rcid] \in Streams
          /\ chunkStreams'[rcid].msg = chunkStreams[rcid].msg
          /\ chunkStreams'[rcid].len = chunkStreams[rcid].len
      BY <1>2, <1>t, <2>1 DEF Streams
    <2>3. \A d \in Cids \ {rcid} : chunkStreams'[d] = chunkStreams[d]
      BY <1>2, <1>t
    <2>4. chunkStreams' \in [Cids -> Streams]
      BY <1>2, <1>t, <2>2, <2>3
    <2>5. Underway(chunkStreams'[rcid])
      BY <1>t, <2>2 DEF Underway
    <2>6. \A d \in Cids : Len(chunkStreams'[d].msg.got) <= chunkStreams'[d].msg.size
      BY <1>t, <2>2, <2>3
    <2> QED BY <1>2, <1>t, <2>3, <2>4, <2>5, <2>6 DEF RInv, ReaderTypeOK
  <1>3. CASE LoseSync
    BY <1>3 DEF LoseSync, RInv, ReaderTypeOK
  <1> QED BY <1>1, <1>2, <1>3 DEF read_extended_timestamp

\* read_message_payload adds at most what is missing; the message is complete exactly
\* when all of it is there.
LEMMA PayloadStep == RInv /\ WireOK /\ read_message_payload => RInv'
  <1> SUFFICES ASSUME RInv, WireOK, read_message_payload PROVE RInv'
    OBVIOUS
  <1> DEFINE c == chunkStreams[rcid]
             n == PayloadSize(c)
             got == c.msg.got \o SubSeq(wire, 1, n)
             size == IF c.msg.size = 0 THEN c.len ELSE c.msg.size
             m == [got |-> got, size |-> size, partial |-> TRUE]
  <1>t. /\ rcid \in Cids /\ chunkStreams \in [Cids -> Streams] /\ c \in Streams
        /\ \A d \in Cids \ {rcid} : Resting(chunkStreams[d])
        /\ Underway(c)
        /\ \A d \in Cids : Len(chunkStreams[d].msg.got) <= chunkStreams[d].msg.size
        /\ inChunkSize \in Nat /\ inChunkSize >= 1
    BY ReaderAssumption DEF read_message_payload, RInv, ReaderTypeOK
  <1>s. c.msg.got \in Seq(Fields) /\ c.msg.size \in Nat /\ c.len \in Nat
    BY <1>t DEF Streams, Messages
  <1>1. CASE NextAreData(n)
    <2>1. /\ chunkStreams' = [chunkStreams EXCEPT ![rcid].started = TRUE, ![rcid].msg = m]
          /\ rpc' = IF Len(got) = size THEN "message" ELSE "basic"
          /\ rfmt' = rfmt /\ rcid' = rcid /\ inChunkSize' = inChunkSize
      BY <1>1 DEF read_message_payload
    <2>2. /\ size \in Nat /\ size = c.len
          /\ Len(c.msg.got) <= size
          /\ n \in Nat /\ n <= size - Len(c.msg.got)
          /\ Len(c.msg.got) < size => n >= 1
      <3>1. size = c.len /\ Len(c.msg.got) \in Nat /\ Len(c.msg.got) <= c.len
        BY <1>t, <1>s DEF Underway
      <3>2. n = IF c.len - Len(c.msg.got) <= inChunkSize
                THEN c.len - Len(c.msg.got) ELSE inChunkSize
        BY <1>s, <1>t, <3>1 DEF PayloadSize, MinOf
      <3> HIDE DEF n, size, c
      <3> QED BY <1>s, <1>t, <3>1, <3>2
    <2>3. Len(wire) >= n /\ wire \in Seq(Fields)
      BY <1>1 DEF NextAreData, WireOK
    <2>4. SubSeq(wire, 1, n) \in Seq(Fields) /\ Len(SubSeq(wire, 1, n)) = n
      BY <2>2, <2>3
    <2>5. got \in Seq(Fields) /\ Len(got) = Len(c.msg.got) + n
      BY <1>s, <2>4
    <2> HIDE DEF n, got, size
    <2>7. m \in Messages /\ m.got = got /\ m.size = size /\ m.partial = TRUE
      BY <2>2, <2>5 DEF Messages
    <2> HIDE DEF m
    <2>8. /\ chunkStreams'[rcid] \in Streams
          /\ chunkStreams'[rcid].msg = m
          /\ chunkStreams'[rcid].len = c.len
      BY <1>t, <2>1, <2>7 DEF Streams
    <2>9. \A d \in Cids \ {rcid} : chunkStreams'[d] = chunkStreams[d]
      BY <1>t, <2>1
    <2>10. chunkStreams' \in [Cids -> Streams]
      BY <1>t, <2>1, <2>8, <2>9
    <2>11. Len(got) <= size
      BY <1>s, <2>2, <2>5
    <2>12. \A d \in Cids : Len(chunkStreams'[d].msg.got) <= chunkStreams'[d].msg.size
      BY <1>t, <2>7, <2>8, <2>9, <2>11
    <2>13. ReaderTypeOK'
      BY <1>t, <2>1, <2>10, <2>12 DEF RInv, ReaderTypeOK
    <2>14. ASSUME Len(got) # size PROVE Resting(chunkStreams'[rcid])
      <3>1. 0 < Len(got) /\ Len(got) < size
        <4>1. Len(c.msg.got) \in Nat /\ Len(got) # size
          BY <1>s, <2>14
        <4>2. \A g, k, z, t \in Nat :
                /\ t = g + k /\ g <= z /\ k <= z - g /\ t # z
                /\ (g < z => k >= 1)
                => 0 < t /\ t < z
          OBVIOUS
        <4>3. Len(got) \in Nat
          BY <2>5
        <4> HIDE DEF c
        <4> QED BY <2>2, <2>5, <4>1, <4>2, <4>3
      <3>2. chunkStreams'[rcid].msg.partial
        BY <2>7, <2>8
      <3> QED BY <2>2, <2>7, <2>8, <3>1, <3>2 DEF Resting
    <2> QED BY <1>t, <2>1, <2>9, <2>13, <2>14 DEF RInv
  <1>2. CASE ~ NextAreData(n)
    BY <1>2 DEF read_message_payload, LoseSync, RInv, ReaderTypeOK
  <1> QED BY <1>1, <1>2

\* on_recv_message gives the message away and keeps the chunk size within its limits; a
\* message that it refuses is gone too.
LEMMA MessageStep == RInv /\ (on_recv_message \/ refuse_message) => RInv'
  <1> SUFFICES ASSUME RInv, on_recv_message \/ refuse_message PROVE RInv'
    OBVIOUS
  <1>t. /\ rpc = "message" /\ rcid \in Cids /\ chunkStreams \in [Cids -> Streams]
        /\ \A d \in Cids \ {rcid} : Resting(chunkStreams[d])
        /\ \A d \in Cids : Len(chunkStreams[d].msg.got) <= chunkStreams[d].msg.size
        /\ chunkStreams' = [chunkStreams EXCEPT ![rcid].msg = NoMsg]
        /\ rpc' \in {"basic", "failed"} /\ rfmt' = rfmt /\ rcid' = rcid
    BY DEF on_recv_message, refuse_message, RInv, ReaderTypeOK
  <1>1. inChunkSize' \in MinChunkSize .. MaxChunkSize
    BY DEF on_recv_message, refuse_message, Undecodable, RInv, ReaderTypeOK
  <1>2. NoMsg \in Messages /\ Len(NoMsg.got) <= NoMsg.size /\ ~ NoMsg.partial
    BY DEF NoMsg, Messages
  <1>3. chunkStreams'[rcid] \in Streams /\ chunkStreams'[rcid].msg = NoMsg
    BY <1>t, <1>2 DEF Streams
  <1>4. \A d \in Cids \ {rcid} : chunkStreams'[d] = chunkStreams[d]
    BY <1>t
  <1>5. chunkStreams' \in [Cids -> Streams]
    BY <1>t, <1>3, <1>4
  <1>6. \A d \in Cids : Resting(chunkStreams'[d])
    BY <1>t, <1>2, <1>3, <1>4 DEF Resting
  <1>7. \A d \in Cids : Len(chunkStreams'[d].msg.got) <= chunkStreams'[d].msg.size
    BY <1>t, <1>2, <1>3, <1>4
  <1> QED BY <1>t, <1>1, <1>5, <1>6, <1>7 DEF RInv, ReaderTypeOK

\* The invariant is inductive for any wire.
LEMMA RInvStep == RInv /\ WireOK /\ [ReaderNext]_readerVars => RInv'
  <1> SUFFICES ASSUME RInv, WireOK, [ReaderNext]_readerVars PROVE RInv'
    OBVIOUS
  <1>1. CASE refuse_message_header \/ SocketFails \/ ErrorErased
    BY <1>1 DEF refuse_message_header, ReaderFails, SocketFails, ErrorErased, RInv, ReaderTypeOK
  <1>2. CASE UNCHANGED readerVars
    BY <1>2 DEF readerVars, RInv, ReaderTypeOK
  <1> QED BY <1>1, <1>2, BasicStep, HeaderStep, LengthStep, ExtendedStep, PayloadStep,
             MessageStep
          DEF ReaderNext, ReaderRuns

\* Types, limits of the chunk size and slice bounds hold whatever the peer sends.
THEOREM ReaderTypeCorrect == ReaderSpec /\ []WireOK => []ReaderTypeOK
  <1>1. RInv => ReaderTypeOK
    BY DEF RInv
  <1> QED BY <1>1, ReaderInitRInv, RInvStep, PTL DEF ReaderSpec

\* Between chunks every chunk stream is at rest, whatever the peer sends.
THEOREM PartialMessagesAtRest == ReaderSpec /\ []WireOK => []PartialMessages
  <1>1. RInv => PartialMessages
    BY DEF RInv, PartialMessages
  <1> QED BY <1>1, ReaderInitRInv, RInvStep, PTL DEF ReaderSpec
=============================================================================
