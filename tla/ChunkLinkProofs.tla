-------------------------- MODULE ChunkLinkProofs --------------------------
(***************************************************************************)
(* What holds of two stacks back to back, for any users, packets, sizes of *)
(* the queue and chunk sizes, careful or not.                              *)
(*                                                                         *)
(* Argument: the writer keeps its own invariant (WInv) and writes fields   *)
(* only, so its wire is one of those that the theorems about the reader    *)
(* are for; every step of the composition is a step of the reader or       *)
(* leaves the reader alone.                                                *)
(***************************************************************************)
EXTENDS ChunkLink, ChunkReaderProofs

\* A chunk size that a user is about to set is not 0.
PendingSizes == \A u \in Users : pending[u].type = "SetChunkSize" => pending[u].value > 0

\* A header is written only while payload is left, or for an empty message.
HeaderDue == spc = "header" => sentPayload < smsg.len \/ smsg.len = 0

WInv == WriterTypeOK /\ PendingSizes /\ HeaderDue /\ WireOK

\* NoMessage is a message.
LEMMA NoMessageType == NoMessage \in OutMessages
  BY DEF NoMessage, OutMessages, MessageTypes

\* Appending fields keeps the wire a sequence of fields.
LEMMA WireGrows ==
    ASSUME WireOK, NEW s \in Seq(Fields), wire' = wire \o s
    PROVE  WireOK'
  BY DEF WireOK

\* Payload bytes are fields.
LEMMA DataFieldsType ==
    ASSUME NEW m \in OutMessages, NEW first \in Nat, NEW n \in Nat
    PROVE  DataFields(m, first, n) \in Seq(Fields)
  <1>1. ASSUME NEW i \in 1 .. n PROVE DataField(m.id, first + i, m.value) \in Fields
    BY DEF DataField, Fields, OutMessages
  <1> QED BY <1>1 DEF DataFields

\* A chunk header consists of fields.
LEMMA ChunkHeaderType ==
    ASSUME NEW m \in OutMessages, NEW first \in BOOLEAN
    PROVE  ChunkHeader(m, first) \in Seq(Fields)
  <1>1. \A f \in 0 .. 3 : BasicField(f, m.cid % 64) \in Fields
    <2>1. m.cid % 64 \in 0 .. 63
      BY DEF OutMessages
    <2> QED BY <2>1 DEF BasicField, Fields
  <1>2. HeaderField(0, MinOf(m.ts, RTMP_EXTENDED_TIMESTAMP), m) \in Fields
    <2>1. MinOf(m.ts, RTMP_EXTENDED_TIMESTAMP) \in Nat
      BY ExtendedTimestampAssumption DEF MinOf, OutMessages
    <2>2. HeaderSize(0) = 11
      BY DEF HeaderSize
    <2>3. m.len \in Nat /\ m.type \in MessageTypes /\ m.sid \in Nat
      BY DEF OutMessages
    <2> QED BY <2>1, <2>2, <2>3 DEF HeaderField, Fields
  <1>3. ExtendedTimestamp(m) \in Seq(Fields)
    <2>1. ExtendedField(m.ts) \in Fields
      BY DEF ExtendedField, Fields, OutMessages
    <2> QED BY <2>1 DEF ExtendedTimestamp
  <1> QED BY <1>1, <1>2, <1>3 DEF ChunkHeader

\* A new stack satisfies the invariant.
LEMMA InitWInv == Init => WInv
  <1> SUFFICES ASSUME Init PROVE WInv
    OBVIOUS
  <1>1. WireOK /\ PendingSizes
    BY DEF Init, WriterInit, WireOK, PendingSizes, NoMessage
  <1>2. smsg = NoMessage /\ NoMessage.len = 0 /\ sentPayload = 0
    BY DEF Init, WriterInit, NoMessage
  <1>3. outQueue = <<>> /\ accepted = <<>> /\ spc = "take"
        /\ outChunkSize = DefaultChunkSize /\ panicked = {} /\ pending = [u \in Users |-> NoMessage]
    BY DEF Init, WriterInit
  <1> QED BY <1>1, <1>2, <1>3, NoMessageType, WriterAssumption
          DEF WInv, WriterTypeOK, HeaderDue

\* A message put into the queue keeps the types of the queue and of the history.
LEMMA EnqueueType ==
    ASSUME WriterTypeOK, NEW m \in OutMessages, Enqueue(m)
    PROVE  /\ outQueue' \in Seq(OutMessages) /\ Len(outQueue') <= ChannelSize
           /\ accepted' \in Seq(OutMessages)
  BY WriterAssumption DEF Enqueue, WriterTypeOK

\* Addressed gives a message.
LEMMA AddressedType ==
    ASSUME WriterTypeOK, NEW stream_id \in StreamIds,
           NEW m \in [cid : Nat, len : Nat, type : MessageTypes, value : Nat, ts : Nat,
                      sid : Nat]
    PROVE  /\ Addressed(m, stream_id) \in OutMessages
           /\ Addressed(m, stream_id).type = m.type
           /\ Addressed(m, stream_id).value = m.value
  <1>1. stream_id \in Nat /\ Len(accepted) + 1 \in Nat
    BY WriterAssumption DEF WriterTypeOK
  <1> QED BY <1>1 DEF Addressed, OutMessages

\* The calls of a user keep the invariant.
LEMMA UserWInv == ASSUME WInv, NEW u \in Users, UserStep(u) PROVE WInv'
  <1> USE DEF WInv, HeaderDue
  <1>1. CASE SendMessage(u)
    <2>1. PICK m \in RawMessages, stream_id \in StreamIds : Enqueue(Addressed(m, stream_id))
      BY <1>1 DEF SendMessage
    <2>2. Addressed(m, stream_id) \in OutMessages
      BY <2>1, AddressedType, WriterAssumption
    <2>3. UNCHANGED <<wire, spc, smsg, sentPayload, outChunkSize, pending, panicked>>
      BY <1>1 DEF SendMessage
    <2> QED BY <2>1, <2>2, <2>3, EnqueueType DEF WriterTypeOK, PendingSizes, WireOK
  <1>2. CASE SendPacket(u)
    <2>1. PICK p \in Packets, stream_id \in StreamIds :
             LET m == Addressed(EncodeMessage(p), stream_id)
             IN Enqueue(m) /\ pending' = [pending EXCEPT ![u] = m]
      BY <1>2 DEF SendPacket
    <2> DEFINE m == Addressed(EncodeMessage(p), stream_id)
    <2>2. /\ EncodeMessage(p) \in [cid : Nat, len : Nat, type : MessageTypes, value : Nat,
                                   ts : Nat, sid : Nat]
          /\ EncodeMessage(p).type = "SetChunkSize" => EncodeMessage(p).value > 0
      BY WriterAssumption DEF EncodeMessage, MessageTypes
    <2>3. m \in OutMessages /\ (m.type = "SetChunkSize" => m.value > 0)
      BY <2>2, AddressedType
    <2>4. Enqueue(m) /\ pending' = [pending EXCEPT ![u] = m]
      BY <2>1
    <2>5. UNCHANGED <<wire, spc, smsg, sentPayload, outChunkSize, panicked>>
      BY <1>2 DEF SendPacket
    <2> HIDE DEF m
    <2>6. pending' \in [Users -> OutMessages] /\ PendingSizes'
      BY <2>3, <2>4 DEF WriterTypeOK, PendingSizes
    <2> QED BY <2>3, <2>4, <2>5, <2>6, EnqueueType DEF WriterTypeOK, WireOK
  <1>3. CASE on_send_message(u)
    <2>1. pending[u] \in OutMessages /\ NoMessage.type = "none"
      BY DEF WriterTypeOK, NoMessage
    <2>2. outChunkSize' \in Nat \ {0}
      <3>1. pending[u].value \in Nat /\ outChunkSize \in Nat \ {0}
        BY <2>1 DEF WriterTypeOK, OutMessages
      <3>2. pending[u].type = "SetChunkSize" => pending[u].value > 0
        BY DEF PendingSizes
      <3> QED BY <1>3, <3>1, <3>2 DEF on_send_message
    <2>3. pending' \in [Users -> OutMessages] /\ PendingSizes'
      BY <1>3, <2>1, NoMessageType DEF on_send_message, WriterTypeOK, PendingSizes
    <2> QED BY <1>3, <2>2, <2>3 DEF on_send_message, WriterTypeOK, WireOK
  <1> QED BY <1>1, <1>2, <1>3 DEF UserStep

\* The steps of the sending goroutine keep the invariant.
LEMMA SenderWInv == ASSUME WInv, SenderStep PROVE WInv'
  <1> USE DEF WInv, HeaderDue
  <1>1. CASE TakeMessage
    <2>1. /\ Head(outQueue) \in OutMessages /\ Tail(outQueue) \in Seq(OutMessages)
          /\ Len(Tail(outQueue)) <= ChannelSize
      BY <1>1, WriterAssumption DEF TakeMessage, WriterTypeOK
    <2>2. Head(outQueue).len \in Nat
      BY <2>1 DEF OutMessages
    <2> QED BY <1>1, <2>1, <2>2 DEF TakeMessage, WriterTypeOK, PendingSizes, WireOK
  <1>2. CASE WriteHeader
    <2>1. ChunkHeader(smsg, sentPayload = 0) \in Seq(Fields)
      BY ChunkHeaderType DEF WriterTypeOK
    <2>2. WireOK'
      BY <1>2, <2>1, WireGrows DEF WriteHeader
    <2>3. smsg.len \in Nat
      BY DEF WriterTypeOK, OutMessages
    <2> QED BY <1>2, <2>2, <2>3 DEF WriteHeader, WriterTypeOK, PendingSizes
  <1>3. CASE WritePayload
    <2> DEFINE n == MinOf(outChunkSize, smsg.len - sentPayload)
    <2>1. smsg.len \in Nat /\ sentPayload \in 0 .. smsg.len /\ sentPayload < smsg.len
      BY <1>3 DEF WritePayload, WriterTypeOK, OutMessages
    <2>2. n \in Nat /\ n > 0 /\ sentPayload + n \in 0 .. smsg.len
      BY <2>1 DEF MinOf, WriterTypeOK
    <2>3. DataFields(smsg, sentPayload, n) \in Seq(Fields)
      BY <2>1, <2>2, DataFieldsType DEF WriterTypeOK
    <2>4. /\ wire' = wire \o DataFields(smsg, sentPayload, n)
          /\ sentPayload' = sentPayload + n
          /\ spc' \in {"header", "take"}
          /\ spc' = "header" => sentPayload + n < smsg.len
          /\ UNCHANGED <<smsg, outQueue, outChunkSize, pending, accepted, panicked>>
      BY <1>3 DEF WritePayload
    <2> HIDE DEF n
    <2>5. WireOK'
      BY <2>3, <2>4, WireGrows
    <2> QED BY <2>2, <2>4, <2>5 DEF WriterTypeOK, PendingSizes
  <1> QED BY <1>1, <1>2, <1>3 DEF SenderStep

\* What is left of the wire after n fields.
LEMMA WireShrinks ==
    ASSUME WireOK, NEW n \in Nat, Consume(n)
    PROVE  WireOK'
  BY DEF Consume, WireOK

\* The reader takes fields off the wire and puts none there.
LEMMA ReaderWire == ASSUME RInv, WireOK, ReaderNext PROVE WireOK'
  <1>1. CASE UNCHANGED wire
    BY <1>1 DEF WireOK
  <1>2. CASE \E n \in Nat : Consume(n)
    BY <1>2, WireShrinks
  <1>3. CASE read_message_payload
    <2> DEFINE c == chunkStreams[rcid]
    <2>1. c \in Streams /\ Underway(c) /\ inChunkSize \in Nat
      BY <1>3, ReaderAssumption DEF read_message_payload, RInv, ReaderTypeOK
    <2>2. c.msg.got \in Seq(Fields) /\ c.msg.size \in Nat /\ c.len \in Nat
      BY <2>1 DEF Streams, Messages
    <2>3. PayloadSize(c) \in Nat
      BY <2>1, <2>2 DEF PayloadSize, MinOf, Underway
    <2>4. Consume(PayloadSize(c)) \/ UNCHANGED wire
      BY <1>3 DEF read_message_payload, LoseSync
    <2> QED BY <1>1, <2>3, <2>4, WireShrinks
  <1>4. CASE read_basic_header \/ read_message_header \/ read_extended_timestamp
    <2>1. Consume(0) \/ Consume(1) \/ Consume(2) \/ UNCHANGED wire
      BY <1>4 DEF read_basic_header, read_message_header, read_extended_timestamp, LoseSync
    <2> QED BY <1>1, <1>2, <2>1
  <1>5. CASE \/ refuse_message_header \/ refuse_payload_length \/ refuse_message
             \/ on_recv_message \/ SocketFails \/ ErrorErased
    BY <1>1, <1>5 DEF refuse_message_header, refuse_payload_length, refuse_message,
                      on_recv_message, ReaderFails, SocketFails, ErrorErased
  <1> QED BY <1>3, <1>4, <1>5 DEF ReaderNext, ReaderRuns

\* The invariant of the composition.
LInv == WInv /\ RInv

\* It is inductive: a step is one of the writer, which leaves the reader alone, or one of
\* the reader, which leaves the writer alone.
LEMMA LInvStep == LInv /\ [Next]_vars => LInv'
  <1> SUFFICES ASSUME LInv, [Next]_vars PROVE LInv'
    OBVIOUS
  <1>1. CASE SenderStep /\ UNCHANGED readerVars
    BY <1>1, SenderWInv, RInvStep DEF LInv, WInv
  <1>2. CASE (\E u \in Users : UserStep(u)) /\ UNCHANGED readerVars
    BY <1>2, UserWInv, RInvStep DEF LInv, WInv
  <1>3. CASE ReaderNext /\ UNCHANGED writerVars
    <2>1. RInv' /\ WireOK'
      BY <1>3, RInvStep, ReaderWire DEF LInv, WInv
    <2> QED BY <1>3, <2>1
            DEF LInv, WInv, WriterTypeOK, PendingSizes, HeaderDue, writerVars
  <1>4. CASE UNCHANGED vars
    <2>1. RInv'
      BY <1>4, RInvStep DEF LInv, WInv, vars
    <2> QED BY <1>4, <2>1
            DEF LInv, WInv, WriterTypeOK, PendingSizes, HeaderDue, WireOK, vars, writerVars
  <1> QED BY <1>1, <1>2, <1>3, <1>4 DEF Next

\* The invariant holds throughout.
LEMMA LInvAlways == Spec => []LInv
  <1>1. Init => LInv
    BY InitWInv, ReaderInitRInv DEF LInv, Init
  <1> QED BY <1>1, LInvStep, PTL DEF Spec

\* The sending goroutine never slices beyond a payload and never works with a chunk size
\* of 0, however the users change the chunk size under it.
THEOREM WriterTypeCorrect == Spec => []WriterTypeOK
  <1>1. LInv => WriterTypeOK
    BY DEF LInv, WInv
  <1> QED BY <1>1, LInvAlways, PTL

\* Whatever this library writes, careful about the chunk size or not, the reader keeps
\* its slice bounds and chunk size limits.
THEOREM LinkReaderTypeCorrect == Spec => []ReaderTypeOK
  <1>1. LInv => ReaderTypeOK
    BY DEF LInv, RInv
  <1> QED BY <1>1, LInvAlways, PTL

\* Between chunks every chunk stream of the reader is at rest, whatever this library writes.
THEOREM LinkPartialMessages == Spec => []PartialMessages
  <1>1. LInv => PartialMessages
    BY DEF LInv, RInv, PartialMessages
  <1> QED BY <1>1, LInvAlways, PTL
=============================================================================
