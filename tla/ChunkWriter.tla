---------------------------- MODULE ChunkWriter ----------------------------
(***************************************************************************)
(* The sending half of the chunk protocol (protocol.go).  User goroutines  *)
(* call SendPacket or SendMessage, which put a message into msg_out_queue; *)
(* SendPacket goes on with on_send_message, in the user's goroutine.  The  *)
(* sending goroutine takes the messages one by one and cuts them into      *)
(* chunks, reading outChunkSize, which it shares with the users without a  *)
(* lock, at every chunk.                                                   *)
(***************************************************************************)
EXTENDS ChunkWire

CONSTANTS
    Users,          \* goroutines that send
    ChannelSize,    \* RTMP_MSG_CHANNEL_BUFFER
    Packets,        \* packets for SendPacket: [cid, len, type, value]
    RawMessages,    \* messages for SendMessage: [cid, len, type, value, ts, sid]
    StreamIds,      \* values of the parameter stream_id
    DefaultChunkSize,
    MaxMessages,    \* bound: messages in one behaviour
    MaxInFlight,    \* bound: the connection takes more while fewer bytes are unread
    Careful         \* whether the users change the chunk size only when all is sent

ASSUME WriterAssumption ==
    /\ ChannelSize \in Nat \ {0}
    /\ Packets \subseteq [cid : Nat, len : Nat, type : MessageTypes, value : Nat]
    /\ RawMessages \subseteq [cid : Nat, len : Nat, type : MessageTypes, value : Nat,
                              ts : Nat, sid : Nat]
    /\ StreamIds \subseteq Nat
    /\ DefaultChunkSize \in Nat \ {0}
    /\ \A p \in Packets : p.type = "SetChunkSize" => p.value > 0
    /\ MaxMessages \in Nat /\ MaxInFlight \in Nat
    /\ Careful \in BOOLEAN

VARIABLES
    spc,            \* where the sending goroutine is in its job
    smsg,           \* the message it is sending
    sentPayload,    \* msg.SentPayloadLength
    outQueue,       \* msg_out_queue
    outChunkSize,
    pending,        \* per user: the packet queued but not yet seen by on_send_message
    accepted,       \* all messages accepted by the queue
    panicked        \* users whose call panicked

writerVars == <<spc, smsg, sentPayload, outQueue, outChunkSize, pending, accepted,
                panicked>>

NoMessage == [cid |-> 0, len |-> 0, type |-> "none", value |-> 0, ts |-> 0, sid |-> 0,
              id |-> 0]

WriterInit ==
    /\ spc = "take"
    /\ smsg = NoMessage
    /\ sentPayload = 0
    /\ outQueue = <<>>
    /\ outChunkSize = DefaultChunkSize
    /\ pending = [u \in Users |-> NoMessage]
    /\ accepted = <<>>
    /\ panicked = {}

-----------------------------------------------------------------------------
(* The users *)

\* EncodeMessage: the header gets no timestamp; a packet of size 0 gets no type either.
EncodeMessage(p) ==
    [cid |-> p.cid, len |-> p.len, type |-> IF p.len = 0 THEN "none" ELSE p.type,
     value |-> p.value, ts |-> 0, sid |-> 0]

\* A message as it goes into the queue; the id tells it apart in the properties.
Addressed(m, stream_id) ==
    [cid |-> m.cid, len |-> m.len, type |-> m.type, value |-> m.value, ts |-> m.ts,
     sid |-> IF stream_id > 0 THEN stream_id ELSE m.sid, id |-> Len(accepted) + 1]

\* r.msg_out_queue <- msg.
Enqueue(m) ==
    /\ Len(outQueue) < ChannelSize
    /\ Len(accepted) < MaxMessages
    /\ outQueue' = Append(outQueue, m)
    /\ accepted' = Append(accepted, m)

\* What careful users wait for before they send m: nobody else is about to change the
\* chunk size, and before they change it themselves everything is written.
InTurn(m) ==
    Careful =>
        /\ \A u \in Users : pending[u].type # "SetChunkSize"
        /\ m.type = "SetChunkSize" =>
              outQueue = <<>> /\ spc = "take" /\ pending = [u \in Users |-> NoMessage]

SendMessage(u) ==
    /\ pending[u] = NoMessage /\ u \notin panicked
    /\ \E m \in RawMessages, stream_id \in StreamIds :
          InTurn(m) /\ Enqueue(Addressed(m, stream_id))
    /\ UNCHANGED <<wire, spc, smsg, sentPayload, outChunkSize, pending, panicked>>

\* SendPacket up to the return of SendMessage.
SendPacket(u) ==
    /\ pending[u] = NoMessage /\ u \notin panicked
    /\ \E p \in Packets, stream_id \in StreamIds :
          LET m == Addressed(EncodeMessage(p), stream_id)
          IN InTurn(m) /\ Enqueue(m) /\ pending' = [pending EXCEPT ![u] = m]
    /\ UNCHANGED <<wire, spc, smsg, sentPayload, outChunkSize, panicked>>

\* Mutant: the chunk size of the sender is not changed.
on_send_message_NoResize(u) ==
    /\ pending[u] # NoMessage
    /\ pending' = [pending EXCEPT ![u] = NoMessage]
    /\ UNCHANGED <<wire, spc, smsg, sentPayload, outQueue, accepted, outChunkSize, panicked>>

\* The rest of SendPacket.  A connect or createStream packet is to be remembered in
\* r.requests; NewProtocol leaves that map nil, so the assignment panics.
on_send_message(u) ==
    /\ pending[u] # NoMessage
    /\ outChunkSize' = IF pending[u].type = "SetChunkSize" THEN pending[u].value
                       ELSE outChunkSize
    /\ panicked' = IF pending[u].type = "Request" THEN panicked \cup {u} ELSE panicked
    /\ pending' = [pending EXCEPT ![u] = NoMessage]
    /\ UNCHANGED <<wire, spc, smsg, sentPayload, outQueue, accepted>>

-----------------------------------------------------------------------------
(* The sending goroutine *)

MayWrite == BytesOf(wire) < MaxInFlight

\* msg, ok = <- r.msg_out_queue.  The header is written even for an empty payload.
TakeMessage ==
    /\ spc = "take"
    /\ outQueue # <<>>
    /\ smsg' = Head(outQueue)
    /\ outQueue' = Tail(outQueue)
    /\ sentPayload' = 0
    /\ spc' = "header"
    /\ UNCHANGED <<wire, outChunkSize, pending, accepted, panicked>>

\* r.conn.Write(real_header).
WriteHeader ==
    /\ spc = "header"
    /\ MayWrite
    /\ wire' = wire \o ChunkHeader(smsg, sentPayload = 0)
    /\ spc' = IF smsg.len > 0 THEN "payload" ELSE "take"
    /\ UNCHANGED <<smsg, sentPayload, outQueue, outChunkSize, pending, accepted, panicked>>

\* Mutant: every chunk starts at the beginning of the payload.
WritePayload_Restart ==
    LET n == MinOf(outChunkSize, smsg.len - sentPayload)
    IN /\ spc = "payload"
       /\ wire' = wire \o DataFields(smsg, 0, n)
       /\ sentPayload' = sentPayload + n
       /\ spc' = IF sentPayload + n < smsg.len THEN "header" ELSE "take"
       /\ UNCHANGED <<smsg, outQueue, outChunkSize, pending, accepted, panicked>>

\* Mutant: one byte more than is left.
WritePayload_Beyond ==
    /\ spc = "payload"
    /\ wire' = wire \o DataFields(smsg, sentPayload, outChunkSize)
    /\ sentPayload' = sentPayload + outChunkSize
    /\ spc' = IF sentPayload + outChunkSize < smsg.len THEN "header" ELSE "take"
    /\ UNCHANGED <<smsg, outQueue, outChunkSize, pending, accepted, panicked>>

\* Mutant: the loop ends after one chunk.
WritePayload_OneChunk ==
    LET n == MinOf(outChunkSize, smsg.len - sentPayload)
    IN /\ spc = "payload"
       /\ wire' = wire \o DataFields(smsg, sentPayload, n)
       /\ sentPayload' = sentPayload + n
       /\ spc' = "take"
       /\ UNCHANGED <<smsg, outQueue, outChunkSize, pending, accepted, panicked>>

\* r.conn.Write(data), and the test of the loop.
WritePayload ==
    LET n == MinOf(outChunkSize, smsg.len - sentPayload)
    IN /\ spc = "payload"
       /\ wire' = wire \o DataFields(smsg, sentPayload, n)
       /\ sentPayload' = sentPayload + n
       /\ spc' = IF sentPayload + n < smsg.len THEN "header" ELSE "take"
       /\ UNCHANGED <<smsg, outQueue, outChunkSize, pending, accepted, panicked>>

-----------------------------------------------------------------------------
(* Properties *)

\* Types of the writer; it never slices beyond the payload, the chunk size is never 0
\* (the loop of the job would never end), and it makes progress in every chunk.
WriterTypeOK ==
    /\ spc \in {"take", "header", "payload"}
    /\ smsg \in OutMessages
    /\ sentPayload \in 0 .. smsg.len
    /\ spc = "payload" => sentPayload < smsg.len
    /\ outQueue \in Seq(OutMessages)
    /\ Len(outQueue) <= ChannelSize
    /\ outChunkSize \in Nat \ {0}
    /\ pending \in [Users -> OutMessages]
    /\ accepted \in Seq(OutMessages)
    /\ panicked \subseteq Users

\* SendPacket returns, or returns an error: it does not panic in the user's goroutine.
SendPacketReturns == panicked = {}
=============================================================================
