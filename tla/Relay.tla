------------------------------- MODULE Relay --------------------------------
(***************************************************************************)
(* One received message is sent to several connections ("dispatch to all   *)
(* connections", comment on PerferCid): the program copies it for each of  *)
(* them with Message.Copy and passes the copy to SendMessage.  A *Message  *)
(* is a reference into the heap; SendMessage sets the stream id in the     *)
(* message itself and the sending goroutine of a connection keeps its      *)
(* progress, SentPayloadLength, there too.  The goroutines of the          *)
(* connections share the heap without a lock.                              *)
(*                                                                         *)
(* Writing ends in Socket.Write, which hands the connection what is left   *)
(* of its argument until all is taken.  When it fails the message is given *)
(* up where it is, and with it, as a rule, the goroutine; but the          *)
(* receiving goroutine of the connection may store its own nil over the    *)
(* error, and then the next message follows.                               *)
(***************************************************************************)
EXTENDS ChunkFields

CONSTANTS
    Conns,          \* connections
    ChannelSize,    \* RTMP_MSG_CHANNEL_BUFFER
    ChunkSizeOf,    \* outChunkSize of each connection
    StreamIdOf,     \* the stream_id that the program passes for each connection
    Incoming        \* messages the program receives, in order

ASSUME RelayAssumption ==
    /\ ChannelSize \in Nat \ {0}
    /\ ChunkSizeOf \in [Conns -> Nat \ {0}]
    /\ StreamIdOf \in [Conns -> Nat]
    /\ Incoming \in Seq(OutMessages)

VARIABLES
    heap,         \* the messages: a header and payload m, SentPayloadLength sent
    todo,         \* messages not yet received
    msg, copy,    \* the program's variables; 0 is nil
    rest,         \* connections the program has still to serve with msg
    target,       \* the one it is serving
    ppc,          \* "recv", "copy", or in SendMessage: "address", "enqueue"
    queue,        \* msg_out_queue of each connection
    spc,          \* where its sending goroutine is: "take", "header", "write_header",
                  \* "write_payload", or "failed" after an error
    smsg,         \* the message it is sending
    out,          \* what Socket.Write has still to write
    wire,         \* what the connection has got of the last message taken from its queue
    failed,       \* whether writing that message failed
    accepted      \* messages queued for the connection, with its stream id

programVars == <<todo, msg, copy, rest, target, ppc>>
senderVars == <<spc, smsg, out, wire, failed>>
vars == <<heap, programVars, queue, senderVars, accepted>>

NewMessage(m) == [m |-> m, sent |-> 0]

Init ==
    /\ heap = <<>>
    /\ todo = Incoming
    /\ msg = 0 /\ copy = 0 /\ rest = {} /\ ppc = "recv"
    /\ target \in Conns
    /\ queue = [c \in Conns |-> <<>>]
    /\ spc = [c \in Conns |-> "take"]
    /\ smsg = [c \in Conns |-> 0]
    /\ out = [c \in Conns |-> <<>>]
    /\ wire = [c \in Conns |-> <<>>]
    /\ failed = [c \in Conns |-> FALSE]
    /\ accepted = [c \in Conns |-> <<>>]

-----------------------------------------------------------------------------
(* The program *)

\* RecvMessage returns a message that nobody else refers to.
RecvMessage ==
    /\ ppc = "recv" /\ todo # <<>>
    /\ heap' = Append(heap, NewMessage(Head(todo)))
    /\ todo' = Tail(todo)
    /\ msg' = Len(heap) + 1
    /\ rest' = Conns
    /\ ppc' = "copy"
    /\ UNCHANGED <<copy, target, queue, senderVars, accepted>>

\* Mutant: the message itself is sent.
Copy_Same(c) ==
    /\ ppc = "copy" /\ c \in rest
    /\ copy' = msg
    /\ rest' = rest \ {c} /\ target' = c
    /\ ppc' = "address"
    /\ UNCHANGED <<heap, todo, msg, queue, senderVars, accepted>>

\* msg.Copy(): a new message with a header of its own; the payload is shared, and
\* nobody writes to it.
Copy(c) ==
    /\ ppc = "copy" /\ c \in rest
    /\ heap' = Append(heap, heap[msg])
    /\ copy' = Len(heap) + 1
    /\ rest' = rest \ {c} /\ target' = c
    /\ ppc' = "address"
    /\ UNCHANGED <<todo, msg, queue, senderVars, accepted>>

AllServed ==
    /\ ppc = "copy" /\ rest = {}
    /\ ppc' = "recv"
    /\ UNCHANGED <<heap, todo, msg, copy, rest, target, queue, senderVars, accepted>>

WithStreamId(m, c) == [m EXCEPT !.sid = IF StreamIdOf[c] > 0 THEN StreamIdOf[c] ELSE @]

\* SendMessage: msg.Header.StreamId = stream_id, if that is not 0.
Address ==
    /\ ppc = "address"
    /\ heap' = [heap EXCEPT ![copy].m = WithStreamId(@, target)]
    /\ ppc' = "enqueue"
    /\ UNCHANGED <<todo, msg, copy, rest, target, queue, senderVars, accepted>>

\* The message that the program received last.
Received == Incoming[Len(Incoming) - Len(todo)]

\* r.msg_out_queue <- msg.
Enqueue ==
    /\ ppc = "enqueue"
    /\ Len(queue[target]) < ChannelSize
    /\ queue' = [queue EXCEPT ![target] = Append(@, copy)]
    /\ accepted' = [accepted EXCEPT ![target] = Append(@, WithStreamId(Received, target))]
    /\ ppc' = "copy"
    /\ UNCHANGED <<heap, todo, msg, copy, rest, target, senderVars>>

-----------------------------------------------------------------------------
(* The sending goroutine of connection c *)

GoTo(c, from, to) == spc[c] = from /\ spc' = [spc EXCEPT ![c] = to]
Current(c) == heap[smsg[c]]

\* Mutant: SendMessage holds a lock around its send that the goroutine needs, too.
Take_Locked(c) ==
    /\ queue[c] # <<>> /\ ppc # "enqueue"
    /\ GoTo(c, "take", "header")
    /\ smsg' = [smsg EXCEPT ![c] = Head(queue[c])]
    /\ queue' = [queue EXCEPT ![c] = Tail(@)]
    /\ heap' = [heap EXCEPT ![Head(queue[c])].sent = 0]
    /\ wire' = [wire EXCEPT ![c] = <<>>]
    /\ failed' = [failed EXCEPT ![c] = FALSE]
    /\ UNCHANGED <<programVars, out, accepted>>

\* msg = <- r.msg_out_queue, and SentPayloadLength = -1: the first header is written
\* even for an empty payload.
Take(c) ==
    /\ queue[c] # <<>>
    /\ GoTo(c, "take", "header")
    /\ smsg' = [smsg EXCEPT ![c] = Head(queue[c])]
    /\ queue' = [queue EXCEPT ![c] = Tail(@)]
    /\ heap' = [heap EXCEPT ![Head(queue[c])].sent = 0]
    /\ wire' = [wire EXCEPT ![c] = <<>>]
    /\ failed' = [failed EXCEPT ![c] = FALSE]
    /\ UNCHANGED <<programVars, out, accepted>>

\* The header of a chunk goes to Socket.Write.
MakeHeader(c) ==
    /\ GoTo(c, "header", "write_header")
    /\ out' = [out EXCEPT ![c] = ChunkHeader(Current(c).m, Current(c).sent = 0)]
    /\ UNCHANGED <<heap, programVars, queue, smsg, wire, failed, accepted>>

\* Mutant: what the connection did not take at once is not written.
Write_Once(c) ==
    /\ spc[c] \in {"write_header", "write_payload"} /\ out[c] # <<>>
    /\ \E k \in 1 .. Len(out[c]) :
          /\ wire' = [wire EXCEPT ![c] = @ \o SubSeq(out[c], 1, k)]
          /\ out' = [out EXCEPT ![c] = <<>>]
    /\ UNCHANGED <<heap, programVars, queue, spc, smsg, failed, accepted>>

\* One round of the loop of Socket.Write: the connection takes k of the fields.
Write(c) ==
    /\ spc[c] \in {"write_header", "write_payload"} /\ out[c] # <<>>
    /\ \E k \in 1 .. Len(out[c]) :
          /\ wire' = [wire EXCEPT ![c] = @ \o SubSeq(out[c], 1, k)]
          /\ out' = [out EXCEPT ![c] = SubSeq(@, k + 1, Len(@))]
    /\ UNCHANGED <<heap, programVars, queue, spc, smsg, failed, accepted>>

\* The connection takes nothing or reports an error: the job returns it, and what is left of
\* the message is not written.
WriteFails(c) ==
    /\ spc[c] \in {"write_header", "write_payload"} /\ out[c] # <<>>
    /\ spc' = [spc EXCEPT ![c] = "failed"]
    /\ out' = [out EXCEPT ![c] = <<>>]
    /\ failed' = [failed EXCEPT ![c] = TRUE]
    /\ UNCHANGED <<heap, programVars, queue, smsg, wire, accepted>>

\* The receiving goroutine stores the nil of its own job over the error before the loop of
\* the sending one tests it (LoopCheck in MessagePump): the goroutine goes on with the
\* next message.
ErrorErased(c) ==
    /\ GoTo(c, "failed", "take")
    /\ UNCHANGED <<heap, programVars, queue, smsg, out, wire, failed, accepted>>

PayloadSize(c) == MinOf(ChunkSizeOf[c], Current(c).m.len - Current(c).sent)

\* The header is written: the next piece of the payload goes to Socket.Write.
MakePayload(c) ==
    /\ out[c] = <<>>
    /\ GoTo(c, "write_header", IF Current(c).m.len > 0 THEN "write_payload" ELSE "take")
    /\ out' = [out EXCEPT ![c] =
                  IF Current(c).m.len > 0
                  THEN DataFields(Current(c).m, Current(c).sent, PayloadSize(c)) ELSE <<>>]
    /\ UNCHANGED <<heap, programVars, queue, smsg, wire, failed, accepted>>

\* The piece is written: SentPayloadLength += payload_size, and the test of the loop.
PayloadWritten(c) ==
    /\ out[c] = <<>>
    /\ GoTo(c, "write_payload", IF Current(c).sent + PayloadSize(c) < Current(c).m.len
                                THEN "header" ELSE "take")
    /\ heap' = [heap EXCEPT ![smsg[c]].sent = @ + PayloadSize(c)]
    /\ UNCHANGED <<programVars, queue, smsg, out, wire, failed, accepted>>

ProgramStep ==
    \/ RecvMessage \/ (\E c \in Conns : Copy(c)) \/ AllServed \/ Address \/ Enqueue

SenderStep(c) ==
    \/ Take(c) \/ MakeHeader(c) \/ Write(c) \/ WriteFails(c)
    \/ MakePayload(c) \/ PayloadWritten(c)

Next == ProgramStep \/ \E c \in Conns : SenderStep(c) \/ ErrorErased(c)

Spec == Init /\ [][Next]_vars

\* The goroutines of the connections run whenever they can.
FairSpec == Spec /\ \A c \in Conns : WF_vars(SenderStep(c))

-----------------------------------------------------------------------------
(* Properties *)

\* What connection c has in hand: the messages it will send and how far it is.
InHand(c) == [i \in 1 .. Len(queue[c]) |-> heap[queue[c][i]].m]
                 \o IF smsg[c] = 0 THEN <<>> ELSE <<Current(c)>>

\* No step changes what a connection has in hand, except its own and the one that queues
\* a message for it: neither another connection that sends a copy of the same message nor
\* the program that addresses the next copy.
Isolated ==
    [][\A c \in Conns :
          UNCHANGED <<queue[c], spc[c], smsg[c], out[c]>> => InHand(c)' = InHand(c)]_vars

\* The goroutine of c waits for a message: all that was queued is written.
Waiting(c) == spc[c] = "take" /\ queue[c] = <<>>

\* What was queued for a connection is written, or writing to it fails; it does not wait
\* for the other connections or for the program.  (Incoming is finite: there is always a
\* last message.)
RelayCompletes ==
    \A c \in Conns : (queue[c] # <<>>) ~> (spc[c] = "failed" \/ Waiting(c))
=============================================================================
