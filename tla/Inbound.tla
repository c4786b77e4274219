------------------------------ MODULE Inbound ------------------------------
(***************************************************************************)
(* What a client sends, from its first byte on: the handshake reads the    *)
(* connection directly, the pump goroutine it starts reads on through the  *)
(* receive buffer.  Both take bytes from the same socket, so where the one *)
(* stops the other begins.                                                 *)
(***************************************************************************)
EXTENDS Handshake, ReceiveBuffer

inboundVars == <<handshakeVars, vars>>

InboundInit == HandshakeInit /\ Init

Handshaking == HandshakeNext /\ UNCHANGED vars

\* All that the client has sent is read.
Drained == taken + arrived = sent

\* The loop of EnsureBufferBytes on the connection.
SocketStep ==
    \/ \E k \in ReadSizes : taken + arrived + k <= sent /\ SocketRead(k)
    \/ Drained /\ (conn = "down" \/ Deadlines) /\ SocketFail

\* The receiving goroutine.
Receiving ==
    /\ pumps > 0
    /\ SocketStep \/ ReaderSteps
    /\ UNCHANGED handshakeVars

InboundNext == Handshaking \/ Receiving

InboundSpec == InboundInit /\ [][InboundNext]_inboundVars

\* The client sends what it has to send; the call runs whenever it is not blocked.
FairInboundSpec ==
    /\ InboundSpec
    /\ WF_inboundVars(ClientSend /\ UNCHANGED vars)
    /\ WF_inboundVars(ServerStep /\ UNCHANGED vars)

-----------------------------------------------------------------------------
(* Properties *)

\* Types of both parts; no read fills a slice beyond its length.
InboundTypeOK == HandshakeTypeOK /\ BufferTypeOK
=============================================================================
