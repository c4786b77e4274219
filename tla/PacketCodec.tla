---------------------------- MODULE PacketCodec ----------------------------
(***************************************************************************)
(* A packet is built, encoded into a message, and decoded by the peer; or  *)
(* a message with other bytes arrives.  The chunk layer between the two is *)
(* ChunkLink's subject: here the payload arrives as it was sent.           *)
(***************************************************************************)
EXTENDS PacketDecoder, PacketEncoder

CONSTANT Received     \* messages of other peers: a type and a payload

codecVars == <<vars, encodeVars>>

\* EncodeMessage: a buffer of GetSize bytes; every write is behind a Requires, so a
\* packet that writes more than its size is an error.
EncodeMessage ==
    /\ sent = "building"
    /\ type' = GetMessageType(kind)
    /\ IF Len(Encode) <= GetSize
       THEN /\ payload' = Encode \o [i \in 1 .. GetSize - Len(Encode) |-> 0]
            /\ sent' = "sent"
       ELSE payload' = <<>> /\ sent' = "failed"
    /\ UNCHANGED <<kind, fields, sets, decodeVars>>

CodecInit ==
    /\ DecodeInit
    /\ sets = 0
    /\ \/ /\ kind \in Kinds
          /\ fields \in New(kind)
          /\ sent = "building"
          /\ type = "other" /\ payload = <<>>
       \/ /\ \E m \in Received : type = m.type /\ payload = m.payload
          /\ kind = "none" /\ fields = <<>> /\ sent = "sent"

Build ==
    /\ \E i \in Settable(kind), k \in Keys, v \in SetValues : PacketSet(i, k, v)
    /\ UNCHANGED vars

CodecNext ==
    \/ kind # "none" /\ (Build \/ EncodeMessage)
    \/ sent = "sent" /\ DecodeNext /\ UNCHANGED encodeVars

CodecSpec == CodecInit /\ [][CodecNext]_codecVars

(***************************************************************************)
(* Properties.                                                             *)
(***************************************************************************)
\* An object or array inside v, at any depth, has no properties.
RECURSIVE HoldsEmpty(_)
HoldsEmpty(v) ==
    \E i \in DOMAIN v.props :
        LET w == v.props[i].v
        IN (IsContainer(w.m) /\ w.props = <<>>) \/ HoldsEmpty(w)

\* An object without properties counts 0 bytes, and Write writes 4.  That happens to an
\* onStatus without data, and to a value with an empty object in it: Set of a packet drops
\* a value of size 0, Set of an object keeps it.
Unencodable ==
    \/ kind \in {"OnStatusCall", "OnStatusData"} /\ fields[Len(fields)].props = <<>>
    \/ \E i \in Settable(kind) : \E j \in DOMAIN fields[i].props :
          HoldsEmpty(fields[i].props[j].v)

\* GetSize is the number of bytes that Encode writes, in whatever order the values were
\* set and replaced: nothing is cut off, and nothing of the buffer is left unwritten.  The
\* exceptions are exactly the packets above, which EncodeMessage refuses.
SizesExact ==
    kind # "none" =>
        /\ sent = "sent" => Len(Encode) = GetSize /\ ~ Unencodable
        /\ sent = "failed" => Unencodable

\* The fields that are on the wire.
Expected == SubSeq(fields, 1, Len(FieldsOf(kind, fields)))

\* The packets with a Decode method that DecodePacket dispatches to.
Requests == {"ConnectApp", "CreateStream", "Play", "Publish",
             "SetWindowAckSize", "SetChunkSize", "UserControl"}

\* A connect without properties has no command object on the wire, and a chunk size
\* out of range is not accepted.
Refused ==
    \/ kind = "ConnectApp" /\ fields[3].props = <<>>
    \/ /\ kind = "SetChunkSize"
       /\ UInt32(fields[1].b) \notin RTMP_MIN_CHUNK_SIZE .. RTMP_MAX_CHUNK_SIZE

\* A request that is encoded and then decoded is the same packet with the same values,
\* nested objects and the order of their properties included; and no response is taken
\* for a request.
RoundTrip ==
    kind # "none" /\ sent = "sent" /\ result # "decoding" =>
        IF Refused THEN result = "error"
        ELSE IF kind \in Requests
        THEN result = "packet" /\ pkt = kind /\ got = Expected
        ELSE result # "packet"
=============================================================================
