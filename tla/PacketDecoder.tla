--------------------------- MODULE PacketDecoder ---------------------------
(***************************************************************************)
(* DecodePacket and the Decode methods of the packets it dispatches to:    *)
(* the bytes of one received message become a packet, no packet or an      *)
(* error.  The recursion of Amf0Any.Read through Amf0Object.Read and       *)
(* Amf0EcmaArray.Read is the stack of the objects being read.              *)
(***************************************************************************)
EXTENDS Amf0

CONSTANTS RTMP_MIN_CHUNK_SIZE, RTMP_MAX_CHUNK_SIZE

Commands == {"connect", "createStream", "play", "publish", "closeStream",
             "releaseStream", "FCPublish", "FCUnpublish", "_result", "_error"}

\* The message types that DecodePacket tells apart; the others are media, data
\* and control messages that no packet is decoded from.
AmfTypes == {"amf0command", "amf3command", "amf0data", "amf3data"}

VARIABLES
    type, payload,   \* of the message
    pkt,             \* the packet type being decoded, "none" before the dispatch
    todo,            \* the fields its Decode has still to read
    got,             \* the fields it has read
    off,             \* HPBuffer.off, counted from the start of the payload
    open,            \* the objects and arrays being read, the innermost last, each
                     \* with the name of the property it is reading
    val,             \* a value that was read and not yet stored: <<>> or <<v>>
    result           \* "decoding", "packet", "nil" (no packet) or "error"

decodeVars == <<pkt, todo, got, off, open, val, result>>
vars == <<type, payload, decodeVars>>

(***************************************************************************)
(* DecodePacket: choose the packet type, then decode it from the start.    *)
(***************************************************************************)
\* An AMF3 command has one byte in front of the AMF0 values.
StreamStart ==
    IF type = "amf3command" /\ Requires(payload, 0, 1) THEN 1 ELSE 0

PacketOf(c) ==
    CASE c = "connect" -> "ConnectApp"
      [] c = "createStream" -> "CreateStream"
      [] c = "play" -> "Play"
      [] c = "publish" -> "Publish"
      [] c = "closeStream" -> "CloseStream"
      [] c \in {"releaseStream", "FCPublish", "FCUnpublish"} -> "FMLEStart"
      [] OTHER -> "none"

CommandsNamed(b) == {c \in Commands : NameOf[c] = b}

ControlPacket ==
    CASE type = "windowack" -> "SetWindowAckSize"
      [] type = "usercontrol" -> "UserControl"
      [] type = "setchunksize" -> "SetChunkSize"
      [] OTHER -> "none"

\* The fields of each packet in the order in which its Decode reads them; "?" marks
\* the ones that may be missing at the end.
ConnectAppFields == <<"name", "one", "object">>
CreateStreamFields == <<"name", "number", "any">>
CloseStreamFields == <<"name", "number", "any">>
PlayFields == <<"name", "number", "any", "string", "number?", "number?", "reset?">>
PublishFields == <<"name", "number", "any", "string", "string?">>
FMLEStartFields == <<"name", "number", "any", "string">>
SetWindowAckSizeFields == <<"uint32">>
SetChunkSizeFields == <<"chunksize">>
UserControlFields == <<"event", "extra">>

Layout(p) ==
    CASE p = "ConnectApp" -> ConnectAppFields
      [] p = "CreateStream" -> CreateStreamFields
      [] p = "CloseStream" -> CloseStreamFields
      [] p = "Play" -> PlayFields
      [] p = "Publish" -> PublishFields
      [] p = "FMLEStart" -> FMLEStartFields
      [] p = "SetWindowAckSize" -> SetWindowAckSizeFields
      [] p = "SetChunkSize" -> SetChunkSizeFields
      [] p = "UserControl" -> UserControlFields

Fail == result' = "error" /\ UNCHANGED <<pkt, todo, got, off, open, val>>

StartDecode(p) ==
    /\ pkt' = p
    /\ off' = StreamStart
    /\ todo' = IF p = "none" THEN <<>> ELSE Layout(p)
    /\ result' = IF p = "none" THEN "nil" ELSE "decoding"
    /\ UNCHANGED <<got, open, val>>

\* requests is never filled, so _result and _error end with an error whether or
\* not their transaction id can be read.
DispatchCommand ==
    LET command == ReadString(payload, StreamStart)
        named == CommandsNamed(command.b)
    IN IF command.err \/ named \cap {"_result", "_error"} # {}
       THEN Fail
       ELSE StartDecode(IF named = {} THEN "none" ELSE PacketOf(CHOOSE c \in named : TRUE))

Dispatch ==
    /\ result = "decoding" /\ pkt = "none"
    /\ IF type \in AmfTypes THEN DispatchCommand ELSE StartDecode(ControlPacket)
    /\ UNCHANGED <<type, payload>>

(***************************************************************************)
(* The fields of a packet.                                                 *)
(***************************************************************************)
Skipped(f) ==
    \/ f \in {"number?", "string?", "reset?"} /\ Empty(payload, off)
    \/ f = "extra" /\ UInt16(got[1].b) # PCUCSetBufferLength

ReadField(f) ==
    CASE f \in {"name", "string", "string?"} -> ReadString(payload, off)
      [] f \in {"number", "one", "number?"} -> ReadNumber(payload, off)
      [] f \in {"any", "reset?"} -> ReadAny(payload, off)
      [] f = "object" -> ReadObject(payload, off)
      [] f \in {"uint32", "chunksize", "extra"} -> ReadBytes(payload, off, 4)
      [] f = "event" -> ReadBytes(payload, off, 6)

\* Integers are kept as values without a marker of their own.
MarkerOf(f) ==
    IF f \in {"uint32", "chunksize", "extra", "event"} THEN AMF0_Number
    ELSE Peek(payload, off, 1)[1]

\* The Reset of a PlayPacket is a bool, or a number that is not 0.
ResetValue(v) ==
    Value(AMF0_Boolean, IF v.b = [i \in 1 .. Len(v.b) |-> 0] THEN <<0>> ELSE <<1>>)

Valid(f, v) ==
    /\ f = "name" => \E c \in CommandsNamed(v.b) : PacketOf(c) = pkt
    /\ f = "one" => v.b = One
    /\ f = "reset?" => v.m \in {AMF0_Boolean, AMF0_Number}
    /\ f = "chunksize" => UInt32(v.b) \in RTMP_MIN_CHUNK_SIZE .. RTMP_MAX_CHUNK_SIZE

InDecode == result = "decoding" /\ pkt # "none" /\ UNCHANGED <<type, payload, pkt>>

\* A value has been read, or the object it starts: what a reader has in hand next.
Continue(m, r, frames) ==
    /\ off' = r.off
    /\ IF IsContainer(m)
       THEN open' = Append(frames, [c |-> Value(m, r.b), name |-> <<>>]) /\ val' = <<>>
       ELSE open' = frames /\ val' = <<Value(m, r.b)>>
    /\ UNCHANGED <<todo, got, result>>

SkipField ==
    /\ InDecode /\ todo # <<>> /\ open = <<>> /\ val = <<>>
    /\ Skipped(Head(todo))
    /\ todo' = Tail(todo)
    /\ UNCHANGED <<got, off, open, val, result>>

DecodeField ==
    /\ InDecode /\ todo # <<>> /\ open = <<>> /\ val = <<>>
    /\ ~Skipped(Head(todo))
    /\ LET r == ReadField(Head(todo))
       IN IF r.err THEN Fail ELSE Continue(MarkerOf(Head(todo)), r, open)

StoreField ==
    /\ InDecode /\ open = <<>> /\ val # <<>>
    /\ IF Valid(Head(todo), val[1])
       THEN /\ got' = Append(got, IF Head(todo) = "reset?" THEN ResetValue(val[1]) ELSE val[1])
            /\ todo' = Tail(todo)
            /\ val' = <<>>
            /\ UNCHANGED <<off, open, result>>
       ELSE Fail

\* The return of DecodePacket when every field has been read.
Return ==
    /\ InDecode /\ todo = <<>>
    /\ result' = "packet"
    /\ UNCHANGED <<todo, got, off, open, val>>

(***************************************************************************)
(* The loop over the properties of the innermost object or array.          *)
(***************************************************************************)
Innermost == open[Len(open)]

\* Read returns the object: at the end of the stream, or at a break.
Close ==
    /\ val' = <<Innermost.c>>
    /\ open' = SubSeq(open, 1, Len(open) - 1)
    /\ UNCHANGED <<todo, got, off, result>>

EndOfStream == InDecode /\ open # <<>> /\ val = <<>> /\ Empty(payload, off) /\ Close

ReadProperty ==
    /\ InDecode /\ open # <<>> /\ val = <<>> /\ ~Empty(payload, off)
    /\ LET name == ReadUtf8(payload, off)
           value == ReadAny(payload, name.off)
       IN IF name.err \/ value.err
          THEN Fail
          ELSE Continue(Peek(payload, name.off, 1)[1], value,
                        [open EXCEPT ![Len(open)].name = name.b])

\* An empty name or a value without content ends the object.
StoreProperty ==
    /\ InDecode /\ open # <<>> /\ val # <<>>
    /\ IF Innermost.name = <<>> \/ IsNil(val[1])
       THEN Close
       ELSE /\ open' = [open EXCEPT ![Len(open)].c = Set(@, Innermost.name, val[1])]
            /\ val' = <<>>
            /\ UNCHANGED <<todo, got, off, result>>

DecodeInit ==
    /\ pkt = "none" /\ todo = <<>> /\ got = <<>> /\ off = 0
    /\ open = <<>> /\ val = <<>> /\ result = "decoding"

DecodeStep ==
    \/ SkipField \/ DecodeField \/ StoreField \/ Return
    \/ EndOfStream \/ ReadProperty \/ StoreProperty

DecodeNext == Dispatch \/ DecodeStep

\* The decoder of any message: the payload is whatever the peer sent.
Init ==
    /\ type \in AmfTypes \cup {"windowack", "usercontrol", "setchunksize", "other"}
    /\ payload \in Seq(Byte)
    /\ DecodeInit

Spec == Init /\ [][DecodeNext]_vars

(***************************************************************************)
(* Properties.                                                             *)
(***************************************************************************)
\* No read leaves the payload, however the message is cut or nested: every read of
\* Amf0Codec and of the Decode methods is behind a Requires for all of its bytes.  A
\* read that did would be an index out of range in Buffer, a panic of the reader.
ReadsInside == off <= Len(payload)

\* Amf0Any.Read recurses once per nested object.  Each level has taken at least the
\* three bytes of a name and a marker, so the payload bounds the depth of the stack.
DepthBounded == 3 * Len(open) <= off + 2

\* Decoding one message makes progress with every step: bytes are consumed, objects
\* closed, or fields stored.  So the loops of Object.Read, EcmaArray.Read and Decode
\* end after a number of steps that the length of the payload bounds.
StepsLeft ==
    6 * (Len(payload) - off) + 2 * Len(open) + 3 * Len(todo) + Len(val)
        + (IF result = "decoding" THEN 1 ELSE 0)

DecodeProgresses == [][DecodeStep => StepsLeft' < StepsLeft]_vars
=============================================================================
