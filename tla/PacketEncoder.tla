--------------------------- MODULE PacketEncoder ---------------------------
(***************************************************************************)
(* The sending side of the packets: New and Set build a packet, GetSize    *)
(* makes the buffer and Encode fills it.  Every packet type that has an    *)
(* Encode method is here, as the sequence of its fields.                   *)
(***************************************************************************)
EXTENDS Amf0

CONSTANTS
    Two,          \* the bytes of the float64 2.0
    Numbers,      \* the other numbers: transaction ids, stream ids, Start, Duration
    Strings,      \* stream names and types
    UInt32s,      \* window sizes, chunk sizes, event data: four bytes
    Keys,         \* names of properties
    SetValues,    \* what NewAmf0 makes of the values that are set
    MaxSets       \* bound: calls of Set for one packet

VARIABLES
    kind,         \* the packet type, "none" when nothing is being built
    fields,       \* the values of its fields
    sets,         \* calls of Set so far
    sent          \* "building", "sent", "failed" (EncodeMessage returned an error)

encodeVars == <<kind, fields, sets, sent>>

(***************************************************************************)
(* Sizes and bytes of values.                                              *)
(***************************************************************************)
SizeUtf8(b) == 2 + Len(b)
WriteUtf8(b) == Bytes16(Len(b)) \o b
ObjectEOF == Bytes16(0) \o <<AMF0_ObjectEnd>>

RECURSIVE Size(_), Write(_), PropertiesSize(_), PropertiesWrite(_)

PropertiesSize(props) ==
    IF props = <<>> THEN 0
    ELSE SizeUtf8(Head(props).k) + Size(Head(props).v) + PropertiesSize(Tail(props))

\* An object or array without properties has size 0, though Write writes its marker
\* and its end.
ObjectSize(v) ==
    IF PropertiesSize(v.props) = 0 THEN 0
    ELSE PropertiesSize(v.props) + 1 + Len(ObjectEOF)
EcmaArraySize(v) ==
    IF PropertiesSize(v.props) = 0 THEN 0
    ELSE PropertiesSize(v.props) + 1 + 4 + Len(ObjectEOF)

Size(v) ==
    CASE v.m = AMF0_String -> 1 + SizeUtf8(v.b)
      [] v.m = AMF0_Boolean -> 1 + 1
      [] v.m = AMF0_Number -> 1 + NumberBytes
      [] v.m \in {AMF0_Null, AMF0_Undefined} -> 1
      [] v.m = AMF0_ObjectEnd -> Len(ObjectEOF)
      [] v.m = AMF0_Object -> ObjectSize(v)
      [] v.m = AMF0_EcmaArray -> EcmaArraySize(v)

PropertiesWrite(props) ==
    IF props = <<>> THEN <<>>
    ELSE WriteUtf8(Head(props).k) \o Write(Head(props).v) \o PropertiesWrite(Tail(props))

ObjectWrite(v) == <<AMF0_Object>> \o PropertiesWrite(v.props) \o ObjectEOF
EcmaArrayWrite(v) == <<AMF0_EcmaArray>> \o v.b \o PropertiesWrite(v.props) \o ObjectEOF
ScalarWrite(v) == <<v.m>> \o v.b

Write(v) ==
    CASE v.m = AMF0_String -> <<AMF0_String>> \o WriteUtf8(v.b)
      [] v.m \in {AMF0_Boolean, AMF0_Number, AMF0_Null, AMF0_Undefined} -> ScalarWrite(v)
      [] v.m = AMF0_ObjectEnd -> ObjectEOF
      [] v.m = AMF0_Object -> ObjectWrite(v)
      [] v.m = AMF0_EcmaArray -> EcmaArrayWrite(v)

(***************************************************************************)
(* The packets: what New gives the fields (the caller chooses the others), *)
(* and how GetSize and Encode treat each of them.                          *)
(*   "any"      counted by its size                                        *)
(*   "null"     an Amf0Any that is counted as one byte                     *)
(*   "object"   always written, counted by its size                        *)
(*   "object?"  written only when its size is not 0                        *)
(*   "uint32", "byte", "event" (a uint16 and a uint32): not AMF0           *)
(***************************************************************************)
Name(c) == Value(AMF0_String, NameOf[c])
Number(b) == Value(AMF0_Number, b)
Raw(b) == Value(AMF0_Number, b)
NewAmf0Object == Value(AMF0_Object, <<>>)
Zero == [i \in 1 .. NumberBytes |-> 0]

AnyNumber == {Number(b) : b \in Numbers}
AnyString == {Value(AMF0_String, b) : b \in Strings}
AnyBoolean == {Value(AMF0_Boolean, <<0>>), Value(AMF0_Boolean, <<1>>)}
AnyUInt32 == {Raw(b) : b \in UInt32s}

\* NewConnectAppPacket leaves the name to the caller.
NewConnectApp == {<<Name("connect"), Number(One), NewAmf0Object>>}
EncodeConnectApp == <<"any", "any", "object?">>

NewConnectAppRes == {<<Name("_result"), Number(One), NewAmf0Object, NewAmf0Object>>}
EncodeConnectAppRes == <<"any", "any", "object?", "object?">>

NewOnBWDone == {<<Name("onBWDone"), Number(Zero), Null>>}
EncodeOnBWDone == <<"any", "any", "null">>

NewCreateStream == {<<Name("createStream"), Number(Two), Null>>}
EncodeCreateStream == <<"any", "any", "null">>

NewCreateStreamRes == {<<Name("_result"), t, Null, s>> : t, s \in AnyNumber}
EncodeCreateStreamRes == <<"any", "any", "null", "any">>

NewPlay ==
    {<<Name("play"), Number(Zero), Null, s, n, d, r>> :
        s \in AnyString, n, d \in AnyNumber, r \in AnyBoolean}
EncodePlay == <<"any", "any", "null", "any", "any", "any", "any">>

NewPublish == {<<Name("publish"), Number(Zero), Null, s, t>> : s, t \in AnyString}
EncodePublish == <<"any", "any", "null", "any", "any">>

NewOnStatusCall == {<<Name("onStatus"), Number(Zero), Null, NewAmf0Object>>}
EncodeOnStatusCall == <<"any", "any", "null", "object">>

NewOnStatusData == {<<Name("onStatus"), NewAmf0Object>>}
EncodeOnStatusData == <<"any", "object">>

NewSampleAccess == {<<Name("|RtmpSampleAccess"), v, a>> : v, a \in AnyBoolean}
EncodeSampleAccess == <<"any", "any", "any">>

NewFMLEStartRes == {<<Name("_result"), t, Null, Undefined>> : t \in AnyNumber}
EncodeFMLEStartRes == <<"any", "any", "any", "any">>

\* SetWindowAckSizePacket and SetChunkSizePacket.
NewUInt32 == {<<n>> : n \in AnyUInt32}
EncodeSetWindowAckSize == <<"uint32">>
EncodeSetChunkSize == <<"uint32">>

NewSetPeerBandwidth == {<<n, Raw(<<t>>)>> : n \in AnyUInt32, t \in 0 .. 2}
EncodeSetPeerBandwidth == <<"uint32", "byte">>

NewUserControl ==
    {<<Raw(Bytes16(e) \o d), n>> :
        e \in {0, 1, 2, PCUCSetBufferLength, 4, 6, 7}, d \in UInt32s, n \in AnyUInt32}
\* Only the event PCUCSetBufferLength has extra data.
EncodeUserControl(vs) ==
    IF UInt16(vs[1].b) = PCUCSetBufferLength THEN <<"event", "uint32">> ELSE <<"event">>

New(k) ==
    CASE k = "ConnectApp" -> NewConnectApp
      [] k = "ConnectAppRes" -> NewConnectAppRes
      [] k = "OnBWDone" -> NewOnBWDone
      [] k = "CreateStream" -> NewCreateStream
      [] k = "CreateStreamRes" -> NewCreateStreamRes
      [] k = "Play" -> NewPlay
      [] k = "Publish" -> NewPublish
      [] k = "OnStatusCall" -> NewOnStatusCall
      [] k = "OnStatusData" -> NewOnStatusData
      [] k = "SampleAccess" -> NewSampleAccess
      [] k = "FMLEStartRes" -> NewFMLEStartRes
      [] k \in {"SetWindowAckSize", "SetChunkSize"} -> NewUInt32
      [] k = "SetPeerBandwidth" -> NewSetPeerBandwidth
      [] k = "UserControl" -> NewUserControl

FieldsOf(k, vs) ==
    CASE k = "ConnectApp" -> EncodeConnectApp
      [] k = "ConnectAppRes" -> EncodeConnectAppRes
      [] k = "OnBWDone" -> EncodeOnBWDone
      [] k = "CreateStream" -> EncodeCreateStream
      [] k = "CreateStreamRes" -> EncodeCreateStreamRes
      [] k = "Play" -> EncodePlay
      [] k = "Publish" -> EncodePublish
      [] k = "OnStatusCall" -> EncodeOnStatusCall
      [] k = "OnStatusData" -> EncodeOnStatusData
      [] k = "SampleAccess" -> EncodeSampleAccess
      [] k = "FMLEStartRes" -> EncodeFMLEStartRes
      [] k = "SetWindowAckSize" -> EncodeSetWindowAckSize
      [] k = "SetChunkSize" -> EncodeSetChunkSize
      [] k = "SetPeerBandwidth" -> EncodeSetPeerBandwidth
      [] k = "UserControl" -> EncodeUserControl(vs)

FieldSize(f, v) ==
    CASE f \in {"null", "byte"} -> 1
      [] f = "uint32" -> 4
      [] f = "event" -> 2 + 4
      [] OTHER -> Size(v)

FieldBytes(f, v) ==
    CASE f \in {"uint32", "byte", "event"} -> v.b
      [] f = "object?" -> IF Size(v) = 0 THEN <<>> ELSE Write(v)
      [] OTHER -> Write(v)

RECURSIVE SizeOfFields(_, _), BytesOfFields(_, _)
SizeOfFields(fs, vs) ==
    IF fs = <<>> THEN 0
    ELSE FieldSize(Head(fs), Head(vs)) + SizeOfFields(Tail(fs), Tail(vs))
BytesOfFields(fs, vs) ==
    IF fs = <<>> THEN <<>>
    ELSE FieldBytes(Head(fs), Head(vs)) \o BytesOfFields(Tail(fs), Tail(vs))

GetSize == SizeOfFields(FieldsOf(kind, fields), fields)
Encode == BytesOfFields(FieldsOf(kind, fields), fields)

GetMessageType(k) ==
    CASE k = "SetWindowAckSize" -> "windowack"
      [] k = "SetChunkSize" -> "setchunksize"
      [] k = "UserControl" -> "usercontrol"
      [] k = "SetPeerBandwidth" -> "other"
      [] k \in {"SampleAccess", "OnStatusData"} -> "amf0data"
      [] OTHER -> "amf0command"

Kinds == {"ConnectApp", "ConnectAppRes", "OnBWDone", "CreateStream", "CreateStreamRes",
          "Play", "Publish", "OnStatusCall", "OnStatusData", "SampleAccess",
          "FMLEStartRes", "SetWindowAckSize", "SetChunkSize", "SetPeerBandwidth",
          "UserControl"}

\* The fields that a Set method of the packet changes.
Settable(k) ==
    CASE k = "ConnectApp" -> {3}
      [] k = "ConnectAppRes" -> {3, 4}
      [] k = "OnStatusCall" -> {4}
      [] k = "OnStatusData" -> {2}
      [] OTHER -> {}

\* Mutant: an empty object is set.
PacketSet_KeepsEmpty(i, k, v) ==
    /\ sent = "building" /\ sets < MaxSets
    /\ sets' = sets + 1
    /\ fields' = [fields EXCEPT ![i] = Set(@, k, v)]
    /\ UNCHANGED <<kind, sent>>

\* A value of size 0 (an empty object) is not set.
PacketSet(i, k, v) ==
    /\ sent = "building" /\ sets < MaxSets
    /\ sets' = sets + 1
    /\ fields' = IF Size(v) > 0 THEN [fields EXCEPT ![i] = Set(@, k, v)] ELSE fields
    /\ UNCHANGED <<kind, sent>>
=============================================================================
