-------------------------------- MODULE Amf0 --------------------------------
(***************************************************************************)
(* The AMF0 reads of Amf0Codec on a stream of bytes, and the AMF0 values   *)
(* they produce.  A stream is the payload of one message; it is private to *)
(* the goroutine that decodes it, so a read is one step.  A read that      *)
(* leaves the stream (in Go, an index out of range) is not excluded: it    *)
(* returns a position behind the end, and the decoder's invariant says     *)
(* that this never happens.                                                *)
(*                                                                         *)
(* A value keeps its marker, the bytes of its scalar (of the count, for an *)
(* ECMA array) and its properties in the order in which they were set.     *)
(***************************************************************************)
EXTENDS Naturals, Sequences

CONSTANTS
    Base,          \* number of values of a byte, 256 in the code
    NumberBytes,   \* bytes of a float64, 8 in the code
    NameOf,        \* the bytes of each command name
    One            \* the bytes of the float64 1.0

ASSUME Amf0Assumption ==
    /\ Base \in Nat /\ Base > 9
    /\ NumberBytes \in Nat /\ NumberBytes > 0
    /\ \A c, d \in DOMAIN NameOf : NameOf[c] = NameOf[d] => c = d

Byte == 0 .. Base - 1

AMF0_Number == 0
AMF0_Boolean == 1
AMF0_String == 2
AMF0_Object == 3
AMF0_Null == 5
AMF0_Undefined == 6
AMF0_EcmaArray == 8
AMF0_ObjectEnd == 9

\* The one event of a UserControlPacket with extra data.
PCUCSetBufferLength == 3

(***************************************************************************)
(* Integers in big-endian order.                                           *)
(***************************************************************************)
UInt16(b) == b[1] * Base + b[2]
UInt32(b) == ((b[1] * Base + b[2]) * Base + b[3]) * Base + b[4]
\* WriteUInt16 and WriteUInt32 keep the low bytes of v.
Bytes16(v) == <<(v \div Base) % Base, v % Base>>
Bytes32(v) == Bytes16(v \div (Base * Base)) \o Bytes16(v)

(***************************************************************************)
(* Reads at position o of the stream s.                                    *)
(***************************************************************************)
Requires(s, o, n) == o + n <= Len(s)
Empty(s, o) == ~Requires(s, o, 1)

\* The next n bytes.  A byte behind the end is not defined by the code; 0 stands for it.
Peek(s, o, n) == [i \in 1 .. n |-> IF o + i \in DOMAIN s THEN s[o + i] ELSE 0]

Good(o, b) == [err |-> FALSE, off |-> o, b |-> b]
Bad(o) == [err |-> TRUE, off |-> o, b |-> <<>>]

ReadBytes(s, o, n) == IF Requires(s, o, n) THEN Good(o + n, Peek(s, o, n)) ELSE Bad(o)

\* Mutant: the length of the data is trusted.
ReadUtf8_Trusting(s, o) ==
    LET len == UInt16(Peek(s, o, 2))
    IN IF Requires(s, o, 2) THEN Good(o + 2 + len, Peek(s, o + 2, len)) ELSE Bad(o)

ReadUtf8(s, o) ==
    LET len == UInt16(Peek(s, o, 2))
    IN IF Requires(s, o, 2) THEN ReadBytes(s, o + 2, len) ELSE Bad(o)

IsMarked(s, o, m) == Requires(s, o, 1) /\ Peek(s, o, 1)[1] = m

ReadString(s, o) == IF IsMarked(s, o, AMF0_String) THEN ReadUtf8(s, o + 1) ELSE Bad(o)

ReadNumber(s, o) ==
    IF IsMarked(s, o, AMF0_Number) THEN ReadBytes(s, o + 1, NumberBytes) ELSE Bad(o)

\* Every byte but 0 is true.
ReadBoolean(s, o) ==
    IF IsMarked(s, o, AMF0_Boolean) /\ Requires(s, o + 1, 1)
    THEN Good(o + 2, IF Peek(s, o + 1, 1)[1] = 0 THEN <<0>> ELSE <<1>>)
    ELSE Bad(o)

\* The marker of an object; its properties follow.
ReadObject(s, o) == IF IsMarked(s, o, AMF0_Object) THEN Good(o + 1, <<>>) ELSE Bad(o)

\* Mutant: the count is taken for the first property.
ReadEcmaArray_NoCount(s, o) ==
    IF IsMarked(s, o, AMF0_EcmaArray) THEN Good(o + 1, Bytes32(0)) ELSE Bad(o)

\* The marker and the count of an ECMA array; its properties follow.
ReadEcmaArray(s, o) ==
    IF IsMarked(s, o, AMF0_EcmaArray) THEN ReadBytes(s, o + 1, 4) ELSE Bad(o)

\* Mutant: the marker of a value without content is looked at and not consumed.
ReadAny_Unconsumed(s, o) ==
    LET m == Peek(s, o, 1)[1]
    IN IF Empty(s, o) THEN Bad(o) ELSE
       CASE m = AMF0_String -> ReadString(s, o)
         [] m = AMF0_Boolean -> ReadBoolean(s, o)
         [] m = AMF0_Number -> ReadNumber(s, o)
         [] m \in {AMF0_Null, AMF0_Undefined, AMF0_ObjectEnd} -> Good(o, <<>>)
         [] m = AMF0_Object -> ReadObject(s, o)
         [] m = AMF0_EcmaArray -> ReadEcmaArray(s, o)
         [] OTHER -> Bad(o)

\* Amf0Any.Read, up to the properties of an object or array.
ReadAny(s, o) ==
    LET m == Peek(s, o, 1)[1]
    IN IF Empty(s, o) THEN Bad(o) ELSE
       CASE m = AMF0_String -> ReadString(s, o)
         [] m = AMF0_Boolean -> ReadBoolean(s, o)
         [] m = AMF0_Number -> ReadNumber(s, o)
         [] m \in {AMF0_Null, AMF0_Undefined, AMF0_ObjectEnd} -> Good(o + 1, <<>>)
         [] m = AMF0_Object -> ReadObject(s, o)
         [] m = AMF0_EcmaArray -> ReadEcmaArray(s, o)
         [] OTHER -> Bad(o)

(***************************************************************************)
(* Values.                                                                 *)
(***************************************************************************)
Value(m, b) == [m |-> m, b |-> b, props |-> <<>>]
Null == Value(AMF0_Null, <<>>)
Undefined == Value(AMF0_Undefined, <<>>)

IsContainer(m) == m \in {AMF0_Object, AMF0_EcmaArray}

\* Read leaves Value nil for all three.
IsNil(v) == v.m \in {AMF0_Null, AMF0_Undefined, AMF0_ObjectEnd}

\* Amf0UnSortedHashtable.Set: a known name keeps its place.
SetProperty(props, k, v) ==
    IF \E i \in DOMAIN props : props[i].k = k
    THEN [i \in DOMAIN props |-> IF props[i].k = k THEN [k |-> k, v |-> v] ELSE props[i]]
    ELSE Append(props, [k |-> k, v |-> v])

\* Set of an object, and of an array, which counts its properties again.
Set(c, k, v) ==
    LET props == SetProperty(c.props, k, v)
    IN [c EXCEPT !.props = props,
                 !.b = IF c.m = AMF0_EcmaArray THEN Bytes32(Len(props)) ELSE @]
=============================================================================
