------------------------ MODULE PacketDecoderProofs ------------------------
(***************************************************************************)
(* For every payload: the decoder reads inside it, nests no deeper than    *)
(* its length allows, and ends.                                            *)
(***************************************************************************)
EXTENDS PacketDecoder, SequenceTheorems, TLAPS

(***************************************************************************)
(* Sequences used as a stack, of any values.                               *)
(***************************************************************************)
\* Append makes the stack one deeper.
LEMMA Push ==
    ASSUME NEW S, NEW s \in Seq(S), NEW e
    PROVE  Append(s, e) \in Seq(S \cup {e}) /\ Len(Append(s, e)) = Len(s) + 1
<1>1. s \in Seq(S \cup {e})
  OBVIOUS
<1>2. QED
  BY <1>1

\* Taking the last or the first element off makes the sequence one shorter.
LEMMA Pop ==
    ASSUME NEW S, NEW s \in Seq(S), s # <<>>
    PROVE  /\ SubSeq(s, 1, Len(s) - 1) \in Seq(S)
           /\ Len(SubSeq(s, 1, Len(s) - 1)) = Len(s) - 1
           /\ Tail(s) \in Seq(S) /\ Len(Tail(s)) = Len(s) - 1
           /\ Len(s) > 0
<1>1. Len(s) \in Nat /\ Len(s) > 0
  OBVIOUS
<1>2. \A i \in 1 .. Len(s) - 1 : s[i] \in S
  BY <1>1
<1>3. /\ SubSeq(s, 1, Len(s) - 1) \in Seq(S)
      /\ Len(SubSeq(s, 1, Len(s) - 1)) = IF 1 <= Len(s) - 1 THEN Len(s) - 1 - 1 + 1 ELSE 0
  BY <1>1, <1>2, SubSeqProperties
<1>4. Len(SubSeq(s, 1, Len(s) - 1)) = Len(s) - 1
  <2> DEFINE n == Len(s)  t == Len(SubSeq(s, 1, n - 1))
  <2>1. n \in Nat /\ n > 0 /\ t = IF 1 <= n - 1 THEN n - 1 - 1 + 1 ELSE 0
    BY <1>1, <1>3
  <2> HIDE DEF n, t
  <2>2. t = n - 1
    BY <2>1
  <2>3. QED
    BY <2>2 DEF n, t
<1>5. Tail(s) \in Seq(S) /\ Len(Tail(s)) = Len(s) - 1
  OBVIOUS
<1>6. QED
  BY <1>1, <1>3, <1>4, <1>5

\* Changing an element keeps the length.
LEMMA Replace ==
    ASSUME NEW S, NEW s \in Seq(S), NEW i \in 1 .. Len(s), NEW e
    PROVE  [s EXCEPT ![i] = e] \in Seq(S \cup {e}) /\ Len([s EXCEPT ![i] = e]) = Len(s)
OBVIOUS

(***************************************************************************)
(* What a successful read returns.                                         *)
(***************************************************************************)
\* Reading n bytes at o ends at o + n, inside the stream.
Inside(s, o, n, r) == ~r.err => r.off \in Nat /\ o + n <= r.off /\ r.off <= Len(s)

\* The bytes of a read are numbers.
LEMMA PeekBytes ==
    ASSUME NEW s \in Seq(Byte), NEW o \in Nat, NEW n \in Nat
    PROVE  \A i \in 1 .. n : Peek(s, o, n)[i] \in Nat
<1>1. \A i \in DOMAIN s : s[i] \in Nat
  BY Amf0Assumption DEF Byte
<1>2. QED
  BY <1>1 DEF Peek

\* So is what ReadUInt16 makes of two.
LEMMA UInt16Nat ==
    ASSUME NEW s \in Seq(Byte), NEW o \in Nat
    PROVE  UInt16(Peek(s, o, 2)) \in Nat
<1>1. Peek(s, o, 2)[1] \in Nat /\ Peek(s, o, 2)[2] \in Nat
  BY PeekBytes
<1>2. \A x, y \in Nat : x * y \in Nat
  OBVIOUS
<1>3. QED
  BY <1>1, <1>2, Amf0Assumption DEF UInt16

\* ReadBytes checks Requires.
LEMMA ReadBytesInside ==
    ASSUME NEW s \in Seq(Byte), NEW o \in Nat, NEW n \in Nat
    PROVE  Inside(s, o, n, ReadBytes(s, o, n))
BY DEF Inside, ReadBytes, Requires, Good, Bad

\* Amf0Codec.ReadUtf8 checks for the length, then for the characters.
LEMMA ReadUtf8Inside ==
    ASSUME NEW s \in Seq(Byte), NEW o \in Nat
    PROVE  Inside(s, o, 2, ReadUtf8(s, o))
<1> DEFINE len == UInt16(Peek(s, o, 2))
<1>1. len \in Nat
  BY UInt16Nat
<1>2. Inside(s, o + 2, len, ReadBytes(s, o + 2, len))
  BY <1>1, ReadBytesInside
<1> HIDE DEF len
<1>3. CASE Requires(s, o, 2)
  <2>1. ReadUtf8(s, o) = ReadBytes(s, o + 2, len)
    BY <1>3 DEF ReadUtf8, len
  <2>2. QED
    BY <1>1, <1>2, <2>1 DEF Inside
<1>4. CASE ~Requires(s, o, 2)
  BY <1>4 DEF ReadUtf8, Bad, Inside
<1>5. QED
  BY <1>3, <1>4

\* Every value that is read takes at least its marker and ends inside the stream.
LEMMA ReadValueInside ==
    ASSUME NEW s \in Seq(Byte), NEW o \in Nat
    PROVE  /\ Inside(s, o, 1, ReadString(s, o))
           /\ Inside(s, o, 1, ReadNumber(s, o))
           /\ Inside(s, o, 1, ReadBoolean(s, o))
           /\ Inside(s, o, 1, ReadObject(s, o))
           /\ Inside(s, o, 1, ReadEcmaArray(s, o))
           /\ Inside(s, o, 1, ReadAny(s, o))
<1>1. Inside(s, o, 1, ReadString(s, o))
  BY ReadUtf8Inside, o + 1 \in Nat DEF ReadString, Inside, Bad
<1>2. Inside(s, o, 1, ReadNumber(s, o))
  BY ReadBytesInside, Amf0Assumption, o + 1 \in Nat DEF ReadNumber, Inside, Bad
<1>3. Inside(s, o, 1, ReadBoolean(s, o))
  BY DEF ReadBoolean, Inside, Bad, Good, Requires
<1>4. Inside(s, o, 1, ReadObject(s, o))
  BY DEF ReadObject, Inside, Bad, Good, Requires, IsMarked
<1>5. Inside(s, o, 1, ReadEcmaArray(s, o))
  BY ReadBytesInside, o + 1 \in Nat DEF ReadEcmaArray, Inside, Bad
<1>6. Inside(s, o, 1, Bad(o))
  BY DEF Inside, Bad
<1>7. ~Empty(s, o) => Inside(s, o, 1, Good(o + 1, <<>>))
  BY DEF Inside, Good, Empty, Requires
<1>8. Inside(s, o, 1, ReadAny(s, o))
  <2>1. CASE Empty(s, o)
    BY <1>6, <2>1 DEF ReadAny
  <2>2. CASE ~Empty(s, o)
    <3>1. \/ ReadAny(s, o) \in {ReadString(s, o), ReadBoolean(s, o), ReadNumber(s, o)}
          \/ ReadAny(s, o) \in {ReadObject(s, o), ReadEcmaArray(s, o)}
          \/ ReadAny(s, o) \in {Good(o + 1, <<>>), Bad(o)}
      BY <2>2 DEF ReadAny
    <3>2. QED
      BY <1>1, <1>2, <1>3, <1>4, <1>5, <1>6, <1>7, <2>2, <3>1
  <2>3. QED
    BY <2>1, <2>2
<1>9. QED
  BY <1>1, <1>2, <1>3, <1>4, <1>5, <1>8

(***************************************************************************)
(* The inductive invariant.                                                *)
(***************************************************************************)
FieldKinds == {"name", "one", "object", "number", "any", "string", "number?", "string?",
               "reset?", "uint32", "chunksize", "event", "extra"}

Packets == {"ConnectApp", "CreateStream", "CloseStream", "Play", "Publish", "FMLEStart",
            "SetWindowAckSize", "SetChunkSize", "UserControl"}

\* Nothing is open before the dispatch, and a value in hand belongs to a field.
DInv ==
    /\ payload \in Seq(Byte)
    /\ off \in Nat
    /\ ReadsInside
    /\ \E S : open \in Seq(S)
    /\ todo \in Seq(FieldKinds)
    /\ val = <<>> \/ \E v : val = <<v>>
    /\ open # <<>> \/ val # <<>> => todo # <<>>
    /\ pkt = "none" => open = <<>> /\ val = <<>>
    /\ DepthBounded

\* The layouts of the packets consist of fields.
LEMMA LayoutFields == \A p \in Packets : Layout(p) \in Seq(FieldKinds)
<1>1. \A a, b, c \in FieldKinds : <<a>> \in Seq(FieldKinds) /\ <<a, b>> \in Seq(FieldKinds)
                                /\ <<a, b, c>> \in Seq(FieldKinds)
  OBVIOUS
<1>2. \A a, b, c, d, e, f, g \in FieldKinds :
          /\ <<a, b, c, d>> \in Seq(FieldKinds)
          /\ <<a, b, c, d, e>> \in Seq(FieldKinds)
          /\ <<a, b, c, d, e, f, g>> \in Seq(FieldKinds)
  OBVIOUS
<1>3. {"name", "one", "object", "number", "any", "string", "number?", "string?",
       "reset?", "uint32", "chunksize", "event", "extra"} \subseteq FieldKinds
  BY DEF FieldKinds
<1>4. QED
  BY <1>1, <1>2, <1>3
     DEF Layout, Packets, ConnectAppFields, CreateStreamFields, CloseStreamFields,
         PlayFields, PublishFields, FMLEStartFields, SetWindowAckSizeFields,
         SetChunkSizeFields, UserControlFields

\* Every field takes at least one byte and ends inside the stream.
LEMMA ReadFieldInside ==
    ASSUME payload \in Seq(Byte), off \in Nat, NEW f \in FieldKinds
    PROVE  Inside(payload, off, 1, ReadField(f))
<1>1. \A n \in {4, 6} : Inside(payload, off, 1, ReadBytes(payload, off, n))
  BY ReadBytesInside DEF Inside
<1>2. \/ ReadField(f) \in {ReadString(payload, off), ReadNumber(payload, off)}
      \/ ReadField(f) \in {ReadAny(payload, off), ReadObject(payload, off)}
      \/ ReadField(f) \in {ReadBytes(payload, off, 4), ReadBytes(payload, off, 6)}
  BY DEF ReadField, FieldKinds
<1>3. QED
  BY <1>1, <1>2, ReadValueInside

\* A value that was read is in hand, or the object that it starts is open.
LEMMA ContinueEffect ==
    ASSUME NEW m, NEW r, NEW S, NEW frames \in Seq(S), Continue(m, r, frames)
    PROVE  /\ off' = r.off
           /\ UNCHANGED <<todo, got, result>>
           /\ \E T : open' \in Seq(T)
           /\ \/ Len(open') = Len(frames) + 1 /\ val' = <<>>
              \/ Len(open') = Len(frames) /\ \E v : val' = <<v>>
<1>1. off' = r.off /\ UNCHANGED <<todo, got, result>>
  BY DEF Continue
<1>2. CASE IsContainer(m)
  <2> DEFINE e == [c |-> Value(m, r.b), name |-> <<>>]
  <2>1. open' = Append(frames, e) /\ val' = <<>>
    BY <1>2 DEF Continue
  <2>2. open' \in Seq(S \cup {e}) /\ Len(open') = Len(frames) + 1
    BY <2>1, Push
  <2>3. QED
    BY <1>1, <2>1, <2>2
<1>3. CASE ~IsContainer(m)
  BY <1>1, <1>3 DEF Continue
<1>4. QED
  BY <1>2, <1>3

\* At the end of an object the object is in hand and one less is open.
LEMMA CloseEffect ==
    ASSUME DInv, open # <<>>, Close
    PROVE  /\ \E T : open' \in Seq(T)
           /\ Len(open') = Len(open) - 1
           /\ Len(open) \in Nat /\ Len(open) > 0
           /\ \E v : val' = <<v>>
           /\ UNCHANGED <<todo, got, off, result>>
<1>1. PICK S : open \in Seq(S)
  BY DEF DInv
<1>2. open' \in Seq(S) /\ Len(open') = Len(open) - 1 /\ Len(open) > 0
  BY <1>1, Pop DEF Close
<1>3. val' = <<Innermost.c>> /\ UNCHANGED <<todo, got, off, result>>
  BY DEF Close
<1>4. Len(open) \in Nat
  BY <1>1
<1>5. QED
  BY <1>2, <1>3, <1>4

(***************************************************************************)
(* The arithmetic of the measure: o is a position, a, t and v the numbers  *)
(* of open objects, of fields left and of values in hand.                  *)
(***************************************************************************)
\* The measure, as arithmetic.
LEMMA LessLeft ==
    \A L, o, o1, a, a1, t, t1, v, v1 \in Nat :
        6 * o + 2 * a1 + 3 * t1 + v1 < 6 * o1 + 2 * a + 3 * t + v =>
            6 * (L - o1) + 2 * a1 + 3 * t1 + v1 + 1 < 6 * (L - o) + 2 * a + 3 * t + v + 1
OBVIOUS

\* A read makes the measure smaller, as arithmetic.
LEMMA ReadLess ==
    \A o, o1, a, a1, t, v, v1 \in Nat :
        o + 1 <= o1 /\ a1 <= a + 1 /\ v1 <= 1 =>
            6 * o + 2 * a1 + 3 * t + v1 < 6 * o1 + 2 * a + 3 * t + v
OBVIOUS

\* An object takes three bytes at least, as arithmetic.
LEMMA ReadDepth ==
    \A o, o1, a, a1 \in Nat :
        3 * a <= o + 2 /\ o + 3 <= o1 /\ a1 <= a + 1 => 3 * a1 <= o1 + 2
OBVIOUS

\* The numbers of values in a hand that is empty or holds one.
LEMMA HandLen ==
    ASSUME NEW h, h = <<>> \/ \E x : h = <<x>>
    PROVE  (h = <<>> /\ Len(h) = 0) \/ (h # <<>> /\ Len(h) = 1)
OBVIOUS

\* The length of a stack.
LEMMA StackLen ==
    ASSUME NEW s, \E S : s \in Seq(S)
    PROVE  Len(s) \in Nat /\ (s = <<>> <=> Len(s) = 0)
OBVIOUS

\* Every step inside a Decode keeps the invariant and leaves fewer steps to do.
LEMMA StepInv ==
    ASSUME DInv, DecodeStep
    PROVE  DInv' /\ StepsLeft' < StepsLeft
<1> DEFINE L == Len(payload)
           a == Len(open)
           a1 == Len(open')
           t == Len(todo)
           t1 == Len(todo')
           v == Len(val)
           v1 == Len(val')
<1>1. PICK S : open \in Seq(S)
  BY DEF DInv
<1>2. result = "decoding" /\ pkt # "none" /\ pkt' = pkt /\ payload' = payload
  BY DEF DecodeStep, SkipField, DecodeField, StoreField, Return, EndOfStream,
         ReadProperty, StoreProperty, InDecode
<1>3. /\ L \in Nat /\ off \in Nat /\ off <= L
      /\ a \in Nat /\ t \in Nat /\ 3 * a <= off + 2
  <2>1. L \in Nat /\ t \in Nat
    BY DEF DInv
  <2>2. a \in Nat
    BY <1>1, StackLen
  <2>3. off \in Nat /\ off <= L /\ 3 * a <= off + 2
    BY DEF DInv, ReadsInside, DepthBounded
  <2>4. QED
    BY <2>1, <2>2, <2>3
<1>todo. todo \in Seq(FieldKinds)
  BY DEF DInv
<1>4. (val = <<>> /\ v = 0) \/ (val # <<>> /\ v = 1)
  BY HandLen DEF DInv
<1>5. /\ StepsLeft = 6 * (L - off) + 2 * a + 3 * t + v + 1
      /\ StepsLeft' = 6 * (L - off') + 2 * a1 + 3 * t1 + v1
                         + (IF result' = "decoding" THEN 1 ELSE 0)
  BY <1>2 DEF StepsLeft
<1> HIDE DEF L, a, a1, t, t1, v, v1
\* Steps that only end the decoding.
<1>6. ASSUME UNCHANGED <<todo, off, open, val>>, result' # "decoding"
      PROVE  DInv' /\ StepsLeft' < StepsLeft
  <2>1. DInv'
    BY <1>2, <1>6 DEF DInv, ReadsInside, DepthBounded
  <2>2. a1 = a /\ t1 = t /\ v1 = v
    BY <1>6 DEF a, a1, t, t1, v, v1
  <2>3. QED
    BY <1>3, <1>4, <1>5, <1>6, <2>1, <2>2
\* The others, from what they do to the lengths.
<1>7. ASSUME off' \in Nat, off' <= L, a1 \in Nat, t1 \in Nat, v1 \in Nat,
             \E T : open' \in Seq(T),
             todo' \in Seq(FieldKinds),
             val' = <<>> \/ \E x : val' = <<x>>,
             open' # <<>> \/ val' # <<>> => todo' # <<>>,
             3 * a1 <= off' + 2,
             result' = result,
             6 * off + 2 * a1 + 3 * t1 + v1 < 6 * off' + 2 * a + 3 * t + v
      PROVE  DInv' /\ StepsLeft' < StepsLeft
  <2>1. DInv'
    BY <1>2, <1>7 DEF DInv, ReadsInside, DepthBounded, L, a1
  <2>2. 6 * (L - off') + 2 * a1 + 3 * t1 + v1 + 1 < 6 * (L - off) + 2 * a + 3 * t + v + 1
    <3>1. v \in Nat
      BY <1>4
    <3>2. /\ off' \in Nat /\ a1 \in Nat /\ t1 \in Nat /\ v1 \in Nat
          /\ 6 * off + 2 * a1 + 3 * t1 + v1 < 6 * off' + 2 * a + 3 * t + v
      BY <1>7
    <3>3. L \in Nat /\ off \in Nat /\ a \in Nat /\ t \in Nat
      BY <1>3
    <3>4. QED
      BY <3>1, <3>2, <3>3, LessLeft
  <2>3. QED
    BY <1>2, <1>5, <1>7, <2>1, <2>2
<1>8. CASE SkipField
  <2>1. /\ UNCHANGED <<off, open, val, result>> /\ todo # <<>> /\ todo' = Tail(todo)
        /\ open = <<>> /\ val = <<>>
    BY <1>8 DEF SkipField
  <2>2. todo' \in Seq(FieldKinds) /\ t1 = t - 1 /\ t > 0
    BY <1>todo, <2>1, Pop DEF t, t1
  <2>3. a1 = a /\ v1 = v
    BY <2>1 DEF a, a1, v, v1
  <2>4. 6 * off + 2 * a1 + 3 * t1 + v1 < 6 * off' + 2 * a + 3 * t + v
    BY <1>3, <1>4, <2>1, <2>2, <2>3
  <2>5. t1 \in Nat /\ v1 \in Nat /\ a1 \in Nat /\ 3 * a1 <= off' + 2 /\ off' <= L
    BY <1>3, <1>4, <2>1, <2>2, <2>3
  <2>6. QED
    BY <1>1, <1>3, <1>todo, <1>7, <2>1, <2>2, <2>4, <2>5
<1>9. CASE DecodeField
  <2> DEFINE f == Head(todo)
             r == ReadField(f)
  <2>1. todo # <<>> /\ open = <<>> /\ val = <<>> /\ f \in FieldKinds
    BY <1>todo, <1>9 DEF DecodeField
  <2>2. payload \in Seq(Byte)
    BY DEF DInv
  <2>3. Inside(payload, off, 1, r)
    BY <1>3, <2>1, <2>2, ReadFieldInside
  <2>4. (r.err /\ Fail) \/ (~r.err /\ Continue(MarkerOf(f), r, open))
    BY <1>9 DEF DecodeField
  <2> HIDE DEF f, r
  <2>5. CASE Fail
    BY <1>6, <2>5 DEF Fail
  <2>6. CASE ~r.err /\ Continue(MarkerOf(f), r, open)
    <3>1. /\ off' = r.off /\ UNCHANGED <<todo, got, result>>
          /\ \E T : open' \in Seq(T)
          /\ \/ a1 = a + 1 /\ val' = <<>>
             \/ a1 = a /\ \E x : val' = <<x>>
      BY <1>1, <2>6, ContinueEffect DEF a, a1
    <3>2. off' \in Nat /\ off + 1 <= off' /\ off' <= L
      BY <2>3, <2>6, <3>1 DEF Inside, L
    <3>3. a = 0 /\ v = 0 /\ t1 = t
      <4>1. a = 0
        BY <2>1 DEF a
      <4>2. t1 = t
        BY <3>1 DEF t, t1
      <4>3. QED
        BY <1>4, <2>1, <4>1, <4>2
    <3>4. v1 \in {0, 1}
      <4>1. val' = <<>> \/ \E x : val' = <<x>>
        BY <3>1
      <4>2. QED
        BY <4>1, HandLen DEF v1
    <3>5. a1 \in Nat /\ a1 <= 1 /\ a1 <= a + 1 /\ v1 \in Nat /\ v1 <= 1 /\ t1 \in Nat
      BY <1>3, <3>1, <3>3, <3>4
    <3>6. 3 * a1 <= off' + 2
      <4>1. \A n, o \in Nat : n <= 1 /\ 1 <= o => 3 * n <= o + 2
        OBVIOUS
      <4>2. 1 <= off'
        BY <1>3, <3>2
      <4>3. QED
        BY <3>2, <3>5, <4>1, <4>2
    <3>7. 6 * off + 2 * a1 + 3 * t1 + v1 < 6 * off' + 2 * a + 3 * t + v
      <4>1. v \in Nat /\ t1 = t
        BY <3>3
      <4>2. QED
        BY <1>3, <3>2, <3>5, <4>1, ReadLess
    <3>8. QED
      BY <1>3, <1>todo, <1>7, <2>1, <3>1, <3>2, <3>5, <3>6, <3>7
  <2>7. QED
    BY <2>4, <2>5, <2>6
<1>10. CASE StoreField
  <2>1. open = <<>> /\ val # <<>> /\ todo # <<>>
    BY <1>10 DEF StoreField, DInv
  <2>2. Fail \/ (todo' = Tail(todo) /\ val' = <<>> /\ UNCHANGED <<off, open, result>>)
    BY <1>10 DEF StoreField
  <2>3. CASE Fail
    BY <1>6, <2>3 DEF Fail
  <2>4. CASE todo' = Tail(todo) /\ val' = <<>> /\ UNCHANGED <<off, open, result>>
    <3>1. todo' \in Seq(FieldKinds) /\ t1 = t - 1 /\ t > 0
      BY <1>todo, <2>1, <2>4, Pop DEF t, t1
    <3>2. v1 = 0 /\ v = 1 /\ a1 = a
      BY <1>4, <2>1, <2>4, HandLen DEF v1, a, a1
    <3>3. 6 * off + 2 * a1 + 3 * t1 + v1 < 6 * off' + 2 * a + 3 * t + v
      BY <1>3, <2>4, <3>1, <3>2
    <3>4. t1 \in Nat /\ v1 \in Nat /\ a1 \in Nat /\ 3 * a1 <= off' + 2 /\ off' <= L
      BY <1>3, <2>4, <3>1, <3>2
    <3>5. QED
      BY <1>1, <1>3, <1>todo, <1>7, <2>1, <2>4, <3>1, <3>3, <3>4
  <2>5. QED
    BY <2>2, <2>3, <2>4
<1>11. CASE Return
  BY <1>6, <1>11 DEF Return
<1>12. ASSUME open # <<>>, todo # <<>>, Close
       PROVE  DInv' /\ StepsLeft' < StepsLeft
  <2>1. /\ \E T : open' \in Seq(T)
        /\ a1 = a - 1 /\ a > 0
        /\ \E x : val' = <<x>>
        /\ UNCHANGED <<todo, got, off, result>>
    BY <1>12, CloseEffect DEF a, a1
  <2>2. v1 = 1
    BY <2>1, HandLen DEF v1
  <2>3. t1 = t
    BY <2>1 DEF t, t1
  <2>4. 6 * off + 2 * a1 + 3 * t1 + v1 < 6 * off' + 2 * a + 3 * t + v
    BY <1>3, <1>4, <2>1, <2>2, <2>3
  <2>5. t1 \in Nat /\ v1 \in Nat /\ a1 \in Nat /\ 3 * a1 <= off' + 2 /\ off' <= L
    BY <1>3, <2>1, <2>2, <2>3
  <2>6. QED
    BY <1>3, <1>todo, <1>7, <1>12, <2>1, <2>4, <2>5
<1>13. CASE EndOfStream
  BY <1>12, <1>13 DEF EndOfStream, DInv
<1>14. CASE ReadProperty
  <2> DEFINE name == ReadUtf8(payload, off)
             value == ReadAny(payload, name.off)
             m == Peek(payload, name.off, 1)[1]
             e == [open[Len(open)] EXCEPT !.name = name.b]
             frames == [open EXCEPT ![Len(open)] = e]
  <2>1. open # <<>> /\ val = <<>> /\ todo # <<>>
    BY <1>14 DEF ReadProperty, DInv
  <2>2. Fail \/ (~name.err /\ ~value.err /\ Continue(m, value, frames))
    BY <1>14 DEF ReadProperty
  <2>3. payload \in Seq(Byte)
    BY DEF DInv
  <2>4. Inside(payload, off, 2, name)
    BY <1>3, <2>3, ReadUtf8Inside
  <2>5. ~name.err => Inside(payload, name.off, 1, value)
    BY <2>3, <2>4, ReadValueInside DEF Inside
  <2> HIDE DEF name, value, m, e
  <2>6. Len(open) \in 1 .. Len(open)
    BY <1>1, <2>1
  <2>7. frames \in Seq(S \cup {e}) /\ Len(frames) = a
    BY <1>1, <2>6, Replace DEF a
  <2> HIDE DEF frames
  <2>8. CASE Fail
    BY <1>6, <2>8 DEF Fail
  <2>9. CASE ~name.err /\ ~value.err /\ Continue(m, value, frames)
    <3>1. /\ off' = value.off /\ UNCHANGED <<todo, got, result>>
          /\ \E U : open' \in Seq(U)
          /\ \/ a1 = a + 1 /\ val' = <<>>
             \/ a1 = a /\ \E x : val' = <<x>>
      BY <2>7, <2>9, ContinueEffect DEF a1
    <3>2. off' \in Nat /\ off + 3 <= off' /\ off' <= L
      BY <1>3, <2>4, <2>5, <2>9, <3>1 DEF Inside, L
    <3>3. v1 \in {0, 1} /\ v = 0 /\ t1 = t
      <4>1. val' = <<>> \/ \E x : val' = <<x>>
        BY <3>1
      <4>2. v1 \in {0, 1}
        BY <4>1, HandLen DEF v1
      <4>3. t1 = t
        BY <3>1 DEF t, t1
      <4>4. QED
        BY <1>4, <2>1, <4>2, <4>3
    <3>4. a1 \in Nat /\ a1 <= a + 1 /\ v1 \in Nat /\ t1 \in Nat /\ v1 <= 1
      BY <1>3, <3>1, <3>3
    <3>5. 3 * a1 <= off' + 2
      BY <1>3, <3>2, <3>4, ReadDepth
    <3>6. 6 * off + 2 * a1 + 3 * t1 + v1 < 6 * off' + 2 * a + 3 * t + v
      <4>1. v \in Nat /\ t1 = t /\ off + 1 <= off'
        BY <1>3, <3>2, <3>3
      <4>2. QED
        BY <1>3, <3>2, <3>4, <4>1, ReadLess
    <3>7. QED
      BY <1>3, <1>todo, <1>7, <2>1, <3>1, <3>2, <3>4, <3>5, <3>6
  <2>10. QED
    BY <2>2, <2>8, <2>9
<1>15. CASE StoreProperty
  <2> DEFINE e == [open[Len(open)] EXCEPT !.c = Set(@, Innermost.name, val[1])]
             frames == [open EXCEPT ![Len(open)] = e]
  <2>1. open # <<>> /\ val # <<>> /\ todo # <<>>
    BY <1>15 DEF StoreProperty, DInv
  <2>2. Close \/ (open' = frames /\ val' = <<>> /\ UNCHANGED <<todo, off, result>>)
    BY <1>15 DEF StoreProperty
  <2> HIDE DEF e
  <2>3. Len(open) \in 1 .. Len(open)
    BY <1>1, <2>1
  <2>4. frames \in Seq(S \cup {e}) /\ Len(frames) = a
    BY <1>1, <2>3, Replace DEF a
  <2> HIDE DEF frames
  <2>5. CASE open' = frames /\ val' = <<>> /\ UNCHANGED <<todo, off, result>>
    <3>1. a1 = a /\ v1 = 0 /\ v = 1 /\ t1 = t
      BY <1>4, <2>1, <2>4, <2>5, HandLen DEF a1, v1, t, t1
    <3>2. 6 * off + 2 * a1 + 3 * t1 + v1 < 6 * off' + 2 * a + 3 * t + v
      BY <1>3, <2>5, <3>1
    <3>3. t1 \in Nat /\ v1 \in Nat /\ a1 \in Nat /\ 3 * a1 <= off' + 2 /\ off' <= L
      BY <1>3, <2>5, <3>1
    <3>4. QED
      BY <1>3, <1>todo, <1>7, <2>1, <2>4, <2>5, <3>2, <3>3
  <2>6. QED
    BY <1>12, <2>1, <2>2, <2>5
<1>16. QED
  BY <1>8, <1>9, <1>10, <1>11, <1>13, <1>14, <1>15 DEF DecodeStep

(***************************************************************************)
(* The theorems.                                                           *)
(***************************************************************************)
\* Before the first read nothing is open.
LEMMA InitInv == Init => DInv
<1> SUFFICES ASSUME Init PROVE DInv
  OBVIOUS
<1>1. open \in Seq({}) /\ todo \in Seq(FieldKinds) /\ Len(open) = 0
  BY DEF Init, DecodeInit
<1>2. payload \in Seq(Byte) /\ Len(payload) \in Nat
  BY DEF Init
<1>3. QED
  BY <1>1, <1>2 DEF Init, DecodeInit, DInv, ReadsInside, DepthBounded

\* DecodePacket chooses the packet and its fields before it reads them.
LEMMA DispatchInv ==
    ASSUME DInv, Dispatch
    PROVE  DInv'
<1>1. open = <<>> /\ val = <<>> /\ payload' = payload
  BY DEF DInv, Dispatch
<1>2. CASE Fail
  BY <1>1, <1>2 DEF Fail, DInv, ReadsInside, DepthBounded
<1>3. ASSUME NEW p \in Packets \cup {"none"}, StartDecode(p)
      PROVE  DInv'
  <2>1. open' = <<>> /\ val' = <<>> /\ pkt' = p
    BY <1>1, <1>3 DEF StartDecode
  <2>2. todo' \in Seq(FieldKinds)
    BY <1>3, LayoutFields DEF StartDecode, Packets
  <2>3. off' \in Nat /\ off' <= Len(payload)
    BY <1>3 DEF StartDecode, StreamStart, Requires, DInv
  <2>4. open' \in Seq({}) /\ Len(open') = 0
    BY <2>1
  <2>5. ReadsInside' /\ DepthBounded'
    <3>1. \A o \in Nat : 3 * 0 <= o + 2
      OBVIOUS
    <3>2. 3 * Len(open') <= off' + 2
      BY <2>3, <2>4, <3>1
    <3>3. QED
      BY <1>1, <2>3, <3>2 DEF ReadsInside, DepthBounded
  <2>6. payload' \in Seq(Byte)
    BY <1>1 DEF DInv
  <2>7. \E S : open' \in Seq(S)
    BY <2>4
  <2>8. QED
    BY <2>1, <2>2, <2>3, <2>5, <2>6, <2>7 DEF DInv
<1>4. \A c : PacketOf(c) \in Packets \cup {"none"}
  BY DEF PacketOf, Packets
<1>5. ControlPacket \in Packets \cup {"none"}
  BY DEF ControlPacket, Packets
<1>6. Fail \/ \E p \in Packets \cup {"none"} : StartDecode(p)
  <2>1. CASE type \in AmfTypes
    <3>1. Fail \/ StartDecode("none") \/ \E c : StartDecode(PacketOf(c))
      BY <2>1 DEF Dispatch, DispatchCommand
    <3>2. QED
      BY <1>4, <3>1
  <2>2. CASE type \notin AmfTypes
    BY <1>5, <2>2 DEF Dispatch
  <2>3. QED
    BY <2>1, <2>2
<1>7. QED
  BY <1>2, <1>3, <1>6

\* Every step keeps the invariant.
LEMMA NextInv == DInv /\ [DecodeNext]_vars => DInv'
<1>1. ASSUME DInv, UNCHANGED vars PROVE DInv'
  BY <1>1 DEF vars, decodeVars, DInv, ReadsInside, DepthBounded
<1>2. QED
  BY <1>1, DispatchInv, StepInv DEF DecodeNext

\* Whatever the bytes of a message are, decoding it never reads behind them: every
\* read of the codec and of the packets' Decode methods has its Requires.
THEOREM DecodeReadsInside == Spec => []ReadsInside
<1>1. DInv => ReadsInside
  BY DEF DInv
<1>2. QED
  BY InitInv, NextInv, <1>1, PTL DEF Spec

\* The recursion of Amf0Any.Read is never deeper than a third of the bytes read.
THEOREM DecodeDepth == Spec => []DepthBounded
<1>1. DInv => DepthBounded
  BY DEF DInv
<1>2. QED
  BY InitInv, NextInv, <1>1, PTL DEF Spec

\* Every step of a Decode lowers StepsLeft, which is never negative: all loops over
\* properties and fields end, for every message.
THEOREM DecodeEnds == Spec => DecodeProgresses
<1>1. DInv /\ [DecodeNext]_vars => [DecodeStep => StepsLeft' < StepsLeft]_vars
  BY StepInv
<1>2. QED
  BY InitInv, NextInv, <1>1, PTL DEF Spec, DecodeProgresses
=============================================================================
