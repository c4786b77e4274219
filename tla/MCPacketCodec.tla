--------------------------- MODULE MCPacketCodec ---------------------------
(***************************************************************************)
(* Instances of PacketCodec for TLC.  A byte has 16 values, so that a      *)
(* string of 255 bytes is the longest that its two bytes of length can     *)
(* say, and a float64 has one byte.                                        *)
(***************************************************************************)
EXTENDS PacketCodec, TLC

Names == <<"connect", "createStream", "play", "publish", "closeStream", "releaseStream",
           "FCPublish", "FCUnpublish", "_result", "_error", "onStatus", "onBWDone",
           "|RtmpSampleAccess">>
MCNameOf == [c \in {Names[i] : i \in DOMAIN Names} |->
                <<CHOOSE i \in DOMAIN Names : Names[i] = c>>]
MCOne == <<1>>
MCTwo == <<2>>
MCNumbers == {<<0>>, <<2>>}
MCStrings == {<<>>, <<5, 5>>, [i \in 1 .. Base * Base - 1 |-> 9]}
MCUInt32s == {<<0, 0, 0, 4>>, <<0, 0, 1, 0>>, <<0, 0, 1, 1>>}
MCKeys == {<<7>>, <<8, 0>>}

Empty0 == Value(AMF0_Object, <<>>)
Inner == Set(Empty0, <<9>>, Value(AMF0_Number, <<5>>))
MCSetValues ==
    {Value(AMF0_Boolean, <<1>>), Value(AMF0_String, <<>>), Empty0, Set(Empty0, <<9>>, Empty0),
     Set(Set(Value(AMF0_EcmaArray, Bytes32(0)), <<6>>, Inner), <<3>>, Value(AMF0_String, <<0, 9>>))}

\* Values that the codec does not bring across: no value, and a string too long for its
\* length.
NullValues == {Null, Value(AMF0_Boolean, <<1>>)}
LongStrings == {[i \in 1 .. Base * Base |-> 9]}

\* Every message of a type and of a few bytes after a prefix that reaches the
\* interesting places: before the command, inside each kind of field, inside objects.
Alphabet == {0, 1, 2, 3, 5, 8, 9, 15}
Words(n) == UNION {[1 .. k -> Alphabet] : k \in 0 .. n}
Cmd(c) == <<2, 0, 1>> \o MCNameOf[c]
Num(b) == <<0>> \o b
Prefixes ==
    {[type |-> t, payload |-> <<>>] : t \in {"amf0command", "amf3command", "usercontrol",
                                            "windowack", "setchunksize", "other"}}
    \cup {[type |-> "amf0command", payload |-> p] :
            p \in {Cmd("connect"), Cmd("connect") \o Num(<<1>>),
                   Cmd("connect") \o Num(<<1>>) \o <<3, 0, 1, 7>>,
                   Cmd("play") \o Num(<<0>>) \o <<5>>,
                   Cmd("play") \o Num(<<0>>) \o <<5, 2, 0, 0>>,
                   Cmd("play") \o Num(<<0>>) \o <<5, 2, 0, 0>> \o Num(<<0>>) \o Num(<<0>>),
                   Cmd("publish") \o Num(<<0>>) \o <<5, 2, 0, 0>>,
                   Cmd("closeStream") \o Num(<<0>>),
                   Cmd("createStream") \o Num(<<0>>) \o <<8, 0, 0, 0, 0>>,
                   Cmd("FCPublish") \o Num(<<2>>) \o <<3, 0, 1, 7, 3>>,
                   Cmd("_result"), Cmd("onStatus")}}
    \cup {[type |-> "amf3command", payload |-> <<0>> \o Cmd("releaseStream") \o Num(<<2>>)],
          [type |-> "amf0data", payload |-> Cmd("connect") \o Num(<<1>>) \o <<3>>],
          [type |-> "amf3data", payload |-> Cmd("onStatus")],
          [type |-> "usercontrol", payload |-> <<0, 3, 0, 0>>]}

CONSTANT WordLength   \* bound: arbitrary bytes after each prefix
MCReceived == {[type |-> p.type, payload |-> p.payload \o w] :
                  p \in Prefixes, w \in Words(WordLength)}
=============================================================================
