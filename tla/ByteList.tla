----------------------------- MODULE ByteList ------------------------------
(***************************************************************************)
(* What BytesList and HPBuffer promise (hp_buffer.go, comment on the type  *)
(* BytesList): a list of bytes to which bytes are appended at the end and  *)
(* from which they are removed at the front, with a position in it.        *)
(***************************************************************************)
EXTENDS Integers, Sequences

VARIABLES
    bytes,    \* the bytes of the list
    pos       \* bytes in front of the reading position

Init == bytes = <<>> /\ pos = 0

\* "list.Append([1, 2]), the list.Bytes() is [3, 1, 2]": the old bytes stay in front.
Extend ==
    /\ Len(bytes') > Len(bytes)
    /\ SubSeq(bytes', 1, Len(bytes)) = bytes
    /\ pos' = pos

\* Reading and skipping, also backwards, stay within the list.
Move == bytes' = bytes /\ pos' \in 0 .. Len(bytes)

\* "list.Remove(2), the list.Bytes() is [3]": the first n bytes go, of those in front of
\* the position, which stays at the same byte.
Drop ==
    \E n \in 1 .. pos :
        /\ bytes' = SubSeq(bytes, n + 1, Len(bytes))
        /\ pos' = pos - n

Next == Extend \/ Move \/ Drop

Spec == Init /\ [][Next]_<<bytes, pos>>
=============================================================================
