---------------------------- MODULE MCChunkLink ----------------------------
(***************************************************************************)
(* Instances of ChunkLink for TLC, scaled down like those of ChunkPeer: a  *)
(* control message is as long as the smallest chunk (4 and 128 bytes in    *)
(* the code), and the extended timestamp starts at 3.                      *)
(***************************************************************************)
EXTENDS ChunkLink

Control(type, value) == [cid |-> 2, len |-> 1, type |-> type, value |-> value]
Command(len) == [cid |-> 3, len |-> len, type |-> "Media", value |-> 0]
Raw(cid, len, ts) ==
    [cid |-> cid, len |-> len, type |-> "Media", value |-> 0, ts |-> ts, sid |-> 0]

\* Packets that change the chunk size.
ResizePackets == {Command(3), Control("SetChunkSize", 2), Control("SetChunkSize", 1)}

\* A packet of a program that uses the library as a client.
ClientPackets == {[cid |-> 3, len |-> 3, type |-> "Request", value |-> 0]}

\* Packets of a server: empty, of several chunks, and ones that change the chunk size.
ServerPackets == {Command(0), Command(5), Control("SetChunkSize", 3), Control("SetChunkSize", 2)}

\* Media below and above the limit of the 3-byte timestamp.
ServerMessages == {Raw(3, 3, 4), Raw(63, 2, 1)}

\* Media exactly at the limit of the 3-byte timestamp.
LimitMessages == {Raw(3, 2, 3)}

\* Media received over a chunk stream id that needs more than six bits.
RelayMessages == {Raw(64, 2, 1)}
=============================================================================
