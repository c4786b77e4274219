---------------------------- MODULE MCChunkPeer ----------------------------
(***************************************************************************)
(* Instances of ChunkPeer for TLC.  Scaled down: timestamps need the       *)
(* extended field from 3 on instead of 0xFFFFFF, chunks are 1 to 3 bytes   *)
(* instead of 128 to 65536, numbers in control messages 2 bytes instead of *)
(* 4.  Lengths on both sides of the chunk size and timestamps on both      *)
(* sides of the limit are all there.                                       *)
(***************************************************************************)
EXTENDS ChunkPeer

Media(len, sid) == [len |-> len, type |-> "Media", sid |-> sid, value |-> 0]
Control(type, len, n) == [len |-> len, type |-> type, sid |-> 0, value |-> n]
SetChunkSize(n) == Control("SetChunkSize", 2, n)
WindowAckSize(n) == Control("WindowAckSize", 2, n)

\* Messages of up to three chunks on two streams, and an empty one.
MediaMessages == {Media(0, 1), Media(1, 1), Media(3, 1), Media(2, 2)}

\* Messages between which the peer changes its chunk size, once beyond the limits, and
\* control messages of which one byte is missing.
FaultyMessages ==
    {Media(5, 1), WindowAckSize(99), SetChunkSize(3), SetChunkSize(4),
     Control("UserControl", 4, 6), Control("UserControl", 6, 3)}
    \cup {Control("SetChunkSize", 1, 3), Control("WindowAckSize", 1, 99),
          Control("UserControl", 3, 6), Control("UserControl", 5, 3)}

\* Messages after which the acknowledgement window is exceeded.
WindowMessages == {WindowAckSize(20), SetChunkSize(2), Media(3, 1)}
=============================================================================
