------------------------------ MODULE MCRelay -------------------------------
(***************************************************************************)
(* An instance of Relay for TLC: two connections with different chunk      *)
(* sizes and stream ids, and messages that are empty, of one chunk and of  *)
(* several, one of them with an extended timestamp.                        *)
(***************************************************************************)
EXTENDS RelayChunks, TLC

CONSTANTS a, b

Media(i, len, ts) ==
    [cid |-> 4, len |-> len, type |-> "Media", value |-> 0, ts |-> ts, sid |-> 7, id |-> i]

MCIncoming == <<Media(1, 2, 4), Media(2, 0, 1), Media(3, 3, 1)>>
MCChunkSizeOf == a :> 2 @@ b :> 1
MCStreamIdOf == a :> 1 @@ b :> 0
=============================================================================
