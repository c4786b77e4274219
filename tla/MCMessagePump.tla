--------------------------- MODULE MCMessagePump ---------------------------
(***************************************************************************)
(* Instances of MessagePump for TLC.  Channels of one slot make           *)
(* "full" and "empty" both reachable with a few messages, as 100 slots and *)
(* a busy connection do.                                                   *)
(***************************************************************************)
EXTENDS MessagePump
=============================================================================
