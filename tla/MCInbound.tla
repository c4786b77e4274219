----------------------------- MODULE MCInbound -----------------------------
(***************************************************************************)
(* An instance of Inbound for TLC.  C0C1 and C2 of a few bytes, so that    *)
(* reads end before, at and after every boundary.  The parts of a chunk    *)
(* have their real sizes; the socket returns 3 or 16 bytes at a time, so   *)
(* that a Read ends inside, at and beyond what the reader asks for, and a  *)
(* Consume empties the list or does not.                                   *)
(***************************************************************************)
EXTENDS Inbound
=============================================================================
