----------------------------- MODULE ChunkWire -----------------------------
(***************************************************************************)
(* The fields between a sender and a reader.  Since a field knows its size *)
(* "n bytes are available" means what EnsureBufferBytes means; a reader    *)
(* that expects another field than the one at the head has lost the chunk  *)
(* boundaries.                                                             *)
(***************************************************************************)
EXTENDS ChunkFields

VARIABLE wire

\* EnsureBufferBytes: at least n bytes are there to be read.
Available(n) == BytesOf(wire) >= n

\* The next field is of this kind.
NextIs(kind) == wire # <<>> /\ wire[1].kind = kind

\* The next n fields are payload bytes.
NextAreData(n) == Len(wire) >= n /\ \A i \in 1 .. n : wire[i].kind = "data"
=============================================================================
