----------------------------- MODULE RelayChunks ----------------------------
(***************************************************************************)
(* What Relay should write: the chunks of the messages queued for each     *)
(* connection.                                                             *)
(***************************************************************************)
EXTENDS Relay, SequencesExt

\* The chunks of a message: each has a header and at most size bytes of the payload; an
\* empty message has one chunk.
Chunk(m, size, first) ==
    ChunkHeader(m, first = 0) \o DataFields(m, first, MinOf(size, m.len - first))
Chunks(m, size) ==
    LET n == IF m.len = 0 THEN 1 ELSE (m.len + size - 1) \div size
    IN FlattenSeq([j \in 1 .. n |-> Chunk(m, size, (j - 1) * size)])

\* How many messages the goroutine of c has taken from its queue.
Taken(c) == Len(accepted[c]) - Len(queue[c])

\* Every connection gets the messages queued for it, in order and each of them complete,
\* cut by its own chunk size and with its own stream id, whatever the others are doing
\* with the same messages at the time and however the connection takes them: what it gets
\* while the goroutine has the n-th message is that message, or a prefix of it until the
\* goroutine has done with it.  Only when writing fails the prefix is all, and the next
\* message may follow behind it.
RelayWires ==
    \A c \in Conns : Taken(c) > 0 =>
        LET expected == Chunks(accepted[c][Taken(c)], ChunkSizeOf[c])
        IN /\ IsPrefix(wire[c], expected)
           /\ spc[c] = "take" /\ ~ failed[c] => wire[c] = expected
=============================================================================
