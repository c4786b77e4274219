----------------------------- MODULE ChunkLink -----------------------------
(***************************************************************************)
(* Two protocol stacks of this library connected back to back: the writer  *)
(* of one and the reader of the other, sharing the wire.                   *)
(***************************************************************************)
EXTENDS ChunkWriter, ChunkReader, SequencesExt

\* NewProtocol gives both directions RTMP_DEFAULT_CHUNK_SIZE, which is the smallest.
ASSUME LinkAssumption == DefaultChunkSize = MinChunkSize

vars == <<wire, readerVars, writerVars>>

Init == wire = <<>> /\ WriterInit /\ ReaderInit

\* Nothing is written to a connection that is lost.
SenderStep == TakeMessage \/ (rpc \notin {"cut", "astray"} /\ (WriteHeader \/ WritePayload))
UserStep(u) == SendMessage(u) \/ SendPacket(u) \/ on_send_message(u)

Next ==
    \/ SenderStep /\ UNCHANGED readerVars
    \/ (\E u \in Users : UserStep(u)) /\ UNCHANGED readerVars
    \/ ReaderNext /\ UNCHANGED writerVars

Spec == Init /\ [][Next]_vars

\* The goroutines run whenever they can; a user that has queued a packet goes on.
FairSpec ==
    /\ Spec
    /\ WF_vars(SenderStep /\ UNCHANGED readerVars)
    /\ WF_vars(ReaderRuns /\ UNCHANGED writerVars)
    /\ \A u \in Users : WF_vars(on_send_message(u) /\ UNCHANGED readerVars)

-----------------------------------------------------------------------------
(* Properties *)

\* The messages accepted for chunk stream c that are not empty, as the receiver should
\* see them.
Expected(c) ==
    LET mine == SelectSeq(accepted, LAMBDA m : m.cid = c /\ m.len > 0)
    IN [i \in 1 .. Len(mine) |->
           [ts |-> mine[i].ts, type |-> mine[i].type, sid |-> mine[i].sid,
            payload |-> DataFields(mine[i], 0, mine[i].len)]]

\* What one stack accepts for sending the other delivers, in the same order on every
\* chunk stream, complete and unchanged.
LinkDelivers == \A c \in Cids : IsPrefix(delivered[c], Expected(c))

\* The reader understands the chunks that the writer writes, of messages with chunk stream
\* ids below 64 and timestamps below or above 0xFFFFFF: an id of 64 or more is cut to six
\* bits, and at 0xFFFFFF the writer leaves out the field that the reader expects.
LinkInSync == rpc \notin {"desync", "failed", "torn"}

\* When everything accepted has been written and read, both sides agree on the chunk
\* size: the writer's outChunkSize is the reader's inChunkSize.
SizesAgree ==
    (/\ outQueue = <<>> /\ spc = "take" /\ wire = <<>> /\ rpc = "basic"
     /\ pending = [u \in Users |-> NoMessage])
    => outChunkSize = inChunkSize

\* Whatever the queue accepts is eventually delivered, unless the connection is lost.
LinkEventuallyDelivers ==
    \A k \in 1 .. MaxMessages : \A c \in Cids :
        (Len(Expected(c)) >= k) ~> (Len(delivered[c]) >= k \/ rpc \in {"cut", "astray"})
=============================================================================
