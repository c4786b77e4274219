----------------------------- MODULE Handshake -----------------------------
(***************************************************************************)
(* The simple handshake (handshake.go) with a client: read C0C1, check the *)
(* version, write S0S1S2, read C2, start the pump goroutines.  The program *)
(* may call it again after an error: what was read is kept in the protocol *)
(* stack ("if not read yet").  Bytes are counted, not spelled out.         *)
(***************************************************************************)
EXTENDS Naturals

CONSTANTS
    C0C1Size,     \* 1537
    C2Size,       \* 1536
    ChunkBytes,   \* bytes the client sends after the handshake
    Versions,     \* first bytes clients send; 3 is plain RTMP
    MaxCalls,     \* bound: calls of SimpleHandshake2Client
    Deadlines     \* whether the program sets read deadlines on the connection

ASSUME HandshakeAssumption ==
    /\ C0C1Size \in Nat \ {0} /\ C2Size \in Nat \ {0}
    /\ ChunkBytes \in Nat /\ MaxCalls \in Nat
    /\ Versions \subseteq Nat \ {0}
    /\ Deadlines \in BOOLEAN

VARIABLES
    version,    \* what this client sends as C0
    conn,       \* "up", or "down" when the client is gone
    sent,       \* bytes the client has sent
    answered,   \* whether S0S1S2 was written
    taken,      \* bytes taken from the connection
    c0c1, c2,   \* [made, got]: the slice is not nil; bytes read into it
    first,      \* c0c1[0]
    hpc,        \* where SimpleHandshake2Client is
    calls,
    result,     \* what the last call returned
    pumps       \* times the pump goroutines were started

clientVars == <<version, sent>>
serverVars == <<taken, c0c1, c2, first, hpc, calls, result, pumps>>
handshakeVars == <<conn, answered, clientVars, serverVars>>

HandshakeSize == C0C1Size + C2Size
Unread == [made |-> FALSE, got |-> 0]

HandshakeInit ==
    /\ version \in Versions
    /\ conn = "up"
    /\ sent = 0 /\ taken = 0
    /\ answered = FALSE
    /\ c0c1 = Unread /\ c2 = Unread
    /\ first = 0
    /\ hpc = "idle"
    /\ calls = 0
    /\ result = "none"
    /\ pumps = 0

-----------------------------------------------------------------------------
(* The client: C0C1 at once, C2 and chunks after S0S1S2 *)

ClientSend ==
    /\ conn = "up"
    /\ sent < IF answered THEN HandshakeSize + ChunkBytes ELSE C0C1Size
    /\ sent' = sent + 1
    /\ UNCHANGED <<version, conn, answered, serverVars>>

ClientLeaves ==
    /\ conn = "up"
    /\ conn' = "down"
    /\ UNCHANGED <<answered, clientVars, serverVars>>

-----------------------------------------------------------------------------
(* The server *)

Return(r) == hpc' = "idle" /\ result' = r

\* SimpleHandshake2Client: the slice is made before it is filled.
Call ==
    /\ hpc = "idle"
    /\ calls < MaxCalls /\ result # "ok"
    /\ calls' = calls + 1
    /\ hpc' = IF c0c1.made THEN "version" ELSE "read_c0c1"
    /\ c0c1' = [c0c1 EXCEPT !.made = TRUE]
    /\ UNCHANGED <<conn, answered, clientVars, taken, c2, first, result, pumps>>

\* Mutant: whatever has arrived is taken, as a plain Read into a larger buffer would.
Piece_Greedy(left) == { n \in 1 .. sent : taken + n <= sent }

\* Bytes one read inside io.ReadFull may return.
Piece(left) == { n \in 1 .. left : taken + n <= sent }

\* io.ReadFull(r.conn, handshake.c0c1).
handshake_read_c0c1 ==
    /\ hpc = "read_c0c1"
    /\ \E n \in Piece(C0C1Size - c0c1.got) :
          /\ taken' = taken + n
          /\ c0c1' = [c0c1 EXCEPT !.got = @ + n]
          /\ hpc' = IF c0c1.got + n >= C0C1Size THEN "version" ELSE hpc
    /\ first' = IF c0c1.got = 0 THEN version ELSE first
    /\ UNCHANGED <<conn, answered, clientVars, c2, calls, result, pumps>>

\* A read fails: the client is gone and all it sent is read, or a deadline expires.
ReadFails ==
    /\ hpc \in {"read_c0c1", "read_c2"}
    /\ taken = sent
    /\ conn = "down" \/ Deadlines
    /\ Return("io")
    /\ UNCHANGED <<conn, answered, clientVars, taken, c0c1, c2, first, calls, pumps>>

\* Mutant: the version is not checked.
CheckVersion_Any ==
    /\ hpc = "version"
    /\ hpc' = "write"
    /\ UNCHANGED <<conn, answered, clientVars, taken, c0c1, c2, first, calls, result, pumps>>

\* "plain text required."
CheckVersion ==
    /\ hpc = "version"
    /\ IF first = 3 THEN hpc' = "write" /\ UNCHANGED result ELSE Return("plain")
    /\ UNCHANGED <<conn, answered, clientVars, taken, c0c1, c2, first, calls, pumps>>

\* Mutant: C2 is read before the answer is written.
WriteS0S1S2_Late ==
    /\ hpc = "write"
    /\ hpc' = IF c2.got >= C2Size THEN "start" ELSE "read_c2"
    /\ answered' = (answered \/ c2.got >= C2Size)
    /\ c2' = [c2 EXCEPT !.made = TRUE]
    /\ UNCHANGED <<conn, clientVars, taken, c0c1, first, calls, result, pumps>>

\* r.conn.Write(handshake.s0s1s2), then C2 if it is not read yet.
WriteS0S1S2 ==
    /\ hpc = "write"
    /\ hpc' = IF c2.made THEN "start" ELSE "read_c2"
    /\ answered' = TRUE
    /\ c2' = [c2 EXCEPT !.made = TRUE]
    /\ UNCHANGED <<conn, clientVars, taken, c0c1, first, calls, result, pumps>>

WriteFails ==
    /\ hpc = "write"
    /\ conn = "down"
    /\ Return("io")
    /\ UNCHANGED <<conn, answered, clientVars, taken, c0c1, c2, first, calls, pumps>>

\* Mutant: one Read instead of io.ReadFull.
handshake_read_c2_Once ==
    /\ hpc = "read_c2"
    /\ \E n \in Piece(C2Size - c2.got) :
          /\ taken' = taken + n
          /\ c2' = [c2 EXCEPT !.got = @ + n]
          /\ hpc' = "start"
    /\ UNCHANGED <<conn, answered, clientVars, c0c1, first, calls, result, pumps>>

\* io.ReadFull(r.conn, handshake.c2).
handshake_read_c2 ==
    /\ hpc = "read_c2"
    /\ \E n \in Piece(C2Size - c2.got) :
          /\ taken' = taken + n
          /\ c2' = [c2 EXCEPT !.got = @ + n]
          /\ hpc' = IF c2.got + n >= C2Size THEN "start" ELSE hpc
    /\ UNCHANGED <<conn, answered, clientVars, c0c1, first, calls, result, pumps>>

StartPumps ==
    /\ hpc = "start"
    /\ pumps' = pumps + 1
    /\ Return("ok")
    /\ UNCHANGED <<conn, answered, clientVars, taken, c0c1, c2, first, calls>>

ServerStep ==
    \/ handshake_read_c0c1
    \/ ReadFails
    \/ CheckVersion
    \/ WriteS0S1S2
    \/ WriteFails
    \/ handshake_read_c2
    \/ StartPumps

HandshakeNext == ClientSend \/ ClientLeaves \/ Call \/ ServerStep

HandshakeSpec == HandshakeInit /\ [][HandshakeNext]_handshakeVars

-----------------------------------------------------------------------------
(* Properties *)

\* Types of the handshake's state; no read fills a slice beyond its length.
HandshakeTypeOK ==
    /\ version \in Nat /\ first \in {0, version}
    /\ conn \in {"up", "down"}
    /\ sent \in Nat /\ taken \in 0 .. sent
    /\ answered \in BOOLEAN
    /\ c0c1 \in [made : BOOLEAN, got : 0 .. C0C1Size]
    /\ c2 \in [made : BOOLEAN, got : 0 .. C2Size]
    /\ hpc \in {"idle", "read_c0c1", "version", "write", "read_c2", "start"}
    /\ calls \in Nat /\ pumps \in Nat
    /\ result \in {"none", "ok", "io", "plain"}

\* The pump goroutines start at the first byte of the first chunk: all of C0C1 and C2 is
\* read, and nothing beyond.
StartsAtFirstChunk == pumps > 0 => taken = HandshakeSize

\* Only a client that speaks plain RTMP gets a running stack, and no client whose first
\* byte says so is refused as one that does not.
VersionDecides ==
    /\ pumps > 0 => version = 3
    /\ result = "plain" /\ c0c1.got > 0 => version # 3

\* A call comes back while the client plays its part or leaves: neither waits for the
\* other for ever.
HandshakeEnds == (hpc # "idle") ~> (hpc = "idle")
=============================================================================
