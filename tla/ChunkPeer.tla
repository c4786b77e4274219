----------------------------- MODULE ChunkPeer -----------------------------
(***************************************************************************)
(* The chunk reader against a peer that follows the RTMP chunk format as   *)
(* the comments of the reader describe it: it interleaves messages of      *)
(* several chunk streams, abbreviates headers with fmt 1, 2 and 3, uses    *)
(* the extended timestamp, and changes its chunk size.  The peer is not    *)
(* part of the repository.                                                 *)
(***************************************************************************)
EXTENDS ChunkReader, SequencesExt

CONSTANTS
    Templates,      \* messages the peer sends: [len, type, sid, value]
    Timestamps,     \* timestamps of its messages
    MaxMessages,    \* bound: messages in one behaviour
    MaxInFlight,    \* bound: the peer sends only while fewer bytes are unread
    Habits          \* liberties the peer takes, out of those below

\* "omit": leaves the extended timestamp out of fmt 3 chunks, as ffmpeg does.
\* "limit": does so even when the timestamp is exactly the limit of the 3-byte field.
\* "delta": abbreviates a header although the delta needs the extended timestamp.
\* "break": sends chunks that the format forbids.
KnownHabits == {"omit", "limit", "delta", "break"}

ASSUME PeerAssumption ==
    /\ Templates \subseteq [len : Nat, type : MessageTypes, sid : Nat, value : Nat]
    /\ Timestamps \subseteq Nat
    /\ MaxMessages \in Nat /\ MaxInFlight \in Nat
    /\ Habits \subseteq KnownHabits

VARIABLES
    peer,           \* per chunk stream: last header and message under way
    peerChunkSize,
    broken,         \* whether it has sent something the format forbids
    begun,          \* number of messages begun
    sent            \* per chunk stream: the messages begun that are not empty

peerVars == <<peer, peerChunkSize, broken, begun, sent>>
vars == <<wire, readerVars, peerVars>>

Idle == [used |-> FALSE, ts |-> 0, delta |-> 0, len |-> 0, type |-> "none", sid |-> 0,
         id |-> 0, value |-> 0, left |-> 0]

PeerInit ==
    /\ peer = [c \in Cids |-> Idle]
    /\ peerChunkSize = MinChunkSize
    /\ broken = FALSE
    /\ begun = 0
    /\ sent = [c \in Cids |-> <<>>]

Init == wire = <<>> /\ ReaderInit /\ PeerInit

\* The chunk stream id in the basic header, in the shortest of its three forms.
BasicHeader(fmt, cid) ==
    IF cid < 64 THEN <<BasicField(fmt, cid)>>
    ELSE IF cid < 320 THEN <<BasicField(fmt, 0), CidField(1, cid - 64)>>
    ELSE <<BasicField(fmt, 1), CidField(2, cid - 64)>>

\* A timestamp or delta that does not fit the 3-byte field goes into the extended field.
Extended(ts) ==
    IF ts >= RTMP_EXTENDED_TIMESTAMP THEN <<ExtendedField(ts)>> ELSE <<>>

\* What a receiver should make of a message.
Content(p, len) ==
    [ts |-> p.ts, type |-> p.type, sid |-> p.sid, payload |-> DataFields(p, 0, len)]

\* The header formats that describe message m with timestamp ts after header p.
\* After fmt 0 the delta is the timestamp itself (comment in read_message_header).
Formats(p, m, ts) ==
    {0} \cup { f \in 1 .. 3 :
        /\ p.used /\ p.sid = m.sid /\ ts >= p.ts
        /\ "delta" \in Habits \/ ts - p.ts < RTMP_EXTENDED_TIMESTAMP
        /\ f >= 2 => p.len = m.len /\ p.type = m.type
        /\ f = 3 => ts - p.ts = p.delta /\ p.delta < RTMP_EXTENDED_TIMESTAMP }

\* Until it has broken the format, or the connection is lost.
MaySend == ~ broken /\ rpc \notin {"cut", "astray"} /\ BytesOf(wire) < MaxInFlight

\* What the payload of each control message holds: a number; or an event type of two bytes,
\* a number, and for SetBufferLength another one.
ControlSize(p) ==
    CASE p.type \in {"SetChunkSize", "WindowAckSize"} -> WordSize
      [] p.type = "UserControl" -> IF p.value = 3 THEN 2 + 2 * WordSize ELSE 2 + WordSize
      [] OTHER -> 0

\* A chunk size takes effect after the message that announces it; it has to be within
\* the limits of the format, and a control message has to be whole.
Announce(p) ==
    /\ peerChunkSize' = IF p.left = 0 /\ p.type = "SetChunkSize" THEN p.value ELSE peerChunkSize
    /\ broken' = (/\ p.left = 0
                  /\ \/ p.len < ControlSize(p)
                     \/ p.type = "SetChunkSize" /\ p.value \notin MinChunkSize .. MaxChunkSize)

\* First chunk of a new message.
StartMessage(c) ==
    /\ MaySend
    /\ peer[c].left = 0
    /\ begun < MaxMessages
    /\ begun' = begun + 1
    /\ \E m \in Templates, ts \in Timestamps : \E f \in Formats(peer[c], m, ts) :
         LET delta == IF f = 0 THEN ts ELSE ts - peer[c].ts
             n == MinOf(m.len, peerChunkSize)
             p == [used |-> TRUE, ts |-> ts, delta |-> delta, len |-> m.len,
                   type |-> m.type, sid |-> m.sid, id |-> begun + 1,
                   value |-> m.value, left |-> m.len - n]
             header == IF f = 3 THEN <<>>
                       ELSE <<HeaderField(f, MinOf(delta, RTMP_EXTENDED_TIMESTAMP), m)>>
         IN /\ wire' = wire \o BasicHeader(f, c) \o header \o Extended(delta)
                            \o DataFields(p, 0, n)
            /\ peer' = [peer EXCEPT ![c] = p]
            /\ Announce(p)
            /\ sent' = IF m.len = 0 THEN sent
                       ELSE [sent EXCEPT ![c] = Append(@, Content(p, m.len))]
    /\ UNCHANGED readerVars

\* Whether the peer may leave the extended timestamp out of a fmt 3 chunk.
MayOmit(delta) ==
    /\ "omit" \in Habits
    /\ delta > RTMP_EXTENDED_TIMESTAMP \/ "limit" \in Habits

\* A further chunk of the message under way.
ContinueMessage(c) ==
    LET p == peer[c]
        n == MinOf(p.left, peerChunkSize)
        q == [p EXCEPT !.left = @ - n]
    IN /\ MaySend
       /\ p.left > 0
       /\ \E ext \in {Extended(p.delta)} \cup (IF MayOmit(p.delta) THEN {<<>>} ELSE {}) :
             wire' = wire \o BasicHeader(3, c) \o ext \o DataFields(p, p.len - p.left, n)
       /\ peer' = [peer EXCEPT ![c] = q]
       /\ Announce(q)
       /\ UNCHANGED <<readerVars, begun, sent>>

\* A chunk the format forbids: a stream that does not begin with fmt 0, a message
\* that begins inside another, or a length that changes under way.
BreakFormat(c) ==
    LET p == peer[c]
        m(f) == [len |-> p.len + f, type |-> p.type, sid |-> p.sid]
    IN /\ "break" \in Habits
       /\ MaySend
       /\ \/ /\ ~ p.used
             /\ wire' = wire \o BasicHeader(3, c)
          \/ /\ p.left > 0
             /\ \E f \in {0, 1} :
                   wire' = wire \o BasicHeader(f, c) \o <<HeaderField(f, 0, m(f))>>
       /\ broken' = TRUE
       /\ UNCHANGED <<readerVars, peer, peerChunkSize, begun, sent>>

PeerNext == \E c \in Cids : StartMessage(c) \/ ContinueMessage(c) \/ BreakFormat(c)

ReaderStep ==
    \/ read_basic_header /\ UNCHANGED peerVars
    \/ read_message_header /\ UNCHANGED peerVars
    \/ refuse_message_header /\ UNCHANGED peerVars
    \/ refuse_payload_length /\ UNCHANGED peerVars
    \/ read_extended_timestamp /\ UNCHANGED peerVars
    \/ read_message_payload /\ UNCHANGED peerVars
    \/ refuse_message /\ UNCHANGED peerVars
    \/ on_recv_message /\ UNCHANGED peerVars

ReaderError ==
    \/ SocketFails /\ UNCHANGED peerVars
    \/ ErrorErased /\ UNCHANGED peerVars

Next == ReaderStep \/ ReaderError \/ PeerNext

Spec == Init /\ [][Next]_vars

\* The receiving goroutine runs whenever the bytes it waits for are there.
FairSpec == Spec /\ WF_vars(ReaderStep)

-----------------------------------------------------------------------------
(* Properties *)

\* Every message is delivered as it was sent: payload, type, stream and timestamp,
\* in order and once per chunk stream, however the chunks of several streams interleave and
\* whichever header format describes them, as long as only fmt 0 carries an extended
\* timestamp (a delta of 0xFFFFFF or more in fmt 1 or 2, which protocol.go:610-615 allows,
\* is taken for the timestamp itself: the habit "delta").
DeliveredAsSent == \A c \in Cids : IsPrefix(delivered[c], sent[c])

\* With a peer that follows the format, and uses extended timestamps as in DeliveredAsSent,
\* the reader never loses the chunk boundaries and never refuses a chunk or a message,
\* until the connection is lost.
StaysInSync == ~ broken => rpc \notin {"desync", "failed", "torn"}

\* A message that is on the wire in full is eventually delivered, unless the peer breaks
\* the format before.
EventuallyDelivered ==
    \A c \in Cids, k \in 1 .. MaxMessages :
        (Len(sent[c]) >= k /\ peer[c].left = 0) ~> (Len(delivered[c]) >= k \/ broken)

\* A chunk the format forbids, a control message that is too short, or a chunk size out of
\* its limits, makes the reader return an error, the first one by StaysInSync: it is not
\* taken for something else.  That the error also ends the goroutine is not said here, it
\* may be erased.
BreakIsDetected == <>broken => <>(rpc \in {"failed", "torn"})
=============================================================================
