--------------------------- MODULE InboundProofs ---------------------------
(***************************************************************************)
(* The receive buffer delivers the byte stream unchanged and is the list   *)
(* of ByteList, for every size of reads and every sequence of chunks, good *)
(* or broken.  The handshake starts the pump goroutines at the first       *)
(* chunk, for all sizes, clients and deadlines, as long as it is called    *)
(* once.  The composition of the two keeps what the parts promise.         *)
(*                                                                         *)
(* Argument: BInv relates the three indices of the buffer to the number of *)
(* bytes arrived and consumed.  Append writes only behind end, so the      *)
(* bytes in the list keep their places.  PartsRead says how far the fields *)
(* of the chunk are read at each part and which of the sizes are counted   *)
(* by then, so Remove moves start by what the chunk had and the position   *)
(* stays inside the list.  FirstCall says how many bytes are read at each  *)
(* point of the handshake; VInv, that the first byte is looked at before   *)
(* the answer is written.  Every step of Inbound is a step of one part and *)
(* leaves the variables of the other alone, so the theorems about the      *)
(* parts carry over.                                                       *)
(***************************************************************************)
EXTENDS Inbound, TLAPS

-----------------------------------------------------------------------------
(* The receive buffer.                                                     *)

\* Where the reading position is at each part of a chunk, by what is counted so far.
PartsRead ==
    /\ rpc = "basic" => off = stale
    /\ rpc = "cid" => off = stale + 1 /\ cidBytes \in 1 .. 2
    /\ rpc = "begin" => off = stale + bh_size
    /\ rpc = "header" => off = stale + bh_size /\ mh_size = mh_sizes[format]
    /\ rpc = "extended" => off = stale + bh_size + (mh_size - 4) /\ mh_size >= 4
    /\ rpc = "payload" => off = stale + bh_size + mh_size
    /\ rpc = "consume" => off = stale + bh_size + mh_size + payload_size
    /\ rpc \in {"begin", "header", "extended", "payload", "consume"} => bh_size > 0

\* The inductive invariant of the buffer.
BInv == BufferTypeOK /\ BytesInOrder /\ PartsRead

\* A new buffer satisfies the invariant.
LEMMA InitBInv == Init => BInv
  <1> SUFFICES ASSUME Init PROVE BInv
    OBVIOUS
  <1>1. ListLen = 0 /\ 0 = arrived - gone
    BY DEF Init, ListLen
  <1>2. BufferTypeOK
    BY <1>1 DEF Init, BufferTypeOK
  <1>3. BytesInOrder
    BY <1>1 DEF Init, BytesInOrder
  <1>4. PartsRead
    BY DEF Init, PartsRead
  <1> QED BY <1>2, <1>3, <1>4 DEF BInv

\* The bytes of two lists, one behind the other.
LEMMA Joined ==
    ASSUME NEW s \in Seq(Nat), NEW t \in Seq(Nat)
    PROVE  /\ s \o t \in Seq(Nat) /\ Len(s \o t) = Len(s) + Len(t)
           /\ \A i \in 1 .. Len(s) : (s \o t)[i] = s[i]
  <1>1. s \o t \in Seq(Nat) /\ Len(s \o t) = Len(s) + Len(t)
    OBVIOUS
  <1>2. \A i \in 1 .. Len(s) : (s \o t)[i] = s[i]
    OBVIOUS
  <1> QED BY <1>1, <1>2

\* The bytes of a part of a list.
LEMMA Part ==
    ASSUME NEW s \in Seq(Nat), NEW a \in Nat, NEW b \in Nat, a <= b, b <= Len(s)
    PROVE  /\ SubSeq(s, a + 1, b) \in Seq(Nat) /\ Len(SubSeq(s, a + 1, b)) = b - a
           /\ \A i \in 1 .. b - a : SubSeq(s, a + 1, b)[i] = s[a + i]
  <1>1. SubSeq(s, a + 1, b) \in Seq(Nat)
    OBVIOUS
  <1>2. Len(SubSeq(s, a + 1, b)) = b - a
    OBVIOUS
  <1>3. \A i \in 1 .. b - a : SubSeq(s, a + 1, b)[i] = s[a + i]
    OBVIOUS
  <1> QED BY <1>1, <1>2, <1>3

\* grow_to keeps the old bytes and makes room for n bytes from start on.
LEMMA GrownFacts ==
    ASSUME BufferTypeOK, NEW n \in Nat
    PROVE  /\ GrownBuf(n) \in Seq(Nat)
           /\ Len(GrownBuf(n)) >= Len(buf)
           /\ Len(GrownBuf(n)) >= start + n
           /\ \A i \in 1 .. Len(buf) : GrownBuf(n)[i] = buf[i]
  <1> DEFINE k == n - (Len(buf) - start)
  <1>t. buf \in Seq(Nat) /\ Len(buf) \in Nat /\ start \in Nat
    BY DEF BufferTypeOK
  <1>1. CASE k > 0
    <2>1. k \in Nat /\ Zeros(k) \in Seq(Nat) /\ Len(Zeros(k)) = k
      BY <1>1, <1>t DEF Zeros
    <2>2. GrownBuf(n) = buf \o Zeros(k)
      BY <1>1 DEF GrownBuf
    <2> HIDE DEF k
    <2>3. /\ buf \o Zeros(k) \in Seq(Nat) /\ Len(buf \o Zeros(k)) = Len(buf) + k
          /\ \A i \in 1 .. Len(buf) : (buf \o Zeros(k))[i] = buf[i]
      BY <1>t, <2>1, Joined
    <2> QED BY <1>t, <2>1, <2>2, <2>3 DEF k
  <1>2. CASE ~ (k > 0)
    BY <1>2, <1>t DEF GrownBuf
  <1> QED BY <1>1, <1>2

\* Append keeps the bytes of the list and puts b behind them.
LEMMA AppendFacts ==
    ASSUME BufferTypeOK, NEW b \in Seq(Nat), AppendBytes(b)
    PROVE  /\ buf' \in Seq(Nat) /\ end' = end + Len(b) /\ start' = start
           /\ end' <= Len(buf')
           /\ \A i \in 1 .. end : buf'[i] = buf[i]
           /\ \A i \in 1 .. Len(b) : buf'[end + i] = b[i]
  <1> DEFINE grown == GrownBuf(ListLen + Len(b))
  <1>t. start \in Nat /\ end \in Nat /\ start <= end /\ end <= Len(buf) /\ Len(b) \in Nat
        /\ Len(buf) \in Nat
    BY DEF BufferTypeOK
  <1>1. ListLen + Len(b) \in Nat /\ start + (ListLen + Len(b)) = end + Len(b)
    BY <1>t DEF ListLen
  <1>2. /\ grown \in Seq(Nat) /\ Len(grown) >= Len(buf) /\ Len(grown) >= end + Len(b)
        /\ \A i \in 1 .. Len(buf) : grown[i] = buf[i]
    BY <1>1, GrownFacts
  <1>3. /\ buf' = [i \in 1 .. Len(grown) |->
                     IF i > end /\ i <= end + Len(b) THEN b[i - end] ELSE grown[i]]
        /\ end' = end + Len(b) /\ start' = start
    BY DEF AppendBytes
  <1> HIDE DEF grown
  <1>4. ASSUME NEW i \in 1 .. Len(grown)
        PROVE  (IF i > end /\ i <= end + Len(b) THEN b[i - end] ELSE grown[i]) \in Nat
    <2>1. CASE i > end /\ i <= end + Len(b)
      <3>1. i - end \in 1 .. Len(b)
        BY <1>t, <1>2, <2>1
      <3> QED BY <2>1, <3>1
    <2>2. CASE ~ (i > end /\ i <= end + Len(b))
      BY <1>2, <2>2
    <2> QED BY <2>1, <2>2
  <1>5. buf' \in Seq(Nat) /\ Len(buf') = Len(grown)
    BY <1>2, <1>3, <1>4
  <1>6. \A i \in 1 .. end : buf'[i] = buf[i]
    BY <1>t, <1>2, <1>3
  <1>7. ASSUME NEW i \in 1 .. Len(b) PROVE buf'[end + i] = b[i]
    <2>1. i \in Nat /\ 1 <= i /\ i <= Len(b) /\ Len(grown) \in Nat
      BY <1>t, <1>2
    <2> DEFINE j == end + i
    <2>2. j \in 1 .. Len(grown) /\ j > end /\ j <= end + Len(b) /\ j - end = i
      BY <1>t, <1>2, <2>1
    <2> HIDE DEF j
    <2>3. buf'[j] = b[i]
      BY <1>3, <2>2
    <2> QED BY <2>3 DEF j
  <1> QED BY <1>2, <1>3, <1>5, <1>6, <1>7

\* What one Read of the socket brings.
LEMMA NewBytes ==
    ASSUME NEW k \in Nat, NEW a \in Nat
    PROVE  /\ [i \in 1 .. k |-> a + i] \in Seq(Nat)
           /\ Len([i \in 1 .. k |-> a + i]) = k
           /\ \A j \in 1 .. k : [i \in 1 .. k |-> a + i][j] = a + j
  OBVIOUS

\* A Read of the socket keeps the invariant.
LEMMA SocketReadStep ==
    ASSUME BInv, NEW k \in ReadSizes, SocketRead(k)
    PROVE  BInv'
  <1> DEFINE b == [i \in 1 .. k |-> arrived + i]
  <1>t. /\ start \in Nat /\ end \in Nat /\ start <= end /\ arrived \in Nat /\ gone \in Nat
        /\ off \in 0 .. end - start /\ end - start = arrived - gone
        /\ \A i \in 1 .. end - start : buf[start + i] = gone + i
    BY DEF BInv, BufferTypeOK, BytesInOrder, ListLen
  <1>k. k \in Nat
    BY BufferAssumption
  <1>1. b \in Seq(Nat) /\ Len(b) = k /\ \A j \in 1 .. k : b[j] = arrived + j
    BY <1>t, <1>k, NewBytes
  <1>2. AppendBytes(b) /\ arrived' = arrived + k
        /\ UNCHANGED <<off, rpc, chunkVars, gone, stale>>
    BY DEF SocketRead
  <1> HIDE DEF b
  <1>3. /\ buf' \in Seq(Nat) /\ end' = end + k /\ start' = start /\ end' <= Len(buf')
        /\ \A i \in 1 .. end : buf'[i] = buf[i]
        /\ \A i \in 1 .. k : buf'[end + i] = arrived + i
    BY <1>1, <1>2, AppendFacts DEF BInv
  <1>4. ASSUME NEW i \in 1 .. end' - start' PROVE buf'[start' + i] = gone + i
    <2>1. CASE i <= end - start
      <3>1. start + i \in 1 .. end /\ i \in 1 .. end - start
        BY <1>t, <2>1, <1>3, <1>k
      <3> QED BY <1>t, <1>3, <3>1
    <2>2. CASE ~ (i <= end - start)
      <3>1. /\ i - (end - start) \in 1 .. k
            /\ start + i = end + (i - (end - start))
        BY <1>t, <2>2, <1>3, <1>k
      <3>2. buf'[end + (i - (end - start))] = arrived + (i - (end - start))
        BY <1>3, <3>1
      <3>3. arrived + (i - (end - start)) = gone + i
        BY <1>t, <1>3, <1>k
      <3> QED BY <1>3, <3>1, <3>2, <3>3
    <2> QED BY <2>1, <2>2
  <1>5. BytesInOrder'
    BY <1>t, <1>k, <1>2, <1>3, <1>4 DEF BytesInOrder, ListLen
  <1>6. BufferTypeOK'
    BY <1>t, <1>k, <1>2, <1>3 DEF BInv, BufferTypeOK, ListLen, chunkVars
  <1>7. PartsRead'
    BY <1>2 DEF BInv, PartsRead, chunkVars
  <1> QED BY <1>5, <1>6, <1>7 DEF BInv

\* A step that leaves the bytes of the list alone keeps them in order.
LEMMA SameBytes ==
    ASSUME BytesInOrder, UNCHANGED <<listVars, arrived, gone>>
    PROVE  BytesInOrder'
  BY DEF BytesInOrder, ListLen, listVars

\* mh_sizes holds the bytes of the fields of each format.
LEMMA HeaderSizes ==
    ASSUME format \in 0 .. 3
    PROVE  /\ mh_sizes[format] = HeaderFields
           /\ mh_sizes[format] \in 0 .. 11
           /\ format <= 1 => mh_sizes[format] >= 6
  <1>1. format = 0 \/ format = 1 \/ format = 2 \/ format = 3
    OBVIOUS
  <1>2. /\ <<11, 7, 3, 0>>[1] = 11 /\ <<11, 7, 3, 0>>[2] = 7
        /\ <<11, 7, 3, 0>>[3] = 3 /\ <<11, 7, 3, 0>>[4] = 0
    OBVIOUS
  <1> QED BY <1>1, <1>2 DEF mh_sizes, HeaderFields

\* The part of the invariant about the list and the position in it.
ListOK ==
    /\ buf \in Seq(Nat)
    /\ start \in Nat /\ end \in Nat
    /\ start <= end /\ end <= Len(buf)
    /\ off \in 0 .. ListLen
    /\ arrived \in Nat /\ gone \in Nat /\ stale \in Nat
    /\ BytesInOrder

\* The part of the invariant about the chunk that is read.
PartOK ==
    /\ rpc \in {"basic", "cid", "begin", "header", "extended", "payload", "consume", "failed"}
    /\ format \in 0 .. 3 /\ cidBytes \in 0 .. 2
    /\ bh_size \in 0 .. 3 /\ mh_size \in 0 .. 15 /\ payload_size \in Nat
    /\ PartsRead

\* The two parts are the invariant.
LEMMA TwoParts == (BInv <=> ListOK /\ PartOK) /\ (BInv' <=> ListOK' /\ PartOK')
  BY DEF BInv, BufferTypeOK, ListOK, PartOK

\* Reading a part that is there moves the position within the list.
LEMMA ReadPartFacts ==
    ASSUME BInv, NEW p, NEW n \in Int, ReadPart(p, n), n <= Need, off + n >= 0, Need \in Nat
    PROVE  /\ rpc = p /\ off' = off + n /\ off \in Int /\ stale \in Int /\ stale' = stale
           /\ ListOK'
  <1>1. /\ rpc = p /\ BufferLen >= Need /\ off' = off + n
        /\ UNCHANGED <<listVars, arrived, gone, stale>>
    BY DEF ReadPart
  <1>2. UNCHANGED <<buf, start, end, arrived, gone, stale>>
    BY <1>1 DEF listVars
  <1>3. start \in Nat /\ end \in Nat /\ off \in Int /\ stale \in Int /\ ListLen' = ListLen
    BY <1>2 DEF BInv, BufferTypeOK, ListLen
  <1>4. off' \in 0 .. ListLen'
    BY <1>1, <1>3 DEF BufferLen, ListLen
  <1>5. BytesInOrder'
    BY <1>1, SameBytes DEF BInv
  <1>6. /\ buf' \in Seq(Nat) /\ start' \in Nat /\ end' \in Nat
        /\ start' <= end' /\ end' <= Len(buf')
        /\ arrived' \in Nat /\ gone' \in Nat /\ stale' \in Nat
    BY <1>2 DEF BInv, BufferTypeOK
  <1>7. ListOK'
    BY <1>4, <1>5, <1>6 DEF ListOK
  <1> QED BY <1>1, <1>3, <1>7

\* Reading the basic header keeps the invariant.
LEMMA BasicStep == ASSUME BInv, ReadBasicHeader \/ ReadCid PROVE BInv'
  <1>t. PartOK /\ off \in Nat
    BY TwoParts DEF ListOK
  <1>1. CASE ReadBasicHeader
    <2>1. ReadPart("basic", 1) /\ Need = 1 /\ off + 1 >= 0
      BY <1>1, <1>t DEF ReadBasicHeader, ReadPart, Need
    <2>2. rpc = "basic" /\ off' = off + 1 /\ stale \in Int /\ stale' = stale /\ ListOK'
      BY <2>1, ReadPartFacts
    <2>3. PartOK'
      BY <1>t, <1>1, <2>2 DEF ReadBasicHeader, PartOK, PartsRead
    <2> QED BY <2>2, <2>3, TwoParts
  <1>2. CASE ReadCid
    <2>1. ReadPart("cid", cidBytes) /\ Need = cidBytes /\ off + cidBytes >= 0 /\ cidBytes \in 0 .. 2
      BY <1>2, <1>t DEF ReadCid, ReadPart, Need, PartOK
    <2>2. rpc = "cid" /\ off' = off + cidBytes /\ stale \in Int /\ stale' = stale /\ ListOK'
      BY <2>1, ReadPartFacts
    <2>3. PartOK'
      BY <1>t, <1>2, <2>2 DEF ReadCid, PartOK, PartsRead
    <2> QED BY <2>2, <2>3, TwoParts
  <1> QED BY <1>1, <1>2

\* Reading the message header keeps the invariant: the table and the fields agree.
LEMMA HeaderStep == ASSUME BInv, BeginHeader \/ ReadMessageHeader PROVE BInv'
  <1>t. PartOK /\ off \in Nat
    BY TwoParts DEF ListOK
  <1>s. mh_sizes[format] = HeaderFields /\ mh_sizes[format] \in 0 .. 11
    BY <1>t, HeaderSizes DEF PartOK
  <1>1. CASE BeginHeader
    <2>1. BytesInOrder'
      BY <1>1, SameBytes DEF BeginHeader, BInv
    <2> QED BY <1>1, <1>s, <2>1
            DEF BeginHeader, BInv, BufferTypeOK, PartsRead, ListLen, listVars
  <1>2. CASE ReadMessageHeader
    <2>1. ReadPart("header", HeaderFields) /\ Need = mh_size /\ mh_size = HeaderFields
      BY <1>2, <1>s, <1>t DEF ReadMessageHeader, ReadPart, Need, PartOK, PartsRead
    <2>2. HeaderFields \in 0 .. 11 /\ off + HeaderFields >= 0
      BY <1>s, <1>t
    <2>3. /\ rpc = "header" /\ off' = off + mh_size /\ stale \in Int /\ stale' = stale
          /\ ListOK' /\ mh_size \in 0 .. 11
      BY <1>s, <2>1, <2>2, ReadPartFacts
    <2>4. /\ \/ rpc' = "extended" /\ mh_size' = mh_size + 4 /\ payload_size' = payload_size
             \/ rpc' = "payload" /\ payload_size' \in Nat /\ mh_size' = mh_size
          /\ format' = format /\ cidBytes' = cidBytes /\ bh_size' = bh_size
      BY <1>2, BufferAssumption DEF ReadMessageHeader
    <2>5. PartOK'
      BY <1>t, <2>3, <2>4 DEF PartOK, PartsRead
    <2> QED BY <2>3, <2>5, TwoParts
  <1> QED BY <1>1, <1>2

\* Reading the extended timestamp, or putting it back, keeps the invariant.
LEMMA ExtendedStep == ASSUME BInv, ReadExtended \/ PutBack PROVE BInv'
  <1>t. PartOK /\ off \in Nat
    BY TwoParts DEF ListOK
  <1>1. CASE ReadExtended
    <2>1. ReadPart("extended", 4) /\ Need = 4 /\ off + 4 >= 0
      BY <1>1, <1>t DEF ReadExtended, ReadPart, Need
    <2>2. rpc = "extended" /\ off' = off + 4 /\ stale \in Int /\ stale' = stale /\ ListOK'
      BY <2>1, ReadPartFacts
    <2>3. PartOK'
      BY <1>t, <1>1, <2>2, BufferAssumption DEF ReadExtended, PartOK, PartsRead
    <2> QED BY <2>2, <2>3, TwoParts
  <1>2. CASE PutBack
    <2>1. ReadPart("extended", 4 - 4) /\ Need = 4 /\ off + (4 - 4) >= 0
      BY <1>2, <1>t DEF PutBack, ReadPart, Need
    <2>2. rpc = "extended" /\ off' = off + (4 - 4) /\ stale \in Int /\ stale' = stale /\ ListOK'
      BY <2>1, ReadPartFacts
    <2>3. PartOK'
      BY <1>t, <1>2, <2>2, BufferAssumption DEF PutBack, PartOK, PartsRead
    <2> QED BY <2>2, <2>3, TwoParts
  <1> QED BY <1>1, <1>2

\* A refused chunk leaves the position inside the list.
LEMMA RefusesStep == ASSUME BInv, ReaderRefuses PROVE BInv'
  <1>t. PartOK /\ off \in Nat
    BY TwoParts DEF ListOK
  <1>1. PartOK'
    BY <1>t DEF ReaderRefuses, PartOK, PartsRead, chunkVars
  <1>2. CASE rpc = "begin" /\ UNCHANGED <<listVars, off, arrived, gone, stale>>
    <2>1. BytesInOrder'
      BY <1>2, SameBytes DEF BInv
    <2>2. ListOK'
      BY <1>2, <2>1 DEF BInv, BufferTypeOK, ListOK, ListLen, listVars
    <2> QED BY <1>1, <2>2, TwoParts
  <1>3. CASE format <= 1 /\ ReadPart("header", 3 + 3)
    <2>1. ReadPart("header", 6) /\ Need = mh_size /\ mh_size = mh_sizes[format]
      BY <1>3, <1>t DEF ReadPart, Need, PartOK, PartsRead
    <2>2. 6 <= Need /\ Need \in Nat /\ off + 6 >= 0
      BY <1>3, <1>t, <2>1, HeaderSizes DEF PartOK
    <2>3. ListOK'
      BY <2>1, <2>2, ReadPartFacts
    <2> QED BY <1>1, <2>3, TwoParts
  <1> QED BY <1>2, <1>3 DEF ReaderRefuses

\* Reading the payload keeps the invariant.
LEMMA PayloadStep == ASSUME BInv, ReadPayload PROVE BInv'
  <1>t. PartOK /\ off \in Nat
    BY TwoParts DEF ListOK
  <1>1. /\ ReadPart("payload", payload_size) /\ Need = payload_size /\ payload_size \in Nat
        /\ off + payload_size >= 0
    BY <1>t DEF ReadPayload, ReadPart, Need, PartOK
  <1>2. rpc = "payload" /\ off' = off + payload_size /\ stale \in Int /\ stale' = stale /\ ListOK'
    BY <1>1, ReadPartFacts
  <1>3. PartOK'
    BY <1>t, <1>2 DEF ReadPayload, PartOK, PartsRead, chunkVars
  <1> QED BY <1>2, <1>3, TwoParts

\* Consume removes as many bytes as the chunk had.
LEMMA ConsumeFacts ==
    ASSUME BInv, Consume
    PROVE  \E n \in 1 .. off :
              /\ off' = off - n /\ gone' = gone + n /\ off' = stale
              /\ \/ end - start > n /\ start' = start + n /\ end' = end
                 \/ end - start = n /\ start' = 0 /\ end' = 0
              /\ buf' = buf
  <1> DEFINE n == mh_size + bh_size + payload_size
  <1>1. /\ n \in Nat /\ n > 0 /\ off = stale + n /\ stale \in Nat
        /\ start \in Nat /\ end \in Nat /\ start <= end /\ off \in 0 .. end - start
    BY DEF Consume, BInv, BufferTypeOK, PartsRead, ListLen
  <1>2. off' = off - n /\ gone' = gone + n /\ Remove(n) /\ buf' = buf
    BY DEF Consume
  <1> HIDE DEF n
  <1>3. \/ end - start > n /\ start' = start + n /\ end' = end
        \/ end - start = n /\ start' = 0 /\ end' = 0
    BY <1>1, <1>2 DEF Remove, ListLen
  <1>4. n \in 1 .. off /\ off - n = stale
    BY <1>1
  <1> QED BY <1>2, <1>3, <1>4

\* Consume keeps the invariant.
LEMMA ConsumeStep == ASSUME BInv, Consume PROVE BInv'
  <1>t. /\ start \in Nat /\ end \in Nat /\ start <= end /\ end <= Len(buf)
        /\ buf \in Seq(Nat) /\ Len(buf) \in Nat
        /\ arrived \in Nat /\ gone \in Nat /\ stale \in Nat
        /\ off \in 0 .. end - start /\ end - start = arrived - gone
        /\ \A i \in 1 .. end - start : buf[start + i] = gone + i
    BY DEF BInv, BufferTypeOK, BytesInOrder, ListLen
  <1>1. PICK n \in 1 .. off :
              /\ off' = off - n /\ gone' = gone + n /\ off' = stale
              /\ \/ end - start > n /\ start' = start + n /\ end' = end
                 \/ end - start = n /\ start' = 0 /\ end' = 0
              /\ buf' = buf
    BY ConsumeFacts
  <1>2. /\ bh_size' = 0 /\ mh_size' = 0 /\ payload_size' = 0 /\ rpc' = "basic"
        /\ UNCHANGED <<arrived, format, cidBytes, stale>>
    BY DEF Consume
  <1>n. n \in Nat /\ n >= 1 /\ n <= off /\ off \in Nat /\ off <= end - start
    BY <1>t
  <1>3. ASSUME end - start > n, start' = start + n, end' = end PROVE ListOK'
    <2>1. end' - start' = arrived - (gone + n)
      BY <1>t, <1>n, <1>3
    <2>2. off - n \in 0 .. end' - start' /\ gone + n \in Nat /\ end' <= Len(buf) /\ start' <= end'
      BY <1>t, <1>n, <1>3
    <2>3. ASSUME NEW i \in 1 .. end' - start' PROVE buf'[start' + i] = gone' + i
      <3>1. /\ n + i \in 1 .. end - start /\ start' + i = start + (n + i)
            /\ (gone + n) + i = gone + (n + i)
        BY <1>t, <1>n, <1>3
      <3>2. buf[start + (n + i)] = gone + (n + i)
        BY <1>t, <3>1
      <3> QED BY <1>1, <3>1, <3>2
    <2>4. BytesInOrder'
      BY <1>1, <1>2, <2>1, <2>3 DEF BytesInOrder, ListLen
    <2> QED BY <1>t, <1>n, <1>1, <1>2, <1>3, <2>2, <2>4 DEF ListOK, ListLen
  <1>4. ASSUME end - start = n, start' = 0, end' = 0 PROVE ListOK'
    <2>1. end' - start' = 0 /\ 0 = arrived - (gone + n) /\ off - n = 0 /\ gone + n \in Nat
      BY <1>t, <1>n, <1>4
    <2>2. BytesInOrder'
      BY <1>1, <1>2, <2>1 DEF BytesInOrder, ListLen
    <2> QED BY <1>t, <1>1, <1>2, <1>4, <2>1, <2>2 DEF ListOK, ListLen
  <1>5. ListOK'
    BY <1>1, <1>3, <1>4
  <1>6. PartOK'
    BY <1>1, <1>2, TwoParts DEF PartOK, PartsRead
  <1> QED BY <1>5, <1>6, TwoParts

\* A failure of the socket, and an error erased, leave the list and the position alone.
LEMMA ErrorStep == ASSUME BInv, SocketFail \/ ErrorErased PROVE BInv'
  <1>1. UNCHANGED <<listVars, off, arrived, gone>>
    BY DEF SocketFail, ErrorErased
  <1>2. BytesInOrder'
    BY <1>1, SameBytes DEF BInv
  <1>3. stale \in Nat /\ off \in Nat /\ (stale' = stale \/ stale' = off)
    BY DEF SocketFail, ErrorErased, BInv, BufferTypeOK, ListLen
  <1>4. ListOK'
    BY <1>1, <1>2, <1>3, TwoParts DEF ListOK, ListLen, listVars
  <1>5. PartOK'
    BY <1>1, <1>3, TwoParts DEF SocketFail, ErrorErased, PartOK, PartsRead, chunkVars
  <1> QED BY <1>4, <1>5, TwoParts

\* The invariant is inductive.
LEMMA BInvStep == BInv /\ [Next]_vars => BInv'
  <1> SUFFICES ASSUME BInv, [Next]_vars PROVE BInv'
    OBVIOUS
  <1>1. CASE UNCHANGED vars
    <2>1. BytesInOrder'
      BY <1>1, SameBytes DEF BInv, vars
    <2> QED BY <1>1, <2>1
            DEF vars, listVars, chunkVars, BInv, BufferTypeOK, PartsRead, ListLen
  <1> QED BY <1>1, SocketReadStep, ErrorStep, BasicStep, HeaderStep, ExtendedStep, RefusesStep,
             PayloadStep, ConsumeStep
          DEF Next, ReaderSteps

\* The invariant holds throughout.
LEMMA BInvAlways == Spec => []BInv
  BY InitBInv, BInvStep, PTL DEF Spec

\* The slice bounds of the buffer hold for every cut of the byte stream and every sequence
\* of chunks, also when reading goes on after an error.
THEOREM BufferTypeCorrect == Spec => []BufferTypeOK
  <1>1. BInv => BufferTypeOK
    BY DEF BInv
  <1> QED BY <1>1, BInvAlways, PTL

\* The reader gets the bytes of the peer in order, each of them once.
THEOREM StreamInOrder == Spec => []BytesInOrder
  <1>1. BInv => BytesInOrder
    BY DEF BInv
  <1> QED BY <1>1, BInvAlways, PTL

\* What the reader counts for the parts of a chunk is what it reads: a chunk begins with
\* nothing in front of it but what chunks given up left.
THEOREM PositionAgrees == Spec => []CountsAgree
  <1>1. BInv => CountsAgree
    BY DEF BInv, PartsRead, CountsAgree
  <1> QED BY <1>1, BInvAlways, PTL

\* The bytes of the list, one by one.
LEMMA BytesFacts ==
    ASSUME BufferTypeOK
    PROVE  /\ Bytes \in Seq(Nat) /\ Len(Bytes) = end - start /\ end - start \in Nat
           /\ \A i \in 1 .. end - start : Bytes[i] = buf[start + i]
  <1>1. /\ start \in Nat /\ end \in Nat /\ start <= end /\ end <= Len(buf)
        /\ buf \in Seq(Nat) /\ Len(buf) \in Nat
    BY DEF BufferTypeOK
  <1>2. /\ SubSeq(buf, start + 1, end) \in Seq(Nat)
        /\ Len(SubSeq(buf, start + 1, end)) = end - start
        /\ \A i \in 1 .. end - start : SubSeq(buf, start + 1, end)[i] = buf[start + i]
    BY <1>1, Part
  <1> QED BY <1>1, <1>2 DEF Bytes

\* Two sequences with the same elements are equal.
LEMMA SameSeq ==
    ASSUME NEW s \in Seq(Nat), NEW t \in Seq(Nat), Len(s) = Len(t),
           \A i \in 1 .. Len(s) : s[i] = t[i]
    PROVE  s = t
  BY SMTT(60)

\* A step of the buffer is a step of the list.
LEMMA ListStep ==
    BInv /\ BInv' /\ [Next]_vars => [List!Next]_<<Bytes, off>>
  <1> SUFFICES ASSUME BInv, BInv', [Next]_vars PROVE [List!Next]_<<Bytes, off>>
    OBVIOUS
  <1>t. BufferTypeOK /\ BufferTypeOK'
    BY DEF BInv
  <1>b. /\ Bytes \in Seq(Nat) /\ Len(Bytes) = end - start /\ end - start \in Nat
        /\ \A i \in 1 .. end - start : Bytes[i] = buf[start + i]
    BY <1>t, BytesFacts
  <1>c. /\ Bytes' \in Seq(Nat) /\ Len(Bytes') = end' - start' /\ end' - start' \in Nat
        /\ \A i \in 1 .. end' - start' : Bytes'[i] = buf'[start' + i]
    <2>1. (/\ Bytes \in Seq(Nat) /\ Len(Bytes) = end - start /\ end - start \in Nat
           /\ \A i \in 1 .. end - start : Bytes[i] = buf[start + i])'
      BY <1>t, BytesFacts, PTL
    <2> QED BY <2>1
  <1>1. ASSUME UNCHANGED <<buf, start, end>> PROVE UNCHANGED Bytes
    BY <1>1 DEF Bytes
  <1>2. CASE \E k \in ReadSizes : SocketRead(k)
    <2>1. PICK k \in ReadSizes : SocketRead(k)
      BY <1>2
    <2> DEFINE b == [i \in 1 .. k |-> arrived + i]
    <2>2. k \in Nat \ {0} /\ arrived \in Nat /\ start \in Nat /\ end \in Nat
      BY BufferAssumption, <1>t DEF BufferTypeOK
    <2>3. b \in Seq(Nat) /\ Len(b) = k
      BY <2>2, NewBytes
    <2>4. AppendBytes(b) /\ off' = off
      BY <2>1 DEF SocketRead
    <2> HIDE DEF b
    <2>5. start' = start /\ end' = end + k /\ \A i \in 1 .. end : buf'[i] = buf[i]
      BY <1>t, <2>3, <2>4, AppendFacts
    <2>6. Len(Bytes') > Len(Bytes)
      BY <1>b, <1>c, <2>2, <2>5
    <2>7. SubSeq(Bytes', 1, Len(Bytes)) \in Seq(Nat)
          /\ Len(SubSeq(Bytes', 1, Len(Bytes))) = Len(Bytes)
          /\ \A i \in 1 .. Len(Bytes) : SubSeq(Bytes', 1, Len(Bytes))[i] = Bytes'[i]
      BY <1>b, <1>c, <2>6, SMTT(60)
    <2>8. ASSUME NEW i \in 1 .. Len(Bytes) PROVE Bytes'[i] = Bytes[i]
      <3>1. i \in 1 .. end - start /\ i \in 1 .. end' - start' /\ start + i \in 1 .. end
        BY <1>b, <2>2, <2>5
      <3> QED BY <1>b, <1>c, <2>5, <3>1
    <2>9. SubSeq(Bytes', 1, Len(Bytes)) = Bytes
      BY <1>b, <2>7, <2>8, SameSeq
    <2> QED BY <2>4, <2>6, <2>9 DEF List!Next, List!Extend
  <1>3. ASSUME NEW p, NEW n, ReadPart(p, n) PROVE List!Move
    <2>1. UNCHANGED Bytes
      BY <1>1, <1>3 DEF ReadPart, listVars
    <2>2. off' \in 0 .. Len(Bytes)
      BY <1>b, <1>c, <2>1, <1>t DEF BufferTypeOK, ListLen
    <2> QED BY <2>1, <2>2 DEF List!Move
  <1>4. CASE \/ ReadBasicHeader \/ ReadCid \/ ReadMessageHeader \/ ReadExtended \/ PutBack
             \/ ReadPayload
    BY <1>3, <1>4 DEF ReadBasicHeader, ReadCid, ReadMessageHeader, ReadExtended, PutBack,
                      ReadPayload, List!Next
  <1>5. CASE ReaderRefuses
    BY <1>1, <1>3, <1>5 DEF ReaderRefuses, listVars, List!Next
  <1>6. CASE SocketFail \/ BeginHeader \/ ErrorErased \/ UNCHANGED vars
    BY <1>1, <1>6 DEF SocketFail, BeginHeader, ErrorErased, vars, listVars
  <1>7. CASE Consume
    <2>1. PICK n \in 1 .. off :
              /\ off' = off - n /\ gone' = gone + n /\ off' = stale
              /\ \/ end - start > n /\ start' = start + n /\ end' = end
                 \/ end - start = n /\ start' = 0 /\ end' = 0
              /\ buf' = buf
      BY <1>7, ConsumeFacts
    <2>2. start \in Nat /\ end \in Nat /\ off \in 0 .. end - start
      BY <1>t DEF BufferTypeOK, ListLen
    <2>n. n \in Nat /\ n >= 1 /\ n <= end - start
      BY <2>2
    <2>l. Len(Bytes') = (end - start) - n
      BY <1>c, <2>1, <2>2, <2>n
    <2>3. /\ SubSeq(Bytes, n + 1, Len(Bytes)) \in Seq(Nat)
          /\ Len(SubSeq(Bytes, n + 1, Len(Bytes))) = (end - start) - n
          /\ \A i \in 1 .. (end - start) - n :
                SubSeq(Bytes, n + 1, Len(Bytes))[i] = Bytes[n + i]
      BY <1>b, <2>2, <2>n
    <2>4. ASSUME NEW i \in 1 .. (end - start) - n PROVE Bytes'[i] = Bytes[n + i]
      <3>0. start' = start + n /\ end' = end
        BY <2>1, <2>2, <2>n
      <3>1. /\ n + i \in 1 .. end - start /\ i \in 1 .. end' - start'
            /\ start' + i = start + (n + i)
        BY <2>2, <2>n, <3>0
      <3> QED BY <1>b, <1>c, <2>1, <3>1
    <2>5. Bytes' = SubSeq(Bytes, n + 1, Len(Bytes))
      BY <1>c, <2>l, <2>3, <2>4, SameSeq
    <2> QED BY <2>1, <2>5 DEF List!Next, List!Drop
  <1> QED BY <1>2, <1>4, <1>5, <1>6, <1>7 DEF Next, ReaderSteps

\* BytesList and HPBuffer, as the chunk reader uses them, are a list with a position.
THEOREM BufferRefinesList == Spec => ImplementsList
  <1>1. Init => List!Init
    <2> SUFFICES ASSUME Init PROVE List!Init
      OBVIOUS
    <2>1. buf = <<>> /\ start = 0 /\ end = 0 /\ off = 0
      BY DEF Init
    <2>2. Bytes = <<>>
      BY <2>1 DEF Bytes
    <2> QED BY <2>1, <2>2 DEF List!Init
  <1> QED BY <1>1, BInvAlways, ListStep, PTL DEF Spec, ImplementsList, List!Spec

-----------------------------------------------------------------------------
(* The handshake, and the two together.                                    *)

\* How far the byte stream is read at each point of the first call.
FirstCall ==
    /\ calls = 0 => hpc = "idle" /\ ~ c0c1.made /\ c0c1.got = 0 /\ taken = 0
    /\ hpc = "read_c0c1" => taken = c0c1.got
    /\ hpc \in {"version", "write"} => taken = C0C1Size
    /\ hpc \in {"idle", "read_c0c1", "version", "write"} /\ pumps = 0 /\ result = "none"
          => ~ c2.made /\ c2.got = 0
    /\ hpc = "read_c2" => taken = C0C1Size + c2.got
    /\ hpc = "start" => taken = HandshakeSize
    /\ hpc # "idle" => pumps = 0 /\ result = "none"
    /\ calls = 0 => pumps = 0 /\ result = "none"
    /\ pumps > 0 => taken = HandshakeSize

HInv == HandshakeTypeOK /\ (calls <= 1 => FirstCall)

\* A new stack satisfies the invariant.
LEMMA InitHInv == HandshakeInit => HInv
  <1> SUFFICES ASSUME HandshakeInit PROVE HInv
    OBVIOUS
  <1>1. Unread.made = FALSE /\ Unread.got = 0
    BY DEF Unread
  <1>2. \A n \in Nat : Unread \in [made : BOOLEAN, got : 0 .. n]
    BY DEF Unread
  <1>3. HandshakeTypeOK
    <2>1. /\ version \in Nat /\ first = 0 /\ conn = "up" /\ sent = 0 /\ taken = 0
          /\ answered \in BOOLEAN /\ c0c1 = Unread /\ c2 = Unread /\ hpc = "idle"
          /\ calls = 0 /\ pumps = 0 /\ result = "none"
      BY HandshakeAssumption DEF HandshakeInit
    <2>2. /\ c0c1 \in [made : BOOLEAN, got : 0 .. C0C1Size]
          /\ c2 \in [made : BOOLEAN, got : 0 .. C2Size]
      BY <1>2, <2>1, HandshakeAssumption
    <2> QED BY <2>1, <2>2 DEF HandshakeTypeOK
  <1>4. FirstCall
    BY <1>1 DEF HandshakeInit, FirstCall
  <1> QED BY <1>3, <1>4 DEF HInv

\* Every step keeps the types.
LEMMA TypeStep == HandshakeTypeOK /\ [HandshakeNext]_handshakeVars => HandshakeTypeOK'
  <1> SUFFICES ASSUME HandshakeTypeOK, [HandshakeNext]_handshakeVars PROVE HandshakeTypeOK'
    OBVIOUS
  <1> USE HandshakeAssumption DEF HandshakeTypeOK, Return, clientVars, serverVars
  <1>1. CASE ClientSend
    <2>1. sent' \in Nat /\ taken' \in 0 .. sent'
      BY <1>1 DEF ClientSend
    <2>2. UNCHANGED <<version, conn, answered, taken, c0c1, c2, first, hpc, calls, result,
                      pumps>>
      BY <1>1 DEF ClientSend
    <2> QED BY <2>1, <2>2
  <1>2. CASE ClientLeaves
    BY <1>2 DEF ClientLeaves
  <1>3. CASE Call
    <2>1. c0c1' \in [made : BOOLEAN, got : 0 .. C0C1Size]
      BY <1>3 DEF Call
    <2>2. hpc' \in {"version", "read_c0c1"} /\ calls' \in Nat
      BY <1>3 DEF Call
    <2>3. UNCHANGED <<version, conn, sent, answered, taken, c2, first, result, pumps>>
      BY <1>3 DEF Call
    <2> QED BY <2>1, <2>2, <2>3
  <1>4. CASE handshake_read_c0c1
    BY <1>4 DEF handshake_read_c0c1, Piece
  <1>5. CASE ReadFails
    BY <1>5 DEF ReadFails
  <1>6. CASE CheckVersion
    BY <1>6 DEF CheckVersion
  <1>7. CASE WriteS0S1S2
    BY <1>7 DEF WriteS0S1S2
  <1>8. CASE WriteFails
    BY <1>8 DEF WriteFails
  <1>9. CASE handshake_read_c2
    BY <1>9 DEF handshake_read_c2, Piece
  <1>10. CASE StartPumps
    BY <1>10 DEF StartPumps
  <1>11. CASE UNCHANGED handshakeVars
    BY <1>11 DEF handshakeVars
  <1> QED BY <1>1, <1>2, <1>3, <1>4, <1>5, <1>6, <1>7, <1>8, <1>9, <1>10, <1>11
          DEF HandshakeNext, ServerStep

\* During the first call the stream is read exactly as far as FirstCall says.
LEMMA FirstCallStep == HInv /\ [HandshakeNext]_handshakeVars => (calls' <= 1 => FirstCall')
  <1> SUFFICES ASSUME HInv, [HandshakeNext]_handshakeVars, calls' <= 1 PROVE FirstCall'
    OBVIOUS
  <1>t. HandshakeTypeOK
    BY DEF HInv
  <1>c. calls <= 1 /\ FirstCall
    BY <1>t DEF HInv, HandshakeNext, ServerStep, handshakeVars, serverVars, ClientSend, ClientLeaves, Call,
               handshake_read_c0c1, ReadFails, CheckVersion, WriteS0S1S2, WriteFails,
               handshake_read_c2, StartPumps, HandshakeTypeOK
  <1> USE HandshakeAssumption, <1>t, <1>c
      DEF HandshakeTypeOK, FirstCall, Return, clientVars, serverVars, HandshakeSize
  <1>1. CASE ClientSend
    BY <1>1 DEF ClientSend
  <1>2. CASE ClientLeaves
    BY <1>2 DEF ClientLeaves
  <1>3. CASE Call
    BY <1>3 DEF Call
  <1>4. CASE handshake_read_c0c1
    BY <1>4 DEF handshake_read_c0c1, Piece
  <1>5. CASE ReadFails
    BY <1>5 DEF ReadFails
  <1>6. CASE CheckVersion
    BY <1>6 DEF CheckVersion
  <1>7. CASE WriteS0S1S2
    BY <1>7 DEF WriteS0S1S2
  <1>8. CASE WriteFails
    BY <1>8 DEF WriteFails
  <1>9. CASE handshake_read_c2
    BY <1>9 DEF handshake_read_c2, Piece
  <1>10. CASE StartPumps
    BY <1>10 DEF StartPumps
  <1>11. CASE UNCHANGED handshakeVars
    BY <1>11 DEF handshakeVars
  <1> QED BY <1>1, <1>2, <1>3, <1>4, <1>5, <1>6, <1>7, <1>8, <1>9, <1>10, <1>11
          DEF HandshakeNext, ServerStep

\* The invariant holds throughout.
LEMMA HInvAlways == HandshakeSpec => []HInv
  <1>1. HInv /\ [HandshakeNext]_handshakeVars => HInv'
    BY TypeStep, FirstCallStep DEF HInv
  <1> QED BY <1>1, InitHInv, PTL DEF HandshakeSpec

\* Types, and the bounds of the slices that io.ReadFull fills, for any number of calls.
THEOREM HandshakeTypeCorrect == HandshakeSpec => []HandshakeTypeOK
  <1>1. HInv => HandshakeTypeOK
    BY DEF HInv
  <1> QED BY <1>1, HInvAlways, PTL

\* In the first call the pumps start exactly behind C2, whatever pieces the bytes come in.
THEOREM FirstCallStartsAtFirstChunk == HandshakeSpec => [](calls <= 1 => StartsAtFirstChunk)
  <1>1. HInv => (calls <= 1 => StartsAtFirstChunk)
    BY DEF HInv, FirstCall, StartsAtFirstChunk
  <1> QED BY <1>1, HInvAlways, PTL

\* Where the version stands: it is known from the first byte on and checked before the
\* answer is written.
VInv ==
    /\ HandshakeTypeOK
    /\ c0c1.got > 0 => first = version
    /\ c0c1.got = 0 => first = 0
    /\ hpc \in {"write", "read_c2", "start"} => first = 3
    /\ pumps > 0 => first = 3
    /\ result = "plain" => first # 3
    /\ ~ c0c1.made => hpc = "idle"
    /\ ~ c0c1.made \/ hpc = "read_c0c1" => pumps = 0 /\ result = "none"

\* A new stack satisfies it.
LEMMA InitVInv == HandshakeInit => VInv
  <1> SUFFICES ASSUME HandshakeInit PROVE VInv
    OBVIOUS
  <1>1. HandshakeTypeOK
    BY InitHInv DEF HInv
  <1>2. Unread.made = FALSE /\ Unread.got = 0
    BY DEF Unread
  <1> QED BY <1>1, <1>2 DEF HandshakeInit, VInv

\* Every step keeps it.
LEMMA VInvStep == VInv /\ [HandshakeNext]_handshakeVars => VInv'
  <1> SUFFICES ASSUME VInv, [HandshakeNext]_handshakeVars PROVE VInv'
    OBVIOUS
  <1>t. HandshakeTypeOK /\ HandshakeTypeOK'
    BY TypeStep DEF VInv
  <1> USE HandshakeAssumption, <1>t
      DEF HandshakeTypeOK, VInv, Return, clientVars, serverVars
  <1>1. CASE ClientSend
    BY <1>1 DEF ClientSend
  <1>2. CASE ClientLeaves
    BY <1>2 DEF ClientLeaves
  <1>3. CASE Call
    BY <1>3 DEF Call
  <1>4. CASE handshake_read_c0c1
    BY <1>4 DEF handshake_read_c0c1, Piece
  <1>5. CASE ReadFails
    BY <1>5 DEF ReadFails
  <1>6. CASE CheckVersion
    BY <1>6 DEF CheckVersion
  <1>7. CASE WriteS0S1S2
    BY <1>7 DEF WriteS0S1S2
  <1>8. CASE WriteFails
    BY <1>8 DEF WriteFails
  <1>9. CASE handshake_read_c2
    BY <1>9 DEF handshake_read_c2, Piece
  <1>10. CASE StartPumps
    BY <1>10 DEF StartPumps
  <1>11. CASE UNCHANGED handshakeVars
    BY <1>11 DEF handshakeVars
  <1> QED BY <1>1, <1>2, <1>3, <1>4, <1>5, <1>6, <1>7, <1>8, <1>9, <1>10, <1>11
          DEF HandshakeNext, ServerStep

\* Only a client of plain RTMP gets a running stack, and none is refused for its version
\* that is one, for any number of calls.
THEOREM VersionIsDecisive == HandshakeSpec => []VersionDecides
  <1>1. VInv => VersionDecides
    BY HandshakeAssumption DEF VInv, HandshakeTypeOK, VersionDecides
  <1> QED BY <1>1, InitVInv, VInvStep, PTL DEF HandshakeSpec

\* A step of the composition is a step of the handshake and a step of the buffer.
LEMMA StepOfBoth ==
    [InboundNext]_inboundVars => [HandshakeNext]_handshakeVars /\ [Next]_vars
  <1> SUFFICES ASSUME [InboundNext]_inboundVars
               PROVE  [HandshakeNext]_handshakeVars /\ [Next]_vars
    OBVIOUS
  <1>1. CASE Handshaking
    BY <1>1 DEF Handshaking
  <1>2. CASE Receiving
    BY <1>2 DEF Receiving, SocketStep, Next
  <1>3. CASE UNCHANGED inboundVars
    BY <1>3 DEF inboundVars
  <1> QED BY <1>1, <1>2, <1>3 DEF InboundNext

\* The receiving goroutine gets the bytes that the client sent behind its handshake, in
\* order, none of them taken by the handshake and none left out.
THEOREM InboundInOrder ==
    InboundSpec => [](BytesInOrder /\ (calls <= 1 => StartsAtFirstChunk))
  <1>1. InboundInit => HandshakeInit /\ Init
    BY DEF InboundInit
  <1>2. InboundSpec => HandshakeSpec /\ Spec
    BY <1>1, StepOfBoth, PTL DEF InboundSpec, HandshakeSpec, Spec
  <1> QED BY <1>2, StreamInOrder, FirstCallStartsAtFirstChunk, PTL
=============================================================================
