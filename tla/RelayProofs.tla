---------------------------- MODULE RelayProofs -----------------------------
(***************************************************************************)
(* Connections that send copies of the same message do not disturb each    *)
(* other, for any connections, chunk sizes, stream ids and messages.       *)
(*                                                                         *)
(* Argument: a message that one connection holds is held by no other, and  *)
(* the copy that the program is preparing is held by none (Ownership).     *)
(* Copy is what makes it so: its message is a new one.  Every write to a   *)
(* message is a write by its holder, or by the program to its own copy, so *)
(* what was true of a message when it was queued stays true.               *)
(***************************************************************************)
EXTENDS Relay, Integers, TLAPS

Objects == [m : OutMessages, sent : Int]

\* Connection c refers to message r.
Holds(c, r) ==
    /\ r # 0
    /\ \/ smsg[c] = r
       \/ \E i \in 1 .. Len(queue[c]) : queue[c][i] = r

SendPcs == {"take", "header", "write_header", "write_payload", "failed"}

\* Types; references point into the heap.
RelayTypeOK ==
    /\ heap \in Seq(Objects)
    /\ todo \in Seq(OutMessages)
    /\ msg \in 0 .. Len(heap) /\ copy \in 0 .. Len(heap)
    /\ ppc \in {"recv", "copy", "address", "enqueue"}
    /\ ppc # "recv" => msg # 0
    /\ ppc \in {"address", "enqueue"} => copy # 0
    /\ rest \subseteq Conns /\ target \in Conns
    /\ queue \in [Conns -> Seq(Nat \ {0})]
    /\ spc \in [Conns -> SendPcs]
    /\ smsg \in [Conns -> Nat]
    /\ \A c \in Conns : \A r \in Nat : Holds(c, r) => r <= Len(heap)

\* No message is held by two connections, and the program's copy by none.
Ownership ==
    /\ \A c, d \in Conns : \A r \in Nat : Holds(c, r) /\ Holds(d, r) => c = d
    /\ ppc \in {"address", "enqueue"} => \A c \in Conns : ~ Holds(c, copy)

\* The message r carries the stream id of c.
AddressedTo(r, c) == heap[r].m = WithStreamId(heap[r].m, c)

\* Every message that a connection holds carries the stream id of that connection, not
\* the one of another connection that the program served before or after it.
RightStream ==
    \A c \in Conns : \A r \in Nat : Holds(c, r) => AddressedTo(r, c)

\* The copy is addressed before it is queued.
CopyAddressed == ppc = "enqueue" => AddressedTo(copy, target)

Sending(c) == spc[c] \in {"header", "write_header", "write_payload"}

\* The slice msg.Payload[SentPayloadLength : SentPayloadLength + payload_size] is inside
\* the payload, and not empty unless the payload is.
SliceOK(c) ==
    /\ smsg[c] # 0
    /\ Current(c).sent \in 0 .. Current(c).m.len
    /\ Current(c).sent < Current(c).m.len \/ Current(c).m.len = 0
    /\ spc[c] = "write_payload" => Current(c).m.len > 0

\* In every chunk of every connection.
SlicesInside == \A c \in Conns : Sending(c) => SliceOK(c)

RelayInv == RelayTypeOK /\ Ownership /\ RightStream /\ CopyAddressed /\ SlicesInside

\* Nothing is held in the beginning.
LEMMA InitRelayInv == Init => RelayInv
  <1> SUFFICES ASSUME Init PROVE RelayInv
    OBVIOUS
  <1>1. /\ heap = <<>> /\ todo \in Seq(OutMessages) /\ msg = 0 /\ copy = 0 /\ rest = {}
        /\ ppc = "recv" /\ target \in Conns
        /\ queue = [c \in Conns |-> <<>>] /\ spc = [c \in Conns |-> "take"]
        /\ smsg = [c \in Conns |-> 0]
    BY RelayAssumption DEF Init
  <1>2. \A c \in Conns : \A r : ~ Holds(c, r)
    BY <1>1 DEF Holds
  <1>3. RelayTypeOK
    BY <1>1, <1>2 DEF RelayTypeOK, SendPcs
  <1> QED BY <1>1, <1>2, <1>3
          DEF RelayInv, Ownership, RightStream, CopyAddressed, SlicesInside, Sending

\* What is held is in the heap.
LEMMA HeldInside ==
    ASSUME RelayInv, NEW c \in Conns, NEW r \in Nat, Holds(c, r)
    PROVE  r \in 1 .. Len(heap)
  <1>1. Len(heap) \in Nat /\ r <= Len(heap)
    BY DEF RelayInv, RelayTypeOK
  <1>2. r # 0
    BY DEF Holds
  <1> QED BY <1>1, <1>2

\* What is held does not change when the references do not.
LEMMA SameRefs ==
    ASSUME NEW c \in Conns, queue'[c] = queue[c], smsg'[c] = smsg[c], NEW r \in Nat
    PROVE  Holds(c, r)' <=> Holds(c, r)
  BY DEF Holds

\* A new message at the end of the heap leaves the others where they are.
LEMMA HeapGrows ==
    ASSUME heap \in Seq(Objects), NEW o \in Objects, heap' = Append(heap, o)
    PROVE  /\ heap' \in Seq(Objects) /\ Len(heap') = Len(heap) + 1
           /\ heap'[Len(heap) + 1] = o
           /\ \A r \in 1 .. Len(heap) : heap'[r] = heap[r]
  OBVIOUS

\* A write to one message leaves the others alone.
LEMMA HeapWrite ==
    ASSUME heap \in Seq(Objects), NEW k \in 1 .. Len(heap), NEW o \in Objects,
           heap' = [heap EXCEPT ![k] = o]
    PROVE  /\ heap' \in Seq(Objects) /\ Len(heap') = Len(heap)
           /\ heap'[k] = o
           /\ \A r \in 1 .. Len(heap) : r # k => heap'[r] = heap[r]
  OBVIOUS

\* The invariant, when the references stay as they are, no message that a connection holds
\* is changed, and the program keeps its own rules.
LEMMA RefsKept ==
    ASSUME RelayInv, UNCHANGED <<queue, smsg, spc>>,
           heap' \in Seq(Objects), Len(heap') \in Nat, Len(heap') >= Len(heap),
           \A c \in Conns : \A r \in Nat : Holds(c, r) => heap'[r] = heap[r]
    PROVE  /\ \A c \in Conns : \A r \in Nat : Holds(c, r)' <=> Holds(c, r)
           /\ \A c \in Conns : \A r \in Nat : Holds(c, r)' => r <= Len(heap')
           /\ \A c, d \in Conns : \A r \in Nat : (Holds(c, r) /\ Holds(d, r))' => c = d
           /\ RightStream' /\ SlicesInside'
  <1>1. \A c \in Conns : \A r \in Nat : Holds(c, r)' <=> Holds(c, r)
    BY SameRefs
  <1>2. \A c \in Conns : \A r \in Nat : Holds(c, r)' => r <= Len(heap')
    BY <1>1 DEF RelayInv, RelayTypeOK
  <1>3. \A c, d \in Conns : \A r \in Nat : (Holds(c, r) /\ Holds(d, r))' => c = d
    BY <1>1 DEF RelayInv, Ownership
  <1>4. RightStream'
    <2> SUFFICES ASSUME NEW c \in Conns, NEW r \in Nat, Holds(c, r)'
                 PROVE  AddressedTo(r, c)'
      BY DEF RightStream
    <2>1. AddressedTo(r, c) /\ heap'[r] = heap[r]
      BY <1>1 DEF RelayInv, RightStream
    <2> QED BY <2>1 DEF AddressedTo, WithStreamId
  <1>5. SlicesInside'
    <2> SUFFICES ASSUME NEW c \in Conns, Sending(c)' PROVE SliceOK(c)'
      BY DEF SlicesInside
    <2>1. Sending(c) /\ smsg'[c] = smsg[c] /\ spc'[c] = spc[c]
      BY DEF Sending
    <2>2. SliceOK(c) /\ smsg[c] \in Nat
      BY <2>1 DEF RelayInv, SlicesInside, RelayTypeOK
    <2>3. Current(c)' = Current(c)
      BY <2>1, <2>2 DEF Current, Holds, SliceOK
    <2> QED BY <2>1, <2>2, <2>3 DEF SliceOK
  <1> QED BY <1>1, <1>2, <1>3, <1>4, <1>5

\* A message stays a message with another stream id.
LEMMA StreamIdType ==
    ASSUME NEW m \in OutMessages, NEW c \in Conns
    PROVE  /\ WithStreamId(m, c) \in OutMessages
           /\ WithStreamId(WithStreamId(m, c), c) = WithStreamId(m, c)
  BY RelayAssumption DEF WithStreamId, OutMessages

-----------------------------------------------------------------------------
(* The program *)

\* Only the program's variables and the end of the heap change.
LEMMA RecvMessageStep == RelayInv /\ RecvMessage => RelayInv'
  <1> SUFFICES ASSUME RelayInv, RecvMessage PROVE RelayInv'
    OBVIOUS
  <1> DEFINE o == NewMessage(Head(todo))
  <1>1. o \in Objects
    BY DEF RelayInv, RelayTypeOK, RecvMessage, NewMessage, Objects
  <1>2. heap \in Seq(Objects) /\ heap' = Append(heap, o)
    BY DEF RelayInv, RelayTypeOK, RecvMessage
  <1> HIDE DEF o
  <1>3. /\ heap' \in Seq(Objects) /\ Len(heap') = Len(heap) + 1 /\ Len(heap) \in Nat
        /\ \A r \in 1 .. Len(heap) : heap'[r] = heap[r]
    BY <1>1, <1>2, HeapGrows
  <1>4. \A c \in Conns : \A r \in Nat : Holds(c, r) => heap'[r] = heap[r]
    BY <1>3, HeldInside
  <1>5. UNCHANGED <<queue, smsg, spc>>
    BY DEF RecvMessage, senderVars
  <1>6. /\ \A c \in Conns : \A r \in Nat : Holds(c, r)' => r <= Len(heap')
        /\ \A c, d \in Conns : \A r \in Nat : (Holds(c, r) /\ Holds(d, r))' => c = d
        /\ RightStream' /\ SlicesInside'
    BY <1>3, <1>4, <1>5, RefsKept
  <1>7. RelayTypeOK'
    BY <1>3, <1>5, <1>6 DEF RelayInv, RelayTypeOK, RecvMessage
  <1>8. Ownership' /\ CopyAddressed'
    BY <1>6 DEF Ownership, CopyAddressed, RecvMessage
  <1> QED BY <1>6, <1>7, <1>8 DEF RelayInv

\* The copy is a new message, which no connection can hold.
LEMMA CopyStep == ASSUME NEW c \in Conns, RelayInv, Copy(c) PROVE RelayInv'
  <1> DEFINE o == heap[msg]
  <1>1. o \in Objects
    BY DEF RelayInv, RelayTypeOK, Copy
  <1>2. heap \in Seq(Objects) /\ heap' = Append(heap, o)
    BY DEF RelayInv, RelayTypeOK, Copy
  <1> HIDE DEF o
  <1>3. /\ heap' \in Seq(Objects) /\ Len(heap') = Len(heap) + 1 /\ Len(heap) \in Nat
        /\ \A r \in 1 .. Len(heap) : heap'[r] = heap[r]
    BY <1>1, <1>2, HeapGrows
  <1>4. \A d \in Conns : \A r \in Nat : Holds(d, r) => heap'[r] = heap[r]
    BY <1>3, HeldInside
  <1>5. UNCHANGED <<queue, smsg, spc>>
    BY DEF Copy, senderVars
  <1>6. /\ \A d \in Conns : \A r \in Nat : Holds(d, r)' <=> Holds(d, r)
        /\ \A d \in Conns : \A r \in Nat : Holds(d, r)' => r <= Len(heap')
        /\ \A d, e \in Conns : \A r \in Nat : (Holds(d, r) /\ Holds(e, r))' => d = e
        /\ RightStream' /\ SlicesInside'
    BY <1>3, <1>4, <1>5, RefsKept
  <1>7. RelayTypeOK'
    <2>1. /\ UNCHANGED <<todo, msg>> /\ copy' = Len(heap) + 1
          /\ rest' = rest \ {c} /\ target' = c /\ ppc' = "address"
      BY DEF Copy
    <2>2. /\ todo \in Seq(OutMessages) /\ msg \in 0 .. Len(heap) /\ msg # 0
          /\ rest \subseteq Conns /\ queue \in [Conns -> Seq(Nat \ {0})]
          /\ spc \in [Conns -> SendPcs] /\ smsg \in [Conns -> Nat]
      BY DEF RelayInv, RelayTypeOK, Copy
    <2>3. msg' \in 0 .. Len(heap') /\ copy' \in 0 .. Len(heap') /\ msg' # 0 /\ copy' # 0
      BY <1>3, <2>1, <2>2
    <2> QED BY <1>3, <1>5, <1>6, <2>1, <2>2, <2>3 DEF RelayTypeOK
  <1>8. \A d \in Conns : ~ Holds(d, Len(heap) + 1)
    BY <1>3 DEF RelayInv, RelayTypeOK
  <1>9. \A d \in Conns : ~ Holds(d, copy)'
    <2>1. copy' = Len(heap) + 1
      BY DEF Copy
    <2> QED BY <2>1, <1>5, <1>8 DEF Holds
  <1>10. Ownership'
    BY <1>6, <1>9 DEF Ownership
  <1>11. CopyAddressed'
    BY DEF CopyAddressed, Copy
  <1> QED BY <1>6, <1>7, <1>10, <1>11 DEF RelayInv

\* The program lets go of its message.
LEMMA AllServedStep == RelayInv /\ AllServed => RelayInv'
  <1> SUFFICES ASSUME RelayInv, AllServed PROVE RelayInv'
    OBVIOUS
  <1>1. UNCHANGED <<heap, queue, smsg, spc>> /\ UNCHANGED <<todo, msg, copy, rest, target>>
    BY DEF AllServed, senderVars
  <1>2. heap \in Seq(Objects) /\ Len(heap) \in Nat
    BY DEF RelayInv, RelayTypeOK
  <1>3. /\ \A c \in Conns : \A r \in Nat : Holds(c, r)' => r <= Len(heap')
        /\ \A c, d \in Conns : \A r \in Nat : (Holds(c, r) /\ Holds(d, r))' => c = d
        /\ RightStream' /\ SlicesInside'
    BY <1>1, <1>2, RefsKept
  <1>4. ppc' = "recv"
    BY DEF AllServed
  <1>5. RelayTypeOK'
    BY <1>1, <1>3, <1>4 DEF RelayInv, RelayTypeOK
  <1> QED BY <1>3, <1>4, <1>5 DEF RelayInv, Ownership, CopyAddressed

\* The one message that is written is the copy, and no connection holds it.
LEMMA AddressStep == RelayInv /\ Address => RelayInv'
  <1> SUFFICES ASSUME RelayInv, Address PROVE RelayInv'
    OBVIOUS
  <1> DEFINE o == [heap[copy] EXCEPT !.m = WithStreamId(@, target)]
  <1>1. copy \in 1 .. Len(heap) /\ heap[copy] \in Objects /\ target \in Conns
    BY DEF RelayInv, RelayTypeOK, Address
  <1>2. /\ o \in Objects
        /\ o.m = WithStreamId(heap[copy].m, target)
    BY <1>1, StreamIdType DEF Objects
  <1>3. WithStreamId(o.m, target) = o.m
    BY <1>1, <1>2, StreamIdType DEF Objects
  <1>4. heap \in Seq(Objects) /\ heap' = [heap EXCEPT ![copy] = o]
    BY DEF RelayInv, RelayTypeOK, Address
  <1> HIDE DEF o
  <1>5. /\ heap' \in Seq(Objects) /\ Len(heap') = Len(heap) /\ Len(heap) \in Nat
        /\ heap'[copy] = o
        /\ \A r \in 1 .. Len(heap) : r # copy => heap'[r] = heap[r]
    BY <1>1, <1>2, <1>4, HeapWrite
  <1>6. \A c \in Conns : ~ Holds(c, copy)
    BY DEF RelayInv, Ownership, Address
  <1>7. \A c \in Conns : \A r \in Nat : Holds(c, r) => heap'[r] = heap[r]
    BY <1>5, <1>6, HeldInside
  <1>8. UNCHANGED <<queue, smsg, spc>> /\ UNCHANGED <<copy, target, msg, todo, rest>>
    BY DEF Address, senderVars
  <1>9. /\ \A c \in Conns : \A r \in Nat : Holds(c, r)' <=> Holds(c, r)
        /\ \A c \in Conns : \A r \in Nat : Holds(c, r)' => r <= Len(heap')
        /\ \A c, d \in Conns : \A r \in Nat : (Holds(c, r) /\ Holds(d, r))' => c = d
        /\ RightStream' /\ SlicesInside'
    BY <1>5, <1>7, <1>8, RefsKept
  <1>10. RelayTypeOK'
    BY <1>1, <1>5, <1>8, <1>9 DEF RelayInv, RelayTypeOK, Address
  <1>11. \A c \in Conns : ~ Holds(c, copy)'
    BY <1>6, <1>8 DEF Holds
  <1>12. Ownership'
    BY <1>9, <1>11 DEF Ownership
  <1>13. CopyAddressed'
    BY <1>3, <1>5, <1>8 DEF CopyAddressed, AddressedTo, WithStreamId
  <1> QED BY <1>9, <1>10, <1>12, <1>13 DEF RelayInv

\* The connection that gets the copy is then the only one that holds it.
LEMMA EnqueueStep == RelayInv /\ Enqueue => RelayInv'
  <1> SUFFICES ASSUME RelayInv, Enqueue PROVE RelayInv'
    OBVIOUS
  <1>1. /\ UNCHANGED <<heap, todo, msg, copy, rest, target, smsg, spc>>
        /\ ppc = "enqueue" /\ ppc' = "copy"
        /\ queue' = [queue EXCEPT ![target] = Append(@, copy)]
    BY DEF Enqueue, senderVars
  <1>2. /\ queue \in [Conns -> Seq(Nat \ {0})] /\ target \in Conns
        /\ copy \in Nat \ {0} /\ copy <= Len(heap)
    BY <1>1 DEF RelayInv, RelayTypeOK
  <1>3. /\ queue' \in [Conns -> Seq(Nat \ {0})]
        /\ queue'[target] = Append(queue[target], copy)
        /\ \A c \in Conns : c # target => queue'[c] = queue[c]
    BY <1>1, <1>2
  <1>4. \A r \in Nat : Holds(target, r)' => Holds(target, r) \/ r = copy
    <2> DEFINE q == queue[target]
    <2>1. q \in Seq(Nat \ {0})
      BY <1>2
    <2>2. \A i \in 1 .. Len(Append(q, copy)) :
             Append(q, copy)[i] = copy \/ (i \in 1 .. Len(q) /\ Append(q, copy)[i] = q[i])
      BY <2>1, <1>2
    <2> QED BY <1>1, <1>3, <2>2 DEF Holds
  <1>5. \A c \in Conns : \A r \in Nat : Holds(c, r)' => Holds(c, r) \/ (c = target /\ r = copy)
    BY <1>1, <1>3, <1>4, SameRefs
  <1>6. \A c \in Conns : ~ Holds(c, copy)
    BY <1>1 DEF RelayInv, Ownership
  <1>7. RelayTypeOK'
    BY <1>1, <1>2, <1>3, <1>5 DEF RelayInv, RelayTypeOK
  <1>8. Ownership'
    BY <1>1, <1>5, <1>6 DEF RelayInv, Ownership
  <1>9. RightStream'
    <2> SUFFICES ASSUME NEW c \in Conns, NEW r \in Nat, Holds(c, r)'
                 PROVE  AddressedTo(r, c)'
      BY DEF RightStream
    <2>1. AddressedTo(r, c)
      BY <1>1, <1>5 DEF RelayInv, RightStream, CopyAddressed
    <2> QED BY <1>1, <2>1 DEF AddressedTo, WithStreamId
  <1>10. SlicesInside' /\ CopyAddressed'
    BY <1>1 DEF RelayInv, SlicesInside, SliceOK, Sending, Current, CopyAddressed
  <1> QED BY <1>7, <1>8, <1>9, <1>10 DEF RelayInv

-----------------------------------------------------------------------------
(* A sending goroutine *)

\* Dropping references and moving SentPayloadLength disturbs neither ownership nor
\* stream ids.
LEMMA RefsDropped ==
    ASSUME RelayInv, UNCHANGED programVars,
           heap' \in Seq(Objects), Len(heap') = Len(heap),
           queue' \in [Conns -> Seq(Nat \ {0})], spc' \in [Conns -> SendPcs],
           smsg' \in [Conns -> Nat],
           \A c \in Conns : \A r \in Nat : Holds(c, r)' => Holds(c, r),
           \A r \in 1 .. Len(heap) : heap'[r].m = heap[r].m
    PROVE  RelayTypeOK' /\ Ownership' /\ RightStream' /\ CopyAddressed'
  <1>1. UNCHANGED <<todo, msg, copy, rest, target, ppc>>
    BY DEF programVars
  <1>2. RelayTypeOK'
    BY <1>1 DEF RelayInv, RelayTypeOK
  <1>3. Ownership'
    <2>1. \A c, d \in Conns : \A r \in Nat : (Holds(c, r) /\ Holds(d, r))' => c = d
      BY DEF RelayInv, Ownership
    <2>2. ASSUME ppc \in {"address", "enqueue"}, NEW c \in Conns PROVE ~ Holds(c, copy)'
      <3>1. copy \in Nat /\ ~ Holds(c, copy)
        BY <2>2 DEF RelayInv, RelayTypeOK, Ownership
      <3>2. Holds(c, copy)' => Holds(c, copy)
        BY <1>1, <3>1 DEF Holds
      <3> QED BY <3>1, <3>2
    <2> QED BY <1>1, <2>1, <2>2 DEF Ownership
  <1>4. RightStream'
    <2> SUFFICES ASSUME NEW c \in Conns, NEW r \in Nat, Holds(c, r)'
                 PROVE  AddressedTo(r, c)'
      BY DEF RightStream
    <2>1. Holds(c, r) /\ AddressedTo(r, c)
      BY DEF RelayInv, RightStream
    <2>2. heap'[r].m = heap[r].m
      BY <2>1, HeldInside
    <2> QED BY <2>1, <2>2 DEF AddressedTo, WithStreamId
  <1>5. CopyAddressed'
    <2> SUFFICES ASSUME ppc = "enqueue" PROVE AddressedTo(copy, target)'
      BY <1>1 DEF CopyAddressed
    <2>1. AddressedTo(copy, target) /\ copy \in 1 .. Len(heap)
      BY DEF RelayInv, CopyAddressed, RelayTypeOK
    <2> QED BY <1>1, <2>1 DEF AddressedTo, WithStreamId
  <1> QED BY <1>2, <1>3, <1>4, <1>5

\* A step that touches no message and no reference: the goroutine may go to a place where
\* less is required of the slice.
LEMMA MessagesUntouched ==
    ASSUME RelayInv, UNCHANGED <<heap, programVars, queue, smsg>>,
           spc' \in [Conns -> SendPcs],
           \A d \in Conns : Sending(d)' => SliceOK(d) /\
               (spc'[d] = "write_payload" => Current(d).m.len > 0)
    PROVE  RelayInv'
  <1>1. heap' \in Seq(Objects) /\ Len(heap') = Len(heap) /\ UNCHANGED programVars
        /\ queue' \in [Conns -> Seq(Nat \ {0})] /\ smsg' \in [Conns -> Nat]
        /\ \A r \in 1 .. Len(heap) : heap'[r].m = heap[r].m
    BY DEF RelayInv, RelayTypeOK
  <1>2. \A c \in Conns : \A r \in Nat : Holds(c, r)' => Holds(c, r)
    BY SameRefs
  <1>3. RelayTypeOK' /\ Ownership' /\ RightStream' /\ CopyAddressed'
    BY <1>1, <1>2, RefsDropped
  <1>4. SlicesInside'
    BY DEF SlicesInside, SliceOK, Current
  <1> QED BY <1>3, <1>4 DEF RelayInv

\* A step that only moves a goroutine along keeps what every connection holds.
LEMMA QuietStep ==
    ASSUME NEW c \in Conns, RelayInv,
           MakeHeader(c) \/ Write(c) \/ WriteFails(c) \/ ErrorErased(c) \/ MakePayload(c)
    PROVE  RelayInv'
  <1>1. UNCHANGED <<heap, programVars, queue, smsg>>
    BY DEF MakeHeader, Write, WriteFails, ErrorErased, MakePayload
  <1>2. spc \in [Conns -> SendPcs]
    BY DEF RelayInv, RelayTypeOK
  <1>3. /\ spc' \in [Conns -> SendPcs]
        /\ \A d \in Conns : d # c => spc'[d] = spc[d]
        /\ Sending(c)' => Sending(c)
        /\ spc'[c] = "write_payload" => spc[c] = "write_payload" \/ Current(c).m.len > 0
    BY <1>2 DEF MakeHeader, Write, WriteFails, ErrorErased, MakePayload, GoTo, SendPcs, Sending
  <1>4. ASSUME NEW d \in Conns, Sending(d)'
        PROVE  SliceOK(d) /\ (spc'[d] = "write_payload" => Current(d).m.len > 0)
    <2>1. Sending(d)
      BY <1>3, <1>4 DEF Sending
    <2>2. SliceOK(d)
      BY <2>1 DEF RelayInv, SlicesInside
    <2> QED BY <1>3, <2>2 DEF SliceOK
  <1> QED BY <1>1, <1>3, <1>4, MessagesUntouched

\* A message with another SentPayloadLength.
LEMMA SentOnly ==
    ASSUME NEW x \in Objects, NEW n \in Int
    PROVE  /\ [x EXCEPT !.sent = n] \in Objects
           /\ [x EXCEPT !.sent = n].m = x.m /\ [x EXCEPT !.sent = n].sent = n
           /\ x.m.len \in Nat /\ x.sent \in Int
  BY DEF Objects, OutMessages

\* The slices after a write of connection c to the SentPayloadLength of its own message k:
\* the messages of the other connections are others.
LEMMA OwnWrite ==
    ASSUME RelayInv, NEW c \in Conns, NEW k \in 1 .. Len(heap), Holds(c, k),
           \A d \in Conns : d # c => smsg'[d] = smsg[d] /\ spc'[d] = spc[d],
           \A r \in 1 .. Len(heap) : r # k => heap'[r] = heap[r],
           Sending(c)' => SliceOK(c)'
    PROVE  SlicesInside'
  <1> SUFFICES ASSUME NEW d \in Conns, d # c, Sending(d)' PROVE SliceOK(d)'
    BY DEF SlicesInside
  <1>1. Sending(d) /\ SliceOK(d) /\ smsg[d] \in Nat
    BY DEF Sending, RelayInv, SlicesInside, RelayTypeOK
  <1>2. Holds(d, smsg[d])
    BY <1>1 DEF Holds, SliceOK
  <1>3. smsg[d] \in 1 .. Len(heap)
    BY <1>1, <1>2, HeldInside
  <1>4. smsg[d] # k
    BY <1>1, <1>2 DEF RelayInv, Ownership
  <1>5. Current(d)' = Current(d)
    BY <1>3, <1>4 DEF Current
  <1> QED BY <1>1, <1>5 DEF SliceOK

\* The goroutine exchanges its message for the first one of its queue.
LEMMA TakeStep == ASSUME NEW c \in Conns, RelayInv, Take(c) PROVE RelayInv'
  <1> DEFINE q == queue[c]
             k == Head(q)
             o == [heap[k] EXCEPT !.sent = 0]
  <1>1. /\ UNCHANGED programVars /\ q # <<>>
        /\ spc' = [spc EXCEPT ![c] = "header"]
        /\ smsg' = [smsg EXCEPT ![c] = k]
        /\ queue' = [queue EXCEPT ![c] = Tail(q)]
        /\ heap' = [heap EXCEPT ![k] = o]
    BY DEF Take, GoTo
  <1>2. /\ queue \in [Conns -> Seq(Nat \ {0})] /\ smsg \in [Conns -> Nat]
        /\ spc \in [Conns -> SendPcs] /\ heap \in Seq(Objects)
        /\ q \in Seq(Nat \ {0})
    BY DEF RelayInv, RelayTypeOK
  <1>3. /\ k \in Nat \ {0} /\ Tail(q) \in Seq(Nat \ {0})
        /\ 1 \in 1 .. Len(q) /\ k = q[1]
        /\ \A i \in 1 .. Len(Tail(q)) : i + 1 \in 1 .. Len(q) /\ Tail(q)[i] = q[i + 1]
    BY <1>1, <1>2
  <1>4. Holds(c, k)
    BY <1>3 DEF Holds
  <1>5. k \in 1 .. Len(heap)
    BY <1>3, <1>4, HeldInside
  <1>6. o \in Objects /\ o.m = heap[k].m /\ o.sent = 0 /\ o.m.len \in Nat
    <2>1. heap[k] \in Objects
      BY <1>2, <1>5
    <2> QED BY <2>1, SentOnly
  <1>7. \A r \in Nat : Holds(c, r)' => Holds(c, r)
    <2> SUFFICES ASSUME NEW r \in Nat, Holds(c, r)' PROVE Holds(c, r)
      OBVIOUS
    <2>1. smsg'[c] = k /\ queue'[c] = Tail(q)
      BY <1>1, <1>2
    <2>2. CASE r = k
      BY <2>2, <1>4
    <2>3. CASE r # k
      <3>1. PICK i \in 1 .. Len(Tail(q)) : Tail(q)[i] = r
        BY <2>1, <2>3 DEF Holds
      <3> QED BY <3>1, <1>3 DEF Holds
    <2> QED BY <2>2, <2>3
  <1> HIDE DEF o
  <1>8. /\ heap' \in Seq(Objects) /\ Len(heap') = Len(heap) /\ heap'[k] = o
        /\ \A r \in 1 .. Len(heap) : r # k => heap'[r] = heap[r]
    BY <1>1, <1>2, <1>5, <1>6, HeapWrite
  <1> HIDE DEF k, q
  <1>9. /\ queue' \in [Conns -> Seq(Nat \ {0})] /\ smsg' \in [Conns -> Nat]
        /\ spc' \in [Conns -> SendPcs] /\ smsg'[c] = k /\ spc'[c] = "header"
        /\ \A d \in Conns : d # c =>
              smsg'[d] = smsg[d] /\ spc'[d] = spc[d] /\ queue'[d] = queue[d]
    BY <1>1, <1>2, <1>3 DEF SendPcs
  <1>10. \A d \in Conns : \A r \in Nat : Holds(d, r)' => Holds(d, r)
    BY <1>7, <1>9, SameRefs
  <1>11. \A r \in 1 .. Len(heap) : heap'[r].m = heap[r].m
    BY <1>6, <1>8
  <1>12. RelayTypeOK' /\ Ownership' /\ RightStream' /\ CopyAddressed'
    BY <1>1, <1>8, <1>9, <1>10, <1>11, RefsDropped
  <1>13. SliceOK(c)'
    <2>1. smsg'[c] # 0 /\ Current(c)' = o
      BY <1>3, <1>8, <1>9 DEF Current
    <2>2. o.sent \in 0 .. o.m.len /\ (o.sent < o.m.len \/ o.m.len = 0)
      BY <1>6
    <2> QED BY <1>9, <2>1, <2>2 DEF SliceOK
  <1>14. SlicesInside'
    BY <1>4, <1>5, <1>8, <1>9, <1>13, OwnWrite
  <1> QED BY <1>12, <1>14 DEF RelayInv

\* The step of SentPayloadLength, as arithmetic.
LEMMA NextSlice ==
    ASSUME NEW len \in Nat, NEW sent \in Nat, sent < len, NEW size \in Nat \ {0}
    PROVE  /\ MinOf(size, len - sent) \in Int
           /\ sent + MinOf(size, len - sent) \in 0 .. len
  BY DEF MinOf

\* The goroutine moves SentPayloadLength of its message, which no other one reads.
LEMMA PayloadWrittenStep == ASSUME NEW c \in Conns, RelayInv, PayloadWritten(c) PROVE RelayInv'
  <1> DEFINE k == smsg[c]
             n == heap[k].sent + PayloadSize(c)
             o == [heap[k] EXCEPT !.sent = n]
  <1>1. /\ UNCHANGED programVars /\ UNCHANGED <<queue, smsg>> /\ spc[c] = "write_payload"
        /\ spc' = [spc EXCEPT ![c] = IF n < heap[k].m.len THEN "header" ELSE "take"]
        /\ heap' = [heap EXCEPT ![k] = o]
    BY DEF PayloadWritten, GoTo, Current
  <1>2. /\ queue \in [Conns -> Seq(Nat \ {0})] /\ smsg \in [Conns -> Nat]
        /\ spc \in [Conns -> SendPcs] /\ heap \in Seq(Objects)
    BY DEF RelayInv, RelayTypeOK
  <1>3. SliceOK(c)
    BY <1>1 DEF RelayInv, SlicesInside, Sending
  <1>4. k \in Nat /\ Holds(c, k)
    BY <1>2, <1>3 DEF SliceOK, Holds
  <1>5. k \in 1 .. Len(heap)
    BY <1>4, HeldInside
  <1>6. heap[k] \in Objects
    BY <1>2, <1>5
  <1>7. n \in 0 .. heap[k].m.len
    <2>1. heap[k].m.len \in Nat
      BY <1>6 DEF Objects, OutMessages
    <2>2. heap[k].sent \in Nat /\ heap[k].sent < heap[k].m.len
      BY <1>1, <1>3, <2>1 DEF SliceOK, Current
    <2>3. ChunkSizeOf[c] \in Nat \ {0}
      BY RelayAssumption
    <2> QED BY <2>1, <2>2, <2>3, NextSlice DEF PayloadSize, Current
  <1> HIDE DEF n
  <1>8. o \in Objects /\ o.m = heap[k].m /\ o.sent = n /\ heap[k].m.len \in Nat
    BY <1>6, <1>7, SentOnly
  <1> HIDE DEF o
  <1>9. /\ heap' \in Seq(Objects) /\ Len(heap') = Len(heap) /\ heap'[k] = o
        /\ \A r \in 1 .. Len(heap) : r # k => heap'[r] = heap[r]
    BY <1>1, <1>2, <1>5, <1>8, HeapWrite
  <1>10. \A d \in Conns : \A r \in Nat : Holds(d, r)' => Holds(d, r)
    BY <1>1, SameRefs
  <1>11. \A r \in 1 .. Len(heap) : heap'[r].m = heap[r].m
    BY <1>8, <1>9
  <1>12. spc' \in [Conns -> SendPcs] /\ \A d \in Conns : d # c => spc'[d] = spc[d]
    BY <1>1, <1>2 DEF SendPcs
  <1>13. RelayTypeOK' /\ Ownership' /\ RightStream' /\ CopyAddressed'
    BY <1>1, <1>2, <1>9, <1>10, <1>11, <1>12, RefsDropped
  <1>14. ASSUME Sending(c)' PROVE SliceOK(c)'
    <2>1. spc'[c] = "header" /\ n < heap[k].m.len
      BY <1>1, <1>2, <1>14 DEF Sending
    <2>2. smsg'[c] = k /\ k # 0 /\ Current(c)' = o
      BY <1>1, <1>3, <1>9 DEF Current, SliceOK
    <2>3. o.sent \in 0 .. o.m.len /\ o.sent < o.m.len
      BY <1>7, <1>8, <2>1
    <2> QED BY <2>1, <2>2, <2>3 DEF SliceOK
  <1>15. SlicesInside'
    BY <1>1, <1>4, <1>5, <1>9, <1>12, <1>14, OwnWrite
  <1> QED BY <1>13, <1>15 DEF RelayInv

-----------------------------------------------------------------------------
(* The theorems *)

\* Every step keeps the invariant.
LEMMA NextRelayInv == RelayInv /\ [Next]_vars => RelayInv'
  <1> SUFFICES ASSUME RelayInv, [Next]_vars PROVE RelayInv'
    OBVIOUS
  <1>1. CASE ProgramStep
    BY <1>1, RecvMessageStep, CopyStep, AllServedStep, AddressStep, EnqueueStep
       DEF ProgramStep
  <1>2. ASSUME NEW c \in Conns, SenderStep(c) \/ ErrorErased(c) PROVE RelayInv'
    BY <1>2, QuietStep, TakeStep, PayloadWrittenStep DEF SenderStep
  <1>3. CASE UNCHANGED vars
    <2>1. UNCHANGED <<heap, programVars, queue, smsg>> /\ spc' = spc
      BY <1>3 DEF vars, senderVars
    <2>2. ASSUME NEW d \in Conns, Sending(d)'
          PROVE  SliceOK(d) /\ (spc'[d] = "write_payload" => Current(d).m.len > 0)
      BY <2>1, <2>2 DEF RelayInv, SlicesInside, Sending, SliceOK
    <2>3. spc' \in [Conns -> SendPcs]
      BY <2>1 DEF RelayInv, RelayTypeOK
    <2> QED BY <2>1, <2>2, <2>3, MessagesUntouched
  <1> QED BY <1>1, <1>2, <1>3 DEF Next

\* The ownership of messages, with the types, stream ids and slices that it protects.
THEOREM RelayInvariant == Spec => []RelayInv
  <1> QED BY InitRelayInv, NextRelayInv, PTL DEF Spec

\* Every chunk that a sending goroutine cuts is inside the payload of its message, and
\* every message of a connection carries the stream id that SendMessage was given for it,
\* although the goroutines share the messages' headers without a lock.
THEOREM OwnSlicesAndStreams == Spec => [](SlicesInside /\ RightStream)
  <1>1. RelayInv => SlicesInside /\ RightStream
    BY DEF RelayInv
  <1> QED BY <1>1, RelayInvariant, PTL

\* What a connection has in hand depends only on the messages that it holds.
LEMMA InHandSame ==
    ASSUME RelayInv, NEW c \in Conns, queue'[c] = queue[c], smsg'[c] = smsg[c],
           \A r \in Nat : Holds(c, r) => heap'[r] = heap[r]
    PROVE  InHand(c)' = InHand(c)
  <1>1. queue[c] \in Seq(Nat \ {0}) /\ smsg[c] \in Nat
    BY DEF RelayInv, RelayTypeOK
  <1>2. \A i \in 1 .. Len(queue[c]) : heap'[queue[c][i]] = heap[queue[c][i]]
    <2> TAKE i \in 1 .. Len(queue[c])
    <2>1. queue[c][i] \in Nat \ {0}
      BY <1>1
    <2> QED BY <2>1 DEF Holds
  <1>3. smsg[c] # 0 => Current(c)' = Current(c)
    BY <1>1 DEF Holds, Current
  <1>4. [i \in 1 .. Len(queue'[c]) |-> heap'[queue'[c][i]].m]
            = [i \in 1 .. Len(queue[c]) |-> heap[queue[c][i]].m]
    BY <1>2
  <1> QED BY <1>3, <1>4 DEF InHand

\* A step that changes a message of connection c is a step of c.
LEMMA HeldKept ==
    ASSUME RelayInv, [Next]_vars, NEW c \in Conns, UNCHANGED <<spc[c], out[c]>>,
           NEW r \in Nat, Holds(c, r)
    PROVE  heap'[r] = heap[r]
  <1>1. heap \in Seq(Objects) /\ r \in 1 .. Len(heap) /\ spc \in [Conns -> SendPcs]
    BY HeldInside DEF RelayInv, RelayTypeOK
  <1>2. ASSUME NEW o \in Objects, heap' = Append(heap, o) PROVE heap'[r] = heap[r]
    BY <1>1, <1>2, HeapGrows
  <1>3. ASSUME NEW k, NEW o, k # r, heap' = [heap EXCEPT ![k] = o] PROVE heap'[r] = heap[r]
    <2>1. r \in DOMAIN heap
      BY <1>1
    <2> QED BY <1>3, <2>1, Zenon
  <1>4. CASE RecvMessage
    <2>1. NewMessage(Head(todo)) \in Objects
      BY <1>4 DEF RelayInv, RelayTypeOK, RecvMessage, NewMessage, Objects
    <2> QED BY <1>2, <1>4, <2>1 DEF RecvMessage
  <1>5. ASSUME NEW d \in Conns, Copy(d) PROVE heap'[r] = heap[r]
    <2>1. heap[msg] \in Objects
      BY <1>5 DEF RelayInv, RelayTypeOK, Copy
    <2> QED BY <1>2, <1>5, <2>1 DEF Copy
  <1>6. CASE Address
    <2>1. copy # r
      BY <1>6 DEF RelayInv, Ownership, Address
    <2> QED BY <1>3, <1>6, <2>1 DEF Address
  <1>7. CASE AllServed \/ Enqueue
    BY <1>7 DEF AllServed, Enqueue
  <1>8. ASSUME NEW d \in Conns, SenderStep(d) PROVE heap'[r] = heap[r]
    <2>1. CASE Take(d)
      <3>1. d # c
        BY <1>1, <2>1 DEF Take, GoTo
      <3>2. queue[d] \in Seq(Nat \ {0}) /\ queue[d] # <<>>
        BY <2>1 DEF RelayInv, RelayTypeOK, Take
      <3>3. Head(queue[d]) \in Nat /\ Holds(d, Head(queue[d]))
        BY <3>2 DEF Holds
      <3>4. Head(queue[d]) # r
        BY <3>1, <3>3 DEF RelayInv, Ownership
      <3> QED BY <1>3, <2>1, <3>4 DEF Take
    <2>2. CASE PayloadWritten(d)
      <3>1. d # c
        BY <1>1, <2>2 DEF PayloadWritten, GoTo
      <3>2. SliceOK(d) /\ smsg[d] \in Nat
        BY <2>2 DEF RelayInv, SlicesInside, Sending, PayloadWritten, GoTo, RelayTypeOK
      <3>3. Holds(d, smsg[d])
        BY <3>2 DEF Holds, SliceOK
      <3>4. smsg[d] # r
        BY <3>1, <3>2, <3>3 DEF RelayInv, Ownership
      <3> QED BY <1>3, <2>2, <3>4 DEF PayloadWritten
    <2>3. CASE MakeHeader(d) \/ Write(d) \/ WriteFails(d) \/ MakePayload(d)
      BY <2>3 DEF MakeHeader, Write, WriteFails, MakePayload
    <2> QED BY <1>8, <2>1, <2>2, <2>3 DEF SenderStep
  <1>9. ASSUME NEW d \in Conns, ErrorErased(d) PROVE heap'[r] = heap[r]
    BY <1>9 DEF ErrorErased
  <1>10. CASE UNCHANGED vars
    BY <1>10 DEF vars
  <1> QED BY <1>4, <1>5, <1>6, <1>7, <1>8, <1>9, <1>10 DEF Next, ProgramStep

\* Whatever the connections, chunk sizes, stream ids and messages are: what a connection
\* has in hand changes only by its own steps and by SendMessage on that connection.
THEOREM RelayIsolated == Spec => Isolated
  <1>1. RelayInv /\ [Next]_vars =>
            [\A c \in Conns :
                UNCHANGED <<queue[c], spc[c], smsg[c], out[c]>> => InHand(c)' = InHand(c)]_vars
    <2> SUFFICES ASSUME RelayInv, [Next]_vars, NEW c \in Conns,
                        UNCHANGED <<queue[c], spc[c], smsg[c], out[c]>>
                 PROVE  InHand(c)' = InHand(c)
      OBVIOUS
    <2>1. \A r \in Nat : Holds(c, r) => heap'[r] = heap[r]
      BY HeldKept
    <2> QED BY <2>1, InHandSame
  <1> QED BY <1>1, RelayInvariant, PTL DEF Spec, Isolated
=============================================================================
