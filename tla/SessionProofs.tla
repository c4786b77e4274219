--------------------------- MODULE SessionProofs ----------------------------
(***************************************************************************)
(* The server identifies every client right and talks on a stream only     *)
(* when a client that asks for its id knows it, whatever messages come     *)
(* between the requests and however many, and for every stream id and      *)
(* tcUrl.                                                                  *)
(*                                                                         *)
(* Argument: what is on the way to the server are requests of the client's *)
(* own script (OwnRequests).  A client that asks for a stream asks to play *)
(* or publish after it was told the id (AskedAfterTold).  A createStream   *)
(* would mislead IdentifyClient with an FMLE publisher, which does not     *)
(* wait between its requests; but its releaseStream is ahead of it, and no *)
(* operation before IdentifyClient can have dropped that (FmleAhead).      *)
(***************************************************************************)
EXTENDS Session, TLAPS

Kinds == {"player", "direct", "flash", "fmle", "visitor"}

\* The requests in the script of a client.
Own(c) ==
    CASE c = "player" -> {"connect", "createStream", "play"}
      [] c = "direct" -> {"connect", "play"}
      [] c = "flash" -> {"connect", "createStream", "publish"}
      [] c = "fmle" -> {"connect", "releaseStream", "FCPublish", "createStream", "publish"}
      [] c = "visitor" -> {"connect"}

\* The clients that ask for a stream, and where the script is when such a client has seen
\* the stream id.
AsksForStream(c) == c \notin {"direct", "visitor"}
Told(c) == CASE c = "fmle" -> 6 [] c = "direct" -> 2 [] OTHER -> 4

Messages == [cmd : Requests \cup Noise, tid : Nat]
Names ==
    {"windowAckSize", "peerBandwidth", "connectRes", "onBWDone", "createStreamRes",
     "fmleStartRes", "streamBegin", "playReset", "playStart", "sampleAccess", "dataStart",
     "publishStart", "onFCPublish", "ping"}
Packets == [cmd : Names, tid : Nat, sid : {0, StreamId}, value : Nat]

SessionTypes ==
    /\ client \in Kinds
    /\ step \in 1 .. Len(Script) + 1
    /\ toServer \in Seq(Messages) /\ asked \in Seq(Messages)
    /\ todo \in Seq(Packets) /\ answers \in Seq(Packets)
    /\ heard \in 0 .. Len(answers)

\* The operations before the answer to connect, and those before a client is identified.
Connecting == {"ConnectApp", "SetWindowAckSize", "SetPeerBandwidth", "ReponseConnectApp"}
Early == Connecting \cup {"CallOnBWDone", "IdentifyClient", "identify_create_stream_client"}

Sent(cmd) == \E i \in 1 .. Len(answers) : answers[i].cmd = cmd
ToSend(cmd) == \E i \in 1 .. Len(todo) : todo[i].cmd = cmd
OnTheWay(cmd) == \E i \in 1 .. Len(toServer) : toServer[i].cmd = cmd

\* The client can know the stream id if it asks for it, and it has asked to play or publish.
Announced ==
    AsksForStream(client) =>
        \E j \in 1 .. Len(answers) :
            answers[j].cmd = "createStreamRes" /\ answers[j].value = StreamId
AskedStream == \E j \in 1 .. Len(asked) : asked[j].cmd \in {"play", "publish"}

\* A client goes on after connect only when it is answered.
ConnectAnswered ==
    /\ spc \in Connecting => ~ Sent("connectRes") /\ ~ ToSend("connectRes")
    /\ step > 2 => Sent("connectRes")

\* Only requests of the client's own script have been sent, and are on the way.
OwnRequests ==
    /\ \A i \in 1 .. Len(asked) : asked[i].cmd \in Requests => asked[i].cmd \in Own(client)
    /\ \A i \in 1 .. Len(toServer) :
          toServer[i].cmd \in Requests => toServer[i].cmd \in Own(client)

\* createStream is answered with the stream id.
ResponsesRight ==
    /\ \A i \in 1 .. Len(answers) :
          answers[i].cmd = "createStreamRes" => answers[i].value = StreamId
    /\ \A i \in 1 .. Len(todo) : todo[i].cmd = "createStreamRes" => todo[i].value = StreamId

\* play and publish come from a client that was told the stream id, if it asks for it.
AskedAfterTold ==
    /\ step > Told(client) /\ client # "visitor" => Announced
    /\ OnTheWay("play") \/ OnTheWay("publish") => Announced /\ AskedStream
    /\ spc = "Start" /\ clientType \in {"Play", "FlashPublish"} => Announced /\ AskedStream
    /\ \A i \in 1 .. Len(todo) : todo[i].sid # 0 => Announced /\ AskedStream

\* Until an FMLE publisher is identified, its releaseStream is ahead of its createStream.
FmleAhead ==
    client = "fmle" =>
        /\ spc # "identify_create_stream_client"
        /\ step <= 5 => ~ OnTheWay("createStream")
        /\ spc \in Early /\ step > 3 => OnTheWay("releaseStream")
        /\ spc \in Early => \A i \in 1 .. Len(toServer) :
               toServer[i].cmd = "createStream" =>
                   \E j \in 1 .. i - 1 : toServer[j].cmd = "releaseStream"

\* StreamAnnounced, by kind of client.
KnownStream ==
    \A i \in 1 .. Len(answers) : answers[i].sid # 0 =>
        /\ AskedStream
        /\ AsksForStream(client) =>
              \E j \in 1 .. i - 1 : /\ answers[j].cmd = "createStreamRes"
                                    /\ answers[j].value = answers[i].sid

\* Clients that get as far as the second loop.
CreateStreamClients == spc = "identify_create_stream_client" => client \in {"player", "flash"}

SessionInv ==
    /\ SessionTypes /\ ConnectAnswered /\ OwnRequests /\ ResponsesRight /\ AskedAfterTold
    /\ FmleAhead /\ CreateStreamClients /\ IdentifiedRight /\ KnownStream

\* At the start nothing has been sent, and nobody is identified.
LEMMA InitSession == Init => SessionInv
  <1> SUFFICES ASSUME Init PROVE SessionInv
    OBVIOUS
  <1>1. /\ client \in Kinds /\ step = 1 /\ heard = 0
        /\ toServer = <<>> /\ asked = <<>> /\ todo = <<>> /\ answers = <<>>
        /\ spc = "ConnectApp" /\ clientType = "Unknown"
    BY SessionAssumption DEF Init, Kinds
  <1>2. Len(Script) \in Nat
    BY <1>1 DEF Script, Scripts, Kinds, Send, Wait
  <1>3. SessionTypes
    BY <1>1, <1>2 DEF SessionTypes
  <1> QED BY <1>1, <1>3
          DEF SessionInv, ConnectAnswered, OwnRequests, ResponsesRight, AskedAfterTold,
              FmleAhead, CreateStreamClients, IdentifiedRight, KnownStream, Connecting,
              Sent, ToSend, OnTheWay, Told

-----------------------------------------------------------------------------
(* The scripts, and the decoding of messages *)

\* What the argument needs of the scripts.
LEMMA ScriptFacts ==
    ASSUME NEW c \in Kinds, NEW s \in 1 .. Len(Scripts[c])
    PROVE  /\ Len(Scripts[c]) \in Nat
           /\ Scripts[c][s].do = "send" =>
                 /\ Scripts[c][s].cmd \in Own(c) /\ Scripts[c][s].tid \in Nat
                 /\ Scripts[c][s].cmd \in {"play", "publish"} =>
                       s > Told(c) /\ c # "visitor"
                 /\ c = "fmle" => /\ Scripts[c][s].cmd = "createStream" => s = 5
                                  /\ s = 3 => Scripts[c][s].cmd = "releaseStream"
                 /\ s # 2 /\ (c # "visitor" => s # Told(c))
           /\ s = 2 => Scripts[c][s].do = "wait" /\ Scripts[c][s].cmd = "connectRes"
           /\ AsksForStream(c) /\ s = Told(c) =>
                 Scripts[c][s].do = "wait" /\ Scripts[c][s].cmd = "createStreamRes"
           /\ c = "fmle" /\ s = 3 => Scripts[c][s].do = "send"
  <1>1. CASE c = "player"
    BY <1>1 DEF Scripts, Send, Wait, Own, Told
  <1>2. CASE c = "flash"
    BY <1>2 DEF Scripts, Send, Wait, Own, Told
  <1>3. CASE c = "fmle"
    BY <1>3 DEF Scripts, Send, Wait, Own, Told
  <1>4. CASE c = "visitor"
    BY <1>4 DEF Scripts, Send, Wait, Own, Told, AsksForStream
  <1>5. CASE c = "direct"
    BY <1>5 DEF Scripts, Send, Wait, Own, Told, AsksForStream
  <1> QED BY <1>1, <1>2, <1>3, <1>4, <1>5 DEF Kinds

\* DecodePacket tells the requests apart.
LEMMA Decoding ==
    ASSUME NEW m
    PROVE  /\ DecodePacket(m) = "ConnectApp" => m.cmd = "connect"
           /\ DecodePacket(m) = "CreateStream" <=> m.cmd = "createStream"
           /\ DecodePacket(m) = "Play" => m.cmd = "play"
           /\ DecodePacket(m) = "Publish" => m.cmd = "publish"
           /\ DecodePacket(m) = "FMLEStart" <=>
                 m.cmd \in {"releaseStream", "FCPublish", "FCUnpublish"}
  BY DEF DecodePacket, Undecodable

-----------------------------------------------------------------------------
(* Sequences at both ends *)

\* Append keeps what is there and puts the new element last.
LEMMA AtEnd ==
    ASSUME NEW S, NEW q \in Seq(S), NEW e \in S, NEW r, r = Append(q, e)
    PROVE  /\ r \in Seq(S) /\ Len(q) \in Nat /\ Len(r) = Len(q) + 1
           /\ r[Len(q) + 1] = e
           /\ \A i \in 1 .. Len(q) : r[i] = q[i]
  OBVIOUS

\* Head and Tail split off the first element.
LEMMA AtFront ==
    ASSUME NEW S, NEW q \in Seq(S), q # <<>>, NEW r, r = Tail(q)
    PROVE  /\ r \in Seq(S) /\ Len(r) \in Nat /\ Len(q) = Len(r) + 1
           /\ Head(q) = q[1] /\ Head(q) \in S
           /\ \A i \in 1 .. Len(r) : r[i] = q[i + 1]
  OBVIOUS

-----------------------------------------------------------------------------
(* The client *)

\* A client that is at a later place of its script sends the message m.
LEMMA AskStep ==
    ASSUME SessionInv, NEW m \in Messages,
           toServer' = Append(toServer, m), asked' = Append(asked, m),
           UNCHANGED <<client, heard, serverVars>>,
           step' \in 1 .. Len(Script) + 1, step' >= step,
           m.cmd \in Requests => m.cmd \in Own(client),
           step' > 2 => step > 2 \/ Sent("connectRes"),
           step' > Told(client) => step > Told(client) \/ client = "visitor",
           m.cmd \in {"play", "publish"} => Announced,
           client = "fmle" /\ m.cmd = "createStream" => step > 3 /\ step' > 5,
           client = "fmle" /\ step' > 3 => step > 3 \/ m.cmd = "releaseStream"
    PROVE  SessionInv'
  <1>1. /\ toServer' \in Seq(Messages) /\ Len(toServer) \in Nat
        /\ Len(toServer') = Len(toServer) + 1 /\ toServer'[Len(toServer) + 1] = m
        /\ \A i \in 1 .. Len(toServer) : toServer'[i] = toServer[i]
    BY AtEnd DEF SessionInv, SessionTypes
  <1>2. /\ asked' \in Seq(Messages) /\ Len(asked) \in Nat
        /\ Len(asked') = Len(asked) + 1 /\ asked'[Len(asked) + 1] = m
        /\ \A i \in 1 .. Len(asked) : asked'[i] = asked[i]
    BY AtEnd DEF SessionInv, SessionTypes
  <1>3. UNCHANGED <<client, heard>> /\ UNCHANGED <<spc, todo, answers, clientType>>
    BY DEF serverVars
  <1>4. \A i \in 1 .. Len(toServer') :
           \/ i \in 1 .. Len(toServer) /\ toServer'[i] = toServer[i]
           \/ i = Len(toServer) + 1 /\ toServer'[i] = m
    BY <1>1
  <1>5. step \in Nat /\ step' \in Nat /\ Told(client) \in Nat
    BY DEF SessionInv, SessionTypes, Told
  <1>6. SessionTypes'
    BY <1>1, <1>2, <1>3 DEF SessionInv, SessionTypes, Script
  <1>7. ConnectAnswered'
    BY <1>3, <1>5 DEF SessionInv, ConnectAnswered, Sent, ToSend
  <1>8. OwnRequests'
    <2>1. \A i \in 1 .. Len(asked') :
             \/ i \in 1 .. Len(asked) /\ asked'[i] = asked[i]
             \/ asked'[i] = m
      BY <1>2
    <2> QED BY <1>3, <1>4, <2>1 DEF SessionInv, OwnRequests
  <1>9. ResponsesRight' /\ CreateStreamClients' /\ IdentifiedRight'
    BY <1>3 DEF SessionInv, ResponsesRight, CreateStreamClients, IdentifiedRight
  <1>10. /\ Announced' <=> Announced
         /\ AskedStream => AskedStream'
         /\ m.cmd \in {"play", "publish"} => AskedStream'
    BY <1>2, <1>3 DEF Announced, AskedStream, AsksForStream
  <1>11. AskedAfterTold'
    <2>1. step' > Told(client') /\ client' # "visitor" => Announced'
      BY <1>3, <1>5, <1>10 DEF SessionInv, AskedAfterTold
    <2>2. \A cmd : OnTheWay(cmd)' => OnTheWay(cmd) \/ m.cmd = cmd
      BY <1>4 DEF OnTheWay
    <2>3. OnTheWay("play")' \/ OnTheWay("publish")' => Announced' /\ AskedStream'
      BY <1>10, <2>2 DEF SessionInv, AskedAfterTold
    <2> QED BY <1>3, <1>10, <2>1, <2>3 DEF SessionInv, AskedAfterTold
  <1>12. FmleAhead'
    <2> SUFFICES ASSUME client = "fmle" PROVE FmleAhead'
      BY <1>3 DEF FmleAhead
    <2>1. step' <= 5 => ~ OnTheWay("createStream")'
      BY <1>4, <1>5 DEF SessionInv, FmleAhead, OnTheWay
    <2>2. OnTheWay("releaseStream") => OnTheWay("releaseStream")'
      BY <1>1 DEF OnTheWay
    <2>3. m.cmd = "releaseStream" => OnTheWay("releaseStream")'
      BY <1>1 DEF OnTheWay
    <2>4. spc \in Early /\ step' > 3 => OnTheWay("releaseStream")'
      BY <1>5, <2>2, <2>3 DEF SessionInv, FmleAhead
    <2>5. ASSUME spc \in Early, NEW i \in 1 .. Len(toServer'),
                 toServer'[i].cmd = "createStream"
          PROVE  \E j \in 1 .. i - 1 : toServer'[j].cmd = "releaseStream"
      <3>1. CASE i \in 1 .. Len(toServer) /\ toServer'[i] = toServer[i]
        <4>1. PICK j \in 1 .. i - 1 : toServer[j].cmd = "releaseStream"
          BY <2>5, <3>1 DEF SessionInv, FmleAhead
        <4>2. j \in 1 .. Len(toServer)
          BY <1>1, <3>1
        <4> QED BY <1>1, <4>1, <4>2
      <3>2. CASE i = Len(toServer) + 1 /\ toServer'[i] = m
        <4>1. OnTheWay("releaseStream")
          BY <2>5, <3>2 DEF SessionInv, FmleAhead
        <4>2. PICK j \in 1 .. Len(toServer) : toServer[j].cmd = "releaseStream"
          BY <4>1 DEF OnTheWay
        <4>3. j \in 1 .. i - 1
          BY <1>1, <3>2
        <4> QED BY <1>1, <4>2, <4>3
      <3> QED BY <1>4, <3>1, <3>2
    <2> QED BY <1>3, <2>1, <2>4, <2>5 DEF SessionInv, FmleAhead
  <1>13. KnownStream'
    <2>1. KnownStream
      BY DEF SessionInv
    <2> QED BY <1>3, <1>10, <2>1 DEF KnownStream
  <1> QED BY <1>6, <1>7, <1>8, <1>9, <1>11, <1>12, <1>13 DEF SessionInv

\* The client sends its next request.
LEMMA ClientSendStep == SessionInv /\ ClientSend => SessionInv'
  <1> SUFFICES ASSUME SessionInv, ClientSend PROVE SessionInv'
    OBVIOUS
  <1> DEFINE m == Command(Script[step].cmd, Script[step].tid)
  <1>1. client \in Kinds /\ Len(Scripts[client]) \in Nat /\ step \in 1 .. Len(Scripts[client])
        /\ Scripts[client][step].do = "send"
    <2>1. client \in Kinds /\ step \in 1 .. Len(Scripts[client]) + 1
      BY DEF SessionInv, SessionTypes, Script
    <2>2. ~ (step > Len(Scripts[client])) /\ Scripts[client][step].do = "send"
      BY DEF ClientSend, Finished, Script
    <2>3. Len(Scripts[client]) \in Nat
      BY <2>1 DEF Kinds, Scripts, Send, Wait
    <2> QED BY <2>1, <2>2, <2>3
  <1>2. /\ m.cmd \in Own(client) /\ m.tid \in Nat
        /\ m.cmd \in {"play", "publish"} => step > Told(client) /\ client # "visitor"
        /\ client = "fmle" => /\ m.cmd = "createStream" => step = 5
                              /\ step = 3 => m.cmd = "releaseStream"
        /\ step # 2 /\ (client # "visitor" => step # Told(client))
    BY <1>1, ScriptFacts DEF Command, Script
  <1>3. m \in Messages
    BY <1>1, <1>2 DEF Messages, Command, Own, Kinds, Requests
  <1>4. /\ toServer' = Append(toServer, m) /\ asked' = Append(asked, m)
        /\ UNCHANGED <<client, heard, serverVars>> /\ step' = step + 1
    BY DEF ClientSend
  <1> HIDE DEF m
  <1>5. Told(client) \in Nat
    BY DEF Told
  <1>6. m.cmd \in {"play", "publish"} => Announced
    BY <1>2 DEF SessionInv, AskedAfterTold
  <1>7. step' > 2 => step > 2
    BY <1>1, <1>2, <1>4
  <1>8. step' > Told(client) => step > Told(client) \/ client = "visitor"
    BY <1>1, <1>2, <1>4, <1>5
  <1>9. /\ client = "fmle" /\ m.cmd = "createStream" => step > 3 /\ step' > 5
        /\ client = "fmle" /\ step' > 3 => step > 3 \/ m.cmd = "releaseStream"
    BY <1>1, <1>2, <1>4
  <1>10. step' \in 1 .. Len(Script) + 1 /\ step' >= step
    BY <1>1, <1>4 DEF Script
  <1> QED BY <1>2, <1>3, <1>4, <1>6, <1>7, <1>8, <1>9, <1>10, AskStep

\* What it sends besides is no request.
LEMMA ClientNoiseStep == SessionInv /\ ClientNoise => SessionInv'
  <1> SUFFICES ASSUME SessionInv, ClientNoise PROVE SessionInv'
    OBVIOUS
  <1>1. PICK cmd \in Noise : /\ toServer' = Append(toServer, Command(cmd, 0))
                             /\ asked' = Append(asked, Command(cmd, 0))
    BY DEF ClientNoise
  <1> DEFINE m == Command(cmd, 0)
  <1>2. m \in Messages /\ m.cmd \notin Requests
    BY SessionAssumption DEF Messages, Command
  <1>3. m.cmd \notin {"play", "publish", "createStream", "releaseStream"}
    BY <1>2 DEF Requests
  <1>4. /\ UNCHANGED <<client, heard, serverVars>> /\ step' = step
        /\ step' \in 1 .. Len(Script) + 1 /\ step' >= step
    BY DEF ClientNoise, SessionInv, SessionTypes
  <1> HIDE DEF m
  <1> QED BY <1>1, <1>2, <1>3, <1>4, AskStep DEF m

\* The client goes on at connectRes and createStreamRes, which are then among the answers.
LEMMA ClientReceiveStep == SessionInv /\ ClientReceive => SessionInv'
  <1> SUFFICES ASSUME SessionInv, ClientReceive PROVE SessionInv'
    OBVIOUS
  <1>1. UNCHANGED <<client, asked, toServer>> /\ UNCHANGED <<spc, todo, answers, clientType>>
    BY DEF ClientReceive, serverVars
  <1>2. /\ client \in Kinds /\ Len(Script) \in Nat /\ step \in 1 .. Len(Script) + 1
        /\ answers \in Seq(Packets) /\ heard \in 0 .. Len(answers)
        /\ heard < Len(answers) /\ heard' = heard + 1
    <2>1. client \in Kinds
      BY DEF SessionInv, SessionTypes
    <2>2. Len(Script) \in Nat
      BY <2>1 DEF Kinds, Script, Scripts, Send, Wait
    <2> QED BY <2>1, <2>2 DEF SessionInv, SessionTypes, ClientReceive
  <1>3. \/ step' = step
        \/ /\ step' = step + 1 /\ step \in 1 .. Len(Script)
           /\ Script[step] = Wait(answers[heard + 1].cmd)
    BY <1>2 DEF ClientReceive, Finished
  <1>4. heard + 1 \in 1 .. Len(answers) /\ heard' \in 0 .. Len(answers)
    BY <1>2
  <1>5. SessionTypes'
    BY <1>1, <1>2, <1>3, <1>4 DEF SessionInv, SessionTypes, Script
  <1>6. step' # step => Sent(Script[step].cmd) /\ Script[step].do = "wait"
    BY <1>3, <1>4 DEF Sent, Wait
  <1>7. ConnectAnswered'
    <2>1. step = 2 /\ step' # step => Sent("connectRes")
      BY <1>2, <1>3, <1>6, ScriptFacts DEF Script
    <2>2. step' > 2 => Sent("connectRes")
      BY <1>2, <1>3, <2>1 DEF SessionInv, ConnectAnswered
    <2> QED BY <1>1, <2>2 DEF SessionInv, ConnectAnswered, Sent, ToSend
  <1>8. step' > Told(client) /\ client # "visitor" => Announced
    <2>1. Sent("createStreamRes") \/ ~ AsksForStream(client) => Announced
      BY DEF SessionInv, ResponsesRight, Sent, Announced
    <2>2. AsksForStream(client) /\ step = Told(client) /\ step' # step =>
                Sent("createStreamRes")
      BY <1>2, <1>3, <1>6, ScriptFacts DEF Script
    <2>3. Told(client) \in Nat
      BY DEF Told
    <2> QED BY <1>2, <1>3, <2>1, <2>2, <2>3 DEF SessionInv, AskedAfterTold
  <1>9. AskedAfterTold'
    <2>1. /\ (Announced' <=> Announced) /\ (AskedStream' <=> AskedStream)
          /\ \A cmd : OnTheWay(cmd)' <=> OnTheWay(cmd)
          /\ Told(client)' = Told(client)
      BY <1>1 DEF Announced, AskedStream, OnTheWay, Told
    <2> QED BY <1>1, <1>8, <2>1 DEF SessionInv, AskedAfterTold
  <1>10. FmleAhead'
    <2> SUFFICES ASSUME client = "fmle" PROVE FmleAhead'
      BY <1>1 DEF FmleAhead
    <2>1. \A cmd : OnTheWay(cmd)' <=> OnTheWay(cmd)
      BY <1>1 DEF OnTheWay
    <2>2. step' # step => step # 3
      BY <1>2, <1>3, <1>6, ScriptFacts DEF Script
    <2>3. (step' <= 5 => step <= 5) /\ (step' > 3 => step > 3)
      BY <1>2, <1>3, <2>2
    <2> QED BY <1>1, <2>1, <2>3 DEF SessionInv, FmleAhead
  <1>11. OwnRequests' /\ ResponsesRight' /\ CreateStreamClients' /\ IdentifiedRight'
    BY <1>1 DEF SessionInv, OwnRequests, ResponsesRight, CreateStreamClients, IdentifiedRight
  <1>12. KnownStream'
    BY <1>1 DEF SessionInv, KnownStream, AskedStream
  <1> QED BY <1>5, <1>7, <1>9, <1>10, <1>11, <1>12 DEF SessionInv

-----------------------------------------------------------------------------
(* The server *)

\* A packet moves from the operation to the answers.
LEMMA SendPacketStep == SessionInv /\ SendPacket => SessionInv'
  <1> SUFFICES ASSUME SessionInv, SendPacket PROVE SessionInv'
    OBVIOUS
  <1> DEFINE p == Head(todo)
  <1>1. /\ UNCHANGED <<client, step, asked, heard, toServer, spc, clientType>>
        /\ todo # <<>> /\ todo' = Tail(todo) /\ answers' = Append(answers, p)
    BY DEF SendPacket, clientVars
  <1>2. todo \in Seq(Packets) /\ answers \in Seq(Packets)
    BY DEF SessionInv, SessionTypes
  <1>3. /\ todo' \in Seq(Packets) /\ Len(todo') \in Nat /\ Len(todo) = Len(todo') + 1
        /\ p = todo[1] /\ p \in Packets
        /\ \A i \in 1 .. Len(todo') : todo'[i] = todo[i + 1]
    BY <1>1, <1>2, AtFront
  <1> HIDE DEF p
  <1>4. /\ answers' \in Seq(Packets) /\ Len(answers) \in Nat
        /\ Len(answers') = Len(answers) + 1 /\ answers'[Len(answers) + 1] = p
        /\ \A i \in 1 .. Len(answers) : answers'[i] = answers[i]
    BY <1>1, <1>2, <1>3, AtEnd
  <1>5. 1 \in 1 .. Len(todo) /\ \A i \in 1 .. Len(todo') : i + 1 \in 1 .. Len(todo)
    BY <1>3
  <1>6. \A i \in 1 .. Len(answers') :
           \/ i \in 1 .. Len(answers) /\ answers'[i] = answers[i]
           \/ i = Len(answers) + 1 /\ answers'[i] = p
    BY <1>4
  <1>7. SessionTypes'
    BY <1>1, <1>3, <1>4 DEF SessionInv, SessionTypes, Script
  <1>8. /\ \A cmd : ToSend(cmd)' => ToSend(cmd)
        /\ \A cmd : Sent(cmd)' => Sent(cmd) \/ ToSend(cmd)
        /\ \A cmd : Sent(cmd) => Sent(cmd)'
        /\ Announced => Announced'
    <2>1. ASSUME NEW cmd, ToSend(cmd)' PROVE ToSend(cmd)
      <3>1. PICK i \in 1 .. Len(todo') : todo'[i].cmd = cmd
        BY <2>1 DEF ToSend
      <3> QED BY <1>3, <1>5, <3>1 DEF ToSend
    <2>2. ASSUME NEW cmd, Sent(cmd)' PROVE Sent(cmd) \/ ToSend(cmd)
      BY <1>3, <1>5, <1>6, <2>2 DEF ToSend, Sent
    <2>3. \A i \in 1 .. Len(answers) : i \in 1 .. Len(answers') /\ answers'[i] = answers[i]
      BY <1>4
    <2>4. ASSUME NEW cmd, Sent(cmd) PROVE Sent(cmd)'
      BY <2>3, <2>4 DEF Sent
    <2>5. Announced => Announced'
      BY <1>1, <2>3 DEF Announced
    <2> QED BY <2>1, <2>2, <2>4, <2>5
  <1>9. ConnectAnswered'
    BY <1>1, <1>8 DEF SessionInv, ConnectAnswered
  <1>10. ResponsesRight'
    BY <1>3, <1>5, <1>6 DEF SessionInv, ResponsesRight
  <1>11. OwnRequests' /\ CreateStreamClients' /\ IdentifiedRight' /\ FmleAhead'
    <2>1. OwnRequests' /\ CreateStreamClients' /\ IdentifiedRight'
      BY <1>1 DEF SessionInv, OwnRequests, CreateStreamClients, IdentifiedRight
    <2>2. \A cmd : OnTheWay(cmd)' <=> OnTheWay(cmd)
      BY <1>1 DEF OnTheWay
    <2>3. FmleAhead'
      BY <1>1, <2>2 DEF SessionInv, FmleAhead
    <2> QED BY <2>1, <2>3
  <1>12. AskedAfterTold'
    <2>1. /\ AskedStream' <=> AskedStream
          /\ \A cmd : OnTheWay(cmd)' <=> OnTheWay(cmd)
          /\ Told(client)' = Told(client)
      BY <1>1 DEF AskedStream, OnTheWay, Told
    <2>2. \A i \in 1 .. Len(todo') : todo'[i].sid # 0 => Announced /\ AskedStream
      BY <1>3, <1>5 DEF SessionInv, AskedAfterTold
    <2> QED BY <1>1, <1>8, <2>1, <2>2 DEF SessionInv, AskedAfterTold
  <1>13. KnownStream'
    <2>1. AskedStream' <=> AskedStream
      BY <1>1 DEF AskedStream
    <2> SUFFICES ASSUME NEW i \in 1 .. Len(answers'), answers'[i].sid # 0
                 PROVE  /\ AskedStream
                        /\ AsksForStream(client) =>
                              \E j \in 1 .. i - 1 : /\ answers'[j].cmd = "createStreamRes"
                                                    /\ answers'[j].value = answers'[i].sid
      BY <1>1, <2>1 DEF KnownStream
    <2>2. CASE i \in 1 .. Len(answers) /\ answers'[i] = answers[i]
      <3>1. AskedStream
        BY <2>2 DEF SessionInv, KnownStream
      <3>2. ASSUME AsksForStream(client)
            PROVE  \E j \in 1 .. i - 1 : /\ answers'[j].cmd = "createStreamRes"
                                         /\ answers'[j].value = answers'[i].sid
        <4>1. PICK j \in 1 .. i - 1 : answers[j].cmd = "createStreamRes"
                                      /\ answers[j].value = answers[i].sid
          BY <2>2, <3>2 DEF SessionInv, KnownStream
        <4>2. j \in 1 .. Len(answers)
          BY <1>4, <2>2
        <4> QED BY <1>4, <2>2, <4>1, <4>2
      <3> QED BY <3>1, <3>2
    <2>3. CASE i = Len(answers) + 1 /\ answers'[i] = p
      <3>1. p.sid = StreamId
        BY <1>3, <2>3 DEF Packets
      <3>2. Announced /\ AskedStream
        BY <1>3, <1>5, <2>3 DEF SessionInv, AskedAfterTold
      <3>3. ASSUME AsksForStream(client)
            PROVE  \E j \in 1 .. i - 1 : /\ answers'[j].cmd = "createStreamRes"
                                         /\ answers'[j].value = answers'[i].sid
        <4>1. PICK j \in 1 .. Len(answers) : answers[j].cmd = "createStreamRes"
                                             /\ answers[j].value = StreamId
          BY <3>2, <3>3 DEF Announced
        <4>2. j \in 1 .. i - 1 /\ answers'[j] = answers[j]
          BY <1>4, <2>3
        <4> QED BY <2>3, <3>1, <4>1, <4>2
      <3> QED BY <3>2, <3>3
    <2> QED BY <1>6, <2>2, <2>3
  <1> QED BY <1>7, <1>9, <1>10, <1>11, <1>12, <1>13 DEF SessionInv

\* Packets that an operation may send before the client has asked to play or publish.
OnlyResponses ==
    /\ todo' \in Seq(Packets)
    /\ \A i \in 1 .. Len(todo') :
          /\ todo'[i].cmd # "connectRes" /\ todo'[i].sid = 0
          /\ todo'[i].cmd = "createStreamRes" => todo'[i].value = StreamId

\* And those afterwards.
LateResponse ==
    /\ todo' \in Seq(Packets)
    /\ \A i \in 1 .. Len(todo') :
          /\ todo'[i].cmd # "connectRes"
          /\ todo'[i].cmd = "createStreamRes" => todo'[i].value = StreamId
          /\ todo'[i].sid # 0 => Announced /\ AskedStream

\* What an operation may do with the message it receives: it must not leave a message of
\* an FMLE publisher behind that the next operations need.
Handled ==
    /\ LateResponse
    /\ spc' \in Connecting => spc \in Connecting
    /\ spc' = "Start" /\ clientType' \in {"Play", "FlashPublish"} => Announced /\ AskedStream
    /\ clientType' # "Unknown" => clientType' = ClientTypeOf[client]
    /\ spc' = "identify_create_stream_client" => client \in {"player", "flash"}
    /\ client = "fmle" /\ spc' \in Early =>
          spc \in Early /\ (Message.cmd # "releaseStream" \/ step <= 3)

LEMMA ReceiveStep ==
    ASSUME SessionInv, toServer # <<>>, toServer' = Tail(toServer),
           UNCHANGED <<clientVars, answers>>, Handled
    PROVE  SessionInv'
  <1>0. step \in Nat
    BY DEF SessionInv, SessionTypes
  <1>1. UNCHANGED <<client, step, asked, heard, answers>>
    BY DEF clientVars
  <1>2. /\ toServer' \in Seq(Messages) /\ Len(toServer') \in Nat
        /\ Len(toServer) = Len(toServer') + 1 /\ Message = toServer[1]
        /\ \A i \in 1 .. Len(toServer') : toServer'[i] = toServer[i + 1]
    BY AtFront DEF SessionInv, SessionTypes, Message
  <1>3. \A i \in 1 .. Len(toServer') : i + 1 \in 1 .. Len(toServer)
    BY <1>2
  <1>4. SessionTypes'
    BY <1>1, <1>2 DEF SessionInv, SessionTypes, Script, Handled, LateResponse
  <1>5. ConnectAnswered'
    BY <1>1 DEF SessionInv, ConnectAnswered, Sent, ToSend, Handled, LateResponse
  <1>6. OwnRequests'
    BY <1>1, <1>2, <1>3 DEF SessionInv, OwnRequests
  <1>7. ResponsesRight' /\ CreateStreamClients' /\ IdentifiedRight'
    BY <1>1 DEF SessionInv, ResponsesRight, CreateStreamClients, IdentifiedRight, Handled,
                LateResponse
  <1>8. \A cmd : OnTheWay(cmd)' => OnTheWay(cmd)
    <2> SUFFICES ASSUME NEW cmd, OnTheWay(cmd)' PROVE OnTheWay(cmd)
      OBVIOUS
    <2>1. PICK i \in 1 .. Len(toServer') : toServer'[i].cmd = cmd
      BY DEF OnTheWay
    <2> QED BY <1>2, <1>3, <2>1 DEF OnTheWay
  <1>9. AskedAfterTold'
    <2>1. /\ (Announced' <=> Announced) /\ (AskedStream' <=> AskedStream)
          /\ Told(client)' = Told(client)
      BY <1>1 DEF Announced, AskedStream, Told
    <2> QED BY <1>1, <1>8, <2>1 DEF SessionInv, AskedAfterTold, Handled, LateResponse
  <1>10. FmleAhead'
    <2> SUFFICES ASSUME client = "fmle" PROVE FmleAhead'
      BY <1>1 DEF FmleAhead
    <2>1. spc' # "identify_create_stream_client"
      BY DEF Handled, LateResponse
    <2>2. step' <= 5 => ~ OnTheWay("createStream")'
      BY <1>1, <1>8 DEF SessionInv, FmleAhead
    <2>3. ASSUME spc' \in Early, step > 3 PROVE OnTheWay("releaseStream")'
      <3>1. Message.cmd # "releaseStream" /\ OnTheWay("releaseStream")
        BY <1>0, <2>3 DEF SessionInv, FmleAhead, Handled
      <3>2. PICK j \in 1 .. Len(toServer) : toServer[j].cmd = "releaseStream"
        BY <3>1 DEF OnTheWay
      <3>3. j - 1 \in 1 .. Len(toServer') /\ (j - 1) + 1 = j
        BY <1>2, <3>1, <3>2
      <3>4. toServer'[j - 1] = toServer[j]
        BY <1>2, <3>3
      <3> QED BY <3>2, <3>3, <3>4 DEF OnTheWay
    <2>4. ASSUME spc' \in Early, NEW i \in 1 .. Len(toServer'),
                 toServer'[i].cmd = "createStream"
          PROVE  \E j \in 1 .. i - 1 : toServer'[j].cmd = "releaseStream"
      <3>1. i + 1 \in 1 .. Len(toServer) /\ toServer[i + 1].cmd = "createStream"
        BY <1>2, <1>3, <2>4
      <3>2. step > 5
        BY <1>0, <3>1 DEF SessionInv, FmleAhead, OnTheWay
      <3>3. spc \in Early /\ Message.cmd # "releaseStream"
        BY <1>0, <2>4, <3>2 DEF Handled
      <3>4. PICK j \in 1 .. (i + 1) - 1 : toServer[j].cmd = "releaseStream"
        BY <3>1, <3>3 DEF SessionInv, FmleAhead
      <3>5. j - 1 \in 1 .. i - 1 /\ j - 1 \in 1 .. Len(toServer') /\ (j - 1) + 1 = j
        BY <1>2, <3>3, <3>4
      <3>6. toServer'[j - 1] = toServer[j]
        BY <1>2, <3>5
      <3> QED BY <3>4, <3>5, <3>6
    <2> QED BY <1>1, <2>1, <2>2, <2>3, <2>4 DEF FmleAhead
  <1>11. KnownStream'
    BY <1>1 DEF SessionInv, KnownStream, AskedStream
  <1> QED BY <1>4, <1>5, <1>6, <1>7, <1>9, <1>10, <1>11 DEF SessionInv

\* The message that is received is on the way, and is the client's own.
LEMMA Received ==
    ASSUME SessionInv, toServer # <<>>
    PROVE  /\ Message.cmd \in Requests => Message.cmd \in Own(client)
           /\ Message.cmd \in {"play", "publish"} => Announced /\ AskedStream
           /\ Message \in Messages
  <1>1. Message = toServer[1] /\ 1 \in 1 .. Len(toServer) /\ Message \in Messages
    BY DEF SessionInv, SessionTypes, Message
  <1> QED BY <1>1 DEF SessionInv, OwnRequests, AskedAfterTold, OnTheWay

\* Responses are packets that nobody has to wait for.
LEMMA Responses ==
    ASSUME NEW tid \in Nat
    PROVE  \A p \in {CreateStreamRes(tid), FMLEStartRes(tid)} :
              /\ p \in Packets /\ p.cmd # "connectRes" /\ p.sid = 0
              /\ p.cmd = "createStreamRes" => p.value = StreamId
  <1>1. StreamId \in Nat
    BY SessionAssumption
  <1> DEFINE p == CreateStreamRes(tid)
             q == FMLEStartRes(tid)
  <1>2. p \in Packets /\ p.cmd = "createStreamRes" /\ p.sid = 0 /\ p.value = StreamId
    BY <1>1 DEF CreateStreamRes, Packet, Packets, Names
  <1>3. q \in Packets /\ q.cmd = "fmleStartRes" /\ q.sid = 0
    BY <1>1 DEF FMLEStartRes, Packet, Packets, Names
  <1> QED BY <1>2, <1>3

\* An operation that sends nothing has no wrong response.
LEMMA NoResponse == todo' = <<>> => LateResponse
  BY DEF LateResponse

\* IdentifyClient finds createStream first only with players and Flash publishers.
LEMMA IdentifyClientStep == SessionInv /\ IdentifyClient => SessionInv'
  <1> SUFFICES ASSUME SessionInv, IdentifyClient PROVE SessionInv'
    OBVIOUS
  <1>1. /\ toServer # <<>> /\ toServer' = Tail(toServer) /\ UNCHANGED <<clientVars, answers>>
        /\ spc = "IdentifyClient" /\ todo = <<>>
    BY DEF IdentifyClient, Receive
  <1>2. /\ Message.cmd \in Requests => Message.cmd \in Own(client)
        /\ Message.cmd \in {"play", "publish"} => Announced /\ AskedStream
        /\ Message.tid \in Nat
    BY <1>1, Received DEF Messages
  <1>3. client \in Kinds
    BY DEF SessionInv, SessionTypes
  <1>4. client = "fmle" => Message.cmd # "createStream"
    <2>1. Message = toServer[1] /\ 1 \in 1 .. Len(toServer)
      BY <1>1 DEF SessionInv, SessionTypes, Message
    <2>2. ~ \E j \in 1 .. 1 - 1 : toServer[j].cmd = "releaseStream"
      OBVIOUS
    <2> QED BY <1>1, <2>1, <2>2 DEF SessionInv, FmleAhead, Early
  <1>5. \/ UNCHANGED <<spc, todo, clientType>> /\ DecodePacket(Message) # "FMLEStart"
        \/ spc' = "failed" /\ UNCHANGED <<todo, clientType>>
        \/ /\ DecodePacket(Message) = "CreateStream" /\ UNCHANGED clientType
           /\ spc' = "identify_create_stream_client" /\ todo' = <<CreateStreamRes(Message.tid)>>
        \/ /\ DecodePacket(Message) = "FMLEStart" /\ clientType' = "FMLEPublish"
           /\ spc' = "Start" /\ todo' = <<FMLEStartRes(Message.tid)>>
        \/ /\ DecodePacket(Message) = "Play" /\ clientType' = "Play"
           /\ spc' = "Start" /\ UNCHANGED todo
    BY DEF IdentifyClient, Identified, ReturnsError, IsCommand, DecodePacket
  <1>6. CASE UNCHANGED <<spc, todo, clientType>> /\ DecodePacket(Message) # "FMLEStart"
    <2>1. Message.cmd # "releaseStream"
      BY <1>6, Decoding
    <2>2. Handled
      BY <1>1, <1>6, <2>1
         DEF Handled, LateResponse, SessionInv, IdentifiedRight, Early, Connecting
    <2> QED BY <1>1, <2>2, ReceiveStep
  <1>7. CASE spc' = "failed" /\ UNCHANGED <<todo, clientType>>
    <2>1. Handled
      BY <1>1, <1>7 DEF Handled, LateResponse, SessionInv, IdentifiedRight, Early, Connecting
    <2> QED BY <1>1, <2>1, ReceiveStep
  <1>8. CASE /\ DecodePacket(Message) = "CreateStream" /\ UNCHANGED clientType
             /\ spc' = "identify_create_stream_client"
             /\ todo' = <<CreateStreamRes(Message.tid)>>
    <2>1. Message.cmd = "createStream"
      BY <1>8, Decoding
    <2>2. client \in {"player", "flash"}
      BY <1>2, <1>3, <1>4, <2>1 DEF Requests, Own, Kinds
    <2>3. OnlyResponses
      BY <1>2, <1>8, Responses DEF OnlyResponses
    <2>4. Handled
      BY <1>8, <2>2, <2>3
         DEF Handled, LateResponse, OnlyResponses, SessionInv, IdentifiedRight, Early, Connecting
    <2> QED BY <1>1, <2>4, ReceiveStep
  <1>9. CASE /\ DecodePacket(Message) = "FMLEStart" /\ clientType' = "FMLEPublish"
             /\ spc' = "Start" /\ todo' = <<FMLEStartRes(Message.tid)>>
    <2>1. Message.cmd \in {"releaseStream", "FCPublish", "FCUnpublish"}
      BY <1>9, Decoding
    <2>2. client = "fmle"
      BY <1>2, <1>3, <2>1 DEF Requests, Own, Kinds
    <2>3. OnlyResponses
      BY <1>2, <1>9, Responses DEF OnlyResponses
    <2>4. Handled
      BY <1>9, <2>2, <2>3 DEF Handled, LateResponse, OnlyResponses, ClientTypeOf, Early, Connecting
    <2> QED BY <1>1, <2>4, ReceiveStep
  <1>10. CASE /\ DecodePacket(Message) = "Play" /\ clientType' = "Play"
              /\ spc' = "Start" /\ UNCHANGED todo
    <2>1. Message.cmd = "play"
      BY <1>10, Decoding
    <2>2. client \in {"player", "direct"}
      BY <1>2, <1>3, <2>1 DEF Requests, Own, Kinds
    <2>3. Handled
      <3>1. LateResponse /\ spc' = "Start" /\ clientType' = ClientTypeOf[client]
        BY <1>1, <1>10, <2>2, NoResponse DEF ClientTypeOf
      <3>2. spc' \notin Early
        BY <3>1 DEF Early, Connecting
      <3>3. Announced /\ AskedStream
        BY <1>2, <2>1
      <3> QED BY <3>1, <3>2, <3>3 DEF Handled, Early
    <2> QED BY <1>1, <2>3, ReceiveStep
  <1> QED BY <1>5, <1>6, <1>7, <1>8, <1>9, <1>10

\* The second loop sees only players and Flash publishers, and play and publish tell
\* them apart.
LEMMA identify_create_stream_clientStep ==
    SessionInv /\ identify_create_stream_client => SessionInv'
  <1> SUFFICES ASSUME SessionInv, identify_create_stream_client PROVE SessionInv'
    OBVIOUS
  <1>1. /\ toServer # <<>> /\ toServer' = Tail(toServer) /\ UNCHANGED <<clientVars, answers>>
        /\ spc = "identify_create_stream_client" /\ todo = <<>>
    BY DEF identify_create_stream_client, Receive
  <1>2. /\ Message.cmd \in Requests => Message.cmd \in Own(client)
        /\ Message.cmd \in {"play", "publish"} => Announced /\ AskedStream
    BY <1>1, Received
  <1>3. client \in {"player", "flash"}
    BY <1>1 DEF SessionInv, CreateStreamClients
  <1>4. \/ UNCHANGED <<spc, todo, clientType>>
        \/ spc' = "failed" /\ UNCHANGED <<todo, clientType>>
        \/ /\ DecodePacket(Message) = "Play" /\ clientType' = "Play"
           /\ spc' = "Start" /\ UNCHANGED todo
        \/ /\ DecodePacket(Message) = "Publish" /\ clientType' = "FlashPublish"
           /\ spc' = "Start" /\ UNCHANGED todo
    BY DEF identify_create_stream_client, Identified, ReturnsError, IsCommand, DecodePacket
  <1>5. CASE \/ UNCHANGED <<spc, todo, clientType>>
             \/ spc' = "failed" /\ UNCHANGED <<todo, clientType>>
    <2>1. Handled
      <3>1. /\ LateResponse /\ clientType' = clientType
            /\ spc' \in {"identify_create_stream_client", "failed"}
        BY <1>1, <1>5, NoResponse
      <3>2. spc' \notin Connecting /\ spc' # "Start"
        BY <3>1 DEF Connecting
      <3> QED BY <1>3, <3>1, <3>2 DEF Handled, SessionInv, IdentifiedRight
    <2> QED BY <1>1, <2>1, ReceiveStep
  <1>6. CASE /\ DecodePacket(Message) = "Play" /\ clientType' = "Play"
             /\ spc' = "Start" /\ UNCHANGED todo
    <2>1. Message.cmd = "play"
      BY <1>6, Decoding
    <2>2. client = "player"
      BY <1>2, <1>3, <2>1 DEF Requests, Own
    <2>3. Handled
      <3>1. LateResponse /\ spc' = "Start" /\ clientType' = ClientTypeOf[client]
        BY <1>1, <1>6, <2>2, NoResponse DEF ClientTypeOf
      <3>2. spc' \notin Early
        BY <3>1 DEF Early, Connecting
      <3>3. Announced /\ AskedStream
        BY <1>2, <2>1
      <3> QED BY <3>1, <3>2, <3>3 DEF Handled, Early
    <2> QED BY <1>1, <2>3, ReceiveStep
  <1>7. CASE /\ DecodePacket(Message) = "Publish" /\ clientType' = "FlashPublish"
             /\ spc' = "Start" /\ UNCHANGED todo
    <2>1. Message.cmd = "publish"
      BY <1>7, Decoding
    <2>2. client = "flash"
      BY <1>2, <1>3, <2>1 DEF Requests, Own
    <2>3. Handled
      <3>1. LateResponse /\ spc' = "Start" /\ clientType' = ClientTypeOf[client]
        BY <1>1, <1>7, <2>2, NoResponse DEF ClientTypeOf
      <3>2. spc' \notin Early
        BY <3>1 DEF Early, Connecting
      <3>3. Announced /\ AskedStream
        BY <1>2, <2>1
      <3> QED BY <3>1, <3>2, <3>3 DEF Handled, Early
    <2> QED BY <1>1, <2>3, ReceiveStep
  <1> QED BY <1>4, <1>5, <1>6, <1>7

\* An operation that sends nothing, a response, or two packets on the stream.
LEMMA FewResponses ==
    ASSUME NEW p \in Packets, NEW q \in Packets,
           \/ todo' = <<>>
           \/ todo' = <<p>> /\ p.sid = 0
           \/ todo' = <<p, q>> /\ Announced /\ AskedStream,
           p.cmd # "connectRes", q.cmd # "connectRes",
           p.cmd = "createStreamRes" => p.value = StreamId,
           q.cmd = "createStreamRes" => q.value = StreamId
    PROVE  LateResponse
  <1>1. CASE todo' = <<>>
    BY <1>1 DEF LateResponse
  <1>2. CASE todo' = <<p>> /\ p.sid = 0
    <2>1. todo' \in Seq(Packets) /\ Len(todo') = 1 /\ todo'[1] = p
      BY <1>2
    <2> QED BY <1>2, <2>1 DEF LateResponse
  <1>3. CASE todo' = <<p, q>> /\ Announced /\ AskedStream
    <2>1. todo' \in Seq(Packets) /\ Len(todo') = 2 /\ todo'[1] = p /\ todo'[2] = q
      BY <1>3
    <2>2. \A i \in 1 .. 2 : i = 1 \/ i = 2
      OBVIOUS
    <2> QED BY <1>3, <2>1, <2>2 DEF LateResponse
  <1> QED BY <1>1, <1>2, <1>3

\* A round of ExpectPacket in an operation after IdentifyClient: it drops the message, fails,
\* or goes on with its response.
LEMMA LateStep ==
    ASSUME SessionInv, toServer # <<>>, toServer' = Tail(toServer),
           UNCHANGED <<clientVars, answers, clientType>>,
           spc' \notin Early, spc' = "Start" => spc = "Start", LateResponse
    PROVE  SessionInv'
  <1>1. Handled
    BY DEF Handled, SessionInv, IdentifiedRight, AskedAfterTold, Early
  <1> QED BY <1>1, ReceiveStep

\* FCPublish is answered.
LEMMA FMLE_FCPublishStep == SessionInv /\ FMLE_FCPublish => SessionInv'
  <1> SUFFICES ASSUME SessionInv, FMLE_FCPublish PROVE SessionInv'
    OBVIOUS
  <1>1. /\ toServer # <<>> /\ toServer' = Tail(toServer) /\ todo = <<>> /\ spc = "Start"
        /\ UNCHANGED <<clientVars, answers, clientType>>
    BY DEF FMLE_FCPublish, ExpectPacket, Receive
  <1>2. \/ spc' \in {"Start", "failed", "panicked"} /\ todo' = <<>>
        \/ spc' = "FMLE_createStream" /\ todo' = <<FMLEStartRes(Message.tid)>>
    BY <1>1 DEF FMLE_FCPublish, ExpectPacket
  <1>3. Message.tid \in Nat
    BY <1>1, Received DEF Messages
  <1>4. LateResponse
    <2> DEFINE p == FMLEStartRes(Message.tid)
    <2>1. /\ p \in Packets /\ p.cmd # "connectRes" /\ p.sid = 0
          /\ p.cmd = "createStreamRes" => p.value = StreamId
      BY <1>3, Responses
    <2>2. todo' = <<>> \/ todo' = <<p>>
      BY <1>2
    <2> HIDE DEF p
    <2> QED BY <2>1, <2>2, FewResponses
  <1>5. spc' \notin Early
    BY <1>2 DEF Early, Connecting
  <1> QED BY <1>1, <1>4, <1>5, LateStep

\* createStream is answered with the stream id.
LEMMA FMLE_createStreamStep == SessionInv /\ FMLE_createStream => SessionInv'
  <1> SUFFICES ASSUME SessionInv, FMLE_createStream PROVE SessionInv'
    OBVIOUS
  <1>1. /\ toServer # <<>> /\ toServer' = Tail(toServer) /\ todo = <<>>
        /\ spc = "FMLE_createStream"
        /\ UNCHANGED <<clientVars, answers, clientType>>
    BY DEF FMLE_createStream, ExpectPacket, Receive
  <1>2. \/ spc' \in {"FMLE_createStream", "failed", "panicked"} /\ todo' = <<>>
        \/ spc' = "FMLE_publish" /\ todo' = <<CreateStreamRes(Message.tid)>>
    BY <1>1 DEF FMLE_createStream, ExpectPacket
  <1>3. Message.tid \in Nat
    BY <1>1, Received DEF Messages
  <1>4. LateResponse
    <2> DEFINE p == CreateStreamRes(Message.tid)
    <2>1. /\ p \in Packets /\ p.cmd # "connectRes" /\ p.sid = 0
          /\ p.cmd = "createStreamRes" => p.value = StreamId
      BY <1>3, Responses
    <2>2. todo' = <<>> \/ todo' = <<p>>
      BY <1>2
    <2> HIDE DEF p
    <2> QED BY <2>1, <2>2, FewResponses
  <1>5. spc' \notin Early /\ spc' # "Start"
    BY <1>2 DEF Early, Connecting
  <1> QED BY <1>1, <1>4, <1>5, LateStep

\* Packets on the stream are packets.
LEMMA Statuses ==
    ASSUME NEW cmd \in Names, NEW sid \in {0, StreamId}
    PROVE  /\ Status(cmd, sid) \in Packets
           /\ Status(cmd, sid).cmd = cmd /\ Status(cmd, sid).sid = sid
  BY DEF Status, Packet, Packets

\* The publish of an FMLE publisher comes after it was told the stream id.
LEMMA FMLE_publishStep == SessionInv /\ FMLE_publish => SessionInv'
  <1> SUFFICES ASSUME SessionInv, FMLE_publish PROVE SessionInv'
    OBVIOUS
  <1> DEFINE p == Status("onFCPublish", StreamId)
             q == Status("publishStart", StreamId)
  <1>1. /\ toServer # <<>> /\ toServer' = Tail(toServer) /\ todo = <<>>
        /\ spc = "FMLE_publish"
        /\ UNCHANGED <<clientVars, answers, clientType>>
    BY DEF FMLE_publish, ExpectPacket, Receive
  <1>2. \/ spc' \in {"FMLE_publish", "failed", "panicked"} /\ todo' = <<>>
        \/ spc' = "streaming" /\ todo' = <<p, q>> /\ DecodePacket(Message) = "Publish"
    BY <1>1 DEF FMLE_publish, ExpectPacket
  <1>3. DecodePacket(Message) = "Publish" => Announced /\ AskedStream
    BY <1>1, Received, Decoding
  <1>4. /\ p \in Packets /\ p.cmd = "onFCPublish"
        /\ q \in Packets /\ q.cmd = "publishStart"
    BY Statuses DEF Names
  <1> HIDE DEF p, q
  <1>5. LateResponse
    BY <1>2, <1>3, <1>4, FewResponses
  <1>6. spc' \notin Early /\ spc' # "Start"
    BY <1>2 DEF Early, Connecting
  <1> QED BY <1>1, <1>5, <1>6, LateStep

\* The client that connects has not got beyond its connect.
LEMMA ConnectAppStep == SessionInv /\ ConnectApp => SessionInv'
  <1> SUFFICES ASSUME SessionInv, ConnectApp PROVE SessionInv'
    OBVIOUS
  <1>1. /\ toServer # <<>> /\ toServer' = Tail(toServer) /\ todo = <<>> /\ spc = "ConnectApp"
        /\ UNCHANGED <<clientVars, answers, clientType>>
    BY DEF ConnectApp, ExpectPacket, Receive
  <1>2. spc' \in {"ConnectApp", "SetWindowAckSize", "failed", "panicked"} /\ todo' = <<>>
    BY <1>1 DEF ConnectApp, ExpectPacket
  <1>3. step <= 3
    BY <1>1 DEF SessionInv, SessionTypes, ConnectAnswered, Connecting
  <1>4. Handled
    BY <1>1, <1>2, <1>3
       DEF Handled, LateResponse, SessionInv, IdentifiedRight, Early, Connecting
  <1> QED BY <1>1, <1>4, ReceiveStep

\* What an operation that only sends may do.
Prepared ==
    /\ todo' \in Seq(Packets)
    /\ \A i \in 1 .. Len(todo') : /\ todo'[i].cmd # "createStreamRes"
                                  /\ todo'[i].sid # 0 => Announced /\ AskedStream
                                  /\ spc' \in Connecting => todo'[i].cmd # "connectRes"
    /\ spc' \in Connecting => spc \in Connecting
    /\ spc' \in Early => spc \in Early
    /\ spc' \notin {"Start", "identify_create_stream_client"}

\* Sending changes only what is still to send.
LEMMA SendsStep ==
    ASSUME SessionInv, UNCHANGED <<clientVars, toServer, answers, clientType>>, Prepared
    PROVE  SessionInv'
  <1>1. UNCHANGED <<client, step, asked, heard, answers, toServer, clientType>>
    BY DEF clientVars
  <1>2. SessionTypes'
    BY <1>1 DEF SessionInv, SessionTypes, Script, Prepared
  <1>3. ConnectAnswered'
    <2>1. spc' \in Connecting => ~ Sent("connectRes")' /\ ~ ToSend("connectRes")'
      BY <1>1 DEF SessionInv, ConnectAnswered, Sent, ToSend, Prepared
    <2>2. step' > 2 => Sent("connectRes")'
      BY <1>1 DEF SessionInv, ConnectAnswered, Sent
    <2> QED BY <2>1, <2>2 DEF ConnectAnswered
  <1>4. OwnRequests' /\ IdentifiedRight'
    BY <1>1 DEF SessionInv, OwnRequests, IdentifiedRight
  <1>5. ResponsesRight' /\ CreateStreamClients'
    BY <1>1 DEF SessionInv, ResponsesRight, CreateStreamClients, Prepared
  <1>6. \A cmd : OnTheWay(cmd)' <=> OnTheWay(cmd)
    BY <1>1 DEF OnTheWay
  <1>7. AskedAfterTold'
    <2>1. /\ (Announced' <=> Announced) /\ (AskedStream' <=> AskedStream)
          /\ Told(client)' = Told(client)
      BY <1>1 DEF Announced, AskedStream, Told
    <2> QED BY <1>1, <1>6, <2>1 DEF SessionInv, AskedAfterTold, Prepared
  <1>8. FmleAhead'
    BY <1>1, <1>6 DEF SessionInv, FmleAhead, Prepared
  <1>9. KnownStream'
    BY <1>1 DEF SessionInv, KnownStream, AskedStream
  <1> QED BY <1>2, <1>3, <1>4, <1>5, <1>7, <1>8, <1>9 DEF SessionInv

\* The operations around the answer to connect send one packet each, on no stream.
LEMMA ConnectingStep ==
    ASSUME SessionInv,
           SetWindowAckSize \/ SetPeerBandwidth \/ ReponseConnectApp \/ CallOnBWDone \/ Ping
    PROVE  SessionInv'
  <1>1. PICK p \in {Status("windowAckSize", 0), Status("peerBandwidth", 0), ConnectAppRes,
                    Status("onBWDone", 0), Status("ping", 0)} :
           /\ UNCHANGED <<clientVars, toServer, answers, clientType>> /\ todo' = <<p>>
           /\ \/ spc = "SetWindowAckSize" /\ spc' = "SetPeerBandwidth"
                   /\ p = Status("windowAckSize", 0)
              \/ spc = "SetPeerBandwidth" /\ spc' = "ReponseConnectApp"
                   /\ p = Status("peerBandwidth", 0)
              \/ spc = "ReponseConnectApp" /\ spc' = "CallOnBWDone"
              \/ spc = "CallOnBWDone" /\ spc' = "IdentifyClient"
              \/ spc = "streaming" /\ spc' = "streaming"
    BY DEF SetWindowAckSize, SetPeerBandwidth, ReponseConnectApp, CallOnBWDone, Ping, Sends
  <1>2. /\ p \in Packets /\ p.sid = 0 /\ p.cmd # "createStreamRes"
        /\ p \in {Status("windowAckSize", 0), Status("peerBandwidth", 0)} =>
              p.cmd # "connectRes"
    BY DEF Status, ConnectAppRes, Packet, Packets, Names
  <1>3. todo' \in Seq(Packets) /\ \A i \in 1 .. Len(todo') : todo'[i] = p
    BY <1>1, <1>2
  <1>4. /\ spc' \in Connecting => spc \in Connecting /\ p.cmd # "connectRes"
        /\ spc' \in Early => spc \in Early
        /\ spc' \notin {"Start", "identify_create_stream_client"}
    BY <1>1, <1>2 DEF Early, Connecting
  <1>5. Prepared
    BY <1>2, <1>3, <1>4 DEF Prepared
  <1> QED BY <1>1, <1>5, SendsStep

\* To start a player or a Flash publisher, the client must have asked for it.
LEMMA StartStep == SessionInv /\ (StartPlay \/ StartFlashPublish) => SessionInv'
  <1> SUFFICES ASSUME SessionInv, StartPlay \/ StartFlashPublish PROVE SessionInv'
    OBVIOUS
  <1> DEFINE a == Status("streamBegin", 0)
             b == Status("playReset", StreamId)
             c == Status("playStart", StreamId)
             d == Status("sampleAccess", StreamId)
             e == Status("dataStart", StreamId)
             f == Status("publishStart", StreamId)
  <1>1. /\ UNCHANGED <<clientVars, toServer, answers, clientType>>
        /\ todo' = <<a, b, c, d, e>> \/ todo' = <<f>>
        /\ spc = "Start" /\ spc' = "streaming" /\ clientType \in {"Play", "FlashPublish"}
    BY DEF StartPlay, StartFlashPublish, Sends
  <1>2. Announced /\ AskedStream
    BY <1>1 DEF SessionInv, AskedAfterTold
  <1>3. \A p \in {a, b, c, d, e, f} : p \in Packets /\ p.cmd # "createStreamRes"
    BY DEF Status, Packet, Packets, Names
  <1> HIDE DEF a, b, c, d, e, f
  <1>4. todo' \in Seq(Packets)
    <2>1. CASE todo' = <<f>>
      BY <1>3, <2>1
    <2>2. CASE todo' = <<a, b, c, d, e>>
      <3>1. a \in Packets /\ b \in Packets /\ c \in Packets /\ d \in Packets /\ e \in Packets
        BY <1>3
      <3>2. <<a, b, c, d, e>> \in Seq(Packets)
        BY <3>1
      <3> QED BY <2>2, <3>2
    <2> QED BY <1>1, <2>1, <2>2
  <1>5. \A i \in 1 .. Len(todo') : todo'[i] \in {a, b, c, d, e, f}
    BY <1>1
  <1>6. Prepared
    BY <1>1, <1>2, <1>3, <1>4, <1>5 DEF Prepared, Early, Connecting
  <1> QED BY <1>1, <1>6, SendsStep

-----------------------------------------------------------------------------

\* Every step keeps SessionInv.
LEMMA NextSession == SessionInv /\ [Next]_vars => SessionInv'
  <1> SUFFICES ASSUME SessionInv, [Next]_vars PROVE SessionInv'
    OBVIOUS
  <1>1. CASE ClientSend \/ ClientReceive \/ ClientNoise
    BY <1>1, ClientSendStep, ClientReceiveStep, ClientNoiseStep
  <1>2. CASE SendPacket \/ ConnectApp \/ IdentifyClient \/ identify_create_stream_client
    BY <1>2, SendPacketStep, ConnectAppStep, IdentifyClientStep,
       identify_create_stream_clientStep
  <1>3. CASE SetWindowAckSize \/ SetPeerBandwidth \/ ReponseConnectApp \/ CallOnBWDone \/ Ping
    BY <1>3, ConnectingStep
  <1>4. CASE StartPlay \/ StartFlashPublish
    BY <1>4, StartStep
  <1>5. CASE FMLE_FCPublish \/ FMLE_createStream \/ FMLE_publish
    BY <1>5, FMLE_FCPublishStep, FMLE_createStreamStep, FMLE_publishStep
  <1>6. CASE UNCHANGED vars
    <2>1. UNCHANGED <<client, step, asked, heard, toServer, spc, todo, answers, clientType>>
      BY <1>6 DEF vars, clientVars, serverVars
    <2>2. SessionTypes'
      BY <2>1 DEF SessionInv, SessionTypes, Script
    <2>3. ConnectAnswered' /\ OwnRequests' /\ ResponsesRight'
      BY <2>1 DEF SessionInv, ConnectAnswered, OwnRequests, ResponsesRight, Sent, ToSend
    <2>4. AskedAfterTold'
      BY <2>1 DEF SessionInv, AskedAfterTold, OnTheWay, Announced, AskedStream, Told
    <2>5. FmleAhead' /\ CreateStreamClients' /\ IdentifiedRight'
      BY <2>1 DEF SessionInv, FmleAhead, OnTheWay, CreateStreamClients, IdentifiedRight
    <2>6. KnownStream'
      BY <2>1 DEF SessionInv, KnownStream, AskedStream
    <2> QED BY <2>2, <2>3, <2>4, <2>5, <2>6 DEF SessionInv
  <1> QED BY <1>1, <1>2, <1>3, <1>4, <1>5, <1>6 DEF Next, ServerStep, ClientStep

\* SessionInv is an invariant of every session.
THEOREM SessionInvariant == Spec => []SessionInv
  BY InitSession, NextSession, PTL DEF Spec

\* IdentifyClient and identify_create_stream_client tell players, Flash and FMLE
\* publishers apart, however far a client runs ahead and whatever it sends in between.
THEOREM ClientsIdentified == Spec => []IdentifiedRight
  <1>1. SessionInv => IdentifiedRight
    BY DEF SessionInv
  <1> QED BY <1>1, SessionInvariant, PTL

\* No packet of StartPlay, StartFlashPublish or StartFMLEPublish goes out on a stream
\* before the client has asked to play or publish and, if it asked for a stream, before it
\* was sent its id; a client that never asks for one is not told, and is not claimed to be.
THEOREM StreamsAnnounced == Spec => []StreamAnnounced
  <1>1. SessionInv => StreamAnnounced
    <2> SUFFICES ASSUME SessionInv PROVE StreamAnnounced
      OBVIOUS
    <2>1. DOMAIN answers = 1 .. Len(answers) /\ DOMAIN asked = 1 .. Len(asked)
      BY DEF SessionInv, SessionTypes
    <2>2. AskedStream => HasSent("play") \/ HasSent("publish")
      BY <2>1 DEF AskedStream, HasSent
    <2>3. HasSent("createStream") => AsksForStream(client)
      <3>1. HasSent("createStream") => "createStream" \in Own(client)
        BY <2>1 DEF HasSent, SessionInv, OwnRequests, Requests
      <3> QED BY <3>1 DEF Own, AsksForStream
    <2> QED BY <2>1, <2>2, <2>3 DEF SessionInv, KnownStream, StreamAnnounced
  <1> QED BY <1>1, SessionInvariant, PTL
=============================================================================
