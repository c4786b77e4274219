------------------------------ MODULE Session ------------------------------
(***************************************************************************)
(* The server side of an RTMP session (rtmp.go) on top of the protocol     *)
(* stack: connect, identification of the client, start of playing or       *)
(* publishing.  Messages travel in order in both directions; how they get  *)
(* there is the matter of the other modules.  The program that calls the   *)
(* operations, in the order in which the Server interface lists them, and  *)
(* the clients are not part of the repository.                             *)
(***************************************************************************)
EXTENDS TcUrl

CONSTANTS
    Clients,      \* kinds of client, out of those below
    Noise,        \* messages a client may send in between
    MaxNoise,     \* bound: how many of them
    StreamId,     \* the stream id the program gives to the client
    PlainUrl,     \* the tcUrl of most clients
    TcUrls        \* those of visitors; each says what it means

\* The commands that some operation waits for.
Requests ==
    {"connect", "createStream", "play", "publish", "releaseStream", "FCPublish", "FCUnpublish"}

ASSUME SessionAssumption ==
    /\ Clients \subseteq {"player", "direct", "flash", "fmle", "visitor"}
    /\ Noise \cap Requests = {}
    /\ MaxNoise \in Nat
    /\ StreamId \in Nat \ {0}
    /\ PlainUrl.given

VARIABLES
    client,       \* kind of this client
    tcUrl,        \* its tcUrl, if given in the connect
    step,         \* how far it is in its script
    noise,        \* how many other messages it has sent
    toServer,     \* messages the server has not received yet
    asked,        \* all messages the client sent
    spc,          \* the operation the server is in
    todo,         \* packets this operation still has to send
    answers,      \* all packets the server sent
    heard,        \* how many of them the client has seen
    request,      \* the Request that ConnectApp fills
    clientType    \* result of IdentifyClient

clientVars == <<client, tcUrl, step, noise, asked, heard>>
serverVars == <<spc, todo, answers, request, clientType>>
vars == <<clientVars, toServer, serverVars>>

-----------------------------------------------------------------------------
(* Packets *)

Command(cmd, tid) == [cmd |-> cmd, tid |-> tid]

\* A packet of the server: transaction answered, stream it is sent on, stream id inside.
Packet(cmd, tid, sid, value) == [value |-> value, cmd |-> cmd, tid |-> tid, sid |-> sid]
Status(cmd, sid) == Packet(cmd, 0, sid, 0)

\* IsAmf0Command or IsAmf3Command.
IsCommand(m) == m.cmd \notin {"control", "data", "amf3data"}

\* Mutant: an unknown command is an error.
DecodePacket_UnknownFails(m) ==
    CASE m.cmd = "connect" -> "ConnectApp"
      [] m.cmd = "createStream" -> "CreateStream"
      [] m.cmd = "play" -> "Play"
      [] m.cmd = "publish" -> "Publish"
      [] m.cmd = "closeStream" -> "CloseStream"
      [] m.cmd \in {"releaseStream", "FCPublish", "FCUnpublish"} -> "FMLEStart"
      [] m.cmd = "control" -> "Control"
      [] OTHER -> "error"

\* Messages that DecodePacket fails on: _result and _error, for which HistoryRequestName
\* finds no request; a known command with fields missing or of another type; AMF3 data,
\* where it reads the name at the byte that it skips in an AMF3 command.
Undecodable == {"result", "malformed", "amf3data"}

\* DecodePacket: the type of packet a message decodes to, "nil" for commands it does not
\* know, AMF0 data, audio and video.
DecodePacket(m) ==
    CASE m.cmd = "connect" -> "ConnectApp"
      [] m.cmd = "createStream" -> "CreateStream"
      [] m.cmd = "play" -> "Play"
      [] m.cmd = "publish" -> "Publish"
      [] m.cmd = "closeStream" -> "CloseStream"
      [] m.cmd \in {"releaseStream", "FCPublish", "FCUnpublish"} -> "FMLEStart"
      [] m.cmd = "control" -> "Control"
      [] m.cmd \in Undecodable -> "error"
      [] OTHER -> "nil"

ConnectAppRes == Packet("connectRes", 1, 0, 0)

\* Mutant: the two arguments are swapped.
CreateStreamRes_Swapped(tid) == Packet("createStreamRes", StreamId, 0, tid)

CreateStreamRes(tid) == Packet("createStreamRes", tid, 0, StreamId)

\* Mutant: the transaction id keeps a default.
FMLEStartRes_Default(tid) == Packet("fmleStartRes", 1, 0, 0)

FMLEStartRes(tid) == Packet("fmleStartRes", tid, 0, 0)

-----------------------------------------------------------------------------
(* The clients *)

Send(cmd, tid) == [do |-> "send", cmd |-> cmd, tid |-> tid]
Wait(cmd) == [do |-> "wait", cmd |-> cmd, tid |-> 0]

\* What each kind of client does; FMLE does not wait between releaseStream, FCPublish
\* and createStream, and a direct player plays without asking for a stream.
Scripts ==
    [ player |-> <<Send("connect", 1), Wait("connectRes"), Send("createStream", 2),
                   Wait("createStreamRes"), Send("play", 0), Wait("playStart"),
                   Wait("dataStart")>>,
      direct |-> <<Send("connect", 1), Wait("connectRes"), Send("play", 0),
                   Wait("playStart"), Wait("dataStart")>>,
      flash  |-> <<Send("connect", 1), Wait("connectRes"), Send("createStream", 2),
                   Wait("createStreamRes"), Send("publish", 0), Wait("publishStart")>>,
      fmle   |-> <<Send("connect", 1), Wait("connectRes"), Send("releaseStream", 2),
                   Send("FCPublish", 3), Send("createStream", 4), Wait("createStreamRes"),
                   Send("publish", 5), Wait("onFCPublish"), Wait("publishStart")>>,
      visitor |-> <<Send("connect", 1), Wait("connectRes")>> ]

ClientTypeOf ==
    [player |-> "Play", direct |-> "Play", flash |-> "FlashPublish", fmle |-> "FMLEPublish",
     visitor |-> "none"]

Script == Scripts[client]
Finished == step > Len(Script)

ClientSend ==
    /\ ~ Finished /\ Script[step].do = "send"
    /\ LET m == Command(Script[step].cmd, Script[step].tid)
       IN toServer' = Append(toServer, m) /\ asked' = Append(asked, m)
    /\ step' = step + 1
    /\ UNCHANGED <<client, tcUrl, noise, heard, serverVars>>

\* Pings, acknowledgements, media, unknown commands, ... after the connect.  Visitors only
\* connect.
ClientNoise ==
    /\ noise < MaxNoise /\ step > 1 /\ client # "visitor"
    /\ \E cmd \in Noise : /\ toServer' = Append(toServer, Command(cmd, 0))
                           /\ asked' = Append(asked, Command(cmd, 0))
    /\ noise' = noise + 1
    /\ UNCHANGED <<client, tcUrl, step, heard, serverVars>>

\* The client sees the next packet; it may be the one it waits for.
ClientReceive ==
    /\ heard < Len(answers)
    /\ heard' = heard + 1
    /\ step' = IF ~ Finished /\ Script[step] = Wait(answers[heard + 1].cmd) THEN step + 1
               ELSE step
    /\ UNCHANGED <<client, tcUrl, noise, asked, toServer, serverVars>>

-----------------------------------------------------------------------------
(* The server *)

\* SendPacket: the operation sends its next packet.
SendPacket ==
    /\ todo # <<>>
    /\ answers' = Append(answers, Head(todo))
    /\ todo' = Tail(todo)
    /\ UNCHANGED <<clientVars, toServer, spc, request, clientType>>

\* The server is in this operation and receives the next message.
Receive(op) ==
    /\ spc = op /\ todo = <<>>
    /\ toServer # <<>>
    /\ toServer' = Tail(toServer)

Message == Head(toServer)

ReturnsError == spc' = "failed" /\ UNCHANGED <<todo, clientType>>

\* reflect's ConvertibleTo between pointers to packets: the structs have the same fields.
\* CloseStreamPacket and CreateStreamPacket do; all other decoded packets differ.
ConvertibleTo(packet, type) ==
    packet = type \/ {packet, type} = {"CloseStream", "CreateStream"}

\* One round of the loop of ExpectPacket: packets of other types are dropped, a message
\* that cannot be decoded ends it.  Value.Set panics on a packet that is convertible but
\* not of the type.
ExpectPacket(op, type, next, response) ==
    /\ Receive(op)
    /\ LET packet == DecodePacket(Message)
       IN CASE packet = "error" -> spc' = "failed" /\ UNCHANGED todo
            [] packet = type -> spc' = next /\ todo' = response
            [] packet # type /\ ConvertibleTo(packet, type) ->
                  spc' = "panicked" /\ UNCHANGED todo
            [] OTHER -> UNCHANGED <<spc, todo>>
    /\ UNCHANGED <<clientVars, answers, clientType>>

\* What discovery_app makes of each tcUrl.
Discoveries == [u \in TcUrls \cup {PlainUrl} |-> discovery_app(u)]

\* ConnectApp fails without a tcUrl, and with one in which discovery_app misses a part.
\* pageUrl, swfUrl and objectEncoding are only stored.
ConnectApp ==
    \E r \in IF tcUrl.given THEN Discoveries[tcUrl] ELSE {request} :
        /\ ExpectPacket("ConnectApp", "ConnectApp",
                        IF tcUrl.given /\ Discovered(r) THEN "SetWindowAckSize" ELSE "failed",
                        <<>>)
        /\ request' = IF DecodePacket(Message) = "ConnectApp" THEN r ELSE request

\* An operation that only sends.
Sends(op, packets, next) ==
    /\ spc = op /\ todo = <<>>
    /\ todo' = packets
    /\ spc' = next
    /\ UNCHANGED <<clientVars, toServer, answers, request, clientType>>

SetWindowAckSize ==
    Sends("SetWindowAckSize", <<Status("windowAckSize", 0)>>, "SetPeerBandwidth")
SetPeerBandwidth ==
    Sends("SetPeerBandwidth", <<Status("peerBandwidth", 0)>>, "ReponseConnectApp")
ReponseConnectApp ==
    Sends("ReponseConnectApp", <<ConnectAppRes>>, "CallOnBWDone")
CallOnBWDone ==
    Sends("CallOnBWDone", <<Status("onBWDone", 0)>>, "IdentifyClient")

Identified(type) == clientType' = type /\ spc' = "Start"

\* One round of the loop of IdentifyClient.
IdentifyClient ==
    /\ Receive("IdentifyClient")
    /\ CASE ~ IsCommand(Message) -> UNCHANGED <<spc, todo, clientType>>
         [] DecodePacket(Message) = "error" -> ReturnsError
         [] DecodePacket(Message) = "CreateStream" ->
               /\ todo' = <<CreateStreamRes(Message.tid)>>
               /\ spc' = "identify_create_stream_client"
               /\ UNCHANGED clientType
         [] DecodePacket(Message) = "FMLEStart" ->
               Identified("FMLEPublish") /\ todo' = <<FMLEStartRes(Message.tid)>>
         [] DecodePacket(Message) = "Play" -> Identified("Play") /\ UNCHANGED todo
         [] OTHER -> UNCHANGED <<spc, todo, clientType>>
    /\ UNCHANGED <<clientVars, answers, request>>

\* Mutant: a publisher is taken for one of the other kind.
identify_create_stream_client_Fmle ==
    /\ Receive("identify_create_stream_client")
    /\ CASE ~ IsCommand(Message) -> UNCHANGED <<spc, todo, clientType>>
         [] DecodePacket(Message) = "error" -> ReturnsError
         [] DecodePacket(Message) = "Play" -> Identified("Play") /\ UNCHANGED todo
         [] DecodePacket(Message) = "Publish" -> Identified("FMLEPublish") /\ UNCHANGED todo
         [] OTHER -> UNCHANGED <<spc, todo, clientType>>
    /\ UNCHANGED <<clientVars, answers, request>>

\* One round of its loop.
identify_create_stream_client ==
    /\ Receive("identify_create_stream_client")
    /\ CASE ~ IsCommand(Message) -> UNCHANGED <<spc, todo, clientType>>
         [] DecodePacket(Message) = "error" -> ReturnsError
         [] DecodePacket(Message) = "Play" -> Identified("Play") /\ UNCHANGED todo
         [] DecodePacket(Message) = "Publish" -> Identified("FlashPublish") /\ UNCHANGED todo
         [] OTHER -> UNCHANGED <<spc, todo, clientType>>
    /\ UNCHANGED <<clientVars, answers, request>>

StartPlay ==
    /\ clientType = "Play"
    /\ Sends("Start", <<Status("streamBegin", 0), Status("playReset", StreamId),
                        Status("playStart", StreamId), Status("sampleAccess", StreamId),
                        Status("dataStart", StreamId)>>, "streaming")

StartFlashPublish ==
    /\ clientType = "FlashPublish"
    /\ Sends("Start", <<Status("publishStart", StreamId)>>, "streaming")

\* StartFMLEPublish up to the FCPublish response.
FMLE_FCPublish ==
    /\ clientType = "FMLEPublish"
    /\ ExpectPacket("Start", "FMLEStart", "FMLE_createStream",
                    <<FMLEStartRes(Message.tid)>>)
    /\ UNCHANGED request

\* Mutant: publish is expected without answering createStream.
FMLE_createStream_Unanswered ==
    /\ ExpectPacket("FMLE_createStream", "CreateStream", "FMLE_publish", <<>>)
    /\ UNCHANGED request

FMLE_createStream ==
    /\ ExpectPacket("FMLE_createStream", "CreateStream", "FMLE_publish",
                    <<CreateStreamRes(Message.tid)>>)
    /\ UNCHANGED request

FMLE_publish ==
    /\ ExpectPacket("FMLE_publish", "Publish", "streaming",
                    <<Status("onFCPublish", StreamId), Status("publishStart", StreamId)>>)
    /\ UNCHANGED request

\* Bound: one ping, once the stream has started.
Ping ==
    /\ \A i \in DOMAIN answers : answers[i].cmd # "ping"
    /\ Sends("streaming", <<Status("ping", 0)>>, "streaming")

ServerStep ==
    \/ SendPacket
    \/ ConnectApp
    \/ SetWindowAckSize
    \/ SetPeerBandwidth
    \/ ReponseConnectApp
    \/ CallOnBWDone
    \/ IdentifyClient
    \/ identify_create_stream_client
    \/ StartPlay
    \/ StartFlashPublish
    \/ FMLE_FCPublish
    \/ FMLE_createStream
    \/ FMLE_publish
    \/ Ping

ClientStep == ClientSend \/ ClientReceive

Init ==
    /\ client \in Clients
    /\ tcUrl \in IF client = "visitor" THEN TcUrls ELSE {PlainUrl}
    /\ step = 1 /\ noise = 0 /\ heard = 0
    /\ toServer = <<>> /\ asked = <<>>
    /\ spc = "ConnectApp"
    /\ todo = <<>> /\ answers = <<>>
    /\ request = NewRequest
    /\ clientType = "Unknown"

Next == ServerStep \/ ClientStep \/ ClientNoise

Spec == Init /\ [][Next]_vars

\* Client and server go on whenever they can.
FairSpec == Spec /\ WF_vars(ServerStep) /\ WF_vars(ClientStep)

-----------------------------------------------------------------------------
(* Properties *)

\* The tcUrl has all the parts that the server needs.
Complete(u) == u.given /\ <<>> \notin {u.means.schema, u.means.port, u.means.app}
                       /\ <<>> \notin u.means.vhosts

\* A server that goes on after ConnectApp has understood the tcUrl as the client meant
\* it, the vhost in the query or between dots included.  Not claimed of the vhost and app
\* of a tcUrl that ends with the stream, as those in the comment on Request.TcUrl do:
\* see RequestAsDocumented.
RequestRight ==
    spc \notin {"ConnectApp", "failed"} =>
        /\ \A part \in {"schema", "port"} : request[part] = tcUrl.means[part]
        /\ tcUrl.means.stream = <<>> => /\ request.app = tcUrl.means.app
                                        /\ request.vhost \in tcUrl.means.vhosts

\* The same for the tcUrls of that comment, rtmp://vhost:port/app/stream and with the vhost
\* between app and stream.  It does not hold and no run checks it: discovery_app leaves the
\* stream in the app (live/s), or in a vhost written before it (v1/s).
RequestAsDocumented ==
    spc \notin {"ConnectApp", "failed"} =>
        request.app = tcUrl.means.app /\ request.vhost \in tcUrl.means.vhosts

\* The program learns the kind of client it really has, whatever else the client sends
\* and however far it runs ahead of the answers.
IdentifiedRight == clientType # "Unknown" => clientType = ClientTypeOf[client]

\* The request a response is for.
RequestOf(p) ==
    CASE p.cmd = "connectRes" -> {"connect"}
      [] p.cmd = "createStreamRes" -> {"createStream"}
      [] OTHER -> {"releaseStream", "FCPublish"}

\* Every response carries the transaction id of a request of its kind that the client
\* made, and no request is answered twice.
AnswersMatch ==
    /\ \A i \in DOMAIN answers : answers[i].tid > 0 =>
          \E j \in DOMAIN asked : /\ asked[j].tid = answers[i].tid
                                  /\ asked[j].cmd \in RequestOf(answers[i])
    /\ \A i, j \in DOMAIN answers :
          answers[i].tid > 0 /\ answers[i].tid = answers[j].tid => i = j

HasSent(cmd) == \E i \in DOMAIN asked : asked[i].cmd = cmd

\* The server talks on a stream only after the client asked to play or publish, and, to a
\* client that asked for a stream, only after it has told it the id of that stream.  A
\* client that plays without createStream, which IdentifyClient accepts, hears of a stream
\* whose id it was never told.
StreamAnnounced ==
    \A i \in DOMAIN answers : answers[i].sid # 0 =>
        /\ HasSent("play") \/ HasSent("publish")
        /\ HasSent("createStream") =>
              \E j \in 1 .. i - 1 : /\ answers[j].cmd = "createStreamRes"
                                    /\ answers[j].value = answers[i].sid

SentUndecodable == \E cmd \in Undecodable : HasSent(cmd)

\* A client that follows its script gets to stream, and the server gets there too, with
\* control messages, media and unknown commands in between.
SessionStarts ==
    Complete(tcUrl) ~> (\/ Finished /\ (client = "visitor" \/ spc = "streaming")
                        \/ SentUndecodable \/ HasSent("closeStream"))

\* No operation fails or panics for a message that is merely not the expected one: a
\* failure takes a tcUrl with a part missing or a message that cannot be decoded, a panic
\* a closeStream while StartFMLEPublish expects createStream.  This is less than the
\* comment on ExpectPacket says, "drop others util got specified one": a message that
\* cannot be decoded is not dropped, it ends the operation.
OnlyUndecodableFails ==
    /\ spc = "failed" => ~ Complete(tcUrl) \/ SentUndecodable
    /\ spc = "panicked" => client = "fmle" /\ HasSent("closeStream")

\* The operations that wait in ExpectPacket.
Expecting == {"ConnectApp", "Start", "FMLE_createStream", "FMLE_publish"}

\* ExpectPacket, "drop others util got specified one": while it waits for a packet of a
\* client that makes proper requests, no other message makes it fail or panic.
ExpectDropsOthers ==
    [][Complete(tcUrl) /\ spc \in Expecting => spc' \notin {"failed", "panicked"}]_vars
=============================================================================
