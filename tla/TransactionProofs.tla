-------------------------- MODULE TransactionProofs --------------------------
(***************************************************************************)
(* Every response of the server carries the transaction id of the request  *)
(* it answers, and no request is answered twice, whatever messages come    *)
(* between the requests and however many.                                  *)
(*                                                                         *)
(* Argument: a transaction id was asked for and is in one place at a time: *)
(* on the way to the server, in an answer to be sent, or in an answer sent *)
(* (Transactions).  Between the receipt of connect and its answer the id 1 *)
(* is in none of them (ConnectOpen): ReponseConnectApp does not take it    *)
(* from the message, it writes 1.                                          *)
(***************************************************************************)
EXTENDS SessionProofs

Unused(s, tid) == \A i \in 1 .. Len(s) : s[i].tid # tid
Once(s) == \A i, j \in 1 .. Len(s) : s[i].tid > 0 /\ s[i].tid = s[j].tid => i = j
Apart(s, t) == \A i \in 1 .. Len(s) : s[i].tid > 0 => Unused(t, s[i].tid)
Asked(tid, cmds) == \E j \in 1 .. Len(asked) : asked[j].tid = tid /\ asked[j].cmd \in cmds
Justified(s) == \A i \in 1 .. Len(s) : s[i].tid > 0 => Asked(s[i].tid, RequestOf(s[i]))

\* The operations between the receipt of connect and its answer.
Answering == {"SetWindowAckSize", "SetPeerBandwidth", "ReponseConnectApp"}

\* What is on the way was asked for.
OnTheWayAsked ==
    \A i \in 1 .. Len(toServer) :
        /\ \E j \in 1 .. Len(asked) : asked[j] = toServer[i]
        /\ toServer[i].cmd = "connect" => toServer[i].tid = 1

\* The client uses each id of its script once.
NextIdsFree ==
    \A s \in step .. Len(Script) :
        Script[s].do = "send" /\ Script[s].tid > 0 => Unused(asked, Script[s].tid)

\* The answer to connect is still to come.
ConnectOpen ==
    spc \in Answering => /\ Asked(1, {"connect"})
                         /\ Unused(toServer, 1) /\ Unused(todo, 1) /\ Unused(answers, 1)

OneUse ==
    /\ Once(toServer) /\ Once(todo) /\ Once(answers)
    /\ Apart(toServer, todo) /\ Apart(toServer, answers) /\ Apart(todo, answers)

Transactions ==
    /\ OnTheWayAsked /\ Justified(answers) /\ Justified(todo) /\ OneUse
    /\ NextIdsFree /\ ConnectOpen

\* Nothing is in use at the start.
LEMMA InitTransactions == Init => Transactions
  BY DEF Init, Transactions, OnTheWayAsked, Justified, OneUse, NextIdsFree, ConnectOpen,
         Unused, Once, Apart, Answering

\* The ids of a script are all different.
LEMMA ScriptIds ==
    ASSUME NEW c \in Kinds, NEW s \in 1 .. Len(Scripts[c]), Scripts[c][s].do = "send"
    PROVE  /\ Scripts[c][s].cmd = "connect" => Scripts[c][s].tid = 1
           /\ \A r \in s + 1 .. Len(Scripts[c]) :
                 Scripts[c][r].do = "send" /\ Scripts[c][r].tid > 0 =>
                     Scripts[c][r].tid # Scripts[c][s].tid
  <1> DEFINE Goes(r) == Scripts[c][r].do = "send"
             Tid(r) == Scripts[c][r].tid
             Cmd(r) == Scripts[c][r].cmd
  <1>1. CASE c = "player"
    <2>1. Len(Scripts[c]) = 7
      BY <1>1 DEF Scripts
    <2>2. \A r \in 1 .. 7 : Goes(r) =>
             \/ r = 1 /\ Tid(r) = 1
             \/ r = 3 /\ Tid(r) = 2 /\ Cmd(r) # "connect"
             \/ r = 5 /\ Tid(r) = 0 /\ Cmd(r) # "connect"
      BY <1>1 DEF Scripts, Send, Wait
    <2> HIDE DEF Goes, Tid, Cmd
    <2>3. /\ Cmd(s) = "connect" => Tid(s) = 1
          /\ \A r \in s + 1 .. 7 : Goes(r) /\ Tid(r) > 0 => Tid(r) # Tid(s)
      <3>1. s \in 1 .. 7 /\ Goes(s)
        BY <2>1 DEF Goes
      <3> QED BY <2>2, <3>1
    <2> QED BY <2>1, <2>3 DEF Goes, Tid, Cmd
  <1>2. CASE c = "flash"
    <2>1. Len(Scripts[c]) = 6
      BY <1>2 DEF Scripts
    <2>2. \A r \in 1 .. 6 : Goes(r) =>
             \/ r = 1 /\ Tid(r) = 1
             \/ r = 3 /\ Tid(r) = 2 /\ Cmd(r) # "connect"
             \/ r = 5 /\ Tid(r) = 0 /\ Cmd(r) # "connect"
      BY <1>2 DEF Scripts, Send, Wait
    <2> HIDE DEF Goes, Tid, Cmd
    <2>3. /\ Cmd(s) = "connect" => Tid(s) = 1
          /\ \A r \in s + 1 .. 6 : Goes(r) /\ Tid(r) > 0 => Tid(r) # Tid(s)
      <3>1. s \in 1 .. 6 /\ Goes(s)
        BY <2>1 DEF Goes
      <3> QED BY <2>2, <3>1
    <2> QED BY <2>1, <2>3 DEF Goes, Tid, Cmd
  <1>3. CASE c = "fmle"
    <2>1. Len(Scripts[c]) = 9
      BY <1>3 DEF Scripts
    <2>2. \A r \in 1 .. 9 : Goes(r) =>
             \/ r = 1 /\ Tid(r) = 1
             \/ r = 3 /\ Tid(r) = 2 /\ Cmd(r) # "connect"
             \/ r = 4 /\ Tid(r) = 3 /\ Cmd(r) # "connect"
             \/ r = 5 /\ Tid(r) = 4 /\ Cmd(r) # "connect"
             \/ r = 7 /\ Tid(r) = 5 /\ Cmd(r) # "connect"
      BY <1>3 DEF Scripts, Send, Wait
    <2> HIDE DEF Goes, Tid, Cmd
    <2>3. /\ Cmd(s) = "connect" => Tid(s) = 1
          /\ \A r \in s + 1 .. 9 : Goes(r) /\ Tid(r) > 0 => Tid(r) # Tid(s)
      <3>1. s \in 1 .. 9 /\ Goes(s)
        BY <2>1 DEF Goes
      <3> QED BY <2>2, <3>1
    <2> QED BY <2>1, <2>3 DEF Goes, Tid, Cmd
  <1>4. CASE c = "visitor"
    <2>1. Len(Scripts[c]) = 2
      BY <1>4 DEF Scripts
    <2>2. \A r \in 1 .. 2 : Goes(r) =>
             \/ r = 1 /\ Tid(r) = 1
      BY <1>4 DEF Scripts, Send, Wait
    <2> HIDE DEF Goes, Tid, Cmd
    <2>3. /\ Cmd(s) = "connect" => Tid(s) = 1
          /\ \A r \in s + 1 .. 2 : Goes(r) /\ Tid(r) > 0 => Tid(r) # Tid(s)
      <3>1. s \in 1 .. 2 /\ Goes(s)
        BY <2>1 DEF Goes
      <3> QED BY <2>2, <3>1
    <2> QED BY <2>1, <2>3 DEF Goes, Tid, Cmd
  <1>5. CASE c = "direct"
    <2>1. Len(Scripts[c]) = 5
      BY <1>5 DEF Scripts
    <2>2. \A r \in 1 .. 5 : Goes(r) =>
             \/ r = 1 /\ Tid(r) = 1
             \/ r = 3 /\ Tid(r) = 0 /\ Cmd(r) # "connect"
      BY <1>5 DEF Scripts, Send, Wait
    <2> HIDE DEF Goes, Tid, Cmd
    <2>3. /\ Cmd(s) = "connect" => Tid(s) = 1
          /\ \A r \in s + 1 .. 5 : Goes(r) /\ Tid(r) > 0 => Tid(r) # Tid(s)
      <3>1. s \in 1 .. 5 /\ Goes(s)
        BY <2>1 DEF Goes
      <3> QED BY <2>2, <3>1
    <2> QED BY <2>1, <2>3 DEF Goes, Tid, Cmd
  <1> QED BY <1>1, <1>2, <1>3, <1>4, <1>5 DEF Kinds

\* What is in use was asked for.
LEMMA FreshId ==
    ASSUME SessionInv, Transactions, NEW tid \in Nat, tid > 0, Unused(asked, tid)
    PROVE  Unused(toServer, tid) /\ Unused(todo, tid) /\ Unused(answers, tid)
  <1>1. Unused(toServer, tid)
    BY DEF Transactions, OnTheWayAsked, Unused
  <1>2. Unused(todo, tid)
    BY DEF Transactions, Justified, Asked, Unused
  <1>3. Unused(answers, tid)
    BY DEF Transactions, Justified, Asked, Unused
  <1> QED BY <1>1, <1>2, <1>3

\* A message with an id that is not in use is added to those on the way.
LEMMA AskTransactions ==
    ASSUME SessionInv, Transactions, NEW m \in Messages,
           toServer' = Append(toServer, m), asked' = Append(asked, m),
           UNCHANGED <<client, spc, todo, answers>>,
           m.tid > 0 => Unused(asked, m.tid), m.cmd = "connect" => m.tid = 1,
           NextIdsFree'
    PROVE  Transactions'
  <1>1. /\ Len(asked) \in Nat /\ Len(asked') = Len(asked) + 1 /\ asked'[Len(asked) + 1] = m
        /\ \A i \in 1 .. Len(asked) : asked'[i] = asked[i]
    BY AtEnd DEF SessionInv, SessionTypes
  <1>2. /\ Len(toServer) \in Nat /\ Len(toServer') = Len(toServer) + 1
        /\ toServer'[Len(toServer) + 1] = m
        /\ \A i \in 1 .. Len(toServer) : toServer'[i] = toServer[i]
    BY AtEnd DEF SessionInv, SessionTypes
  <1>3. \A i \in 1 .. Len(toServer') :
           \/ i \in 1 .. Len(toServer) /\ toServer'[i] = toServer[i]
           \/ i = Len(toServer) + 1 /\ toServer'[i] = m
    BY <1>2
  <1>4. /\ \A j \in 1 .. Len(asked) : j \in 1 .. Len(asked') /\ asked'[j] = asked[j]
        /\ Len(asked) + 1 \in 1 .. Len(asked')
    BY <1>1
  <1>5. OnTheWayAsked'
    <2> SUFFICES ASSUME NEW i \in 1 .. Len(toServer')
                 PROVE  /\ \E j \in 1 .. Len(asked') : asked'[j] = toServer'[i]
                        /\ toServer'[i].cmd = "connect" => toServer'[i].tid = 1
      BY DEF OnTheWayAsked
    <2>1. CASE i \in 1 .. Len(toServer) /\ toServer'[i] = toServer[i]
      BY <1>4, <2>1 DEF Transactions, OnTheWayAsked
    <2>2. CASE i = Len(toServer) + 1 /\ toServer'[i] = m
      BY <1>1, <1>4, <2>2
    <2> QED BY <1>3, <2>1, <2>2
  <1>6. ASSUME NEW tid, NEW cmds, Asked(tid, cmds) PROVE Asked(tid, cmds)'
    BY <1>4, <1>6 DEF Asked
  <1>7. Justified(answers)' /\ Justified(todo)'
    <2>1. Justified(answers)'
      BY <1>6 DEF Transactions, Justified
    <2>2. Justified(todo)'
      BY <1>6 DEF Transactions, Justified
    <2> QED BY <2>1, <2>2
  <1>8. m.tid \in Nat
    BY DEF Messages
  <1>9. m.tid > 0 => Unused(toServer, m.tid) /\ Unused(todo, m.tid) /\ Unused(answers, m.tid)
    BY <1>8, FreshId
  <1>10. Once(toServer)'
    <2> SUFFICES ASSUME NEW i \in 1 .. Len(toServer'), NEW j \in 1 .. Len(toServer'),
                        toServer'[i].tid > 0, toServer'[i].tid = toServer'[j].tid
                 PROVE  i = j
      BY DEF Once
    <2> QED BY <1>3, <1>9 DEF Transactions, OneUse, Once, Unused
  <1>11. Apart(toServer, todo)' /\ Apart(toServer, answers)'
    BY <1>3, <1>9 DEF Transactions, OneUse, Apart
  <1>12. OneUse'
    BY <1>10, <1>11 DEF Transactions, OneUse, Once, Apart, Unused
  <1>13. ConnectOpen'
    <2> SUFFICES ASSUME spc \in Answering PROVE ConnectOpen'
      BY DEF ConnectOpen
    <2>1. Asked(1, {"connect"}) /\ Unused(toServer, 1) /\ Unused(todo, 1) /\ Unused(answers, 1)
      BY DEF Transactions, ConnectOpen
    <2>2. Asked(1, {"connect"})'
      BY <1>6, <2>1
    <2>3. m.tid # 1
      BY <2>1 DEF Asked, Unused
    <2>4. Unused(toServer, 1)'
      BY <1>3, <2>1, <2>3 DEF Unused
    <2>5. Unused(todo, 1)' /\ Unused(answers, 1)'
      BY <2>1 DEF Unused
    <2> QED BY <2>2, <2>4, <2>5 DEF ConnectOpen
  <1> QED BY <1>5, <1>7, <1>12, <1>13 DEF Transactions

\* A client that sends its next request or other messages, or waits, keeps the ids apart.
LEMMA ClientTransactions ==
    ASSUME SessionInv, Transactions, ClientSend \/ ClientNoise \/ ClientReceive
    PROVE  Transactions'
  <1>1. client \in Kinds /\ Len(Script) \in Nat /\ step \in 1 .. Len(Script) + 1
    <2>1. client \in Kinds
      BY DEF SessionInv, SessionTypes
    <2>2. Len(Script) \in Nat
      BY <2>1 DEF Kinds, Script, Scripts, Send, Wait
    <2> QED BY <2>1, <2>2 DEF SessionInv, SessionTypes
  <1>2. CASE ClientSend
    <2> DEFINE m == Command(Script[step].cmd, Script[step].tid)
    <2>1. /\ toServer' = Append(toServer, m) /\ asked' = Append(asked, m)
          /\ UNCHANGED <<client, spc, todo, answers>> /\ step' = step + 1
          /\ Script[step].do = "send" /\ step \in 1 .. Len(Script)
      BY <1>1, <1>2 DEF ClientSend, Finished, serverVars
    <2>2. m.cmd = Script[step].cmd /\ m.tid = Script[step].tid /\ m \in Messages
      <3>1. Script[step].cmd \in Own(client) /\ Script[step].tid \in Nat
        BY <1>1, <2>1, ScriptFacts DEF Script
      <3> QED BY <1>1, <3>1 DEF Messages, Command, Own, Kinds, Requests
    <2> HIDE DEF m
    <2>3. m.tid > 0 => Unused(asked, m.tid)
      <3>1. step \in step .. Len(Script) /\ Script[step].do = "send"
        BY <1>1, <2>1
      <3>2. Script[step].tid > 0 => Unused(asked, Script[step].tid)
        BY <3>1 DEF Transactions, NextIdsFree
      <3> QED BY <2>2, <3>2
    <2>4. /\ m.cmd = "connect" => m.tid = 1
          /\ \A r \in step + 1 .. Len(Script) :
                Script[r].do = "send" /\ Script[r].tid > 0 => Script[r].tid # m.tid
      <3>1. /\ Script[step].cmd = "connect" => Script[step].tid = 1
            /\ \A r \in step + 1 .. Len(Script) :
                  Script[r].do = "send" /\ Script[r].tid > 0 =>
                      Script[r].tid # Script[step].tid
        <4>1. step \in 1 .. Len(Scripts[client]) /\ Scripts[client][step].do = "send"
          BY <2>1 DEF Script
        <4> QED BY <1>1, <4>1, ScriptIds DEF Script
      <3> QED BY <2>2, <3>1
    <2>5. NextIdsFree'
      <3>1. Script' = Script
        BY <2>1 DEF Script
      <3> SUFFICES ASSUME NEW r \in step + 1 .. Len(Script),
                          Script[r].do = "send", Script[r].tid > 0
                   PROVE  Unused(asked', Script[r].tid)
        BY <2>1, <3>1 DEF NextIdsFree
      <3>2. r \in step .. Len(Script)
        BY <1>1
      <3>3. Unused(asked, Script[r].tid) /\ Script[r].tid # m.tid
        BY <2>4, <3>2 DEF Transactions, NextIdsFree
      <3>4. /\ Len(asked) \in Nat /\ Len(asked') = Len(asked) + 1
            /\ asked'[Len(asked) + 1] = m
            /\ \A i \in 1 .. Len(asked) : asked'[i] = asked[i]
        BY <2>1, <2>2, AtEnd DEF SessionInv, SessionTypes
      <3> QED BY <3>3, <3>4 DEF Unused
    <2> QED BY <2>1, <2>2, <2>3, <2>4, <2>5, AskTransactions
  <1>3. CASE ClientNoise
    <2>1. PICK cmd \in Noise : /\ toServer' = Append(toServer, Command(cmd, 0))
                               /\ asked' = Append(asked, Command(cmd, 0))
      BY <1>3 DEF ClientNoise
    <2> DEFINE m == Command(cmd, 0)
    <2>2. m \in Messages /\ m.tid = 0 /\ m.cmd # "connect"
      BY SessionAssumption DEF Messages, Command, Requests
    <2>3. UNCHANGED <<client, spc, todo, answers, step>>
      BY <1>3 DEF ClientNoise, serverVars
    <2>4. toServer' = Append(toServer, m) /\ asked' = Append(asked, m)
      BY <2>1
    <2> HIDE DEF m
    <2>5. NextIdsFree'
      <3>1. Script' = Script
        BY <2>3 DEF Script
      <3> SUFFICES ASSUME NEW r \in step .. Len(Script),
                          Script[r].do = "send", Script[r].tid > 0
                   PROVE  Unused(asked', Script[r].tid)
        BY <2>3, <3>1 DEF NextIdsFree
      <3>2. Unused(asked, Script[r].tid) /\ Script[r].tid # 0
        BY DEF Transactions, NextIdsFree
      <3>3. /\ Len(asked) \in Nat /\ Len(asked') = Len(asked) + 1
            /\ asked'[Len(asked) + 1] = m
            /\ \A i \in 1 .. Len(asked) : asked'[i] = asked[i]
        BY <2>2, <2>4, AtEnd DEF SessionInv, SessionTypes
      <3> QED BY <2>2, <3>2, <3>3 DEF Unused
    <2> QED BY <2>2, <2>3, <2>4, <2>5, AskTransactions
  <1>4. CASE ClientReceive
    <2>1. UNCHANGED <<client, asked, toServer, spc, todo, answers>>
      BY <1>4 DEF ClientReceive, serverVars
    <2>2. step' \in {step, step + 1}
      BY <1>4 DEF ClientReceive
    <2>3. NextIdsFree'
      <3>1. Script' = Script /\ \A r \in step' .. Len(Script) : r \in step .. Len(Script)
        BY <1>1, <2>1, <2>2 DEF Script
      <3> QED BY <2>1, <3>1 DEF Transactions, NextIdsFree
    <2>4. OnTheWayAsked' /\ OneUse'
      BY <2>1 DEF Transactions, OnTheWayAsked, OneUse, Once, Apart, Unused
    <2>5. Justified(answers)' /\ Justified(todo)' /\ ConnectOpen'
      BY <2>1 DEF Transactions, Justified, ConnectOpen, Asked, Unused
    <2> QED BY <2>3, <2>4, <2>5 DEF Transactions
  <1> QED BY <1>2, <1>3, <1>4

\* A packet moves from the operation to the answers, with its id.
LEMMA SendPacketTransactions ==
    ASSUME SessionInv, Transactions, SendPacket
    PROVE  Transactions'
  <1> DEFINE p == Head(todo)
  <1>1. /\ UNCHANGED <<client, step, asked, toServer, spc>>
        /\ todo # <<>> /\ todo' = Tail(todo) /\ answers' = Append(answers, p)
    BY DEF SendPacket, clientVars
  <1>2. /\ Len(todo') \in Nat /\ Len(todo) = Len(todo') + 1 /\ p = todo[1] /\ p \in Packets
        /\ \A i \in 1 .. Len(todo') : todo'[i] = todo[i + 1]
    BY <1>1, AtFront DEF SessionInv, SessionTypes
  <1> HIDE DEF p
  <1>3. /\ Len(answers) \in Nat /\ Len(answers') = Len(answers) + 1
        /\ answers'[Len(answers) + 1] = p
        /\ \A i \in 1 .. Len(answers) : answers'[i] = answers[i]
    BY <1>1, <1>2, AtEnd DEF SessionInv, SessionTypes
  <1>4. 1 \in 1 .. Len(todo) /\ \A i \in 1 .. Len(todo') : i + 1 \in 1 .. Len(todo) /\ i + 1 # 1
    BY <1>2
  <1>5. \A i \in 1 .. Len(answers') :
           \/ i \in 1 .. Len(answers) /\ answers'[i] = answers[i]
           \/ i = Len(answers) + 1 /\ answers'[i] = p
    BY <1>3
  <1>6. ASSUME NEW tid, Unused(todo, tid) PROVE Unused(todo', tid) /\ p.tid # tid
    BY <1>2, <1>4, <1>6 DEF Unused
  <1>7. ASSUME NEW tid, Unused(answers, tid), p.tid # tid PROVE Unused(answers', tid)
    BY <1>5, <1>7 DEF Unused
  <1>8. p.tid > 0 => Unused(answers, p.tid)
    BY <1>2, <1>4 DEF Transactions, OneUse, Apart
  <1>9. OnTheWayAsked' /\ NextIdsFree'
    BY <1>1 DEF Transactions, OnTheWayAsked, NextIdsFree, Script, Unused
  <1>10. Justified(answers)' /\ Justified(todo)'
    <2>1. \A tid, cmds : Asked(tid, cmds)' <=> Asked(tid, cmds)
      BY <1>1 DEF Asked
    <2>2. Justified(todo)'
      BY <1>2, <1>4, <2>1 DEF Transactions, Justified
    <2>3. Justified(answers)'
      BY <1>2, <1>4, <1>5, <2>1 DEF Transactions, Justified
    <2> QED BY <2>2, <2>3
  <1>11. ConnectOpen'
    <2>1. Asked(1, {"connect"})' <=> Asked(1, {"connect"})
      BY <1>1 DEF Asked
    <2> QED BY <1>1, <1>6, <1>7, <2>1 DEF Transactions, ConnectOpen
  <1>12. Once(todo)'
    <2> SUFFICES ASSUME NEW i \in 1 .. Len(todo'), NEW j \in 1 .. Len(todo'),
                        todo'[i].tid > 0, todo'[i].tid = todo'[j].tid
                 PROVE  i = j
      BY DEF Once
    <2>1. i + 1 = j + 1
      BY <1>2, <1>4 DEF Transactions, OneUse, Once
    <2> QED BY <2>1
  <1>13. Once(answers)'
    <2> SUFFICES ASSUME NEW i \in 1 .. Len(answers'), NEW j \in 1 .. Len(answers'),
                        answers'[i].tid > 0, answers'[i].tid = answers'[j].tid
                 PROVE  i = j
      BY DEF Once
    <2> QED BY <1>5, <1>8 DEF Transactions, OneUse, Once, Unused
  <1>14. Apart(toServer, todo)' /\ Apart(toServer, answers)'
    <2> SUFFICES ASSUME NEW i \in 1 .. Len(toServer), toServer[i].tid > 0
                 PROVE  Unused(todo', toServer[i].tid) /\ Unused(answers', toServer[i].tid)
      BY <1>1 DEF Apart
    <2>1. Unused(todo, toServer[i].tid) /\ Unused(answers, toServer[i].tid)
      BY DEF Transactions, OneUse, Apart
    <2> QED BY <1>6, <1>7, <2>1
  <1>15. Apart(todo, answers)'
    <2> SUFFICES ASSUME NEW i \in 1 .. Len(todo'), todo'[i].tid > 0
                 PROVE  Unused(answers', todo'[i].tid)
      BY DEF Apart
    <2>1. Unused(answers, todo'[i].tid)
      BY <1>2, <1>4 DEF Transactions, OneUse, Apart
    <2>2. p.tid # todo'[i].tid
      BY <1>2, <1>4 DEF Transactions, OneUse, Once
    <2> QED BY <1>7, <2>1, <2>2
  <1>16. OneUse'
    BY <1>1, <1>12, <1>13, <1>14, <1>15 DEF Transactions, OneUse, Once
  <1> QED BY <1>9, <1>10, <1>11, <1>16 DEF Transactions

\* An operation may take a message; it sends packets without id, or one answer to a
\* request that is not on the way any more.
LEMMA ServerTransactions ==
    ASSUME SessionInv, Transactions, UNCHANGED <<client, step, asked, answers>>,
           toServer' = toServer \/ (toServer # <<>> /\ toServer' = Tail(toServer)),
           \/ \A i \in 1 .. Len(todo') : todo'[i].tid = 0
           \/ /\ \E p : /\ todo' = <<p>> /\ Asked(p.tid, RequestOf(p))
                        /\ Unused(toServer', p.tid) /\ Unused(answers, p.tid)
              /\ spc' \notin Answering,
           spc' \in Answering =>
               Asked(1, {"connect"}) /\ Unused(toServer', 1) /\ Unused(answers, 1)
    PROVE  Transactions'
  <1>1. \A i \in 1 .. Len(toServer') :
           \E k \in 1 .. Len(toServer) : toServer'[i] = toServer[k]
    <2>1. CASE toServer' = toServer
      BY <2>1
    <2>2. CASE toServer # <<>> /\ toServer' = Tail(toServer)
      <3>1. /\ Len(toServer') \in Nat /\ Len(toServer) = Len(toServer') + 1
            /\ \A i \in 1 .. Len(toServer') : toServer'[i] = toServer[i + 1]
        BY <2>2, AtFront DEF SessionInv, SessionTypes
      <3>2. \A i \in 1 .. Len(toServer') : i + 1 \in 1 .. Len(toServer)
        BY <3>1
      <3> QED BY <3>1, <3>2
    <2> QED BY <2>1, <2>2
  <1>2. \A tid, cmds : Asked(tid, cmds)' <=> Asked(tid, cmds)
    BY DEF Asked
  <1>3. OnTheWayAsked'
    <2> SUFFICES ASSUME NEW i \in 1 .. Len(toServer')
                 PROVE  /\ \E j \in 1 .. Len(asked) : asked[j] = toServer'[i]
                        /\ toServer'[i].cmd = "connect" => toServer'[i].tid = 1
      BY DEF OnTheWayAsked
    <2>1. PICK k \in 1 .. Len(toServer) : toServer'[i] = toServer[k]
      BY <1>1
    <2> QED BY <2>1 DEF Transactions, OnTheWayAsked
  <1>4. NextIdsFree' /\ Justified(answers)'
    <2>1. NextIdsFree'
      BY DEF Transactions, NextIdsFree, Script, Unused
    <2>2. Justified(answers)'
      BY <1>2 DEF Transactions, Justified
    <2> QED BY <2>1, <2>2
  <1>5. Once(toServer)'
    <2>1. CASE toServer' = toServer
      BY <2>1 DEF Transactions, OneUse, Once
    <2>2. CASE toServer # <<>> /\ toServer' = Tail(toServer)
      <3> SUFFICES ASSUME NEW i \in 1 .. Len(toServer'), NEW j \in 1 .. Len(toServer'),
                          toServer'[i].tid > 0, toServer'[i].tid = toServer'[j].tid
                   PROVE  i = j
        BY DEF Once
      <3>1. /\ Len(toServer') \in Nat /\ Len(toServer) = Len(toServer') + 1
            /\ \A k \in 1 .. Len(toServer') : toServer'[k] = toServer[k + 1]
        BY <2>2, AtFront DEF SessionInv, SessionTypes
      <3>2. i + 1 \in 1 .. Len(toServer) /\ j + 1 \in 1 .. Len(toServer)
        BY <3>1
      <3>3. i + 1 = j + 1
        BY <3>1, <3>2 DEF Transactions, OneUse, Once
      <3> QED BY <3>3
    <2> QED BY <2>1, <2>2
  <1>6. Apart(toServer, answers)' /\ Once(answers)'
    BY <1>1 DEF Transactions, OneUse, Apart, Once
  <1>7. /\ ConnectOpen' /\ Justified(todo)' /\ Once(todo)'
        /\ Apart(toServer, todo)' /\ Apart(todo, answers)'
    <2>1. CASE \A i \in 1 .. Len(todo') : todo'[i].tid = 0
      <3>1. Unused(todo', 1) /\ \A tid : tid > 0 => Unused(todo', tid)
        BY <2>1 DEF Unused
      <3>2. ConnectOpen'
        BY <1>2, <3>1 DEF ConnectOpen
      <3>3. Justified(todo)' /\ Once(todo)' /\ Apart(todo, answers)'
        BY <2>1 DEF Justified, Once, Apart
      <3>4. Apart(toServer, todo)'
        BY <3>1 DEF Apart
      <3> QED BY <3>2, <3>3, <3>4
    <2>2. CASE /\ \E p : /\ todo' = <<p>> /\ Asked(p.tid, RequestOf(p))
                         /\ Unused(toServer', p.tid) /\ Unused(answers, p.tid)
               /\ spc' \notin Answering
      <3>1. PICK p : /\ todo' = <<p>> /\ Asked(p.tid, RequestOf(p))
                     /\ Unused(toServer', p.tid) /\ Unused(answers, p.tid)
        BY <2>2
      <3>2. Len(todo') = 1 /\ todo'[1] = p /\ \A i \in 1 .. Len(todo') : i = 1
        BY <3>1
      <3>3. ConnectOpen' /\ Once(todo)'
        BY <2>2, <3>2 DEF ConnectOpen, Once
      <3>4. Justified(todo)'
        BY <1>2, <3>1, <3>2 DEF Justified
      <3>5. Apart(todo, answers)'
        BY <3>1, <3>2 DEF Apart
      <3>6. Apart(toServer, todo)'
        BY <3>1, <3>2 DEF Apart, Unused
      <3> QED BY <3>3, <3>4, <3>5, <3>6
    <2> QED BY <2>1, <2>2
  <1> QED BY <1>3, <1>4, <1>5, <1>6, <1>7 DEF Transactions, OneUse

\* The message that an operation takes was asked for, and its id is used nowhere else.
LEMMA TakenId ==
    ASSUME SessionInv, Transactions, toServer # <<>>, toServer' = Tail(toServer)
    PROVE  /\ Message.tid \in Nat
           /\ \A cmds : Message.cmd \in cmds => Asked(Message.tid, cmds)
           /\ Message.cmd = "connect" => Message.tid = 1
           /\ Message.tid > 0 => Unused(toServer', Message.tid) /\ Unused(answers, Message.tid)
  <1>1. /\ Len(toServer') \in Nat /\ Len(toServer) = Len(toServer') + 1
        /\ Message = toServer[1] /\ Message \in Messages
        /\ \A i \in 1 .. Len(toServer') : toServer'[i] = toServer[i + 1]
    BY AtFront DEF SessionInv, SessionTypes, Message
  <1>2. 1 \in 1 .. Len(toServer) /\ \A i \in 1 .. Len(toServer') : i + 1 \in 1 .. Len(toServer)
                                                                  /\ i + 1 # 1
    BY <1>1
  <1>3. \A cmds : Message.cmd \in cmds => Asked(Message.tid, cmds)
    BY <1>1, <1>2 DEF Transactions, OnTheWayAsked, Asked
  <1>4. Message.cmd = "connect" => Message.tid = 1
    BY <1>1, <1>2 DEF Transactions, OnTheWayAsked
  <1>5. Message.tid > 0 => Unused(answers, Message.tid)
    BY <1>1, <1>2 DEF Transactions, OneUse, Apart
  <1>6. Message.tid > 0 => Unused(toServer', Message.tid)
    BY <1>1, <1>2 DEF Transactions, OneUse, Once, Unused
  <1> QED BY <1>1, <1>3, <1>4, <1>5, <1>6 DEF Messages

\* An operation that answers the request it received, or sends packets without id.
LEMMA ReplyTransactions ==
    ASSUME SessionInv, Transactions, UNCHANGED <<clientVars, answers>>,
           toServer # <<>>, toServer' = Tail(toServer), spc' \notin Answering,
           \/ \A i \in 1 .. Len(todo') : todo'[i].tid = 0
           \/ /\ todo' = <<CreateStreamRes(Message.tid)>>
              /\ DecodePacket(Message) = "CreateStream"
           \/ /\ todo' = <<FMLEStartRes(Message.tid)>>
              /\ DecodePacket(Message) = "FMLEStart"
    PROVE  Transactions'
  <1>1. UNCHANGED <<client, step, asked, answers>>
    BY DEF clientVars
  <1>2. CASE \A i \in 1 .. Len(todo') : todo'[i].tid = 0
    BY <1>1, <1>2, ServerTransactions
  <1>3. ASSUME NEW p, todo' = <<p>>, p.tid = Message.tid, Message.cmd \in RequestOf(p)
        PROVE  Transactions'
    <2>1. CASE Message.tid = 0
      <3>1. \A i \in 1 .. Len(todo') : todo'[i].tid = 0
        BY <1>3, <2>1
      <3> QED BY <1>1, <3>1, ServerTransactions
    <2>2. CASE Message.tid > 0
      <3>1. /\ Asked(p.tid, RequestOf(p))
            /\ Unused(toServer', p.tid) /\ Unused(answers, p.tid)
        BY <1>3, <2>2, TakenId
      <3> QED BY <1>1, <1>3, <3>1, ServerTransactions
    <2> QED BY <2>1, <2>2, TakenId
  <1>4. CASE /\ todo' = <<CreateStreamRes(Message.tid)>>
             /\ DecodePacket(Message) = "CreateStream"
    <2> DEFINE p == CreateStreamRes(Message.tid)
    <2>1. p.tid = Message.tid /\ p.cmd = "createStreamRes"
      BY DEF CreateStreamRes, Packet
    <2>2. Message.cmd = "createStream"
      BY <1>4, Decoding
    <2> HIDE DEF p
    <2>3. Message.cmd \in RequestOf(p)
      BY <2>1, <2>2 DEF RequestOf
    <2> QED BY <1>3, <1>4, <2>1, <2>3 DEF p
  <1>5. CASE todo' = <<FMLEStartRes(Message.tid)>> /\ DecodePacket(Message) = "FMLEStart"
    <2> DEFINE p == FMLEStartRes(Message.tid)
    <2>1. p.tid = Message.tid /\ p.cmd = "fmleStartRes"
      BY DEF FMLEStartRes, Packet
    <2>2. Message.cmd \in {"releaseStream", "FCPublish"}
      <3>1. Message.cmd \in {"releaseStream", "FCPublish", "FCUnpublish"}
        BY <1>5, Decoding
      <3>2. Message.cmd \in Own(client) /\ client \in Kinds
        BY <3>1, Received DEF Requests, SessionInv, SessionTypes
      <3> QED BY <3>1, <3>2 DEF Own, Kinds
    <2> HIDE DEF p
    <2>3. Message.cmd \in RequestOf(p)
      BY <2>1, <2>2 DEF RequestOf
    <2> QED BY <1>3, <1>5, <2>1, <2>3 DEF p
  <1> QED BY <1>2, <1>4, <1>5

\* The operations that wait for a request.
LEMMA ReceiveTransactions ==
    ASSUME SessionInv, Transactions,
           \/ ConnectApp \/ IdentifyClient \/ identify_create_stream_client
           \/ FMLE_FCPublish \/ FMLE_createStream \/ FMLE_publish
    PROVE  Transactions'
  <1>1. /\ UNCHANGED <<clientVars, answers>> /\ todo = <<>>
        /\ toServer # <<>> /\ toServer' = Tail(toServer)
    BY DEF ConnectApp, IdentifyClient, identify_create_stream_client, FMLE_FCPublish,
           FMLE_createStream, FMLE_publish, ExpectPacket, Receive
  <1>2. CASE ConnectApp
    <2>1. /\ UNCHANGED <<client, step, asked, answers>> /\ todo' = <<>>
          /\ spc' \in Answering => DecodePacket(Message) = "ConnectApp"
      BY <1>1, <1>2 DEF ConnectApp, ExpectPacket, Receive, Answering, clientVars
    <2>2. spc' \in Answering => Message.cmd = "connect" /\ Message.tid = 1
      BY <1>1, <2>1, Decoding, TakenId
    <2>3. spc' \in Answering =>
             Asked(1, {"connect"}) /\ Unused(toServer', 1) /\ Unused(answers, 1)
      BY <1>1, <2>2, TakenId
    <2>4. \A i \in 1 .. Len(todo') : todo'[i].tid = 0
      BY <2>1
    <2> QED BY <1>1, <2>1, <2>3, <2>4, ServerTransactions
  <1>3. CASE IdentifyClient
    <2>1. /\ spc' \in {"IdentifyClient", "failed", "identify_create_stream_client", "Start"}
          /\ \/ todo' = <<>>
             \/ /\ todo' = <<CreateStreamRes(Message.tid)>>
                /\ DecodePacket(Message) = "CreateStream"
             \/ /\ todo' = <<FMLEStartRes(Message.tid)>>
                /\ DecodePacket(Message) = "FMLEStart"
      BY <1>1, <1>3 DEF IdentifyClient, Receive, Identified, ReturnsError
    <2>2. spc' \notin Answering
      BY <2>1 DEF Answering
    <2>3. CASE todo' = <<>>
      <3>1. \A i \in 1 .. Len(todo') : todo'[i].tid = 0
        BY <2>3
      <3> QED BY <1>1, <2>2, <3>1, ReplyTransactions
    <2>4. CASE todo' # <<>>
      <3>1. \/ /\ todo' = <<CreateStreamRes(Message.tid)>>
               /\ DecodePacket(Message) = "CreateStream"
            \/ /\ todo' = <<FMLEStartRes(Message.tid)>>
               /\ DecodePacket(Message) = "FMLEStart"
        BY <2>1, <2>4
      <3> QED BY <1>1, <2>2, <3>1, ReplyTransactions
    <2> QED BY <2>3, <2>4
  <1>4. CASE identify_create_stream_client
    <2>1. /\ spc' \in {"identify_create_stream_client", "failed", "Start"}
          /\ todo' = <<>>
      BY <1>1, <1>4 DEF identify_create_stream_client, Receive, Identified, ReturnsError
    <2>2. spc' \notin Answering /\ \A i \in 1 .. Len(todo') : todo'[i].tid = 0
      BY <2>1 DEF Answering
    <2> QED BY <1>1, <2>2, ReplyTransactions
  <1>5. CASE FMLE_FCPublish
    <2>1. \/ spc' \in {"Start", "failed", "panicked"} /\ todo' = <<>>
          \/ /\ spc' = "FMLE_createStream" /\ todo' = <<FMLEStartRes(Message.tid)>>
             /\ DecodePacket(Message) = "FMLEStart"
      BY <1>1, <1>5 DEF FMLE_FCPublish, ExpectPacket, Receive
    <2>2. spc' \notin Answering
      BY <2>1 DEF Answering
    <2> QED BY <1>1, <2>1, <2>2, ReplyTransactions
  <1>6. CASE FMLE_createStream
    <2>1. \/ spc' \in {"FMLE_createStream", "failed", "panicked"} /\ todo' = <<>>
          \/ /\ spc' = "FMLE_publish" /\ todo' = <<CreateStreamRes(Message.tid)>>
             /\ DecodePacket(Message) = "CreateStream"
      BY <1>1, <1>6 DEF FMLE_createStream, ExpectPacket, Receive
    <2>2. spc' \notin Answering
      BY <2>1 DEF Answering
    <2> QED BY <1>1, <2>1, <2>2, ReplyTransactions
  <1>7. CASE FMLE_publish
    <2> DEFINE p == Status("onFCPublish", StreamId)
               q == Status("publishStart", StreamId)
    <2>1. /\ spc' \in {"FMLE_publish", "failed", "panicked", "streaming"}
          /\ todo' = <<>> \/ todo' = <<p, q>>
      BY <1>1, <1>7 DEF FMLE_publish, ExpectPacket, Receive
    <2>2. p.tid = 0 /\ q.tid = 0
      BY DEF Status, Packet
    <2> HIDE DEF p, q
    <2>3. spc' \notin Answering /\ \A i \in 1 .. Len(todo') : todo'[i].tid = 0
      BY <2>1, <2>2 DEF Answering
    <2> QED BY <1>1, <2>3, ReplyTransactions
  <1> QED BY <1>2, <1>3, <1>4, <1>5, <1>6, <1>7

\* The operations that only send; ReponseConnectApp answers the connect.
LEMMA SendsTransactions ==
    ASSUME SessionInv, Transactions,
           \/ SetWindowAckSize \/ SetPeerBandwidth \/ ReponseConnectApp \/ CallOnBWDone
           \/ StartPlay \/ StartFlashPublish \/ Ping
    PROVE  Transactions'
  <1>1. UNCHANGED <<clientVars, toServer, answers>>
    BY DEF SetWindowAckSize, SetPeerBandwidth, ReponseConnectApp, CallOnBWDone, StartPlay,
           StartFlashPublish, Ping, Sends
  <1>2. UNCHANGED <<client, step, asked, answers>>
    BY <1>1 DEF clientVars
  <1>3. spc \in Answering => Asked(1, {"connect"}) /\ Unused(toServer', 1) /\ Unused(answers, 1)
    BY <1>1 DEF Transactions, ConnectOpen
  <1>4. CASE ReponseConnectApp
    <2> DEFINE p == ConnectAppRes
    <2>1. todo' = <<p>> /\ spc = "ReponseConnectApp" /\ spc' = "CallOnBWDone"
      BY <1>4 DEF ReponseConnectApp, Sends
    <2>2. p.tid = 1 /\ p.cmd = "connectRes"
      BY DEF ConnectAppRes, Packet
    <2> HIDE DEF p
    <2>3. RequestOf(p) = {"connect"} /\ spc \in Answering /\ spc' \notin Answering
      BY <2>1, <2>2 DEF RequestOf, Answering
    <2> QED BY <1>1, <1>2, <1>3, <2>1, <2>2, <2>3, ServerTransactions
  <1>5. CASE \/ SetWindowAckSize \/ SetPeerBandwidth \/ CallOnBWDone
             \/ StartPlay \/ StartFlashPublish \/ Ping
    <2>1. spc' \in Answering => spc \in Answering
      BY <1>5 DEF SetWindowAckSize, SetPeerBandwidth, CallOnBWDone, StartPlay,
                  StartFlashPublish, Ping, Sends, Answering
    <2>2. \A i \in 1 .. Len(todo') : \E cmd, sid : todo'[i] = Status(cmd, sid)
      <3>1. CASE StartPlay
        BY <3>1 DEF StartPlay, Sends
      <3>2. CASE SetWindowAckSize \/ SetPeerBandwidth \/ CallOnBWDone
        BY <3>2 DEF SetWindowAckSize, SetPeerBandwidth, CallOnBWDone, Sends
      <3>3. CASE StartFlashPublish
        <4>1. todo' = <<Status("publishStart", StreamId)>>
          BY <3>3 DEF StartFlashPublish, Sends
        <4> QED BY <4>1
      <3>4. CASE Ping
        <4>1. todo' = <<Status("ping", 0)>>
          BY <3>4 DEF Ping, Sends
        <4> QED BY <4>1
      <3> QED BY <1>5, <3>1, <3>2, <3>3, <3>4
    <2>3. \A cmd, sid : Status(cmd, sid).tid = 0
      BY DEF Status, Packet
    <2>4. \A i \in 1 .. Len(todo') : todo'[i].tid = 0
      BY <2>2, <2>3
    <2> QED BY <1>1, <1>2, <1>3, <2>1, <2>4, ServerTransactions
  <1> QED BY <1>4, <1>5

\* Every step keeps Transactions.
LEMMA NextTransactions == SessionInv /\ Transactions /\ [Next]_vars => Transactions'
  <1> SUFFICES ASSUME SessionInv, Transactions, [Next]_vars PROVE Transactions'
    OBVIOUS
  <1>1. CASE Next
    BY <1>1, ClientTransactions, SendPacketTransactions, ReceiveTransactions,
       SendsTransactions DEF Next, ServerStep, ClientStep
  <1>2. CASE UNCHANGED vars
    <2>1. UNCHANGED <<client, step, asked, toServer, spc, todo, answers>>
      BY <1>2 DEF vars, clientVars, serverVars
    <2>2. OnTheWayAsked' /\ OneUse'
      BY <2>1 DEF Transactions, OnTheWayAsked, OneUse, Once, Apart, Unused
    <2>3. Justified(answers)' /\ Justified(todo)' /\ ConnectOpen'
      BY <2>1 DEF Transactions, Justified, ConnectOpen, Asked, Unused
    <2>4. NextIdsFree'
      BY <2>1 DEF Transactions, NextIdsFree, Script, Unused
    <2> QED BY <2>2, <2>3, <2>4 DEF Transactions
  <1> QED BY <1>1, <1>2

\* Every response carries the transaction id of a request of its kind, and no request is
\* answered twice, by whichever operation: ReponseConnectApp, IdentifyClient and
\* StartFMLEPublish share the answers among them.
THEOREM RequestsAnsweredOnce == Spec => []AnswersMatch
  <1>1. SessionInv /\ Transactions => AnswersMatch
    <2> SUFFICES ASSUME SessionInv, Transactions PROVE AnswersMatch
      OBVIOUS
    <2>1. DOMAIN answers = 1 .. Len(answers) /\ DOMAIN asked = 1 .. Len(asked)
      BY DEF SessionInv, SessionTypes
    <2> QED BY <2>1 DEF Transactions, Justified, Asked, OneUse, Once, AnswersMatch
  <1> QED BY <1>1, SessionInvariant, InitTransactions, NextTransactions, PTL DEF Spec
=============================================================================
