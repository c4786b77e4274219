----------------------------- MODULE MCSession -----------------------------
(***************************************************************************)
(* Instances of Session for TLC.                                           *)
(***************************************************************************)
EXTENDS Session, SequencesExt

AllClients == {"player", "direct", "flash", "fmle", "visitor"}

\* Control messages, media and AMF0 data, commands the stack does not know, the messages
\* that do not decode (_result and _error, say in answer to onBWDone, ...), and a command
\* that decodes to a packet no operation expects.
Others == {"control", "data", "unknown", "closeStream"} \cup Undecodable

\* Only the last one.
Closes == {"closeStream"}

-----------------------------------------------------------------------------
(* The tcUrls of the visitors: what they mean, written in the three forms that mix "?",  *)
(* "&", "=" and "...", and with the stream at the end or, as clients do, without it.     *)

Styles == {"query", "dots", "mixed"}
Hosts == {[name |-> <<"ip">>, text |-> <<"ip">>, port |-> <<"1935">>],
          [name |-> <<"ip">>, text |-> <<"ip", ":", "1936">>, port |-> <<"1936">>],
          [name |-> <<"ip">>, text |-> <<"ip", ":">>, port |-> <<>>],
          [name |-> <<>>, text |-> <<>>, port |-> <<"1935">>]}
Apps == {<<>>, <<"live">>}
ParamKeys == {"vhost", "VHOST", "token"}
ParamLists ==
    LET first == [key : ParamKeys, value : {<<>>, <<"v1">>}]
        second == [key : ParamKeys, value : {<<"v2">>}]
    IN {<<>>} \cup {<<p>> : p \in first} \cup {<<p, q>> : p \in first, q \in second}

\* The text of parameter j.
Written(p, j, style) ==
    LET mark == CASE style = "dots" \/ (style = "mixed" /\ j > 1) -> "..."
                  [] style # "dots" /\ j = 1 -> "?"
                  [] OTHER -> "&"
        equals == IF style = "dots" \/ (style = "mixed" /\ j > 1) THEN "..." ELSE "="
    IN <<mark, p.key, equals>> \o p.value

\* The vhosts that the parameters name: of each spelling, the first one, unless it is empty.
VhostsIn(params) ==
    {params[j].value :
        j \in {i \in DOMAIN params :
                  /\ params[i].key # "token" /\ params[i].value # <<>>
                  /\ \A k \in 1 .. i - 1 : params[k].key # params[i].key}}

Url(given, schema, host, app, params, style, slash, stream) ==
    [given |-> given, schema |-> schema, host |-> host.text,
     rest |-> <<"/">> \o app
                 \o FlattenSeq([j \in DOMAIN params |-> Written(params[j], j, style)])
                 \o slash \o stream,
     means |-> [schema |-> schema, port |-> host.port, app |-> app, stream |-> stream,
                vhosts |-> IF VhostsIn(params) = {} THEN {host.name}
                           ELSE VhostsIn(params)]]

OneHost == CHOOSE h \in Hosts : h.port = <<"1936">>
MCPlainUrl == Url(TRUE, <<"rtmp">>, OneHost, <<"live">>, <<>>, "query", <<>>, <<>>)

\* All lists of parameters in all forms, all other parts, and a connect without tcUrl.
MCTcUrls ==
    {Url(TRUE, <<"rtmp">>, h, <<"live">>, params, style, <<>>, <<>>) :
        h \in Hosts, params \in ParamLists, style \in Styles}
    \cup {Url(TRUE, <<"rtmp">>, h, <<"live">>, params, style, <<"/">>, <<"s">>) :
        h \in Hosts, params \in ParamLists, style \in Styles}
    \cup {Url(TRUE, schema, h, app, <<>>, "query", slash, <<>>) :
        schema \in {<<>>, <<"rtmp">>}, h \in Hosts, app \in Apps, slash \in {<<>>, <<"/">>}}
    \cup {[MCPlainUrl EXCEPT !.given = FALSE]}
=============================================================================
