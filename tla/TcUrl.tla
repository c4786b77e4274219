------------------------------- MODULE TcUrl --------------------------------
(***************************************************************************)
(* Request.discovery_app: the schema, vhost, port and app of a tcUrl.      *)
(* A text is a sequence of tokens: words and the marks "/", "?", "&", "=", *)
(* "..." and ":".  A tcUrl is taken apart as far as its marks matter: the  *)
(* scheme, the host and the rest.                                          *)
(***************************************************************************)
EXTENDS Naturals, Sequences, FiniteSets

Where(t, v) == {i \in DOMAIN v : v[i] = t}
Marked(v, t) == Where(t, v) # {}
FirstOf(S) == CHOOSE i \in S : \A j \in S : i <= j
LastOf(S) == CHOOSE i \in S : \A j \in S : j <= i

\* strings.SplitN(v, t, 2).
Before(v, t) == IF Marked(v, t) THEN SubSeq(v, 1, FirstOf(Where(t, v)) - 1) ELSE v
After(v, t) == IF Marked(v, t) THEN SubSeq(v, FirstOf(Where(t, v)) + 1, Len(v)) ELSE <<>>

\* strings.Trim(v, "/\n\r "), of which the slash is modelled.
Trim(v) ==
    LET kept == DOMAIN v \ Where("/", v)
    IN IF kept = {} THEN <<>> ELSE SubSeq(v, FirstOf(kept), LastOf(kept))

\* Mutant: every pair of dots begins with "&".
ReplaceDots_NoQuestion(v) ==
    [i \in DOMAIN v |->
        IF v[i] # "..." THEN v[i]
        ELSE IF Cardinality(Where("...", SubSeq(v, 1, i))) % 2 = 1 THEN "&" ELSE "="]

\* The replacements of "...": in turn by a mark that begins a parameter and by "=".  The
\* mark is "&", but for the first one of an url without "?".
ReplaceDots(v) ==
    [i \in DOMAIN v |->
        LET n == Cardinality(Where("...", SubSeq(v, 1, i)))
        IN IF v[i] # "..." THEN v[i]
           ELSE IF n % 2 = 0 THEN "="
           ELSE IF n = 1 /\ ~ Marked(v, "?") THEN "?" ELSE "&"]

-----------------------------------------------------------------------------
(* net/url *)

\* URL.Path and URL.RawQuery.
PathOf(v) == Before(v, "?")
QueryOf(v) == After(v, "?")

\* The parameters of a query, by the places where they begin; the first "=" ends the key.
Starts(q) == {i \in DOMAIN q : i = 1 \/ q[i - 1] = "&"}
Param(q, i) == Before(SubSeq(q, i, Len(q)), "&")
KeyAt(q, i) == Before(Param(q, i), "=")
Keys(q) == {KeyAt(q, i) : i \in Starts(q)}

\* Values.Get: the first value of the key.
Get(q, k) == After(Param(q, FirstOf({i \in Starts(q) : KeyAt(q, i) = k})), "=")

-----------------------------------------------------------------------------

\* The keys with strings.ToLower(k) == "vhost".
VhostKeys == {<<"vhost">>, <<"VHOST">>}

\* The vhosts given in the query.  The loop ranges over a map, in any order, and the last
\* one found counts.
QueryVhosts(q) == {Get(q, k) : k \in Keys(q) \cap VhostKeys} \ {<<>>}

DefaultPort == <<"1935">>

\* NewRequest.
NewRequest == [schema |-> <<>>, vhost |-> <<>>, port |-> DefaultPort, app |-> <<>>]

PortOf(host) ==
    IF Marked(host, ":") THEN Before(After(host, ":"), ":") ELSE DefaultPort

\* What discovery_app may put into the request.
discovery_app(u) ==
    LET v == ReplaceDots(u.rest)
        given == QueryVhosts(QueryOf(v))
        vhosts == IF given = {} THEN {Before(u.host, ":")} ELSE given
    IN {[schema |-> Trim(u.schema), vhost |-> Trim(h), port |-> Trim(PortOf(u.host)),
         app |-> Trim(PathOf(v))] : h \in vhosts}

\* It returns an error when one of them is empty.
Discovered(r) == <<>> \notin {r.schema, r.vhost, r.app, r.port}
=============================================================================
