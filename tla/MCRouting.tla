------------------------------ MODULE MCRouting ------------------------------
(* Small documents and requests for Routing. *)
EXTENDS Routing

MCVariables ==
  [t \in {"{x}", "{y}", "{z}", "{v}"} |->
     [name |-> t, everything |-> FALSE]]
  @@ ("{w*}" :> [name |-> "{w}", everything |-> TRUE])

Tokens == <<"/", ".", "1", ":", "GET ", "get ", "POST ", "a", "b", "h", "s", "t",
            "{v}", "{w*}", "{x}", "{y}", "{z}">>
MCRank == [t \in Range(Tokens) |-> CHOOSE i \in DOMAIN Tokens : Tokens[i] = t]
MCUpper == [m \in {"GET ", "POST "} |-> m] @@ ("get " :> "GET ")

P(s) == IF s = <<>> THEN <<"/">> ELSE FlattenSeq([i \in DOMAIN s |-> <<"/">> \o s[i]])
G == {"GET "}
GP == {"GET ", "POST "}
NoServers == [p \in {} |-> <<>>]
Doc(servers, paths) == [servers |-> servers, paths |-> paths, own |-> NoServers]

A == <<"a">>  B == <<"b">>  AB == <<"a", "b">>
X == <<"{x}">>  Y == <<"{y}">>  W == <<"{w*}">>

\* Every document of at most MaxPaths templates of two segments, that are
\* told apart by more than the names of their variables.
Templates == { P(s) : s \in { <<>>, <<A>>, <<AB>>, <<X>>, <<A, B>>, <<A, X>>, <<X, B>>,
                              <<X, Y>>, <<W>>, <<A, W>>, <<A, <<>>>> } }
Methods(p) == IF p[Len(p)] = "b" THEN {{"POST "}} ELSE IF Len(p) = 2 THEN {G, {"get "}} ELSE {G}
PathSets == UNION { { f \in [ps -> {G, {"POST "}, {"get "}}] : \A p \in ps : f[p] \in Methods(p) } :
                    ps \in { x \in SUBSET Templates : Cardinality(x) \in 1..3 } }
Unserved == { Doc(<<>>, f) : f \in PathSets }

Var(d, e) == [default |-> d, enum |-> e]
Server(url, variables) == [url |-> url, variables |-> variables]
S(t) == t \o <<":", "/", "/">>
None == [v \in {} |-> Var(<<>>, {})]
Servers ==
  { <<>>,
    <<Server(S(<<"s">>) \o <<"h">>, None)>>,
    <<Server(S(<<"{z}">>) \o <<"h", "/", "a", "/">>, "{z}" :> Var(<<"s">>, {<<"t">>}))>>,
    <<Server(S(<<"s">>) \o <<"h", ":", "{v}", "/", "a">>, "{v}" :> Var(<<"1">>, {}))>>,
    <<Server(<<"/", "{v}">>, "{v}" :> Var(<<"a">>, {})),
      Server(<<"/">>, None)>>,
    <<Server(<<"{v}">>, "{v}" :> Var(S(<<"s">>) \o <<"h">>, {}))>>,
    <<Server(S(<<"s">>) \o <<"{v}", ".", "h">>, "{v}" :> Var(<<"b">>, {})),
      Server(S(<<"t">>) \o <<"h">>, None)>> }
Served == { Doc(s, f) : s \in Servers,
            f \in { P(<<A>>) :> G @@ P(<<X>>) :> GP, P(<<A, X>>) :> G @@ P(<<X, B>>) :> GP,
                    P(<<A, W>>) :> G @@ P(<<A>>) :> GP } }

\* A path, concrete or not, with servers of its own, beside one that has none.
Own == { [Doc(s, P(<<A>>) :> GP @@ P(<<X>>) :> G) EXCEPT !.own = P(p) :> o] :
         s \in {<<>>, <<Server(S(<<"s">>) \o <<"h">>, None)>>}, p \in {<<A>>, <<X>>},
         o \in { <<Server(S(<<"t">>) \o <<"h", "/", "a">>, None)>>,
                 <<Server(S(<<"s">>) \o <<"h", ":", "1">>, None), Server(<<"/", "a">>, None)>>,
                 <<Server(S(<<"s">>) \o <<"{v}", ".", "h">>, "{v}" :> Var(<<"b">>, {}))>> } }

MCDocuments == Unserved \cup Served \cup Own

Request(m, sc, h, p) == [method |-> m, scheme |-> sc, host |-> h, path |-> p]
Paths == { P(s) : s \in { <<>>, <<A>>, <<AB>>, <<B>>, <<A, A>>, <<A, B>>, <<B, A>>, <<B, B>>,
                          <<A, <<>>>>, <<A, A, B>>, <<A, B, A>> } }
Hosts == { <<"h">>, <<"h", ":", "1">>, <<"a", ".", "h">>, <<"a", ".", "h", ":", "1">> }
MCRequests ==
  { Request(m, <<>>, <<>>, p) : m \in GP, p \in Paths } \cup
  { Request("GET ", sc, h, p) : sc \in {<<"s">>, <<"t">>}, h \in Hosts,
                                p \in {P(<<A>>), P(<<A, B>>), P(<<A, A, B>>)} }

MCExtra == { [method |-> m, path |-> p] : m \in {"get ", "POST "}, p \in {P(<<A>>), P(<<Y>>)} }
=============================================================================
