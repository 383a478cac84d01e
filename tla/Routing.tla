------------------------------- MODULE Routing -------------------------------
(***************************************************************************)
(* How a request finds its operation: the pattern tree that the legacy     *)
(* router fills from a document in an arbitrary order and searches with    *)
(* backtracking, and the list of templates that the gorillamux router      *)
(* tries in the order of Paths.InMatchingOrder.                            *)
(*                                                                         *)
(* Paths, URLs and methods are sequences of tokens: a character, a method  *)
(* with the blank behind it, or a template variable such as "{x}".         *)
(***************************************************************************)
EXTENDS Integers, FiniteSets, SequencesExt, TLC

CONSTANTS
  Documents, \* the documents: [servers, paths, own], see MCRouting
  Requests,  \* the requests: [method, scheme, host, path]
  Variables, \* the variable tokens: [token -> [name, everything]]
  Rank,      \* the byte order: [token -> Nat]
  Upper,     \* strings.ToUpper on methods
  Extra,     \* what AddRoute may be called with: [method, path]
  MaxExtra   \* bound: calls of AddRoute

VARIABLES
  doc,     \* the document of both routers
  pending, \* the documented routes that NewRouter has yet to add
  tree,    \* legacy: the node that each sequence of suffixes leads to
  added,   \* the routes given to AddRoute
  answer   \* what the two routers said to a request

vars == <<doc, pending, tree, added, answer>>

IsVariable(token) == token \in DOMAIN Variables
VariablesOf(path) == SelectSeq(path, IsVariable)
VariableNames(path) ==
  [i \in DOMAIN VariablesOf(path) |-> Variables[VariablesOf(path)[i]].name]

\* Paths map templates to methods; some have servers of their own.
Routes(d) == UNION { {[method |-> m, path |-> p] : m \in d.paths[p]} : p \in DOMAIN d.paths }
GetOperation(d, m, p) == p \in DOMAIN d.paths /\ m \in d.paths[p]

\* Bytewise order of sequences of tokens.
RECURSIVE Before(_, _)
Before(a, b) ==
  \/ a = <<>> /\ b # <<>>
  \/ /\ a # <<>> /\ b # <<>>
     /\ \/ Rank[a[1]] < Rank[b[1]]
        \/ a[1] = b[1] /\ Before(Tail(a), Tail(b))

RECURSIVE Trimmed(_)
Trimmed(path) ==
  IF path # <<>> /\ Last(path) = "/" THEN Trimmed(Front(path)) ELSE path

\* The length of the longest start of s whose tokens are all outside stop.
Span(s, stop) == Min({ i - 1 : i \in { j \in DOMAIN s : s[j] \in stop } } \cup {Len(s)})
Drop(s, n) == SubSeq(s, n + 1, Len(s))

----------------------------------------------------------------------------
(* routers/legacy/pathpattern: the tree.                                   *)

Variable   == <<"{_}">>
Everything == <<"{_*}">>
Kind(suffix) == CASE suffix = Variable -> 2 [] suffix = Everything -> 3 [] OTHER -> 0

\* compareSuffix: constants first, the longer of two prefixes first.
CompareSuffix(a, b) ==
  \/ Kind(a) < Kind(b)
  \/ Kind(a) = Kind(b) /\ Before(b, a)

RECURSIVE SuffixesOf(_)
SuffixesOf(path) ==
  IF path = <<>> THEN <<>>
  ELSE LET t == path[1]
           run == Span(path, {"/"} \cup DOMAIN Variables) IN
       IF IsVariable(t)
       THEN <<IF Variables[t].everything THEN Everything ELSE Variable>> \o SuffixesOf(Tail(path))
       ELSE IF t = "/" THEN <<<<"/">>>> \o SuffixesOf(Tail(path))
       ELSE <<SubSeq(path, 1, run)>> \o SuffixesOf(Drop(path, run))

NoValue == [kind |-> "none"]
ARouter == [kind |-> "router"]
ARoute(r) == [kind |-> "route", method |-> r.method, path |-> r.path]

\* Mutant: an existing node on the way is not found.
CreateNodeAnew(nodes, path) ==
  LET s == SuffixesOf(path)
      way == { SubSeq(s, 1, i) : i \in 0..Len(s) } IN
  [p \in DOMAIN nodes \cup way |->
     IF p \in way THEN [names |-> <<>>, value |-> NoValue] ELSE nodes[p]]

CreateNode(nodes, path) ==
  LET s == SuffixesOf(path) IN
  [p \in DOMAIN nodes \cup { SubSeq(s, 1, i) : i \in 0..Len(s) } |->
     IF p \in DOMAIN nodes THEN nodes[p] ELSE [names |-> <<>>, value |-> NoValue]]

\* Mutant: methods are normalised although their case counts.
AddUpper(r, value) ==
  LET path == Trimmed(<<Upper[r.method]>> \o r.path) IN
  [CreateNode(tree, path) EXCEPT
     ![SuffixesOf(path)] = [names |-> VariableNames(path), value |-> value]]

\* Node.Add under the method and the path; another route may be there.
Add(r, value) ==
  LET path == Trimmed(<<r.method>> \o r.path) IN
  [CreateNode(tree, path) EXCEPT
     ![SuffixesOf(path)] = [names |-> VariableNames(path), value |-> value]]

ChildrenOf(p) ==
  SetToSortSeq({ q \in DOMAIN tree : Len(q) = Len(p) + 1 /\ SubSeq(q, 1, Len(p)) = p },
               LAMBDA a, b : CompareSuffix(Last(a), Last(b)))

\* matchRemaining: a set of at most one [node, values].
RECURSIVE MatchRemaining(_, _, _)
MatchRemaining(p, remaining, values) ==
  LET segment == Span(remaining, {"/"})
      Via(q) ==
        CASE Last(q) = Variable ->
               MatchRemaining(q, Drop(remaining, segment),
                              Append(values, SubSeq(remaining, 1, segment)))
          [] Last(q) = Everything ->
               { [node |-> q, values |-> Append(values, remaining)] }
          [] IsPrefix(Last(q), remaining) ->
               MatchRemaining(q, Drop(remaining, Len(Last(q))), values)
          [] remaining = <<>> /\ Last(q) = <<"/">> ->
               MatchRemaining(q, remaining, values)
          [] OTHER -> {}
      Valued(q) == { m \in Via(q) : tree[m.node].value # NoValue }
  IN IF remaining = <<>> /\ tree[p].value # NoValue
     THEN { [node |-> p, values |-> values] }
     ELSE FoldLeft(LAMBDA found, q : IF found # {} THEN found ELSE Valued(q),
                   {}, ChildrenOf(p))

Match(path) == MatchRemaining(<<>>, Trimmed(path), <<>>)

----------------------------------------------------------------------------
(* openapi3.Servers.                                                       *)

\* url.URL.String(), without the query.
RawURL(request) ==
  IF request.host = <<>> THEN request.path
  ELSE request.scheme \o <<":", "/", "/">> \o request.host \o request.path

\* MatchRawURL: a set of at most one [values, remaining].  A variable takes
\* all up to the next "/" or the token that follows it in the pattern.
RECURSIVE MatchRawURL(_, _, _)
MatchRawURL(pattern, input, values) ==
  IF pattern \in {<<>>, <<"/">>}
  THEN LET rest == IF input = <<>> THEN <<"/">> ELSE input IN
       IF rest[1] = "/" THEN { [values |-> values, remaining |-> rest] } ELSE {}
  ELSE IF IsVariable(pattern[1])
  THEN LET n == Span(input, {"/"} \cup { pattern[i] : i \in DOMAIN pattern \cap {2} }) IN
       MatchRawURL(Tail(pattern), Drop(input, n), Append(values, SubSeq(input, 1, n)))
  ELSE IF input # <<>> /\ input[1] = pattern[1]
  THEN MatchRawURL(Tail(pattern), Tail(input), values)
  ELSE {}

\* MatchURL: what the first server that matches leaves of the URL.
MatchURL(servers, request) ==
  FoldLeft(LAMBDA found, s :
             IF found # {} THEN found
             ELSE { [server |-> <<s>>, params |-> Zip(VariableNames(s.url), m.values),
                     remaining |-> m.remaining] :
                    m \in MatchRawURL(s.url, RawURL(request), <<>>) },
           {}, servers)

\* Params: the map from names to values; a later entry replaces an earlier.
Params(pairs) == FoldLeft(LAMBDA f, x : (x[1] :> x[2]) @@ f, <<>>, pairs)

----------------------------------------------------------------------------
(* Router.FindRoute of routers/legacy.                                     *)

NotFound == [result |-> "not found"]
MethodNotAllowed == [result |-> "method not allowed"]
Found(r, server, params) ==
  [result |-> "found", route |-> r, server |-> server, params |-> params]
NilRoute(params) == [result |-> "nil", params |-> params]

LegacyFindRoute(request) ==
  LET url == IF doc.servers = <<>>
             THEN { [server |-> <<>>, params |-> <<>>, remaining |-> request.path] }
             ELSE MatchURL(doc.servers, request) IN
  IF url = {} THEN NotFound
  ELSE
    LET u == CHOOSE x \in url : TRUE
        match == Match(<<request.method>> \o u.remaining)
        m == CHOOSE x \in match : TRUE
        value == IF match = {} THEN NoValue ELSE tree[m.node].value
        params == Params(u.params \o Zip(tree[m.node].names, m.values)) IN
    IF value.kind = "route"
    THEN Found([method |-> value.method, path |-> value.path], u.server, params)
    ELSE IF u.remaining \notin DOMAIN doc.paths THEN NotFound
    ELSE IF ~GetOperation(doc, request.method, u.remaining) THEN MethodNotAllowed
    ELSE IF match = {} THEN NotFound
    ELSE NilRoute(params)

----------------------------------------------------------------------------
(* routers/gorillamux.                                                     *)

\* strings.ReplaceAll(url, "{v}", value)
Replaced(url, v, value) ==
  FlattenSeq([i \in DOMAIN url |-> IF url[i] = v THEN value ELSE <<url[i]>>])

\* makeServers: a URL that is one variable, and the port, take their defaults.
\* vars is what varsUpdater adds to the variables of a match.
MakeServer(s) ==
  LET port == { i \in 2..Len(s.url) - 1 : s.url[i] = ":" /\ IsVariable(s.url[i + 1]) }
      v == IF Len(s.url) = 1 THEN s.url[1] ELSE s.url[Min(port) + 1] IN
  IF Len(s.url) = 1 /\ IsVariable(s.url[1])
  THEN [url |-> Replaced(s.url, v, s.variables[v].default), vars |-> <<>>]
  ELSE IF port # {}
  THEN [url |-> Replaced(s.url, v, s.variables[v].default),
        vars |-> Variables[v].name :> s.variables[v].default]
  ELSE [url |-> s.url, vars |-> <<>>]

\* permutePart: the i-th values of all variables together, for each i.
PermutePart(part, s) ==
  LET used == { v \in DOMAIN s.variables : v \in Range(part) }
      Values(v) == SetToSortSeq({s.variables[v].default} \cup s.variables[v].enum, Before)
      Ith(v, i) == Values(v)[(i % Len(Values(v))) + 1] IN
  IF used = {} THEN {part}
  ELSE { FoldSet(LAMBDA v, p : Replaced(p, v, Ith(v, i)), part, used) :
         i \in 0..Max({ Len(Values(v)) : v \in used }) - 1 }

\* newSrv: the scheme, the host and the base path of a server URL.
NewSrv(s, made) ==
  LET colon == Span(made.url, {":"})
      absolute == IsPrefix(<<":", "/", "/">>, Drop(made.url, colon))
      rest == IF absolute THEN Drop(made.url, colon + 3) ELSE made.url
      host == IF absolute THEN Span(rest, {"/"}) ELSE 0
      path == Drop(rest, host) IN
  [schemes |-> IF absolute THEN PermutePart(SubSeq(made.url, 1, colon), s) ELSE {},
   host |-> SubSeq(rest, 1, host),
   base |-> IF path # <<>> /\ Last(path) = "/" THEN Front(path) ELSE path,
   server |-> <<s>>, vars |-> made.vars]

NoSrv == [schemes |-> {}, host |-> <<>>, base |-> <<>>, server |-> <<>>, vars |-> <<>>]
MakeServers(servers) ==
  IF servers = <<>> THEN <<NoSrv>> ELSE [i \in DOMAIN servers |-> NewSrv(servers[i], MakeServer(servers[i]))]

\* Mutant: in the order of the strings alone.
InStringOrder(paths) == SetToSortSeq(paths, LAMBDA a, b : Before(b, a))

\* InMatchingOrder: few variables first, then the greater string.
InMatchingOrder(paths) ==
  SetToSortSeq(paths, LAMBDA a, b :
    \/ Len(VariablesOf(a)) < Len(VariablesOf(b))
    \/ Len(VariablesOf(a)) = Len(VariablesOf(b)) /\ Before(b, a))

\* The values of its variables, in order, under which a template is the input;
\* a value holds at least least tokens, and none of stop unless the variable
\* takes everything.
RECURSIVE Assignments(_, _, _, _)
Assignments(template, input, stop, least) ==
  IF template = <<>> THEN IF input = <<>> THEN {<<>>} ELSE {}
  ELSE IF IsVariable(template[1])
  THEN LET everything == Variables[template[1]].everything IN
       UNION { { <<SubSeq(input, 1, n)>> \o a :
                 a \in Assignments(Tail(template), Drop(input, n), stop, least) } :
               n \in IF everything THEN 0..Len(input) ELSE least..Span(input, stop) }
  ELSE IF input # <<>> /\ input[1] = template[1]
  THEN Assignments(Tail(template), Tail(input), stop, least)
  ELSE {}

\* A host template without a port takes any port.
Portless(request) == [request EXCEPT !.host = SubSeq(@, 1, Span(@, {":"}))]
HostFor(srv, request) ==
  IF ":" \in Range(srv.host) THEN request.host ELSE Portless(request).host

\* What the regular expressions of gorilla/mux capture: any way to match.
MuxMatch(srv, path, request) ==
  { Params(Zip(VariableNames(srv.host \o srv.base \o path), h \o p)) :
    h \in IF srv.host = <<>> THEN {<<>>}
          ELSE Assignments(srv.host, HostFor(srv, request), {"."}, 1),
    p \in IF srv.schemes = {} \/ request.scheme \in srv.schemes
          THEN Assignments(srv.base \o path, request.path, {"/"}, 1)
          ELSE {} }

\* The servers of a path are its own, or those of the document.
PathServers(path) == MakeServers(IF path \in DOMAIN doc.own THEN doc.own[path] ELSE doc.servers)

Muxes ==
  LET paths == InMatchingOrder(DOMAIN doc.paths) IN
  FlattenSeq([i \in DOMAIN paths |->
    LET servers == PathServers(paths[i])
    IN  [j \in DOMAIN servers |-> [srv |-> servers[j], path |-> paths[i]]]])

\* Router.FindRoute: the first template that matches decides; the set of
\* answers that mux allows.
FirstMatch(muxes, request) ==
  LET Matches(i) == MuxMatch(muxes[i].srv, muxes[i].path, request)
      matching == { i \in DOMAIN muxes : Matches(i) # {} }
      first == Min(matching)
      path == muxes[first].path
      srv == muxes[first].srv IN
  IF matching = {} THEN {NotFound}
  ELSE IF ~GetOperation(doc, request.method, path) THEN {MethodNotAllowed}
  ELSE { Found([method |-> request.method, path |-> path], srv.server, srv.vars @@ params) :
         params \in Matches(first) }
MuxFindRoute(request) == FirstMatch(Muxes, request)

----------------------------------------------------------------------------
NoAnswer == [request |-> {}]

Init ==
  /\ doc \in Documents
  /\ pending = Routes(doc)
  /\ tree = <<>> :> [names |-> <<>>, value |-> NoValue]
  /\ added = {}
  /\ answer = NoAnswer

\* NewRouter: one turn of its loops over two Go maps, in no order.
AddDocumented ==
  \E r \in pending :
    /\ tree' = Add(r, ARoute(r))
    /\ pending' = pending \ {r}
    /\ UNCHANGED <<doc, added, answer>>

\* Router.AddRoute stores the router where FindRoute looks for a route.
AddRoute ==
  /\ pending = {} /\ answer = NoAnswer
  /\ Cardinality(added) < MaxExtra
  /\ \E r \in Extra :
       LET upper == [r EXCEPT !.method = Upper[r.method]] IN
       /\ tree' = Add(upper, ARouter)
       /\ added' = added \cup {upper}
       /\ UNCHANGED <<doc, pending, answer>>

\* One request is enough: FindRoute changes neither router.
FindRoute ==
  /\ pending = {} /\ answer = NoAnswer
  /\ \E request \in Requests : \E found \in MuxFindRoute(request) :
       answer' = [request |-> {request}, legacy |-> LegacyFindRoute(request), mux |-> found]
  /\ UNCHANGED <<doc, pending, tree, added>>

Next == AddDocumented \/ AddRoute \/ FindRoute

Spec == Init /\ [][Next]_vars

----------------------------------------------------------------------------
(* Properties.                                                             *)

\* A template with its variables replaced.
Filled(template, params) ==
  FlattenSeq([i \in DOMAIN template |->
    IF IsVariable(template[i]) THEN params[Variables[template[i]].name]
    ELSE <<template[i]>>])

\* The values that a server allows its variables.
ServerValues(server) ==
  IF server = <<>> THEN {<<>>}
  ELSE LET s == server[1].variables
           OfName(n) == CHOOSE v \in DOMAIN s : Variables[v].name = n
           Values(n) == {s[OfName(n)].default} \cup s[OfName(n)].enum
           names == { Variables[v].name : v \in DOMAIN s } IN
       { f \in [names -> UNION { Values(n) : n \in names }] :
         \A n \in names : f[n] \in Values(n) }

Fits(request, found, urls) ==
  /\ found.route \in Routes(doc)
  /\ found.route.method = request.method
  /\ \E others \in ServerValues(found.server) :
       LET params == found.params @@ others
           url == IF found.server = <<>> THEN <<>> ELSE Filled(found.server[1].url, params) IN
       Trimmed(Trimmed(url) \o Filled(found.route.path, params))
         \in { Trimmed(u) : u \in urls \cup {RawURL(request), request.path} }

(* A route that a router answers with is a documented one for exactly the  *)
(* method of the request, and its server and path with the parameters of   *)
(* the answer filled in are the URL that was asked for, up to slashes at   *)
(* the end, and to the port where gorilla/mux leaves it out of account:    *)
(* the names of a node are those of the template it serves, and            *)
(* backtracking leaves no value of an abandoned branch behind.             *)
AnswersFit ==
  \A request \in answer.request :
    /\ answer.legacy.result = "found" => Fits(request, answer.legacy, {})
    /\ answer.mux.result = "found" => Fits(request, answer.mux, {RawURL(Portless(request))})

Concrete(path) == VariablesOf(path) = <<>>

(* "Concrete (non-templated) paths would be matched before their templated *)
(* counterparts" (Paths.InMatchingOrder), by both routers, whatever order  *)
(* the templates were added in.  The legacy router does so among the paths *)
(* that have the method and were not added to by AddRoute.                 *)
ConcreteFirst ==
  \A request \in answer.request :
    /\ answer.mux.result = "found" /\ ~Concrete(answer.mux.route.path) =>
         ~\E p \in DOMAIN doc.paths : \E s \in Range(PathServers(p)) :
            Concrete(p) /\ MuxMatch(s, p, request) # {}
    /\ answer.legacy.result = "found" /\ ~Concrete(answer.legacy.route.path) =>
         ~\E r \in Routes(doc) \ added :
            /\ Concrete(r.path) /\ r.method = request.method
            /\ \E u \in IF doc.servers = <<>> THEN { [remaining |-> request.path] }
                        ELSE MatchURL(doc.servers, request) :
                 Trimmed(r.path) = Trimmed(u.remaining)

\* No variable of a template shares its segment with other characters.
WholeSegments(path) ==
  \A i \in DOMAIN path : IsVariable(path[i]) =>
    path[i - 1] = "/" /\ (i = Len(path) \/ path[i + 1] = "/")

(* No documented route gets lost in the tree: what the gorillamux router   *)
(* finds with at most one server, the legacy router finds as well if the   *)
(* server matches, so that its tree needs no order and its search abandons *)
(* no branch too early.  Left out are variables that share a segment with  *)
(* text, a server URL that is one variable and paths with servers of their *)
(* own, which the legacy router does not look at.                          *)
NothingLost ==
  \A request \in answer.request :
    /\ Len(doc.servers) <= 1 /\ DOMAIN doc.own = {}
    /\ \A s \in Range(doc.servers) :
         Len(s.url) > 1 /\ MatchRawURL(s.url, RawURL(request), <<>>) # {}
    /\ added = {}
    /\ \A p \in DOMAIN doc.paths : WholeSegments(p)
    /\ answer.mux.result = "found"
    => answer.legacy.result = "found"
==============================================================================
