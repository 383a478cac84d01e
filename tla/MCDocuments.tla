---------------------------- MODULE MCDocuments ----------------------------
(* Documents and parts of documents for Documents. *)
EXTENDS Documents

Inline(x) == [NoRef EXCEPT !.to = <<x>>]
Refs(x) == { Inline(x), [NoRef EXCEPT !.ref = TRUE],
             [NoRef EXCEPT !.ref = TRUE, !.to = <<x>>, !.told = {"summary"},
                           !.extra = {"deprecated", "x-a"}, !.exts = {"x-a"}] }
Ident(name) == [ident |-> TRUE, name |-> name]

Plain == [has |-> {}, unknown |-> {}, types |-> <<>>, subs |-> <<>>, docs |-> <<>>,
          default |-> <<>>, example |-> <<>>, null |-> {}]
Way == {"value", "request", "response"}
Docs(has, unknown) == <<[has |-> has, unknown |-> unknown]>>

----------------------------------------------------------------------------
(* Schemas: every keyword that leads to another, one level and in cycles.  *)

Keywords == {"oneOf", "anyOf", "allOf", "not", "if", "then", "else", "items", "properties",
             "additionalProperties", "prefixItems", "contains", "patternProperties",
             "dependentSchemas", "$defs", "propertyNames", "unevaluatedItems",
             "unevaluatedProperties", "contentSchema"}
Leaves == {"good", "typo", "lost", "again"}
To(name) == <<IF name = "lost" THEN [NoRef EXCEPT !.ref = TRUE] ELSE Inline(name)>>

Flawed ==
  { [Plain EXCEPT !.has = h, !.types = t] :
      h \in SUBSET {"readOnly", "writeOnly", "const"} \cup
            { {f} : f \in {"required twice", "boolean exclusive bound", "number exclusive bound",
                           "unsupported format", "bad pattern", "always", "unevaluatedItems"} },
      t \in {<<>>, <<"string">>, <<"number">>} } \cup
  { [Plain EXCEPT !.types = t, !.default = x, !.docs = y] :
      t \in {<<"array">>, <<"null">>, <<"object", "string">>}, x \in {<<>>, <<{}>>, <<Way>>},
      y \in {<<>>} \cup { Docs({"url"}, {}), Docs({}, {"typo"}) } }

SchemaTable ==
  "good" :> [Plain EXCEPT !.types = <<"string">>, !.null = {"response"}] @@
  "typo" :> [Plain EXCEPT !.unknown = {"typo"}] @@
  "lost" :> Plain @@
  "again" :> [Plain EXCEPT !.subs = [k \in {"allOf", "properties"} |->
                                       IF k = "allOf" THEN To("back") ELSE To("typo")]] @@
  "back" :> [Plain EXCEPT !.subs = "anyOf" :> To("again") @@ "items" :> To("good")] @@
  "knot" :> [Plain EXCEPT !.subs = "not" :> To("knot2") @@ "items" :> To("knot")] @@
  "knot2" :> [Plain EXCEPT !.subs = "oneOf" :> To("knot") \o To("good")] @@
  [name \in { k \o " " \o leaf : k \in Keywords, leaf \in Leaves } |->
     LET at == CHOOSE at \in Keywords \X Leaves : name = at[1] \o " " \o at[2] IN
     [Plain EXCEPT !.subs = at[1] :> To("good") \o To(at[2])]] @@
  [name \in { ToString(s) : s \in Flawed } |-> CHOOSE s \in Flawed : ToString(s) = name]

----------------------------------------------------------------------------
(* Operations, path items and callbacks.                                   *)

Media == [schema |-> <<Inline("good")>>, example |-> <<>>, examples |-> <<>>, encoding |-> <<>>,
          itemSchema |-> <<>>, unknown |-> {}]
Json(m) == <<[key |-> [ranges |-> {"json"}], of |-> m]>>
Param == [name |-> "id", in |-> "path", has |-> {"required"}, style |-> "", explode |-> <<>>,
          schema |-> <<Inline("good")>>, content |-> <<>>, example |-> <<>>, examples |-> <<>>, unknown |-> {}]
IdParam == <<Inline(Param)>>
OK == [has |-> {"description"}, content |-> <<>>, headers |-> <<>>, links |-> <<>>, unknown |-> {}]
Answer(r) == <<[has |-> {}, unknown |-> {}, of |-> <<[key |-> "200", of |-> Inline(r)]>>]>>
Op == [parameters |-> <<>>, body |-> <<>>, responses |-> Answer(OK), docs |-> <<>>, unknown |-> {},
       id |-> "", security |-> <<>>, callbacks |-> <<>>]
Called(name) == <<[key |-> name, of |-> Inline(name)]>>
Needs(names) == <<<<names>>>>

OperationTable ==
  "plain" :> Op @@
  "byId" :> [Op EXCEPT !.parameters = IdParam, !.id = "get"] @@
  "named" :> [Op EXCEPT !.id = "get"] @@
  "secured" :> [Op EXCEPT !.security = Needs(<<"key", "lost">>), !.callbacks = Called("round")] @@
  "inner" :> [Op EXCEPT !.security = Needs(<<"lost">>), !.callbacks = Called("round") \o Called("other")] @@
  "leaf" :> [Op EXCEPT !.security = <<<<<<"key">>, <<"lost">>>>>>] @@
  "mute" :> [Op EXCEPT !.responses = <<>>, !.unknown = {"typo"}] @@
  "muted" :> [Op EXCEPT !.callbacks = Called("silent")] @@
  "wordy" :> [Op EXCEPT !.docs = Docs({"bad url"}, {"typo"}),
                        !.responses = <<[has |-> {"null"}, unknown |-> {}, of |-> <<>>]>>]

Item == [operations |-> <<>>, additional |-> <<>>, parameters |-> <<>>, unknown |-> {}]
Gets(o) == [Item EXCEPT !.operations = <<[key |-> "GET", of |-> o]>>]
Extra(method, upper, o) == <<[key |-> method, upper |-> upper, token |-> TRUE, of |-> o]>>

PathItemTable ==
  "empty" :> Item @@ "plain" :> Gets("plain") @@ "byId" :> Gets("byId") @@ "named" :> Gets("named") @@
  "ids" :> [Gets("plain") EXCEPT !.parameters = IdParam] @@
  "both" :> [Gets("byId") EXCEPT !.parameters = IdParam \o IdParam] @@
  "secured" :> [Gets("secured") EXCEPT !.additional = Extra("GET", "GET", "leaf") \o Extra("get", "GET", "leaf")] @@
  "inner" :> [Item EXCEPT !.operations = <<[key |-> "POST", of |-> "inner"], [key |-> "QUERY", of |-> "secured"]>>] @@
  "leaf" :> Gets("leaf") @@ "mute" :> Gets("mute") @@ "muted" :> Gets("muted") @@ "wordy" :> Gets("wordy")

Back(items) == [of |-> [i \in DOMAIN items |-> [key |-> items[i], of |-> items[i]]], unknown |-> {}]
CallbackTable ==
  "round" :> Back(<<"inner", "secured">>) @@ "other" :> Back(<<"leaf">>) @@ "silent" :> Back(<<"mute">>)

----------------------------------------------------------------------------
(* Documents.                                                              *)

Lit(t) == [text |-> t, var |-> ""]
Var(v) == [text |-> "", var |-> v]
Templates == { <<Lit("/a")>>, <<Lit("/a/"), Var("id")>>, <<Lit("/a/"), Var("other")>> }
Paths1 == { [key |-> "p", slash |-> s, template |-> t, of |-> p] :
              s \in {TRUE}, t \in Templates, p \in {"empty", "plain", "byId", "named", "ids", "both"} }
Entries == { <<p, [q EXCEPT !.key = "q"]>> : p \in Paths1, q \in Paths1 }
           \cup { <<[p EXCEPT !.slash = FALSE], [q EXCEPT !.key = "q"]>> :
                    p \in { x \in Paths1 : x.of = "byId" }, q \in Paths1 }

TheInfo == [has |-> {"version", "title"}, unknown |-> {}, contact |-> <<>>, license |-> <<>>]
NoComponents == [schemas |-> <<>>, parameters |-> <<>>, bodies |-> <<>>, responses |-> <<>>,
                 headers |-> <<>>, schemes |-> <<>>, examples |-> <<>>, links |-> <<>>,
                 callbacks |-> <<>>, unknown |-> {}]
ThePaths(of) == <<[of |-> of, unknown |-> {}]>>
Doc == [version |-> "3.0", has |-> {}, unknown |-> {}, components |-> <<>>, info |-> <<TheInfo>>,
        paths |-> ThePaths(<<>>), security |-> <<>>, servers |-> <<>>, tags |-> <<>>, docs |-> <<>>,
        webhooks |-> <<>>]
Versions == {"", "3.0", "3.1", "3.2"}
Named1(x) == <<[key |-> Ident("c"), of |-> x], [key |-> [Ident("b c") EXCEPT !.ident = FALSE], of |-> x]>>

ApiKey == [type |-> "apiKey", in |-> "header", has |-> {"name"}, flows |-> <<>>, unknown |-> {}]
KeyScheme == <<[key |-> Ident("key"), of |-> Inline(ApiKey)]>>
On(items) == [i \in DOMAIN items |->
               [key |-> items[i], slash |-> TRUE, template |-> <<Lit("/" \o ToString(i))>>, of |-> items[i]]]

Routed == { [Doc EXCEPT !.paths = ThePaths(e)] : e \in Entries }
Secured ==
  { [Doc EXCEPT !.version = v, !.security = s, !.paths = ThePaths(On(p)), !.webhooks = w, !.components = c] :
      v \in Versions, s \in {<<>>, <<<<"lost", "key">>, <<"lost">>>>},
      p \in {<<"secured">>, <<"leaf", "inner">>, <<"inner", "leaf", "secured">>, <<"muted">>},
      w \in {<<>>, <<[of |-> <<"secured">>], [of |-> <<>>], [of |-> <<"leaf">>]>>},
      c \in {<<>>, <<[NoComponents EXCEPT !.schemes = KeyScheme,
                        !.callbacks = <<[key |-> Ident("cb"), of |-> Inline("other")],
                                        [key |-> Ident("cb2"), of |-> Inline("round")]>>]>>} }
Described ==
  { [Doc EXCEPT !.version = v, !.info = i, !.has = h] :
      v \in Versions, h \in SUBSET {"jsonSchemaDialect", "relative dialect"} \ {{"relative dialect"}},
      i \in {<<>>} \cup { <<[has |-> h2, unknown |-> {}, contact |-> c, license |-> l]>> :
              h2 \in SUBSET {"summary", "version"}, c \in {<<>>, <<[unknown |-> {"typo"}]>>},
              l \in {<<>>} \cup { <<[has |-> h3, unknown |-> {}]>> : h3 \in SUBSET {"identifier", "url", "name"} } } }
Served ==
  { [Doc EXCEPT !.servers = <<[has |-> h, url |-> u, variables |-> v, unknown |-> {}]>>, !.tags = t, !.docs = d] :
      h \in {{"url"}, {"url", "stray brace"}}, u \in {<<>>, <<"a">>, <<"a", "b">>},
      v \in {<<>>, <<[key |-> "a", of |-> [has |-> {}, unknown |-> {}]]>>,
             <<[key |-> "a", of |-> [has |-> {"default"}, unknown |-> {}]],
               [key |-> "b", of |-> [has |-> {"default"}, unknown |-> {"typo"}]]>>},
      t \in {<<>>, <<[name |-> "t", docs |-> Docs({"url"}, {}), unknown |-> {}],
                     [name |-> "t", docs |-> Docs({}, {"typo"}), unknown |-> {}],
                     [name |-> "", docs |-> <<>>, unknown |-> {}]>>},
      d \in {<<>>, Docs({"bad url", "url"}, {"typo"})} }

Flow(has) == [has |-> has, unknown |-> {}]
Schemes1 ==
  { [type |-> t, in |-> i, has |-> h, flows |-> f, unknown |-> {}] :
      t \in {"apiKey", "http", "oauth2", "openIdConnect", "mutualTLS", "typo"}, i \in {"", "header"},
      h \in {{}, {"name"}, {"http scheme", "bearer", "bearerFormat"}, {"openIdConnectUrl"}},
      f \in {<<>>} \cup
            { <<[flows |-> ("implicit" :> Flow(x) @@ "password" :> Flow(y)), unknown |-> {}]>> :
                x \in SUBSET {"authorizationUrl", "scopes"}, y \in {{"tokenUrl", "scopes"}, {"bad refreshUrl"}} } }

Ex == [value |-> <<{"value", "request"}>>, has |-> {}, unknown |-> {}]
Samples == { <<>>, <<[key |-> "e", of |-> Inline(Ex)]>>,
             <<[key |-> "e", of |-> Inline([Ex EXCEPT !.value = <<>>, !.has = {"externalValue"}])]>> }
Coded == <<[key |-> "f", of |-> [has |-> {}, headers |-> <<>>, style |-> "deepObject", explode |-> <<>>, unknown |-> {}]]>>
Medias == { [Media EXCEPT !.example = e, !.examples = s, !.encoding = c, !.itemSchema = i, !.schema = <<r>>] :
              e \in {<<>>, <<{"value"}>>, <<{"response"}>>}, s \in Samples, c \in {<<>>, Coded},
              i \in {<<>>, <<Inline("good")>>}, r \in Refs("good") }
Params == { [Param EXCEPT !.name = n, !.in = i, !.has = h, !.style = s, !.explode = x, !.schema = sc, !.unknown = u] :
              n \in {"", "q"}, i \in {"path", "query", "header", "cookie", "typo"}, h \in {{}, {"required"}},
              s \in {"", "form", "label", "deepObject"}, x \in {<<>>, <<FALSE>>},
              sc \in {<<>>, <<Inline("good")>>}, u \in {{}, {"typo"}} }
Head1 == [has |-> {}, style |-> "", explode |-> <<>>, schema |-> <<Inline("good")>>, content |-> <<>>]
Headers == { [Head1 EXCEPT !.has = h, !.style = s, !.schema = sc, !.content = c] :
               h \in {{}, {"name"}}, s \in {"", "form"}, sc \in {<<>>, <<Inline("typo")>>},
               c \in {<<>>, Json(Media), Json(Media) \o Json(Media)} }
Held == { [NoComponents EXCEPT !.schemas = Named1(Inline("allOf typo")), !.responses = Named1(r), !.bodies = Named1(b),
                               !.headers = Named1(Inline(Head1)), !.parameters = Named1(Inline(Param)),
                               !.examples = Named1(Inline(Ex)), !.callbacks = Named1(Inline("silent")),
                               !.links = Named1(Inline([has |-> l, unknown |-> {}]))] :
            r \in Refs([OK EXCEPT !.content = Json([Media EXCEPT !.example = <<{"request"}>>]),
                                  !.headers = <<[key |-> Ident("h"), of |-> Inline(Head1)]>>]),
            b \in Refs([has |-> {"content"}, unknown |-> {}, content |-> Json(Media) \o Json(Media)]),
            l \in {{}, {"operationId"}, {"operationId", "operationRef"}} }

\* TLC keeps the value of a definition, but evaluates what stands for a constant again and again.
MCSchemas    == SchemaTable
MCOperations == OperationTable
MCPathItems  == PathItemTable
MCCallbacks  == CallbackTable

As(kind, objects) == { [kind |-> kind, object |-> o] : o \in objects }
MCSubjects ==
  As("document", Routed \cup Secured \cup Described \cup Served
                 \cup { [Doc EXCEPT !.components = <<h>>, !.version = v] : h \in Held, v \in {"3.0", "3.1"} })
  \cup As("schema", DOMAIN SchemaTable) \cup As("parameter", Params) \cup As("header", Headers)
  \cup As("media type", Medias) \cup As("scheme", Schemes1) \cup As("operation", DOMAIN OperationTable)
  \cup As("discriminator", {[unknown |-> {}], [unknown |-> {"typo"}]})
  \cup As("xml", {[unknown |-> {"typo"}]})

Given(options) == [ctx |-> {}, opts |-> options]
MCCalls == { Given({}), Given({"v31", "v32"}), Given({"typo", "no examples", "no patterns"}),
             Given({"strict extensions", "formats", "no defaults", "as request"}),
             [ctx |-> {"typo"}, opts |-> {}] }
=============================================================================
