--------------------------- MODULE MCConversions ---------------------------
(* Swagger 2.0 documents for Conversions. *)
EXTENDS Conversions

Json == "application/json"
Form == "multipart/form-data"
To(section, name) == [to |-> section, name |-> name]
Pet == [Plain EXCEPT !.ref = To("definitions", "Pet")]

Body(name, schema) == [Parameter2 EXCEPT !.in = "body", !.name = name, !.schema = <<schema>>]
Simple(in, name, type) == [Parameter2 EXCEPT !.in = in, !.name = name, !.type = type]
Query(name, cf) == [Simple("query", name, "array") EXCEPT !.cf = cf]
Shared(name) == [Parameter2 EXCEPT !.ref = To("parameters", name)]

\* Parameters that are referred to: a body, a file of a form, a parameter.
Common ==
  "B" :> [Body("b", Pet) EXCEPT !.required = TRUE] @@
  "F" :> [Simple("formData", "f", "file") EXCEPT !.required = TRUE] @@
  "Q" :> Query("q", "pipes")

Nothing ==
  [host |-> "", basePath |-> "", schemes |-> {}, consumes |-> {}, produces |-> {},
   definitions |-> "Pet" :> [Plain EXCEPT !.type = "object"],
   parameters |-> <<>>, responses |-> <<>>, level |-> {}, operations |-> <<>>, security |-> <<>>]

Operation(ps) == [parameters |-> ps, consumes |-> {}, produces |-> {}, responses |-> <<>>]

\* At most two parameters at each level, a form only where a form is consumed.
Loose == { Simple("query", "q", "string"), [Simple("path", "id", "string") EXCEPT !.required = TRUE],
           Query("body", "multi"), Shared("Q") }
Bodies == { Body("b", [Plain EXCEPT !.type = "string"]), Body("b", Pet), Shared("B") }
Fields == { Simple("formData", "f", "string"), Simple("formData", "g", "file"),
            [Simple("formData", "h", "array") EXCEPT !.required = TRUE], Shared("F") }
Target(p) == IF p.ref = NoRef THEN p ELSE Common[p.ref.name]
Fitting(p, q) == p # q => <<Target(p).in, Target(p).name>> # <<Target(q).in, Target(q).name>>
Levels(ps) == { {r[1], r[2]} : r \in { t \in ps \X ps : Fitting(t[1], t[2]) } } \cup {{}}

WithParameters ==
  { [Nothing EXCEPT !.parameters = Common, !.consumes = c.consumes, !.level = l,
                    !.operations = "GET" :> Operation({}) @@
                                   "POST" :> [Operation(o) EXCEPT !.consumes = c.own]] :
      c \in { [consumes |-> {Json}, own |-> {}], [consumes |-> {}, own |-> {}] },
      l \in Levels(Loose \cup Bodies), o \in Levels(Loose \cup Bodies) } \cup
  { [Nothing EXCEPT !.parameters = [k \in {"F", "Q"} |-> Common[k]],
                    !.consumes = c.consumes, !.level = l,
                    !.operations = "POST" :> [Operation(o) EXCEPT !.consumes = c.own] @@
                                   "PUT" :> Operation({})] :
      c \in { [consumes |-> {Form}, own |-> {}], [consumes |-> {Form}, own |-> {Form, Json}] },
      l \in Levels(Loose \cup Fields), o \in Levels(Loose \cup Fields) } \cup
  { [Nothing EXCEPT !.parameters = Common,
                    !.operations = "POST" :> Operation({Simple("query", "body", "string"),
                                                         Simple("query", "requestBody", "string"), b})] :
      b \in Bodies } \cup
  { [Nothing EXCEPT !.operations = "POST" :> Operation({ Query("q", cf) })] :
      cf \in {"", "csv", "ssv", "pipes", "multi"} }

Schemas ==
  LET str == [Plain EXCEPT !.type = "string"]
      leaves == { str, Pet, [str EXCEPT !.ext = {"x-nullable", "x-a"}] }
  IN leaves \cup
     { [Plain EXCEPT !.type = "array", !.items = <<s>>] : s \in leaves } \cup
     { [Plain EXCEPT !.type = "object", !.props = [n \in ns |-> s], !.required = r, !.discriminator = d] :
         ns \in SUBSET {"n", "m"}, s \in leaves, r \in {{}, {"n"}}, d \in {"", "n"} } \cup
     { [Plain EXCEPT !.allOf = <<Pet, s>>, !.ext = e] : s \in leaves, e \in {{}, {"x-nullable"}} } \cup
     { [Plain EXCEPT !.type = "object", !.more = <<str>>] }

WithSchemas ==
  { [Nothing EXCEPT !.definitions = "A" :> s @@ @,
                    !.operations = "PUT" :> Operation({ Body("b", s) })] : s \in Schemas }

Answering(s, hs, ps, xs) ==
  [Nothing EXCEPT
    !.produces = ps,
    !.responses = "R" :> [ref |-> NoRef, schema |-> s, headers |-> hs, examples |-> xs],
    !.operations = "GET" :> [Operation({}) EXCEPT
      !.produces = ps,
      !.responses = "200" :> [ref |-> NoRef, schema |-> s, headers |-> hs, examples |-> xs] @@
                    "404" :> [ref |-> To("responses", "R")]]]

WithResponses ==
  { Answering(s, hs, ps, xs) :
      s \in {<<>>} \cup { <<t>> : t \in Schemas }, ps \in {{}, {Json}, {Json, "text/csv"}},
      hs \in {<<>>, "H" :> Simple("", "", "array")},
      xs \in {<<>>, Json :> "example", "text/csv" :> "example"} }

\* One operation whose answer has an example and no schema, beside another
\* whose body FromV3 finds a name for or not.
Exemplified ==
  { LET a == Answering(<<>>, <<>>, {}, Json :> "example") IN
    [a EXCEPT !.responses["R"].examples = <<>>,
              !.operations = "POST" :> Operation({Body("b", Pet), Simple("query", "body", "string")} \cup ps) @@ @] :
      ps \in {{}, {Simple("query", "requestBody", "string")}} }

Scheme(type) == [type |-> type, scheme |-> "", in |-> "", name |-> "", flow |-> "",
                 auth |-> "", token |-> "", scopes |-> {}]
OAuth(flow, auth, token) ==
  [Scheme("oauth2") EXCEPT !.flow = flow, !.auth = auth, !.token = token, !.scopes = {"read"}]
SecuritySchemes ==
  { Scheme("basic"), [Scheme("apiKey") EXCEPT !.in = "query", !.name = "key"],
    OAuth("implicit", "url", ""), OAuth("accessCode", "url", "token"),
    OAuth("password", "", "token"), OAuth("application", "", "token"), OAuth("device", "", "token") }

WithServers ==
  { [Nothing EXCEPT !.host = h, !.basePath = b, !.schemes = s, !.security = "K" :> k] :
      h \in {"", "host", "host/path"}, b \in {"", "/v1"}, s \in SUBSET {"http", "https"},
      k \in SecuritySchemes }

\* A parameter that is but a reference to another can be converted before it.
Chained == [Nothing EXCEPT !.parameters = "A" :> Shared("B") @@ Common]

AllDocuments ==
  WithParameters \cup WithSchemas \cup WithResponses \cup Exemplified \cup WithServers \cup {Chained}
MCDocuments == AllDocuments
=============================================================================
