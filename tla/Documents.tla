----------------------------- MODULE Documents -----------------------------
(***************************************************************************)
(* Whether a document complies with OpenAPI: the Validate methods of       *)
(* package openapi3.                                                       *)
(*                                                                         *)
(* An object is a record: "has" holds the scalar fields that are set,      *)
(* "unknown" the fields OpenAPI does not know ("x-" ones aside), and the   *)
(* other fields its parts.  An optional part is a sequence of at most one, *)
(* a map a sequence of [key, of] in the order of componentNames.  Objects  *)
(* that others can share or lead back to (schemas, operations, path items, *)
(* callbacks) are kept by name.  An example or default is the set of       *)
(* directions in which it fits its schema.                                 *)
(*                                                                         *)
(* An error is [at, why]: the contexts wrapped around it, and the problems *)
(* in it, more than one when a MultiError was wrapped as a whole.  A       *)
(* method returns a sequence of errors, empty for nil.  The options of the *)
(* context are a set of names, those of AllowExtraSiblingFields included.  *)
(***************************************************************************)
EXTENDS Integers, FiniteSets, SequencesExt, TLC

CONSTANTS
  schemas, operations, pathItems, callbacks,  \* the objects that are shared, by name
  Subjects,  \* what is validated: [kind, object]
  Calls      \* how: [ctx, opts]

VARIABLES
  subject,  \* the object of the call
  call,     \* [ctx, opts]: the options of its context and those given to it
  errs      \* [first, all]: the errors by default and with EnableMultiError, or NotYet

vars == <<subject, call, errs>>

Fault(found, code) == IF found THEN <<[at |-> <<>>, why |-> <<code>>]>> ELSE <<>>

\* if err := ...; err != nil { return err }, one after another
FirstOf(steps) ==
  LET failed == { i \in DOMAIN steps : steps[i] # <<>> } IN
  IF failed = {} THEN <<>> ELSE steps[Min(failed)]

\* The errCollector of a method that can report more than one problem.
Collected(c, steps) == IF "multi" \in c THEN FlattenSeq(steps) ELSE FirstOf(steps)

\* emitWrapped: the context goes around each error ...
Under(label, errors) == [i \in DOMAIN errors |-> [errors[i] EXCEPT !.at = <<label>> \o @]]

\* ... where &XError{Cause: err} takes them as one.
Around(label, errors) ==
  IF Len(errors) < 2 THEN Under(label, errors)
  ELSE <<[at |-> <<label>>, why |-> FlattenSeq([i \in DOMAIN errors |-> errors[i].why])]>>

Each(parts, V(_)) == [i \in DOMAIN parts |-> V(parts[i])]

Extensions(c, o) == Fault(o.unknown \ c # {}, "extra fields")

ValidateIdentifier(key) == Fault(~key.ident, "identifier")

----------------------------------------------------------------------------
(* References.                                                             *)

\* A reference is [ref, to, told, extra, exts]: whether it has a $ref, its
\* Value, summary and description, all fields beside $ref, those starting with "x-".
NoRef == [ref |-> FALSE, to |-> <<>>, told |-> {}, extra |-> {}, exts |-> {}]

Extras(c, r) ==
  LET told  == IF r.ref \/ "v31" \in c THEN {} ELSE r.told \ c
      extra == IF ~r.ref \/ "v31" \in c THEN (r.extra \ c) \ r.exts ELSE {}
      exts  == IF "strict extensions" \in c THEN r.exts \ c ELSE {}
  IN Fault(told \cup extra \cup exts # {}, "extra siblings")

SchemaExtras(c, r) ==
  LET extra == IF ~r.ref THEN (r.extra \ c) \ r.exts ELSE {}
      exts  == IF "strict extensions" \in c THEN r.exts \ c ELSE {}
  IN Fault("v31" \notin c /\ extra \cup exts # {}, "extra siblings")

Followed(c, r, extras, V(_, _)) ==
  FirstOf(<<extras, IF r.to = <<>> THEN Fault(TRUE, "unresolved") ELSE V(c, r.to[1])>>)

----------------------------------------------------------------------------
(* Descriptions of the API and of its servers.                             *)

Contact(c, o) == Extensions(c, o)
Discriminator(c, o) == Extensions(c, o)
XML(c, o) == Extensions(c, o)

License(c, o) ==
  Collected(c, <<
    Fault("identifier" \in o.has /\ "v31" \notin c, "license identifier"),
    Fault("name" \notin o.has, "license name"),
    Fault({"url", "identifier"} \subseteq o.has, "license url and identifier"),
    Extensions(c, o)>>)

Info(c, o) ==
  Collected(c, <<
    Fault("summary" \in o.has /\ "v31" \notin c, "info summary")>>
    \o Each(o.contact, LAMBDA x : Contact(c, x))
    \o Each(o.license, LAMBDA x : License(c, x))
    \o <<Fault("version" \notin o.has, "info version"),
         Fault("title" \notin o.has, "info title"),
         Extensions(c, o)>>)

\* o.has has "bad url" when url.Parse fails.
ExternalDocs(c, o) ==
  Collected(c, <<
    Fault("url" \notin o.has, "external docs url"),
    Fault("bad url" \in o.has, "external docs bad url"),
    Extensions(c, o)>>)

Tag(c, o) ==
  Collected(c, Each(o.docs, LAMBDA x : Under("external docs", ExternalDocs(c, x)))
               \o <<Extensions(c, o)>>)

Tags(c, tags) ==
  Collected(c, FlattenSeq([i \in DOMAIN tags |-> <<
    Fault(tags[i].name # "" /\ \E j \in 1..(i - 1) : tags[j].name = tags[i].name, "duplicate tag"),
    Under(tags[i].name, Tag(c, tags[i]))>>]))

ServerVariable(c, o) ==
  FirstOf(<<Fault("default" \notin o.has, "variable default"), Extensions(c, o)>>)

\* o.url is the sequence of the variables in the URL.
Server(c, o) ==
  LET Named(v) == \E i \in DOMAIN o.url : o.url[i] = v.key IN
  Collected(c, <<
    Fault("url" \notin o.has, "server url"),
    Fault("stray brace" \in o.has, "server braces"),
    Fault(\E i \in DOMAIN o.url : \A j \in DOMAIN o.variables : o.variables[j].key # o.url[i],
          "undeclared variable")>>
    \o Each(o.variables, LAMBDA v : IF Named(v) THEN ServerVariable(c, v.of)
                                     ELSE Fault(TRUE, "unused variable"))
    \o <<Extensions(c, o)>>)

Servers(c, servers) == Collected(c, Each(servers, LAMBDA x : Server(c, x)))

----------------------------------------------------------------------------
(* Security schemes.                                                       *)

OAuthFlow(c, o) ==
  FirstOf(<<Fault("bad refreshUrl" \in o.has, "refreshUrl"),
            Fault("scopes" \notin o.has, "scopes"),
            Extensions(c, o)>>)

FlowOfType(c, type, o) ==
  LET URL(field, types) ==
        FirstOf(<<Fault(field \notin o.has /\ type \in types, "required " \o field),
                  Fault(field \in o.has /\ type \notin types, "forbidden " \o field),
                  Fault(("bad " \o field) \in o.has, field)>>)
  IN FirstOf(<<URL("authorizationUrl", {"implicit", "authorizationCode"}),
               URL("tokenUrl", {"password", "clientCredentials", "authorizationCode"}),
               OAuthFlow(c, o)>>)

OAuthFlows(c, o) ==
  LET Flow(type) == IF type \in DOMAIN o.flows
                    THEN Around(type, FlowOfType(c, type, o.flows[type])) ELSE <<>>
  IN FirstOf(<<Flow("implicit"), Flow("password"), Flow("clientCredentials"),
               Flow("authorizationCode"), Extensions(c, o)>>)

SecurityScheme(c, o) ==
  FirstOf(<<
    CASE o.type = "http" -> Fault("http scheme" \notin o.has, "http scheme")
      [] o.type = "openIdConnect" -> Fault("openIdConnectUrl" \notin o.has, "openIdConnectUrl")
      [] o.type = "mutualTLS" -> Fault("v31" \notin c, "mutualTLS")
      [] OTHER -> Fault(o.type \notin {"apiKey", "oauth2"}, "scheme type"),
    IF o.type = "apiKey"
    THEN FirstOf(<<Fault(o.in \notin {"query", "header", "cookie"}, "apiKey in"),
                   Fault("name" \notin o.has, "apiKey name")>>)
    ELSE Fault(o.in # "" \/ "name" \in o.has, "forbidden in or name"),
    Fault("bearerFormat" \in o.has /\ ~(o.type = "http" /\ "bearer" \in o.has), "bearerFormat"),
    IF o.type = "oauth2"
    THEN IF o.flows = <<>> THEN Fault(TRUE, "flows")
         ELSE Around("flow", OAuthFlows(c, o.flows[1]))
    ELSE Fault(o.flows # <<>>, "forbidden flows"),
    Extensions(c, o)>>)

----------------------------------------------------------------------------
(* Schemas.                                                                *)

Only31 == <<"const", "examples", "prefixItems", "contains", "minContains", "maxContains",
  "patternProperties", "dependentSchemas", "propertyNames", "unevaluatedItems",
  "unevaluatedProperties", "if", "then", "else", "dependentRequired", "$defs", "$schema",
  "$comment", "$id", "$anchor", "$dynamicRef", "$dynamicAnchor", "contentMediaType",
  "contentEncoding", "contentSchema">>

\* The schemas under a keyword.
Sub(s, keyword) == IF keyword \in DOMAIN s.subs THEN s.subs[keyword] ELSE <<>>
Present(s, keyword) == keyword \in s.has \/ Sub(s, keyword) # <<>>

\* The checks on a schema's own fields that come before its subschemas.
Versioned(c, s) ==
  IF "v31" \in c
  THEN Fault("boolean exclusive bound" \in s.has, "boolean exclusive bound")
  ELSE FirstOf(<<Fault(Len(s.types) > 1, "type array"),
                 Fault("number exclusive bound" \in s.has, "number exclusive bound")>>
               \o [i \in DOMAIN Only31 |->
                     Fault(Present(s, Only31[i]) /\ Only31[i] \notin c, Only31[i])])

OwnFields(c, s) ==
  FirstOf(<<Fault({"readOnly", "writeOnly"} \subseteq s.has /\ "v31" \notin c, "readOnly and writeOnly"),
            Fault("required twice" \in s.has, "duplicate required"),
            Versioned(c, s)>>)

Type(c, s, t) ==
  CASE t \in {"number", "integer"} ->
         Fault("unsupported format" \in s.has /\ "formats" \in c, "format")
    [] t = "string" ->
         FirstOf(<<Fault("unsupported format" \in s.has /\ "formats" \in c, "format"),
                   Fault("bad pattern" \in s.has /\ "no patterns" \notin c, "pattern")>>)
    [] t = "array" ->
         Fault(Sub(s, "items") = <<>> /\ Sub(s, "prefixItems") = <<>> /\ "v31" \notin c, "items")
    [] t = "null" -> Fault("v31" \notin c, "type")
    [] OTHER -> Fault(t \notin {"boolean", "object"}, "type")

\* validateExampleValue
ValidateExample(c, fits) ==
  Fault((IF "as request" \in c THEN "request"
         ELSE IF "as response" \in c THEN "response" ELSE "value") \notin fits, "value")

\* A step is an error of the schema itself, or a reference to follow.
Step(own, ref, label, extras) == [own |-> own, ref |-> ref, label |-> label, extras |-> extras]
Own(errors) == Each(errors, LAMBDA e : Step(<<e>>, NoRef, "", FALSE))
Combined(s, k) == Each(Sub(s, k), LAMBDA r : Step(<<>>, r, k, FALSE))
Plainly(s, k) == Each(Sub(s, k), LAMBDA r : Step(<<>>, r, "", FALSE))
\* Mutant: only the first schema under a keyword is validated.
CheckedFirst(s, k) == IF Sub(s, k) = <<>> THEN <<>> ELSE <<Step(<<>>, Sub(s, k)[1], "", TRUE)>>

Checked(s, k) == Each(Sub(s, k), LAMBDA r : Step(<<>>, r, "", TRUE))
OneForm(s, k) == Own(Fault(k \in s.has /\ Sub(s, k) # <<>>, "both forms of " \o k)) \o Checked(s, k)

Steps(c, s) ==
  Own(OwnFields(c, s))
  \o Combined(s, "oneOf") \o Combined(s, "anyOf") \o Combined(s, "allOf")
  \o Plainly(s, "not") \o Plainly(s, "if") \o Plainly(s, "then") \o Plainly(s, "else")
  \o Own(FirstOf([i \in DOMAIN s.types |-> Type(c, s, s.types[i])]))
  \o Checked(s, "items") \o Checked(s, "properties") \o OneForm(s, "additionalProperties")
  \o Checked(s, "prefixItems") \o Checked(s, "contains") \o Checked(s, "patternProperties")
  \o Checked(s, "dependentSchemas") \o Checked(s, "$defs") \o Checked(s, "propertyNames")
  \o OneForm(s, "unevaluatedItems") \o OneForm(s, "unevaluatedProperties")
  \o Checked(s, "contentSchema")
  \o Own(FirstOf(Each(s.docs, LAMBDA x : Around("external docs", ExternalDocs(c, x)))))
  \o Own(IF "no defaults" \in c THEN <<>>
         ELSE FirstOf(Each(s.default, LAMBDA v : ValidateExample(c, v))))
  \o Own(IF "no examples" \in c THEN <<>>
         ELSE FirstOf(Each(s.example, LAMBDA v : ValidateExample(c, v))))
  \o Own(Extensions(c, s))

\* Schema.validate: the schemas visited so far and the error.
RECURSIVE Visit(_, _, _)
Visit(c, name, visited) ==
  LET s == schemas[name]
      Take(acc, step) ==
        LET extras == IF step.extras THEN SchemaExtras(c, step.ref) ELSE <<>>
            below == Visit(c, step.ref.to[1], acc.visited)
        IN CASE acc.errs # <<>> -> acc
             [] acc.errs = <<>> /\ step.own # <<>> -> [acc EXCEPT !.errs = step.own]
             [] OTHER -> IF extras # <<>> THEN [acc EXCEPT !.errs = extras]
                         ELSE IF step.ref.to = <<>> THEN [acc EXCEPT !.errs = Fault(TRUE, "unresolved")]
                         ELSE [below EXCEPT !.errs = IF step.label = "" THEN @ ELSE Around(step.label, @)]
      marked == [visited |-> visited \cup {name}, errs |-> <<>>]
  IN IF name \in visited THEN [visited |-> visited, errs |-> <<>>]
     ELSE IF "always" \in s.has
     THEN [marked EXCEPT !.errs =
             FirstOf(<<Fault("v31" \notin c, "boolean schema"),
                       Fault(s.has # {"always"} \/ s.unknown # {}, "boolean schema fields")>>)]
     ELSE FoldLeft(Take, marked, Steps(c, s))

Schema(c, name) == Visit(c, name, {}).errs

SchemaRef(c, r) == Followed(c, r, SchemaExtras(c, r), Schema)

----------------------------------------------------------------------------
(* Contents, headers and parameters.                                       *)

\* SerializationMethod
Serialized(o, style) ==
  LET s == IF o.style = "" THEN style ELSE o.style IN
  [style |-> s,
   explode |-> IF o.explode # <<>> THEN o.explode[1]
               ELSE style = "form" /\ s \notin {"spaceDelimited", "pipeDelimited"}]

\* The serialization methods of a location.
Supported(in, sm) ==
  CASE in = "path" -> sm.style \in {"simple", "label", "matrix"}
    [] in \in {"query", "media type"} ->
         sm.style \in {"form", "spaceDelimited", "pipeDelimited"} \/ (sm.style = "deepObject" /\ sm.explode)
    [] in = "header" -> sm.style = "simple"
    [] OTHER -> sm.style = "form"

Example(c, o) ==
  FirstOf(<<Fault(o.value # <<>> /\ "externalValue" \in o.has, "value and externalValue"),
            Fault(o.value = <<>> /\ "externalValue" \notin o.has, "no value"),
            Extensions(c, o)>>)

ExampleRef(c, r) == Followed(c, r, Extras(c, r), Example)

\* The examples beside a schema.  A value that is left out is judged as null.
Examples(c, o) ==
  LET nullFits == schemas[o.schema[1].to[1]].null IN
  FirstOf(
    Each(o.example, LAMBDA v : ValidateExample(c, v))
    \o FlattenSeq(Each(o.examples, LAMBDA x : <<
         Around(x.key, ExampleRef(c, x.of)),
         IF x.of.to = <<>> THEN <<>>
         ELSE Around(x.key, ValidateExample(c, IF x.of.to[1].value = <<>> THEN nullFits
                                               ELSE x.of.to[1].value[1]))>>)))

\* Content keys list media ranges; the last key to list one is remembered.
Overlap(content) ==
  Fault(\E i, j \in DOMAIN content : i < j /\ content[i].key.ranges \cap content[j].key.ranges # {},
        "content keys overlap")

RECURSIVE HeaderRef(_, _)

Encoding(c, o) ==
  FirstOf(<<Fault("bad contentType" \in o.has, "contentType")>>
          \o FlattenSeq(Each(o.headers, LAMBDA h : <<ValidateIdentifier(h.key), HeaderRef(c, h.of)>>))
          \o <<Fault(~Supported("media type", Serialized(o, "form")), "encoding style"),
               Extensions(c, o)>>)

MediaType(c, o) ==
  LET undirected == c \ {"as request", "as response"} IN
  FirstOf(
    Each(o.schema, LAMBDA r : FirstOf(<<
      SchemaRef(undirected, r),
      Fault(o.example # <<>> /\ o.examples # <<>>, "example and examples"),
      IF "no examples" \in c \/ r.to = <<>> THEN <<>> ELSE Examples(c, o)>>))
    \o Each(o.encoding, LAMBDA e : Around(e.key, Encoding(c, e.of)))
    \o Each(o.itemSchema, LAMBDA r : FirstOf(<<
         Fault("v32" \notin c, "itemSchema"), SchemaRef(undirected, r)>>))
    \o <<Extensions(c, o)>>)

Content(c, content) ==
  FirstOf(<<Overlap(content)>> \o Each(content, LAMBDA m : MediaType(c, m.of)))

\* A header or parameter has a schema or a content of one media type.
SchemaOrContent(o) == Fault((o.schema = <<>>) = (o.content = <<>>), "schema or content")

Header(c, o) ==
  FirstOf(<<Fault("name" \in o.has, "header name"), Fault("in" \in o.has, "header in"),
            Around("schema", Fault(~Supported("header", Serialized(o, "simple")), "header style")),
            Around("schema", SchemaOrContent(o))>>
          \o Each(o.schema, LAMBDA r : Around("schema", SchemaRef(c, r)))
          \o <<Around("content", Fault(Len(o.content) > 1, "single entry")),
               Around("content", Content(c, o.content))>>)

HeaderRef(c, r) == Followed(c, r, Extras(c, r), Header)

Parameter(c, o) ==
  LET sm == Serialized(o, IF o.in \in {"path", "header"} THEN "simple" ELSE "form")
  IN FirstOf(<<
       Fault(o.name = "", "parameter name"),
       Fault(o.in \notin {"path", "query", "header", "cookie"}, "parameter in"),
       Fault(o.in = "path" /\ "required" \notin o.has, "path parameter required"),
       Around("schema", Fault(~Supported(o.in, sm), "parameter style")),
       Around("schema", SchemaOrContent(o)),
       Around("content", Fault(Len(o.content) > 1, "single entry")),
       Around("content", Content(c, o.content))>>
       \o Each(o.schema, LAMBDA r : Around("schema", SchemaRef(c, r)))
       \o <<Fault(o.schema # <<>> /\ o.example # <<>> /\ o.examples # <<>>, "example and examples"),
            \* without examples, there is no look at the extensions either
            IF o.schema # <<>> /\ ("no examples" \in c \/ o.schema[1].to = <<>>) THEN <<>>
            ELSE FirstOf(<<IF o.schema = <<>> THEN <<>> ELSE Examples(c, o), Extensions(c, o)>>)>>)

ParameterRef(c, r) == Followed(c, r, Extras(c, r), Parameter)

Parameters(c, refs) ==
  LET Same(i, j) == /\ refs[i].to # <<>> /\ refs[j].to # <<>>
                    /\ refs[i].to[1].in = refs[j].to[1].in
                    /\ refs[i].to[1].name = refs[j].to[1].name
  IN FirstOf(FlattenSeq([i \in DOMAIN refs |-> <<
       Fault(\E j \in 1..(i - 1) : Same(i, j), "duplicate parameter"),
       ParameterRef(c, refs[i])>>]))

----------------------------------------------------------------------------
(* Operations and path items.                                              *)

\* The direction in which the examples below are judged.
Directed(c, way) ==
  IF "no examples" \in c THEN c ELSE (c \ {"as request", "as response"}) \cup {way}

RequestBody(c, o) ==
  FirstOf(<<Fault("content" \notin o.has, "body content"),
            Content(Directed(c, "as request"), o.content),
            Extensions(c, o)>>)

RequestBodyRef(c, r) == Followed(c, r, Extras(c, r), RequestBody)

Link(c, o) ==
  FirstOf(<<Fault(o.has \cap {"operationId", "operationRef"} = {}, "operationId or operationRef"),
            Fault({"operationId", "operationRef"} \subseteq o.has, "operationId and operationRef"),
            Extensions(c, o)>>)

LinkRef(c, r) == Followed(c, r, Extras(c, r), Link)

Response(c, o) ==
  LET directed == Directed(c, "as response") IN
  FirstOf(<<Fault("description" \notin o.has, "description"), Content(directed, o.content)>>
          \o Each(o.headers, LAMBDA h : HeaderRef(directed, h.of))
          \o Each(o.links, LAMBDA l : LinkRef(directed, l.of))
          \o <<Extensions(directed, o)>>)

ResponseRef(c, r) == Followed(c, r, Extras(c, r), Response)

Responses(c, o) ==
  Collected(c, <<Fault(o.of = <<>>, "no responses")>>
               \o Each(o.of, LAMBDA x : ResponseRef(c, x.of)) \o <<Extensions(c, o)>>)

\* A responses of <<>> is nil, one that has "null" was spelled out as null.
Operation(c, o) ==
  LET given == o.responses # <<>> /\ "null" \notin o.responses[1].has IN
  Collected(c, <<Parameters(c, o.parameters)>>
    \o Each(o.body, LAMBDA r : RequestBodyRef(c, r))
    \o <<IF given THEN Responses(c, o.responses[1])
         ELSE Fault(o.responses # <<>> \/ "v31" \notin c, "responses")>>
    \o Each(o.docs, LAMBDA x : Under("external docs", ExternalDocs(c, x)))
    \o <<Extensions(c, o)>>)

Fixed == {"CONNECT", "DELETE", "GET", "HEAD", "OPTIONS", "PATCH", "POST", "PUT", "TRACE", "QUERY"}

\* additionalOperations are [key, upper, token, of]: a method, the method in
\* upper case, and whether it is a token of HTTP.
AdditionalOperation(m) ==
  FirstOf(<<Fault(m.key \in Fixed, "duplicate method"),
            Fault(m.upper # m.key /\ m.upper \in Fixed, "method case"),
            Fault(~m.token, "method token")>>)

\* Operations(): the fixed fields win; sorted by method in the model's inputs.
Operations(p) ==
  p.operations \o SelectSeq(p.additional, LAMBDA m : \A i \in DOMAIN p.operations : p.operations[i].key # m.key)

PathItem(c, p) ==
  Collected(c, <<
    Fault("v32" \notin c /\ \E i \in DOMAIN p.operations : p.operations[i].key = "QUERY", "query"),
    Fault("v32" \notin c /\ p.additional # <<>>, "additionalOperations")>>
    \o Each(p.additional, AdditionalOperation)
    \o Each(Operations(p), LAMBDA m : Under(m.key, Operation(c, operations[m.of])))
    \o <<Parameters(c, p.parameters), Extensions(c, p)>>)

Callback(c, name) ==
  FirstOf(Each(callbacks[name].of, LAMBDA x : PathItem(c, pathItems[x.of])) \o <<Extensions(c, callbacks[name])>>)

CallbackRef(c, r) == Followed(c, r, Extras(c, r), Callback)
SecuritySchemeRef(c, r) == Followed(c, r, Extras(c, r), SecurityScheme)

\* A template is a sequence of [text, var]: a text, or a variable in braces,
\* whose name and decoration (a pattern, a star) do not count.
\* Mutant: templates are compared with the names of their variables.
Spelled(template) == template

Normalized(template) ==
  [i \in DOMAIN template |-> IF template[i].var # "" THEN "{}" ELSE template[i].text]

\* pathTemplateParamName, of each variable: a decoration is not part of var
VarsIn(template) == { template[i].var : i \in DOMAIN template } \ {""}

PathParams(refs) ==
  { r.to[1].name : r \in { x \in ToSet(refs) : x.to # <<>> /\ x.to[1].in = "path" } }

\* The parameters a path declares for an operation are those of its template.
ParametersFit(path, m) ==
  Fault(PathParams(pathItems[path.of].parameters) \cup PathParams(operations[m.of].parameters)
          # VarsIn(path.template),
        "path parameters")

Repeated(ids) == \E i \in DOMAIN ids : ids[i] # "" /\ \E j \in 1..(i - 1) : ids[j] = ids[i]

OperationIDs(paths) ==
  Fault(Repeated(FlattenSeq([i \in DOMAIN paths |->
          Each(Operations(pathItems[paths[i].of]), LAMBDA m : operations[m.of].id)])),
        "duplicate operationId")

\* The first path of a template stands for those that conflict with it.
Paths(c, o) ==
  LET Conflict(i) == \E j \in 1..(i - 1) :
        o.of[j].slash /\ Normalized(o.of[j].template) = Normalized(o.of[i].template)
      Entry(i) ==
        LET path == o.of[i] IN
        IF ~path.slash THEN <<Fault(TRUE, "no slash")>>
        ELSE IF Conflict(i) THEN <<Fault(TRUE, "conflicting paths")>>
        ELSE Each(Operations(pathItems[path.of]), LAMBDA m : ParametersFit(path, m))
             \o <<Under(path.key, PathItem(c, pathItems[path.of]))>>
  IN Collected(c, FlattenSeq([i \in DOMAIN o.of |-> Entry(i)])
                  \o <<OperationIDs(o.of), Extensions(c, o)>>)

----------------------------------------------------------------------------
(* Components.                                                             *)

ValidateMap(c, label, entries, V(_, _)) ==
  Collected(c, Each(entries, LAMBDA x :
    IF ~x.key.ident THEN Under(label, ValidateIdentifier(x.key))
    ELSE Under(label, V(c, x.of))))

Components(c, o) ==
  Collected(c, <<
    ValidateMap(c, "schema", o.schemas, SchemaRef),
    ValidateMap(c, "parameter", o.parameters, ParameterRef),
    ValidateMap(c, "request body", o.bodies, RequestBodyRef),
    ValidateMap(c, "response", o.responses, ResponseRef),
    ValidateMap(c, "header", o.headers, HeaderRef),
    ValidateMap(c, "security scheme", o.schemes, SecuritySchemeRef),
    ValidateMap(c, "example", o.examples, ExampleRef),
    ValidateMap(c, "link", o.links, LinkRef),
    ValidateMap(c, "callback", o.callbacks, CallbackRef),
    Extensions(c, o)>>)

----------------------------------------------------------------------------
(* Security requirements, with the paths, operations and callbacks seen.   *)

\* Mutant: the first error ends it in any mode.
StopsAnyway(c, errors) == errors # <<>>

Stops(c, errors) == errors # <<>> /\ "multi" \notin c

\* In turn, until the first error unless all are wanted.
InTurn(c, start, items, Visitor(_, _)) ==
  FoldLeft(LAMBDA acc, x :
             IF Stops(c, acc.errs) THEN acc
             ELSE LET v == Visitor(acc.seen, x) IN [seen |-> v.seen, errs |-> acc.errs \o v.errs],
           [seen |-> start, errs |-> <<>>], items)

Labelled(label, v) == [v EXCEPT !.errs = Under(label, @)]

\* Requirements are a sequence of the sequences of their schemes.
Requirements(c, schemes, seen, requirements) ==
  InTurn(c, seen, FlattenSeq(requirements), LAMBDA s, name :
    [seen |-> s, errs |-> Fault(\A i \in DOMAIN schemes : schemes[i].key.name # name, "undefined scheme")])

RECURSIVE SecuredPathItem(_, _, _, _)

SecuredCallback(c, schemes, seen, r) ==
  IF r.to = <<>> \/ <<"callback", r.to[1]>> \in seen THEN [seen |-> seen, errs |-> <<>>]
  ELSE InTurn(c, seen \cup {<<"callback", r.to[1]>>}, callbacks[r.to[1]].of,
              LAMBDA s, x : SecuredPathItem(c, schemes, s, x.of))

SecuredOperation(c, schemes, seen, name) ==
  LET o == operations[name]
      own == Requirements(c, schemes, seen \cup {<<"operation", name>>}, FlattenSeq(o.security))
      below == InTurn(c, own.seen, o.callbacks, LAMBDA s, x : SecuredCallback(c, schemes, s, x.of))
  IN IF <<"operation", name>> \in seen THEN [seen |-> seen, errs |-> <<>>]
     ELSE IF Stops(c, own.errs) THEN own
     ELSE [below EXCEPT !.errs = own.errs \o @]

SecuredPathItem(c, schemes, seen, name) ==
  IF <<"path", name>> \in seen THEN [seen |-> seen, errs |-> <<>>]
  ELSE InTurn(c, seen \cup {<<"path", name>>}, Operations(pathItems[name]),
              LAMBDA s, m : Labelled(m.of, SecuredOperation(c, schemes, s, m.of)))

SecurityRequirements(c, d) ==
  LET schemes == FlattenSeq(Each(d.components, LAMBDA x : x.schemes))
      places == <<[section |-> "security", of |-> <<>>]>>
        \o FlattenSeq(Each(d.paths, LAMBDA o : Each(o.of, LAMBDA x : [section |-> "paths", of |-> <<x.of>>])))
        \o Each(d.webhooks, LAMBDA w : [section |-> "webhooks", of |-> w.of])
        \o FlattenSeq(Each(d.components, LAMBDA o :
             Each(o.callbacks, LAMBDA x : [section |-> "components", of |-> <<x.of>>])))
      Place(seen, p) == Labelled(p.section,
        CASE p.section = "security" -> Requirements(c, schemes, seen, d.security)
          [] p.section = "components" -> SecuredCallback(c, schemes, seen, p.of[1])
          [] OTHER -> IF p.of = <<>> THEN [seen |-> seen, errs |-> <<>>]
                      ELSE SecuredPathItem(c, schemes, seen, p.of[1]))
  IN IF d.version \notin {"3.0", "3.1"} THEN <<>> ELSE InTurn(c, {}, places, Place).errs

----------------------------------------------------------------------------
(* Documents.                                                              *)

\* Options given to a call replace those of its context.
WithValidationOptions(c, opts) == IF opts = {} THEN c ELSE opts

OfVersion(version) ==
  CASE version = "3.1" -> {"v31"} [] version = "3.2" -> {"v31", "v32"} [] OTHER -> {}

Document(ctx, opts, d) ==
  LET c == WithValidationOptions(ctx, opts \cup OfVersion(d.version))
      later == d.version \in {"3.1", "3.2"}
      Section(label, errors) == <<Under(label, errors)>>
      Part(label, part, V(_, _)) == Each(part, LAMBDA x : Under(label, V(c, x)))
  IN Collected(c,
    <<Fault(d.version = "", "openapi"),
      Fault(d.webhooks # <<>> /\ ~later, "webhooks"),
      Fault("jsonSchemaDialect" \in d.has /\ ~later, "jsonSchemaDialect")>>
    \o Part("components", d.components, Components)
    \o (IF d.info = <<>> THEN Section("info", Fault(TRUE, "info")) ELSE Part("info", d.info, Info))
    \o (IF d.paths = <<>> THEN Section("paths", Fault(d.version = "3.0", "paths"))
        ELSE Part("paths", d.paths, Paths))
    \o Section("servers", Servers(c, d.servers))
    \o Section("tags", Tags(c, d.tags))
    \o Part("external docs", d.docs, ExternalDocs)
    \o Each(d.webhooks, LAMBDA w :
         Under("webhooks", IF w.of = <<>> THEN Fault(TRUE, "webhook") ELSE PathItem(c, pathItems[w.of[1]])))
    \o Section("jsonSchemaDialect", Fault("relative dialect" \in d.has, "dialect"))
    \o <<SecurityRequirements(c, d), Extensions(c, d)>>)

Validate(ctx, opts, kind, o) ==
  LET c == WithValidationOptions(ctx, opts) IN
  CASE kind = "document" -> Document(ctx, opts, o)
    [] kind = "schema" -> Schema(c, o)
    [] kind = "parameter" -> Parameter(c, o)
    [] kind = "header" -> Header(c, o)
    [] kind = "media type" -> MediaType(c, o)
    [] kind = "operation" -> Operation(c, operations[o])
    [] kind = "scheme" -> SecurityScheme(c, o)
    [] kind = "discriminator" -> Discriminator(c, o)
    [] kind = "xml" -> XML(c, o)

----------------------------------------------------------------------------
NotYet == [first |-> <<>>, all |-> <<>>, done |-> FALSE]

Init == subject \in Subjects /\ call \in Calls /\ errs = NotYet

Outcome(results) == [first |-> results[{}], all |-> results[{"multi"}], done |-> TRUE]

\* The same call, by default and with EnableMultiError among its options.
Check ==
  /\ ~errs.done
  /\ errs' = Outcome([more \in {{}, {"multi"}} |->
                        Validate(IF call.ctx = {} THEN {} ELSE call.ctx \cup more,
                                 IF call.ctx = {} THEN call.opts \cup more ELSE call.opts,
                                 subject.kind, subject.object)])
  /\ UNCHANGED <<subject, call>>

Next == Check

Spec == Init /\ [][Next]_vars

----------------------------------------------------------------------------
(* Properties.                                                             *)

Accepted(kind) == errs.done /\ subject.kind = kind /\ errs.first = <<>>

Closure(start, Below(_)) ==
  LET grow[n \in Nat] == IF n = 0 THEN start
                          ELSE grow[n - 1] \cup UNION { Below(x) : x \in grow[n - 1] }
  IN grow[5]  \* deeper than any input

SchemasBelow(name) ==
  UNION { UNION { ToSet(r.to) : r \in ToSet(schemas[name].subs[k]) } : k \in DOMAIN schemas[name].subs }

OperationsIn(p) == { m.of : m \in ToSet(Operations(pathItems[p])) }

\* The path items under those callbacks of an operation that are resolved.
CallbackItems(refs) ==
  UNION { { x.of : x \in ToSet(callbacks[name].of) } : name \in UNION { ToSet(r.to) : r \in refs } }

ItemsBelow(p) == UNION { CallbackItems({ x.of : x \in ToSet(operations[o].callbacks) }) : o \in OperationsIn(p) }

\* Every operation that a document leads to.
OperationsOf(d) ==
  LET start == { x.of : x \in UNION { ToSet(o.of) : o \in ToSet(d.paths) } }
               \cup UNION { ToSet(w.of) : w \in ToSet(d.webhooks) }
               \cup CallbackItems({ x.of : x \in UNION { ToSet(o.callbacks) : o \in ToSet(d.components) } })
  IN UNION { OperationsIn(p) : p \in Closure(start, ItemsBelow) }

Schemes(d) == { x.key.name : x \in UNION { ToSet(o.schemes) : o \in ToSet(d.components) } }

SchemesOf(requirements) == SelectSeq(FlattenSeq(requirements), LAMBDA name : name \notin Schemes(subject.object))

(* A schema that is accepted leads to no schema that would be refused by   *)
(* itself, whichever keyword leads there and however the schemas refer     *)
(* back to each other: validate looks at each of them once.                *)
AcceptedThroughout ==
  Accepted("schema") =>
    \A name \in Closure({subject.object}, SchemasBelow) :
      Schema(WithValidationOptions(call.ctx, call.opts), name) = <<>>

(* In an accepted document no two templates match the same paths, each     *)
(* operation has exactly the path parameters of its template, and no       *)
(* operationId is used twice: what routers and request validation rely on. *)
Unambiguous ==
  Accepted("document") => \A o \in ToSet(subject.object.paths) :
    LET Shape(t) == [i \in DOMAIN t |-> [text |-> t[i].text, var |-> t[i].var # ""]]
        ops(i) == { m.of : m \in ToSet(Operations(pathItems[o.of[i].of])) }
    IN \A i, j \in DOMAIN o.of :
         /\ i # j => Shape(o.of[i].template) # Shape(o.of[j].template)
         /\ i # j => \A x \in ops(i), y \in ops(j) :
                       operations[x].id = operations[y].id => operations[x].id = ""
         /\ \A x \in ops(i) :
              PathParams(operations[x].parameters \o pathItems[o.of[i].of].parameters)
                = { o.of[i].template[k].var : k \in DOMAIN o.of[i].template } \ {""}

(* Every security requirement of an operation that the document leads to,  *)
(* through webhooks and callbacks of callbacks, is reported exactly once   *)
(* if no scheme is declared for it, although operations share callbacks    *)
(* and callbacks lead back to them.                                        *)
ReportedOnce ==
  /\ errs.done /\ subject.kind = "document" /\ subject.object.version \in {"3.0", "3.1"}
  /\ call.ctx = {}  \* or EnableMultiError may be lost
  =>
    LET d == subject.object
        reached == OperationsOf(d)
        Reports(place) == SelectSeq(errs.all, LAMBDA e : e.why = <<"undefined scheme">> /\ Last(e.at) = place)
    IN /\ Len(Reports("security")) = Len(SchemesOf(d.security))
       /\ \A name \in DOMAIN operations :
            Len(Reports(name)) = IF name \notin reached THEN 0
                                 ELSE Len(SchemesOf(FlattenSeq(operations[name].security)))
=============================================================================
