---------------------------- MODULE Conversions ----------------------------
(***************************************************************************)
(* A Swagger 2.0 document made into an OpenAPI 3 one and back: ToV3 and    *)
(* FromV3 of package openapi2conv.                                         *)
(*                                                                         *)
(* A document has one path item.  A reference is [to, name], NoRef when    *)
(* there is none; an optional schema is a sequence of at most one.  A      *)
(* schema has the same fields in both versions: ext holds its extensions   *)
(* and form the one the converter itself leaves there, x-formData-name.    *)
(***************************************************************************)
EXTENDS Integers, FiniteSets, SequencesExt, TLC

CONSTANT Documents  \* the Swagger 2.0 documents

VARIABLES
  given,  \* the document handed to ToV3
  phase,  \* "servers", "parameters", "v3", "components", "done", "failed" or "panicked"
  todo,   \* the keys of a map in iteration that are still to come
  doc3, doc2  \* the document ToV3 makes, and the one FromV3 makes of that

vars == <<given, phase, todo, doc3, doc2>>

NoRef == [to |-> "", name |-> ""]

Plain ==
  [ref |-> NoRef, type |-> "", format |-> "", nullable |-> FALSE, ext |-> {}, form |-> "",
   required |-> {}, discriminator |-> "", items |-> <<>>, props |-> <<>>, allOf |-> <<>>,
   more |-> <<>>]

Parameter2 ==
  [ref |-> NoRef, in |-> "", name |-> "", required |-> FALSE, type |-> "", cf |-> "",
   schema |-> <<>>]

\* ref2To3, read both ways.
Section3 == "definitions" :> "schemas" @@ "responses" :> "responses" @@ "parameters" :> "parameters"

ToV3Ref(ref) == IF ref.to \in DOMAIN Section3 THEN [ref EXCEPT !.to = Section3[@]] ELSE ref

FromV3Ref(ref) ==
  CASE ref.to = "schemas" -> [ref EXCEPT !.to = "definitions"]
    [] ref.to = "requestBodies" -> [ref EXCEPT !.to = "parameters"]
    [] OTHER -> ref

----------------------------------------------------------------------------
(* To OpenAPI 3.                                                           *)

RECURSIVE ConvertRefs(_)  \* what a schema in additionalProperties already is one of OpenAPI 3
ConvertRefs(s) ==
  [s EXCEPT !.ref = ToV3Ref(@),
            !.items = [i \in DOMAIN @ |-> [@[i] EXCEPT !.ref = ToV3Ref(@)]],
            !.allOf = [i \in DOMAIN @ |-> ConvertRefs(@[i])],
            !.more = [i \in DOMAIN @ |-> ConvertRefs(@[i])]]

RECURSIVE ToV3Schema(_)
ToV3Schema(s) ==
  IF s.ref # NoRef THEN [Plain EXCEPT !.ref = ToV3Ref(s.ref)]
  ELSE [s EXCEPT !.type = IF @ = "file" THEN "string" ELSE @,
                 !.format = IF s.type = "file" THEN "binary" ELSE @,
                 !.nullable = "x-nullable" \in s.ext,
                 !.ext = @ \ {"x-nullable"},
                 !.items = [i \in DOMAIN @ |-> ToV3Schema(@[i])],
                 !.props = [n \in DOMAIN @ |-> ToV3Schema(@[n])],
                 !.allOf = [i \in DOMAIN @ |-> ToV3Schema(@[i])],
                 !.more = [i \in DOMAIN @ |-> ConvertRefs(@[i])]]

\* [style, explode], "" for a field that is not set
QueryStyle(cf) ==
  CASE cf = "csv" -> <<"form", "false">>
    [] cf = "ssv" -> <<"spaceDelimited", "false">>
    [] cf = "pipes" -> <<"pipeDelimited", "false">>
    [] cf = "multi" -> <<"form", "true">>
    [] OTHER -> <<"", "">>

Parameter3(p) ==
  [ref |-> NoRef, in |-> p.in, name |-> p.name, required |-> p.required \/ p.in = "path",
   schema |-> << IF p.schema # <<>> /\ p.schema[1].ref # NoRef THEN ToV3Schema(p.schema[1])
                 ELSE ToV3Schema([Plain EXCEPT !.type = p.type]) >>,
   style |-> IF p.in = "query" /\ p.type = "array" THEN QueryStyle(p.cf) ELSE <<"", "">>]

\* NewContentWithSchemaRef: the one schema under every media type
Types(consumes) == IF consumes = {} THEN {"*/*"} ELSE consumes

RequestBody3(p, consumes) ==
  [ref |-> NoRef, name |-> p.name, required |-> p.required,
   types |-> IF p.schema = <<>> THEN {} ELSE Types(consumes),
   schema |-> [i \in DOMAIN p.schema |-> ToV3Schema(p.schema[i])]]

FormSchema(p) ==
  [Plain EXCEPT !.type = IF p.type = "file" THEN "string" ELSE p.type,
                !.format = IF p.type = "file" THEN "binary" ELSE "",
                !.form = p.name, !.required = IF p.required THEN {p.name} ELSE {}]

\* The name of the form field that the component schema stands for.
FieldOf(schemas, name) == IF schemas[name].form = "" THEN name ELSE schemas[name].form

\* A parameter becomes a parameter, a request body or a field of a form.
ToV3Parameter(components, p, consumes) ==
  LET name == p.ref.name
      local == p.ref.to = "parameters"
      Body(b) == [as |-> "body", body |-> b]
      Field(n, s) == [as |-> "field", name |-> n, schema |-> s]
      Parameter(q) == [as |-> "parameter", parameter |-> q]
  IN CASE local /\ name \in DOMAIN components.bodies ->
            Body([ref |-> [to |-> "requestBodies", name |-> name], name |-> "",
                  required |-> FALSE, types |-> {}, schema |-> <<>>])
       [] local /\ name \notin DOMAIN components.bodies /\ name \in DOMAIN components.schemas ->
            Field(FieldOf(components.schemas, name),
                  [Plain EXCEPT !.ref = [to |-> "schemas", name |-> name]])
       [] p.ref # NoRef /\ ~(local /\ name \in DOMAIN components.bodies
                                              \cup DOMAIN components.schemas) ->
            Parameter([ref |-> ToV3Ref(p.ref)])
       [] p.ref = NoRef /\ p.in = "body" -> Body(RequestBody3(p, consumes))
       [] p.ref = NoRef /\ p.in = "formData" -> Field(p.name, FormSchema(p))
       [] p.ref = NoRef /\ p.in \notin {"body", "formData"} -> Parameter(Parameter3(p))

\* parameterIdentity
Identity(p) == IF p.ref # NoRef THEN <<p.ref.to, p.ref.name>> ELSE <<p.in, p.name>>

\* Mutant: the operation takes everything over.
InheritedAll(level, operation) == level

\* What the operation takes over of the path item, for OpenAPI 3 has no
\* request body there.
Inherited(level, operation) ==
  { p \in level : \A q \in operation.parameters : Identity(q) # Identity(p) }

FormDataBody(fields, components, consumes) ==
  LET Needs(n) == IF fields[n].ref # NoRef THEN n \in components.schemas[fields[n].ref.name].required
                  ELSE n \in fields[n].required
      object == [Plain EXCEPT !.type = "object",
                              !.required = { n \in DOMAIN fields : Needs(n) },
                              !.props = [n \in DOMAIN fields |-> [fields[n] EXCEPT !.required = {}]]]
  IN [ref |-> NoRef, name |-> "", required |-> FALSE, types |-> Types(consumes),
      schema |-> <<object>>]

\* onlyOneReqBodyParam, for which more than one is an error.
RequestBodies(bodies, fields, components, consumes) ==
  SetToSeq(bodies) \o
  (IF DOMAIN fields = {} THEN <<>> ELSE << FormDataBody(fields, components, consumes) >>)

Header3(h) ==
  IF h.ref # NoRef THEN [ref |-> ToV3Ref(h.ref)]
  ELSE Parameter3([h EXCEPT !.in = "", !.name = ""])

Response3(r, produces) ==
  IF r.ref # NoRef THEN [r EXCEPT !.ref = ToV3Ref(@)]
  ELSE LET types == IF produces = {} THEN {"application/json"} ELSE produces IN
       [ref |-> NoRef,
        content |-> [t \in (IF r.schema = <<>> THEN {} ELSE types) \cup DOMAIN r.examples |->
                       [schema |-> IF t \in types /\ r.schema # <<>>
                                   THEN << ToV3Schema(r.schema[1]) >> ELSE <<>>]],
        headers |-> [h \in DOMAIN r.headers |-> Header3(r.headers[h])]]

ToV3Operation(components, level, operation, default) ==
  LET consumes == IF operation.consumes = {} THEN default ELSE operation.consumes
      All(ps) == { ToV3Parameter(components, p, consumes) : p \in ps }
      own == All(operation.parameters)
      inherited == All(Inherited(level, operation))
      Fields(rs) == { r \in rs : r.as = "field" }
      names == { r.name : r \in Fields(own \cup inherited) }
      fields == [n \in names |->
                   LET mine == { r \in Fields(own) : r.name = n }
                       rs == IF mine = {} THEN { r \in Fields(inherited) : r.name = n } ELSE mine
                   IN (CHOOSE r \in rs : TRUE).schema]
  IN [parameters |-> { r.parameter : r \in { s \in own : s.as = "parameter" } },
      body |-> RequestBodies({ r.body : r \in { s \in own \cup inherited : s.as = "body" } },
                             fields, components, consumes),
      responses |-> [k \in DOMAIN operation.responses |->
                       Response3(operation.responses[k], operation.produces)]]

ToV3PathItem(components, d) ==
  [level |-> { r.parameter : r \in { s \in { ToV3Parameter(components, p, d.consumes) : p \in d.level } :
                                       s.as = "parameter" } },
   operations |-> [m \in DOMAIN d.operations |->
                     ToV3Operation(components, d.level, d.operations[m], d.consumes)]]

Flow3 == "implicit" :> "implicit" @@ "accessCode" :> "authorizationCode" @@
         "password" :> "password" @@ "application" :> "clientCredentials"

SecurityScheme3(s) ==
  CASE s.type = "basic" -> [s EXCEPT !.type = "http", !.scheme = "basic"]
    [] s.type = "oauth2" -> [s EXCEPT !.flow = Flow3[@]]
    [] OTHER -> s

\* [scheme, host, path]; a base path without a host is a relative URL.
Servers(d) ==
  IF d.host # "" THEN
    { [scheme |-> s, host |-> d.host, path |-> IF d.basePath = "" THEN "/" ELSE d.basePath] :
        s \in IF d.schemes = {} THEN {"https"} ELSE d.schemes }
  ELSE IF d.basePath = "" THEN {} ELSE { [scheme |-> "", host |-> "", path |-> d.basePath] }

Empty3 ==
  [servers |-> {}, parameters |-> <<>>, bodies |-> <<>>, schemas |-> <<>>, responses |-> <<>>,
   security |-> <<>>, level |-> {}, operations |-> <<>>]

\* The references the loader has to follow.
RECURSIVE SchemaRefs(_)
SchemaRefs(s) ==
  IF s.ref # NoRef THEN {s.ref}
  ELSE UNION { SchemaRefs(x) : x \in ToSet(s.items) \cup ToSet(s.allOf) \cup ToSet(s.more)
                                       \cup { s.props[n] : n \in DOMAIN s.props } }

Unresolved(d) ==
  LET values(f) == { f[k] : k \in DOMAIN f }
      operations == values(d.operations)
      responses == values(d.responses) \cup UNION { values(o.responses) : o \in operations }
      answers == { r \in responses : r.ref = NoRef }
      parameters == UNION ({ o.parameters : o \in operations } \cup { values(r.headers) : r \in answers })
                    \cup d.level \cup values(d.parameters)
      bodies == values(d.bodies) \cup UNION { ToSet(o.body) : o \in operations }
      content == UNION { values(r.content) : r \in answers }
      tops == values(d.schemas) \cup
              UNION { ToSet(x.schema) : x \in bodies \cup content \cup
                                               { q \in parameters : q.ref = NoRef } }
      used == UNION { SchemaRefs(s) : s \in tops } \cup
              ({ x.ref : x \in parameters \cup bodies \cup responses } \ {NoRef})
      Has(f, to) == { [to |-> to, name |-> k] : k \in DOMAIN f }
  IN used \ (Has(d.parameters, "parameters") \cup Has(d.bodies, "requestBodies") \cup
              Has(d.schemas, "schemas") \cup Has(d.responses, "responses"))

----------------------------------------------------------------------------
(* And back.                                                               *)

FormTypes == {"application/x-www-form-urlencoded", "multipart/form-data"}

RefParameter(name) == [Parameter2 EXCEPT !.ref = [to |-> "parameters", name |-> name]]

IsFile(s) == s.type = "string" /\ s.format = "binary"

FileParameter(s) ==
  [Parameter2 EXCEPT !.in = "formData", !.name = s.form, !.type = "file",
                     !.required = s.form \in s.required]

\* FromV3SchemaRef answers with a schema or, for a file, with a parameter.
LeadsToFile(s, schemas) ==
  IF s.ref = NoRef THEN IsFile(s)
  ELSE s.ref.to = "schemas" /\ s.ref.name \in DOMAIN schemas /\ schemas[s.ref.name].format = "binary"

FileOf(s) == IF s.ref = NoRef THEN FileParameter(s) ELSE RefParameter(s.ref.name)

RECURSIVE FromV3Schemas(_, _)  \* what is left of schemas: files cannot be told
FromV3Schemas(list, schemas) ==
  LET One(s) ==
        IF s.ref # NoRef THEN [Plain EXCEPT !.ref = FromV3Ref(s.ref)]
        ELSE [s EXCEPT
               !.items = FromV3Schemas(@, schemas),
               !.props = [n \in { m \in DOMAIN @ : ~LeadsToFile(@[m], schemas) } |->
                            FromV3Schemas(<<@[n]>>, schemas)[1]],
               !.allOf = FromV3Schemas(@, schemas),
               !.nullable = FALSE,
               !.discriminator = "",
               !.ext = IF s.nullable THEN @ \cup {"x-nullable"} ELSE @]
      kept == SelectSeq(list, LAMBDA s : ~LeadsToFile(s, schemas))
  IN [i \in DOMAIN kept |-> One(kept[i])]

FromV3QueryStyle(p) ==
  CASE p.style = <<"", "">> -> ""
    [] p.style = <<"form", "true">> -> "multi"
    [] p.style = <<"form", "false">> -> "csv"
    [] p.style = <<"spaceDelimited", "false">> -> "ssv"
    [] p.style = <<"pipeDelimited", "false">> -> "pipes"

FromV3Parameter(p, schemas) ==
  IF p.ref # NoRef THEN [Parameter2 EXCEPT !.ref = FromV3Ref(p.ref)]
  ELSE LET schema == p.schema[1]
           plain == [Parameter2 EXCEPT !.in = p.in, !.name = p.name, !.required = p.required]
       IN CASE LeadsToFile(schema, schemas) -> FileOf(schema)
            [] schema.ref # NoRef /\ ~LeadsToFile(schema, schemas) ->
                 [plain EXCEPT !.schema = FromV3Schemas(p.schema, schemas)]
            [] schema.ref = NoRef /\ ~IsFile(schema) ->
                 [plain EXCEPT !.type = schema.type,
                               !.cf = IF p.in = "query" /\ schema.type = "array"
                                      THEN FromV3QueryStyle(p) ELSE ""]

FromV3RequestBodyFormData(object) ==
  { IF object.props[n].ref # NoRef THEN RefParameter(object.props[n].ref.name)
    ELSE LET s == object.props[n] IN
         [Parameter2 EXCEPT !.in = "formData", !.name = n, !.required = n \in s.required,
                            !.type = IF s.format = "binary" THEN "file" ELSE s.type] :
    n \in DOMAIN object.props }

\* fromV3RequestBodies: [body, form, consumes]; the parameters of a form win.
FromV3RequestBody(name, b, schemas) ==
  LET Deref(s) == IF s.ref = NoRef THEN s ELSE schemas[s.ref.name]
      body == [Parameter2 EXCEPT !.in = "body", !.name = IF b.name = "" THEN name ELSE b.name,
                                 !.required = b.required, !.schema = FromV3Schemas(b.schema, schemas)]
  IN IF b.ref # NoRef
     THEN [body |-> {[Parameter2 EXCEPT !.ref = FromV3Ref(b.ref)]}, form |-> {}, consumes |-> {}]
     ELSE [body |-> IF b.types \subseteq FormTypes THEN {} ELSE {body},
           form |-> IF b.types \cap FormTypes = {} THEN {}
                    ELSE FromV3RequestBodyFormData(Deref(b.schema[1])),
           consumes |-> b.types]

\* findNameForRequestBody
FreeName(operation, parameters) ==
  LET names == { IF p.ref = NoRef THEN p.name ELSE parameters[p.ref.name].name : p \in operation.parameters }
  IN SelectSeq(<<"body", "requestBody">>, LAMBDA n : n \notin names)

\* A header that is a reference is inlined.
FromV3Header(d, h) ==
  [FromV3Parameter(IF h.ref = NoRef THEN h ELSE d.parameters[h.ref.name], d.schemas)
     EXCEPT !.in = "", !.name = ""]

FromV3Response(d, r) ==
  IF r.ref # NoRef THEN [r EXCEPT !.ref = FromV3Ref(@)]
  ELSE [ref |-> NoRef,
        schema |-> IF "application/json" \notin DOMAIN r.content THEN <<>>
                   ELSE FromV3Schemas(r.content["application/json"].schema, d.schemas),
        headers |-> [h \in DOMAIN r.headers |-> FromV3Header(d, r.headers[h])]]

\* FromV3Response dereferences the schema of the JSON content, whether it has one or not.
LacksSchema(r) ==
  /\ r.ref = NoRef
  /\ "application/json" \in DOMAIN r.content
  /\ r.content["application/json"].schema = <<>>

FromV3Operation(d, operation) ==
  LET bodies == [i \in DOMAIN operation.body |->
                   FromV3RequestBody(FreeName(operation, d.parameters)[1], operation.body[i], d.schemas)]
      Told(b) == IF b.form # {} THEN b.form ELSE b.body
  IN [parameters |-> { FromV3Parameter(p, d.schemas) : p \in operation.parameters }
                     \cup UNION { Told(b) : b \in ToSet(bodies) },
      consumes |-> UNION { b.consumes : b \in ToSet(bodies) },
      responses |-> [k \in DOMAIN operation.responses |->
                       FromV3Response(d, operation.responses[k])]]

FromV3SecurityScheme(s) ==
  CASE s.type = "http" /\ s.scheme = "basic" -> [s EXCEPT !.type = "basic", !.scheme = ""]
    [] s.type = "http" /\ s.scheme # "basic" ->
         [s EXCEPT !.type = "apiKey", !.scheme = "", !.in = "header", !.name = "Authorization"]
    [] s.type = "oauth2" ->
         [s EXCEPT !.flow = CHOOSE f \in DOMAIN Flow3 : Flow3[f] = @,
                   !.auth = IF s.flow \in {"implicit", "authorizationCode"} THEN @ ELSE "",
                   !.token = IF s.flow = "implicit" THEN "" ELSE @]
    [] OTHER -> s

----------------------------------------------------------------------------
(* The two calls, a map at a time: Go takes the keys of a map in any order. *)

Init ==
  /\ given \in Documents
  /\ phase = "servers"
  /\ todo = {}
  /\ doc3 = Empty3
  /\ doc2 = <<>>

ToV3 ==
  /\ phase = "servers"
  /\ phase' = IF given.host = "host/path" THEN "failed" ELSE "parameters"
  /\ doc3' = [doc3 EXCEPT !.servers = Servers(given)]
  /\ todo' = DOMAIN given.parameters
  /\ UNCHANGED <<given, doc2>>

ConvertParameter(k) ==
  LET r == ToV3Parameter(doc3, given.parameters[k], given.consumes) IN
  /\ phase = "parameters"
  /\ k \in todo
  /\ todo' = todo \ {k}
  /\ doc3' = CASE r.as = "body" -> [doc3 EXCEPT !.bodies = (k :> r.body) @@ @]
               [] r.as = "field" -> [doc3 EXCEPT !.schemas = (k :> r.schema) @@ @]
               [] r.as = "parameter" -> [doc3 EXCEPT !.parameters = (k :> r.parameter) @@ @]
  /\ UNCHANGED <<given, phase, doc2>>

ConvertPaths ==
  LET item == ToV3PathItem(doc3, given)
      d == [doc3 EXCEPT
             !.level = item.level, !.operations = item.operations,
             !.responses = [k \in DOMAIN given.responses |->
                              Response3(given.responses[k], given.produces)],
             !.schemas = [k \in DOMAIN given.definitions |-> ToV3Schema(given.definitions[k])] @@ @,
             !.security = [k \in DOMAIN given.security |-> SecurityScheme3(given.security[k])]]
  IN /\ phase = "parameters"
     /\ todo = {}
     /\ IF \/ \E m \in DOMAIN item.operations : Len(item.operations[m].body) > 1
           \/ \E k \in DOMAIN given.security :
                given.security[k].type = "oauth2" /\ given.security[k].flow \notin DOMAIN Flow3
           \/ Unresolved(d) # {}
        THEN phase' = "failed" /\ UNCHANGED doc3
        ELSE phase' = "v3" /\ doc3' = d
     /\ UNCHANGED <<given, todo, doc2>>

FromV3 ==
  LET files == { k \in DOMAIN doc3.schemas : LeadsToFile(doc3.schemas[k], doc3.schemas) }
      Named(k, p) == IF p.name = "" THEN [p EXCEPT !.name = k] ELSE p
      Lacking(responses) == \E k \in DOMAIN responses : LacksSchema(responses[k])
      Panicking(m) == Lacking(doc3.operations[m].responses)
      Nameless(m) == doc3.operations[m].body # <<>> /\ FreeName(doc3.operations[m], doc3.parameters) = <<>>
  IN /\ phase = "v3"
     \* the shared responses come first, then the operations in any order
     /\ IF Lacking(doc3.responses)
        THEN phase' = "panicked" /\ UNCHANGED <<todo, doc2>>
        ELSE IF \E m \in DOMAIN doc3.operations : Nameless(m) \/ Panicking(m)
        THEN /\ \E m \in DOMAIN doc3.operations :
                  \/ Nameless(m) /\ phase' = "failed"
                  \/ ~Nameless(m) /\ Panicking(m) /\ phase' = "panicked"
             /\ UNCHANGED <<todo, doc2>>
        ELSE /\ phase' = "components"
             /\ todo' = DOMAIN doc3.bodies
             /\ doc2' =
                  [host |-> IF doc3.servers = {} THEN "" ELSE (CHOOSE s \in doc3.servers : TRUE).host,
                   basePath |-> IF doc3.servers = {} THEN "" ELSE (CHOOSE s \in doc3.servers : TRUE).path,
                   schemes |-> { s.scheme : s \in doc3.servers } \cap {"http", "https"},
                   consumes |-> {},
                   definitions |-> [k \in DOMAIN doc3.schemas \ files |->
                                      FromV3Schemas(<<doc3.schemas[k]>>, doc3.schemas)[1]],
                   parameters |-> [k \in DOMAIN doc3.parameters |->
                                     FromV3Parameter(doc3.parameters[k], doc3.schemas)] @@
                                  [k \in files |-> Named(k, FileOf(doc3.schemas[k]))],
                   responses |-> [k \in DOMAIN doc3.responses |->
                                    FromV3Response(doc3, doc3.responses[k])],
                   level |-> { FromV3Parameter(p, doc3.schemas) : p \in doc3.level },
                   operations |-> [m \in DOMAIN doc3.operations |->
                                     FromV3Operation(doc3, doc3.operations[m])],
                   security |-> <<>>]
     /\ UNCHANGED <<given, doc3>>

ConvertRequestBody(k) ==
  LET b == FromV3RequestBody(k, doc3.bodies[k], doc3.schemas)
      told == IF b.form # {} THEN [n \in { p.name : p \in b.form } |->
                                     CHOOSE p \in b.form : p.name = n]
              ELSE [n \in (IF b.body = {} THEN {} ELSE {k}) |-> CHOOSE p \in b.body : TRUE]
  IN /\ phase = "components"
     /\ k \in todo
     /\ todo' = todo \ {k}
     /\ doc2' = [doc2 EXCEPT !.parameters = told @@ @,
                             !.consumes = IF b.consumes = {} THEN @ ELSE b.consumes]
     /\ UNCHANGED <<given, phase, doc3>>

ConvertSecurity ==
  /\ phase = "components"
  /\ todo = {}
  /\ phase' = "done"
  /\ doc2' = [doc2 EXCEPT !.security = [k \in DOMAIN doc3.security |->
                                          FromV3SecurityScheme(doc3.security[k])]]
  /\ UNCHANGED <<given, todo, doc3>>

Next ==
  \/ ToV3 \/ ConvertPaths \/ FromV3 \/ ConvertSecurity
  \/ \E k \in todo : ConvertParameter(k) \/ ConvertRequestBody(k)

Spec == Init /\ [][Next]_vars

----------------------------------------------------------------------------
(* What the documents promise their clients.                               *)

Deref(d, p) == IF p.ref.to = "parameters" THEN d.parameters[p.ref.name] ELSE p

\* A schema but for its discriminators, which are lost on the way back.
RECURSIVE Kept(_)
Kept(s) == [s EXCEPT !.discriminator = "",
                     !.items = [i \in DOMAIN @ |-> Kept(@[i])],
                     !.props = [n \in DOMAIN @ |-> Kept(@[n])],
                     !.allOf = [i \in DOMAIN @ |-> Kept(@[i])]]
KeptAll(schemas) == [k \in DOMAIN schemas |-> Kept(schemas[k])]

\* The parameters of an operation as Swagger reads them: its own before
\* those of the path item that have the same location and name.  The
\* converter loses whether a field of a form is required.
Effective(d, m) ==
  LET own == { Deref(d, p) : p \in d.operations[m].parameters }
      above == { Deref(d, p) : p \in d.level }
  IN { [p EXCEPT !.required = p.in # "formData" /\ @, !.schema = KeptAll(@)] :
       p \in own \cup { q \in above : \A o \in own : <<o.in, o.name>> # <<q.in, q.name>> } }

\* The media types in which an operation takes its body, if it has one.
Consumed(d, m) ==
  LET own == d.operations[m].consumes IN
  IF \A p \in Effective(d, m) : p.in \notin {"body", "formData"} THEN {}
  ELSE Types(IF own = {} THEN d.consumes ELSE own)

Answer(r) == [ref |-> r.ref, schema |-> IF r.ref = NoRef THEN KeptAll(r.schema) ELSE <<>>,
              headers |-> IF r.ref = NoRef THEN r.headers ELSE <<>>]
Answers(responses) == [k \in DOMAIN responses |-> Answer(responses[k])]

\* A document both calls should accept: its operations have one body at
\* most, or a form; and a parameter that takes the place of one of the path
\* item is a reference if that is one.  (The converter tells parameters
\* apart by reference, so that two bodies remain otherwise.)  Nor does it
\* give an example of JSON without a schema, which FromV3 dereferences.
Convertible(d) ==
  /\ d.host # "host/path"
  /\ \A rs \in {d.responses} \cup { d.operations[m].responses : m \in DOMAIN d.operations } :
       \A k \in DOMAIN rs :
         rs[k].ref = NoRef /\ "application/json" \in DOMAIN rs[k].examples => rs[k].schema # <<>>
  /\ \A k \in DOMAIN d.security : d.security[k].flow \in {""} \cup DOMAIN Flow3
  /\ \A k \in DOMAIN d.parameters : d.parameters[k].ref = NoRef
  /\ \A m \in DOMAIN d.operations :
       LET ps == Effective(d, m)
           bodies == { p \in ps : p.in = "body" }
       IN /\ Cardinality(bodies) <= 1
          /\ bodies # {} => \A p \in ps : p.in # "formData"
          /\ ~({"body", "requestBody"} \subseteq { p.name : p \in ps })
          /\ \A p \in d.level, q \in d.operations[m].parameters :
               <<Deref(d, p).in, Deref(d, p).name>> = <<Deref(d, q).in, Deref(d, q).name>> =>
                 p.ref = q.ref

\* A document that is converted and converted back asks of its clients what
\* it asked before, and answers as before, and no call refuses one that
\* both should accept: every operation takes the same parameters, those of
\* the path item and those it shares with others by reference included, and
\* its body in the same media types; the definitions, responses, security
\* schemes and base URLs are the same, but for discriminators.
\* (ToV3 pushes bodies and forms down from the path item, merges the fields
\* of a form into one schema and renames references; FromV3 has to find
\* all of it again.)
ConvertedBack ==
  /\ phase \in {"failed", "panicked"} => ~Convertible(given)
  /\ phase = "done" =>
    /\ DOMAIN doc2.operations = DOMAIN given.operations
    /\ \A m \in DOMAIN given.operations :
         /\ Effective(doc2, m) = Effective(given, m)
         /\ Consumed(doc2, m) = Consumed(given, m)
         /\ Answers(doc2.operations[m].responses) = Answers(given.operations[m].responses)
    /\ doc2.definitions = KeptAll(given.definitions)
    /\ Answers(doc2.responses) = Answers(given.responses)
    /\ doc2.security = given.security
    /\ Servers(doc2) = Servers(given)
=============================================================================
