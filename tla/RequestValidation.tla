-------------------------- MODULE RequestValidation --------------------------
(***************************************************************************)
(* openapi3filter.ValidateRequest: one HTTP request, validated any number  *)
(* of times by one or several validators of the same operation.            *)
(*                                                                         *)
(* The request is mutable and shared with the application: the validator   *)
(* reads its body and puts it back, writes default values into it, and     *)
(* calls the application's AuthenticationFunc in between, which may read   *)
(* the body too; between two validations the program may replace it.       *)
(*                                                                         *)
(* A body is what is still to be read from it, one of Contents: reading    *)
(* leaves Empty.  NoBody stands for http.NoBody and nil, Broken for a body *)
(* whose reads fail.  Each validation has a RequestValidationInput of its  *)
(* own, as in the middleware, so query values are parsed afresh; a query   *)
(* always holds something else too, as an empty one is not looked into.    *)
(* The value KeepValidatedValue attaches to the body is left out.          *)
(***************************************************************************)
EXTENDS Naturals, Sequences, FiniteSets

CONSTANTS
  Contents,     \* the contents of bodies
  Empty,        \* the content of no bytes
  Conforming,   \* the contents the schema of the request body accepts
  Filled,       \* content that lacks defaults -> the content with defaults set
  NoBody, Broken, Nil,
  Schemes,      \* the names of security schemes
  Declared,     \* the security schemes the document declares
  Inputs,       \* the operations, Options and requests considered
  Careful,      \* a program that replaces the body resets GetBody and the length
  MaxPasses,    \* bound: validations of one request
  MaxReplaced,  \* bound: bodies replaced by the program
  MaxFaults     \* bound: reads of a body that fail

\* A value sent: nil once decoded, accepted by the schema, undecodable or
\* refused by the schema, and the schema's default, which the schema accepts.
\* All the occurrences of an array or of a content in a query are one value.
Value == {"empty", "good", "bad", "default"}

\* What is left of a default once it is written and read again, as Go prints the
\* value (1e+06, [1 2], map[a:1]), and as an array's items are serialised.
Reading == {"default", "good", "bad"}

\* The form is that of the schema, or "none" when there is neither a schema nor a
\* content; content tells a parameter described by a media type.
Param == [ in : {"path", "query", "header", "cookie"}, name : STRING,
           required : BOOLEAN, allowEmpty : BOOLEAN, default : BOOLEAN,
           form : {"none", "primitive", "array", "object"}, content : BOOLEAN,
           printed : Reading, items : Reading ]

BodySpec == [ required : BOOLEAN,
              content : {"none", "other", "any", "schema"},
              encoder : {"none", "works", "fails"} ]
Operation == [ security : Seq(Seq(Schemes)),  \* alternatives, names sorted
               pathItemParams : Seq(Param), params : Seq(Param),
               requestBody : BodySpec \cup {Nil} ]
\* AuthenticationFunc: not set, one that leaves the body alone, or one that may
\* read it.
Options == [ multiError : BOOLEAN, authentication : {"none", "simple", "reads"},
             excludeBody : BOOLEAN, excludeQuery : BOOLEAN,
             rejectUnspecified : BOOLEAN, setDefaults : BOOLEAN ]

ParamKey(p)  == [in |-> p.in, name |-> p.name]
ParamsOf(o)  == { o.params[m] : m \in DOMAIN o.params }
                  \cup { o.pathItemParams[m] : m \in DOMAIN o.pathItemParams }
ParamKeys(o) == { ParamKey(p) : p \in ParamsOf(o) }

Request(o) == [ body : Contents \cup {NoBody, Broken},
                getBody : Contents \cup {Nil},     \* what GetBody returns, if it works
                contentLength : {"unknown", "zero", "positive"},
                closes : BOOLEAN,                  \* closing the body makes its reads fail
                sent : [ParamKeys(o) -> Seq(Value)] ]

ASSUME ContentsAssumption ==
  /\ Empty \in Contents /\ {NoBody, Broken, Nil} \cap Contents = {}
  /\ Conforming \subseteq Contents \ {Empty}
  /\ DOMAIN Filled \subseteq Conforming
  /\ \A c \in DOMAIN Filled : Filled[c] \in Conforming \ DOMAIN Filled
ASSUME NilAssumption == Nil \notin Value
ASSUME InputsAssumption ==
  /\ \A n \in Inputs : /\ n.operation \in Operation /\ n.options \in Options
                        /\ n.request \in Request(n.operation)
                        /\ \A p \in ParamsOf(n.operation) :
                             p.in = "query" /\ (p.form = "array" \/ p.content)
                               => Len(n.request.sent[ParamKey(p)]) <= 1
  /\ Declared \subseteq Schemes /\ Careful \in BOOLEAN
  /\ MaxPasses \in Nat /\ MaxReplaced \in Nat /\ MaxFaults \in Nat

VARIABLES
  operation, options,
  request,   \* the http.Request
  pc,        \* where ValidateRequest is, "idle" between calls
  i, j,      \* the loops: security requirement or parameter; scheme
  data,      \* the bytes read from the body, or Nil
  captured,  \* GetBody is the closure of ValidateRequestBody over its data
  errs,      \* the errors collected, by the part they come from
  verdict,   \* what the last call returned
  previous,  \* what the call before it returned on the same body
  accepted,  \* the schemes AuthenticationFunc accepted in this call, <<i, j>>
  served,    \* the body the program gave the request
  passes, replaced, faults

input == <<operation, options>>
count == <<passes, replaced>>
call  == <<captured, previous, served>>
vars  == <<operation, options, request, pc, i, j, data, captured, errs, verdict,
           previous, accepted, served, passes, replaced, faults>>

LengthOf(c) == IF c = Empty THEN "zero" ELSE "positive"

(***************************************************************************)
(* Control.                                                                *)
(***************************************************************************)
Goto(p, m) == pc' = p /\ i' = m /\ j' = 1

Return(e) == /\ pc' = "idle" /\ i' = 1 /\ j' = 1
             /\ errs' = e
             /\ verdict' = IF e = {} THEN "ok" ELSE "err"

\* An error returns at once, or is collected and validation goes on at p.
Error(part, p, m) ==
  IF options.multiError THEN Goto(p, m) /\ errs' = errs \cup {part} /\ UNCHANGED verdict
                        ELSE Return({part})

Continue(p, m) == Goto(p, m) /\ UNCHANGED <<errs, verdict>>

(***************************************************************************)
(* The body.                                                               *)
(***************************************************************************)
\* io.ReadAll(req.Body), of a body that can be read.
Drained(r) == IF r.body = NoBody THEN r ELSE [r EXCEPT !.body = Empty]
Bytes(r)   == IF r.body = NoBody THEN Nil ELSE r.body

ReadFails ==
  \/ request.body = Broken /\ UNCHANGED faults
  \/ request.body \in Contents /\ faults < MaxFaults /\ faults' = faults + 1

\* The deferred Close of the body that was read, when it is still in place.
Closed(r) == IF r.closes /\ r.body # NoBody THEN [r EXCEPT !.body = Broken] ELSE r

SetBody(r, c) == [r EXCEPT !.body = c, !.getBody = c, !.closes = FALSE,
                           !.contentLength = LengthOf(c)]

\* Put the bytes d back: req.GetBody, where there is one that works, wins.
\* variation: the request keeps the reader that was read.
PutBackFaulty(r, d) == r
\* variation: GetBody is not tried, and not checked.
PutBackMissing(r, d) == IF d = Nil THEN r ELSE [r EXCEPT !.body = r.getBody]
PutBack(r, d) ==
  IF d = Nil THEN r
  ELSE IF r.getBody \in Contents THEN [r EXCEPT !.body = r.getBody, !.closes = FALSE]
       ELSE SetBody(r, d)

(***************************************************************************)
(* The call, and what the program does between calls.                      *)
(***************************************************************************)
ValidateRequest ==
  /\ pc = "idle" /\ passes < MaxPasses
  /\ passes' = passes + 1
  /\ Goto("security", 1)
  /\ data' = Nil /\ captured' = FALSE /\ errs' = {} /\ accepted' = {}
  /\ verdict' = "none" /\ previous' = verdict
  /\ UNCHANGED <<input, request, served, replaced, faults>>

\* The program puts a body of its own in place, say a decompressed one.  It may
\* not know that the validation has set GetBody.
ReplaceBody ==
  /\ pc = "idle" /\ replaced < MaxReplaced
  /\ \E c \in Contents \ {Empty} :
       /\ request' = IF Careful THEN [SetBody(request, c) EXCEPT !.getBody = Nil]
                                ELSE [request EXCEPT !.body = c, !.closes = FALSE]
       /\ served' = c
  /\ replaced' = replaced + 1 /\ verdict' = "none"
  /\ UNCHANGED <<input, captured, previous, pc, i, j, data, errs, accepted, passes, faults>>

(***************************************************************************)
(* ValidateSecurityRequirements: the alternatives in order.                *)
(***************************************************************************)
Requirement == operation.security[i]

\* This alternative is not met.
\* variation: it is tried again.
UnmetFaulty == Continue("security", i)
Unmet == IF i < Len(operation.security)
         THEN Continue("security", i + 1)
         ELSE Error("security", "params", 1)

SecurityAbsent ==
  /\ pc = "security" /\ operation.security = <<>>
  /\ Continue("params", 1)
  /\ UNCHANGED <<input, request, data, call, accepted, count, faults>>

AuthenticationMissing ==
  /\ pc = "security" /\ operation.security # <<>> /\ options.authentication = "none"
  /\ Unmet
  /\ UNCHANGED <<input, request, data, call, accepted, count, faults>>

SecurityReadFails ==
  /\ pc = "security" /\ operation.security # <<>> /\ options.authentication # "none"
  /\ ReadFails /\ request' = [request EXCEPT !.body = Broken]
  /\ Unmet
  /\ UNCHANGED <<input, call, data, accepted, count>>

SecurityBodyRead ==
  /\ pc = "security" /\ operation.security # <<>> /\ options.authentication # "none"
  /\ request.body # Broken
  /\ data' = Bytes(request) /\ request' = Drained(request)
  /\ Continue("schemes", i)
  /\ UNCHANGED <<input, call, accepted, count, faults>>

SchemeUndeclared ==
  /\ pc = "schemes" /\ j <= Len(Requirement) /\ Requirement[j] \notin Declared
  /\ request' = Closed(request)
  /\ Unmet
  /\ UNCHANGED <<input, data, call, accepted, count, faults>>

\* variation: the body is put back for the first scheme only.
CallAuthenticationFuncFaulty ==
  /\ pc = "schemes" /\ j <= Len(Requirement) /\ Requirement[j] \in Declared
  /\ request' = IF j = 1 THEN PutBack(request, data) ELSE request
  /\ pc' = "authentication"
  /\ UNCHANGED <<input, i, j, data, errs, call, verdict, accepted, count, faults>>

CallAuthenticationFunc ==
  /\ pc = "schemes" /\ j <= Len(Requirement) /\ Requirement[j] \in Declared
  /\ request' = PutBack(request, data)
  /\ pc' = "authentication"
  /\ UNCHANGED <<input, i, j, data, errs, call, verdict, accepted, count, faults>>

\* The application's function: it may read the body, and accepts or rejects.
AuthenticationReads ==
  /\ pc = "authentication" /\ options.authentication = "reads"
  /\ request.body \notin {NoBody, Empty}
  /\ request' = Drained(request)
  /\ UNCHANGED <<input, pc, i, j, data, errs, call, verdict, accepted, count, faults>>

AuthenticationAccepts ==
  /\ pc = "authentication"
  /\ accepted' = accepted \cup {<<i, j>>}
  /\ pc' = "schemes" /\ j' = j + 1
  /\ UNCHANGED <<input, call, request, i, data, errs, verdict, count, faults>>

AuthenticationRejects ==
  /\ pc = "authentication"
  /\ Unmet
  /\ UNCHANGED <<input, request, data, call, accepted, count, faults>>

\* variation: the loop over the schemes ends before the last one.
RequirementMetFaulty ==
  /\ pc = "schemes" /\ j >= Len(Requirement)
  /\ request' = PutBack(request, data)
  /\ Continue("params", 1)
  /\ UNCHANGED <<input, data, call, accepted, count, faults>>

RequirementMet ==
  /\ pc = "schemes" /\ j > Len(Requirement)
  /\ request' = PutBack(request, data)
  /\ Continue("params", 1)
  /\ UNCHANGED <<input, data, call, accepted, count, faults>>

(***************************************************************************)
(* The parameters of the path item, then those of the operation.           *)
(***************************************************************************)
Overridden(p) == \E m \in DOMAIN operation.params : ParamKey(operation.params[m]) = ParamKey(p)

Params == operation.pathItemParams \o operation.params

\* The operation overrides a parameter of its path item; queries may be excluded;
\* nothing is asked of a parameter without schema and content.
Skipped(m) ==
  \/ m <= Len(operation.pathItemParams) /\ Overridden(Params[m])
  \/ options.excludeQuery /\ Params[m].in = "query"
  \/ Params[m].form = "none"

\* What the decoder makes of the values sent: for a query parameter the first
\* that is not empty, otherwise the first; an empty one decodes to nil.  A content
\* is not read from several headers.
Decoded(p, s) ==
  LET filled == { m \in DOMAIN s : s[m] # "empty" }
      first  == IF p.in = "query" /\ filled # {}
                THEN CHOOSE m \in filled : \A n \in filled : m <= n ELSE 1
  IN  IF p.content /\ p.in = "header" /\ Len(s) > 1 THEN "bad"
      ELSE IF s = <<>> \/ s[first] = "empty" THEN Nil ELSE s[first]

\* An empty path segment counts as not sent.
Found(p, s) == s # <<>> /\ ~(p.in = "path" /\ s[1] = "empty")

\* The default takes the place of a nil value.  The nil map that a missing object
\* decodes to does not compare equal to nil, and a content that is not sent comes
\* back without its schema.
Fills(p, s) ==
  /\ Decoded(p, s) = Nil /\ p.default /\ options.setDefaults
  /\ IF p.content THEN s # <<>> ELSE p.form # "object"

\* What the text of the default reads as: only a query has its arrays serialised,
\* everything else is printed.
Written(p) == IF p.in = "query" /\ p.form = "array" THEN p.items ELSE p.printed

\* Writing the default value into the request.
\* variation: the query keeps the values it has, the default comes last.
WithDefaultFaulty(p, s) == IF p.in = "path" THEN s ELSE Append(s, Written(p))
\* variation: an array is printed in a query too.
WithDefaultMistyped(p, s) ==
  CASE p.in = "path"                 -> s
    [] p.in = "query"                -> <<p.printed>>
    [] p.in \in {"header", "cookie"} -> Append(s, p.printed)
WithDefault(p, s) ==
  CASE p.in = "path"                 -> s
    [] p.in = "query"                -> <<Written(p)>>
    [] p.in \in {"header", "cookie"} -> Append(s, Written(p))

ParamsDone ==
  /\ pc = "params" /\ i > Len(Params)
  /\ Continue("body", 1)
  /\ UNCHANGED <<input, request, data, call, accepted, count, faults>>

ParamSkipped ==
  /\ pc = "params" /\ i <= Len(Params) /\ Skipped(i)
  /\ Continue("params", i + 1)
  /\ UNCHANGED <<input, request, data, call, accepted, count, faults>>

\* The default is set before the checks, so a refused parameter has it too.
ValidateParameter ==
  /\ pc = "params" /\ i <= Len(Params) /\ ~Skipped(i)
  /\ LET p     == Params[i]
         sent  == request.sent[ParamKey(p)]
         fill  == Fills(p, sent)
         value == IF fill THEN "default" ELSE Decoded(p, sent)
         wrong == \/ p.required /\ ~Found(p, sent)
                  \/ value = Nil /\ Found(p, sent) /\ ~p.allowEmpty
                  \/ value = "bad"
     IN  /\ request' = IF fill THEN [request EXCEPT !.sent[ParamKey(p)] = WithDefault(p, sent)]
                               ELSE request
         /\ IF wrong THEN Error("parameter", "params", i + 1) ELSE Continue("params", i + 1)
  /\ UNCHANGED <<input, data, call, accepted, count, faults>>

(***************************************************************************)
(* ValidateRequestBody.                                                    *)
(***************************************************************************)
\* The body is the last part: its error ends the call.
BodyError == Return(errs \cup {"body"})
BodyFine  == Return(errs)

BodyExcluded ==
  /\ pc = "body" /\ options.excludeBody
  /\ BodyFine
  /\ UNCHANGED <<input, request, data, call, accepted, count, faults>>

BodyUnspecified ==
  /\ pc = "body" /\ ~options.excludeBody /\ operation.requestBody = Nil
  /\ IF options.rejectUnspecified /\ request.contentLength = "positive"
     THEN BodyError ELSE BodyFine
  /\ UNCHANGED <<input, request, data, call, accepted, count, faults>>

BodyReadFails ==
  /\ pc = "body" /\ ~options.excludeBody /\ operation.requestBody # Nil
  /\ ReadFails /\ request' = [request EXCEPT !.body = Broken]
  /\ BodyError
  /\ UNCHANGED <<input, call, data, accepted, count>>

BodyRead ==
  /\ pc = "body" /\ ~options.excludeBody /\ operation.requestBody # Nil
  /\ request.body # Broken
  /\ data' = Bytes(request)
  /\ request' = PutBack(Drained(request), Bytes(request))
  /\ captured' = (request.body # NoBody /\ request.getBody = Nil)
  /\ Continue("content", 1)
  /\ UNCHANGED <<input, previous, served, accepted, count, faults>>

BodyMissing ==
  /\ pc = "content" /\ data \in {Nil, Empty}
  /\ IF operation.requestBody.required THEN BodyError ELSE BodyFine
  /\ UNCHANGED <<input, request, data, call, accepted, count, faults>>

BodyUnchecked ==
  /\ pc = "content" /\ data \notin {Nil, Empty}
  /\ operation.requestBody.content \in {"none", "any"}
  /\ BodyFine
  /\ UNCHANGED <<input, request, data, call, accepted, count, faults>>

BodyInvalid ==
  /\ pc = "content" /\ data \notin {Nil, Empty}
  /\ \/ operation.requestBody.content = "other"
     \/ operation.requestBody.content = "schema" /\ data \notin Conforming
  /\ BodyError
  /\ UNCHANGED <<input, request, data, call, accepted, count, faults>>

\* The value has had defaults set: the body has to be encoded again.
DefaultsSet == /\ data \in DOMAIN Filled
               /\ options.setDefaults /\ operation.requestBody.encoder # "none"

\* The encoder returns no bytes: the closure over data has none to give either.
BodyRewriteFails ==
  /\ pc = "content" /\ operation.requestBody.content = "schema"
  /\ DefaultsSet /\ operation.requestBody.encoder = "fails"
  /\ request' = IF captured THEN [request EXCEPT !.getBody = Empty] ELSE request
  /\ BodyError
  /\ UNCHANGED <<input, data, call, accepted, count, faults>>

BodyValid ==
  /\ pc = "content" /\ operation.requestBody.content = "schema" /\ data \in Conforming
  /\ ~(DefaultsSet /\ operation.requestBody.encoder = "fails")
  /\ request' = IF DefaultsSet THEN SetBody(request, Filled[data]) ELSE request
  /\ BodyFine
  /\ UNCHANGED <<input, data, call, accepted, count, faults>>

(***************************************************************************)
(* The specification.                                                      *)
(***************************************************************************)
Init ==
  /\ \E n \in Inputs :
       operation = n.operation /\ options = n.options /\ request = n.request
  /\ pc = "idle" /\ i = 1 /\ j = 1
  /\ data = Nil /\ captured = FALSE /\ errs = {} /\ accepted = {}
  /\ verdict = "none" /\ previous = "none" /\ served = request.body
  /\ passes = 0 /\ replaced = 0 /\ faults = 0

Security ==
  \/ SecurityAbsent \/ AuthenticationMissing \/ SecurityReadFails \/ SecurityBodyRead
  \/ SchemeUndeclared \/ CallAuthenticationFunc
  \/ AuthenticationAccepts \/ AuthenticationRejects \/ RequirementMet
Parameters == ParamsDone \/ ParamSkipped \/ ValidateParameter
Body ==
  \/ BodyExcluded \/ BodyUnspecified \/ BodyReadFails \/ BodyRead \/ BodyMissing
  \/ BodyUnchecked \/ BodyInvalid \/ BodyRewriteFails \/ BodyValid

Step == Security \/ AuthenticationReads \/ Parameters \/ Body

Finished == pc = "idle" /\ passes = MaxPasses /\ UNCHANGED vars

Next == ValidateRequest \/ ReplaceBody \/ Step \/ Finished

Spec == Init /\ [][Next]_vars

\* ValidateRequest goes on, and the application's AuthenticationFunc returns.
FairSpec == Spec /\ WF_vars(Security \/ Parameters \/ Body)

(***************************************************************************)
(* Properties.                                                             *)
(***************************************************************************)
Parts == {"security", "parameter", "body"}

\* The variables have the values the Go types and the flow of control allow.
TypeOK ==
  /\ operation \in Operation /\ options \in Options /\ request \in Request(operation)
  /\ pc \in {"idle", "security", "schemes", "authentication", "params", "body", "content"}
  /\ i \in Nat \ {0} /\ j \in Nat \ {0}
  /\ data \in Contents \cup {Nil} /\ captured \in BOOLEAN
  /\ errs \subseteq Parts
  /\ verdict \in {"none", "ok", "err"} /\ previous \in {"none", "ok", "err"}
  /\ accepted \subseteq Nat \X Nat
  /\ served \in Contents \cup {NoBody, Broken}
  /\ passes \in 0..MaxPasses /\ replaced \in 0..MaxReplaced /\ faults \in 0..MaxFaults

\* The body with the defaults, if the validation set any.
Kept(c) == {c} \cup (IF c \in DOMAIN Filled THEN {Filled[c]} ELSE {})

\* A request that ValidateRequest accepts still has the body it came with, to
\* be read from its start, or that body with default values added, also when
\* earlier validations refused it: what the code means by "put the data back
\* into the input".
BodyKept == verdict = "ok" => request.body \in Kept(served)

\* AuthenticationFunc is called with the whole body still to be read, whatever
\* the functions called before it, for this requirement or another, have read.
AuthSeesBody == [][pc # "authentication" /\ pc' = "authentication"
                     => request'.body \in Kept(served)]_vars

\* A request is accepted only if AuthenticationFunc accepted every scheme of
\* one and the same requirement, in this call.
AcceptedSecurely ==
  verdict = "ok" /\ operation.security # <<>>
     => \E m \in DOMAIN operation.security :
          \A n \in DOMAIN operation.security[m] : <<m, n>> \in accepted

\* Whether the document asks for the refusal of the body c.
Refused(c) ==
  LET spec == operation.requestBody
  IN  IF c \in {NoBody, Empty} THEN spec.required
      ELSE spec.content = "other" \/ (spec.content = "schema" /\ c \notin Conforming)

\* When the validation has come to the body, it reports the body that the
\* request came with exactly if the document refuses it, even when errors of
\* other parts have been collected before; unless the body cannot be read, or
\* cannot be encoded.
BodyJudged ==
  /\ verdict # "none" /\ ~options.excludeBody /\ operation.requestBody # Nil
  /\ options.multiError \/ errs \subseteq {"body"}
  /\ request.body # Broken /\ operation.requestBody.encoder # "fails"
  => ("body" \in errs <=> Refused(served))

\* The text of the default, if there is one, is a value of the parameter, the
\* default itself or another; and no content of a header is in the way of it.
Rereadable(p) == /\ p.default => Written(p) # "bad"
                 /\ ~(p.content /\ p.in = "header")

\* Validating again a request that was accepted finds no fault with its body, nor
\* with its parameters, if the text of their defaults can be read: what the first
\* validation has put into the request is itself valid.
AcceptedAgain ==
  verdict # "none" /\ previous = "ok" /\ request.body # Broken =>
    errs \subseteq {"security"} \cup
      (IF \A m \in DOMAIN Params : Rereadable(Params[m]) THEN {} ELSE {"parameter"})

\* A default that is written when nothing is sent, and read as what it is.
ReadsBack(p) == /\ p.default /\ p.in # "path" /\ ~p.content /\ p.form # "object"
                /\ Written(p) = "default"

\* After an accepted validation every parameter validated whose default reads back
\* has a value that the schema accepts, and where the default was written the
\* program, which reads the first value sent, reads it.
DefaultsReach ==
  verdict = "ok" /\ options.setDefaults =>
    \A m \in DOMAIN Params :
      LET p == Params[m]
          s == request.sent[ParamKey(p)]
      IN  ~Skipped(m) /\ ReadsBack(p)
          => /\ Decoded(p, s) \in {"good", "default"}
             /\ (\E n \in DOMAIN s : s[n] = "default") => s[1] = "default"

\* Every call returns.
Returns == pc # "idle" ~> pc = "idle"
=============================================================================
