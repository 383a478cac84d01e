# A TLA+ model of kin-openapi

kin-openapi is a Go library for OpenAPI documents. It loads documents and
resolves their references (`openapi3.Loader`), validates documents
(`T.Validate`), validates values against schemas (`Schema.VisitJSON`), finds the
route of a request (`routers/...`), validates requests and responses
(`openapi3filter`), and converts documents of other versions (`openapi2conv`).
This directory holds TLA+ modules that model these parts, configurations that
check them with TLC, and proofs checked by TLAPS.

## 1. The system

| Component (and its modules) | State it keeps | Operations | What is hard | What makes it correct |
|---|---|---|---|---|
| `Loader` (`openapi3/loader.go`): `RefLoader` | `visitedDocuments`, `visitedRefs`, `visitedPath`, `backtrack`, the `Value` and `refPath` of every `*Ref` | `LoadFromURI`, `LoadFromData*`, `ResolveRefsIn` | mutual recursion over documents, circular references filled in by callbacks, errors in the middle, a Loader used again | what resolves is the target the reference denotes, nothing is left nil without an error, every load returns |
| URI readers (`openapi3/loader_uri_reader.go`): `Caches`, `ReadThrough` | the map of `URIMapCache`, shared by all Loaders, under one global lock | `ReadFromURIs`, `ReadFromHTTP`, `ReadFromFile`, `URIMapCache` | two Loaders that miss together; which locations are cached | a cached read returns what the location returned; the source is not read again after it is cached |
| `InternalizeRefs` (`openapi3/internalize_refs.go`): `Internalize` | `Components`, `visited` | `InternalizeRefs`, `deref*` | names that collide, components reached twice | no external reference is left, and every reference still means the same |
| Schema validator (`openapi3/schema*.go`): `SchemaVisit`, `Caches` | the value (defaults are written into it), `compiledPatterns` | `VisitJSON*`, `visitSetOperations` | defaults set while alternatives are tried, recursion, one pattern cache for all compilers | the verdict is that of the schema, a rejected alternative leaves no trace |
| Document validation (`openapi3/*.go` `Validate`, `error_collector.go`): `Documents` | the error list, validation options in the context | `T.Validate` and one `Validate` per type | schemas, operations and callbacks that lead back to themselves; each is to be looked at, and only once | what is accepted is accepted throughout, each problem is reported once |
| Routers (`routers/legacy`, `routers/gorillamux`): `Routing` | the routes and the path-pattern tree | `NewRouter`, `AddRoute`, `FindRoute` | order of routes, backtracking in the tree | the route found matches method, server and path |
| Request validation (`openapi3filter/validate_request.go`): `RequestValidation` | the request: body, query, header, cookies, path parameters | `ValidateRequest`, `ValidateParameter`, `ValidateRequestBody`, `ValidateSecurityRequirements` | a body read once and put back, defaults written into the request before a later step fails, callbacks of the application | the handler sees the body; it runs only for a valid and authenticated request |
| Response validation and middleware (`validate_response.go`, `middleware.go`, `validation_handler.go`): `Middleware` | the wrapped `ResponseWriter`: status, headers, buffer | `Validator.Middleware`, `ValidationHandler`, `ValidateResponse` | a response buffered until it is validated, two modes | in strict mode the client never receives a response that was not validated, and receives exactly one |
| Registries (`req_resp_decoder.go`, `req_resp_encoder.go`, `schema_formats.go`) | process-wide maps of decoders, encoders, formats | `Register*`, `Unregister*`, lookups | concurrent use of the maps without locks | — |
| Parameter and body decoding (`req_resp_decoder.go`): `Decoding` | none | `decodeStyledParameter` and the decoders per style | serialization styles | decoding inverts serialization |
| `openapi3gen`: `Caches` | the map of type information, the schemas generated so far | `getTypeInfo`, `GenerateSchemaRef` | check, compute and publish without holding the lock; recursive types | concurrent callers get one type information |
| `openapi2conv`, `openapi2`: `Conversions` | none | `ToV3`, `FromV3` | parameters that are shared, overridden, pushed down and found again; maps in any order | what is converted and converted back says what it said |
| `openapi3conv` | none | `Upgrade` | none | — |
| `cmd/validate` | none | the command line | none | — |

The components call each other directly; there are no messages. What several
goroutines share is: the map of `URIMapCache`, the compiled patterns of the
schema validator, the registries, and a document once it is loaded (read-only,
unless two Loaders share it). Everything else is sequential, and what is hard
about it is the order in which the state of one call is read and written.

## 2. How the modules are put together

| Module | EXTENDS / INSTANCE | Checked by | Proved in |
|---|---|---|---|
| `RefLoader` | | `MCRefLoader` | `RefLoaderProofs`, `RefLoaderTargetProofs`, `RefLoaderResolvedProofs` |
| `RequestValidation` | | `MCRequestValidation` | `RequestValidationProofs` |
| `Middleware` | `RequestValidation` | `MCMiddleware` | `MiddlewareProofs` |
| `SchemaVisit` | | `MCSchemaVisit` | |
| `Routing` | | `MCRouting` | |
| `Decoding` | | `MCDecoding` | |
| `Documents` | | `MCDocuments` | |
| `Conversions` | | `MCConversions` | |
| `Internalize` | | `MCInternalize` | `InternalizeProofs` |
| `Caches` | `ReadThrough`, which it implements | `MCCaches` | `CachesProofs` |

There are two kinds of modules. `RefLoader`, `RequestValidation`, `Middleware`,
`Caches`, `Internalize`, the servers and parameters of `Conversions` and the tree of
`Routing` are machines: one action per operation or step, because something else
can come in between, or because what one step leaves behind is what the next one
meets. `SchemaVisit`, `Decoding`, `Documents` and the search of `Routing` are
algorithms: operators that return what the functions of the code return, side
effects included, and one action that makes the call; the properties compare the
result with a reference definition (what JSON Schema says a schema means, what
RFC 6570 says a style looks like, what a template matches). Those four and
`Conversions` declare RECURSIVE operators and are not meant to be proved about.

Each `...Proofs` module EXTENDS the one it builds on: the proofs about the
middleware use the invariants of the request, those about the targets of references
the heap of the Loader, those about what is resolved the targets.
`RecursionProofs` holds the induction that the proofs about recursively defined
functions need. Section 14 says what is proved, under which hypotheses and how, and
what is only model-checked.

Mutants of the code, each of which violates one property, are defined beside the
operators they change, under comments that begin with "Mutant".

## 3. `RefLoader`: documents and references

The Loader is a single thread of mutually recursive functions, so the model is a
machine with an explicit call stack. A frame is one activation of
`ResolveRefsIn` or of `resolveSchemaRef`, and its `pc` names what it waits for:

| `pc` | in the code |
|---|---|
| `components` | the loop over the components of a document |
| `enter` | `component.Value != nil`, `shouldVisitRef`, `visitRef` |
| `element` | `loadSingleElementFromURI`: a reference to a whole file |
| `document` | `resolveRefAndDocument`: here, in the cache, or loaded (a call of `ResolveRefsIn`) |
| `drill` | `resolveComponent`: the typed component, generic data, or the fallback that reads the referring file again; the result is the copy `resolved`, and the code calls itself on it |
| `copy` | `component.Value = resolved.Value`; from here on the deferred `unvisitRef` is registered |
| `children` | the loop over the sub-components, then `unvisitRef` |

`visitedDocuments`, `visitedRefs`, `visitedPath` and `backtrack` are the fields of
`Loader`; `backtrack` maps a reference to the components its callbacks will fill
in and the path each of them will remember. `value` and `refPath` are the
`Value` and `refPath` of every `*Ref`, `fresh` numbers decodes so that a copy or
a second decode of a file is a different object. `LoadFromURI(u)` is the program
calling the Loader; `status = "failing"` is an error on its way up, which pops
every frame and unvisits only those that reached their `defer`.

What a file contains (`world`) is chosen once, from the set `Worlds`: a document,
a file whose names lie in `Extensions` and are decoded on demand (`fragment`), or
bytes that do not decode (`broken`).

Abstractions. `resolveSchemaRef` stands for the five functions of the same
form (headers, parameters, request bodies, responses, schemas), which differ in
the fields they walk. Sub-components are references: an inline one is walked in
place and adds no state. Files are siblings in one directory, so that a
reference string is the pair of its file and its name. Documents are 3.0: the
keywords beside a `$ref` that 3.1 applies are left out, as are origins,
discriminator mappings, references of path items, and `LoadFromData` without a
location. Reading a file that is there fails at most `MaxFaults` times.

### Properties

The reference semantics is `Follow`: the location a reference leads to after n
steps, from the files alone. `RightTarget` compares the loader's pointers with
it. `GroundedResolved`, `LocalResolved` and `DirectResolved` are three strengths of
"a load without error has resolved everything": of every reference that denotes
an object at all, of those that reach one through references of their own
document, and of those that refer straight to one. The last two are stated of the
first load of a Loader (see the divergences). `VisitsMatchStack` says that
visits pair up; `CallbacksAwaited` that a callback waits on the reference of its own
component and, while no error returns, that an open frame of the call stack is visiting
this reference and will run it; `ValuesStable` that
a value once given is kept, `RefPathAgrees` that the remembered path leads to the
value, `ErrorsJustified` that a load fails only when a read failed or the files are
at fault, and `LoadReturns` that every load returns.

Where callbacks matter is not where one expects: in one document, and between
documents, a component a circle leaves nil is visited again from the list of
components it is in, and resolved then. Only objects no document lists (whole-file
references, fragments of generic data) depend on their callbacks, which is why
`DirectResolved` is checked in `loader_retry`.

`LoadReturns` assumes weak fairness of `Step`: one thread runs the code, and it
makes a step whenever it can. Nothing is assumed of the program that calls the
Loader.

### Runs

| Run | Bounds | Result |
|---|---|---|
| `loader_references` | one document with every graph of local references and of objects with up to two sub-components between three components; and two documents that refer to themselves and to each other and define disjoint names; one load | `CallbacksAwaited`, `LocalResolved`, `RightTarget`, `RefPathAgrees` hold |
| `loader_retry` | a document that refers to another file as a whole and by name, the file of each kind (document, fragments, undecodable), external references allowed or not, one failing read, two loads | `TypeOK`, `VisitsMatchStack`, `ErrorsJustified`, `DirectResolved`, `ValuesStable`, `LoadReturns` hold |
| `loader_chainedcycle` | a circle through a reference to a reference, two documents | `GroundedResolved` is violated |

Three components are the smallest number with a cycle that is entered from
outside; two documents are enough for a document that is loaded while a
reference into it, or out of it, is in progress; two loads are enough for one
that meets what a failed one has left. The divergence is described in
`PROJECT.json` under `findings`, with the sentence of the documentation it
contradicts. The passing runs say how far the documentation does hold:
references that stay in one document are resolved correctly, circular or not,
and so are direct references between documents that share no names.

All of these but `LoadReturns`, and `GroundedResolved`, which is false, are also
proved (section 14), for any number of files, names, loads and failing reads:
`TypeOK`, `VisitsMatchStack`, `CallbacksAwaited` and `ValuesStable` for any files, the
others under some of four conditions on the files, which `RefLoader` defines beside
`Sound` and which say exactly how far the divergences below reach:

| Condition | says | and is needed because |
|---|---|---|
| `NoneDangling` | every name that is referred to is defined | a failed drill looks in the referrer |
| `NamesApart` | what a file refers to within itself is defined in no other file | references are keyed as written |
| `Rooted` | only a file that no file refers to refers to itself | the same, and children are walked again with the referrer's path |
| `Listed` | a file that refers to itself is referred to by the names of its components, not as a whole, and is no file of fragments | whole files and fragments are decoded anew for each referrer |

All worlds of `loader_references` satisfy `NoneDangling`, `NamesApart` and `Listed`,
and those of one document are `Rooted`; of the 720 initial states of `loader_retry`,
528 are `Rooted`, 408 of them with no reference dangling, and 444 have names apart
and no reference dangling. So no theorem is about no world; and the runs go beyond
them, where they check `RefPathAgrees` between documents that refer to each other and
to themselves, and `ErrorsJustified` of every world.

### Known divergences without a run

These were met while modelling; each is the reason for a condition of a
property or for a choice of the worlds above.

- When the drill fails, the referring file is read again and searched
  (`loader.go:504`): `other.yml#/components/schemas/X`, which `other.yml` does not
  define, resolves to the referrer's own `X`. The worlds define every name that is
  referred to.
- Two components that refer to each other and to nothing else load without
  error and stay nil: `unvisitRef` runs the callback with a nil value
  (`loader.go:1065`). `GroundedResolved` and the others leave out references that
  denote nothing.
- The declaration `doc, componentPath, err :=` shadows (`loader.go:1077`), so the
  children of a value are walked again with the referrer's path. A child that a
  circle of two documents left nil is then looked up in the wrong document, and a
  load may fail although every reference is defined. `ErrorsJustified` is checked
  in `loader_retry`, whose files have no such circle, and proved of worlds that are
  `Rooted`.
- `visitedRefs` and `backtrack` are keyed by the reference as written
  (`loader.go:426`): a local reference in progress in one document captures the
  same string of another. The two documents of `loader_references` define
  disjoint names (`NamesApart`).
- A frame that an error meets between `visitRef` and the `defer` of its `unvisitRef`
  (`loader.go:1071`, `:1079`) leaves its reference visited, and callbacks that nobody
  will run. The next load starts with both maps empty (`loader.go:79`, `:86`), so this
  is seen only by a program that goes on with `ResolveRefsIn`, which is not modelled;
  the second part of `CallbacksAwaited` and `VisitsMatchStack` are stated while no error
  returns (`Live`).
- `visitedDocuments` is set before a document is resolved and never cleared
  (`loader.go:229`): after a load that failed, the next one returns the
  half-resolved document and no error. `LocalResolved` and `DirectResolved` are
  stated of the first load.

## 4. `RequestValidation`: one request, its body and its defaults

`ValidateRequest` is sequential, but it shares the `http.Request` with the
application: it reads the body and puts it back, writes defaults into query,
headers, cookies and body, and calls the application's `AuthenticationFunc` in
between, which reads the body too. A program may validate the same request again
(a middleware in front of a handler that validates) and may replace the body in
between. All of that is in the model.

| State | in the code |
|---|---|
| `request.body`, `getBody`, `contentLength` | `http.Request.Body` as what is still to be read from it, `GetBody` as what it would return, `ContentLength` as unknown, zero or positive |
| `request.closes` | whether a closed body can still be read (a server's cannot) |
| `request.sent` | the values of each parameter, in order; the occurrences of an array in a query are one value |
| `pc`, `i`, `j` | the place in the code and its loops: `security` over the requirements, `schemes` over the schemes of one, `authentication` while the application's function runs, `params`, `body` (before `ReadAll`), `content` (after) |
| `data`, `captured` | the local `data`, and whether `GetBody` is the closure over it |
| `errs`, `verdict` | the errors collected, and what the call returned |
| `accepted`, `served`, `previous` | history: schemes accepted in this call, the body the program gave, the verdict before |

The actions follow the early returns of the code, one per way out
(`AuthenticationMissing`, `SecurityReadFails`, `SchemeUndeclared`, ...). `Error`
is what `ValidateRequest` does with an error in both modes; `Unmet` is the end of
one alternative. `PutBack` is the code that is written three times
(`validate_request.go:301`, `:511`, `:540`): `GetBody`, where there is one, is
preferred to the bytes just read. A parameter that its operation overrides, or that
is excluded with the query, is passed over in the loop (`ParamSkipped`), as in the
code.

A value sent is what the decoder and the schema make of it (`empty`, `good`,
`bad`, or `default`); bodies are a handful of contents with the verdict of the
schema (`Conforming`) and what defaults make of them (`Filled`). A default is written
as text: `fmt.Sprint` prints it (`printed`), and only the items of an array in a query
are serialised (`items`, `populateDefaultQueryParameters`). What that text reads as,
the default itself, another value or none, is a field of the parameter, so that every
outcome is in the model. A default is written only where the decoder returned nil
(`Fills`): not for an object that is not sent, whose nil map compares unequal to nil,
nor for a content that is not sent, which is decoded without its schema. Left out:
`KeepValidatedValue`, a `GetBody` that fails, a query that is empty as a whole (the
decoder of objects then returns a plain nil), and what cookies do to characters that
they may not hold, which is one more reason for a `printed` that is not the default.

Properties. `BodyKept`: an accepted request still has the body it came with,
or that body with defaults. `AuthSeesBody`: each `AuthenticationFunc` is called with
the whole body. `AcceptedSecurely`: all schemes of one requirement were accepted in
this call. `BodyJudged`: the body's error is there exactly if the document refuses
the body. `DefaultsReach`: a parameter that may have a default that reads back
(`ReadsBack`) has, once accepted, a value that the schema accepts, and where the default
was written the program reads it first. `AcceptedAgain`: a second validation finds no
fault with what the first has put into the request, unless some default is written as
text that cannot be read (`Rereadable`).
`Returns`: every call returns.

| Run | Bounds | Result |
|---|---|---|
| `request` | `Bodies`: every `RequestBody` (required or not, no content, no media type that fits, no schema, schema), no security, two alternatives, or an optional one; bodies that conform, lack defaults, do not conform or are empty; requests of servers and of clients; functions that read the body. `Errors`: errors collected, no authentication function, an undeclared scheme after a declared one, encoders that fail. `Parameterised`: a parameter of the path item and one of the operation, equal or not, each required or not, with a default or not, values absent, good, bad and, in a query, empty; and a query parameter with a header or a cookie, each of an odd kind: defaults that read as another value or as none, arrays, objects, contents, neither schema nor content. Two validations of one request, one failing read, one replaced body | the eight properties hold |

Two alternatives, one of them with two schemes, are the smallest requirements in
which a scheme of a refused alternative could be counted for another and in
which three functions read the body in turn. With two validations the second meets
what the first has left. That two are enough is a result of the proofs, which are
about any number of validations (section 14), and it is so only because the encoders
work (see the first divergence).

Known divergences without a run, each the reason for an exclusion of `request`, and
for a hypothesis of the theorems:

- An encoder that fails: `data, err = encodeBody(...)` (`validate_request.go:395`)
  assigns its nil to the variable that the closure set as `GetBody` captures
  (`:310`). The validation reports the failure, with the body in place; the second,
  which prefers `GetBody`, puts an empty body back and reports the failure again; the
  third accepts the request without its body, if the body is not required, although
  the code means to "Put the data back into the input" (`:301`). The run makes two
  validations; with `MaxPasses = 3` and an encoder that fails, TLC finds `BodyKept`
  violated in 16 states.
- A validation sets `GetBody` itself and later prefers it to the bytes it has just
  read (`validate_request.go:303`). When a program replaces the body without
  resetting `GetBody`, the second validation puts the body of the first back. The
  run has `Careful = TRUE`, programs that reset both `GetBody` and
  `ContentLength`; with FALSE, `BodyKept` fails.
- An undeclared scheme after a declared one returns with the body read and not put
  back (`validate_request.go:500`): for a body that can be read after it was
  closed, the next alternative may accept the request with an empty body. The run
  has an undeclared scheme with the bodies of servers, which cannot.
- An `AuthenticationFunc` that has read the body and rejects leaves it read
  (`validate_request.go:532`); with `MultiError` an empty body is then judged. The
  inputs with `MultiError` have functions that leave the body alone.
- A body of unknown length (`ContentLength` -1) passes
  `RejectWhenRequestBodyNotSpecified` (`validate_request.go:108`). No property
  speaks of that option.
- The default of a header or cookie that was sent empty is appended after the
  empty value, which is the one the program reads (`validate_request.go:225`). The
  run sends empty values in queries, and in headers and cookies only for contents.
- Defaults are printed: an array in a header or cookie becomes `[1 2]`, an object
  `map[a:1]`, a large number `1e+06` (`validate_request.go:161`, `:225`, `:229`), and an
  array in a query is joined with a delimiter that its items may hold (`:139`). The
  program, and a second validation, read what that text says: something else, or
  nothing, in which case a request that was accepted is refused. `DefaultsReach` is
  about defaults that read back, and `AcceptedAgain` excuses the parameters where one
  does not.
- The default of an object that is not sent is never written: the decoder returns a
  nil map, which as an interface value is not nil (`req_resp_decoder.go:352`,
  `validate_request.go:201`). The default of a content that is not sent is never
  written either: its schema is nil (`req_resp_decoder.go:148`). A default that is
  added to a header that has a content makes two values of it, which are refused
  (`req_resp_decoder.go:172`). `DefaultsReach` is not about objects and contents.

Fairness: `Returns` assumes that the code goes on and that `AuthenticationFunc`
returns; nothing is assumed about which answer it gives or whether it reads.

## 5. `Middleware`: the handler between two validations

`Middleware` EXTENDS `RequestValidation`: the steps of `ValidateRequest` are the
steps of the stage `request`. `stage` is the place in `Validator.Middleware`:
`route`, `request`, `handler`, `response`, then `returned`, `done` (net/http has
ended the response) or `aborted` (a panic). `wrapper` holds the fields of
`strictResponseWrapper` or `warnResponseWrapper`, `header` the header map that both
share with the writer below, `client` what that writer has sent. The writer of
net/http and the handler are external: `SendStatus` and `SendBody` say what is
used of the first, and the handler makes up to `MaxCalls` calls in any order,
within its `habits`, the things it may do beyond writing: sending informational
statuses, setting headers late, writing nothing, flushing, panicking. `MaxCalls`
and the habits are the bounds of the handler. `direct` is what the same handler
would have sent without the middleware.

Left out: `ErrFunc` is the default one, `ValidateResponse` is the predicate
`Accepts` (one documented header, a content, the body as written), and
`ValidationHandler`, the older handler that validates requests only.

Properties. `HandlerServesValid`: the handler runs only on an accepted request
with its body. `StrictValidated` and `StrictHoldsBack`: with `Strict`, what reaches
the client is valid, and nothing does before it is validated. `Transparent`: an
accepted response is the one the handler sent. `LogsInvalid`: the log is right.
`OnlySilencePanics`: the middleware panics by itself only where a strict one finds
nothing written, and with `Strict` no response goes out that the handler did not begin.
`Answered`: every request is answered, or aborted by a panic. `Transparent` and
`LogsInvalid` are about connections that hold and handlers that are `Orderly`: headers
before the status, no flush, no informational status.

| Run | Bounds | Result |
|---|---|---|
| `middleware` | both modes; three requests; functions that read the body; six sets of documented responses with handlers that only write, on GET and HEAD; two of them, with both checks on or off, with handlers that send 103 first, that set headers late and may write nothing, that panic, or that set headers late and flush; handlers of three calls; a connection that is lost | the eight properties hold |

Known divergences without a run, each the reason for a condition of a property:

- A handler that writes nothing leaves the recorded status 0: a strict middleware
  calls `WriteHeader(0)` (`middleware.go:273`), and net/http panics. The run has such
  handlers, and `OnlySilencePanics` says that this is the only way in which the
  middleware panics. A warning middleware validates, and logs, the status 0 in place of
  the 200 that net/http sends for such a handler (`middleware.go:195`): the run has
  no silent handler that `LogsInvalid` is about, and its theorem excludes them.
- The strict writer records the first status, an informational one included
  (`middleware.go:260`); the final status is then sent without being validated.
  `StrictValidated` leaves responses after an informational one out.
- The warning writer repeats a recorded informational status in place of the
  status of the response (`middleware.go:215`). `Transparent` is stated of handlers
  that send none (`Orderly`).
- `Flush` sends the status 200 without recording it (`middleware.go:224`), and a
  header set late changes what is validated but not what was sent. `Transparent` and
  `LogsInvalid` are stated of handlers that do neither (`Orderly`).

Two or three calls are enough for a status, a body in two pieces, and a status
after a body. Fairness: `Answered` assumes that the middleware, the functions of
the application it calls and net/http go on (`Forward`), and that a handler that
is never silent comes to write (`HandlerCalls`); nothing is assumed of setting
headers, of panics or of connections.

## 6. `SchemaVisit`: a value against a schema

`Schema.VisitJSON` of the OpenAPI 3.0 validator is a recursive descent that does
three things at once: it judges, it writes defaults into the value, and it
collects errors in one of three modes (`failfast`, the first error, all of them).
A Go map is shared by all who hold it, so `VisitJSON` here returns `[errs, value,
called]`: what the visit leaves in the value is as much a result as the verdict.
Each `Visit*` operator is the method of that name; `AndThen` is the early return
between two keywords, `Loop` that inside a loop; the third argument of `VisitJSON`
is the cycle check (a schema that is already being visited on the same value is
taken to accept it; `VisitChild` begins anew), `Rerun` the second visit with which
`oneOf` and `anyOf` write the defaults of the alternative that matched, after
trying each on a copy. Schemas refer to each other by name, so that they may be
recursive; strings are opaque, lengths and patterns are sets of the strings they
accept; numbers are counted in halves, so that `multipleOf` and `integer` mean
something.

`Means` is the reference: what JSON Schema says of a schema and a value, without
order, modes or defaults. `Completed` is the value with the defaults of all schemas
that apply to it. The properties compare the visit with them.

| Run | Bounds | Result |
|---|---|---|
| `schema` | 17 scalar schemas on nine values; two object schemas out of seven (required, defaults, closed) under `oneOf`, `anyOf` and `allOf` on every object of two properties and three values; five recursive schemas on trees of depth three; read-only and write-only properties; discriminators with and without mapping; every mode, direction and with defaults or not | `VerdictIsTheSchemas`, `DefaultsOfTheMatched`, `PointersLeadToFaults` hold |

Two alternatives are the fewest of which one can be refused after it has written,
two properties the fewest of which one can be given and the other defaulted.

Known divergences:

- In an `allOf`, an earlier schema does not see the default a later one sets, and
  may accept what it then refuses. `Displeased` leaves these out.
- The matches of a `oneOf` are counted before defaults are written; a default can
  make a second alternative match.
- `not` is visited on the value itself: the defaults of a schema that is refused
  there stay.
- `DefaultsSet` is called also when defaults were set only in the copies of
  alternatives that were refused, against "executes the given callback (once) IFF
  ... defaults were set" (`schema_validation_settings.go:83`).
- `Schema.IsEmpty` recurses without a check for cycles; `{not: {}}` and `oneOf` of
  empty schemas count as empty.
- `utf16.IsSurrogate` is asked about runes of a decoded string and is never true.
- Defaults of a `map[any]any` go to a copy.

Left out: the options that disable the checks of read-only and write-only
properties, `map[any]any`, patterns that do not compile, unresolved references, and
the JSON Schema 2020-12 validator, which is a library.

## 7. `Routing`: a request and its route

The legacy router fills a pattern tree (`routers/legacy/pathpattern`) from the
document, ranging over a Go map: `AddDocumented` adds any pending route next,
which is the source of all the nondeterminism here. `tree` maps the suffixes on
the way to a node to what it holds; `CreateNode`, `Add`, `Match` are the functions
of that package, `MatchRemaining` with its backtracking. The gorillamux router
makes a list in the order of `InMatchingOrder` and takes the first that matches.
`FindRoute` makes the same request of both (`LegacyFindRoute`, `MuxFindRoute`).
`AddRoute` may be called in between, `MaxExtra` times.

| Run | Bounds | Result |
|---|---|---|
| `routing` | every document of one to three out of eleven templates of up to two segments, with every assignment of methods; seven lists of servers (relative, absolute, with variables, with a path) with three sets of paths; twelve documents one of whose two paths has servers of its own; 22 requests without a host and 24 with scheme and host, with and without a port; one `AddRoute` | `AnswersFit`, `ConcreteFirst`, `NothingLost` hold |

Three templates are enough for a concrete one, a variable one and the one behind
which the search has to come back.

Known divergences, each a precondition of a property or a choice of the documents:

- `AddRoute` stores the router itself in the node (`routers/legacy/router.go`), so
  that a route it adds is not found, or found as a nil route without an error.
- "/a" and "/a/" share a node in the legacy router; one of them wins at random.
- The legacy `{x}` matches an empty segment, and never matches with text behind it
  in the same segment (`WholeSegments`).
- gorilla/mux takes no notice of the port of a request where the host of the server
  names none (`HostFor`): `s://h:1/a` is answered with the server `s://h`. `AnswersFit`
  says that the answer fits the URL without its port then. The legacy router does not
  find it.
- The legacy router does not look at the servers of a path (`PathServers`, which
  gorillamux puts in place of those of the document); `NothingLost` is about documents
  without any.
- A path that is added twice with other variable names takes the names of the second
  (`node.go:179`); no document that was validated has two such paths, so it is
  `AddRoute` that does so in the run.
- The gorillamux router answers 405 where the legacy one finds another template
  that has the method; the routers may pick different templates.
- The legacy router takes the first server whose URL is a prefix and does not try
  the next (`NothingLost` is about at most one). A URL that is one variable is its
  default to gorillamux and one segment to the legacy router.
- A server variable and a path variable of the same name overwrite each other.

Left out: the list type `Routers`, regular expressions in variables (neither router
enables them), and percent-encoding.

## 8. `Decoding`: parameters and bodies from strings

`Send` is the client (external): it writes a value as RFC 6570 and OpenAPI say for
the location, style and `explode`, or leaves it out, and others may have put
parameters of their own into the same request. `Decode` reads it back. The
operators are the decoders of the code (`DecodePrimitive`, `DecodeArray` and
`DecodeObject`, with the delimiters of each location; `MakeObject`, where an
object of indexes becomes an array; `ParsePrimitive`; `DecodeValue` with the trial
of `allOf`, `anyOf`, `oneOf`), and `UrlencodedBody` and `MultipartBody`, with
encodings per property and parts with content types of their own. Strings are
sequences of characters because delimiters are what is hard; numbers are digits,
with one digit group that stands for more than 32 bits, and `Truths` are texts
that `strconv.ParseBool` takes, 1 and 0 among them. Errors are told apart where
the code does (a `ParseError` from others), and so are nil and `NilMap`, the nil
map of an object that is not nil as an interface value. `Decode` chooses in which
order Go's map of an object's strings is walked (`shorterFirst`).

| Run | Bounds | Result |
|---|---|---|
| `decoding` | every location, style and `explode` that the code supports; 17 primitive values of ten schemas, four arrays, three flat and eight deep objects, two of them with holes in their arrays, as many as `MaxGap` allows; `anyOf` and `oneOf` of an array and an object; urlencoded bodies with every pair of encodings, multipart bodies with arrays, files and JSON parts; no foreign parameter, one, or two of which one looks like a part of an object; the parameter given or left out | `RoundTrip`, `LeftOut` hold |

`RoundTrip` says that what was written is read back; `LeftOut` that what was left
out is neither found nor an error and has nothing in it of what belongs to others.
What it is then depends on the schema: nil, the nil map of an object (whose
default is not written, section 4), or, for an object that `form` and `explode`
spread over a query with other parameters, an empty object that is validated.

Known divergences, none of which the cases of the run meet:

- `allOf` of object schemas keeps the properties of the last one only; `oneOf`
  decodes to the last alternative that parses. Inside an array `oneOf` fails if
  two do: an item of `oneOf` boolean and integer cannot be 1 or 0, as both read it.
- Alternatives are told by their values, and the nil map of an object that could
  not be decoded counts as one: `anyOf` of an object before an array decodes an
  array of one number to the nil map without an error, and `oneOf` of an array before an
  object does as well. The cases have them in the order that works.
- Keys of which one goes on below another, `p[a]` and `p[a][b]`, make `deepSet`
  panic or lose the longer one, by the order of a Go map.
- A schema in `additionalProperties` decodes the declared properties again and
  replaces them; in multipart bodies it is looked up in its own properties.
- An object in the query with style `form` and `explode` takes parameters that are
  not its own if it is open, and is found then. The style cannot tell them apart;
  the cases have closed ones.
- The index "01" of a `deepObject` array is lost and leaves a nil.
- A multipart part whose content type has a charset is not parsed as a primitive;
  `allOf` with arrays cannot be decoded in a multipart body.
- Errors other than `ParseError` in a urlencoded body are dropped.

Left out: decoders of zip, csv and yaml, custom `ParamDecoder`s, the encoders.
Empty strings and arrays are not told from absence by the styles themselves.

## 9. `Documents`: whether a document complies

Every `Validate` method of `openapi3` is an operator of the kind of object it
validates, which returns the list of errors it reports; `FirstOf` is its fail-fast
form, `Collected` that with `EnableMultiError`, `Under` the wrapping of an error
in its context. Schemas, operations, path items and callbacks are kept by name,
since they may lead back to themselves; the visited set of the schemas (`Visit`)
and the one of the security requirements (`SecurityRequirements`) are handed from
call to call. `errs` holds the result of one call of `Validate` (`Check`) in both
modes. What is judged elsewhere is a set of directions in which an example or
default fits; patterns and formats are a flag.

| Run | Bounds | Result |
|---|---|---|
| `document` | every keyword that leads to a schema, to a good one, a faulty one, an unresolved one and one in a cycle; schemas with every flaw alone and some together; two paths out of 18 each; secured operations in paths, webhooks and callbacks that lead back to them; infos, servers, tags, security schemes, parameters, headers, media types and components with and without faults; five sets of options; versions 3.0, 3.1, 3.2 and none | `AcceptedThroughout`, `Unambiguous`, `ReportedOnce` hold |

Cycles of two schemas, and of two callbacks, are the shortest in which something is
reached a second time by another way.

Known divergences:

- `Operation.Validate` does not validate callbacks (although `operation.go`
  documents them), servers, security and tags; `Schema.Validate` does not call
  those of its discriminator and XML; headers check neither extensions nor
  examples; a parameter validated with `DisableExamplesValidation` returns before
  its extensions are checked.
- Header schemas of a response are judged in the direction of a response although
  a comment in `media_type.go` says undirected; an example that has only an
  `externalValue` is judged as null.
- Options that are already in the context are lost for documents of version 3.1
  and later (`ReportedOnce` is about calls without).
- `normalizeTemplatedPath` never keeps a "*" suffix, although the comment on
  `Paths.Find` says so.
- A `MultiError` of a schema or security scheme is wrapped as a whole, which
  `error_collector.go` says it should not.
- The nil path items of a document are replaced by empty ones.
- References under `oneOf`, `anyOf`, `allOf`, `not`, `if`, `then` and `else` are
  not checked for siblings.

Left out: nil references in lists (a panic), braces that are not closed, texts and
origins of errors (`validation_error.go`).

## 10. `Conversions`: Swagger 2.0 to OpenAPI 3 and back

`ToV3` and `FromV3` range over maps. Most of these loops do not depend on the
order; the two that do, over the shared parameters of the one version and the
request bodies of the other, are actions that take any key that is left
(`ConvertParameter`, `ConvertRequestBody`); the others are operators. `phase` is
where the conversion is ("failed" for an error, "panicked" for a nil dereference),
`todo` the keys that are left. `Effective` and `Consumed`
are what an operation takes as a client sees it, whatever level and component it
is written in; `ConvertedBack` compares both sides in those terms.

| Run | Bounds | Result |
|---|---|---|
| `conversion` | documents with one path item: up to two parameters at the level of the path item and two of the operation, each a body, a form field, a file, a simple parameter or a reference, consuming JSON, forms or nothing; bodies and definitions of 53 shapes; responses with schemas, headers, examples and media types; hosts, base paths and schemes; every kind of security scheme | `ConvertedBack` holds |

Two levels with two parameters each are enough for one that is overridden beside
one that is not.

Known divergences (`Effective`, `Consumed`, `Kept`, `Convertible` and the documents leave
them out):

- An inline body that redeclares a body of the path item that is a reference is
  not seen to override it, against the comment at `openapi2_conv.go:226`; `ToV3`
  refuses.
- A response with an example of JSON and no schema makes `FromV3` dereference a
  nil schema (`openapi2_conv.go:930`, called at `:1364`): `phase` is "panicked",
  which the run reaches from such documents and from no others.
- Lost on the way back: discriminators, in every schema (`Kept` leaves them out of
  the comparison); `required` of inline form fields; `consumes` of an
  operation whose body is a shared reference; the schema of a response that does
  not produce JSON; `produces` and `examples` of responses; `tsv` and the
  collection format of headers; `ws` and `wss`; the token URL of an implicit flow.
- `consumes` that is empty becomes a form if there is a form, and a v3 body of
  several media types keeps any one of them.
- Component form parameters that are not files become definitions, and references
  to them dangle; one with the name of a definition replaces it.
- A component parameter that is only a reference to another depends on the order
  of the map. References in `additionalProperties` are converted by half.
- A `{string, binary}` definition becomes a parameter, and what contains it loses
  it.
- Maps of extensions are shared with the input and changed.
- `findNameForRequestBody` refuses an operation with parameters named both `body`
  and `requestBody`.

Left out: several path items, v3 documents that `ToV3` did not make, fields that are
copied one by one.

## 11. `Internalize`: a document in one piece

`InternalizeRefs` walks a loaded document depth first and moves what it refers to in
other files to its components. `links` are the edges of the object graph, each with
the reference as it is written and the object it was resolved to; `stack` is what
the walk has still to follow, `visited` the code's map. There is one action per kind
of component (`VisitSchema`, `VisitParameter`, ...) because the code differs from
kind to kind: in whether it marks what it visits, clears the reference of a
component, and replaces a component of the same name. A path item is put in place
and knows whether it is external from its own reference only.

The documents of the model meet four conditions (`WorldsAssumption`), which TLC
evaluates and the theorem takes: `Typed` and `Homed` say what the graph of a loaded
document is (each object has one home, a place in a file, and a reference leads to
it from wherever it is written; where the loader decodes a file anew for each referrer,
its objects are one here, so that an object is to be read as its content), `Resolved` that references within the document lead
through its components and not in circles, and `WholesCleared` leaves one divergence
out. `Layers` says that a walk goes down, but for schemas and headers, which it does
not walk twice: without it the code does not return (`derefPaths`, below). `Straight`
is a condition of the property itself: among the objects of other files that the walk
takes to be of the document, its errors (`Astray`), no reference is a local one.

| Run | Bounds | Result |
|---|---|---|
| `internalize` | two components that are schemas of the document, of another file or whole files, three more schemas in two other files, and every graph of references between them with one or two each; and every way through 23 sequences of kinds of objects (a path item, its request body, a header of that, its schema) where each step is in place, a whole file, a component here or there | `SelfContained` holds |

Known divergences:

- A reference in the root to a component that is itself an external reference,
  visited first, is walked as if its references were written here, and `visited`
  keeps the right walk from being made later. So is a component of the document that
  is such a local reference. `Straight` leaves documents of this form out.
- A path item inline in an external callback is not taken to be external, nor what
  is in place in it (`Straight`).
- Component headers, responses, security schemes, examples and links that are
  references to whole files come to refer to themselves (`WholesCleared` leaves them
  out).
- `derefPaths` has no guard against callbacks that list themselves and does not
  return (`Layers` leaves them out).
- Webhooks, the keywords of 3.1, `itemSchema` and the examples of parameters and
  headers are not walked (`internalize_refs.go:505`). No property covers this:
  what is never walked is not in the model.
- A callback replaces the component of the same name (`internalize_refs.go:317`).

Left out: name resolvers other than the default one, which is taken to be injective.

`SelfContained` is also proved, for any graph of objects over any number of files
(`EndsSelfContained`, section 14).

## 12. `Caches` and `ReadThrough`: what callers share

Three caches have one form: look up under a lock; if missing, make without the
lock; store under the lock. They are `URIMapCache`, the compiled patterns of
schemas, and the type information of `openapi3gen`. `Caches` has one action for
the look-up (`ReadURI`, `VisitString`, `ValidatePattern`, `GetTypeInfo`), one for
the slow part (`Make`, which reads what is there at that moment) and one for the
store (`Publish`). In between, files change and vanish (`Change`).

`ReadThrough` is what such a cache promises: a call that misses is given something
the source was during the call, a call that hits what the cell holds; errors are
not kept; a cell changes only by calls that missed, or insist. `ReadsThrough` is
`Abstract!Spec`, the abstract specification under the mapping that hides `made`,
and TLC checks it as a property of `Spec`.

| Run | Bounds | Result |
|---|---|---|
| `caches` | two callers, one with a compiler of its own that refuses a pattern; three locations (HTTP, a relative file, a scheme no reader knows), two patterns, a type and a pointer to it; each path changes once | `ReadsThrough` holds |

Two callers are enough to miss together; the second of them to publish shows
the later one replacing the earlier. More callers add only more of the same.

That `Caches` implements `ReadThrough` is also proved, for any callers, locations,
patterns and types (`CachesReadThrough`, section 14).

What the abstract specification has to allow, and a user may not expect:

- Callers that miss together read twice, and the last to publish, perhaps with the
  older content, replaces what the other has stored.
- A pattern is matched with what is cached, whoever's compiler made it, and
  validating a document with a compiler (`schema.go:1861`) replaces the cached
  pattern for all (`Insists`).
- Two spellings of the location of one file are two keys.

There is no liveness: `http.DefaultClient` has no timeout, so a read need not end.

No fairness is assumed in sections 6 to 12. The runs say `CHECK_DEADLOCK FALSE`
where a call is made once and ends, or where every caller may be between calls.

## 13. Not modelled

- Registries (`RegisterBodyDecoder`, `DefineStringFormat` and others): maps from
  names to functions; each call is one step, behind a lock except for the formats,
  whose unlocked use is a matter of calling them before anything else runs.
- Document types and their marshalling: generated or repetitive code without
  state.
- The command line, which calls the library and prints.
- The JSON Schema 2020-12 validator (an external library) and the conversion of
  schemas for it; `openapi3conv`, a copy field by field.
- Generation of schemas by reflection in `openapi3gen`: its input is Go types.
- `ValidationHandler`, `KeepValidatedValue`, custom decoders and encoders, and the
  parts named under "Left out" above.

## 14. Proofs

Each theorem holds for any values of the constants that satisfy the assumptions of
the modules: worlds are functions from locations to files, null values differ from
the data, operations, options, requests and responses are of their types, counts are
natural numbers, and a file system has finitely many files and names. Where a theorem
has a hypothesis, it is one of the divergences above, put as a condition on the
constants or on the world, which never changes; a state or a step of the program is
never left out.

### Recursion

`RecursionProofs` has what the theorems about recursively defined functions rest on.
The library's induction takes an operator as a parameter, which cannot be
instantiated here; `SetInduction` is induction for sets, from the fact that the order
of the naturals is well founded, and the property proved is the membership in a set
of the step. `Solutions` says that a function defined by recursion over the naturals
exists, so that the CHOOSE by which TLA+ defines a recursive function satisfies its
equation; `Follow`, `Locally` and `EndsIn` are curried (first the number, then the
location) to be of its form. `GrowthEnds` is the pigeonhole principle: sets that grow
and are subsets of a finite set stop growing after as many steps as it has elements.

### The Loader

`RefLoaderProofs`, for any set of files, any number of loads and of failing reads:

- `HeapIsClosed`: `IInv` is an invariant of `Spec`. `TypeOK` is not inductive: a
  step that walks the sub-components of a value, or drills into a document,
  reads cells of the heap, and nothing in `TypeOK` says they are there. `IInv`
  adds that every pointer leads to an object decoded with all its sub-components
  (`Valid`, `HeapOK`), that a frame's component is on the heap, and that a frame
  that loads or drills does so for a reference of the right kind (`FrameOK`).
  There is one lemma per group of steps; what they share are lemmas on the heap
  (`HeapKeeps`, `HeapUpdates`) and on the stack (`CallKeeps`, `GotoKeeps`,
  `PopKeeps`): a heap that only grows keeps every frame valid (`Growth`).
- `TypeCorrect`: `Spec => []TypeOK`, from `HeapIsClosed`.
- `VisitsPairUp`: `Spec => []VisitsMatchStack`.
- `ValuesAreStable`: `Spec => ValuesStable`.
- `CallbacksAreAwaited`: `Spec => []CallbacksAwaited`.

The last three need `ValueInv`, because none is inductive. `unvisitRef` takes the *last*
element off `visitedPath` and its *own* reference out of `visitedRefs`: that these
are the same needs the references of the open frames to be different (`Distinct`),
which needs each of them to be in `visitedRefs` until its frame returns
(`Visiting`, `Matching`). And a callback may overwrite a component that has a value
only if another frame has given it one; `Carrying` says that a frame's component has
no value before the frame finds it and then the value that the frame hands to the
callbacks, `Awaiting` that whatever waits in `backtrack[r]` is a component that is the
reference `r` and has no value, or has the one its own frame has found. Because
`Distinct` is about the frames and not about `visitedRefs`, it also holds while an
error returns, when frames are popped without unvisiting. `Born` keeps decodes
apart, so that a new one never replaces a component. Most steps only move frames on
(`Follows`): `QuietStep` is about all of them, and the steps that visit, find a value
and unvisit have lemmas of their own (`EnterUnvisitedFrames`, `FoundFrames`,
`UnvisitFrames`), with the arithmetic of ranks in `PairedVisit` and `PairedUnvisit`.

`RefLoaderTargetProofs` compares what the code does with what references mean, under
the conditions of section 3. What the loader finds by drilling, reference after
reference, is where `Follow` leads after some number of steps (`Leads`); that the
bound in the property is enough is the pigeonhole principle (`EnoughAtLast`).

- `TargetsAreRight` (`RightTarget`), under `NoneDangling` and one of `NamesApart` and
  `Rooted`. `TargetInv` says that components are decoded from where they are defined
  (`Defined`), that the values they have are what they stand for (`AllRight`), and that
  a frame looks in the file that its reference names and copies from there what it
  refers to (`Aiming`, `Cached`). A value also comes through a callback, keyed by the
  reference as it is written: with names apart, components that wait for the same
  local reference mean the same; otherwise a local reference is resolved, and waited
  for, in the root of the load only (`InRoot`).
- `PathsAreRight` (`RefPathAgrees`), under `NoneDangling` and `Rooted`: `PathInv` adds
  that a component has a location when it has a value, that a copy has one before it
  is copied from, and that the location leads to the same object as the reference
  (`Agrees`). Names apart would not do: the children of a value are walked again with
  the path of the referrer.
- `ErrorsAreJustified` (`ErrorsJustified`), under `Rooted`: as long as the files are
  `Sound` and no read has failed, `TargetInv` holds and no error has been made
  (`ErrorInv`). Whether the files are sound is known from the start, so the invariant
  takes no condition that an error would have to keep.

`RefLoaderResolvedProofs` shows that nothing is forgotten: if a component has no value
and no error returns, something is still going to give it one.

- `DirectAreResolved` (`DirectResolved`), under the conditions of `TargetsAreRight`. A
  component that refers straight to an object waits in `backtrack` for a reference
  that is being resolved, is being resolved itself, or will be visited in a loop that
  a frame has not finished (`Settled`, `Covered`). With an empty stack none of these is
  left. That a callback gives it a value needs frames past `copy` to have found one
  (`Ready`): a direct reference never comes back from its target with nothing.
- `LocalAreResolved` (`LocalResolved`), under `NoneDangling` and one of `Rooted`, and
  `NamesApart` with `Listed`. A chain of references may come back from its first link
  with nothing, when the reference of a later link is in progress, and callbacks then
  fill in a nil; so the argument of `DirectAreResolved` fails, and the invariant does
  without callbacks. It says that a component without a value is sought (`Awaited`): by
  the frame that resolves it, or by the loop of a frame below that will come to it
  again, and in either case none of the references in progress *below that frame*
  stands between the component and its object (`Clear`), so that when the frame gets
  there, no visit on the way is refused. `Linked` follows the copies that such a frame
  makes; `Listing` and `Contexts` say that a file that refers to itself is drilled as
  the document it is.

### Request validation

`RequestValidationProofs`, with no hypothesis, for any operations, options and
requests, and any number of validations, replaced bodies and failing reads:

- `SecurelyAccepted`: `Spec => []AcceptedSecurely`. It is not inductive: when a
  requirement is met, `AcceptedSecurely` does not say which schemes the loop has
  passed, nor, later in the call, that one was met. `SInv` adds both: in the
  `schemes` loop every scheme before the j-th has been accepted, and a call that is
  past its security requirements either met one or has collected an error.
- `TypesKept`: `Spec => []TypeOK`.

Under `Proper`: a program that resets `GetBody` when it replaces the body, requests
whose `GetBody` returns their body, documents that declare the schemes they name,
encoders that do not fail:

- `BodiesKept` (`BodyKept`) and `BodiesSeen` (`AuthSeesBody`). The invariant `BodyInv`
  says which of the two sources of `PutBack` can be trusted where: as long as
  `GetBody` is not set, nobody but the code has read the body, and the bytes read are
  the body (`ReadForSecurity`); once it is set, it returns the body or that body with
  defaults (`InPlace`), whatever the application has read. Past the security
  requirements the body is whole, or an error has been collected, or it will be read
  (`AfterSecurity`).
- `BodiesJudged` (`BodyJudged`), also under `Quiet`: where errors are collected,
  `AuthenticationFunc` leaves the body alone.

About the parameters:

- `DefaultsRead` (`DefaultsReach`), under `Plain`: no header or cookie is sent
  with an empty first value, and no request sends the default after another value.
  The second part is not a divergence: `DefaultsReach` cannot tell such a value from
  a default that was written. The invariant follows the loop: every parameter behind
  it whose default reads back has a value that the schema accepts, written or sent
  (`Given`), and later parameters do not take it away.
- `AlwaysAcceptedAgain` (`AcceptedAgain`), under `Proper` and `Quiet`. What an accepted
  call has found fine stays fine for the next: writing the default of one parameter
  does not make another one of the same place and name wrong, and the length of the
  body stays the one that was accepted.

### Middleware

Every step of the middleware is a step of `ValidateRequest` or leaves its variables
alone (`RequestSide`), so that the invariants of the request hold in the composition.

`MiddlewareProofs`:

- `HandlerServesSecurely`: the handler runs only on a request of which one
  requirement was accepted whole; `HandlerServesKept` (`HandlerServesValid`), under
  `Proper`: and with its body.
- `OnlyValidatedResponses` (`StrictValidated`) and `NothingEarly` (`StrictHoldsBack`).
  Neither is inductive: `StrictInv` adds that the client of a strict middleware has
  nothing before the response is validated, that the status recorded is informational
  only if the handler has sent such a response (`Before`), and that the client has a
  status after it, so that the 200 with which net/http completes a response is never
  sent in its place (`After`).

About the writers:

- `MiddlewareTyped` (`MiddlewareTypeOK`).
- `SilenceIsNotAnswered` (`OnlySilencePanics`), with no hypothesis. `SpokenInv` and
  `Recording` say that the status is recorded exactly if a call of the writer was made,
  but for a flush of the warning writer, and `Silence` that a strict middleware has
  sent an error of its own where none was made.
- `OrderlyTransparent` (`Transparent`), with no hypothesis beyond those in the property
  (an orderly handler, a connection that holds), and `InvalidResponsesLogged` (`LogsInvalid`), under `Speaking`: no
  orderly handler is silent. Both follow from `OrderlyInv`, which compares three
  accounts of one response at every stage: what the handler has sent (`direct`), what
  the writer has recorded and what the client has (`Mirrors`, `Answers`, `Reports`).

### Caches

`CachesProofs`: `CachesReadThrough`, `Spec => ReadsThrough`: each step of `Caches` is an
action of `ReadThrough` under the mapping, or a stutter. A caller that has made a
value and not yet stored it holds something its source was while the call lasted;
the abstract state does not see it, so `Timely` says it of the detailed one, and is
kept because a source only ever gets a longer past. In the proof the mapped set
`Kept` turned out to be wrong at the edge of its types (keys that are not locations),
and the modules lacked the assumption that `None`, `Error` and what is made differ;
both are now stated.

### Internalize

`InternalizeProofs`: `EndsSelfContained` (`SelfContained`), for documents that are
`Layered`: there are heights for `Layers`. `MCInternalize` assumes `Layers` of each of
its documents, with heights of its own (`Height`), so TLC checks that the hypothesis is met.

The property is about the end; `IInv` says what is true of the walk before. It speaks
of the objects `W` that the walk has come to and of the objects `L` it may take for the
document's from the start although they are not, in which no reference is a local one
(`Straight`), so that this does not matter. Every link of an object in `W` refers to
this document and to the component of its object (`Fine`), or a task is left that will
see to it and takes its object for what it is, or for one of `L` (`Covered`). Other
objects of other files are taken for the document's only when the walk comes to them
again, by a reference that it has made a local one itself. Then every link of theirs is
in order already (`Harmless`), because the stack is sorted by height (`Sorted`): what
the earlier visit has put on it is done before anything as high is met. A component may be a
reference to another one; `Chained` gives the components ranks along which these
references go down, and they are kept when new components are added, so that `EndsIn`
reaches an object within its bound (`EndsRight`).

TLC was given `IInv` first, with `L`, `h`, `r` and `W` computed from the state. It
showed that `Straight` had to follow what is in place in an object that is taken for
the document's, and what the document's components refer to; both are in its
definition now.

### What is only model-checked

- `SchemaVisit`, `Routing`, `Decoding`, `Documents`, `Conversions` and their
  properties: they declare RECURSIVE operators, because what they model recurses over
  documents and values that lead back to themselves; the SMT backend is not available
  in such modules. Their reference definitions (`Means`, `Effective`) recurse too.
- Liveness (`LoadReturns`, `Returns`, `Answered`), and everything about ENABLED.
- Of `RefLoader`, what lies outside the conditions of its theorems but inside the
  worlds of the runs: `RefPathAgrees` between documents that refer to each other and
  to themselves, `ErrorsJustified` for files that others refer to and that refer to
  themselves. `GroundedResolved` is violated.
- Of `Internalize`: that `Typed`, `Homed` and `Resolved` describe the graphs that loading
  makes is by inspection; `RefLoader` does not model the objects that are walked here.
