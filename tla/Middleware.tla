------------------------------ MODULE Middleware ------------------------------
(***************************************************************************)
(* openapi3filter.Validator.Middleware: an http.Handler that validates the *)
(* request, runs the application's handler with a response writer of its   *)
(* own and validates what the handler has written.                         *)
(*                                                                         *)
(* The strict writer holds the response back until it is validated; the    *)
(* warning writer sends it on at once and records it for the validation.   *)
(* Both share the header map of the underlying writer.                     *)
(*                                                                         *)
(* Below the middleware is the ResponseWriter of net/http (external): an   *)
(* informational status is sent and is not the status of the response, the *)
(* first other status is, writing or returning without one sends 200, and  *)
(* the status 0 panics.  The variable direct is the same ResponseWriter    *)
(* used by the same handler without the middleware, for comparison.        *)
(***************************************************************************)
EXTENDS RequestValidation

CONSTANTS
  Statuses,      \* the statuses handlers send
  Informational, \* those of them that are 1xx
  Unvalidated,   \* those that ValidateResponse does not look at
  OK, NotFound, BadRequest, ServerError, Zero, Default,
  Chunks,        \* the pieces of a body that handlers write
  ErrorText,     \* the body that ErrFunc writes
  GoodBodies,    \* the bodies that the response schema accepts
  Setups,        \* the documents, options, requests and handlers considered
  MaxCalls       \* bound: calls of the response writer by the handler

\* What a handler may do.
\* early:  sending informational statuses
\* late:   setting a header after the status or part of the body was written
\* silent: returning without a status or a body
\* flush:  using http.Flusher where the response writer has it
\* panic:  panicking
Habits == {"early", "late", "silent", "flush", "panic"}

ResponseSpec == [ header : {"none", "optional", "required"},
                  content : {"none", "other", "any", "schema"} ]
Checks       == [ excludeBody : BOOLEAN, includeStatus : BOOLEAN ]
Final        == (Statuses \ Informational) \cup {OK, NotFound, BadRequest, ServerError}

Setup == [ responses : UNION { [S -> ResponseSpec] : S \in SUBSET (Statuses \cup {Default}) },
           checks : Checks, method : STRING, strict : BOOLEAN, habits : SUBSET Habits ]

ASSUME ResponsesAssumption ==
  /\ Informational \subseteq Statuses /\ Unvalidated \subseteq Statuses
  /\ Zero \notin Statuses \cup Final /\ {Nil, Default} \cap (Statuses \cup Final) = {}
  /\ {OK, NotFound, BadRequest, ServerError} \cap Informational = {} /\ ErrorText \notin Chunks
  /\ Nil \notin {"invalid response", "failed to write response"}
  /\ Setups \subseteq Setup
  /\ GoodBodies \subseteq Seq(Chunks)
  /\ MaxCalls \in Nat

VARIABLES
  responses, checks, method, strict, habits,  \* the document, the options, the
                                              \* request and the handler
  stage,   \* where the middleware is
  header,  \* the header map: the documented header is absent, "good" or "bad"
  wrapper, \* strictResponseWrapper or warnResponseWrapper
  client,  \* the underlying ResponseWriter, as the client sees it
  direct,  \* what the client would see without the middleware
  logged,  \* the log message of the response
  lost,    \* the connection to the client is lost: writes fail
  calls    \* of the response writer by the handler

setup  == <<responses, checks, method, strict, habits>>
mwVars == <<setup, stage, header, wrapper, client, direct, logged, lost, calls>>
allVars == <<vars, mwVars>>

(***************************************************************************)
(* The ResponseWriter of net/http.                                         *)
(***************************************************************************)
Unsent == [status |-> Nil, header |-> Nil, infos |-> <<>>, body |-> <<>>, by |-> Nil]

SendStatus(w, s, h, by) ==
  IF w.status # Nil            THEN w
  ELSE IF s \in Informational THEN [w EXCEPT !.infos = Append(@, s)]
  ELSE [w EXCEPT !.status = s, !.header = h, !.by = by]
SendBody(w, b, h, by) ==
  LET started == SendStatus(w, OK, h, by)
  IN  [started EXCEPT !.body = @ \o b]

\* ErrFunc, by default http.Error.
SendError(w, s, h) ==
  LET started == SendStatus(w, s, h, "validator")
  IN  IF lost THEN started ELSE SendBody(started, <<ErrorText>>, h, "validator")

(***************************************************************************)
(* ValidateResponse.                                                       *)
(***************************************************************************)
\* An undocumented status is accepted unless IncludeResponseStatus is set.
Accepts(s, h, b) ==
  LET documented == {s, Default} \cap DOMAIN responses
  IN  \/ method = "HEAD" \/ s \in Unvalidated \/ DOMAIN responses = {}
      \/ documented = {} /\ ~checks.includeStatus
      \/ documented # {}
         /\ LET spec == responses[IF s \in documented THEN s ELSE Default]
            IN  /\ spec.header = "none" \/ h = "good" \/ (h = Nil /\ spec.header = "optional")
                /\ checks.excludeBody \/ spec.content \in {"none", "any"}
                     \/ (spec.content = "schema" /\ b \in GoodBodies)

(***************************************************************************)
(* Middleware, up to the handler.                                          *)
(***************************************************************************)
CannotFindRoute ==
  /\ stage = "route"
  /\ stage' = "returned" /\ client' = SendError(client, NotFound, header)
  /\ UNCHANGED <<vars, setup, header, wrapper, direct, logged, lost, calls>>

FoundRoute ==
  /\ stage = "route" /\ stage' = "request"
  /\ ValidateRequest
  /\ UNCHANGED <<setup, header, wrapper, client, direct, logged, lost, calls>>

ValidatingRequest ==
  /\ stage = "request" /\ Step
  /\ UNCHANGED mwVars

RequestInvalid ==
  /\ stage = "request" /\ verdict = "err"
  /\ stage' = "returned" /\ client' = SendError(client, BadRequest, header)
  /\ UNCHANGED <<vars, setup, header, wrapper, direct, logged, lost, calls>>

\* variation: the handler runs although the request was refused.
RequestValidFaulty ==
  /\ stage = "request" /\ verdict # "none"
  /\ stage' = "handler"
  /\ UNCHANGED <<vars, setup, header, wrapper, client, direct, logged, lost, calls>>
RequestValid ==
  /\ stage = "request" /\ verdict = "ok"
  /\ stage' = "handler"
  /\ UNCHANGED <<vars, setup, header, wrapper, client, direct, logged, lost, calls>>

(***************************************************************************)
(* The two writers.                                                        *)
(***************************************************************************)
\* variation: the last status is the one recorded.
RecordedFaulty(w, s) == [w EXCEPT !.status = s, !.headerWritten = TRUE]
Recorded(w, s) ==
  IF w.headerWritten THEN w ELSE [w EXCEPT !.status = s, !.headerWritten = TRUE]

\* The warning writer sends the status it has recorded, the strict one nothing.
\* variation: the strict writer passes the status on too.
PassedOnEarly(s) == SendStatus(client, Recorded(wrapper, s).status, header, "handler")
PassedOn(s) ==
  IF strict THEN client ELSE SendStatus(client, Recorded(wrapper, s).status, header, "handler")

Calling == stage = "handler" /\ calls < MaxCalls /\ calls' = calls + 1

WriteHeader(s) ==
  /\ Calling /\ (s \in Informational => "early" \in habits)
  /\ wrapper' = Recorded(wrapper, s)
  /\ client' = PassedOn(s)
  /\ direct' = SendStatus(direct, s, header, "handler")
  /\ UNCHANGED <<vars, setup, stage, header, logged, lost>>

\* variation: a body without a status leaves the status unset.
WriteFaulty(b) ==
  /\ Calling
  /\ wrapper' = IF ~strict /\ lost THEN wrapper ELSE [wrapper EXCEPT !.body = Append(@, b)]
  /\ client'  = IF strict \/ lost THEN client ELSE SendBody(client, <<b>>, header, "handler")
  /\ direct'  = SendBody(direct, <<b>>, header, "handler")
  /\ UNCHANGED <<vars, setup, stage, header, logged, lost>>

\* Over a lost connection the first writer of the MultiWriter fails, and the
\* second one records nothing.
Write(b) ==
  /\ Calling
  /\ LET w == Recorded(wrapper, OK)
         c == IF wrapper.headerWritten THEN client ELSE PassedOn(OK)
     IN  /\ wrapper' = IF ~strict /\ lost THEN w ELSE [w EXCEPT !.body = Append(@, b)]
         /\ client'  = IF strict \/ lost THEN c ELSE SendBody(c, <<b>>, header, "handler")
  /\ direct' = SendBody(direct, <<b>>, header, "handler")
  /\ UNCHANGED <<vars, setup, stage, header, logged, lost>>

\* Only the warning writer is a Flusher; flushing sends the status 200.
Flush ==
  /\ Calling /\ "flush" \in habits /\ ~strict
  /\ client' = SendStatus(client, OK, header, "handler")
  /\ direct' = SendStatus(direct, OK, header, "handler")
  /\ UNCHANGED <<vars, setup, stage, header, wrapper, logged, lost>>

(***************************************************************************)
(* The rest of the handler, and the connection (external).                 *)
(***************************************************************************)
SetHeader(h) ==
  /\ stage = "handler" /\ header # h
  /\ wrapper.headerWritten \/ direct.status # Nil => "late" \in habits
  /\ header' = h
  /\ UNCHANGED <<vars, setup, stage, wrapper, client, direct, logged, lost, calls>>

HandlerReturns ==
  /\ stage = "handler"
  /\ calls = 0 => "silent" \in habits
  /\ stage' = "response"
  /\ direct' = SendStatus(direct, OK, header, "handler")
  /\ UNCHANGED <<vars, setup, header, wrapper, client, logged, lost, calls>>

HandlerPanics ==
  /\ stage = "handler" /\ "panic" \in habits
  /\ stage' = "aborted"
  /\ UNCHANGED <<vars, setup, header, wrapper, client, direct, logged, lost, calls>>

ConnectionLost ==
  /\ stage = "handler" /\ ~lost /\ lost' = TRUE
  /\ UNCHANGED <<vars, setup, stage, header, wrapper, client, direct, logged, calls>>

(***************************************************************************)
(* Middleware, after the handler.                                          *)
(***************************************************************************)
ResponseInvalid ==
  /\ stage = "response" /\ ~Accepts(wrapper.status, header, wrapper.body)
  /\ logged' = "invalid response"
  /\ client' = IF strict THEN SendError(client, ServerError, header) ELSE client
  /\ stage' = "returned"
  /\ UNCHANGED <<vars, setup, header, wrapper, direct, lost, calls>>

\* The warning writer has nothing to flush.
ResponseSent ==
  /\ stage = "response" /\ ~strict /\ Accepts(wrapper.status, header, wrapper.body)
  /\ stage' = "returned"
  /\ UNCHANGED <<vars, setup, header, wrapper, client, direct, logged, lost, calls>>

\* flushBodyContents of the strict writer: the status 0 panics.
FlushPanics ==
  /\ stage = "response" /\ strict /\ Accepts(wrapper.status, header, wrapper.body)
  /\ wrapper.status = Zero
  /\ stage' = "aborted"
  /\ UNCHANGED <<vars, setup, header, wrapper, client, direct, logged, lost, calls>>

\* variation: the body is flushed before the status.
FlushBodyContentsFaulty ==
  /\ stage = "response" /\ strict /\ Accepts(wrapper.status, header, wrapper.body)
  /\ wrapper.status # Zero
  /\ client' = SendStatus(SendBody(client, wrapper.body, header, "handler"),
                          wrapper.status, header, "handler")
  /\ stage' = "returned"
  /\ UNCHANGED <<vars, setup, header, wrapper, direct, logged, lost, calls>>
\* variation: the response goes out with the status unset.
FlushBodyContentsUnset ==
  /\ stage = "response" /\ strict /\ Accepts(wrapper.status, header, wrapper.body)
  /\ client' = [client EXCEPT !.status = wrapper.status, !.header = header,
                              !.body = wrapper.body, !.by = "handler"]
  /\ stage' = "returned"
  /\ UNCHANGED <<vars, setup, header, wrapper, direct, logged, lost, calls>>
FlushBodyContents ==
  /\ stage = "response" /\ strict /\ Accepts(wrapper.status, header, wrapper.body)
  /\ wrapper.status # Zero
  /\ LET started == SendStatus(client, wrapper.status, header, "handler")
     IN  /\ client' = IF lost THEN started
                      ELSE SendBody(started, wrapper.body, header, "handler")
         /\ logged' = IF lost THEN "failed to write response" ELSE logged
  /\ stage' = "returned"
  /\ UNCHANGED <<vars, setup, header, wrapper, direct, lost, calls>>

\* net/http completes a response that the handler left without a status.
ServerCompletes ==
  /\ stage = "returned" /\ stage' = "done"
  /\ client' = SendStatus(client, OK, header, "handler")
  /\ UNCHANGED <<vars, setup, header, wrapper, direct, logged, lost, calls>>

Ended == stage \in {"done", "aborted"} /\ UNCHANGED allVars

(***************************************************************************)
(* The specification.                                                      *)
(***************************************************************************)
InitMiddleware ==
  /\ Init
  /\ \E s \in Setups : /\ responses = s.responses /\ checks = s.checks
                        /\ method = s.method /\ strict = s.strict /\ habits = s.habits
  /\ stage = "route" /\ header = Nil
  /\ wrapper = [status |-> Zero, headerWritten |-> FALSE, body |-> <<>>]
  /\ client = Unsent /\ direct = Unsent
  /\ logged = Nil /\ lost = FALSE /\ calls = 0

HandlerCalls == (\E s \in Statuses : WriteHeader(s)) \/ (\E b \in Chunks : Write(b)) \/ Flush

Handler == HandlerCalls \/ (\E h \in {"good", "bad"} : SetHeader(h)) \/ HandlerPanics

Forward ==
  \/ CannotFindRoute \/ FoundRoute \/ ValidatingRequest \/ RequestInvalid \/ RequestValid
  \/ HandlerReturns
  \/ ResponseInvalid \/ ResponseSent \/ FlushPanics \/ FlushBodyContents \/ ServerCompletes

NextMiddleware == Forward \/ Handler \/ ConnectionLost \/ Ended

SpecMiddleware == InitMiddleware /\ [][NextMiddleware]_allVars

\* The middleware goes on, the application's AuthenticationFunc and handler
\* return; a handler that is never silent makes the call that allows it to.
FairMiddleware == SpecMiddleware /\ WF_allVars(Forward) /\ WF_allVars(HandlerCalls)

(***************************************************************************)
(* Properties.                                                             *)
(***************************************************************************)
MiddlewareTypeOK ==
  /\ [ responses |-> responses, checks |-> checks, method |-> method, strict |-> strict,
       habits |-> habits ] \in Setups
  /\ stage \in {"route", "request", "handler", "response", "returned", "done", "aborted"}
  /\ header \in {Nil, "good", "bad"}
  /\ wrapper \in [ status : Statuses \cup {OK, Zero}, headerWritten : BOOLEAN, body : Seq(Chunks) ]
  /\ \A w \in {client, direct} :
       w \in [ status : Final \cup {Nil}, header : {Nil, "good", "bad"},
               infos : Seq(Informational), body : Seq(Chunks \cup {ErrorText}),
               by : {"handler", "validator", Nil} ]
  /\ logged \in {Nil, "invalid response", "failed to write response"}
  /\ lost \in BOOLEAN /\ calls \in 0..MaxCalls

\* The handler only runs on a request that was accepted, with the body the
\* request came with, or that body with defaults.
HandlerServesValid ==
  stage \in {"handler", "response"} => verdict = "ok" /\ request.body \in Kept(served)

\* With Strict, a response of the handler that reaches the client, whole, is
\* one that ValidateResponse accepts: what the client got, not what the writer
\* recorded.  Informational responses come in between: the strict writer takes
\* the first one for the status.
StrictValidated ==
  strict /\ stage = "done" /\ client.by = "handler" /\ ~lost /\ direct.infos = <<>>
    => Accepts(client.status, client.header, client.body)

\* With Strict, nothing that the handler writes reaches the client before the
\* response is validated.
StrictHoldsBack == strict /\ stage \in {"handler", "response"} => client = Unsent

\* A handler that sets its headers before it writes, and leaves flushing and
\* informational responses alone.
Orderly == habits \cap {"early", "late", "flush"} = {}

\* Whatever the mode, an accepted response is the one the handler sent.
Transparent ==
  Orderly /\ stage = "done" /\ client.by = "handler" /\ ~lost => client = direct

\* The log reports an invalid response exactly if what the handler sent is one.
LogsInvalid ==
  Orderly /\ stage = "done" /\ direct.status # Nil /\ ~lost
    => (logged = "invalid response" <=> ~Accepts(direct.status, direct.header, direct.body))

\* Where the handler does not panic itself, the middleware panics only for one
\* that has returned without a status or a body, with Strict and a document that
\* accepts the status 0 (the strict writer sends the status it has not recorded);
\* and such a handler has its response refused, if it is not aborted: with Strict
\* the client gets no response that the handler did not begin.
OnlySilencePanics ==
  /\ "panic" \notin habits /\ stage = "aborted" =>
       strict /\ calls = 0 /\ Accepts(Zero, header, <<>>)
  /\ strict /\ stage = "done" /\ client.by = "handler" => calls # 0

\* Every request is answered, or its connection is aborted by a panic.
Answered == <>(stage = "aborted" \/ (stage = "done" /\ client.status # Nil))
=============================================================================
