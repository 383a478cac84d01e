--------------------------- MODULE MiddlewareProofs ---------------------------
(***************************************************************************)
(* What the middleware guarantees on both sides of the handler.            *)
(*                                                                         *)
(* Before it: the handler runs only on a request that was accepted, and    *)
(* whose security was accepted; the invariant of RequestValidation is kept *)
(* by the steps of the middleware.  After it: a strict middleware lets     *)
(* through only responses that ValidateResponse accepts, unless the        *)
(* handler sends informational responses.                                  *)
(***************************************************************************)
EXTENDS Middleware, RequestValidationProofs

(***************************************************************************)
(* The request side.                                                       *)
(***************************************************************************)
Served  == stage \in {"handler", "response"} => verdict = "ok"
AsOne   == SInv /\ Served

\* To the request, a step of the middleware is a step of ValidateRequest or none.
LEMMA RequestSide ==
  ASSUME NextMiddleware \/ UNCHANGED allVars
  PROVE  [Next]_vars
<1>1. CASE FoundRoute
  BY <1>1 DEF FoundRoute, Next
<1>2. CASE ValidatingRequest
  BY <1>2 DEF ValidatingRequest, Next
<1>3. CASE UNCHANGED vars
  BY <1>3
<1>4. FoundRoute \/ ValidatingRequest \/ UNCHANGED vars
  BY DEF NextMiddleware, Forward, Handler, HandlerCalls, allVars, CannotFindRoute,
     RequestInvalid, RequestValid, HandlerReturns, ResponseInvalid, ResponseSent,
     FlushPanics, FlushBodyContents, ServerCompletes, WriteHeader, Write, Flush,
     SetHeader, HandlerPanics, ConnectionLost, Ended
<1>. QED BY <1>1, <1>2, <1>3, <1>4

LEMMA ServedStep ==
  ASSUME Served, NextMiddleware \/ UNCHANGED allVars
  PROVE  Served'
<1>1. CASE FoundRoute \/ ValidatingRequest
  BY <1>1 DEF FoundRoute, ValidatingRequest, mwVars, Served
<1>2. CASE UNCHANGED vars
  <2>1. stage' \in {"handler", "response"}
          => stage \in {"handler", "response"} \/ RequestValid
    BY DEF NextMiddleware, Forward, Handler, HandlerCalls, allVars, mwVars, CannotFindRoute,
       FoundRoute, ValidatingRequest, RequestInvalid, HandlerReturns, ResponseInvalid,
       ResponseSent, FlushPanics, FlushBodyContents, ServerCompletes, WriteHeader, Write,
       Flush, SetHeader, HandlerPanics, ConnectionLost, Ended
  <2>. QED BY <1>2, <2>1 DEF Served, RequestValid, vars
<1>3. FoundRoute \/ ValidatingRequest \/ UNCHANGED vars
  BY DEF NextMiddleware, Forward, Handler, HandlerCalls, allVars, CannotFindRoute,
     RequestInvalid, RequestValid, HandlerReturns, ResponseInvalid, ResponseSent,
     FlushPanics, FlushBodyContents, ServerCompletes, WriteHeader, Write, Flush,
     SetHeader, HandlerPanics, ConnectionLost, Ended
<1>. QED BY <1>1, <1>2, <1>3

\* The handler runs only on a request that was accepted, one security
\* requirement of which was accepted in all its schemes.
ServesSecurely ==
  stage \in {"handler", "response"} => verdict = "ok" /\ Met

THEOREM HandlerServesSecurely == SpecMiddleware => []ServesSecurely
<1>1. InitMiddleware => AsOne
  BY InitEstablishes DEF InitMiddleware, AsOne, Served
<1>2. AsOne /\ [NextMiddleware]_allVars => AsOne'
  BY RequestSide, StepPreserves, ServedStep DEF AsOne
<1>3. AsOne => ServesSecurely
  BY DEF AsOne, Served, ServesSecurely, SInv, Accepted
<1>. QED BY <1>1, <1>2, <1>3, PTL DEF SpecMiddleware

\* The handler runs only on a request that was accepted, and with the body that
\* the request came with, or that body with defaults, to be read from its start:
\* under the conditions of BodiesKept on the documents and the encoders.
THEOREM HandlerServesKept == Proper => (SpecMiddleware => []HandlerServesValid)
<1>. SUFFICES ASSUME Proper PROVE SpecMiddleware => []HandlerServesValid
  OBVIOUS
<1>1. InitMiddleware => BodyInv /\ Served
  BY BodyStarts DEF InitMiddleware, Served
<1>2. BodyInv /\ Served /\ [NextMiddleware]_allVars => BodyInv' /\ Served'
  BY RequestSide, BodyStep, ServedStep DEF Proper
<1>3. BodyInv /\ Served => HandlerServesValid
  BY DEF BodyInv, Followed, BodyKept, Served, HandlerServesValid
<1>. QED BY <1>1, <1>2, <1>3, PTL DEF SpecMiddleware

(***************************************************************************)
(* The response side, with Strict.                                         *)
(***************************************************************************)
Early == {"route", "request", "handler", "response"}

Wrappers == [ status : Statuses \cup {OK, Zero}, headerWritten : BOOLEAN, body : Seq(Chunks) ]

Headers  == {Nil, "good", "bad"}
Writers  == [ status : Statuses \cup {OK, Nil}, header : Headers, infos : Seq(Informational),
              body : Seq(Chunks), by : {"handler", Nil} ]

\* Before the response is validated the client has seen nothing, and the status
\* recorded is informational only if the handler has sent such a response.
Before ==
  stage \in Early =>
    /\ client = Unsent /\ wrapper \in Wrappers
    /\ direct.status # Nil /\ stage # "response" => wrapper.headerWritten
    /\ direct.infos = <<>> => wrapper.status \notin Informational

\* After it the client has seen an error, or a response that was accepted.
After ==
  stage \in {"returned", "done"} /\ direct.infos = <<>> =>
    /\ client.status # Nil
    /\ client.by = "handler" /\ ~lost => Accepts(client.status, client.header, client.body)

StrictInv ==
  strict => /\ stage \in Early \cup {"returned", "done", "aborted"}
            /\ header \in Headers /\ direct \in Writers
            /\ Before /\ After

\* What the ResponseWriter does with a status: an informational one is kept
\* apart, and none is forgotten.
LEMMA StatusSent ==
  ASSUME NEW w \in Writers, NEW s \in Statuses \cup {OK}, NEW h \in Headers
  PROVE  LET v == SendStatus(w, s, h, "handler")
         IN  /\ v \in Writers
             /\ v.infos = <<>> => w.infos = <<>>
             /\ v.infos = <<>> /\ w.status = Nil => s \notin Informational
<1>1. CASE w.status = Nil /\ s \in Informational
  <2>1. Append(w.infos, s) \in Seq(Informational) /\ Append(w.infos, s) # <<>>
    BY <1>1 DEF Writers
  <2>2. SendStatus(w, s, h, "handler") = [w EXCEPT !.infos = Append(w.infos, s)]
    BY <1>1 DEF SendStatus
  <2>. QED BY <2>1, <2>2 DEF Writers
<1>2. CASE ~(w.status = Nil /\ s \in Informational)
  BY <1>2 DEF SendStatus, Writers
<1>. QED BY <1>1, <1>2

LEMMA BodySent ==
  ASSUME NEW w \in Writers, NEW b \in Chunks, NEW h \in Headers
  PROVE  LET v == SendBody(w, <<b>>, h, "handler")
         IN  v \in Writers /\ (v.infos = <<>> => w.infos = <<>>)
<1>. DEFINE v == SendStatus(w, OK, h, "handler")
<1>1. v \in Writers /\ (v.infos = <<>> => w.infos = <<>>)
  BY StatusSent
<1>2. SendBody(w, <<b>>, h, "handler") = [v EXCEPT !.body = v.body \o <<b>>]
  BY DEF SendBody
<1>3. v.body \o <<b>> \in Seq(Chunks)
  BY <1>1 DEF Writers
<1>. QED BY <1>1, <1>2, <1>3 DEF Writers

\* An error of the validator is not mistaken for a response of the handler.
LEMMA ErrorSent ==
  ASSUME NEW s \in {NotFound, BadRequest, ServerError}, NEW h
  PROVE  LET w == SendError(Unsent, s, h) IN w.status # Nil /\ w.by = "validator"
<1>1. s # Nil /\ s \notin Informational
  BY ResponsesAssumption DEF Final
<1>2. SendStatus(Unsent, s, h, "validator")
        = [Unsent EXCEPT !.status = s, !.header = h, !.by = "validator"]
  BY <1>1 DEF SendStatus, Unsent
<1>3. SendStatus(SendStatus(Unsent, s, h, "validator"), OK, h, "validator")
        = [Unsent EXCEPT !.status = s, !.header = h, !.by = "validator"]
  BY <1>1, <1>2 DEF SendStatus, Unsent
<1>. QED BY <1>1, <1>2, <1>3 DEF SendError, SendBody, Unsent

\* The response flushed over a connection that is not lost is the one recorded.
LEMMA FlushSent ==
  ASSUME NEW s, s # Nil, s \notin Informational, NEW b \in Seq(Chunks), NEW h
  PROVE  /\ SendStatus(Unsent, s, h, "handler").status = s
         /\ LET w == SendBody(SendStatus(Unsent, s, h, "handler"), b, h, "handler")
            IN  w.status = s /\ w.header = h /\ w.body = b
<1>1. SendStatus(Unsent, s, h, "handler")
        = [status |-> s, header |-> h, infos |-> <<>>, body |-> <<>>, by |-> "handler"]
  BY DEF SendStatus, Unsent
<1>2. SendStatus(SendStatus(Unsent, s, h, "handler"), OK, h, "handler")
        = [status |-> s, header |-> h, infos |-> <<>>, body |-> <<>>, by |-> "handler"]
  BY <1>1 DEF SendStatus
<1>3. <<>> \o b = b
  OBVIOUS
<1>. QED BY <1>1, <1>2, <1>3 DEF SendBody

LEMMA StrictStep ==
  ASSUME StrictInv, NextMiddleware \/ UNCHANGED allVars
  PROVE  StrictInv'
<1>. SUFFICES ASSUME strict' PROVE StrictInv'
  BY DEF StrictInv
<1>. USE DEF setup, mwVars, allVars
<1>0. strict
  BY DEF NextMiddleware, Forward, Handler, HandlerCalls, CannotFindRoute, FoundRoute,
     ValidatingRequest, RequestInvalid, RequestValid, HandlerReturns, ResponseInvalid,
     ResponseSent, FlushPanics, FlushBodyContents, ServerCompletes, WriteHeader, Write,
     Flush, SetHeader, HandlerPanics, ConnectionLost, Ended
<1>a. stage \in Early \cup {"returned", "done", "aborted"} /\ header \in Headers
      /\ direct \in Writers /\ Before /\ After
  BY <1>0 DEF StrictInv
<1>1. CASE CannotFindRoute
  <2>. client' = SendError(Unsent, NotFound, header)
    BY <1>a, <1>1 DEF CannotFindRoute, Before, Early
  <2>. QED BY <1>a, <1>1, ErrorSent DEF CannotFindRoute, StrictInv, Before, After, Early
<1>2. CASE RequestInvalid
  <2>. client' = SendError(Unsent, BadRequest, header)
    BY <1>a, <1>2 DEF RequestInvalid, Before, Early
  <2>. QED BY <1>a, <1>2, ErrorSent DEF RequestInvalid, StrictInv, Before, After, Early
<1>3. CASE ResponseInvalid
  <2>. client' = SendError(Unsent, ServerError, header)
    BY <1>0, <1>a, <1>3 DEF ResponseInvalid, Before, Early
  <2>. QED BY <1>a, <1>3, ErrorSent DEF ResponseInvalid, StrictInv, Before, After, Early
<1>4. CASE FoundRoute \/ RequestValid
  BY <1>a, <1>4 DEF FoundRoute, RequestValid, StrictInv, Before, After, Early
<1>5. CASE ValidatingRequest \/ SetHeader("good") \/ SetHeader("bad") \/ ConnectionLost
  BY <1>a, <1>5
  DEF ValidatingRequest, SetHeader, ConnectionLost, StrictInv, Before, After, Early, Headers
<1>6. CASE \E s \in Statuses : WriteHeader(s)
  <2>. PICK s \in Statuses : WriteHeader(s)
    BY <1>6
  <2>1. /\ stage = "handler" /\ stage' = stage /\ client' = client /\ header' = header
        /\ wrapper' = Recorded(wrapper, s)
        /\ direct' = SendStatus(direct, s, header, "handler")
    BY <1>0 DEF WriteHeader, Calling, PassedOn
  <2>2. /\ direct' \in Writers /\ (direct'.infos = <<>> => direct.infos = <<>>)
        /\ direct'.infos = <<>> /\ direct.status = Nil => s \notin Informational
    BY <1>a, <2>1, StatusSent
  <2>3. wrapper' \in Wrappers /\ wrapper'.headerWritten
    BY <1>a, <2>1 DEF Recorded, Before, Early, Wrappers
  <2>4. direct'.infos = <<>> => wrapper'.status \notin Informational
    BY <1>a, <2>1, <2>2 DEF Recorded, Before, Early, Wrappers
  <2>. QED BY <1>a, <2>1, <2>2, <2>3, <2>4 DEF StrictInv, Before, After, Early
<1>7. CASE \E b \in Chunks : Write(b)
  <2>. PICK b \in Chunks : Write(b)
    BY <1>7
  <2>1. /\ stage = "handler" /\ stage' = stage /\ client' = client /\ header' = header
        /\ wrapper' = [Recorded(wrapper, OK) EXCEPT !.body = Append(@, b)]
        /\ direct' = SendBody(direct, <<b>>, header, "handler")
    BY <1>0 DEF Write, Calling, PassedOn
  <2>2. direct' \in Writers /\ (direct'.infos = <<>> => direct.infos = <<>>)
    BY <1>a, <2>1, BodySent
  <2>3. /\ Recorded(wrapper, OK) \in Wrappers /\ Recorded(wrapper, OK).headerWritten
        /\ direct.infos = <<>> => Recorded(wrapper, OK).status \notin Informational
    BY <1>a, <2>1, ResponsesAssumption DEF Recorded, Before, Early, Wrappers
  <2>4. PICK r \in Wrappers : /\ wrapper' = [r EXCEPT !.body = Append(r.body, b)]
                              /\ r.headerWritten
                              /\ direct.infos = <<>> => r.status \notin Informational
    BY <2>1, <2>3
  <2>5. Append(r.body, b) \in Seq(Chunks)
    BY DEF Wrappers
  <2>6. /\ wrapper' \in Wrappers /\ wrapper'.headerWritten
        /\ direct.infos = <<>> => wrapper'.status \notin Informational
    BY <2>4, <2>5 DEF Wrappers
  <2>. QED BY <1>a, <2>1, <2>2, <2>6 DEF StrictInv, Before, After, Early
<1>8. CASE Flush \/ ResponseSent
  BY <1>0, <1>8 DEF Flush, ResponseSent
<1>9. CASE HandlerPanics \/ FlushPanics
  BY <1>a, <1>9 DEF HandlerPanics, FlushPanics, StrictInv, Before, After, Early
<1>10. CASE HandlerReturns
  <2>1. direct' \in Writers /\ (direct'.infos = <<>> => direct.infos = <<>>)
    BY <1>a, <1>10, StatusSent DEF HandlerReturns
  <2>. QED BY <1>a, <1>10, <2>1 DEF HandlerReturns, StrictInv, Before, After, Early
<1>11. CASE FlushBodyContents
  <2>1. client = Unsent /\ wrapper.status \in Statuses \cup {OK} /\ wrapper.body \in Seq(Chunks)
    BY <1>a, <1>11 DEF FlushBodyContents, Before, Early, Wrappers
  <2>2. wrapper.status # Nil /\ (direct.infos = <<>> => wrapper.status \notin Informational)
    BY <1>a, <1>11, <2>1, ResponsesAssumption DEF FlushBodyContents, Before, Early, Final
  <2>3. Accepts(wrapper.status, header, wrapper.body)
    BY <1>11 DEF FlushBodyContents
  <2>4. stage' = "returned" /\ UNCHANGED <<setup, lost, direct, header>>
    BY <1>11 DEF FlushBodyContents
  <2>5. SUFFICES ASSUME direct.infos = <<>> PROVE After'
    BY <1>a, <2>4, <2>5 DEF StrictInv, Before, After, Early
  <2>6. CASE lost
    <3>1. client' = SendStatus(Unsent, wrapper.status, header, "handler")
      BY <1>11, <2>1, <2>6 DEF FlushBodyContents
    <3>2. client'.status # Nil
      BY <2>1, <2>2, <2>5, <3>1, FlushSent
    <3>. QED BY <2>4, <2>6, <3>2 DEF After
  <2>7. CASE ~lost
    <3>1. client' = SendBody(SendStatus(Unsent, wrapper.status, header, "handler"),
                             wrapper.body, header, "handler")
      BY <1>11, <2>1, <2>7 DEF FlushBodyContents
    <3>2. client'.status = wrapper.status /\ client'.header = header
          /\ client'.body = wrapper.body
      BY <2>1, <2>2, <2>5, <3>1, FlushSent
    <3>3. Accepts(client.status, client.header, client.body)'
      BY <2>3, <2>4, <3>2 DEF Accepts
    <3>. QED BY <2>2, <2>4, <3>2, <3>3 DEF After
  <2>. QED BY <2>6, <2>7
<1>12. CASE ServerCompletes
  <2>1. direct.infos = <<>> => client' = client
    BY <1>a, <1>12 DEF ServerCompletes, SendStatus, After
  <2>. QED BY <1>a, <1>12, <2>1 DEF ServerCompletes, StrictInv, Before, After, Early, Accepts
<1>13. CASE Ended \/ UNCHANGED allVars
  BY <1>a, <1>13 DEF Ended, StrictInv, Before, After, Early, Accepts
<1>. QED
  BY <1>1, <1>2, <1>3, <1>4, <1>5, <1>6, <1>7, <1>8, <1>9, <1>10, <1>11, <1>12, <1>13
  DEF NextMiddleware, Forward, Handler, HandlerCalls

LEMMA StrictStarts == ASSUME InitMiddleware PROVE StrictInv
<1>1. Zero \notin Informational
  BY ResponsesAssumption
<1>. QED
  BY <1>1 DEF InitMiddleware, StrictInv, Before, After, Early, Wrappers, Writers, Headers, Unsent

\* With Strict, nothing that the handler writes, flushes or sets reaches the
\* client before the response is validated.
THEOREM NothingEarly == SpecMiddleware => []StrictHoldsBack
<1>1. InitMiddleware => StrictInv
  BY StrictStarts
<1>2. StrictInv /\ [NextMiddleware]_allVars => StrictInv'
  BY StrictStep
<1>3. StrictInv => StrictHoldsBack
  BY DEF StrictInv, Before, Early, StrictHoldsBack
<1>. QED BY <1>1, <1>2, <1>3, PTL DEF SpecMiddleware

\* With Strict, a response of the handler that reaches the client whole is one
\* that ValidateResponse accepts, unless informational responses come before.
THEOREM OnlyValidatedResponses == SpecMiddleware => []StrictValidated
<1>1. InitMiddleware => StrictInv
  BY StrictStarts
<1>2. StrictInv /\ [NextMiddleware]_allVars => StrictInv'
  BY StrictStep
<1>3. StrictInv => StrictValidated
  BY DEF StrictInv, After, StrictValidated
<1>. QED BY <1>1, <1>2, <1>3, PTL DEF SpecMiddleware

(***************************************************************************)
(* What the two response writers of the middleware record and pass on.     *)
(*                                                                         *)
(* The writer's record is always well formed, and a status 0 in it means   *)
(* that nothing was written; the middleware panics only for a handler that *)
(* wrote nothing; for a handler that sets its headers before it writes,    *)
(* and leaves flushing and informational responses alone, over a           *)
(* connection that holds, the middleware is transparent and its log is     *)
(* right, in both modes.                                                   *)
(***************************************************************************)
(***************************************************************************)
(* The types.                                                              *)
(***************************************************************************)
AnyWriter == [ status : Final \cup {Nil}, header : Headers, infos : Seq(Informational),
               body : Seq(Chunks \cup {ErrorText}), by : {"handler", "validator", Nil} ]

\* A status that was recorded is not 0.
TypedInv == MiddlewareTypeOK /\ (wrapper.headerWritten => wrapper.status # Zero)

LEMMA WriterStatusTyped ==
  ASSUME NEW w \in AnyWriter, NEW s \in Final \cup Informational, NEW h \in Headers,
         NEW by \in {"handler", "validator"}
  PROVE  SendStatus(w, s, h, by) \in AnyWriter
<1>1. CASE w.status = Nil /\ s \in Informational
  <2>1. Append(w.infos, s) \in Seq(Informational)
    BY <1>1 DEF AnyWriter
  <2>2. SendStatus(w, s, h, by) = [w EXCEPT !.infos = Append(w.infos, s)]
    BY <1>1 DEF SendStatus
  <2>. QED BY <2>1, <2>2 DEF AnyWriter
<1>2. CASE w.status = Nil /\ s \notin Informational
  <2>1. SendStatus(w, s, h, by) = [w EXCEPT !.status = s, !.header = h, !.by = by]
    BY <1>2 DEF SendStatus
  <2>. QED BY <1>2, <2>1 DEF AnyWriter
<1>3. CASE w.status # Nil
  BY <1>3 DEF SendStatus
<1>. QED BY <1>1, <1>2, <1>3

LEMMA WriterBodyTyped ==
  ASSUME NEW w \in AnyWriter, NEW b \in Seq(Chunks \cup {ErrorText}), NEW h \in Headers,
         NEW by \in {"handler", "validator"}
  PROVE  SendBody(w, b, h, by) \in AnyWriter
<1>. DEFINE v == SendStatus(w, OK, h, by)
<1>1. v \in AnyWriter
  BY WriterStatusTyped DEF Final
<1>2. SendBody(w, b, h, by) = [v EXCEPT !.body = v.body \o b]
  BY DEF SendBody
<1>. HIDE DEF v
<1>3. v.body \o b \in Seq(Chunks \cup {ErrorText})
  <2>1. v.body \in Seq(Chunks \cup {ErrorText})
    BY <1>1 DEF AnyWriter
  <2>. QED BY <2>1, ConcatProperties
<1>4. [v EXCEPT !.body = v.body \o b] \in AnyWriter
  BY <1>1, <1>3 DEF AnyWriter
<1>. QED BY <1>2, <1>4

LEMMA WriterErrorTyped ==
  ASSUME NEW w \in AnyWriter, NEW s \in {NotFound, BadRequest, ServerError},
         NEW h \in Headers
  PROVE  SendError(w, s, h) \in AnyWriter
<1>1. SendStatus(w, s, h, "validator") \in AnyWriter
  BY WriterStatusTyped DEF Final
<1>2. <<ErrorText>> \in Seq(Chunks \cup {ErrorText})
  OBVIOUS
<1>3. SendBody(SendStatus(w, s, h, "validator"), <<ErrorText>>, h, "validator") \in AnyWriter
  BY <1>1, <1>2, WriterBodyTyped
<1>. QED BY <1>1, <1>3 DEF SendError

LEMMA RecordedTyped ==
  ASSUME TypedInv, NEW s \in Statuses \cup {OK}
  PROVE  LET r == Recorded(wrapper, s)
         IN  r \in Wrappers /\ r.headerWritten /\ r.status \in Statuses \cup {OK}
<1>. wrapper \in Wrappers
  BY DEF TypedInv, MiddlewareTypeOK, Wrappers
<1>. Zero \notin Statuses \cup {OK}
  BY ResponsesAssumption DEF Final
<1>. QED BY DEF Recorded, TypedInv, Wrappers

LEMMA Starts == ASSUME InitMiddleware PROVE TypedInv
<1>1. PICK s \in Setups : /\ responses = s.responses /\ checks = s.checks
                          /\ method = s.method /\ strict = s.strict /\ habits = s.habits
  BY DEF InitMiddleware
<1>2. s \in Setup
  BY ResponsesAssumption
<1>3. s = [ responses |-> responses, checks |-> checks, method |-> method, strict |-> strict,
            habits |-> habits ]
  BY <1>1, <1>2 DEF Setup
<1>4. 0 \in 0..MaxCalls
  <2>. MaxCalls \in Nat
    BY ResponsesAssumption
  <2>. QED OBVIOUS
<1>5. <<>> \in Seq(Chunks) /\ <<>> \in Seq(Informational) /\ <<>> \in Seq(Chunks \cup {ErrorText})
  OBVIOUS
<1>6. wrapper \in [ status : Statuses \cup {OK, Zero}, headerWritten : BOOLEAN, body : Seq(Chunks) ]
  BY <1>5 DEF InitMiddleware
<1>7. Unsent \in [ status : Final \cup {Nil}, header : {Nil, "good", "bad"},
               infos : Seq(Informational), body : Seq(Chunks \cup {ErrorText}),
               by : {"handler", "validator", Nil} ]
  BY <1>5 DEF Unsent
<1>. QED BY <1>1, <1>3, <1>4, <1>6, <1>7 DEF InitMiddleware, TypedInv, MiddlewareTypeOK

LEMMA TypedStep ==
  ASSUME TypedInv, NextMiddleware \/ UNCHANGED allVars
  PROVE  TypedInv'
<1>. USE DEF setup, mwVars, allVars
<1>0. /\ UNCHANGED setup
      /\ stage' \in {"route", "request", "handler", "response", "returned", "done", "aborted"}
      /\ header' \in Headers
      /\ logged' \in {Nil, "invalid response", "failed to write response"}
      /\ lost' \in BOOLEAN /\ calls' \in 0..MaxCalls
  <2>1. MaxCalls \in Nat
    BY ResponsesAssumption
  <2>2. /\ stage \in {"route", "request", "handler", "response", "returned", "done", "aborted"}
        /\ header \in Headers
        /\ logged \in {Nil, "invalid response", "failed to write response"}
        /\ lost \in BOOLEAN /\ calls \in 0..MaxCalls
    BY DEF TypedInv, MiddlewareTypeOK, Headers
  <2>3. CASE Calling /\ UNCHANGED <<setup, stage, header, logged, lost>>
    <3>1. calls \in 0..MaxCalls /\ calls < MaxCalls /\ calls' = calls + 1
      BY <2>2, <2>3 DEF Calling
    <3>2. calls' \in 0..MaxCalls
      BY <2>1, <3>1
    <3>. QED BY <2>2, <2>3, <3>2
  <2>4. CASE UNCHANGED calls
    <3>1. UNCHANGED setup /\ lost' \in {lost, TRUE} /\ header' \in {header, "good", "bad"}
          /\ logged' \in {logged, "invalid response", "failed to write response"}
          /\ stage' \in {stage, "request", "handler", "response", "returned", "done", "aborted"}
      BY DEF NextMiddleware, Forward, Handler, HandlerCalls,
       CannotFindRoute, FoundRoute, ValidatingRequest, RequestInvalid, RequestValid,
       HandlerReturns, ResponseInvalid, ResponseSent, FlushPanics, FlushBodyContents,
       ServerCompletes, WriteHeader, Write, Flush, SetHeader, HandlerPanics,
       ConnectionLost, Ended
    <3>. QED BY <2>2, <2>4, <3>1 DEF Headers
  <2>5. UNCHANGED calls \/ (Calling /\ UNCHANGED <<setup, stage, header, logged, lost>>)
    BY DEF NextMiddleware, Forward, Handler, HandlerCalls,
       CannotFindRoute, FoundRoute, ValidatingRequest, RequestInvalid, RequestValid,
       HandlerReturns, ResponseInvalid, ResponseSent, FlushPanics, FlushBodyContents,
       ServerCompletes, WriteHeader, Write, Flush, SetHeader, HandlerPanics,
       ConnectionLost, Ended
  <2>. QED BY <2>3, <2>4, <2>5
<1>1. wrapper \in Wrappers /\ client \in AnyWriter /\ direct \in AnyWriter /\ header \in Headers
      /\ (wrapper.headerWritten => wrapper.status # Zero)
  BY DEF TypedInv, MiddlewareTypeOK, Wrappers, AnyWriter, Headers
<1>2. SUFFICES /\ wrapper' \in Wrappers /\ client' \in AnyWriter /\ direct' \in AnyWriter
               /\ wrapper'.headerWritten => wrapper'.status # Zero
  BY <1>0, <1>2 DEF TypedInv, MiddlewareTypeOK, Wrappers, AnyWriter, Headers
<1>. Statuses \cup {OK} \subseteq Final \cup Informational
  BY DEF Final
<1>3. CASE UNCHANGED <<wrapper, client, direct>>
  BY <1>1, <1>3
<1>4. CASE CannotFindRoute \/ RequestInvalid \/ ResponseInvalid
  <2>1. UNCHANGED <<wrapper, direct>>
    BY <1>4 DEF CannotFindRoute, RequestInvalid, ResponseInvalid
  <2>2. client' = client \/ \E s \in {NotFound, BadRequest, ServerError} :
                              client' = SendError(client, s, header)
    BY <1>4 DEF CannotFindRoute, RequestInvalid, ResponseInvalid
  <2>3. client' \in AnyWriter
    BY <1>1, <2>2, WriterErrorTyped
  <2>. QED BY <1>1, <2>1, <2>3
<1>5. CASE HandlerReturns \/ ServerCompletes \/ Flush
  BY <1>1, <1>5, WriterStatusTyped DEF HandlerReturns, ServerCompletes, Flush
<1>6. CASE \E s \in Statuses : WriteHeader(s)
  <2>. PICK s \in Statuses : WriteHeader(s)
    BY <1>6
  <2>1. wrapper' \in Wrappers /\ wrapper'.headerWritten /\ wrapper'.status \in Statuses \cup {OK}
    BY RecordedTyped DEF WriteHeader
  <2>2. direct' \in AnyWriter
    BY <1>1, WriterStatusTyped DEF WriteHeader
  <2>3. client' = client \/ client' = SendStatus(client, wrapper'.status, header, "handler")
    BY DEF WriteHeader, PassedOn
  <2>4. client' \in AnyWriter
    BY <1>1, <2>1, <2>3, WriterStatusTyped
  <2>. QED BY <2>1, <2>2, <2>4, ResponsesAssumption DEF Final
<1>7. CASE \E b \in Chunks : Write(b)
  <2>. PICK b \in Chunks : Write(b)
    BY <1>7
  <2>. DEFINE r == Recorded(wrapper, OK)
              c == IF wrapper.headerWritten THEN client ELSE PassedOn(OK)
  <2>1. r \in Wrappers /\ r.headerWritten /\ r.status \in Statuses \cup {OK}
    BY RecordedTyped
  <2>2. wrapper' = r \/ wrapper' = [r EXCEPT !.body = Append(r.body, b)]
    BY DEF Write
  <2>3. Append(r.body, b) \in Seq(Chunks)
    BY <2>1 DEF Wrappers
  <2>4. wrapper' \in Wrappers /\ wrapper'.headerWritten /\ wrapper'.status \in Statuses \cup {OK}
    BY <2>1, <2>2, <2>3 DEF Wrappers
  <2>5. c \in AnyWriter
    BY <1>1, <2>1, WriterStatusTyped DEF PassedOn
  <2>6. <<b>> \in Seq(Chunks \cup {ErrorText})
    OBVIOUS
  <2>7. client' = c \/ client' = SendBody(c, <<b>>, header, "handler")
    BY DEF Write
  <2>8. client' \in AnyWriter /\ direct' \in AnyWriter
    BY <1>1, <2>5, <2>6, <2>7, WriterBodyTyped DEF Write
  <2>. QED BY <2>4, <2>8, ResponsesAssumption DEF Final
<1>8. CASE FlushBodyContents
  <2>1. wrapper.status \in Final \cup Informational
    BY <1>1, <1>8 DEF FlushBodyContents, Wrappers
  <2>2. SendStatus(client, wrapper.status, header, "handler") \in AnyWriter
    BY <1>1, <2>1, WriterStatusTyped
  <2>3. wrapper.body \in Seq(Chunks \cup {ErrorText})
    BY <1>1 DEF Wrappers
  <2>4. SendBody(SendStatus(client, wrapper.status, header, "handler"),
                 wrapper.body, header, "handler") \in AnyWriter
    BY <1>1, <2>2, <2>3, WriterBodyTyped
  <2>5. client' \in AnyWriter /\ UNCHANGED <<wrapper, direct>>
    BY <1>8, <2>2, <2>4 DEF FlushBodyContents
  <2>. QED BY <1>1, <2>5
<1>9. UNCHANGED <<wrapper, client, direct>> \/ CannotFindRoute \/ RequestInvalid
      \/ ResponseInvalid \/ HandlerReturns \/ ServerCompletes \/ Flush \/ HandlerCalls
      \/ FlushBodyContents
  BY DEF NextMiddleware, Forward, Handler, FoundRoute, ValidatingRequest, RequestValid,
     ResponseSent, FlushPanics, SetHeader, HandlerPanics, ConnectionLost, Ended
<1>. QED BY <1>3, <1>4, <1>5, <1>6, <1>7, <1>8, <1>9 DEF HandlerCalls

\* The writers, the log and the stages of the middleware are always well formed.
THEOREM MiddlewareTyped == SpecMiddleware => []MiddlewareTypeOK
<1>1. InitMiddleware => TypedInv
  BY Starts
<1>2. TypedInv /\ [NextMiddleware]_allVars => TypedInv'
  BY TypedStep
<1>3. TypedInv => MiddlewareTypeOK
  BY DEF TypedInv
<1>. QED BY <1>1, <1>2, <1>3, PTL DEF SpecMiddleware

(***************************************************************************)
(* Handlers that are silent.                                               *)
(***************************************************************************)
\* A call of the writer is recorded, but for a flush of the warning writer; only
\* a silent handler returns without a call.
SpokenInv ==
  /\ calls # 0 => wrapper.headerWritten \/ (~strict /\ "flush" \in habits)
  /\ stage = "response" => calls # 0 \/ "silent" \in habits

\* Without a call nothing is recorded.
Recording ==
  /\ wrapper.headerWritten => calls # 0
  /\ ~wrapper.headerWritten => wrapper.status = Zero /\ wrapper.body = <<>>

Silence ==
  /\ "panic" \notin habits /\ stage = "aborted" =>
       strict /\ calls = 0 /\ Accepts(Zero, header, <<>>)
  /\ strict /\ stage \in {"returned", "done"} =>
       calls # 0 \/ (client.status # Nil /\ client.by = "validator")

LEMMA SpokenStep ==
  ASSUME TypedInv, SpokenInv, NextMiddleware \/ UNCHANGED allVars
  PROVE  SpokenInv'
<1>. USE DEF setup, mwVars, allVars
<1>1. UNCHANGED setup
  BY DEF NextMiddleware, Forward, Handler, HandlerCalls, CannotFindRoute, FoundRoute,
     ValidatingRequest, RequestInvalid, RequestValid, HandlerReturns, ResponseInvalid,
     ResponseSent, FlushPanics, FlushBodyContents, ServerCompletes, WriteHeader, Write,
     Flush, SetHeader, HandlerPanics, ConnectionLost, Ended
<1>2. CASE \E s \in Statuses : WriteHeader(s)
  <2>. PICK s \in Statuses : WriteHeader(s)
    BY <1>2
  <2>1. wrapper'.headerWritten
    BY RecordedTyped DEF WriteHeader
  <2>. QED BY <1>1, <2>1 DEF WriteHeader, Calling, SpokenInv
<1>3. CASE \E b \in Chunks : Write(b)
  <2>. PICK b \in Chunks : Write(b)
    BY <1>3
  <2>1. Recorded(wrapper, OK).headerWritten /\ Recorded(wrapper, OK) \in Wrappers
    BY RecordedTyped
  <2>2. \/ wrapper' = Recorded(wrapper, OK)
        \/ wrapper' = [Recorded(wrapper, OK) EXCEPT !.body = Append(@, b)]
    BY DEF Write
  <2>3. wrapper'.headerWritten
    BY <2>1, <2>2 DEF Wrappers
  <2>. QED BY <1>1, <2>3 DEF Write, Calling, SpokenInv
<1>4. CASE Flush
  BY <1>1, <1>4 DEF Flush, Calling, SpokenInv
<1>5. CASE HandlerReturns
  BY <1>1, <1>5 DEF HandlerReturns, SpokenInv
<1>6. CASE UNCHANGED <<calls, wrapper>> /\ stage' # "response"
  BY <1>1, <1>6 DEF SpokenInv
<1>7. CASE UNCHANGED <<calls, wrapper, stage>>
  BY <1>1, <1>7 DEF SpokenInv
<1>. QED
  BY <1>2, <1>3, <1>4, <1>5, <1>6, <1>7
  DEF NextMiddleware, Forward, Handler, HandlerCalls, CannotFindRoute, FoundRoute,
      ValidatingRequest, RequestInvalid, RequestValid, ResponseInvalid, ResponseSent,
      FlushPanics, HandlerPanics, FlushBodyContents, ServerCompletes, SetHeader,
      ConnectionLost, Ended

LEMMA RecordingStep ==
  ASSUME TypedInv, Recording, NextMiddleware \/ UNCHANGED allVars
  PROVE  Recording'
<1>0. calls \in Nat
  <2>1. calls \in 0..MaxCalls /\ MaxCalls \in Nat
    BY ResponsesAssumption DEF TypedInv, MiddlewareTypeOK
  <2>. QED BY <2>1
<1>. USE DEF setup, mwVars, allVars
<1>1. CASE \E s \in Statuses : WriteHeader(s)
  <2>. PICK s \in Statuses : WriteHeader(s)
    BY <1>1
  <2>1. wrapper'.headerWritten
    BY RecordedTyped DEF WriteHeader
  <2>2. calls' # 0
    BY <1>0 DEF WriteHeader, Calling
  <2>. QED BY <2>1, <2>2 DEF Recording
<1>2. CASE \E b \in Chunks : Write(b)
  <2>. PICK b \in Chunks : Write(b)
    BY <1>2
  <2>1. Recorded(wrapper, OK).headerWritten /\ Recorded(wrapper, OK) \in Wrappers
    BY RecordedTyped
  <2>2. \/ wrapper' = Recorded(wrapper, OK)
        \/ wrapper' = [Recorded(wrapper, OK) EXCEPT !.body = Append(@, b)]
    BY DEF Write
  <2>3. wrapper'.headerWritten
    BY <2>1, <2>2 DEF Wrappers
  <2>4. calls' # 0
    BY <1>0 DEF Write, Calling
  <2>. QED BY <2>3, <2>4 DEF Recording
<1>3. CASE Flush
  <2>1. calls' # 0 /\ wrapper' = wrapper
    BY <1>0, <1>3 DEF Flush, Calling
  <2>. QED BY <2>1 DEF Recording
<1>4. CASE UNCHANGED <<calls, wrapper>>
  BY <1>4 DEF Recording
<1>. QED
  BY <1>1, <1>2, <1>3, <1>4
  DEF NextMiddleware, Forward, Handler, HandlerCalls, CannotFindRoute, FoundRoute,
      ValidatingRequest, RequestInvalid, RequestValid, HandlerReturns, ResponseInvalid,
      ResponseSent, FlushPanics, HandlerPanics, FlushBodyContents, ServerCompletes,
      SetHeader, ConnectionLost, Ended

LEMMA SilenceStep ==
  ASSUME TypedInv, SpokenInv, Recording, StrictInv, Silence,
         NextMiddleware \/ UNCHANGED allVars
  PROVE  Silence'
<1>. USE DEF setup, mwVars, allVars
<1>1. UNCHANGED setup
  BY DEF NextMiddleware, Forward, Handler, HandlerCalls, CannotFindRoute, FoundRoute,
     ValidatingRequest, RequestInvalid, RequestValid, HandlerReturns, ResponseInvalid,
     ResponseSent, FlushPanics, FlushBodyContents, ServerCompletes, WriteHeader, Write,
     Flush, SetHeader, HandlerPanics, ConnectionLost, Ended
<1>2. CASE CannotFindRoute \/ RequestInvalid \/ ResponseInvalid
  <2>1. stage' = "returned" /\ stage \in Early
    BY <1>2 DEF CannotFindRoute, RequestInvalid, ResponseInvalid, Early
  <2>2. CASE strict
    <3>1. client = Unsent
      BY <2>1, <2>2 DEF StrictInv, Before
    <3>2. \E s \in {NotFound, BadRequest, ServerError} : client' = SendError(client, s, header)
      BY <1>2, <2>2 DEF CannotFindRoute, RequestInvalid, ResponseInvalid
    <3>3. client'.status # Nil /\ client'.by = "validator"
      BY <3>1, <3>2, ErrorSent
    <3>. QED BY <2>1, <3>3 DEF Silence
  <2>3. CASE ~strict
    BY <1>1, <2>1, <2>3 DEF Silence
  <2>. QED BY <2>2, <2>3
<1>3. CASE HandlerPanics
  BY <1>1, <1>3 DEF HandlerPanics, Silence
<1>4. CASE FlushPanics
  <2>1. strict /\ stage = "response" /\ stage' = "aborted" /\ UNCHANGED <<header, calls>>
        /\ ~wrapper.headerWritten /\ Accepts(Zero, header, wrapper.body)
    BY <1>4 DEF FlushPanics, TypedInv
  <2>2. calls = 0 /\ wrapper.body = <<>>
    BY <2>1 DEF SpokenInv, Recording
  <2>3. Accepts(Zero, header, <<>>)'
    BY <1>1, <2>1, <2>2 DEF Accepts
  <2>. QED BY <1>1, <2>1, <2>2, <2>3 DEF Silence
<1>5. CASE FlushBodyContents
  <2>1. stage' = "returned" /\ calls' = calls /\ wrapper.status # Zero
    BY <1>5 DEF FlushBodyContents
  <2>2. calls # 0
    BY <2>1 DEF Recording
  <2>. QED BY <2>1, <2>2 DEF Silence
<1>6. CASE ServerCompletes
  <2>1. stage = "returned" /\ stage' = "done" /\ calls' = calls
        /\ client' = SendStatus(client, OK, header, "handler")
    BY <1>6 DEF ServerCompletes
  <2>2. client.status # Nil => client' = client
    BY <2>1 DEF SendStatus
  <2>. QED BY <1>1, <2>1, <2>2 DEF Silence
<1>7. CASE stage' \in Early
  BY <1>7 DEF Silence, Early
<1>8. CASE ResponseSent
  BY <1>1, <1>8 DEF ResponseSent, Silence
<1>9. CASE Ended \/ UNCHANGED allVars
  BY <1>9 DEF Ended, Silence, Accepts
<1>10. stage \in Early /\ stage' = stage => stage' \in Early
  OBVIOUS
<1>. QED
  BY <1>2, <1>3, <1>4, <1>5, <1>6, <1>7, <1>8, <1>9
  DEF NextMiddleware, Forward, Handler, HandlerCalls, FoundRoute, ValidatingRequest,
      RequestValid, HandlerReturns, WriteHeader, Write, Flush, Calling, SetHeader,
      ConnectionLost, Early

\* The middleware panics for no handler that does not panic itself, but for the
\* one that is silent behind a strict middleware, where the document accepts the
\* status 0; and such a handler never gets a response of its own.
THEOREM SilenceIsNotAnswered == SpecMiddleware => []OnlySilencePanics
<1>. DEFINE I == TypedInv /\ SpokenInv /\ Recording /\ StrictInv /\ Silence
<1>1. InitMiddleware => I
  <2>. SUFFICES ASSUME InitMiddleware PROVE I
    OBVIOUS
  <2>1. SpokenInv /\ Recording /\ Silence
    BY DEF InitMiddleware, SpokenInv, Recording, Silence
  <2>. QED BY <2>1, Starts, StrictStarts
<1>2. I /\ [NextMiddleware]_allVars => I'
  BY TypedStep, SpokenStep, RecordingStep, StrictStep, SilenceStep
<1>3. I => OnlySilencePanics
  BY DEF Silence, OnlySilencePanics
<1>. QED BY <1>1, <1>2, <1>3, PTL DEF SpecMiddleware

(***************************************************************************)
(* Orderly handlers.                                                       *)
(***************************************************************************)
\* The response that a handler has begun with the status s and the header h.
Begun(s, h, b) == [status |-> s, header |-> h, infos |-> <<>>, body |-> b, by |-> "handler"]

\* What the writer has recorded is what the handler would have sent without the
\* middleware; the warning writer has sent the same, the strict one nothing.
Mirrors ==
  IF wrapper.headerWritten
  THEN /\ wrapper.status \notin Informational \cup {Nil}
       /\ direct = Begun(wrapper.status, header, wrapper.body)
       /\ client = IF strict THEN Unsent ELSE direct
  ELSE /\ wrapper.status = Zero /\ wrapper.body = <<>> /\ client = Unsent
       /\ direct = IF stage = "response" THEN Begun(OK, header, <<>>) ELSE Unsent

\* An error of the validator, the handler's response, or one still to be completed.
Answers ==
  \/ client.status # Nil /\ client.by = "validator"
  \/ client.status # Nil /\ client = direct
  \/ stage = "returned" /\ client = Unsent /\ direct = Begun(OK, header, <<>>)

\* Whether what the handler sent is logged; nothing is logged before that.
Reports ==
  IF stage \in {"returned", "done"}
  THEN direct.status # Nil /\ "silent" \notin habits =>
         (logged = "invalid response" <=> ~Accepts(direct.status, direct.header, direct.body))
  ELSE logged = Nil

OrderlyInv ==
  Orderly /\ ~lost =>
    /\ stage \in {"route", "request"} =>
         client = Unsent /\ direct = Unsent /\ ~wrapper.headerWritten
           /\ wrapper.status = Zero /\ wrapper.body = <<>>
    /\ stage \in {"handler", "response"} => Mirrors
    /\ stage \in {"returned", "done"} => Answers
    /\ Reports

LEMMA BegunStatus ==
  ASSUME NEW s, NEW h, s \notin Informational
  PROVE  SendStatus(Unsent, s, h, "handler") = Begun(s, h, <<>>)
BY DEF SendStatus, Unsent, Begun

LEMMA BegunKept ==
  ASSUME NEW s, NEW h, NEW b, NEW x, NEW k, s # Nil
  PROVE  SendStatus(Begun(s, h, b), x, k, "handler") = Begun(s, h, b)
BY DEF SendStatus, Begun

LEMMA BegunBody ==
  ASSUME NEW s, NEW h, NEW b, NEW c, NEW k, s # Nil
  PROVE  SendBody(Begun(s, h, b), c, k, "handler") = Begun(s, h, b \o c)
<1>1. SendStatus(Begun(s, h, b), OK, k, "handler") = Begun(s, h, b)
  BY BegunKept
<1>2. SendBody(Begun(s, h, b), c, k, "handler")
        = [Begun(s, h, b) EXCEPT !.body = Begun(s, h, b).body \o c]
  BY <1>1 DEF SendBody
<1>3. Begun(s, h, b).body = b
  BY DEF Begun
<1>4. \A x : [Begun(s, h, b) EXCEPT !.body = x] = Begun(s, h, x)
  BY DEF Begun
<1>. QED BY <1>2, <1>3, <1>4

LEMMA OKStatus == OK \notin Informational /\ OK # Nil /\ OK # Zero
BY ResponsesAssumption DEF Final

LEMMA BegunFirst ==
  ASSUME NEW h, NEW c, NEW e, e = <<>>
  PROVE  SendBody(Unsent, c, h, "handler") = Begun(OK, h, e \o c)
<1>1. SendStatus(Unsent, OK, h, "handler") = Begun(OK, h, e)
  BY BegunStatus, OKStatus
<1>2. SendBody(Unsent, c, h, "handler")
        = [Begun(OK, h, e) EXCEPT !.body = Begun(OK, h, e).body \o c]
  BY <1>1 DEF SendBody
<1>3. Begun(OK, h, e).body = e
  BY DEF Begun
<1>4. \A x : [Begun(OK, h, e) EXCEPT !.body = x] = Begun(OK, h, x)
  BY DEF Begun
<1>. QED BY <1>2, <1>3, <1>4

LEMMA BegunWhole ==
  ASSUME NEW s, s \notin Informational \cup {Nil}, NEW h, NEW b \in Seq(Chunks)
  PROVE  SendBody(SendStatus(Unsent, s, h, "handler"), b, h, "handler") = Begun(s, h, b)
<1>1. PICK e \in Seq(Chunks) : e = <<>>
  <2>. <<>> \in Seq(Chunks)
    OBVIOUS
  <2>. QED BY Zenon
<1>2. SendStatus(Unsent, s, h, "handler") = Begun(s, h, e)
  BY <1>1, BegunStatus
<1>3. SendBody(Begun(s, h, e), b, h, "handler") = Begun(s, h, e \o b)
  BY BegunBody
<1>4. e \o b = b
  BY <1>1
<1>. QED BY <1>2, <1>3, <1>4

\* The warning writer has sent what was written.
LEMMA MirrorsSent ==
  ASSUME Mirrors, wrapper.headerWritten, ~strict
  PROVE  client = direct /\ client.status # Nil
<1>1. direct = Begun(wrapper.status, header, wrapper.body) /\ wrapper.status # Nil
      /\ client = direct
  BY DEF Mirrors
<1>2. direct.status = wrapper.status
  BY <1>1 DEF Begun
<1>. QED BY <1>1, <1>2

\* The writer records what it would send.
LEMMA MirrorsWrite ==
  ASSUME TypedInv, Mirrors, ~lost, stage = "handler", NEW b \in Chunks, Write(b)
  PROVE  Mirrors'
<1>. DEFINE c == IF wrapper.headerWritten THEN client ELSE PassedOn(OK)
<1>0. /\ UNCHANGED <<strict, stage, header>>
      /\ wrapper' = [Recorded(wrapper, OK) EXCEPT !.body = Append(@, b)]
      /\ client' = IF strict THEN c ELSE SendBody(c, <<b>>, header, "handler")
      /\ direct' = SendBody(direct, <<b>>, header, "handler")
  BY DEF Write, setup
<1>1. wrapper \in Wrappers /\ wrapper.body \in Seq(Chunks)
  BY DEF TypedInv, MiddlewareTypeOK, Wrappers
<1>2. Append(wrapper.body, b) = wrapper.body \o <<b>>
  BY <1>1, AppendIsConcat
<1>3. CASE wrapper.headerWritten
  <2>1. wrapper' = [wrapper EXCEPT !.body = wrapper.body \o <<b>>]
    BY <1>0, <1>2, <1>3 DEF Recorded
  <2>2. /\ wrapper'.headerWritten /\ wrapper'.status = wrapper.status
        /\ wrapper'.body = wrapper.body \o <<b>>
    BY <1>1, <1>3, <2>1 DEF Wrappers
  <2>3. /\ wrapper.status \notin Informational \cup {Nil}
        /\ direct = Begun(wrapper.status, header, wrapper.body)
        /\ client = IF strict THEN Unsent ELSE direct
    BY <1>3 DEF Mirrors
  <2>4. direct' = Begun(wrapper.status, header, wrapper.body \o <<b>>)
    BY <1>0, <2>3, BegunBody
  <2>5. client' = IF strict THEN Unsent ELSE direct'
    BY <1>0, <1>3, <2>3
  <2>. QED BY <1>0, <2>2, <2>3, <2>4, <2>5 DEF Mirrors
<1>4. CASE ~wrapper.headerWritten
  <2>1. client = Unsent /\ direct = Unsent /\ wrapper.body = <<>>
    BY <1>4 DEF Mirrors
  <2>2. /\ Recorded(wrapper, OK) = [wrapper EXCEPT !.status = OK, !.headerWritten = TRUE]
        /\ Recorded(wrapper, OK).body = wrapper.body
    BY <1>1, <1>4 DEF Recorded, Wrappers
  <2>3. wrapper' = [wrapper EXCEPT !.status = OK, !.headerWritten = TRUE,
                                   !.body = wrapper.body \o <<b>>]
    BY <1>0, <1>1, <1>2, <2>2 DEF Wrappers
  <2>4. /\ wrapper'.headerWritten /\ wrapper'.status = OK
        /\ wrapper'.body = wrapper.body \o <<b>>
    BY <1>1, <2>3 DEF Wrappers
  <2>5. SendStatus(Unsent, OK, header, "handler") = Begun(OK, header, wrapper.body)
    BY <2>1, BegunStatus, OKStatus
  <2>6. direct' = Begun(OK, header, wrapper.body \o <<b>>)
    BY <1>0, <2>1, BegunFirst
  <2>7. c = IF strict THEN Unsent ELSE Begun(OK, header, wrapper.body)
    BY <1>4, <2>1, <2>2, <2>5, <1>1 DEF PassedOn, Wrappers
  <2>8. SendBody(Begun(OK, header, wrapper.body), <<b>>, header, "handler")
          = Begun(OK, header, wrapper.body \o <<b>>)
    BY BegunBody, OKStatus
  <2>9. client' = IF strict THEN Unsent ELSE direct'
    BY <1>0, <2>6, <2>7, <2>8
  <2>. QED BY <1>0, <2>1, <2>4, <2>6, <2>9, OKStatus DEF Mirrors
<1>. QED BY <1>3, <1>4

LEMMA MirrorsStatus ==
  ASSUME TypedInv, Mirrors, ~lost, stage = "handler", Orderly,
         NEW s \in Statuses, WriteHeader(s)
  PROVE  Mirrors'
<1>0. /\ UNCHANGED <<strict, stage, header>>
      /\ wrapper' = Recorded(wrapper, s) /\ s \notin Informational
      /\ client' = IF strict THEN client
                   ELSE SendStatus(client, wrapper'.status, header, "handler")
      /\ direct' = SendStatus(direct, s, header, "handler")
  BY DEF WriteHeader, PassedOn, setup, Orderly
<1>1. wrapper \in Wrappers
  BY DEF TypedInv, MiddlewareTypeOK, Wrappers
<1>2. CASE wrapper.headerWritten
  <2>1. wrapper' = wrapper
    BY <1>0, <1>2 DEF Recorded
  <2>2. /\ wrapper.status # Nil /\ direct = Begun(wrapper.status, header, wrapper.body)
        /\ client = IF strict THEN Unsent ELSE direct
    BY <1>2 DEF Mirrors
  <2>3. direct' = direct
    BY <1>0, <2>2, BegunKept
  <2>4. client' = client
    BY <1>0, <2>2, BegunKept
  <2>. QED BY <1>0, <2>1, <2>3, <2>4 DEF Mirrors
<1>3. CASE ~wrapper.headerWritten
  <2>1. client = Unsent /\ direct = Unsent /\ wrapper.body = <<>>
    BY <1>3 DEF Mirrors
  <2>2. wrapper'.headerWritten /\ wrapper'.status = s /\ wrapper'.body = <<>>
    BY <1>0, <1>1, <1>3, <2>1 DEF Recorded, Wrappers
  <2>3. direct' = Begun(s, header, <<>>)
    BY <1>0, <2>1, BegunStatus
  <2>4. client' = IF strict THEN Unsent ELSE Begun(s, header, <<>>)
    BY <1>0, <2>1, <2>2, BegunStatus
  <2>5. s # Nil
    BY ResponsesAssumption
  <2>. QED BY <1>0, <2>2, <2>3, <2>4, <2>5 DEF Mirrors
<1>. QED BY <1>2, <1>3

\* An error of the validator is not taken for a response of the handler.
LEMMA ValidatorAnswers ==
  ASSUME NEW s \in {NotFound, BadRequest, ServerError}, client = Unsent,
         client' = SendError(client, s, header)
  PROVE  client'.status # Nil /\ client'.by = "validator"
BY ErrorSent

\* What was accepted of the record is what the handler has sent.
LEMMA RecordJudged ==
  ASSUME TypedInv, SpokenInv, Mirrors, Orderly, stage = "response", direct.status # Nil,
         "silent" \notin habits
  PROVE  Accepts(wrapper.status, header, wrapper.body)
           <=> Accepts(direct.status, direct.header, direct.body)
<1>1. wrapper.headerWritten
  BY DEF SpokenInv, Orderly
<1>2. direct = Begun(wrapper.status, header, wrapper.body)
  BY <1>1 DEF Mirrors
<1>3. direct.status = wrapper.status /\ direct.header = header /\ direct.body = wrapper.body
  BY <1>2 DEF Begun
<1>. QED BY <1>3

LEMMA OrderlyStep ==
  ASSUME TypedInv, SpokenInv, OrderlyInv, NextMiddleware \/ UNCHANGED allVars
  PROVE  OrderlyInv'
<1>. USE DEF setup, mwVars, allVars
<1>. SUFFICES ASSUME Orderly', ~lost' PROVE OrderlyInv'
  BY DEF OrderlyInv
<1>0. UNCHANGED setup /\ Orderly /\ ~lost /\ lost' = lost
  <2>1. UNCHANGED setup /\ (lost' = lost \/ lost' = TRUE)
    BY DEF NextMiddleware, Forward, Handler, HandlerCalls, CannotFindRoute, FoundRoute,
       ValidatingRequest, RequestInvalid, RequestValid, HandlerReturns, ResponseInvalid,
       ResponseSent, FlushPanics, FlushBodyContents, ServerCompletes, WriteHeader, Write,
       Flush, SetHeader, HandlerPanics, ConnectionLost, Ended
  <2>2. lost \in BOOLEAN
    BY DEF TypedInv, MiddlewareTypeOK
  <2>. QED BY <2>1, <2>2 DEF Orderly
<1>1. /\ stage \in {"route", "request"} =>
           client = Unsent /\ direct = Unsent /\ ~wrapper.headerWritten
             /\ wrapper.status = Zero /\ wrapper.body = <<>>
      /\ stage \in {"handler", "response"} => Mirrors
      /\ stage \in {"returned", "done"} => Answers
      /\ Reports
  BY <1>0 DEF OrderlyInv
<1>2. \A s, h, b : Accepts(s, h, b)' <=> Accepts(s, h, b)
  BY <1>0 DEF Accepts
<1>3. Nil # "invalid response" /\ Unsent.status = Nil
  BY ResponsesAssumption DEF Unsent
<1>4. CASE CannotFindRoute \/ RequestInvalid
  <2>1. /\ stage \in {"route", "request"} /\ stage' = "returned" /\ direct' = direct
        /\ \E s \in {NotFound, BadRequest, ServerError} : client' = SendError(client, s, header)
    BY <1>4 DEF CannotFindRoute, RequestInvalid
  <2>2. client = Unsent /\ direct' = Unsent
    BY <1>1, <2>1
  <2>3. client'.status # Nil /\ client'.by = "validator"
    BY <2>1, <2>2, ValidatorAnswers
  <2>. QED BY <1>3, <2>1, <2>2, <2>3 DEF OrderlyInv, Answers, Reports
<1>5. CASE FoundRoute \/ ValidatingRequest
  BY <1>1, <1>5 DEF FoundRoute, ValidatingRequest, OrderlyInv, Reports
<1>6. CASE RequestValid
  <2>1. UNCHANGED <<client, direct, wrapper, logged>> /\ stage = "request" /\ stage' = "handler"
    BY <1>6 DEF RequestValid
  <2>. QED BY <1>1, <2>1 DEF OrderlyInv, Mirrors, Reports
<1>7. CASE \E s \in Statuses : WriteHeader(s)
  <2>1. stage = "handler" /\ stage' = "handler" /\ logged' = logged
    BY <1>7 DEF WriteHeader, Calling
  <2>2. Mirrors'
    BY <1>0, <1>1, <1>7, <2>1, MirrorsStatus
  <2>. QED BY <1>1, <2>1, <2>2 DEF OrderlyInv, Reports
<1>8. CASE \E b \in Chunks : Write(b)
  <2>1. stage = "handler" /\ stage' = "handler" /\ logged' = logged
    BY <1>8 DEF Write, Calling
  <2>2. Mirrors'
    BY <1>0, <1>1, <1>8, <2>1, MirrorsWrite
  <2>. QED BY <1>1, <2>1, <2>2 DEF OrderlyInv, Reports
<1>9. CASE Flush
  BY <1>0, <1>9 DEF Flush, Orderly
<1>10. CASE SetHeader("good") \/ SetHeader("bad")
  <2>1. /\ stage = "handler" /\ UNCHANGED <<stage, wrapper, client, direct, logged>>
        /\ ~wrapper.headerWritten
    BY <1>0, <1>10 DEF SetHeader, Orderly
  <2>. QED BY <1>0, <1>1, <2>1 DEF OrderlyInv, Mirrors, Reports
<1>11. CASE HandlerReturns
  <2>1. /\ stage = "handler" /\ stage' = "response"
        /\ UNCHANGED <<header, wrapper, client, logged, strict>>
        /\ direct' = SendStatus(direct, OK, header, "handler")
    BY <1>11 DEF HandlerReturns
  <2>2. Mirrors
    BY <1>1, <2>1
  <2>3. CASE wrapper.headerWritten
    <3>1. direct' = direct
      BY <2>1, <2>2, <2>3, BegunKept DEF Mirrors
    <3>. QED BY <1>1, <2>1, <2>2, <2>3, <3>1 DEF OrderlyInv, Mirrors, Reports
  <2>4. CASE ~wrapper.headerWritten
    <3>1. direct' = Begun(OK, header, <<>>)
      BY <2>1, <2>2, <2>4, BegunStatus, OKStatus DEF Mirrors
    <3>. QED BY <1>1, <2>1, <2>2, <2>4, <3>1 DEF OrderlyInv, Mirrors, Reports
  <2>. QED BY <2>3, <2>4
<1>12. CASE HandlerPanics \/ FlushPanics
  BY <1>1, <1>12 DEF HandlerPanics, FlushPanics, OrderlyInv, Reports
<1>13. CASE ConnectionLost
  BY <1>0, <1>13 DEF ConnectionLost
<1>14. CASE ResponseInvalid
  <2>1. /\ stage = "response" /\ stage' = "returned" /\ logged' = "invalid response"
        /\ UNCHANGED <<direct, header>> /\ ~Accepts(wrapper.status, header, wrapper.body)
        /\ client' = IF strict THEN SendError(client, ServerError, header) ELSE client
    BY <1>14 DEF ResponseInvalid
  <2>2. Mirrors
    BY <1>1, <2>1
  <2>3. Reports'
    BY <1>0, <1>2, <2>1, <2>2, RecordJudged DEF Reports
  <2>4. CASE strict
    <3>1. client = Unsent
      BY <2>2, <2>4 DEF Mirrors
    <3>2. client'.status # Nil /\ client'.by = "validator"
      BY <2>1, <2>4, <3>1, ValidatorAnswers
    <3>. QED BY <2>1, <2>3, <3>2 DEF OrderlyInv, Answers
  <2>5. CASE ~strict /\ wrapper.headerWritten
    <3>1. client' = direct' /\ client'.status # Nil
      BY <2>1, <2>2, <2>5, MirrorsSent
    <3>. QED BY <2>1, <2>3, <3>1 DEF OrderlyInv, Answers
  <2>6. CASE ~strict /\ ~wrapper.headerWritten
    BY <2>1, <2>2, <2>3, <2>6 DEF Mirrors, OrderlyInv, Answers
  <2>. QED BY <2>4, <2>5, <2>6
<1>15. CASE ResponseSent
  <2>1. /\ stage = "response" /\ stage' = "returned" /\ logged' = logged /\ ~strict
        /\ UNCHANGED <<direct, header, client>> /\ Accepts(wrapper.status, header, wrapper.body)
    BY <1>15 DEF ResponseSent
  <2>2. Mirrors /\ logged' # "invalid response"
    BY <1>1, <1>3, <2>1 DEF Reports
  <2>3. Reports'
    BY <1>0, <1>2, <2>1, <2>2, RecordJudged DEF Reports
  <2>4. CASE wrapper.headerWritten
    <3>1. client' = direct' /\ client'.status # Nil
      BY <2>1, <2>2, <2>4, MirrorsSent
    <3>. QED BY <2>1, <2>3, <3>1 DEF OrderlyInv, Answers
  <2>5. CASE ~wrapper.headerWritten
    BY <2>1, <2>2, <2>3, <2>5 DEF Mirrors, OrderlyInv, Answers
  <2>. QED BY <2>4, <2>5
<1>16. CASE FlushBodyContents
  <2>1. /\ stage = "response" /\ stage' = "returned" /\ logged' = logged /\ strict
        /\ UNCHANGED <<direct, header>> /\ Accepts(wrapper.status, header, wrapper.body)
        /\ wrapper.status # Zero
        /\ client' = SendBody(SendStatus(client, wrapper.status, header, "handler"),
                              wrapper.body, header, "handler")
    BY <1>0, <1>16 DEF FlushBodyContents
  <2>2. Mirrors /\ logged' # "invalid response"
    BY <1>1, <1>3, <2>1 DEF Reports
  <2>3. Reports'
    BY <1>0, <1>2, <2>1, <2>2, RecordJudged DEF Reports
  <2>4. /\ wrapper.headerWritten /\ client = Unsent
        /\ wrapper.status \notin Informational \cup {Nil}
        /\ direct = Begun(wrapper.status, header, wrapper.body)
    BY <2>1, <2>2 DEF Mirrors
  <2>5. wrapper.body \in Seq(Chunks)
    BY DEF TypedInv, MiddlewareTypeOK
  <2>6. client' = Begun(wrapper.status, header, wrapper.body)
    BY <2>1, <2>4, <2>5, BegunWhole
  <2>7. client' = direct' /\ client'.status # Nil
    BY <2>1, <2>4, <2>6 DEF Begun
  <2>. QED BY <2>1, <2>3, <2>7 DEF OrderlyInv, Answers
<1>17. CASE ServerCompletes
  <2>1. /\ stage = "returned" /\ stage' = "done" /\ UNCHANGED <<direct, header, logged>>
        /\ client' = SendStatus(client, OK, header, "handler")
    BY <1>17 DEF ServerCompletes
  <2>2. Reports'
    BY <1>0, <1>1, <1>2, <2>1 DEF Reports
  <2>3. CASE client.status # Nil
    <3>1. client' = client
      BY <2>1, <2>3 DEF SendStatus
    <3>. QED BY <1>1, <1>3, <2>1, <2>2, <2>3, <3>1 DEF OrderlyInv, Answers
  <2>4. CASE client.status = Nil
    <3>1. client = Unsent /\ direct = Begun(OK, header, <<>>)
      BY <1>1, <2>1, <2>4 DEF Answers
    <3>2. client' = Begun(OK, header, <<>>) /\ client'.status # Nil
      BY <2>1, <3>1, BegunStatus, OKStatus DEF Begun
    <3>. QED BY <2>1, <2>2, <3>1, <3>2 DEF OrderlyInv, Answers
  <2>. QED BY <2>3, <2>4
<1>18. CASE Ended \/ UNCHANGED allVars
  <2>1. UNCHANGED <<stage, wrapper, client, direct, header, logged>>
    BY <1>18 DEF Ended
  <2>. QED BY <1>0, <1>1, <1>2, <2>1 DEF OrderlyInv, Mirrors, Answers, Reports
<1>. QED
  BY <1>4, <1>5, <1>6, <1>7, <1>8, <1>9, <1>10, <1>11, <1>12, <1>13, <1>14, <1>15, <1>16,
     <1>17, <1>18
  DEF NextMiddleware, Forward, Handler, HandlerCalls

WriterInv == TypedInv /\ SpokenInv /\ OrderlyInv

LEMMA WriterStarts == ASSUME InitMiddleware PROVE WriterInv
<1>1. OrderlyInv
  BY DEF InitMiddleware, OrderlyInv, Reports
<1>. QED BY <1>1, Starts DEF WriterInv, SpokenInv, InitMiddleware

LEMMA WriterStep == ASSUME WriterInv, [NextMiddleware]_allVars PROVE WriterInv'
BY TypedStep, SpokenStep, OrderlyStep DEF WriterInv

\* Whatever the mode, over a connection that holds, a response that the middleware
\* lets through is, status, headers and body, the one the handler sent: for a
\* handler that sets its headers before it writes and leaves flushing and
\* informational responses alone.
THEOREM OrderlyTransparent == SpecMiddleware => []Transparent
<1>1. InitMiddleware => WriterInv
  BY WriterStarts
<1>2. WriterInv /\ [NextMiddleware]_allVars => WriterInv'
  BY WriterStep
<1>3. WriterInv => Transparent
  <2>. SUFFICES ASSUME OrderlyInv, Orderly, stage = "done", client.by = "handler", ~lost
                PROVE  client = direct
    BY DEF WriterInv, Transparent
  <2>1. Answers
    BY DEF OrderlyInv
  <2>. QED BY <2>1 DEF Answers
<1>. QED BY <1>1, <1>2, <1>3, PTL DEF SpecMiddleware

\* No orderly handler is silent: the warning writer records no status for one
\* that is, and the status 0 is validated in place of the 200 that is sent.
Speaking ==
  \A s \in Setups : s.habits \cap {"early", "late", "flush"} = {} => "silent" \notin s.habits

\* For an orderly handler that answers, the log reports an invalid response
\* exactly if what the handler sent is one.
THEOREM InvalidResponsesLogged == Speaking => (SpecMiddleware => []LogsInvalid)
<1>. SUFFICES ASSUME Speaking PROVE SpecMiddleware => []LogsInvalid
  OBVIOUS
<1>1. InitMiddleware => WriterInv
  BY WriterStarts
<1>2. WriterInv /\ [NextMiddleware]_allVars => WriterInv'
  BY WriterStep
<1>3. WriterInv => LogsInvalid
  <2>. SUFFICES ASSUME TypedInv, OrderlyInv, Orderly, stage = "done", direct.status # Nil, ~lost
                PROVE  logged = "invalid response"
                         <=> ~Accepts(direct.status, direct.header, direct.body)
    BY DEF WriterInv, LogsInvalid
  <2>1. "silent" \notin habits
    BY DEF Speaking, TypedInv, MiddlewareTypeOK, Orderly
  <2>2. Reports
    BY DEF OrderlyInv
  <2>. QED BY <2>1, <2>2 DEF Reports
<1>. QED BY <1>1, <1>2, <1>3, PTL DEF SpecMiddleware
=============================================================================
