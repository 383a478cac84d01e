----------------------- MODULE RequestValidationProofs -----------------------
(***************************************************************************)
(* No request is accepted unless one security requirement is met entirely. *)
(*                                                                         *)
(* AcceptedSecurely speaks of the last state of a call only.  The          *)
(* invariant SInv follows the two loops: the schemes before the j-th of    *)
(* the i-th requirement have been accepted, and from the parameters on     *)
(* either a requirement was met or an error is there to be returned.       *)
(***************************************************************************)
EXTENDS RequestValidation, SequenceTheorems, WellFoundedInduction, TLAPS

\* Some requirement has all its schemes accepted, or there is none to meet.
Met == \/ operation.security = <<>>
       \/ \E m \in DOMAIN operation.security :
            \A n \in DOMAIN operation.security[m] : <<m, n>> \in accepted

Counters == i \in Nat \ {0} /\ j \in Nat \ {0} /\ operation \in Operation

\* The requirement at hand exists, and its schemes before j were accepted.
InLoop ==
  /\ pc = "security" /\ operation.security # <<>> => i \in DOMAIN operation.security
  /\ pc \in {"schemes", "authentication"} =>
       /\ i \in DOMAIN operation.security
       /\ \A n \in 1..(j - 1) : <<i, n>> \in accepted

AfterLoop == pc \in {"params", "body", "content"} => "security" \in errs \/ Met
Accepted  == verdict = "ok" => Met

SInv == Counters /\ InLoop /\ AfterLoop /\ Accepted

(***************************************************************************)
(* The ways a step ends, as facts about the state that follows.            *)
(***************************************************************************)
\* An alternative that is not met leads to the next one or to an error.
LEMMA UnmetKeeps ==
  ASSUME SInv, pc \in {"security", "schemes", "authentication"},
         operation.security # <<>>, Unmet,
         UNCHANGED <<operation, accepted>>
  PROVE  SInv'
<1>1. operation.security \in Seq(Seq(Schemes)) /\ i \in DOMAIN operation.security
  BY DEF SInv, Counters, InLoop, Operation
<1>2. CASE i < Len(operation.security)
  <2>1. pc' = "security" /\ i' = i + 1 /\ j' = 1 /\ errs' = errs /\ verdict' = verdict
    BY <1>2 DEF Unmet, Continue, Goto
  <2>2. i + 1 \in DOMAIN operation.security
    BY <1>1, <1>2
  <2>. QED
    BY <2>1, <2>2 DEF SInv, Counters, InLoop, AfterLoop, Accepted, Met
<1>3. CASE ~(i < Len(operation.security))
  <2>1. Error("security", "params", 1)
    BY <1>3 DEF Unmet
  <2>2. CASE options.multiError
    BY <2>1, <2>2 DEF Error, Goto, SInv, Counters, InLoop, AfterLoop, Accepted, Met
  <2>3. CASE ~options.multiError
    BY <2>1, <2>3 DEF Error, Return, SInv, Counters, InLoop, AfterLoop, Accepted, Met
  <2>. QED BY <2>2, <2>3
<1>. QED BY <1>2, <1>3

\* A part that is done leads to another part after the security requirements.
LEMMA ContinueKeeps ==
  ASSUME SInv, NEW p \in {"params", "body", "content"}, NEW m \in Nat \ {0},
         pc \in {"params", "body", "content"} \/ Met,
         Continue(p, m), UNCHANGED <<operation, accepted>>
  PROVE  SInv'
BY DEF Continue, Goto, SInv, Counters, InLoop, AfterLoop, Accepted, Met

\* A parameter in error is collected or returned.
LEMMA ErrorKeeps ==
  ASSUME SInv, NEW part, NEW m \in Nat \ {0}, pc = "params",
         Error(part, "params", m), UNCHANGED <<operation, accepted>>
  PROVE  SInv'
<1>1. CASE options.multiError
  BY <1>1 DEF Error, Goto, SInv, Counters, InLoop, AfterLoop, Accepted, Met
<1>2. CASE ~options.multiError
  BY <1>2 DEF Error, Return, SInv, Counters, InLoop, AfterLoop, Accepted, Met
<1>. QED BY <1>1, <1>2

\* The end of the validation returns an error where no requirement was met.
LEMMA ReturnKeeps ==
  ASSUME SInv, pc \in {"body", "content"}, BodyError \/ BodyFine,
         UNCHANGED <<operation, accepted>>
  PROVE  SInv'
<1>1. \/ verdict' = "err"
      \/ verdict' = "ok" /\ errs = {}
  BY DEF BodyError, BodyFine, Return
<1>2. pc' = "idle" /\ i' = 1 /\ j' = 1
  BY DEF BodyError, BodyFine, Return
<1>. QED BY <1>1, <1>2 DEF SInv, Counters, InLoop, AfterLoop, Accepted, Met

(***************************************************************************)
(* The invariant.                                                          *)
(***************************************************************************)
LEMMA InitEstablishes == Init => SInv
BY InputsAssumption DEF Init, SInv, Counters, InLoop, AfterLoop, Accepted

LEMMA SecurityPreserves == SInv /\ Security => SInv'
<1>. SUFFICES ASSUME SInv, Security PROVE SInv'
  OBVIOUS
<1>. USE DEF input, count, call
<1>1. CASE SecurityAbsent
  BY <1>1, ContinueKeeps DEF SecurityAbsent, Met
<1>2. CASE AuthenticationMissing
  BY <1>2, UnmetKeeps DEF AuthenticationMissing
<1>3. CASE SecurityReadFails
  BY <1>3, UnmetKeeps DEF SecurityReadFails
<1>4. CASE SecurityBodyRead
  BY <1>4 DEF SecurityBodyRead, Continue, Goto, SInv, Counters, InLoop, AfterLoop, Accepted, Met
<1>5. CASE SchemeUndeclared
  <2>1. operation.security # <<>>
    BY <1>5 DEF SchemeUndeclared, SInv, InLoop
  <2>. QED BY <1>5, <2>1, UnmetKeeps DEF SchemeUndeclared
<1>6. CASE CallAuthenticationFunc
  BY <1>6 DEF CallAuthenticationFunc, SInv, Counters, InLoop, AfterLoop, Accepted, Met
<1>7. CASE AuthenticationAccepts
  <2>1. \A n \in 1..(j' - 1) : <<i, n>> \in accepted'
    <3>1. \A n \in 1..(j' - 1) : n = j \/ n \in 1..(j - 1)
      BY <1>7 DEF AuthenticationAccepts, SInv, Counters
    <3>. QED BY <1>7, <3>1 DEF AuthenticationAccepts, SInv, InLoop
  <2>2. Met => Met'
    BY <1>7 DEF AuthenticationAccepts, Met
  <2>. QED
    BY <1>7, <2>1, <2>2 DEF AuthenticationAccepts, SInv, Counters, InLoop, AfterLoop, Accepted
<1>8. CASE AuthenticationRejects
  <2>1. operation.security # <<>>
    BY <1>8 DEF AuthenticationRejects, SInv, InLoop
  <2>. QED BY <1>8, <2>1, UnmetKeeps DEF AuthenticationRejects
<1>9. CASE RequirementMet
  <2>1. Met
    <3>1. operation.security \in Seq(Seq(Schemes)) /\ i \in DOMAIN operation.security
      BY <1>9 DEF RequirementMet, SInv, Counters, InLoop, Operation
    <3>2. DOMAIN operation.security[i] = 1..Len(operation.security[i])
          /\ Len(operation.security[i]) \in Nat
      BY <3>1
    <3>3. \A n \in DOMAIN operation.security[i] : n \in 1..(j - 1)
      BY <1>9, <3>2 DEF RequirementMet, Requirement, SInv, Counters
    <3>. QED BY <1>9, <3>1, <3>3 DEF RequirementMet, Met, SInv, InLoop
  <2>. QED BY <1>9, <2>1, ContinueKeeps DEF RequirementMet
<1>. QED
  BY <1>1, <1>2, <1>3, <1>4, <1>5, <1>6, <1>7, <1>8, <1>9 DEF Security

LEMMA ParametersPreserve == SInv /\ Parameters => SInv'
<1>. SUFFICES ASSUME SInv, Parameters PROVE SInv'
  OBVIOUS
<1>. USE DEF input, count, call
<1>0. i \in Nat \ {0} /\ i + 1 \in Nat \ {0}
  BY DEF SInv, Counters
<1>1. CASE ParamsDone
  BY <1>1, ContinueKeeps DEF ParamsDone
<1>2. CASE ParamSkipped
  BY <1>0, <1>2, ContinueKeeps DEF ParamSkipped
<1>3. CASE ValidateParameter
  <2>1. \/ Error("parameter", "params", i + 1)
        \/ Continue("params", i + 1)
    BY <1>3 DEF ValidateParameter
  <2>2. pc = "params" /\ UNCHANGED <<operation, accepted>>
    BY <1>3 DEF ValidateParameter
  <2>. QED BY <1>0, <2>1, <2>2, ErrorKeeps, ContinueKeeps
<1>. QED BY <1>1, <1>2, <1>3 DEF Parameters

LEMMA BodyPreserves == SInv /\ Body => SInv'
<1>. SUFFICES ASSUME SInv, Body PROVE SInv'
  OBVIOUS
<1>. USE DEF input, count, call
<1>1. CASE BodyRead
  BY <1>1, ContinueKeeps DEF BodyRead
<1>2. CASE ~BodyRead
  <2>1. (BodyError \/ BodyFine) /\ pc \in {"body", "content"}
        /\ UNCHANGED <<operation, accepted>>
    BY <1>2 DEF Body, BodyExcluded, BodyUnspecified, BodyReadFails, BodyMissing,
         BodyUnchecked, BodyInvalid, BodyRewriteFails, BodyValid
  <2>. QED BY <2>1, ReturnKeeps
<1>. QED BY <1>1, <1>2

LEMMA StepPreserves == SInv /\ [Next]_vars => SInv'
<1>. SUFFICES ASSUME SInv, [Next]_vars PROVE SInv'
  OBVIOUS
<1>. USE DEF input, count, call
<1>1. CASE ValidateRequest
  BY <1>1 DEF ValidateRequest, Goto, SInv, Counters, InLoop, AfterLoop, Accepted, Operation
<1>2. CASE ReplaceBody
  BY <1>2 DEF ReplaceBody, SInv, Counters, InLoop, AfterLoop, Accepted, Met
<1>3. CASE Security
  BY <1>3, SecurityPreserves
<1>4. CASE AuthenticationReads
  BY <1>4 DEF AuthenticationReads, SInv, Counters, InLoop, AfterLoop, Accepted, Met
<1>5. CASE Parameters
  BY <1>5, ParametersPreserve
<1>6. CASE Body
  BY <1>6, BodyPreserves
<1>7. CASE Finished \/ UNCHANGED vars
  BY <1>7 DEF Finished, vars, SInv, Counters, InLoop, AfterLoop, Accepted, Met
<1>. QED
  BY <1>1, <1>2, <1>3, <1>4, <1>5, <1>6, <1>7 DEF Next, Step

\* Whatever the document, the request, the options and the answers and reads of
\* AuthenticationFunc: ValidateRequest accepts only a request for which every
\* scheme of one requirement was accepted in that call.
THEOREM SecurelyAccepted == Spec => []AcceptedSecurely
<1>1. Init => SInv
  BY InitEstablishes
<1>2. SInv /\ [Next]_vars => SInv'
  BY StepPreserves
<1>3. SInv => AcceptedSecurely
  BY DEF SInv, Accepted, Met, AcceptedSecurely
<1>. QED BY <1>1, <1>2, <1>3, PTL DEF Spec

(***************************************************************************)
(* Type correctness.                                                       *)
(***************************************************************************)
Places == {"idle", "security", "schemes", "authentication", "params", "body", "content"}

\* The place in the code and what has been found so far.
Control == /\ pc \in Places /\ i \in Nat \ {0} /\ j \in Nat \ {0}
           /\ errs \subseteq Parts /\ verdict \in {"none", "ok", "err"}

LEMMA ContinueTyped ==
  ASSUME Control, NEW p \in Places, NEW m \in Nat \ {0}, Continue(p, m)
  PROVE  Control'
BY DEF Continue, Goto, Control

LEMMA ReturnTyped ==
  ASSUME NEW e \in SUBSET Parts, Return(e)
  PROVE  Control'
BY DEF Return, Control, Places

LEMMA ErrorTyped ==
  ASSUME Control, NEW part \in Parts, NEW p \in Places, NEW m \in Nat \ {0},
         Error(part, p, m)
  PROVE  Control'
<1>1. CASE options.multiError
  BY <1>1 DEF Error, Goto, Control
<1>2. CASE ~options.multiError
  BY <1>2, ReturnTyped DEF Error
<1>. QED BY <1>1, <1>2

LEMMA UnmetTyped == ASSUME Control, Unmet PROVE Control'
<1>1. CASE i < Len(operation.security)
  BY <1>1, ContinueTyped DEF Unmet, Control, Places
<1>2. CASE ~(i < Len(operation.security))
  BY <1>2, ErrorTyped DEF Unmet, Places, Parts
<1>. QED BY <1>1, <1>2

\* What the code does with the request leaves a request.
LEMMA BodySet ==
  ASSUME NEW o, NEW r \in Request(o), NEW c \in Contents
  PROVE  SetBody(r, c) \in Request(o)
BY DEF SetBody, Request, LengthOf

LEMMA BodyPutBack ==
  ASSUME NEW o, NEW r \in Request(o), NEW d \in Contents \cup {Nil}
  PROVE  PutBack(r, d) \in Request(o)
<1>1. CASE d = Nil
  BY <1>1 DEF PutBack
<1>2. CASE d # Nil /\ r.getBody \in Contents
  BY <1>2 DEF PutBack, Request
<1>3. CASE d # Nil /\ r.getBody \notin Contents
  BY <1>3, BodySet DEF PutBack
<1>. QED BY <1>1, <1>2, <1>3

LEMMA BodyDrained ==
  ASSUME NEW o, NEW r \in Request(o), r.body # Broken
  PROVE  Drained(r) \in Request(o) /\ Bytes(r) \in Contents \cup {Nil}
BY ContentsAssumption DEF Drained, Bytes, Request

LEMMA BodyBroken ==
  ASSUME NEW o, NEW r \in Request(o)
  PROVE  [r EXCEPT !.body = Broken] \in Request(o) /\ Closed(r) \in Request(o)
BY DEF Closed, Request

LEMMA ConcatElement ==
  ASSUME NEW S, NEW a \in Seq(S), NEW b \in Seq(S), NEW m \in DOMAIN (a \o b)
  PROVE  \/ m \in DOMAIN a /\ (a \o b)[m] = a[m]
         \/ m - Len(a) \in DOMAIN b /\ (a \o b)[m] = b[m - Len(a)]
<1>1. Len(a) \in Nat /\ Len(b) \in Nat /\ DOMAIN a = 1..Len(a) /\ DOMAIN b = 1..Len(b)
  OBVIOUS
<1>2. m \in 1..(Len(a) + Len(b))
  BY <1>1, ConcatProperties
<1>3. (a \o b)[m] = IF m <= Len(a) THEN a[m] ELSE b[m - Len(a)]
  BY <1>2, ConcatProperties
<1>. QED BY <1>1, <1>2, <1>3

\* The parameters of the operation are parameters, and have values.
LEMMA ParamsTyped ==
  ASSUME operation \in Operation, NEW m \in DOMAIN Params
  PROVE  Params[m] \in Param /\ ParamKey(Params[m]) \in ParamKeys(operation)
<1>. DEFINE a == operation.pathItemParams
            b == operation.params
<1>1. a \in Seq(Param) /\ b \in Seq(Param)
  BY DEF Operation
<1>2. \/ m \in DOMAIN a /\ Params[m] = a[m]
      \/ m - Len(a) \in DOMAIN b /\ Params[m] = b[m - Len(a)]
  BY <1>1, ConcatElement DEF Params
<1>3. Params[m] \in {b[n] : n \in DOMAIN b} \cup {a[n] : n \in DOMAIN a}
  BY <1>2
<1>. QED BY <1>1, <1>2, <1>3 DEF ParamKeys, ParamsOf

LEMMA ValuesTyped ==
  ASSUME NEW p \in Param, NEW s \in Seq(Value)
  PROVE  WithDefault(p, s) \in Seq(Value)
<1>1. p.in \in {"path", "query", "header", "cookie"} /\ Written(p) \in Value
  BY DEF Param, Value, Reading, Written
<1>. QED BY <1>1 DEF WithDefault

\* The part of TypeOK that is not about control.
Rest ==
  /\ operation \in Operation /\ options \in Options /\ request \in Request(operation)
  /\ data \in Contents \cup {Nil} /\ captured \in BOOLEAN
  /\ previous \in {"none", "ok", "err"} /\ accepted \subseteq Nat \X Nat
  /\ served \in Contents \cup {NoBody, Broken}
  /\ passes \in 0..MaxPasses /\ replaced \in 0..MaxReplaced /\ faults \in 0..MaxFaults

LEMMA TypeParts == TypeOK <=> Control /\ Rest
BY DEF TypeOK, Control, Rest, Places

LEMMA ReadFailsTyped ==
  ASSUME faults \in 0..MaxFaults, ReadFails
  PROVE  faults' \in 0..MaxFaults
BY InputsAssumption DEF ReadFails

LEMMA ValidateParameterTyped ==
  ASSUME Control, Rest, ValidateParameter
  PROVE  Control' /\ Rest'
<1>. DEFINE p    == Params[i]
            sent == request.sent[ParamKey(p)]
            v    == WithDefault(p, sent)
<1>1. i \in DOMAIN Params /\ operation \in Operation
  <2>1. Params \in Seq(Param)
    BY DEF Rest, Operation, Params
  <2>. QED BY <2>1 DEF ValidateParameter, Control, Rest
<1>2. p \in Param /\ ParamKey(p) \in ParamKeys(operation)
  BY <1>1, ParamsTyped
<1>3. sent \in Seq(Value)
  BY <1>2 DEF Rest, Request
<1>4. v \in Seq(Value)
  BY <1>2, <1>3, ValuesTyped
<1>5. \/ request' = request
      \/ request' = [request EXCEPT !.sent[ParamKey(p)] = v]
  BY DEF ValidateParameter
<1>6. request' \in Request(operation)
  <2>1. [request.sent EXCEPT ![ParamKey(p)] = v] \in [ParamKeys(operation) -> Seq(Value)]
    BY <1>2, <1>4 DEF Rest, Request
  <2>2. request' = request \/
        request' = [request EXCEPT !.sent = [request.sent EXCEPT ![ParamKey(p)] = v]]
    BY <1>5
  <2>. QED BY <2>1, <2>2 DEF Rest, Request
<1>7. Error("parameter", "params", i + 1) \/ Continue("params", i + 1)
  BY DEF ValidateParameter
<1>8. Control'
  BY <1>7, ErrorTyped, ContinueTyped DEF Control, Places, Parts
<1>. QED BY <1>6, <1>8 DEF ValidateParameter, Rest, input, call, count

LEMMA SecurityTyped == Control /\ Rest /\ Security => Control' /\ Rest'
<1>. SUFFICES ASSUME Control, Rest, Security PROVE Control' /\ Rest'
  OBVIOUS
<1>. USE DEF input, count, call
<1>0. i \in Nat \ {0} /\ i + 1 \in Nat \ {0} /\ {"params", "schemes", "security"} \subseteq Places
  BY DEF Control, Places
<1>1. CASE SecurityAbsent
  BY <1>0, <1>1, ContinueTyped DEF SecurityAbsent, Rest
<1>2. CASE AuthenticationMissing
  BY <1>2, UnmetTyped DEF AuthenticationMissing, Rest
<1>3. CASE SecurityReadFails
  BY <1>3, UnmetTyped, ReadFailsTyped, BodyBroken DEF SecurityReadFails, Rest
<1>4. CASE SecurityBodyRead
  BY <1>0, <1>4, ContinueTyped, BodyDrained DEF SecurityBodyRead, Rest
<1>5. CASE SchemeUndeclared
  BY <1>5, UnmetTyped, BodyBroken DEF SchemeUndeclared, Rest
<1>6. CASE CallAuthenticationFunc
  <2>1. request' \in Request(operation)
    BY <1>6, BodyPutBack DEF CallAuthenticationFunc, Rest
  <2>. QED BY <1>6, <2>1 DEF CallAuthenticationFunc, Rest, Control, Places
<1>7. CASE AuthenticationAccepts
  BY <1>7 DEF AuthenticationAccepts, Rest, Control, Places
<1>8. CASE AuthenticationRejects
  BY <1>8, UnmetTyped DEF AuthenticationRejects, Rest
<1>9. CASE RequirementMet
  <2>1. request' \in Request(operation)
    BY <1>9, BodyPutBack DEF RequirementMet, Rest
  <2>. QED BY <1>0, <1>9, <2>1, ContinueTyped DEF RequirementMet, Rest
<1>. QED
  BY <1>1, <1>2, <1>3, <1>4, <1>5, <1>6, <1>7, <1>8, <1>9 DEF Security

LEMMA BodyTyped == Control /\ Rest /\ Body => Control' /\ Rest'
<1>. SUFFICES ASSUME Control, Rest, Body PROVE Control' /\ Rest'
  OBVIOUS
<1>. USE DEF input, count, call
<1>0. BodyError \/ BodyFine => Control'
  BY ReturnTyped DEF BodyError, BodyFine, Control, Parts
<1>1. CASE BodyRead
  <2>1. Drained(request) \in Request(operation) /\ Bytes(request) \in Contents \cup {Nil}
    BY <1>1, BodyDrained DEF BodyRead, Rest
  <2>2. request' \in Request(operation)
    BY <1>1, <2>1, BodyPutBack DEF BodyRead
  <2>3. captured' \in BOOLEAN
    BY <1>1 DEF BodyRead
  <2>. QED BY <1>1, <2>1, <2>2, <2>3, ContinueTyped DEF BodyRead, Rest, Places
<1>2. CASE BodyReadFails
  BY <1>0, <1>2, ReadFailsTyped, BodyBroken DEF BodyReadFails, Rest
<1>3. CASE BodyValid
  <2>1. data \in DOMAIN Filled => Filled[data] \in Contents
    BY ContentsAssumption
  <2>2. request' \in Request(operation)
    BY <1>3, <2>1, BodySet DEF BodyValid, DefaultsSet, Rest
  <2>. QED BY <1>0, <1>3, <2>2 DEF BodyValid, Rest
<1>4. CASE BodyRewriteFails
  <2>1. [request EXCEPT !.getBody = Empty] \in Request(operation)
    BY ContentsAssumption DEF Rest, Request
  <2>. QED BY <1>0, <1>4, <2>1 DEF BodyRewriteFails, Rest
<1>5. CASE BodyExcluded \/ BodyUnspecified \/ BodyMissing \/ BodyUnchecked \/ BodyInvalid
  BY <1>0, <1>5 DEF BodyExcluded, BodyUnspecified, BodyMissing, BodyUnchecked, BodyInvalid, Rest
<1>. QED BY <1>1, <1>2, <1>3, <1>4, <1>5 DEF Body

LEMMA StepTyped == TypeOK /\ [Next]_vars => TypeOK'
<1>. SUFFICES ASSUME Control, Rest, [Next]_vars PROVE Control' /\ Rest'
  BY TypeParts DEF TypeOK, Control, Rest, Places
<1>. USE DEF input, count, call
<1>0. i \in Nat \ {0} /\ i + 1 \in Nat \ {0}
  BY DEF Control
<1>1. CASE ValidateRequest
  <2>1. passes' \in 0..MaxPasses
    BY <1>1, InputsAssumption DEF ValidateRequest, Rest
  <2>2. UNCHANGED <<operation, options, request, served, replaced, faults>>
        /\ data' = Nil /\ captured' = FALSE /\ previous' = verdict /\ accepted' = {}
    BY <1>1 DEF ValidateRequest
  <2>3. Rest'
    BY <2>1, <2>2 DEF Rest, Control
  <2>. QED BY <1>1, <2>3 DEF ValidateRequest, Goto, Control, Places
<1>2. CASE ReplaceBody
  <2>1. request' \in Request(operation)
    <3>. PICK c \in Contents \ {Empty} :
           request' = IF Careful THEN [SetBody(request, c) EXCEPT !.getBody = Nil]
                                 ELSE [request EXCEPT !.body = c, !.closes = FALSE]
      BY <1>2 DEF ReplaceBody
    <3>1. SetBody(request, c) \in Request(operation)
      BY BodySet DEF Rest
    <3>2. PICK r \in Request(operation) : r = SetBody(request, c)
      BY <3>1
    <3>. QED BY <3>2 DEF Rest, Request
  <2>2. served' \in Contents /\ replaced' \in 0..MaxReplaced
    BY <1>2, InputsAssumption DEF ReplaceBody, Rest
  <2>. QED BY <1>2, <2>1, <2>2 DEF ReplaceBody, Control, Rest
<1>3. CASE Security
  BY <1>3, SecurityTyped
<1>4. CASE AuthenticationReads
  <2>1. request.body # Broken => request' \in Request(operation)
    BY <1>4, BodyDrained DEF AuthenticationReads, Rest
  <2>2. request.body = Broken => request' \in Request(operation)
    BY <1>4, ContentsAssumption DEF AuthenticationReads, Drained, Request, Rest
  <2>. QED BY <1>4, <2>1, <2>2 DEF AuthenticationReads, Control, Rest
<1>5. CASE ParamsDone \/ ParamSkipped
  BY <1>0, <1>5, ContinueTyped DEF ParamsDone, ParamSkipped, Rest, Places
<1>6. CASE ValidateParameter
  BY <1>6, ValidateParameterTyped
<1>7. CASE Body
  BY <1>7, BodyTyped
<1>8. CASE Finished \/ UNCHANGED vars
  BY <1>8 DEF Finished, vars, Control, Rest
<1>. QED
  BY <1>1, <1>2, <1>3, <1>4, <1>5, <1>6, <1>7, <1>8 DEF Next, Step, Parameters

LEMMA InitTyped == ASSUME Init PROVE TypeOK
<1>1. operation \in Operation /\ options \in Options /\ request \in Request(operation)
  BY InputsAssumption DEF Init
<1>2. served \in Contents \cup {NoBody, Broken}
  BY <1>1 DEF Init, Request
<1>3. 0 \in 0..MaxPasses /\ 0 \in 0..MaxReplaced /\ 0 \in 0..MaxFaults
  BY InputsAssumption
<1>4. {} \subseteq Nat \X Nat /\ {} \subseteq Parts
  OBVIOUS
<1>5. /\ pc = "idle" /\ i = 1 /\ j = 1 /\ data = Nil /\ captured = FALSE
      /\ errs = {} /\ accepted = {} /\ verdict = "none" /\ previous = "none"
      /\ passes = 0 /\ replaced = 0 /\ faults = 0
  BY DEF Init
<1>6. Control
  BY <1>5 DEF Control, Places
<1>7. Rest
  BY <1>1, <1>2, <1>3, <1>4, <1>5 DEF Rest
<1>. QED BY <1>6, <1>7, TypeParts

\* The variables have the values of their types, also after the program has
\* replaced the body and the application's function has read it: PutBack, the
\* defaults and the ways a part ends leave a request and a place in the code.
THEOREM TypesKept == Spec => []TypeOK
<1>1. Init => TypeOK
  BY InitTyped
<1>. QED BY <1>1, StepTyped, PTL DEF Spec

(***************************************************************************)
(* The body of a request survives any number of validations.               *)
(*                                                                         *)
(* A body that is read is gone unless it is put back, and there are two    *)
(* places to put it back from: the bytes just read, and GetBody, which     *)
(* wins.  Either may be the wrong one: the bytes are few when an           *)
(* AuthenticationFunc has read the body before, GetBody is stale when the  *)
(* program has replaced the body or an encoder has failed.  The invariant  *)
(* BodyInv says which of them can be trusted where: as long as GetBody is  *)
(* not set nobody has read the body but the code itself, and once it is    *)
(* set it returns the body that was served, or that body with defaults.    *)
(***************************************************************************)
(***************************************************************************)
(* What is asked of the program and of the document.                       *)
(***************************************************************************)
\* A program that resets GetBody when it replaces the body, and whose GetBody
\* returns the body; documents that declare the security schemes they name;
\* encoders that do not fail.
Proper ==
  /\ Careful
  /\ \A n \in Inputs :
       /\ n.request.getBody \in {Nil, n.request.body}
       /\ \A m \in DOMAIN n.operation.security :
            \A k \in DOMAIN n.operation.security[m] : n.operation.security[m][k] \in Declared
       /\ n.operation.requestBody # Nil => n.operation.requestBody.encoder # "fails"

\* The same of the operation and the options at hand, which do not change.
Declares == \A m \in DOMAIN operation.security :
              \A k \in DOMAIN operation.security[m] : operation.security[m][k] \in Declared
Encodes  == operation.requestBody # Nil => operation.requestBody.encoder # "fails"

\* The validation comes to read the body, for the security or for the content.
Authenticates == operation.security # <<>> /\ options.authentication # "none"
Judges        == ~options.excludeBody /\ operation.requestBody # Nil

(***************************************************************************)
(* The invariant.                                                          *)
(***************************************************************************)
\* What can be read from the body, and what GetBody returns.
InPlace ==
  /\ served \notin Contents => request.body = served /\ request.getBody = Nil
  /\ served \in Contents =>
       /\ request.body \in Kept(served) \cup {Empty, Broken}
       /\ request.getBody \in Kept(served) \cup {Nil}
       /\ pc # "schemes"
          /\ \/ request.getBody = Nil
             \/ operation.security = <<>>
             \/ options.authentication # "reads"
            => request.body \in Kept(served) \cup {Broken}
       /\ request.body = Broken => Authenticates \/ Judges

\* The bytes read, while the functions of the application are called.
ReadForSecurity ==
  pc \in {"schemes", "authentication"} =>
    /\ served # Broken /\ Authenticates
    /\ served \notin Contents => data = Nil
    /\ served \in Contents =>
         /\ data \in Contents
         /\ request.getBody = Nil => pc = "schemes" /\ data \in Kept(served)

\* Past the security requirements the body is whole, or will be read, or the
\* request will be refused.
AfterSecurity ==
  pc \in {"params", "body"} =>
    \/ "security" \in errs
    \/ request.body \in Kept(served)
    \/ request.body = Broken /\ Judges

\* The bytes read, when they are judged.
ReadForContent ==
  pc = "content" =>
    /\ served # Broken /\ Judges /\ request.body \in Kept(served)
    /\ \/ served \notin Contents /\ data = Nil
       \/ served \in Contents /\ data \in Kept(served)
       \/ "security" \in errs /\ options.authentication = "reads" /\ data = Empty

\* Errors that have not been returned are collected.
Collected == /\ pc # "idle" => verdict = "none"
             /\ pc # "idle" /\ errs # {} => options.multiError

Followed ==
  ReadForSecurity /\ AfterSecurity /\ ReadForContent /\ Collected /\ BodyKept

BodyInv == TypeOK /\ SInv /\ Declares /\ Encodes /\ InPlace /\ Followed

(***************************************************************************)
(* What the operators on the request do.                                   *)
(***************************************************************************)
LEMMA KeptContents ==
  ASSUME NEW c \in Contents \cup {NoBody, Broken}
  PROVE  /\ c \in Kept(c)
         /\ c \in Contents => Kept(c) \subseteq Contents
         /\ c \notin Contents => Kept(c) = {c}
BY ContentsAssumption DEF Kept

\* A body with defaults lacks none.
LEMMA KeptFilled ==
  ASSUME NEW c \in Contents, NEW d \in Kept(c), d \in DOMAIN Filled
  PROVE  Filled[d] \in Kept(c) /\ Filled[d] \in Contents
BY ContentsAssumption DEF Kept

LEMMA DrainedFields ==
  ASSUME NEW o, NEW r \in Request(o), r.body # Broken
  PROVE  /\ Drained(r) \in Request(o) /\ Drained(r).getBody = r.getBody
         /\ r.body = NoBody => Drained(r).body = NoBody /\ Bytes(r) = Nil
         /\ r.body # NoBody => /\ Drained(r).body = Empty /\ Bytes(r) = r.body
                               /\ Bytes(r) \in Contents
BY ContentsAssumption DEF Drained, Bytes, Request

LEMMA BrokenFields ==
  ASSUME NEW o, NEW r \in Request(o)
  PROVE  /\ [r EXCEPT !.body = Broken].body = Broken
         /\ [r EXCEPT !.body = Broken].getBody = r.getBody
BY DEF Request

LEMMA SetFields ==
  ASSUME NEW o, NEW r \in Request(o), NEW c \in Contents
  PROVE  SetBody(r, c).body = c /\ SetBody(r, c).getBody = c
BY DEF Request, SetBody

\* Whichever of GetBody and the bytes read is used, it is the right one.
LEMMA PutBackKeeps ==
  ASSUME NEW o, NEW r \in Request(o), NEW c \in Contents, NEW d \in Contents,
         r.getBody \in Kept(c) \cup {Nil},
         r.getBody = Nil => d \in Kept(c)
  PROVE  PutBack(r, d).body \in Kept(c) /\ PutBack(r, d).getBody \in Kept(c)
<1>1. d # Nil /\ Nil \notin Contents /\ Kept(c) \subseteq Contents
  BY ContentsAssumption, KeptContents
<1>2. CASE r.getBody = Nil
  BY <1>1, <1>2, SetFields DEF PutBack
<1>3. CASE r.getBody # Nil
  <2>1. PutBack(r, d) = [r EXCEPT !.body = r.getBody, !.closes = FALSE]
    BY <1>1, <1>3 DEF PutBack
  <2>. QED BY <1>3, <2>1 DEF Request
<1>. QED BY <1>2, <1>3

(***************************************************************************)
(* The ways a part of the validation ends.                                 *)
(***************************************************************************)
LEMMA UnmetEnds ==
  ASSUME BodyInv, pc \in {"security", "schemes", "authentication"}, Unmet,
         UNCHANGED options
  PROVE  Followed'
<1>1. verdict = "none"
  BY DEF BodyInv, Followed, Collected
<1>2. \/ pc' = "security" /\ errs' = errs /\ verdict' = verdict
      \/ pc' = "params" /\ errs' = errs \cup {"security"} /\ verdict' = verdict
         /\ options.multiError
      \/ pc' = "idle" /\ verdict' = "err"
  <2>1. CASE i < Len(operation.security)
    BY <2>1 DEF Unmet, Continue, Goto
  <2>2. CASE ~(i < Len(operation.security))
    BY <2>2 DEF Unmet, Error, Goto, Return
  <2>. QED BY <2>1, <2>2
<1>. QED
  BY <1>1, <1>2
  DEF BodyInv, Followed, ReadForSecurity, AfterSecurity, ReadForContent, Collected, BodyKept

LEMMA ReturnEnds ==
  ASSUME NEW e, Return(e), e = {} => request'.body \in Kept(served')
  PROVE  Followed'
BY DEF Return, Followed, ReadForSecurity, AfterSecurity, ReadForContent, Collected, BodyKept

LEMMA ParamsGoOn ==
  ASSUME BodyInv, AfterSecurity, pc = "params",
         \/ Error("parameter", "params", i + 1)
         \/ Continue("params", i + 1)
         \/ Continue("body", 1),
         UNCHANGED <<operation, options, served, request.body>>
  PROVE  Followed'
<1>1. verdict = "none"
  BY DEF BodyInv, Followed, Collected
<1>2. CASE Error("parameter", "params", i + 1) /\ ~options.multiError
  BY <1>2, ReturnEnds DEF Error
<1>3. CASE Error("parameter", "params", i + 1) /\ options.multiError
  <2>1. pc' = "params" /\ errs' = errs \cup {"parameter"} /\ verdict' = verdict
    BY <1>3 DEF Error, Goto
  <2>. QED
    BY <1>1, <1>3, <2>1 DEF Followed, ReadForSecurity, AfterSecurity, ReadForContent,
       Collected, BodyKept, Judges, Kept
<1>4. CASE Continue("params", i + 1) \/ Continue("body", 1)
  <2>1. pc' \in {"params", "body"} /\ errs' = errs /\ verdict' = verdict
    BY <1>4 DEF Continue, Goto
  <2>. QED
    BY <1>1, <2>1 DEF BodyInv, Followed, ReadForSecurity, AfterSecurity, ReadForContent,
       Collected, BodyKept, Judges, Kept
<1>. QED BY <1>2, <1>3, <1>4

(***************************************************************************)
(* Security.                                                               *)
(***************************************************************************)
\* The facts of the invariant, where a request is validated.
LEMMA Here ==
  ASSUME BodyInv
  PROVE  /\ operation \in Operation /\ request \in Request(operation)
         /\ served \in Contents \cup {NoBody, Broken}
         /\ served \in Kept(served)
         /\ served \in Contents => Kept(served) \subseteq Contents
         /\ served \notin Contents => Kept(served) = {served}
         /\ pc # "idle" => verdict = "none"
         /\ data \in Contents \cup {Nil}
         /\ {NoBody, Broken, Nil} \cap Contents = {} /\ Empty \in Contents
BY KeptContents, ContentsAssumption DEF BodyInv, TypeOK, Followed, Collected

LEMMA SecurityAbsentKeeps ==
  ASSUME BodyInv, SecurityAbsent PROVE InPlace' /\ Followed'
<1>. USE DEF input, call, count
<1>1. InPlace'
  BY DEF SecurityAbsent, Continue, Goto, BodyInv, InPlace, Kept, Authenticates, Judges
<1>2. request.body \in Kept(served) \/ (request.body = Broken /\ Judges)
  BY Here DEF SecurityAbsent, BodyInv, InPlace, Authenticates
<1>3. pc' = "params" /\ errs' = errs /\ verdict' = "none" /\ pc # "idle"
      /\ UNCHANGED <<request, served, operation, options>>
  BY Here DEF SecurityAbsent, Continue, Goto
<1>. QED
  BY <1>1, <1>2, <1>3 DEF BodyInv, Followed, ReadForSecurity, AfterSecurity, ReadForContent,
     Collected, BodyKept, Judges, Kept

LEMMA SecurityReadFailsKeeps ==
  ASSUME BodyInv, SecurityReadFails PROVE InPlace' /\ Followed'
<1>. USE DEF input, call, count
<1>1. Followed'
  BY UnmetEnds DEF SecurityReadFails
<1>2. request'.body = Broken /\ request'.getBody = request.getBody
  BY Here, BrokenFields DEF SecurityReadFails
<1>3. request.body \in Contents \cup {Broken} /\ pc = "security" /\ Authenticates
  BY DEF SecurityReadFails, ReadFails, Authenticates
<1>4. served \notin Contents => served = Broken
  BY <1>3, Here DEF BodyInv, InPlace
<1>. QED
  BY <1>1, <1>2, <1>3, <1>4, Here
  DEF SecurityReadFails, BodyInv, InPlace, Authenticates, Judges, Kept

LEMMA SecurityBodyReadKeeps ==
  ASSUME BodyInv, SecurityBodyRead PROVE InPlace' /\ Followed'
<1>. USE DEF input, call, count
<1>1. /\ pc = "security" /\ pc' = "schemes" /\ errs' = errs /\ verdict' = "none"
      /\ UNCHANGED <<operation, options, served>>
      /\ data' = Bytes(request) /\ request' = Drained(request) /\ request.body # Broken
      /\ Authenticates
  BY Here DEF SecurityBodyRead, Continue, Goto, Authenticates
<1>2. /\ request'.getBody = request.getBody
      /\ request.body = NoBody => request'.body = NoBody /\ data' = Nil
      /\ request.body # NoBody => request'.body = Empty /\ data' = request.body
                                  /\ data' \in Contents
  BY <1>1, Here, DrainedFields
<1>3. CASE served \in Contents
  <2>1. request.body \in Contents /\ request.body # NoBody
    BY <1>1, <1>3, Here DEF BodyInv, InPlace
  <2>2. request.getBody = Nil => request.body \in Kept(served)
    BY <1>1, <1>3, Here DEF BodyInv, InPlace
  <2>3. InPlace'
    BY <1>1, <1>2, <1>3, <2>1, Here DEF BodyInv, InPlace, Kept
  <2>4. ReadForSecurity'
    BY <1>1, <1>2, <1>3, <2>1, <2>2, Here DEF ReadForSecurity, Authenticates, Kept
  <2>. QED
    BY <1>1, <2>3, <2>4 DEF BodyInv, Followed, AfterSecurity, ReadForContent, Collected, BodyKept
<1>4. CASE served \notin Contents
  <2>1. request.body = NoBody /\ served = NoBody /\ request.getBody = Nil
    BY <1>1, <1>2, <1>4, Here DEF BodyInv, InPlace
  <2>2. served # Broken
    BY <1>1, <1>4, <2>1 DEF BodyInv, InPlace
  <2>. QED
    BY <1>1, <1>2, <1>4, <2>1, <2>2 DEF BodyInv, InPlace, Followed, ReadForSecurity,
       AfterSecurity, ReadForContent, Collected, BodyKept, Authenticates
<1>. QED BY <1>3, <1>4

LEMMA SchemesDeclared == ASSUME BodyInv PROVE ~SchemeUndeclared
<1>. SUFFICES ASSUME SchemeUndeclared PROVE FALSE
  OBVIOUS
<1>1. i \in DOMAIN operation.security /\ j \in Nat \ {0}
  BY DEF SchemeUndeclared, BodyInv, SInv, InLoop, Counters
<1>2. operation.security[i] \in Seq(Schemes)
  BY <1>1, Here DEF Operation
<1>3. j \in DOMAIN operation.security[i]
  BY <1>1, <1>2 DEF SchemeUndeclared, Requirement
<1>. QED BY <1>1, <1>3 DEF SchemeUndeclared, Requirement, BodyInv, Declares

\* The body is put back, for the application's function or for what follows.
LEMMA PutBackForSecurity ==
  ASSUME BodyInv, pc = "schemes", request' = PutBack(request, data),
         UNCHANGED <<operation, options, served>>
  PROVE  /\ InPlace' /\ request'.body \in Kept(served')
         /\ served \in Contents => request'.getBody \in Kept(served)
<1>1. served # Broken /\ Authenticates
  BY DEF BodyInv, Followed, ReadForSecurity
<1>2. CASE served \in Contents
  <2>1. data \in Contents /\ (request.getBody = Nil => data \in Kept(served))
        /\ request.getBody \in Kept(served) \cup {Nil}
    BY <1>2 DEF BodyInv, Followed, ReadForSecurity, InPlace
  <2>2. request'.body \in Kept(served) /\ request'.getBody \in Kept(served)
    BY <1>2, <2>1, Here, PutBackKeeps
  <2>. QED BY <1>1, <1>2, <2>2, Here DEF InPlace, Kept
<1>3. CASE served \notin Contents
  <2>1. request' = request
    BY <1>3 DEF BodyInv, Followed, ReadForSecurity, PutBack
  <2>. QED BY <1>3, <2>1, Here DEF BodyInv, InPlace, Kept
<1>. QED BY <1>2, <1>3

LEMMA CallAuthenticationFuncKeeps ==
  ASSUME BodyInv, CallAuthenticationFunc
  PROVE  InPlace' /\ Followed' /\ request'.body \in Kept(served)
<1>. USE DEF input, call, count
<1>1. /\ pc = "schemes" /\ pc' = "authentication" /\ request' = PutBack(request, data)
      /\ verdict' = "none"
      /\ UNCHANGED <<operation, options, served, errs, data>>
  BY Here DEF CallAuthenticationFunc
<1>2. InPlace' /\ request'.body \in Kept(served)
      /\ (served \in Contents => request'.getBody \in Kept(served))
  BY <1>1, PutBackForSecurity DEF Kept
<1>3. ReadForSecurity'
  BY <1>1, <1>2, Here DEF BodyInv, Followed, ReadForSecurity, Authenticates, Kept
<1>. QED
  BY <1>1, <1>2, <1>3
  DEF BodyInv, Followed, AfterSecurity, ReadForContent, Collected, BodyKept

LEMMA RequirementMetKeeps ==
  ASSUME BodyInv, RequirementMet PROVE InPlace' /\ Followed'
<1>. USE DEF input, call, count
<1>1. /\ pc = "schemes" /\ pc' = "params" /\ request' = PutBack(request, data)
      /\ verdict' = "none"
      /\ UNCHANGED <<operation, options, served, errs>>
  BY Here DEF RequirementMet, Continue, Goto
<1>2. InPlace' /\ request'.body \in Kept(served')
  BY <1>1, PutBackForSecurity
<1>. QED
  BY <1>1, <1>2
  DEF BodyInv, Followed, ReadForSecurity, AfterSecurity, ReadForContent, Collected, BodyKept

\* Only a body that can be put back from GetBody is read by the application.
LEMMA AuthenticationReadsKeeps ==
  ASSUME BodyInv, AuthenticationReads PROVE InPlace' /\ Followed'
<1>. USE DEF input, call, count
<1>1. /\ pc = "authentication" /\ request' = Drained(request) /\ request.body \notin {NoBody, Empty}
      /\ options.authentication = "reads"
      /\ verdict' = "none"
      /\ UNCHANGED <<pc, operation, options, served, errs, data>>
  BY Here DEF AuthenticationReads
<1>2. served \in Contents
  BY <1>1, Here DEF BodyInv, InPlace, Followed, ReadForSecurity
<1>3. request.getBody # Nil /\ Authenticates /\ operation.security # <<>>
  BY <1>1, <1>2 DEF BodyInv, Followed, ReadForSecurity, Authenticates
<1>4. request'.body = Empty /\ request'.getBody = request.getBody
  BY <1>1, Here DEF Drained, Request
<1>. QED
  BY <1>1, <1>2, <1>3, <1>4, Here
  DEF BodyInv, InPlace, Followed, ReadForSecurity, AfterSecurity, ReadForContent, Collected,
      BodyKept, Authenticates, Kept

LEMMA SecurityKeeps == ASSUME BodyInv, Security PROVE InPlace' /\ Followed'
<1>. USE DEF input, call, count
<1>1. CASE AuthenticationMissing \/ AuthenticationRejects
  <2>1. Followed'
    BY <1>1, UnmetEnds DEF AuthenticationMissing, AuthenticationRejects
  <2>2. UNCHANGED <<operation, options, request, served>> /\ pc # "schemes"
    BY <1>1 DEF AuthenticationMissing, AuthenticationRejects
  <2>. QED BY <2>1, <2>2 DEF BodyInv, InPlace, Kept, Authenticates, Judges
<1>2. CASE AuthenticationAccepts
  <2>1. /\ pc' = "schemes" /\ verdict' = "none" /\ pc = "authentication"
        /\ UNCHANGED <<operation, options, request, served, data, errs>>
    BY <1>2, Here DEF AuthenticationAccepts
  <2>. QED
    BY <2>1 DEF BodyInv, InPlace, Followed, ReadForSecurity, AfterSecurity, ReadForContent,
       Collected, BodyKept, Kept, Authenticates, Judges
<1>. QED
  BY <1>1, <1>2, SecurityAbsentKeeps, SecurityReadFailsKeeps, SecurityBodyReadKeeps,
     SchemesDeclared, CallAuthenticationFuncKeeps, RequirementMetKeeps
  DEF Security

(***************************************************************************)
(* The body, and the step.                                                 *)
(***************************************************************************)
LEMMA BodyReadFailsKeeps ==
  ASSUME BodyInv, BodyReadFails PROVE InPlace' /\ Followed'
<1>. USE DEF input, call, count
<1>1. request'.body = Broken /\ request'.getBody = request.getBody
  BY Here, BrokenFields DEF BodyReadFails
<1>2. request.body \in Contents \cup {Broken} /\ Judges /\ pc' = "idle"
      /\ UNCHANGED <<operation, options, served>>
  BY DEF BodyReadFails, ReadFails, Judges, BodyError, Return
<1>3. served \notin Contents => served = Broken
  BY <1>2, Here DEF BodyInv, InPlace
<1>4. Followed'
  BY ReturnEnds DEF BodyReadFails, BodyError
<1>. QED
  BY <1>1, <1>2, <1>3, <1>4, Here DEF BodyInv, InPlace, Authenticates, Judges, Kept

LEMMA BodyReadKeeps ==
  ASSUME BodyInv, BodyRead PROVE InPlace' /\ Followed'
<1>. USE DEF input, call, count
<1>. DEFINE r == Drained(request)
            d == Bytes(request)
<1>1. /\ pc = "body" /\ pc' = "content" /\ errs' = errs /\ verdict' = "none"
      /\ UNCHANGED <<operation, options, served>>
      /\ data' = d /\ request' = PutBack(r, d) /\ request.body # Broken /\ Judges
  BY Here DEF BodyRead, Continue, Goto, Judges
<1>2. /\ r \in Request(operation) /\ r.getBody = request.getBody
      /\ request.body = NoBody => d = Nil /\ r.body = NoBody
      /\ request.body # NoBody => d = request.body /\ d \in Contents
  BY <1>1, Here, DrainedFields
<1>3. CASE served \in Contents
  <2>1. request.body \in Kept(served) \cup {Empty}
        /\ request.getBody \in Kept(served) \cup {Nil}
        /\ (request.getBody = Nil => request.body \in Kept(served))
        /\ (options.authentication # "reads" => request.body \in Kept(served))
    BY <1>1, <1>3, Here DEF BodyInv, InPlace
  <2>2. d = request.body /\ d \in Contents
    BY <1>2, <1>3, <2>1, Here
  <2>3. request'.body \in Kept(served) /\ request'.getBody \in Kept(served)
    BY <1>1, <1>2, <1>3, <2>1, <2>2, PutBackKeeps
  <2>4. d \in Kept(served)
        \/ ("security" \in errs /\ options.authentication = "reads" /\ d = Empty)
    BY <1>1, <2>1, <2>2 DEF BodyInv, Followed, AfterSecurity
  <2>5. InPlace'
    BY <1>1, <1>3, <2>3, Here DEF InPlace, Kept
  <2>6. ReadForContent'
    BY <1>1, <1>3, <2>3, <2>4, Here DEF ReadForContent, Judges, Kept
  <2>. QED
    BY <1>1, <2>5, <2>6
    DEF BodyInv, Followed, ReadForSecurity, AfterSecurity, Collected, BodyKept
<1>4. CASE served \notin Contents
  <2>1. request.body = served /\ request.getBody = Nil /\ served = NoBody
    BY <1>1, <1>4, Here DEF BodyInv, InPlace
  <2>2. request'.body = served /\ request'.getBody = Nil /\ data' = Nil
    BY <1>1, <1>2, <2>1 DEF PutBack
  <2>. QED
    BY <1>1, <1>4, <2>2, Here DEF BodyInv, InPlace, Followed, ReadForSecurity,
       AfterSecurity, ReadForContent, Collected, BodyKept, Judges, Kept
<1>. QED BY <1>3, <1>4

LEMMA BodyValidKeeps ==
  ASSUME BodyInv, BodyValid PROVE InPlace' /\ Followed'
<1>. USE DEF input, call, count
<1>1. /\ pc = "content" /\ data \in Conforming /\ data \in Contents /\ data # Empty
      /\ UNCHANGED <<operation, options, served>>
      /\ Return(errs) /\ pc' = "idle"
  BY ContentsAssumption DEF BodyValid, BodyFine, Return
<1>2. request.body \in Kept(served) /\ served \in Contents /\ data \in Kept(served)
      /\ Judges
  BY <1>1, Here DEF BodyInv, Followed, ReadForContent
<1>3. CASE DefaultsSet
  <2>1. request' = SetBody(request, Filled[data]) /\ data \in DOMAIN Filled
    BY <1>3 DEF BodyValid, DefaultsSet
  <2>2. Filled[data] \in Kept(served) /\ Filled[data] \in Contents
    BY <1>2, <2>1, KeptFilled
  <2>3. request'.body = Filled[data] /\ request'.getBody = Filled[data]
    BY <2>1, <2>2, Here, SetFields
  <2>. QED
    BY <1>1, <1>2, <2>2, <2>3, ReturnEnds, Here DEF InPlace, Kept
<1>4. CASE ~DefaultsSet
  <2>1. request' = request
    BY <1>4 DEF BodyValid
  <2>. QED
    BY <1>1, <1>2, <2>1, ReturnEnds, Here DEF BodyInv, InPlace, Kept, Authenticates, Judges
<1>. QED BY <1>3, <1>4

LEMMA BodyKeeps == ASSUME BodyInv, Body PROVE InPlace' /\ Followed'
<1>. USE DEF input, call, count
<1>1. ~BodyRewriteFails
  BY DEF BodyRewriteFails, BodyInv, Encodes, Followed, ReadForContent, Judges
<1>2. CASE BodyExcluded \/ BodyUnspecified \/ BodyMissing \/ BodyUnchecked \/ BodyInvalid
  <2>1. /\ pc' = "idle" /\ pc \in {"body", "content"}
        /\ UNCHANGED <<operation, options, request, served>>
        /\ Return(errs) \/ Return(errs \cup {"body"})
    BY <1>2 DEF BodyExcluded, BodyUnspecified, BodyMissing, BodyUnchecked, BodyInvalid,
       BodyError, BodyFine, Return
  <2>2. Return(errs) /\ errs = {} => request.body \in Kept(served)
    <3>1. pc = "body" => ~Judges
      BY <1>2 DEF BodyExcluded, BodyUnspecified, BodyMissing, BodyUnchecked, BodyInvalid, Judges
    <3>. QED BY <2>1, <3>1 DEF BodyInv, Followed, AfterSecurity, ReadForContent
  <2>3. Followed'
    BY <2>1, <2>2, ReturnEnds DEF Kept
  <2>. QED BY <2>1, <2>3 DEF BodyInv, InPlace, Kept, Authenticates, Judges
<1>. QED
  BY <1>1, <1>2, BodyReadFailsKeeps, BodyReadKeeps, BodyValidKeeps DEF Body

LEMMA ReplaceBodyKeeps ==
  ASSUME BodyInv, ReplaceBody, Careful PROVE InPlace' /\ Followed'
<1>. USE DEF input, call, count
<1>1. PICK c \in Contents \ {Empty} :
        request' = [SetBody(request, c) EXCEPT !.getBody = Nil] /\ served' = c
  BY DEF ReplaceBody
<1>2. SetBody(request, c) \in Request(operation) /\ SetBody(request, c).body = c
  BY Here, BodySet, SetFields
<1>3. request'.body = c /\ request'.getBody = Nil
  BY <1>1, <1>2 DEF Request
<1>4. c \in Kept(c) /\ c # Broken
  BY KeptContents, ContentsAssumption
<1>5. pc' = "idle" /\ verdict' = "none"
  BY DEF ReplaceBody
<1>. QED
  BY <1>1, <1>3, <1>4, <1>5
  DEF InPlace, Followed, ReadForSecurity, AfterSecurity, ReadForContent, Collected, BodyKept,
      Kept

\* Neither the operation nor the options change.
LEMMA OptionsStay == ASSUME [Next]_vars PROVE UNCHANGED <<operation, options>>
BY DEF input, call, count, Next, Step, Security, Parameters, Body, vars, ValidateRequest, ReplaceBody, Finished,
   AuthenticationReads, SecurityAbsent, AuthenticationMissing, SecurityReadFails,
   SecurityBodyRead, SchemeUndeclared, CallAuthenticationFunc, AuthenticationAccepts,
   AuthenticationRejects, RequirementMet, ParamsDone, ParamSkipped, ValidateParameter,
   BodyExcluded, BodyUnspecified, BodyReadFails, BodyRead, BodyMissing, BodyUnchecked,
   BodyInvalid, BodyRewriteFails, BodyValid

LEMMA BodyStep == ASSUME Careful, BodyInv, [Next]_vars PROVE BodyInv'
<1>. USE DEF input, call, count
<1>1. TypeOK' /\ SInv'
  BY StepTyped, StepPreserves DEF BodyInv
<1>2. UNCHANGED <<operation, options>>
  BY OptionsStay
<1>3. Declares' /\ Encodes'
  BY <1>2 DEF BodyInv, Declares, Encodes
<1>4. InPlace' /\ Followed'
  <2>1. CASE ValidateRequest
    <3>1. pc' = "security" /\ verdict' = "none" /\ errs' = {} /\ pc = "idle"
          /\ UNCHANGED <<request, served>>
      BY <2>1 DEF ValidateRequest, Goto
    <3>. QED
      BY <1>2, <3>1 DEF BodyInv, InPlace, Followed, ReadForSecurity, AfterSecurity,
         ReadForContent, Collected, BodyKept, Authenticates, Judges, Kept
  <2>2. CASE ReplaceBody
    BY <2>2, ReplaceBodyKeeps
  <2>3. CASE Security \/ AuthenticationReads
    BY <2>3, SecurityKeeps, AuthenticationReadsKeeps
  <2>4. CASE Parameters
    <3>1. pc = "params" /\ (pc' \in {"params", "body", "idle"}) /\ served' = served
      BY <2>4 DEF Parameters, ParamsDone, ParamSkipped, ValidateParameter, Continue, Error, Goto,
         Return
    <3>2. request'.body = request.body /\ request'.getBody = request.getBody
      BY <2>4, Here DEF Parameters, ParamsDone, ParamSkipped, ValidateParameter, Request
    <3>3. \/ Error("parameter", "params", i + 1)
          \/ Continue("params", i + 1)
          \/ Continue("body", 1)
      BY <2>4 DEF Parameters, ParamsDone, ParamSkipped, ValidateParameter
    <3>4. Followed'
      BY <1>2, <3>1, <3>2, <3>3, ParamsGoOn DEF BodyInv, Followed
    <3>. QED
      BY <1>2, <3>1, <3>2, <3>4 DEF BodyInv, InPlace, Authenticates, Judges, Kept
  <2>5. CASE Body
    BY <2>5, BodyKeeps
  <2>6. CASE Finished \/ UNCHANGED vars
    BY <2>6 DEF Finished, vars, BodyInv, InPlace, Followed, ReadForSecurity, AfterSecurity,
       ReadForContent, Collected, BodyKept, Authenticates, Judges, Kept
  <2>. QED BY <2>1, <2>2, <2>3, <2>4, <2>5, <2>6 DEF Next, Step
<1>. QED BY <1>1, <1>3, <1>4 DEF BodyInv

LEMMA BodyStarts == ASSUME Proper, Init PROVE BodyInv
<1>1. PICK n \in Inputs :
        operation = n.operation /\ options = n.options /\ request = n.request
  BY DEF Init
<1>2. TypeOK /\ SInv
  BY InitTyped, InitEstablishes
<1>3. Declares /\ Encodes /\ request.getBody \in {Nil, request.body}
  BY <1>1 DEF Proper, Declares, Encodes
<1>4. pc = "idle" /\ verdict = "none" /\ served = request.body /\ errs = {}
  BY DEF Init
<1>5. served \in Contents \cup {NoBody, Broken} /\ request.getBody \in Contents \cup {Nil}
  BY <1>2 DEF TypeOK, Request
<1>. QED
  BY <1>2, <1>3, <1>4, <1>5, KeptContents, ContentsAssumption
  DEF BodyInv, InPlace, Followed, ReadForSecurity, AfterSecurity, ReadForContent, Collected,
      BodyKept

\* Whatever the document, the request, the answers and reads of
\* AuthenticationFunc, the failing reads and the number of validations: a
\* request that ValidateRequest accepts still has the body it came with, or that
\* body with defaults, to be read from its start.
THEOREM BodiesKept == Proper => (Spec => []BodyKept)
<1>. SUFFICES ASSUME Proper PROVE Spec => []BodyKept
  OBVIOUS
<1>1. Init => BodyInv
  BY BodyStarts
<1>2. BodyInv /\ [Next]_vars => BodyInv'
  BY BodyStep DEF Proper
<1>3. BodyInv => BodyKept
  BY DEF BodyInv, Followed
<1>. QED BY <1>1, <1>2, <1>3, PTL DEF Spec

\* Under the same conditions every AuthenticationFunc is called with the whole
\* body still to be read, whatever those called before it have read.
THEOREM BodiesSeen == Proper => (Spec => AuthSeesBody)
<1>. SUFFICES ASSUME Proper PROVE Spec => AuthSeesBody
  OBVIOUS
<1>1. Init => BodyInv
  BY BodyStarts
<1>2. BodyInv /\ [Next]_vars => BodyInv'
  BY BodyStep DEF Proper
<1>3. BodyInv /\ [Next]_vars =>
        [pc # "authentication" /\ pc' = "authentication"
           => request'.body \in Kept(served)]_vars
  <2>. SUFFICES ASSUME BodyInv, Next, pc # "authentication", pc' = "authentication"
                PROVE  request'.body \in Kept(served)
    OBVIOUS
  <2>1. CallAuthenticationFunc
    BY DEF Next, Step, Security, Parameters, Body, ValidateRequest, ReplaceBody, Finished, vars,
       AuthenticationReads, SecurityAbsent, AuthenticationMissing, SecurityReadFails,
       SecurityBodyRead, SchemeUndeclared, AuthenticationAccepts,
       AuthenticationRejects, RequirementMet, ParamsDone, ParamSkipped, ValidateParameter,
       BodyExcluded, BodyUnspecified, BodyReadFails, BodyRead, BodyMissing, BodyUnchecked,
       BodyInvalid, BodyRewriteFails, BodyValid, Unmet, Error, Continue, Goto, Return,
       BodyError, BodyFine
  <2>. QED BY <2>1, CallAuthenticationFuncKeeps
<1>. QED BY <1>1, <1>2, <1>3, PTL DEF Spec, AuthSeesBody

(***************************************************************************)
(* The verdict on the body.                                                *)
(***************************************************************************)
\* Where errors are collected, a function of the application that rejects the
\* request has left its body alone: what is judged is what was sent.
Quiet == \A n \in Inputs : n.options.multiError => n.options.authentication # "reads"

JudgeInv ==
  /\ BodyInv /\ BodyJudged
  /\ options.multiError => options.authentication # "reads"
  /\ pc # "idle" => "body" \notin errs

\* Defaults change nothing that the document judges by.
LEMMA JudgedAlike ==
  ASSUME NEW c \in Contents, NEW d \in Kept(c)
  PROVE  d # Nil /\ (d = Empty <=> c = Empty) /\ (d \in Conforming <=> c \in Conforming)
BY ContentsAssumption DEF Kept

\* When the content is judged, the bytes read are those of the body served.
LEMMA JudgedAsServed ==
  ASSUME JudgeInv, pc = "content"
  PROVE  /\ data \in {Nil, Empty} <=> served \in {NoBody, Empty}
         /\ data \in Conforming <=> served \in Conforming
<1>1. ~("security" \in errs /\ options.authentication = "reads")
  BY DEF JudgeInv, BodyInv, Followed, Collected
<1>2. CASE served \in Contents
  <2>1. data \in Kept(served)
    BY <1>1, <1>2 DEF JudgeInv, BodyInv, Followed, ReadForContent
  <2>. QED BY <1>2, <2>1, JudgedAlike, ContentsAssumption
<1>3. CASE served \notin Contents
  <2>1. data = Nil /\ served = NoBody
    BY <1>1, <1>3, Here DEF JudgeInv, BodyInv, InPlace, Followed, ReadForContent
  <2>. QED BY <2>1, ContentsAssumption
<1>. QED BY <1>2, <1>3

LEMMA NoneYet ==
  ASSUME JudgeInv, [Next]_vars PROVE (pc # "idle" => "body" \notin errs)'
<1>. USE DEF JudgeInv
<1>1. CASE Body
  BY <1>1 DEF Body, BodyExcluded, BodyUnspecified, BodyReadFails, BodyRead, BodyMissing,
     BodyUnchecked, BodyInvalid, BodyRewriteFails, BodyValid, BodyError, BodyFine, Return,
     Continue, Goto
<1>2. CASE Parameters
  BY <1>2 DEF Parameters, ParamsDone, ParamSkipped, ValidateParameter, Error, Continue, Goto,
     Return
<1>3. CASE Security
  BY <1>3 DEF Security, SecurityAbsent, AuthenticationMissing, SecurityReadFails,
     SecurityBodyRead, SchemeUndeclared, CallAuthenticationFunc, AuthenticationAccepts,
     AuthenticationRejects, RequirementMet, Unmet, Error, Continue, Goto, Return
<1>4. CASE ValidateRequest \/ ReplaceBody \/ AuthenticationReads \/ Finished \/ UNCHANGED vars
  BY <1>4 DEF ValidateRequest, ReplaceBody, AuthenticationReads, Finished, vars, Goto
<1>. QED BY <1>1, <1>2, <1>3, <1>4 DEF Next, Step

\* Before the body is judged a call ends with an error of another part only.
LEMMA EarlyReturn ==
  ASSUME JudgeInv, Security \/ Parameters, verdict' # "none"
  PROVE  ~options.multiError /\ ~(errs' \subseteq {"body"})
<1>0. verdict = "none"
  BY Here DEF JudgeInv, Security, Parameters, SecurityAbsent, AuthenticationMissing,
     SecurityReadFails, SecurityBodyRead, SchemeUndeclared, CallAuthenticationFunc,
     AuthenticationAccepts, AuthenticationRejects, RequirementMet, ParamsDone, ParamSkipped,
     ValidateParameter
<1>1. \/ Unmet \/ Error("parameter", "params", i + 1)
      \/ UNCHANGED verdict
  BY DEF Security, Parameters, SecurityAbsent, AuthenticationMissing, SecurityReadFails,
     SecurityBodyRead, SchemeUndeclared, CallAuthenticationFunc, AuthenticationAccepts,
     AuthenticationRejects, RequirementMet, ParamsDone, ParamSkipped, ValidateParameter,
     Continue
<1>2. CASE Unmet
  BY <1>0, <1>2 DEF Unmet, Continue, Error, Goto, Return
<1>3. CASE Error("parameter", "params", i + 1)
  BY <1>0, <1>3 DEF Error, Goto, Return
<1>. QED BY <1>0, <1>1, <1>2, <1>3

LEMMA ContentJudged ==
  ASSUME JudgeInv, BodyMissing \/ BodyUnchecked \/ BodyInvalid \/ BodyValid,
         ~options.excludeBody, operation.requestBody # Nil
  PROVE  ("body" \in errs' <=> Refused(served))
<1>. DEFINE spec == operation.requestBody
<1>1. pc = "content" /\ "body" \notin errs /\ spec.content \in {"none", "other", "any", "schema"}
      /\ Conforming \subseteq Contents \ {Empty}
  BY Here, ContentsAssumption
  DEF JudgeInv, BodyMissing, BodyUnchecked, BodyInvalid, BodyValid, Operation, BodySpec
<1>2. /\ data \in {Nil, Empty} <=> served \in {NoBody, Empty}
      /\ data \in Conforming <=> served \in Conforming
  BY <1>1, JudgedAsServed
<1>3. CASE BodyMissing
  BY <1>1, <1>2, <1>3 DEF BodyMissing, BodyError, BodyFine, Return, Refused
<1>4. CASE BodyUnchecked
  BY <1>1, <1>2, <1>4 DEF BodyUnchecked, BodyFine, Return, Refused
<1>5. CASE BodyInvalid
  BY <1>1, <1>2, <1>5 DEF BodyInvalid, BodyError, Return, Refused
<1>6. CASE BodyValid
  <2>1. data \notin {Nil, Empty}
    BY <1>1, <1>6, Here DEF JudgeInv, BodyValid
  <2>. QED BY <1>1, <1>2, <1>6, <2>1 DEF BodyValid, BodyFine, Return, Refused
<1>. QED BY <1>3, <1>4, <1>5, <1>6

LEMMA JudgeStep == ASSUME Careful, JudgeInv, [Next]_vars PROVE JudgeInv'
<1>. USE DEF input, call, count
<1>1. BodyInv'
  BY BodyStep DEF JudgeInv
<1>2. UNCHANGED <<operation, options>>
  BY OptionsStay
<1>3. BodyJudged'
  <2>1. CASE Security \/ Parameters
    BY <1>2, <2>1, EarlyReturn DEF BodyJudged
  <2>2. CASE BodyMissing \/ BodyUnchecked \/ BodyInvalid \/ BodyValid
    <3>1. served' = served
      BY <2>2 DEF BodyMissing, BodyUnchecked, BodyInvalid, BodyValid
    <3>. QED BY <1>2, <2>2, <3>1, ContentJudged DEF BodyJudged, Refused
  <2>3. CASE BodyExcluded \/ BodyUnspecified \/ BodyReadFails
    <3>1. \/ options.excludeBody \/ operation.requestBody = Nil
          \/ request'.body = Broken
      BY <2>3, Here, BrokenFields
      DEF JudgeInv, BodyExcluded, BodyUnspecified, BodyReadFails
    <3>. QED BY <1>2, <3>1 DEF BodyJudged
  <2>4. CASE BodyRead \/ AuthenticationReads
    <3>1. verdict' = "none"
      BY <2>4, Here DEF JudgeInv, BodyRead, AuthenticationReads, Continue
    <3>. QED BY <3>1 DEF BodyJudged
  <2>5. CASE BodyRewriteFails
    BY <2>5 DEF BodyRewriteFails, JudgeInv, BodyInv, Encodes, Followed, ReadForContent, Judges
  <2>6. CASE ValidateRequest \/ ReplaceBody
    BY <2>6 DEF ValidateRequest, ReplaceBody, BodyJudged
  <2>7. CASE Finished \/ UNCHANGED vars
    BY <2>7 DEF Finished, vars, JudgeInv, BodyJudged, Refused
  <2>. QED
    BY <2>1, <2>2, <2>3, <2>4, <2>5, <2>6, <2>7 DEF Next, Step, Body
<1>4. (pc # "idle" => "body" \notin errs)'
  BY NoneYet
<1>. QED BY <1>1, <1>2, <1>3, <1>4 DEF JudgeInv

LEMMA JudgeStarts == ASSUME Proper, Quiet, Init PROVE JudgeInv
BY BodyStarts DEF Init, Quiet, JudgeInv, BodyJudged

\* The error of the body is reported exactly if the document refuses the body
\* that the request came with, however often it was read, put back, validated
\* and filled with defaults before.
THEOREM BodiesJudged == Proper /\ Quiet => (Spec => []BodyJudged)
<1>. SUFFICES ASSUME Proper, Quiet PROVE Spec => []BodyJudged
  OBVIOUS
<1>1. Init => JudgeInv
  BY JudgeStarts
<1>2. JudgeInv /\ [Next]_vars => JudgeInv'
  BY JudgeStep DEF Proper
<1>3. JudgeInv => BodyJudged
  BY DEF JudgeInv
<1>. QED BY <1>1, <1>2, <1>3, PTL DEF Spec

(***************************************************************************)
(* What a validation writes into a request is itself valid.                *)
(*                                                                         *)
(* ValidateRequest writes defaults into query, headers and cookies while   *)
(* it goes through the parameters, and a later parameter of the same place *)
(* and name, or the next validation, reads what was written.  DefaultsReach*)
(* rests on what the first value of a parameter may be, AcceptedAgain on   *)
(* the fact that writing a default never makes a fine parameter wrong, and *)
(* on the invariant of the body.                                           *)
(***************************************************************************)
Sent(m) == request.sent[ParamKey(Params[m])]

(***************************************************************************)
(* The defaults are read.                                                  *)
(***************************************************************************)
\* Requests that do not send defaults after other values, and no header or
\* cookie that begins with an empty value.
Leads(k, s) ==
  /\ \A m \in DOMAIN s : s[m] = "default" => s[1] = "default"
  /\ k.in \in {"header", "cookie"} /\ s # <<>> => s[1] # "empty"
Plain == \A n \in Inputs : \A k \in ParamKeys(n.operation) : Leads(k, n.request.sent[k])

\* The parameter m has had its default written, if it needed one.
Given(m) ==
  ~Skipped(m) /\ ReadsBack(Params[m]) /\ options.setDefaults
    => Decoded(Params[m], Sent(m)) \in {"good", "default"}

DefaultsInv ==
  /\ TypeOK
  /\ \A k \in ParamKeys(operation) : Leads(k, request.sent[k])
  /\ pc # "idle" => verdict = "none"
  /\ (pc \in {"params", "body", "content"} /\ "parameter" \notin errs) \/ verdict = "ok" =>
       \A m \in DOMAIN Params : (pc = "params" => m < i) => Given(m)

(***************************************************************************)
(* A request that was accepted is accepted again.                          *)
(***************************************************************************)
\* What ValidateParameter finds wrong.
Wrong(p, s) ==
  LET value == IF Fills(p, s) THEN "default" ELSE Decoded(p, s)
  IN  \/ p.required /\ ~Found(p, s)
      \/ value = Nil /\ Found(p, s) /\ ~p.allowEmpty
      \/ value = "bad"

Fine(m) == Skipped(m) \/ ~Wrong(Params[m], Sent(m))

\* What an accepted request has shown of its body: the document accepts it, and
\* no later call changes the length that it was accepted with.
Acceptable ==
  ~options.excludeBody =>
    /\ operation.requestBody # Nil => ~Refused(served)
    /\ operation.requestBody = Nil =>
         /\ ~(options.rejectUnspecified /\ request.contentLength = "positive")
         /\ operation.security = <<>> \/ served \notin Contents \/ request.getBody # Nil

\* This call, or the one before it on the same body, has accepted the request.
Vetted == verdict = "ok" \/ (previous = "ok" /\ (pc # "idle" \/ verdict # "none"))

\* What is written into the request can be read; if not, it may be refused.
Legible == \A m \in DOMAIN Params : Rereadable(Params[m])
Doubts  == IF Legible THEN {} ELSE {"parameter"}

FineSoFar ==
  Legible /\ pc \in {"params", "body", "content"} /\ "parameter" \notin errs =>
    \A m \in DOMAIN Params : (pc = "params" => m < i) => Fine(m)

\* Where a security requirement was met, GetBody has been set.
Rewindable ==
  pc \in {"params", "body", "content"} /\ operation.security # <<>> /\ served \in Contents
    => "security" \in errs \/ request.getBody # Nil

Sound == Vetted => (Legible => \A m \in DOMAIN Params : Fine(m)) /\ Acceptable

Unopposed == previous = "ok" /\ pc # "idle" => errs \subseteq {"security"} \cup Doubts

AgainInv == JudgeInv /\ FineSoFar /\ Rewindable /\ Sound /\ Unopposed /\ AcceptedAgain

(***************************************************************************)
(* The values of a parameter.                                              *)
(***************************************************************************)
\* Most steps leave the values sent alone.
LEMMA SentStays ==
  ASSUME TypeOK, [Next]_vars, ~ValidateParameter
  PROVE  request'.sent = request.sent
<1>. USE DEF input, call, count
<1>0. request \in Request(operation)
  BY DEF TypeOK
<1>1. /\ PutBack(request, data).sent = request.sent
      /\ Drained(request).sent = request.sent
      /\ Closed(request).sent = request.sent
      /\ [request EXCEPT !.body = Broken].sent = request.sent
      /\ [request EXCEPT !.getBody = Empty].sent = request.sent
      /\ \A c : SetBody(request, c).sent = request.sent
      /\ \A c : [request EXCEPT !.body = c, !.closes = FALSE].sent = request.sent
  BY <1>0 DEF PutBack, SetBody, Drained, Closed, Request
<1>2. PutBack(Drained(request), Bytes(request)).sent = request.sent
  <2>1. Drained(request) \in Request(operation)
    BY <1>0, ContentsAssumption DEF Drained, Request
  <2>2. PICK r \in Request(operation) : r = Drained(request) /\ r.sent = request.sent
    BY <1>1, <2>1
  <2>. QED BY <2>2 DEF PutBack, SetBody, Request
<1>3. \A c : [SetBody(request, c) EXCEPT !.getBody = Nil].sent = request.sent
  BY <1>0 DEF SetBody, Request
<1>4. CASE Security
  BY <1>1, <1>4 DEF Security, SecurityAbsent, AuthenticationMissing, SecurityReadFails,
     SecurityBodyRead, SchemeUndeclared, CallAuthenticationFunc, AuthenticationAccepts,
     AuthenticationRejects, RequirementMet
<1>5. CASE Body
  BY <1>1, <1>2, <1>5 DEF Body, BodyExcluded, BodyUnspecified, BodyReadFails, BodyRead,
     BodyMissing, BodyUnchecked, BodyInvalid, BodyRewriteFails, BodyValid
<1>6. CASE ReplaceBody
  BY <1>1, <1>3, <1>6 DEF ReplaceBody
<1>7. CASE ValidateRequest \/ AuthenticationReads \/ ParamsDone \/ ParamSkipped \/ Finished
           \/ UNCHANGED vars
  BY <1>1, <1>7 DEF ValidateRequest, AuthenticationReads, ParamsDone, ParamSkipped, Finished, vars
<1>. QED BY <1>4, <1>5, <1>6, <1>7 DEF Next, Step, Parameters

\* What ValidateParameter does: it writes the default of the parameter at hand
\* where nothing was sent, and goes on or reports it.
LEMMA ParameterStep ==
  ASSUME TypeOK, ValidateParameter
  PROVE  /\ i \in DOMAIN Params /\ ~Skipped(i)
         /\ \/ request'.sent = request.sent
               /\ ~Fills(Params[i], Sent(i))
            \/ request'.sent = [request.sent EXCEPT
                                  ![ParamKey(Params[i])] = WithDefault(Params[i], Sent(i))]
               /\ Fills(Params[i], Sent(i))
         /\ IF Wrong(Params[i], Sent(i)) THEN Error("parameter", "params", i + 1)
                                         ELSE Continue("params", i + 1)
         /\ request'.body = request.body /\ request'.getBody = request.getBody
         /\ request'.contentLength = request.contentLength
         /\ UNCHANGED <<operation, options, served, previous>>
<1>1. i \in DOMAIN Params
  <2>1. Params \in Seq(Param) /\ i \in Nat \ {0}
    BY DEF TypeOK, Operation, Params
  <2>. QED BY <2>1 DEF ValidateParameter
<1>2. request \in Request(operation)
  BY DEF TypeOK
<1>. QED
  BY <1>1, <1>2 DEF ValidateParameter, Sent, Wrong, Request, input, call

\* Parameters of one place and name share their values.
LEMMA SentAfter ==
  ASSUME TypeOK, NEW p, NEW m \in DOMAIN Params, NEW v,
         request'.sent = [request.sent EXCEPT ![ParamKey(p)] = v],
         UNCHANGED <<operation, options>>
  PROVE  /\ Params' = Params /\ (Skipped(m)' <=> Skipped(m))
         /\ ParamKey(Params[m]) = ParamKey(p) => Sent(m)' = v /\ Params[m].in = p.in
         /\ ParamKey(Params[m]) # ParamKey(p) => Sent(m)' = Sent(m)
<1>1. ParamKey(Params[m]) \in ParamKeys(operation)
  BY ParamsTyped DEF TypeOK
<1>2. ParamKey(Params[m]) \in DOMAIN request.sent
  BY <1>1 DEF TypeOK, Request
<1>3. Params' = Params /\ (Skipped(m)' <=> Skipped(m))
  BY DEF Params, Skipped, Overridden
<1>4. ParamKey(Params[m]) = ParamKey(p) => Params[m].in = p.in
  BY DEF ParamKey
<1>. QED BY <1>2, <1>3, <1>4 DEF Sent

LEMMA SentSame ==
  ASSUME NEW m, request'.sent = request.sent, UNCHANGED <<operation, options>>
  PROVE  /\ Params' = Params /\ (Skipped(m)' <=> Skipped(m)) /\ Sent(m)' = Sent(m)
         /\ (Given(m)' <=> Given(m)) /\ (Fine(m)' <=> Fine(m))
<1>1. Params' = Params /\ (Skipped(m)' <=> Skipped(m)) /\ Sent(m)' = Sent(m)
  BY DEF Params, Skipped, Overridden, Sent
<1>. QED BY <1>1 DEF Given, Fine, Wrong, Fills

(***************************************************************************)
(* What writing a default does to them.                                    *)
(***************************************************************************)
LEMMA DefaultWritten ==
  ASSUME NEW p \in Param, NEW s \in Seq(Value)
  PROVE  /\ Written(p) \in Reading
         /\ p.in = "path"  => WithDefault(p, s) = s
         /\ p.in = "query" => WithDefault(p, s) = <<Written(p)>>
         /\ p.in \notin {"path", "query"} =>
              p.in \in {"header", "cookie"} /\ WithDefault(p, s) = Append(s, Written(p))
<1>1. Written(p) \in Reading
  BY DEF Param, Written
<1>. QED BY <1>1 DEF Param, WithDefault

\* A value that is sent alone, and is not empty, is the one that is decoded.
LEMMA AloneDecoded ==
  ASSUME NEW p, NEW w \in Reading
  PROVE  Decoded(p, <<w>>) = w /\ Len(<<w>>) = 1
<1>. DEFINE t == <<w>>
            filled == { m \in DOMAIN t : t[m] # "empty" }
<1>1. filled = {1} /\ t[1] = w /\ t # <<>> /\ Len(t) = 1 /\ w # "empty"
  BY DEF Reading
<1>2. (CHOOSE m \in filled : \A n \in filled : m <= n) = 1
  BY <1>1
<1>3. Decoded(p, t) = w
  BY <1>1, <1>2 DEF Decoded
<1>. QED BY <1>1, <1>3

\* Only a header or a cookie that begins with an empty value, or is not sent,
\* decodes to nil.
LEMMA NilDecoded ==
  ASSUME NEW p, p.in # "query", NEW s \in Seq(Value), Decoded(p, s) = Nil, s # <<>>
  PROVE  s[1] = "empty"
<1>1. s[1] \in Value /\ "bad" \in Value
  BY DEF Value
<1>. QED BY <1>1, NilAssumption DEF Decoded

LEMMA LeadsOn ==
  ASSUME NEW p \in Param, NEW s \in Seq(Value), Fills(p, s), Leads(ParamKey(p), s)
  PROVE  /\ Leads(ParamKey(p), WithDefault(p, s))
         /\ p.in # "path" => Decoded(p, WithDefault(p, s)) = Written(p)
<1>0. Decoded(p, s) = Nil /\ Written(p) \in Reading
  BY DefaultWritten DEF Fills
<1>1. CASE p.in = "path"
  BY <1>1, DefaultWritten
<1>2. CASE p.in # "path"
  <2>1. WithDefault(p, s) = <<Written(p)>>
    <3>1. CASE p.in = "query"
      BY <3>1, DefaultWritten
    <3>2. CASE p.in \notin {"path", "query"}
      <4>1. WithDefault(p, s) = Append(s, Written(p)) /\ p.in \in {"header", "cookie"}
        BY <3>2, DefaultWritten
      <4>2. s = <<>>
        BY <1>0, <4>1, NilDecoded DEF Leads, ParamKey
      <4>. QED BY <4>1, <4>2
    <3>. QED BY <1>2, <3>1, <3>2
  <2>2. Decoded(p, <<Written(p)>>) = Written(p)
    BY <1>0, AloneDecoded
  <2>3. Leads(ParamKey(p), <<Written(p)>>)
    BY <1>0 DEF Leads, Reading
  <2>. QED BY <2>1, <2>2, <2>3
<1>. QED BY <1>1, <1>2

\* A default written over a value that was not there is never wrong if it can be
\* read, whichever parameter of the place and name is asked.
LEMMA FineAgain ==
  ASSUME NEW p \in Param, NEW q \in Param, p.in = q.in, NEW s \in Seq(Value),
         Fills(p, s), Rereadable(p), Rereadable(q), ~Wrong(q, s)
  PROVE  ~Wrong(q, WithDefault(p, s))
<1>0. Decoded(p, s) = Nil /\ Written(p) \in {"default", "good"} /\ Written(p) \in Reading
  BY DefaultWritten DEF Fills, Rereadable, Reading
<1>1. CASE p.in = "path"
  BY <1>1, DefaultWritten
<1>2. CASE p.in = "query" \/ (p.in \notin {"path", "query"} /\ s = <<>>)
  <2>1. WithDefault(p, s) = <<Written(p)>>
    <3>1. Append(<<>>, Written(p)) = <<Written(p)>>
      OBVIOUS
    <3>2. CASE p.in = "query"
      BY <3>2, DefaultWritten
    <3>3. CASE p.in \notin {"path", "query"} /\ s = <<>>
      BY <3>1, <3>3, DefaultWritten
    <3>. QED BY <1>2, <3>2, <3>3
  <2>2. q.in # "path" /\ Written(p) # Nil
    BY <1>0, <1>2, NilAssumption DEF Value
  <2>3. Found(q, <<Written(p)>>)
    BY <2>2 DEF Found
  <2>4. Decoded(q, <<Written(p)>>) = Written(p)
    BY <1>0, AloneDecoded
  <2>5. ~Fills(q, <<Written(p)>>)
    BY <2>2, <2>4 DEF Fills
  <2>. QED BY <1>0, <2>1, <2>2, <2>3, <2>4, <2>5 DEF Wrong
<1>3. CASE p.in \notin {"path", "query"} /\ s # <<>>
  <2>. DEFINE t == Append(s, Written(p))
  <2>1. WithDefault(p, s) = t /\ p.in \in {"header", "cookie"}
    BY <1>3, DefaultWritten
  <2>2. s[1] = "empty"
    BY <1>0, <1>3, NilDecoded
  <2>3. t # <<>> /\ t[1] = "empty"
    BY <1>3, <2>2
  <2>4. Decoded(q, t) = Nil /\ Decoded(q, s) = Nil
    <3>. HIDE DEF t
    <3>. QED BY <1>3, <2>2, <2>3 DEF Decoded, Rereadable
  <2>5. Found(q, t) /\ Found(q, s)
    BY <1>3, <2>1, <2>3 DEF Found
  <2>6. Fills(q, t) <=> Fills(q, s)
    <3>. HIDE DEF t
    <3>. QED BY <1>3, <2>3, <2>4 DEF Fills
  <2>. HIDE DEF t
  <2>. QED BY <2>1, <2>4, <2>5, <2>6 DEF Wrong
<1>. QED BY <1>1, <1>2, <1>3

LEMMA LeastOf ==
  ASSUME NEW S \in SUBSET Nat, S # {}
  PROVE  \E m \in S : \A n \in S : m <= n
<1>. DEFINE Less == {ss \in Nat \X Nat : ss[1] < ss[2]}
<1>1. IsWellFoundedOn(Less, Nat)
  BY NatLessThanWellFounded DEF OpToRel
<1>. HIDE DEF Less
<1>2. PICK m \in S : \A n \in S : ~(<<n, m>> \in Less)
  BY <1>1, WFMin
<1>3. \A n \in S : ~(n < m)
  BY <1>2 DEF Less
<1>. QED BY <1>3

\* What is found right is a value that the schema accepts, where the default reads
\* back.
LEMMA RightValue ==
  ASSUME NEW p \in Param, NEW s \in Seq(Value), ReadsBack(p), options.setDefaults,
         ~Wrong(p, s), ~Fills(p, s)
  PROVE  Decoded(p, s) \in {"good", "default"}
<1>1. Decoded(p, s) # Nil /\ Decoded(p, s) # "bad"
  BY DEF ReadsBack, Fills, Wrong
<1>2. s # <<>>
  <2>1. Len(<<>>) = 0
    OBVIOUS
  <2>. QED BY <1>1, <2>1 DEF Decoded
<1>3. Decoded(p, s) \in Value /\ Decoded(p, s) # "empty"
  <2>. DEFINE filled == { m \in DOMAIN s : s[m] # "empty" }
              first  == IF p.in = "query" /\ filled # {}
                        THEN CHOOSE m \in filled : \A n \in filled : m <= n ELSE 1
  <2>1. first \in DOMAIN s
    <3>1. filled # {} => \E m \in filled : \A n \in filled : m <= n
      <4>. SUFFICES ASSUME filled # {} PROVE \E m \in filled : \A n \in filled : m <= n
        OBVIOUS
      <4>1. filled \subseteq Nat
        OBVIOUS
      <4>. QED BY <4>1, LeastOf
    <3>. QED BY <1>2, <3>1
  <2>2. Decoded(p, s) = s[first]
    BY <1>1, <1>2 DEF Decoded
  <2>. QED BY <1>1, <1>2, <2>1, <2>2 DEF Decoded
<1>. QED BY <1>1, <1>3 DEF Value

(***************************************************************************)
(* The invariant of the defaults.                                          *)
(***************************************************************************)
LEMMA DefaultsParameter ==
  ASSUME DefaultsInv, ValidateParameter
  PROVE  /\ \A k \in ParamKeys(operation) : Leads(k, request'.sent[k])
         /\ \A m \in DOMAIN Params : Given(m) => Given(m)'
         /\ ~Wrong(Params[i], Sent(i)) => \A m \in DOMAIN Params : m = i => Given(m)'
<1>. DEFINE p == Params[i]
            v == WithDefault(p, Sent(i))
<1>0. TypeOK
  BY DEF DefaultsInv
<1>1. i \in DOMAIN Params /\ p \in Param /\ ParamKey(p) \in ParamKeys(operation)
  BY <1>0, ParameterStep, ParamsTyped DEF TypeOK
<1>2. Sent(i) \in Seq(Value) /\ Leads(ParamKey(p), Sent(i))
  BY <1>0, <1>1 DEF DefaultsInv, Sent, TypeOK, Request
<1>3. CASE request'.sent = request.sent /\ ~Fills(p, Sent(i))
  <2>1. UNCHANGED <<operation, options>>
    BY <1>0, ParameterStep
  <2>2. ~Wrong(p, Sent(i)) => Given(i)
    BY <1>1, <1>2, <1>3, RightValue DEF Given
  <2>3. \A m : Given(m)' <=> Given(m)
    BY <1>3, <2>1, SentSame
  <2>4. \A k \in ParamKeys(operation) : Leads(k, request'.sent[k])
    BY <1>3 DEF DefaultsInv
  <2>. QED BY <2>2, <2>3, <2>4
<1>4. CASE /\ request'.sent = [request.sent EXCEPT ![ParamKey(p)] = v]
           /\ Fills(p, Sent(i))
  <2>1. UNCHANGED <<operation, options>>
    BY <1>0, ParameterStep
  <2>2. Leads(ParamKey(p), v) /\ (p.in # "path" => Decoded(p, v) = Written(p))
    BY <1>1, <1>2, <1>4, LeadsOn
  <2>3. \A k \in ParamKeys(operation) : Leads(k, request'.sent[k])
    BY <1>0, <1>1, <1>4, <2>2 DEF DefaultsInv, TypeOK, Request
  <2>4. ASSUME NEW m \in DOMAIN Params
        PROVE  /\ Params' = Params /\ (Skipped(m)' <=> Skipped(m))
               /\ ParamKey(Params[m]) = ParamKey(p) => Sent(m)' = v /\ Params[m].in = p.in
               /\ ParamKey(Params[m]) # ParamKey(p) => Sent(m)' = Sent(m)
    BY <1>0, <1>4, <2>1, SentAfter
  <2>5. ASSUME NEW m \in DOMAIN Params, m = i
        PROVE  Given(m)'
    <3>1. Params' = Params /\ Params[m] = p /\ Sent(m)' = v
      BY <2>4, <2>5
    <3>2. ReadsBack(p) => Decoded(p, v) = "default"
      BY <2>2 DEF ReadsBack
    <3>. QED BY <3>1, <3>2 DEF Given
  <2>6. ASSUME NEW m \in DOMAIN Params, Given(m)
        PROVE  Given(m)'
    <3>1. CASE ParamKey(Params[m]) = ParamKey(p)
      <4>. SUFFICES ASSUME ~Skipped(m), ReadsBack(Params[m]), options.setDefaults
                    PROVE  FALSE
        BY <2>1, <2>4 DEF Given
      <4>1. Decoded(Params[m], Sent(m)) \in {"good", "default"} /\ Sent(m) = Sent(i)
        BY <2>6, <3>1 DEF Given, Sent
      <4>2. Decoded(p, Sent(i)) = Nil /\ ~Params[m].content /\ Params[m].in = p.in
        BY <1>4, <2>4, <3>1 DEF Fills, ReadsBack
      <4>3. Decoded(Params[m], Sent(i)) = Nil
        BY <4>2, NilAssumption DEF Decoded, Value
      <4>. QED BY <4>1, <4>3, NilAssumption DEF Value
    <3>2. CASE ParamKey(Params[m]) # ParamKey(p)
      BY <2>1, <2>4, <2>6, <3>2 DEF Given
    <3>. QED BY <3>1, <3>2
  <2>. QED BY <2>3, <2>5, <2>6
<1>. QED BY <1>0, <1>3, <1>4, ParameterStep

LEMMA DefaultsStep == DefaultsInv /\ [Next]_vars => DefaultsInv'
<1>. SUFFICES ASSUME DefaultsInv, [Next]_vars PROVE DefaultsInv'
  OBVIOUS
<1>. USE DEF input, call, count
<1>0. TypeOK /\ TypeOK' /\ UNCHANGED <<operation, options>> /\ i \in Nat
  BY StepTyped, OptionsStay DEF DefaultsInv, TypeOK
<1>1. (pc # "idle" => verdict = "none")'
  BY DEF DefaultsInv, Next, Step, Security, Parameters, Body, vars, ValidateRequest, ReplaceBody,
     Finished, AuthenticationReads, SecurityAbsent, AuthenticationMissing, SecurityReadFails,
     SecurityBodyRead, SchemeUndeclared, CallAuthenticationFunc, AuthenticationAccepts,
     AuthenticationRejects, RequirementMet, ParamsDone, ParamSkipped, ValidateParameter,
     BodyExcluded, BodyUnspecified, BodyReadFails, BodyRead, BodyMissing, BodyUnchecked,
     BodyInvalid, BodyRewriteFails, BodyValid, Unmet, Error, Continue, Goto, Return,
     BodyError, BodyFine
<1>2. CASE ValidateParameter
  <2>1. /\ \A k \in ParamKeys(operation) : Leads(k, request'.sent[k])
        /\ \A m \in DOMAIN Params : Given(m) => Given(m)'
        /\ ~Wrong(Params[i], Sent(i)) => \A m \in DOMAIN Params : m = i => Given(m)'
    BY <1>2, DefaultsParameter
  <2>2. "parameter" \notin errs => \A m \in DOMAIN Params : m < i => Given(m)
    BY <1>2 DEF DefaultsInv, ValidateParameter
  <2>3. "parameter" \notin errs /\ ~Wrong(Params[i], Sent(i))
          => \A m \in DOMAIN Params : m < i + 1 => Given(m)'
    <3>1. DOMAIN Params \subseteq Nat
      BY <1>0 DEF TypeOK, Operation, Params
    <3>2. \A m \in DOMAIN Params : m < i + 1 => m < i \/ m = i
      BY <1>0, <3>1
    <3>. SUFFICES ASSUME "parameter" \notin errs, ~Wrong(Params[i], Sent(i)),
                         NEW m \in DOMAIN Params, m < i + 1
                  PROVE  Given(m)'
      OBVIOUS
    <3>3. CASE m < i
      BY <2>1, <2>2, <3>3
    <3>4. CASE m = i
      BY <2>1, <3>4
    <3>. QED BY <3>2, <3>3, <3>4
  <2>4. \/ /\ pc' = "params" /\ i' = i + 1 /\ verdict' = verdict /\ verdict = "none"
           /\ \/ ~Wrong(Params[i], Sent(i)) /\ errs' = errs
              \/ "parameter" \in errs'
        \/ pc' = "idle" /\ verdict' = "err"
    <3>1. pc = "params" /\ verdict = "none"
      BY <1>2 DEF DefaultsInv, ValidateParameter
    <3>. QED BY <1>0, <1>2, <3>1, ParameterStep DEF Error, Continue, Goto, Return
  <2>5. Params' = Params
    BY <1>0 DEF Params
  <2>. QED BY <1>0, <1>1, <2>1, <2>3, <2>4, <2>5 DEF DefaultsInv
<1>3. CASE ~ValidateParameter
  <2>1. request'.sent = request.sent
    BY <1>0, <1>3, SentStays
  <2>2. \A k \in ParamKeys(operation') : Leads(k, request'.sent[k])
    BY <1>0, <2>1 DEF DefaultsInv
  <2>3. \A m : Params' = Params /\ (Given(m)' <=> Given(m))
    BY <1>0, <2>1, SentSame
  <2>4. SUFFICES ASSUME \/ pc' \in {"params", "body", "content"} /\ "parameter" \notin errs'
                        \/ verdict' = "ok",
                        NEW m \in DOMAIN Params, pc' = "params" => m < i'
                 PROVE  Given(m)
    BY <1>0, <1>1, <2>2, <2>3 DEF DefaultsInv
  <2>5. CASE Security
    <3>1. pc' = "params" /\ i' = 1
      BY <2>4, <2>5 DEF DefaultsInv, Security, SecurityAbsent, AuthenticationMissing,
         SecurityReadFails, SecurityBodyRead, SchemeUndeclared, CallAuthenticationFunc,
         AuthenticationAccepts, AuthenticationRejects, RequirementMet, Unmet, Error, Continue,
         Goto, Return
    <3>2. m \in Nat \ {0}
      BY <1>0 DEF TypeOK, Operation, Params
    <3>. QED BY <2>4, <3>1, <3>2
  <2>6. CASE ParamsDone
    <3>1. m < i /\ pc = "params" /\ "parameter" \notin errs
      <4>1. m \in Nat /\ Len(Params) \in Nat /\ m <= Len(Params)
        BY <1>0 DEF TypeOK, Operation, Params
      <4>2. errs' = errs /\ verdict' = verdict /\ pc = "params" /\ i > Len(Params)
        BY <2>6 DEF ParamsDone, Continue
      <4>. QED BY <1>0, <2>4, <4>1, <4>2 DEF DefaultsInv
    <3>. QED BY <3>1 DEF DefaultsInv
  <2>7. CASE ParamSkipped
    <3>1. /\ pc = "params" /\ pc' = "params" /\ i' = i + 1 /\ Skipped(i)
          /\ errs' = errs /\ verdict' = verdict
      BY <2>7 DEF ParamSkipped, Continue, Goto
    <3>2. m < i \/ m = i
      <4>1. m \in Nat
        BY <1>0 DEF TypeOK, Operation, Params
      <4>. QED BY <1>0, <2>4, <3>1, <4>1
    <3>3. "parameter" \notin errs
      BY <2>4, <3>1 DEF DefaultsInv
    <3>. QED BY <3>1, <3>2, <3>3 DEF DefaultsInv, Given
  <2>8. CASE Body
    <3>1. pc \in {"body", "content"}
      BY <2>8 DEF Body, BodyExcluded, BodyUnspecified, BodyReadFails, BodyRead, BodyMissing,
         BodyUnchecked, BodyInvalid, BodyRewriteFails, BodyValid
    <3>2. \/ BodyError \/ BodyFine
          \/ UNCHANGED <<errs, verdict>> /\ pc' = "content"
      BY <2>8 DEF Body, BodyExcluded, BodyUnspecified, BodyReadFails, BodyRead, BodyMissing,
         BodyUnchecked, BodyInvalid, BodyRewriteFails, BodyValid, Continue, Goto
    <3>3. verdict = "none"
      BY <3>1 DEF DefaultsInv
    <3>4. BodyError \/ BodyFine => "parameter" \notin errs
      BY <2>4 DEF BodyError, BodyFine, Return
    <3>5. UNCHANGED <<errs, verdict>> => "parameter" \notin errs
      BY <2>4, <3>3
    <3>6. "parameter" \notin errs
      BY <3>2, <3>4, <3>5
    <3>. QED BY <3>1, <3>6 DEF DefaultsInv
  <2>9. CASE ValidateRequest \/ ReplaceBody \/ AuthenticationReads
    BY <2>4, <2>9 DEF DefaultsInv, ValidateRequest, ReplaceBody, AuthenticationReads, Goto
  <2>10. CASE Finished \/ UNCHANGED vars
    BY <2>4, <2>10 DEF DefaultsInv, Finished, vars
  <2>. QED
    BY <1>3, <2>5, <2>6, <2>7, <2>8, <2>9, <2>10 DEF Next, Step, Parameters
<1>. QED BY <1>2, <1>3

\* For requests that send no default after another value, and no header or
\* cookie that begins with an empty one: after an accepted validation every
\* parameter whose default reads back has a value that the schema accepts, and
\* where the value is the default the program, which reads the first value sent,
\* reads it.
THEOREM DefaultsRead == Plain => (Spec => []DefaultsReach)
<1>. SUFFICES ASSUME Plain PROVE Spec => []DefaultsReach
  OBVIOUS
<1>1. Init => DefaultsInv
  BY InitTyped DEF Init, Plain, DefaultsInv
<1>2. DefaultsInv /\ [Next]_vars => DefaultsInv'
  BY DefaultsStep
<1>3. DefaultsInv => DefaultsReach
  <2>. SUFFICES ASSUME DefaultsInv, verdict = "ok", options.setDefaults,
                       NEW m \in DOMAIN Params, ~Skipped(m), ReadsBack(Params[m])
                PROVE  /\ Decoded(Params[m], Sent(m)) \in {"good", "default"}
                       /\ (\E n \in DOMAIN Sent(m) : Sent(m)[n] = "default")
                            => Sent(m)[1] = "default"
    BY DEF DefaultsReach, Sent
  <2>1. pc = "idle" /\ Given(m)
    BY DEF DefaultsInv
  <2>2. Leads(ParamKey(Params[m]), Sent(m))
    BY ParamsTyped DEF DefaultsInv, TypeOK, Sent
  <2>. QED BY <2>1, <2>2 DEF Given, Leads
<1>. QED BY <1>1, <1>2, <1>3, PTL DEF Spec

(***************************************************************************)
(* The invariant of repeated validation.                                   *)
(***************************************************************************)
LEMMA FineOn ==
  ASSUME TypeOK, Legible, ValidateParameter, NEW m \in DOMAIN Params, Fine(m)
  PROVE  Fine(m)'
<1>. DEFINE p == Params[i]
            v == WithDefault(p, Sent(i))
<1>0. UNCHANGED <<operation, options>>
  BY ParameterStep
<1>1. i \in DOMAIN Params /\ p \in Param /\ Params[m] \in Param
      /\ ParamKey(p) \in ParamKeys(operation) /\ Rereadable(p) /\ Rereadable(Params[m])
  BY ParameterStep, ParamsTyped DEF TypeOK, Legible
<1>2. CASE request'.sent = request.sent
  BY <1>0, <1>2, SentSame
<1>3. CASE /\ request'.sent = [request.sent EXCEPT ![ParamKey(p)] = v]
           /\ Fills(p, Sent(i))
  <2>1. /\ Params' = Params /\ (Skipped(m)' <=> Skipped(m))
        /\ ParamKey(Params[m]) = ParamKey(p) => Sent(m)' = v /\ Params[m].in = p.in
        /\ ParamKey(Params[m]) # ParamKey(p) => Sent(m)' = Sent(m)
    BY <1>0, <1>3, SentAfter
  <2>2. CASE ParamKey(Params[m]) = ParamKey(p) /\ ~Skipped(m)
    <3>1. Sent(m) = Sent(i) /\ Sent(i) \in Seq(Value)
      BY <1>1, <2>2 DEF Sent, TypeOK, Request
    <3>2. ~Wrong(Params[m], v)
      BY <1>1, <1>3, <2>1, <2>2, <3>1, FineAgain DEF Fine
    <3>. QED BY <1>0, <2>1, <2>2, <3>2 DEF Fine, Wrong, Fills
  <2>3. CASE ParamKey(Params[m]) # ParamKey(p) \/ Skipped(m)
    BY <1>0, <2>1, <2>3 DEF Fine, Wrong, Fills
  <2>. QED BY <2>2, <2>3
<1>. QED BY <1>2, <1>3, ParameterStep

LEMMA FineStays ==
  ASSUME TypeOK, Legible, [Next]_vars, NEW m \in DOMAIN Params, Fine(m)
  PROVE  Fine(m)'
<1>1. CASE ValidateParameter
  BY <1>1, FineOn
<1>2. CASE ~ValidateParameter
  BY <1>2, SentStays, SentSame, OptionsStay
<1>. QED BY <1>1, <1>2

LEMMA LegibleStays ==
  ASSUME [Next]_vars
  PROVE  Params' = Params /\ (Legible' <=> Legible) /\ Doubts' = Doubts
<1>1. Params' = Params
  BY OptionsStay DEF Params
<1>2. Legible' <=> Legible
  BY <1>1 DEF Legible, Rereadable, Written
<1>. QED BY <1>1, <1>2 DEF Doubts

LEMMA FineStep == ASSUME AgainInv, [Next]_vars PROVE FineSoFar'
<1>. USE DEF input, call, count
<1>0. TypeOK /\ UNCHANGED <<operation, options>> /\ i \in Nat /\ Params' = Params
      /\ DOMAIN Params \subseteq Nat \ {0} /\ Len(Params) \in Nat /\ DOMAIN Params = 1..Len(Params)
  <2>1. TypeOK /\ UNCHANGED <<operation, options>>
    BY OptionsStay DEF AgainInv, JudgeInv, BodyInv
  <2>2. Params \in Seq(Param) /\ i \in Nat
    BY <2>1 DEF TypeOK, Operation, Params
  <2>3. Params' = Params
    BY <2>1 DEF Params
  <2>. QED BY <2>1, <2>2, <2>3
<1>. SUFFICES ASSUME pc' \in {"params", "body", "content"}, "parameter" \notin errs', Legible,
                     NEW m \in DOMAIN Params, pc' = "params" => m < i'
              PROVE  Fine(m)'
  BY <1>0, LegibleStays DEF FineSoFar
<1>1. SUFFICES Fine(m)
  BY <1>0, FineStays
<1>2. CASE Security
  <2>1. pc' = "params" /\ i' = 1
    BY <1>2 DEF Security, SecurityAbsent, AuthenticationMissing,
       SecurityReadFails, SecurityBodyRead, SchemeUndeclared, CallAuthenticationFunc,
       AuthenticationAccepts, AuthenticationRejects, RequirementMet, Unmet, Error, Continue,
       Goto, Return
  <2>. QED BY <1>0, <2>1
<1>3. CASE ParamsDone
  <2>1. m < i /\ pc = "params" /\ errs' = errs
    BY <1>0, <1>3 DEF ParamsDone, Continue
  <2>. QED BY <2>1 DEF AgainInv, FineSoFar
<1>4. CASE ParamSkipped
  <2>1. pc = "params" /\ pc' = "params" /\ i' = i + 1 /\ Skipped(i) /\ errs' = errs
    BY <1>4 DEF ParamSkipped, Continue, Goto
  <2>2. m < i \/ m = i
    BY <1>0, <2>1
  <2>. QED BY <2>1, <2>2 DEF AgainInv, FineSoFar, Fine
<1>5. CASE ValidateParameter
  <2>1. /\ pc = "params" /\ ~Wrong(Params[i], Sent(i)) /\ i' = i + 1 /\ errs' = errs
        /\ pc' = "params"
    BY <1>0, <1>5, ParameterStep DEF ValidateParameter, Error, Goto, Return, Continue
  <2>2. m < i \/ m = i
    BY <1>0, <2>1
  <2>. QED BY <2>1, <2>2 DEF AgainInv, FineSoFar, Fine
<1>6. CASE Body
  <2>1. pc \in {"body", "content"} /\ "parameter" \notin errs
    BY <1>6 DEF Body, BodyExcluded, BodyUnspecified, BodyReadFails, BodyRead, BodyMissing,
       BodyUnchecked, BodyInvalid, BodyRewriteFails, BodyValid, BodyError, BodyFine, Return,
       Continue
  <2>. QED BY <2>1 DEF AgainInv, FineSoFar
<1>7. CASE ValidateRequest \/ ReplaceBody \/ AuthenticationReads
  BY <1>7 DEF ValidateRequest, ReplaceBody, AuthenticationReads, Goto
<1>8. CASE Finished \/ UNCHANGED vars
  BY <1>8 DEF AgainInv, FineSoFar, Finished, vars
<1>. QED
  BY <1>2, <1>3, <1>4, <1>5, <1>6, <1>7, <1>8 DEF Next, Step, Parameters

LEMMA RewindStep == ASSUME AgainInv, [Next]_vars PROVE Rewindable'
<1>. USE DEF input, call, count
<1>. DEFINE G == operation.security # <<>> /\ served \in Contents
                   => "security" \in errs \/ request.getBody # Nil
<1>0. BodyInv /\ UNCHANGED <<operation, options>>
  BY OptionsStay DEF AgainInv, JudgeInv
<1>1. CASE Security
  <2>1. CASE RequirementMet
    <3>1. served \in Contents => request'.getBody \in Kept(served)
      BY <1>0, <2>1, PutBackForSecurity DEF RequirementMet
    <3>2. served' = served
      BY <2>1 DEF RequirementMet
    <3>. QED BY <1>0, <3>1, <3>2, Here DEF Rewindable
  <2>2. CASE Unmet
    BY <1>0, <2>2 DEF Unmet, Error, Continue, Goto, Return, Rewindable
  <2>3. CASE SecurityAbsent
    BY <1>0, <2>3 DEF SecurityAbsent, Rewindable
  <2>4. CASE SecurityBodyRead \/ CallAuthenticationFunc \/ AuthenticationAccepts
    BY <2>4 DEF SecurityBodyRead, CallAuthenticationFunc, AuthenticationAccepts, Continue, Goto,
       Rewindable
  <2>. QED
    BY <1>1, <2>1, <2>2, <2>3, <2>4 DEF Security, AuthenticationMissing, SecurityReadFails,
       SchemeUndeclared, AuthenticationRejects
<1>2. CASE ParamsDone \/ ParamSkipped
  BY <1>0, <1>2 DEF ParamsDone, ParamSkipped, Continue, AgainInv, Rewindable
<1>3. CASE ValidateParameter
  <2>1. /\ request'.getBody = request.getBody /\ served' = served
        /\ pc = "params" /\ (pc' = "idle" \/ errs \subseteq errs')
    BY <1>0, <1>3, ParameterStep
    DEF BodyInv, ValidateParameter, Error, Continue, Goto, Return
  <2>. QED BY <1>0, <2>1 DEF AgainInv, Rewindable
<1>4. CASE BodyRead
  <2>1. /\ request' = PutBack(Drained(request), Bytes(request)) /\ request.body # Broken
        /\ errs' = errs /\ served' = served /\ pc = "body"
    BY <1>4 DEF BodyRead, Continue
  <2>2. /\ Drained(request) \in Request(operation)
        /\ Drained(request).getBody = request.getBody
    BY <1>0, <2>1, Here, DrainedFields
  <2>3. \A d : \A r \in Request(operation) :
          r.getBody \in Contents => PutBack(r, d).getBody = r.getBody
    BY DEF PutBack, Request
  <2>4. request.getBody # Nil => request.getBody \in Contents
    BY <1>0, Here DEF Request
  <2>5. request.getBody # Nil => request'.getBody # Nil
    BY <2>1, <2>2, <2>3, <2>4
  <2>. QED BY <1>0, <2>1, <2>5 DEF AgainInv, Rewindable
<1>5. CASE Body /\ ~BodyRead
  BY <1>5 DEF Body, BodyExcluded, BodyUnspecified, BodyReadFails, BodyMissing,
     BodyUnchecked, BodyInvalid, BodyRewriteFails, BodyValid, BodyError, BodyFine, Return,
     Rewindable
<1>6. CASE ValidateRequest \/ ReplaceBody \/ AuthenticationReads
  BY <1>6 DEF ValidateRequest, ReplaceBody, AuthenticationReads, Goto, Rewindable
<1>7. CASE Finished \/ UNCHANGED vars
  BY <1>7 DEF AgainInv, Rewindable, Finished, vars
<1>. QED
  BY <1>1, <1>2, <1>3, <1>4, <1>5, <1>6, <1>7 DEF Next, Step, Parameters

\* An accepted request without a documented body keeps its length.
LEMMA LengthStays ==
  ASSUME BodyInv, [Next]_vars, ~ReplaceBody, operation.requestBody = Nil,
         operation.security = <<>> \/ served \notin Contents \/ request.getBody # Nil
  PROVE  /\ request'.contentLength = request.contentLength
         /\ request.getBody # Nil => request'.getBody # Nil
<1>. USE DEF input, call, count
<1>0. request \in Request(operation)
  BY Here
<1>1. /\ Drained(request).contentLength = request.contentLength
      /\ Drained(request).getBody = request.getBody
      /\ [request EXCEPT !.body = Broken].contentLength = request.contentLength
      /\ [request EXCEPT !.body = Broken].getBody = request.getBody
  BY <1>0 DEF Drained, Request
<1>2. CASE CallAuthenticationFunc \/ RequirementMet
  <2>1. pc = "schemes" /\ request' = PutBack(request, data)
    BY <1>2 DEF CallAuthenticationFunc, RequirementMet
  <2>2. operation.security # <<>> /\ (served \notin Contents => data = Nil)
    BY <2>1 DEF BodyInv, Followed, ReadForSecurity, Authenticates
  <2>3. CASE served \notin Contents
    BY <2>1, <2>2, <2>3 DEF PutBack
  <2>4. CASE served \in Contents
    <3>1. request.getBody \in Contents
      BY <2>2, <2>4, Here DEF Request
    <3>. QED BY <1>0, <2>1, <3>1 DEF PutBack, Request
  <2>. QED BY <2>3, <2>4
<1>3. CASE SecurityReadFails \/ SecurityBodyRead \/ AuthenticationReads
  BY <1>1, <1>3 DEF SecurityReadFails, SecurityBodyRead, AuthenticationReads
<1>4. CASE Body
  BY <1>4 DEF Body, BodyExcluded, BodyUnspecified, BodyReadFails, BodyRead, BodyMissing,
     BodyUnchecked, BodyInvalid, BodyRewriteFails, BodyValid, BodyInv, Followed, ReadForContent,
     Judges
<1>5. CASE ValidateParameter
  BY <1>5, ParameterStep DEF BodyInv
<1>6. CASE UNCHANGED request
  BY <1>6
<1>. QED
  BY <1>2, <1>3, <1>4, <1>5, <1>6, SchemesDeclared
  DEF Next, Step, Security, Parameters, vars, ValidateRequest, Finished, SecurityAbsent,
      AuthenticationMissing, AuthenticationAccepts, AuthenticationRejects, ParamsDone, ParamSkipped

LEMMA AcceptableStays ==
  ASSUME BodyInv, [Next]_vars, ~ReplaceBody, Acceptable
  PROVE  Acceptable'
<1>1. UNCHANGED <<operation, options>>
  BY OptionsStay
<1>2. served' = served
  BY DEF Next, Step, Security, Parameters, Body, vars, ValidateRequest, input, call, count,
     Finished, AuthenticationReads, SecurityAbsent, AuthenticationMissing, SecurityReadFails,
     SecurityBodyRead, SchemeUndeclared, CallAuthenticationFunc, AuthenticationAccepts,
     AuthenticationRejects, RequirementMet, ParamsDone, ParamSkipped, ValidateParameter,
     BodyExcluded, BodyUnspecified, BodyReadFails, BodyRead, BodyMissing, BodyUnchecked,
     BodyInvalid, BodyRewriteFails, BodyValid
<1>3. Refused(served)' <=> Refused(served)
  BY <1>1, <1>2 DEF Refused
<1>4. CASE operation.requestBody = Nil /\ ~options.excludeBody
  BY <1>1, <1>2, <1>4, LengthStays DEF Acceptable
<1>5. CASE ~(operation.requestBody = Nil /\ ~options.excludeBody)
  BY <1>1, <1>3, <1>5 DEF Acceptable
<1>. QED BY <1>4, <1>5

\* A request accepted is acceptable.
LEMMA AcceptableAtReturn ==
  ASSUME AgainInv, Body, verdict' = "ok"
  PROVE  /\ errs = {} /\ pc \in {"body", "content"} /\ Acceptable'
         /\ UNCHANGED <<operation, options, served, previous>>
<1>. USE DEF input, call, count
<1>1. UNCHANGED <<operation, options, served, previous>> /\ pc \in {"body", "content"}
  BY DEF Body, BodyExcluded, BodyUnspecified, BodyReadFails, BodyRead, BodyMissing, BodyUnchecked,
     BodyInvalid, BodyRewriteFails, BodyValid
<1>2. ~BodyRead /\ errs' = {} /\ (Return(errs) \/ Return(errs \cup {"body"}))
  <2>1. ~BodyRead
    BY Here DEF AgainInv, JudgeInv, BodyRead, Continue
  <2>2. Return(errs) \/ Return(errs \cup {"body"})
    BY <2>1 DEF Body, BodyExcluded, BodyUnspecified, BodyReadFails, BodyMissing, BodyUnchecked,
       BodyInvalid, BodyRewriteFails, BodyValid, BodyError, BodyFine
  <2>. QED BY <2>1, <2>2 DEF Return
<1>3. errs = {} /\ Return(errs)
  BY <1>2 DEF Return
<1>4. CASE options.excludeBody
  BY <1>1, <1>3, <1>4 DEF Acceptable
<1>5. CASE ~options.excludeBody /\ operation.requestBody = Nil
  <2>1. BodyUnspecified
    BY <1>2, <1>5 DEF Body, BodyExcluded, BodyReadFails, BodyMissing, BodyUnchecked, BodyInvalid,
       BodyRewriteFails, BodyValid, AgainInv, JudgeInv, BodyInv, Followed, ReadForContent, Judges
  <2>2. UNCHANGED request /\ pc = "body"
        /\ ~(options.rejectUnspecified /\ request.contentLength = "positive")
    BY <1>2, <2>1 DEF BodyUnspecified, BodyError, Return
  <2>3. operation.security = <<>> \/ served \notin Contents \/ request.getBody # Nil
    BY <1>3, <2>2 DEF AgainInv, Rewindable
  <2>. QED BY <1>1, <1>3, <1>5, <2>2, <2>3 DEF Acceptable
<1>6. CASE ~options.excludeBody /\ operation.requestBody # Nil
  <2>1. BodyMissing \/ BodyUnchecked \/ BodyInvalid \/ BodyValid
    BY <1>2, <1>6 DEF Body, BodyExcluded, BodyUnspecified, BodyReadFails, BodyRewriteFails,
       BodyError, Return
  <2>2. ~Refused(served)
    BY <1>2, <1>6, <2>1, ContentJudged DEF AgainInv
  <2>. QED BY <1>1, <1>3, <1>6, <2>2 DEF Acceptable, Refused
<1>. QED BY <1>1, <1>3, <1>4, <1>5, <1>6

LEMMA SoundStep == ASSUME AgainInv, [Next]_vars PROVE Sound'
<1>. USE DEF input, call, count
<1>0. /\ TypeOK /\ BodyInv /\ UNCHANGED <<operation, options>> /\ Params' = Params
      /\ pc # "idle" => verdict = "none"
  BY OptionsStay, Here DEF AgainInv, JudgeInv, BodyInv, Params
<1>. SUFFICES ASSUME Vetted'
              PROVE  (Legible => \A m \in DOMAIN Params : Fine(m)') /\ Acceptable'
  BY <1>0, LegibleStays DEF Sound
<1>1. CASE Vetted
  <2>1. ~ReplaceBody
    BY DEF ReplaceBody, Vetted
  <2>. QED BY <1>0, <1>1, <2>1, FineStays, AcceptableStays DEF AgainInv, Sound
<1>2. CASE ~Vetted
  <2>1. ~(ValidateRequest \/ ReplaceBody \/ Finished \/ UNCHANGED vars)
    <3>1. ValidateRequest \/ ReplaceBody => FALSE
      BY <1>2 DEF ValidateRequest, ReplaceBody, Vetted
    <3>2. Finished \/ UNCHANGED vars => UNCHANGED <<verdict, previous, pc>>
      BY DEF Finished, vars
    <3>. QED BY <1>2, <3>1, <3>2 DEF Vetted
  <2>2. verdict' = "ok" /\ pc # "idle"
    BY <1>0, <1>2, <2>1 DEF Vetted, Next, Step, Security, Parameters, Body,
       AuthenticationReads, SecurityAbsent, AuthenticationMissing, SecurityReadFails,
       SecurityBodyRead, SchemeUndeclared, CallAuthenticationFunc, AuthenticationAccepts,
       AuthenticationRejects, RequirementMet, ParamsDone, ParamSkipped, ValidateParameter,
       BodyExcluded, BodyUnspecified, BodyReadFails, BodyRead, BodyMissing, BodyUnchecked,
       BodyInvalid, BodyRewriteFails, BodyValid
  <2>3. ~(Security \/ Parameters \/ AuthenticationReads)
    BY <1>0, <2>2 DEF Security, Parameters, AuthenticationReads, SecurityAbsent,
       AuthenticationMissing, SecurityReadFails, SecurityBodyRead, SchemeUndeclared,
       CallAuthenticationFunc, AuthenticationAccepts, AuthenticationRejects, RequirementMet,
       ParamsDone, ParamSkipped, ValidateParameter, Unmet, Error, Continue, Goto, Return
  <2>4. Body
    BY <2>1, <2>3 DEF Next, Step
  <2>5. errs = {} /\ pc \in {"body", "content"} /\ Acceptable'
    BY <2>2, <2>4, AcceptableAtReturn
  <2>6. Legible => \A m \in DOMAIN Params : Fine(m)
    BY <2>5 DEF AgainInv, FineSoFar
  <2>. QED BY <1>0, <2>5, <2>6, FineStays
<1>. QED BY <1>1, <1>2

LEMMA FineContinues ==
  ASSUME AgainInv, Legible, ValidateParameter, previous = "ok"
  PROVE  Continue("params", i + 1)
<1>1. TypeOK /\ pc = "params"
  BY DEF AgainInv, JudgeInv, BodyInv, ValidateParameter
<1>2. Fine(i) /\ ~Skipped(i)
  BY <1>1, ParameterStep DEF AgainInv, Sound, Vetted
<1>. QED BY <1>1, <1>2, ParameterStep DEF Fine

LEMMA UnopposedStep == ASSUME AgainInv, [Next]_vars PROVE Unopposed'
<1>. USE DEF input, call, count
<1>. SUFFICES ASSUME previous' = "ok", pc' # "idle"
              PROVE  errs' \subseteq {"security"} \cup Doubts
  BY LegibleStays DEF Unopposed
<1>1. CASE ValidateRequest
  BY <1>1 DEF ValidateRequest
<1>2. CASE Security
  BY <1>2 DEF Security, SecurityAbsent, AuthenticationMissing, SecurityReadFails,
     SecurityBodyRead, SchemeUndeclared, CallAuthenticationFunc, AuthenticationAccepts,
     AuthenticationRejects, RequirementMet, Unmet, Error, Continue, Goto, Return,
     AgainInv, Unopposed
<1>3. CASE ParamsDone \/ ParamSkipped \/ AuthenticationReads \/ BodyRead
  BY <1>3 DEF ParamsDone, ParamSkipped, AuthenticationReads, BodyRead, Continue, AgainInv,
     Unopposed
<1>4. CASE ValidateParameter
  <2>1. previous = "ok" /\ pc = "params"
    BY <1>4 DEF ValidateParameter
  <2>2. Legible => errs' = errs
    BY <1>4, <2>1, FineContinues DEF Continue
  <2>3. ~Legible => errs' \subseteq errs \cup {"parameter"}
    BY <1>4, ParameterStep DEF AgainInv, JudgeInv, BodyInv, Error, Continue, Goto, Return
  <2>. QED BY <2>1, <2>2, <2>3 DEF AgainInv, Unopposed, Doubts
<1>5. CASE Body /\ ~BodyRead
  BY <1>5 DEF Body, BodyExcluded, BodyUnspecified, BodyReadFails, BodyMissing,
     BodyUnchecked, BodyInvalid, BodyRewriteFails, BodyValid, BodyError, BodyFine, Return
<1>6. CASE ReplaceBody \/ Finished \/ UNCHANGED vars
  BY <1>6 DEF ReplaceBody, Finished, vars, AgainInv, Unopposed
<1>. QED
  BY <1>1, <1>2, <1>3, <1>4, <1>5, <1>6 DEF Next, Step, Parameters

LEMMA AcceptedAgainStep == ASSUME AgainInv, [Next]_vars PROVE AcceptedAgain'
<1>. USE DEF input, call, count
<1>. SUFFICES ASSUME verdict' # "none", previous' = "ok", request'.body # Broken
              PROVE  errs' \subseteq {"security"} \cup Doubts
  BY LegibleStays DEF AcceptedAgain, Doubts, Legible
<1>0. pc # "idle" => verdict = "none"
  BY Here DEF AgainInv, JudgeInv
<1>1. CASE Finished \/ UNCHANGED vars
  BY <1>1 DEF Finished, vars, AgainInv, AcceptedAgain, Doubts, Legible
<1>2. CASE ValidateRequest \/ ReplaceBody \/ AuthenticationReads \/ BodyRead \/ ParamsDone
           \/ ParamSkipped
  BY <1>0, <1>2 DEF ValidateRequest, ReplaceBody, AuthenticationReads, BodyRead, ParamsDone,
     ParamSkipped, Continue
<1>3. CASE Security
  <2>1. errs' = {"security"} \/ verdict' = verdict
    BY <1>3 DEF Security, SecurityAbsent, AuthenticationMissing, SecurityReadFails,
       SecurityBodyRead, SchemeUndeclared, CallAuthenticationFunc, AuthenticationAccepts,
       AuthenticationRejects, RequirementMet, Unmet, Error, Continue, Goto, Return
  <2>2. pc # "idle"
    BY <1>3 DEF Security, SecurityAbsent, AuthenticationMissing, SecurityReadFails,
       SecurityBodyRead, SchemeUndeclared, CallAuthenticationFunc, AuthenticationAccepts,
       AuthenticationRejects, RequirementMet
  <2>. QED BY <1>0, <2>1, <2>2
<1>4. CASE ValidateParameter
  <2>1. previous = "ok" /\ pc = "params"
    BY <1>4 DEF ValidateParameter
  <2>2. CASE Legible
    BY <1>0, <1>4, <2>1, <2>2, FineContinues DEF Continue
  <2>3. CASE ~Legible
    <3>1. errs \subseteq {"security"} \cup Doubts
      BY <2>1 DEF AgainInv, Unopposed
    <3>2. errs' \subseteq errs \cup {"parameter"}
      BY <1>4, ParameterStep DEF AgainInv, JudgeInv, BodyInv, Error, Continue, Goto, Return
    <3>. QED BY <2>3, <3>1, <3>2 DEF Doubts
  <2>. QED BY <2>2, <2>3
<1>5. CASE Body /\ ~BodyRead
  <2>1. previous = "ok" /\ pc # "idle"
    BY <1>5 DEF Body, BodyExcluded, BodyUnspecified, BodyReadFails, BodyMissing,
       BodyUnchecked, BodyInvalid, BodyRewriteFails, BodyValid
  <2>2. errs \subseteq {"security"} \cup Doubts /\ Acceptable /\ "body" \notin Doubts
    BY <2>1 DEF AgainInv, Unopposed, Sound, Vetted, Doubts
  <2>3. errs' = errs \/ errs' = errs \cup {"body"}
    BY <1>5 DEF Body, BodyExcluded, BodyUnspecified, BodyReadFails, BodyMissing,
       BodyUnchecked, BodyInvalid, BodyRewriteFails, BodyValid, BodyError, BodyFine, Return
  <2>4. CASE BodyExcluded
    BY <2>2, <2>4 DEF BodyExcluded, BodyFine, Return
  <2>5. CASE BodyUnspecified
    BY <2>2, <2>5 DEF BodyUnspecified, BodyFine, Return, Acceptable
  <2>6. CASE BodyReadFails
    BY <2>6, Here, BrokenFields DEF BodyReadFails, AgainInv, JudgeInv
  <2>7. CASE BodyRewriteFails
    BY <2>7 DEF BodyRewriteFails, AgainInv, JudgeInv, BodyInv, Encodes, Followed, ReadForContent,
       Judges
  <2>8. CASE BodyMissing \/ BodyUnchecked \/ BodyInvalid \/ BodyValid
    <3>1. Judges
      BY <2>8 DEF BodyMissing, BodyUnchecked, BodyInvalid, BodyValid, AgainInv, JudgeInv, BodyInv,
         Followed, ReadForContent
    <3>2. "body" \notin errs'
      BY <2>2, <2>8, <3>1, ContentJudged DEF AgainInv, Acceptable, Judges
    <3>. QED BY <2>2, <2>3, <3>2
  <2>. QED BY <1>5, <2>4, <2>5, <2>6, <2>7, <2>8 DEF Body
<1>. QED
  BY <1>1, <1>2, <1>3, <1>4, <1>5 DEF Next, Step, Parameters

\* Validating again a request that was accepted, any number of times, finds no
\* fault with its body, unless the body cannot be read, nor with its parameters, if
\* the text of their defaults can: what was written into the request and the body
\* put back are themselves valid.  Under the conditions of BodiesJudged on the
\* program, the document and the options.
THEOREM AlwaysAcceptedAgain == Proper /\ Quiet => (Spec => []AcceptedAgain)
<1>. SUFFICES ASSUME Proper, Quiet PROVE Spec => []AcceptedAgain
  OBVIOUS
<1>1. Init => AgainInv
  BY JudgeStarts DEF Init, AgainInv, FineSoFar, Rewindable, Sound, Vetted, Unopposed, AcceptedAgain
<1>2. AgainInv /\ [Next]_vars => AgainInv'
  <2>1. Careful
    BY DEF Proper
  <2>. QED
    BY <2>1, JudgeStep, FineStep, RewindStep, SoundStep, UnopposedStep, AcceptedAgainStep
    DEF AgainInv
<1>3. AgainInv => AcceptedAgain
  BY DEF AgainInv
<1>. QED BY <1>1, <1>2, <1>3, PTL DEF Spec
=============================================================================
