----------------------------- MODULE MCMiddleware -----------------------------
(* A small service behind the middleware: one operation with a security       *)
(* requirement and an optional body, and handlers of a few calls.             *)
EXTENDS Middleware, TLC

CONSTANTS empty, full, lacking, other, scheme,
          ok, created, moved, early, notFound, badRequest, serverError,
          zero, default, chunk, bad, errorText

MCContents   == {empty, full, lacking, other}
MCConforming == {full, lacking}
MCFilled     == lacking :> full
MCOperation ==
  [ security |-> << <<scheme>> >>, pathItemParams |-> <<>>, params |-> <<>>,
    requestBody |-> [required |-> FALSE, content |-> "schema", encoder |-> "works"] ]
Opt(m) == [ multiError |-> m, authentication |-> "reads", excludeBody |-> FALSE,
            excludeQuery |-> FALSE, rejectUnspecified |-> FALSE, setDefaults |-> TRUE ]
Of(c) == [ body |-> c, getBody |-> Nil, contentLength |-> "positive", closes |-> TRUE,
           sent |-> <<>> ]
AnyRequest == [ operation : {MCOperation}, options : {Opt(FALSE)},
                request : { Of(c) : c \in {full, lacking, other} } ]
OneRequest == { n \in AnyRequest : n.request.body = full }

MCStatuses == {ok, created, moved, early}

\* Operations that document one status, the default, both or none.
Spec1(h, c) == [header |-> h, content |-> c]
Strictly == Spec1("required", "schema")
MCResponses ==
  { <<>>, ok :> Strictly, ok :> Spec1("optional", "other"), ok :> Spec1("none", "any"),
    ok :> Spec1("none", "schema") @@ default :> Spec1("none", "none"),
    default :> Strictly }
Documented == { ok :> Spec1("none", "schema"), ok :> Strictly }
AllChecks  == [excludeBody |-> FALSE, includeStatus |-> TRUE]

\* Handlers that only write, in both modes; unruly ones, for a few operations.
Orderlies == [ responses : MCResponses, checks : {AllChecks}, method : {"GET", "HEAD"},
               strict : BOOLEAN, habits : {{}} ]
Unruly == [ responses : Documented, checks : Checks, method : {"GET"}, strict : BOOLEAN,
            habits : {{"early"}, {"late", "silent"}, {"panic"}, {"late", "flush"}} ]
MCSetups == Orderlies \cup Unruly

MCGoodBodies == { <<chunk>>, <<chunk, chunk>> }
=============================================================================
