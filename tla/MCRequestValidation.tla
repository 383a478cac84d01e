------------------------ MODULE MCRequestValidation ------------------------
(* Small operations and requests for RequestValidation. *)
EXTENDS RequestValidation, TLC

CONSTANTS empty, full, lacking, bad, s1, s2, s3

MCContents   == {empty, full, lacking, bad}
MCConforming == {full, lacking}
MCFilled     == lacking :> full
MCSchemes    == {s1, s2, s3}
MCDeclared   == {s1, s2}

Op(security, pathItemParams, params, body) ==
  [ security |-> security, pathItemParams |-> pathItemParams, params |-> params,
    requestBody |-> body ]
BodyOf(r, c, e)  == [ required |-> r, content |-> c, encoder |-> e ]
Opt(multi, auth, excludeBody, excludeQuery, reject, defaults) ==
  [ multiError |-> multi, authentication |-> auth, excludeBody |-> excludeBody,
    excludeQuery |-> excludeQuery, rejectUnspecified |-> reject, setDefaults |-> defaults ]
Cases(o, p, q) == [operation : o, options : p, request : q]
Of(b, g, l, c, s) ==
  [ body |-> b, getBody |-> g, contentLength |-> l, closes |-> c, sent |-> s ]
NoParams == <<>>

\* Alternatives of security requirements: none, two of them of which the first
\* has two schemes, and a mandatory scheme before an anonymous alternative.
Securities == { <<>>, << <<s1, s2>>, <<s1>> >>, << <<s2>>, <<>> >> }
AnyBody    == { BodyOf(r, c, e) : r \in BOOLEAN, c \in {"none", "other", "any", "schema"},
                                  e \in {"none", "works"} }
BodyOperations == { Op(s, <<>>, <<>>, b) : s \in Securities, b \in AnyBody \cup {Nil} }
FailFast   == { Opt(FALSE, "reads", FALSE, FALSE, r, d) : r \in BOOLEAN, d \in BOOLEAN }

\* Requests of a server, with and without a body that must not be read once
\* closed, and of a client, which have GetBody; one has a body of no bytes.
WithBodies(closings, lengths) ==
  { Of(c, Nil, l, k, NoParams) : c \in MCContents \ {empty}, l \in lengths, k \in closings }
ClientRequests == { Of(c, c, LengthOf(c), FALSE, NoParams) : c \in MCContents }
Bodyless       == { Of(NoBody, Nil, "zero", FALSE, NoParams),
                    Of(empty, Nil, "zero", FALSE, NoParams) }
ServerRequests == WithBodies({TRUE}, {"positive"}) \cup Bodyless
BodyRequests   == ServerRequests \cup WithBodies({FALSE}, {"unknown"}) \cup ClientRequests
Bodies == Cases(BodyOperations, FailFast, BodyRequests)

\* Errors are collected, authentication may be missing.
MultiOperations == { Op(s, <<>>, <<>>, b) : s \in Securities \cup { << <<s1, s3>>, <<s1>> >> },
                       b \in { BodyOf(r, "schema", e) : r \in BOOLEAN,
                                                        e \in {"works", "fails"} } }
MultiOptions    == { Opt(TRUE, a, x, FALSE, FALSE, TRUE) :
                       x \in BOOLEAN, a \in {"none", "simple"} }
Errors == Cases(MultiOperations, MultiOptions, ServerRequests)

\* Parameters: one of the path item, which the operation may override, and one
\* or two of the operation.
Primitive == [ form |-> "primitive", content |-> FALSE,
               printed |-> "default", items |-> "default" ]
Par(in, name, r, a, d) ==
  [ in |-> in, name |-> name, required |-> r, allowEmpty |-> a, default |-> d ] @@ Primitive
Pages    == { Par("query", "page", r, a, d) : r \in BOOLEAN, a \in BOOLEAN, d \in BOOLEAN }
Sessions(in) == { Par(in, "session", r, FALSE, d) : r \in BOOLEAN, d \in BOOLEAN }
Ids      == { Par("path", "id", TRUE, FALSE, d) : d \in BOOLEAN }
Accept   == Par("query", "page", FALSE, TRUE, TRUE)
ParamOperations ==
  { Op(<<>>, <<p>>, <<q>>, Nil) : p \in Pages \cup Ids, q \in Sessions("cookie") \cup Sessions("header") \cup {Accept} }
\* Parameters whose default may not be read again: a number that is printed with
\* an exponent, and one that reads as another; arrays, whose items may hold the
\* delimiter; an object; contents.  One has neither schema nor content.
Odd == { [Primitive EXCEPT !.printed = "bad"], [Primitive EXCEPT !.printed = "good"],
         [Primitive EXCEPT !.form = "array", !.printed = "bad"],
         [Primitive EXCEPT !.form = "array", !.printed = "bad", !.items = "good"],
         [Primitive EXCEPT !.form = "object", !.printed = "bad"],
         [Primitive EXCEPT !.content = TRUE],
         [Primitive EXCEPT !.content = TRUE, !.form = "object", !.printed = "bad"],
         [Primitive EXCEPT !.form = "none"] }
Oddly(in, name) == { k @@ Par(in, name, r, FALSE, TRUE) : k \in Odd, r \in BOOLEAN }
OddOperations ==
  { Op(<<>>, <<p>>, <<q>>, Nil) :
    p \in Oddly("query", "page"),
    q \in { k @@ Par(in, "session", FALSE, FALSE, TRUE) : k \in Odd, in \in {"cookie", "header"} } }
ParamOptions == { Opt(m, "none", FALSE, x, FALSE, d) : m \in BOOLEAN, x \in BOOLEAN, d \in BOOLEAN }
SentOne   == { <<>>, <<"good">>, <<"bad">> }
SentQuery == SentOne \cup { <<"empty">>, <<"empty", "good">>, <<"empty", "bad">> }
ParamRequests(o) ==
  { Of(NoBody, Nil, "zero", FALSE,
       [ k \in ParamKeys(o) |-> IF k.in = "query" THEN v ELSE w ]) :
    v \in SentQuery, w \in SentOne }
OddRequests(o) ==
  { Of(NoBody, Nil, "zero", FALSE, [ k \in ParamKeys(o) |-> IF k.in = "query" THEN v ELSE w ]) :
    v \in SentOne \cup { <<"empty">> },
    w \in SentOne \cup (IF o.params[1].content THEN { <<"empty">> } ELSE {}) }
OddOptions == { Opt(m, "none", FALSE, FALSE, FALSE, TRUE) : m \in BOOLEAN }
Parameterised ==
  UNION { Cases({o}, ParamOptions, ParamRequests(o)) : o \in ParamOperations }
    \cup UNION { Cases({o}, OddOptions, OddRequests(o)) : o \in OddOperations }

AllInputs == Bodies \cup Errors \cup Parameterised
=============================================================================
