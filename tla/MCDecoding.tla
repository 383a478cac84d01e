----------------------------- MODULE MCDecoding -----------------------------
(* Schemas, values and styles for Decoding. *)
EXTENDS Decoding

MCDigits == <<"0", "1", "2">>

Plain == [type |-> <<>>, format |-> "", items |-> {}, properties |-> <<>>, additional |-> "none",
          allOf |-> <<>>, anyOf |-> <<>>, oneOf |-> <<>>, not |-> FALSE, pattern |-> FALSE]
Typed(t) == [Plain EXCEPT !.type = <<t>>]
ArrayOf(s) == [Typed("array") EXCEPT !.items = {s}]
ObjectOf(f) == [Typed("object") EXCEPT !.properties = f]

p == <<"p">>  a == <<"a">>  b == <<"b">>  q == <<"q">>
AB(s, t) == a :> s @@ b :> t

MCSchemas ==
  "int" :> Typed("integer") @@ "int32" :> [Typed("integer") EXCEPT !.format = "int32"] @@
  "num" :> Typed("number") @@ "bool" :> Typed("boolean") @@ "str" :> Typed("string") @@
  "file" :> [Typed("string") EXCEPT !.format = "binary"] @@
  "intOrStr" :> [Plain EXCEPT !.type = <<"integer", "string">>] @@
  "patterned" :> [Plain EXCEPT !.pattern = TRUE] @@
  "ints" :> ArrayOf("int") @@ "strs" :> ArrayOf("str") @@ "mixed" :> ArrayOf("oneOf") @@
  "allOf" :> [Plain EXCEPT !.allOf = <<"num", "int">>] @@
  "anyOf" :> [Plain EXCEPT !.anyOf = <<"int32", "bool", "str">>] @@
  "oneOf" :> [Plain EXCEPT !.oneOf = <<"bool", "int">>] @@
  "oneObj" :> [Plain EXCEPT !.oneOf = <<"obj", "ints">>] @@
  "loop" :> [Plain EXCEPT !.anyOf = <<"loop", "int">>] @@
  "obj" :> ObjectOf(AB("int", "str")) @@
  "open" :> [ObjectOf(a :> "int") EXCEPT !.additional = "true"] @@
  "map" :> [Typed("object") EXCEPT !.additional = "ints"] @@
  "nested" :> ObjectOf(AB("obj", "ints")) @@
  "rows" :> ObjectOf(a :> "objs") @@ "objs" :> ArrayOf("obj") @@
  "either" :> ObjectOf(a :> "anyObj") @@
  "anyObj" :> [Plain EXCEPT !.anyOf = <<"ints", "obj">>] @@
  "form" :> ObjectOf(AB("ints", "obj")) @@
  "formOf" :> [ObjectOf(a :> "int") EXCEPT !.allOf = <<"part1">>, !.oneOf = <<"part2", "part3">>] @@
  "part1" :> ObjectOf(a :> "int") @@ "part2" :> ObjectOf(b :> "bool") @@
  "part3" :> ObjectOf(b :> "int") @@
  "parts" :> ObjectOf(AB("ints", "str")) @@ "upload" :> ObjectOf(AB("file", "bool")) @@
  "partsOf" :> [Typed("object") EXCEPT !.allOf = <<"part1", "part2">>] @@
  "partsMore" :> [ObjectOf(q :> "bool") EXCEPT !.additional = "parts"]

Whole(n) == Prim("integer", n)
Str(s) == Prim("string", s)
True == Prim("boolean", <<"true">>)
One == <<"1">>  Two == <<"2", "0">>  Big == <<"M">>

Singles == { <<"int", Whole(Two)>>, <<"int", Whole(Big)>>, <<"int32", Whole(One)>>, <<"num", Prim("number", One)>>,
             <<"bool", True>>, <<"str", Str(a)>>, <<"str", Str(One)>>, <<"intOrStr", Whole(Big)>>,
             <<"intOrStr", Str(b)>>, <<"allOf", Whole(One)>>, <<"anyOf", Whole(One)>>,
             <<"anyOf", Str(Big)>>, <<"anyOf", True>>, <<"oneOf", Whole(Two)>>, <<"oneOf", Whole(One)>>,
             <<"oneOf", True>>, <<"loop", Whole(One)>> }
Arrays == { <<"ints", Arr(<<Whole(One)>>)>>, <<"ints", Arr(<<Whole(One), Whole(Big), Whole(Two)>>)>>,
            <<"strs", Arr(<<Str(a), Str(One)>>)>>, <<"mixed", Arr(<<True, Whole(Two)>>)>> }
\* Alternatives of an array and an object.
Mixed == { <<s, v>> : s \in {"anyObj", "oneObj"},
                      v \in {Arr(<<Whole(One)>>), Arr(<<Whole(Two), Whole(Big)>>), Obj(AB(Whole(One), Str(b)))} }
Objects == { <<"obj", Obj(AB(Whole(Two), Str(One)))>>, <<"obj", Obj(a :> Whole(Big))>>,
             <<"obj", Obj(b :> Str(b))>> }
Deep == Objects \cup
  { <<"open", Obj(AB(Whole(One), Str(Two)))>>,
    <<"map", Obj(AB(Arr(<<Whole(One), Whole(Two)>>), Arr(<<Whole(Big)>>)))>>,
    <<"nested", Obj(AB(Obj(a :> Whole(Two)), Arr(<<Whole(One), Whole(Two)>>)))>>,
    <<"rows", Obj(a :> Arr(<<Obj(a :> Whole(One)), Obj(AB(Whole(Two), Str(b)))>>))>>,
    \* holes, as many as there may be
    <<"rows", Obj(a :> Arr(<<Obj(a :> Whole(One)), Nil, Obj(b :> Str(b))>>))>>,
    <<"nested", Obj(b :> Arr(<<Nil, Nil, Whole(One)>>))>>,
    <<"either", Obj(a :> Obj(AB(Whole(One), Str(a))))>>,
    <<"either", Obj(a :> Arr(<<Whole(One), Whole(Big)>>))>> }

Case(in, style, explode, sv, optional) ==
  [in |-> in, style |-> style, explode |-> explode, name |-> p, schema |-> sv[1], value |-> sv[2],
   encodings |-> <<>>, json |-> FALSE, optional |-> optional, given |-> FALSE]
All == Singles \cup Arrays \cup Objects \cup Mixed
Parameters ==
  { Case("path", st, e, sv, TRUE) : st \in {"simple", "label", "matrix"}, e \in BOOLEAN, sv \in All }
  \cup { Case("header", "simple", e, sv, TRUE) : e \in BOOLEAN, sv \in All }
  \cup { Case("cookie", "form", FALSE, sv, TRUE) : sv \in All }
  \cup { Case("cookie", "form", TRUE, sv, TRUE) : sv \in Singles }
  \cup { Case("query", "form", FALSE, sv, TRUE) : sv \in All }
  \cup { Case("query", "form", TRUE, sv, TRUE) : sv \in Singles \cup Arrays \cup
           {<<"patterned", Str(a)>>} }
  \cup { Case("query", "form", TRUE, sv, TRUE) : sv \in Objects }
  \cup { Case("query", st, FALSE, sv, TRUE) : st \in {"spaceDelimited", "pipeDelimited"},
           sv \in Arrays \cup Objects \cup Mixed }
  \cup { Case("query", st, TRUE, sv, TRUE) : st \in {"spaceDelimited", "pipeDelimited"}, sv \in Arrays }
  \cup { Case("query", "deepObject", TRUE, sv, TRUE) : sv \in Deep }

MCTruths == <<"true">> :> <<"true">> @@ <<"t">> :> <<"true">> @@ <<"1">> :> <<"true">> @@
            <<"false">> :> <<"false">> @@ <<"f">> :> <<"false">> @@ <<"0">> :> <<"false">>

MCJson == [t \in {One, Two, Big} |-> Whole(t)] @@ <<"true">> :> True
          @@ <<"{", "a", ":", "1", "}">> :> Obj(a :> Whole(One))
          @@ <<"[", "1", "]">> :> Arr(<<Whole(One)>>)
Contents == { Case("content", "", TRUE, sv, TRUE) :
                sv \in { <<"int", Whole(Two)>>, <<"obj", Obj(a :> Whole(One))>>,
                         <<"ints", Arr(<<Whole(One)>>)>> } }

Enc(style, explode, cts) == [style |-> style, explode |-> explode, contentTypes |-> cts]
FormValues == { <<"form", Obj(AB(Arr(<<Whole(One), Whole(Two)>>), Obj(AB(Whole(One), Str(b)))))>>,
                <<"form", Obj(b :> Obj(a :> Whole(Big)))>> }
Forms ==
  { [Case("urlencoded", "", TRUE, sv, FALSE) EXCEPT !.encodings = AB(x, y)] :
      sv \in FormValues, x \in { Enc("form", e, {}) : e \in BOOLEAN } \cup {Enc("pipeDelimited", FALSE, {})},
      y \in {Enc("deepObject", TRUE, {}), Enc("form", FALSE, {})} }
  \cup { Case("urlencoded", "", TRUE, <<"formOf", v>>, FALSE) :
           v \in { [t |-> "object", props |-> AB(Whole(Two), True)], Obj(AB(Whole(One), Whole(Two))) } }
PartValues == { <<"parts", Obj(a :> Arr(<<Whole(One), Whole(Big)>>))>>,
                <<"partsOf", Obj(AB(Whole(Two), True))>> }
Uploads ==
  { [Case("multipart", "", TRUE, sv, FALSE) EXCEPT !.json = j] : j \in BOOLEAN, sv \in PartValues }
  \cup { Case("multipart", "", TRUE, <<"partsMore", Obj(AB(Arr(<<Whole(One)>>), Str(b)))>>, FALSE) }
  \cup { [Case("multipart", "", TRUE, <<"upload", Obj(AB(Str(Two), True))>>, FALSE) EXCEPT !.encodings = a :> x] :
           x \in { Enc("form", TRUE, c) : c \in {{}, {"text/plain"}} } }

MCCases == Parameters \cup Contents \cup Forms \cup Uploads

Foreign == { <<>>, <<q>> :> <<One>>, (<<q>> :> <<One>> @@ <<q, a>> :> <<Two, b>>) }
MCOthers ==
  [in \in {"path", "header", "cookie", "query", "content", "urlencoded", "multipart"} |->
     IF in = "multipart" THEN {<<>>} ELSE Foreign]

MCDecoders == "text/plain" :> "plain" @@ "application/json" :> "json"
MCJsonTypes == {"application/json", "application/x+json"}
=============================================================================
