------------------------------ MODULE Decoding ------------------------------
(***************************************************************************)
(* Parameters and form bodies, from the strings of a request to values     *)
(* (openapi3filter/req_resp_decoder.go).  A client writes a value the way  *)
(* OpenAPI and RFC 6570 say for the style; the decoder reads it back.      *)
(*                                                                         *)
(* Strings and names are sequences of characters.  What a request carries  *)
(* is a function from keys to sequences of strings, where a key is the     *)
(* sequence of a name and of what follows it in brackets: "p[a]" is        *)
(* <<p, a>>.  Where the code returns a value and an error, an operator     *)
(* here returns the value or one of the Errors; a panic is one of them.    *)
(***************************************************************************)
EXTENDS Integers, FiniteSets, SequencesExt, TLC

CONSTANTS
  schemas,   \* the schemas by name; keywords refer to names
  Cases,     \* what clients send: [in, style, explode, name, schema, value, ...]
  Others,    \* what else a request may carry, in the form of a request
  Digits,    \* the digits, in order
  TooBig,    \* a digit group that takes more than 32 bits
  Json,      \* the values of JSON texts: [text -> value]
  Decoders,  \* the registered body decoders: [media type -> decoder]
  JsonTypes, \* the media types that end in "+json"
  Truths,    \* the strings that strconv.ParseBool takes, with what they mean
  MaxGap     \* maxSliceMapToSliceGap

VARIABLES
  sent,   \* the case the client sends
  wire,   \* what the request carries, [key -> Seq(string)], or NotYet
  result  \* [value, found, failed] of the decoder, or NotYet

vars == <<sent, wire, result>>

Nil        == [t |-> "nil"]
Prim(t, v) == [t |-> t, text |-> v]
Arr(s)     == [t |-> "array", items |-> s]
Obj(f)     == [t |-> "object", props |-> f]
\* A nil map in an interface value, which is not nil itself.
NilMap     == [t |-> "nil map"]

ParseError == [t |-> "parse"]
OtherError == [t |-> "other"]
Panic      == [t |-> "panic"]
Errors     == {ParseError, OtherError, Panic}

Result(v, found) == [value |-> v, found |-> found, failed |-> ""]
Failed(found, kind) == [value |-> Nil, found |-> found, failed |-> kind]
Parsed(v, found) == IF v \in Errors THEN Failed(found, v.t) ELSE Result(v, found)

Is(s, type) == schemas[s].type = <<type>>
Additional(s) == schemas[s].additional # "none" /\ schemas[s].additional # "false"

\* strings.Split
RECURSIVE Split(_, _)
Split(s, delim) ==
  LET at == { i \in 1..Len(s) : i + Len(delim) - 1 <= Len(s)
                                /\ SubSeq(s, i, i + Len(delim) - 1) = delim } IN
  IF at = {} THEN <<s>>
  ELSE <<SubSeq(s, 1, Min(at) - 1)>> \o Split(SubSeq(s, Min(at) + Len(delim), Len(s)), delim)

Join(strings, delim) ==
  FoldLeft(LAMBDA acc, i : IF i = 1 THEN strings[1] ELSE acc \o delim \o strings[i],
           <<>>, [i \in DOMAIN strings |-> i])

----------------------------------------------------------------------------
(* Values of one string.                                                   *)

Numeral(raw) == raw # <<>> /\ Range(raw) \subseteq Range(Digits) \cup {TooBig}

\* strconv.Atoi, for the indexes of arrays.
Atoi(raw) ==
  FoldLeft(LAMBDA n, c : 10 * n + (CHOOSE d \in DOMAIN Digits : Digits[d] = c) - 1, 0, raw)
Itoa(n) == CHOOSE raw \in { <<Digits[d]>> : d \in DOMAIN Digits } : Atoi(raw) = n

\* Mutant: an int32 is parsed like any integer.
ParsesAsWide(raw, schema, type) ==
  CASE type \in {"integer", "number"} -> Numeral(raw)
    [] type = "boolean" -> raw \in DOMAIN Truths
    [] OTHER -> type = "string"

ParsesAs(raw, schema, type) ==
  CASE type = "integer" -> Numeral(raw) /\ (schema.format = "int32" => TooBig \notin Range(raw))
    [] type = "number"  -> Numeral(raw)
    [] type = "boolean" -> raw \in DOMAIN Truths
    [] OTHER -> type = "string"

\* parsePrimitive: the first type that fits; nothing at all for an empty
\* string that is not a string.
ParsePrimitive(raw, schema) ==
  LET fitting == { i \in DOMAIN schema.type : \/ (raw = <<>> /\ schema.type[i] # "string")
                                              \/ ParsesAs(raw, schema, schema.type[i]) }
      type == schema.type[Min(fitting)] IN
  IF schema.type = <<>> THEN Nil
  ELSE IF fitting = {} THEN ParseError
  ELSE IF raw = <<>> /\ type # "string" THEN Nil
  ELSE Prim(type, IF type = "boolean" THEN Truths[raw] ELSE raw)

\* The result of a loop that stops at the first one in stop.
LastUpTo(stop, results) ==
  results[Min({ i \in DOMAIN results : results[i] \in stop } \cup {Len(results)})]

Good(results) == { i \in DOMAIN results : results[i] \notin Errors }
FirstGood(results) == results[Min(Good(results) \cup {Len(results)})]
OnlyGood(results) == IF Cardinality(Good(results)) = 1 THEN FirstGood(results) ELSE OtherError

RECURSIVE ParseValue(_, _)
ParseValue(raw, schema) ==
  LET Each(list) == [i \in DOMAIN list |-> ParseValue(raw, schemas[list[i]])] IN
  IF schema.allOf # <<>> THEN LastUpTo(Errors \cup {Nil}, Each(schema.allOf))
  ELSE IF schema.anyOf # <<>> THEN FirstGood(Each(schema.anyOf))
  ELSE IF schema.oneOf # <<>> THEN OnlyGood(Each(schema.oneOf))
  ELSE IF schema.not THEN OtherError
  ELSE ParsePrimitive(raw, schema)

\* The items, or the first result that is none.
Collected(results) ==
  LET last == LastUpTo(Errors \cup {Nil}, results) IN
  IF last \in Errors \cup {Nil} THEN last ELSE Arr(results)

ParseArray(raws, s) ==
  IF schemas[s].items = {} THEN OtherError
  ELSE Collected([i \in DOMAIN raws |->
                    ParseValue(raws[i], schemas[CHOOSE item \in schemas[s].items : TRUE])])

----------------------------------------------------------------------------
(* Objects.  The properties that a request spells out are a function from  *)
(* paths of names to the strings given for each.                           *)

\* propsFromString: a set of at most one such function, none for a ParseError.
PropsFromString(src, propDelim, valueDelim) ==
  LET pairs == Split(src, propDelim)
      Pair(i) == IF propDelim = valueDelim THEN <<pairs[2 * i - 1], pairs[2 * i]>>
                 ELSE Split(pairs[i], valueDelim)
      n == IF propDelim = valueDelim THEN Len(pairs) \div 2 ELSE Len(pairs) IN
  IF propDelim = valueDelim /\ Len(pairs) % 2 # 0 THEN {}
  ELSE IF \E i \in 1..n : Len(Pair(i)) # 2 THEN {}
  ELSE { FoldLeft(LAMBDA f, i : (<<Pair(i)[1]>> :> <<Pair(i)[2]>>) @@ f,
                  <<>>, [i \in 1..n |-> i]) }

\* deepGet: the string met on the way, the map that is there, or nothing.
DeepGet(props, keys) ==
  LET leaves == { i \in DOMAIN keys : SubSeq(keys, 1, i) \in DOMAIN props } IN
  IF leaves # {} THEN Prim("string", props[SubSeq(keys, 1, Min(leaves))][1])
  ELSE IF keys = <<>> \/ \E p \in DOMAIN props : IsPrefix(keys, p)
  THEN Obj(props) ELSE Nil

NamesUnder(props, keys) ==
  { p[Len(keys) + 1] : p \in { q \in DOMAIN props : IsStrictPrefix(keys, q) } }

\* sliceMapToSlice: the indexes that make an array, and its length.
GoodIndexes(names) ==
  /\ \A name \in names : name # <<>> /\ Range(name) \subseteq Range(Digits)
  /\ Max({ Atoi(name) : name \in names } \cup {-1}) + 1 - Cardinality(names) <= MaxGap
LengthOf(names) == Max({ Atoi(name) : name \in names } \cup {-1}) + 1

\* The strings under a path as they are, for additionalProperties: true.
RECURSIVE Free(_, _)
Free(props, keys) ==
  IF keys \in DOMAIN props THEN Prim("string", props[keys][1])
  ELSE Obj([name \in NamesUnder(props, keys) |-> Free(props, Append(keys, name))])

Present(f) == [k \in { j \in DOMAIN f : f[j] # Nil } |-> f[k]]

ResultArr(items) == IF ParseError \in Range(items) THEN ParseError ELSE Arr(items)

\* Free-form properties never overwrite declared ones, decoded ones do.
ResultMap(declared, further, free) ==
  IF ParseError \in Range(declared) \cup Range(further) THEN ParseError
  ELSE Obj(IF free THEN Present(declared) @@ further ELSE Present(further) @@ Present(declared))

\* buildFromSchemas: objects are merged, the first other value is taken, errors
\* are passed over, and no property at all is nothing.
Merge(merged, v) ==
  IF merged.t # "object" \/ v \in {ParseError, Nil, Arr(<<>>)} THEN merged
  ELSE IF v.t = "object" THEN Obj(v.props @@ merged.props) ELSE v
OrNothing(merged) == IF merged = Obj(<<>>) THEN Nil ELSE merged

RECURSIVE BuildResObj(_, _, _), BuildFromSchemas(_, _, _)
BuildResObj(props, keys, s) ==
  LET here == DeepGet(props, keys)
      names == NamesUnder(props, keys)
      At(name, schema) == BuildResObj(props, Append(keys, name), schema) IN
  IF Is(s, "array")
  THEN IF schemas[s].items = {} THEN ParseError
       ELSE IF here = Nil THEN Nil
       ELSE IF here.t = "string" \/ ~GoodIndexes(names) THEN ParseError
       ELSE ResultArr([i \in 1..LengthOf(names) |->
                         At(Itoa(i - 1), CHOOSE item \in schemas[s].items : TRUE)])
  ELSE IF Is(s, "object")
  THEN IF here = Nil \/ here.t = "string" THEN here
       ELSE LET free == schemas[s].additional = "true" IN
            ResultMap([k \in DOMAIN schemas[s].properties |-> At(k, schemas[s].properties[k])],
                      [k \in IF Additional(s) THEN names ELSE {} |->
                         IF free THEN Free(props, Append(keys, k)) ELSE At(k, schemas[s].additional)],
                      free)
  ELSE IF schemas[s].anyOf # <<>> THEN BuildFromSchemas(schemas[s].anyOf, props, keys)
  ELSE IF schemas[s].oneOf # <<>> THEN BuildFromSchemas(schemas[s].oneOf, props, keys)
  ELSE IF schemas[s].allOf # <<>> THEN BuildFromSchemas(schemas[s].allOf, props, keys)
  ELSE IF here = Nil THEN Nil
  ELSE IF here.t # "string" THEN ParseError
  ELSE ParsePrimitive(here.text, schemas[s])

BuildFromSchemas(list, props, keys) ==
  OrNothing(FoldLeft(Merge, Obj(<<>>), [i \in DOMAIN list |-> BuildResObj(props, keys, list[i])]))

\* makeObject.  The strings are put in their places in the order of a Go map.
\* Where a path goes on below another one, deepSet panics if the shorter one
\* comes first, and loses the longer one otherwise.  Several strings for one
\* path are an error.
AnObject(v) == IF v.t = "object" THEN v ELSE ParseError
MakeObject(props, s, shorterFirst) ==
  LET Longer == { p \in DOMAIN props : \E q \in DOMAIN props : IsStrictPrefix(q, p) } IN
  IF shorterFirst /\ Longer # {} THEN Panic
  ELSE IF \E p \in DOMAIN props : Len(props[p]) > 1 THEN ParseError
  ELSE AnObject(BuildResObj(Restrict(props, DOMAIN props \ Longer), <<>>, s))

----------------------------------------------------------------------------
(* Styles.  A decoder d is [in, style, explode, name, wire, shorterFirst].  *)

Raws(d) == IF <<d.name>> \in DOMAIN d.wire THEN d.wire[<<d.name>>] ELSE <<>>
Carried(d) == <<d.name>> \in DOMAIN d.wire

\* The prefix and the delimiters of a style for a kind of value, or nothing
\* where the combination is invalid.
Comma == <<",">>
Limits(prefix, items, value) == {[prefix |-> prefix, items |-> items, value |-> value]}
PairDelimiter(d) == IF d.explode THEN <<"=">> ELSE Comma

PathDelimiters(d, kind) ==
  LET named == <<";">> \o d.name \o <<"=">> IN
  CASE d.style = "simple" -> Limits(<<>>, Comma, PairDelimiter(d))
    [] d.style = "label" ->
         Limits(<<".">>, IF d.explode THEN <<".">> ELSE Comma, PairDelimiter(d))
    [] d.style = "matrix" /\ kind = "object" /\ d.explode -> Limits(<<";">>, <<";">>, <<"=">>)
    [] d.style = "matrix" /\ kind = "array" /\ d.explode -> Limits(named, named, Comma)
    [] d.style = "matrix" -> Limits(named, Comma, Comma)
    [] OTHER -> {}

QueryDelimiters(d, kind) ==
  CASE d.style = "form" -> Limits(<<>>, Comma, Comma)
    [] kind = "primitive" \/ (kind = "object" /\ d.explode) -> {}
    [] d.style = "spaceDelimited" -> Limits(<<>>, <<" ">>, <<" ">>)
    [] d.style = "pipeDelimited" -> Limits(<<>>, <<"|">>, <<"|">>)
    [] OTHER -> {}

HeaderDelimiters(d) ==
  IF d.style = "simple" THEN Limits(<<>>, Comma, PairDelimiter(d)) ELSE {}

CookieDelimiters(d, kind) ==
  IF d.style # "form" \/ (d.explode /\ kind # "primitive") THEN {}
  ELSE Limits(<<>>, Comma, Comma)

Delimiters(d, kind) ==
  CASE d.in = "path"   -> PathDelimiters(d, kind)
    [] d.in = "query"  -> QueryDelimiters(d, kind)
    [] d.in = "header" -> HeaderDelimiters(d)
    [] d.in = "cookie" -> CookieDelimiters(d, kind)

\* cutPrefix: the one string of a parameter without its prefix, or an error.
HasPrefix(delims, raw) == IsPrefix(delims.prefix, raw)
Cut(delims, raw) == SubSeq(raw, Len(delims.prefix) + 1, Len(raw))

\* Several headers of a name are one list.
RawString(d, kind) ==
  IF d.in = "header" /\ kind # "primitive" THEN Join(Raws(d), Comma) ELSE Raws(d)[1]

\* A parameter outside the query: nothing there, or its string is parsed by P.
Spelled(d, kind, P(_, _)) ==
  IF Delimiters(d, kind) = {} THEN Failed(FALSE, "other")
  ELSE LET delims == CHOOSE x \in Delimiters(d, kind) : TRUE
           raw == RawString(d, kind) IN
       IF Raws(d) = <<>> THEN Result(Nil, Carried(d))
       ELSE IF d.in = "path" /\ raw = <<>> THEN Result(Nil, FALSE)
       ELSE Parsed(IF HasPrefix(delims, raw) THEN P(Cut(delims, raw), delims) ELSE ParseError, TRUE)

DecodePrimitive(d, s) ==
  IF d.in # "query" THEN Spelled(d, "primitive", LAMBDA src, delims : ParsePrimitive(src, schemas[s]))
  ELSE LET raws == Raws(d)
           filled == { i \in DOMAIN raws : raws[i] # <<>> }
           raw == raws[IF filled = {} THEN 1 ELSE Min(filled)] IN
       IF d.style # "form" THEN Failed(FALSE, "other")
       ELSE IF raws = <<>> THEN Result(Nil, Carried(d))
       ELSE IF schemas[s].type = <<>> /\ schemas[s].pattern
       THEN Result(Prim("string", raw), TRUE)
       ELSE Parsed(ParsePrimitive(raw, schemas[s]), TRUE)

DecodeArray(d, s) ==
  IF d.in # "query"
  THEN Spelled(d, "array", LAMBDA src, delims : ParseArray(Split(src, delims.items), s))
  ELSE LET raws == Raws(d)
           delims == CHOOSE x \in Delimiters(d, "array") : TRUE
           parts == IF d.explode THEN raws ELSE Split(raws[1], delims.items)
           values == ParseArray(parts, s) IN
       IF d.style = "deepObject" THEN Failed(FALSE, "other")
       ELSE IF raws = <<>> THEN Result(Nil, Carried(d))
       \* a lone empty string is no value
       ELSE IF values = Arr(<<Prim("string", <<>>)>>) THEN Result(Nil, TRUE)
       ELSE Parsed(values, TRUE)

\* Mutant: any parameter with brackets.
BracketedAny(d) == { k \in DOMAIN d.wire : Len(k) > 1 }

\* The keys that a deepObject is spread over, see paramPrefixRE.
Bracketed(d) == { k \in DOMAIN d.wire : k[1] = d.name /\ Len(k) > 1 }

\* The properties that the query spells out, a set of at most one function.
PropsOfQuery(d) ==
  LET Flat(k) == Join(k, <<"[">>)
      delims == CHOOSE x \in Delimiters(d, "object") : TRUE IN
  IF d.style = "deepObject"
  THEN { [p \in { Tail(k) : k \in Bracketed(d) } |->
            d.wire[CHOOSE k \in Bracketed(d) : Tail(k) = p]] }
  ELSE IF d.style = "form" /\ d.explode
  THEN { [p \in { <<Flat(k)>> : k \in DOMAIN d.wire } |->
            <<d.wire[CHOOSE k \in DOMAIN d.wire : <<Flat(k)>> = p][1]>>] }
  ELSE IF Raws(d) = <<>> THEN {<<>>}
  ELSE PropsFromString(Raws(d)[1], delims.items, delims.value)

\* deepGet on what was decoded.
RECURSIVE Reaches(_, _)
Reaches(v, path) ==
  \/ path = <<>> \/ v.t # "object"
  \/ path[1] \in DOMAIN v.props /\ Reaches(v.props[path[1]], Tail(path))

\* The object that a query spells out, and whether it was there.
Spelling(d, s, props, v) ==
  LET declared == DOMAIN schemas[s].properties IN
  IF props = {<<>>} THEN Result(Nil, FALSE)
  ELSE IF v \in Errors THEN Failed(FALSE, v.t)
  ELSE Result(v, \/ d.style = "deepObject" /\ Additional(s)
                 \/ \E f \in props : \/ \E p \in declared : <<p>> \in DOMAIN f
                                     \/ declared # {} /\ \E k \in DOMAIN f : Reaches(v, k))

DecodeObject(d, s) ==
  LET Made(spelled) == IF spelled = {} THEN ParseError
                       ELSE MakeObject(CHOOSE f \in spelled : TRUE, s, d.shorterFirst) IN
  IF d.in # "query"
  THEN Spelled(d, "object", LAMBDA src, delims :
                 Made(PropsFromString(src, delims.items, delims.value)))
  ELSE IF d.style # "deepObject" /\ Delimiters(d, "object") = {} THEN Failed(FALSE, "other")
  ELSE Spelling(d, s, PropsOfQuery(d), Made(PropsOfQuery(d)))

\* What DecodeObject returns is a map: without one, in an interface value, it
\* is a nil map.
AsInterface(r) == IF r.value = Nil THEN [r EXCEPT !.value = NilMap] ELSE r

\* decodeValueGuarded: how the schema chooses what to decode.  Alternatives
\* are told by their values alone: their errors are dropped, and a nil map
\* counts as a value.
FoundUpTo(results, n) == \E i \in 1..n : results[i].found
Valued(results) == { i \in DOMAIN results : results[i].value # Nil }
Panicking(results) == { i \in DOMAIN results : results[i].failed = "panic" }
Taken(r, found) == IF r.failed = "panic" THEN r ELSE Result(r.value, found)
Nothing(results, required) ==
  IF required THEN Failed(FoundUpTo(results, Len(results)), "other")
  ELSE Result(Nil, FoundUpTo(results, Len(results)))

AllTried(all) ==
  LET last == Min({ i \in DOMAIN all : all[i].value = Nil \/ all[i].failed # "" } \cup {Len(all)}) IN
  [all[last] EXCEPT !.found = FoundUpTo(all, last)]

AnyTried(any, required) ==
  LET first == Min(Valued(any)) IN
  IF Valued(any) = {} THEN Nothing(any, required) ELSE Taken(any[first], FoundUpTo(any, first))

OneTried(one, required) ==
  LET last == Max(IF Panicking(one) = {} THEN Valued(one) ELSE Panicking(one)) IN
  IF Valued(one) = {} THEN Nothing(one, required) ELSE Taken(one[last], FoundUpTo(one, Len(one)))

RECURSIVE DecodeValue(_, _, _, _)
DecodeValue(d, s, required, seen) ==
  LET schema == schemas[s]
      Each(list) == [i \in DOMAIN list |-> DecodeValue(d, list[i], required, seen \cup {s})] IN
  IF s \in seen THEN Failed(FALSE, "other")
  ELSE IF schema.allOf # <<>> THEN AllTried(Each(schema.allOf))
  ELSE IF schema.anyOf # <<>> THEN AnyTried(Each(schema.anyOf), required)
  ELSE IF schema.oneOf # <<>> THEN OneTried(Each(schema.oneOf), required)
  ELSE IF schema.not THEN Failed(FALSE, "other")
  ELSE IF Is(s, "array") THEN DecodeArray(d, s)
  ELSE IF Is(s, "object") THEN AsInterface(DecodeObject(d, s))
  ELSE IF schema.type # <<>> \/ (d.in = "query" /\ schema.pattern) THEN DecodePrimitive(d, s)
  ELSE Result(Nil, Carried(d))

DecodeStyled(d, s, required) ==
  IF d.in \in {"path", "query"} /\ DOMAIN d.wire = {} THEN Result(Nil, FALSE)
  ELSE DecodeValue(d, s, required, {})

----------------------------------------------------------------------------
(* Parameters that are described by content: application/json.             *)

\* Text that is no JSON is a string, unless an object is expected.
Unmarshal(raw, s) ==
  IF raw \in DOMAIN Json THEN Json[raw]
  ELSE IF s # {} /\ \A x \in s : ~Is(x, "object") THEN Prim("string", raw) ELSE OtherError

DecodeContent(d, s, required) ==
  LET raws == Raws(d)
      decoded == [i \in DOMAIN raws |-> Unmarshal(raws[i], schemas[s].items)] IN
  IF ~Carried(d) THEN IF required THEN Failed(FALSE, "other") ELSE Result(Nil, FALSE)
  ELSE IF Len(raws) = 1 THEN Parsed(Unmarshal(raws[1], {s}), TRUE)
  ELSE IF d.in # "query" \/ OtherError \in Range(decoded) THEN Failed(TRUE, "other")
  ELSE Result(Arr(decoded), TRUE)

----------------------------------------------------------------------------
(* Forms.  The encodings of a media type are [name -> Encoding].           *)

DefaultEncoding == [style |-> "form", explode |-> TRUE, contentTypes |-> {}]
EncodingOf(encodings, name) ==
  IF name \in DOMAIN encodings THEN encodings[name] ELSE DefaultEncoding

\* A form f is [wire, encodings, shorterFirst].
DecodeProperty(f, name, s) ==
  LET enc == EncodingOf(f.encodings, name) IN
  DecodeValue([in |-> "query", style |-> enc.style, explode |-> enc.explode, name |-> name,
               wire |-> f.wire, shorterFirst |-> f.shorterFirst], s, FALSE, {})

\* One property more; an other value for the same one is a conflict.
Entered(st, name, r) ==
  IF st.failed # "" THEN st
  ELSE IF r.failed = "panic" THEN [st EXCEPT !.failed = "panic"]
  ELSE IF r.failed = "parse" THEN [st EXCEPT !.errs = @ \cup {name}]
  ELSE IF r.failed # "" \/ ~r.found THEN st
  ELSE IF name \in DOMAIN st.obj /\ st.obj[name] # r.value THEN [st EXCEPT !.failed = "other"]
  ELSE [st EXCEPT !.obj = (name :> r.value) @@ @]

\* decodeSchemaConstructs: st is [obj, errs, failed], over the alternatives
\* of each schema and then its properties.
RECURSIVE Constructs(_, _, _)
Constructs(list, f, st) ==
  FoldLeft(LAMBDA acc, schema :
             FoldLeft(LAMBDA st2, name : Entered(st2, name, DecodeProperty(f, name, schema.properties[name])),
                      Constructs(schema.allOf \o schema.anyOf \o schema.oneOf, f, acc),
                      SetToSeq(DOMAIN schema.properties)),
           st, [i \in DOMAIN list |-> schemas[list[i]]])

\* The properties that a urlencoded form cannot hold.
Unsupported(s, encodings) ==
  { name \in DOMAIN schemas[s].properties :
      LET p == schemas[s].properties[name]
          enc == EncodingOf(encodings, name) IN
      \/ /\ Is(p, "object")
         /\ ~(enc.style = "deepObject" \/ (enc.style = "form" /\ ~enc.explode))
      \/ /\ Is(p, "array")
         /\ ~\E i \in schemas[p].items :
               \E t \in {"string", "integer", "number", "boolean"} : Is(i, t) }

\* What no schema could parse is an error.
Body(end) ==
  IF end.failed # "" THEN Failed(TRUE, end.failed)
  ELSE IF end.errs \subseteq DOMAIN end.obj THEN Result(Obj(end.obj), TRUE)
  ELSE Failed(TRUE, "parse")

UrlencodedBody(f, s) ==
  IF ~Is(s, "object") \/ Unsupported(s, f.encodings) # {} THEN Failed(TRUE, "other")
  ELSE Body(Constructs(<<s>>, f, [obj |-> <<>>, errs |-> {}, failed |-> ""]))

\* decodeBody of a part [type, params, text]: the media type chooses the decoder.
DecodeBody(part, s, enc) ==
  LET media == IF part.type = "" THEN "text/plain" ELSE part.type
      binary == Is(s, "string") /\ schemas[s].format = "binary"
      registered == CASE media \in DOMAIN Decoders -> {Decoders[media]}
                      [] media \in JsonTypes /\ ~binary /\ "application/json" \in DOMAIN Decoders ->
                           {Decoders["application/json"]}
                      [] "*/*" \in DOMAIN Decoders -> {Decoders["*/*"]}
                      [] OTHER -> {} IN
  IF binary /\ enc.contentTypes = {} THEN Prim("string", part.text)
  ELSE IF enc.contentTypes # {} /\ media \notin enc.contentTypes THEN ParseError
  ELSE IF registered = {} THEN IF binary THEN Prim("string", part.text) ELSE ParseError
  ELSE IF registered = {"json"}
  THEN IF part.text \in DOMAIN Json THEN Json[part.text] ELSE ParseError
  ELSE Prim("string", part.text)

\* The schemas that declare a part of a form.
Declared(s, name) ==
  IF schemas[s].allOf # <<>>
  THEN LET with == { i \in DOMAIN schemas[s].allOf :
                       name \in DOMAIN schemas[schemas[s].allOf[i]].properties } IN
       IF with = {} THEN {} ELSE {schemas[schemas[s].allOf[Min(with)]].properties[name]}
  ELSE IF name \in DOMAIN schemas[s].properties THEN {schemas[s].properties[name]}
  ELSE IF schemas[s].additional \in {"none", "true", "false"} THEN {}
  ELSE LET p == schemas[schemas[s].additional].properties IN
       IF name \in DOMAIN p THEN {p[name]} ELSE {}

\* Parts without a type of their own are primitives.
TypedPart(part, s, v) ==
  IF v \notin Errors /\ (part.type = "" \/ (part.type = "text/plain" /\ ~part.params))
  THEN ParsePrimitive(v.text, schemas[s]) ELSE v

DecodePartAs(part, p, list, enc) ==
  IF ~(list /\ Is(p, "array")) THEN TypedPart(part, p, DecodeBody(part, p, enc))
  ELSE IF schemas[p].items = {} THEN OtherError
  ELSE LET item == CHOOSE i \in schemas[p].items : TRUE IN TypedPart(part, item, DecodeBody(part, item, enc))

DecodePart(part, s, name, encodings) ==
  IF Declared(s, name) = {} THEN ParseError
  ELSE DecodePartAs(part, CHOOSE p \in Declared(s, name) : TRUE, schemas[s].allOf = <<>>,
                    EncodingOf(encodings, name))

\* The values that the parts of each key have, as an object.
FormObject(s, values) ==
  LET errors == Errors \cap UNION { Range(values[k]) : k \in DOMAIN values }
      IsList(name) == \E p \in Declared(s, name) : Is(p, "array") IN
  IF errors # {} THEN CHOOSE e \in errors : TRUE
  ELSE Obj([name \in { k[1] : k \in DOMAIN values } |->
              IF IsList(name) THEN Arr(values[<<name>>]) ELSE values[<<name>>][1]])

MultipartBody(parts, s, encodings) ==
  LET Skipped(name) == /\ schemas[s].allOf = <<>> /\ schemas[s].additional = "true"
                       /\ Declared(s, name) = {}
      keys == { k \in DOMAIN parts : parts[k] # <<>> /\ ~Skipped(k[1]) } IN
  IF ~Is(s, "object") THEN OtherError
  ELSE FormObject(s, [k \in keys |-> [i \in DOMAIN parts[k] |->
                                       DecodePart(parts[k][i], s, k[1], encodings)]])

----------------------------------------------------------------------------
(* The client: RFC 6570, with the operators that OpenAPI maps styles to.   *)

NamesOf(v) == SetToSeq(DOMAIN v.props)

Expansion(first, sep, named, explode, name, v) ==
  LET key == IF named THEN name \o <<"=">> ELSE <<>>
      items == [i \in DOMAIN v.items |-> v.items[i].text]
      Pairs(eq) == [i \in DOMAIN NamesOf(v) |->
                      NamesOf(v)[i] \o eq \o v.props[NamesOf(v)[i]].text] IN
  first \o
    CASE v.t = "array" /\ explode  -> Join([i \in DOMAIN items |-> key \o items[i]], sep)
      [] v.t = "array" /\ ~explode -> key \o Join(items, <<",">>)
      [] v.t = "object" /\ explode -> Join(Pairs(<<"=">>), sep)
      [] v.t = "object" /\ ~explode -> key \o Join(Pairs(<<",">>), <<",">>)
      [] OTHER -> key \o v.text

\* The leaves of a value, by the path that leads to them.
RECURSIVE Leaves(_)
Leaves(v) ==
  LET Under(children) ==
        [p \in UNION { { <<k>> \o q : q \in DOMAIN Leaves(children[k]) } : k \in DOMAIN children } |->
           Leaves(children[p[1]])[Tail(p)]] IN
  CASE v.t = "array" -> Under([k \in { Itoa(i - 1) : i \in DOMAIN v.items } |-> v.items[Atoi(k) + 1]])
    [] v.t = "object" -> Under(v.props)
    [] v = Nil -> <<>>   \* a hole in an array
    [] OTHER -> <<>> :> <<v.text>>

Query(name, style, explode, v) ==
  LET One(delim) == IF v.t = "array" THEN Join([i \in DOMAIN v.items |-> v.items[i].text], delim)
                    ELSE Join([i \in DOMAIN NamesOf(v) |->
                                 NamesOf(v)[i] \o delim \o v.props[NamesOf(v)[i]].text], delim) IN
  CASE style = "deepObject" -> [k \in { <<name>> \o p : p \in DOMAIN Leaves(v) } |-> Leaves(v)[Tail(k)]]
    [] v.t \notin {"array", "object"} -> <<name>> :> <<v.text>>
    [] v.t = "array" /\ explode -> <<name>> :> [i \in DOMAIN v.items |-> v.items[i].text]
    [] v.t = "object" /\ explode -> Leaves(v)
    [] OTHER -> <<name>> :>
         <<One(CASE style = "form" -> <<",">> [] style = "spaceDelimited" -> <<" ">> [] OTHER -> <<"|">>)>>

Written(c) ==
  LET One(s) == <<c.name>> :> <<s>>
      Text(v) == CHOOSE t \in DOMAIN Json : Json[t] = v
      Part(v) == IF c.json THEN [type |-> "application/json", params |-> FALSE, text |-> Text(v)]
                 ELSE [type |-> "", params |-> FALSE, text |-> v.text] IN
  CASE c.in = "path" ->
         One(CASE c.style = "simple" -> Expansion(<<>>, <<",">>, FALSE, c.explode, c.name, c.value)
               [] c.style = "label"  -> Expansion(<<".">>, <<".">>, FALSE, c.explode, c.name, c.value)
               [] OTHER -> Expansion(<<";">>, <<";">>, TRUE, c.explode, c.name, c.value))
    [] c.in \in {"header", "cookie"} -> One(Expansion(<<>>, <<",">>, FALSE, c.explode, c.name, c.value))
    [] c.in = "query" -> Query(c.name, c.style, c.explode, c.value)
    [] c.in = "content" -> One(Text(c.value))
    [] c.in = "urlencoded" ->
         LET Of(n) == Query(n, EncodingOf(c.encodings, n).style, EncodingOf(c.encodings, n).explode,
                            c.value.props[n]) IN
         FoldLeft(LAMBDA f, n : Of(n) @@ f, <<>>, NamesOf(c.value))
    [] OTHER -> [k \in { <<n>> : n \in DOMAIN c.value.props } |->
                   LET v == c.value.props[k[1]] IN
                   IF v.t = "array" THEN [i \in DOMAIN v.items |-> Part(v.items[i])] ELSE <<Part(v)>>]

----------------------------------------------------------------------------
NotYet == [t |-> "not yet"]

Init == sent \in Cases /\ wire = NotYet /\ result = NotYet

\* The client leaves the parameter out or writes it, among other things.
Send ==
  /\ wire = NotYet
  /\ \E others \in Others[sent.in] : \E given \in {TRUE} \cup (IF sent.optional THEN {FALSE} ELSE {}) :
       /\ wire' = (IF given THEN Written(sent) ELSE <<>>) @@ others
       /\ sent' = [sent EXCEPT !.given = given]
  /\ UNCHANGED result

\* shorterFirst: how the map of an object's strings happens to be ordered.
Decode ==
  /\ wire # NotYet /\ result = NotYet
  /\ \E shorterFirst \in BOOLEAN :
       LET d == [in |-> sent.in, style |-> sent.style, explode |-> sent.explode,
                 name |-> sent.name, wire |-> wire, shorterFirst |-> shorterFirst]
           f == [wire |-> wire, encodings |-> sent.encodings, shorterFirst |-> shorterFirst] IN
       result' = CASE sent.in = "content" ->
                        DecodeContent([d EXCEPT !.in = "query"], sent.schema, FALSE)
                   [] sent.in = "urlencoded" -> UrlencodedBody(f, sent.schema)
                   [] sent.in = "multipart" ->
                        Parsed(MultipartBody(wire, sent.schema, sent.encodings), TRUE)
                   [] OTHER -> DecodeStyled(d, sent.schema, FALSE)
  /\ UNCHANGED <<sent, wire>>

Next == Send \/ Decode

Spec == Init /\ [][Next]_vars

----------------------------------------------------------------------------
(* Properties.                                                             *)

(* What a client writes in a style, as OpenAPI and RFC 6570 spell it out,  *)
(* is decoded to the value that it wrote, with the types of the schema,    *)
(* the items of arrays at their indexes, holes where an index is left out, *)
(* and whatever else the request carries.                                  *)
RoundTrip ==
  result # NotYet /\ sent.given => result = Result(sent.value, TRUE)

\* An object that form and explode spread over the keys of the whole query.
Spread(c) == c.in = "query" /\ c.style = "form" /\ c.explode /\ c.value.t = "object"

(* A parameter that the client left out is neither found nor failed, and   *)
(* nothing of what belongs to others is in its value: an optional          *)
(* parameter must not turn a request away, nor take what was not sent for  *)
(* it.  Without a value there is nil, or the nil map of an object; an      *)
(* object that is spread over the query is an empty one.                   *)
LeftOut ==
  result # NotYet /\ ~sent.given =>
    /\ ~result.found /\ result.failed = ""
    /\ result.value \in {Nil, NilMap} \cup (IF Spread(sent) THEN {Obj(<<>>)} ELSE {})
=============================================================================
