---------------------------- MODULE SchemaVisit ----------------------------
(***************************************************************************)
(* The visit of a value by a schema (openapi3/schema_3point0_validator.go):*)
(* the order in which keywords are judged, where each of the three error   *)
(* modes stops, and the defaults that the visit writes into the value on   *)
(* its way.  A Go map is shared by whoever holds it, so the value a visit  *)
(* leaves behind is part of what it returns.                               *)
(*                                                                         *)
(* A schema is an element of DOMAIN schemas and keywords name schemas, so  *)
(* that schemas may refer to themselves.  An optional keyword is a set of  *)
(* at most one element.  Numbers are counted in halves: 3 is 1.5.          *)
(***************************************************************************)
EXTENDS Integers, FiniteSets, SequencesExt

CONSTANTS
  Inputs, \* what may be visited: records [schemas, root, value]
  Names,  \* the property names, in the order componentNames sorts them
  Modes   \* the settings: [report, direction, defaults], see Settings

VARIABLES
  schemas,  \* the schemas of the document
  root,     \* the one that VisitJSON is called on
  given,    \* the value before the visit
  settings, \* schemaValidationSettings
  outcome   \* [errs, value, called], or Pending

vars == <<schemas, root, given, settings, outcome>>

Settings == [report: {"failfast", "first", "multi"},
             direction: {"none", "request", "response"},
             defaults: BOOLEAN]

ASSUME ModesAssumption == Modes \subseteq Settings

AnyType == {"any"}  \* a nil Type
Absent == [kind |-> "absent"]

(* A schema without keywords; the schemas of a document are variations.    *)
Plain ==
  [always |-> {}, type |-> AnyType, nullable |-> FALSE, enum |-> {},
   readOnly |-> FALSE, writeOnly |-> FALSE, default |-> Absent,
   not |-> {}, oneOf |-> <<>>, anyOf |-> <<>>, allOf |-> <<>>,
   discriminator |-> {},
   min |-> {}, max |-> {}, exclusiveMin |-> {}, exclusiveMax |-> {},
   minIsExclusive |-> FALSE, maxIsExclusive |-> FALSE, multipleOf |-> {},
   minLength |-> 0, maxLength |-> {}, pattern |-> {}, format |-> {},
   minItems |-> 0, maxItems |-> {}, uniqueItems |-> FALSE, items |-> {},
   prefixItems |-> 0,
   properties |-> <<>>, required |-> <<>>, minProps |-> 0, maxProps |-> {},
   additional |-> {}, closed |-> FALSE]

Keywords == DOMAIN Plain \ {"default", "discriminator", "prefixItems"}
Children == {"not", "items", "additional", "oneOf", "anyOf", "allOf", "properties"}

multi == settings.report = "multi"
asreq == settings.direction = "request"
asrep == settings.direction = "response"
SetsDefaults == settings.defaults /\ (asreq \/ asrep)

PermitsNull(schema) == schema.nullable \/ "null" \in schema.type
Permits(schema, type) == schema.type = AnyType \/ type \in schema.type

(* The schemas that a keyword of a schema names.                           *)
Named(schema, keyword) ==
  IF keyword \in {"not", "items", "additional"}
  THEN schema[keyword]
  ELSE Range(schema[keyword])

(* IsEmpty: no keyword is set but those that lead to empty schemas only.   *)
RECURSIVE IsEmpty(_)
IsEmpty(s) ==
  LET schema == schemas[s] IN
  /\ \A keyword \in Keywords \ Children : schema[keyword] = Plain[keyword]
  /\ \A keyword \in Children : \A t \in Named(schema, keyword) : IsEmpty(t)

----------------------------------------------------------------------------
(* Errors.  path is the JSON pointer, schema and field what was violated,  *)
(* inner the errors of the alternatives that the error wraps.              *)

Outcome(errs, v, called) == [errs |-> errs, value |-> v, called |-> called]
Accept(v) == Outcome(<<>>, v, FALSE)
Error(s, field, path, inner) ==
  [schema |-> s, field |-> field, path |-> path, inner |-> inner]
Refuse(s, field, v) == Outcome(<<Error(s, field, <<>>, <<>>)>>, v, FALSE)

(* What a list of checks reports: all that fail, or the first.             *)
Reported(errs) == IF multi \/ errs = <<>> THEN errs ELSE <<Head(errs)>>

Failing(s, checks) ==
  LET failing == SelectSeq(checks, LAMBDA c : ~c[2])
  IN Reported([i \in DOMAIN failing |-> Error(s, failing[i][1], <<>>, <<>>)])

(* markSchemaErrorKey and markSchemaErrorIndex: the errors an error wraps  *)
(* are about a value below the same key.  errSchema carries no path.       *)
MarkedOutside(errs, key) ==  \* mutant: leaves wrapped errors alone
  [i \in DOMAIN errs |-> [errs[i] EXCEPT !.path = <<key>> \o @]]

RECURSIVE Marked(_, _)
Marked(errs, key) ==
  [i \in DOMAIN errs |->
     [errs[i] EXCEPT !.path = <<key>> \o @, !.inner = Marked(@, key)]]

(* One step after another on the same value: the second sees what the      *)
(* first has written, and runs only if the first has found no error.       *)
AndThen(r, Step(_)) ==
  IF r.errs # <<>> THEN r
  ELSE LET next == Step(r.value)
       IN [next EXCEPT !.called = @ \/ r.called]

(* A loop over xs in which MultiErrors goes on after an error.             *)
Loop(r, xs, Step(_, _)) ==
  FoldLeft(LAMBDA acc, x :
             IF acc.errs # <<>> /\ ~multi THEN acc
             ELSE LET next == Step(x, acc.value)
                  IN Outcome(acc.errs \o next.errs, next.value,
                             acc.called \/ next.called),
           r, xs)

----------------------------------------------------------------------------
(* Scalars                                                                 *)

MultipleOf(n, m) == m > 0 /\ n % m = 0

NumberChecks(schema, n) ==
  <<<<"type", (Permits(schema, "integer") /\ ~Permits(schema, "number")) => n % 2 = 0>>,
    <<"format", \A f \in schema.format : n \in f>>,
    <<"exclusiveMinimum",
      /\ \A b \in schema.exclusiveMin : n > b
      /\ schema.exclusiveMin = {} /\ schema.minIsExclusive => \A b \in schema.min : n > b>>,
    <<"exclusiveMaximum",
      /\ \A b \in schema.exclusiveMax : n < b
      /\ schema.exclusiveMax = {} /\ schema.maxIsExclusive => \A b \in schema.max : n < b>>,
    <<"minimum", \A b \in schema.min : b <= n>>,
    <<"maximum", \A b \in schema.max : b >= n>>,
    <<"multipleOf", \A m \in schema.multipleOf : MultipleOf(n, m)>>>>

StringChecks(schema, s) ==
  <<<<"minLength", Len(s) >= schema.minLength>>,
    <<"maxLength", \A m \in schema.maxLength : Len(s) <= m>>,
    <<"pattern", \A p \in schema.pattern : s \in p>>,
    <<"format", \A f \in schema.format : s \in f>>>>

VisitJSONNumber(s, v) ==
  IF ~Permits(schemas[s], "integer") /\ ~Permits(schemas[s], "number")
  THEN Refuse(s, "type", v)
  ELSE Outcome(Failing(s, NumberChecks(schemas[s], v.num)), v, FALSE)

VisitJSONString(s, v) ==
  IF ~Permits(schemas[s], "string") THEN Refuse(s, "type", v)
  ELSE Outcome(Failing(s, StringChecks(schemas[s], v.str)), v, FALSE)

VisitJSONBoolean(s, v) ==
  IF Permits(schemas[s], "boolean") THEN Accept(v) ELSE Refuse(s, "type", v)

VisitJSONNull(s, v) ==
  IF PermitsNull(schemas[s]) THEN Accept(v) ELSE Refuse(s, "nullable", v)

VisitEnum(s, v) ==
  IF schemas[s].enum = {} \/ v \in schemas[s].enum THEN Accept(v)
  ELSE Refuse(s, "enum", v)

----------------------------------------------------------------------------
(* Objects, arrays and the operations on other schemas.  here is the part  *)
(* of visitedSchemas that visits the current value.                        *)

RECURSIVE VisitJSON(_, _, _)

(* visitChildJSON: nothing has visited a nested value yet.                 *)
VisitChildSeen(s, v) == VisitJSON(s, v, <<root>>)  \* mutant: visitedBase stays
VisitChild(s, v) == VisitJSON(s, v, <<>>)

Key(k) == <<"key", k>>
Index(i) == <<"index", i>>

VisitJSONArray(s, v) ==
  LET schema == schemas[s]
      checks == <<<<"minItems", Len(v.items) >= schema.minItems>>,
                  <<"maxItems", \A m \in schema.maxItems : Len(v.items) <= m>>,
                  <<"uniqueItems", schema.uniqueItems => Cardinality(Range(v.items)) = Len(v.items)>>>>
      covered == IF schema.items = {} THEN <<>>
                 ELSE [i \in 1..(Len(v.items) - schema.prefixItems) |-> i + schema.prefixItems]
      Item(i, w) ==
        LET r == VisitChild(CHOOSE t \in schema.items : TRUE, w.items[i])
        IN Outcome(Marked(r.errs, Index(i)), [w EXCEPT !.items[i] = r.value], r.called)
  IN IF ~Permits(schema, "array") THEN Refuse(s, "type", v)
     ELSE Loop(Outcome(Failing(s, checks), v, FALSE), covered, Item)

NamesIn(props) == SelectSeq(Names, LAMBDA k : k \in DOMAIN props)
IsNull(v, k) == k \notin DOMAIN v.props \/ v.props[k].kind = "null"
With(v, k, w) == [v EXCEPT !.props = [n \in DOMAIN @ \cup {k} |-> IF n = k THEN w ELSE @[n]]]

(* The schemas whose allOf leads to readOnlyOrWriteOnlyInAllOf's search.   *)
RECURSIVE AllOfs(_)
AllOfs(S) ==
  LET next == S \cup UNION {Range(schemas[s].allOf) : s \in S}
  IN IF next = S THEN S ELSE AllOfs(next)

Hidden(t) == (asreq /\ schemas[t].readOnly) \/ (asrep /\ schemas[t].writeOnly)

(* A property that the other side owns is not required.                    *)
Waived(s, k, here) ==
  \E t \in AllOfs({s} \cup Range(here)) :
    k \in DOMAIN schemas[t].properties /\ Hidden(schemas[t].properties[k])

VisitJSONObject(s, v, here) ==
  LET schema == schemas[s]
      Own(k, w) ==  \* the default of a property, and whose property it is
        LET t == schema.properties[k]
            set == SetsDefaults /\ IsNull(w, k) /\ schemas[t].default # Absent /\ ~Hidden(t)
            x == IF set THEN With(w, k, schemas[t].default) ELSE w
            field == IF asreq THEN "readOnly" ELSE "writeOnly"
        IN Outcome(IF Hidden(t) /\ ~IsNull(x, k) THEN <<Error(t, field, <<Key(k)>>, <<>>)>> ELSE <<>>,
                   x, set)
      owned == IF asreq \/ asrep THEN Loop(Accept(v), NamesIn(schema.properties), Own) ELSE Accept(v)
      size == Cardinality(DOMAIN owned.value.props)
      Count(field, w) ==
        IF field = "minProperties" /\ size < schema.minProps THEN Refuse(s, field, w)
        ELSE IF field = "maxProperties" /\ \E m \in schema.maxProps : size > m THEN Refuse(s, field, w)
        ELSE Accept(w)
      Property(k, w) ==
        LET by == IF k \in DOMAIN schema.properties THEN {schema.properties[k]} ELSE schema.additional
            r == VisitChild(CHOOSE t \in by : TRUE, w.props[k])
        IN IF by # {} /\ (k \in DOMAIN schema.properties \/ ~schema.closed)
           THEN Outcome(Marked(r.errs, Key(k)), [w EXCEPT !.props[k] = r.value], r.called)
           ELSE IF schema.closed THEN Refuse(s, "properties", w) ELSE Accept(w)
      Required(k, w) ==
        IF k \in DOMAIN w.props \/ Waived(s, k, here) THEN Accept(w)
        ELSE Outcome(<<Error(s, "required", <<Key(k)>>, <<>>)>>, w, FALSE)
      counted == Loop(owned, <<"minProperties", "maxProperties">>, Count)
      judged == Loop(counted, NamesIn(owned.value.props), Property)
  IN IF ~Permits(schema, "object") THEN Refuse(s, "type", v)
     ELSE Loop(judged, schema.required, Required)

VisitNot(s, v, here) ==
  IF schemas[s].not = {} THEN Accept(v)
  ELSE LET r == VisitJSON(CHOOSE t \in schemas[s].not : TRUE, v, here)
       IN IF r.errs = <<>> THEN [Refuse(s, "not", r.value) EXCEPT !.called = r.called]
          ELSE Outcome(<<>>, r.value, r.called)

(* resolveDiscriminatorRef: which alternatives remain, or an error.        *)
Discriminated(s, v, alternatives) ==
  LET schema == schemas[s]
      d == CHOOSE d \in schema.discriminator : TRUE
      tag == v.props[d.property]
  IN IF schema.discriminator = {} \/ v.kind # "object"
     THEN [bad |-> FALSE, remain |-> alternatives]
     ELSE IF \/ d.property \notin DOMAIN v.props
             \/ tag.kind # "string"
             \/ d.mapping # <<>> /\ tag.str \notin DOMAIN d.mapping
     THEN [bad |-> TRUE, remain |-> <<>>]
     ELSE [bad |-> FALSE,
           remain |-> SelectSeq(alternatives,
                                LAMBDA t : d.mapping = <<>> \/ t = d.mapping[tag.str])]

RerunForgotten(t, v, here, called) == Outcome(<<>>, v, called)  \* mutant

(* Alternatives are tried on copies; what matched is visited again on the  *)
(* value itself to write its defaults, and that second result is ignored.  *)
Rerun(t, v, here, called) ==
  LET r == VisitJSON(t, v, here) IN Outcome(<<>>, r.value, r.called \/ called)

VisitOneOf(s, v, here) ==
  LET chosen == Discriminated(s, v, schemas[s].oneOf)
      tried == [i \in DOMAIN chosen.remain |-> VisitJSON(chosen.remain[i], v, here)]
      matched == {i \in DOMAIN tried : tried[i].errs = <<>>}
      called == \E i \in DOMAIN tried : tried[i].called
      inner == IF matched = {} THEN FoldLeft(LAMBDA e, r : e \o r.errs, <<>>, tried) ELSE <<>>
  IN IF schemas[s].oneOf = <<>> THEN Accept(v)
     ELSE IF chosen.bad THEN Refuse(s, "discriminator", v)
     ELSE IF Cardinality(matched) # 1
     THEN Outcome(<<Error(s, "oneOf", <<>>, inner)>>, v, called)
     ELSE IF asreq \/ asrep
     THEN Rerun(chosen.remain[CHOOSE i \in matched : TRUE], v, here, called)
     ELSE Accept(v)

VisitAnyOf(s, v, here) ==
  LET chosen == Discriminated(s, v, schemas[s].anyOf)
      tried == [i \in DOMAIN chosen.remain |-> VisitJSON(chosen.remain[i], v, here)]
      matched == {i \in DOMAIN tried : tried[i].errs = <<>>}
      first == Min(matched)
  IN IF schemas[s].anyOf = <<>> THEN Accept(v)
     ELSE IF chosen.bad THEN Refuse(s, "discriminator", v)
     ELSE IF matched = {}
     THEN Outcome(<<Error(s, "anyOf", <<>>, <<>>)>>, v, \E i \in DOMAIN tried : tried[i].called)
     ELSE Rerun(chosen.remain[first], v, here, \E i \in 1..first : tried[i].called)

(* All of allOf is visited unless validation fails fast, on the value      *)
(* itself: each schema sees the defaults of those before it.               *)
VisitAllOf(s, v, here) ==
  LET Part(acc, t) ==
        IF acc.errs # <<>> /\ settings.report = "failfast" THEN acc
        ELSE LET r == VisitJSON(t, acc.value, here)
             IN Outcome(acc.errs \o r.errs, r.value, acc.called \/ r.called)
      r == FoldLeft(Part, Accept(v), schemas[s].allOf)
  IN IF r.errs = <<>> THEN r ELSE [r EXCEPT !.errs = <<Error(s, "allOf", <<>>, r.errs)>>]

Combines(schema) == schema.oneOf # <<>> \/ schema.anyOf # <<>> \/ schema.allOf # <<>>

(* The switch on the type of the value.                                    *)
VisitKind(s, v, here) ==
  CASE v.kind = "null"    -> VisitJSONNull(s, v)
    [] v.kind = "boolean" -> VisitJSONBoolean(s, v)
    [] v.kind = "number"  -> VisitJSONNumber(s, v)
    [] v.kind = "string"  -> VisitJSONString(s, v)
    [] v.kind = "array"   -> VisitJSONArray(s, v)
    [] v.kind = "object"  -> VisitJSONObject(s, v, here)
    [] OTHER              -> Refuse(s, "type", v)

VisitJSON(s, v, above) ==
  LET schema == schemas[s]
      here == Append(above, s)
  IN IF s \in Range(above) THEN Accept(v)
     ELSE IF v.kind = "null" /\ PermitsNull(schema) THEN Accept(v)
     ELSE IF v.kind = "nonfinite" THEN Refuse(s, "finite", v)
     ELSE IF schema.always # {}
     THEN IF TRUE \in schema.always THEN Accept(v) ELSE Refuse(s, "boolean", v)
     ELSE IF IsEmpty(s)
     THEN IF v.kind = "null" THEN VisitJSONNull(s, v) ELSE Accept(v)
     ELSE AndThen(AndThen(AndThen(AndThen(VisitNot(s, v, here),
            LAMBDA w : VisitOneOf(s, w, here)),
            LAMBDA w : VisitAnyOf(s, w, here)),
            LAMBDA w : VisitAllOf(s, w, here)),
            LAMBDA w : IF w.kind = "null" /\ Combines(schema) THEN Accept(w)
                       ELSE AndThen(VisitEnum(s, w), LAMBDA x : VisitKind(s, x, here)))

----------------------------------------------------------------------------
Pending == Outcome(<<>>, Absent, FALSE)

Init ==
  /\ \E i \in Inputs : schemas = i.schemas /\ root = i.root /\ given = i.value
  /\ settings \in Modes
  /\ outcome = Pending

(* Schema.VisitJSON, and IsMatching where it fails fast.                   *)
Visit ==
  /\ outcome = Pending
  /\ outcome' = VisitJSON(root, given, <<>>)
  /\ UNCHANGED <<schemas, root, given, settings>>

Next == Visit
Spec == Init /\ [][Next]_vars

----------------------------------------------------------------------------
(* What a schema means, without an order: the reference of the properties. *)
(* beside is the set of schemas that apply to the same value.  oneOf is    *)
(* counted before a default makes the value match one more alternative.    *)

RECURSIVE Means(_, _, _)
RECURSIVE Completed(_, _)

(* Whether an alternative is one for the value, given its own defaults.    *)
Matches(t, v, beside) == Means(t, Completed({t}, v), beside)

FieldsMean(s, v, beside) ==
  LET schema == schemas[s]
      size == Cardinality(DOMAIN v.props)
  IN /\ size >= schema.minProps /\ \A m \in schema.maxProps : size <= m
     /\ \A k \in DOMAIN v.props :
          IF k \in DOMAIN schema.properties
          THEN /\ Means(schema.properties[k], v.props[k], {})
               /\ Hidden(schema.properties[k]) => v.props[k].kind = "null"
          ELSE ~schema.closed /\ \A t \in schema.additional : Means(t, v.props[k], {})
     /\ \A k \in Range(schema.required) :
          \/ k \in DOMAIN v.props
          \/ \E t \in AllOfs(beside \cup {s}) :
               k \in DOMAIN schemas[t].properties /\ Hidden(schemas[t].properties[k])

ItemsMean(schema, items) ==
  /\ Len(items) >= schema.minItems /\ \A m \in schema.maxItems : Len(items) <= m
  /\ schema.uniqueItems => IsInjective(items)
  /\ \A i \in DOMAIN items : i > schema.prefixItems => \A t \in schema.items : Means(t, items[i], {})

ChecksHold(checks) == \A i \in DOMAIN checks : checks[i][2]

KindMeans(s, v, beside) ==
  LET schema == schemas[s] IN
  \/ v.kind = "boolean" /\ Permits(schema, "boolean")
  \/ /\ v.kind = "number" /\ (Permits(schema, "integer") \/ Permits(schema, "number"))
     /\ ChecksHold(NumberChecks(schema, v.num))
  \/ v.kind = "string" /\ Permits(schema, "string") /\ ChecksHold(StringChecks(schema, v.str))
  \/ v.kind = "array" /\ Permits(schema, "array") /\ ItemsMean(schema, v.items)
  \/ v.kind = "object" /\ Permits(schema, "object") /\ FieldsMean(s, v, beside)

Means(s, v, beside) ==
  LET schema == schemas[s]
      here == beside \cup {s}
      Of(alternatives) == {t \in Range(Discriminated(s, v, alternatives).remain) : Matches(t, v, here)}
  IN \/ s \in beside
     \/ v.kind = "null" /\ PermitsNull(schema)
     \/ v.kind # "nonfinite" /\ schema.always = {TRUE}
     \/ v.kind \notin {"null", "nonfinite"} /\ schema = Plain
     \/ /\ v.kind # "nonfinite" /\ schema.always = {}
        /\ \A t \in schema.not : ~Means(t, v, here)
        /\ schema.oneOf # <<>> =>
             Of(schema.oneOf) # {} /\ (SetsDefaults \/ Cardinality(Of(schema.oneOf)) = 1)
        /\ schema.anyOf # <<>> => Of(schema.anyOf) # {}
        /\ \A t \in Range(schema.allOf) : Means(t, v, here)
        /\ \/ v.kind = "null" /\ Combines(schema)
           \/ (schema.enum # {} => v \in schema.enum) /\ KindMeans(s, v, beside)

(* The schemas that apply to a value, alternatives that do not match left  *)
(* out: the defaults of their properties are the value's.                  *)
RECURSIVE Applying(_, _, _)
Applying(s, v, beside) ==
  LET schema == schemas[s]
      here == beside \cup {s}
      Of(alternatives) ==
        LET remain == Discriminated(s, v, alternatives).remain
            matched == {i \in DOMAIN remain : Matches(remain[i], v, here)}
        IN IF matched = {} THEN {} ELSE {remain[Min(matched)]}
  IN IF s \in beside \/ schema.always # {} \/ IsEmpty(s) THEN {}
     ELSE {s} \cup UNION {Applying(t, v, here) :
                            t \in Range(schema.allOf) \cup Of(schema.oneOf) \cup Of(schema.anyOf)}

Completed(S, v) ==
  LET applying == UNION {Applying(s, v, {}) : s \in S}
      For(k) == {schemas[s].properties[k] : s \in {t \in applying : k \in DOMAIN schemas[t].properties}}
      Others(k) == UNION {schemas[s].additional : s \in {t \in applying : k \notin DOMAIN schemas[t].properties}}
      Defaults(k) == {schemas[t].default : t \in {t \in For(k) : schemas[t].default # Absent /\ ~Hidden(t)}}
      set == {k \in Range(Names) : IsNull(v, k) /\ Defaults(k) # {}}
      Field(k) == IF k \in set THEN CHOOSE w \in Defaults(k) : TRUE ELSE v.props[k]
  IN IF ~SetsDefaults THEN v
     ELSE IF v.kind = "object"
     THEN [v EXCEPT !.props = [k \in DOMAIN @ \cup set |-> Completed(For(k) \cup Others(k), Field(k))]]
     ELSE IF v.kind = "array"
     THEN [v EXCEPT !.items = [i \in DOMAIN @ |-> Completed(UNION {schemas[s].items : s \in applying}, @[i])]]
     ELSE v

----------------------------------------------------------------------------
(* Properties                                                              *)

Done == outcome # Pending
Accepted == outcome.errs = <<>>

(* The verdict does not depend on the order of the keywords, on where an   *)
(* error mode stops or on what was visited before: without defaults it is  *)
(* the schema's.  With defaults, what is accepted conforms once they are   *)
(* in it (visitJSON, visitXOFOperations, visitedBase).                     *)
VerdictIsTheSchemas ==
  Done =>
    /\ Accepted => Means(root, Completed({root}, given), {})
    /\ ~Accepted /\ ~SetsDefaults => ~Means(root, given, {})

(* An accepted value is left with the defaults of the schemas that apply,  *)
(* nested ones and those of matched alternatives included, and with none   *)
(* of an alternative that was tried and refused; without that, or refused, *)
(* a visit that sets no defaults leaves the value alone.  DefaultsSet      *)
(* hears of it.                                                            *)
DefaultsOfTheMatched ==
  Done /\ Accepted =>
    /\ outcome.value = Completed({root}, given)
    /\ outcome.value # given => outcome.called

RECURSIVE Within(_)
Within(errs) == Range(errs) \cup UNION {Within(errs[i].inner) : i \in DOMAIN errs}

RECURSIVE Place(_, _)
Place(v, path) ==
  IF path = <<>> THEN v
  ELSE LET key == Head(path) IN
       IF key[1] = "key"
       THEN IF v.kind = "object" /\ key[2] \in DOMAIN v.props THEN Place(v.props[key[2]], Tail(path)) ELSE Absent
       ELSE IF v.kind = "array" /\ key[2] \in DOMAIN v.items THEN Place(v.items[key[2]], Tail(path)) ELSE Absent

(* The JSON pointer of every error, also of those an allOf or oneOf error  *)
(* wraps, leads to a value that the error's schema refuses, or that is     *)
(* missing (markSchemaErrorKey).                                           *)
PointersLeadToFaults ==
  Done /\ settings.report # "failfast" /\ ~SetsDefaults =>
    \A e \in Within(outcome.errs) :
      IF e.field = "required"
      THEN Place(given, Front(e.path)) # Absent /\ Place(given, e.path) = Absent
      ELSE /\ Place(given, e.path) # Absent
           /\ \/ ~Means(e.schema, Place(given, e.path), {})
              \/ e.field \in {"readOnly", "writeOnly"} /\ Hidden(e.schema)
=============================================================================
