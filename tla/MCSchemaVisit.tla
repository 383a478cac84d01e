--------------------------- MODULE MCSchemaVisit ---------------------------
(* Instances of SchemaVisit: families of schemas, each with the values that *)
(* tell its members apart.                                                  *)
EXTENDS SchemaVisit, TLC

MCNames == <<"tag", "x", "y">>
MCModes == {m \in Settings : m.defaults => m.direction # "none"}

Num(n) == [kind |-> "number", num |-> n]
Str(s) == [kind |-> "string", str |-> s]
Bool(b) == [kind |-> "boolean", is |-> b]
Null == [kind |-> "null"]
Arr(items) == [kind |-> "array", items |-> items]
Obj(props) == [kind |-> "object", props |-> props]

Scalars == {Null, Bool(TRUE), Num(2), Num(3), Num(8), Str("a"), Str("bbb"),
            [kind |-> "nonfinite"], [kind |-> "unhandled"]}

OfType(t) == [Plain EXCEPT !.type = {t}]
Object(props) == [OfType("object") EXCEPT !.properties = props]
OneWorld(heap, values) == {[schemas |-> heap, root |-> "root", value |-> v] : v \in values}

(* Each scalar keyword, on its own and two that fail together.             *)
Scalar ==
  {OfType(t) : t \in {"boolean", "integer", "number", "string", "object"}}
  \cup {Plain, [Plain EXCEPT !.nullable = TRUE], [Plain EXCEPT !.type = {"string", "null"}],
        [Plain EXCEPT !.always = {TRUE}], [Plain EXCEPT !.always = {FALSE}],
        [Plain EXCEPT !.enum = {Num(2), Null}],
        [OfType("integer") EXCEPT !.min = {4}, !.multipleOf = {4}],
        [OfType("number") EXCEPT !.min = {3}, !.minIsExclusive = TRUE],
        [OfType("number") EXCEPT !.exclusiveMin = {2}, !.exclusiveMax = {8}],
        [OfType("number") EXCEPT !.max = {2}, !.maxIsExclusive = TRUE, !.format = {{3}}],
        [OfType("string") EXCEPT !.minLength = 2, !.pattern = {{"a"}}],
        [OfType("string") EXCEPT !.maxLength = {1}, !.format = {{"a"}}]}

ScalarInputs == UNION {OneWorld("root" :> s, Scalars) : s \in Scalar}

(* Two objects, with and without defaults, in each combination.            *)
Parts ==
  {Object("x" :> "n"), Object("x" :> "d"), Object("y" :> "d"),
   [Object("x" :> "n") EXCEPT !.required = <<"x">>],
   [Object("x" :> "d") EXCEPT !.required = <<"x", "y">>],
   [Object("y" :> "s") EXCEPT !.required = <<"y">>],
   [Object("y" :> "s") EXCEPT !.closed = TRUE]}
Fields == {Num(2), Str("a"), Null}
Objects == {Obj(f) : f \in UNION {[S -> Fields] : S \in SUBSET {"x", "y"}}}
Combinations ==
  {[OfType("object") EXCEPT !.oneOf = <<"A", "B">>],
   [OfType("object") EXCEPT !.anyOf = <<"A", "B">>],
   [OfType("object") EXCEPT !.allOf = <<"A", "B">>]}
Heap(r, a, b) ==
  "root" :> r @@ "A" :> a @@ "B" :> b
  @@ "n" :> OfType("number") @@ "s" :> OfType("string")
  @@ "d" :> [OfType("number") EXCEPT !.default = Num(2)]

(* A default that a later schema of an allOf sets is not seen by an earlier *)
(* one: left out where it would displease the earlier one.                 *)
Displeased(r, a, b) ==
  /\ r.allOf # <<>> /\ (a.closed \/ a.properties = "y" :> "s")
  /\ \E k \in DOMAIN b.properties : b.properties[k] \in {"d", "ro"}

CombinedInputs ==
  UNION {OneWorld(Heap(w[1], w[2], w[3]), Objects) :
           w \in {w \in Combinations \X Parts \X Parts : ~Displeased(w[1], w[2], w[3])}}

(* Nested values, in schemas that refer to themselves through a property,  *)
(* an item, or allOf on the same value.                                    *)
Node(extra) ==
  {[Object("x" :> "root" @@ "y" :> "n") EXCEPT !.required = <<"y">>],
   [Object("x" :> "list" @@ "y" :> "n") EXCEPT !.required = <<"y">>],
   [Object("y" :> "n") EXCEPT !.additional = {"root"}],
   [Object("x" :> "root" @@ "y" :> "d") EXCEPT !.allOf = <<"root", extra>>],
   [Object("y" :> "n") EXCEPT !.not = {"B"}, !.additional = {"root"}]}
NodeHeap(r) ==
  "root" :> r @@ "list" :> [OfType("array") EXCEPT !.items = {"root"}, !.prefixItems = 1]
  @@ "B" :> [OfType("object") EXCEPT !.required = <<"x">>, !.minProps = 2]
  @@ "n" :> OfType("number")
  @@ "d" :> [OfType("number") EXCEPT !.default = Num(2)]
Leaves == {Obj(<<>>), Obj("y" :> Num(2)), Obj("y" :> Str("a"))}
Trees ==
  LET inner == Leaves \cup {Obj("x" :> t @@ "y" :> Num(2)) : t \in Leaves}
  IN inner \cup {Obj("x" :> t) : t \in inner}
           \cup {Obj("x" :> Arr(<<t, u>>) @@ "y" :> Num(3)) : t \in Leaves, u \in inner}
NestedInputs == UNION {OneWorld(NodeHeap(r), Trees) : r \in Node("B")}

(* Properties that only one side may send, required or not, declared by    *)
(* the schema itself or by another of the same allOf.                      *)
Owners ==
  {Object("x" :> "ro" @@ "y" :> "wo"),
   [Object("x" :> "n") EXCEPT !.required = <<"x", "y">>],
   [Object("x" :> "ro") EXCEPT !.required = <<"x">>, !.minProps = 1],
   [Object("y" :> "wo") EXCEPT !.closed = TRUE, !.maxProps = {1}]}
OwnerHeap(r, a, b) ==
  Heap(r, a, b)
  @@ "ro" :> [OfType("number") EXCEPT !.readOnly = TRUE, !.default = Num(2)]
  @@ "wo" :> [OfType("string") EXCEPT !.writeOnly = TRUE]
OwnerInputs ==
  UNION {OneWorld(OwnerHeap(w[1], w[2], w[3]), Objects) :
           w \in {w \in Combinations \X Owners \X Owners : ~Displeased(w[1], w[2], w[3])}}

(* Alternatives told apart by a property.                                  *)
Tagged(mapping) ==
  LET d == {[property |-> "tag", mapping |-> mapping]} IN
  {[OfType("object") EXCEPT !.oneOf = <<"A", "B">>, !.discriminator = d],
   [OfType("object") EXCEPT !.anyOf = <<"A", "B">>, !.discriminator = d]}
TaggedInputs ==
  UNION {OneWorld(Heap(r, Object("x" :> "d"), Object("x" :> "s")),
                  {Obj(f) : f \in {"tag" :> t @@ "x" :> w : t \in Fields, w \in Fields}
                                  \cup {"x" :> Num(2), "tag" :> Str("a"), "tag" :> Str("bbb")}}) :
           r \in UNION {Tagged(m) : m \in {<<>>, "a" :> "A", "a" :> "B" @@ "bbb" :> "A"}}}

MCInputs == ScalarInputs \cup CombinedInputs \cup NestedInputs \cup OwnerInputs \cup TaggedInputs
=============================================================================
