--------------------------- MODULE MCInternalize ---------------------------
(* Small documents over several files for Internalize. *)
EXTENDS Internalize, TLC

Doc == "root"
External(file, name) == [how |-> "external", name |-> <<file, name>>]
Whole(file) == [how |-> "whole", name |-> <<file, "">>]
Here(name) == Local(<<Doc, name>>)  \* "#/components/.../name", in any file
Link(ref, to) == [ref |-> ref, to |-> to]
Object(kind, file, name, ls) == [kind |-> kind, home |-> <<file, name>>, links |-> ls]
Document(ls) == Object("", Doc, "", ls)
Lists(ls, n) == UNION { [1..m -> ls] : m \in 0..n }

Targets(of, os) == os \cup UNION { { l.to : l \in ToSet(of[o].links) } : o \in os }
RECURSIVE Reached(_, _)
Reached(of, os) == IF Targets(of, os) = os THEN os ELSE Reached(of, Targets(of, os))

World(of, cs, order) ==
  [of |-> [o \in Reached(of, {"doc"} \cup { cs[k].to : k \in DOMAIN cs }) |-> of[o]],
   components |-> cs, order |-> order]

----------------------------------------------------------------------------
(* Schemas, of which the document has two as components, in any graph.     *)

SchemaKeys == << <<"schemas", <<Doc, "A">>>>, <<"schemas", <<Doc, "B">>>> >>

SchemasOf(a, b) ==
  LET toX == Link(External("e1", "X"), "X")
      toW == Link(Whole("e2"), "W")
  IN { World("doc" :> Document(<<>>) @@
             "A" :> Object("schemas", Doc, "A", g[1]) @@ "B" :> Object("schemas", Doc, "B", g[2]) @@
             "X" :> Object("schemas", "e1", "X", g[3]) @@ "Y" :> Object("schemas", "e1", "Y", g[4]) @@
             "W" :> Object("schemas", "e2", "", g[5]),
             SchemaKeys[1] :> a @@ SchemaKeys[2] :> b, SchemaKeys) :
         g \in Lists({ Link(Here("B"), b.to), toX, toW }, 2) \X
              Lists({ Link(Here("A"), a.to), toW }, 1) \X
              Lists({ Link(Here("Y"), "Y"), Link(Here("V"), "W"), toW, Link(External(Doc, "A"), a.to) }, 1) \X
              Lists({ Link(Here("X"), "X"), Link(External(Doc, "B"), b.to) }, 1) \X
              Lists({ Link(External("e1", "Y"), "Y") }, 1) }

SchemaWorlds ==
  UNION { UNION { SchemasOf(a, b) :
                  a \in { Link(NoRef, "A"), Link(External("e1", "X"), "X"), Link(Whole("e2"), "W"),
                          Link(Here("B"), b.to) } } :
          b \in { Link(NoRef, "B"), Link(External("e1", "Y"), "Y") } }

----------------------------------------------------------------------------
(* Every kind of object, on a way through the document.                    *)

\* The ways from a file to an object n: the reference, where the object is,
\* and the component of the document it goes through or is known as.
Way(ref, home, known) == [ref |-> ref, home |-> home, known |-> known]

Ways(kind, f, n) ==
  { Way(NoRef, <<f, "">>, <<>>), Way(Whole(n), <<n, "">>, <<>>) } \cup
  (IF kind = "paths" THEN { Way(External("e1", n), <<"e1", n>>, <<>>) }
   ELSE IF f = Doc THEN
     { Way(External("e1", n), <<"e1", n>>, <<>>), Way(Here(n), <<Doc, n>>, <<NoRef>>),
       Way(Here(n), <<"e1", n>>, <<External("e1", n)>>) }
   ELSE { Way(External(Doc, n), <<Doc, n>>, <<NoRef>>) } \cup
        (IF f = "e1" THEN { Way(Here(n), <<f, n>>, <<>>) } ELSE {})) \cup
  (IF kind \notin Cleared THEN {}
   ELSE { Way(Whole(n), <<n, "">>, <<Whole(n)>>) } \cup
        (IF f = Doc THEN { Way(Here(n), <<n, "">>, <<Whole(n)>>) } ELSE {}))

Name == <<"n1", "n2", "n3", "n4", "n5">>

RECURSIVE Journeys(_, _, _)  \* sequences of ways along the kinds ks, from the i-th on in file f
Journeys(ks, i, f) ==
  IF i > Len(ks) THEN {<<>>}
  ELSE UNION { { <<w>> \o rest : rest \in Journeys(ks, i + 1, w.home[1]) } : w \in Ways(ks[i], f, Name[i]) }

Along(ks, ways) ==
  LET n == Len(ks)
      LinkTo(i) == IF i > n THEN <<>> ELSE << Link(ways[i].ref, Name[i]) >>
      known == { i \in 1..n : ways[i].known # <<>> }
      Slot(i) == <<ks[i], <<Doc, Name[i]>>>>
      first == IF ks[1] = "paths" THEN LinkTo(1) ELSE <<>>
  IN [of |-> "doc" :> Document(first) @@
             [o \in { Name[i] : i \in 1..n } |->
                LET i == CHOOSE j \in 1..n : Name[j] = o IN
                [kind |-> ks[i], home |-> ways[i].home, links |-> LinkTo(i + 1)]],
      components |-> [key \in { Slot(i) : i \in known } |->
                        LET i == CHOOSE j \in known : Slot(j) = key IN Link(ways[i].known[1], Name[i])],
      order |-> [j \in 1..Cardinality(known) |->
                   Slot(CHOOSE i \in known : Cardinality({ k \in known : k <= i }) = j)]]

Tracks ==
  { <<"paths", k, s>> : k \in {"parameters", "requestBodies", "responses"}, s \in {"schemas", "examples"} } \cup
  { <<"paths", k, "headers", "schemas">> : k \in {"requestBodies", "responses"} } \cup
  { <<"paths", "responses", "links">>, <<"paths", "callbacks", "paths", "responses", "schemas">>,
    <<"paths", "callbacks", "paths", "parameters", "schemas">> }

\* Tracks that begin with a component.
Beginnings ==
  { <<k, s>> : k \in {"parameters", "requestBodies", "headers", "responses"}, s \in {"schemas", "examples"} } \cup
  { <<"securitySchemes">>, <<"examples">>, <<"links">>, <<"callbacks", "paths", "responses">> }

TrackWorlds ==
  UNION { { Along(ks, ways) : ways \in Journeys(ks, 1, Doc) } : ks \in Tracks } \cup
  UNION { { Along(ks, ways) : ways \in { x \in Journeys(ks, 1, Doc) : x[1].known # <<>> } } : ks \in Beginnings }

Table == SchemaWorlds \cup TrackWorlds
MCWorlds == Table

\* A walk of them ends.
Height(w) ==
  [o \in DOMAIN w.of |-> IF o = "doc" THEN 6
                         ELSE Cardinality({ i \in 1..5 : \E j \in 1..i : Name[j] = o })]

ASSUME WalksEnd == \A w \in MCWorlds : Layers(w, Height(w))
=============================================================================
