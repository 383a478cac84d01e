----------------------------- MODULE MCRefLoader -----------------------------
(* Small file systems for RefLoader. *)
EXTENDS RefLoader, TLC

CONSTANTS d1, d2, n1, n2, n3

Order2 == <<n1, n2>>
Order3 == <<n1, n2, n3>>

Local(n)       == [file |-> Here, name |-> n]
External(u, n) == [file |-> u, name |-> n]
Whole(u)       == [file |-> u, name |-> Root]

\* The components that are one of the references rs, and the objects with at
\* most max sub-components among rs.
AsRef(r)        == [ref |-> r, kids |-> <<>>]
Object(k)       == [ref |-> Nil, kids |-> k]
Objects(rs, max) == { Object(k) : k \in UNION { [1..m -> rs] : m \in 0..max } }
Shapes(rs, max) == { AsRef(r) : r \in rs } \cup Objects(rs, max)

File3(k, e, f) == [kind |-> k, elem |-> e, defs |-> f]
Document(f)    == File3("doc", Object(<<>>), f)

\* One document, every graph of local references between three components.
None == [n \in Names |-> Nil]
LocalRefs == { Local(n) : n \in Names }
OneDocument ==
  { (d1 :> Document(n1 :> a @@ n2 :> b @@ n3 :> c)) @@ (d2 :> Document(None)) :
    a \in Shapes(LocalRefs, 2), b \in Shapes(LocalRefs, 1), c \in Shapes(LocalRefs, 1) }

\* Two documents that refer to themselves and to each other, d1 defining n1
\* and n2 and d2 defining n3.
RefsOf1 == {Local(n1), Local(n2), External(d2, n3)}
RefsOf2 == {Local(n3), External(d1, n1), External(d1, n2)}
TwoDocuments ==
  { (d1 :> Document(n1 :> a @@ n2 :> b @@ n3 :> Nil)) @@
    (d2 :> Document(n1 :> Nil @@ n2 :> Nil @@ n3 :> c)) :
    a \in Shapes(RefsOf1, 1), b \in Shapes(RefsOf1, 1), c \in Shapes(RefsOf2, 2) }

Documents == OneDocument \cup TwoDocuments

\* d2 is a document, a file of fragments or undecodable; d1 refers to it as a
\* whole and by name.
MixedFiles ==
  { (d1 :> Document(n1 :> a @@ n2 :> b)) @@
    (d2 :> File3(k, e, n1 :> Nil @@ n2 :> c)) :
    a \in Shapes({Whole(d2), External(d2, n2)}, 1),
    b \in {Nil, Object(<<>>)},
    k \in {"doc", "fragment", "broken"},
    e \in Objects({Local(n2), Whole(d2)}, 1),
    c \in {Nil} \cup Shapes({External(d1, n1)}, 1) }

\* A circle through a reference to a reference, in two documents.
ChainedCycle ==
  { (d1 :> Document(n1 :> Object(<<External(d2, n3)>>)
                 @@ n2 :> Object(<<Local(n1)>>) @@ n3 :> Nil)) @@
    (d2 :> Document(n1 :> Nil @@ n2 :> Nil @@ n3 :> AsRef(External(d1, n2)))) }
=============================================================================
