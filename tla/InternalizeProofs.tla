-------------------------- MODULE InternalizeProofs --------------------------
(***************************************************************************)
(* A theorem about Internalize, for any documents that meet the conditions *)
(* of WorldsAssumption: a walk that ends leaves a document in one piece.   *)
(*                                                                         *)
(* What the walk does with a link depends on whether it takes the object   *)
(* of the link for one of another file, and it may come to an object twice *)
(* and take it once for the one and once for the other.  When it is wrong, *)
(* it has been right before and has done all there was to do: that is what *)
(* the invariant says.                                                     *)
(***************************************************************************)
EXTENDS Internalize, RecursionProofs, SequenceTheorems

(***************************************************************************)
(* The invariant.                                                          *)
(***************************************************************************)
Objects        == DOMAIN world.of
Original(o, i) == world.of[o].links[i]
Positions(o)   == DOMAIN world.of[o].links
Once           == {"schemas", "headers"}  \* the kinds that are not walked twice
Pending        == { stack[p] : p \in DOMAIN stack }

\* The link refers to no other file, and to the component of its object.
Fine(l) ==
  \/ l.ref = NoRef
  \/ l.ref.how = "local" /\ Key(world, l) \in DOMAIN components /\ components[Key(world, l)].to = l.to

Shape ==
  /\ world \in Worlds
  /\ links = [o \in Objects |-> links[o]]
  /\ \A o \in Objects :
       links[o] = [i \in Positions(o) |-> [ref |-> links[o][i].ref, to |-> Original(o, i).to]]
  /\ components = [k \in DOMAIN components |-> [ref |-> components[k].ref, to |-> components[k].to]]
  /\ IsFiniteSet(DOMAIN components)

\* The tasks when the objects W are known.
ComponentTasks == [object : {""}, i : {0}, key : Keys(world), ext : {FALSE}]
LinkTasks(W) == { t \in [object : W, i : Nat, key : {<<>>}, ext : BOOLEAN] : t.i \in Positions(t.object) }
Tasks(W) == ComponentTasks \cup LinkTasks(W)

\* The walk has come to the objects W.
Walked(W) ==
  /\ W \subseteq Objects /\ "doc" \in W
  /\ stack \in Seq(Tasks(W))
  /\ visited = { o \in W : KindOf(world, o) \in Once }

\* A link is as it was, or as it is to be, and its object known.
LinksKept(W) ==
  \A o \in Objects : \A i \in Positions(o) :
    /\ links[o][i].ref # Original(o, i).ref => Fine(links[o][i]) /\ links[o][i].to \in W
    /\ Original(o, i).ref = NoRef => links[o][i].ref = NoRef

\* So is a component of the document; one that is added is an object,
\* under the name of its home.
ComponentsKept(W) ==
  /\ Keys(world) \subseteq DOMAIN components
  /\ \A k \in Keys(world) :
       /\ components[k].to = world.components[k].to
       /\ \/ components[k].ref \in {NoRef, world.components[k].ref}
          \/ components[k].ref.how = "local"
       /\ components[k].ref # world.components[k].ref => components[k].to \in W
       /\ world.components[k].ref = NoRef => components[k].ref = NoRef
  /\ \A k \in DOMAIN components \ Keys(world) :
       /\ components[k].ref = NoRef /\ components[k].to \in Named(world)
       /\ k = <<KindOf(world, components[k].to), world.of[components[k].to].home>>

\* Components lead to components for the same object, along the ranks r.
Follows(r, k) ==
  LET next == Key(world, components[k])
  IN /\ next \in DOMAIN components /\ components[next].to = components[k].to
     /\ \/ components[next].ref = NoRef
        \/ k \in Keys(world) /\ next \in Keys(world) /\ r[next] < r[k]

Chained(r) == \A k \in DOMAIN components : components[k].ref.how = "local" => Follows(r, k)

\* A task takes the object for one of the document only if it is, or if it
\* is among L.
Good(L, t) == t.ext \/ InRoot(world, t.object) \/ t.object \in L

\* What is known is either in order or still to be seen to,
Covered(L, W) ==
  /\ \A k \in Keys(world) :
       \/ components[k].ref.how \in {"none", "local"} /\ components[k].to \in W
       \/ \E t \in Pending : t.object = "" /\ t.key = k
  /\ \A o \in W : \A i \in Positions(o) :
       \/ Fine(links[o][i]) /\ links[o][i].to \in W
       \/ \E t \in Pending : t.object = o /\ t.i = i /\ Good(L, t)

\* and is in order where a task takes it for what it is not.
Harmless(L, W) ==
  \A t \in Pending : t.object # "" /\ ~Good(L, t) =>
    Fine(links[t.object][t.i]) /\ links[t.object][t.i].to \in W

\* What is lower comes first.
HeightOf(h, t) == IF t.object = "" THEN h["doc"] ELSE h[t.object]
Sorted(h, s)   == \A p, q \in DOMAIN s : p <= q => HeightOf(h, s[p]) <= HeightOf(h, s[q])

Inv(L, h, r, W) ==
  /\ Shape /\ Walked(W) /\ LinksKept(W) /\ ComponentsKept(W) /\ Chained(r)
  /\ Covered(L, W) /\ Harmless(L, W) /\ Sorted(h, stack)

Given(L, h, r) ==
  /\ L \in SUBSET Objects /\ Astray(world, L)
  /\ \A o \in L : ~InRoot(world, o) => \A l \in LinksOf(world, o) : l.ref.how # "local"
  /\ Layers(world, h)
  /\ r \in [Keys(world) -> 0..Cardinality(Keys(world))]
  /\ \A k \in Keys(world) : LET l == world.components[k] IN
       Straightly(world, l.ref) /\ Key(world, l) \in Keys(world) => r[Key(world, l)] < r[k]

(***************************************************************************)
(* The world.                                                              *)
(***************************************************************************)
LEMMA WorldIs ==
  ASSUME world \in Worlds
  PROVE  Typed(world) /\ Resolved(world) /\ Homed(world) /\ WholesCleared(world)
BY WorldsAssumption

LEMMA KindsAre ==
  ToSet(Kinds) = {"schemas", "parameters", "headers", "requestBodies", "responses", "securitySchemes",
                  "examples", "links", "callbacks"}
BY DEF ToSet, Kinds

\* A link of the document as it was loaded.
LEMMA LinkIs ==
  ASSUME world \in Worlds, NEW l \in Links(world)
  PROVE  /\ l = [ref |-> l.ref, to |-> l.to] /\ l.to \in Objects
         /\ l.ref.how \in {"none", "local", "external", "whole"} /\ (l.ref.how = "none" <=> l.ref = NoRef)
         /\ KindOf(world, l.to) \in ToSet(Kinds) \cup {"paths"}
         /\ l.ref # NoRef => l.to \in Named(world)
<1>1. Typed(world)
  BY WorldIs
<1>2. NoRef.how = "none"
  BY DEF NoRef
<1>. QED BY <1>1, <1>2 DEF Typed, Named, Objects

LEMMA OriginalIs ==
  ASSUME world \in Worlds, NEW o \in Objects, NEW i \in Positions(o)
  PROVE  Original(o, i) \in LinksOf(world, o) /\ Original(o, i) \in Links(world)
BY DEF Original, Positions, LinksOf, Links, ToSet, Objects

LEMMA KeyIs ==
  ASSUME world \in Worlds, NEW k \in Keys(world)
  PROVE  /\ k = <<k[1], k[2]>> /\ k[1] \in ToSet(Kinds) /\ k[1] = KindOf(world, world.components[k].to)
         /\ world.components[k] \in Links(world) /\ world.components[k].to \in Objects
<1>1. Typed(world) /\ world.components[k] \in Links(world)
  BY WorldIs DEF Links
<1>. QED BY <1>1, LinkIs DEF Typed

\* The parts of a local reference.
LEMMA LocalIs ==
  ASSUME NEW name
  PROVE  Local(name).how = "local" /\ Local(name).name = name /\ Local(name) # NoRef
<1>1. Local(name).how = "local" /\ Local(name).name = name
  BY DEF Local
<1>2. NoRef.how = "none"
  BY DEF NoRef
<1>. QED BY <1>1, <1>2

(***************************************************************************)
(* Names.                                                                  *)
(***************************************************************************)
\* The components that are the file that is the object of l.
Same(kind, l) == { key \in DOMAIN components : /\ key[1] = kind
                                               /\ components[key].ref.how = "whole"
                                               /\ Home(components[key]) = Home(l) }

LEMMA SameIs ==
  ASSUME NEW W, Shape, ComponentsKept(W), NEW l, l.to \in Named(world),
         NEW key \in Same(KindOf(world, l.to), l)
  PROVE  key \in Keys(world) /\ components[key].to = l.to /\ key[1] \in Cleared
<1>1. key \in DOMAIN components /\ components[key].ref.how = "whole" /\ key[1] = KindOf(world, l.to)
      /\ Home(components[key]) = Home(l)
  BY DEF Same
<1>2. NoRef.how = "none"
  BY DEF NoRef
<1>3. key \in Keys(world) /\ components[key].to = world.components[key].to
  BY <1>1, <1>2 DEF ComponentsKept
<1>4. components[key].ref = world.components[key].ref
  BY <1>1, <1>2, <1>3 DEF ComponentsKept
<1>5. world \in Worlds
  BY DEF Shape
<1>6. world.components[key].to \in Named(world) /\ KindOf(world, world.components[key].to) = key[1]
  BY <1>1, <1>2, <1>3, <1>4, <1>5, KeyIs, LinkIs
<1>7. world.of[world.components[key].to].home = world.of[l.to].home
  BY <1>1, <1>3 DEF Home
<1>8. world.components[key].to = l.to
  BY <1>1, <1>5, <1>6, <1>7, WorldIs DEF Homed
<1>9. key[1] \in Cleared
  BY <1>1, <1>3, <1>4, <1>5, WorldIs DEF WholesCleared
<1>. QED BY <1>3, <1>8, <1>9

LEMMA FirstIs ==
  ASSUME world \in Worlds, NEW same \in SUBSET Keys(world), same # {}
  PROVE  LET first == CHOOSE i \in DOMAIN world.order : /\ world.order[i] \in same
                                                        /\ \A j \in 1..(i-1) : world.order[j] \notin same
         IN world.order[first] \in same
<1>. DEFINE S == { i \in DOMAIN world.order : world.order[i] \in same }
<1>1. world.order \in Seq(Keys(world)) /\ ToSet(world.order) = Keys(world)
  BY WorldIs DEF Typed
<1>2. DOMAIN world.order = 1..Len(world.order) /\ Len(world.order) \in Nat
  BY <1>1
<1>3. S \in SUBSET Nat
  BY <1>2
<1>4. S # {}
  BY <1>1 DEF ToSet
<1>5. PICK i \in S : \A j \in S : i <= j
  BY <1>3, <1>4, Least
<1>6. \A j \in 1..(i-1) : world.order[j] \notin same
  BY <1>2, <1>5
<1>. QED BY <1>5, <1>6

\* The name of an object is that of a component that it is, or there is none of
\* that name.
LEMMA NameIs ==
  ASSUME NEW W, Shape, ComponentsKept(W), NEW l, l.to \in Named(world), l.to \in Objects,
         NEW kind \in ToSet(Kinds), kind = KindOf(world, l.to),
         l.ref.how = "external" => l \in Links(world)
  PROVE  LET key == <<kind, NameOf(kind, l)>>
         IN /\ key \in DOMAIN components => components[key].to = l.to
            /\ key \notin DOMAIN components => key = <<kind, world.of[l.to].home>>
            /\ \/ key \in Keys(world) /\ Straightly(world, l.ref) /\ key = Key(world, l)
               \/ key \in DOMAIN components => components[key].ref = NoRef
               \/ kind \in Cleared
<1>. DEFINE same == Same(kind, l)
            name == NameOf(kind, l)
            key  == <<kind, name>>
            direct == l.ref.how = "external" /\ l.ref.name[1] = "root" /\ Home(l)[1] = "root"
            first == CHOOSE i \in DOMAIN world.order : /\ world.order[i] \in same
                                                       /\ \A j \in 1..(i-1) : world.order[j] \notin same
<1>. SUFFICES /\ key \in DOMAIN components => components[key].to = l.to
              /\ key \notin DOMAIN components => key = <<kind, world.of[l.to].home>>
              /\ \/ key \in Keys(world) /\ Straightly(world, l.ref) /\ key = Key(world, l)
                 \/ key \in DOMAIN components => components[key].ref = NoRef
                 \/ kind \in Cleared
  OBVIOUS
<1>1. name = CASE direct -> l.ref.name [] same # {} -> world.order[first][2] [] OTHER -> Home(l)
  BY DEF NameOf, Same
<1>2. world \in Worlds
  BY DEF Shape
<1>3. Keys(world) \subseteq DOMAIN components
      /\ \A k \in Keys(world) : components[k].to = world.components[k].to
  BY DEF ComponentsKept
<1>4. (direct /\ name = l.ref.name) \/ (same # {} /\ name = world.order[first][2])
      \/ (name = Home(l) /\ ~direct /\ same = {})
  BY <1>1
<1>. HIDE DEF name, same
<1>5. CASE direct /\ name = l.ref.name
  <2>1. l \in Links(world) /\ InRoot(world, l.to) /\ kind # "paths" /\ Straightly(world, l.ref)
    BY <1>5, KindsAre DEF Home, InRoot, Straightly
  <2>2. key = Key(world, l)
    BY <1>5 DEF Key
  <2>3. key \in Keys(world) /\ world.components[key].to = l.to
    BY <1>2, <1>5, <2>1, <2>2, WorldIs DEF Resolved
  <2>. QED BY <1>3, <2>1, <2>2, <2>3
<1>6. CASE same # {} /\ name = world.order[first][2]
  <2>1. \A k \in same : k \in Keys(world) /\ components[k].to = l.to /\ k[1] \in Cleared /\ k[1] = kind
    BY SameIs DEF same, Same
  <2>2. world.order[first] \in same
    BY <1>2, <1>6, <2>1, FirstIs
  <2>3. world.order[first] = key
    BY <1>2, <1>6, <2>1, <2>2, KeyIs
  <2>. QED BY <1>3, <2>1, <2>2, <2>3
<1>7. CASE name = Home(l) /\ ~direct /\ same = {}
  <2>1. key = <<kind, world.of[l.to].home>>
    BY <1>7 DEF Home
  <2>2. CASE key \in Keys(world)
    <3>1. world.components[key] = [ref |-> NoRef, to |-> l.to]
      BY <1>2, <2>1, <2>2, WorldIs DEF Homed
    <3>2. components[key].ref = NoRef
      BY <2>2, <3>1 DEF ComponentsKept
    <3>. QED BY <1>3, <2>1, <2>2, <3>1, <3>2
  <2>3. CASE key \in DOMAIN components \ Keys(world)
    <3>1. components[key].ref = NoRef /\ components[key].to \in Named(world)
          /\ key = <<KindOf(world, components[key].to), world.of[components[key].to].home>>
      BY <2>3 DEF ComponentsKept
    <3>2. components[key].to = l.to
      BY <1>2, <2>1, <3>1, WorldIs DEF Homed
    <3>. QED BY <2>1, <3>1, <3>2
  <2>. QED BY <2>1, <2>2, <2>3
<1>. QED BY <1>4, <1>5, <1>6, <1>7

(***************************************************************************)
(* The stack.                                                              *)
(***************************************************************************)
LEMMA StackParts ==
  ASSUME NEW S, NEW st \in Seq(S), st # <<>>, NEW s \in Seq(S)
  PROVE  LET n == s \o Tail(st)
         IN /\ n \in Seq(S)
            /\ \A p \in DOMAIN n : \/ p <= Len(s) /\ p \in DOMAIN s /\ n[p] = s[p]
                                   \/ /\ p > Len(s) /\ p - Len(s) + 1 \in DOMAIN st
                                      /\ n[p] = st[p - Len(s) + 1]
            /\ \A q \in DOMAIN s : q \in DOMAIN n /\ n[q] = s[q]
            /\ \A q \in DOMAIN st : q # 1 => q + Len(s) - 1 \in DOMAIN n /\ n[q + Len(s) - 1] = st[q]
<1>. DEFINE u == Tail(st)
            n == s \o u
<1>1. u \in Seq(S) /\ Len(u) = Len(st) - 1 /\ Len(st) \in Nat \ {0} /\ DOMAIN st = 1..Len(st)
      /\ \A i \in 1..Len(u) : u[i] = st[i + 1]
  BY HeadTailProperties
<1>2. n \in Seq(S) /\ Len(n) = Len(s) + Len(u) /\ Len(s) \in Nat /\ DOMAIN s = 1..Len(s)
      /\ DOMAIN n = 1..Len(n)
      /\ \A i \in 1..(Len(s) + Len(u)) : n[i] = IF i <= Len(s) THEN s[i] ELSE u[i - Len(s)]
  BY <1>1, ConcatProperties
<1>. HIDE DEF n, u
<1>3. ASSUME NEW p \in DOMAIN n, ~(p <= Len(s))
      PROVE  p - Len(s) + 1 \in DOMAIN st /\ n[p] = st[p - Len(s) + 1]
  <2>1. p - Len(s) \in 1..Len(u) /\ p - Len(s) + 1 \in 1..Len(st)
    BY <1>1, <1>2, <1>3
  <2>. QED BY <1>1, <1>2, <1>3, <2>1
<1>4. ASSUME NEW p \in DOMAIN n
      PROVE  \/ p <= Len(s) /\ p \in DOMAIN s /\ n[p] = s[p]
             \/ p > Len(s) /\ p - Len(s) + 1 \in DOMAIN st /\ n[p] = st[p - Len(s) + 1]
  BY <1>1, <1>2, <1>3
<1>5. ASSUME NEW q \in DOMAIN s PROVE q \in DOMAIN n /\ n[q] = s[q]
  BY <1>1, <1>2
<1>6. ASSUME NEW q \in DOMAIN st, q # 1
      PROVE  q + Len(s) - 1 \in DOMAIN n /\ n[q + Len(s) - 1] = st[q]
  <2>1. q + Len(s) - 1 \in 1..Len(n) /\ q - 1 \in 1..Len(u) /\ (q - 1) + 1 = q
        /\ (q + Len(s) - 1) - Len(s) = q - 1 /\ ~(q + Len(s) - 1 <= Len(s))
    BY <1>1, <1>2, <1>6
  <2>2. n[q + Len(s) - 1] = u[q - 1]
    BY <1>2, <2>1
  <2>3. u[q - 1] = st[q]
    BY <1>1, <2>1
  <2>. QED BY <1>2, <2>1, <2>2, <2>3
<1>. QED BY <1>2, <1>4, <1>5, <1>6 DEF n, u

LEMMA StackSorted ==
  ASSUME NEW S, NEW st \in Seq(S), st # <<>>, NEW s \in Seq(S), NEW h, NEW c \in Nat,
         \A t \in S : HeightOf(h, t) \in Nat, Sorted(h, st),
         \A q \in DOMAIN s : HeightOf(h, s[q]) = c, c <= HeightOf(h, st[1])
  PROVE  Sorted(h, s \o Tail(st))
<1>. DEFINE n == s \o Tail(st)
<1>1. /\ \A p \in DOMAIN n : \/ p <= Len(s) /\ p \in DOMAIN s /\ n[p] = s[p]
                             \/ /\ p > Len(s) /\ p - Len(s) + 1 \in DOMAIN st
                                /\ n[p] = st[p - Len(s) + 1]
      /\ n \in Seq(S)
  BY StackParts, SMTT(30)
<1>. HIDE DEF n
<1>2. Len(s) \in Nat /\ DOMAIN n \subseteq Nat /\ 1 \in DOMAIN st /\ DOMAIN st \subseteq Nat \ {0}
  BY <1>1
<1>3. ASSUME NEW p \in DOMAIN n, NEW q \in DOMAIN n, p <= q
      PROVE  HeightOf(h, n[p]) <= HeightOf(h, n[q])
  <2>. DEFINE a == p - Len(s) + 1
              b == q - Len(s) + 1
  <2>1. CASE p <= Len(s) /\ q <= Len(s)
    <3>1. p \in DOMAIN s /\ n[p] = s[p] /\ q \in DOMAIN s /\ n[q] = s[q]
      BY <1>1, <1>2, <2>1
    <3>2. HeightOf(h, s[p]) = c /\ HeightOf(h, s[q]) = c
      BY <3>1
    <3>. QED BY <3>1, <3>2
  <2>2. CASE p <= Len(s) /\ q > Len(s)
    <3>0. b \in DOMAIN st /\ n[q] = st[b] /\ 1 <= b /\ p \in DOMAIN s /\ n[p] = s[p]
      BY <1>1, <1>2, <2>2, SMTT(30)
    <3>4. HeightOf(h, s[p]) = c
      BY <3>0
    <3>1. b \in DOMAIN st /\ n[q] = st[b] /\ HeightOf(h, n[p]) = c /\ 1 <= b
      BY <3>0, <3>4
    <3>2. HeightOf(h, st[1]) <= HeightOf(h, st[b])
      BY <1>2, <3>1 DEF Sorted
    <3>3. HeightOf(h, st[1]) \in Nat /\ HeightOf(h, st[b]) \in Nat
      BY <1>2, <3>1
    <3>. QED BY <3>1, <3>2, <3>3
  <2>3. CASE p > Len(s) /\ q > Len(s)
    <3>1. p \in Nat /\ q \in Nat /\ ~(p <= Len(s)) /\ ~(q <= Len(s))
      BY <1>2, <2>3
    <3>2. a \in DOMAIN st /\ n[p] = st[a]
      BY <1>1, <3>1
    <3>3. b \in DOMAIN st /\ n[q] = st[b]
      BY <1>1, <3>1
    <3>4. a <= b
      BY <1>2, <1>3, <3>1
    <3>. QED BY <3>2, <3>3, <3>4 DEF Sorted
  <2>. QED BY <1>2, <1>3, <2>1, <2>2, <2>3
<1>. QED BY <1>3 DEF Sorted, n

(***************************************************************************)
(* A step.                                                                 *)
(***************************************************************************)
\* The next task is t, and l the link it is about.
IsNext(t, l) == stack # <<>> /\ t = Head(stack) /\ l = At(t)

LEMMA TaskIs ==
  ASSUME NEW L, NEW h, NEW r, NEW W, Given(L, h, r), Inv(L, h, r, W),
         NEW t, NEW l, IsNext(t, l)
  PROVE  /\ t \in Tasks(W) /\ t \in Pending
         /\ \/ /\ t.object = "" /\ t.key \in Keys(world) /\ ~t.ext
               /\ l = components[t.key] /\ l.to = world.components[t.key].to
            \/ /\ t.object # "" /\ t.object \in W /\ t.i \in Positions(t.object) /\ t.ext \in BOOLEAN
               /\ l = links[t.object][t.i] /\ l.to = Original(t.object, t.i).to
         /\ l = [ref |-> l.ref, to |-> l.to] /\ l.to \in Objects
         /\ KindOf(world, l.to) \in ToSet(Kinds) \cup {"paths"}
         /\ \/ h[l.to] < HeightOf(h, t)
            \/ KindOf(world, l.to) \in Once /\ h[l.to] <= HeightOf(h, t)
<1>1. world \in Worlds /\ W \subseteq Objects /\ stack \in Seq(Tasks(W))
  BY DEF Inv, Shape, Walked
<1>2. t \in Tasks(W) /\ 1 \in DOMAIN stack /\ t = stack[1] /\ l = At(t)
  BY <1>1 DEF IsNext
<1>7. t \in Pending
  BY <1>2 DEF Pending
<1>3. "" \notin Objects
  BY <1>1, WorldIs DEF Typed, Objects
<1>4. Keys(world) \subseteq DOMAIN components
      /\ \A k \in Keys(world) : components[k].to = world.components[k].to
  BY DEF Inv, ComponentsKept
<1>5. CASE t.object = ""
  <2>1. t.key \in Keys(world) /\ ~t.ext
    BY <1>1, <1>2, <1>3, <1>5 DEF Tasks, ComponentTasks, LinkTasks
  <2>2. l = components[t.key] /\ l.to = world.components[t.key].to
    BY <1>2, <1>4, <1>5, <2>1 DEF At
  <2>3. l = [ref |-> l.ref, to |-> l.to]
    BY <1>4, <2>1, <2>2 DEF Inv, Shape
  <2>4. l.to \in Objects /\ KindOf(world, l.to) \in ToSet(Kinds) \cup {"paths"}
    BY <1>1, <2>1, <2>2, KeyIs, LinkIs
  <2>5. h[l.to] < HeightOf(h, t)
    BY <1>5, <2>1, <2>2 DEF Given, Layers, HeightOf
  <2>. QED BY <1>2, <1>5, <1>7, <2>1, <2>2, <2>3, <2>4, <2>5
<1>6. CASE t.object # ""
  <2>1. t.object \in W /\ t.i \in Positions(t.object) /\ t.ext \in BOOLEAN
    BY <1>2, <1>6 DEF Tasks, ComponentTasks, LinkTasks
  <2>2. l = links[t.object][t.i] /\ t.object \in Objects
    BY <1>1, <1>2, <1>6, <2>1 DEF At
  <2>3. links[t.object] = [i \in Positions(t.object) |->
                             [ref |-> links[t.object][i].ref, to |-> Original(t.object, i).to]]
    BY <2>2 DEF Inv, Shape
  <2>4. l = [ref |-> l.ref, to |-> l.to] /\ l.to = Original(t.object, t.i).to
    BY <2>1, <2>2, <2>3
  <2>5. Original(t.object, t.i) \in Links(world) /\ Original(t.object, t.i) \in LinksOf(world, t.object)
    BY <1>1, <2>1, <2>2, OriginalIs
  <2>6. l.to \in Objects /\ KindOf(world, l.to) \in ToSet(Kinds) \cup {"paths"}
    BY <1>1, <2>4, <2>5, LinkIs
  <2>7. h[l.to] < h[t.object] \/ (KindOf(world, l.to) \in Once /\ h[l.to] <= h[t.object])
    BY <2>2, <2>4, <2>5 DEF Given, Layers, Once, Objects
  <2>. QED BY <1>2, <1>6, <1>7, <2>1, <2>2, <2>4, <2>6, <2>7 DEF HeightOf
<1>. QED BY <1>5, <1>6

LEMMA HeightIs ==
  ASSUME NEW L, NEW h, NEW r, NEW W, Given(L, h, r), W \subseteq Objects, "doc" \in Objects
  PROVE  \A t \in Tasks(W) : HeightOf(h, t) \in Nat
BY DEF Given, Layers, HeightOf, Tasks, ComponentTasks, LinkTasks, Objects

\* What a step does to the components, when l is the link it is about,
GrownBy(r, l) ==
  /\ world' = world
  /\ components' = [k \in DOMAIN components' |-> [ref |-> components'[k].ref, to |-> components'[k].to]]
  /\ IsFiniteSet(DOMAIN components') /\ DOMAIN components \subseteq DOMAIN components'
  /\ \A k \in DOMAIN components :
       /\ components'[k].to = components[k].to
       /\ components[k].ref = NoRef => components'[k].ref = NoRef
       /\ \/ components'[k].ref = components[k].ref
          \/ components'[k].ref = NoRef /\ components[k].to = l.to
          \/ /\ components'[k].ref.how = "local" /\ components[k].to = l.to
             /\ k \in Keys(world) /\ Follows(r, k)'
  /\ \A k \in DOMAIN components' \ DOMAIN components :
       /\ components'[k].ref = NoRef /\ components'[k].to = l.to /\ l.to \in Named(world)
       /\ k = <<KindOf(world, l.to), world.of[l.to].home>>

\* to that link,
SettledBy(t, l) ==
  \/ t.object = "" /\ links' = links /\ components'[t.key].ref.how \in {"none", "local"}
  \/ /\ t.object # ""
     /\ \E ref : /\ links' = [links EXCEPT ![t.object][t.i].ref = ref]
                 /\ Fine([ref |-> ref, to |-> l.to])'
                 /\ l.ref = NoRef => ref = NoRef

\* and to the stack.
TasksBelow(o, e) == [i \in Positions(o) |-> [object |-> o, i |-> i, key |-> <<>>, ext |-> e]]

WalkedBy(L, W, l, s) ==
  /\ stack' = s \o Tail(stack)
  /\ \/ s = <<>> /\ l.to \in W /\ visited' = visited
     \/ \E e \in BOOLEAN :
          /\ s = TasksBelow(l.to, e)
          /\ e \/ InRoot(world, l.to) \/ l.to \in L \/ (l.to \in W /\ KindOf(world, l.to) \notin Once)
          /\ visited' = IF KindOf(world, l.to) \in Once THEN visited \cup {l.to} ELSE visited

LEMMA FineStays ==
  ASSUME NEW r, NEW l, GrownBy(r, l), NEW x, Fine(x)
  PROVE  Fine(x)'
BY DEF GrownBy, Fine, Key

LEMMA ComponentsStep ==
  ASSUME NEW r, NEW W, NEW l, GrownBy(r, l), ComponentsKept(W)
  PROVE  ComponentsKept(W \cup {l.to})'
<1>1. world' = world
  BY DEF GrownBy
<1>2. ASSUME NEW k \in Keys(world)
      PROVE  /\ k \in DOMAIN components'
             /\ components'[k].to = world.components[k].to
             /\ \/ components'[k].ref \in {NoRef, world.components[k].ref}
                \/ components'[k].ref.how = "local"
             /\ components'[k].ref # world.components[k].ref => components'[k].to \in W \cup {l.to}
             /\ world.components[k].ref = NoRef => components'[k].ref = NoRef
  BY DEF GrownBy, ComponentsKept
<1>3. ASSUME NEW k \in DOMAIN components' \ Keys(world)
      PROVE  /\ components'[k].ref = NoRef /\ components'[k].to \in Named(world)
             /\ k = <<KindOf(world, components'[k].to), world.of[components'[k].to].home>>
  <2>1. CASE k \in DOMAIN components
    BY <2>1 DEF GrownBy, ComponentsKept
  <2>2. CASE k \notin DOMAIN components
    BY <2>2 DEF GrownBy
  <2>. QED BY <2>1, <2>2
<1>. QED BY <1>1, <1>2, <1>3 DEF ComponentsKept

LEMMA ChainsStep ==
  ASSUME NEW r, NEW l, GrownBy(r, l), Chained(r)
  PROVE  Chained(r)'
<1>1. world' = world
  BY DEF GrownBy
<1>2. ASSUME NEW k \in DOMAIN components', components'[k].ref.how = "local" PROVE Follows(r, k)'
  <2>1. NoRef.how = "none"
    BY DEF NoRef
  <2>2. k \in DOMAIN components
    BY <1>2, <2>1 DEF GrownBy
  <2>3. CASE components'[k].ref = components[k].ref
    <3>1. Follows(r, k)
      BY <1>2, <2>2, <2>3 DEF Chained
    <3>. QED BY <1>1, <2>2, <2>3, <3>1 DEF GrownBy, Follows, Key
  <2>4. CASE components'[k].ref # components[k].ref
    BY <1>2, <2>1, <2>2, <2>4 DEF GrownBy
  <2>. QED BY <2>3, <2>4
<1>. QED BY <1>2 DEF Chained

\* Only the link of the task t changes, if any, and that is in order then.
LinkMoves(t, l) ==
  /\ \A o \in Objects : \A i \in Positions(o) :
       /\ links[o][i].to = Original(o, i).to /\ links'[o][i].to = links[o][i].to
       /\ links'[o][i] # links[o][i] => t.object = o /\ t.i = i
  /\ t.object # "" => Fine(links[t.object][t.i])' /\ links[t.object][t.i].to = l.to

LEMMA LinksStep ==
  ASSUME NEW L, NEW h, NEW r, NEW W, Given(L, h, r), Inv(L, h, r, W),
         NEW t, NEW l, IsNext(t, l),
         GrownBy(r, l), SettledBy(t, l)
  PROVE  Shape' /\ LinksKept(W \cup {l.to})' /\ LinkMoves(t, l)
<1>1. world' = world /\ world \in Worlds /\ Objects' = Objects
  BY DEF GrownBy, Inv, Shape, Objects
<1>2. \A o \in Objects : Positions(o)' = Positions(o)
      /\ \A i \in Positions(o) : Original(o, i)' = Original(o, i)
  BY <1>1 DEF Positions, Original
<1>3. /\ links = [o \in Objects |-> links[o]]
      /\ \A o \in Objects :
           links[o] = [i \in Positions(o) |-> [ref |-> links[o][i].ref, to |-> Original(o, i).to]]
  BY DEF Inv, Shape
<1>4. \A o \in Objects : \A i \in Positions(o) : links[o][i].to = Original(o, i).to
  BY <1>3
<1>5. LinksKept(W)
  BY DEF Inv
<1>6. \A o \in Objects : \A i \in Positions(o) : Fine(links[o][i]) => Fine(links[o][i])' \/ links'[o][i] # links[o][i]
  <2>1. ASSUME NEW o \in Objects, NEW i \in Positions(o), Fine(links[o][i]), links'[o][i] = links[o][i]
        PROVE  Fine(links[o][i])'
    <3>1. PICK x : x = links[o][i]
      OBVIOUS
    <3>2. Fine(x)'
      BY <2>1, <3>1, FineStays
    <3>. QED BY <2>1, <3>1, <3>2 DEF Fine, Key
  <2>. QED BY <2>1
<1>7. IsFiniteSet(DOMAIN components')
      /\ components' = [k \in DOMAIN components' |-> [ref |-> components'[k].ref, to |-> components'[k].to]]
  BY DEF GrownBy
<1>8. CASE t.object = ""
  <2>1. links' = links
    BY <1>8 DEF SettledBy
  <2>2. LinksKept(W \cup {l.to})'
    BY <1>1, <1>2, <1>5, <1>6, <2>1 DEF LinksKept
  <2>3. Shape'
    BY <1>1, <1>2, <1>3, <1>7, <2>1 DEF Shape
  <2>. QED BY <1>4, <1>8, <2>1, <2>2, <2>3 DEF LinkMoves
<1>9. CASE t.object # ""
  <2>1. PICK ref : /\ links' = [links EXCEPT ![t.object][t.i].ref = ref]
                   /\ Fine([ref |-> ref, to |-> l.to])'
                   /\ l.ref = NoRef => ref = NoRef
    BY <1>9 DEF SettledBy
  <2>2. t.object \in Objects /\ t.i \in Positions(t.object) /\ l = links[t.object][t.i]
        /\ l.to = Original(t.object, t.i).to
    BY <1>9, TaskIs DEF Inv, Walked
  <2>3. \A o \in Objects : \A i \in Positions(o) :
          links'[o][i] = IF o = t.object /\ i = t.i THEN [ref |-> ref, to |-> l.to] ELSE links[o][i]
    BY <1>3, <2>1, <2>2
  <2>4. /\ links' = [o \in Objects |-> links'[o]]
        /\ \A o \in Objects :
             links'[o] = [i \in Positions(o) |-> [ref |-> links'[o][i].ref, to |-> Original(o, i).to]]
    <3>1. links' = [o \in Objects |-> IF o = t.object THEN [links[o] EXCEPT ![t.i].ref = ref] ELSE links[o]]
      BY <1>3, <2>1, <2>2
    <3>2. links' = [o \in Objects |-> links'[o]]
      BY <3>1
    <3>3. ASSUME NEW o \in Objects
          PROVE  links'[o] = [i \in Positions(o) |-> [ref |-> links'[o][i].ref, to |-> Original(o, i).to]]
      <4>1. CASE o = t.object
        <5>1. links'[o] = [links[o] EXCEPT ![t.i].ref = ref]
          BY <3>1, <4>1
        <5>2. links'[o] = [i \in Positions(o) |-> IF i = t.i THEN [ref |-> ref, to |-> Original(o, i).to] ELSE links[o][i]]
          BY <1>3, <2>2, <4>1, <5>1
        <5>. QED BY <1>3, <5>2
      <4>2. CASE o # t.object
        BY <1>3, <3>1, <4>2
      <4>. QED BY <4>1, <4>2
    <3>. QED BY <3>2, <3>3
  <2>5. Shape'
    BY <1>1, <1>2, <1>7, <2>4 DEF Shape
  <2>6. Fine(links[t.object][t.i])' /\ links'[t.object][t.i] = [ref |-> ref, to |-> l.to]
    <3>1. links'[t.object][t.i] = [ref |-> ref, to |-> l.to]
      BY <2>2, <2>3
    <3>. QED BY <2>1, <3>1 DEF Fine, Key
  <2>7. LinksKept(W \cup {l.to})'
    <3>1. ASSUME NEW o \in Objects, NEW i \in Positions(o)
          PROVE  /\ links'[o][i].ref # Original(o, i).ref => Fine(links[o][i])' /\ links'[o][i].to \in W \cup {l.to}
                 /\ Original(o, i).ref = NoRef => links'[o][i].ref = NoRef
      <4>1. CASE o = t.object /\ i = t.i
        BY <1>5, <2>1, <2>2, <2>6, <4>1 DEF LinksKept
      <4>2. CASE ~(o = t.object /\ i = t.i)
        <5>1. links'[o][i] = links[o][i]
          BY <2>3, <4>2
        <5>. QED BY <1>5, <1>6, <5>1 DEF LinksKept
      <4>. QED BY <4>1, <4>2
    <3>. QED BY <1>1, <1>2, <3>1 DEF LinksKept
  <2>8. ASSUME NEW o \in Objects, NEW i \in Positions(o)
        PROVE  /\ links[o][i].to = Original(o, i).to /\ links'[o][i].to = links[o][i].to
               /\ links'[o][i] # links[o][i] => t.object = o /\ t.i = i
    <3>1. CASE o = t.object /\ i = t.i
      BY <1>4, <2>2, <2>6, <3>1
    <3>2. CASE ~(o = t.object /\ i = t.i)
      <4>1. links'[o][i] = links[o][i]
        BY <2>3, <3>2
      <4>. QED BY <1>4, <4>1
    <3>. QED BY <3>1, <3>2
  <2>. QED BY <2>2, <2>5, <2>6, <2>7, <2>8 DEF LinkMoves
<1>. QED BY <1>8, <1>9

\* The tasks after a step: those that it adds and, but for the first, those
\* before it.
TasksMove(t, s) ==
  /\ \A u \in Pending' : (\E q \in DOMAIN s : u = s[q]) \/ u \in Pending
  /\ \A q \in DOMAIN s : s[q] \in Pending'
  /\ \A u \in Pending : u = t \/ u \in Pending'

LEMMA TasksStep ==
  ASSUME NEW L, NEW h, NEW r, NEW W, Given(L, h, r), Inv(L, h, r, W),
         NEW t, NEW l, IsNext(t, l),
         GrownBy(r, l), NEW s, WalkedBy(L, W, l, s)
  PROVE  Walked(W \cup {l.to})' /\ Sorted(h, stack)' /\ TasksMove(t, s)
<1>. DEFINE V == W \cup {l.to}
<1>1. world' = world /\ world \in Worlds /\ Objects' = Objects
  BY DEF GrownBy, Inv, Shape, Objects
<1>2. W \subseteq Objects /\ "doc" \in W /\ stack \in Seq(Tasks(W)) /\ Sorted(h, stack)
      /\ visited = { o \in W : KindOf(world, o) \in Once }
  BY DEF Inv, Walked
<1>3. /\ t \in Tasks(W) /\ 1 \in DOMAIN stack /\ t = stack[1] /\ l.to \in Objects
      /\ \/ h[l.to] < HeightOf(h, t)
         \/ KindOf(world, l.to) \in Once /\ h[l.to] <= HeightOf(h, t)
  <2>1. l.to \in Objects /\ t \in Tasks(W)
    BY TaskIs
  <2>2. 1 \in DOMAIN stack /\ t = stack[1]
    BY <1>2 DEF IsNext
  <2>3. \/ h[l.to] < HeightOf(h, t)
        \/ KindOf(world, l.to) \in Once /\ h[l.to] <= HeightOf(h, t)
    BY TaskIs
  <2>. QED BY <2>1, <2>2, <2>3
<1>14. V \subseteq Objects /\ W \subseteq V /\ l.to \in V /\ V = V'
  BY <1>2, <1>3
<1>. HIDE DEF V
<1>4. Tasks(W) \subseteq Tasks(V) /\ Tasks(V) = Tasks(V)'
  BY <1>1, <1>14 DEF Tasks, ComponentTasks, LinkTasks, Positions, Keys
<1>5. h[l.to] \in Nat /\ h[l.to] <= HeightOf(h, t) /\ \A u \in Tasks(V) : HeightOf(h, u) \in Nat
  <2>1. \A u \in Tasks(V) : HeightOf(h, u) \in Nat
    BY <1>2, <1>14, HeightIs
  <2>2. h[l.to] \in Nat
    BY <1>3 DEF Given, Layers, Objects
  <2>3. HeightOf(h, t) \in Nat
    BY <1>3, <1>4, <2>1
  <2>. QED BY <1>3, <2>1, <2>2, <2>3
<1>6. Len(world.of[l.to].links) \in Nat /\ Positions(l.to) = 1..Len(world.of[l.to].links)
  <2>1. world.of[l.to].links \in Seq(LinksOf(world, l.to))
    BY <1>1, <1>3, WorldIs DEF Typed, Objects
  <2>. QED BY <2>1 DEF Positions
<1>7. s \in Seq(Tasks(V)) /\ \A q \in DOMAIN s : HeightOf(h, s[q]) = h[l.to]
  <2>1. CASE s = <<>>
    BY <2>1
  <2>2. CASE s # <<>>
    <3>1. PICK e \in BOOLEAN : s = TasksBelow(l.to, e)
      BY <2>2 DEF WalkedBy
    <3>2. "" \notin Objects
      BY <1>1, WorldIs DEF Typed, Objects
    <3>3. \A q \in Positions(l.to) : [object |-> l.to, i |-> q, key |-> <<>>, ext |-> e] \in Tasks(V)
      BY <1>6, <1>14 DEF Tasks, LinkTasks
    <3>4. \A q \in DOMAIN s : HeightOf(h, s[q]) = h[l.to]
      BY <1>3, <3>1, <3>2 DEF TasksBelow, HeightOf
    <3>5. s \in [1..Len(world.of[l.to].links) -> Tasks(V)]
      BY <1>6, <3>1, <3>3 DEF TasksBelow
    <3>. QED BY <1>6, <3>4, <3>5
  <2>. QED BY <2>1, <2>2
<1>8. stack' = s \o Tail(stack) /\ stack \in Seq(Tasks(V)) /\ stack # <<>>
  BY <1>2, <1>4, SeqMonotonic DEF WalkedBy, IsNext
<1>9. /\ stack' \in Seq(Tasks(V))
      /\ \A p \in DOMAIN stack' :
           \/ p <= Len(s) /\ p \in DOMAIN s /\ stack'[p] = s[p]
           \/ /\ p > Len(s) /\ p - Len(s) + 1 \in DOMAIN stack
              /\ stack'[p] = stack[p - Len(s) + 1]
      /\ \A q \in DOMAIN s : q \in DOMAIN stack' /\ stack'[q] = s[q]
      /\ \A q \in DOMAIN stack :
           q # 1 => q + Len(s) - 1 \in DOMAIN stack' /\ stack'[q + Len(s) - 1] = stack[q]
  <2>. DEFINE T == Tasks(V)
              n == s \o Tail(stack)
  <2>. HIDE DEF T
  <2>1. s \in Seq(T) /\ stack \in Seq(T) /\ stack # <<>>
    BY <1>7, <1>8 DEF T
  <2>2. n \in Seq(T)
    BY <2>1, StackParts
  <2>3. \A p \in DOMAIN n :
           \/ p <= Len(s) /\ p \in DOMAIN s /\ n[p] = s[p]
           \/ /\ p > Len(s) /\ p - Len(s) + 1 \in DOMAIN stack
              /\ n[p] = stack[p - Len(s) + 1]
    BY <2>1, StackParts
  <2>4. \A q \in DOMAIN s : q \in DOMAIN n /\ n[q] = s[q]
    BY <2>1, StackParts
  <2>5. ASSUME NEW q \in DOMAIN stack, q # 1
        PROVE  q + Len(s) - 1 \in DOMAIN n /\ n[q + Len(s) - 1] = stack[q]
    <3>1. q + Len(s) - 1 \in DOMAIN n
      BY <2>1, <2>5, StackParts
    <3>2. n[q + Len(s) - 1] = stack[q]
      BY <2>1, <2>5, StackParts, SMTT(30)
    <3>. QED BY <3>1, <3>2
  <2>6. stack' = n
    BY <1>8
  <2>. QED BY <2>2, <2>3, <2>4, <2>5, <2>6 DEF T
<1>10. \A u \in Pending' : (\E q \in DOMAIN s : u = s[q]) \/ u \in Pending
  BY <1>9 DEF Pending
<1>11. /\ \A q \in DOMAIN s : s[q] \in Pending'
       /\ \A u \in Pending : u = t \/ u \in Pending'
  BY <1>3, <1>9 DEF Pending
<1>12. Sorted(h, stack)'
  <2>1. Sorted(h, s \o Tail(stack))
    BY <1>2, <1>3, <1>5, <1>7, <1>8, StackSorted
  <2>. QED BY <1>8, <2>1 DEF Sorted, HeightOf
<1>13. Walked(V)'
  <2>1. visited' = { o \in V : KindOf(world, o) \in Once }
    BY <1>2 DEF WalkedBy, V
  <2>. QED BY <1>1, <1>2, <1>4, <1>9, <1>14, <2>1 DEF Walked, KindOf
<1>. QED BY <1>10, <1>11, <1>12, <1>13 DEF V, TasksMove

\* An object that was walked, and cannot wait for its turn: what is below it
\* is in order.
LEMMA WalkedAlready ==
  ASSUME NEW L, NEW h, NEW r, NEW W, Given(L, h, r), Inv(L, h, r, W),
         NEW t, NEW l, IsNext(t, l),
         l.to \in W, KindOf(world, l.to) \notin Once, NEW i \in Positions(l.to)
  PROVE  Fine(links[l.to][i]) /\ links[l.to][i].to \in W
<1>1. /\ l.to \in Objects /\ t \in Tasks(W)
      /\ h[l.to] < HeightOf(h, t)
  <2>1. l.to \in Objects /\ t \in Tasks(W)
    BY TaskIs
  <2>2. \/ h[l.to] < HeightOf(h, t)
        \/ KindOf(world, l.to) \in Once /\ h[l.to] <= HeightOf(h, t)
    BY TaskIs
  <2>. QED BY <2>1, <2>2
<1>2. stack \in Seq(Tasks(W)) /\ Sorted(h, stack) /\ W \subseteq Objects /\ "doc" \in Objects
  BY DEF Inv, Walked
<1>3. 1 \in DOMAIN stack /\ t = stack[1]
  BY <1>2 DEF IsNext
<1>4. "" \notin Objects
  BY WorldIs DEF Typed, Objects, Inv, Shape
<1>5. ASSUME NEW p \in DOMAIN stack, stack[p].object = l.to PROVE FALSE
  <2>1. 1 <= p
    BY <1>2
  <2>2. HeightOf(h, t) <= HeightOf(h, stack[p])
    BY <1>2, <1>3, <2>1 DEF Sorted
  <2>3. HeightOf(h, stack[p]) = h[l.to]
    BY <1>1, <1>4, <1>5 DEF HeightOf
  <2>4. HeightOf(h, t) \in Nat /\ h[l.to] \in Nat
    BY <1>1, <1>2, HeightIs DEF Given, Layers, Objects
  <2>. QED BY <1>1, <2>2, <2>3, <2>4
<1>6. ~ \E u \in Pending : u.object = l.to
  BY <1>5 DEF Pending
<1>. QED BY <1>6, ZenonT(30) DEF Inv, Covered

LEMMA CoveredStep ==
  ASSUME NEW L, NEW h, NEW r, NEW W, Given(L, h, r), Inv(L, h, r, W),
         NEW t, NEW l, IsNext(t, l),
         GrownBy(r, l), SettledBy(t, l), NEW s, WalkedBy(L, W, l, s)
  PROVE  Covered(L, W \cup {l.to})' /\ Harmless(L, W \cup {l.to})'
<1>. DEFINE V == W \cup {l.to}
<1>1. world' = world /\ world \in Worlds /\ Objects' = Objects
      /\ \A o : Positions(o)' = Positions(o)
  BY DEF GrownBy, Inv, Shape, Objects, Positions
<1>2. /\ \A u \in Pending' : (\E q \in DOMAIN s : u = s[q]) \/ u \in Pending
      /\ \A q \in DOMAIN s : s[q] \in Pending'
      /\ \A u \in Pending : u = t \/ u \in Pending'
  <2>1. TasksMove(t, s)
    BY TasksStep
  <2>. QED BY <2>1 DEF TasksMove
<1>3. /\ \A o \in Objects : \A i \in Positions(o) :
           /\ links'[o][i].to = links[o][i].to
           /\ links'[o][i] # links[o][i] => t.object = o /\ t.i = i
      /\ t.object # "" => Fine(links[t.object][t.i])' /\ links[t.object][t.i].to = l.to
  <2>1. LinkMoves(t, l)
    BY LinksStep
  <2>. QED BY <2>1 DEF LinkMoves
<1>4. W \subseteq Objects /\ stack \in Seq(Tasks(W)) /\ Covered(L, W) /\ Harmless(L, W)
      /\ Keys(world) \subseteq DOMAIN components
  BY DEF Inv, Walked, ComponentsKept
<1>5. l.to \in Objects /\ "" \notin Objects
  <2>1. l.to \in Objects
    BY TaskIs
  <2>. QED BY <1>1, <2>1, WorldIs DEF Typed, Objects
<1>6. /\ t.object = "" => t.key \in Keys(world) /\ l = components[t.key]
      /\ t.object # "" => t.object \in W /\ t.i \in Positions(t.object)
  BY TaskIs
<1>7. ASSUME NEW o \in Objects, NEW i \in Positions(o), Fine(links[o][i]), links[o][i].to \in W
      PROVE  Fine(links[o][i])' /\ links'[o][i].to \in V
  <2>1. CASE links'[o][i] = links[o][i]
    <3>1. PICK x : x = links[o][i]
      OBVIOUS
    <3>2. Fine(x)'
      BY <1>7, <3>1, FineStays
    <3>. QED BY <1>7, <2>1, <3>1, <3>2 DEF Fine, Key
  <2>2. CASE links'[o][i] # links[o][i]
    BY <1>3, <1>5, <1>7, <2>2
  <2>. QED BY <2>1, <2>2
<1>8. ASSUME NEW k \in Keys(world)
      PROVE  \/ components'[k].ref.how \in {"none", "local"} /\ components'[k].to \in V
             \/ \E u \in Pending' : u.object = "" /\ u.key = k
  <2>0. NoRef.how = "none"
    BY DEF NoRef
  <2>1. components'[k].to = components[k].to
        /\ \/ components'[k].ref = components[k].ref
           \/ components'[k].ref.how \in {"none", "local"} /\ components[k].to = l.to
    BY <1>4, <2>0 DEF GrownBy
  <2>2. CASE components[k].ref.how \in {"none", "local"} /\ components[k].to \in W
    BY <2>1, <2>2
  <2>3. CASE \E u \in Pending : u.object = "" /\ u.key = k
    <3>1. PICK u \in Pending : u.object = "" /\ u.key = k
      BY <2>3
    <3>2. CASE u = t
      BY <1>6, <2>1, <3>1, <3>2 DEF SettledBy
    <3>3. CASE u # t
      BY <1>2, <3>1, <3>3
    <3>. QED BY <3>2, <3>3
  <2>. QED BY <1>4, <2>2, <2>3 DEF Covered
<1>9. ASSUME NEW o \in V, NEW i \in Positions(o)
      PROVE  \/ Fine(links[o][i])' /\ links'[o][i].to \in V
             \/ \E u \in Pending' : u.object = o /\ u.i = i /\ Good(L, u)
  <2>1. CASE o \in W /\ Fine(links[o][i]) /\ links[o][i].to \in W
    BY <1>4, <1>7, <2>1
  <2>2. CASE \E u \in Pending : u.object = o /\ u.i = i /\ Good(L, u)
    <3>1. PICK u \in Pending : u.object = o /\ u.i = i /\ Good(L, u)
      BY <2>2
    <3>2. CASE u = t
      <4>1. o \in Objects
        BY <1>4, <1>5
      <4>. QED BY <1>3, <1>5, <3>1, <3>2, <4>1
    <3>3. CASE u # t
      BY <1>2, <3>1, <3>3
    <3>. QED BY <3>2, <3>3
  <2>3. CASE o \notin W
    <3>1. PICK e \in BOOLEAN : s = TasksBelow(o, e) /\ (e \/ InRoot(world, o) \/ o \in L)
      BY <2>3 DEF WalkedBy
    <3>2. s[i] \in Pending' /\ s[i].object = o /\ s[i].i = i /\ s[i].ext = e
      BY <1>2, <3>1 DEF TasksBelow
    <3>. QED BY <3>1, <3>2 DEF Good
  <2>. QED BY <1>4, <2>1, <2>2, <2>3 DEF Covered
<1>10. ASSUME NEW u \in Pending', u.object # "", ~Good(L, u)
       PROVE  Fine(links[u.object][u.i])' /\ links'[u.object][u.i].to \in V
  <2>1. CASE u \in Pending
    <3>1. u \in Tasks(W)
      BY <1>4, <2>1 DEF Pending
    <3>2. u.object \in Objects /\ u.i \in Positions(u.object)
      BY <1>4, <1>10, <3>1 DEF Tasks, ComponentTasks, LinkTasks
    <3>3. Fine(links[u.object][u.i]) /\ links[u.object][u.i].to \in W
      BY <1>4, <1>10, <2>1 DEF Harmless
    <3>. QED BY <1>7, <3>2, <3>3
  <2>2. CASE \E q \in DOMAIN s : u = s[q]
    <3>1. PICK q \in DOMAIN s : u = s[q]
      BY <2>2
    <3>2. PICK e \in BOOLEAN : /\ s = TasksBelow(l.to, e)
                               /\ \/ e \/ InRoot(world, l.to) \/ l.to \in L
                                  \/ l.to \in W /\ KindOf(world, l.to) \notin Once
      BY <3>1 DEF WalkedBy
    <3>3. q \in Positions(l.to) /\ u.object = l.to /\ u.i = q /\ u.ext = e
      BY <3>1, <3>2 DEF TasksBelow
    <3>4. l.to \in W /\ KindOf(world, l.to) \notin Once
      BY <1>10, <3>2, <3>3 DEF Good
    <3>5. Fine(links[l.to][q]) /\ links[l.to][q].to \in W
      BY <3>3, <3>4, WalkedAlready
    <3>. QED BY <1>5, <1>7, <3>3, <3>5
  <2>. QED BY <1>2, <2>1, <2>2
<1>. HIDE DEF V
<1>11. \A u : Good(L, u)' <=> Good(L, u)
  BY <1>1 DEF Good, InRoot
<1>12. Covered(L, V)'
  BY <1>1, <1>8, <1>9, <1>11 DEF Covered
<1>13. Harmless(L, V)'
  BY <1>1, <1>10, <1>11 DEF Harmless
<1>. QED BY <1>12, <1>13 DEF V

LEMMA InvStep ==
  ASSUME NEW L, NEW h, NEW r, NEW W, Given(L, h, r), Inv(L, h, r, W),
         NEW t, NEW l, IsNext(t, l),
         GrownBy(r, l), SettledBy(t, l), NEW s, WalkedBy(L, W, l, s)
  PROVE  Inv(L, h, r, W \cup {l.to})' /\ Given(L, h, r)'
<1>. DEFINE V == W \cup {l.to}
<1>1. ComponentsKept(V)' /\ Chained(r)'
  BY ComponentsStep, ChainsStep DEF Inv
<1>2. Shape' /\ LinksKept(V)'
  BY LinksStep
<1>3. Walked(V)' /\ Sorted(h, stack)'
  BY TasksStep
<1>4. Covered(L, V)' /\ Harmless(L, V)'
  BY CoveredStep
<1>5. Given(L, h, r)'
  BY DEF GrownBy, Given, Astray, Layers, Keys, LinksOf, InRoot, KindOf, Key, Objects
<1>. HIDE DEF V
<1>6. Inv(L, h, r, V)'
  BY <1>1, <1>2, <1>3, <1>4 DEF Inv
<1>. QED BY <1>5, <1>6 DEF V

(***************************************************************************)
(* The actions.                                                            *)
(***************************************************************************)
LEMMA LinkKnown ==
  ASSUME NEW L, NEW h, NEW r, NEW W, Given(L, h, r), Inv(L, h, r, W),
         NEW t, NEW l, IsNext(t, l)
  PROVE  /\ l.ref # NoRef => l.to \in Named(world)
         /\ l.ref.how \in {"none", "local", "external", "whole"} /\ (l.ref.how = "none" <=> l.ref = NoRef)
         /\ l.ref.how \in {"external", "whole"} => l \in Links(world)
         /\ t.object = "" /\ l.ref.how \in {"external", "whole"} => l = world.components[t.key]
<1>1. world \in Worlds /\ W \subseteq Objects /\ LinksKept(W) /\ ComponentsKept(W) /\ NoRef.how = "none"
  BY DEF Inv, Shape, Walked, NoRef
<1>2. l = [ref |-> l.ref, to |-> l.to]
  BY TaskIs
<1>3. CASE t.object = ""
  <2>1. t.key \in Keys(world) /\ l = components[t.key] /\ l.to = world.components[t.key].to
    BY <1>3, TaskIs
  <2>. DEFINE m == world.components[t.key]
  <2>2. /\ m = [ref |-> m.ref, to |-> m.to] /\ m \in Links(world)
        /\ m.ref.how \in {"none", "local", "external", "whole"} /\ (m.ref.how = "none" <=> m.ref = NoRef)
        /\ m.ref # NoRef => m.to \in Named(world)
    BY <1>1, <2>1, KeyIs, LinkIs
  <2>3. /\ l.ref \in {NoRef, m.ref} \/ l.ref.how = "local"
        /\ m.ref = NoRef => l.ref = NoRef
    BY <1>1, <2>1 DEF ComponentsKept
  <2>. HIDE DEF m
  <2>4. l.to = m.to
    BY <2>1 DEF m
  <2>5. l.ref.how \in {"external", "whole"} => l = m
    BY <1>1, <1>2, <2>2, <2>3, <2>4
  <2>. QED BY <1>1, <2>2, <2>3, <2>4, <2>5 DEF m
<1>4. CASE t.object # ""
  <2>1. t.object \in Objects /\ t.i \in Positions(t.object) /\ l = links[t.object][t.i]
        /\ l.to = Original(t.object, t.i).to
    BY <1>1, <1>4, TaskIs
  <2>. DEFINE m == Original(t.object, t.i)
  <2>2. /\ m = [ref |-> m.ref, to |-> m.to] /\ m \in Links(world)
        /\ m.ref.how \in {"none", "local", "external", "whole"} /\ (m.ref.how = "none" <=> m.ref = NoRef)
        /\ m.ref # NoRef => m.to \in Named(world)
    BY <1>1, <2>1, OriginalIs, LinkIs
  <2>3. /\ l.ref = m.ref \/ l.ref = NoRef \/ l.ref.how = "local"
        /\ m.ref = NoRef => l.ref = NoRef
    BY <1>1, <2>1 DEF LinksKept, Fine
  <2>. HIDE DEF m
  <2>4. l.to = m.to
    BY <2>1 DEF m
  <2>5. l.ref.how \in {"external", "whole"} => l = m
    BY <1>1, <1>2, <2>2, <2>3, <2>4
  <2>. QED BY <1>1, <1>4, <2>2, <2>3, <2>4, <2>5
<1>. QED BY <1>3, <1>4

\* What the walk takes for a part of the document, or for one of what it takes
\* for a part of it, is, or it is of L, or was walked.
LEMMA Rightly ==
  ASSUME NEW L, NEW h, NEW r, NEW W, Given(L, h, r), Inv(L, h, r, W),
         NEW t, NEW l, IsNext(t, l), ~IsExternal(l.ref, t.ext),
         ~t.ext \/ KindOf(world, l.to) = "paths"
  PROVE  InRoot(world, l.to) \/ l.to \in L \/ l.to \in W
<1>1. world \in Worlds /\ W \subseteq Objects /\ LinksKept(W) /\ ComponentsKept(W) /\ Harmless(L, W)
      /\ stack \in Seq(Tasks(W)) /\ Homed(world) /\ Astray(world, L)
  BY WorldIs DEF Inv, Shape, Walked, Given
<1>2. l.ref = NoRef \/ (l.ref.how = "local" /\ ~t.ext)
  BY LinkKnown DEF IsExternal
<1>3. l.to \in Objects
  BY TaskIs
<1>4. CASE t.object = ""
  <2>1. t.key \in Keys(world) /\ l = components[t.key] /\ l.to = world.components[t.key].to
    BY <1>4, TaskIs
  <2>2. CASE l.ref # world.components[t.key].ref
    BY <1>1, <2>1, <2>2 DEF ComponentsKept
  <2>3. CASE l.ref = world.components[t.key].ref
    BY <1>1, <1>2, <2>1, <2>3 DEF Homed, Astray
  <2>. QED BY <2>2, <2>3
<1>5. CASE t.object # ""
  <2>1. t.object \in Objects /\ t.i \in Positions(t.object) /\ l = links[t.object][t.i]
        /\ l.to = Original(t.object, t.i).to /\ Original(t.object, t.i) \in LinksOf(world, t.object)
    BY <1>1, <1>5, TaskIs, OriginalIs
  <2>2. CASE l.ref # Original(t.object, t.i).ref
    BY <1>1, <2>1, <2>2 DEF LinksKept
  <2>3. CASE ~Good(L, t)
    <3>1. t \in Pending
      BY TaskIs
    <3>. QED BY <1>1, <1>5, <2>1, <2>3, <3>1 DEF Harmless
  <2>4. CASE l.ref = Original(t.object, t.i).ref /\ Good(L, t)
    <3>1. CASE InRoot(world, t.object) /\ l.ref = NoRef
      <4>1. \A o \in Objects : \A m \in LinksOf(world, o) :
              m.ref = NoRef => world.of[m.to].home[1] = world.of[o].home[1]
        BY <1>1 DEF Homed, Objects
      <4>2. world.of[Original(t.object, t.i).to].home[1] = world.of[t.object].home[1]
        BY <2>1, <2>4, <3>1, <4>1
      <4>. QED BY <2>1, <3>1, <4>2 DEF InRoot
    <3>2. CASE InRoot(world, t.object) /\ l.ref.how = "local"
      BY <1>1, <2>1, <2>4, <3>2 DEF Astray, Objects
    <3>3. CASE KindOf(world, l.to) = "paths" /\ l.ref = NoRef
      BY <1>1, <2>1, <2>4, <3>3 DEF Astray, Objects
    <3>4. CASE t.object \in L /\ l.ref = NoRef
      BY <1>1, <2>1, <2>4, <3>4 DEF Astray, Objects
    <3>5. CASE t.object \in L /\ ~InRoot(world, t.object) /\ l.ref.how = "local"
      BY <2>1, <2>4, <3>5 DEF Given
    <3>. QED BY <1>2, <2>4, <3>1, <3>2, <3>3, <3>4, <3>5 DEF Good
  <2>. QED BY <2>2, <2>3, <2>4
<1>. QED BY <1>4, <1>5

\* A link that is not taken for an external one is in order.
LEMMA FineAlready ==
  ASSUME NEW L, NEW h, NEW r, NEW W, Given(L, h, r), Inv(L, h, r, W),
         NEW t, NEW l, IsNext(t, l), ~IsExternal(l.ref, t.ext), t.object # ""
  PROVE  Fine(l)
<1>1. world \in Worlds /\ W \subseteq Objects /\ LinksKept(W) /\ ComponentsKept(W) /\ Harmless(L, W)
      /\ stack \in Seq(Tasks(W)) /\ Resolved(world)
  BY WorldIs DEF Inv, Shape, Walked, Given
<1>2. l.ref = NoRef \/ (l.ref.how = "local" /\ ~t.ext)
  BY LinkKnown DEF IsExternal
<1>3. l = [ref |-> l.ref, to |-> l.to]
  BY TaskIs
<1>4. t.object \in Objects /\ t.i \in Positions(t.object) /\ l = links[t.object][t.i]
      /\ l.to = Original(t.object, t.i).to /\ Original(t.object, t.i) \in LinksOf(world, t.object)
      /\ Original(t.object, t.i) \in Links(world)
  BY <1>1, TaskIs, OriginalIs
<1>5. CASE ~Good(L, t)
  <2>1. t \in Pending
    BY TaskIs
  <2>. QED BY <1>1, <1>4, <1>5, <2>1 DEF Harmless
<1>6. CASE l.ref # Original(t.object, t.i).ref
  BY <1>1, <1>4, <1>6 DEF LinksKept
<1>7. CASE l.ref = Original(t.object, t.i).ref /\ Good(L, t) /\ l.ref.how = "local" /\ ~t.ext
  <2>. DEFINE m == Original(t.object, t.i)
  <2>1. m = [ref |-> m.ref, to |-> m.to]
    BY <1>1, <1>4, LinkIs
  <2>. HIDE DEF m
  <2>2. l = m
    BY <1>3, <1>4, <1>7, <2>1 DEF m
  <2>3. InRoot(world, t.object)
    BY <1>4, <1>7, <2>2 DEF Given, Good, m
  <2>4. Key(world, l) \in Keys(world) /\ world.components[Key(world, l)].to = l.to
    BY <1>1, <1>4, <1>7, <2>2, <2>3 DEF Resolved, Objects, m
  <2>. QED BY <1>1, <1>7, <2>4 DEF Fine, ComponentsKept
<1>. QED BY <1>2, <1>5, <1>6, <1>7 DEF Fine

\* A visit, said of its task and its link.
Updates(t, l, kind) ==
  /\ t.object = "" => /\ components' = [Extended(t, l, kind) EXCEPT ![t.key].ref = Rewritten(t, l, kind)]
                      /\ links' = links
  /\ t.object # "" => /\ components' = Extended(t, l, kind)
                      /\ links' = [links EXCEPT ![t.object][t.i].ref = Rewritten(t, l, kind)]

LEMMA VisitIs ==
  ASSUME NEW kind, NEW seen, Visit(kind, seen), NEW t, NEW l, IsNext(t, l)
  PROVE  /\ KindOf(world, l.to) = kind /\ world' = world
         /\ Updates(t, l, kind)
         /\ \E e \in BOOLEAN : /\ e <=> IsExternal(l.ref, t.ext) \/ t.ext
                               /\ stack' = IF l.to \in seen THEN Tail(stack) ELSE Below(l.to, e)
<1>. DEFINE t0 == Head(stack)
            l0 == At(t0)
            e0 == IsExternal(l0.ref, t0.ext) \/ t0.ext
            x0 == Extended(t0, l0, kind)
            r0 == Rewritten(t0, l0, kind)
<1>1. /\ KindOf(world, l0.to) = kind /\ world' = world
      /\ t0.object = "" => components' = [x0 EXCEPT ![t0.key].ref = r0] /\ links' = links
      /\ t0.object # "" => components' = x0 /\ links' = [links EXCEPT ![t0.object][t0.i].ref = r0]
      /\ stack' = IF l0.to \in seen THEN Tail(stack) ELSE Below(l0.to, e0)
  BY Zenon DEF Visit, KindOf
<1>2. (e0 <=> IsExternal(l0.ref, t0.ext) \/ t0.ext) /\ e0 \in BOOLEAN
  OBVIOUS
<1>. HIDE DEF e0
<1>3. t = t0 /\ l = At(t)
  BY DEF IsNext
<1>. HIDE DEF t0
<1>4. l = l0
  BY <1>3
<1>. HIDE DEF l0
<1>5. x0 = Extended(t, l, kind) /\ r0 = Rewritten(t, l, kind)
  BY <1>3, <1>4
<1>. HIDE DEF x0, r0
<1>6. KindOf(world, l.to) = kind /\ world' = world
  BY <1>1, <1>4
<1>7. t.object = "" => components' = [x0 EXCEPT ![t.key].ref = r0] /\ links' = links
  BY <1>1, <1>3
<1>8. t.object # "" => components' = x0 /\ links' = [links EXCEPT ![t.object][t.i].ref = r0]
  BY <1>1, <1>3
<1>9. stack' = IF l.to \in seen THEN Tail(stack) ELSE Below(l.to, e0)
  BY <1>1, <1>4
<1>10. e0 <=> IsExternal(l.ref, t.ext) \/ t.ext
  BY <1>2, <1>3, <1>4
<1>11. Updates(t, l, kind)
  BY <1>5, <1>7, <1>8 DEF Updates
<1>. QED BY <1>2, <1>6, <1>9, <1>10, <1>11, Zenon

\* The task is about a component.
OfComponent(t) == t.object = ""

\* The components after a visit, key by key.
ExtendedAt(t, l, kind, k) ==
  IF /\ IsExternal(l.ref, t.ext) /\ k = <<kind, NameOf(kind, l)>>
     /\ kind = "callbacks" \/ <<kind, NameOf(kind, l)>> \notin DOMAIN components
  THEN [ref |-> NoRef, to |-> l.to] ELSE components[k]

ExtendsTo(X, t, l, kind) ==
  /\ DOMAIN X = IF IsExternal(l.ref, t.ext) THEN DOMAIN components \cup {<<kind, NameOf(kind, l)>>}
                ELSE DOMAIN components
  /\ X = [k \in DOMAIN X |-> X[k]]
  /\ \A k \in DOMAIN X : X[k] = ExtendedAt(t, l, kind, k)
  /\ \A k \in DOMAIN X : X[k] = [ref |-> X[k].ref, to |-> X[k].to]

LEMMA ExtendedIs ==
  ASSUME Shape, NEW kind, NEW t, NEW l
  PROVE  ExtendsTo(Extended(t, l, kind), t, l, kind)
<1>. DEFINE X == Extended(t, l, kind)
            key == <<kind, NameOf(kind, l)>>
            external == IsExternal(l.ref, t.ext)
            D == DOMAIN components
<1>1. components = [k \in D |-> components[k]]
      /\ \A k \in D : components[k] = [ref |-> components[k].ref, to |-> components[k].to]
  BY DEF Shape
<1>2. X = IF external /\ (kind = "callbacks" \/ key \notin D)
          THEN [k \in D \cup {key} |-> IF k = key THEN [ref |-> NoRef, to |-> l.to] ELSE components[k]]
          ELSE components
  BY DEF Extended
<1>3. \A k : ExtendedAt(t, l, kind, k) = IF external /\ (kind = "callbacks" \/ key \notin D) /\ k = key
                                         THEN [ref |-> NoRef, to |-> l.to] ELSE components[k]
  BY DEF ExtendedAt
<1>. HIDE DEF X, key, external, D
<1>4. CASE external /\ (kind = "callbacks" \/ key \notin D)
  <2>1. X = [k \in D \cup {key} |-> IF k = key THEN [ref |-> NoRef, to |-> l.to] ELSE components[k]]
    BY <1>2, <1>4
  <2>2. DOMAIN X = D \cup {key} /\ \A k \in DOMAIN X : X[k] = ExtendedAt(t, l, kind, k)
    BY <1>3, <1>4, <2>1
  <2>3. \A k \in DOMAIN X : X[k] = [ref |-> X[k].ref, to |-> X[k].to]
    BY <1>1, <2>1
  <2>4. X = [k \in DOMAIN X |-> X[k]]
    BY <2>1
  <2>. QED BY <1>4, <2>2, <2>3, <2>4 DEF X, key, external, D, ExtendsTo
<1>5. CASE ~(external /\ (kind = "callbacks" \/ key \notin D))
  <2>1. X = components
    BY <1>2, <1>5
  <2>2. DOMAIN X = (IF external THEN D \cup {key} ELSE D)
    BY <1>5, <2>1 DEF D
  <2>3. \A k \in DOMAIN X : X[k] = ExtendedAt(t, l, kind, k)
    BY <1>3, <1>5, <2>1
  <2>4. X = [k \in DOMAIN X |-> X[k]] /\ \A k \in DOMAIN X : X[k] = [ref |-> X[k].ref, to |-> X[k].to]
    BY <1>1, <2>1 DEF D
  <2>. QED BY <2>2, <2>3, <2>4 DEF X, key, external, D, ExtendsTo
<1>. QED BY <1>4, <1>5 DEF X

LEMMA ChangeRef ==
  ASSUME NEW X, X = [j \in DOMAIN X |-> X[j]], NEW k \in DOMAIN X, NEW to, NEW ref,
         X[k] = [ref |-> X[k].ref, to |-> to]
  PROVE  [X EXCEPT ![k].ref = ref] = [j \in DOMAIN X |-> IF j = k THEN [ref |-> ref, to |-> to] ELSE X[j]]
<1>1. [X[k] EXCEPT !.ref = ref] = [ref |-> ref, to |-> to]
  OBVIOUS
<1>. QED BY <1>1

UpdatedTo(t, l, kind, ref) ==
  /\ DOMAIN components' = IF IsExternal(l.ref, t.ext) THEN DOMAIN components \cup {<<kind, NameOf(kind, l)>>}
                          ELSE DOMAIN components
  /\ components' = [k \in DOMAIN components' |-> [ref |-> components'[k].ref, to |-> components'[k].to]]
  /\ \A k \in DOMAIN components' :
       components'[k] = IF OfComponent(t) /\ k = t.key THEN [ref |-> ref, to |-> l.to]
                        ELSE ExtendedAt(t, l, kind, k)

\* The task t is about a component of its own, if about one.
OwnKey(t, l) == t.object = "" => t.key \in DOMAIN components /\ components[t.key].to = l.to

LEMMA ComponentsAre ==
  ASSUME Shape, NEW kind, NEW t, NEW l, Updates(t, l, kind), NEW ref, ref = Rewritten(t, l, kind),
         OwnKey(t, l)
  PROVE  UpdatedTo(t, l, kind, ref)
<1>1. PICK X : X = Extended(t, l, kind)
  OBVIOUS
<1>2. ExtendsTo(X, t, l, kind)
  BY <1>1, ExtendedIs
<1>3. DOMAIN components \subseteq DOMAIN X
  BY <1>2 DEF ExtendsTo
<1>4. \A k \in DOMAIN X : X[k] = [ref |-> X[k].ref, to |-> X[k].to]
  BY <1>2 DEF ExtendsTo
<1>5. X = [k \in DOMAIN X |-> X[k]]
  BY <1>2, Zenon DEF ExtendsTo
<1>6. CASE t.object = ""
  <2>1. components' = [X EXCEPT ![t.key].ref = ref]
    BY <1>1, <1>6, Zenon DEF Updates
  <2>2. t.key \in DOMAIN X
    BY <1>3, <1>6 DEF OwnKey
  <2>3. X[t.key].to = l.to
    <3>1. X[t.key] = [ref |-> NoRef, to |-> l.to] \/ X[t.key] = components[t.key]
      BY <1>2, <2>2 DEF ExtendsTo, ExtendedAt
    <3>2. components[t.key].to = l.to
      BY <1>6 DEF OwnKey
    <3>3. CASE X[t.key] = [ref |-> NoRef, to |-> l.to]
      BY <3>3
    <3>4. CASE X[t.key] = components[t.key]
      BY <3>2, <3>4
    <3>. QED BY <3>1, <3>3, <3>4
  <2>4. X[t.key] = [ref |-> X[t.key].ref, to |-> l.to]
    BY <1>4, <2>2, <2>3
  <2>5. components' = [k \in DOMAIN X |-> IF k = t.key THEN [ref |-> ref, to |-> l.to] ELSE X[k]]
    <3>1. [X EXCEPT ![t.key].ref = ref]
            = [k \in DOMAIN X |-> IF k = t.key THEN [ref |-> ref, to |-> l.to] ELSE X[k]]
      BY <1>5, <2>2, <2>4, ChangeRef
    <3>. QED BY <2>1, <3>1, Zenon
  <2>6. DOMAIN components' = DOMAIN X
        /\ \A k \in DOMAIN X : components'[k] = IF k = t.key THEN [ref |-> ref, to |-> l.to] ELSE X[k]
    BY <2>5
  <2>7. \A k \in DOMAIN X : components'[k] = [ref |-> components'[k].ref, to |-> components'[k].to]
    BY <1>4, <2>6
  <2>8. components' = [k \in DOMAIN X |-> components'[k]]
    BY <2>5
  <2>9. components' = [k \in DOMAIN components' |-> [ref |-> components'[k].ref, to |-> components'[k].to]]
    BY <2>6, <2>7, <2>8
  <2>10. \A k \in DOMAIN components' :
           components'[k] = IF OfComponent(t) /\ k = t.key THEN [ref |-> ref, to |-> l.to]
                            ELSE ExtendedAt(t, l, kind, k)
    <3>1. OfComponent(t)
      BY <1>6 DEF OfComponent
    <3>. QED BY <1>2, <2>6, <3>1 DEF ExtendsTo
  <2>11. DOMAIN components' = IF IsExternal(l.ref, t.ext) THEN DOMAIN components \cup {<<kind, NameOf(kind, l)>>}
                              ELSE DOMAIN components
    BY <1>2, <2>6 DEF ExtendsTo
  <2>. QED BY <2>9, <2>10, <2>11 DEF UpdatedTo
<1>7. CASE t.object # ""
  <2>1. components' = X
    BY <1>1, <1>7 DEF Updates
  <2>2. X = [k \in DOMAIN X |-> [ref |-> X[k].ref, to |-> X[k].to]]
    BY <1>4, <1>5
  <2>3. ~OfComponent(t)
    BY <1>7 DEF OfComponent
  <2>. QED BY <1>2, <2>1, <2>2, <2>3 DEF ExtendsTo, UpdatedTo
<1>. QED BY <1>6, <1>7

LEMMA OwnTask ==
  ASSUME NEW L, NEW h, NEW r, NEW W, Given(L, h, r), Inv(L, h, r, W), NEW t, NEW l, IsNext(t, l),
         OfComponent(t)
  PROVE  /\ t.key \in Keys(world) /\ t.key \in DOMAIN components /\ ~t.ext /\ l = components[t.key]
         /\ l.ref.how \in {"external", "whole"} => l = world.components[t.key]
<1>0. t.object = ""
  BY DEF OfComponent
<1>1. t.key \in Keys(world) /\ ~t.ext /\ l = components[t.key]
  BY <1>0, TaskIs
<1>3. l.ref.how \in {"external", "whole"} => l = world.components[t.key]
  BY <1>0, LinkKnown
<1>2. Keys(world) \subseteq DOMAIN components
  BY DEF Inv, ComponentsKept
<1>. QED BY <1>1, <1>2, <1>3

\* What is known of the name of an external link.
Naming(t, l, kind) ==
  LET key == <<kind, NameOf(kind, l)>>
  IN IsExternal(l.ref, t.ext) =>
       /\ l.ref # NoRef /\ l.to \in Named(world)
       /\ key \in DOMAIN components => components[key].to = l.to
       /\ key \notin DOMAIN components => key = <<KindOf(world, l.to), world.of[l.to].home>>
       /\ \/ key \in Keys(world) /\ Straightly(world, l.ref) /\ key = Key(world, l)
          \/ key \in DOMAIN components => components[key].ref = NoRef
          \/ kind \in Cleared

LEMMA NamingIs ==
  ASSUME NEW L, NEW h, NEW r, NEW W, Given(L, h, r), Inv(L, h, r, W), NEW t, NEW l, IsNext(t, l),
         NEW kind \in ToSet(Kinds), kind = KindOf(world, l.to)
  PROVE  Naming(t, l, kind)
<1>. DEFINE key == <<kind, NameOf(kind, l)>>
<1>. SUFFICES ASSUME IsExternal(l.ref, t.ext)
     PROVE  /\ l.ref # NoRef /\ l.to \in Named(world)
            /\ key \in DOMAIN components => components[key].to = l.to
            /\ key \notin DOMAIN components => key = <<KindOf(world, l.to), world.of[l.to].home>>
            /\ \/ key \in Keys(world) /\ Straightly(world, l.ref) /\ key = Key(world, l)
               \/ key \in DOMAIN components => components[key].ref = NoRef
               \/ kind \in Cleared
  BY DEF Naming
<1>1. ComponentsKept(W) /\ Shape /\ NoRef.how = "none"
  BY DEF Inv, NoRef
<1>2. l.ref # NoRef
  BY <1>1 DEF IsExternal
<1>3. l.to \in Named(world)
  BY <1>2, LinkKnown
<1>4. l.to \in Objects
  BY TaskIs
<1>5. l.ref.how = "external" => l \in Links(world)
  BY LinkKnown
<1>6. /\ key \in DOMAIN components => components[key].to = l.to
      /\ key \notin DOMAIN components => key = <<kind, world.of[l.to].home>>
      /\ \/ key \in Keys(world) /\ Straightly(world, l.ref) /\ key = Key(world, l)
         \/ key \in DOMAIN components => components[key].ref = NoRef
         \/ kind \in Cleared
  BY <1>1, <1>3, <1>4, <1>5, NameIs
<1>. QED BY <1>2, <1>3, <1>6

\* The new reference.
LEMMA RewrittenIs ==
  ASSUME NEW t, NEW l, NEW kind, NEW ref, ref = Rewritten(t, l, kind)
  PROVE  \/ ref = NoRef /\ OfComponent(t) /\ kind \in Cleared
         \/ /\ ref.how = "local" /\ ref.name = NameOf(kind, l) /\ IsExternal(l.ref, t.ext)
            /\ OfComponent(t) => kind \notin Cleared
         \/ ref = l.ref /\ ~IsExternal(l.ref, t.ext)
<1>0. OfComponent(t) <=> t.object = ""
  BY DEF OfComponent
<1>1. CASE kind \in Cleared /\ t.object = ""
  BY <1>0, <1>1 DEF Rewritten
<1>2. CASE IsExternal(l.ref, t.ext) /\ ~(kind \in Cleared /\ t.object = "")
  <2>1. ref = Local(NameOf(kind, l))
    BY <1>2 DEF Rewritten
  <2>. QED BY <1>0, <1>2, <2>1, LocalIs
<1>3. CASE ~IsExternal(l.ref, t.ext) /\ ~(kind \in Cleared /\ t.object = "")
  BY <1>0, <1>3 DEF Rewritten
<1>. QED BY <1>1, <1>2, <1>3

\* A component that refers to another file comes to refer to one of the document.
LEMMA VisitFollows ==
  ASSUME NEW L, NEW h, NEW r, NEW W, Given(L, h, r), Inv(L, h, r, W), NEW t, NEW l, IsNext(t, l),
         world' = world, NEW kind, kind \in ToSet(Kinds), kind = KindOf(world, l.to),
         NEW ref, UpdatedTo(t, l, kind, ref),
         OfComponent(t), ref.how = "local", ref.name = NameOf(kind, l), IsExternal(l.ref, t.ext),
         kind \notin Cleared
  PROVE  Follows(r, t.key)'
<1>. DEFINE key == <<kind, NameOf(kind, l)>>
            D == DOMAIN components
<1>1. t.key \in Keys(world) /\ t.key \in D /\ ~t.ext /\ l = components[t.key]
  BY OwnTask
<1>2. /\ l.ref # NoRef
      /\ key \in D => components[key].to = l.to
      /\ \/ key \in Keys(world) /\ Straightly(world, l.ref) /\ key = Key(world, l)
         \/ key \in D => components[key].ref = NoRef
  BY NamingIs DEF Naming
<1>3. key \in DOMAIN components'
  BY DEF UpdatedTo
<1>4. components'[t.key] = [ref |-> ref, to |-> l.to] /\ t.key \in DOMAIN components'
  BY <1>1 DEF UpdatedTo
<1>5. Key(world, components[t.key])' = key
  BY <1>4 DEF Key, KindOf
<1>6. components'[key] = [ref |-> ref, to |-> l.to] \/ components'[key] = ExtendedAt(t, l, kind, key)
  BY <1>3 DEF UpdatedTo
<1>7. ExtendedAt(t, l, kind, key) = [ref |-> NoRef, to |-> l.to]
      \/ (key \in D /\ ExtendedAt(t, l, kind, key) = components[key])
  BY DEF ExtendedAt
<1>8. components'[key].to = l.to
  BY <1>2, <1>6, <1>7
<1>9. CASE key \in Keys(world) /\ Straightly(world, l.ref) /\ key = Key(world, l)
  <2>1. l = world.components[t.key]
    <3>1. l.ref.how \in {"none", "local", "external", "whole"} /\ (l.ref.how = "none" <=> l.ref = NoRef)
      BY LinkKnown
    <3>2. l.ref.how \in {"external", "whole"}
      BY <1>1, <1>2, <3>1 DEF IsExternal
    <3>. QED BY <3>2, OwnTask
  <2>2. r[key] < r[t.key]
    BY <1>1, <1>9, <2>1 DEF Given
  <2>3. Keys(world)' = Keys(world)
    BY DEF Keys
  <2>. QED BY <1>1, <1>3, <1>4, <1>5, <1>8, <1>9, <2>2, <2>3 DEF Follows
<1>10. CASE key \in D => components[key].ref = NoRef
  <2>1. key # t.key
    BY <1>1, <1>2, <1>10
  <2>2. components'[key] = ExtendedAt(t, l, kind, key)
    BY <1>3, <2>1 DEF UpdatedTo
  <2>3. components'[key].ref = NoRef
    BY <1>7, <1>10, <2>2
  <2>. QED BY <1>3, <1>4, <1>5, <1>8, <2>3 DEF Follows
<1>. QED BY <1>2, <1>9, <1>10

LEMMA VisitGrows ==
  ASSUME NEW L, NEW h, NEW r, NEW W, Given(L, h, r), Inv(L, h, r, W), NEW t, NEW l, IsNext(t, l),
         world' = world, NEW kind, kind \in ToSet(Kinds), kind = KindOf(world, l.to),
         NEW ref, ref = Rewritten(t, l, kind), UpdatedTo(t, l, kind, ref)
  PROVE  /\ GrownBy(r, l)
         /\ IsExternal(l.ref, t.ext) => /\ <<kind, NameOf(kind, l)>> \in DOMAIN components'
                                        /\ components'[<<kind, NameOf(kind, l)>>].to = l.to
         /\ OfComponent(t) => components'[t.key].ref = ref
<1>. DEFINE key == <<kind, NameOf(kind, l)>>
            D == DOMAIN components
<1>1. /\ DOMAIN components' = IF IsExternal(l.ref, t.ext) THEN D \cup {key} ELSE D
      /\ components' = [k \in DOMAIN components' |-> [ref |-> components'[k].ref, to |-> components'[k].to]]
      /\ \A k \in DOMAIN components' :
           components'[k] = IF OfComponent(t) /\ k = t.key THEN [ref |-> ref, to |-> l.to]
                            ELSE ExtendedAt(t, l, kind, k)
  BY DEF UpdatedTo
<1>2. IsFiniteSet(D)
  BY DEF Inv, Shape
<1>3. IsFiniteSet(D \cup {key})
  BY <1>2, FS_AddElement
<1>4. IsFiniteSet(DOMAIN components') /\ D \subseteq DOMAIN components'
  BY <1>1, <1>2, <1>3
<1>5. Naming(t, l, kind)
  BY NamingIs
<1>6. OfComponent(t) => t.key \in Keys(world) /\ t.key \in D /\ l = components[t.key]
  BY OwnTask
<1>7. \A k : ExtendedAt(t, l, kind, k) = components[k]
             \/ (IsExternal(l.ref, t.ext) /\ k = key /\ ExtendedAt(t, l, kind, k) = [ref |-> NoRef, to |-> l.to])
  BY DEF ExtendedAt
<1>8. \A k \in DOMAIN components' \ D :
        components'[k] = [ref |-> NoRef, to |-> l.to] /\ IsExternal(l.ref, t.ext) /\ k = key
  BY <1>1, <1>6 DEF ExtendedAt
<1>. HIDE DEF D, key
<1>9. ASSUME NEW k \in D
      PROVE  /\ components'[k].to = components[k].to
             /\ components[k].ref = NoRef => components'[k].ref = NoRef
             /\ \/ components'[k].ref = components[k].ref
                \/ components'[k].ref = NoRef /\ components[k].to = l.to
                \/ /\ components'[k].ref.how = "local" /\ components[k].to = l.to
                   /\ k \in Keys(world) /\ Follows(r, k)'
  <2>1. CASE OfComponent(t) /\ k = t.key
    <3>1. components'[k] = [ref |-> ref, to |-> l.to] /\ l = components[k]
      BY <1>1, <1>4, <1>6, <2>1
    <3>2. CASE ref = NoRef
      BY <3>1, <3>2
    <3>3. CASE ref = l.ref
      BY <3>1, <3>3
    <3>4. CASE ref.how = "local" /\ ref.name = NameOf(kind, l) /\ IsExternal(l.ref, t.ext) /\ kind \notin Cleared
      <4>1. Follows(r, t.key)'
        BY <2>1, <3>4, VisitFollows
      <4>2. l.ref # NoRef
        BY <1>5, <3>4 DEF Naming
      <4>3. Follows(r, k)'
        BY <2>1, <4>1
      <4>. QED BY <1>6, <2>1, <3>1, <3>4, <4>2, <4>3
    <3>. QED BY <2>1, <3>2, <3>3, <3>4, RewrittenIs
  <2>2. CASE ~(OfComponent(t) /\ k = t.key)
    <3>1. components'[k] = ExtendedAt(t, l, kind, k)
      BY <1>1, <1>4, <2>2
    <3>2. CASE components'[k] = components[k]
      BY <3>2
    <3>3. CASE IsExternal(l.ref, t.ext) /\ k = key /\ components'[k] = [ref |-> NoRef, to |-> l.to]
      <4>1. components[k].to = l.to
        BY <1>5, <3>3 DEF Naming, key, D
      <4>. QED BY <3>3, <4>1
    <3>. QED BY <1>7, <3>1, <3>2, <3>3
  <2>. QED BY <2>1, <2>2
<1>10. ASSUME NEW k \in DOMAIN components' \ D
       PROVE  /\ components'[k].ref = NoRef /\ components'[k].to = l.to /\ l.to \in Named(world)
              /\ k = <<KindOf(world, l.to), world.of[l.to].home>>
  <2>1. components'[k] = [ref |-> NoRef, to |-> l.to] /\ IsExternal(l.ref, t.ext) /\ k = key /\ k \notin D
    BY <1>8
  <2>2. l.to \in Named(world) /\ k = <<KindOf(world, l.to), world.of[l.to].home>>
    BY <1>5, <2>1 DEF Naming, key, D
  <2>. QED BY <2>1, <2>2
<1>11. GrownBy(r, l)
  BY <1>1, <1>4, <1>9, <1>10 DEF GrownBy, D
<1>12. ASSUME IsExternal(l.ref, t.ext) PROVE key \in DOMAIN components' /\ components'[key].to = l.to
  <2>1. key \in DOMAIN components'
    BY <1>1, <1>12
  <2>2. CASE key \in D
    <3>1. components[key].to = l.to
      BY <1>5, <1>12, <2>2 DEF Naming, key, D
    <3>. QED BY <1>9, <2>1, <2>2, <3>1
  <2>3. CASE key \notin D
    BY <1>10, <2>1, <2>3
  <2>. QED BY <2>1, <2>2, <2>3
<1>13. OfComponent(t) => components'[t.key].ref = ref
  BY <1>1, <1>4, <1>6
<1>. QED BY <1>11, <1>12, <1>13 DEF key

LEMMA VisitSettles ==
  ASSUME NEW L, NEW h, NEW r, NEW W, Given(L, h, r), Inv(L, h, r, W), NEW t, NEW l, IsNext(t, l),
         world' = world, NEW kind, kind \in ToSet(Kinds), kind = KindOf(world, l.to),
         NEW ref, ref = Rewritten(t, l, kind), UpdatedTo(t, l, kind, ref), Updates(t, l, kind)
  PROVE  SettledBy(t, l)
<1>1. GrownBy(r, l)
  BY VisitGrows
<1>2. /\ l.ref.how \in {"none", "local", "external", "whole"} /\ (l.ref.how = "none" <=> l.ref = NoRef)
      /\ NoRef.how = "none"
  BY LinkKnown DEF NoRef
<1>3. OfComponent(t) <=> t.object = ""
  BY DEF OfComponent
<1>4. CASE OfComponent(t)
  <2>1. ~t.ext /\ components'[t.key].ref = ref
    BY <1>4, OwnTask, VisitGrows, ZenonT(30) DEF OfComponent
  <2>2. ref.how \in {"none", "local"}
    BY <1>2, <2>1, RewrittenIs DEF IsExternal
  <2>3. links' = links
    BY <1>3, <1>4 DEF Updates
  <2>4. components'[t.key].ref.how \in {"none", "local"}
    BY <2>1, <2>2
  <2>. QED BY <1>3, <1>4, <2>3, <2>4, Zenon DEF SettledBy
<1>5. CASE ~OfComponent(t)
  <2>1. links' = [links EXCEPT ![t.object][t.i].ref = ref]
    BY <1>3, <1>5, Zenon DEF Updates
  <2>2. l.ref = NoRef => ref = NoRef
    BY <1>2, <1>5, RewrittenIs DEF IsExternal
  <2>3. ASSUME IsExternal(l.ref, t.ext), ref.how = "local", ref.name = NameOf(kind, l)
        PROVE  Fine([ref |-> ref, to |-> l.to])'
    <3>1. <<kind, NameOf(kind, l)>> \in DOMAIN components' /\ components'[<<kind, NameOf(kind, l)>>].to = l.to
      BY <2>3, VisitGrows
    <3>2. PICK x : x = [ref |-> ref, to |-> l.to]
      OBVIOUS
    <3>3. x.ref = ref /\ x.to = l.to
      BY <3>2
    <3>4. Key(world, x)' = <<kind, NameOf(kind, l)>>
      BY <2>3, <3>3 DEF Key, KindOf
    <3>5. Fine(x)'
      BY <2>3, <3>1, <3>3, <3>4 DEF Fine
    <3>. QED BY <3>2, <3>5 DEF Fine, Key
  <2>4. ASSUME ~IsExternal(l.ref, t.ext), ref = l.ref
        PROVE  Fine([ref |-> ref, to |-> l.to])'
    <3>1. Fine(l)
      BY <1>3, <1>5, <2>4, FineAlready
    <3>2. Fine(l)'
      BY <1>1, <3>1, FineStays
    <3>3. [ref |-> ref, to |-> l.to] = l
      BY <2>4, TaskIs
    <3>. QED BY <3>2, <3>3 DEF Fine, Key
  <2>5. Fine([ref |-> ref, to |-> l.to])'
    BY <1>5, <2>3, <2>4, RewrittenIs
  <2>6. t.object # ""
    BY <1>3, <1>5
  <2>. HIDE DEF OfComponent
  <2>. QED BY <2>1, <2>2, <2>5, <2>6, Zenon DEF SettledBy
<1>. QED BY <1>4, <1>5

\* What is left to do after a step on the link l: what is below its object,
\* unless that was seen.
LeftAfter(t, l, seen) ==
  \E e \in BOOLEAN : /\ e <=> IsExternal(l.ref, t.ext) \/ t.ext
                     /\ stack' = IF l.to \in seen THEN Tail(stack) ELSE Below(l.to, e)

LEMMA BelowIs ==
  ASSUME Shape, NEW o \in Objects, NEW e \in BOOLEAN
  PROVE  Below(o, e) = TasksBelow(o, e) \o Tail(stack)
<1>1. DOMAIN links[o] = Positions(o)
  BY DEF Shape
<1>. QED BY <1>1 DEF Below, TasksBelow

LEMMA VisitWalks ==
  ASSUME NEW L, NEW h, NEW r, NEW W, Given(L, h, r), Inv(L, h, r, W), NEW t, NEW l, IsNext(t, l),
         NEW seen, LeftAfter(t, l, seen),
         seen = IF KindOf(world, l.to) \in Once THEN visited ELSE {},
         visited' = IF KindOf(world, l.to) \in Once THEN visited \cup {l.to} ELSE visited
  PROVE  \E s : WalkedBy(L, W, l, s)
<1>1. Shape /\ visited = { o \in W : KindOf(world, o) \in Once } /\ stack \in Seq(Tasks(W)) /\ stack # <<>>
  BY DEF Inv, Walked, IsNext
<1>2. PICK e \in BOOLEAN : /\ e <=> IsExternal(l.ref, t.ext) \/ t.ext
                           /\ stack' = IF l.to \in seen THEN Tail(stack) ELSE Below(l.to, e)
  BY DEF LeftAfter
<1>3. l.to \in Objects
  BY TaskIs
<1>4. CASE l.to \in seen
  <2>1. stack' = Tail(stack) /\ Tail(stack) \in Seq(Tasks(W))
    BY <1>1, <1>2, <1>4
  <2>2. stack' = <<>> \o Tail(stack)
    BY <2>1
  <2>3. l.to \in W /\ visited' = visited
    BY <1>1, <1>4
  <2>. QED BY <2>2, <2>3 DEF WalkedBy
<1>5. CASE l.to \notin seen
  <2>1. stack' = TasksBelow(l.to, e) \o Tail(stack)
    BY <1>1, <1>2, <1>3, <1>5, BelowIs
  <2>2. e \/ InRoot(world, l.to) \/ l.to \in L \/ l.to \in W
    BY <1>2, Rightly
  <2>3. l.to \in W => KindOf(world, l.to) \notin Once
    BY <1>1, <1>5
  <2>. QED BY <2>1, <2>2, <2>3 DEF WalkedBy
<1>. QED BY <1>4, <1>5

LEMMA VisitKeeps ==
  ASSUME NEW L, NEW h, NEW r, NEW W, Given(L, h, r), Inv(L, h, r, W),
         NEW kind \in ToSet(Kinds), NEW seen, Visit(kind, seen), NEW t, NEW l, IsNext(t, l),
         seen = IF kind \in Once THEN visited ELSE {},
         visited' = IF kind \in Once THEN visited \cup {l.to} ELSE visited
  PROVE  (\E V : Inv(L, h, r, V)') /\ Given(L, h, r)'
<1>1. KindOf(world, l.to) = kind /\ world' = world /\ Updates(t, l, kind)
  BY VisitIs
<1>2. LeftAfter(t, l, seen)
  BY VisitIs DEF LeftAfter
<1>3. PICK ref : ref = Rewritten(t, l, kind)
  OBVIOUS
<1>4. OwnKey(t, l)
  <2>1. OfComponent(t) <=> t.object = ""
    BY DEF OfComponent
  <2>2. OfComponent(t) => t.key \in DOMAIN components /\ l = components[t.key]
    BY OwnTask
  <2>. QED BY <2>1, <2>2, Zenon DEF OwnKey
<1>5. UpdatedTo(t, l, kind, ref)
  BY <1>1, <1>3, <1>4, ComponentsAre DEF Inv
<1>6. GrownBy(r, l)
  BY <1>1, <1>3, <1>5, VisitGrows
<1>7. SettledBy(t, l)
  BY <1>1, <1>3, <1>5, VisitSettles
<1>8. PICK s : WalkedBy(L, W, l, s)
  BY <1>1, <1>2, VisitWalks
<1>9. Inv(L, h, r, W \cup {l.to})' /\ Given(L, h, r)'
  BY <1>6, <1>7, <1>8, InvStep
<1>. QED BY <1>9

LEMMA VisitPathItemKeeps ==
  ASSUME NEW L, NEW h, NEW r, NEW W, Given(L, h, r), Inv(L, h, r, W), VisitPathItem
  PROVE  (\E V : Inv(L, h, r, V)') /\ Given(L, h, r)'
<1>. DEFINE t0 == Head(stack)
            l0 == At(t0)
<1>1. /\ stack # <<>> /\ KindOf(world, l0.to) = "paths" /\ world' = world /\ components' = components
      /\ visited' = visited /\ links' = [links EXCEPT ![t0.object][t0.i].ref = NoRef]
      /\ stack' = Below(l0.to, IsExternal(l0.ref, t0.ext))
  BY Zenon DEF VisitPathItem, KindOf
<1>. HIDE DEF l0
<1>2. PICK l : l = l0
  OBVIOUS
<1>. HIDE DEF t0
<1>3. PICK t : t = t0
  OBVIOUS
<1>4. IsNext(t, l)
  BY <1>1, <1>2, <1>3 DEF IsNext, t0, l0
<1>5. KindOf(world, l.to) = "paths" /\ links' = [links EXCEPT ![t.object][t.i].ref = NoRef]
  BY <1>1, <1>2, <1>3
<1>6. \E e \in BOOLEAN : (e <=> IsExternal(l.ref, t.ext)) /\ stack' = Below(l.to, e)
  <2>. DEFINE e == IsExternal(l.ref, t.ext)
  <2>1. stack' = Below(l.to, e)
    BY <1>1, <1>2, <1>3
  <2>2. e \in BOOLEAN
    BY DEF IsExternal
  <2>. QED BY <2>1, <2>2
<1>7. Shape /\ l.to \in Objects
  BY TaskIs, <1>4 DEF Inv
<1>8. t.object # ""
  <2>1. SUFFICES ASSUME t.object = "" PROVE FALSE
    OBVIOUS
  <2>2. t.key \in Keys(world) /\ l.to = world.components[t.key].to
    BY <1>4, <2>1, TaskIs
  <2>3. KindOf(world, l.to) \in ToSet(Kinds)
    <3>1. PICK k \in Keys(world) : l.to = world.components[k].to
      BY <2>2
    <3>2. world \in Worlds
      BY <1>7 DEF Shape
    <3>3. k[1] = KindOf(world, world.components[k].to) /\ k[1] \in ToSet(Kinds)
      BY <3>2, KeyIs, Zenon
    <3>. QED BY <3>1, <3>3
  <2>. QED BY <1>5, <2>3, KindsAre
<1>9. GrownBy(r, l)
  BY <1>1, <1>7 DEF GrownBy, Shape
<1>10. SettledBy(t, l)
  <2>1. PICK x : x = [ref |-> NoRef, to |-> l.to]
    OBVIOUS
  <2>2. x.ref = NoRef
    BY <2>1
  <2>3. Fine(x)'
    BY <2>2 DEF Fine
  <2>4. Fine([ref |-> NoRef, to |-> l.to])'
    BY <2>1, <2>3 DEF Fine, Key
  <2>. QED BY <1>5, <1>8, <2>4, Zenon DEF SettledBy
<1>11. \E s : WalkedBy(L, W, l, s)
  <2>1. PICK e \in BOOLEAN : (e <=> IsExternal(l.ref, t.ext)) /\ stack' = Below(l.to, e)
    BY <1>6
  <2>2. stack' = TasksBelow(l.to, e) \o Tail(stack)
    BY <1>7, <2>1, BelowIs
  <2>3. KindOf(world, l.to) \notin Once
    BY <1>5 DEF Once
  <2>4. e \/ InRoot(world, l.to) \/ l.to \in L \/ l.to \in W
    BY <1>4, <1>5, <2>1, Rightly
  <2>. QED BY <1>1, <2>2, <2>3, <2>4 DEF WalkedBy
<1>12. PICK s : WalkedBy(L, W, l, s)
  BY <1>11
<1>13. Inv(L, h, r, W \cup {l.to})' /\ Given(L, h, r)'
  BY <1>4, <1>9, <1>10, <1>12, InvStep
<1>. QED BY <1>13

LEMMA NextKeeps ==
  ASSUME NEW L, NEW h, NEW r, NEW W, Given(L, h, r), Inv(L, h, r, W), Next
  PROVE  (\E V : Inv(L, h, r, V)') /\ Given(L, h, r)'
<1>1. PICK t : t = Head(stack)
  OBVIOUS
<1>2. PICK l : l = At(t)
  OBVIOUS
<1>3. ASSUME NEW kind, NEW seen, Visit(kind, seen) PROVE IsNext(t, l)
  <2>1. stack # <<>>
    BY <1>3, Zenon DEF Visit
  <2>. QED BY <1>1, <1>2, <2>1 DEF IsNext
<1>4. CASE VisitSchema
  <2>1. Visit("schemas", visited) /\ visited' = visited \cup {l.to}
    BY <1>1, <1>2, <1>4 DEF VisitSchema
  <2>2. "schemas" \in ToSet(Kinds) /\ "schemas" \in Once
    BY KindsAre DEF Once
  <2>. QED BY <1>3, <2>1, <2>2, VisitKeeps
<1>5. CASE VisitHeader
  <2>1. Visit("headers", visited) /\ visited' = visited \cup {l.to}
    BY <1>1, <1>2, <1>5 DEF VisitHeader
  <2>2. "headers" \in ToSet(Kinds) /\ "headers" \in Once
    BY KindsAre DEF Once
  <2>. QED BY <1>3, <2>1, <2>2, VisitKeeps
<1>6. ASSUME NEW kind \in ToSet(Kinds), kind \notin Once, Visit(kind, {}), visited' = visited
      PROVE  (\E V : Inv(L, h, r, V)') /\ Given(L, h, r)'
  BY <1>3, <1>6, VisitKeeps
<1>. DEFINE others == {"parameters", "requestBodies", "responses", "securitySchemes", "examples", "links", "callbacks"}
<1>7. others \subseteq ToSet(Kinds) /\ \A kind \in others : kind \notin Once
  BY KindsAre DEF Once
<1>8. CASE \E kind \in others : Visit(kind, {}) /\ visited' = visited
  BY <1>6, <1>7, <1>8
<1>9. CASE VisitPathItem
  BY <1>9, VisitPathItemKeeps
<1>10. Next => \/ VisitSchema \/ VisitHeader \/ VisitPathItem
               \/ \E kind \in others : Visit(kind, {}) /\ visited' = visited
  BY Zenon DEF Next, VisitParameter, VisitRequestBody, VisitResponse, VisitSecurityScheme, VisitExample,
         VisitLink, VisitCallback
<1>. QED BY <1>4, <1>5, <1>8, <1>9, <1>10

(***************************************************************************)
(* The initial states.                                                     *)
(***************************************************************************)
LEMMA InitLinks ==
  ASSUME Init
  PROVE  /\ Shape /\ LinksKept({"doc"}) /\ ComponentsKept({"doc"}) /\ NoRef.how = "none"
         /\ components = world.components /\ \A o \in Objects : links[o] = world.of[o].links
<1>1. world \in Worlds /\ links = [o \in Objects |-> world.of[o].links] /\ components = world.components
      /\ NoRef.how = "none"
  BY DEF Init, Objects, NoRef
<1>2. Typed(world)
  BY <1>1, WorldIs
<1>3. \A o \in Objects : links[o] = world.of[o].links
  BY <1>1
<1>4. \A o \in Objects : \A i \in Positions(o) : links[o][i] = Original(o, i)
  BY <1>3 DEF Original
<1>5. ASSUME NEW o \in Objects
      PROVE  links[o] = [i \in Positions(o) |-> [ref |-> links[o][i].ref, to |-> Original(o, i).to]]
  <2>1. \A i \in Positions(o) : links[o][i] = [ref |-> links[o][i].ref, to |-> Original(o, i).to]
    BY <1>1, <1>4, OriginalIs, LinkIs
  <2>2. world.of[o].links \in Seq(LinksOf(world, o))
    BY <1>2 DEF Typed, Objects
  <2>3. links[o] = [i \in Positions(o) |-> links[o][i]]
    BY <1>3, <2>2 DEF Positions
  <2>. QED BY <2>1, <2>3
<1>6. /\ components = [k \in DOMAIN components |-> components[k]]
      /\ \A k \in DOMAIN components : components[k] = [ref |-> components[k].ref, to |-> components[k].to]
  <2>1. components = [k \in DOMAIN components |-> components[k]]
    BY <1>1, <1>2 DEF Typed, Keys
  <2>2. \A k \in DOMAIN components : components[k] = [ref |-> components[k].ref, to |-> components[k].to]
    BY <1>1, KeyIs, LinkIs DEF Keys
  <2>. QED BY <2>1, <2>2
<1>7. IsFiniteSet(DOMAIN components)
  <2>1. world.order \in Seq(Keys(world)) /\ ToSet(world.order) = Keys(world)
    BY <1>2 DEF Typed
  <2>2. IsFiniteSet(1..Len(world.order))
    BY <2>1, FS_Interval
  <2>3. world.order \in Surjection(1..Len(world.order), Keys(world))
    BY <2>1 DEF ToSet, Surjection
  <2>4. IsFiniteSet(Keys(world))
    BY <2>2, <2>3, FS_Surjection
  <2>. QED BY <1>1, <2>4 DEF Keys
<1>8. Shape
  BY <1>1, <1>5, <1>6, <1>7 DEF Shape
<1>9. LinksKept({"doc"})
  BY <1>4 DEF LinksKept
<1>10. ComponentsKept({"doc"})
  BY <1>1 DEF ComponentsKept, Keys
<1>. QED BY <1>1, <1>3, <1>8, <1>9, <1>10

LEMMA InitChained ==
  ASSUME Init, NEW L, NEW h, NEW r, Given(L, h, r)
  PROVE  Chained(r)
<1>1. world \in Worlds /\ components = world.components
  BY DEF Init
<1>2. ASSUME NEW k \in DOMAIN components, components[k].ref.how = "local" PROVE Follows(r, k)
  <2>. DEFINE l == world.components[k]
  <2>1. k \in Keys(world) /\ l \in Links(world) /\ l \in { world.components[j] : j \in Keys(world) }
        /\ l.ref.how = "local"
    BY <1>1, <1>2 DEF Keys, Links
  <2>2. Key(world, l) \in Keys(world) /\ world.components[Key(world, l)].to = l.to
    BY <1>1, <2>1, WorldIs DEF Resolved
  <2>3. r[Key(world, l)] < r[k]
    BY <2>1, <2>2 DEF Given, Straightly
  <2>. QED BY <1>1, <2>1, <2>2, <2>3 DEF Follows, Keys
<1>. QED BY <1>2 DEF Chained

LEMMA JoinIs ==
  ASSUME NEW T, NEW a \in Seq(T), NEW b \in Seq(T)
  PROVE  a \o b \in Seq(T) /\ ToSet(a \o b) = ToSet(a) \cup ToSet(b)
<1>. DEFINE c == a \o b
            n == Len(a)
            m == Len(b)
<1>1. /\ c \in Seq(T) /\ Len(c) = n + m /\ n \in Nat /\ m \in Nat
      /\ \A p \in 1..(n + m) : c[p] = IF p <= n THEN a[p] ELSE b[p - n]
  BY ConcatProperties
<1>2. DOMAIN c = 1..(n + m) /\ DOMAIN a = 1..n /\ DOMAIN b = 1..m
  BY <1>1
<1>. HIDE DEF c, n, m
<1>3. ASSUME NEW p \in DOMAIN c PROVE c[p] \in ToSet(a) \cup ToSet(b)
  <2>1. p \in 1..n \/ (p - n \in 1..m /\ ~(p <= n))
    BY <1>1, <1>2
  <2>2. CASE p \in 1..n
    BY <1>1, <1>2, <2>2 DEF ToSet
  <2>3. CASE p - n \in 1..m /\ ~(p <= n)
    <3>1. c[p] = b[p - n]
      BY <1>1, <1>2, <2>3
    <3>. QED BY <1>2, <2>3, <3>1 DEF ToSet
  <2>. QED BY <2>1, <2>2, <2>3
<1>4. ASSUME NEW p \in DOMAIN a PROVE p \in DOMAIN c /\ c[p] = a[p]
  BY <1>1, <1>2
<1>5. ASSUME NEW p \in DOMAIN b PROVE p + n \in DOMAIN c /\ c[p + n] = b[p]
  <2>1. p + n \in 1..(n + m) /\ ~(p + n <= n) /\ (p + n) - n = p
    BY <1>1, <1>2
  <2>. QED BY <1>1, <1>2, <2>1
<1>6. ToSet(c) \subseteq ToSet(a) \cup ToSet(b)
  BY <1>3 DEF ToSet
<1>7. ToSet(a) \subseteq ToSet(c)
  BY <1>4 DEF ToSet
<1>8. ToSet(b) \subseteq ToSet(c)
  BY <1>5 DEF ToSet
<1>. QED BY <1>1, <1>6, <1>7, <1>8 DEF c

\* The components are gone through first, and then what is in the document.
LEMMA InitTasks ==
  ASSUME Init
  PROVE  /\ stack \in Seq(Tasks({"doc"})) /\ \A t \in Pending : t.object \in {"", "doc"}
         /\ \A k \in Keys(world) : \E t \in Pending : t.object = "" /\ t.key = k
         /\ \A i \in Positions("doc") : \E t \in Pending : t.object = "doc" /\ t.i = i
<1>. DEFINE first  == [i \in DOMAIN world.order |->
                         [object |-> "", i |-> 0, key |-> InTurn(world.order)[i], ext |-> FALSE]]
            second == [i \in DOMAIN links["doc"] |->
                         [object |-> "doc", i |-> i, key |-> <<>>, ext |-> FALSE]]
            T == Tasks({"doc"})
            n == Len(world.order)
            m == Len(world.of["doc"].links)
<1>1. stack = first \o second /\ world \in Worlds
  BY DEF Init
<1>2. Typed(world) /\ "doc" \in Objects
  BY <1>1, WorldIs DEF Typed, Objects
<1>3. links["doc"] = world.of["doc"].links
  BY <1>2, InitLinks
<1>4. world.of["doc"].links \in Seq(LinksOf(world, "doc"))
  BY <1>2 DEF Typed, Objects
<1>5. m \in Nat /\ Positions("doc") = 1..m /\ DOMAIN links["doc"] = 1..m
  BY <1>3, <1>4 DEF Positions
<1>6. /\ world.order \in Seq(Keys(world)) /\ InTurn(world.order) \in Seq(Keys(world))
      /\ Len(InTurn(world.order)) = n /\ ToSet(InTurn(world.order)) = Keys(world)
  BY <1>2 DEF Typed
<1>7. n \in Nat /\ DOMAIN world.order = 1..n /\ DOMAIN InTurn(world.order) = 1..n
      /\ \A i \in 1..n : InTurn(world.order)[i] \in Keys(world)
  BY <1>6
<1>8. \A i \in 1..n : first[i] \in T
  BY <1>7, Zenon DEF Tasks, ComponentTasks
<1>9. \A i \in 1..m : second[i] \in T
  <2>1. \A i \in 1..m : i \in Nat
    BY <1>5
  <2>. QED BY <1>5, <2>1 DEF Tasks, LinkTasks
<1>10. first \in Seq(T) /\ Len(first) = n
  <2>1. first \in [1..n -> T]
    BY <1>7, <1>8, Zenon
  <2>. HIDE DEF first, T
  <2>. QED BY <1>7, <2>1
<1>11. second \in Seq(T) /\ Len(second) = m
  <2>1. second \in [1..m -> T]
    BY <1>5, <1>9, Zenon
  <2>. HIDE DEF second, T
  <2>. QED BY <1>5, <2>1
<1>12. /\ \A i \in 1..n : first[i].object = "" /\ first[i].key = InTurn(world.order)[i]
       /\ \A i \in 1..m : second[i].object = "doc" /\ second[i].i = i
  BY <1>5, <1>7, Zenon
<1>. HIDE DEF first, second, T
<1>13. first \o second \in Seq(T) /\ ToSet(first \o second) = ToSet(first) \cup ToSet(second)
  BY <1>10, <1>11, JoinIs
<1>14. stack \in Seq(T) /\ Pending = ToSet(first) \cup ToSet(second)
  BY <1>1, <1>13 DEF Pending, ToSet
<1>15. /\ \A i \in 1..n : first[i] \in Pending
       /\ \A i \in 1..m : second[i] \in Pending
       /\ \A t \in Pending : (\E i \in 1..n : t = first[i]) \/ (\E i \in 1..m : t = second[i])
  BY <1>10, <1>11, <1>14 DEF ToSet
<1>16. \A t \in Pending : t.object \in {"", "doc"}
  <2>1. \A i \in 1..n : first[i].object \in {"", "doc"}
    BY <1>12, Zenon
  <2>2. \A i \in 1..m : second[i].object \in {"", "doc"}
    BY <1>12, Zenon
  <2>. QED BY <1>15, <2>1, <2>2, Zenon
<1>17. ASSUME NEW k \in Keys(world) PROVE \E t \in Pending : t.object = "" /\ t.key = k
  <2>1. PICK i \in 1..n : InTurn(world.order)[i] = k
    BY <1>6, <1>7 DEF ToSet
  <2>. QED BY <1>12, <1>15, <2>1, Zenon
<1>18. ASSUME NEW i \in Positions("doc") PROVE \E t \in Pending : t.object = "doc" /\ t.i = i
  BY <1>5, <1>12, <1>15
<1>. QED BY <1>14, <1>16, <1>17, <1>18 DEF T

LEMMA InvInit ==
  ASSUME Init, NEW L, NEW h, NEW r, Given(L, h, r)
  PROVE  Inv(L, h, r, {"doc"})
<1>1. /\ Shape /\ LinksKept({"doc"}) /\ ComponentsKept({"doc"}) /\ world \in Worlds /\ visited = {}
  BY InitLinks DEF Init
<1>2. /\ stack \in Seq(Tasks({"doc"})) /\ \A t \in Pending : t.object \in {"", "doc"}
      /\ \A k \in Keys(world) : \E t \in Pending : t.object = "" /\ t.key = k
      /\ \A i \in Positions("doc") : \E t \in Pending : t.object = "doc" /\ t.i = i
  BY InitTasks
<1>3. "doc" \in Objects /\ InRoot(world, "doc") /\ KindOf(world, "doc") = ""
  BY <1>1, WorldIs DEF Typed, Objects
<1>4. KindOf(world, "doc") \notin Once
  BY <1>3, Zenon DEF Once
<1>5. Walked({"doc"})
  BY <1>1, <1>2, <1>3, <1>4 DEF Walked
<1>6. Covered(L, {"doc"}) /\ Harmless(L, {"doc"})
  <2>1. \A t : t.object = "doc" => Good(L, t)
    BY <1>3 DEF Good
  <2>2. Covered(L, {"doc"})
    <3>1. ASSUME NEW i \in Positions("doc") PROVE \E t \in Pending : t.object = "doc" /\ t.i = i /\ Good(L, t)
      BY <1>2, <2>1
    <3>2. \A o \in {"doc"} : \A i \in Positions(o) : \E t \in Pending : t.object = o /\ t.i = i /\ Good(L, t)
      BY <3>1, Zenon
    <3>3. \A k \in Keys(world) : \E t \in Pending : t.object = "" /\ t.key = k
      BY <1>2
    <3>. QED BY <3>2, <3>3, ZenonT(30) DEF Covered
  <2>3. Harmless(L, {"doc"})
    BY <1>2, <2>1, Zenon DEF Harmless
  <2>. QED BY <2>2, <2>3
<1>7. Sorted(h, stack)
  <2>1. \A p \in DOMAIN stack : HeightOf(h, stack[p]) = h["doc"]
    <3>1. ASSUME NEW t \in Pending PROVE HeightOf(h, t) = h["doc"]
      <4>1. t.object = "" \/ t.object = "doc"
        BY <1>2
      <4>. QED BY <4>1, Zenon DEF HeightOf
    <3>. QED BY <3>1 DEF Pending
  <2>2. h["doc"] \in Nat
    BY <1>3 DEF Given, Layers, Objects
  <2>. QED BY <2>1, <2>2 DEF Sorted
<1>8. Chained(r)
  BY InitChained
<1>. QED BY <1>1, <1>5, <1>6, <1>7, <1>8 DEF Inv

(***************************************************************************)
(* Where references end.                                                   *)
(***************************************************************************)
NextKey(k) == <<k[1], components[k].ref.name>>

\* The ends of the references of the components, given those one step on.
EndsStep(e) ==
  [k \in DOMAIN components |->
     IF components[k].ref = NoRef THEN {components[k].to}
     ELSE IF NextKey(k) \notin DOMAIN components THEN {} ELSE e[NextKey(k)]]

\* EndsIn is what its definition says: the equation has a solution.
LEMMA EndsInIs ==
  /\ EndsIn[0] = EndsStep([k \in DOMAIN components |-> {}])
  /\ \A n \in Nat : EndsIn[n + 1] = EndsStep(EndsIn[n])
<1>. DEFINE D == DOMAIN components
            Eq(f) == f = [n \in Nat |-> [key \in D |->
               IF components[key].ref = NoRef THEN {components[key].to}
               ELSE LET next == <<key[1], components[key].ref.name>>
                    IN  IF n = 0 \/ next \notin D THEN {} ELSE f[n - 1][next]]]
            T == [D -> SUBSET { components[k].to : k \in D }]
            a == EndsStep([k \in D |-> {}])
            g == [n \in Nat |-> [e \in T |-> EndsStep(e)]]
<1>1. \A e \in T : EndsStep(e) \in T
  BY DEF EndsStep
<1>2. a \in T /\ g \in [Nat -> [T -> T]]
  BY <1>1
<1>. HIDE DEF T, a
<1>3. PICK f \in [Nat -> T] : f[0] = a /\ \A n \in Nat : f[n + 1] = g[n][f[n]]
  <2>1. g \in Rules(T)
    BY <1>2 DEF Rules
  <2>. HIDE DEF g, Eq
  <2>2. \E f \in Values(T) : f[0] = a /\ \A n \in Nat : f[n + 1] = g[n][f[n]]
    BY <1>2, <2>1, Solutions
  <2>. QED BY <2>2 DEF Values
<1>4. \A n \in Nat : f[n + 1] = EndsStep(f[n])
  BY <1>3
<1>5. \A n \in Nat : f[n] = IF n = 0 THEN a ELSE EndsStep(f[n - 1])
  <2>. SUFFICES ASSUME NEW n \in Nat, n # 0 PROVE f[n] = EndsStep(f[n - 1])
    BY <1>3
  <2>1. n - 1 \in Nat /\ (n - 1) + 1 = n
    OBVIOUS
  <2>. QED BY <1>4, <2>1
<1>6. Eq(f)
  <2>. DEFINE rhs(n) == [key \in D |->
               IF components[key].ref = NoRef THEN {components[key].to}
               ELSE LET next == <<key[1], components[key].ref.name>>
                    IN  IF n = 0 \/ next \notin D THEN {} ELSE f[n - 1][next]]
  <2>1. ASSUME NEW n \in Nat PROVE f[n] = rhs(n)
    <3>1. CASE n = 0
      <4>1. a = rhs(n)
        BY <3>1 DEF a, EndsStep, NextKey
      <4>. QED BY <1>5, <3>1, <4>1
    <3>2. CASE n # 0
      <4>1. EndsStep(f[n - 1]) = rhs(n)
        BY <3>2 DEF EndsStep, NextKey
      <4>. QED BY <1>5, <3>2, <4>1
    <3>. QED BY <3>1, <3>2
  <2>. HIDE DEF rhs
  <2>2. f = [n \in Nat |-> rhs(n)]
    BY <1>3, <2>1
  <2>. QED BY <2>2 DEF rhs
<1>7. EndsIn = CHOOSE e : Eq(e)
  BY Zenon DEF EndsIn
<1>. HIDE DEF Eq
<1>8. Eq(EndsIn)
  BY <1>6, <1>7
<1>9. \A n \in Nat : EndsIn[n] = IF n = 0 THEN a ELSE EndsStep(EndsIn[n - 1])
  <2>1. ASSUME NEW n \in Nat, n = 0 PROVE EndsIn[n] = a
    BY <1>8, <2>1 DEF Eq, a, EndsStep, NextKey
  <2>2. ASSUME NEW n \in Nat, n # 0 PROVE EndsIn[n] = EndsStep(EndsIn[n - 1])
    BY <1>8, <2>2 DEF Eq, EndsStep, NextKey
  <2>. QED BY <2>1, <2>2
<1>10. \A n \in Nat : n + 1 \in Nat /\ n + 1 # 0 /\ (n + 1) - 1 = n
  OBVIOUS
<1>. HIDE DEF D
<1>. QED BY <1>9, <1>10 DEF a, D

\* The components of which EndsIn knows, after n steps, the object they are for.
Ended == [n \in Nat |-> { k \in DOMAIN components : EndsIn[n][k] = {components[k].to} }]

\* A component leads to its object when it is one or when the component it
\* refers to does.
LEMMA EndedIs ==
  ASSUME NEW r, Chained(r), \A k \in DOMAIN components : k[1] = KindOf(world, components[k].to),
         \A k \in DOMAIN components : components[k].ref = NoRef \/ components[k].ref.how = "local"
  PROVE  LET D == DOMAIN components IN
         /\ Ended[0] = { k \in D : components[k].ref = NoRef }
         /\ \A n \in Nat : Ended[n + 1] = { k \in D : components[k].ref = NoRef \/ NextKey(k) \in Ended[n] }
<1>. DEFINE D == DOMAIN components
<1>1. /\ EndsIn[0] = EndsStep([k \in D |-> {}])
      /\ \A n \in Nat : EndsIn[n + 1] = EndsStep(EndsIn[n])
  BY EndsInIs
<1>2. ASSUME NEW k \in D, components[k].ref # NoRef
      PROVE  NextKey(k) \in D /\ components[NextKey(k)].to = components[k].to
  <2>1. Follows(r, k)
    BY <1>2 DEF Chained
  <2>2. Key(world, components[k]) = NextKey(k)
    BY <1>2 DEF Key, NextKey
  <2>. QED BY <2>1, <2>2 DEF Follows
<1>3. ASSUME NEW e, NEW k \in D
      PROVE  EndsStep(e)[k] = {components[k].to}
               <=> components[k].ref = NoRef \/ e[NextKey(k)] = {components[NextKey(k)].to}
  BY <1>2 DEF EndsStep
<1>. HIDE DEF D
<1>4. Ended[0] = { k \in D : components[k].ref = NoRef }
  <2>. DEFINE none == [k \in D |-> {}]
  <2>1. ASSUME NEW k \in D, components[k].ref # NoRef PROVE none[NextKey(k)] # {components[NextKey(k)].to}
    BY <1>2, <2>1
  <2>. HIDE DEF none
  <2>2. \A k \in D : EndsIn[0][k] = {components[k].to} <=> components[k].ref = NoRef
    <3>1. EndsIn[0] = EndsStep(none)
      BY <1>1 DEF none
    <3>. QED BY <1>3, <2>1, <3>1
  <2>3. Ended[0] = { k \in D : EndsIn[0][k] = {components[k].to} }
    BY DEF Ended, D
  <2>. QED BY <2>2, <2>3
<1>5. ASSUME NEW n \in Nat
      PROVE  Ended[n + 1] = { k \in D : components[k].ref = NoRef \/ NextKey(k) \in Ended[n] }
  <2>1. /\ Ended[n] = { k \in D : EndsIn[n][k] = {components[k].to} }
        /\ Ended[n + 1] = { k \in D : EndsIn[n + 1][k] = {components[k].to} }
    BY DEF Ended, D
  <2>2. \A k \in D : EndsIn[n + 1][k] = {components[k].to}
                       <=> components[k].ref = NoRef \/ EndsIn[n][NextKey(k)] = {components[NextKey(k)].to}
    BY <1>1, <1>3, SMTT(30)
  <2>. QED BY <1>2, <2>1, <2>2
<1>. QED BY <1>4, <1>5 DEF D

LEMMA EndsRight ==
  ASSUME NEW r, Chained(r), r \in [Keys(world) -> 0..Cardinality(Keys(world))],
         IsFiniteSet(Keys(world)), IsFiniteSet(DOMAIN components),
         \A k \in DOMAIN components : k[1] = KindOf(world, components[k].to),
         \A k \in DOMAIN components : components[k].ref = NoRef \/ components[k].ref.how = "local",
         NEW k \in DOMAIN components
  PROVE  EndsIn[Cardinality(DOMAIN components)][k] = {components[k].to}
<1>. DEFINE D == DOMAIN components
            None == { j \in D : components[j].ref = NoRef }
<1>1. /\ Ended[0] = None
      /\ \A n \in Nat : Ended[n + 1] = { j \in D : j \in None \/ NextKey(j) \in Ended[n] }
  BY EndedIs
<1>2. Ended \in [Nat -> SUBSET D]
  BY DEF Ended
<1>3. ASSUME NEW j \in D, j \notin None
      PROVE  /\ NextKey(j) \in D
             /\ NextKey(j) \in None \/ (j \in Keys(world) /\ NextKey(j) \in Keys(world) /\ r[NextKey(j)] < r[j])
  <2>1. Follows(r, j)
    BY <1>3 DEF Chained
  <2>2. Key(world, components[j]) = NextKey(j)
    BY <1>3 DEF Key, NextKey
  <2>. QED BY <2>1, <2>2 DEF Follows
<1>. HIDE DEF D, None
<1>4. \A n \in Nat : Ended[n] \subseteq Ended[n + 1]
  <2>. DEFINE S == { n \in Nat : Ended[n] \subseteq Ended[n + 1] }
  <2>0. None \subseteq D
    BY DEF None
  <2>1. 0 \in S
    BY <1>1, <2>0
  <2>2. ASSUME NEW n \in Nat, n \in S PROVE n + 1 \in S
    <3>1. Ended[n + 1] \subseteq Ended[(n + 1) + 1]
      BY <1>1, <2>2
    <3>. QED BY <3>1
  <2>. HIDE DEF S
  <2>3. Nat \subseteq S
    BY <2>1, <2>2, SetInduction
  <2>. QED BY <2>3 DEF S
<1>5. ASSUME NEW n \in Nat, Ended[n + 1] = Ended[n] PROVE Ended[(n + 1) + 1] = Ended[n + 1]
  <2>1. Ended[(n + 1) + 1] = { j \in D : j \in None \/ NextKey(j) \in Ended[n + 1] }
    BY <1>1
  <2>2. Ended[n + 1] = { j \in D : j \in None \/ NextKey(j) \in Ended[n] }
    BY <1>1
  <2>. QED BY <1>5, <2>1, <2>2
<1>6. \A m \in Nat : Ended[m] \subseteq Ended[Cardinality(D)]
  BY <1>2, <1>4, <1>5, GrowthEnds DEF D
<1>7. \A n \in Nat : None \subseteq Ended[n]
  <2>. DEFINE S == { n \in Nat : None \subseteq Ended[n] }
  <2>1. 0 \in S /\ \A n \in Nat : n \in S => n + 1 \in S
    BY <1>1, <1>4
  <2>. HIDE DEF S
  <2>2. Nat \subseteq S
    BY <2>1, SetInduction
  <2>. QED BY <2>2 DEF S
<1>8. \A n \in Nat : \A j \in Keys(world) \cap D : r[j] < n => j \in Ended[n]
  <2>. DEFINE S == { n \in Nat : \A j \in Keys(world) \cap D : r[j] < n => j \in Ended[n] }
  <2>0. \A j \in Keys(world) : r[j] \in Nat
    BY FS_CardinalityType
  <2>1. 0 \in S
    BY <2>0
  <2>2. ASSUME NEW n \in Nat, n \in S PROVE n + 1 \in S
    <3>1. ASSUME NEW j \in Keys(world) \cap D, r[j] < n + 1 PROVE j \in Ended[n + 1]
      <4>1. CASE j \in None
        BY <1>1, <4>1
      <4>2. CASE j \notin None
        <5>1. CASE NextKey(j) \in None
          BY <1>1, <1>7, <5>1
        <5>2. CASE NextKey(j) \in Keys(world) /\ r[NextKey(j)] < r[j]
          <6>1. NextKey(j) \in D
            BY <1>3, <4>2
          <6>2. r[NextKey(j)] < n
            BY <2>0, <3>1, <5>2
          <6>3. NextKey(j) \in Ended[n]
            BY <2>2, <5>2, <6>1, <6>2
          <6>. QED BY <1>1, <6>3
        <5>. QED BY <1>3, <4>2, <5>1, <5>2
      <4>. QED BY <4>1, <4>2
    <3>. QED BY <3>1
  <2>. HIDE DEF S
  <2>3. Nat \subseteq S
    BY <2>1, <2>2, SetInduction
  <2>. QED BY <2>3 DEF S
<1>9. k \in Ended[Cardinality(D)]
  <2>1. k \in D /\ Cardinality(D) \in Nat
    BY FS_CardinalityType DEF D
  <2>2. CASE k \in None
    BY <1>7, <2>1, <2>2
  <2>3. CASE k \notin None
    <3>1. CASE k \in Keys(world)
      <4>1. r[k] \in Nat
        BY <3>1, FS_CardinalityType
      <4>2. r[k] + 1 \in Nat /\ r[k] < r[k] + 1
        BY <4>1
      <4>3. k \in Ended[r[k] + 1]
        BY <1>8, <2>1, <3>1, <4>2
      <4>. QED BY <1>6, <4>2, <4>3
    <3>2. CASE NextKey(k) \in None
      <4>1. NextKey(k) \in Ended[0] /\ 0 \in Nat
        BY <1>7, <3>2
      <4>2. k \in Ended[0 + 1]
        BY <1>1, <2>1, <4>1
      <4>. QED BY <1>6, <4>2
    <3>. QED BY <1>3, <2>1, <2>3, <3>1, <3>2
  <2>. QED BY <2>2, <2>3
<1>. QED BY <1>9, FS_CardinalityType DEF Ended, D

(***************************************************************************)
(* The theorem.                                                            *)
(***************************************************************************)
\* When nothing is left to do, all objects were walked, and are in order.
LEMMA AllWalked ==
  ASSUME NEW L, NEW h, NEW r, NEW W, Inv(L, h, r, W), stack = <<>>
  PROVE  /\ W = Objects
         /\ \A o \in Objects : \A i \in Positions(o) : Fine(links[o][i])
         /\ \A k \in Keys(world) : components[k].ref.how \in {"none", "local"}
<1>1. Shape /\ W \subseteq Objects /\ "doc" \in W /\ Covered(L, W) /\ ComponentsKept(W) /\ world \in Worlds
  BY DEF Inv, Walked, Shape
<1>2. Pending = {}
  BY DEF Pending
<1>3. /\ \A k \in Keys(world) : components[k].ref.how \in {"none", "local"} /\ components[k].to \in W
      /\ \A o \in W : \A i \in Positions(o) : Fine(links[o][i]) /\ links[o][i].to \in W
  BY <1>1, <1>2 DEF Covered
<1>4. \A k \in Keys(world) : world.components[k].to \in W
  BY <1>1, <1>3 DEF ComponentsKept
<1>5. ASSUME NEW o \in W, NEW l \in LinksOf(world, o) PROVE l.to \in W
  <2>1. PICK i \in Positions(o) : l = Original(o, i)
    BY DEF LinksOf, ToSet, Positions, Original
  <2>2. links[o] = [j \in Positions(o) |-> [ref |-> links[o][j].ref, to |-> Original(o, j).to]]
    BY <1>1 DEF Shape
  <2>3. links[o][i].to = l.to
    BY <2>1, <2>2
  <2>. QED BY <1>3, <2>1, <2>3
<1>6. W = Objects
  BY <1>1, <1>4, <1>5, WorldIs DEF Homed, Objects
<1>. QED BY <1>3, <1>6

\* A component is an object or refers to one that is for the same.
LEMMA ComponentsEnd ==
  ASSUME NEW L, NEW h, NEW r, NEW W, Given(L, h, r), Inv(L, h, r, W), stack = <<>>,
         NEW k \in DOMAIN components
  PROVE  /\ components[k].ref = NoRef \/ components[k].ref.how = "local"
         /\ EndsIn[Cardinality(DOMAIN components)][k] = {components[k].to}
<1>1. Shape /\ ComponentsKept(W) /\ Chained(r) /\ world \in Worlds /\ NoRef.how = "none"
      /\ IsFiniteSet(DOMAIN components)
  BY DEF Inv, Shape, NoRef
<1>2. ASSUME NEW j \in DOMAIN components
      PROVE  /\ components[j].ref = NoRef \/ components[j].ref.how = "local"
             /\ j[1] = KindOf(world, components[j].to)
  <2>1. CASE j \in Keys(world)
    <3>1. components[j].to = world.components[j].to /\ components[j].ref.how \in {"none", "local"}
      BY <1>1, <2>1, AllWalked DEF ComponentsKept
    <3>2. j[1] = KindOf(world, world.components[j].to)
      BY <1>1, <2>1, KeyIs
    <3>3. world.components[j].ref.how = "none" <=> world.components[j].ref = NoRef
      BY <1>1, <2>1, KeyIs, LinkIs
    <3>4. components[j].ref = NoRef \/ components[j].ref.how = "local"
      BY <1>1, <2>1, <3>1, <3>3 DEF ComponentsKept
    <3>. QED BY <3>1, <3>2, <3>4
  <2>2. CASE j \notin Keys(world)
    <3>1. components[j].ref = NoRef /\ j = <<KindOf(world, components[j].to), world.of[components[j].to].home>>
      BY <1>1, <2>2 DEF ComponentsKept
    <3>. QED BY <3>1
  <2>. QED BY <2>1, <2>2
<1>3. IsFiniteSet(Keys(world))
  BY <1>1, FS_Subset DEF ComponentsKept
<1>4. r \in [Keys(world) -> 0..Cardinality(Keys(world))]
  BY DEF Given
<1>5. EndsIn[Cardinality(DOMAIN components)][k] = {components[k].to}
  BY <1>1, <1>2, <1>3, <1>4, EndsRight
<1>. QED BY <1>2, <1>5

\* There are heights for the objects along which a walk goes down.
Layered(w) == \E h \in [DOMAIN w.of -> Nat] : Layers(w, h)

IInv ==
  /\ world \in Worlds
  /\ Straight(world) /\ Layered(world) => \E L, h, r, W : Given(L, h, r) /\ Inv(L, h, r, W)

LEMMA IInvMeans ==
  ASSUME IInv, Layered(world)
  PROVE  SelfContained
<1>. DEFINE n == Cardinality(DOMAIN components)
            all == { components[k] : k \in DOMAIN components } \cup UNION { ToSet(links[o]) : o \in DOMAIN links }
<1>. SUFFICES ASSUME stack = <<>>, Straight(world), NEW link \in all
     PROVE  \/ link.ref = NoRef
            \/ /\ link.ref.how = "local" /\ Key(world, link) \in DOMAIN components
               /\ EndsIn[n][Key(world, link)] = {link.to}
  BY Zenon DEF SelfContained
<1>1. PICK L, h, r, W : Given(L, h, r) /\ Inv(L, h, r, W)
  BY DEF IInv
<1>2. ASSUME NEW k \in DOMAIN components
      PROVE  /\ components[k].ref = NoRef \/ components[k].ref.how = "local"
             /\ EndsIn[n][k] = {components[k].to}
  BY <1>1, ComponentsEnd
<1>3. Fine(link)
  <2>1. CASE link \in { components[k] : k \in DOMAIN components }
    <3>1. PICK k \in DOMAIN components : link = components[k]
      BY <2>1
    <3>2. CASE link.ref.how = "local"
      <4>1. Follows(r, k)
        BY <1>1, <3>1, <3>2 DEF Inv, Chained
      <4>. QED BY <3>1, <3>2, <4>1 DEF Follows, Fine
    <3>. QED BY <1>2, <3>1, <3>2 DEF Fine
  <2>2. CASE link \in UNION { ToSet(links[o]) : o \in DOMAIN links }
    <3>1. PICK o \in DOMAIN links : link \in ToSet(links[o])
      BY <2>2
    <3>2. o \in Objects /\ DOMAIN links[o] = Positions(o)
      BY <1>1, <3>1 DEF Inv, Shape
    <3>3. PICK i \in Positions(o) : link = links[o][i]
      BY <3>1, <3>2 DEF ToSet
    <3>. QED BY <1>1, <3>2, <3>3, AllWalked
  <2>. QED BY <2>1, <2>2
<1>4. CASE link.ref # NoRef
  <2>1. link.ref.how = "local" /\ Key(world, link) \in DOMAIN components /\ components[Key(world, link)].to = link.to
    BY <1>3, <1>4 DEF Fine
  <2>. QED BY <1>2, <2>1
<1>. QED BY <1>4

LEMMA IInvInit ==
  ASSUME Init
  PROVE  IInv
<1>1. world \in Worlds
  BY DEF Init
<1>2. ASSUME Straight(world), Layered(world)
      PROVE  \E L, h, r, W : Given(L, h, r) /\ Inv(L, h, r, W)
  <2>1. PICK L \in SUBSET Objects :
               /\ Astray(world, L)
               /\ \A o \in L : ~InRoot(world, o) => \A l \in LinksOf(world, o) : l.ref.how # "local"
    BY <1>2 DEF Straight, Objects
  <2>2. PICK h \in [Objects -> Nat] : Layers(world, h)
    BY <1>2 DEF Layered, Objects
  <2>3. PICK r \in [Keys(world) -> 0..Cardinality(Keys(world))] :
          \A k \in Keys(world) : LET l == world.components[k] IN
            Straightly(world, l.ref) /\ Key(world, l) \in Keys(world) => r[Key(world, l)] < r[k]
    BY <1>1, WorldIs DEF Resolved
  <2>4. Given(L, h, r)
    BY <2>1, <2>2, <2>3 DEF Given
  <2>5. Inv(L, h, r, {"doc"})
    BY <2>4, InvInit
  <2>. QED BY <2>4, <2>5
<1>. QED BY <1>1, <1>2 DEF IInv

LEMMA StutterKeeps ==
  ASSUME UNCHANGED vars
  PROVE  /\ world' = world
         /\ \A L, h, r, W : Given(L, h, r) /\ Inv(L, h, r, W) => Given(L, h, r)' /\ Inv(L, h, r, W)'
<1>1. world' = world /\ links' = links /\ components' = components /\ visited' = visited /\ stack' = stack
  BY DEF vars
<1>. SUFFICES ASSUME NEW L, NEW h, NEW r, NEW W, Given(L, h, r), Inv(L, h, r, W)
     PROVE  Given(L, h, r)' /\ Inv(L, h, r, W)'
  BY <1>1
<1>2. Given(L, h, r)'
  BY <1>1, Zenon DEF Given, Objects
<1>3. Shape'
  BY <1>1, ZenonT(30) DEF Inv, Shape, Objects, Positions, Original
<1>4. Walked(W)'
  BY <1>1, Zenon DEF Inv, Walked, Objects, Tasks, ComponentTasks, LinkTasks, Positions
<1>5. LinksKept(W)'
  BY <1>1, Zenon DEF Inv, LinksKept, Objects, Positions, Original, Fine
<1>6. ComponentsKept(W)'
  BY <1>1, Zenon DEF Inv, ComponentsKept
<1>7. Chained(r)'
  BY <1>1, Zenon DEF Inv, Chained, Follows
<1>8. Covered(L, W)' /\ Harmless(L, W)'
  <2>1. Covered(L, W) /\ Harmless(L, W)
    BY DEF Inv
  <2>2. Pending' = Pending /\ Keys(world)' = Keys(world) /\ \A o : Positions(o)' = Positions(o)
    BY <1>1, Zenon DEF Pending, Positions
  <2>3. /\ \A t : Good(L, t)' <=> Good(L, t)
        /\ \A o, i : Fine(links[o][i])' <=> Fine(links[o][i])
    BY <1>1, Zenon DEF Good, Fine
  <2>4. Covered(L, W)'
    <3>1. ASSUME NEW k \in Keys(world)
          PROVE  \/ components'[k].ref.how \in {"none", "local"} /\ components'[k].to \in W
                 \/ \E t \in Pending' : t.object = "" /\ t.key = k
      BY <1>1, <2>1, <2>2, Zenon DEF Covered
    <3>2. ASSUME NEW o \in W, NEW i \in Positions(o)
          PROVE  \/ Fine(links[o][i])' /\ links'[o][i].to \in W
                 \/ \E t \in Pending' : t.object = o /\ t.i = i /\ Good(L, t)'
      <4>1. \/ Fine(links[o][i]) /\ links[o][i].to \in W
            \/ \E t \in Pending : t.object = o /\ t.i = i /\ Good(L, t)
        BY <2>1 DEF Covered
      <4>2. links' = links
        BY <1>1
      <4>3. Pending' = Pending
        BY <2>2
      <4>. QED BY <2>3, <4>1, <4>2, <4>3
    <3>. QED BY <2>2, <3>1, <3>2, Zenon DEF Covered
  <2>5. Harmless(L, W)'
    <3>1. ASSUME NEW t \in Pending, t.object # "", ~Good(L, t)
          PROVE  Fine(links[t.object][t.i])' /\ links'[t.object][t.i].to \in W
      <4>1. Fine(links[t.object][t.i]) /\ links[t.object][t.i].to \in W
        BY <2>1, <3>1, Zenon DEF Harmless
      <4>. QED BY <1>1, <2>3, <4>1, Zenon
    <3>. QED BY <2>2, <2>3, <3>1, Zenon DEF Harmless
  <2>. QED BY <2>4, <2>5
<1>9. Sorted(h, stack)'
  BY <1>1, Zenon DEF Inv, Sorted
<1>. QED BY <1>2, <1>3, <1>4, <1>5, <1>6, <1>7, <1>8, <1>9 DEF Inv

LEMMA IInvStep ==
  ASSUME IInv, [Next]_vars
  PROVE  IInv'
<1>1. CASE UNCHANGED vars
  BY <1>1, StutterKeeps DEF IInv
<1>2. CASE Next
  <2>1. world' = world
    BY <1>2, Zenon DEF Next, VisitSchema, VisitHeader, VisitParameter, VisitRequestBody, VisitResponse,
       VisitSecurityScheme, VisitExample, VisitLink, VisitCallback, VisitPathItem, Visit
  <2>2. ASSUME Straight(world), Layered(world)
        PROVE  \E L, h, r, W : Given(L, h, r)' /\ Inv(L, h, r, W)'
    <3>1. PICK L, h, r, W : Given(L, h, r) /\ Inv(L, h, r, W)
      BY <2>2 DEF IInv
    <3>2. (\E V : Inv(L, h, r, V)') /\ Given(L, h, r)'
      BY <1>2, <3>1, NextKeeps
    <3>. QED BY <3>2
  <2>. QED BY <2>1, <2>2 DEF IInv
<1>. QED BY <1>1, <1>2

\* When InternalizeRefs has gone through a document, no reference leads to
\* another file, and each leads to the object it led to when it was loaded:
\* for any number of files, objects and references, in any order, if the
\* document goes down in layers and is not one of those the walk goes astray in.
THEOREM EndsSelfContained ==
  ASSUME \A w \in Worlds : Layered(w)
  PROVE  Spec => []SelfContained
<1>1. Init => IInv
  BY IInvInit
<1>2. IInv /\ [Next]_vars => IInv'
  BY IInvStep
<1>3. IInv => SelfContained
  BY IInvMeans DEF IInv
<1>. QED BY <1>1, <1>2, <1>3, PTL DEF Spec
=============================================================================
