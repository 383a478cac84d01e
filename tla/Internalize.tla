---------------------------- MODULE Internalize ----------------------------
(***************************************************************************)
(* InternalizeRefs: what a loaded document refers to in other files is     *)
(* moved to its components.                                                *)
(*                                                                         *)
(* The document is a graph of objects.  An object has the kind of the      *)
(* components it may be one of ("paths" for a path item), its home, the    *)
(* <<file, name>> where it was read ("" as name for a whole file), and     *)
(* links [ref, to] to others: the reference as it is written, NoRef for an *)
(* object in place, and the object it was resolved to.  A reference        *)
(* "#/components/..." is [how |-> "local", name]: in whatever file it was  *)
(* written, it now means the component of the document.                    *)
(***************************************************************************)
EXTENDS Integers, FiniteSets, SequencesExt

CONSTANT Worlds  \* [of: the objects, components: [<<kind, name>> -> link], order: their keys, sorted]

VARIABLES
  world,       \* the document as loaded
  links,       \* the links of every object
  components,  \* the components of the document, links by <<kind, name>>
  visited,     \* doc.visited
  stack        \* the links still to follow, the next one first

vars == <<world, links, components, visited, stack>>

NoRef == [how |-> "none", name |-> <<>>]
Local(name) == [how |-> "local", name |-> name]

\* In this order InternalizeRefs goes through the components.
Kinds == <<"schemas", "parameters", "headers", "requestBodies", "responses", "securitySchemes",
           "examples", "links", "callbacks">>

InTurn(order) ==
  FlattenSeq([i \in DOMAIN Kinds |-> SelectSeq(order, LAMBDA key : key[1] = Kinds[i])])

\* "always dereference the top level": the kinds of which a component that is
\* a reference becomes what it refers to.
Cleared == {"schemas", "parameters", "requestBodies", "callbacks"}

----------------------------------------------------------------------------
(* What the Loader promises of the documents that InternalizeRefs is given. *)

Keys(w)       == DOMAIN w.components
LinksOf(w, o) == ToSet(w.of[o].links)
Links(w)      == { w.components[k] : k \in Keys(w) } \cup UNION { LinksOf(w, o) : o \in DOMAIN w.of }
KindOf(w, o)  == w.of[o].kind
InRoot(w, o)  == w.of[o].home[1] = "root"
Key(w, link)  == <<KindOf(w, link.to), link.ref.name>>

\* The objects that a reference leads to.
Named(w) == { o \in DOMAIN w.of : \E l \in Links(w) : l.to = o /\ l.ref # NoRef }

Typed(w) ==
  /\ "doc" \in DOMAIN w.of /\ "" \notin DOMAIN w.of /\ InRoot(w, "doc") /\ KindOf(w, "doc") = ""
  /\ \A o \in DOMAIN w.of : w.of[o].links \in Seq(LinksOf(w, o))
  /\ \A l \in Links(w) :
       /\ l = [ref |-> l.ref, to |-> l.to] /\ l.to \in DOMAIN w.of
       /\ l.ref = [how |-> l.ref.how, name |-> l.ref.name]
       /\ l.ref.how \in {"none", "local", "external", "whole"} /\ (l.ref.how = "none" => l.ref = NoRef)
       /\ KindOf(w, l.to) \in ToSet(Kinds) \cup {"paths"}
  /\ w.components = [k \in Keys(w) |-> w.components[k]]
  /\ \A k \in Keys(w) : k = <<k[1], k[2]>> /\ k[1] \in ToSet(Kinds) /\ k[1] = KindOf(w, w.components[k].to)
  /\ w.order \in Seq(Keys(w)) /\ InTurn(w.order) \in Seq(Keys(w)) /\ Len(InTurn(w.order)) = Len(w.order)
  /\ ToSet(w.order) = Keys(w) /\ ToSet(InTurn(w.order)) = Keys(w)

\* The component of the document that a reference names, if it names one
\* without going through another file.
Straightly(w, ref) == ref.how = "local" \/ (ref.how = "external" /\ ref.name[1] = "root")

\* References in the document, and those of other files to it, lead through
\* its components, and not in circles.
Resolved(w) ==
  /\ \A l \in Links(w) :
       /\ \/ l \in { w.components[k] : k \in Keys(w) } /\ l.ref.how = "local"
          \/ \E o \in DOMAIN w.of : InRoot(w, o) /\ l \in LinksOf(w, o) /\ l.ref.how = "local"
          \/ /\ l.ref.how = "external" /\ l.ref.name[1] = "root"
             /\ InRoot(w, l.to) /\ KindOf(w, l.to) # "paths"
       => Key(w, l) \in Keys(w) /\ w.components[Key(w, l)].to = l.to
  /\ \E r \in [Keys(w) -> 0..Cardinality(Keys(w))] :
       \A k \in Keys(w) : LET l == w.components[k] IN
         Straightly(w, l.ref) /\ Key(w, l) \in Keys(w) => r[Key(w, l)] < r[k]

\* An object in place is in the file of what it is in; what a reference leads
\* to is known by its kind and its home, and has the name of its home if that
\* is one of a component; and all objects are reached from the document.
Homed(w) ==
  /\ \A k \in Keys(w) : w.components[k].ref = NoRef => InRoot(w, w.components[k].to)
  /\ \A o \in DOMAIN w.of : \A l \in LinksOf(w, o) :
       l.ref = NoRef => w.of[l.to].home[1] = w.of[o].home[1]
  /\ \A p, q \in Named(w) :
       KindOf(w, p) = KindOf(w, q) /\ w.of[p].home = w.of[q].home => p = q
  /\ \A o \in Named(w) : LET key == <<KindOf(w, o), w.of[o].home>> IN
       key \in Keys(w) => w.components[key] = [ref |-> NoRef, to |-> o]
  /\ \A S \in SUBSET DOMAIN w.of :
       /\ "doc" \in S /\ \A k \in Keys(w) : w.components[k].to \in S
       /\ \A o \in S : \A l \in LinksOf(w, o) : l.to \in S
       => S = DOMAIN w.of

\* Left out: references to whole files as components of the kinds that are
\* not Cleared.  They come to refer to themselves.
WholesCleared(w) == \A k \in Keys(w) : w.components[k].ref.how = "whole" => k[1] \in Cleared

\* A walk that ends goes down, but for schemas and headers: those it does not
\* walk twice.
Layers(w, h) ==
  /\ h \in [DOMAIN w.of -> Nat]
  /\ \A k \in Keys(w) : h[w.components[k].to] < h["doc"]
  /\ \A o \in DOMAIN w.of : \A l \in LinksOf(w, o) :
       \/ h[l.to] < h[o]
       \/ KindOf(w, l.to) \in {"schemas", "headers"} /\ h[l.to] <= h[o]

ASSUME WorldsAssumption ==
  \A w \in Worlds : Typed(w) /\ Resolved(w) /\ Homed(w) /\ WholesCleared(w)

----------------------------------------------------------------------------
Home(link) == world.of[link.to].home

\* The link a task is about: one of an object, or a component.
At(t) == IF t.object = "" THEN components[t.key] ELSE links[t.object][t.i]

\* Mutant: what an external file says of its own components is left alone.
IsExternalPlainly(ref, ext) == ref.how \notin {"none", "local"}

IsExternal(ref, ext) == ref.how # "none" /\ (ref.how # "local" \/ ext)

\* DefaultRefNameResolver, which is taken to give different names to
\* different homes.  What the document has among its own components keeps
\* the name it has there, a file that of the component that is all of it.
NameOf(kind, link) ==
  LET same == { key \in DOMAIN components :
                  /\ key[1] = kind
                  /\ components[key].ref.how = "whole"
                  /\ Home(components[key]) = Home(link) }
      first == CHOOSE i \in DOMAIN world.order : /\ world.order[i] \in same
                                                 /\ \A j \in 1..(i-1) : world.order[j] \notin same
  IN CASE link.ref.how = "external" /\ link.ref.name[1] = "root" /\ Home(link)[1] = "root" -> link.ref.name
       [] same # {} -> world.order[first][2]
       [] OTHER -> Home(link)

Init ==
  /\ world \in Worlds
  /\ links = [o \in DOMAIN world.of |-> world.of[o].links]
  /\ components = world.components
  /\ visited = {}
  /\ stack = [i \in DOMAIN world.order |->
                [object |-> "", i |-> 0, key |-> InTurn(world.order)[i], ext |-> FALSE]] \o
             [i \in DOMAIN links["doc"] |->
                [object |-> "doc", i |-> i, key |-> <<>>, ext |-> FALSE]]

\* What is left to do after the first task: the links of its object, below
\* an external one all of them as in an external file.
Below(object, ext) ==
  [i \in DOMAIN links[object] |-> [object |-> object, i |-> i, key |-> <<>>, ext |-> ext]] \o Tail(stack)

\* addSchemaToSpec and its like: what becomes of the reference of a task's link,
Rewritten(t, link, kind) ==
  CASE kind \in Cleared /\ t.object = "" -> NoRef
    [] IsExternal(link.ref, t.ext) /\ ~(kind \in Cleared /\ t.object = "") -> Local(NameOf(kind, link))
    [] OTHER -> link.ref

\* and the components with the one it is for, which is added unless there is
\* one of that name.  Callbacks do not ask.
Extended(t, link, kind) ==
  LET key == <<kind, NameOf(kind, link)>>
  IN IF IsExternal(link.ref, t.ext) /\ (kind = "callbacks" \/ key \notin DOMAIN components)
     THEN [k \in DOMAIN components \cup {key} |->
             IF k = key THEN [ref |-> NoRef, to |-> link.to] ELSE components[k]]
     ELSE components

\* An object that was seen is not walked again.
Visit(kind, seen) ==
  LET t == Head(stack)
      link == At(t)
      ref == Rewritten(t, link, kind)
      extended == Extended(t, link, kind)
  IN /\ stack # <<>>
     /\ world.of[link.to].kind = kind
     /\ IF t.object = "" THEN /\ components' = [extended EXCEPT ![t.key].ref = ref]
                              /\ UNCHANGED links
        ELSE /\ components' = extended
             /\ links' = [links EXCEPT ![t.object][t.i].ref = ref]
     /\ stack' = IF link.to \in seen THEN Tail(stack)
                 ELSE Below(link.to, IsExternal(link.ref, t.ext) \/ t.ext)
     /\ UNCHANGED world

VisitSchema ==
  /\ Visit("schemas", visited)
  /\ visited' = visited \cup {At(Head(stack)).to}

VisitHeader ==
  /\ Visit("headers", visited)
  /\ visited' = visited \cup {At(Head(stack)).to}

VisitParameter      == Visit("parameters", {}) /\ UNCHANGED visited
VisitRequestBody    == Visit("requestBodies", {}) /\ UNCHANGED visited
VisitResponse       == Visit("responses", {}) /\ UNCHANGED visited
VisitSecurityScheme == Visit("securitySchemes", {}) /\ UNCHANGED visited
VisitExample        == Visit("examples", {}) /\ UNCHANGED visited
VisitLink           == Visit("links", {}) /\ UNCHANGED visited
VisitCallback       == Visit("callbacks", {}) /\ UNCHANGED visited

\* A path item is put in place.  Whether it is external is asked of its own
\* reference only.
VisitPathItem ==
  LET t == Head(stack)
      link == At(t)
  IN /\ stack # <<>>
     /\ world.of[link.to].kind = "paths"
     /\ links' = [links EXCEPT ![t.object][t.i].ref = NoRef]
     /\ stack' = Below(link.to, IsExternal(link.ref, t.ext))
     /\ UNCHANGED <<world, components, visited>>

Next ==
  \/ VisitSchema \/ VisitParameter \/ VisitHeader \/ VisitRequestBody \/ VisitResponse
  \/ VisitSecurityScheme \/ VisitExample \/ VisitLink \/ VisitCallback \/ VisitPathItem

Spec == Init /\ [][Next]_vars

----------------------------------------------------------------------------

\* Where a chain of n references from component to component ends: the objects
\* it leads to.
EndsIn[n \in Nat] == [key \in DOMAIN components |->
  IF components[key].ref = NoRef THEN {components[key].to}
  ELSE LET next == <<key[1], components[key].ref.name>>
       IN  IF n = 0 \/ next \notin DOMAIN components THEN {} ELSE EndsIn[n - 1][next]]

\* The objects of other files among which the walk takes itself to be in the
\* document: what a local reference of the document leads to, through a component
\* that is itself a reference, path items in place in a callback, and what is in
\* place in them.
Astray(w, objects) ==
  /\ \A k \in Keys(w) : LET l == w.components[k] IN
       l.ref.how = "local" /\ ~InRoot(w, l.to) => l.to \in objects
  /\ \A o \in DOMAIN w.of : \A l \in LinksOf(w, o) :
       /\ InRoot(w, o) /\ l.ref.how = "local" /\ ~InRoot(w, l.to) => l.to \in objects
       /\ l.ref = NoRef /\ KindOf(w, l.to) = "paths" /\ ~InRoot(w, l.to) => l.to \in objects
       /\ l.ref = NoRef /\ o \in objects => l.to \in objects

\* No reference there is a local one.
Straight(w) ==
  \E objects \in SUBSET DOMAIN w.of :
    /\ Astray(w, objects)
    /\ \A o \in objects : ~InRoot(w, o) => \A l \in LinksOf(w, o) : l.ref.how # "local"

\* The document that is now in one piece says what it said before: no
\* reference leads to another file, and each leads, through components of
\* the document, to the object it led to when the document was loaded.
\* (Names in other files mean something else than the same names here; the
\* walk has to know in which it is, whatever the order in which it comes by.)
SelfContained ==
  stack = <<>> /\ Straight(world) =>
    LET all == { components[k] : k \in DOMAIN components } \cup
               UNION { ToSet(links[o]) : o \in DOMAIN links }
    IN \A link \in all :
         \/ link.ref = NoRef
         \/ /\ link.ref.how = "local" /\ Key(world, link) \in DOMAIN components
            /\ EndsIn[Cardinality(DOMAIN components)][Key(world, link)] = {link.to}
=============================================================================
