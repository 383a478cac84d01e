------------------------------ MODULE RefLoader ------------------------------
(***************************************************************************)
(* openapi3.Loader: loading documents and resolving their references.      *)
(*                                                                         *)
(* The loader is one thread running mutually recursive functions, so its   *)
(* state is its call stack (one frame per ResolveRefsIn and per            *)
(* resolveSchemaRef in progress), the heap of components it fills in, and  *)
(* the maps of the Loader struct.  resolveSchemaRef stands for the five    *)
(* resolve functions of the kinds that have sub-components; they differ in *)
(* the names of the fields they walk.                                      *)
(*                                                                         *)
(* A component ("cell") is known by the decode it comes from, its file,    *)
(* its name there and its position: k = 0 for the component itself, k > 0  *)
(* for the k-th sub-component of its value.  Sub-components are references *)
(* (an inline one is walked in place).  A value is a pointer: the decode,  *)
(* file and name of the object it points to.  Files are siblings in one    *)
(* directory, so a reference string is its record [file, name].            *)
(***************************************************************************)
EXTENDS Naturals, Sequences, FiniteSets

CONSTANTS
  Uris,       \* the locations of files
  Names,      \* the names of components
  NameOrder,  \* the names in the order of componentNames (sorted)
  Worlds,     \* the file systems considered, each in [Uris -> File]
  MaxLoads,   \* bound: calls made on one Loader
  MaxFaults,  \* bound: reads that fail although the file is there
  Here,       \* the file part of a reference "#..."
  Root,       \* the name part of a reference without fragment
  Nil         \* a nil pointer, an absent reference or an absent component

Ref   == [file : Uris \cup {Here}, name : Names] \cup [file : Uris, name : {Root}]
Shape == [ref : {Nil}, kids : Seq(Ref)] \cup [ref : Ref, kids : {<<>>}]
File  == [ kind : {"doc", "fragment", "broken"},
           elem : [ref : {Nil}, kids : Seq(Ref)],
           defs : [Names -> Shape \cup {Nil}] ]

ASSUME WorldsAssumption == Worlds \subseteq [Uris -> File]
ASSUME NullsAssumption ==
  /\ Here \notin Uris
  /\ Root \notin Names
  /\ Nil \notin Ref /\ Nil \notin Shape /\ Nil \notin Uris
ASSUME FilesAssumption ==
  IsFiniteSet(Uris) /\ IsFiniteSet(Names) /\ Names = { NameOrder[i] : i \in DOMAIN NameOrder }
ASSUME BoundsAssumption ==
  MaxLoads \in Nat /\ MaxFaults \in Nat /\ NameOrder \in Seq(Names)

CellId  == [inst : Nat, uri : Uris, name : Names \cup {Root}, k : Nat]
ValueId == [inst : Nat, uri : Uris, name : Names \cup {Root}]
Loc     == [uri : Uris, name : Names \cup {Root}]

ASSUME NilAssumption == Nil \notin ValueId /\ Nil \notin CellId /\ Nil \notin Loc

VARIABLES
  world,                 \* the files, as the reader function returns them
  isExternalRefsAllowed, \* the field of the Loader
  value,                 \* cell -> the value it points to (Value of a *Ref)
  refPath,               \* cell -> where its target lives (refPath of a *Ref)
  fresh,                 \* the number of the next decode
  visitedDocuments, visitedRefs, visitedPath, backtrack,
  stack,                 \* the call stack, innermost frame last
  status,                \* "idle", "running", or "failing" (returning an error)
  result, root,          \* what the last Load returned, and for which file
  loads, faults          \* calls so far, failed reads so far

heap   == <<value, refPath, fresh>>
visits == <<visitedRefs, visitedPath, backtrack>>
static == <<world, isExternalRefsAllowed>>
call   == <<result, root, loads>>
vars   == <<world, isExternalRefsAllowed, value, refPath, fresh,
            visitedDocuments, visitedRefs, visitedPath, backtrack,
            stack, status, result, root, loads, faults>>

(***************************************************************************)
(* The contents of files and what decoding them allocates.                 *)
(***************************************************************************)
ShapeAt(u, n) == IF n = Root THEN world[u].elem ELSE world[u].defs[n]

Defines(u, n) == world[u].kind # "broken" /\ world[u].defs[n] # Nil

RefOf(c) == LET s == ShapeAt(c.uri, c.name) IN
            IF c.k = 0 THEN s.ref ELSE s.kids[c.k]

Target(v) == [inst |-> v.inst, uri |-> v.uri, name |-> v.name]

KidCells(v) == [ i \in 1..Len(ShapeAt(v.uri, v.name).kids) |->
                 [inst |-> v.inst, uri |-> v.uri, name |-> v.name, k |-> i] ]

\* The cells that decoding component n of file u creates, as decode i.
Decoded(i, u, n) == { [inst |-> i, uri |-> u, name |-> n, k |-> j] :
                      j \in 0..Len(ShapeAt(u, n).kids) }

\* Unmarshalling sets the Value of an inline component, not of a reference.
Unmarshalled(c) == IF RefOf(c) = Nil THEN Target(c) ELSE Nil

Allocate(new) ==
  /\ value' = [c \in DOMAIN value \cup new |->
                 IF c \in new THEN Unmarshalled(c) ELSE value[c]]
  /\ refPath' = [c \in DOMAIN refPath \cup new |->
                 IF c \in new THEN Nil ELSE refPath[c]]

(***************************************************************************)
(* The call stack.                                                         *)
(***************************************************************************)
Frame == [ fn : {"ResolveRefsIn", "resolveSchemaRef"},
           pc : {"components", "enter", "element", "document", "drill",
                 "copy", "children"},
           cell : CellId \cup {Nil},     \* component
           doc : Uris,                   \* doc, documentPath
           path : Uris,
           tdoc : Uris,                  \* componentDoc / componentPath
           tmp : CellId \cup {Nil},      \* resolved
           held : ValueId \cup {Nil},    \* component.Value at the defer
           pos : Nat ]                   \* the loop counter

DocFrame(u) ==
  [fn |-> "ResolveRefsIn", pc |-> "components", cell |-> Nil, doc |-> u,
   path |-> u, tdoc |-> u, tmp |-> Nil, held |-> Nil, pos |-> 0]

RefFrame(c, doc, path) ==
  [fn |-> "resolveSchemaRef", pc |-> "enter", cell |-> c, doc |-> doc,
   path |-> path, tdoc |-> doc, tmp |-> Nil, held |-> Nil, pos |-> 0]

Top          == stack[Len(stack)]
At(fn, pc)   == status = "running" /\ stack # <<>> /\ Top.fn = fn /\ Top.pc = pc
Goto(f)      == stack' = [stack EXCEPT ![Len(stack)] = f]
Call(f, g)   == stack' = Append([stack EXCEPT ![Len(stack)] = f], g)
Pop          == stack' = SubSeq(stack, 1, Len(stack) - 1)
Fail         == status' = "failing" /\ UNCHANGED <<heap, visitedDocuments, visits, stack>>

(***************************************************************************)
(* Reading.  A read of a file that is there may still fail.                *)
(***************************************************************************)
ReadOK   == UNCHANGED faults
ReadFail == faults < MaxFaults /\ faults' = faults + 1

Allowed(r) == isExternalRefsAllowed \/ r.file = Here

FileOfFaulty(r, path) == r.file  \* variation: no base path
FileOf(r, path) == IF r.file = Here THEN path ELSE r.file
LocOf(r, path)  == [uri |-> FileOf(r, path), name |-> r.name]

\* The typed components of a cached document, and the names a document keeps
\* undecoded in its Extensions.
Typed(u) == { n \in Names : [inst |-> 0, uri |-> u, name |-> n, k |-> 0] \in DOMAIN value }
Raw(u)   == IF world[u].kind = "fragment" THEN { n \in Names : Defines(u, n) } ELSE {}

\* Decoding a document allocates its components and starts ResolveRefsIn.
\* The document is in the cache before either is done.
DocCells(u) == IF world[u].kind = "doc"
               THEN UNION { Decoded(0, u, n) : n \in {m \in Names : Defines(u, m)} }
               ELSE {}

(***************************************************************************)
(* A call of LoadFromURI by the program, on a Loader that may have been    *)
(* used before.                                                            *)
(***************************************************************************)
Begin(u) ==
  /\ status = "idle" /\ loads < MaxLoads
  /\ loads' = loads + 1
  /\ root' = u
  /\ visitedRefs' = {} /\ visitedPath' = <<>> /\ backtrack' = <<>>
  /\ UNCHANGED <<static, fresh>>

LoadReadFails(u) ==
  /\ Begin(u) /\ ReadFail
  /\ result' = "err"
  /\ UNCHANGED <<value, refPath, visitedDocuments, stack, status>>

LoadCached(u) ==
  /\ Begin(u) /\ ReadOK
  /\ u \in visitedDocuments
  /\ result' = "ok"
  /\ UNCHANGED <<value, refPath, visitedDocuments, stack, status>>

LoadUndecodable(u) ==
  /\ Begin(u) /\ ReadOK
  /\ u \notin visitedDocuments /\ world[u].kind = "broken"
  /\ visitedDocuments' = visitedDocuments \cup {u}
  /\ result' = "err"
  /\ UNCHANGED <<value, refPath, stack, status>>

LoadDecoded(u) ==
  /\ Begin(u) /\ ReadOK
  /\ u \notin visitedDocuments /\ world[u].kind # "broken"
  /\ visitedDocuments' = visitedDocuments \cup {u}
  /\ Allocate(DocCells(u))
  /\ stack' = <<DocFrame(u)>>
  /\ status' = "running"
  /\ result' = "none"

(***************************************************************************)
(* ResolveRefsIn: the components of a document, in the order of their      *)
(* names.                                                                  *)
(***************************************************************************)
NextComponent ==
  /\ At("ResolveRefsIn", "components") /\ Top.pos < Len(NameOrder)
  /\ LET n == NameOrder[Top.pos + 1]
         f == [Top EXCEPT !.pos = @ + 1]
     IN  IF n \in Typed(Top.doc)
         THEN Call(f, RefFrame([inst |-> 0, uri |-> Top.doc, name |-> n, k |-> 0],
                               Top.doc, Top.path))
         ELSE Goto(f)
  /\ UNCHANGED <<static, heap, visitedDocuments, visits, status, call, faults>>

DocumentDone ==
  /\ At("ResolveRefsIn", "components") /\ Top.pos = Len(NameOrder)
  /\ Pop
  /\ IF Len(stack) = 1 THEN status' = "idle" /\ result' = "ok"
                       ELSE UNCHANGED <<status, result>>
  /\ UNCHANGED <<static, heap, visitedDocuments, visits, root, loads, faults>>

(***************************************************************************)
(* resolveSchemaRef: the guards on entry.                                  *)
(***************************************************************************)
\* variation: the value of an inline component is not walked.
EnterInlineFaulty ==
  /\ At("resolveSchemaRef", "enter") /\ RefOf(Top.cell) = Nil
  /\ Pop
  /\ UNCHANGED <<static, heap, visitedDocuments, visits, status, call, faults>>

EnterInline ==
  /\ At("resolveSchemaRef", "enter") /\ RefOf(Top.cell) = Nil
  /\ Goto([Top EXCEPT !.pc = "children", !.held = value[Top.cell]])
  /\ UNCHANGED <<static, heap, visitedDocuments, visits, status, call, faults>>

EnterResolved ==
  /\ At("resolveSchemaRef", "enter") /\ RefOf(Top.cell) # Nil
  /\ value[Top.cell] # Nil
  /\ Pop
  /\ UNCHANGED <<static, heap, visitedDocuments, visits, status, call, faults>>

\* The callbacks left for a reference: the components to fill in, each with
\* the path its first callback remembers (setRefPath keeps the first, and all
\* get the same value).
Callbacks(r) == IF r \in DOMAIN backtrack THEN backtrack[r] ELSE <<>>

\* shouldVisitRef: the reference string is in progress, leave a callback.
\* variation: the callback is left on the reference visited last.
EnterInProgressFaulty ==
  /\ At("resolveSchemaRef", "enter")
  /\ LET r    == RefOf(Top.cell)
         last == visitedPath[Len(visitedPath)]
     IN  /\ r # Nil /\ value[Top.cell] = Nil
         /\ r \in visitedRefs
         /\ backtrack' = [q \in DOMAIN backtrack \cup {last} |->
              IF q # last THEN backtrack[q]
              ELSE [c \in DOMAIN Callbacks(last) \cup {Top.cell} |-> LocOf(r, Top.path)]]
  /\ Pop
  /\ UNCHANGED <<static, heap, visitedDocuments, visitedRefs, visitedPath,
                 status, call, faults>>

EnterInProgress ==
  /\ At("resolveSchemaRef", "enter")
  /\ LET r == RefOf(Top.cell)
     IN  /\ r # Nil /\ value[Top.cell] = Nil
         /\ r \in visitedRefs
         /\ backtrack' = [q \in DOMAIN backtrack \cup {r} |->
              IF q # r THEN backtrack[q]
              ELSE [c \in DOMAIN Callbacks(r) \cup {Top.cell} |->
                      IF c \in DOMAIN Callbacks(r) THEN Callbacks(r)[c]
                      ELSE LocOf(r, Top.path)]]
  /\ Pop
  /\ UNCHANGED <<static, heap, visitedDocuments, visitedRefs, visitedPath,
                 status, call, faults>>

\* variation: a component that has its value is resolved again.
EnterUnvisitedFaulty ==
  /\ At("resolveSchemaRef", "enter")
  /\ LET r == RefOf(Top.cell)
     IN  /\ r # Nil /\ r \notin visitedRefs
         /\ visitedRefs' = visitedRefs \cup {r}
         /\ visitedPath' = Append(visitedPath, r)
         /\ Goto([Top EXCEPT !.pc = IF r.name = Root THEN "element" ELSE "document"])
  /\ UNCHANGED <<static, heap, visitedDocuments, backtrack, status, call, faults>>

EnterUnvisited ==
  /\ At("resolveSchemaRef", "enter")
  /\ LET r == RefOf(Top.cell)
     IN  /\ r # Nil /\ value[Top.cell] = Nil
         /\ r \notin visitedRefs
         /\ visitedRefs' = visitedRefs \cup {r}
         /\ visitedPath' = Append(visitedPath, r)
         /\ Goto([Top EXCEPT !.pc = IF r.name = Root THEN "element" ELSE "document"])
  /\ UNCHANGED <<static, heap, visitedDocuments, backtrack, status, call, faults>>

(***************************************************************************)
(* A reference to a whole file: the file is decoded as one component, a    *)
(* new object on every visit, and is not cached.                           *)
(***************************************************************************)
\* What the file refers to is looked up from the file.
\* variation: documentPath is not reassigned.
ElementPathFaulty(u) == Top.path
ElementPath(u) == u

ElementFails ==
  /\ At("resolveSchemaRef", "element")
  /\ LET r == RefOf(Top.cell)
     IN  \/ ~Allowed(r) /\ ReadOK
         \/ Allowed(r) /\ ReadFail
         \/ Allowed(r) /\ ReadOK /\ world[r.file].kind = "broken"
  /\ Fail
  /\ UNCHANGED <<static, call>>

ElementDecoded ==
  /\ At("resolveSchemaRef", "element")
  /\ LET c   == Top.cell
         u   == RefOf(c).file
         v   == [inst |-> fresh, uri |-> u, name |-> Root]
         new == Decoded(fresh, u, Root)
     IN  /\ Allowed(RefOf(c)) /\ ReadOK /\ world[u].kind # "broken"
         /\ value' = [d \in DOMAIN value \cup new |->
              IF d = c THEN v ELSE IF d \in new THEN Unmarshalled(d) ELSE value[d]]
         /\ refPath' = [d \in DOMAIN refPath \cup new |->
              IF d = c /\ refPath[c] = Nil THEN [uri |-> u, name |-> Root]
              ELSE IF d \in DOMAIN refPath THEN refPath[d] ELSE Nil]
         /\ Goto([Top EXCEPT !.pc = "children", !.path = ElementPath(u), !.held = v])
  /\ fresh' = fresh + 1
  /\ UNCHANGED <<static, visitedDocuments, visits, status, call>>

(***************************************************************************)
(* A reference with a fragment: the document it is in (resolveComponent    *)
(* and resolveRefAndDocument), loaded when it is not cached.               *)
(***************************************************************************)
DocumentHere ==
  /\ At("resolveSchemaRef", "document") /\ RefOf(Top.cell).file = Here
  /\ Goto([Top EXCEPT !.pc = "drill", !.tdoc = Top.doc])
  /\ UNCHANGED <<static, heap, visitedDocuments, visits, status, call, faults>>

DocumentFails ==
  /\ At("resolveSchemaRef", "document") /\ RefOf(Top.cell).file # Here
  /\ \/ ~Allowed(RefOf(Top.cell)) /\ ReadOK
     \/ Allowed(RefOf(Top.cell)) /\ ReadFail
  /\ Fail
  /\ UNCHANGED <<static, call>>

DocumentCached ==
  /\ At("resolveSchemaRef", "document") /\ RefOf(Top.cell).file \in visitedDocuments
  /\ Allowed(RefOf(Top.cell)) /\ ReadOK
  /\ Goto([Top EXCEPT !.pc = "drill", !.tdoc = RefOf(Top.cell).file])
  /\ UNCHANGED <<static, heap, visitedDocuments, visits, status, call>>

DocumentUndecodable ==
  /\ At("resolveSchemaRef", "document")
  /\ LET r == RefOf(Top.cell)
     IN  /\ r.file # Here /\ r.file \notin visitedDocuments
         /\ Allowed(r) /\ ReadOK /\ world[r.file].kind = "broken"
         /\ visitedDocuments' = visitedDocuments \cup {r.file}
  /\ status' = "failing"
  /\ UNCHANGED <<static, heap, visits, stack, call>>

DocumentLoaded ==
  /\ At("resolveSchemaRef", "document")
  /\ LET r == RefOf(Top.cell)
     IN  /\ r.file # Here /\ r.file \notin visitedDocuments
         /\ Allowed(r) /\ ReadOK /\ world[r.file].kind # "broken"
         /\ visitedDocuments' = visitedDocuments \cup {r.file}
         /\ Allocate(DocCells(r.file))
         /\ Call([Top EXCEPT !.pc = "drill", !.tdoc = r.file], DocFrame(r.file))
  /\ UNCHANGED <<static, fresh, visits, status, call>>

(***************************************************************************)
(* resolveComponent, the drill: the component the fragment leads to is     *)
(* copied into "resolved", and that copy is resolved in the context of the *)
(* document it came from.                                                  *)
(***************************************************************************)
ComponentPath == IF RefOf(Top.cell).file = Here THEN Top.path ELSE Top.tdoc

ResolveCopy(tmp) ==
  Call([Top EXCEPT !.pc = "copy", !.tmp = tmp], RefFrame(tmp, Top.tdoc, ComponentPath))

DrillTyped ==
  /\ At("resolveSchemaRef", "drill") /\ RefOf(Top.cell).name \in Typed(Top.tdoc)
  /\ LET n   == RefOf(Top.cell).name
         src == [inst |-> 0, uri |-> Top.tdoc, name |-> n, k |-> 0]
         tmp == [src EXCEPT !.inst = fresh]
         loc == IF refPath[src] = Nil THEN [uri |-> ComponentPath, name |-> n]
                                      ELSE refPath[src]
     IN  /\ value' = [d \in DOMAIN value \cup {tmp} |->
                        IF d = tmp THEN value[src] ELSE value[d]]
         /\ refPath' = [d \in DOMAIN refPath \cup {tmp} |->
                        IF d \in {src, tmp} THEN loc ELSE refPath[d]]
         /\ ResolveCopy(tmp)
  /\ fresh' = fresh + 1
  /\ UNCHANGED <<static, visitedDocuments, visits, status, call, faults>>

\* The fragment leads into generic data: it is decoded, a new object each time.
DecodeGeneric(u) ==
  /\ LET n   == RefOf(Top.cell).name
         tmp == [inst |-> fresh, uri |-> u, name |-> n, k |-> 0]
         new == Decoded(fresh, u, n)
     IN  /\ value' = [d \in DOMAIN value \cup new |->
                        IF d \in new THEN Unmarshalled(d) ELSE value[d]]
         /\ refPath' = [d \in DOMAIN refPath \cup new |->
                        IF d = tmp THEN [uri |-> ComponentPath, name |-> n]
                        ELSE IF d \in new THEN Nil ELSE refPath[d]]
         /\ ResolveCopy(tmp)
  /\ fresh' = fresh + 1
  /\ UNCHANGED <<static, visitedDocuments, visits, status, call>>

DrillGeneric ==
  /\ At("resolveSchemaRef", "drill") /\ RefOf(Top.cell).name \in Raw(Top.tdoc)
  /\ Top.tdoc \in visitedDocuments
  /\ DecodeGeneric(Top.tdoc) /\ UNCHANGED faults

NotInDocument ==
  LET n == RefOf(Top.cell).name IN n \notin Typed(Top.tdoc) \cup Raw(Top.tdoc)

\* The drill failed: the file of the REFERRER is read again and drilled as
\* generic data.
DrillReread ==
  /\ At("resolveSchemaRef", "drill") /\ NotInDocument
  /\ ReadOK /\ Defines(Top.path, RefOf(Top.cell).name)
  /\ DecodeGeneric(Top.path)

DrillFails ==
  /\ At("resolveSchemaRef", "drill") /\ NotInDocument
  /\ \/ ReadFail
     \/ ReadOK /\ ~Defines(Top.path, RefOf(Top.cell).name)
  /\ Fail
  /\ UNCHANGED <<static, call>>

\* component.Value = resolved.Value; component.setRefPath(resolved.RefPath())
\* variation: the path of the copy is not carried over.
CopyResolvedFaulty ==
  /\ At("resolveSchemaRef", "copy")
  /\ value' = [value EXCEPT ![Top.cell] = value[Top.tmp]]
  /\ Goto([Top EXCEPT !.pc = "children", !.held = value[Top.tmp]])
  /\ UNCHANGED <<static, refPath, fresh, visitedDocuments, visits, status, call, faults>>

CopyResolved ==
  /\ At("resolveSchemaRef", "copy")
  /\ LET c == Top.cell
     IN  /\ value' = [value EXCEPT ![c] = value[Top.tmp]]
         /\ refPath' = [refPath EXCEPT ![c] = IF @ = Nil THEN refPath[Top.tmp] ELSE @]
         /\ Goto([Top EXCEPT !.pc = "children", !.held = value[Top.tmp]])
  /\ UNCHANGED <<static, fresh, visitedDocuments, visits, status, call, faults>>

(***************************************************************************)
(* The sub-components of the value, then the deferred unvisitRef.          *)
(***************************************************************************)
Children == IF Top.held = Nil THEN <<>> ELSE KidCells(Top.held)

\* variation: the loop does not advance.
NextChildFaulty ==
  /\ At("resolveSchemaRef", "children") /\ Top.pos < Len(Children)
  /\ Call(Top, RefFrame(Children[Top.pos + 1], Top.doc, Top.path))
  /\ UNCHANGED <<static, heap, visitedDocuments, visits, status, call, faults>>

NextChild ==
  /\ At("resolveSchemaRef", "children") /\ Top.pos < Len(Children)
  /\ Call([Top EXCEPT !.pos = @ + 1],
          RefFrame(Children[Top.pos + 1], Top.doc, Top.path))
  /\ UNCHANGED <<static, heap, visitedDocuments, visits, status, call, faults>>

\* unvisitRef runs the callbacks left for the reference with the value held.
\* variations: the callbacks are not forgotten; they are not run.
UnvisitRefKeeping(r, v) ==
  /\ visitedRefs' = visitedRefs \ {r}
  /\ visitedPath' = SubSeq(visitedPath, 1, Len(visitedPath) - 1)
  /\ UNCHANGED <<heap, backtrack>>

UnvisitRefSilent(r, v) ==
  /\ visitedRefs' = visitedRefs \ {r}
  /\ visitedPath' = SubSeq(visitedPath, 1, Len(visitedPath) - 1)
  /\ backtrack' = [q \in DOMAIN backtrack \ {r} |-> backtrack[q]]
  /\ UNCHANGED heap

UnvisitRef(r, v) ==
  /\ value' = [c \in DOMAIN value |->
       IF c \in DOMAIN Callbacks(r) THEN v ELSE value[c]]
  /\ refPath' = [c \in DOMAIN refPath |->
       IF c \in DOMAIN Callbacks(r) /\ refPath[c] = Nil THEN Callbacks(r)[c] ELSE refPath[c]]
  /\ visitedRefs' = visitedRefs \ {r}
  /\ visitedPath' = SubSeq(visitedPath, 1, Len(visitedPath) - 1)
  /\ backtrack' = [q \in DOMAIN backtrack \ {r} |-> backtrack[q]]
  /\ UNCHANGED fresh

\* variation: no unvisit when the resolved value is nil.
ReturnRefFaulty ==
  IF RefOf(Top.cell) = Nil \/ Top.held = Nil THEN UNCHANGED <<heap, visits>>
  ELSE UnvisitRef(RefOf(Top.cell), Top.held)

ReturnRef ==
  IF RefOf(Top.cell) = Nil THEN UNCHANGED <<heap, visits>>
                           ELSE UnvisitRef(RefOf(Top.cell), Top.held)

ReferenceDone ==
  /\ At("resolveSchemaRef", "children") /\ Top.pos = Len(Children)
  /\ ReturnRef
  /\ Pop
  /\ UNCHANGED <<static, visitedDocuments, status, call, faults>>

\* An error returns through every frame; only a frame that had reached its
\* defer unvisits its reference.
ReturnError ==
  /\ status = "failing" /\ stack # <<>>
  /\ IF Top.fn = "resolveSchemaRef" /\ Top.pc = "children"
     THEN ReturnRef ELSE UNCHANGED <<heap, visits>>
  /\ Pop
  /\ IF Len(stack) = 1 THEN status' = "idle" /\ result' = "err"
                       ELSE UNCHANGED <<status, result>>
  /\ UNCHANGED <<static, visitedDocuments, root, loads, faults>>

(***************************************************************************)
(* The specification.                                                      *)
(***************************************************************************)
Init ==
  /\ world \in Worlds
  /\ isExternalRefsAllowed \in BOOLEAN
  /\ value = <<>> /\ refPath = <<>> /\ fresh = 1
  /\ visitedDocuments = {} /\ visitedRefs = {} /\ visitedPath = <<>>
  /\ backtrack = <<>>
  /\ stack = <<>> /\ status = "idle"
  /\ result = "none" /\ root = Nil /\ loads = 0 /\ faults = 0

LoadFromURI ==
  \E u \in Uris : \/ LoadReadFails(u) \/ LoadCached(u)
                  \/ LoadUndecodable(u) \/ LoadDecoded(u)

ResolveRef ==
  \/ EnterInline \/ EnterResolved \/ EnterInProgress \/ EnterUnvisited
  \/ ElementFails \/ ElementDecoded
  \/ DocumentHere \/ DocumentFails \/ DocumentCached
  \/ DocumentUndecodable \/ DocumentLoaded
  \/ DrillTyped \/ DrillGeneric \/ DrillReread \/ DrillFails \/ CopyResolved
  \/ NextChild \/ ReferenceDone

Step == NextComponent \/ DocumentDone \/ ResolveRef \/ ReturnError

\* The program may stop calling the Loader.
Finished == status = "idle" /\ loads = MaxLoads /\ UNCHANGED vars

Next == LoadFromURI \/ Step \/ Finished

Spec     == Init /\ [][Next]_vars
FairSpec == Spec /\ WF_vars(Step)

(***************************************************************************)
(* What references denote: the reference semantics the loader is measured  *)
(* against.  It depends on the files only.                                 *)
(***************************************************************************)
NoLoc == [uri |-> Nil, name |-> Nil]

\* The location a location leads to after at most n references: the inline
\* component at the end of the chain, or NoLoc when a name is not defined or
\* the chain has not ended.
Follow[n \in Nat] == [l \in Loc |->
  IF l.name # Root /\ ~Defines(l.uri, l.name) THEN NoLoc
  ELSE LET r == ShapeAt(l.uri, l.name).ref IN
       IF r = Nil THEN l
       ELSE IF n = 0 THEN NoLoc ELSE Follow[n - 1][LocOf(r, l.uri)]]

\* A location leads to an object after at most n references, each of them local.
Locally[n \in Nat] == [l \in Loc |->
  LET r == ShapeAt(l.uri, l.name).ref
  IN  /\ l.name = Root \/ Defines(l.uri, l.name)
      /\ r = Nil \/ (n > 0 /\ r.file = Here /\ Locally[n - 1][LocOf(r, l.uri)])]

Denotes(r, u) == Follow[Cardinality(Uris) * Cardinality(Names)][LocOf(r, u)]

(***************************************************************************)
(* Properties.                                                             *)
(***************************************************************************)
\* The types of the variables.
TypeOK ==
  /\ world \in Worlds /\ isExternalRefsAllowed \in BOOLEAN
  /\ DOMAIN value \subseteq CellId /\ DOMAIN refPath = DOMAIN value
  /\ \A c \in DOMAIN value : value[c] \in ValueId \cup {Nil}
  /\ \A c \in DOMAIN value : refPath[c] \in Loc \cup {Nil}
  /\ fresh \in Nat
  /\ visitedDocuments \subseteq Uris
  /\ visitedRefs \subseteq Ref /\ visitedPath \in Seq(Ref)
  /\ DOMAIN backtrack \subseteq Ref
  /\ \A r \in DOMAIN backtrack : /\ DOMAIN backtrack[r] \subseteq CellId
                                 /\ \A c \in DOMAIN backtrack[r] : backtrack[r][c] \in Loc
  /\ stack \in Seq(Frame)
  /\ status \in {"idle", "running", "failing"} /\ result \in {"none", "ok", "err"}
  /\ root \in Uris \cup {Nil}
  /\ loads \in 0..MaxLoads /\ faults \in 0..MaxFaults

\* The reference a frame has visited and not yet unvisited.
InProgress(f) == IF f.fn = "resolveSchemaRef" /\ f.pc # "enter"
                 THEN RefOf(f.cell) ELSE Nil
OpenFrames    == { i \in DOMAIN stack : InProgress(stack[i]) # Nil }
Rank(i)       == Cardinality({ j \in OpenFrames : j <= i })

\* No error is being returned, nor has the last load returned one.
Live == status # "failing" /\ (status = "idle" => result = "ok")

\* visitRef and unvisitRef pair up: while no error is being returned, the
\* visited path is the references of the frames on the call stack, in their
\* order, each of them once, and visitedRefs is that same set.
VisitsMatchStack ==
  Live =>
    /\ Len(visitedPath) = Cardinality(OpenFrames)
    /\ \A i \in OpenFrames : visitedPath[Rank(i)] = InProgress(stack[i])
    /\ visitedRefs = { visitedPath[i] : i \in DOMAIN visitedPath }
    /\ Cardinality(visitedRefs) = Len(visitedPath)

\* A callback left by shouldVisitRef waits for the reference its component is, and
\* while no error is being returned a frame of the call stack has visited that
\* reference and is still to unvisit it: none is orphaned, and none is left when
\* a load returns without an error.
CallbacksAwaited ==
  /\ \A r \in DOMAIN backtrack : \A c \in DOMAIN backtrack[r] : RefOf(c) = r
  /\ Live => \A r \in DOMAIN backtrack : \E i \in OpenFrames : InProgress(stack[i]) = r

\* A component that has been given its value keeps pointing to it, whatever
\* callbacks, second visits and later calls of the Loader do.
ValuesStable ==
  [][\A c \in DOMAIN value : value[c] # Nil => value'[c] = value[c]]_vars

Loaded == status = "idle" /\ result = "ok"

\* The components a caller reaches from the document it got back.
RootCells == { c \in DOMAIN value : c.inst = 0 /\ c.uri = root /\ c.k = 0 }
KidsOf(S) == UNION { { KidCells(value[c])[i] : i \in DOMAIN KidCells(value[c]) } :
                     c \in { d \in S : value[d] # Nil } }
Within[n \in Nat] == IF n = 0 THEN RootCells
                     ELSE LET S == Within[n - 1] IN S \cup KidsOf(S)
Reachable == Within[Cardinality(DOMAIN value)]

\* A load that returns no error has resolved every component reachable from
\* the document it returns, unless the component denotes no object: a cycle made
\* of nothing but references does not.
GroundedResolved ==
  Loaded => \A c \in Reachable :
              RefOf(c) # Nil /\ Denotes(RefOf(c), c.uri) # NoLoc => value[c] # Nil

\* The same, of the references that stay in their document and lead to an
\* object through any number of references that stay in it too, and of a Loader
\* used for the first time: the document of a load that failed stays in the cache.
LocalResolved ==
  Loaded /\ loads = 1 =>
    \A c \in Reachable :
      RefOf(c) # Nil /\ Locally[Cardinality(Names)][LocOf(RefOf(c), c.uri)]
        /\ RefOf(c).file = Here => value[c] # Nil

\* The same, of the references straight to an object, and of a first load too.
DirectResolved ==
  Loaded /\ loads = 1 =>
    \A c \in Reachable :
      RefOf(c) # Nil /\ Follow[0][LocOf(RefOf(c), c.uri)] # NoLoc => value[c] # Nil

\* A resolved reference points to the object it denotes in the file it was
\* written in.
RightTarget ==
  \A c \in DOMAIN value :
    RefOf(c) # Nil /\ value[c] # Nil =>
      [uri |-> value[c].uri, name |-> value[c].name] = Denotes(RefOf(c), c.uri)

\* The location remembered with a resolved reference leads to the object the
\* reference points to.
RefPathAgrees ==
  \A c \in DOMAIN value :
    RefOf(c) # Nil /\ value[c] # Nil =>
      /\ refPath[c] # Nil
      /\ Follow[Cardinality(Uris) * Cardinality(Names)][refPath[c]]
           = [uri |-> value[c].uri, name |-> value[c].name]

\* The references written in a file.
RefsIn(u) ==
  LET shapes == { ShapeAt(u, n) : n \in {Root} \cup { m \in Names : Defines(u, m) } }
  IN  UNION { ({s.ref} \ {Nil}) \cup { s.kids[i] : i \in DOMAIN s.kids } : s \in shapes }

\* Every file decodes, and no reference is dangling or disallowed.
Sound ==
  \A u \in Uris :
    /\ world[u].kind # "broken"
    /\ \A r \in RefsIn(u) : /\ Allowed(r)
                            /\ r.name = Root \/ Defines(FileOf(r, u), r.name)

\* Conditions on the files that the theorems take.  No reference is dangling.
NoneDangling ==
  \A u \in Uris : \A r \in RefsIn(u) : r.name = Root \/ Defines(FileOf(r, u), r.name)

\* What a file refers to within itself is defined in no other file.
NamesApart ==
  \A u \in Uris : \A r \in RefsIn(u) :
    r.file = Here => \A v \in Uris : Defines(v, r.name) => v = u

\* Only a file that no file refers to refers to itself.
RefersWithin(u) == \E r \in RefsIn(u) : r.file = Here
Rooted ==
  \A u \in Uris : RefersWithin(u) => \A v \in Uris : \A r \in RefsIn(v) : r.file # u

\* A file that refers to itself is referred to by the names of its components,
\* not as a whole, and keeps them where a document does.
Listed ==
  \A u \in Uris : RefersWithin(u) =>
    \A v \in Uris : \A r \in RefsIn(v) :
      r.file = u => r.name # Root /\ world[u].kind # "fragment"

\* A load returns an error only when a read failed or the files are at fault:
\* no order of visits makes the Loader look for a component where it is not.
ErrorsJustified == status = "idle" /\ result = "err" => faults > 0 \/ ~Sound

\* Every call of the Loader returns, circular references included.
LoadReturns == (status # "idle") ~> (status = "idle")
=============================================================================
