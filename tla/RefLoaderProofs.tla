--------------------------- MODULE RefLoaderProofs ---------------------------
(***************************************************************************)
(* Theorems about RefLoader, for any file system, number of calls and      *)
(* number of failing reads.                                                *)
(***************************************************************************)
EXTENDS RefLoader, SequenceTheorems, FiniteSetTheorems, FunctionTheorems, TLAPS

(***************************************************************************)
(* The inductive invariant.  TypeOK alone is not inductive: a step that    *)
(* follows a pointer needs the cell it reads to be on the heap, with all   *)
(* the sub-components of its value.                                        *)
(***************************************************************************)
Cells   == { c \in CellId : /\ ShapeAt(c.uri, c.name) \in Shape
                            /\ c.k \in 0..Len(ShapeAt(c.uri, c.name).kids) }
Objects == { v \in ValueId : ShapeAt(v.uri, v.name) \in Shape }

Allocated(v) == \A k \in 1..Len(ShapeAt(v.uri, v.name).kids) :
                  [inst |-> v.inst, uri |-> v.uri, name |-> v.name, k |-> k] \in DOMAIN value

Valid(v) == v = Nil \/ (v \in Objects /\ Allocated(v))

\* A set of new cells whose values have their sub-components in the set.
Closed(new) ==
  \A d \in new : LET w == Unmarshalled(d) IN
    w = Nil \/ (/\ w \in Objects
                /\ \A k \in 1..Len(ShapeAt(w.uri, w.name).kids) :
                     [inst |-> w.inst, uri |-> w.uri, name |-> w.name, k |-> k] \in new)

HeapOK ==
  /\ DOMAIN value \subseteq Cells /\ DOMAIN refPath = DOMAIN value
  /\ \A c \in DOMAIN value : Valid(value[c])
  /\ \A c \in DOMAIN value : refPath[c] \in Loc \cup {Nil}
  /\ fresh \in Nat

FrameOK(f) ==
  /\ f \in Frame
  /\ f.fn = "resolveSchemaRef" =>
       /\ f.cell \in DOMAIN value
       /\ f.pc \in {"element", "document", "drill", "copy"} => RefOf(f.cell) \in Ref
       /\ f.pc = "element" => RefOf(f.cell).name = Root
       /\ f.pc \in {"document", "drill"} => RefOf(f.cell).name # Root
       /\ f.pc = "copy" => f.tmp \in DOMAIN value
       /\ Valid(f.held)

StackOK == stack \in Seq(Frame) /\ \A i \in DOMAIN stack : FrameOK(stack[i])

VisitsOK ==
  /\ visitedRefs \subseteq Ref /\ visitedPath \in Seq(Ref)
  /\ DOMAIN backtrack \subseteq Ref
  /\ \A r \in DOMAIN backtrack : /\ DOMAIN backtrack[r] \subseteq CellId
                                 /\ \A c \in DOMAIN backtrack[r] : backtrack[r][c] \in Loc

CallOK ==
  /\ status \in {"idle", "running", "failing"} /\ result \in {"none", "ok", "err"}
  /\ root \in Uris \cup {Nil}
  /\ loads \in 0..MaxLoads /\ faults \in 0..MaxFaults
  /\ visitedDocuments \subseteq Uris

WorldOK == world \in Worlds /\ isExternalRefsAllowed \in BOOLEAN

IInv == WorldOK /\ HeapOK /\ StackOK /\ VisitsOK /\ CallOK

(***************************************************************************)
(* The shapes of components.                                               *)
(***************************************************************************)
LEMMA ShapeTypes ==
  ASSUME WorldOK, NEW u \in Uris
  PROVE  /\ world[u] \in File
         /\ ShapeAt(u, Root) \in Shape /\ ShapeAt(u, Root).ref = Nil
         /\ \A n \in Names : Defines(u, n) => ShapeAt(u, n) \in Shape
<1>1. world[u] \in File
  BY WorldsAssumption DEF WorldOK
<1>2. world[u].elem \in Shape /\ world[u].elem.ref = Nil
  BY <1>1 DEF File, Shape
<1>3. \A n \in Names : world[u].defs[n] \in Shape \cup {Nil} /\ n # Root
  BY <1>1, NullsAssumption DEF File
<1>4. QED
  BY <1>1, <1>2, <1>3 DEF ShapeAt, Defines

LEMMA KidsType ==
  ASSUME NEW s \in Shape
  PROVE  s.kids \in Seq(Ref) /\ s.ref \in Ref \cup {Nil} /\ (s.ref # Nil => s.kids = <<>>)
<1>1. CASE s \in [ref : {Nil}, kids : Seq(Ref)]
  BY <1>1
<1>2. CASE s \in [ref : Ref, kids : {<<>>}]
  <2>1. s.ref \in Ref /\ s.kids = <<>>
    BY <1>2
  <2>2. <<>> \in Seq(Ref)
    OBVIOUS
  <2>3. QED
    BY <2>1, <2>2
<1>3. QED
  BY <1>1, <1>2 DEF Shape

LEMMA RefOfType ==
  ASSUME NEW c \in Cells
  PROVE  RefOf(c) \in Ref \cup {Nil} /\ (c.k > 0 => RefOf(c) \in Ref)
<1>1. ShapeAt(c.uri, c.name) \in Shape /\ c.k \in 0..Len(ShapeAt(c.uri, c.name).kids)
  BY DEF Cells
<1>2. QED
  BY <1>1, KidsType DEF RefOf

\* A reference without fragment names a file, one with a fragment a component.
LEMMA RefParts ==
  ASSUME NEW r \in Ref
  PROVE  /\ r.name = Root => r.file \in Uris
         /\ r.name # Root => r.name \in Names
         /\ r.file # Here => r.file \in Uris
         /\ r # Nil
BY NullsAssumption DEF Ref

\* What decoding a component allocates.
LEMMA DecodedOK ==
  ASSUME NEW i \in Nat, NEW u \in Uris, NEW n \in Names \cup {Root},
         ShapeAt(u, n) \in Shape
  PROVE  /\ Decoded(i, u, n) \subseteq Cells
         /\ [inst |-> i, uri |-> u, name |-> n, k |-> 0] \in Decoded(i, u, n)
         /\ Closed(Decoded(i, u, n))
<1> DEFINE len == Len(ShapeAt(u, n).kids)
<1>1. len \in Nat
  BY KidsType
<1>2. \A c \in Decoded(i, u, n) : c \in Cells /\ c.inst = i /\ c.uri = u /\ c.name = n
  BY <1>1 DEF Decoded, Cells, CellId
<1>3. \A c \in Decoded(i, u, n) : Target(c) = [inst |-> i, uri |-> u, name |-> n]
  BY <1>2 DEF Target
<1>4. [inst |-> i, uri |-> u, name |-> n] \in Objects
  BY DEF Objects, ValueId
<1>5. \A k \in 0..len : [inst |-> i, uri |-> u, name |-> n, k |-> k] \in Decoded(i, u, n)
  BY DEF Decoded
<1>6. ASSUME NEW c \in Decoded(i, u, n), Unmarshalled(c) # Nil
      PROVE  /\ Unmarshalled(c) = [inst |-> i, uri |-> u, name |-> n]
  BY <1>3, <1>6 DEF Unmarshalled
<1>7. QED
  BY <1>1, <1>2, <1>4, <1>5, <1>6 DEF Closed

(***************************************************************************)
(* Frames and the heap: a heap that grows keeps every frame valid.         *)
(***************************************************************************)
LEMMA Growth ==
  ASSUME DOMAIN value \subseteq DOMAIN value', world' = world
  PROVE  /\ \A c : RefOf(c)' = RefOf(c)
         /\ \A v : Valid(v) => Valid(v)'
         /\ \A f : FrameOK(f) => FrameOK(f)'
<1>1. \A c : RefOf(c)' = RefOf(c)
  BY DEF RefOf, ShapeAt
<1>2. \A v : Valid(v) => Valid(v)'
  BY DEF Valid, Objects, Allocated, ShapeAt
<1>3. \A f : FrameOK(f) => FrameOK(f)'
  BY <1>1, <1>2 DEF FrameOK
<1>4. QED
  BY <1>1, <1>2, <1>3

LEMMA TopType ==
  ASSUME StackOK, stack # <<>>
  PROVE  Len(stack) \in Nat \ {0} /\ Top \in Frame /\ FrameOK(Top)
BY DEF StackOK, Top

LEMMA CallKeeps ==
  ASSUME StackOK, stack # <<>>, DOMAIN value \subseteq DOMAIN value', world' = world
  PROVE  \A f, g : FrameOK(f)' /\ FrameOK(g)' /\ Call(f, g) => StackOK'
<1> SUFFICES ASSUME NEW f, NEW g, FrameOK(f)', FrameOK(g)', Call(f, g)
             PROVE  StackOK'
  OBVIOUS
<1>1. f \in Frame /\ g \in Frame
  BY DEF FrameOK
<1>2. [stack EXCEPT ![Len(stack)] = f] \in Seq(Frame)
  BY <1>1 DEF StackOK
<1>3. /\ stack' \in Seq(Frame) /\ Len(stack') = Len(stack) + 1
      /\ \A i \in 1..Len(stack') : stack'[i] = IF i = Len(stack) + 1 THEN g
                                   ELSE IF i = Len(stack) THEN f ELSE stack[i]
  BY <1>1, <1>2 DEF Call, StackOK
<1>4. \A h : (\E i \in 1..Len(stack) : h = stack[i]) => FrameOK(h)'
  <2>1. \A h : (\E i \in 1..Len(stack) : h = stack[i]) => FrameOK(h)
    BY DEF StackOK
  <2>2. \A h : FrameOK(h) => FrameOK(h)'
    BY Growth
  <2>3. QED
    BY <2>1, <2>2
<1>5. \A i \in 1..Len(stack') : \E h : h = stack'[i] /\ FrameOK(h)'
  BY <1>3, <1>4, Len(stack) \in Nat DEF StackOK
<1>6. QED
  BY <1>3, <1>5 DEF StackOK

LEMMA GotoKeeps ==
  ASSUME StackOK, stack # <<>>, DOMAIN value \subseteq DOMAIN value', world' = world
  PROVE  \A f : FrameOK(f)' /\ Goto(f) => StackOK'
<1> SUFFICES ASSUME NEW f, FrameOK(f)', Goto(f)
             PROVE  StackOK'
  OBVIOUS
<1>1. f \in Frame
  BY DEF FrameOK
<1>2. /\ stack' \in Seq(Frame) /\ Len(stack') = Len(stack)
      /\ \A i \in 1..Len(stack') : stack'[i] = IF i = Len(stack) THEN f ELSE stack[i]
  BY <1>1 DEF Goto, StackOK
<1>3. \A h : (\E i \in 1..Len(stack) : h = stack[i]) => FrameOK(h)'
  <2>1. \A h : (\E i \in 1..Len(stack) : h = stack[i]) => FrameOK(h)
    BY DEF StackOK
  <2>2. \A h : FrameOK(h) => FrameOK(h)'
    BY Growth
  <2>3. QED
    BY <2>1, <2>2
<1>4. \A i \in 1..Len(stack') : \E h : h = stack'[i] /\ FrameOK(h)'
  BY <1>2, <1>3
<1>5. QED
  BY <1>2, <1>4 DEF StackOK

LEMMA FrontOf ==
  ASSUME NEW S, NEW s \in Seq(S)
  PROVE  /\ SubSeq(s, 1, Len(s) - 1) \in Seq(S)
         /\ s # <<>> => /\ Len(SubSeq(s, 1, Len(s) - 1)) = Len(s) - 1
                        /\ \A i \in 1..Len(s) - 1 : SubSeq(s, 1, Len(s) - 1)[i] = s[i]
<1> DEFINE m == Len(s) - 1
<1>1. Len(s) \in Nat /\ m \in Int /\ 1 \in Int /\ (s # <<>> => m \in Nat)
  OBVIOUS
<1>2. \A i \in 1..m : s[i] \in S
  OBVIOUS
<1> HIDE DEF m
<1>3. /\ SubSeq(s, 1, m) \in Seq(S)
      /\ Len(SubSeq(s, 1, m)) = IF 1 <= m THEN m - 1 + 1 ELSE 0
      /\ \A i \in 1..m - 1 + 1 : SubSeq(s, 1, m)[i] = s[1 + i - 1]
  BY <1>1, <1>2, SubSeqProperties
<1>4. m - 1 + 1 = m /\ \A i \in Int : 1 + i - 1 = i
  BY <1>1
<1>5. /\ SubSeq(s, 1, m) \in Seq(S)
      /\ s # <<>> => /\ Len(SubSeq(s, 1, m)) = m
                     /\ \A i \in 1..m : SubSeq(s, 1, m)[i] = s[i]
  BY <1>1, <1>3, <1>4
<1>6. QED
  BY <1>5 DEF m

LEMMA PopKeeps ==
  ASSUME StackOK, stack # <<>>, DOMAIN value \subseteq DOMAIN value', world' = world, Pop
  PROVE  StackOK'
<1>1. /\ stack' \in Seq(Frame) /\ Len(stack') = Len(stack) - 1
      /\ \A i \in 1..Len(stack') : stack'[i] = stack[i]
  <2>1. Len(stack) \in Nat \ {0} /\ \A i \in 1..Len(stack) - 1 : stack[i] \in Frame
    BY DEF StackOK
  <2>2. stack' = SubSeq(stack, 1, Len(stack) - 1)
    BY DEF Pop
  <2>3. /\ SubSeq(stack, 1, Len(stack) - 1) \in Seq(Frame)
        /\ Len(SubSeq(stack, 1, Len(stack) - 1)) = Len(stack) - 1
        /\ \A i \in 1..Len(stack) - 1 : SubSeq(stack, 1, Len(stack) - 1)[i] = stack[i]
    BY FrontOf DEF StackOK
  <2>4. QED
    BY <2>2, <2>3
<1>2. \A h : (\E i \in 1..Len(stack) : h = stack[i]) => FrameOK(h)'
  <2>1. \A h : (\E i \in 1..Len(stack) : h = stack[i]) => FrameOK(h)
    BY DEF StackOK
  <2>2. \A h : FrameOK(h) => FrameOK(h)'
    BY Growth
  <2>3. QED
    BY <2>1, <2>2
<1>3. \A i \in 1..Len(stack') : \E h : h = stack'[i] /\ FrameOK(h)'
  BY <1>1, <1>2, Len(stack) \in Nat DEF StackOK
<1>4. QED
  BY <1>1, <1>3 DEF StackOK

LEMMA SameStackKeeps ==
  ASSUME StackOK, DOMAIN value \subseteq DOMAIN value', world' = world, stack' = stack
  PROVE  StackOK'
<1>1. \A h : (\E i \in DOMAIN stack : h = stack[i]) => FrameOK(h)'
  <2>1. \A h : (\E i \in DOMAIN stack : h = stack[i]) => FrameOK(h)
    BY DEF StackOK
  <2>2. \A h : FrameOK(h) => FrameOK(h)'
    BY Growth
  <2>3. QED
    BY <2>1, <2>2
<1>2. QED
  BY <1>1 DEF StackOK

(***************************************************************************)
(* A step that allocates the cells "new" and otherwise only moves valid    *)
(* pointers keeps the heap valid.                                          *)
(***************************************************************************)
LEMMA HeapKeeps ==
  ASSUME HeapOK, world' = world, NEW new, new \subseteq Cells,
         DOMAIN value' = DOMAIN value \cup new, DOMAIN refPath' = DOMAIN value',
         Closed(new),
         \A c \in DOMAIN value' : \/ \E w : w = value'[c] /\ Valid(w)
                                  \/ \E d \in new : value'[c] = Unmarshalled(d),
         \A c \in DOMAIN value' : refPath'[c] \in Loc \cup {Nil},
         fresh' \in Nat
  PROVE  HeapOK'
<1>1. \A v : Valid(v) => Valid(v)'
  BY Growth
<1>2. \A d \in new : \E w : w = Unmarshalled(d) /\ Valid(w)'
  <2> SUFFICES ASSUME NEW d \in new PROVE \E w : w = Unmarshalled(d) /\ Valid(w)'
    OBVIOUS
  <2> DEFINE x == Unmarshalled(d)
  <2>1. x = Nil \/ (/\ x \in Objects
                    /\ \A k \in 1..Len(ShapeAt(x.uri, x.name).kids) :
                         [inst |-> x.inst, uri |-> x.uri, name |-> x.name, k |-> k] \in new)
    BY DEF Closed
  <2> HIDE DEF x
  <2>2. \A w : w = x => Valid(w)'
    BY <2>1 DEF Valid, Objects, Allocated, ShapeAt
  <2>3. QED
    BY <2>2 DEF x
<1>3. \A c \in DOMAIN value' : Valid(value[c])'
  <2>1. \A c \in DOMAIN value' : \E w : w = value'[c] /\ Valid(w)'
    BY <1>1, <1>2
  <2>2. QED
    BY <2>1
<1>4. DOMAIN value' \subseteq Cells /\ Cells' = Cells
  BY DEF HeapOK, Cells, ShapeAt
<1>5. QED
  BY <1>3, <1>4 DEF HeapOK

\* The same when nothing is allocated.
LEMMA HeapUpdates ==
  ASSUME HeapOK, world' = world,
         DOMAIN value' = DOMAIN value, DOMAIN refPath' = DOMAIN refPath,
         \A c \in DOMAIN value : \E w : w = value'[c] /\ Valid(w),
         \A c \in DOMAIN value : refPath'[c] \in Loc \cup {Nil},
         fresh' \in Nat
  PROVE  HeapOK'
<1>1. \A v : Valid(v) => Valid(v)'
  BY Growth
<1>2. \A c \in DOMAIN value' : \E w : w = value'[c] /\ Valid(w)'
  BY <1>1
<1>3. \A c \in DOMAIN value' : Valid(value[c])'
  BY <1>2
<1>4. DOMAIN value' \subseteq Cells /\ Cells' = Cells
  BY DEF HeapOK, Cells, ShapeAt
<1>5. QED
  BY <1>3, <1>4 DEF HeapOK

LEMMA HeapUnchanged ==
  ASSUME HeapOK, world' = world, UNCHANGED heap
  PROVE  HeapOK'
BY DEF HeapOK, heap, Cells, Valid, Objects, Allocated, ShapeAt

(***************************************************************************)
(* The steps.                                                              *)
(***************************************************************************)
LEMMA DocCellsOK ==
  ASSUME WorldOK, NEW u \in Uris
  PROVE  DocCells(u) \subseteq Cells /\ Closed(DocCells(u))
<1>1. ASSUME NEW n \in Names, Defines(u, n), world[u].kind = "doc"
      PROVE  /\ Decoded(0, u, n) \subseteq Cells /\ Decoded(0, u, n) \subseteq DocCells(u)
             /\ Closed(Decoded(0, u, n))
  <2>1. ShapeAt(u, n) \in Shape
    BY <1>1, ShapeTypes
  <2>2. Decoded(0, u, n) \subseteq DocCells(u)
    BY <1>1 DEF DocCells
  <2>3. QED
    BY <2>1, <2>2, DecodedOK
<1>2. \A d \in DocCells(u) : \E n \in Names :
        Defines(u, n) /\ world[u].kind = "doc" /\ d \in Decoded(0, u, n)
  BY DEF DocCells
<1>3. QED
  BY <1>1, <1>2 DEF Closed

LEMMA BeginKeeps ==
  ASSUME NEW u \in Uris, IInv, Begin(u)
  PROVE  /\ WorldOK' /\ VisitsOK' /\ world' = world /\ root' \in Uris
         /\ loads' \in 0..MaxLoads /\ fresh' \in Nat /\ fresh' = fresh
<1>1. VisitsOK'
  BY DEF Begin, VisitsOK
<1>2. loads' \in 0..MaxLoads
  BY BoundsAssumption DEF Begin, IInv, CallOK
<1>3. QED
  BY <1>1, <1>2 DEF Begin, IInv, WorldOK, static, HeapOK

LEMMA LoadKeeps ==
  ASSUME IInv, LoadFromURI
  PROVE  IInv'
<1> PICK u \in Uris : \/ LoadReadFails(u) \/ LoadCached(u)
                      \/ LoadUndecodable(u) \/ LoadDecoded(u)
  BY DEF LoadFromURI
<1>1. ASSUME LoadReadFails(u) \/ LoadCached(u) \/ LoadUndecodable(u)
      PROVE  IInv'
  <2>1. Begin(u) /\ UNCHANGED <<value, refPath, stack, status>>
        /\ faults' \in 0..MaxFaults /\ result' \in {"ok", "err"}
        /\ visitedDocuments' \subseteq Uris
    BY <1>1, BoundsAssumption
       DEF LoadReadFails, LoadCached, LoadUndecodable, ReadFail, ReadOK, IInv, CallOK
  <2>2. /\ WorldOK' /\ VisitsOK' /\ world' = world /\ root' \in Uris
        /\ loads' \in 0..MaxLoads /\ fresh' = fresh
    BY <2>1, BeginKeeps
  <2>3. HeapOK'
    BY <2>1, <2>2, HeapUnchanged DEF heap, IInv
  <2>4. StackOK'
    BY <2>1, <2>2, SameStackKeeps DEF IInv
  <2>5. CallOK'
    BY <2>1, <2>2 DEF IInv, CallOK
  <2>6. QED
    BY <2>2, <2>3, <2>4, <2>5 DEF IInv
<1>2. ASSUME LoadDecoded(u)
      PROVE  IInv'
  <2>1. /\ Begin(u) /\ Allocate(DocCells(u)) /\ stack' = <<DocFrame(u)>>
        /\ faults' = faults /\ status' = "running" /\ result' = "none"
        /\ visitedDocuments' = visitedDocuments \cup {u}
    BY <1>2 DEF LoadDecoded, ReadOK
  <2>2. /\ WorldOK' /\ VisitsOK' /\ world' = world /\ root' \in Uris
        /\ loads' \in 0..MaxLoads /\ fresh' \in Nat
    BY <2>1, BeginKeeps
  <2>3. HeapOK'
    <3>1. /\ DOMAIN value' = DOMAIN value \cup DocCells(u)
          /\ DOMAIN refPath' = DOMAIN value'
          /\ \A c \in DOMAIN value' : refPath'[c] \in Loc \cup {Nil}
      BY <2>1 DEF Allocate, IInv, HeapOK
    <3>2. \A c \in DOMAIN value' : \/ \E w : w = value'[c] /\ Valid(w)
                                   \/ \E d \in DocCells(u) : value'[c] = Unmarshalled(d)
      BY <2>1 DEF Allocate, IInv, HeapOK
    <3>3. QED
      BY <2>2, <3>1, <3>2, HeapKeeps, DocCellsOK DEF IInv
  <2>4. StackOK'
    <3>1. DocFrame(u) \in Frame /\ FrameOK(DocFrame(u))'
      BY DEF DocFrame, Frame, FrameOK
    <3>2. QED
      BY <2>1, <3>1 DEF StackOK
  <2>5. CallOK'
    BY <2>1, <2>2 DEF IInv, CallOK
  <2>6. QED
    BY <2>2, <2>3, <2>4, <2>5 DEF IInv
<1>3. QED
  BY <1>1, <1>2

LEMMA RefFrameOK ==
  ASSUME NEW c \in DOMAIN value, NEW d \in Uris, NEW p \in Uris, HeapOK
  PROVE  FrameOK(RefFrame(c, d, p))
<1>1. c \in CellId
  BY DEF HeapOK, Cells
<1>2. RefFrame(c, d, p) \in Frame
  BY <1>1 DEF RefFrame, Frame
<1>3. QED
  BY <1>2 DEF RefFrame, FrameOK, Valid

LEMMA NextComponentKeeps ==
  ASSUME IInv, NextComponent
  PROVE  IInv'
<1> DEFINE n == NameOrder[Top.pos + 1]
           f == [Top EXCEPT !.pos = @ + 1]
           c == [inst |-> 0, uri |-> Top.doc, name |-> n, k |-> 0]
<1>1. /\ UNCHANGED <<static, heap, visitedDocuments, visits, status, call, faults>>
      /\ stack # <<>> /\ Top.fn = "ResolveRefsIn"
      /\ IF n \in Typed(Top.doc) THEN Call(f, RefFrame(c, Top.doc, Top.path)) ELSE Goto(f)
  BY DEF NextComponent, At
<1>2. WorldOK' /\ HeapOK' /\ VisitsOK' /\ CallOK' /\ world' = world /\ value' = value
  <2>1. HeapOK'
    BY <1>1, HeapUnchanged DEF IInv, static
  <2>2. QED
    BY <1>1, <2>1 DEF IInv, WorldOK, VisitsOK, CallOK, static, heap, visits, call
<1>3. Top \in Frame /\ FrameOK(Top)
  BY <1>1, TopType DEF IInv
<1>4. f \in Frame /\ f.fn = "ResolveRefsIn"
  BY <1>1, <1>3 DEF Frame
<1>5. FrameOK(f)
  BY <1>4 DEF FrameOK
<1>6. n \in Typed(Top.doc) => FrameOK(RefFrame(c, Top.doc, Top.path))
  <2>1. n \in Typed(Top.doc) => c \in DOMAIN value
    BY DEF Typed
  <2>2. Top.doc \in Uris /\ Top.path \in Uris
    BY <1>3 DEF Frame
  <2>3. QED
    BY <2>1, <2>2, RefFrameOK DEF IInv
<1>7. StackOK'
  <2> HIDE DEF f, c, n
  <2>1. \A g : FrameOK(g) => FrameOK(g)'
    BY <1>2, Growth
  <2>2. \E g, h : /\ g = f /\ h = RefFrame(c, Top.doc, Top.path)
                  /\ FrameOK(g)' /\ (n \in Typed(Top.doc) => FrameOK(h)')
    BY <2>1, <1>5, <1>6
  <2>3. QED
    BY <1>1, <1>2, <2>2, CallKeeps, GotoKeeps DEF IInv
<1>8. QED
  BY <1>2, <1>7 DEF IInv

LEMMA DocumentDoneKeeps ==
  ASSUME IInv, DocumentDone
  PROVE  IInv'
<1>1. /\ UNCHANGED <<static, heap, visitedDocuments, visits, root, loads, faults>>
      /\ stack # <<>> /\ Pop
      /\ status' \in {"idle", status} /\ result' \in {"ok", result}
  BY DEF DocumentDone, At
<1>2. HeapOK'
  BY <1>1, HeapUnchanged DEF IInv, static
<1>3. StackOK'
  BY <1>1, PopKeeps DEF IInv, static, heap
<1>4. WorldOK' /\ VisitsOK' /\ CallOK'
  BY <1>1 DEF IInv, WorldOK, VisitsOK, CallOK, static, visits
<1>5. QED
  BY <1>2, <1>3, <1>4 DEF IInv

\* The steps that leave the heap as it is and replace or pop the top frame.
LEMMA EnterKeeps ==
  ASSUME IInv, EnterInline \/ EnterResolved \/ EnterInProgress \/ EnterUnvisited
  PROVE  IInv'
<1>1. /\ UNCHANGED <<static, heap, visitedDocuments, status, call, faults>>
      /\ stack # <<>> /\ Top.fn = "resolveSchemaRef"
  BY DEF EnterInline, EnterResolved, EnterInProgress, EnterUnvisited, At
<1>2. HeapOK' /\ WorldOK' /\ CallOK' /\ world' = world /\ value' = value
  <2>1. HeapOK'
    BY <1>1, HeapUnchanged DEF IInv, static
  <2>2. QED
    BY <1>1, <2>1 DEF IInv, WorldOK, CallOK, static, heap, call
<1>3. Top \in Frame /\ FrameOK(Top) /\ Top.cell \in DOMAIN value /\ Top.cell \in Cells
  BY <1>1, TopType DEF IInv, FrameOK, HeapOK
<1>4. RefOf(Top.cell) \in Ref \cup {Nil}
  BY <1>3, RefOfType
<1>5. \A f : FrameOK(f) => FrameOK(f)'
  BY <1>2, Growth
<1>6. CASE EnterInline
  <2> DEFINE f == [Top EXCEPT !.pc = "children", !.held = value[Top.cell]]
  <2>1. Goto(f) /\ UNCHANGED visits
    BY <1>6 DEF EnterInline
  <2>2. FrameOK(f)
    <3>1. Valid(value[Top.cell]) /\ value[Top.cell] \in ValueId \cup {Nil}
      BY <1>3 DEF IInv, HeapOK, Valid, Objects
    <3>2. f \in Frame
      BY <1>3, <3>1 DEF Frame
    <3>3. QED
      BY <1>3, <3>1, <3>2 DEF FrameOK, Frame
  <2>3. StackOK'
    <3> HIDE DEF f
    <3>1. \E g : g = f /\ FrameOK(g)'
      BY <1>5, <2>2
    <3>2. QED
      BY <1>1, <1>2, <2>1, <3>1, GotoKeeps DEF IInv
  <2>4. QED
    BY <1>2, <2>1, <2>3 DEF IInv, VisitsOK, visits
<1>7. CASE EnterResolved
  <2>1. Pop /\ UNCHANGED visits
    BY <1>7 DEF EnterResolved
  <2>2. StackOK'
    BY <1>1, <1>2, <2>1, PopKeeps DEF IInv
  <2>3. QED
    BY <1>2, <2>1, <2>2 DEF IInv, VisitsOK, visits
<1>8. CASE EnterInProgress
  <2> DEFINE r == RefOf(Top.cell)
             loc == LocOf(r, Top.path)
  <2>1. /\ Pop /\ UNCHANGED <<visitedRefs, visitedPath>> /\ r # Nil
        /\ backtrack' = [q \in DOMAIN backtrack \cup {r} |->
              IF q # r THEN backtrack[q]
              ELSE [c \in DOMAIN Callbacks(r) \cup {Top.cell} |->
                      IF c \in DOMAIN Callbacks(r) THEN Callbacks(r)[c] ELSE loc]]
    BY <1>8 DEF EnterInProgress
  <2>2. r \in Ref /\ loc \in Loc
    <3>1. r \in Ref /\ Top.path \in Uris
      BY <1>3, <1>4, <2>1 DEF Frame
    <3>2. QED
      BY <3>1, RefParts DEF LocOf, FileOf, Loc, Ref
  <2>3. DOMAIN Callbacks(r) \subseteq CellId /\ \A c \in DOMAIN Callbacks(r) : Callbacks(r)[c] \in Loc
    BY DEF Callbacks, IInv, VisitsOK
  <2>4. Top.cell \in CellId
    BY <1>3 DEF Cells
  <2>5. VisitsOK'
    <3> HIDE DEF r, loc
    <3>1. DOMAIN backtrack' \subseteq Ref
      BY <2>1, <2>2 DEF IInv, VisitsOK
    <3>2. \A q \in DOMAIN backtrack' : /\ DOMAIN backtrack'[q] \subseteq CellId
                                       /\ \A c \in DOMAIN backtrack'[q] : backtrack'[q][c] \in Loc
      <4>1. ASSUME NEW q \in DOMAIN backtrack', q = r
            PROVE  /\ DOMAIN backtrack'[q] \subseteq CellId
                   /\ \A c \in DOMAIN backtrack'[q] : backtrack'[q][c] \in Loc
        <5>1. backtrack'[q] = [c \in DOMAIN Callbacks(r) \cup {Top.cell} |->
                      IF c \in DOMAIN Callbacks(r) THEN Callbacks(r)[c] ELSE loc]
          BY <4>1, <2>1
        <5>2. QED
          BY <5>1, <2>2, <2>3, <2>4
      <4>2. ASSUME NEW q \in DOMAIN backtrack', q # r
            PROVE  q \in DOMAIN backtrack /\ backtrack'[q] = backtrack[q]
        BY <4>2, <2>1
      <4>3. QED
        BY <4>1, <4>2 DEF IInv, VisitsOK
    <3>3. QED
      BY <2>1, <3>1, <3>2 DEF IInv, VisitsOK
  <2>6. StackOK'
    BY <1>1, <1>2, <2>1, PopKeeps DEF IInv
  <2>7. QED
    BY <1>2, <2>5, <2>6 DEF IInv
<1>9. CASE EnterUnvisited
  <2> DEFINE r == RefOf(Top.cell)
             f == [Top EXCEPT !.pc = IF r.name = Root THEN "element" ELSE "document"]
  <2>1. /\ r # Nil /\ Goto(f) /\ visitedRefs' = visitedRefs \cup {r}
        /\ visitedPath' = Append(visitedPath, r) /\ backtrack' = backtrack
    BY <1>9 DEF EnterUnvisited
  <2>2. r \in Ref
    BY <1>4, <2>1
  <2>3. VisitsOK'
    BY <2>1, <2>2 DEF IInv, VisitsOK
  <2>4. FrameOK(f)
    <3>1. f \in Frame
      BY <1>3 DEF Frame
    <3>2. f.cell = Top.cell /\ f.held = Top.held /\ f.fn = Top.fn
          /\ f.pc = IF r.name = Root THEN "element" ELSE "document"
      BY <1>3 DEF Frame
    <3>3. QED
      BY <1>1, <1>3, <2>2, <3>1, <3>2 DEF FrameOK
  <2>5. StackOK'
    <3> HIDE DEF f
    <3>1. \E g : g = f /\ FrameOK(g)'
      BY <1>5, <2>4
    <3>2. QED
      BY <1>1, <1>2, <2>1, <3>1, GotoKeeps DEF IInv
  <2>6. QED
    BY <1>2, <2>3, <2>5 DEF IInv
<1>10. QED
  BY <1>6, <1>7, <1>8, <1>9

\* The steps that find an error.
LEMMA FailKeeps ==
  ASSUME IInv, ElementFails \/ DocumentFails \/ DocumentUndecodable \/ DrillFails
  PROVE  IInv'
<1>1. /\ UNCHANGED <<static, call, heap, visits, stack>>
      /\ status' = "failing" /\ faults' \in 0..MaxFaults
  BY BoundsAssumption
     DEF ElementFails, DocumentFails, DocumentUndecodable, DrillFails, Fail,
         ReadOK, ReadFail, IInv, CallOK
<1>2. visitedDocuments' \subseteq Uris
  <2>1. CASE DocumentUndecodable
    <3>1. stack # <<>> /\ Top.fn = "resolveSchemaRef" /\ Top.pc = "document"
          /\ RefOf(Top.cell).file # Here
          /\ visitedDocuments' = visitedDocuments \cup {RefOf(Top.cell).file}
      BY <2>1 DEF DocumentUndecodable, At
    <3>2. RefOf(Top.cell) \in Ref
      BY <3>1, TopType DEF IInv, FrameOK
    <3>3. QED
      BY <3>1, <3>2, RefParts DEF IInv, CallOK
  <2>2. CASE ElementFails \/ DocumentFails \/ DrillFails
    BY <2>2 DEF ElementFails, DocumentFails, DrillFails, Fail, IInv, CallOK
  <2>3. QED
    BY <2>1, <2>2
<1>3. HeapOK'
  BY <1>1, HeapUnchanged DEF IInv, static
<1>4. StackOK'
  BY <1>1, SameStackKeeps DEF IInv, static, heap
<1>5. QED
  BY <1>1, <1>2, <1>3, <1>4 DEF IInv, WorldOK, VisitsOK, CallOK, static, call, visits

LEMMA ElementDecodedKeeps ==
  ASSUME IInv, ElementDecoded
  PROVE  IInv'
<1> DEFINE c   == Top.cell
           u   == RefOf(c).file
           v   == [inst |-> fresh, uri |-> u, name |-> Root]
           new == Decoded(fresh, u, Root)
           f   == [Top EXCEPT !.pc = "children", !.path = u, !.held = v]
<1>1. /\ stack # <<>> /\ Top.fn = "resolveSchemaRef" /\ Top.pc = "element"
      /\ UNCHANGED <<static, visitedDocuments, visits, status, call, faults>>
      /\ value' = [d \in DOMAIN value \cup new |->
              IF d = c THEN v ELSE IF d \in new THEN Unmarshalled(d) ELSE value[d]]
      /\ refPath' = [d \in DOMAIN refPath \cup new |->
              IF d = c /\ refPath[c] = Nil THEN [uri |-> u, name |-> Root]
              ELSE IF d \in DOMAIN refPath THEN refPath[d] ELSE Nil]
      /\ Goto(f) /\ fresh' = fresh + 1
  BY DEF ElementDecoded, ElementPath, At, ReadOK
<1>2. /\ Top \in Frame /\ FrameOK(Top) /\ c \in DOMAIN value
      /\ RefOf(c) \in Ref /\ RefOf(c).name = Root
  BY <1>1, TopType DEF IInv, FrameOK
<1>3. u \in Uris /\ fresh \in Nat /\ world' = world
  BY <1>1, <1>2, RefParts DEF IInv, HeapOK, static
<1>4. ShapeAt(u, Root) \in Shape /\ ShapeAt(u, Root).ref = Nil
  BY <1>3, ShapeTypes DEF IInv
<1>5. new \subseteq Cells /\ Closed(new)
  BY <1>3, <1>4, DecodedOK
<1>6. /\ [inst |-> fresh, uri |-> u, name |-> Root, k |-> 0] \in new
      /\ Unmarshalled([inst |-> fresh, uri |-> u, name |-> Root, k |-> 0]) = v
  <2>1. [inst |-> fresh, uri |-> u, name |-> Root, k |-> 0] \in new
    BY <1>3, <1>4, DecodedOK
  <2>2. RefOf([inst |-> fresh, uri |-> u, name |-> Root, k |-> 0]) = Nil
    BY <1>4 DEF RefOf
  <2>3. QED
    BY <2>1, <2>2 DEF Unmarshalled, Target
<1>7. HeapOK'
  <2> HIDE DEF c, u, v, new, f
  <2>1. \A d \in DOMAIN value' : \/ \E w : w = value'[d] /\ Valid(w)
                                 \/ \E e \in new : value'[d] = Unmarshalled(e)
    BY <1>1, <1>6 DEF IInv, HeapOK
  <2>2. [uri |-> u, name |-> Root] \in Loc
    BY <1>3 DEF Loc
  <2>3. \A d \in DOMAIN value' : refPath'[d] \in Loc \cup {Nil}
    BY <1>1, <2>2 DEF IInv, HeapOK
  <2>4. DOMAIN value' = DOMAIN value \cup new /\ DOMAIN refPath' = DOMAIN value'
    BY <1>1 DEF IInv, HeapOK
  <2>5. fresh' \in Nat /\ world' = world
    BY <1>1, <1>3
  <2>6. QED
    BY <1>5, <2>1, <2>3, <2>4, <2>5, HeapKeeps DEF IInv
<1>8. \E w : w = v /\ Valid(w)'
  <2>1. v \in Objects
    BY <1>3, <1>4 DEF ValueId, Objects
  <2>2. \A k \in 1..Len(ShapeAt(v.uri, v.name).kids) :
          [inst |-> v.inst, uri |-> v.uri, name |-> v.name, k |-> k] \in new
    BY <1>5, <1>6, NilAssumption, <2>1 DEF Objects, Closed
  <2>3. \A w : w \in Objects /\ (\A k \in 1..Len(ShapeAt(w.uri, w.name).kids) :
           [inst |-> w.inst, uri |-> w.uri, name |-> w.name, k |-> k] \in DOMAIN value') => Valid(w)'
    BY <1>3 DEF Valid, Objects, Allocated, ShapeAt
  <2>4. new \subseteq DOMAIN value'
    BY <1>1
  <2>5. QED
    <3> HIDE DEF v, new
    <3>1. QED
      BY <2>1, <2>2, <2>3, <2>4
<1>9. \E g : g = f /\ FrameOK(g)'
  <2>1. /\ f \in Frame /\ f.fn = "resolveSchemaRef" /\ f.pc = "children"
        /\ f.cell = c /\ f.held = v
    BY <1>1, <1>2, <1>3 DEF Frame, ValueId
  <2>2. c \in DOMAIN value'
    BY <1>1, <1>2
  <2> HIDE DEF c, u, v, new, f
  <2>3. \A g : g \in Frame /\ g.fn = "resolveSchemaRef" /\ g.pc = "children"
                /\ g.cell \in DOMAIN value' /\ Valid(g.held)'
               => FrameOK(g)'
    BY DEF FrameOK
  <2>4. QED
    BY <1>8, <2>1, <2>2, <2>3
<1>10. StackOK'
  <2> HIDE DEF c, u, v, new, f
  <2>1. DOMAIN value \subseteq DOMAIN value'
    BY <1>1
  <2>2. QED
    BY <1>1, <1>3, <1>9, <2>1, GotoKeeps DEF IInv
<1>11. QED
  BY <1>1, <1>7, <1>10 DEF IInv, WorldOK, VisitsOK, CallOK, static, visits, call

\* The document a reference with a fragment is in, found here or in the cache.
LEMMA DocumentFoundKeeps ==
  ASSUME IInv, DocumentHere \/ DocumentCached
  PROVE  IInv'
<1> DEFINE r == RefOf(Top.cell)
<1>1. /\ stack # <<>> /\ Top.fn = "resolveSchemaRef" /\ Top.pc = "document"
      /\ UNCHANGED <<static, heap, visitedDocuments, visits, status, call, faults>>
      /\ \/ r.file = Here /\ Goto([Top EXCEPT !.pc = "drill", !.tdoc = Top.doc])
         \/ r.file \in visitedDocuments /\ Goto([Top EXCEPT !.pc = "drill", !.tdoc = r.file])
  BY DEF DocumentHere, DocumentCached, At, ReadOK
<1>2. HeapOK' /\ WorldOK' /\ CallOK' /\ VisitsOK' /\ world' = world /\ value' = value
  <2>1. HeapOK'
    BY <1>1, HeapUnchanged DEF IInv, static
  <2>2. QED
    BY <1>1, <2>1 DEF IInv, WorldOK, CallOK, VisitsOK, static, heap, call, visits
<1>3. Top \in Frame /\ FrameOK(Top)
  BY <1>1, TopType DEF IInv
<1>4. \E u \in Uris : Goto([Top EXCEPT !.pc = "drill", !.tdoc = u])
  BY <1>1, <1>3 DEF Frame, IInv, CallOK
<1>5. PICK u \in Uris : Goto([Top EXCEPT !.pc = "drill", !.tdoc = u])
  BY <1>4
<1> DEFINE f == [Top EXCEPT !.pc = "drill", !.tdoc = u]
<1>6. FrameOK(f)
  <2>1. f \in Frame /\ f.cell = Top.cell /\ f.held = Top.held /\ f.pc = "drill" /\ f.fn = Top.fn
    BY <1>3 DEF Frame
  <2>2. QED
    BY <1>1, <1>3, <2>1 DEF FrameOK
<1>7. StackOK'
  <2>1. \A g : FrameOK(g) => FrameOK(g)'
    BY <1>2, Growth
  <2>2. \E g : g = f /\ FrameOK(g)'
    BY <2>1, <1>6
  <2> HIDE DEF f
  <2>3. QED
    BY <1>1, <1>2, <1>5, <2>2, GotoKeeps DEF IInv, f
<1>8. QED
  BY <1>2, <1>7 DEF IInv

LEMMA DocumentLoadedKeeps ==
  ASSUME IInv, DocumentLoaded
  PROVE  IInv'
<1> DEFINE u == RefOf(Top.cell).file
           f == [Top EXCEPT !.pc = "drill", !.tdoc = u]
<1>1. /\ stack # <<>> /\ Top.fn = "resolveSchemaRef" /\ Top.pc = "document"
      /\ u # Here /\ Allocate(DocCells(u)) /\ Call(f, DocFrame(u))
      /\ visitedDocuments' = visitedDocuments \cup {u}
      /\ UNCHANGED <<static, fresh, visits, status, call, faults>>
  BY DEF DocumentLoaded, At, ReadOK
<1>2. Top \in Frame /\ FrameOK(Top)
  BY <1>1, TopType DEF IInv
<1>3. RefOf(Top.cell) \in Ref /\ u \in Uris /\ world' = world
  BY <1>1, <1>2, RefParts DEF FrameOK, static
<1>4. DOMAIN value' = DOMAIN value \cup DocCells(u)
  BY <1>1 DEF Allocate
<1>5. HeapOK'
  <2> HIDE DEF u, f
  <2>1. /\ DOMAIN refPath' = DOMAIN value'
        /\ \A c \in DOMAIN value' : refPath'[c] \in Loc \cup {Nil}
    BY <1>1 DEF Allocate, IInv, HeapOK
  <2>2. \A c \in DOMAIN value' : \/ \E w : w = value'[c] /\ Valid(w)
                                 \/ \E d \in DocCells(u) : value'[c] = Unmarshalled(d)
    BY <1>1 DEF Allocate, IInv, HeapOK
  <2>3. fresh' \in Nat
    BY <1>1 DEF IInv, HeapOK
  <2>4. DocCells(u) \subseteq Cells /\ Closed(DocCells(u))
    BY <1>3, DocCellsOK DEF IInv
  <2>5. QED
    BY <1>3, <1>4, <2>1, <2>2, <2>3, <2>4, HeapKeeps DEF IInv
<1>6. FrameOK(f)
  <2>1. f \in Frame /\ f.cell = Top.cell /\ f.held = Top.held /\ f.pc = "drill" /\ f.fn = Top.fn
    BY <1>2, <1>3 DEF Frame
  <2>2. QED
    BY <1>1, <1>2, <2>1 DEF FrameOK
<1>7. FrameOK(DocFrame(u))
  BY <1>3 DEF DocFrame, Frame, FrameOK
<1>8. StackOK'
  <2> HIDE DEF f, u
  <2>1. DOMAIN value \subseteq DOMAIN value'
    BY <1>4
  <2>2. \A g : FrameOK(g) => FrameOK(g)'
    BY <1>3, <2>1, Growth
  <2>3. \E g, h : g = f /\ h = DocFrame(u) /\ FrameOK(g)' /\ FrameOK(h)'
    BY <2>2, <1>6, <1>7
  <2>4. QED
    BY <1>1, <1>3, <2>1, <2>3, CallKeeps DEF IInv
<1>9. QED
  <2>1. visitedDocuments' \subseteq Uris
    BY <1>1, <1>3 DEF IInv, CallOK
  <2>2. QED
    BY <1>1, <1>5, <1>8, <2>1 DEF IInv, WorldOK, VisitsOK, CallOK, static, visits, call

\* Calling resolveSchemaRef on a new copy "tmp" of a component.
LEMMA ResolveCopyKeeps ==
  ASSUME IInv, stack # <<>>, Top.fn = "resolveSchemaRef", Top.pc = "drill",
         HeapOK', world' = world, DOMAIN value \subseteq DOMAIN value',
         NEW tmp \in DOMAIN value', tmp \in CellId, ResolveCopy(tmp)
  PROVE  StackOK' /\ ComponentPath \in Uris
<1> DEFINE f == [Top EXCEPT !.pc = "copy", !.tmp = tmp]
           h == RefFrame(tmp, Top.tdoc, ComponentPath)
<1>1. Top \in Frame /\ FrameOK(Top)
  BY TopType DEF IInv
<1>2. ComponentPath \in Uris
  BY <1>1 DEF ComponentPath, Frame
<1>3. f \in Frame /\ f.cell = Top.cell /\ f.held = Top.held /\ f.pc = "copy"
      /\ f.tmp = tmp /\ f.fn = Top.fn
  BY <1>1 DEF Frame
<1>4. h \in Frame /\ h.cell = tmp /\ h.held = Nil /\ h.pc = "enter"
  BY <1>1, <1>2 DEF RefFrame, Frame
<1> HIDE DEF f, h
<1>5. \E g : g = h /\ FrameOK(g)'
  <2>1. \A g : g \in Frame /\ g.cell \in DOMAIN value' /\ g.held = Nil /\ g.pc = "enter"
               => FrameOK(g)'
    BY DEF FrameOK, Valid
  <2>2. QED
    BY <1>4, <2>1
<1>6. \E g : g = f /\ FrameOK(g)'
  <2>1. \A c : RefOf(c)' = RefOf(c)
    BY Growth
  <2>2. \A v : Valid(v) => Valid(v)'
    BY Growth
  <2>3. Top.cell \in DOMAIN value' /\ RefOf(Top.cell) \in Ref /\ Valid(Top.held)
    BY <1>1 DEF FrameOK
  <2>4. \A g : g \in Frame /\ g.cell \in DOMAIN value' /\ RefOf(g.cell) \in Ref
                /\ Valid(g.held)' /\ g.pc = "copy" /\ g.tmp \in DOMAIN value'
               => FrameOK(g)'
    BY <2>1 DEF FrameOK
  <2>5. \E v : v = f.held /\ Valid(v)'
    BY <1>3, <2>2, <2>3
  <2>6. QED
    BY <1>3, <2>3, <2>4, <2>5
<1>7. Call(f, h)
  BY DEF ResolveCopy, f, h
<1>8. QED
  BY <1>2, <1>5, <1>6, <1>7, CallKeeps DEF IInv

LEMMA DrillTypedKeeps ==
  ASSUME IInv, DrillTyped
  PROVE  IInv'
<1> DEFINE n   == RefOf(Top.cell).name
           src == [inst |-> 0, uri |-> Top.tdoc, name |-> n, k |-> 0]
           tmp == [src EXCEPT !.inst = fresh]
           loc == IF refPath[src] = Nil THEN [uri |-> ComponentPath, name |-> n]
                                        ELSE refPath[src]
<1>1. /\ stack # <<>> /\ Top.fn = "resolveSchemaRef" /\ Top.pc = "drill"
      /\ n \in Typed(Top.tdoc) /\ fresh' = fresh + 1
      /\ value' = [d \in DOMAIN value \cup {tmp} |->
                        IF d = tmp THEN value[src] ELSE value[d]]
      /\ refPath' = [d \in DOMAIN refPath \cup {tmp} |->
                        IF d \in {src, tmp} THEN loc ELSE refPath[d]]
      /\ ResolveCopy(tmp)
      /\ UNCHANGED <<static, visitedDocuments, visits, status, call, faults>>
  BY DEF DrillTyped, At
<1>2. Top \in Frame /\ FrameOK(Top) /\ n \in Names /\ src \in DOMAIN value
  BY <1>1, TopType DEF IInv, Typed
<1>3. src \in Cells /\ fresh \in Nat /\ fresh' \in Nat /\ world' = world
  BY <1>1, <1>2 DEF IInv, HeapOK, static
<1>4. tmp = [inst |-> fresh, uri |-> Top.tdoc, name |-> n, k |-> 0]
  OBVIOUS
<1>5. tmp \in Cells /\ tmp \in CellId
  BY <1>2, <1>3, <1>4 DEF Cells, CellId
<1>6. ComponentPath \in Uris
  BY <1>1, <1>2 DEF ComponentPath, Frame
<1>7. loc \in Loc
  BY <1>2, <1>6 DEF IInv, HeapOK, Loc
<1> HIDE DEF n, src, tmp, loc
<1>8. HeapOK'
  <2>1. DOMAIN value' = DOMAIN value \cup {tmp} /\ DOMAIN refPath' = DOMAIN value'
    BY <1>1 DEF IInv, HeapOK
  <2>2. \A d \in DOMAIN value' : \E w : w = value'[d] /\ Valid(w)
    BY <1>1, <1>2 DEF IInv, HeapOK
  <2>3. \A d \in DOMAIN value' : refPath'[d] \in Loc \cup {Nil}
    BY <1>1, <1>2, <1>7 DEF IInv, HeapOK
  <2>4. \A v : Valid(v) => Valid(v)'
    BY <1>3, <2>1, Growth
  <2>5. \A d \in DOMAIN value' : Valid(value[d])'
    <3>1. \A d \in DOMAIN value' : \E w : w = value'[d] /\ Valid(w)'
      BY <2>2, <2>4
    <3>2. QED
      BY <3>1
  <2>6. Cells' = Cells
    BY <1>3 DEF Cells, ShapeAt
  <2>7. DOMAIN value' \subseteq Cells
    BY <1>5, <2>1 DEF IInv, HeapOK
  <2>8. QED
    BY <1>3, <2>1, <2>3, <2>5, <2>6, <2>7 DEF HeapOK
<1>9. StackOK'
  <2>1. DOMAIN value \subseteq DOMAIN value' /\ tmp \in DOMAIN value'
    BY <1>1
  <2>2. QED
    BY <1>1, <1>3, <1>5, <1>8, <2>1, ResolveCopyKeeps
<1>10. QED
  BY <1>1, <1>8, <1>9 DEF IInv, WorldOK, VisitsOK, CallOK, static, visits, call

LEMMA DecodeGenericKeeps ==
  ASSUME IInv, stack # <<>>, Top.fn = "resolveSchemaRef", Top.pc = "drill",
         NEW u \in Uris, Defines(u, RefOf(Top.cell).name), DecodeGeneric(u),
         faults' \in 0..MaxFaults
  PROVE  IInv'
<1> DEFINE n   == RefOf(Top.cell).name
           tmp == [inst |-> fresh, uri |-> u, name |-> n, k |-> 0]
           new == Decoded(fresh, u, n)
           loc == [uri |-> ComponentPath, name |-> n]
<1>1. /\ value' = [d \in DOMAIN value \cup new |->
                        IF d \in new THEN Unmarshalled(d) ELSE value[d]]
      /\ refPath' = [d \in DOMAIN refPath \cup new |->
                        IF d = tmp THEN loc ELSE IF d \in new THEN Nil ELSE refPath[d]]
      /\ ResolveCopy(tmp) /\ fresh' = fresh + 1
      /\ UNCHANGED <<static, visitedDocuments, visits, status, call>>
  BY DEF DecodeGeneric
<1>2. Top \in Frame /\ FrameOK(Top) /\ RefOf(Top.cell) \in Ref /\ n # Root
  BY TopType DEF IInv, FrameOK
<1>3. n \in Names /\ fresh \in Nat /\ fresh' \in Nat /\ world' = world
  BY <1>1, <1>2, RefParts DEF IInv, HeapOK, static
<1>4. ShapeAt(u, n) \in Shape
  BY <1>3, ShapeTypes DEF IInv
<1>5. new \subseteq Cells /\ Closed(new) /\ tmp \in new /\ tmp \in CellId
  BY <1>3, <1>4, DecodedOK DEF CellId
<1>6. loc \in Loc
  BY <1>2, <1>3 DEF ComponentPath, Frame, Loc
<1> HIDE DEF n, tmp, new, loc
<1>7. HeapOK'
  <2>1. DOMAIN value' = DOMAIN value \cup new /\ DOMAIN refPath' = DOMAIN value'
    BY <1>1 DEF IInv, HeapOK
  <2>2. \A d \in DOMAIN value' : \/ \E w : w = value'[d] /\ Valid(w)
                                 \/ \E e \in new : value'[d] = Unmarshalled(e)
    BY <1>1 DEF IInv, HeapOK
  <2>3. \A d \in DOMAIN value' : refPath'[d] \in Loc \cup {Nil}
    BY <1>1, <1>6 DEF IInv, HeapOK
  <2>4. QED
    BY <1>3, <1>5, <2>1, <2>2, <2>3, HeapKeeps DEF IInv
<1>8. StackOK'
  <2>1. DOMAIN value \subseteq DOMAIN value' /\ tmp \in DOMAIN value'
    BY <1>1, <1>5
  <2>2. QED
    BY <1>1, <1>3, <1>5, <1>7, <2>1, ResolveCopyKeeps
<1>9. QED
  BY <1>1, <1>7, <1>8 DEF IInv, WorldOK, VisitsOK, CallOK, static, visits, call

LEMMA DrillGenericKeeps ==
  ASSUME IInv, DrillGeneric \/ DrillReread
  PROVE  IInv'
<1>1. stack # <<>> /\ Top.fn = "resolveSchemaRef" /\ Top.pc = "drill" /\ faults' = faults
  BY DEF DrillGeneric, DrillReread, At, ReadOK
<1>2. Top \in Frame /\ faults' \in 0..MaxFaults
  BY <1>1, TopType DEF IInv, CallOK
<1>3. \E u \in Uris : Defines(u, RefOf(Top.cell).name) /\ DecodeGeneric(u)
  <2>1. CASE DrillGeneric
    <3>1. Defines(Top.tdoc, RefOf(Top.cell).name) /\ DecodeGeneric(Top.tdoc)
      BY <2>1 DEF DrillGeneric, Raw
    <3>2. QED
      BY <1>2, <3>1 DEF Frame
  <2>2. CASE DrillReread
    BY <1>2, <2>2 DEF DrillReread, Frame
  <2>3. QED
    BY <2>1, <2>2
<1>4. QED
  BY <1>1, <1>2, <1>3, DecodeGenericKeeps

LEMMA CopyResolvedKeeps ==
  ASSUME IInv, CopyResolved
  PROVE  IInv'
<1> DEFINE c == Top.cell
           f == [Top EXCEPT !.pc = "children", !.held = value[Top.tmp]]
<1>1. /\ stack # <<>> /\ Top.fn = "resolveSchemaRef" /\ Top.pc = "copy"
      /\ value' = [value EXCEPT ![c] = value[Top.tmp]]
      /\ refPath' = [refPath EXCEPT ![c] = IF @ = Nil THEN refPath[Top.tmp] ELSE @]
      /\ Goto(f)
      /\ UNCHANGED <<static, fresh, visitedDocuments, visits, status, call, faults>>
  BY DEF CopyResolved, At
<1>2. Top \in Frame /\ FrameOK(Top) /\ c \in DOMAIN value /\ Top.tmp \in DOMAIN value
  BY <1>1, TopType DEF IInv, FrameOK
<1>3. world' = world /\ DOMAIN value' = DOMAIN value /\ DOMAIN refPath' = DOMAIN refPath
  BY <1>1 DEF static
<1>4. Valid(value[Top.tmp]) /\ value[Top.tmp] \in ValueId \cup {Nil}
  BY <1>2 DEF IInv, HeapOK, Valid, Objects
<1>5. HeapOK'
  <2>1. \A d \in DOMAIN value : \E w : w = value'[d] /\ Valid(w)
    BY <1>1, <1>4 DEF IInv, HeapOK
  <2>2. \A d \in DOMAIN value : refPath'[d] \in Loc \cup {Nil}
    BY <1>1, <1>2 DEF IInv, HeapOK
  <2>3. fresh' \in Nat
    BY <1>1 DEF IInv, HeapOK
  <2>4. QED
    BY <1>3, <2>1, <2>2, <2>3, HeapUpdates DEF IInv
<1>6. FrameOK(f)
  <2>1. /\ f \in Frame /\ f.cell = c /\ f.held = value[Top.tmp]
        /\ f.pc = "children" /\ f.fn = Top.fn
    BY <1>2, <1>4 DEF Frame
  <2>2. QED
    BY <1>2, <1>4, <2>1 DEF FrameOK
<1>7. StackOK'
  <2>1. \A g : FrameOK(g) => FrameOK(g)'
    BY <1>3, Growth
  <2>2. \E g : g = f /\ FrameOK(g)'
    BY <2>1, <1>6
  <2> HIDE DEF f, c
  <2>3. QED
    BY <1>1, <1>3, <2>2, GotoKeeps DEF IInv
<1>8. QED
  BY <1>1, <1>5, <1>7 DEF IInv, WorldOK, VisitsOK, CallOK, static, visits, call

LEMMA NextChildKeeps ==
  ASSUME IInv, NextChild
  PROVE  IInv'
<1> DEFINE f == [Top EXCEPT !.pos = @ + 1]
           c == Children[Top.pos + 1]
<1>1. /\ stack # <<>> /\ Top.fn = "resolveSchemaRef" /\ Top.pc = "children"
      /\ Top.pos < Len(Children) /\ Call(f, RefFrame(c, Top.doc, Top.path))
      /\ UNCHANGED <<static, heap, visitedDocuments, visits, status, call, faults>>
  BY DEF NextChild, At
<1>2. Top \in Frame /\ FrameOK(Top) /\ Valid(Top.held)
  BY <1>1, TopType DEF IInv, FrameOK
<1>3. HeapOK' /\ WorldOK' /\ CallOK' /\ VisitsOK' /\ world' = world /\ value' = value
  <2>1. HeapOK'
    BY <1>1, HeapUnchanged DEF IInv, static
  <2>2. QED
    BY <1>1, <2>1 DEF IInv, WorldOK, CallOK, VisitsOK, static, heap, call, visits
<1>4. FrameOK(f)
  <2>1. f \in Frame /\ f.cell = Top.cell /\ f.held = Top.held /\ f.pc = Top.pc /\ f.fn = Top.fn
    BY <1>2 DEF Frame
  <2>2. QED
    BY <1>1, <1>2, <2>1 DEF FrameOK
<1>5. c \in DOMAIN value
  <2> DEFINE v == Top.held
             kids == ShapeAt(v.uri, v.name).kids
  <2>1. v # Nil
    BY <1>1, <1>2 DEF Children, Frame
  <2>2. v \in Objects /\ Allocated(v)
    BY <1>2, <2>1 DEF Valid
  <2>3. Len(kids) \in Nat /\ Children = KidCells(v)
    BY <2>1, <2>2, KidsType DEF Objects, Children
  <2>4. Top.pos + 1 \in 1..Len(kids)
    BY <1>1, <1>2, <2>3 DEF KidCells, Frame
  <2>5. c = [inst |-> v.inst, uri |-> v.uri, name |-> v.name, k |-> Top.pos + 1]
    BY <2>3, <2>4 DEF KidCells
  <2>6. QED
    BY <2>2, <2>4, <2>5 DEF Allocated
<1>6. FrameOK(RefFrame(c, Top.doc, Top.path))
  BY <1>2, <1>5, RefFrameOK DEF IInv, Frame
<1>7. StackOK'
  <2> DEFINE h == RefFrame(c, Top.doc, Top.path)
  <2> HIDE DEF f, h
  <2>1. \A g : FrameOK(g) => FrameOK(g)'
    BY <1>3, Growth
  <2>2. \E g, e : g = f /\ e = h /\ FrameOK(g)' /\ FrameOK(e)'
    BY <2>1, <1>4, <1>6 DEF h
  <2>3. Call(f, h)
    BY <1>1 DEF h
  <2>4. QED
    BY <1>1, <1>3, <2>2, <2>3, CallKeeps DEF IInv
<1>8. QED
  BY <1>3, <1>7 DEF IInv

\* The deferred unvisitRef: the callbacks write the value the frame holds.
LEMMA ReturnRefKeeps ==
  ASSUME IInv, stack # <<>>, Top.fn = "resolveSchemaRef", ReturnRef, world' = world
  PROVE  HeapOK' /\ VisitsOK' /\ DOMAIN value' = DOMAIN value
<1> DEFINE r == RefOf(Top.cell)
           v == Top.held
<1>1. CASE r = Nil
  <2>1. UNCHANGED <<heap, visits>>
    BY <1>1 DEF ReturnRef
  <2>2. HeapOK'
    BY <2>1, HeapUnchanged DEF IInv
  <2>3. QED
    BY <2>1, <2>2 DEF IInv, VisitsOK, heap, visits
<1>2. CASE r # Nil
  <2>1. UnvisitRef(r, v) /\ Valid(v)
    BY <1>2, TopType DEF ReturnRef, IInv, FrameOK
  <2>2. \A c \in DOMAIN Callbacks(r) : Callbacks(r)[c] \in Loc
    BY DEF IInv, VisitsOK, Callbacks
  <2> HIDE DEF r, v
  <2>3. HeapOK'
    <3>1. \A c \in DOMAIN value : \E w : w = value'[c] /\ Valid(w)
      BY <2>1 DEF UnvisitRef, IInv, HeapOK
    <3>2. \A c \in DOMAIN value : refPath'[c] \in Loc \cup {Nil}
      BY <2>1, <2>2 DEF UnvisitRef, IInv, HeapOK
    <3>3. fresh' \in Nat
      BY <2>1 DEF UnvisitRef, IInv, HeapOK
    <3>4. DOMAIN value' = DOMAIN value /\ DOMAIN refPath' = DOMAIN refPath
      BY <2>1 DEF UnvisitRef
    <3>5. QED
      BY <3>1, <3>2, <3>3, <3>4, HeapUpdates DEF IInv
  <2>4. VisitsOK'
    <3>1. visitedPath' \in Seq(Ref)
      BY <2>1, FrontOf DEF UnvisitRef, IInv, VisitsOK
    <3>2. QED
      BY <2>1, <3>1 DEF UnvisitRef, IInv, VisitsOK
  <2>5. QED
    BY <2>1, <2>3, <2>4 DEF UnvisitRef
<1>3. QED
  BY <1>1, <1>2

LEMMA ReferenceDoneKeeps ==
  ASSUME IInv, ReferenceDone
  PROVE  IInv'
<1>1. /\ stack # <<>> /\ Top.fn = "resolveSchemaRef" /\ ReturnRef /\ Pop /\ world' = world
      /\ UNCHANGED <<static, visitedDocuments, status, call, faults>>
  BY DEF ReferenceDone, At, static
<1>2. HeapOK' /\ VisitsOK' /\ DOMAIN value' = DOMAIN value
  BY <1>1, ReturnRefKeeps
<1>3. StackOK'
  BY <1>1, <1>2, PopKeeps DEF IInv
<1>4. QED
  BY <1>1, <1>2, <1>3 DEF IInv, WorldOK, CallOK, static, call

LEMMA ReturnErrorKeeps ==
  ASSUME IInv, ReturnError
  PROVE  IInv'
<1>1. /\ stack # <<>> /\ Pop /\ world' = world
      /\ \/ Top.fn = "resolveSchemaRef" /\ ReturnRef
         \/ UNCHANGED <<heap, visits>>
      /\ status' \in {"idle", status} /\ result' \in {"err", result}
      /\ UNCHANGED <<static, visitedDocuments, root, loads, faults>>
  BY DEF ReturnError, static
<1>2. HeapOK' /\ VisitsOK' /\ DOMAIN value' = DOMAIN value
  <2>1. CASE Top.fn = "resolveSchemaRef" /\ ReturnRef
    BY <1>1, <2>1, ReturnRefKeeps
  <2>2. CASE UNCHANGED <<heap, visits>>
    <3>1. HeapOK'
      BY <1>1, <2>2, HeapUnchanged DEF IInv
    <3>2. QED
      BY <2>2, <3>1 DEF IInv, VisitsOK, heap, visits
  <2>3. QED
    BY <1>1, <2>1, <2>2
<1>3. StackOK'
  BY <1>1, <1>2, PopKeeps DEF IInv
<1>4. QED
  BY <1>1, <1>2, <1>3 DEF IInv, WorldOK, CallOK, static

(***************************************************************************)
(* The theorems.                                                           *)
(***************************************************************************)
LEMMA InitOK ==
  ASSUME Init
  PROVE  IInv
<1>1. WorldOK /\ HeapOK /\ VisitsOK
  BY DEF Init, WorldOK, HeapOK, VisitsOK
<1>2. StackOK /\ CallOK
  BY BoundsAssumption DEF Init, StackOK, CallOK
<1>3. QED
  BY <1>1, <1>2 DEF IInv

LEMMA StutterKeeps ==
  ASSUME IInv, UNCHANGED vars
  PROVE  IInv'
<1>1. UNCHANGED <<static, heap, visits, call, stack, status, visitedDocuments, faults>>
  BY DEF vars, static, heap, visits, call
<1>2. HeapOK'
  BY <1>1, HeapUnchanged DEF IInv, static
<1>3. StackOK'
  BY <1>1, SameStackKeeps DEF IInv, static, heap
<1>4. QED
  BY <1>1, <1>2, <1>3 DEF IInv, WorldOK, VisitsOK, CallOK, static, visits, call

LEMMA StepKeeps ==
  ASSUME IInv, [Next]_vars
  PROVE  IInv'
<1>1. CASE LoadFromURI
  BY <1>1, LoadKeeps
<1>2. CASE NextComponent
  BY <1>2, NextComponentKeeps
<1>3. CASE DocumentDone
  BY <1>3, DocumentDoneKeeps
<1>4. CASE ResolveRef
  <2>1. CASE EnterInline \/ EnterResolved \/ EnterInProgress \/ EnterUnvisited
    BY <2>1, EnterKeeps
  <2>2. CASE ElementFails \/ DocumentFails \/ DocumentUndecodable \/ DrillFails
    BY <2>2, FailKeeps
  <2>3. CASE ElementDecoded
    BY <2>3, ElementDecodedKeeps
  <2>4. CASE DocumentHere \/ DocumentCached
    BY <2>4, DocumentFoundKeeps
  <2>5. CASE DocumentLoaded
    BY <2>5, DocumentLoadedKeeps
  <2>6. CASE DrillTyped
    BY <2>6, DrillTypedKeeps
  <2>7. CASE DrillGeneric \/ DrillReread
    BY <2>7, DrillGenericKeeps
  <2>8. CASE CopyResolved
    BY <2>8, CopyResolvedKeeps
  <2>9. CASE NextChild
    BY <2>9, NextChildKeeps
  <2>10. CASE ReferenceDone
    BY <2>10, ReferenceDoneKeeps
  <2>11. QED
    BY <1>4, <2>1, <2>2, <2>3, <2>4, <2>5, <2>6, <2>7, <2>8, <2>9, <2>10 DEF ResolveRef
<1>5. CASE ReturnError
  BY <1>5, ReturnErrorKeeps
<1>6. CASE Finished \/ UNCHANGED vars
  BY <1>6, StutterKeeps DEF Finished
<1>7. QED
  BY <1>1, <1>2, <1>3, <1>4, <1>5, <1>6 DEF Next, Step

\* The invariant is inductive: every pointer of the heap and of the stack
\* leads to a component that was decoded, with all its sub-components, and
\* every frame that drills into a document does so for a reference.
THEOREM HeapIsClosed == Spec => []IInv
<1>1. Init => IInv
  BY InitOK
<1>2. IInv /\ [Next]_vars => IInv'
  BY StepKeeps
<1>3. QED
  BY <1>1, <1>2, PTL DEF Spec

\* The state of the Loader is well typed in every reachable state: no step of
\* the resolution follows a nil pointer or leaves the map it indexes.
THEOREM TypeCorrect == Spec => []TypeOK
<1>1. IInv => TypeOK
  <2> SUFFICES ASSUME IInv PROVE TypeOK
    OBVIOUS
  <2>1. /\ world \in Worlds /\ isExternalRefsAllowed \in BOOLEAN
        /\ DOMAIN value \subseteq CellId /\ DOMAIN refPath = DOMAIN value
        /\ \A c \in DOMAIN value : value[c] \in ValueId \cup {Nil}
        /\ \A c \in DOMAIN value : refPath[c] \in Loc \cup {Nil}
        /\ fresh \in Nat
    BY DEF IInv, WorldOK, HeapOK, Cells, Valid, Objects
  <2>2. stack \in Seq(Frame)
    BY DEF IInv, StackOK
  <2>3. QED
    BY <2>1, <2>2 DEF IInv, VisitsOK, CallOK, TypeOK
<1>2. QED
  BY <1>1, HeapIsClosed, PTL

\* A callback waits for a reference that is visited, also while an error returns.
CallbacksVisited == DOMAIN backtrack \subseteq visitedRefs

LEMMA CallbacksStep ==
  ASSUME CallbacksVisited, [Next]_vars
  PROVE  CallbacksVisited'
<1>1. CASE LoadFromURI
  BY <1>1 DEF LoadFromURI, LoadReadFails, LoadCached, LoadUndecodable, LoadDecoded,
              Begin, CallbacksVisited
<1>2. CASE EnterInProgress
  BY <1>2 DEF EnterInProgress, CallbacksVisited
<1>3. CASE EnterUnvisited
  BY <1>3 DEF EnterUnvisited, CallbacksVisited
<1>4. CASE ReturnRef
  BY <1>4 DEF ReturnRef, UnvisitRef, CallbacksVisited, visits
<1>5. CASE UNCHANGED visits
  BY <1>5 DEF visits, CallbacksVisited
<1>6. Step => UNCHANGED visits \/ EnterInProgress \/ EnterUnvisited \/ ReturnRef
  <2>1. NextComponent \/ DocumentDone \/ ReturnError
          => UNCHANGED visits \/ ReturnRef
    BY DEF NextComponent, DocumentDone, ReturnError
  <2>2. EnterInline \/ EnterResolved \/ DocumentHere \/ DocumentCached
        \/ DocumentUndecodable \/ DocumentLoaded \/ NextChild \/ CopyResolved
          => UNCHANGED visits
    BY DEF EnterInline, EnterResolved, DocumentHere, DocumentCached,
           DocumentUndecodable, DocumentLoaded, NextChild, CopyResolved
  <2>3. ElementFails \/ DocumentFails \/ DrillFails => UNCHANGED visits
    BY DEF ElementFails, DocumentFails, DrillFails, Fail
  <2>4. ElementDecoded \/ DrillTyped \/ DrillGeneric \/ DrillReread => UNCHANGED visits
    BY DEF ElementDecoded, DrillTyped, DrillGeneric, DrillReread, DecodeGeneric
  <2>5. ReferenceDone => ReturnRef
    BY DEF ReferenceDone
  <2>6. QED
    BY <2>1, <2>2, <2>3, <2>4, <2>5 DEF Step, ResolveRef
<1>7. CASE Finished \/ UNCHANGED vars
  BY <1>7 DEF Finished, vars, CallbacksVisited
<1>8. QED
  BY <1>1, <1>2, <1>3, <1>4, <1>5, <1>6, <1>7 DEF Next

(***************************************************************************)
(* Two more theorems about RefLoader, for any file system, number of calls *)
(* and number of failing reads: a component keeps the value it was given,  *)
(* and visits pair up.                                                     *)
(*                                                                         *)
(* Both rest on one fact: no two frames of the call stack, not even while  *)
(* an error returns through them, are resolving the same reference.  So a  *)
(* component gets its value from one frame, or from the callbacks that the *)
(* same frame runs with the same value.                                    *)
(***************************************************************************)

(***************************************************************************)
(* The invariant.                                                          *)
(***************************************************************************)
\* The references in progress differ.
Distinct == \A i, j \in OpenFrames : InProgress(stack[i]) = InProgress(stack[j]) => i = j

\* While nothing fails, they are visited,
Visiting == Live => \A i \in OpenFrames : InProgress(stack[i]) \in visitedRefs

\* and the path lists them in the order of their frames.
Paired ==
  /\ Len(visitedPath) = Cardinality(OpenFrames)
  /\ \A i \in OpenFrames : visitedPath[Rank(i)] = InProgress(stack[i])
  /\ visitedRefs = { visitedPath[i] : i \in DOMAIN visitedPath }
  /\ IsFiniteSet(visitedRefs) /\ Cardinality(visitedRefs) = Len(visitedPath)
  /\ \A i, j \in DOMAIN visitedPath : visitedPath[i] = visitedPath[j] => i = j

Matching == Live => Paired

Resting == status = "idle" => stack = <<>>

\* The numbers of decodes are not reused, and only cached documents have the
\* number 0.
Born ==
  /\ fresh # 0
  /\ \A c \in DOMAIN value : c.inst < fresh /\ (c.inst = 0 => c.uri \in visitedDocuments)

\* The component of a frame has no value until the frame has found one, and
\* then the value that the frame holds for the callbacks.
Carries(f) ==
  f.fn = "resolveSchemaRef" =>
    /\ f.pc \in {"element", "document", "drill", "copy"} => value[f.cell] = Nil
    /\ f.pc = "children" /\ RefOf(f.cell) # Nil => value[f.cell] = f.held

Carrying == \A i \in DOMAIN stack : Carries(stack[i])

\* A frame has found the value of the component c.
Found(c) == \E i \in DOMAIN stack : /\ stack[i].fn = "resolveSchemaRef"
                                    /\ stack[i].pc = "children" /\ stack[i].cell = c

\* The callbacks left for a reference are of components that are that
\* reference, and that have no value before its frame has found it.
Awaiting ==
  \A r \in DOMAIN backtrack : \A c \in DOMAIN backtrack[r] :
    c \in DOMAIN value /\ RefOf(c) = r /\ (value[c] = Nil \/ Found(c))

ValueInv ==
  /\ IInv /\ CallbacksVisited
  /\ Distinct /\ Visiting /\ Matching /\ Resting /\ Born /\ Carrying /\ Awaiting

FramesInv == Distinct /\ Visiting /\ Matching /\ Carrying /\ Awaiting

(***************************************************************************)
(* How the stack moves.                                                    *)
(***************************************************************************)
LEMMA GotoMoves ==
  ASSUME StackOK, stack # <<>>, NEW f, Goto(f)
  PROVE  /\ DOMAIN stack' = DOMAIN stack /\ Len(stack) \in DOMAIN stack
         /\ stack'[Len(stack)] = f
         /\ \A i \in DOMAIN stack : i # Len(stack) => stack'[i] = stack[i]
BY DEF Goto, StackOK

LEMMA CallMoves ==
  ASSUME StackOK, stack # <<>>, NEW f \in Frame, NEW g \in Frame, Call(f, g)
  PROVE  /\ DOMAIN stack' = DOMAIN stack \cup {Len(stack) + 1}
         /\ Len(stack) \in DOMAIN stack
         /\ stack'[Len(stack)] = f /\ stack'[Len(stack) + 1] = g
         /\ \A i \in DOMAIN stack : i # Len(stack) => stack'[i] = stack[i]
<1>1. [stack EXCEPT ![Len(stack)] = f] \in Seq(Frame)
  BY DEF StackOK
<1>2. /\ stack' \in Seq(Frame) /\ Len(stack') = Len(stack) + 1
      /\ \A i \in 1..Len(stack') : stack'[i] = IF i = Len(stack) + 1 THEN g
                                   ELSE IF i = Len(stack) THEN f ELSE stack[i]
  BY <1>1 DEF Call, StackOK
<1>. QED BY <1>2 DEF StackOK

LEMMA PopMoves ==
  ASSUME StackOK, stack # <<>>, Pop
  PROVE  /\ DOMAIN stack' = DOMAIN stack \ {Len(stack)} /\ Len(stack) \in DOMAIN stack
         /\ \A i \in DOMAIN stack' : stack'[i] = stack[i]
<1>1. /\ SubSeq(stack, 1, Len(stack) - 1) \in Seq(Frame)
      /\ Len(SubSeq(stack, 1, Len(stack) - 1)) = Len(stack) - 1
      /\ \A i \in 1..Len(stack) - 1 : SubSeq(stack, 1, Len(stack) - 1)[i] = stack[i]
  BY FrontOf DEF StackOK
<1>2. /\ stack' \in Seq(Frame) /\ Len(stack') = Len(stack) - 1
      /\ \A i \in 1..Len(stack) - 1 : stack'[i] = stack[i]
  BY <1>1 DEF Pop
<1>3. /\ Len(stack) \in Nat \ {0} /\ DOMAIN stack = 1..Len(stack)
      /\ DOMAIN stack' = 1..Len(stack) - 1
  BY <1>2 DEF StackOK
<1>4. \A n \in Nat \ {0} : 1..n - 1 = (1..n) \ {n} /\ n \in 1..n
  OBVIOUS
<1>. QED BY <1>2, <1>3, <1>4

(***************************************************************************)
(* How the visited path follows the stack.                                 *)
(***************************************************************************)
LEMMA OpenFinite ==
  ASSUME StackOK
  PROVE  /\ OpenFrames \subseteq 1..Len(stack) /\ Len(stack) \in Nat
         /\ IsFiniteSet(OpenFrames) /\ Cardinality(OpenFrames) \in Nat
<1>1. OpenFrames \subseteq 1..Len(stack) /\ Len(stack) \in Nat
  BY DEF OpenFrames, StackOK
<1>2. IsFiniteSet(1..Len(stack))
  BY <1>1, FS_Interval
<1>3. IsFiniteSet(OpenFrames)
  BY <1>1, <1>2, FS_Subset
<1>. QED BY <1>1, <1>3, FS_CardinalityType

\* The frames below the one on top have smaller ranks than all of them.
LEMMA RankBelow ==
  ASSUME NEW S \in SUBSET Nat, IsFiniteSet(S), NEW n \in S, NEW i \in S, i < n
  PROVE  Cardinality({ j \in S : j <= i }) \in 1..Cardinality(S) - 1
<1>. DEFINE B == { j \in S : j <= i }
<1>1. B \subseteq S \ {n} /\ i \in B
  OBVIOUS
<1>2. IsFiniteSet(S \ {n}) /\ Cardinality(S \ {n}) = Cardinality(S) - 1
  BY FS_RemoveElement
<1>3. IsFiniteSet(B) /\ Cardinality(B) <= Cardinality(S \ {n})
  BY <1>1, <1>2, FS_Subset
<1>4. Cardinality(B) # 0
  BY <1>1, <1>3, FS_EmptySet
<1>5. Cardinality(B) \in Nat /\ Cardinality(S) \in Nat
  BY <1>3, FS_CardinalityType
<1>. HIDE DEF B
<1>6. Cardinality(B) \in 1..Cardinality(S) - 1
  BY <1>2, <1>3, <1>4, <1>5
<1>. QED BY <1>6 DEF B

LEMMA PairedStays ==
  ASSUME Paired, visitedRefs' = visitedRefs, visitedPath' = visitedPath,
         OpenFrames' = OpenFrames,
         \A i \in OpenFrames : InProgress(stack[i])' = InProgress(stack[i])
  PROVE  Paired'
<1>1. \A i \in OpenFrames : Rank(i)' = Rank(i)
  BY DEF Rank
<1>. QED BY <1>1 DEF Paired

\* A step visits the reference of the frame on top.
LEMMA PairedVisit ==
  ASSUME IInv, Paired, NEW r \in Ref, r \notin visitedRefs,
         visitedRefs' = visitedRefs \cup {r}, visitedPath' = Append(visitedPath, r),
         NEW n, n = Len(stack), n \notin OpenFrames, OpenFrames' = OpenFrames \cup {n},
         InProgress(stack[n])' = r,
         \A i \in OpenFrames : InProgress(stack[i])' = InProgress(stack[i])
  PROVE  Paired'
<1>. DEFINE m == Len(visitedPath)
<1>1. /\ OpenFrames \subseteq 1..n /\ n \in Nat
      /\ IsFiniteSet(OpenFrames) /\ Cardinality(OpenFrames) = m
  BY OpenFinite DEF IInv, Paired
<1>2. m \in Nat /\ DOMAIN visitedPath = 1..m /\ visitedPath \in Seq(Ref)
  BY DEF IInv, VisitsOK
<1>3. /\ visitedPath' \in Seq(Ref) /\ Len(visitedPath') = m + 1 /\ visitedPath'[m + 1] = r
      /\ \A i \in 1..m : visitedPath'[i] = visitedPath[i]
      /\ DOMAIN visitedPath' = 1..m \cup {m + 1}
  BY <1>2
<1>4. Cardinality(OpenFrames') = m + 1
  BY <1>1, FS_AddElement
<1>5. \A i \in OpenFrames : Rank(i) \in 1..m
  <2>. SUFFICES ASSUME NEW i \in OpenFrames PROVE Rank(i) \in 1..m
    OBVIOUS
  <2>. DEFINE B == { j \in OpenFrames : j <= i }
  <2>1. B \subseteq OpenFrames /\ i \in B
    BY <1>1
  <2>2. IsFiniteSet(B) /\ Cardinality(B) <= m /\ Cardinality(B) \in Nat
    BY <1>1, <2>1, FS_Subset, FS_CardinalityType
  <2>3. Cardinality(B) # 0
    BY <2>1, <2>2, FS_EmptySet
  <2>. HIDE DEF B
  <2>4. Cardinality(B) \in 1..m
    BY <1>2, <2>2, <2>3
  <2>. QED BY <2>4 DEF B, Rank
<1>6. \A i \in OpenFrames : Rank(i)' = Rank(i)
  <2>. SUFFICES ASSUME NEW i \in OpenFrames PROVE Rank(i)' = Rank(i)
    OBVIOUS
  <2>1. ~(n <= i)
    <3>1. i \in 1..n /\ i # n
      BY <1>1
    <3>. QED BY <1>1, <3>1
  <2>2. { j \in OpenFrames' : j <= i } = { j \in OpenFrames : j <= i }
    BY <2>1
  <2>. QED BY <2>2 DEF Rank
<1>7. Rank(n)' = m + 1
  <2>1. \A j \in 1..n : j <= n
    BY <1>1
  <2>2. \A j \in OpenFrames' : j <= n
    BY <1>1, <2>1
  <2>3. { j \in OpenFrames' : j <= n } = OpenFrames'
    BY <2>2
  <2>. QED BY <1>4, <2>3 DEF Rank
<1>. HIDE DEF m
<1>8. \A i \in OpenFrames' : visitedPath'[Rank(i)'] = InProgress(stack[i])'
  <2>. SUFFICES ASSUME NEW i \in OpenFrames'
                PROVE  visitedPath'[Rank(i)'] = InProgress(stack[i])'
    OBVIOUS
  <2>1. CASE i \in OpenFrames
    <3>1. visitedPath[Rank(i)] = InProgress(stack[i])
      BY <2>1 DEF Paired
    <3>. QED BY <1>3, <1>5, <1>6, <2>1, <3>1
  <2>2. CASE i = n
    BY <1>3, <1>7, <2>2
  <2>. QED BY <2>1, <2>2
<1>9. visitedRefs' = { visitedPath'[i] : i \in DOMAIN visitedPath' }
  BY <1>2, <1>3 DEF Paired
<1>10. IsFiniteSet(visitedRefs') /\ Cardinality(visitedRefs') = m + 1
  BY FS_AddElement DEF Paired, m
<1>11. \A i, j \in DOMAIN visitedPath' : visitedPath'[i] = visitedPath'[j] => i = j
  <2>1. \A i \in 1..m : visitedPath'[i] \in visitedRefs
    BY <1>2, <1>3 DEF Paired
  <2>2. \A i, j \in 1..m : visitedPath'[i] = visitedPath'[j] => i = j
    BY <1>2, <1>3 DEF Paired
  <2>. QED BY <1>3, <2>1, <2>2
<1>. QED BY <1>3, <1>4, <1>8, <1>9, <1>10, <1>11 DEF Paired

\* A step unvisits the reference of the frame on top.
LEMMA PairedUnvisit ==
  ASSUME IInv, Paired, NEW r,
         visitedRefs' = visitedRefs \ {r},
         visitedPath' = SubSeq(visitedPath, 1, Len(visitedPath) - 1),
         NEW n, n = Len(stack), n \in OpenFrames, InProgress(stack[n]) = r,
         OpenFrames' = OpenFrames \ {n},
         \A i \in OpenFrames' : InProgress(stack[i])' = InProgress(stack[i])
  PROVE  Paired'
<1>. DEFINE m == Len(visitedPath)
<1>1. /\ OpenFrames \subseteq 1..n /\ n \in Nat
      /\ IsFiniteSet(OpenFrames) /\ Cardinality(OpenFrames) = m
  BY OpenFinite DEF IInv, Paired
<1>2. m \in Nat /\ DOMAIN visitedPath = 1..m /\ visitedPath \in Seq(Ref)
  BY DEF IInv, VisitsOK
<1>3. m # 0
  BY <1>1, FS_EmptySet
<1>4. /\ visitedPath' \in Seq(Ref) /\ Len(visitedPath') = m - 1
      /\ \A i \in 1..m - 1 : visitedPath'[i] = visitedPath[i]
  <2>1. visitedPath # <<>>
    BY <1>2, <1>3
  <2>. QED BY <1>2, <2>1, FrontOf
<1>5. /\ DOMAIN visitedPath' = 1..m - 1 /\ 1..m = (1..m - 1) \cup {m} /\ m \notin 1..m - 1
  BY <1>2, <1>3, <1>4
<1>6. Cardinality(OpenFrames') = m - 1
  BY <1>1, FS_RemoveElement
<1>7. \A i \in OpenFrames' : i \in OpenFrames /\ i < n
  BY <1>1
<1>8. Rank(n) = m
  <2>1. \A j \in 1..n : j <= n
    BY <1>1
  <2>2. \A j \in OpenFrames : j <= n
    BY <1>1, <2>1
  <2>3. { j \in OpenFrames : j <= n } = OpenFrames
    BY <2>2
  <2>. QED BY <1>1, <2>3 DEF Rank
<1>9. visitedPath[m] = r
  BY <1>8 DEF Paired
<1>10. \A i \in OpenFrames' : Rank(i) \in 1..m - 1
  BY <1>1, <1>7, RankBelow DEF Rank
<1>11. \A i \in OpenFrames' : Rank(i)' = Rank(i)
  <2>. SUFFICES ASSUME NEW i \in OpenFrames' PROVE Rank(i)' = Rank(i)
    OBVIOUS
  <2>1. ~(n <= i)
    <3>1. i \in Nat /\ i < n
      BY <1>1, <1>7
    <3>. QED BY <1>1, <3>1
  <2>2. { j \in OpenFrames' : j <= i } = { j \in OpenFrames : j <= i }
    BY <2>1
  <2>. QED BY <2>2 DEF Rank
<1>. HIDE DEF m
<1>12. \A i \in OpenFrames' : visitedPath'[Rank(i)'] = InProgress(stack[i])'
  <2>. SUFFICES ASSUME NEW i \in OpenFrames'
                PROVE  visitedPath'[Rank(i)'] = InProgress(stack[i])'
    OBVIOUS
  <2>1. visitedPath[Rank(i)] = InProgress(stack[i])
    BY <1>7 DEF Paired
  <2>. QED BY <1>4, <1>10, <1>11, <2>1
<1>13. \A i, j \in 1..m : visitedPath[i] = visitedPath[j] => i = j
  BY <1>2 DEF Paired
<1>14. visitedRefs' = { visitedPath'[i] : i \in DOMAIN visitedPath' }
  <2>1. visitedRefs = { visitedPath[i] : i \in 1..m }
    BY <1>2 DEF Paired
  <2>2. \A i \in 1..m - 1 : visitedPath[i] # r
    BY <1>5, <1>9, <1>13
  <2>3. visitedRefs \ {r} = { visitedPath[i] : i \in 1..m - 1 }
    BY <1>5, <1>9, <2>1, <2>2
  <2>. QED BY <1>4, <1>5, <2>3
<1>15. IsFiniteSet(visitedRefs') /\ Cardinality(visitedRefs') = m - 1
  <2>1. r \in visitedRefs
    BY <1>2, <1>5, <1>9 DEF Paired
  <2>. QED BY <2>1, FS_RemoveElement DEF Paired, m
<1>16. \A i, j \in DOMAIN visitedPath' : visitedPath'[i] = visitedPath'[j] => i = j
  BY <1>4, <1>5, <1>13
<1>. QED BY <1>4, <1>6, <1>12, <1>14, <1>15, <1>16 DEF Paired

(***************************************************************************)
(* Steps that find no value and run no callback.                           *)
(***************************************************************************)
\* The frame g stands for the same call as f, and is no less far.
Follows(f, g) ==
  /\ g.fn = f.fn /\ g.cell = f.cell /\ InProgress(g) = InProgress(f)
  /\ f.pc = "children" => g.pc = "children"
  /\ Carries(f) => Carries(g)

\* A call that has done nothing yet.
Entering(f) == f.fn = "ResolveRefsIn" \/ f.pc = "enter"

\* A frame that is to run the callbacks of its reference.
Handing(f) == f.fn = "resolveSchemaRef" /\ f.pc = "children" /\ RefOf(f.cell) # Nil

Grown == DOMAIN value \subseteq DOMAIN value' /\ \A c \in DOMAIN value : value'[c] = value[c]

LEMMA SameWorld ==
  ASSUME world' = world
  PROVE  /\ \A c : RefOf(c)' = RefOf(c)
         /\ \A f : InProgress(f)' = InProgress(f)
         /\ \A i \in DOMAIN stack' : InProgress(stack[i])' = InProgress(stack'[i])
<1>1. \A c : RefOf(c)' = RefOf(c)
  BY DEF RefOf, ShapeAt
<1>. QED BY <1>1 DEF InProgress

LEMMA QuietStep ==
  ASSUME IInv, FramesInv, world' = world, UNCHANGED visits, Grown,
         Live' => Live,
         \A i \in DOMAIN stack' : \/ i \in DOMAIN stack /\ Follows(stack[i], stack'[i])
                                  \/ Entering(stack'[i]),
         \A i \in DOMAIN stack :
           i \in DOMAIN stack' \/ (~Handing(stack[i]) /\ (Live' => InProgress(stack[i]) = Nil)),
         \A i \in DOMAIN stack \cap DOMAIN stack' : Follows(stack[i], stack'[i])
  PROVE  FramesInv'
<1>1. /\ \A c : RefOf(c)' = RefOf(c)
      /\ \A i \in DOMAIN stack' : InProgress(stack[i])' = InProgress(stack'[i])
  BY SameWorld
<1>2. \A i \in OpenFrames' : i \in OpenFrames /\ InProgress(stack[i])' = InProgress(stack[i])
  <2>1. \A f : Entering(f) => InProgress(f) = Nil
    BY DEF Entering, InProgress
  <2>. QED BY <1>1, <2>1 DEF OpenFrames, Follows
<1>3. Distinct' /\ Visiting' /\ Matching'
  <2>1. ASSUME Live' PROVE OpenFrames \subseteq OpenFrames'
    <3>1. \A i \in OpenFrames : i \in DOMAIN stack'
      BY <2>1 DEF OpenFrames
    <3>. QED BY <1>1, <3>1 DEF OpenFrames, Follows
  <2>2. Matching'
    BY <1>2, <2>1, PairedStays DEF FramesInv, Matching, visits
  <2>. QED BY <1>2, <2>2 DEF FramesInv, Distinct, Visiting, visits
<1>4. Carrying'
  <2>. SUFFICES ASSUME NEW i \in DOMAIN stack' PROVE Carries(stack[i])'
    BY DEF Carrying
  <2>1. CASE Entering(stack'[i])
    BY <2>1 DEF Entering, Carries
  <2>2. CASE i \in DOMAIN stack /\ Follows(stack[i], stack'[i])
    <3>1. Carries(stack[i]) /\ Carries(stack'[i])
      BY <2>2 DEF FramesInv, Carrying, Follows
    <3>2. stack'[i].fn = "resolveSchemaRef" => stack'[i].cell \in DOMAIN value
      BY <2>2 DEF Follows, IInv, StackOK, FrameOK
    <3>. QED BY <1>1, <3>1, <3>2 DEF Carries, Grown
  <2>. QED BY <2>1, <2>2
<1>5. Awaiting'
  <2>. SUFFICES ASSUME NEW r \in DOMAIN backtrack, NEW c \in DOMAIN backtrack[r]
                PROVE  /\ c \in DOMAIN value' /\ RefOf(c) = r
                       /\ value'[c] = Nil \/ Found(c)'
    BY <1>1 DEF Awaiting, visits
  <2>1. c \in DOMAIN value /\ RefOf(c) = r /\ (value[c] = Nil \/ Found(c)) /\ r # Nil
    BY NullsAssumption DEF FramesInv, Awaiting, IInv, VisitsOK
  <2>2. ASSUME Found(c) PROVE Found(c)'
    <3>. PICK i \in DOMAIN stack : /\ stack[i].fn = "resolveSchemaRef"
                                   /\ stack[i].pc = "children" /\ stack[i].cell = c
      BY <2>2 DEF Found
    <3>1. Handing(stack[i])
      BY <2>1 DEF Handing
    <3>2. i \in DOMAIN stack' /\ Follows(stack[i], stack'[i])
      BY <3>1
    <3>. QED BY <3>2 DEF Follows, Found
  <2>. QED BY <2>1, <2>2 DEF Grown
<1>. QED BY <1>3, <1>4, <1>5 DEF FramesInv

LEMMA SelfFollows == ASSUME NEW f PROVE Follows(f, f)
BY DEF Follows

LEMMA QuietGoto ==
  ASSUME IInv, FramesInv, world' = world, UNCHANGED visits, Grown,
         Live' => Live,
         stack # <<>>, NEW f, Follows(Top, f), Goto(f)
  PROVE  FramesInv'
<1>1. /\ DOMAIN stack' = DOMAIN stack /\ stack'[Len(stack)] = f
      /\ \A i \in DOMAIN stack : i # Len(stack) => stack'[i] = stack[i]
  BY GotoMoves DEF IInv
<1>2. \A i \in DOMAIN stack : Follows(stack[i], stack'[i])
  BY <1>1, SelfFollows DEF Top
<1>. QED BY <1>1, <1>2, QuietStep

LEMMA QuietCall ==
  ASSUME IInv, FramesInv, world' = world, UNCHANGED visits, Grown,
         Live' => Live,
         stack # <<>>, NEW f \in Frame, Follows(Top, f), NEW g \in Frame, Entering(g),
         Call(f, g)
  PROVE  FramesInv'
<1>1. /\ DOMAIN stack' = DOMAIN stack \cup {Len(stack) + 1}
      /\ stack'[Len(stack)] = f /\ stack'[Len(stack) + 1] = g
      /\ \A i \in DOMAIN stack : i # Len(stack) => stack'[i] = stack[i]
  BY CallMoves DEF IInv
<1>2. \A i \in DOMAIN stack : Follows(stack[i], stack'[i])
  BY <1>1, SelfFollows DEF Top
<1>. QED BY <1>1, <1>2, QuietStep

LEMMA QuietPop ==
  ASSUME IInv, FramesInv, world' = world, UNCHANGED visits, Grown,
         Live' => Live,
         stack # <<>>, ~Handing(Top), Live' => InProgress(Top) = Nil, Pop
  PROVE  FramesInv'
<1>1. /\ DOMAIN stack' = DOMAIN stack \ {Len(stack)}
      /\ \A i \in DOMAIN stack' : stack'[i] = stack[i]
  BY PopMoves DEF IInv
<1>2. \A i \in DOMAIN stack :
        i \in DOMAIN stack' \/ (~Handing(stack[i]) /\ (Live' => InProgress(stack[i]) = Nil))
  BY <1>1 DEF Top
<1>3. \A i \in DOMAIN stack' : i \in DOMAIN stack /\ Follows(stack[i], stack'[i])
  BY <1>1, SelfFollows
<1>. QED BY <1>1, <1>2, <1>3, QuietStep

(***************************************************************************)
(* Steps of the frame of a reference: it is visited, its value is found,   *)
(* and the callbacks get it.                                               *)
(***************************************************************************)
\* The frame of the reference r, when it is on top, is the only one.
LEMMA TopAlone ==
  ASSUME IInv, Distinct, stack # <<>>, InProgress(Top) # Nil
  PROVE  \A i \in DOMAIN stack : InProgress(stack[i]) = InProgress(Top) => i = Len(stack)
<1>1. Len(stack) \in DOMAIN stack
  BY DEF IInv, StackOK
<1>. QED BY <1>1 DEF Distinct, OpenFrames, Top

LEMMA EnterUnvisitedFrames ==
  ASSUME IInv, CallbacksVisited, FramesInv, EnterUnvisited
  PROVE  FramesInv'
<1>. DEFINE r == RefOf(Top.cell)
            f == [Top EXCEPT !.pc = IF r.name = Root THEN "element" ELSE "document"]
<1>1. /\ status = "running" /\ stack # <<>> /\ Top.fn = "resolveSchemaRef" /\ Top.pc = "enter"
      /\ r # Nil /\ value[Top.cell] = Nil /\ r \notin visitedRefs
      /\ visitedRefs' = visitedRefs \cup {r} /\ visitedPath' = Append(visitedPath, r)
      /\ Goto(f) /\ UNCHANGED <<static, heap, backtrack, status>>
  BY DEF EnterUnvisited, At
<1>2. /\ DOMAIN stack' = DOMAIN stack /\ stack'[Len(stack)] = f /\ Len(stack) \in DOMAIN stack
      /\ \A i \in DOMAIN stack : i # Len(stack) => stack'[i] = stack[i]
  BY <1>1, GotoMoves DEF IInv
<1>3. Top \in Frame /\ Top.cell \in DOMAIN value
  BY <1>1, TopType DEF IInv, FrameOK
<1>4. /\ f.fn = "resolveSchemaRef" /\ f.cell = Top.cell /\ f.pc \in {"element", "document"}
  BY <1>1, <1>3 DEF Frame
<1>5. /\ \A c : RefOf(c)' = RefOf(c)
      /\ \A i \in DOMAIN stack' : InProgress(stack[i])' = InProgress(stack'[i])
  BY <1>1, SameWorld DEF static
<1>6. InProgress(f) = r /\ r \in Ref
  <2>1. Top.cell \in Cells
    BY <1>3 DEF IInv, HeapOK
  <2>. QED BY <1>1, <1>4, <2>1, RefOfType DEF InProgress, IInv
<1>. HIDE DEF f, r
<1>7. \A i \in OpenFrames' : IF i = Len(stack) THEN InProgress(stack[i])' = r
                             ELSE i \in OpenFrames /\ InProgress(stack[i])' = InProgress(stack[i])
  BY <1>2, <1>5, <1>6 DEF OpenFrames
<1>8. \A i \in OpenFrames : InProgress(stack[i]) \in visitedRefs
  BY <1>1 DEF FramesInv, Visiting, Live
<1>9. Distinct' /\ Visiting' /\ Matching'
  <2>1. Len(stack) \notin OpenFrames /\ OpenFrames' = OpenFrames \cup {Len(stack)}
    BY <1>1, <1>2, <1>5, <1>6 DEF OpenFrames, InProgress, Top
  <2>2. Paired /\ Live
    BY <1>1 DEF FramesInv, Matching, Live
  <2>. DEFINE n == Len(stack)
  <2>3. \A k : k = n => InProgress(stack[k])' = r
    BY <1>2, <1>5, <1>6
  <2>4. Paired'
    <3>. PICK n0 : n0 = n
      OBVIOUS
    <3>. QED BY <1>1, <1>6, <1>7, <2>1, <2>2, <2>3, PairedVisit
  <2>. QED BY <1>1, <1>7, <1>8, <2>2, <2>4 DEF FramesInv, Distinct, Visiting, Matching
<1>10. Carrying'
  <2>. SUFFICES ASSUME NEW i \in DOMAIN stack' PROVE Carries(stack[i])'
    BY DEF Carrying
  <2>1. CASE i = Len(stack)
    <3>1. value'[Top.cell] = Nil
      BY <1>1 DEF heap
    <3>. QED BY <1>1, <1>2, <1>4, <2>1, <3>1 DEF Carries, r
  <2>2. CASE i # Len(stack)
    BY <1>1, <1>2, <1>5, <2>2 DEF FramesInv, Carrying, Carries, heap
  <2>. QED BY <2>1, <2>2
<1>11. Awaiting'
  <2>1. \A c : Found(c) => Found(c)'
    <3>. SUFFICES ASSUME NEW c, Found(c) PROVE Found(c)'
      OBVIOUS
    <3>. PICK i \in DOMAIN stack : /\ stack[i].fn = "resolveSchemaRef"
                                   /\ stack[i].pc = "children" /\ stack[i].cell = c
      BY DEF Found
    <3>1. i # Len(stack)
      BY <1>1 DEF Top
    <3>. QED BY <1>2, <3>1 DEF Found
  <2>. QED BY <1>1, <1>5, <2>1 DEF FramesInv, Awaiting, heap
<1>. QED BY <1>9, <1>10, <1>11 DEF FramesInv

LEMMA EnterInProgressFrames ==
  ASSUME IInv, FramesInv, EnterInProgress
  PROVE  FramesInv'
<1>. DEFINE r == RefOf(Top.cell)
<1>1. /\ status = "running" /\ stack # <<>> /\ Top.fn = "resolveSchemaRef" /\ Top.pc = "enter"
      /\ r # Nil /\ value[Top.cell] = Nil /\ Pop
      /\ DOMAIN backtrack' = DOMAIN backtrack \cup {r}
      /\ \A q \in DOMAIN backtrack : q # r => backtrack'[q] = backtrack[q]
      /\ DOMAIN backtrack'[r] = DOMAIN Callbacks(r) \cup {Top.cell}
      /\ UNCHANGED <<static, heap, visitedRefs, visitedPath, status>>
  BY DEF EnterInProgress, At
<1>2. /\ DOMAIN stack' = DOMAIN stack \ {Len(stack)}
      /\ \A i \in DOMAIN stack' : stack'[i] = stack[i]
  BY <1>1, PopMoves DEF IInv
<1>3. Top.cell \in DOMAIN value
  BY <1>1, TopType DEF IInv, FrameOK
<1>4. /\ \A c : RefOf(c)' = RefOf(c)
      /\ \A i \in DOMAIN stack' : InProgress(stack[i])' = InProgress(stack'[i])
  BY <1>1, SameWorld DEF static
<1>. HIDE DEF r
<1>5. /\ OpenFrames' = OpenFrames
      /\ \A i \in OpenFrames : InProgress(stack[i])' = InProgress(stack[i])
  <2>1. Len(stack) \notin OpenFrames
    BY <1>1 DEF OpenFrames, InProgress, Top
  <2>. QED BY <1>2, <1>4, <2>1 DEF OpenFrames
<1>6. Distinct' /\ Visiting' /\ Matching'
  <2>1. Paired' /\ Live
    BY <1>1, <1>5, PairedStays DEF FramesInv, Matching, Live
  <2>. QED BY <1>1, <1>5, <2>1 DEF FramesInv, Distinct, Visiting, Matching
<1>7. Carrying'
  BY <1>1, <1>2, <1>4 DEF FramesInv, Carrying, Carries, heap
<1>8. \A c : Found(c) => Found(c)'
  <2>. SUFFICES ASSUME NEW c, Found(c) PROVE Found(c)'
    OBVIOUS
  <2>. PICK i \in DOMAIN stack : /\ stack[i].fn = "resolveSchemaRef"
                                 /\ stack[i].pc = "children" /\ stack[i].cell = c
    BY DEF Found
  <2>1. i # Len(stack)
    BY <1>1 DEF Top
  <2>. QED BY <1>2, <2>1 DEF Found
<1>9. Awaiting'
  <2>. SUFFICES ASSUME NEW q \in DOMAIN backtrack', NEW c \in DOMAIN backtrack'[q]
                PROVE  c \in DOMAIN value /\ RefOf(c) = q /\ (value[c] = Nil \/ Found(c)')
    BY <1>1, <1>4 DEF Awaiting, heap
  <2>1. CASE q \in DOMAIN backtrack /\ c \in DOMAIN backtrack[q]
    BY <1>8, <2>1 DEF FramesInv, Awaiting
  <2>2. CASE q = r /\ c = Top.cell
    BY <1>1, <1>3, <2>2 DEF r
  <2>. QED BY <1>1, <2>1, <2>2 DEF Callbacks
<1>. QED BY <1>6, <1>7, <1>9 DEF FramesInv

Stable == \A c \in DOMAIN value : value[c] # Nil => value'[c] = value[c]

\* Only the frame on top is concerned with its component.
LEMMA OthersElsewhere ==
  ASSUME IInv, Distinct, stack # <<>>, InProgress(Top) # Nil,
         NEW i \in DOMAIN stack, i # Len(stack), stack[i].fn = "resolveSchemaRef",
         stack[i].pc # "enter"
  PROVE  RefOf(stack[i].cell) # InProgress(Top)
<1>1. InProgress(stack[i]) = RefOf(stack[i].cell)
  BY DEF InProgress
<1>. QED BY <1>1, TopAlone

LEMMA FoundFrames ==
  ASSUME IInv, FramesInv, world' = world, UNCHANGED visits, Live' => Live,
         stack # <<>>, Top.fn = "resolveSchemaRef", Top.pc \in {"element", "copy"},
         NEW f, f.fn = Top.fn, f.cell = Top.cell, f.pc = "children",
         f.held = value'[Top.cell], Goto(f),
         DOMAIN value \subseteq DOMAIN value',
         \A c \in DOMAIN value : c # Top.cell => value'[c] = value[c]
  PROVE  FramesInv' /\ Stable
<1>1. /\ DOMAIN stack' = DOMAIN stack /\ stack'[Len(stack)] = f /\ Len(stack) \in DOMAIN stack
      /\ \A i \in DOMAIN stack : i # Len(stack) => stack'[i] = stack[i]
  BY GotoMoves DEF IInv
<1>2. /\ \A c : RefOf(c)' = RefOf(c)
      /\ \A i \in DOMAIN stack' : InProgress(stack[i])' = InProgress(stack'[i])
  BY SameWorld
<1>3. Top.cell \in DOMAIN value /\ RefOf(Top.cell) # Nil /\ value[Top.cell] = Nil
  <2>1. FrameOK(Top)
    BY TopType DEF IInv
  <2>2. Carries(Top)
    BY <1>1 DEF FramesInv, Carrying, Top
  <2>. QED BY <2>1, <2>2, NullsAssumption DEF FrameOK, Carries
<1>4. InProgress(Top) = RefOf(Top.cell) /\ InProgress(f) = RefOf(Top.cell)
  BY DEF InProgress
<1>5. /\ OpenFrames' = OpenFrames
      /\ \A i \in OpenFrames : InProgress(stack[i])' = InProgress(stack[i])
  BY <1>1, <1>2, <1>3, <1>4 DEF OpenFrames, Top
<1>6. Distinct' /\ Visiting' /\ Matching'
  BY <1>5, PairedStays DEF FramesInv, Distinct, Visiting, Matching, visits
<1>7. Carrying'
  <2>. SUFFICES ASSUME NEW i \in DOMAIN stack' PROVE Carries(stack[i])'
    BY DEF Carrying
  <2>1. CASE i = Len(stack)
    BY <1>1, <2>1 DEF Carries
  <2>2. CASE i # Len(stack) /\ stack[i].fn = "resolveSchemaRef" /\ stack[i].pc # "enter"
    <3>1. stack[i].cell # Top.cell
      BY <1>1, <1>3, <1>4, <2>2, OthersElsewhere DEF FramesInv
    <3>2. stack[i].cell \in DOMAIN value
      BY <1>1, <2>2 DEF IInv, StackOK, FrameOK
    <3>3. Carries(stack[i])
      BY <1>1 DEF FramesInv, Carrying
    <3>. QED BY <1>1, <1>2, <2>2, <3>1, <3>2, <3>3 DEF Carries
  <2>3. CASE i # Len(stack) /\ ~(stack[i].fn = "resolveSchemaRef" /\ stack[i].pc # "enter")
    BY <1>1, <2>3 DEF Carries
  <2>. QED BY <2>1, <2>2, <2>3
<1>8. Awaiting'
  <2>1. \A c : Found(c) => Found(c)'
    <3>. SUFFICES ASSUME NEW c, Found(c) PROVE Found(c)'
      OBVIOUS
    <3>. PICK i \in DOMAIN stack : /\ stack[i].fn = "resolveSchemaRef"
                                   /\ stack[i].pc = "children" /\ stack[i].cell = c
      BY DEF Found
    <3>1. i # Len(stack)
      BY DEF Top
    <3>. QED BY <1>1, <3>1 DEF Found
  <2>2. \A c : c = Top.cell => Found(c)'
    BY <1>1 DEF Found
  <2>. QED BY <1>2, <2>1, <2>2 DEF FramesInv, Awaiting, visits
<1>. QED BY <1>3, <1>6, <1>7, <1>8 DEF FramesInv, Stable

LEMMA UnvisitFrames ==
  ASSUME IInv, FramesInv, world' = world, Live' => Live,
         stack # <<>>, Handing(Top), UnvisitRef(RefOf(Top.cell), Top.held), Pop
  PROVE  FramesInv' /\ Stable
<1>. DEFINE r == RefOf(Top.cell)
<1>1. /\ DOMAIN stack' = DOMAIN stack \ {Len(stack)} /\ Len(stack) \in DOMAIN stack
      /\ \A i \in DOMAIN stack' : stack'[i] = stack[i]
  BY PopMoves DEF IInv
<1>2. /\ \A c : RefOf(c)' = RefOf(c)
      /\ \A i \in DOMAIN stack' : InProgress(stack[i])' = InProgress(stack'[i])
  BY SameWorld
<1>3. /\ DOMAIN value' = DOMAIN value
      /\ \A c \in DOMAIN value : value'[c] = IF c \in DOMAIN Callbacks(r) THEN Top.held ELSE value[c]
      /\ visitedRefs' = visitedRefs \ {r}
      /\ visitedPath' = SubSeq(visitedPath, 1, Len(visitedPath) - 1)
      /\ DOMAIN backtrack' = DOMAIN backtrack \ {r}
      /\ \A q \in DOMAIN backtrack \ {r} : backtrack'[q] = backtrack[q]
  BY DEF UnvisitRef
<1>4. r # Nil /\ InProgress(Top) = r /\ Top.cell \in DOMAIN value /\ value[Top.cell] = Top.held
  <2>1. FrameOK(Top)
    BY TopType DEF IInv
  <2>2. Carries(Top)
    BY <1>1 DEF FramesInv, Carrying, Top
  <2>. QED BY <2>1, <2>2 DEF FrameOK, Carries, Handing, InProgress
<1>5. \A c \in DOMAIN Callbacks(r) : RefOf(c) = r /\ (value[c] = Nil \/ value[c] = Top.held)
  <2>. SUFFICES ASSUME NEW c \in DOMAIN Callbacks(r)
                PROVE  RefOf(c) = r /\ (value[c] = Nil \/ value[c] = Top.held)
    OBVIOUS
  <2>1. RefOf(c) = r /\ (value[c] = Nil \/ Found(c))
    BY DEF Callbacks, FramesInv, Awaiting
  <2>2. ASSUME Found(c) PROVE c = Top.cell
    <3>. PICK i \in DOMAIN stack : /\ stack[i].fn = "resolveSchemaRef"
                                   /\ stack[i].pc = "children" /\ stack[i].cell = c
      BY <2>2 DEF Found
    <3>1. i = Len(stack)
      BY <1>4, <2>1, OthersElsewhere DEF FramesInv
    <3>. QED BY <3>1 DEF Top
  <2>. QED BY <1>4, <2>1, <2>2
<1>6. Stable
  BY <1>3, <1>5 DEF Stable
<1>. HIDE DEF r
<1>7. \A i \in OpenFrames' : /\ i \in OpenFrames /\ i # Len(stack)
                             /\ InProgress(stack[i])' = InProgress(stack[i])
  BY <1>1, <1>2 DEF OpenFrames
<1>8. Distinct' /\ Visiting' /\ Matching'
  <2>1. Distinct'
    BY <1>7 DEF FramesInv, Distinct
  <2>2. \A i \in OpenFrames : i # Len(stack) => InProgress(stack[i]) # r
    BY <1>4, TopAlone DEF FramesInv, OpenFrames
  <2>3. Visiting'
    BY <1>3, <1>7, <2>2 DEF FramesInv, Visiting
  <2>4. Len(stack) \in OpenFrames /\ InProgress(stack[Len(stack)]) = r
    BY <1>1, <1>4 DEF OpenFrames, Top
  <2>5. OpenFrames' = OpenFrames \ {Len(stack)}
    BY <1>1, <1>2, <1>7 DEF OpenFrames
  <2>6. ASSUME Paired PROVE Paired'
    BY <1>3, <1>7, <2>4, <2>5, <2>6, PairedUnvisit
  <2>. QED BY <2>1, <2>3, <2>6 DEF FramesInv, Matching
<1>9. Carrying'
  <2>. SUFFICES ASSUME NEW i \in DOMAIN stack' PROVE Carries(stack[i])'
    BY DEF Carrying
  <2>1. i \in DOMAIN stack /\ i # Len(stack) /\ stack'[i] = stack[i] /\ Carries(stack[i])
    BY <1>1 DEF FramesInv, Carrying
  <2>2. CASE stack[i].fn = "resolveSchemaRef" /\ stack[i].pc # "enter"
    <3>1. RefOf(stack[i].cell) # r
      BY <1>4, <2>1, <2>2, OthersElsewhere DEF FramesInv
    <3>2. stack[i].cell \in DOMAIN value
      BY <2>1, <2>2 DEF IInv, StackOK, FrameOK
    <3>3. value'[stack[i].cell] = value[stack[i].cell]
      BY <1>3, <1>5, <3>1, <3>2
    <3>. QED BY <1>2, <2>1, <2>2, <3>3 DEF Carries
  <2>3. CASE ~(stack[i].fn = "resolveSchemaRef" /\ stack[i].pc # "enter")
    BY <2>1, <2>3 DEF Carries
  <2>. QED BY <2>2, <2>3
<1>10. Awaiting'
  <2>. SUFFICES ASSUME NEW q \in DOMAIN backtrack \ {r}, NEW c \in DOMAIN backtrack[q]
                PROVE  /\ c \in DOMAIN value /\ RefOf(c) = q
                       /\ value'[c] = Nil \/ Found(c)'
    BY <1>2, <1>3 DEF Awaiting
  <2>1. c \in DOMAIN value /\ RefOf(c) = q /\ (value[c] = Nil \/ Found(c))
    BY DEF FramesInv, Awaiting
  <2>2. value'[c] = value[c]
    BY <1>3, <1>5, <2>1
  <2>3. ASSUME Found(c) PROVE Found(c)'
    <3>. PICK i \in DOMAIN stack : /\ stack[i].fn = "resolveSchemaRef"
                                   /\ stack[i].pc = "children" /\ stack[i].cell = c
      BY <2>3 DEF Found
    <3>1. i # Len(stack)
      BY <2>1 DEF Top, r
    <3>. QED BY <1>1, <3>1 DEF Found
  <2>. QED BY <2>1, <2>2, <2>3
<1>. QED BY <1>6, <1>8, <1>9, <1>10 DEF FramesInv

(***************************************************************************)
(* Every step keeps the frames apart and the values stable.                *)
(***************************************************************************)
\* What is decoded is new: it has a number not used before, or belongs to a
\* document that was not cached before.
LEMMA FreshCells ==
  ASSUME HeapOK, Born, NEW new,
         \A c \in new : c.inst = fresh \/ (c.inst = 0 /\ c.uri \notin visitedDocuments)
  PROVE  new \cap DOMAIN value = {}
<1>. SUFFICES ASSUME NEW c \in new, c \in DOMAIN value PROVE FALSE
  OBVIOUS
<1>1. c.inst < fresh /\ (c.inst = 0 => c.uri \in visitedDocuments)
  BY DEF Born
<1>2. fresh \in Nat /\ ~(fresh < fresh)
  BY DEF HeapOK
<1>. QED BY <1>1, <1>2

LEMMA AllocateGrows ==
  ASSUME HeapOK, Born, NEW u \in Uris, u \notin visitedDocuments, Allocate(DocCells(u)),
         visitedDocuments' = visitedDocuments \cup {u}, fresh' = fresh
  PROVE  Grown /\ Born'
<1>1. \A c \in DocCells(u) : c.inst = 0 /\ c.uri = u
  BY DEF DocCells, Decoded
<1>2. DocCells(u) \cap DOMAIN value = {}
  BY <1>1, FreshCells
<1>3. Grown
  BY <1>2 DEF Allocate, Grown
<1>4. fresh \in Nat /\ fresh # 0 /\ 0 < fresh
  BY DEF HeapOK, Born
<1>5. \A c \in DOMAIN value' : c \in DOMAIN value \/ c \in DocCells(u)
  BY DEF Allocate
<1>6. Born'
  BY <1>1, <1>4, <1>5 DEF Born
<1>. QED BY <1>3, <1>6

LEMMA DecodingGrows ==
  ASSUME HeapOK, Born, NEW new, \A c \in new : c.inst = fresh,
         DOMAIN value' = DOMAIN value \cup new, fresh' = fresh + 1,
         visitedDocuments' = visitedDocuments
  PROVE  Born' /\ new \cap DOMAIN value = {}
<1>1. new \cap DOMAIN value = {}
  BY FreshCells
<1>2. DOMAIN value \subseteq CellId /\ fresh \in Nat
  BY DEF HeapOK, Cells
<1>3. \A c \in DOMAIN value : c.inst < fresh + 1
  <2>. SUFFICES ASSUME NEW c \in DOMAIN value PROVE c.inst < fresh + 1
    OBVIOUS
  <2>1. c.inst \in Nat /\ c.inst < fresh
    BY <1>2 DEF Born, CellId
  <2>. QED BY <1>2, <2>1
<1>4. fresh < fresh + 1 /\ fresh # 0 /\ fresh + 1 # 0
  BY <1>2 DEF Born
<1>5. Born'
  BY <1>3, <1>4 DEF Born
<1>. QED BY <1>1, <1>5

LEMMA BornKept ==
  ASSUME Born, DOMAIN value' = DOMAIN value, fresh' = fresh,
         visitedDocuments \subseteq visitedDocuments'
  PROVE  Born'
BY DEF Born

LEMMA EntriesAreFrames ==
  ASSUME NEW u \in Uris, NEW c \in CellId, NEW d \in Uris, NEW p \in Uris
  PROVE  /\ DocFrame(u) \in Frame /\ Entering(DocFrame(u))
         /\ RefFrame(c, d, p) \in Frame /\ Entering(RefFrame(c, d, p))
BY DEF DocFrame, RefFrame, Frame, Entering

\* The steps of the program's calls.
LEMMA LoadFrames ==
  ASSUME ValueInv, LoadFromURI
  PROVE  FramesInv' /\ Stable /\ Born' /\ Resting'
<1>. PICK u \in Uris : \/ LoadReadFails(u) \/ LoadCached(u)
                       \/ LoadUndecodable(u) \/ LoadDecoded(u)
  BY DEF LoadFromURI
<1>1. /\ stack = <<>> /\ world' = world /\ fresh' = fresh /\ backtrack' = <<>>
      /\ visitedDocuments \subseteq visitedDocuments'
  BY DEF LoadReadFails, LoadCached, LoadUndecodable, LoadDecoded, Begin, static, ValueInv,
         Resting
<1>2. /\ stack' = <<>> \/ stack' = <<DocFrame(u)>>
      /\ status' = "idle" => stack' = <<>>
  BY <1>1 DEF LoadReadFails, LoadCached, LoadUndecodable, LoadDecoded, Begin
<1>3. \A i \in DOMAIN stack' : stack'[i].fn = "ResolveRefsIn"
  BY <1>2 DEF DocFrame
<1>4. OpenFrames' = {}
  BY <1>3 DEF OpenFrames, InProgress
<1>5. Distinct' /\ Visiting' /\ Matching' /\ Resting'
  <2>1. visitedRefs' = {} /\ visitedPath' = <<>>
    BY DEF LoadReadFails, LoadCached, LoadUndecodable, LoadDecoded, Begin
  <2>2. Paired'
    BY <1>4, <2>1, FS_EmptySet DEF Paired
  <2>. QED BY <1>2, <1>4, <2>2 DEF Distinct, Visiting, Matching, Resting
<1>6. Carrying'
  BY <1>3 DEF Carrying, Carries
<1>7. Awaiting'
  BY <1>1 DEF Awaiting
<1>8. CASE LoadDecoded(u)
  <2>1. Grown /\ Born'
    BY <1>1, <1>8, AllocateGrows DEF LoadDecoded, ValueInv, IInv
  <2>. QED BY <1>5, <1>6, <1>7, <2>1 DEF FramesInv, Grown, Stable
<1>9. CASE LoadReadFails(u) \/ LoadCached(u) \/ LoadUndecodable(u)
  <2>1. value' = value
    BY <1>9 DEF LoadReadFails, LoadCached, LoadUndecodable
  <2>2. Born'
    BY <1>1, <2>1, BornKept DEF ValueInv
  <2>. QED BY <1>5, <1>6, <1>7, <2>1, <2>2 DEF FramesInv, Stable
<1>. QED BY <1>8, <1>9

LEMMA GrownStable ==
  ASSUME Grown
  PROVE  Stable
BY DEF Grown, Stable

LEMMA HeapSame == ASSUME UNCHANGED heap PROVE Grown /\ DOMAIN value' = DOMAIN value /\ fresh' = fresh
BY DEF heap, Grown

LEMMA QuietSame ==
  ASSUME IInv, FramesInv, world' = world, UNCHANGED visits, Grown,
         Live' => Live, stack' = stack
  PROVE  FramesInv'
<1>1. \A i \in DOMAIN stack : Follows(stack[i], stack'[i])
  BY SelfFollows
<1>. QED BY <1>1, QuietStep

LEMMA DocumentFrames ==
  ASSUME ValueInv, NextComponent \/ DocumentDone
  PROVE  FramesInv' /\ Stable /\ Born'
<1>1. /\ stack # <<>> /\ Top.fn = "ResolveRefsIn" /\ Top.pc = "components"
      /\ UNCHANGED <<static, heap, visitedDocuments, visits>> /\ world' = world
      /\ Live
  BY DEF NextComponent, DocumentDone, At, static, Live
<1>2. IInv /\ FramesInv /\ Top \in Frame /\ Grown /\ Stable /\ Born'
  BY <1>1, TopType, HeapSame, GrownStable, BornKept DEF ValueInv, IInv, FramesInv
<1>3. CASE NextComponent
  <2>. DEFINE n == NameOrder[Top.pos + 1]
              f == [Top EXCEPT !.pos = @ + 1]
              c == [inst |-> 0, uri |-> Top.doc, name |-> n, k |-> 0]
  <2>1. f \in Frame /\ f.fn = Top.fn /\ f.cell = Top.cell /\ f.pc = Top.pc /\ f.held = Top.held
    BY <1>2 DEF Frame
  <2>2. Follows(Top, f)
    BY <1>1, <2>1 DEF Follows, InProgress, Carries
  <2>3. CASE Goto(f)
    BY <1>1, <1>2, <2>2, <2>3, QuietGoto
  <2>4. CASE n \in Typed(Top.doc) /\ Call(f, RefFrame(c, Top.doc, Top.path))
    <3>1. c \in CellId
      BY <1>2, <2>4 DEF Typed, IInv, HeapOK, Cells
    <3>2. RefFrame(c, Top.doc, Top.path) \in Frame /\ Entering(RefFrame(c, Top.doc, Top.path))
      BY <1>2, <3>1, EntriesAreFrames DEF Frame
    <3>. HIDE DEF f, c
    <3>. QED BY <1>1, <1>2, <2>1, <2>2, <2>4, <3>2, QuietCall
  <2>. QED BY <1>2, <1>3, <2>3, <2>4 DEF NextComponent
<1>4. CASE DocumentDone
  <2>1. Pop /\ ~Handing(Top) /\ InProgress(Top) = Nil
    BY <1>1, <1>4 DEF DocumentDone, Handing, InProgress
  <2>. QED BY <1>1, <1>2, <2>1, QuietPop
<1>. QED BY <1>3, <1>4

LEMMA GuardFrames ==
  ASSUME ValueInv, EnterInline \/ EnterResolved \/ EnterInProgress \/ EnterUnvisited
  PROVE  FramesInv' /\ Stable /\ Born'
<1>1. /\ stack # <<>> /\ Top.fn = "resolveSchemaRef" /\ Top.pc = "enter"
      /\ UNCHANGED <<static, heap, visitedDocuments, status>> /\ world' = world /\ Live
  BY DEF EnterInline, EnterResolved, EnterInProgress, EnterUnvisited, At, static, Live
<1>2. IInv /\ FramesInv /\ Top \in Frame /\ Grown /\ Stable /\ Born'
  BY <1>1, TopType, HeapSame, GrownStable, BornKept DEF ValueInv, IInv, FramesInv
<1>3. CASE EnterInline
  <2>. DEFINE f == [Top EXCEPT !.pc = "children", !.held = value[Top.cell]]
  <2>1. f.fn = Top.fn /\ f.cell = Top.cell /\ f.pc = "children" /\ RefOf(Top.cell) = Nil
    BY <1>2, <1>3 DEF Frame, EnterInline
  <2>2. Follows(Top, f)
    BY <1>1, <2>1 DEF Follows, InProgress, Carries
  <2>3. Goto(f) /\ UNCHANGED visits
    BY <1>3 DEF EnterInline
  <2>. HIDE DEF f
  <2>. QED BY <1>1, <1>2, <2>2, <2>3, QuietGoto
<1>4. CASE EnterResolved
  <2>1. Pop /\ ~Handing(Top) /\ InProgress(Top) = Nil /\ UNCHANGED visits
    BY <1>1, <1>4 DEF EnterResolved, Handing, InProgress
  <2>. QED BY <1>1, <1>2, <2>1, QuietPop
<1>5. CASE EnterInProgress
  BY <1>2, <1>5, EnterInProgressFrames
<1>6. CASE EnterUnvisited
  BY <1>2, <1>6, EnterUnvisitedFrames DEF ValueInv
<1>. QED BY <1>3, <1>4, <1>5, <1>6

LEMMA FailFrames ==
  ASSUME ValueInv, ElementFails \/ DocumentFails \/ DocumentUndecodable \/ DrillFails
  PROVE  FramesInv' /\ Stable /\ Born'
<1>1. /\ UNCHANGED <<static, heap, visits, stack>> /\ world' = world
      /\ ~Live' /\ visitedDocuments \subseteq visitedDocuments'
  BY DEF ElementFails, DocumentFails, DocumentUndecodable, DrillFails, Fail, static, Live
<1>2. IInv /\ FramesInv /\ Grown /\ Stable /\ Born'
  BY <1>1, HeapSame, GrownStable, BornKept DEF ValueInv, IInv, FramesInv
<1>. QED BY <1>1, <1>2, QuietSame

LEMMA ElementFrames ==
  ASSUME ValueInv, ElementDecoded
  PROVE  FramesInv' /\ Stable /\ Born'
<1>. DEFINE c   == Top.cell
            u   == RefOf(c).file
            v   == [inst |-> fresh, uri |-> u, name |-> Root]
            new == Decoded(fresh, u, Root)
            f   == [Top EXCEPT !.pc = "children", !.path = ElementPath(u), !.held = v]
<1>1. /\ stack # <<>> /\ Top.fn = "resolveSchemaRef" /\ Top.pc = "element"
      /\ value' = [d \in DOMAIN value \cup new |->
              IF d = c THEN v ELSE IF d \in new THEN Unmarshalled(d) ELSE value[d]]
      /\ Goto(f) /\ fresh' = fresh + 1 /\ world' = world
      /\ UNCHANGED <<visitedDocuments, visits>> /\ Live
  BY DEF ElementDecoded, At, static, call, Live
<1>2. IInv /\ FramesInv /\ Top \in Frame /\ c \in DOMAIN value
  BY <1>1, TopType DEF ValueInv, IInv, FramesInv, FrameOK
<1>3. \A d \in new : d.inst = fresh
  BY DEF Decoded
<1>4. Born' /\ new \cap DOMAIN value = {}
  BY <1>1, <1>2, <1>3, DecodingGrows DEF ValueInv, IInv
<1>5. f.fn = Top.fn /\ f.cell = c /\ f.pc = "children" /\ f.held = v
  BY <1>2 DEF Frame
<1>6. /\ value'[c] = v /\ DOMAIN value \subseteq DOMAIN value'
      /\ \A d \in DOMAIN value : d # c => value'[d] = value[d]
  BY <1>1, <1>2, <1>4
<1>7. f.held = value'[Top.cell]
  BY <1>5, <1>6
<1>. HIDE DEF f, v, new, u
<1>8. FramesInv' /\ Stable
  BY <1>1, <1>2, <1>5, <1>6, <1>7, FoundFrames
<1>. QED BY <1>4, <1>8

LEMMA CopyFrames ==
  ASSUME ValueInv, CopyResolved
  PROVE  FramesInv' /\ Stable /\ Born'
<1>. DEFINE c == Top.cell
            f == [Top EXCEPT !.pc = "children", !.held = value[Top.tmp]]
<1>1. /\ stack # <<>> /\ Top.fn = "resolveSchemaRef" /\ Top.pc = "copy"
      /\ value' = [value EXCEPT ![c] = value[Top.tmp]]
      /\ Goto(f) /\ fresh' = fresh /\ world' = world
      /\ UNCHANGED <<visitedDocuments, visits>> /\ Live
  BY DEF CopyResolved, At, static, call, Live
<1>2. IInv /\ FramesInv /\ Top \in Frame /\ c \in DOMAIN value
  BY <1>1, TopType DEF ValueInv, IInv, FramesInv, FrameOK
<1>3. f.fn = Top.fn /\ f.cell = c /\ f.pc = "children" /\ f.held = value[Top.tmp]
  BY <1>2 DEF Frame
<1>4. /\ value'[c] = value[Top.tmp] /\ DOMAIN value' = DOMAIN value
      /\ \A d \in DOMAIN value : d # c => value'[d] = value[d]
  BY <1>1, <1>2
<1>5. f.held = value'[Top.cell]
  BY <1>3, <1>4
<1>6. Born'
  BY <1>1, <1>4, BornKept DEF ValueInv
<1>. HIDE DEF f
<1>7. FramesInv' /\ Stable
  BY <1>1, <1>2, <1>3, <1>4, <1>5, FoundFrames
<1>. QED BY <1>6, <1>7

LEMMA DocumentFoundFrames ==
  ASSUME ValueInv, DocumentHere \/ DocumentCached \/ DocumentLoaded
  PROVE  FramesInv' /\ Stable /\ Born'
<1>. DEFINE g(d) == [Top EXCEPT !.pc = "drill", !.tdoc = d]
<1>1. /\ stack # <<>> /\ Top.fn = "resolveSchemaRef" /\ Top.pc = "document"
      /\ UNCHANGED visits /\ world' = world /\ Live
  BY DEF DocumentHere, DocumentCached, DocumentLoaded, At, static, Live
<1>2. IInv /\ FramesInv /\ Top \in Frame
  BY <1>1, TopType DEF ValueInv, IInv, FramesInv
<1>3. \A d \in Uris : g(d) \in Frame /\ Follows(Top, g(d))
  <2>. SUFFICES ASSUME NEW d \in Uris PROVE g(d) \in Frame /\ Follows(Top, g(d))
    OBVIOUS
  <2>1. g(d) \in Frame /\ g(d).fn = Top.fn /\ g(d).cell = Top.cell /\ g(d).pc = "drill"
    BY <1>2 DEF Frame
  <2>. QED BY <1>1, <2>1 DEF Follows, InProgress, Carries
<1>4. CASE DocumentHere \/ DocumentCached
  <2>1. Grown /\ Stable /\ Born'
    BY <1>4, HeapSame, GrownStable, BornKept DEF ValueInv, DocumentHere, DocumentCached
  <2>2. \E d \in Uris : Goto(g(d))
    <3>1. CASE DocumentHere
      BY <1>2, <3>1 DEF DocumentHere, Frame
    <3>2. CASE DocumentCached
      BY <3>2 DEF DocumentCached, ValueInv, IInv, CallOK
    <3>. QED BY <1>4, <3>1, <3>2
  <2>. HIDE DEF g
  <2>. QED BY <1>1, <1>2, <1>3, <2>1, <2>2, QuietGoto
<1>5. CASE DocumentLoaded
  <2>. DEFINE u == RefOf(Top.cell).file
  <2>1. u \in Uris
    <3>1. RefOf(Top.cell) \in Ref
      BY <1>1, <1>2, TopType DEF IInv, FrameOK
    <3>. QED BY <1>5, <3>1, RefParts DEF DocumentLoaded
  <2>2. Grown /\ Stable /\ Born'
    BY <1>5, <2>1, AllocateGrows, GrownStable DEF DocumentLoaded, ValueInv, IInv
  <2>3. DocFrame(u) \in Frame /\ Entering(DocFrame(u)) /\ Call(g(u), DocFrame(u))
    BY <1>5, <2>1 DEF DocumentLoaded, DocFrame, Frame, Entering
  <2>. HIDE DEF g, u
  <2>. QED BY <1>1, <1>2, <1>3, <2>1, <2>2, <2>3, QuietCall
<1>. QED BY <1>4, <1>5

LEMMA DrillFrames ==
  ASSUME ValueInv, DrillTyped \/ DrillGeneric \/ DrillReread
  PROVE  FramesInv' /\ Stable /\ Born'
<1>. DEFINE n      == RefOf(Top.cell).name
            g(t)   == [Top EXCEPT !.pc = "copy", !.tmp = t]
            h(t)   == RefFrame(t, Top.tdoc, ComponentPath)
<1>1. /\ stack # <<>> /\ Top.fn = "resolveSchemaRef" /\ Top.pc = "drill"
      /\ UNCHANGED <<visits, visitedDocuments>> /\ world' = world /\ Live
      /\ fresh' = fresh + 1
  BY DEF DrillTyped, DrillGeneric, DrillReread, DecodeGeneric, At, static, Live
<1>2. IInv /\ FramesInv /\ Top \in Frame /\ fresh \in Nat
  BY <1>1, TopType DEF ValueInv, IInv, FramesInv, HeapOK
<1>3. n \in Names
  <2>1. RefOf(Top.cell) \in Ref /\ RefOf(Top.cell).name # Root
    BY <1>1, <1>2, TopType DEF IInv, FrameOK
  <2>. QED BY <2>1, RefParts
<1>4. \A t \in CellId : /\ g(t) \in Frame /\ Follows(Top, g(t))
                        /\ h(t) \in Frame /\ Entering(h(t))
  <2>. SUFFICES ASSUME NEW t \in CellId
                PROVE  g(t) \in Frame /\ Follows(Top, g(t)) /\ h(t) \in Frame /\ Entering(h(t))
    OBVIOUS
  <2>1. g(t) \in Frame /\ g(t).fn = Top.fn /\ g(t).cell = Top.cell /\ g(t).pc = "copy"
    BY <1>2 DEF Frame
  <2>2. Top.tdoc \in Uris /\ ComponentPath \in Uris
    BY <1>2 DEF Frame, ComponentPath
  <2>. QED BY <1>1, <2>1, <2>2, EntriesAreFrames DEF Follows, InProgress, Carries
<1>5. \E new, t : /\ \A d \in new : d.inst = fresh
                  /\ DOMAIN value' = DOMAIN value \cup new
                  /\ \A d \in DOMAIN value \ new : value'[d] = value[d]
                  /\ t \in CellId /\ Call(g(t), h(t))
  <2>1. CASE DrillTyped
    <3>. DEFINE t   == [inst |-> fresh, uri |-> Top.tdoc, name |-> n, k |-> 0]
                src == [inst |-> 0, uri |-> Top.tdoc, name |-> n, k |-> 0]
    <3>1. t \in CellId
      BY <1>2, <1>3 DEF CellId, Frame
    <3>2. t = [src EXCEPT !.inst = fresh]
      OBVIOUS
    <3>3. /\ value' = [d \in DOMAIN value \cup {t} |-> IF d = t THEN value[src] ELSE value[d]]
          /\ Call(g(t), h(t))
      BY <2>1, <3>2 DEF DrillTyped, ResolveCopy
    <3>4. t.inst = fresh
      OBVIOUS
    <3>. HIDE DEF t, src, g, h
    <3>5. /\ DOMAIN value' = DOMAIN value \cup {t}
          /\ \A d \in DOMAIN value \ {t} : value'[d] = value[d]
      BY <3>3
    <3>6. \A d \in {t} : d.inst = fresh
      BY <3>4
    <3>. QED BY <3>1, <3>3, <3>5, <3>6
  <2>2. ASSUME NEW u \in Uris, DecodeGeneric(u)
        PROVE  \E new, t : /\ \A d \in new : d.inst = fresh
                           /\ DOMAIN value' = DOMAIN value \cup new
                           /\ \A d \in DOMAIN value \ new : value'[d] = value[d]
                           /\ t \in CellId /\ Call(g(t), h(t))
    <3>. DEFINE t   == [inst |-> fresh, uri |-> u, name |-> n, k |-> 0]
                new == Decoded(fresh, u, n)
    <3>1. t \in CellId
      BY <1>2, <1>3 DEF CellId
    <3>2. \A d \in new : d.inst = fresh
      BY DEF Decoded
    <3>3. /\ DOMAIN value' = DOMAIN value \cup new
          /\ \A d \in DOMAIN value \ new : value'[d] = value[d]
          /\ Call(g(t), h(t))
      BY <2>2 DEF DecodeGeneric, ResolveCopy
    <3>. HIDE DEF new, t
    <3>. QED BY <3>1, <3>2, <3>3
  <2>3. CASE DrillGeneric
    BY <1>2, <2>2, <2>3 DEF DrillGeneric, Frame
  <2>4. CASE DrillReread
    BY <1>2, <2>2, <2>4 DEF DrillReread, Frame
  <2>. QED BY <2>1, <2>3, <2>4
<1>6. PICK new, t : /\ \A d \in new : d.inst = fresh
                    /\ DOMAIN value' = DOMAIN value \cup new
                    /\ \A d \in DOMAIN value \ new : value'[d] = value[d]
                    /\ t \in CellId /\ Call(g(t), h(t))
  BY <1>5
<1>7. Born' /\ new \cap DOMAIN value = {}
  BY <1>1, <1>6, DecodingGrows DEF ValueInv, IInv
<1>8. Grown /\ Stable
  BY <1>6, <1>7, GrownStable DEF Grown
<1>. HIDE DEF g, h
<1>. QED BY <1>1, <1>2, <1>4, <1>6, <1>7, <1>8, QuietCall

LEMMA NextChildFrames ==
  ASSUME ValueInv, NextChild
  PROVE  FramesInv' /\ Stable /\ Born'
<1>. DEFINE f == [Top EXCEPT !.pos = @ + 1]
            c == Children[Top.pos + 1]
<1>1. /\ stack # <<>> /\ Top.fn = "resolveSchemaRef" /\ Top.pc = "children"
      /\ Top.pos < Len(Children) /\ Call(f, RefFrame(c, Top.doc, Top.path))
      /\ UNCHANGED <<static, heap, visitedDocuments, visits>> /\ world' = world /\ Live
  BY DEF NextChild, At, static, Live
<1>2. IInv /\ FramesInv /\ Top \in Frame /\ Valid(Top.held)
  BY <1>1, TopType DEF ValueInv, IInv, FramesInv, FrameOK
<1>3. Grown /\ Stable /\ Born'
  BY <1>1, HeapSame, GrownStable, BornKept DEF ValueInv
<1>4. c \in CellId
  <2> DEFINE v == Top.held
             kids == ShapeAt(v.uri, v.name).kids
  <2>1. v # Nil
    BY <1>1, <1>2 DEF Children, Frame
  <2>2. v \in Objects /\ Allocated(v)
    BY <1>2, <2>1 DEF Valid
  <2>3. Len(kids) \in Nat /\ Children = KidCells(v)
    BY <2>1, <2>2, KidsType DEF Objects, Children
  <2>4. Top.pos + 1 \in 1..Len(kids)
    BY <1>1, <1>2, <2>3 DEF KidCells, Frame
  <2>5. c = [inst |-> v.inst, uri |-> v.uri, name |-> v.name, k |-> Top.pos + 1]
    BY <2>3, <2>4 DEF KidCells
  <2>. QED BY <2>2, <2>4, <2>5 DEF Objects, ValueId, CellId
<1>5. f \in Frame /\ Follows(Top, f)
  <2>1. /\ f \in Frame /\ f.cell = Top.cell /\ f.held = Top.held /\ f.pc = Top.pc
        /\ f.fn = Top.fn
    BY <1>2 DEF Frame
  <2>. QED BY <2>1 DEF Follows, InProgress, Carries
<1>6. RefFrame(c, Top.doc, Top.path) \in Frame /\ Entering(RefFrame(c, Top.doc, Top.path))
  BY <1>2, <1>4, EntriesAreFrames DEF Frame
<1>. HIDE DEF f, c
<1>. QED BY <1>1, <1>2, <1>3, <1>5, <1>6, QuietCall

LEMMA ReturnFrames ==
  ASSUME ValueInv, ReferenceDone \/ ReturnError
  PROVE  FramesInv' /\ Stable /\ Born'
<1>1. /\ stack # <<>> /\ Pop /\ world' = world /\ visitedDocuments' = visitedDocuments
      /\ Live' => (Live /\ Top.pc = "children")
      /\ IF Top.fn = "resolveSchemaRef" /\ Top.pc = "children"
         THEN ReturnRef ELSE UNCHANGED <<heap, visits>>
  BY DEF ReferenceDone, ReturnError, At, static, Live
<1>2. IInv /\ FramesInv
  BY DEF ValueInv, FramesInv
<1>3. CASE Handing(Top)
  <2>1. UnvisitRef(RefOf(Top.cell), Top.held)
    BY <1>1, <1>3 DEF Handing, ReturnRef
  <2>2. FramesInv' /\ Stable
    BY <1>1, <1>2, <1>3, <2>1, UnvisitFrames
  <2>3. DOMAIN value' = DOMAIN value /\ fresh' = fresh
    BY <2>1 DEF UnvisitRef
  <2>. QED BY <1>1, <2>2, <2>3, BornKept DEF ValueInv
<1>4. CASE ~Handing(Top)
  <2>1. UNCHANGED <<heap, visits>>
    BY <1>1, <1>4 DEF Handing, ReturnRef
  <2>2. Live' => InProgress(Top) = Nil
    BY <1>1, <1>4 DEF Handing, InProgress
  <2>3. Grown /\ Stable /\ Born'
    BY <1>1, <2>1, HeapSame, GrownStable, BornKept DEF ValueInv
  <2>. QED BY <1>1, <1>2, <1>4, <2>1, <2>2, <2>3, QuietPop
<1>. QED BY <1>3, <1>4

LEMMA RestingStep ==
  ASSUME ValueInv, Step
  PROVE  Resting'
<1>. SUFFICES ASSUME status' = "idle" PROVE stack' = <<>>
  BY DEF Resting
<1>1. status # "idle"
  BY DEF Step, ResolveRef, NextComponent, DocumentDone, EnterInline, EnterResolved,
     EnterInProgress, EnterUnvisited, ElementFails, ElementDecoded, DocumentHere,
     DocumentFails, DocumentCached, DocumentUndecodable, DocumentLoaded, DrillTyped,
     DrillGeneric, DrillReread, DrillFails, CopyResolved, NextChild, ReferenceDone,
     ReturnError, At
<1>2. stack # <<>> /\ Pop /\ Len(stack) = 1
  BY <1>1 DEF Step, ResolveRef, NextComponent, DocumentDone, EnterInline, EnterResolved,
     EnterInProgress, EnterUnvisited, ElementFails, ElementDecoded, DocumentHere,
     DocumentFails, DocumentCached, DocumentUndecodable, DocumentLoaded, DrillTyped,
     DrillGeneric, DrillReread, DrillFails, DecodeGeneric, CopyResolved, NextChild,
     ReferenceDone, ReturnError, Fail, At
<1>3. stack' \in Seq(Frame) /\ Len(stack') = 0
  BY <1>2, FrontOf DEF Pop, ValueInv, IInv, StackOK
<1>. QED BY <1>3

LEMMA FramesStep ==
  ASSUME ValueInv, [Next]_vars
  PROVE  ValueInv' /\ Stable
<1>1. IInv' /\ CallbacksVisited'
  BY StepKeeps, CallbacksStep DEF ValueInv
<1>2. CASE LoadFromURI
  BY <1>1, <1>2, LoadFrames DEF ValueInv, FramesInv
<1>3. CASE Step
  <2>1. FramesInv' /\ Stable /\ Born'
    BY <1>3, DocumentFrames, GuardFrames, FailFrames, ElementFrames, DocumentFoundFrames,
       DrillFrames, CopyFrames, NextChildFrames, ReturnFrames DEF Step, ResolveRef
  <2>. QED BY <1>1, <1>3, <2>1, RestingStep DEF ValueInv, FramesInv
<1>4. CASE Finished \/ UNCHANGED vars
  <2>1. UNCHANGED vars
    BY <1>4 DEF Finished
  <2>2. /\ world' = world /\ Live' = Live
        /\ UNCHANGED <<heap, visits, stack, status, visitedDocuments>>
    BY <2>1 DEF vars, heap, visits, Live
  <2>3. Grown /\ Stable /\ Born'
    BY <2>2, HeapSame, GrownStable, BornKept DEF ValueInv
  <2>4. FramesInv'
    BY <2>2, <2>3, QuietSame DEF ValueInv, FramesInv
  <2>5. Resting'
    BY <2>2 DEF ValueInv, Resting
  <2>. QED BY <1>1, <2>3, <2>4, <2>5 DEF ValueInv, FramesInv
<1>. QED BY <1>2, <1>3, <1>4 DEF Next

LEMMA ValueStarts == ASSUME Init PROVE ValueInv
<1>1. OpenFrames = {} /\ stack = <<>> /\ DOMAIN value = {} /\ DOMAIN backtrack = {}
  BY DEF Init, OpenFrames
<1>2. IInv /\ CallbacksVisited
  BY InitOK DEF Init, CallbacksVisited
<1>3. ~Live /\ fresh # 0
  BY DEF Init, Live
<1>4. Distinct /\ Visiting /\ Matching /\ Resting /\ Born /\ Carrying /\ Awaiting
  BY <1>1, <1>3 DEF Distinct, Visiting, Matching, Resting, Born, Carrying, Awaiting
<1>. QED BY <1>2, <1>4 DEF ValueInv

\* A component that has been given its value keeps pointing to it, whatever
\* callbacks, second visits, errors and later calls of the Loader do.
THEOREM ValuesAreStable == Spec => ValuesStable
<1>1. Init => ValueInv
  BY ValueStarts
<1>2. ValueInv /\ [Next]_vars => ValueInv'
  BY FramesStep
<1>3. ValueInv /\ [Next]_vars
        => [\A c \in DOMAIN value : value[c] # Nil => value'[c] = value[c]]_vars
  BY FramesStep DEF Stable
<1>. QED BY <1>1, <1>2, <1>3, PTL DEF Spec, ValuesStable

\* visitRef and unvisitRef pair up for any references, children and files, as
\* long as no error returns: the cycle guard of shouldVisitRef then knows the
\* references being resolved, all of them and no others.
THEOREM VisitsPairUp == Spec => []VisitsMatchStack
<1>1. Init => ValueInv
  BY ValueStarts
<1>2. ValueInv /\ [Next]_vars => ValueInv'
  BY FramesStep
<1>3. ValueInv => VisitsMatchStack
  BY DEF ValueInv, Matching, Paired, Live, VisitsMatchStack
<1>. QED BY <1>1, <1>2, <1>3, PTL DEF Spec

\* Every callback waits for a reference that a frame of the call stack has visited
\* and is still to unvisit, for any references, children and files, as long as no
\* error returns: after a load without an error none is left.
THEOREM CallbacksAreAwaited == Spec => []CallbacksAwaited
<1>1. Init => ValueInv
  BY ValueStarts
<1>2. ValueInv /\ [Next]_vars => ValueInv'
  BY FramesStep
<1>3. ValueInv => CallbacksAwaited
  <2> SUFFICES ASSUME ValueInv PROVE CallbacksAwaited
    OBVIOUS
  <2>1. \A r \in DOMAIN backtrack : \A c \in DOMAIN backtrack[r] : RefOf(c) = r
    BY DEF ValueInv, Awaiting
  <2>2. ASSUME Live, NEW r \in DOMAIN backtrack
        PROVE  \E i \in OpenFrames : InProgress(stack[i]) = r
    <3>. DEFINE visit == [i \in OpenFrames |-> InProgress(stack[i])]
    <3>1. Paired /\ r \in visitedRefs
      BY <2>2 DEF ValueInv, Matching, CallbacksVisited
    <3>2. visit \in [OpenFrames -> visitedRefs]
      BY <2>2 DEF ValueInv, Visiting
    <3>3. \A i, j \in OpenFrames : visit[i] = visit[j] => i = j
      BY DEF ValueInv, Distinct
    <3>4. visit \in Injection(OpenFrames, visitedRefs)
      <4>. HIDE DEF visit
      <4>. QED BY <3>2, <3>3, Fun_IsInj
    <3>5. visit \in Surjection(OpenFrames, visitedRefs)
      <4>. HIDE DEF visit
      <4>. QED BY <3>1, <3>4, FS_Injection DEF Paired
    <3>6. \E i \in OpenFrames : visit[i] = r
      <4>. HIDE DEF visit
      <4>. QED BY <3>1, <3>5, Fun_SurjectionProperties
    <3>. QED BY <3>6
  <2>. QED BY <2>1, <2>2 DEF CallbacksAwaited
<1>. QED BY <1>1, <1>2, <1>3, PTL DEF Spec
=============================================================================
