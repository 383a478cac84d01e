----------------------- MODULE RefLoaderResolvedProofs -----------------------
(***************************************************************************)
(* Theorems about RefLoader that say which references a load resolves.     *)
(*                                                                         *)
(* A component without a value is not forgotten: until the load returns,   *)
(* something on the call stack is still to visit it, or it waits for a     *)
(* callback of a reference that is being resolved.  A reference that stays *)
(* in its file needs no callback: some frame is still to visit it, and no  *)
(* reference in progress before that frame stands between it and its       *)
(* object.                                                                 *)
(***************************************************************************)
EXTENDS RefLoaderTargetProofs

(***************************************************************************)
(* References straight to an object.                                       *)
(***************************************************************************)
\* The component is a reference to an inline component.
Direct(c) == RefOf(c) # Nil /\ Known(Aim(c)) /\ RefAt(Aim(c)) = Nil

\* The component that the component c is, or is a sub-component of.
First(c) == [c EXCEPT !.k = 0]

\* The frame f is resolving the component c, or will visit it: in its loop over
\* the components of a document or over the sub-components of a value.
Reaches(f, c) ==
  \/ /\ f.fn = "ResolveRefsIn" /\ c.inst = 0 /\ f.doc = c.uri
     /\ \E p \in DOMAIN NameOrder : p > f.pos /\ NameOrder[p] = c.name
  \/ /\ f.fn = "resolveSchemaRef"
     /\ \/ f.pc # "children" /\ f.cell = c
        \/ f.pc = "enter" /\ f.cell = First(c)
        \/ f.pc = "children" /\ f.held = Target(c) /\ f.pos < c.k
Ahead(c) == \E i \in DOMAIN stack : Reaches(stack[i], c)

Settled(c) == value[c] # Nil \/ c \in DOMAIN Callbacks(RefOf(c)) \/ Ahead(c)
Covered    == loads = 1 /\ Live => \A c \in DOMAIN value : Direct(c) => Settled(c)

\* Inline components have values, and sub-components are of such.
Inlined ==
  \A c \in DOMAIN value :
    /\ RefOf(c) = Nil => value[c] # Nil
    /\ c.k > 0 => /\ First(c) \in DOMAIN value /\ RefOf(First(c)) = Nil
                  /\ value[First(c)] = Target(c)

\* A frame that has not begun to walk a value is before its first
\* sub-component, and one that has found a value has found one.
ReadyFrame(f) ==
  f.fn = "resolveSchemaRef" =>
    /\ f.pc # "children" => f.pos = 0
    /\ f.pc = "children" /\ Direct(f.cell) => f.held # Nil
Ready == \A i \in DOMAIN stack : ReadyFrame(stack[i])

Unused == loads = 0 => DOMAIN value = {} /\ visitedDocuments = {} /\ stack = <<>>

DirectInv ==
  TargetInv /\ Covered /\ Inlined /\ Ready /\ Unused /\ IsFiniteSet(DOMAIN value)

LEMMA SameDirect ==
  ASSUME world' = world
  PROVE  /\ \A c : Direct(c)' = Direct(c)
         /\ \A f : ReadyFrame(f)' = ReadyFrame(f)
<1>1. \A c : RefOf(c)' = RefOf(c)
  BY SameWorld
<1>2. \A c : Direct(c)' = Direct(c)
  BY DEF Direct, Known, RefAt, Aim, RefOf, Place, Defines, ShapeAt, LocOf, FileOf
<1>. QED BY <1>2 DEF ReadyFrame

LEMMA ReadyMoves ==
  ASSUME IInv, Ready, world' = world
  PROVE  /\ stack' = stack => Ready'
         /\ stack # <<>> /\ Pop => Ready'
         /\ stack # <<>> => \A f : ReadyFrame(f) /\ Goto(f) => Ready'
         /\ stack # <<>> => \A f, g : ReadyFrame(f) /\ ReadyFrame(g) /\ Call(f, g) => Ready'
<1>1. \A f : (\E i \in DOMAIN stack : f = stack[i]) => ReadyFrame(f)
  BY DEF Ready
<1>2. (\A i \in DOMAIN stack' : \E f : f = stack'[i] /\ ReadyFrame(f)) => Ready'
  <2>1. \A f : ReadyFrame(f) => ReadyFrame(f)'
    BY SameDirect
  <2>. QED BY <2>1 DEF Ready
<1>3. ASSUME stack' = stack PROVE Ready'
  BY <1>1, <1>2, <1>3
<1>4. ASSUME stack # <<>>, Pop PROVE Ready'
  <2>1. \A i \in DOMAIN stack' : i \in DOMAIN stack /\ stack'[i] = stack[i]
    BY <1>4, PopMoves DEF IInv
  <2>. QED BY <1>1, <1>2, <2>1
<1>5. ASSUME stack # <<>>, NEW f, ReadyFrame(f), Goto(f) PROVE Ready'
  <2>1. \A i \in DOMAIN stack' : stack'[i] = f \/ (i \in DOMAIN stack /\ stack'[i] = stack[i])
    BY <1>5, GotoMoves DEF IInv
  <2>. QED BY <1>1, <1>2, <1>5, <2>1
<1>6. ASSUME stack # <<>>, NEW f, NEW g, ReadyFrame(f), ReadyFrame(g), Call(f, g)
      PROVE  Ready'
  <2>1. \A i \in DOMAIN stack' : \/ stack'[i] = f \/ stack'[i] = g
                                 \/ (i \in DOMAIN stack /\ stack'[i] = stack[i])
    BY <1>6, CallPuts DEF IInv
  <2>. QED BY <1>1, <1>2, <1>6, <2>1
<1>. QED BY <1>3, <1>4, <1>5, <1>6

\* Only what the frame on top was to visit can be lost.
LEMMA AheadMoves ==
  ASSUME IInv, stack # <<>>
  PROVE  /\ Pop => \A c : Ahead(c) => Ahead(c)' \/ Reaches(Top, c)
         /\ \A f : Goto(f) => \A c : /\ Ahead(c) => Ahead(c)' \/ Reaches(Top, c)
                                     /\ Reaches(f, c) => Ahead(c)'
         /\ \A f, g : Call(f, g) => \A c : /\ Ahead(c) => Ahead(c)' \/ Reaches(Top, c)
                                           /\ Reaches(f, c) \/ Reaches(g, c) => Ahead(c)'
<1>1. \A c : (\E i \in DOMAIN stack' : Reaches(stack'[i], c)) => Ahead(c)'
  BY DEF Ahead
<1>2. ASSUME NEW c, Ahead(c), ~Reaches(Top, c)
      PROVE  \E i \in DOMAIN stack : i # Len(stack) /\ Reaches(stack[i], c)
  BY <1>2 DEF Ahead, Top
<1>3. ASSUME Pop, NEW c, Ahead(c), ~Reaches(Top, c) PROVE Ahead(c)'
  <2>1. \A i \in DOMAIN stack : i # Len(stack) => i \in DOMAIN stack' /\ stack'[i] = stack[i]
    BY <1>3, PopMoves DEF IInv
  <2>. QED BY <1>1, <1>2, <1>3, <2>1
<1>4. ASSUME NEW f, Goto(f), NEW c
      PROVE  /\ Ahead(c) => Ahead(c)' \/ Reaches(Top, c)
             /\ Reaches(f, c) => Ahead(c)'
  <2>1. /\ \A i \in DOMAIN stack : i # Len(stack) => i \in DOMAIN stack' /\ stack'[i] = stack[i]
        /\ Len(stack) \in DOMAIN stack' /\ stack'[Len(stack)] = f
    BY <1>4, GotoMoves DEF IInv
  <2>. QED BY <1>1, <1>2, <2>1
<1>5. ASSUME NEW f, NEW g, Call(f, g), NEW c
      PROVE  /\ Ahead(c) => Ahead(c)' \/ Reaches(Top, c)
             /\ Reaches(f, c) \/ Reaches(g, c) => Ahead(c)'
  <2>1. /\ \A i \in DOMAIN stack : i # Len(stack) => i \in DOMAIN stack' /\ stack'[i] = stack[i]
        /\ Len(stack) \in DOMAIN stack' /\ stack'[Len(stack)] = f
        /\ Len(stack) + 1 \in DOMAIN stack' /\ stack'[Len(stack) + 1] = g
    BY <1>5, CallPuts DEF IInv
  <2>. QED BY <1>1, <1>2, <2>1
<1>. QED BY <1>3, <1>4, <1>5

LEMMA CoveredKeeps ==
  ASSUME IInv, IInv', Covered, world' = world, Stable, Live' => Live, loads' = loads,
         \A c : Ahead(c) => Ahead(c)' \/ Reaches(Top, c),
         \A c \in DOMAIN value : Direct(c) /\ Reaches(Top, c) => Settled(c)',
         \A c \in DOMAIN value : Direct(c) /\ c \in DOMAIN Callbacks(RefOf(c)) => Settled(c)',
         \A c \in DOMAIN value' : c \notin DOMAIN value /\ Direct(c) => Settled(c)'
  PROVE  Covered'
<1>. SUFFICES ASSUME loads = 1, Live, NEW c \in DOMAIN value', Direct(c), c \in DOMAIN value
              PROVE  Settled(c)'
  BY SameDirect DEF Covered
<1>1. Settled(c)
  BY DEF Covered
<1>2. CASE value[c] # Nil
  BY <1>2 DEF Stable, Settled
<1>3. CASE c \in DOMAIN Callbacks(RefOf(c))
  BY <1>3
<1>4. CASE Ahead(c)
  BY <1>4 DEF Settled
<1>. QED BY <1>1, <1>2, <1>3, <1>4 DEF Settled

\* The callbacks left stay left.
LEMMA CallbacksStay ==
  ASSUME world' = world, UNCHANGED backtrack
  PROVE  \A c : c \in DOMAIN Callbacks(RefOf(c)) => Settled(c)'
<1>1. \A c : RefOf(c)' = RefOf(c)
  BY SameWorld
<1>. QED BY <1>1 DEF Settled, Callbacks

\* Only references are in progress, and they have no sub-components.
LEMMA FirstIsInline ==
  ASSUME DirectInv, NEW c \in DOMAIN value, NEW t, RefOf(t) # Nil, t = First(c)
  PROVE  t = c
<1>1. c \in CellId /\ c.k \in Nat
  BY DEF DirectInv, TargetInv, ValueInv, IInv, HeapOK, Cells, CellId
<1>2. ~(c.k > 0)
  BY DEF DirectInv, Inlined
<1>3. c.k = 0
  BY <1>1, <1>2
<1>. QED BY <1>1, <1>3 DEF First, CellId

(***************************************************************************)
(* The heap: what decoding adds to it.                                     *)
(***************************************************************************)
LEMMA TargetIs ==
  ASSUME NEW c \in CellId
  PROVE  Target(c) \in ValueId /\ Target(c) # Nil
BY NilAssumption DEF Target, CellId, ValueId

LEMMA DecodedInlined ==
  ASSUME NEW i \in Nat, NEW u \in Uris, NEW n \in Names \cup {Root}, ShapeAt(u, n) \in Shape
  PROVE  /\ \A c \in Decoded(i, u, n) :
              /\ RefOf(c) = Nil => Unmarshalled(c) # Nil
              /\ c.k > 0 => /\ First(c) \in Decoded(i, u, n) /\ RefOf(First(c)) = Nil
                            /\ Unmarshalled(First(c)) = Target(c)
         /\ IsFiniteSet(Decoded(i, u, n))
<1>. DEFINE s == ShapeAt(u, n)
            C(k) == [inst |-> i, uri |-> u, name |-> n, k |-> k]
<1>1. s.kids \in Seq(Ref) /\ s.ref \in Ref \cup {Nil} /\ (s.ref # Nil => s.kids = <<>>)
      /\ Len(s.kids) \in Nat
  BY KidsType
<1>2. ASSUME NEW k \in 0..Len(s.kids)
      PROVE  /\ RefOf(C(k)) = Nil => Unmarshalled(C(k)) # Nil
             /\ k > 0 => /\ First(C(k)) = C(0) /\ RefOf(C(0)) = Nil
                         /\ Unmarshalled(C(0)) = Target(C(k))
  <2>1. C(k) \in CellId /\ C(0) \in CellId /\ First(C(k)) = C(0) /\ Target(C(0)) = Target(C(k))
    BY <1>1 DEF First, Target, CellId
  <2>2. k > 0 => s.ref = Nil
    BY <1>1
  <2>3. RefOf(C(0)) = s.ref
    BY DEF RefOf
  <2>. HIDE DEF C
  <2>. QED BY <2>1, <2>2, <2>3, TargetIs DEF Unmarshalled
<1>3. Decoded(i, u, n) = { C(k) : k \in 0..Len(s.kids) } /\ C(0) \in Decoded(i, u, n)
  BY <1>1 DEF Decoded
<1>4. IsFiniteSet(Decoded(i, u, n))
  <2>. DEFINE S == 0..Len(s.kids)
              f == [k \in S |-> C(k)]
  <2>1. IsFiniteSet(S)
    BY <1>1, FS_Interval
  <2>2. f \in Surjection(S, Decoded(i, u, n))
    BY <1>3 DEF Surjection
  <2>. HIDE DEF f, S
  <2>. QED BY <2>1, <2>2, FS_Surjection
<1>5. \A k \in 0..Len(s.kids) : C(k).k = k
  OBVIOUS
<1>. HIDE DEF C, s
<1>. QED BY <1>2, <1>3, <1>4, <1>5

LEMMA DocCellsInlined ==
  ASSUME WorldOK, NEW u \in Uris
  PROVE  /\ \A c \in DocCells(u) :
              /\ RefOf(c) = Nil => Unmarshalled(c) # Nil
              /\ c.k > 0 => /\ First(c) \in DocCells(u) /\ RefOf(First(c)) = Nil
                            /\ Unmarshalled(First(c)) = Target(c)
         /\ IsFiniteSet(DocCells(u))
<1>1. ASSUME NEW c \in DocCells(u)
      PROVE  /\ RefOf(c) = Nil => Unmarshalled(c) # Nil
             /\ c.k > 0 => /\ First(c) \in DocCells(u) /\ RefOf(First(c)) = Nil
                           /\ Unmarshalled(First(c)) = Target(c)
  <2>1. PICK n \in Names : Defines(u, n) /\ c \in Decoded(0, u, n) /\ world[u].kind = "doc"
    BY DEF DocCells
  <2>2. ShapeAt(u, n) \in Shape /\ Decoded(0, u, n) \subseteq DocCells(u)
    BY <2>1, ShapeTypes DEF DocCells
  <2>. QED BY <2>1, <2>2, DecodedInlined
<1>2. IsFiniteSet(DocCells(u))
  <2>. DEFINE D == {m \in Names : Defines(u, m)}
              S == { Decoded(0, u, n) : n \in D }
              f == [n \in D |-> Decoded(0, u, n)]
  <2>1. IsFiniteSet(D)
    BY FilesAssumption, FS_Subset
  <2>2. f \in Surjection(D, S)
    BY DEF Surjection
  <2>3. IsFiniteSet(S)
    <3>. HIDE DEF f, D, S
    <3>. QED BY <2>1, <2>2, FS_Surjection
  <2>4. \A T \in S : IsFiniteSet(T)
    BY ShapeTypes, DecodedInlined
  <2>. HIDE DEF S
  <2>5. IsFiniteSet(UNION S)
    BY <2>3, <2>4, FS_UNION
  <2>. QED BY <2>5, FS_EmptySet DEF DocCells, S
<1>. QED BY <1>1, <1>2

LEMMA InlinedKeeps ==
  ASSUME IInv, Inlined, world' = world, Stable, DOMAIN value \subseteq DOMAIN value',
         \A c \in DOMAIN value' \ DOMAIN value :
            /\ RefOf(c) = Nil => value'[c] # Nil
            /\ c.k > 0 => /\ First(c) \in DOMAIN value' /\ RefOf(First(c)) = Nil
                          /\ value'[First(c)] = Target(c)
  PROVE  Inlined'
<1>1. \A c : RefOf(c)' = RefOf(c)
  BY SameWorld
<1>2. \A c : First(c)' = First(c) /\ Target(c)' = Target(c)
  BY DEF First, Target
<1>3. ASSUME NEW c \in DOMAIN value
      PROVE  /\ RefOf(c) = Nil => value'[c] # Nil
             /\ c.k > 0 => /\ First(c) \in DOMAIN value' /\ RefOf(First(c)) = Nil
                           /\ value'[First(c)] = Target(c)
  <2>1. Target(c) # Nil
    BY TargetIs DEF IInv, HeapOK, Cells
  <2>. QED BY <2>1 DEF Stable, Inlined
<1>4. \A c \in DOMAIN value' :
            /\ RefOf(c) = Nil => value'[c] # Nil
            /\ c.k > 0 => /\ First(c) \in DOMAIN value' /\ RefOf(First(c)) = Nil
                          /\ value'[First(c)] = Target(c)
  BY <1>3
<1>5. \A c : RefOf(First(c))' = RefOf(First(c))
  BY DEF First, RefOf, ShapeAt
<1>. QED BY <1>1, <1>4, <1>5 DEF Inlined, First, Target

(***************************************************************************)
(* The steps.                                                              *)
(***************************************************************************)
ResolvedInv == Covered /\ Inlined /\ Ready /\ IsFiniteSet(DOMAIN value)

LEMMA HeapResolved ==
  ASSUME DirectInv, world' = world, Stable, DOMAIN value' = DOMAIN value
  PROVE  Inlined' /\ IsFiniteSet(DOMAIN value')
BY InlinedKeeps DEF DirectInv, TargetInv, ValueInv

\* The steps of an error.
LEMMA ErrorResolved ==
  ASSUME DirectInv, Stable,
         \/ ElementFails \/ DocumentFails \/ DrillFails \/ DocumentUndecodable \/ ReturnError
  PROVE  ResolvedInv'
<1>1. world' = world /\ ~Live'
  BY DEF ElementFails, DocumentFails, DrillFails, DocumentUndecodable, ReturnError, Fail, static,
         Live
<1>2. IInv /\ Ready
  BY DEF DirectInv, TargetInv, ValueInv
<1>3. DOMAIN value' = DOMAIN value
  BY DEF ElementFails, DocumentFails, DrillFails, DocumentUndecodable, ReturnError, Fail, heap,
         ReturnRef, UnvisitRef
<1>4. stack' = stack \/ (stack # <<>> /\ Pop)
  BY DEF ElementFails, DocumentFails, DrillFails, DocumentUndecodable, ReturnError, Fail
<1>5. Ready'
  BY <1>1, <1>2, <1>4, ReadyMoves
<1>. QED BY <1>1, <1>3, <1>5, HeapResolved DEF ResolvedInv, Covered

LEMMA TopReady ==
  ASSUME DirectInv, stack # <<>>
  PROVE  /\ IInv /\ WorldOK /\ Top \in Frame /\ FrameOK(Top) /\ ReadyFrame(Top)
         /\ Covered /\ Ready /\ Carries(Top)
<1>1. IInv /\ Len(stack) \in DOMAIN stack /\ Top \in Frame /\ FrameOK(Top)
  BY TopType DEF DirectInv, TargetInv, ValueInv, IInv, StackOK
<1>. QED BY <1>1 DEF DirectInv, TargetInv, ValueInv, Carrying, Ready, Top, IInv

\* The steps that only move the stack.
LEMMA MoveResolved ==
  ASSUME DirectInv, IInv', Stable, world' = world, loads' = loads, stack # <<>>,
         Live' => Live, UNCHANGED <<value, backtrack>>, Ready',
         \A c : Ahead(c) => Ahead(c)' \/ Reaches(Top, c),
         \A c \in DOMAIN value : Direct(c) /\ Reaches(Top, c) => Settled(c)'
  PROVE  ResolvedInv'
<1>1. Inlined' /\ IsFiniteSet(DOMAIN value')
  BY HeapResolved
<1>2. \A c : c \in DOMAIN Callbacks(RefOf(c)) => Settled(c)'
  BY CallbacksStay
<1>3. IInv /\ Covered
  BY DEF DirectInv, TargetInv, ValueInv
<1>4. Covered'
  BY <1>2, <1>3, CoveredKeeps
<1>. QED BY <1>1, <1>4 DEF ResolvedInv

\* The component that is entered is inline, or has its value, or goes on.
LEMMA EnterResolvedStep ==
  ASSUME DirectInv, IInv', Stable, EnterInline \/ EnterResolved \/ EnterUnvisited
  PROVE  ResolvedInv'
<1>. DEFINE t == Top.cell
<1>1. /\ stack # <<>> /\ Top.fn = "resolveSchemaRef" /\ Top.pc = "enter"
      /\ world' = world /\ loads' = loads /\ UNCHANGED <<value, backtrack>> /\ (Live' => Live)
  BY DEF EnterInline, EnterResolved, EnterUnvisited, At, static, heap, visits, call, Live
<1>2. /\ IInv /\ Ready /\ Top \in Frame /\ t \in DOMAIN value /\ Top.pos = 0
  BY <1>1, TopReady DEF FrameOK, ReadyFrame
<1>3. \A c : Reaches(Top, c) <=> c = t \/ t = First(c)
  BY <1>1 DEF Reaches
<1>4. \A c : Ahead(c)' => Settled(c)'
  BY DEF Settled
<1>5. CASE EnterInline
  <2>. DEFINE f == [Top EXCEPT !.pc = "children", !.held = value[t]]
  <2>1. Goto(f) /\ RefOf(t) = Nil
    BY <1>5 DEF EnterInline
  <2>2. f.fn = "resolveSchemaRef" /\ f.pc = "children" /\ f.held = value[t] /\ f.pos = 0
        /\ f.cell = t
    BY <1>1, <1>2 DEF Frame
  <2>. HIDE DEF f
  <2>3. ReadyFrame(f)
    BY <2>1, <2>2 DEF ReadyFrame, Direct
  <2>4. \A c \in DOMAIN value : Direct(c) /\ Reaches(Top, c) => Reaches(f, c)
    <3>. SUFFICES ASSUME NEW c \in DOMAIN value, Direct(c), t = First(c) PROVE Reaches(f, c)
      BY <1>3, <2>1 DEF Direct
    <3>1. c.k \in Nat /\ c \in CellId
      BY <1>2 DEF IInv, HeapOK, Cells, CellId
    <3>2. c.k # 0
      <4>1. c.k = 0 => First(c) = c
        BY <3>1 DEF First, CellId
      <4>. QED BY <2>1, <4>1 DEF Direct
    <3>3. c.k > 0
      BY <3>1, <3>2
    <3>4. value[t] = Target(c)
      BY <3>3 DEF DirectInv, Inlined
    <3>. QED BY <2>2, <3>3, <3>4 DEF Reaches
  <2>5. /\ \A c : Ahead(c) => Ahead(c)' \/ Reaches(Top, c)
        /\ \A c : Reaches(f, c) => Ahead(c)'
    BY <1>1, <1>2, <2>1, AheadMoves
  <2>6. Ready'
    BY <1>1, <1>2, <2>1, <2>3, ReadyMoves
  <2>. QED BY <1>1, <1>4, <2>4, <2>5, <2>6, MoveResolved
<1>6. CASE EnterResolved
  <2>1. Pop /\ RefOf(t) # Nil /\ value[t] # Nil
    BY <1>6 DEF EnterResolved
  <2>2. \A c : Ahead(c) => Ahead(c)' \/ Reaches(Top, c)
    BY <1>1, <1>2, <2>1, AheadMoves
  <2>3. \A c \in DOMAIN value : Reaches(Top, c) => value[c] # Nil
    BY <1>3, <2>1, FirstIsInline
  <2>4. \A c \in DOMAIN value : value[c] # Nil => Settled(c)'
    BY DEF Stable, Settled
  <2>5. Ready'
    BY <1>1, <1>2, <2>1, ReadyMoves
  <2>. QED BY <1>1, <2>2, <2>3, <2>4, <2>5, MoveResolved
<1>7. CASE EnterUnvisited
  <2>. DEFINE F(p) == [Top EXCEPT !.pc = p]
  <2>1. (\E p \in {"element", "document"} : Goto(F(p))) /\ RefOf(t) # Nil
    BY <1>7 DEF EnterUnvisited
  <2>2. \A p : F(p).fn = Top.fn /\ F(p).cell = t /\ F(p).pc = p /\ F(p).pos = 0
    BY <1>2 DEF Frame
  <2>. HIDE DEF F
  <2>3. PICK f : /\ Goto(f) /\ f.fn = "resolveSchemaRef" /\ f.cell = t /\ f.pos = 0
                 /\ f.pc # "children"
    BY <1>1, <2>1, <2>2
  <2>4. ReadyFrame(f) /\ Reaches(f, t)
    BY <2>3 DEF ReadyFrame, Reaches
  <2>5. \A c \in DOMAIN value : Reaches(Top, c) => Reaches(f, c)
    BY <1>3, <2>1, <2>4, FirstIsInline
  <2>6. /\ \A c : Ahead(c) => Ahead(c)' \/ Reaches(Top, c)
        /\ \A c : Reaches(f, c) => Ahead(c)'
    BY <1>1, <1>2, <2>3, AheadMoves
  <2>7. Ready'
    BY <1>1, <1>2, <2>3, <2>4, ReadyMoves
  <2>. QED BY <1>1, <1>4, <2>5, <2>6, <2>7, MoveResolved
<1>. QED BY <1>5, <1>6, <1>7

\* The component waits for the reference that is being resolved.
LEMMA EnterInProgressResolved ==
  ASSUME DirectInv, IInv', Stable, EnterInProgress
  PROVE  ResolvedInv'
<1>. DEFINE t == Top.cell
            r == RefOf(t)
<1>1. /\ stack # <<>> /\ Top.fn = "resolveSchemaRef" /\ Top.pc = "enter"
      /\ world' = world /\ loads' = loads /\ UNCHANGED value /\ (Live' => Live)
      /\ r # Nil /\ Pop
      /\ backtrack' = [q \in DOMAIN backtrack \cup {r} |->
              IF q # r THEN backtrack[q]
              ELSE [c \in DOMAIN Callbacks(r) \cup {t} |->
                      IF c \in DOMAIN Callbacks(r) THEN Callbacks(r)[c]
                      ELSE LocOf(r, Top.path)]]
  BY DEF EnterInProgress, At, static, heap, call, Live
<1>2. IInv /\ Ready /\ Covered
  BY <1>1, TopReady
<1>3. \A c : RefOf(c)' = RefOf(c)
  BY <1>1, SameWorld
<1>4. \A q, c : c \in DOMAIN Callbacks(q) \/ (q = r /\ c = t) => c \in (DOMAIN Callbacks(q)')
  <2>. HIDE DEF r, t
  <2>. QED BY <1>1 DEF Callbacks
<1>5. \A c : c \in DOMAIN Callbacks(RefOf(c)) \/ c = t => Settled(c)'
  BY <1>3, <1>4 DEF Settled
<1>6. \A c : Ahead(c) => Ahead(c)' \/ Reaches(Top, c)
  BY <1>1, <1>2, AheadMoves
<1>7. \A c \in DOMAIN value : Reaches(Top, c) => c = t
  <2>1. \A c : Reaches(Top, c) <=> c = t \/ t = First(c)
    BY <1>1 DEF Reaches
  <2>. QED BY <1>1, <2>1, FirstIsInline
<1>8. Covered'
  BY <1>1, <1>2, <1>5, <1>6, <1>7, CoveredKeeps
<1>9. Ready'
  BY <1>1, <1>2, ReadyMoves
<1>. QED BY <1>1, <1>8, <1>9, HeapResolved DEF ResolvedInv

LEMMA DocumentFoundResolved ==
  ASSUME DirectInv, IInv', Stable, DocumentHere \/ DocumentCached
  PROVE  ResolvedInv'
<1>. DEFINE t    == Top.cell
            F(u) == [Top EXCEPT !.pc = "drill", !.tdoc = u]
<1>1. /\ stack # <<>> /\ Top.fn = "resolveSchemaRef" /\ Top.pc = "document"
      /\ world' = world /\ loads' = loads /\ UNCHANGED <<value, backtrack>> /\ (Live' => Live)
      /\ \E u : Goto(F(u))
  BY DEF DocumentHere, DocumentCached, At, static, heap, visits, call, Live
<1>2. IInv /\ Ready /\ Top \in Frame /\ Top.pos = 0
  BY <1>1, TopReady DEF ReadyFrame
<1>3. \A u : F(u).fn = Top.fn /\ F(u).cell = t /\ F(u).pc = "drill" /\ F(u).pos = 0
  BY <1>2 DEF Frame
<1>. HIDE DEF F
<1>4. PICK f : /\ Goto(f) /\ f.fn = "resolveSchemaRef" /\ f.cell = t /\ f.pos = 0
               /\ f.pc = "drill"
  BY <1>1, <1>3
<1>5. ReadyFrame(f) /\ \A c : Reaches(Top, c) => Reaches(f, c)
  BY <1>1, <1>4 DEF ReadyFrame, Reaches
<1>6. /\ \A c : Ahead(c) => Ahead(c)' \/ Reaches(Top, c)
      /\ \A c : Reaches(f, c) => Ahead(c)'
  BY <1>1, <1>2, <1>4, AheadMoves
<1>7. Ready'
  BY <1>1, <1>2, <1>4, <1>5, ReadyMoves
<1>8. \A c : Ahead(c)' => Settled(c)'
  BY DEF Settled
<1>. QED BY <1>1, <1>5, <1>6, <1>7, <1>8, MoveResolved

\* The loop over the components of a document visits the next one.
LEMMA NextComponentResolved ==
  ASSUME DirectInv, IInv', Stable, NextComponent
  PROVE  ResolvedInv'
<1>. DEFINE n == NameOrder[Top.pos + 1]
            f == [Top EXCEPT !.pos = @ + 1]
            c1 == [inst |-> 0, uri |-> Top.doc, name |-> n, k |-> 0]
            g == RefFrame(c1, Top.doc, Top.path)
<1>1. /\ stack # <<>> /\ Top.fn = "ResolveRefsIn" /\ Top.pos < Len(NameOrder)
      /\ world' = world /\ loads' = loads /\ UNCHANGED <<value, backtrack>> /\ (Live' => Live)
      /\ IF c1 \in DOMAIN value THEN Call(f, g) ELSE Goto(f)
  <2>1. NameOrder[Top.pos + 1] \in Names <=> n \in Names
    OBVIOUS
  <2>2. stack # <<>> /\ Top.fn = "ResolveRefsIn" /\ Top.pos < Len(NameOrder)
    BY DEF NextComponent, At
  <2>3. Top.pos \in Nat /\ Len(NameOrder) \in Nat /\ DOMAIN NameOrder = 1..Len(NameOrder)
    BY <2>2, TopReady, BoundsAssumption DEF Frame
  <2>4. Top.pos + 1 \in DOMAIN NameOrder
    BY <2>2, <2>3
  <2>5. n \in Names
    BY <2>4, BoundsAssumption
  <2>. QED BY <2>2, <2>5 DEF NextComponent, static, heap, visits, call, Live, Typed
<1>2. /\ IInv /\ Ready /\ Top \in Frame /\ Top.pos \in Nat /\ Len(NameOrder) \in Nat
      /\ DOMAIN NameOrder = 1..Len(NameOrder)
  BY <1>1, TopReady, BoundsAssumption DEF Frame
<1>3. f.fn = "ResolveRefsIn" /\ f.doc = Top.doc /\ f.pos = Top.pos + 1
  BY <1>1, <1>2 DEF Frame
<1>4. /\ g.fn = "resolveSchemaRef" /\ g.pc = "enter" /\ g.cell = c1 /\ g.pos = 0
      /\ ReadyFrame(f) /\ ReadyFrame(g)
  BY <1>3 DEF RefFrame, ReadyFrame
<1>5. ASSUME NEW c \in DOMAIN value, Reaches(Top, c)
      PROVE  Reaches(f, c) \/ (Reaches(g, c) /\ c1 \in DOMAIN value)
  <2>1. c.inst = 0 /\ Top.doc = c.uri /\ \E p \in DOMAIN NameOrder : p > Top.pos /\ NameOrder[p] = c.name
    BY <1>1, <1>5 DEF Reaches
  <2>2. PICK p \in DOMAIN NameOrder : p > Top.pos /\ NameOrder[p] = c.name
    BY <2>1
  <2>3. CASE p = Top.pos + 1
    <3>1. c \in CellId /\ c.k \in Nat /\ n = c.name
      BY <1>2, <2>2, <2>3 DEF IInv, HeapOK, Cells, CellId
    <3>2. First(c) = c1
      BY <2>1, <3>1 DEF First, CellId
    <3>3. c.k = 0 => c1 = c
      BY <3>1, <3>2 DEF First, CellId
    <3>4. c.k > 0 => First(c) \in DOMAIN value
      BY DEF DirectInv, Inlined
    <3>5. c1 \in DOMAIN value
      BY <3>1, <3>2, <3>3, <3>4
    <3>. QED BY <1>4, <3>2, <3>5 DEF Reaches
  <2>4. CASE p # Top.pos + 1
    <3>1. p > Top.pos + 1
      BY <1>2, <2>2, <2>4
    <3>. QED BY <1>3, <2>1, <2>2, <3>1 DEF Reaches
  <2>. QED BY <2>3, <2>4
<1>. HIDE DEF f, g, c1
<1>6. /\ \A c : Ahead(c) => Ahead(c)' \/ Reaches(Top, c)
      /\ \A c : Reaches(f, c) => Ahead(c)'
      /\ c1 \in DOMAIN value => \A c : Reaches(g, c) => Ahead(c)'
  BY <1>1, <1>2, AheadMoves
<1>7. Ready'
  BY <1>1, <1>2, <1>4, ReadyMoves
<1>8. \A c : Ahead(c)' => Settled(c)'
  BY DEF Settled
<1>. QED BY <1>1, <1>5, <1>6, <1>7, <1>8, MoveResolved

LEMMA DocumentDoneResolved ==
  ASSUME DirectInv, IInv', Stable, DocumentDone
  PROVE  ResolvedInv'
<1>1. /\ stack # <<>> /\ Top.fn = "ResolveRefsIn" /\ Top.pos = Len(NameOrder) /\ Pop
      /\ world' = world /\ loads' = loads /\ UNCHANGED <<value, backtrack>> /\ Live
  BY DEF DocumentDone, At, static, heap, visits, Live
<1>2. IInv /\ Ready
  BY <1>1, TopReady
<1>3. ASSUME NEW c PROVE ~Reaches(Top, c)
  <2>1. Len(NameOrder) \in Nat /\ DOMAIN NameOrder = 1..Len(NameOrder)
    BY BoundsAssumption
  <2>2. \A p \in DOMAIN NameOrder : ~(p > Top.pos)
    BY <1>1, <2>1
  <2>. QED BY <1>1, <2>2 DEF Reaches
<1>4. \A c : Ahead(c) => Ahead(c)' \/ Reaches(Top, c)
  BY <1>1, <1>2, AheadMoves
<1>5. Ready'
  BY <1>1, <1>2, ReadyMoves
<1>. QED BY <1>1, <1>3, <1>4, <1>5, MoveResolved

\* The loop over the sub-components of a value visits the next one.
LEMMA NextChildResolved ==
  ASSUME DirectInv, IInv', Stable, NextChild
  PROVE  ResolvedInv'
<1>. DEFINE c1 == Children[Top.pos + 1]
            f  == [Top EXCEPT !.pos = @ + 1]
            g  == RefFrame(c1, Top.doc, Top.path)
<1>1. /\ stack # <<>> /\ Top.fn = "resolveSchemaRef" /\ Top.pc = "children"
      /\ Top.pos < Len(Children)
      /\ world' = world /\ loads' = loads /\ UNCHANGED <<value, backtrack>> /\ (Live' => Live)
      /\ Call(f, g)
  BY DEF NextChild, At, static, heap, visits, call, Live
<1>2. /\ IInv /\ Ready /\ Top \in Frame /\ Top.pos \in Nat /\ ReadyFrame(Top)
  BY <1>1, TopReady DEF Frame
<1>3. /\ f.fn = "resolveSchemaRef" /\ f.pc = "children" /\ f.held = Top.held
      /\ f.pos = Top.pos + 1 /\ f.cell = Top.cell
  BY <1>1, <1>2 DEF Frame
<1>4. /\ g.fn = "resolveSchemaRef" /\ g.pc = "enter" /\ g.cell = c1 /\ g.pos = 0
      /\ ReadyFrame(f) /\ ReadyFrame(g)
  BY <1>1, <1>2, <1>3 DEF RefFrame, ReadyFrame
<1>5. ASSUME NEW c \in DOMAIN value, Reaches(Top, c)
      PROVE  Reaches(f, c) \/ Reaches(g, c)
  <2>1. Top.held = Target(c) /\ Top.pos < c.k
    BY <1>1, <1>5 DEF Reaches
  <2>2. c \in CellId /\ c.k \in Nat /\ c.k \in 0..Len(ShapeAt(c.uri, c.name).kids)
        /\ ShapeAt(c.uri, c.name) \in Shape
    BY <1>2 DEF IInv, HeapOK, Cells, CellId
  <2>3. CASE c.k = Top.pos + 1
    <3>1. Target(c) # Nil
      BY <2>2, TargetIs
    <3>2. Children = KidCells(Target(c))
      BY <2>1, <3>1 DEF Children
    <3>3. c.k \in 1..Len(ShapeAt(c.uri, c.name).kids)
      BY <1>2, <2>2, <2>3, KidsType
    <3>4. KidCells(Target(c))[c.k] = [inst |-> c.inst, uri |-> c.uri, name |-> c.name, k |-> c.k]
      BY <3>3 DEF KidCells, Target
    <3>5. c1 = c
      BY <2>2, <2>3, <3>2, <3>4 DEF CellId
    <3>. QED BY <1>4, <3>5 DEF Reaches
  <2>4. CASE c.k # Top.pos + 1
    <3>1. Top.pos + 1 < c.k
      BY <1>2, <2>1, <2>2, <2>4
    <3>. QED BY <1>3, <2>1, <3>1 DEF Reaches
  <2>. QED BY <2>3, <2>4
<1>. HIDE DEF f, g, c1
<1>6. /\ \A c : Ahead(c) => Ahead(c)' \/ Reaches(Top, c)
      /\ \A c : Reaches(f, c) \/ Reaches(g, c) => Ahead(c)'
  BY <1>1, <1>2, AheadMoves
<1>7. Ready'
  BY <1>1, <1>2, <1>4, ReadyMoves
<1>8. \A c : Ahead(c)' => Settled(c)'
  BY DEF Settled
<1>. QED BY <1>1, <1>5, <1>6, <1>7, <1>8, MoveResolved

\* Returning runs the callbacks with a value, when the reference is direct.
LEMMA ReferenceDoneResolved ==
  ASSUME DirectInv, IInv', Stable, ReferenceDone
  PROVE  ResolvedInv'
<1>. DEFINE t == Top.cell
            r == RefOf(t)
            v == Top.held
<1>1. /\ stack # <<>> /\ Top.fn = "resolveSchemaRef" /\ Top.pc = "children"
      /\ Top.pos = Len(Children) /\ ReturnRef /\ Pop
      /\ world' = world /\ loads' = loads /\ (Live' => Live)
  BY DEF ReferenceDone, At, static, call, Live
<1>2. IInv /\ Ready /\ Covered /\ ReadyFrame(Top) /\ TargetInv
  BY <1>1, TopReady DEF DirectInv
<1>3. \A c : RefOf(c)' = RefOf(c)
  BY <1>1, SameWorld
<1>4. DOMAIN value' = DOMAIN value
  BY <1>1 DEF ReturnRef, UnvisitRef, heap
<1>5. ASSUME NEW c \in DOMAIN value PROVE ~Reaches(Top, c)
  <2>. SUFFICES ASSUME Top.held = Target(c), Top.pos < c.k PROVE FALSE
    BY <1>1 DEF Reaches
  <2>1. c \in CellId /\ c.k \in Nat /\ c.k \in 0..Len(ShapeAt(c.uri, c.name).kids)
        /\ ShapeAt(c.uri, c.name) \in Shape
    BY <1>2 DEF IInv, HeapOK, Cells, CellId
  <2>2. Children = KidCells(Target(c))
    BY <2>1, TargetIs DEF Children
  <2>3. Len(ShapeAt(c.uri, c.name).kids) \in Nat
    BY <2>1, KidsType
  <2>4. Len(KidCells(Target(c))) = Len(ShapeAt(c.uri, c.name).kids)
    BY <2>3 DEF KidCells, Target
  <2>. QED BY <1>1, <2>1, <2>2, <2>3, <2>4
<1>6. \A c : Ahead(c) => Ahead(c)' \/ Reaches(Top, c)
  BY <1>1, <1>2, AheadMoves
<1>7. ASSUME NEW c \in DOMAIN value, Direct(c), c \in DOMAIN Callbacks(RefOf(c))
      PROVE  Settled(c)'
  <2>1. CASE r = Nil
    <3>1. UNCHANGED backtrack
      BY <1>1, <2>1 DEF ReturnRef, visits
    <3>. QED BY <1>1, <1>7, <3>1, CallbacksStay
  <2>2. CASE r # Nil /\ RefOf(c) = r
    <3>1. Handing(Top) /\ UnvisitRef(r, v)
      BY <1>1, <2>2 DEF Handing, ReturnRef
    <3>2. Aim(c) = Aim(t)
      BY <1>1, <1>2, <1>7, <2>2, <3>1, CallbackAims
    <3>3. Direct(t)
      BY <1>7, <2>2, <3>2 DEF Direct
    <3>4. v # Nil
      BY <1>1, <1>2, <3>3 DEF ReadyFrame
    <3>5. value'[c] = v
      BY <1>7, <2>2, <3>1 DEF UnvisitRef
    <3>. QED BY <3>4, <3>5 DEF Settled
  <2>3. CASE r # Nil /\ RefOf(c) # r
    <3>1. UnvisitRef(r, v)
      BY <1>1, <2>3 DEF ReturnRef
    <3>2. backtrack' = [q \in DOMAIN backtrack \ {r} |-> backtrack[q]]
      BY <3>1 DEF UnvisitRef
    <3>3. RefOf(c) \in DOMAIN backtrack /\ c \in DOMAIN backtrack[RefOf(c)]
      BY <1>7 DEF Callbacks
    <3>4. RefOf(c) \in DOMAIN backtrack' /\ backtrack'[RefOf(c)] = backtrack[RefOf(c)]
      BY <2>3, <3>2, <3>3
    <3>5. c \in DOMAIN Callbacks(RefOf(c))'
      BY <1>3, <3>3, <3>4 DEF Callbacks
    <3>. QED BY <3>5 DEF Settled
  <2>. QED BY <2>1, <2>2, <2>3
<1>8. Covered'
  BY <1>1, <1>2, <1>4, <1>5, <1>6, <1>7, CoveredKeeps
<1>9. Ready'
  BY <1>1, <1>2, ReadyMoves
<1>. QED BY <1>1, <1>4, <1>8, <1>9, HeapResolved DEF ResolvedInv

\* A direct reference is copied from an inline component, which has its value.
LEMMA CopyResolvedStep ==
  ASSUME DirectInv, IInv', Stable, CopyResolved
  PROVE  ResolvedInv'
<1>. DEFINE t == Top.cell
            s == Top.tmp
            f == [Top EXCEPT !.pc = "children", !.held = value[s]]
<1>1. /\ stack # <<>> /\ Top.fn = "resolveSchemaRef" /\ Top.pc = "copy" /\ Goto(f)
      /\ value' = [value EXCEPT ![t] = value[s]]
      /\ world' = world /\ loads' = loads /\ UNCHANGED backtrack /\ (Live' => Live)
  BY DEF CopyResolved, At, static, call, visits, Live
<1>2. /\ IInv /\ Ready /\ Covered /\ Top \in Frame /\ Top.pos = 0
      /\ t \in DOMAIN value /\ s \in DOMAIN value /\ Aims(Top) /\ RefOf(t) # Nil
  <2>1. Len(stack) \in DOMAIN stack
    BY <1>1, TopReady DEF IInv, StackOK
  <2>2. RefOf(t) \in Ref
    BY <1>1, TopReady DEF FrameOK
  <2>. QED BY <1>1, <2>1, <2>2, TopReady, RefParts
           DEF FrameOK, ReadyFrame, DirectInv, TargetInv, Aiming, Top
<1>3. Direct(t) => value[s] # Nil
  <2>1. s.k = 0 /\ Place(s) = Aim(t)
    BY <1>1, <1>2 DEF Aims
  <2>2. RefAt(Place(s)) = RefOf(s)
    BY <2>1 DEF RefAt, RefOf, Place
  <2>. QED BY <1>2, <2>1, <2>2 DEF Direct, DirectInv, Inlined
<1>4. DOMAIN value' = DOMAIN value /\ value'[t] = value[s]
  BY <1>1, <1>2
<1>5. /\ f.fn = "resolveSchemaRef" /\ f.pc = "children" /\ f.held = value[s] /\ f.pos = 0
      /\ f.cell = t
  BY <1>1, <1>2 DEF Frame
<1>6. \A c : Reaches(Top, c) => c = t
  BY <1>1 DEF Reaches
<1>7. ReadyFrame(f)
  BY <1>3, <1>5 DEF ReadyFrame
<1>. HIDE DEF f, s
<1>8. \A c : Ahead(c) => Ahead(c)' \/ Reaches(Top, c)
  BY <1>1, <1>2, AheadMoves
<1>9. \A c \in DOMAIN value : Direct(c) /\ Reaches(Top, c) => Settled(c)'
  BY <1>3, <1>4, <1>6 DEF Settled
<1>10. \A c : c \in DOMAIN Callbacks(RefOf(c)) => Settled(c)'
  BY <1>1, CallbacksStay
<1>11. Covered'
  BY <1>1, <1>2, <1>4, <1>8, <1>9, <1>10, CoveredKeeps
<1>12. Ready'
  BY <1>1, <1>2, <1>7, ReadyMoves
<1>. QED BY <1>1, <1>4, <1>11, <1>12, HeapResolved DEF ResolvedInv

\* A step that decodes components, all of which something is to visit.
LEMMA NewResolved ==
  ASSUME DirectInv, IInv', Stable, world' = world, loads' = loads, Live' => Live,
         UNCHANGED backtrack, Ready', NEW new, IsFiniteSet(new),
         DOMAIN value' = DOMAIN value \cup new,
         \A c \in new : c \notin DOMAIN value =>
            /\ RefOf(c) = Nil => value'[c] # Nil
            /\ c.k > 0 => /\ First(c) \in DOMAIN value' /\ RefOf(First(c)) = Nil
                          /\ value'[First(c)] = Target(c)
            /\ Direct(c) => value'[c] # Nil \/ Ahead(c)',
         \A c : Ahead(c) => Ahead(c)' \/ Reaches(Top, c),
         \A c \in DOMAIN value : Direct(c) /\ Reaches(Top, c) => Settled(c)'
  PROVE  ResolvedInv'
<1>1. IInv /\ Covered /\ Inlined /\ IsFiniteSet(DOMAIN value)
  BY DEF DirectInv, TargetInv, ValueInv
<1>2. \A c \in DOMAIN value' \ DOMAIN value : c \in new /\ c \notin DOMAIN value
  OBVIOUS
<1>3. Inlined'
  BY <1>1, <1>2, InlinedKeeps
<1>4. IsFiniteSet(DOMAIN value')
  BY <1>1, FS_Union
<1>5. \A c : c \in DOMAIN Callbacks(RefOf(c)) => Settled(c)'
  BY CallbacksStay
<1>6. \A c \in DOMAIN value' : c \notin DOMAIN value /\ Direct(c) => Settled(c)'
  BY <1>2 DEF Settled
<1>7. Covered'
  BY <1>1, <1>5, <1>6, CoveredKeeps
<1>. QED BY <1>3, <1>4, <1>7 DEF ResolvedInv

\* The frame walks the value it decoded.
LEMMA ElementResolved ==
  ASSUME DirectInv, IInv', Stable, ElementDecoded
  PROVE  ResolvedInv'
<1>. DEFINE t   == Top.cell
            u   == RefOf(t).file
            v   == [inst |-> fresh, uri |-> u, name |-> Root]
            new == Decoded(fresh, u, Root)
            f   == [Top EXCEPT !.pc = "children", !.path = ElementPath(u), !.held = v]
<1>1. /\ stack # <<>> /\ Top.fn = "resolveSchemaRef" /\ Top.pc = "element" /\ Goto(f)
      /\ value' = [d \in DOMAIN value \cup new |->
              IF d = t THEN v ELSE IF d \in new THEN Unmarshalled(d) ELSE value[d]]
      /\ world' = world /\ loads' = loads /\ UNCHANGED backtrack /\ (Live' => Live)
  BY DEF ElementDecoded, At, static, call, visits, Live
<1>2. /\ IInv /\ WorldOK /\ Ready /\ Top \in Frame /\ Top.pos = 0 /\ t \in DOMAIN value
      /\ RefOf(t) \in Ref /\ RefOf(t).name = Root /\ fresh \in Nat /\ HeapOK /\ Born
  BY <1>1, TopReady DEF FrameOK, ReadyFrame, IInv, HeapOK, DirectInv, TargetInv, ValueInv
<1>3. u \in Uris
  BY <1>2, RefParts
<1>4. ShapeAt(u, Root) \in Shape /\ v \in ValueId /\ v # Nil
  BY <1>2, <1>3, ShapeTypes, NilAssumption DEF ValueId
<1>5. /\ \A c \in new : /\ RefOf(c) = Nil => Unmarshalled(c) # Nil
                        /\ c.k > 0 => /\ First(c) \in new /\ RefOf(First(c)) = Nil
                                      /\ Unmarshalled(First(c)) = Target(c)
      /\ IsFiniteSet(new)
  BY <1>2, <1>3, <1>4, DecodedInlined
<1>6. new \cap DOMAIN value = {}
  <2>1. \A d \in new : d.inst = fresh
    BY DEF Decoded
  <2>. QED BY <1>2, <2>1, FreshCells
<1>7. /\ f.fn = "resolveSchemaRef" /\ f.pc = "children" /\ f.held = v /\ f.pos = 0
      /\ f.cell = t
  BY <1>1, <1>2 DEF Frame
<1>8. \A c \in new : Target(c) = v /\ (RefOf(c) # Nil => c.k > 0)
  <2>. SUFFICES ASSUME NEW k \in 0..Len(ShapeAt(u, Root).kids), NEW c,
                       c = [inst |-> fresh, uri |-> u, name |-> Root, k |-> k]
                PROVE  Target(c) = v /\ (RefOf(c) # Nil => c.k > 0)
    BY DEF Decoded
  <2>1. k = 0 => RefOf(c) = Nil
    BY <1>2, <1>3, ShapeTypes DEF RefOf
  <2>. QED BY <2>1 DEF Target
<1>9. \A c \in new : Direct(c) => Reaches(f, c)
  <2>. HIDE DEF f, v, new
  <2>. QED BY <1>7, <1>8 DEF Reaches, Direct
<1>10. ReadyFrame(f)
  <2>. HIDE DEF f, v
  <2>. QED BY <1>4, <1>7 DEF ReadyFrame
<1>11. \A c : Reaches(Top, c) => c = t
  BY <1>1 DEF Reaches
<1>. HIDE DEF f, v, new
<1>12. /\ \A c : Ahead(c) => Ahead(c)' \/ Reaches(Top, c)
       /\ \A c : Reaches(f, c) => Ahead(c)'
  BY <1>1, <1>2, AheadMoves
<1>13. Ready'
  BY <1>1, <1>2, <1>10, ReadyMoves
<1>14. \A c \in DOMAIN value : Direct(c) /\ Reaches(Top, c) => Settled(c)'
  BY <1>1, <1>2, <1>4, <1>11 DEF Settled
<1>15. /\ DOMAIN value' = DOMAIN value \cup new
       /\ \A c \in new : value'[c] = Unmarshalled(c)
  BY <1>1, <1>2, <1>6
<1>16. \A c \in new : c \notin DOMAIN value =>
            /\ RefOf(c) = Nil => value'[c] # Nil
            /\ c.k > 0 => /\ First(c) \in DOMAIN value' /\ RefOf(First(c)) = Nil
                          /\ value'[First(c)] = Target(c)
            /\ Direct(c) => value'[c] # Nil \/ Ahead(c)'
  BY <1>5, <1>9, <1>12, <1>15
<1>. QED BY <1>1, <1>5, <1>12, <1>13, <1>14, <1>15, <1>16, NewResolved

\* The loop over the components of a document reaches all of them.
LEMMA DocFrameReaches ==
  ASSUME WorldOK, NEW u \in Uris
  PROVE  /\ \A c \in DocCells(u) : Reaches(DocFrame(u), c)
         /\ ReadyFrame(DocFrame(u))
<1>1. ASSUME NEW c \in DocCells(u) PROVE Reaches(DocFrame(u), c)
  <2>1. c.inst = 0 /\ c.uri = u /\ c.name \in Names
    BY DEF DocCells, Decoded
  <2>2. PICK p \in DOMAIN NameOrder : NameOrder[p] = c.name
    BY <2>1, FilesAssumption
  <2>3. p > 0
    BY BoundsAssumption
  <2>. QED BY <2>1, <2>2, <2>3 DEF Reaches, DocFrame
<1>. QED BY <1>1 DEF ReadyFrame, DocFrame

LEMMA AllocateResolved ==
  ASSUME DirectInv, NEW u \in Uris, u \notin visitedDocuments, Allocate(DocCells(u))
  PROVE  /\ DOMAIN value' = DOMAIN value \cup DocCells(u) /\ IsFiniteSet(DocCells(u))
         /\ \A c \in DocCells(u) :
              /\ RefOf(c) = Nil => value'[c] # Nil
              /\ c.k > 0 => /\ First(c) \in DOMAIN value' /\ RefOf(First(c)) = Nil
                            /\ value'[First(c)] = Target(c)
<1>1. WorldOK
  BY DEF DirectInv, TargetInv, ValueInv, IInv
<1>. QED BY <1>1, DocCellsInlined DEF Allocate

LEMMA DocumentLoadedResolved ==
  ASSUME DirectInv, IInv', Stable, DocumentLoaded
  PROVE  ResolvedInv'
<1>. DEFINE t == Top.cell
            u == RefOf(t).file
            f == [Top EXCEPT !.pc = "drill", !.tdoc = u]
<1>1. /\ stack # <<>> /\ Top.fn = "resolveSchemaRef" /\ Top.pc = "document"
      /\ u # Here /\ u \notin visitedDocuments /\ Allocate(DocCells(u)) /\ Call(f, DocFrame(u))
      /\ world' = world /\ loads' = loads /\ UNCHANGED backtrack /\ (Live' => Live)
  BY DEF DocumentLoaded, At, static, call, visits, Live
<1>2. /\ IInv /\ WorldOK /\ Ready /\ Top \in Frame /\ Top.pos = 0 /\ u \in Uris
  BY <1>1, TopReady, RefParts DEF FrameOK, ReadyFrame
<1>3. /\ f.fn = "resolveSchemaRef" /\ f.pc = "drill" /\ f.cell = t /\ f.pos = 0
  BY <1>1, <1>2 DEF Frame
<1>4. ReadyFrame(f) /\ ReadyFrame(DocFrame(u)) /\ \A c : Reaches(Top, c) => Reaches(f, c)
  <2>. HIDE DEF f
  <2>. QED BY <1>1, <1>2, <1>3, DocFrameReaches DEF ReadyFrame, Reaches
<1>. HIDE DEF f
<1>5. /\ \A c : Ahead(c) => Ahead(c)' \/ Reaches(Top, c)
      /\ \A c : Reaches(f, c) \/ Reaches(DocFrame(u), c) => Ahead(c)'
  BY <1>1, <1>2, AheadMoves
<1>6. Ready'
  BY <1>1, <1>2, <1>4, ReadyMoves
<1>7. \A c \in DOMAIN value : Direct(c) /\ Reaches(Top, c) => Settled(c)'
  BY <1>4, <1>5 DEF Settled
<1>8. \A c \in DocCells(u) : Ahead(c)'
  BY <1>2, <1>5, DocFrameReaches
<1>. HIDE DEF u
<1>9. /\ DOMAIN value' = DOMAIN value \cup DocCells(u) /\ IsFiniteSet(DocCells(u))
      /\ \A c \in DocCells(u) : c \notin DOMAIN value =>
              /\ RefOf(c) = Nil => value'[c] # Nil
              /\ c.k > 0 => /\ First(c) \in DOMAIN value' /\ RefOf(First(c)) = Nil
                            /\ value'[First(c)] = Target(c)
              /\ Direct(c) => value'[c] # Nil \/ Ahead(c)'
  BY <1>1, <1>2, <1>8, AllocateResolved
<1>. QED BY <1>1, <1>5, <1>6, <1>7, <1>9, NewResolved

\* The copy is visited next, and the sub-components of a new object with it.
LEMMA DrillResolved ==
  ASSUME DirectInv, IInv', Stable, DrillTyped \/ DrillGeneric \/ DrillReread
  PROVE  ResolvedInv'
<1>. DEFINE t == Top.cell
            n == RefOf(t).name
            T(u) == [inst |-> fresh, uri |-> u, name |-> n, k |-> 0]
            f(u) == [Top EXCEPT !.pc = "copy", !.tmp = T(u)]
            g(u) == RefFrame(T(u), Top.tdoc, ComponentPath)
<1>1. /\ stack # <<>> /\ Top.fn = "resolveSchemaRef" /\ Top.pc = "drill"
      /\ world' = world /\ loads' = loads /\ UNCHANGED backtrack /\ (Live' => Live)
  BY DEF DrillTyped, DrillGeneric, DrillReread, DecodeGeneric, At, static, call, visits, Live
<1>2. /\ IInv /\ WorldOK /\ Ready /\ Top \in Frame /\ Top.pos = 0 /\ t \in DOMAIN value
      /\ Top.tdoc \in Uris /\ Top.path \in Uris /\ RefOf(t) \in Ref /\ n \in Names
      /\ HeapOK /\ Born /\ fresh \in Nat
  BY <1>1, TopReady, RefParts
     DEF FrameOK, ReadyFrame, Frame, IInv, HeapOK, DirectInv, TargetInv, ValueInv
<1>3. ASSUME NEW u \in Uris, ResolveCopy(T(u))
      PROVE  /\ Ready' /\ \A c : Ahead(c) => Ahead(c)' \/ Reaches(Top, c)
             /\ \A c \in DOMAIN value : Direct(c) /\ Reaches(Top, c) => Settled(c)'
             /\ \A c : c = T(u) \/ First(c) = T(u) => Ahead(c)'
  <2>1. /\ f(u).fn = "resolveSchemaRef" /\ f(u).pc = "copy" /\ f(u).cell = t /\ f(u).pos = 0
        /\ g(u).fn = "resolveSchemaRef" /\ g(u).pc = "enter" /\ g(u).cell = T(u) /\ g(u).pos = 0
        /\ Call(f(u), g(u))
    BY <1>1, <1>2, <1>3 DEF Frame, RefFrame, ResolveCopy
  <2>. HIDE DEF f, g, T
  <2>2. ReadyFrame(f(u)) /\ ReadyFrame(g(u)) /\ \A c : Reaches(Top, c) => Reaches(f(u), c)
    BY <1>1, <2>1 DEF ReadyFrame, Reaches
  <2>3. \A c : c = T(u) \/ First(c) = T(u) => Reaches(g(u), c)
    BY <2>1 DEF Reaches
  <2>4. /\ \A c : Ahead(c) => Ahead(c)' \/ Reaches(Top, c)
        /\ \A c : Reaches(f(u), c) \/ Reaches(g(u), c) => Ahead(c)'
    BY <1>1, <1>2, <2>1, AheadMoves
  <2>5. Ready'
    BY <1>1, <1>2, <2>1, <2>2, ReadyMoves
  <2>. QED BY <2>2, <2>3, <2>4, <2>5 DEF Settled
<1>4. CASE DrillTyped
  <2>. DEFINE src == [inst |-> 0, uri |-> Top.tdoc, name |-> n, k |-> 0]
              tmp == [src EXCEPT !.inst = fresh]
  <2>1. /\ value' = [d \in DOMAIN value \cup {tmp} |->
                        IF d = tmp THEN value[src] ELSE value[d]]
        /\ ResolveCopy(tmp) /\ src \in DOMAIN value
    BY <1>4 DEF DrillTyped, Typed
  <2>2. tmp = T(Top.tdoc) /\ tmp.k = 0 /\ RefOf(tmp) = RefOf(src)
    BY DEF RefOf
  <2>. HIDE DEF src, tmp, T
  <2>3. PICK d : d = T(Top.tdoc)
    OBVIOUS
  <2>4. d = tmp /\ ~(d.k > 0) /\ RefOf(d) = RefOf(src)
    BY <2>2, <2>3
  <2>5. value'[d] = value[src] /\ (RefOf(src) = Nil => value[src] # Nil)
    BY <2>1, <2>4 DEF DirectInv, Inlined
  <2>6. /\ Ready' /\ \A c : Ahead(c) => Ahead(c)' \/ Reaches(Top, c)
        /\ \A c \in DOMAIN value : Direct(c) /\ Reaches(Top, c) => Settled(c)'
        /\ Ahead(d)'
    <3>1. ResolveCopy(T(Top.tdoc))
      BY <2>1, <2>2
    <3>. QED BY <1>2, <1>3, <2>3, <3>1
  <2>7. DOMAIN value' = DOMAIN value \cup {d} /\ IsFiniteSet({d})
    BY <2>1, <2>4, FS_Singleton
  <2>. QED BY <1>1, <2>4, <2>5, <2>6, <2>7, NewResolved
<1>5. ASSUME NEW u \in Uris, DecodeGeneric(u), Defines(u, n)
      PROVE  ResolvedInv'
  <2>. DEFINE new == Decoded(fresh, u, n)
  <2>1. /\ value' = [d \in DOMAIN value \cup new |->
                        IF d \in new THEN Unmarshalled(d) ELSE value[d]]
        /\ ResolveCopy(T(u))
    BY <1>5 DEF DecodeGeneric
  <2>2. ShapeAt(u, n) \in Shape
    BY <1>2, <1>5, ShapeTypes
  <2>3. /\ \A c \in new : /\ RefOf(c) = Nil => Unmarshalled(c) # Nil
                          /\ c.k > 0 => /\ First(c) \in new /\ RefOf(First(c)) = Nil
                                        /\ Unmarshalled(First(c)) = Target(c)
        /\ IsFiniteSet(new)
    BY <1>2, <2>2, DecodedInlined
  <2>4. \A c \in new : First(c) = T(u)
    BY DEF Decoded, First
  <2>. HIDE DEF new
  <2>5. /\ DOMAIN value' = DOMAIN value \cup new
        /\ \A c \in new : value'[c] = Unmarshalled(c)
    BY <2>1
  <2>6. \A c \in new : Ahead(c)'
    BY <1>3, <2>1, <2>4
  <2>7. \A c \in new : c \notin DOMAIN value =>
            /\ RefOf(c) = Nil => value'[c] # Nil
            /\ c.k > 0 => /\ First(c) \in DOMAIN value' /\ RefOf(First(c)) = Nil
                          /\ value'[First(c)] = Target(c)
            /\ Direct(c) => value'[c] # Nil \/ Ahead(c)'
    BY <2>3, <2>5, <2>6
  <2>8. /\ Ready' /\ \A c : Ahead(c) => Ahead(c)' \/ Reaches(Top, c)
        /\ \A c \in DOMAIN value : Direct(c) /\ Reaches(Top, c) => Settled(c)'
    BY <1>3, <2>1
  <2>. QED BY <1>1, <2>3, <2>5, <2>7, <2>8, NewResolved
<1>6. CASE DrillGeneric
  <2>1. Defines(Top.tdoc, n) /\ DecodeGeneric(Top.tdoc)
    BY <1>6 DEF DrillGeneric, Raw
  <2>. QED BY <1>2, <1>5, <2>1
<1>7. CASE DrillReread
  <2>1. Defines(Top.path, n) /\ DecodeGeneric(Top.path)
    BY <1>7 DEF DrillReread
  <2>. QED BY <1>2, <1>5, <2>1
<1>. QED BY <1>4, <1>6, <1>7

\* A first call decodes its document, and visits all of its components.
LEMMA LoadResolved ==
  ASSUME DirectInv, IInv', Stable, LoadFromURI
  PROVE  ResolvedInv' /\ Unused'
<1>. PICK u \in Uris : LoadReadFails(u) \/ LoadCached(u) \/ LoadUndecodable(u) \/ LoadDecoded(u)
  BY DEF LoadFromURI
<1>1. /\ IInv /\ WorldOK /\ Inlined /\ Ready /\ Unused /\ IsFiniteSet(DOMAIN value)
      /\ world' = world /\ loads' = loads + 1 /\ loads \in Nat
  BY BoundsAssumption DEF DirectInv, TargetInv, ValueInv, IInv, CallOK, LoadReadFails, LoadCached,
     LoadUndecodable, LoadDecoded, Begin, static
<1>2. Unused' /\ (loads' = 1 => DOMAIN value = {})
  BY <1>1 DEF Unused
<1>3. CASE LoadDecoded(u)
  <2>1. u \notin visitedDocuments /\ Allocate(DocCells(u)) /\ stack' = <<DocFrame(u)>>
    BY <1>3 DEF LoadDecoded
  <2>2. /\ DOMAIN value' = DOMAIN value \cup DocCells(u) /\ IsFiniteSet(DocCells(u))
        /\ \A c \in DocCells(u) :
              /\ RefOf(c) = Nil => value'[c] # Nil
              /\ c.k > 0 => /\ First(c) \in DOMAIN value' /\ RefOf(First(c)) = Nil
                            /\ value'[First(c)] = Target(c)
    BY <2>1, AllocateResolved
  <2>3. IsFiniteSet(DOMAIN value')
    BY <1>1, <2>2, FS_Union
  <2>4. Inlined'
    BY <1>1, <2>2, InlinedKeeps
  <2>5. \A i \in DOMAIN stack' : stack'[i] = DocFrame(u)
    BY <2>1
  <2>6. Ready'
    <3>1. ReadyFrame(DocFrame(u))'
      BY <1>1, DocFrameReaches, SameDirect DEF DocFrame, ReadyFrame
    <3>. QED BY <2>5, <3>1 DEF Ready, ReadyFrame
  <2>7. \A c \in DocCells(u) : \E i \in DOMAIN stack' : Reaches(stack'[i], c)
    BY <1>1, <2>1, DocFrameReaches
  <2>8. Covered'
    BY <1>2, <2>2, <2>7 DEF Covered, Settled, Ahead
  <2>. QED BY <1>2, <2>3, <2>4, <2>6, <2>8 DEF ResolvedInv
<1>4. CASE LoadReadFails(u) \/ LoadCached(u) \/ LoadUndecodable(u)
  <2>1. value' = value /\ stack' = stack
    BY <1>4 DEF LoadReadFails, LoadCached, LoadUndecodable
  <2>2. Inlined' /\ IsFiniteSet(DOMAIN value') /\ Ready'
    BY <1>1, <2>1, HeapResolved, ReadyMoves
  <2>3. Covered'
    BY <1>2, <2>1 DEF Covered
  <2>. QED BY <1>2, <2>2, <2>3 DEF ResolvedInv
<1>. QED BY <1>3, <1>4

LEMMA DirectStep ==
  ASSUME DirectInv, [Next]_vars
  PROVE  DirectInv'
<1>1. TargetInv' /\ IInv' /\ Stable
  BY TargetStep, FramesStep DEF DirectInv, TargetInv, ValueInv
<1>2. ASSUME ResolvedInv', Unused' PROVE DirectInv'
  BY <1>1, <1>2 DEF ResolvedInv, DirectInv
<1>3. CASE LoadFromURI
  BY <1>1, <1>2, <1>3, LoadResolved
<1>4. CASE Step
  <2>1. ResolvedInv'
    BY <1>1, <1>4, ErrorResolved, EnterResolvedStep, EnterInProgressResolved,
       DocumentFoundResolved, NextComponentResolved, DocumentDoneResolved, NextChildResolved,
       ReferenceDoneResolved, CopyResolvedStep, ElementResolved, DocumentLoadedResolved,
       DrillResolved DEF Step, ResolveRef
  <2>2. stack # <<>> /\ loads' = loads
    BY <1>4 DEF Step, ResolveRef, NextComponent, DocumentDone, EnterInline, EnterResolved,
       EnterInProgress, EnterUnvisited, ElementFails, ElementDecoded, DocumentHere, DocumentFails,
       DocumentCached, DocumentUndecodable, DocumentLoaded, DrillTyped, DrillGeneric, DrillReread,
       DrillFails, DecodeGeneric, CopyResolved, NextChild, ReferenceDone, ReturnError, At, call
  <2>3. Unused'
    BY <2>2 DEF DirectInv, Unused
  <2>. QED BY <1>2, <2>1, <2>3
<1>5. CASE Finished \/ UNCHANGED vars
  <2>1. UNCHANGED <<world, value, refPath, visitedDocuments, backtrack, stack, status, result, loads>>
    BY <1>5 DEF Finished, vars
  <2>2. Ready'
    BY <2>1, ReadyMoves DEF DirectInv, TargetInv, ValueInv
  <2>3. Inlined' /\ IsFiniteSet(DOMAIN value')
    BY <1>1, <2>1, HeapResolved
  <2>4. \A c : Ahead(c)' = Ahead(c)
    BY <2>1 DEF Ahead, Reaches, First, Target
  <2>5. \A c : Settled(c)' = Settled(c)
    BY <2>1, <2>4, SameWorld DEF Settled, Callbacks
  <2>6. Covered'
    BY <2>1, <2>5, SameDirect DEF DirectInv, Covered, Live
  <2>7. Unused'
    BY <2>1 DEF DirectInv, Unused
  <2>. QED BY <1>2, <2>2, <2>3, <2>6, <2>7 DEF ResolvedInv
<1>. QED BY <1>3, <1>4, <1>5 DEF Next

(***************************************************************************)
(* What the caller reaches.                                                *)
(***************************************************************************)
LEMMA KidsAllocated ==
  ASSUME IInv, NEW S \in SUBSET DOMAIN value
  PROVE  KidsOf(S) \subseteq DOMAIN value
<1>. SUFFICES ASSUME NEW c \in S, value[c] # Nil, NEW i \in DOMAIN KidCells(value[c])
              PROVE  KidCells(value[c])[i] \in DOMAIN value
  BY DEF KidsOf
<1>1. Allocated(value[c])
  BY DEF IInv, HeapOK, Valid
<1>2. i \in 1..Len(ShapeAt(value[c].uri, value[c].name).kids)
  BY DEF KidCells
<1>. QED BY <1>1, <1>2 DEF Allocated, KidCells

\* Within is what its definition says.
LEMMA WithinIs ==
  ASSUME IInv
  PROVE  /\ Within[0] = RootCells
         /\ \A n \in Nat : Within[n + 1] = Within[n] \cup KidsOf(Within[n])
<1>. DEFINE Eq(f) == f = [n \in Nat |-> IF n = 0 THEN RootCells
                                        ELSE LET S == f[n - 1] IN S \cup KidsOf(S)]
            T == SUBSET DOMAIN value
            g == [n \in Nat |-> [S \in T |-> S \cup KidsOf(S)]]
<1>1. RootCells \in T
  BY DEF RootCells
<1>2. g \in Rules(T)
  BY KidsAllocated DEF Rules
<1>3. PICK f \in [Nat -> T] : f[0] = RootCells /\ \A n \in Nat : f[n + 1] = g[n][f[n]]
  <2>. HIDE DEF g, T
  <2>1. \E f \in Values(T) : f[0] = RootCells /\ \A n \in Nat : f[n + 1] = g[n][f[n]]
    BY <1>1, <1>2, Solutions
  <2>. QED BY <2>1 DEF Values
<1>4. \A n \in Nat : f[n + 1] = f[n] \cup KidsOf(f[n])
  BY <1>3
<1>5. ASSUME NEW n \in Nat
      PROVE  f[n] = IF n = 0 THEN RootCells ELSE LET S == f[n - 1] IN S \cup KidsOf(S)
  <2>1. n # 0 => n - 1 \in Nat /\ (n - 1) + 1 = n
    OBVIOUS
  <2>. QED BY <1>3, <1>4, <2>1
<1>6. Eq(f)
  <2>. DEFINE rhs(n) == IF n = 0 THEN RootCells ELSE LET S == f[n - 1] IN S \cup KidsOf(S)
  <2>1. \A n \in Nat : f[n] = rhs(n)
    BY <1>5
  <2>. HIDE DEF rhs
  <2>2. f = [n \in Nat |-> rhs(n)]
    BY <1>3, <2>1
  <2>. QED BY <2>2 DEF rhs
<1>7. Within = CHOOSE F : Eq(F)
  BY DEF Within
<1>. HIDE DEF Eq
<1>8. Eq(Within)
  BY <1>6, <1>7
<1>9. ASSUME NEW n \in Nat
      PROVE  Within[n] = IF n = 0 THEN RootCells ELSE Within[n - 1] \cup KidsOf(Within[n - 1])
  <2>. DEFINE rhs(k) == IF k = 0 THEN RootCells ELSE LET S == Within[k - 1] IN S \cup KidsOf(S)
  <2>1. Within = [k \in Nat |-> rhs(k)]
    BY <1>8 DEF Eq
  <2>2. rhs(n) = IF n = 0 THEN RootCells ELSE Within[n - 1] \cup KidsOf(Within[n - 1])
    OBVIOUS
  <2>. HIDE DEF rhs
  <2>. QED BY <2>1, <2>2
<1>10. ASSUME NEW n \in Nat PROVE Within[n + 1] = Within[n] \cup KidsOf(Within[n])
  <2>1. n + 1 \in Nat /\ n + 1 # 0 /\ (n + 1) - 1 = n
    OBVIOUS
  <2>. QED BY <1>9, <2>1
<1>. QED BY <1>9, <1>10

LEMMA ReachableAllocated ==
  ASSUME IInv, IsFiniteSet(DOMAIN value)
  PROVE  Reachable \subseteq DOMAIN value
<1>. DEFINE S == { n \in Nat : Within[n] \subseteq DOMAIN value }
<1>1. 0 \in S
  BY WithinIs DEF RootCells
<1>2. ASSUME NEW n \in Nat, n \in S PROVE n + 1 \in S
  <2>1. Within[n] \in SUBSET DOMAIN value
    BY <1>2
  <2>2. KidsOf(Within[n]) \subseteq DOMAIN value
    BY <2>1, KidsAllocated
  <2>. QED BY <2>1, <2>2, WithinIs
<1>. HIDE DEF S
<1>3. Nat \subseteq S
  BY <1>1, <1>2, SetInduction
<1>4. Cardinality(DOMAIN value) \in Nat
  BY FS_CardinalityType
<1>. QED BY <1>3, <1>4 DEF S, Reachable

\* When a load has returned, nothing waits for it any more.
LEMMA NothingAwaited ==
  ASSUME ValueInv, Loaded
  PROVE  stack = <<>> /\ DOMAIN backtrack = {}
<1>1. stack = <<>>
  BY DEF ValueInv, Resting, Loaded
<1>2. Paired /\ visitedPath \in Seq(Ref)
  BY DEF ValueInv, Matching, Live, Loaded, IInv, VisitsOK
<1>3. OpenFrames = {}
  BY <1>1 DEF OpenFrames
<1>4. Len(visitedPath) = 0
  BY <1>2, <1>3, FS_EmptySet DEF Paired
<1>5. DOMAIN visitedPath = {}
  BY <1>2, <1>4
<1>6. visitedRefs = {}
  BY <1>2, <1>5 DEF Paired
<1>. QED BY <1>1, <1>6 DEF ValueInv, CallbacksVisited

LEMMA DirectStarts ==
  ASSUME Init, NoneDangling, NamesApart \/ Rooted
  PROVE  DirectInv
<1>1. TargetInv
  BY TargetStarts
<1>2. DOMAIN value = {} /\ stack = <<>> /\ loads = 0 /\ visitedDocuments = {}
  BY DEF Init
<1>. QED BY <1>1, <1>2, FS_EmptySet DEF DirectInv, Covered, Inlined, Ready, Unused

\* A Loader used for the first time gives every component that the document it
\* returns leads to, and that refers straight to an object, its value: no
\* order of visits, and no cycle of references that are in progress, loses one
\* of them.  The files have no dangling references, and mean one thing.
THEOREM DirectAreResolved ==
  Spec /\ NoneDangling /\ (NamesApart \/ Rooted) => []DirectResolved
<1>1. Init /\ NoneDangling /\ (NamesApart \/ Rooted) => DirectInv
  BY DirectStarts
<1>2. DirectInv /\ [Next]_vars => DirectInv'
  BY DirectStep
<1>3. DirectInv => DirectResolved
  <2>. SUFFICES ASSUME DirectInv, Loaded, loads = 1, NEW c \in Reachable, RefOf(c) # Nil,
                       Follow[0][LocOf(RefOf(c), c.uri)] # NoLoc
                PROVE  value[c] # Nil
    BY DEF DirectResolved
  <2>1. IInv /\ ValueInv /\ WorldOK /\ Covered /\ IsFiniteSet(DOMAIN value)
    BY DEF DirectInv, TargetInv, ValueInv, IInv
  <2>2. c \in DOMAIN value /\ c \in Cells /\ Known(Place(c))
    BY <2>1, ReachableAllocated DEF IInv, HeapOK, DirectInv, TargetInv, Defined
  <2>3. Aim(c) \in Loc /\ Aim(c) = LocOf(RefOf(c), c.uri)
    BY <2>1, <2>2, CellMeaning DEF Aim
  <2>4. Direct(c)
    BY <2>1, <2>3, FollowUnfold DEF Direct
  <2>5. Settled(c)
    BY <2>1, <2>2, <2>4 DEF Covered, Live, Loaded
  <2>. QED BY <2>1, <2>5, NothingAwaited DEF Settled, Callbacks, Ahead
<1>. QED BY <1>1, <1>2, <1>3, PTL DEF Spec

(***************************************************************************)
(* References that stay in their file.                                     *)
(***************************************************************************)
LocallyStep(h) == [l \in Loc |-> /\ Known(l)
                                 /\ RefAt(l) = Nil \/ (RefAt(l).file = Here /\ h[NextLoc(l)])]

\* Locally is what its definition says.
LEMMA LocallyIs ==
  ASSUME WorldOK
  PROVE  /\ Locally[0] = LocallyStep([l \in Loc |-> FALSE])
         /\ \A n \in Nat : Locally[n + 1] = LocallyStep(Locally[n])
<1>. DEFINE Eq(f) == f = [n \in Nat |-> [l \in Loc |->
               LET r == ShapeAt(l.uri, l.name).ref
               IN  /\ l.name = Root \/ Defines(l.uri, l.name)
                   /\ r = Nil \/ (n > 0 /\ r.file = Here /\ f[n - 1][LocOf(r, l.uri)])]]
            T == [Loc -> BOOLEAN]
            a == LocallyStep([l \in Loc |-> FALSE])
            g == [n \in Nat |-> [h \in T |-> LocallyStep(h)]]
<1>1. \A h \in T : LocallyStep(h) \in T
  BY NextLocType DEF LocallyStep, Known, Defines
<1>2. a \in T /\ g \in [Nat -> [T -> T]]
  BY <1>1
<1>. HIDE DEF T, a
<1>3. PICK f \in [Nat -> T] : f[0] = a /\ \A n \in Nat : f[n + 1] = g[n][f[n]]
  <2>1. g \in Rules(T)
    BY <1>2 DEF Rules
  <2>. HIDE DEF g, Eq
  <2>2. \E f \in Values(T) : f[0] = a /\ \A n \in Nat : f[n + 1] = g[n][f[n]]
    BY <1>2, <2>1, Solutions
  <2>. QED BY <2>2 DEF Values
<1>4. \A n \in Nat : f[n] = IF n = 0 THEN a ELSE LocallyStep(f[n - 1])
  <2>. SUFFICES ASSUME NEW n \in Nat, n # 0 PROVE f[n] = LocallyStep(f[n - 1])
    BY <1>3
  <2>1. n - 1 \in Nat /\ (n - 1) + 1 = n
    OBVIOUS
  <2>. QED BY <1>3, <2>1
<1>. DEFINE R(f0, n) == [l \in Loc |->
               LET r == ShapeAt(l.uri, l.name).ref
               IN  /\ l.name = Root \/ Defines(l.uri, l.name)
                   /\ r = Nil \/ (n > 0 /\ r.file = Here /\ f0[n - 1][LocOf(r, l.uri)])]
<1>5. ASSUME NEW f0, NEW n \in Nat
      PROVE  R(f0, n) = IF n = 0 THEN a ELSE LocallyStep(f0[n - 1])
  <2>1. CASE n = 0
    <3>1. ASSUME NEW l \in Loc, Known(l), RefAt(l) # Nil
          PROVE  ~([k \in Loc |-> FALSE][NextLoc(l)])
      BY <3>1, NextLocType
    <3>2. ASSUME NEW l \in Loc
          PROVE  LET r == ShapeAt(l.uri, l.name).ref
                 IN  (/\ l.name = Root \/ Defines(l.uri, l.name)
                      /\ r = Nil \/ (n > 0 /\ r.file = Here /\ f0[n - 1][LocOf(r, l.uri)]))
                  <=> (/\ Known(l)
                       /\ RefAt(l) = Nil \/ (RefAt(l).file = Here /\ [k \in Loc |-> FALSE][NextLoc(l)]))
      <4>1. ~(n > 0)
        BY <2>1
      <4>. QED BY <3>1, <4>1, Zenon DEF Known, RefAt
    <3>. QED BY <2>1, <3>2 DEF a, LocallyStep
  <2>2. CASE n # 0
    BY <2>2 DEF LocallyStep, Known, RefAt, NextLoc
  <2>. QED BY <2>1, <2>2
<1>6. Eq(f)
  <2>1. \A n \in Nat : f[n] = R(f, n)
    <3>. HIDE DEF R
    <3>. QED BY <1>4, <1>5
  <2>2. f = [n \in Nat |-> R(f, n)]
    <3>. HIDE DEF R
    <3>. QED BY <1>3, <2>1
  <2>. QED BY <2>2
<1>7. Locally = CHOOSE F : Eq(F)
  BY DEF Locally
<1>8. Eq(Locally)
  <2>. HIDE DEF Eq
  <2>. QED BY <1>6, <1>7
<1>9. \A n \in Nat : Locally[n] = R(Locally, n)
  <2>1. Locally = [n \in Nat |-> R(Locally, n)]
    BY <1>8
  <2>. HIDE DEF R, Eq
  <2>. QED BY <2>1
<1>. HIDE DEF R, Eq
<1>10. ASSUME NEW n \in Nat PROVE Locally[n + 1] = LocallyStep(Locally[n])
  <2>1. n + 1 \in Nat /\ n + 1 # 0 /\ (n + 1) - 1 = n
    OBVIOUS
  <2>. QED BY <1>5, <1>9, <2>1
<1>. QED BY <1>5, <1>9, <1>10 DEF a

\* The location leads to an object after at most n references, all within its
\* file.
Near(n, l) == Locally[n][l]

LEMMA NearUnfold ==
  ASSUME WorldOK, NEW l \in Loc
  PROVE  /\ Near(0, l) <=> Known(l) /\ RefAt(l) = Nil
         /\ \A n \in Nat :
              Near(n + 1, l) <=>
                /\ Known(l)
                /\ RefAt(l) = Nil \/ (RefAt(l).file = Here /\ Near(n, NextLoc(l)))
<1>1. Near(0, l) <=> Known(l) /\ RefAt(l) = Nil
  <2>1. Locally[0][l] = LocallyStep([k \in Loc |-> FALSE])[l]
    BY LocallyIs
  <2>2. Known(l) /\ RefAt(l) # Nil => ~([k \in Loc |-> FALSE][NextLoc(l)])
    BY NextLocType
  <2>. QED BY <2>1, <2>2 DEF LocallyStep, Near, Known, Defines
<1>2. ASSUME NEW n \in Nat
      PROVE  Near(n + 1, l) <=>
                /\ Known(l)
                /\ RefAt(l) = Nil \/ (RefAt(l).file = Here /\ Near(n, NextLoc(l)))
  <2>1. Locally[n + 1][l] = LocallyStep(Locally[n])[l]
    BY LocallyIs
  <2>. QED BY <2>1 DEF LocallyStep, Near, Known, Defines
<1>. QED BY <1>1, <1>2

LEMMA NearLonger ==
  ASSUME WorldOK, NEW n \in Nat, NEW m \in Nat, n <= m, NEW l \in Loc, Near(n, l)
  PROVE  Near(m, l)
<1>. DEFINE S == { k \in Nat : \A j \in Loc : Near(k, j) => Near(k + 1, j) }
            M == { k \in Nat : n <= k => Near(k, l) }
<1>1. 0 \in S
  BY NearUnfold, 0 \in Nat, 0 + 1 = 1
<1>2. ASSUME NEW k \in Nat, k \in S PROVE k + 1 \in S
  <2>. SUFFICES ASSUME NEW j \in Loc, Near(k + 1, j) PROVE Near((k + 1) + 1, j)
    OBVIOUS
  <2>1. k + 1 \in Nat
    OBVIOUS
  <2>2. Known(j) /\ (RefAt(j) = Nil \/ (RefAt(j).file = Here /\ Near(k, NextLoc(j))))
    BY NearUnfold
  <2>3. RefAt(j) # Nil => NextLoc(j) \in Loc
    BY <2>2, NextLocType
  <2>4. RefAt(j) # Nil => Near(k + 1, NextLoc(j))
    BY <1>2, <2>2, <2>3
  <2>. QED BY <2>1, <2>2, <2>4, NearUnfold
<1>3. Nat \subseteq S
  <2>. HIDE DEF S
  <2>. QED BY <1>1, <1>2, SetInduction
<1>4. 0 \in M
  <2>1. n <= 0 => n = 0
    OBVIOUS
  <2>. QED BY <2>1
<1>5. ASSUME NEW k \in Nat, k \in M PROVE k + 1 \in M
  <2>1. n <= k + 1 => n = k + 1 \/ n <= k
    OBVIOUS
  <2>2. n <= k => Near(k + 1, l)
    BY <1>3, <1>5
  <2>. QED BY <2>1, <2>2
<1>. HIDE DEF S, M
<1>6. Nat \subseteq M
  BY <1>4, <1>5, SetInduction
<1>. QED BY <1>6 DEF M

LEMMA NearLeast ==
  ASSUME NEW n \in Nat, NEW l, Near(n, l)
  PROVE  \E m \in Nat : Near(m, l) /\ \A k \in Nat : Near(k, l) => m <= k
<1>. DEFINE S == { k \in Nat : Near(k, l) }
<1>1. S \subseteq Nat /\ S # {}
  OBVIOUS
<1>. HIDE DEF S
<1>2. \E m \in S : \A k \in S : m <= k
  BY <1>1, Least
<1>. QED BY <1>2 DEF S

(***************************************************************************)
(* The invariant of LocalResolved.                                         *)
(***************************************************************************)
\* The component is a reference that leads to an object within its file.
Chained(c) == RefOf(c) # Nil /\ RefOf(c).file = Here /\ \E n \in Nat : Near(n, Aim(c))

\* The references within their file that the frames before frame i resolve.
HereRefs   == { r \in Ref : r.file = Here }
Pending(i) == { r \in HereRefs : \E j \in DOMAIN stack : j < i /\ InProgress(stack[j]) = r }

\* None of the references P is between the component c and its object, though
\* they may be strings that say the same in another file.
Clear(P, c) ==
  Chained(c) /\ \E n \in Nat : Near(n, Aim(c)) /\ \A r \in P : ~Near(n, LocOf(r, c.uri))

\* None of them is defined in the file u.
Unhindered(P, u) == \A r \in P : ~Defines(u, r.name)

\* The frame f is resolving c, or will visit it in a loop that it, or an inline
\* component, makes, and the references P do not stand in the way.
Pursues(f, P, c) == f.fn = "resolveSchemaRef" /\ f.pc # "children" /\ f.cell = c /\ Clear(P, c)
VisitsIn(f, P, c) ==
  \/ /\ f.fn = "ResolveRefsIn" /\ c.inst = 0 /\ f.doc = c.uri /\ Unhindered(P, c.uri)
     /\ \E p \in DOMAIN NameOrder : p > f.pos /\ NameOrder[p] = c.name
  \/ /\ f.fn = "resolveSchemaRef" /\ RefOf(f.cell) = Nil /\ Unhindered(P, c.uri)
     /\ \/ f.pc = "enter" /\ f.cell = First(c)
        \/ f.pc = "children" /\ f.held = Target(c) /\ f.pos < c.k
  \/ Pursues(f, P, c)
Sought(c) == \E i \in DOMAIN stack : VisitsIn(stack[i], Pending(i), c)
Awaited ==
  loads = 1 /\ Live =>
    \A c \in DOMAIN value : Chained(c) /\ c.inst = 0 /\ value[c] = Nil => Sought(c)

\* The copy that a frame made of what such a component refers to has a value,
\* or is being resolved.
Follower(i, c) == i \in DOMAIN stack /\ Pursues(stack[i], Pending(i), c)
Linked ==
  Live => \A i \in DOMAIN stack :
            LET f == stack[i] IN
            f.fn = "resolveSchemaRef" /\ f.pc = "copy" /\ Clear(Pending(i), f.cell) =>
              value[f.tmp] # Nil \/ Follower(i + 1, f.tmp)

\* Files that refer to themselves are documents; such a file is drilled as the
\* document it is, also when it is named as the file of the referrer.
Sheet(c)   == /\ world[c.uri].kind = "doc" /\ c.uri \in visitedDocuments
              /\ c.inst = 0 \/ c.k = 0
Listing    == \A c \in DOMAIN value : RefersWithin(c.uri) => Sheet(c)
InPlace(f) == /\ RefersWithin(f.path) => f.doc = f.path
              /\ (f.fn = "resolveSchemaRef" /\ f.pc = "drill" /\ RefOf(f.cell).file = Here) =>
                   f.tdoc = f.doc
Contexts   == \A i \in DOMAIN stack : InPlace(stack[i])

LocalInv ==
  /\ DirectInv /\ Awaited /\ Linked /\ Listing /\ Contexts
  /\ Listed /\ (NamesApart \/ Rooted)

\* What follows a component that is clear is clear of it too.
LEMMA ClearNext ==
  ASSUME WorldOK, NEW c \in Cells, Known(Place(c)), NEW P \in SUBSET HereRefs, Clear(P, c),
         NEW t, t.k = 0, Place(t) = Aim(c), RefOf(t) # Nil
  PROVE  Clear(P \cup {RefOf(c)}, t)
<1>. DEFINE u == c.uri
            l == Aim(c)
<1>1. PICK n \in Nat : Near(n, l) /\ \A r \in P : ~Near(n, LocOf(r, u))
  BY DEF Clear
<1>2. /\ l \in Loc /\ u \in Uris /\ RefOf(c) # Nil /\ RefOf(c).file = Here
      /\ l = LocOf(RefOf(c), u) /\ l.uri = u
  BY CellMeaning DEF Clear, Chained, Aim, LocOf, FileOf, Cells, CellId
<1>3. t.uri = u /\ RefAt(l) = RefOf(t) /\ NextLoc(l) = Aim(t)
  <2>1. t.uri = l.uri /\ t.name = l.name
    BY <1>2 DEF Place, Loc
  <2>2. RefAt(l) = RefOf(t)
    BY <2>1 DEF RefAt, RefOf
  <2>. HIDE DEF l
  <2>. QED BY <1>2, <2>1, <2>2 DEF NextLoc, Aim
<1>. HIDE DEF l, u
<1>4. ASSUME NEW k \in Nat, Near(k, l)
      PROVE  \E p \in Nat : k = p + 1 /\ Near(p, Aim(t)) /\ RefOf(t).file = Here /\ Known(l)
  <2>1. k # 0
    BY <1>2, <1>3, <1>4, NearUnfold
  <2>2. PICK p \in Nat : k = p + 1
    BY <2>1, k - 1 \in Nat, k = (k - 1) + 1
  <2>. QED BY <1>2, <1>3, <1>4, <2>2, NearUnfold
<1>5. PICK p \in Nat : n = p + 1 /\ Near(p, Aim(t)) /\ RefOf(t).file = Here /\ Known(l)
  BY <1>1, <1>4
<1>6. PICK m \in Nat : Near(m, Aim(t)) /\ \A k \in Nat : Near(k, Aim(t)) => m <= k
  BY <1>5, NearLeast
<1>7. m <= n
  BY <1>5, <1>6
<1>8. ASSUME NEW r \in P PROVE ~Near(m, LocOf(r, u))
  <2>1. r \in Ref /\ r.file = Here
    BY DEF HereRefs
  <2>2. LocOf(r, u) \in Loc
    BY <1>2, <2>1, RefParts DEF LocOf, FileOf, Loc
  <2>. QED BY <1>1, <1>7, <2>2, NearLonger
<1>9. ~Near(m, l)
  <2>. SUFFICES ASSUME Near(m, l) PROVE FALSE
    OBVIOUS
  <2>1. PICK q \in Nat : m = q + 1 /\ Near(q, Aim(t))
    BY <1>4
  <2>. QED BY <1>6, <2>1
<1>10. Chained(t)
  BY <1>5, <1>6 DEF Chained
<1>. QED BY <1>2, <1>3, <1>6, <1>8, <1>9, <1>10 DEF Clear

\* What is defined leads to no reference that is not.
LEMMA UnhinderedClear ==
  ASSUME WorldOK, NEW c \in Cells, Known(Place(c)), NEW P \in SUBSET HereRefs, Chained(c),
         Unhindered(P, c.uri)
  PROVE  Clear(P, c)
<1>1. PICK n \in Nat : Near(n, Aim(c))
  BY DEF Chained
<1>2. ASSUME NEW r \in P, Near(n, LocOf(r, c.uri)) PROVE FALSE
  <2>1. r \in Ref /\ r.file = Here /\ c.uri \in Uris
    BY DEF HereRefs, Cells, CellId
  <2>2. LocOf(r, c.uri) \in Loc /\ r.name # Root
    BY <2>1, RefParts, NullsAssumption DEF LocOf, FileOf, Loc
  <2>3. Known(LocOf(r, c.uri))
    <3>1. n = 0 \/ \E p \in Nat : n = p + 1
      <4>1. n # 0 => n - 1 \in Nat /\ n = (n - 1) + 1
        OBVIOUS
      <4>. QED BY <4>1
    <3>. QED BY <1>2, <2>2, <3>1, NearUnfold
  <2>. QED BY <2>1, <2>2, <2>3 DEF Known, LocOf, FileOf, Unhindered
<1>. QED BY <1>1, <1>2 DEF Clear

LEMMA SameLocal ==
  ASSUME world' = world
  PROVE  /\ \A c : Chained(c)' = Chained(c)
         /\ \A P, c : Clear(P, c)' = Clear(P, c)
         /\ \A f, P, c : Pursues(f, P, c)' = Pursues(f, P, c)
         /\ \A f, P, c : VisitsIn(f, P, c)' = VisitsIn(f, P, c)
         /\ \A f : InPlace(f)' = InPlace(f)
         /\ Listed' = Listed
<1>1. \A c : RefOf(c)' = RefOf(c) /\ Aim(c)' = Aim(c)
  BY SameWorld, SameAims
<1>2. \A n, l : Near(n, l)' = Near(n, l)
  BY DEF Near, Locally, Defines, ShapeAt, LocOf, FileOf
<1>3. \A c : Chained(c)' = Chained(c)
  BY <1>1, <1>2, Zenon DEF Chained
<1>4. \A P, c : Clear(P, c)' = Clear(P, c)
  BY <1>1, <1>2, <1>3, Zenon DEF Clear
<1>5. \A f, P, c : Pursues(f, P, c)' = Pursues(f, P, c)
  BY <1>4, Zenon DEF Pursues
<1>6. \A P, u : Unhindered(P, u)' = Unhindered(P, u)
  BY DEF Unhindered, Defines
<1>7. \A f, P, c : VisitsIn(f, P, c)' = VisitsIn(f, P, c)
  <2>. SUFFICES ASSUME NEW f, NEW P, NEW c PROVE VisitsIn(f, P, c)' = VisitsIn(f, P, c)
    OBVIOUS
  <2>1. /\ RefOf(f.cell)' = RefOf(f.cell) /\ Unhindered(P, c.uri)' = Unhindered(P, c.uri)
        /\ Pursues(f, P, c)' = Pursues(f, P, c)
    BY <1>1, <1>5, <1>6
  <2>. QED BY <2>1, Zenon DEF VisitsIn
<1>8. \A u : RefersWithin(u)' = RefersWithin(u) /\ RefsIn(u)' = RefsIn(u)
  BY SameAims DEF RefsIn, Defines, ShapeAt
<1>9. \A f : InPlace(f)' = InPlace(f)
  BY <1>1, <1>8, Zenon DEF InPlace
<1>10. Listed' = Listed
  BY <1>8 DEF Listed
<1>. QED BY <1>3, <1>4, <1>5, <1>7, <1>9, <1>10

\* The references in progress before a frame are those of the frames before.
LEMMA PendingMoves ==
  ASSUME StackOK, world' = world, stack # <<>>
  PROVE  /\ Pop => \A i \in DOMAIN stack' : Pending(i)' = Pending(i)
         /\ \A f : Goto(f) => \A i \in DOMAIN stack : Pending(i)' = Pending(i)
         /\ \A f, g : Call(f, g) =>
              /\ \A i \in DOMAIN stack : Pending(i)' = Pending(i)
              /\ \A m : m = Len(stack) + 1 =>
                   Pending(m)' = Pending(Len(stack)) \cup ({InProgress(f)} \cap HereRefs)
<1>0. Len(stack) \in Nat \ {0} /\ DOMAIN stack = 1..Len(stack)
  BY DEF StackOK
<1>1. \A i \in DOMAIN stack' : InProgress(stack[i])' = InProgress(stack'[i])
  BY SameWorld
<1>2. ASSUME NEW i, NEW P,
             \A r \in HereRefs : r \in P <=> \E j \in DOMAIN stack' : j < i /\ InProgress(stack'[j]) = r,
             P \subseteq HereRefs
      PROVE  Pending(i)' = P
  BY <1>1, <1>2 DEF Pending, HereRefs
<1>3. ASSUME NEW i \in DOMAIN stack, NEW j \in DOMAIN stack, j < i
      PROVE  j # Len(stack)
  BY <1>0, <1>3
<1>4. ASSUME Pop, NEW i \in DOMAIN stack' PROVE Pending(i)' = Pending(i)
  <2>1. /\ DOMAIN stack' = DOMAIN stack \ {Len(stack)}
        /\ \A j \in DOMAIN stack' : stack'[j] = stack[j]
    BY <1>4, PopMoves
  <2>2. \A j \in DOMAIN stack : j < i => j \in DOMAIN stack' /\ stack'[j] = stack[j]
    BY <1>3, <2>1
  <2>3. \A r \in HereRefs : r \in Pending(i) <=> \E j \in DOMAIN stack' : j < i /\ InProgress(stack'[j]) = r
    BY <2>1, <2>2 DEF Pending
  <2>4. Pending(i) \subseteq HereRefs
    BY DEF Pending
  <2>. QED BY <1>2, <2>3, <2>4
<1>5. ASSUME NEW f, Goto(f), NEW i \in DOMAIN stack PROVE Pending(i)' = Pending(i)
  <2>1. /\ DOMAIN stack' = DOMAIN stack
        /\ \A j \in DOMAIN stack : j # Len(stack) => stack'[j] = stack[j]
    BY <1>5, GotoMoves
  <2>2. \A j \in DOMAIN stack : j < i => stack'[j] = stack[j]
    BY <1>3, <2>1
  <2>3. \A r \in HereRefs : r \in Pending(i) <=> \E j \in DOMAIN stack' : j < i /\ InProgress(stack'[j]) = r
    BY <2>1, <2>2 DEF Pending
  <2>4. Pending(i) \subseteq HereRefs
    BY DEF Pending
  <2>. QED BY <1>2, <2>3, <2>4
<1>6. ASSUME NEW f, NEW g, Call(f, g)
      PROVE  /\ \A i \in DOMAIN stack : Pending(i)' = Pending(i)
             /\ \A m : m = Len(stack) + 1 =>
                  Pending(m)' = Pending(Len(stack)) \cup ({InProgress(f)} \cap HereRefs)
  <2>1. /\ DOMAIN stack' = DOMAIN stack \cup {Len(stack) + 1} /\ Len(stack) \in DOMAIN stack
        /\ stack'[Len(stack)] = f
        /\ \A j \in DOMAIN stack : j # Len(stack) => stack'[j] = stack[j]
    BY <1>6, CallPuts
  <2>2. ASSUME NEW i \in DOMAIN stack PROVE Pending(i)' = Pending(i)
    <3>1. \A j \in DOMAIN stack' : j < i => j \in DOMAIN stack /\ stack'[j] = stack[j]
      BY <1>0, <1>3, <2>1
    <3>2. \A j \in DOMAIN stack : j < i => j \in DOMAIN stack' /\ stack'[j] = stack[j]
      BY <1>3, <2>1
    <3>3. \A r \in HereRefs : r \in Pending(i) <=> \E j \in DOMAIN stack' : j < i /\ InProgress(stack'[j]) = r
      BY <3>1, <3>2 DEF Pending
    <3>4. Pending(i) \subseteq HereRefs
      BY DEF Pending
    <3>. QED BY <1>2, <3>3, <3>4
  <2>3. ASSUME NEW m, m = Len(stack) + 1
        PROVE  Pending(m)' = Pending(Len(stack)) \cup ({InProgress(f)} \cap HereRefs)
    <3>. DEFINE n == Len(stack)
    <3>1. PICK P : P = Pending(n) \cup ({InProgress(f)} \cap HereRefs)
      OBVIOUS
    <3>2. \A j \in DOMAIN stack' : j < m <=> (j < n /\ j \in DOMAIN stack) \/ j = n
      BY <1>0, <2>1, <2>3
    <3>3. \A j \in DOMAIN stack : j < n => j \in DOMAIN stack' /\ stack'[j] = stack[j]
      BY <1>0, <2>1
    <3>4. n \in DOMAIN stack' /\ stack'[n] = f
      BY <2>1
    <3>. HIDE DEF n
    <3>5. \A r \in HereRefs : r \in P <=> \E j \in DOMAIN stack' : j < m /\ InProgress(stack'[j]) = r
      <4>1. \A r \in HereRefs : r \in P <=> r = InProgress(f) \/
                                   \E j \in DOMAIN stack : j < n /\ InProgress(stack[j]) = r
        BY <3>1 DEF Pending
      <4>. QED BY <3>2, <3>3, <3>4, <4>1
    <3>6. P \subseteq HereRefs
      BY <3>1 DEF Pending
    <3>. QED BY <1>2, <3>1, <3>5, <3>6 DEF n
  <2>. QED BY <2>2, <2>3
<1>. QED BY <1>4, <1>5, <1>6

\* What stands in the way of a call that the frame on top makes as f.
Under(f)   == Pending(Len(stack)) \cup ({InProgress(f)} \cap HereRefs)
Seeks(c)   == VisitsIn(Top, Pending(Len(stack)), c)
Chases(c)  == Pursues(Top, Pending(Len(stack)), c)

\* Only what the frame on top was to visit can be lost.
LEMMA SoughtMoves ==
  ASSUME IInv, stack # <<>>, world' = world
  PROVE  /\ Pop => \A c : Sought(c) => Sought(c)' \/ Seeks(c)
         /\ \A f : Goto(f) => \A c : /\ Sought(c) => Sought(c)' \/ Seeks(c)
                                     /\ VisitsIn(f, Pending(Len(stack)), c) => Sought(c)'
         /\ \A f, g : Call(f, g) =>
              \A c : /\ Sought(c) => Sought(c)' \/ Seeks(c)
                     /\ VisitsIn(f, Pending(Len(stack)), c) => Sought(c)'
                     /\ VisitsIn(g, Under(f), c) => Sought(c)'
<1>1. ASSUME NEW c, NEW i \in DOMAIN stack', NEW f, f = stack'[i], NEW P, P = Pending(i)',
             VisitsIn(f, P, c)
      PROVE  Sought(c)'
  <2>1. VisitsIn(f, P, c)'
    BY <1>1, SameLocal
  <2>. QED BY <1>1, <2>1 DEF Sought
<1>2. ASSUME NEW c, Sought(c), ~Seeks(c)
      PROVE  \E i \in DOMAIN stack : i # Len(stack) /\ VisitsIn(stack[i], Pending(i), c)
  BY <1>2 DEF Sought, Seeks, Top
<1>3. StackOK
  BY DEF IInv
<1>4. ASSUME Pop, NEW c, Sought(c), ~Seeks(c) PROVE Sought(c)'
  <2>1. \A i \in DOMAIN stack : i # Len(stack) =>
          i \in DOMAIN stack' /\ stack'[i] = stack[i] /\ Pending(i)' = Pending(i)
    BY <1>3, <1>4, PopMoves, PendingMoves
  <2>. QED BY <1>1, <1>2, <1>4, <2>1
<1>5. ASSUME NEW f, Goto(f), NEW c
      PROVE  /\ Sought(c) => Sought(c)' \/ Seeks(c)
             /\ VisitsIn(f, Pending(Len(stack)), c) => Sought(c)'
  <2>1. /\ \A i \in DOMAIN stack : Pending(i)' = Pending(i) /\ i \in DOMAIN stack'
        /\ \A i \in DOMAIN stack : i # Len(stack) => stack'[i] = stack[i]
        /\ Len(stack) \in DOMAIN stack /\ stack'[Len(stack)] = f
    BY <1>3, <1>5, GotoMoves, PendingMoves
  <2>. QED BY <1>1, <1>2, <2>1
<1>6. ASSUME NEW f, NEW g, Call(f, g), NEW c
      PROVE  /\ Sought(c) => Sought(c)' \/ Seeks(c)
             /\ VisitsIn(f, Pending(Len(stack)), c) => Sought(c)'
             /\ VisitsIn(g, Under(f), c) => Sought(c)'
  <2>1. /\ \A i \in DOMAIN stack : Pending(i)' = Pending(i) /\ i \in DOMAIN stack'
        /\ \A i \in DOMAIN stack : i # Len(stack) => stack'[i] = stack[i]
        /\ Len(stack) \in DOMAIN stack /\ stack'[Len(stack)] = f
        /\ Len(stack) + 1 \in DOMAIN stack' /\ stack'[Len(stack) + 1] = g
    BY <1>3, <1>6, CallPuts, PendingMoves
  <2>2. PICK m : m = Len(stack) + 1
    OBVIOUS
  <2>3. Pending(m)' = Under(f)
    BY <1>3, <1>6, <2>2, PendingMoves DEF Under
  <2>4. VisitsIn(g, Under(f), c) => Sought(c)'
    BY <1>1, <2>1, <2>2, <2>3
  <2>. QED BY <1>1, <1>2, <2>1, <2>4
<1>. QED BY <1>4, <1>5, <1>6

LEMMA AwaitedKeeps ==
  ASSUME Awaited, world' = world, Stable, Live' => Live, loads' = loads,
         \A c : Sought(c) => Sought(c)' \/ Seeks(c),
         \A c \in DOMAIN value : Chained(c) /\ Seeks(c) => value'[c] # Nil \/ Sought(c)',
         \A c \in DOMAIN value' : c \notin DOMAIN value /\ Chained(c) /\ c.inst = 0 =>
                                    value'[c] # Nil \/ Sought(c)'
  PROVE  Awaited'
<1>. SUFFICES ASSUME loads = 1, Live, NEW c \in DOMAIN value', Chained(c), c.inst = 0,
                     value'[c] = Nil, c \in DOMAIN value
              PROVE  Sought(c)'
  BY SameLocal DEF Awaited
<1>1. value[c] = Nil
  BY DEF Stable
<1>2. Sought(c)
  BY <1>1 DEF Awaited
<1>. QED BY <1>2

\* A frame keeps following the copy that the frame before it made.
LEMMA LinkedMoves ==
  ASSUME IInv, Linked, world' = world, Stable, stack # <<>>, Live' => Live
  PROVE  /\ Pop /\ (\A c \in DOMAIN value : Chases(c) => value'[c] # Nil) => Linked'
         /\ \A f : /\ Goto(f) /\ f.pc # "copy"
                   /\ \A c \in DOMAIN value :
                        Chases(c) => value'[c] # Nil \/ Pursues(f, Pending(Len(stack)), c)
                   => Linked'
         /\ \A f, g : /\ Call(f, g) /\ g.pc # "copy"
                      /\ f.pc = "copy" /\ Clear(Pending(Len(stack)), f.cell) =>
                           value'[f.tmp] # Nil \/ Pursues(g, Under(f), f.tmp)
                      /\ \A c \in DOMAIN value :
                           Chases(c) => value'[c] # Nil \/ Pursues(f, Pending(Len(stack)), c)
                      => Linked'
<1>. SUFFICES ASSUME Live
              PROVE  /\ Pop /\ (\A c \in DOMAIN value : Chases(c) => value'[c] # Nil) => Linked'
                     /\ \A f : /\ Goto(f) /\ f.pc # "copy"
                               /\ \A c \in DOMAIN value :
                                    Chases(c) => value'[c] # Nil \/ Pursues(f, Pending(Len(stack)), c)
                               => Linked'
                     /\ \A f, g : /\ Call(f, g) /\ g.pc # "copy"
                                  /\ f.pc = "copy" /\ Clear(Pending(Len(stack)), f.cell) =>
                                       value'[f.tmp] # Nil \/ Pursues(g, Under(f), f.tmp)
                                  /\ \A c \in DOMAIN value :
                                       Chases(c) => value'[c] # Nil \/ Pursues(f, Pending(Len(stack)), c)
                                  => Linked'
  BY DEF Linked
<1>. PICK n : n = Len(stack)
  OBVIOUS
<1>. DEFINE Due(h, P)  == h.fn = "resolveSchemaRef" /\ h.pc = "copy" /\ Clear(P, h.cell)
            Heir(i, c) == i \in DOMAIN stack' /\ Pursues(stack'[i], Pending(i)', c)
<1>0. StackOK /\ n \in Nat \ {0} /\ DOMAIN stack = 1..n /\ Top = stack[n] /\ n \in DOMAIN stack
  BY DEF IInv, StackOK, Top
<1>1. ASSUME \A i \in DOMAIN stack' : Due(stack'[i], Pending(i)') =>
               value'[stack'[i].tmp] # Nil \/ Heir(i + 1, stack'[i].tmp)
      PROVE  Linked'
  <2>. SUFFICES ASSUME NEW i \in DOMAIN stack', NEW h, h = stack'[i], NEW P, P = Pending(i)',
                       h.fn = "resolveSchemaRef", h.pc = "copy", Clear(P, h.cell)'
                PROVE  value'[h.tmp] # Nil \/ Follower(i + 1, h.tmp)'
    BY DEF Linked
  <2>1. Due(h, P)
    BY SameLocal
  <2>2. ASSUME Heir(i + 1, h.tmp) PROVE Follower(i + 1, h.tmp)'
    <3>1. PICK k, Q, c : k = stack'[i + 1] /\ Q = Pending(i + 1)' /\ c = h.tmp
      OBVIOUS
    <3>2. Pursues(k, Q, c)'
      BY <2>2, <3>1, SameLocal
    <3>3. Follower(i + 1, c)'
      BY <2>2, <3>1, <3>2 DEF Follower
    <3>. QED BY <3>1, <3>3
  <2>. QED BY <1>1, <2>1, <2>2
<1>. HIDE DEF Due
<1>2. ASSUME NEW i \in DOMAIN stack, Due(stack[i], Pending(i))
      PROVE  /\ stack[i].tmp \in DOMAIN value
             /\ \/ value'[stack[i].tmp] # Nil
                \/ i + 1 \in DOMAIN stack /\ Pursues(stack[i + 1], Pending(i + 1), stack[i].tmp)
  <2>1. stack[i].tmp \in DOMAIN value
    BY <1>0, <1>2 DEF StackOK, FrameOK, Due
  <2>2. value[stack[i].tmp] # Nil \/ Follower(i + 1, stack[i].tmp)
    BY <1>2 DEF Linked, Due
  <2>. QED BY <2>1, <2>2 DEF Stable, Follower
<1>3. ASSUME \A i \in DOMAIN stack : i # n => i \in DOMAIN stack' /\ stack'[i] = stack[i],
             \A i \in DOMAIN stack \cap DOMAIN stack' : Pending(i)' = Pending(i),
             \A c \in DOMAIN value : Chases(c) => value'[c] # Nil \/ Heir(n, c),
             NEW i \in DOMAIN stack, i # n, Due(stack'[i], Pending(i)')
      PROVE  value'[stack'[i].tmp] # Nil \/ Heir(i + 1, stack'[i].tmp)
  <2>1. stack'[i] = stack[i] /\ Due(stack[i], Pending(i))
    BY <1>3
  <2>2. CASE value'[stack[i].tmp] # Nil
    BY <2>1, <2>2
  <2>3. CASE i + 1 \in DOMAIN stack /\ i + 1 # n /\ Pursues(stack[i + 1], Pending(i + 1), stack[i].tmp)
    BY <1>3, <2>1, <2>3
  <2>4. CASE i + 1 = n /\ Pursues(stack[i + 1], Pending(i + 1), stack[i].tmp)
    <3>1. Chases(stack[i].tmp)
      BY <1>0, <2>4 DEF Chases
    <3>. QED BY <1>2, <1>3, <2>1, <2>4, <3>1
  <2>. QED BY <1>2, <2>1, <2>2, <2>3, <2>4
<1>4. ASSUME Pop, \A c \in DOMAIN value : Chases(c) => value'[c] # Nil
      PROVE  Linked'
  <2>1. /\ DOMAIN stack' = DOMAIN stack \ {n}
        /\ \A i \in DOMAIN stack' : stack'[i] = stack[i] /\ Pending(i)' = Pending(i)
    BY <1>0, <1>4, PopMoves, PendingMoves
  <2>2. \A c \in DOMAIN value : Chases(c) => value'[c] # Nil \/ Heir(n, c)
    BY <1>4
  <2>. HIDE DEF Heir
  <2>. QED BY <1>1, <1>3, <2>1, <2>2
<1>5. ASSUME NEW f, Goto(f), f.pc # "copy",
             \A c \in DOMAIN value :
               Chases(c) => value'[c] # Nil \/ Pursues(f, Pending(Len(stack)), c)
      PROVE  Linked'
  <2>1. /\ DOMAIN stack' = DOMAIN stack /\ stack'[n] = f
        /\ \A i \in DOMAIN stack : i # n => stack'[i] = stack[i]
        /\ \A i \in DOMAIN stack : Pending(i)' = Pending(i)
    BY <1>0, <1>5, GotoMoves, PendingMoves
  <2>2. \A c \in DOMAIN value : Chases(c) => value'[c] # Nil \/ Heir(n, c)
    BY <1>0, <1>5, <2>1
  <2>3. ~Due(stack'[n], Pending(n)')
    BY <1>5, <2>1 DEF Due
  <2>. HIDE DEF Heir
  <2>. QED BY <1>1, <1>3, <2>1, <2>2, <2>3
<1>6. ASSUME NEW f, NEW g, Call(f, g), g.pc # "copy",
             f.pc = "copy" /\ Clear(Pending(Len(stack)), f.cell) =>
                value'[f.tmp] # Nil \/ Pursues(g, Under(f), f.tmp),
             \A c \in DOMAIN value :
               Chases(c) => value'[c] # Nil \/ Pursues(f, Pending(Len(stack)), c)
      PROVE  Linked'
  <2>1. /\ DOMAIN stack' = DOMAIN stack \cup {n + 1} /\ stack'[n] = f /\ stack'[n + 1] = g
        /\ \A i \in DOMAIN stack : i # n => stack'[i] = stack[i]
        /\ \A i \in DOMAIN stack : Pending(i)' = Pending(i)
    BY <1>0, <1>6, CallPuts, PendingMoves
  <2>2. \A c \in DOMAIN value : Chases(c) => value'[c] # Nil \/ Heir(n, c)
    BY <1>0, <1>6, <2>1
  <2>3. PICK m : m = n + 1
    OBVIOUS
  <2>4. Pending(m)' = Under(f)
    BY <1>0, <1>6, <2>3, PendingMoves DEF Under
  <2>5. Due(stack'[n], Pending(n)') => value'[f.tmp] # Nil \/ Heir(n + 1, f.tmp)
    <3>1. ASSUME Due(f, Pending(n)), value'[f.tmp] = Nil PROVE Heir(m, f.tmp)
      BY <1>0, <1>6, <2>1, <2>3, <2>4, <3>1 DEF Due
    <3>. QED BY <1>0, <2>1, <2>3, <3>1
  <2>6. g.pc # "copy"
    BY <1>6
  <2>7. ~Due(stack'[m], Pending(m)')
    BY <2>1, <2>3, <2>6 DEF Due
  <2>. HIDE DEF Heir
  <2>. QED BY <1>1, <1>3, <2>1, <2>2, <2>3, <2>5, <2>7
<1>. QED BY <1>4, <1>5, <1>6

\* A visited reference is in progress in a frame on the stack.
LEMMA VisitedAreOpen ==
  ASSUME ValueInv, Live, NEW r \in visitedRefs
  PROVE  \E i \in OpenFrames : InProgress(stack[i]) = r
<1>. DEFINE f == [i \in OpenFrames |-> InProgress(stack[i])]
<1>1. /\ IsFiniteSet(visitedRefs) /\ Cardinality(visitedRefs) = Cardinality(OpenFrames)
      /\ \A i \in OpenFrames : InProgress(stack[i]) \in visitedRefs
  BY DEF ValueInv, Matching, Paired, Visiting
<1>2. f \in Injection(OpenFrames, visitedRefs)
  BY <1>1 DEF Injection, ValueInv, Distinct, IsInjective
<1>. HIDE DEF f
<1>3. f \in Surjection(OpenFrames, visitedRefs)
  BY <1>1, <1>2, FS_Injection
<1>4. \E i \in OpenFrames : f[i] = r
  BY <1>3 DEF Surjection
<1>. QED BY <1>4 DEF f

\* So a reference that is clear is not visited when a frame enters it.
LEMMA ClearUnvisited ==
  ASSUME ValueInv, Live, stack # <<>>, Top.pc = "enter", NEW c \in DOMAIN value,
         Clear(Pending(Len(stack)), c)
  PROVE  RefOf(c) \notin visitedRefs
<1>. SUFFICES ASSUME RefOf(c) \in visitedRefs PROVE FALSE
  OBVIOUS
<1>1. PICK i \in OpenFrames : InProgress(stack[i]) = RefOf(c)
  BY VisitedAreOpen
<1>2. i \in DOMAIN stack /\ i < Len(stack)
  <2>1. Len(stack) \in Nat /\ DOMAIN stack = 1..Len(stack) /\ i \in DOMAIN stack
    BY DEF ValueInv, IInv, StackOK, OpenFrames
  <2>2. i # Len(stack)
    BY DEF OpenFrames, InProgress, Top
  <2>. QED BY <2>1, <2>2
<1>3. RefOf(c) \in HereRefs
  BY DEF Clear, Chained, HereRefs, ValueInv, IInv, VisitsOK
<1>4. RefOf(c) \in Pending(Len(stack))
  BY <1>1, <1>2, <1>3 DEF Pending
<1>. QED BY <1>4 DEF Clear, Chained, Aim

LEMMA ListingKeeps ==
  ASSUME Listing, world' = world, visitedDocuments \subseteq visitedDocuments',
         \A c \in DOMAIN value' : c \notin DOMAIN value /\ RefersWithin(c.uri) => Sheet(c)'
  PROVE  Listing'
<1>1. \A c : RefersWithin(c.uri)' = RefersWithin(c.uri)
  BY SameAims
<1>2. \A c : Sheet(c) => Sheet(c)'
  BY DEF Sheet
<1>. QED BY <1>1, <1>2 DEF Listing

LEMMA ContextsMove ==
  ASSUME IInv, Contexts, world' = world
  PROVE  /\ stack' = stack => Contexts'
         /\ stack # <<>> /\ Pop => Contexts'
         /\ stack # <<>> => \A f : InPlace(f) /\ Goto(f) => Contexts'
         /\ stack # <<>> => \A f, g : InPlace(f) /\ InPlace(g) /\ Call(f, g) => Contexts'
<1>1. \A f : (\E i \in DOMAIN stack : f = stack[i]) => InPlace(f)
  BY DEF Contexts
<1>2. (\A i \in DOMAIN stack' : \E f : f = stack'[i] /\ InPlace(f)) => Contexts'
  <2>1. \A f : InPlace(f) => InPlace(f)'
    BY SameLocal
  <2>. QED BY <2>1 DEF Contexts
<1>3. ASSUME stack' = stack PROVE Contexts'
  BY <1>1, <1>2, <1>3
<1>4. ASSUME stack # <<>>, Pop PROVE Contexts'
  <2>1. \A i \in DOMAIN stack' : i \in DOMAIN stack /\ stack'[i] = stack[i]
    BY <1>4, PopMoves DEF IInv
  <2>. QED BY <1>1, <1>2, <2>1
<1>5. ASSUME stack # <<>>, NEW f, InPlace(f), Goto(f) PROVE Contexts'
  <2>1. \A i \in DOMAIN stack' : stack'[i] = f \/ (i \in DOMAIN stack /\ stack'[i] = stack[i])
    BY <1>5, GotoMoves DEF IInv
  <2>. QED BY <1>1, <1>2, <1>5, <2>1
<1>6. ASSUME stack # <<>>, NEW f, NEW g, InPlace(f), InPlace(g), Call(f, g)
      PROVE  Contexts'
  <2>1. \A i \in DOMAIN stack' : \/ stack'[i] = f \/ stack'[i] = g
                                 \/ (i \in DOMAIN stack /\ stack'[i] = stack[i])
    BY <1>6, CallPuts DEF IInv
  <2>. QED BY <1>1, <1>2, <1>6, <2>1
<1>. QED BY <1>3, <1>4, <1>5, <1>6

(***************************************************************************)
(* The steps.                                                              *)
(***************************************************************************)
Unlost == Awaited' /\ Linked' /\ Listing' /\ Contexts'

\* What is known of the frame on top.
LEMMA TopLocal ==
  ASSUME LocalInv, stack # <<>>
  PROVE  /\ IInv /\ WorldOK /\ ValueInv /\ TargetInv /\ Top \in Frame /\ FrameOK(Top)
         /\ InPlace(Top) /\ ReadyFrame(Top) /\ Inlined /\ Defined
         /\ Top.fn = "resolveSchemaRef" => Top.cell \in DOMAIN value
         /\ \A c \in DOMAIN value : c \in Cells /\ c \in CellId /\ Known(Place(c))
         /\ Pending(Len(stack)) \in SUBSET HereRefs
<1>1. DirectInv
  BY DEF LocalInv
<1>2. /\ IInv /\ WorldOK /\ Top \in Frame /\ FrameOK(Top) /\ ReadyFrame(Top)
      /\ ValueInv /\ TargetInv /\ Inlined /\ Defined
  BY <1>1, TopReady DEF DirectInv, TargetInv
<1>3. InPlace(Top)
  BY <1>2 DEF LocalInv, Contexts, IInv, StackOK, Top
<1>. QED BY <1>2, <1>3 DEF FrameOK, Defined, IInv, HeapOK, Cells, Pending

\* The steps of an error.
LEMMA ErrorLocal ==
  ASSUME LocalInv,
         \/ ElementFails \/ DocumentFails \/ DrillFails \/ DocumentUndecodable \/ ReturnError
  PROVE  Unlost
<1>1. world' = world /\ ~Live' /\ visitedDocuments \subseteq visitedDocuments'
  BY DEF ElementFails, DocumentFails, DrillFails, DocumentUndecodable, ReturnError, Fail, static,
         Live
<1>2. IInv /\ Contexts /\ Listing
  BY DEF LocalInv, DirectInv, TargetInv, ValueInv
<1>3. DOMAIN value' = DOMAIN value
  BY DEF ElementFails, DocumentFails, DrillFails, DocumentUndecodable, ReturnError, Fail, heap,
         ReturnRef, UnvisitRef
<1>4. stack' = stack \/ (stack # <<>> /\ Pop)
  BY DEF ElementFails, DocumentFails, DrillFails, DocumentUndecodable, ReturnError, Fail
<1>5. Contexts'
  BY <1>1, <1>2, <1>4, ContextsMove
<1>6. Listing'
  BY <1>1, <1>2, <1>3, ListingKeeps
<1>. QED BY <1>1, <1>5, <1>6 DEF Unlost, Awaited, Linked

\* A frame returns: what it was to visit has its value.
LEMMA PopLocal ==
  ASSUME LocalInv, Stable, world' = world, loads' = loads, stack # <<>>, Live' => Live,
         DOMAIN value' = DOMAIN value, visitedDocuments' = visitedDocuments, Pop,
         \A c \in DOMAIN value : Chained(c) /\ Seeks(c) => value'[c] # Nil
  PROVE  Unlost
<1>1. IInv /\ Awaited /\ Linked /\ Listing /\ Contexts
  BY DEF LocalInv, DirectInv, TargetInv, ValueInv
<1>2. \A c : Chases(c) => Chained(c) /\ Seeks(c)
  BY DEF Chases, Seeks, VisitsIn, Pursues, Clear
<1>3. Awaited'
  BY <1>1, SoughtMoves, AwaitedKeeps
<1>4. Linked'
  BY <1>1, <1>2, LinkedMoves
<1>5. Listing' /\ Contexts'
  BY <1>1, ListingKeeps, ContextsMove
<1>. QED BY <1>3, <1>4, <1>5 DEF Unlost

\* The frame on top goes on as f: it visits, and follows, what it did, or that
\* has its value.
LEMMA GotoLocal ==
  ASSUME LocalInv, Stable, world' = world, loads' = loads, stack # <<>>, Live' => Live,
         visitedDocuments' = visitedDocuments, NEW f, Goto(f), f.pc # "copy", InPlace(f),
         \A c \in DOMAIN value : Chained(c) =>
            /\ Seeks(c) => value'[c] # Nil \/ VisitsIn(f, Pending(Len(stack)), c)
            /\ Chases(c) => value'[c] # Nil \/ Pursues(f, Pending(Len(stack)), c),
         \A c \in DOMAIN value' : c \notin DOMAIN value =>
            c.inst # 0 /\ (RefersWithin(c.uri) => Sheet(c)')
  PROVE  Unlost
<1>1. IInv /\ Awaited /\ Linked /\ Listing /\ Contexts
  BY DEF LocalInv, DirectInv, TargetInv, ValueInv
<1>2. \A c : Chases(c) => Chained(c)
  BY DEF Chases, Pursues, Clear
<1>3. Awaited'
  <2>1. /\ \A c : Sought(c) => Sought(c)' \/ Seeks(c)
        /\ \A c : VisitsIn(f, Pending(Len(stack)), c) => Sought(c)'
    BY <1>1, SoughtMoves
  <2>. QED BY <1>1, <2>1, AwaitedKeeps
<1>4. Linked'
  BY <1>1, <1>2, LinkedMoves
<1>5. Listing' /\ Contexts'
  BY <1>1, ListingKeeps, ContextsMove
<1>. QED BY <1>3, <1>4, <1>5 DEF Unlost

\* The frame on top goes on as f, and calls g.
LEMMA CallLocal ==
  ASSUME LocalInv, Stable, world' = world, loads' = loads, stack # <<>>, Live' => Live,
         visitedDocuments \subseteq visitedDocuments', NEW f, NEW g, Call(f, g), g.pc # "copy",
         InPlace(f), InPlace(g),
         \A c \in DOMAIN value : Chained(c) =>
            /\ Seeks(c) => \/ value'[c] # Nil
                           \/ VisitsIn(f, Pending(Len(stack)), c) \/ VisitsIn(g, Under(f), c)
            /\ Chases(c) => value'[c] # Nil \/ Pursues(f, Pending(Len(stack)), c),
         f.pc = "copy" /\ Clear(Pending(Len(stack)), f.cell) =>
            value'[f.tmp] # Nil \/ Pursues(g, Under(f), f.tmp),
         \A c \in DOMAIN value' : c \notin DOMAIN value =>
            /\ Chained(c) /\ c.inst = 0 => VisitsIn(g, Under(f), c)
            /\ RefersWithin(c.uri) => Sheet(c)'
  PROVE  Unlost
<1>1. IInv /\ Awaited /\ Linked /\ Listing /\ Contexts
  BY DEF LocalInv, DirectInv, TargetInv, ValueInv
<1>2. \A c : Chases(c) => Chained(c)
  BY DEF Chases, Pursues, Clear
<1>3. Awaited'
  <2>1. /\ \A c : Sought(c) => Sought(c)' \/ Seeks(c)
        /\ \A c : VisitsIn(f, Pending(Len(stack)), c) => Sought(c)'
        /\ \A c : VisitsIn(g, Under(f), c) => Sought(c)'
    BY <1>1, SoughtMoves
  <2>. QED BY <1>1, <2>1, AwaitedKeeps
<1>4. Linked'
  BY <1>1, <1>2, LinkedMoves
<1>5. Listing' /\ Contexts'
  BY <1>1, ListingKeeps, ContextsMove
<1>. QED BY <1>3, <1>4, <1>5 DEF Unlost

\* The frame enters a component.
LEMMA EnterInlineLocal ==
  ASSUME LocalInv, Stable, EnterInline
  PROVE  Unlost
<1>. DEFINE t == Top.cell
            f == [Top EXCEPT !.pc = "children", !.held = value[t]]
<1>1. /\ stack # <<>> /\ Top.fn = "resolveSchemaRef" /\ Top.pc = "enter" /\ RefOf(t) = Nil
      /\ world' = world /\ loads' = loads /\ value' = value /\ (Live' => Live)
      /\ visitedDocuments' = visitedDocuments /\ Goto(f)
  BY DEF EnterInline, At, static, heap, call, Live
<1>2. /\ Top \in Frame /\ InPlace(Top) /\ ReadyFrame(Top) /\ Inlined
      /\ \A c \in DOMAIN value : c \in CellId
  BY <1>1, TopLocal
<1>3. /\ f.fn = "resolveSchemaRef" /\ f.pc = "children" /\ f.held = value[t] /\ f.cell = t
      /\ f.pos = 0 /\ f.path = Top.path /\ f.doc = Top.doc
  BY <1>1, <1>2 DEF Frame, ReadyFrame
<1>. HIDE DEF f
<1>4. InPlace(f)
  BY <1>1, <1>2, <1>3 DEF InPlace
<1>5. ASSUME NEW c \in DOMAIN value, Chained(c), NEW P, VisitsIn(Top, P, c)
      PROVE  VisitsIn(f, P, c)
  <2>1. RefOf(c) # Nil
    BY <1>5 DEF Chained
  <2>2. t = First(c) /\ Unhindered(P, c.uri)
    BY <1>1, <1>5, <2>1 DEF VisitsIn, Pursues
  <2>3. c.k \in Nat /\ (c.k = 0 => First(c) = c)
    BY <1>2 DEF CellId, First
  <2>4. c.k > 0
    BY <1>1, <2>1, <2>2, <2>3
  <2>5. value[t] = Target(c)
    BY <1>2, <2>2, <2>4 DEF Inlined
  <2>. QED BY <1>1, <1>3, <2>2, <2>4, <2>5 DEF VisitsIn
<1>6. \A c : ~(Chained(c) /\ Chases(c))
  BY <1>1 DEF Chained, Chases, Pursues
<1>. QED BY <1>1, <1>3, <1>4, <1>5, <1>6, GotoLocal DEF Seeks

LEMMA EnterResolvedLocal ==
  ASSUME LocalInv, Stable, EnterResolved \/ EnterInProgress
  PROVE  Unlost
<1>. DEFINE t == Top.cell
<1>1. /\ stack # <<>> /\ Top.fn = "resolveSchemaRef" /\ Top.pc = "enter" /\ RefOf(t) # Nil
      /\ world' = world /\ loads' = loads /\ value' = value /\ Live /\ Pop
      /\ visitedDocuments' = visitedDocuments /\ (value[t] # Nil \/ RefOf(t) \in visitedRefs)
  BY DEF EnterResolved, EnterInProgress, At, static, heap, call, Live
<1>2. ValueInv
  BY <1>1, TopLocal
<1>3. ASSUME NEW c \in DOMAIN value, Seeks(c) PROVE value[c] # Nil
  <2>1. c = t /\ Clear(Pending(Len(stack)), c)
    BY <1>1, <1>3 DEF Seeks, VisitsIn, Pursues
  <2>. QED BY <1>1, <1>2, <2>1, ClearUnvisited
<1>. QED BY <1>1, <1>3, PopLocal

\* The frame resolves its component.
LEMMA EnterUnvisitedLocal ==
  ASSUME LocalInv, Stable, EnterUnvisited \/ DocumentHere \/ DocumentCached
  PROVE  Unlost
<1>. DEFINE t == Top.cell
            F(p, u) == [Top EXCEPT !.pc = p, !.tdoc = u]
<1>1. /\ stack # <<>> /\ Top.fn = "resolveSchemaRef" /\ RefOf(t) # Nil /\ Top.pc # "children"
      /\ world' = world /\ loads' = loads /\ value' = value /\ (Live' => Live)
      /\ visitedDocuments' = visitedDocuments
  <2>1. EnterUnvisited => RefOf(t) # Nil
    BY DEF EnterUnvisited
  <2>2. DocumentHere \/ DocumentCached => RefOf(t) # Nil
    BY TopLocal, NullsAssumption DEF FrameOK, DocumentHere, DocumentCached, At
  <2>. QED BY <2>1, <2>2 DEF EnterUnvisited, DocumentHere, DocumentCached, At, static, heap, call, Live
<1>2. Top \in Frame /\ InPlace(Top)
  BY <1>1, TopLocal
<1>3. \A p, u : /\ F(p, u).fn = Top.fn /\ F(p, u).cell = t /\ F(p, u).pc = p /\ F(p, u).tdoc = u
                /\ F(p, u).path = Top.path /\ F(p, u).doc = Top.doc
  BY <1>2 DEF Frame
<1>4. \E p, u : /\ Goto(F(p, u)) /\ p \in {"element", "document", "drill"}
                /\ p = "drill" /\ RefOf(t).file = Here => u = Top.doc
  <2>1. CASE EnterUnvisited
    <3>1. \A p : [Top EXCEPT !.pc = p] = F(p, Top.tdoc)
      BY <1>2 DEF Frame
    <3>2. PICK p : p = IF RefOf(t).name = Root THEN "element" ELSE "document"
      OBVIOUS
    <3>3. Goto([Top EXCEPT !.pc = p])
      BY <2>1, <3>2 DEF EnterUnvisited
    <3>4. PICK g : g = [Top EXCEPT !.pc = p]
      OBVIOUS
    <3>5. Goto(g) /\ g = F(p, Top.tdoc)
      BY <3>1, <3>3, <3>4
    <3>. HIDE DEF F
    <3>6. p \in {"element", "document"}
      BY <3>2
    <3>7. p # "drill"
      BY <3>6
    <3>. QED BY <3>5, <3>6, <3>7
  <2>2. CASE DocumentHere
    BY <2>2 DEF DocumentHere
  <2>3. CASE DocumentCached
    <3>1. RefOf(t).file # Here
      BY <1>1, <2>3, TopLocal, NullsAssumption DEF DocumentCached, IInv, CallOK
    <3>. QED BY <2>3, <3>1 DEF DocumentCached
  <2>. QED BY <2>1, <2>2, <2>3
<1>. HIDE DEF F
<1>5. PICK f : /\ Goto(f) /\ f.fn = "resolveSchemaRef" /\ f.pc \in {"element", "document", "drill"}
               /\ f.cell = t /\ f.path = Top.path /\ f.doc = Top.doc
               /\ f.pc = "drill" /\ RefOf(t).file = Here => f.tdoc = Top.doc
  BY <1>1, <1>3, <1>4
<1>6. InPlace(f)
  BY <1>2, <1>5 DEF InPlace
<1>7. \A c, P : VisitsIn(Top, P, c) => Pursues(f, P, c)
  BY <1>1, <1>5 DEF VisitsIn, Pursues
<1>8. \A c, P : Pursues(f, P, c) => VisitsIn(f, P, c)
  BY DEF VisitsIn
<1>9. \A c : Chases(c) => Seeks(c)
  BY DEF Chases, Seeks, VisitsIn
<1>. QED BY <1>1, <1>5, <1>6, <1>7, <1>8, <1>9, GotoLocal DEF Seeks

\* The loop over the components of a document.
LEMMA NextComponentLocal ==
  ASSUME LocalInv, Stable, NextComponent
  PROVE  Unlost
<1>. DEFINE n == NameOrder[Top.pos + 1]
            f == [Top EXCEPT !.pos = @ + 1]
            c1 == [inst |-> 0, uri |-> Top.doc, name |-> n, k |-> 0]
            g == RefFrame(c1, Top.doc, Top.path)
            P == Pending(Len(stack))
<1>1. /\ stack # <<>> /\ Top.fn = "ResolveRefsIn" /\ Top.pos < Len(NameOrder)
      /\ Top.pc = "components"
      /\ world' = world /\ loads' = loads /\ value' = value /\ (Live' => Live)
      /\ visitedDocuments' = visitedDocuments
  BY DEF NextComponent, At, static, heap, call, Live
<1>2. /\ WorldOK /\ Top \in Frame /\ InPlace(Top) /\ Inlined /\ Top.pos \in Nat
      /\ Len(NameOrder) \in Nat /\ DOMAIN NameOrder = 1..Len(NameOrder)
      /\ \A c \in DOMAIN value : c \in CellId /\ c \in Cells /\ Known(Place(c))
      /\ P \in SUBSET HereRefs
  BY <1>1, TopLocal, BoundsAssumption DEF Frame
<1>3. IF c1 \in DOMAIN value THEN Call(f, g) ELSE Goto(f)
  <2>1. Top.pos + 1 \in DOMAIN NameOrder
    BY <1>1, <1>2
  <2>2. n \in Names
    BY <2>1, BoundsAssumption
  <2>. QED BY <2>2 DEF NextComponent, Typed
<1>4. /\ f.fn = "ResolveRefsIn" /\ f.doc = Top.doc /\ f.path = Top.path /\ f.pos = Top.pos + 1
      /\ f.pc = "components"
      /\ g.fn = "resolveSchemaRef" /\ g.pc = "enter" /\ g.cell = c1
      /\ g.doc = Top.doc /\ g.path = Top.path
  BY <1>1, <1>2 DEF Frame, RefFrame
<1>5. ASSUME NEW c \in DOMAIN value, Chained(c), VisitsIn(Top, P, c)
      PROVE  VisitsIn(f, P, c) \/ (VisitsIn(g, P, c) /\ c1 \in DOMAIN value)
  <2>1. c.inst = 0 /\ Top.doc = c.uri /\ Unhindered(P, c.uri)
        /\ \E p \in DOMAIN NameOrder : p > Top.pos /\ NameOrder[p] = c.name
    BY <1>1, <1>5 DEF VisitsIn, Pursues
  <2>2. PICK p \in DOMAIN NameOrder : p > Top.pos /\ NameOrder[p] = c.name
    BY <2>1
  <2>3. CASE p = Top.pos + 1
    <3>1. c \in CellId /\ c.k \in Nat /\ n = c.name
      BY <1>2, <2>2, <2>3 DEF CellId
    <3>2. First(c) = c1
      BY <2>1, <3>1 DEF First, CellId
    <3>3. CASE c.k = 0
      <4>1. c1 = c
        BY <3>1, <3>2, <3>3 DEF First, CellId
      <4>2. Clear(P, c)
        BY <1>2, <1>5, <2>1, UnhinderedClear
      <4>. QED BY <1>4, <4>1, <4>2 DEF VisitsIn, Pursues
    <3>4. CASE c.k # 0
      <4>1. c.k > 0
        BY <3>1, <3>4
      <4>2. c1 \in DOMAIN value /\ RefOf(c1) = Nil
        BY <1>2, <3>2, <4>1 DEF Inlined
      <4>. QED BY <1>4, <2>1, <3>2, <4>2 DEF VisitsIn
    <3>. QED BY <3>3, <3>4
  <2>4. CASE p # Top.pos + 1
    <3>1. p > Top.pos + 1
      BY <1>2, <2>2, <2>4
    <3>. QED BY <1>4, <2>1, <2>2, <3>1 DEF VisitsIn
  <2>. QED BY <2>3, <2>4
<1>6. Under(f) = P
  BY <1>4, <1>2, NullsAssumption DEF Under, InProgress, HereRefs
<1>7. \A c : ~Chases(c)
  BY <1>1 DEF Chases, Pursues
<1>. HIDE DEF f, g, c1
<1>8. InPlace(f) /\ InPlace(g)
  BY <1>2, <1>4 DEF InPlace
<1>9. CASE c1 \in DOMAIN value
  BY <1>1, <1>3, <1>4, <1>5, <1>6, <1>7, <1>8, <1>9, CallLocal DEF Seeks
<1>10. CASE c1 \notin DOMAIN value
  BY <1>1, <1>3, <1>4, <1>5, <1>7, <1>8, <1>10, GotoLocal DEF Seeks
<1>. QED BY <1>9, <1>10

\* The loops end.
LEMMA DoneLocal ==
  ASSUME LocalInv, Stable, DocumentDone \/ ReferenceDone
  PROVE  Unlost
<1>1. /\ stack # <<>> /\ world' = world /\ loads' = loads /\ (Live' => Live) /\ Pop
      /\ visitedDocuments' = visitedDocuments
  BY DEF DocumentDone, ReferenceDone, At, static, call, Live
<1>2. DOMAIN value' = DOMAIN value
  BY DEF DocumentDone, ReferenceDone, ReturnRef, UnvisitRef, heap
<1>3. \A c \in DOMAIN value : c \in Cells /\ c \in CellId
  BY <1>1, TopLocal
<1>4. CASE DocumentDone
  <2>1. Top.fn = "ResolveRefsIn" /\ Top.pos = Len(NameOrder)
    BY <1>4 DEF DocumentDone, At
  <2>2. Len(NameOrder) \in Nat /\ DOMAIN NameOrder = 1..Len(NameOrder)
    BY BoundsAssumption
  <2>3. \A p \in DOMAIN NameOrder : ~(p > Top.pos)
    BY <2>1, <2>2
  <2>4. \A c : ~Seeks(c)
    BY <2>1, <2>3 DEF Seeks, VisitsIn, Pursues
  <2>. QED BY <1>1, <1>2, <2>4, PopLocal
<1>5. CASE ReferenceDone
  <2>1. Top.fn = "resolveSchemaRef" /\ Top.pc = "children" /\ Top.pos = Len(Children)
    BY <1>5 DEF ReferenceDone, At
  <2>2. ASSUME NEW c \in DOMAIN value PROVE ~Seeks(c)
    <3>. SUFFICES ASSUME Top.held = Target(c), Top.pos < c.k PROVE FALSE
      BY <2>1 DEF Seeks, VisitsIn, Pursues
    <3>1. c \in CellId /\ c.k \in Nat /\ c.k \in 0..Len(ShapeAt(c.uri, c.name).kids)
          /\ ShapeAt(c.uri, c.name) \in Shape
      BY <1>3 DEF Cells, CellId
    <3>2. Children = KidCells(Target(c))
      BY <3>1, TargetIs DEF Children
    <3>3. Len(ShapeAt(c.uri, c.name).kids) \in Nat
      BY <3>1, KidsType
    <3>4. Len(KidCells(Target(c))) = Len(ShapeAt(c.uri, c.name).kids)
      BY <3>3 DEF KidCells, Target
    <3>. QED BY <2>1, <3>1, <3>2, <3>3, <3>4
  <2>. QED BY <1>1, <1>2, <2>2, PopLocal
<1>. QED BY <1>4, <1>5

\* The loop over the sub-components of a value.
LEMMA NextChildLocal ==
  ASSUME LocalInv, Stable, NextChild
  PROVE  Unlost
<1>. DEFINE c1 == Children[Top.pos + 1]
            f  == [Top EXCEPT !.pos = @ + 1]
            g  == RefFrame(c1, Top.doc, Top.path)
            P  == Pending(Len(stack))
<1>1. /\ stack # <<>> /\ Top.fn = "resolveSchemaRef" /\ Top.pc = "children"
      /\ world' = world /\ loads' = loads /\ value' = value /\ (Live' => Live)
      /\ visitedDocuments' = visitedDocuments /\ Call(f, g)
  BY DEF NextChild, At, static, heap, call, Live
<1>2. /\ WorldOK /\ Top \in Frame /\ InPlace(Top) /\ Top.pos \in Nat /\ P \in SUBSET HereRefs
      /\ \A c \in DOMAIN value : c \in CellId /\ c \in Cells /\ Known(Place(c))
  BY <1>1, TopLocal DEF Frame
<1>3. /\ f.fn = "resolveSchemaRef" /\ f.pc = "children" /\ f.held = Top.held
      /\ f.pos = Top.pos + 1 /\ f.cell = Top.cell /\ f.doc = Top.doc /\ f.path = Top.path
      /\ g.fn = "resolveSchemaRef" /\ g.pc = "enter" /\ g.cell = c1
      /\ g.doc = Top.doc /\ g.path = Top.path
  BY <1>1, <1>2 DEF Frame, RefFrame
<1>4. ASSUME NEW c \in DOMAIN value, Chained(c), VisitsIn(Top, P, c)
      PROVE  VisitsIn(f, P, c) \/ (VisitsIn(g, P, c) /\ RefOf(Top.cell) = Nil)
  <2>1. Top.held = Target(c) /\ Top.pos < c.k /\ Unhindered(P, c.uri) /\ RefOf(Top.cell) = Nil
    BY <1>1, <1>4 DEF VisitsIn, Pursues
  <2>2. c \in CellId /\ c.k \in Nat /\ c.k \in 0..Len(ShapeAt(c.uri, c.name).kids)
        /\ ShapeAt(c.uri, c.name) \in Shape
    BY <1>2 DEF Cells, CellId
  <2>3. CASE c.k = Top.pos + 1
    <3>1. Target(c) # Nil
      BY <2>2, TargetIs
    <3>2. Children = KidCells(Target(c))
      BY <2>1, <3>1 DEF Children
    <3>3. c.k \in 1..Len(ShapeAt(c.uri, c.name).kids)
      BY <1>2, <2>2, <2>3, KidsType
    <3>4. KidCells(Target(c))[c.k] = [inst |-> c.inst, uri |-> c.uri, name |-> c.name, k |-> c.k]
      BY <3>3 DEF KidCells, Target
    <3>5. c1 = c
      BY <2>2, <2>3, <3>2, <3>4 DEF CellId
    <3>6. Clear(P, c)
      BY <1>2, <1>4, <2>1, UnhinderedClear
    <3>. QED BY <1>3, <2>1, <3>5, <3>6 DEF VisitsIn, Pursues
  <2>4. CASE c.k # Top.pos + 1
    <3>1. Top.pos + 1 < c.k
      BY <1>2, <2>1, <2>2, <2>4
    <3>. QED BY <1>3, <2>1, <3>1 DEF VisitsIn
  <2>. QED BY <2>3, <2>4
<1>5. RefOf(Top.cell) = Nil => Under(f) = P
  BY <1>2, <1>3, NullsAssumption DEF Under, InProgress, HereRefs
<1>6. \A c : ~Chases(c)
  BY <1>1 DEF Chases, Pursues
<1>. HIDE DEF f, g, c1
<1>7. InPlace(f) /\ InPlace(g)
  BY <1>2, <1>3 DEF InPlace
<1>. QED BY <1>1, <1>3, <1>4, <1>5, <1>6, <1>7, CallLocal DEF Seeks

\* The frame takes the value of its copy.
LEMMA CopyLocal ==
  ASSUME LocalInv, Stable, CopyResolved
  PROVE  Unlost
<1>. DEFINE t == Top.cell
            s == Top.tmp
            f == [Top EXCEPT !.pc = "children", !.held = value[s]]
<1>1. /\ stack # <<>> /\ Top.fn = "resolveSchemaRef" /\ Top.pc = "copy" /\ Goto(f)
      /\ value' = [value EXCEPT ![t] = value[s]]
      /\ world' = world /\ loads' = loads /\ (Live' => Live)
      /\ visitedDocuments' = visitedDocuments
  BY DEF CopyResolved, At, static, call, Live
<1>2. Top \in Frame /\ InPlace(Top) /\ t \in DOMAIN value /\ IInv
  BY <1>1, TopLocal
<1>3. /\ f.fn = "resolveSchemaRef" /\ f.pc = "children" /\ f.path = Top.path /\ f.doc = Top.doc
  BY <1>1, <1>2 DEF Frame
<1>4. DOMAIN value' = DOMAIN value /\ value'[t] = value[s]
  BY <1>1, <1>2
<1>. HIDE DEF f, s
<1>5. InPlace(f)
  BY <1>2, <1>3 DEF InPlace
<1>6. ASSUME Live, Clear(Pending(Len(stack)), t) PROVE value'[t] # Nil
  <2>1. Len(stack) \in DOMAIN stack /\ Len(stack) + 1 \notin DOMAIN stack
    BY <1>1, <1>2 DEF IInv, StackOK
  <2>2. value[s] # Nil \/ Follower(Len(stack) + 1, s)
    BY <1>1, <1>6, <2>1 DEF LocalInv, Linked, Top, s
  <2>. QED BY <1>4, <2>1, <2>2 DEF Follower
<1>7. \A c : Seeks(c) \/ Chases(c) => c = t /\ Clear(Pending(Len(stack)), t)
  BY <1>1 DEF Seeks, Chases, VisitsIn, Pursues
<1>8. CASE Live
  BY <1>1, <1>3, <1>4, <1>5, <1>6, <1>7, <1>8, GotoLocal
<1>9. CASE ~Live
  <2>1. Listing' /\ Contexts'
    BY <1>1, <1>2, <1>4, <1>5, ListingKeeps, ContextsMove DEF LocalInv
  <2>. QED BY <1>1, <1>9, <2>1 DEF Unlost, Awaited, Linked
<1>. QED BY <1>8, <1>9

\* The frame decodes a whole file, which refers to others only.
LEMMA ElementLocal ==
  ASSUME LocalInv, Stable, ElementDecoded
  PROVE  Unlost
<1>. DEFINE t   == Top.cell
            u   == RefOf(t).file
            v   == [inst |-> fresh, uri |-> u, name |-> Root]
            new == Decoded(fresh, u, Root)
            f   == [Top EXCEPT !.pc = "children", !.path = ElementPath(u), !.held = v]
<1>1. /\ stack # <<>> /\ Top.fn = "resolveSchemaRef" /\ Top.pc = "element" /\ Goto(f)
      /\ DOMAIN value' = DOMAIN value \cup new
      /\ world' = world /\ loads' = loads /\ (Live' => Live)
      /\ visitedDocuments' = visitedDocuments
  BY DEF ElementDecoded, At, static, call, Live
<1>2. /\ WorldOK /\ Top \in Frame /\ t \in DOMAIN value /\ t \in Cells /\ t \in CellId
      /\ Known(Place(t)) /\ RefOf(t) \in Ref /\ RefOf(t).name = Root /\ Born
  BY <1>1, TopLocal DEF FrameOK, ValueInv
<1>3. u \in Uris /\ u # Here
  BY <1>2, RefParts, NullsAssumption
<1>4. ~RefersWithin(u)
  <2>1. RefOf(t) # Nil
    BY <1>2, NullsAssumption
  <2>2. RefOf(t) \in RefsIn(t.uri) /\ t.uri \in Uris
    BY <1>2, <2>1, CellMeaning DEF CellId
  <2>. QED BY <1>2, <1>3, <2>2 DEF LocalInv, Listed
<1>5. f.fn = "resolveSchemaRef" /\ f.pc = "children" /\ f.path = u
  BY <1>1, <1>2 DEF Frame, ElementPath
<1>6. \A c \in new : c.inst # 0 /\ ~RefersWithin(c.uri)
  BY <1>2, <1>4 DEF Decoded, Born
<1>. HIDE DEF f, new
<1>7. InPlace(f)
  BY <1>4, <1>5 DEF InPlace
<1>8. \A c : Chained(c) => ~Seeks(c) /\ ~Chases(c)
  BY <1>1, <1>3 DEF Chained, Seeks, Chases, VisitsIn, Pursues
<1>. QED BY <1>1, <1>5, <1>6, <1>7, <1>8, GotoLocal

\* A reference in progress within another file does not stand in the way of
\* what a file that is being loaded refers to within itself.
LEMMA LoadingUnhindered ==
  ASSUME LocalInv, stack # <<>>, Top.fn = "resolveSchemaRef", RefOf(Top.cell) \in Ref,
         NEW u, u = RefOf(Top.cell).file, u # Here, u \notin visitedDocuments, RefersWithin(u)
  PROVE  Unhindered(Pending(Len(stack)), u)
<1>. SUFFICES ASSUME NEW q \in Pending(Len(stack)), Defines(u, q.name) PROVE FALSE
  BY DEF Unhindered
<1>1. PICK j \in DOMAIN stack : InProgress(stack[j]) = q
  BY DEF Pending
<1>2. q \in Ref /\ q.file = Here /\ q # Nil
  BY NullsAssumption DEF Pending, HereRefs
<1>3. /\ IInv /\ WorldOK /\ \A c \in DOMAIN value : c \in Cells /\ c \in CellId /\ Known(Place(c))
  BY TopLocal
<1>4. PICK c \in DOMAIN value : RefOf(c) = q
  BY <1>1, <1>2, <1>3 DEF InProgress, IInv, StackOK, FrameOK
<1>5. q \in RefsIn(c.uri) /\ c.uri \in Uris
  BY <1>2, <1>3, <1>4, CellMeaning DEF CellId
<1>6. c.uri \in visitedDocuments
  BY <1>2, <1>5 DEF LocalInv, Listing, Sheet, RefersWithin
<1>7. u \in Uris
  BY RefParts
<1>8. CASE NamesApart
  BY <1>2, <1>5, <1>6, <1>7, <1>8 DEF NamesApart
<1>9. CASE Rooted
  <2>1. Top.cell \in DOMAIN value /\ RefOf(Top.cell) # Nil
    BY TopLocal, NullsAssumption
  <2>2. RefOf(Top.cell) \in RefsIn(Top.cell.uri) /\ Top.cell.uri \in Uris
    BY <1>3, <2>1, CellMeaning DEF CellId
  <2>. QED BY <1>7, <1>9, <2>2 DEF Rooted
<1>. QED BY <1>8, <1>9 DEF LocalInv

\* The frame loads a document, all of whose components the loop visits.
LEMMA DocumentLoadedLocal ==
  ASSUME LocalInv, Stable, DocumentLoaded
  PROVE  Unlost
<1>. DEFINE t == Top.cell
            u == RefOf(t).file
            f == [Top EXCEPT !.pc = "drill", !.tdoc = u]
            g == DocFrame(u)
<1>1. /\ stack # <<>> /\ Top.fn = "resolveSchemaRef" /\ Top.pc = "document"
      /\ u # Here /\ u \notin visitedDocuments /\ Call(f, g)
      /\ DOMAIN value' = DOMAIN value \cup DocCells(u)
      /\ world' = world /\ loads' = loads /\ (Live' => Live)
      /\ visitedDocuments' = visitedDocuments \cup {u}
  BY DEF DocumentLoaded, Allocate, At, static, call, Live
<1>2. /\ WorldOK /\ IInv /\ Top \in Frame /\ InPlace(Top) /\ RefOf(t) \in Ref
      /\ \A c \in DOMAIN value : c \in Cells /\ c \in CellId
  BY <1>1, TopLocal DEF FrameOK
<1>3. u \in Uris
  BY <1>1, <1>2, RefParts
<1>4. /\ f.fn = "resolveSchemaRef" /\ f.pc = "drill" /\ f.cell = t
      /\ f.path = Top.path /\ f.doc = Top.doc
  BY <1>1, <1>2 DEF Frame
<1>5. /\ g.fn = "ResolveRefsIn" /\ g.pc = "components" /\ g.doc = u /\ g.path = u /\ g.pos = 0
  BY DEF DocFrame
<1>6. \A c : Chained(c) => ~Seeks(c) /\ ~Chases(c)
  BY <1>1 DEF Chained, Seeks, Chases, VisitsIn, Pursues
<1>. HIDE DEF f, g
<1>7. InPlace(f) /\ InPlace(g)
  BY <1>1, <1>2, <1>4, <1>5 DEF InPlace
<1>8. Under(f) = Pending(Len(stack))
  BY <1>1, <1>4 DEF Under, InProgress, HereRefs
<1>9. ASSUME NEW c \in DocCells(u)
      PROVE  /\ c.inst = 0 /\ c.uri = u /\ world[u].kind = "doc" /\ Known(Place(c))
             /\ \E p \in DOMAIN NameOrder : p > 0 /\ NameOrder[p] = c.name
  <2>1. c.inst = 0 /\ c.uri = u /\ c.name \in Names /\ world[u].kind = "doc" /\ Defines(u, c.name)
    BY DEF DocCells, Decoded
  <2>2. PICK p \in DOMAIN NameOrder : NameOrder[p] = c.name
    BY <2>1, FilesAssumption
  <2>3. p > 0
    BY BoundsAssumption
  <2>. QED BY <2>1, <2>2, <2>3 DEF Known, Place
<1>10. ASSUME NEW c \in DocCells(u), Chained(c)
       PROVE  VisitsIn(g, Under(f), c)
  <2>1. c \in Cells
    BY <1>2, <1>3, DocCellsOK
  <2>2. RefOf(c) \in RefsIn(u)
    BY <1>2, <1>9, <1>10, <2>1, CellMeaning DEF Chained
  <2>3. RefersWithin(u)
    BY <1>10, <2>2 DEF RefersWithin, Chained
  <2>4. Unhindered(Under(f), c.uri)
    BY <1>1, <1>2, <1>8, <1>9, <2>3, LoadingUnhindered
  <2>. QED BY <1>5, <1>9, <2>4 DEF VisitsIn
<1>11. \A c \in DocCells(u) : Sheet(c)'
  BY <1>1, <1>9 DEF Sheet
<1>. QED BY <1>1, <1>4, <1>5, <1>6, <1>7, <1>10, <1>11, CallLocal

\* The frame copies a component of the document that it drills into: the copy
\* has a value, or is the next reference to resolve.
LEMMA CopyMadeLocal ==
  ASSUME LocalInv, Stable, stack # <<>>, Top.fn = "resolveSchemaRef", Top.pc = "drill",
         world' = world, loads' = loads, Live' => Live, visitedDocuments' = visitedDocuments,
         NEW T, T = [inst |-> fresh, uri |-> Top.tdoc, name |-> RefOf(Top.cell).name, k |-> 0],
         ResolveCopy(T), Defines(Top.tdoc, RefOf(Top.cell).name),
         RefOf(T) = Nil => value'[T] # Nil,
         \A c \in DOMAIN value' : c \notin DOMAIN value =>
            c.inst # 0 /\ (RefersWithin(c.uri) => Sheet(c)')
  PROVE  Unlost
<1>. DEFINE t == Top.cell
            P == Pending(Len(stack))
            f == [Top EXCEPT !.pc = "copy", !.tmp = T]
            g == RefFrame(T, Top.tdoc, ComponentPath)
<1>1. /\ IInv /\ WorldOK /\ TargetInv /\ Top \in Frame /\ InPlace(Top) /\ t \in DOMAIN value
      /\ t \in Cells /\ t \in CellId /\ Known(Place(t)) /\ P \in SUBSET HereRefs
      /\ Top.tdoc \in Uris /\ RefOf(t) \in Ref
  BY TopLocal, DrillFacts DEF FrameOK
<1>2. /\ f.fn = "resolveSchemaRef" /\ f.pc = "copy" /\ f.cell = t /\ f.tmp = T
      /\ f.path = Top.path /\ f.doc = Top.doc
      /\ g.fn = "resolveSchemaRef" /\ g.pc = "enter" /\ g.cell = T
      /\ g.doc = Top.tdoc /\ g.path = ComponentPath
      /\ Call(f, g)
  BY <1>1 DEF Frame, RefFrame, ResolveCopy
<1>3. RefOf(t).file # Here => Top.tdoc = RefOf(t).file
  BY <1>1, DrillFacts
<1>4. Place(T) = Aim(t) /\ T.k = 0
  BY <1>1, <1>3, DrillPlace DEF Place
<1>5. \A c, Q : VisitsIn(Top, Q, c) => Pursues(Top, Q, c)
  BY DEF VisitsIn, Pursues
<1>. HIDE DEF f, g
<1>6. \A c, Q : Pursues(Top, Q, c) => Pursues(f, Q, c)
  BY <1>2 DEF Pursues
<1>7. \A c, Q : Pursues(f, Q, c) => VisitsIn(f, Q, c)
  BY DEF VisitsIn
<1>8. InPlace(f)
  BY <1>1, <1>2 DEF InPlace
<1>9. InPlace(g)
  BY <1>1, <1>2 DEF InPlace, ComponentPath
<1>10. ASSUME Clear(P, t), RefOf(T) # Nil PROVE Pursues(g, Under(f), T)
  <2>1. RefOf(t).file = Here
    BY <1>10 DEF Clear, Chained
  <2>2. InProgress(f) = RefOf(t) /\ RefOf(t) \in HereRefs
    BY <1>1, <1>2, <2>1 DEF InProgress, HereRefs
  <2>3. Under(f) = P \cup {RefOf(t)}
    BY <2>2 DEF Under
  <2>4. Clear(P \cup {RefOf(t)}, T)
    BY <1>1, <1>4, <1>10, ClearNext
  <2>. QED BY <1>2, <2>3, <2>4 DEF Pursues
<1>11. \A c : /\ Seeks(c) => VisitsIn(f, P, c)
              /\ Chases(c) => Pursues(f, P, c)
  BY <1>5, <1>6, <1>7 DEF Seeks, Chases
<1>. QED BY <1>2, <1>8, <1>9, <1>10, <1>11, CallLocal

\* A file that refers to itself is drilled as the document it is.
LEMMA DrillLocal ==
  ASSUME LocalInv, Stable, DrillTyped \/ DrillGeneric \/ DrillReread
  PROVE  Unlost
<1>. DEFINE t   == Top.cell
            n   == RefOf(t).name
            d   == Top.tdoc
            src == [inst |-> 0, uri |-> d, name |-> n, k |-> 0]
            T   == [inst |-> fresh, uri |-> d, name |-> n, k |-> 0]
            Placed(u) == [uri |-> u, name |-> n] = Aim(t)
<1>1. /\ stack # <<>> /\ Top.fn = "resolveSchemaRef" /\ Top.pc = "drill"
      /\ world' = world /\ loads' = loads /\ (Live' => Live) /\ visitedDocuments' = visitedDocuments
  BY DEF DrillTyped, DrillGeneric, DrillReread, DecodeGeneric, At, static, call, visits, Live
<1>2. /\ TargetInv /\ WorldOK /\ Born /\ t \in DOMAIN value /\ t \in Cells /\ t \in CellId
      /\ Known(Place(t)) /\ RefOf(t) \in Ref /\ RefOf(t) # Nil /\ n \in Names
      /\ d \in Uris /\ Top.path \in Uris /\ fresh # 0 /\ fresh \in Nat /\ InPlace(Top)
      /\ Inlined
  BY <1>1, TopLocal, DrillFacts, RefParts, NullsAssumption
     DEF FrameOK, ValueInv, Born, IInv, HeapOK
<1>3. /\ RefOf(t) \in RefsIn(t.uri) /\ t.uri \in Uris
      /\ RefOf(t).file = Here => RefersWithin(t.uri) /\ Aim(t) = [uri |-> t.uri, name |-> n]
  BY <1>2, CellMeaning DEF CellId, RefersWithin, Aim, LocOf, FileOf
<1>4. RefOf(t).file = Here =>
        world[t.uri].kind = "doc" /\ t.uri \in visitedDocuments
  BY <1>2, <1>3 DEF LocalInv, Listing, Sheet
<1>5. RefOf(t).file # Here => d = RefOf(t).file
  BY <1>1, <1>2, DrillFacts
<1>6. CASE DrillTyped
  <2>1. /\ n \in Typed(d) /\ ResolveCopy(T) /\ src \in DOMAIN value
        /\ value' = [c \in DOMAIN value \cup {T} |-> IF c = T THEN value[src] ELSE value[c]]
    BY <1>6 DEF DrillTyped, Typed
  <2>2. Defines(d, n)
    BY <1>2, <2>1, TypedDefined
  <2>3. RefersWithin(d) => world[d].kind = "doc" /\ d \in visitedDocuments
    BY <2>1 DEF LocalInv, Listing, Sheet
  <2>8. PICK x : x = T
    OBVIOUS
  <2>4. x.inst # 0 /\ (RefersWithin(x.uri) => Sheet(x)')
    BY <1>1, <1>2, <2>3, <2>8 DEF Sheet
  <2>5. RefOf(T) = Nil => value'[T] # Nil
    <3>1. RefOf(T) = RefOf(src)
      BY DEF RefOf
    <3>. QED BY <1>2, <2>1, <3>1 DEF Inlined
  <2>6. \A c \in DOMAIN value' : c \notin DOMAIN value => c = x
    BY <2>1, <2>8
  <2>7. RefOf(x) = Nil => value'[x] # Nil
    BY <2>5, <2>8
  <2>9. ResolveCopy(x)
    BY <2>1, <2>8
  <2>. QED BY <1>1, <2>2, <2>4, <2>6, <2>7, <2>8, <2>9, CopyMadeLocal
<1>7. CASE DrillGeneric
  <2>. DEFINE new == Decoded(fresh, d, n)
  <2>1. /\ n \in Raw(d) /\ ResolveCopy(T) /\ DOMAIN value' = DOMAIN value \cup new
        /\ \A c \in new : value'[c] = Unmarshalled(c)
    BY <1>7 DEF DrillGeneric, DecodeGeneric
  <2>2. Defines(d, n) /\ world[d].kind = "fragment"
    BY <2>1 DEF Raw
  <2>3. ~RefersWithin(d)
    <3>1. CASE RefOf(t).file = Here
      <4>1. Placed(d)
        BY <1>1, <1>2, <2>2, <3>1, DrillPlace
      <4>2. d = t.uri
        BY <1>3, <3>1, <4>1
      <4>. QED BY <1>4, <2>2, <3>1, <4>2
    <3>2. CASE RefOf(t).file # Here
      BY <1>2, <1>3, <1>5, <2>2, <3>2 DEF LocalInv, Listed
    <3>. QED BY <3>1, <3>2
  <2>4. \A c \in new : c.inst # 0 /\ ~RefersWithin(c.uri)
    BY <1>2, <2>3 DEF Decoded
  <2>5. RefOf(T) = Nil => value'[T] # Nil
    <3>1. ShapeAt(d, n) \in Shape
      BY <1>2, <2>2, ShapeTypes
    <3>2. T \in new
      BY <3>1, KidsType DEF Decoded
    <3>3. T \in CellId
      BY <1>2 DEF CellId
    <3>. HIDE DEF T, new
    <3>. QED BY <2>1, <3>2, <3>3, TargetIs DEF Unmarshalled
  <2>6. PICK x : x = T
    OBVIOUS
  <2>. HIDE DEF new
  <2>. QED BY <1>1, <2>1, <2>2, <2>4, <2>5, <2>6, CopyMadeLocal
<1>8. CASE DrillReread
  <2>1. NotInDocument /\ Defines(Top.path, n)
    BY <1>8 DEF DrillReread
  <2>2. RefOf(t).file = Here
    BY <1>1, <1>2, <2>1, RereadsHere
  <2>6. Placed(Top.path)
    BY <1>1, <1>2, <2>1, <2>2, DrillPlace
  <2>3. Top.path = t.uri
    BY <1>3, <2>2, <2>6
  <2>4. d = t.uri /\ d \in visitedDocuments
    <3>1. Top.doc = Top.path
      BY <1>2, <1>3, <2>2, <2>3 DEF InPlace
    <3>2. d = Top.doc
      BY <1>1, <1>2, <2>2 DEF InPlace
    <3>. QED BY <1>4, <2>2, <2>3, <3>1, <3>2
  <2>5. n \in Typed(d) \cup Raw(d)
    BY <1>2, <2>1, <2>3, <2>4, CachedFound
  <2>. QED BY <2>1, <2>5 DEF NotInDocument
<1>. QED BY <1>6, <1>7, <1>8

\* A first call visits all components of its document.
LEMMA LoadLocal ==
  ASSUME LocalInv, LoadFromURI
  PROVE  Unlost
<1>. PICK u \in Uris : LoadReadFails(u) \/ LoadCached(u) \/ LoadUndecodable(u) \/ LoadDecoded(u)
  BY DEF LoadFromURI
<1>1. /\ IInv /\ WorldOK /\ Unused /\ Listing /\ Contexts
      /\ world' = world /\ loads' = loads + 1 /\ loads \in Nat
      /\ visitedDocuments \subseteq visitedDocuments' /\ status = "idle"
  BY BoundsAssumption DEF LocalInv, DirectInv, TargetInv, ValueInv, IInv, CallOK, LoadReadFails,
     LoadCached, LoadUndecodable, LoadDecoded, Begin, static
<1>2. loads' = 1 => DOMAIN value = {}
  BY <1>1 DEF Unused
<1>3. stack = <<>>
  BY <1>1 DEF LocalInv, DirectInv, TargetInv, ValueInv, Resting
<1>4. CASE LoadDecoded(u)
  <2>. DEFINE g == DocFrame(u)
  <2>1. /\ DOMAIN value' = DOMAIN value \cup DocCells(u) /\ stack' = <<g>>
        /\ visitedDocuments' = visitedDocuments \cup {u}
    BY <1>4 DEF LoadDecoded, Allocate
  <2>2. /\ g.fn = "ResolveRefsIn" /\ g.pc = "components" /\ g.doc = u /\ g.path = u /\ g.pos = 0
    BY DEF DocFrame
  <2>3. ASSUME NEW c \in DocCells(u)
        PROVE  /\ c.inst = 0 /\ c.uri = u /\ world[u].kind = "doc"
               /\ \E p \in DOMAIN NameOrder : p > 0 /\ NameOrder[p] = c.name
    <3>1. c.inst = 0 /\ c.uri = u /\ c.name \in Names /\ world[u].kind = "doc"
      BY DEF DocCells, Decoded
    <3>2. PICK p \in DOMAIN NameOrder : NameOrder[p] = c.name
      BY <3>1, FilesAssumption
    <3>3. p > 0
      BY BoundsAssumption
    <3>. QED BY <3>1, <3>2, <3>3
  <2>. HIDE DEF g
  <2>4. DOMAIN stack' = {1} /\ stack'[1] = g
    BY <2>1
  <2>5. PICK m : m = 1
    OBVIOUS
  <2>6. Pending(m)' = {}
    BY <2>4, <2>5 DEF Pending
  <2>7. ASSUME NEW c \in DocCells(u) PROVE Sought(c)'
    <3>1. PICK P : P = {}
      OBVIOUS
    <3>2. VisitsIn(g, P, c)
      BY <2>2, <2>3, <3>1 DEF VisitsIn, Unhindered
    <3>3. PICK h : h = stack'[m]
      OBVIOUS
    <3>4. h = g /\ m \in DOMAIN stack' /\ Pending(m)' = P
      BY <2>4, <2>5, <2>6, <3>1, <3>3
    <3>5. VisitsIn(h, P, c)'
      BY <1>1, <3>2, <3>4, SameLocal
    <3>. QED BY <3>3, <3>4, <3>5 DEF Sought
  <2>8. Awaited'
    BY <1>2, <2>1, <2>7 DEF Awaited
  <2>9. Linked'
    BY <2>2, <2>4 DEF Linked
  <2>10. \A c \in DocCells(u) : Sheet(c)'
    BY <1>1, <2>1, <2>3 DEF Sheet
  <2>11. Listing'
    BY <1>1, <2>1, <2>10, ListingKeeps
  <2>12. InPlace(g)
    BY <2>2 DEF InPlace
  <2>13. Contexts'
    <3>1. PICK h : h = g
      OBVIOUS
    <3>2. InPlace(h)' /\ \A i \in DOMAIN stack' : stack'[i] = h
      BY <1>1, <2>4, <2>12, <3>1, SameLocal
    <3>. QED BY <3>2 DEF Contexts
  <2>. QED BY <2>8, <2>9, <2>11, <2>13 DEF Unlost
<1>5. CASE LoadReadFails(u) \/ LoadCached(u) \/ LoadUndecodable(u)
  <2>1. value' = value /\ stack' = stack
    BY <1>5 DEF LoadReadFails, LoadCached, LoadUndecodable
  <2>2. Awaited' /\ Linked'
    BY <1>2, <1>3, <2>1 DEF Awaited, Linked
  <2>3. Listing' /\ Contexts'
    BY <1>1, <2>1, ListingKeeps, ContextsMove
  <2>. QED BY <2>2, <2>3 DEF Unlost
<1>. QED BY <1>4, <1>5

LEMMA LocalStep ==
  ASSUME LocalInv, [Next]_vars
  PROVE  LocalInv'
<1>1. DirectInv' /\ Stable
  BY DirectStep, FramesStep DEF LocalInv, DirectInv, TargetInv
<1>2. world' = world
  BY DEF Next, LoadFromURI, LoadReadFails, LoadCached, LoadUndecodable, LoadDecoded, Begin, static,
     Step, ResolveRef, NextComponent, DocumentDone, EnterInline, EnterResolved,
     EnterInProgress, EnterUnvisited, ElementFails, ElementDecoded, DocumentHere, DocumentFails,
     DocumentCached, DocumentUndecodable, DocumentLoaded, DrillTyped, DrillGeneric, DrillReread,
     DecodeGeneric, DrillFails, CopyResolved, NextChild, ReferenceDone, ReturnError, Finished, vars
<1>3. Listed' /\ (NamesApart \/ Rooted)'
  BY <1>2, SameLocal, SameAims DEF LocalInv
<1>4. CASE LoadFromURI
  <2>1. Unlost
    BY <1>4, LoadLocal
  <2>. QED BY <1>1, <1>3, <2>1 DEF Unlost, LocalInv
<1>5. CASE Step
  <2>1. Unlost
    BY <1>1, <1>5, ErrorLocal, EnterInlineLocal, EnterResolvedLocal, EnterUnvisitedLocal,
       NextComponentLocal, DoneLocal, NextChildLocal, CopyLocal, ElementLocal,
       DocumentLoadedLocal, DrillLocal DEF Step, ResolveRef
  <2>. QED BY <1>1, <1>3, <2>1 DEF Unlost, LocalInv
<1>6. CASE Finished \/ UNCHANGED vars
  <2>1. UNCHANGED <<world, value, visitedDocuments, stack, status, result, loads>>
    BY <1>6 DEF Finished, vars
  <2>2. Awaited' /\ Linked'
    <3>1. \A i : Pending(i)' = Pending(i)
      BY <2>1, SameWorld DEF Pending, InProgress, HereRefs
    <3>2. \A c : Sought(c) => Sought(c)'
      <4>. SUFFICES ASSUME NEW c, NEW i \in DOMAIN stack, VisitsIn(stack[i], Pending(i), c)
                    PROVE  Sought(c)'
        BY DEF Sought
      <4>1. PICK f, P : f = stack[i] /\ P = Pending(i)
        OBVIOUS
      <4>2. VisitsIn(f, P, c)'
        BY <2>1, <4>1, SameLocal
      <4>3. f = stack'[i] /\ P = Pending(i)' /\ i \in DOMAIN stack'
        BY <2>1, <3>1, <4>1
      <4>. QED BY <4>2, <4>3 DEF Sought
    <3>3. Awaited'
      BY <2>1, <3>2, SameLocal DEF LocalInv, Awaited, Live
    <3>4. ASSUME Live, NEW i \in DOMAIN stack, stack[i].fn = "resolveSchemaRef",
                 stack[i].pc = "copy", NEW P, P = Pending(i), Clear(P, stack[i].cell)
          PROVE  value[stack[i].tmp] # Nil \/ Follower(i + 1, stack[i].tmp)'
      <4>1. PICK c, k : c = stack[i].tmp /\ k = i + 1
        OBVIOUS
      <4>2. value[c] # Nil \/ Follower(k, c)
        BY <3>4, <4>1 DEF LocalInv, Linked
      <4>3. Follower(k, c) => Follower(k, c)'
        <5>. SUFFICES ASSUME k \in DOMAIN stack, NEW f, NEW Q, f = stack[k], Q = Pending(k),
                             Pursues(f, Q, c)
                      PROVE  Follower(k, c)'
          BY DEF Follower
        <5>1. Pursues(f, Q, c)' /\ f = stack'[k] /\ Q = Pending(k)' /\ k \in DOMAIN stack'
          BY <2>1, <3>1, SameLocal
        <5>. QED BY <5>1 DEF Follower
      <4>4. PICK h : h = stack[i]
        OBVIOUS
      <4>. QED BY <2>1, <4>1, <4>2, <4>3
    <3>5. Linked'
      <4>. SUFFICES ASSUME Live', NEW i \in DOMAIN stack', NEW h, h = stack'[i],
                           NEW P, P = Pending(i)', h.fn = "resolveSchemaRef", h.pc = "copy",
                           Clear(P, h.cell)'
                    PROVE  value'[h.tmp] # Nil \/ Follower(i + 1, h.tmp)'
        BY DEF Linked
      <4>1. Live /\ Clear(P, h.cell) /\ P = Pending(i) /\ h = stack[i]
        BY <2>1, <3>1, SameLocal DEF Live
      <4>. QED BY <2>1, <3>4, <4>1
    <3>. QED BY <3>3, <3>5
  <2>3. Listing' /\ Contexts'
    BY <1>1, <2>1, ListingKeeps, ContextsMove DEF LocalInv, DirectInv, TargetInv, ValueInv
  <2>. QED BY <1>1, <1>3, <2>2, <2>3 DEF LocalInv
<1>. QED BY <1>4, <1>5, <1>6 DEF Next

\* A component that is reached is one of the document, or a sub-component.
LEMMA ReachedPlaces ==
  ASSUME IInv, IsFiniteSet(DOMAIN value)
  PROVE  \A c \in Reachable : c.inst = 0 \/ c.k > 0
<1>. DEFINE Fit == { c \in DOMAIN value : c.inst = 0 \/ c.k > 0 }
            S   == { n \in Nat : Within[n] \subseteq Fit }
<1>1. 0 \in S
  BY WithinIs DEF RootCells
<1>2. ASSUME NEW n \in Nat, n \in S PROVE n + 1 \in S
  <2>1. Within[n] \in SUBSET DOMAIN value
    BY <1>2
  <2>2. KidsOf(Within[n]) \subseteq DOMAIN value
    BY <2>1, KidsAllocated
  <2>3. ASSUME NEW c \in KidsOf(Within[n]) PROVE c.k > 0
    <3>1. PICK v, i : i \in DOMAIN KidCells(v) /\ c = KidCells(v)[i]
      BY <2>3 DEF KidsOf
    <3>2. i \in 1..Len(ShapeAt(v.uri, v.name).kids)
      BY <3>1 DEF KidCells
    <3>3. c.k = i
      BY <3>1, <3>2 DEF KidCells
    <3>. QED BY <3>2, <3>3
  <2>4. KidsOf(Within[n]) \subseteq Fit
    BY <2>2, <2>3
  <2>. QED BY <1>2, <2>4, WithinIs
<1>. HIDE DEF S
<1>3. Nat \subseteq S
  BY <1>1, <1>2, SetInduction
<1>4. Cardinality(DOMAIN value) \in Nat
  BY FS_CardinalityType
<1>. QED BY <1>3, <1>4 DEF S, Reachable

\* A Loader used for the first time gives every component that the document it
\* returns leads to, and that refers to an object through references of its own
\* file, however many, its value: no reference in progress elsewhere, and no
\* circle, keeps one of them without.  The files have no dangling references;
\* and only files that no file refers to refer to themselves, or what files refer
\* to within themselves is defined in no other file and such files are referred
\* to by the names of their components.
THEOREM LocalAreResolved ==
  Spec /\ NoneDangling /\ (Rooted \/ (NamesApart /\ Listed)) => []LocalResolved
<1>1. Init /\ NoneDangling /\ (Rooted \/ (NamesApart /\ Listed)) => LocalInv
  <2>. SUFFICES ASSUME Init, NoneDangling, Rooted \/ (NamesApart /\ Listed) PROVE LocalInv
    OBVIOUS
  <2>1. Listed
    BY DEF Rooted, Listed
  <2>2. DirectInv
    BY DirectStarts
  <2>3. DOMAIN value = {} /\ stack = <<>>
    BY DEF Init
  <2>. QED BY <2>1, <2>2, <2>3 DEF LocalInv, Awaited, Linked, Listing, Contexts
<1>2. LocalInv /\ [Next]_vars => LocalInv'
  BY LocalStep
<1>3. LocalInv => LocalResolved
  <2>. SUFFICES ASSUME LocalInv, Loaded, loads = 1, NEW c \in Reachable, RefOf(c) # Nil,
                       Locally[Cardinality(Names)][LocOf(RefOf(c), c.uri)], RefOf(c).file = Here
                PROVE  value[c] # Nil
    BY DEF LocalResolved
  <2>1. IInv /\ ValueInv /\ WorldOK /\ Awaited /\ Listing /\ IsFiniteSet(DOMAIN value)
    BY DEF LocalInv, DirectInv, TargetInv, ValueInv, IInv
  <2>2. c \in DOMAIN value /\ c \in Cells /\ Known(Place(c))
    BY <2>1, ReachableAllocated DEF IInv, HeapOK, LocalInv, DirectInv, TargetInv, Defined
  <2>3. /\ Aim(c) = LocOf(RefOf(c), c.uri) /\ RefOf(c) \in RefsIn(c.uri) /\ c.uri \in Uris
        /\ c.k \in Nat
    BY <2>1, <2>2, CellMeaning DEF Aim, Cells, CellId
  <2>4. Chained(c)
    <3>1. Cardinality(Names) \in Nat
      BY FilesAssumption, FS_CardinalityType
    <3>. QED BY <2>3, <3>1 DEF Chained, Near
  <2>5. Sheet(c)
    BY <2>1, <2>2, <2>3 DEF Listing, RefersWithin
  <2>6. c.inst = 0 \/ c.k > 0
    BY <2>1, ReachedPlaces
  <2>7. c.inst = 0
    BY <2>3, <2>5, <2>6 DEF Sheet
  <2>8. value[c] = Nil => Sought(c)
    BY <2>1, <2>2, <2>4, <2>7 DEF Awaited, Live, Loaded
  <2>. QED BY <2>1, <2>8, NothingAwaited DEF Sought
<1>. QED BY <1>1, <1>2, <1>3, PTL DEF Spec
=============================================================================
