----------------------------- MODULE SlabProofs -----------------------------
(***************************************************************************)
(* Proofs about the slab allocator, for every number of slabs and every    *)
(* number of cells in a slab.  The properties of Slab are not inductive by *)
(* themselves: that a slab to allocate from has a free cell needs the      *)
(* length of its free list, which needs in_use to be exact, which needs    *)
(* the list and the clients' cells to be disjoint.  SlabInv says all of it *)
(* of one slab.                                                            *)
(***************************************************************************)
EXTENDS Slab, FiniteSetTheorems, SequenceTheorems, TLAPS

Elems(q) == {q[i] : i \in DOMAIN q}
NoDup(q) == \A i, j \in DOMAIN q : q[i] = q[j] => i = j
CellsOf(s) == {s} \X (0 .. ObjsPerSlab - 1)

(* The tree a slab with n cells in use hangs in, between two calls.        *)
Place(n) ==
  IF n = ObjsPerSlab THEN "full" ELSE IF n = 0 THEN "empty" ELSE "partial"

SlabInv(s) ==
  /\ IsFiniteSet(Held(s))
  /\ inUse[s] = Cardinality(Held(s))
  /\ tree[s] = "none" => inUse[s] = 0
  /\ tree[s] # "none" =>
       /\ tree[s] = Place(inUse[s])
       /\ Len(free[s]) = ObjsPerSlab - inUse[s]
       /\ NoDup(free[s])
       /\ Elems(free[s]) \cap Held(s) = {}
       /\ Elems(free[s]) \cup Held(s) = CellsOf(s)

IInv == TypeOK /\ \A s \in SlabId : SlabInv(s)

-----------------------------------------------------------------------------
(* Facts about lists without repetition, as slab_pop and navi_slab_free    *)
(* use them.                                                               *)

(* Popping the first entry removes it and nothing else. *)
LEMMA PopFacts ==
  ASSUME NEW S, NEW q \in Seq(S), q # <<>>, NoDup(q)
  PROVE  /\ Tail(q) \in Seq(S)
         /\ Len(Tail(q)) = Len(q) - 1
         /\ NoDup(Tail(q))
         /\ Head(q) \in Elems(q)
         /\ Elems(Tail(q)) = Elems(q) \ {Head(q)}
<1>1. /\ Tail(q) \in Seq(S)
      /\ Len(Tail(q)) = Len(q) - 1
      /\ \A i \in 1 .. Len(Tail(q)) : Tail(q)[i] = q[i + 1]
  BY HeadTailProperties
<1>2. /\ Len(q) \in Nat \ {0}
      /\ DOMAIN q = 1 .. Len(q)
      /\ DOMAIN Tail(q) = 1 .. Len(q) - 1
      /\ Head(q) = q[1]
  BY <1>1, EmptySeq
<1>3. NoDup(Tail(q))
  BY <1>1, <1>2 DEF NoDup
<1>4. Head(q) \in Elems(q)
  BY <1>2 DEF Elems
<1>5. Elems(Tail(q)) \subseteq Elems(q) \ {Head(q)}
  BY <1>1, <1>2 DEF Elems, NoDup
<1>6. Elems(q) \ {Head(q)} \subseteq Elems(Tail(q))
  <2>1. SUFFICES ASSUME NEW i \in 1 .. Len(q), q[i] # q[1]
                 PROVE  q[i] \in Elems(Tail(q))
    BY <1>2 DEF Elems
  <2>2. i - 1 \in DOMAIN Tail(q) /\ Tail(q)[i - 1] = q[i]
    BY <1>1, <1>2, <2>1
  <2>3. QED
    BY <2>2 DEF Elems
<1>7. QED
  BY <1>1, <1>3, <1>4, <1>5, <1>6

(* Pushing a new entry adds it and nothing else. *)
LEMMA PushFacts ==
  ASSUME NEW S, NEW q \in Seq(S), NEW x \in S, x \notin Elems(q), NoDup(q)
  PROVE  /\ <<x>> \o q \in Seq(S)
         /\ Len(<<x>> \o q) = Len(q) + 1
         /\ NoDup(<<x>> \o q)
         /\ Elems(<<x>> \o q) = Elems(q) \cup {x}
<1>1. <<x>> \in Seq(S) /\ Len(<<x>>) = 1
  OBVIOUS
<1> DEFINE p == <<x>> \o q
<1>2. /\ p \in Seq(S)
      /\ Len(p) = Len(q) + 1
      /\ \A i \in 1 .. Len(q) + 1 : p[i] = IF i <= 1 THEN x ELSE q[i - 1]
  BY <1>1, ConcatProperties
<1> HIDE DEF p
<1>3. /\ Len(q) \in Nat
      /\ DOMAIN q = 1 .. Len(q)
      /\ DOMAIN p = 1 .. Len(q) + 1
  BY <1>2
<1>4. NoDup(p)
  <2>1. SUFFICES ASSUME NEW i \in 1 .. Len(q) + 1, NEW j \in 1 .. Len(q) + 1,
                        p[i] = p[j]
                 PROVE  i = j
    BY <1>3 DEF NoDup
  <2>2. \A k \in 1 .. Len(q) : q[k] # x
    BY <1>3 DEF Elems
  <2>3. CASE i = 1
    BY <1>2, <1>3, <2>1, <2>2, <2>3
  <2>4. CASE j = 1
    BY <1>2, <1>3, <2>1, <2>2, <2>4
  <2>5. CASE i # 1 /\ j # 1
    <3>1. i - 1 \in DOMAIN q /\ j - 1 \in DOMAIN q /\ q[i - 1] = q[j - 1]
      BY <1>2, <1>3, <2>1, <2>5
    <3>2. i - 1 = j - 1
      BY <3>1 DEF NoDup
    <3>3. QED
      BY <3>2
  <2>6. QED
    BY <2>3, <2>4, <2>5
<1>5. Elems(p) \subseteq Elems(q) \cup {x}
  BY <1>2, <1>3 DEF Elems
<1>6. x \in Elems(p)
  <2>1. 1 \in DOMAIN p /\ p[1] = x
    BY <1>2, <1>3
  <2>2. QED
    BY <2>1 DEF Elems
<1>7. Elems(q) \subseteq Elems(p)
  <2>1. SUFFICES ASSUME NEW i \in DOMAIN q
                 PROVE  q[i] \in Elems(p)
    BY DEF Elems
  <2>2. i + 1 \in DOMAIN p /\ p[i + 1] = q[i]
    BY <1>2, <1>3
  <2>3. QED
    BY <2>2 DEF Elems
<1>8. QED
  BY <1>2, <1>4, <1>5, <1>6, <1>7 DEF p

(* init_single puts every cell of the slab on the list, once. *)
LEMMA InitFreeFacts ==
  ASSUME NEW s \in SlabId
  PROVE  /\ InitFree(s) \in Seq(Cell)
         /\ Len(InitFree(s)) = ObjsPerSlab
         /\ NoDup(InitFree(s))
         /\ Elems(InitFree(s)) = CellsOf(s)
<1>1. /\ ObjsPerSlab \in Nat
      /\ DOMAIN InitFree(s) = 1 .. ObjsPerSlab
      /\ \A i \in 1 .. ObjsPerSlab : InitFree(s)[i] = <<s, ObjsPerSlab - i>>
  BY ObjsPerSlabAssumption DEF InitFree
<1>2. \A i \in 1 .. ObjsPerSlab : ObjsPerSlab - i \in 0 .. ObjsPerSlab - 1
  BY <1>1
<1>3. \A i \in 1 .. ObjsPerSlab : InitFree(s)[i] \in Cell
  <2>1. \A i \in 1 .. ObjsPerSlab : <<s, ObjsPerSlab - i>> \in Cell
    BY <1>2 DEF Cell
  <2>2. QED
    BY <1>1, <2>1
<1>4. InitFree(s) \in Seq(Cell) /\ Len(InitFree(s)) = ObjsPerSlab
  <2>1. InitFree(s) \in [1 .. ObjsPerSlab -> Cell]
    BY <1>3 DEF InitFree
  <2>2. QED
    BY <2>1, <1>1
<1>5. NoDup(InitFree(s))
  <2>1. SUFFICES ASSUME NEW i \in 1 .. ObjsPerSlab, NEW j \in 1 .. ObjsPerSlab,
                        <<s, ObjsPerSlab - i>> = <<s, ObjsPerSlab - j>>
                 PROVE  i = j
    BY <1>1 DEF NoDup
  <2>2. ObjsPerSlab - i = ObjsPerSlab - j
    BY <2>1
  <2>3. QED
    BY <2>2, <1>1
<1>6. Elems(InitFree(s)) \subseteq CellsOf(s)
  <2>1. \A i \in 1 .. ObjsPerSlab : <<s, ObjsPerSlab - i>> \in CellsOf(s)
    BY <1>2 DEF CellsOf
  <2>2. QED
    BY <1>1, <2>1 DEF Elems
<1>7. CellsOf(s) \subseteq Elems(InitFree(s))
  <2>1. SUFFICES ASSUME NEW n \in 0 .. ObjsPerSlab - 1
                 PROVE  <<s, n>> \in Elems(InitFree(s))
    BY DEF CellsOf
  <2>2. /\ ObjsPerSlab - n \in 1 .. ObjsPerSlab
        /\ ObjsPerSlab - (ObjsPerSlab - n) = n
    BY <1>1
  <2>3. InitFree(s)[ObjsPerSlab - n] = <<s, n>>
    BY <1>1, <2>2
  <2>4. QED
    BY <1>1, <2>2, <2>3 DEF Elems
<1>8. QED
  BY <1>4, <1>5, <1>6, <1>7

-----------------------------------------------------------------------------
(* The free list navi_slab_alloc pops, of a slab that exists or of the new *)
(* one, is in order and not empty.                                         *)
LEMMA FreeListFacts ==
  ASSUME IInv, NEW s \in SlabId, GetSlab(s)
  PROVE  /\ FreeList(s) \in Seq(Cell)
         /\ FreeList(s) # <<>>
         /\ NoDup(FreeList(s))
         /\ Len(FreeList(s)) = ObjsPerSlab - inUse[s]
         /\ Elems(FreeList(s)) \cap Held(s) = {}
         /\ Elems(FreeList(s)) \cup Held(s) = CellsOf(s)
         /\ inUse[s] \in 0 .. ObjsPerSlab - 1
<1>1. /\ ObjsPerSlab \in Nat \ {0}
      /\ inUse[s] \in 0 .. ObjsPerSlab
      /\ free[s] \in Seq(Cell)
      /\ SlabInv(s)
  BY ObjsPerSlabAssumption DEF IInv, TypeOK
<1>2. CASE tree[s] = "none"
  <2>1. FreeList(s) = InitFree(s) /\ inUse[s] = 0 /\ Held(s) = {}
    BY <1>1, <1>2, FS_EmptySet DEF FreeList, SlabInv
  <2>2. Len(InitFree(s)) # 0
    BY <1>1, InitFreeFacts
  <2>3. QED
    BY <1>1, <2>1, <2>2, InitFreeFacts
<1>3. CASE tree[s] # "none"
  <2>1. tree[s] \in {"empty", "partial"}
    BY <1>3 DEF GetSlab
  <2>2. inUse[s] # ObjsPerSlab
    BY <1>1, <1>3, <2>1 DEF SlabInv, Place
  <2>3. Len(free[s]) = ObjsPerSlab - inUse[s]
    BY <1>1, <1>3 DEF SlabInv
  <2>4. free[s] # <<>>
    BY <1>1, <2>2, <2>3
  <2>5. QED
    BY <1>1, <1>3, <2>2, <2>3, <2>4 DEF FreeList, SlabInv
<1>4. QED
  BY <1>2, <1>3

(* The cell navi_slab_alloc returns was in nobody's hands. *)
LEMMA AllocReturnsFreeCell ==
  ASSUME IInv, NEW s \in SlabId, GetSlab(s)
  PROVE  /\ Head(FreeList(s)) \in CellsOf(s)
         /\ Head(FreeList(s)) \in Cell \ live
<1>1. Head(FreeList(s)) \in Elems(FreeList(s))
  BY FreeListFacts, PopFacts
<1>2. Head(FreeList(s)) \in CellsOf(s) \ Held(s)
  BY <1>1, FreeListFacts
<1>3. CellsOf(s) \subseteq Cell /\ \A c \in CellsOf(s) : SlabOf(c) = s
  BY DEF CellsOf, Cell, SlabOf
<1>4. QED
  BY <1>2, <1>3 DEF Held

LEMMA InitIInv == Init => IInv
<1> SUFFICES ASSUME Init PROVE IInv
  OBVIOUS
<1>1. TypeOK
  BY ObjsPerSlabAssumption DEF Init, TypeOK
<1>2. ASSUME NEW s \in SlabId PROVE SlabInv(s)
  <2>1. Held(s) = {}
    BY DEF Init, Held
  <2>2. QED
    BY <2>1, FS_EmptySet DEF Init, SlabInv
<1>3. QED
  BY <1>1, <1>2 DEF IInv

LEMMA AllocIInv ==
  ASSUME IInv, NEW s \in SlabId, Alloc(s)
  PROVE  IInv'
<1> DEFINE q == FreeList(s)
           h == Head(q)
           n == inUse[s] + 1
<1>1. /\ ObjsPerSlab \in Nat \ {0}
      /\ GetSlab(s)
      /\ tree \in [SlabId -> {"none", "full", "partial", "empty"}]
      /\ inUse \in [SlabId -> 0 .. ObjsPerSlab]
      /\ free \in [SlabId -> Seq(Cell)]
      /\ live \in SUBSET Cell /\ calls \in {0, 1}
      /\ SlabInv(s)
  BY ObjsPerSlabAssumption DEF IInv, TypeOK, Alloc
<1>2. /\ q \in Seq(Cell) /\ q # <<>> /\ NoDup(q)
      /\ Len(q) = ObjsPerSlab - inUse[s]
      /\ Elems(q) \cap Held(s) = {}
      /\ Elems(q) \cup Held(s) = CellsOf(s)
      /\ inUse[s] \in 0 .. ObjsPerSlab - 1
  BY <1>1, FreeListFacts
<1>3. /\ Tail(q) \in Seq(Cell)
      /\ Len(Tail(q)) = Len(q) - 1
      /\ NoDup(Tail(q))
      /\ h \in Elems(q)
      /\ Elems(Tail(q)) = Elems(q) \ {h}
  BY <1>2, PopFacts
<1>4. h \in Cell \ live /\ SlabOf(h) = s
  BY <1>1, AllocReturnsFreeCell DEF CellsOf, SlabOf
<1> HIDE DEF q, h
<1>5. /\ inUse' = [inUse EXCEPT ![s] = n]
      /\ free' = [free EXCEPT ![s] = Tail(q)]
      /\ live' = live \cup {h} /\ calls' = 1 - calls
      /\ tree' = [tree EXCEPT ![s] = AfterAlloc(
                     IF tree[s] = "none" THEN "partial" ELSE tree[s], n)]
  <2>1. (IF tree[s] = "none" THEN 1 ELSE inUse[s] + 1) = n
    BY <1>1 DEF SlabInv
  <2>2. QED
    BY <2>1 DEF Alloc, q, h
<1>6. tree'[s] = Place(n) /\ tree'[s] # "none"
  <2>1. tree[s] = "none" \/ tree[s] = Place(inUse[s])
    BY <1>1 DEF SlabInv
  <2>2. QED
    BY <1>1, <1>2, <1>5, <2>1 DEF AfterAlloc, Place
<1>7. TypeOK'
  <2>1. n \in 0 .. ObjsPerSlab
    BY <1>1, <1>2
  <2>2. tree'[s] \in {"none", "full", "partial", "empty"}
    BY <1>6 DEF Place
  <2>3. tree' \in [SlabId -> {"none", "full", "partial", "empty"}]
    BY <1>1, <1>5, <2>2
  <2>4. QED
    BY <1>1, <1>3, <1>4, <1>5, <2>1, <2>3 DEF TypeOK
<1>8. SlabInv(s)'
  <2>1. Held(s)' = Held(s) \cup {h} /\ h \notin Held(s)
    BY <1>4, <1>5 DEF Held
  <2>2. /\ IsFiniteSet(Held(s)')
        /\ Cardinality(Held(s)') = n
    BY <1>1, <2>1, FS_AddElement DEF SlabInv
  <2>3. /\ inUse'[s] = n
        /\ free'[s] = Tail(q)
    BY <1>1, <1>5
  <2>4. Len(free'[s]) = ObjsPerSlab - n
    BY <1>1, <1>2, <1>3, <2>3
  <2>5. /\ Elems(free'[s]) \cap Held(s)' = {}
        /\ Elems(free'[s]) \cup Held(s)' = CellsOf(s)
    BY <1>2, <1>3, <2>1, <2>3
  <2>6. QED
    BY <1>3, <1>6, <2>2, <2>3, <2>4, <2>5 DEF SlabInv
<1>9. ASSUME NEW x \in SlabId, x # s
      PROVE  SlabInv(x)'
  <2>1. Held(x)' = Held(x)
    BY <1>4, <1>5, <1>9 DEF Held
  <2>2. inUse'[x] = inUse[x] /\ free'[x] = free[x] /\ tree'[x] = tree[x]
    BY <1>1, <1>5, <1>9
  <2>3. SlabInv(x)
    BY DEF IInv
  <2>4. QED
    BY <2>1, <2>2, <2>3 DEF SlabInv
<1>10. QED
  BY <1>7, <1>8, <1>9 DEF IInv

LEMMA FreeIInv ==
  ASSUME IInv, NEW c \in Cell, Free(c)
  PROVE  IInv'
<1> DEFINE s == SlabOf(c)
           q == free[s]
           n == inUse[s] - 1
<1>1. s \in SlabId /\ c \in CellsOf(s)
  BY DEF Cell, CellsOf, SlabOf
<1>2. /\ ObjsPerSlab \in Nat \ {0}
      /\ tree \in [SlabId -> {"none", "full", "partial", "empty"}]
      /\ inUse \in [SlabId -> 0 .. ObjsPerSlab]
      /\ free \in [SlabId -> Seq(Cell)]
      /\ live \in SUBSET Cell /\ calls \in {0, 1}
      /\ SlabInv(s)
  BY <1>1, ObjsPerSlabAssumption DEF IInv, TypeOK
<1>3. c \in live /\ c \in Held(s)
  BY DEF Free, Held
<1>4. IsFiniteSet(Held(s)) /\ Cardinality(Held(s)) \in Nat \ {0}
  BY <1>2, <1>3, FS_EmptySet, FS_CardinalityType DEF SlabInv
<1>5. /\ inUse[s] \in 1 .. ObjsPerSlab
      /\ tree[s] = Place(inUse[s])
      /\ Len(q) = ObjsPerSlab - inUse[s]
      /\ NoDup(q)
      /\ Elems(q) \cap Held(s) = {}
      /\ Elems(q) \cup Held(s) = CellsOf(s)
  BY <1>2, <1>4 DEF SlabInv
<1>6. /\ <<c>> \o q \in Seq(Cell)
      /\ Len(<<c>> \o q) = Len(q) + 1
      /\ NoDup(<<c>> \o q)
      /\ Elems(<<c>> \o q) = Elems(q) \cup {c}
  <2>1. q \in Seq(Cell) /\ c \notin Elems(q)
    BY <1>1, <1>2, <1>3, <1>5
  <2> HIDE DEF q
  <2>2. QED
    BY <2>1, <1>5, PushFacts
<1>7. /\ inUse' = [inUse EXCEPT ![s] = n]
      /\ free' = [free EXCEPT ![s] = <<c>> \o q]
      /\ live' = live \ {c} /\ calls' = 1 - calls
      /\ tree' = [tree EXCEPT ![s] = AfterFree(tree[s], n)]
  BY <1>1, <1>2 DEF Free
<1>8. s = SlabOf(c)
  OBVIOUS
<1> HIDE DEF s, q
<1>9. tree'[s] = Place(n) /\ tree'[s] # "none"
  BY <1>1, <1>2, <1>5, <1>7 DEF AfterFree, Place
<1>10. TypeOK'
  <2>1. n \in 0 .. ObjsPerSlab
    BY <1>2, <1>5
  <2>2. tree'[s] \in {"none", "full", "partial", "empty"}
    BY <1>9 DEF Place
  <2>3. tree' \in [SlabId -> {"none", "full", "partial", "empty"}]
    BY <1>2, <1>7, <2>2
  <2>4. QED
    BY <1>2, <1>6, <1>7, <2>1, <2>3 DEF TypeOK
<1>11. SlabInv(s)'
  <2>1. Held(s)' = Held(s) \ {c}
    BY <1>7 DEF Held
  <2>2. /\ IsFiniteSet(Held(s)')
        /\ Cardinality(Held(s)') = n
    BY <1>2, <1>3, <2>1, FS_RemoveElement DEF SlabInv
  <2>3. /\ inUse'[s] = n
        /\ free'[s] = <<c>> \o q
    BY <1>1, <1>2, <1>7
  <2>4. Len(free'[s]) = ObjsPerSlab - n
    BY <1>2, <1>5, <1>6, <2>3
  <2>5. /\ Elems(free'[s]) \cap Held(s)' = {}
        /\ Elems(free'[s]) \cup Held(s)' = CellsOf(s)
    BY <1>1, <1>3, <1>5, <1>6, <2>1, <2>3
  <2>6. QED
    BY <1>6, <1>9, <2>2, <2>3, <2>4, <2>5 DEF SlabInv
<1>12. ASSUME NEW x \in SlabId, x # s
       PROVE  SlabInv(x)'
  <2>1. Held(x)' = Held(x)
    BY <1>7, <1>8, <1>12 DEF Held
  <2>2. inUse'[x] = inUse[x] /\ free'[x] = free[x] /\ tree'[x] = tree[x]
    BY <1>2, <1>7, <1>12
  <2>3. SlabInv(x)
    BY DEF IInv
  <2>4. QED
    BY <2>1, <2>2, <2>3 DEF SlabInv
<1>13. QED
  BY <1>10, <1>11, <1>12 DEF IInv

(* The inductive invariant holds in every state of the cache, whatever     *)
(* sequence of navi_slab_alloc and navi_slab_free its clients call.        *)
THEOREM Invariance == Spec => []IInv
<1>1. IInv /\ [Next]_vars => IInv'
  <2> SUFFICES ASSUME IInv, [Next]_vars PROVE IInv'
    OBVIOUS
  <2>1. CASE UNCHANGED vars
    <3>1. \A s \in SlabId : Held(s)' = Held(s)
      BY <2>1 DEF vars, Held
    <3>2. QED
      BY <2>1, <3>1 DEF IInv, TypeOK, SlabInv, vars
  <2>2. CASE Next
    BY <2>2, AllocIInv, FreeIInv DEF Next
  <2>3. QED
    BY <2>1, <2>2
<1>2. QED
  BY InitIInv, <1>1, PTL DEF Spec

(* The variables of the cache keep their types. *)
THEOREM TypeCorrect == Spec => []TypeOK
<1>1. IInv => TypeOK
  BY DEF IInv
<1>2. QED
  BY Invariance, <1>1, PTL

(* navi_slab_free always locates the slab of a cell that a client holds,   *)
(* so slab.c:208 is never reached.                                         *)
THEOREM FreeNeverDies == Spec => []FreeFindsSlab
<1>1. IInv => FreeFindsSlab
  <2> SUFFICES ASSUME IInv, NEW c \in live PROVE Found(SlabOf(c))
    BY DEF FreeFindsSlab
  <2> DEFINE s == SlabOf(c)
  <2>1. s \in SlabId /\ c \in Held(s) /\ SlabInv(s) /\ inUse[s] \in 0 .. ObjsPerSlab
    BY DEF IInv, TypeOK, Cell, SlabOf, Held
  <2>2. inUse[s] # 0
    BY <2>1, FS_EmptySet DEF SlabInv
  <2>3. QED
    BY <2>1, <2>2 DEF SlabInv, Place, Found
<1>2. QED
  BY Invariance, <1>1, PTL

(* get_slab never gives slab_pop a slab whose free list is empty. *)
THEOREM AllocNeverPopsEmpty == Spec => []SlabHasCell
<1>1. IInv => SlabHasCell
  BY FreeListFacts DEF SlabHasCell
<1>2. QED
  BY Invariance, <1>1, PTL

(* No cell is ever on a free list and in a client's hands, twice on a      *)
(* list, or lost.                                                          *)
THEOREM CellsNeverLost == Spec => []CellsAccounted
<1>1. IInv => CellsAccounted
  <2> SUFFICES ASSUME IInv, NEW s \in SlabId, tree[s] # "none"
               PROVE  /\ Listed(s) \cap Held(s) = {}
                      /\ Listed(s) \cup Held(s) = {s} \X (0 .. ObjsPerSlab - 1)
                      /\ \A i, j \in DOMAIN free[s] :
                            free[s][i] = free[s][j] => i = j
    BY DEF CellsAccounted
  <2>1. Listed(s) = Elems(free[s])
    BY DEF Listed, Elems
  <2>2. SlabInv(s)
    BY DEF IInv
  <2>3. QED
    BY <2>1, <2>2 DEF SlabInv, NoDup, CellsOf
<1>2. QED
  BY Invariance, <1>1, PTL

(* The slab cache is a pool of cells: every step of it takes a cell that   *)
(* nobody holds, gives one back, or is invisible to the clients.           *)
THEOREM CacheImplementsPool == Spec => ImplementsPool
<1>1. Init => Pool!Init
  BY DEF Init, Pool!Init
<1>2. IInv /\ [Next]_vars => [Pool!Next]_<<live, calls>>
  <2> SUFFICES ASSUME IInv, [Next]_vars PROVE [Pool!Next]_<<live, calls>>
    OBVIOUS
  <2>1. CASE UNCHANGED vars
    BY <2>1 DEF vars
  <2>2. ASSUME NEW s \in SlabId, Alloc(s) PROVE Pool!Next
    <3>1. GetSlab(s)
      BY <2>2 DEF Alloc
    <3>2. Head(FreeList(s)) \in Cell \ live
      BY <3>1, AllocReturnsFreeCell
    <3>3. QED
      BY <2>2, <3>2 DEF Alloc, Pool!Next, Pool!Take
  <2>3. ASSUME NEW c \in Cell, Free(c) PROVE Pool!Next
    BY <2>3 DEF Free, Pool!Next, Pool!Give
  <2>4. QED
    BY <2>1, <2>2, <2>3 DEF Next
<1>3. QED
  BY Invariance, <1>1, <1>2, PTL DEF Spec, ImplementsPool, Pool!Spec

(* Memory is asked of malloc only when every cell of every slab is in the  *)
(* hands of a client.                                                      *)
THEOREM GrowsLate == Spec => GrowsOnlyWhenExhausted
<1> DEFINE Exhausted ==
      (\E s \in SlabId : tree[s] = "none" /\ tree'[s] # "none")
        => live = {c \in Cell : tree[SlabOf(c)] # "none"}
<1>1. IInv /\ [Next]_vars => [Exhausted]_vars
  <2> SUFFICES ASSUME IInv, Next,
                      NEW s \in SlabId, tree[s] = "none", tree'[s] # "none"
               PROVE  live = {c \in Cell : tree[SlabOf(c)] # "none"}
    OBVIOUS
  <2>1. tree \in [SlabId -> {"none", "full", "partial", "empty"}]
    BY DEF IInv, TypeOK
  <2>2. InTree("partial") = {} /\ InTree("empty") = {}
    <3>1. CASE \E x \in SlabId : Alloc(x)
      <4>1. PICK x \in SlabId : Alloc(x)
        BY <3>1
      <4>2. x = s
        BY <2>1, <4>1 DEF Alloc
      <4>3. GetSlab(s)
        BY <4>1, <4>2 DEF Alloc
      <4>4. QED
        BY <4>3 DEF GetSlab
    <3>2. CASE \E c \in Cell : Free(c)
      <4>1. PICK c \in Cell : Free(c)
        BY <3>2
      <4>2. s = SlabOf(c)
        BY <2>1, <4>1 DEF Free
      <4>3. QED
        BY <4>1, <4>2 DEF Free, Found
    <3>3. QED
      BY <3>1, <3>2 DEF Next
  <2>3. ASSUME NEW x \in SlabId, tree[x] # "none"
        PROVE  Held(x) = CellsOf(x)
    <3>1. tree[x] = "full"
      BY <2>1, <2>2, <2>3 DEF InTree
    <3>2. SlabInv(x) /\ free[x] \in Seq(Cell) /\ inUse[x] \in 0 .. ObjsPerSlab
      BY DEF IInv, TypeOK
    <3>3. ObjsPerSlab \in Nat /\ inUse[x] = ObjsPerSlab
      BY <3>1, <3>2, ObjsPerSlabAssumption DEF SlabInv, Place
    <3>4. Len(free[x]) = 0
      BY <2>3, <3>2, <3>3 DEF SlabInv
    <3>5. Elems(free[x]) = {}
      BY <3>2, <3>4 DEF Elems
    <3>6. QED
      BY <2>3, <3>2, <3>5 DEF SlabInv
  <2>4. ASSUME NEW x \in SlabId, tree[x] = "none"
        PROVE  Held(x) = {}
    BY <2>4, FS_EmptySet DEF IInv, SlabInv
  <2>5. live \subseteq Cell /\ \A c \in Cell : SlabOf(c) \in SlabId
                                           /\ c \in CellsOf(SlabOf(c))
    BY DEF IInv, TypeOK, Cell, CellsOf, SlabOf
  <2>6. QED
    BY <2>3, <2>4, <2>5 DEF Held
<1>2. QED
  BY Invariance, <1>1, PTL DEF Spec, GrowsOnlyWhenExhausted
=============================================================================
