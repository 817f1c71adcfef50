-------------------------------- MODULE Slab --------------------------------
(***************************************************************************)
(* The slab allocator of slab.c: one slab cache and the clients that       *)
(* allocate cells from it and free them.                                   *)
(*                                                                         *)
(* A slab is a chunk of memory cut into ObjsPerSlab cells.  Its embedded   *)
(* red-black node hangs in one of the three trees of the cache; the model  *)
(* keeps, for every slab, the tree it hangs in.  The trees themselves are  *)
(* the subject of RBTree: here a tree is the set of its slabs, and         *)
(* rb_root is any member of it, since which slab a tree has at its root    *)
(* depends on the addresses malloc returned.                               *)
(***************************************************************************)
EXTENDS Integers, Sequences, FiniteSets

CONSTANTS
  SlabId,       \* the chunks malloc may return to this cache (bounds memory)
  ObjsPerSlab   \* cache->objs_per_slab

ASSUME ObjsPerSlabAssumption == ObjsPerSlab \in Nat \ {0}

VARIABLES
  tree,    \* the tree a slab hangs in, "none" before new_slab
  free,    \* the free list of a slab, first entry first
  inUse,   \* slab->in_use
  live,    \* the cells clients hold: navi_slab_alloc returned them
  calls    \* the calls so far, modulo 2, so that the pool sees every one

vars == <<tree, free, inUse, live, calls>>

Cell == SlabId \X (0 .. ObjsPerSlab - 1)
SlabOf(c) == c[1]

InTree(t) == {s \in SlabId : tree[s] = t}

-----------------------------------------------------------------------------
(* Faults, which no run uses: a list with one cell too few, and with cells *)
(* that are not far enough apart.                                          *)
InitFreeShort(s) == [i \in 1 .. ObjsPerSlab - 1 |-> <<s, ObjsPerSlab - i>>]
InitFreeOverlap(s) == [i \in 1 .. ObjsPerSlab |-> <<s, (ObjsPerSlab - i) \div 2>>]

(* init_single: every cell is pushed, so the last one is first in the list. *)
InitFree(s) == [i \in 1 .. ObjsPerSlab |-> <<s, ObjsPerSlab - i>>]

(* get_slab: a partial slab if there is one, else an empty one, else a new *)
(* slab.  The new slab goes into the partial tree with in_use 0.           *)
GetSlab(s) ==
  IF InTree("partial") = {} /\ InTree("empty") = {}
  THEN tree[s] = "none"
  ELSE IF InTree("partial") = {} THEN tree[s] = "empty" ELSE tree[s] = "partial"

FreeList(s) == IF tree[s] = "none" THEN InitFree(s) ELSE free[s]

(* Faults: an empty slab stays in its tree; a slab never becomes full; a   *)
(* full slab stays in its tree.                                            *)
AfterAllocEmptyStays(t, n) == IF n = ObjsPerSlab THEN "full" ELSE t
AfterAllocNeverFull(t, n) == IF n = 1 THEN "partial" ELSE t
AfterFreeFullStays(t, n) == IF n = 0 THEN "empty" ELSE t

(* Where navi_slab_alloc leaves a slab that had tree t, n cells in use now *)
AfterAlloc(t, n) ==
  IF n = ObjsPerSlab THEN "full"
  ELSE IF n = 1 THEN "partial"
  ELSE t

(* Where navi_slab_free leaves a slab that had tree t, n cells in use now  *)
AfterFree(t, n) ==
  IF n = 0 THEN "empty"
  ELSE IF n + 1 = ObjsPerSlab THEN "partial"
  ELSE t

(* find_slab searches the full tree, then the partial one, and no other.   *)
Found(s) == tree[s] \in {"full", "partial"}

(* navi_slab_alloc.  Popping an empty free list would dereference NULL, so *)
(* the action is not enabled there; SlabHasCell says it is never asked to. *)
Alloc(s) ==
  /\ GetSlab(s)
  /\ FreeList(s) # <<>>
  /\ LET n == IF tree[s] = "none" THEN 1 ELSE inUse[s] + 1
         t == IF tree[s] = "none" THEN "partial" ELSE tree[s]
     IN  /\ inUse' = [inUse EXCEPT ![s] = n]
         /\ tree'  = [tree EXCEPT ![s] = AfterAlloc(t, n)]
  /\ free' = [free EXCEPT ![s] = Tail(FreeList(s))]
  /\ live' = live \cup {Head(FreeList(s))}
  /\ calls' = 1 - calls

(* navi_slab_free, of a cell the client holds.  When find_slab finds no    *)
(* slab, navi_die ends the program: FreeFindsSlab says it never does.      *)
Free(c) ==
  /\ c \in live
  /\ Found(SlabOf(c))
  /\ LET s == SlabOf(c)
         n == inUse[s] - 1
     IN  /\ free'  = [free EXCEPT ![s] = <<c>> \o @]
         /\ inUse' = [inUse EXCEPT ![s] = n]
         /\ tree'  = [tree EXCEPT ![s] = AfterFree(@, n)]
  /\ live' = live \ {c}
  /\ calls' = 1 - calls

Init ==
  /\ tree  = [s \in SlabId |-> "none"]
  /\ free  = [s \in SlabId |-> <<>>]
  /\ inUse = [s \in SlabId |-> 0]
  /\ live  = {}
  /\ calls = 0

Next ==
  \/ \E s \in SlabId : Alloc(s)
  \/ \E c \in Cell : Free(c)

Spec == Init /\ [][Next]_vars

-----------------------------------------------------------------------------
(* Every variable keeps its shape through navi_slab_alloc/navi_slab_free.  *)
TypeOK ==
  /\ tree \in [SlabId -> {"none", "full", "partial", "empty"}]
  /\ free \in [SlabId -> Seq(Cell)]
  /\ inUse \in [SlabId -> 0 .. ObjsPerSlab]
  /\ live \in SUBSET Cell
  /\ calls \in {0, 1}

(* navi_slab_free never dies with "failed to locate slab!": find_slab      *)
(* searches two of the three trees, and every slab with a cell in a        *)
(* client's hands hangs in one of those two.                               *)
FreeFindsSlab == \A c \in live : Found(SlabOf(c))

(* slab_pop never takes from an empty list: a slab that get_slab may       *)
(* choose has a free cell, whichever sequence of calls led here.           *)
SlabHasCell == \A s \in SlabId : GetSlab(s) => FreeList(s) # <<>>

(* Of the cells of a slab, those held by clients and those on its free list   *)
(* are apart, no cell is on the list twice, and none is lost: every cell   *)
(* of a slab that exists is in one of the two places.                      *)
Listed(s) == {free[s][i] : i \in DOMAIN free[s]}
Held(s) == {c \in live : SlabOf(c) = s}
CellsAccounted ==
  \A s \in {x \in SlabId : tree[x] # "none"} :
    /\ Listed(s) \cap Held(s) = {}
    /\ Listed(s) \cup Held(s) = {s} \X (0 .. ObjsPerSlab - 1)
    /\ \A i, j \in DOMAIN free[s] : free[s][i] = free[s][j] => i = j

(* get_slab asks malloc for memory only when every cell of every slab is   *)
(* in a client's hands.                                                    *)
GrowsOnlyWhenExhausted ==
  [][(\E s \in SlabId : tree[s] = "none" /\ tree'[s] # "none")
        => live = {c \in Cell : tree[SlabOf(c)] # "none"}]_vars

(* The cache implements the pool of cells: a client never receives a cell  *)
(* that another one still holds.                                           *)
Pool == INSTANCE ObjectPool WITH live <- live, calls <- calls, Cell <- Cell
ImplementsPool == Pool!Spec
=============================================================================
