------------------------------- MODULE RBTree -------------------------------
(***************************************************************************)
(* The red-black tree of rbtree.c, as slab.c uses it: nodes are ordered by *)
(* their own addresses, here the numbers of Node.  The embedded links are  *)
(* the four fields of the record t.  One call is several steps: one that   *)
(* links or swaps the node, one per turn of the rebalancing loop, and for  *)
(* a removal one that unlinks the node.  The program is single-threaded,   *)
(* so the next call starts when the tree is at rest (pc = "idle").         *)
(***************************************************************************)
EXTENDS Integers, Sequences

CONSTANT Node          \* addresses of the nodes, positive numbers

ASSUME NodeAssumption == Node \subseteq Nat \ {0}

Root == 0              \* &tree->root, the dummy root: not part of the tree
Null == -1

VARIABLES
  t,       \* the fields left, right, parent, color of every struct rb_node
  pc,      \* where the running call is
  cur,     \* "new" of navi_rb_insert, "n" of navi_rb_remove
  saved,   \* "saved_n" of navi_rb_remove
  child    \* "child" of navi_rb_remove

vars == <<t, pc, cur, saved, child>>

-----------------------------------------------------------------------------
IsLeft(u, n)  == n = u.left[u.parent[n]]
IsRight(u, n) == n = u.right[u.parent[n]]
ColorOf(u, n) == IF n = Null THEN "black" ELSE u.color[n]
IsRed(u, n)   == ColorOf(u, n) = "red"
IsBlack(u, n) == ColorOf(u, n) = "black"
IsRoot(u, n)  == u.color[u.parent[n]] = "root"

Uncle(u, n) ==
  LET g == u.parent[u.parent[n]]
  IN  IF u.parent[n] = u.left[g] THEN u.right[g] ELSE u.left[g]

Sibling(u, n) ==
  IF IsLeft(u, n) THEN u.right[u.parent[n]] ELSE u.left[u.parent[n]]

(* if (n) n->parent = p                                                    *)
SetParent(u, n, p) == IF n = Null THEN u ELSE [u EXCEPT !.parent[n] = p]
SetColor(u, n, c) == [u EXCEPT !.color[n] = c]

(* Whatever points down at old points at new instead. *)
Hang(u, old, new) ==
  IF IsLeft(u, old)
  THEN [u EXCEPT !.left[u.parent[old]] = new]
  ELSE [u EXCEPT !.right[u.parent[old]] = new]

Replace(u, old, new) == SetParent(Hang(u, old, new), new, u.parent[old])

(* Fault, which no run uses: the node that changes sides keeps its parent. *)
RotateLeftOrphan(u, p) ==
  LET r == u.right[p]
  IN  [Replace(u, p, r) EXCEPT !.right[p] = u.left[r], !.left[r] = p, !.parent[p] = r]

RotateLeft(u, p) ==
  LET r == u.right[p]
      a == [Replace(u, p, r) EXCEPT !.right[p] = u.left[r]]
      b == SetParent(a, u.left[r], p)
  IN  [b EXCEPT !.left[r] = p, !.parent[p] = r]

RotateRight(u, p) ==
  LET l == u.left[p]
      a == [Replace(u, p, l) EXCEPT !.left[p] = u.right[l]]
      b == SetParent(a, u.right[l], p)
  IN  [b EXCEPT !.right[l] = p, !.parent[p] = l]

(* swap(a, b), assignment by assignment: b may be the left child of a, and *)
(* then the order of the assignments matters.                              *)
Swap(u, a, b) ==
  LET s1 == SetParent([u EXCEPT !.left[a] = u.left[b]], u.left[b], a)
      s2 == SetParent([s1 EXCEPT !.right[a] = s1.right[b]], s1.right[b], a)
      s3 == SetParent([s2 EXCEPT !.left[b] = u.left[a]], u.left[a], b)
      s4 == SetParent([s3 EXCEPT !.right[b] = u.right[a]], u.right[a], b)
      s5 == [Hang(s4, a, b) EXCEPT !.parent[a] = s4.parent[b]]
      s6 == [Hang(s5, b, a) EXCEPT !.parent[b] = u.parent[a]]
  IN  [s6 EXCEPT !.color[a] = s6.color[b], !.color[b] = u.color[a]]

First(u, n) ==
  LET Leftmost[x \in Node] == IF u.left[x] = Null THEN x ELSE Leftmost[u.left[x]]
  IN  IF n = Null THEN Null ELSE Leftmost[n]

Last(u, n) ==
  LET Rightmost[x \in Node] == IF u.right[x] = Null THEN x ELSE Rightmost[u.right[x]]
  IN  IF n = Null THEN Null ELSE Rightmost[n]

(* Fault: the right child itself, not the first node below it. *)
NextOfRight(u, n) ==
  LET Climb[x \in Node] == IF IsRight(u, x) THEN Climb[u.parent[x]] ELSE x
  IN  IF u.right[n] # Null THEN u.right[n]
      ELSE IF IsRoot(u, Climb[n]) THEN Null ELSE u.parent[Climb[n]]

NextOf(u, n) ==
  LET Climb[x \in Node] == IF IsRight(u, x) THEN Climb[u.parent[x]] ELSE x
  IN  IF u.right[n] # Null THEN First(u, u.right[n])
      ELSE IF IsRoot(u, Climb[n]) THEN Null ELSE u.parent[Climb[n]]

(* Fault: the loop of slab_insert stops at the first node. *)
ParentForTop(u, k) == IF u.left[Root] = Null THEN Root ELSE u.left[Root]

(* The loop of slab_insert: the node under which k is to be linked.        *)
ParentFor(u, k) ==
  LET Down[x \in Node] ==
        LET next == IF k < x THEN u.left[x] ELSE u.right[x]
        IN  IF next = Null THEN x ELSE Down[next]
  IN  IF u.left[Root] = Null THEN Root ELSE Down[u.left[Root]]

-----------------------------------------------------------------------------
InOrder(u) ==
  LET Walk[n \in Node \cup {Null}] ==
        IF n = Null THEN <<>> ELSE Walk[u.left[n]] \o <<n>> \o Walk[u.right[n]]
  IN  Walk[u.left[Root]]

Members(u) == LET s == InOrder(u) IN {s[i] : i \in DOMAIN s}

Init ==
  /\ t = [left   |-> [n \in Node \cup {Root} |-> Null],
          right  |-> [n \in Node \cup {Root} |-> Null],
          parent |-> [n \in Node \cup {Root} |-> Null],
          color  |-> [n \in Node \cup {Root} |-> IF n = Root THEN "root" ELSE "red"]]
  /\ pc = "idle" /\ cur = Null /\ saved = Null /\ child = Null

(* slab_insert, and navi_rb_insert up to its loop *)
Insert(k) ==
  /\ pc = "idle"
  /\ k \notin Members(t)
  /\ LET p == ParentFor(t, k)
         u == [t EXCEPT !.left[k] = Null, !.right[k] = Null,
                        !.color[k] = "red", !.parent[k] = p]
     IN  t' = IF p = Root \/ k < p THEN [u EXCEPT !.left[p] = k]
                                   ELSE [u EXCEPT !.right[p] = k]
  /\ pc' = "insert" /\ cur' = k
  /\ UNCHANGED <<saved, child>>

Rest == pc' = "idle" /\ cur' = Null /\ UNCHANGED <<saved, child>>

InsertAtRoot ==
  /\ pc = "insert" /\ IsRoot(t, cur)
  /\ t' = SetColor(t, cur, "black")
  /\ Rest

(* Fault: the loop goes on where its condition ends it. *)
InsertUnderBlackLoops ==
  /\ pc = "insert" /\ ~IsRoot(t, cur) /\ IsBlack(t, t.parent[cur])
  /\ UNCHANGED vars

InsertUnderBlack ==
  /\ pc = "insert" /\ ~IsRoot(t, cur) /\ IsBlack(t, t.parent[cur])
  /\ t' = t
  /\ Rest

(* Fault: the uncle stays red. *)
InsertRedUncleStays ==
  /\ pc = "insert" /\ ~IsRoot(t, cur) /\ ~IsBlack(t, t.parent[cur])
  /\ IsRed(t, Uncle(t, cur))
  /\ t' = [t EXCEPT !.color[t.parent[cur]] = "black", !.color[t.parent[t.parent[cur]]] = "red"]
  /\ cur' = t.parent[t.parent[cur]]
  /\ UNCHANGED <<pc, saved, child>>

InsertRedUncle ==
  /\ pc = "insert" /\ ~IsRoot(t, cur) /\ ~IsBlack(t, t.parent[cur])
  /\ IsRed(t, Uncle(t, cur))
  /\ LET p == t.parent[cur]
         g == t.parent[p]
     IN  /\ t' = [t EXCEPT !.color[p] = "black", !.color[Uncle(t, cur)] = "black",
                           !.color[g] = "red"]
         /\ cur' = g
  /\ UNCHANGED <<pc, saved, child>>

(* case 4: a zig-zag is straightened, and the loop goes on with the node   *)
(* that is now the lower one                                               *)
Straighten(u, n) ==
  LET p == u.parent[n]
  IN  IF IsRight(u, n) /\ IsLeft(u, p)
      THEN LET v == RotateLeft(u, p) IN [tree |-> v, low |-> v.left[n]]
      ELSE IF IsLeft(u, n) /\ IsRight(u, p)
      THEN LET v == RotateRight(u, p) IN [tree |-> v, low |-> v.right[n]]
      ELSE [tree |-> u, low |-> n]

InsertRotate ==
  /\ pc = "insert" /\ ~IsRoot(t, cur) /\ ~IsBlack(t, t.parent[cur])
  /\ ~IsRed(t, Uncle(t, cur))
  /\ LET s == Straighten(t, cur)
         p == s.tree.parent[s.low]
         g == s.tree.parent[p]
         u == [s.tree EXCEPT !.color[p] = "black", !.color[g] = "red"]
     IN  /\ t' = IF IsLeft(u, s.low) /\ IsLeft(u, p)
                 THEN RotateRight(u, g) ELSE RotateLeft(u, g)
         /\ cur' = s.low
  /\ UNCHANGED <<pc, saved, child>>

-----------------------------------------------------------------------------
(* navi_rb_remove up to its loop *)
Remove(k) ==
  /\ pc = "idle"
  /\ k \in Members(t)
  /\ LET u == IF t.left[k] # Null /\ t.right[k] # Null
              THEN Swap(t, k, Last(t, t.left[k])) ELSE t
         c == IF u.right[k] # Null THEN u.right[k] ELSE u.left[k]
     IN  /\ child' = c
         /\ t'  = IF IsBlack(u, k) THEN SetColor(u, k, ColorOf(u, c)) ELSE u
         /\ pc' = IF IsBlack(u, k) THEN "remove" ELSE "unlink"
  /\ cur' = k /\ saved' = k

(* case 2 of the loop: a red sibling is rotated above the parent *)
RaiseRedSibling(u, n) ==
  LET p == u.parent[n]
      s == Sibling(u, n)
      v == [u EXCEPT !.color[p] = "red", !.color[s] = "black"]
  IN  IF ~IsRed(u, s) THEN u
      ELSE IF IsLeft(v, n) THEN RotateLeft(v, p) ELSE RotateRight(v, p)

BlackFamily(u, s) == IsBlack(u, s) /\ IsBlack(u, u.left[s]) /\ IsBlack(u, u.right[s])

RemoveAtRoot ==
  /\ pc = "remove" /\ IsRoot(t, cur)
  /\ pc' = "unlink"
  /\ UNCHANGED <<t, cur, saved, child>>

RemoveNoSibling ==
  /\ pc = "remove" /\ ~IsRoot(t, cur)
  /\ LET u == RaiseRedSibling(t, cur)
     IN  Sibling(u, cur) = Null /\ t' = u
  /\ pc' = "unlink"
  /\ UNCHANGED <<cur, saved, child>>

RemoveBlackParent ==
  /\ pc = "remove" /\ ~IsRoot(t, cur)
  /\ LET u == RaiseRedSibling(t, cur)
         s == Sibling(u, cur)
     IN  /\ s # Null
         /\ IsBlack(u, u.parent[cur]) /\ BlackFamily(u, s)
         /\ t' = SetColor(u, s, "red")
         /\ cur' = u.parent[cur]
  /\ UNCHANGED <<pc, saved, child>>

RemoveRedParent ==
  /\ pc = "remove" /\ ~IsRoot(t, cur)
  /\ LET u == RaiseRedSibling(t, cur)
         s == Sibling(u, cur)
     IN  /\ s # Null
         /\ IsRed(u, u.parent[cur]) /\ BlackFamily(u, s)
         /\ t' = [u EXCEPT !.color[s] = "red", !.color[u.parent[cur]] = "black"]
  /\ pc' = "unlink"
  /\ UNCHANGED <<cur, saved, child>>

(* case 5: the red nephew is brought to the outside *)
TurnNephew(u, n, s) ==
  IF IsLeft(u, n) /\ IsBlack(u, s) /\ IsRed(u, u.left[s]) /\ IsBlack(u, u.right[s])
  THEN RotateRight([u EXCEPT !.color[s] = "red", !.color[u.left[s]] = "black"], s)
  ELSE IF IsRight(u, n) /\ IsBlack(u, s) /\ IsRed(u, u.right[s]) /\ IsBlack(u, u.left[s])
  THEN RotateLeft([u EXCEPT !.color[s] = "red", !.color[u.right[s]] = "black"], s)
  ELSE u

(* case 6 dereferences the outer nephew *)
OuterNephew(u, n) ==
  IF IsLeft(u, n) THEN u.right[Sibling(u, n)] ELSE u.left[Sibling(u, n)]

RemoveRotate ==
  /\ pc = "remove" /\ ~IsRoot(t, cur)
  /\ LET u == RaiseRedSibling(t, cur)
         s == Sibling(u, cur)
         v == TurnNephew(u, cur, s)
         p == v.parent[cur]
         w == [v EXCEPT !.color[Sibling(v, cur)] = v.color[p], !.color[p] = "black",
                        !.color[OuterNephew(v, cur)] = "black"]
     IN  /\ s # Null
         /\ ~BlackFamily(u, s)
         /\ OuterNephew(v, cur) # Null
         /\ t' = IF IsLeft(w, cur) THEN RotateLeft(w, p) ELSE RotateRight(w, p)
  /\ pc' = "unlink"
  /\ UNCHANGED <<cur, saved, child>>

(* The links a removed node keeps are dead: navi_rb_insert overwrites all  *)
(* four before it reads one.  They are cleared here so that states that    *)
(* differ only in them are one state.                                      *)
Forget(u, n) ==
  [u EXCEPT !.left[n] = Null, !.right[n] = Null, !.parent[n] = Null, !.color[n] = "red"]


(* A child that has come to the root is painted black. *)
PaintRoot(u, n, c) == IF IsRoot(u, n) /\ c # Null THEN SetColor(u, c, "black") ELSE u

Unlink ==
  /\ pc = "unlink"
  /\ t' = Forget(PaintRoot(Replace(t, saved, child), cur, child), saved)
  /\ pc' = "idle" /\ cur' = Null /\ saved' = Null /\ child' = Null

Next ==
  \/ \E k \in Node : Insert(k) \/ Remove(k)
  \/ InsertAtRoot \/ InsertUnderBlack \/ InsertRedUncle \/ InsertRotate
  \/ RemoveAtRoot \/ RemoveNoSibling \/ RemoveBlackParent \/ RemoveRedParent
  \/ RemoveRotate \/ Unlink

Spec == Init /\ [][Next]_vars

(* A call, once started, runs on: the caller waits for it. *)
Running == InsertAtRoot \/ InsertUnderBlack \/ InsertRedUncle \/ InsertRotate
        \/ RemoveAtRoot \/ RemoveNoSibling \/ RemoveBlackParent \/ RemoveRedParent
        \/ RemoveRotate \/ Unlink
FairSpec == Spec /\ WF_vars(Running)

-----------------------------------------------------------------------------
Sorted(s) == \A i \in 1 .. Len(s) - 1 : s[i] < s[i + 1]

(* Links lead to nodes, and only the dummy root has the colour by which    *)
(* is_root tells where the loops end.                                      *)
TypeOK ==
  /\ t.left \in [Node \cup {Root} -> Node \cup {Null}]
  /\ t.right \in [Node \cup {Root} -> Node \cup {Null}]
  /\ t.parent \in [Node \cup {Root} -> Node \cup {Root, Null}]
  /\ t.color[Root] = "root"
  /\ \A n \in Node : t.color[n] \in {"red", "black"}
  /\ pc \in {"idle", "insert", "remove", "unlink"}
  /\ cur \in Node \cup {Null}
  /\ saved \in Node \cup {Null}
  /\ child \in Node \cup {Null}

(* The tree stays a search tree through every swap and rotation, and every *)
(* node's parent link is the inverse of the link that leads to it.         *)
WellLinked ==
  /\ TypeOK
  /\ Sorted(InOrder(t)) \/ pc \in {"remove", "unlink"}
  /\ \A n \in Members(t) \cup {Root} : \A c \in {t.left[n], t.right[n]} \ {Null} :
       t.parent[c] = n

(* The number of black nodes on the paths below n, -1 if they differ. *)
BlackHeight(u) ==
  LET H[n \in Node \cup {Null}] ==
        IF n = Null THEN 1
        ELSE LET l == H[u.left[n]]
                 r == H[u.right[n]]
             IN  IF l = -1 \/ l # r THEN -1 ELSE l + (IF IsBlack(u, n) THEN 1 ELSE 0)
  IN  H[u.left[Root]]

(* A red-black tree, except that the node n may be a red child of a red    *)
(* node.                                                                   *)
Balanced(u, n) ==
  /\ BlackHeight(u) # -1
  /\ \A x \in Members(u) \ {n} : IsRed(u, x) => IsRoot(u, x) \/ ~IsRed(u, u.parent[x])

(* rbtree.h:13: "Generic Red-Black Trees".  Insertion keeps one balanced   *)
(* at each turn of its loop, but for the node it is about, and so when it  *)
(* returns.  Removal does not.                                             *)
InsertKeepsBalance ==
  [][ (pc = "insert" \/ pc' = "insert") /\ Balanced(t, cur) => Balanced(t', cur') ]_vars

(* rb_for_each visits every node once, in increasing order of address. *)
IterationSorted ==
  pc = "idle" =>
    LET From[n \in Node \cup {Null}] == IF n = Null THEN <<>> ELSE <<n>> \o From[NextOf(t, n)]
    IN  From[First(t, t.left[Root])] = InOrder(t)

(* Case 6 of navi_rb_remove writes to the outer nephew: there is one,      *)
(* whatever tree the earlier calls left behind.                            *)
NephewExists ==
  pc = "remove" /\ ~IsRoot(t, cur) =>
    LET u == RaiseRedSibling(t, cur)
        s == Sibling(u, cur)
    IN  s # Null /\ ~BlackFamily(u, s) => OuterNephew(TurnNephew(u, cur, s), cur) # Null

(* Every call returns. *)
CallsReturn == pc # "idle" ~> pc = "idle"

(* Clients of the tree see a set of nodes that Insert and Remove change.   *)
Set == INSTANCE OrderedSet WITH set <- Members(t), Key <- Node
ImplementsSet == Set!Spec
=============================================================================
