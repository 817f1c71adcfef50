----------------------------- MODULE OrderedSet -----------------------------
(* What a search tree keyed by address promises: a set of nodes, to which  *)
(* one node at a time is added and from which one at a time is removed.    *)

CONSTANT Key

VARIABLE set

Init == set = {}

Add(k) == k \notin set /\ set' = set \cup {k}

Remove(k) == k \in set /\ set' = set \ {k}

Next == \E k \in Key : Add(k) \/ Remove(k)

Spec == Init /\ [][Next]_set
=============================================================================
