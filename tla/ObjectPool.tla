----------------------------- MODULE ObjectPool -----------------------------
(***************************************************************************)
(* What a slab cache promises its clients, with no slabs in it: a pool of  *)
(* fixed-size memory cells.  A cell that is handed out belongs to nobody   *)
(* else until the client that holds it gives it back.                      *)
(***************************************************************************)
EXTENDS Integers

CONSTANT Cell       \* every cell the cache may ever hand out

VARIABLES
  live,             \* the cells now in the hands of clients
  calls             \* the number of calls so far, modulo 2: no call stutters

Init == live = {} /\ calls = 0

Take(c) == c \notin live /\ live' = live \cup {c} /\ calls' = 1 - calls

Give(c) == c \in live /\ live' = live \ {c} /\ calls' = 1 - calls

Next == \E c \in Cell : Take(c) \/ Give(c)

Spec == Init /\ [][Next]_<<live, calls>>
=============================================================================
