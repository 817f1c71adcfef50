------------------------------ MODULE MCPorts -------------------------------
(***************************************************************************)
(* Ports for TLC: files and strings that are written and then read, and    *)
(* files that were there before, some of which are not UTF-8.              *)
(***************************************************************************)
EXTENDS Ports

Opens(kind, client, content, written, shared, fails) ==
  [kind |-> kind, client |-> client, content |-> content, written |-> written,
   shared |-> shared, fails |-> fails]

A == <<"a", 0>>
L1 == <<"l", 1>>
L2 == <<"l", 2>>

MCParen == A

Found == { <<>>, <<A>>, <<L1, L2, A>>, <<A, L1>>, <<L2, A>>, <<L1, A, A>> }

Clients == {"bytes", "chars", "mixed"}

MCProgram ==
  { Opens("file", cl, <<>>, TRUE, FALSE, FALSE) : cl \in Clients }
    \cup { Opens("string", cl, <<>>, TRUE, FALSE, FALSE) : cl \in {"chars", "mixed"} }
    \cup { Opens("file", "chars", <<>>, TRUE, FALSE, TRUE) }
    \cup { Opens("file", cl, s, FALSE, FALSE, FALSE) : cl \in Clients, s \in Found }
    \cup { Opens("file", "mixed", s, FALSE, TRUE, FALSE) : s \in {<<A>>, <<L1, L2, A>>, <<L2, A>>} }
=============================================================================
