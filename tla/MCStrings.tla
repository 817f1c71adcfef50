------------------------------ MODULE MCStrings -----------------------------
(* Characters of one, two and three bytes, and the programs of the run of  *)
(* Strings.                                                                *)
EXTENDS Strings

MCWidth == [c \in {"nul", "a", "b", "e", "k"} |-> CASE c = "e" -> 2 [] c = "k" -> 3 [] OTHER -> 1]

MCPrograms == {
  \* changes in place that change the width
  [ops |-> {"list", "literal", "set", "fill", "write"}, names |-> {"s"},
   chars |-> {"a", "e", "k"}, max |-> 2, fresh |-> "k"],
  [ops |-> {"set", "fill", "write"}, names |-> {"s"}, chars |-> {"a", "k"}, max |-> 3, fresh |-> "k"],
  \* copies from one string to another
  [ops |-> {"list", "copy!", "equal"}, names |-> {"s", "t"}, chars |-> {"a", "k"}, max |-> 2, fresh |-> "k"],
  \* strings made of others
  [ops |-> {"list", "append", "dup", "vector", "copy", "utf8", "write"}, names |-> {"s"},
   chars |-> {"a", "e"}, max |-> 3, fresh |-> "nul"],
  \* indices of bytes are those of characters
  [ops |-> {"make", "list", "ref", "set", "copy"}, names |-> {"s", "t"},
   chars |-> {"a", "b"}, max |-> 2, fresh |-> "nul"]}
=============================================================================
