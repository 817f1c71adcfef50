---------------------------- MODULE MCExceptions ----------------------------
(***************************************************************************)
(* Exceptions for TLC: programs without escapes, and the prompt with       *)
(* everything.                                                             *)
(***************************************************************************)
EXTENDS Exceptions

MCProgram ==
  { [repl |-> FALSE, uses |-> {"parameterize"}],
    [repl |-> TRUE, uses |-> {"parameterize"}],
    [repl |-> TRUE, uses |-> {"parameterize", "call/ec", "tail"}] }
=============================================================================
