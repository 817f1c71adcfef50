---------------------------- MODULE MCCollector -----------------------------
(* The programs of the run of Collector, by what they explore.             *)
EXTENDS Collector

Clean == {{}}
Stale == SUBSET {"mark", "protect"}

MCPrograms == {
  \* every shape of three pairs that is not circular, and of two that may be
  [types |-> {"pair"}, objects |-> {1, 2, 3}, fresh |-> Clean, uses |-> {"set-cdr!"}],
  [types |-> {"pair"}, objects |-> {1, 2}, fresh |-> Clean, uses |-> {"set-cdr!", "circular"}],
  \* flags that are not initialised
  [types |-> {"pair"}, objects |-> {1, 2}, fresh |-> Stale, uses |-> {"set-cdr!"}],
  \* counts that drift, and the switch
  [types |-> {"pair", "string", "symbol"}, objects |-> {1, 2}, fresh |-> Clean, uses |-> {}],
  [types |-> {"pair"}, objects |-> {1, 2}, fresh |-> Clean, uses |-> {"disable"}]}
=============================================================================
