SPECIFICATION Spec
CONSTANTS
  Programs <- MCPrograms
  Loops <- MCLoops
\* Programs end.
CHECK_DEADLOCK FALSE
INVARIANTS TailCallsNeedNoStack 
PROPERTY EndsAsMeant
