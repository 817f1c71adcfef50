SPECIFICATION Spec
CONSTANTS
  Programs <- MCMacros
  Loops <- NoLoops
\* Programs end.
CHECK_DEADLOCK FALSE
PROPERTY EndsAsMeant
