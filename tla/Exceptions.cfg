SPECIFICATION Spec
CONSTANTS
  MaxDepth = 9
  Program <- MCProgram
\* navi_die ends the program.
CHECK_DEADLOCK FALSE
INVARIANTS HandlersInForce  InnermostIsRight
PROPERTY ContinuableIsTransparent
