SPECIFICATION Spec
CONSTANTS
  Obj = {o1, o2, o3}
  GlobalLex = gl
  GlobalDyn = gd
  Scope = {gl, gd, s1, s2, s3}
  Key = {x}
  None = none
  Garbage = {none}
  Program <- MCProgram
INVARIANTS  ScopesHeld RefsExact GuardsOwned
SYMMETRY Symmetry
