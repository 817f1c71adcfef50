SPECIFICATION FairSpec
CONSTANTS
  Lib = {"a", "b", "c"}
  Dir = {"d1", "d2", "data"}
  Options <- MCOptions
  DataDir = "data"
  Program <- MCProgram
\* navi_list_append_ip loops for ever on a circular list, and errors add to
\* _navi_gc_disabled up to its bound.
CHECK_DEADLOCK FALSE
INVARIANTS OffDuringImport BodyRunsOnce ReadInOrder
PROPERTIES ImportsAsMeant ImportsReturn
