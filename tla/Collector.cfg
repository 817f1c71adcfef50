SPECIFICATION FairSpec
CONSTANTS
  Objects = {1, 2, 3}
  Null = 0
  MaxDepth = 4
  Word = 16
  MaxDisabled = 1
  Programs <- MCPrograms
INVARIANT ListIsHeap
PROPERTIES ImplementsHeap CollectionIsComplete CollectionEnds
CHECK_DEADLOCK FALSE
