SPECIFICATION FairSpec
CONSTANT
  Node = {1, 2, 3, 4, 5, 6}
INVARIANTS WellLinked IterationSorted
PROPERTIES CallsReturn ImplementsSet InsertKeepsBalance
