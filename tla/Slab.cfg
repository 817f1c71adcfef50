SPECIFICATION Spec
CONSTANTS
  SlabId = {s1, s2, s3}
  ObjsPerSlab = 3
INVARIANTS FreeFindsSlab SlabHasCell CellsAccounted
PROPERTIES GrowsOnlyWhenExhausted ImplementsPool
