SPECIFICATION Spec
CONSTANTS
  Names = {"s", "t"}
  Width <- MCWidth
  Nul = "nul"
  BufLen = 6
  Programs <- MCPrograms
INVARIANT SizesAgree
PROPERTY ImplementsStrings
CHECK_DEADLOCK FALSE
