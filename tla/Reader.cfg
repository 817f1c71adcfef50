SPECIFICATION FairSpec
CONSTANTS
  Source <- MCSource
  Narrowed <- MCNarrowed
  Internal <- MCInternal
\* The reader stops at the end of the text.
CHECK_DEADLOCK FALSE
INVARIANTS RoundTrip NothingLost ListsGuarded
PROPERTY ReadsReturn
