\* Up to four rows behind a limit of three, cells of at most five characters,
\* bodies of at most 50 units, moments whose fraction has no trailing zero, and one
\* that mktime gives up on.
SPECIFICATION Spec
CONSTANTS
  Tables <- AllTables
  Offsets = {0, 1, 5}
  MaxColumns = 3
  MaxRows = 3
  DefaultLimit = 2
  MaxCell = 5
  MaxBody = 50
  MaxInt32 = 50
  MaxInt64 = 99999
  Mktime <- Ahead
  BufferSizes = {0, 1, 2, 5, 6, 7}
INVARIANTS
  TypeOK
  ReadsAreTrue
  PageIsWhole
  RefusedForSize
PROPERTIES
  StringAsAsked
