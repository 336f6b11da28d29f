\* Databases of one to three tables; CRUD on the first, two rows, char arrays
\* of two bytes; moments whose fraction reads back and does not, local times of
\* other clients that mktime gives up on and that the clock skips.
SPECIFICATION Spec
CONSTANTS
  Catalogs <- AllCatalogs
  Numbers = {1, 2}
  Moments = {5, 1500}
  Stamps = {9000, 12000}
  LocalTime <- Local
  Mktime <- Known
  Texts <- FewTexts
  RowBound = 2
INVARIANTS
  TypeOK
  GeneratedDescribes
PROPERTIES
  WritesOneRow
  ReadThenWriteKeeps
CHECK_DEADLOCK FALSE
