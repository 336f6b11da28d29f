\* Two rows, five local days of which the last has no table, an hour skipped
\* inside day 1, a default limit of two rows and at most three day tables.
SPECIFICATION Spec
CONSTANTS
  Keys = {1, 2}
  Levels = {1, 2}
  MaxTime = 11
  RowTimes = {1, 2, 3, 6, 10}
  Clock <- SkipsAnHour
  HoursPerDay = 3
  Existing = {0, 1, 2, 3}
  Fixed <- Points
  Queries <- AllQueries
  RouteUpdatable = FALSE
  DefaultLimit = 2
  MaxDayTables = 3
INVARIANTS
  TypeOK
  RowsInTheirDay
  TablesAreTheDays
  OnlyMissingTablesFail
PROPERTIES
  ImplementsLogicalTable
CHECK_DEADLOCK FALSE
