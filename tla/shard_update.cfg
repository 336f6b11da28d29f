\* The shipped alarm dataset: occur_time carries HDB_FIELD_UPDATE.
SPECIFICATION Spec
CONSTANTS
  Keys = {1}
  Levels = {1}
  MaxTime = 11
  RowTimes = {1, 2, 3, 6, 10}
  Clock <- SkipsAnHour
  HoursPerDay = 3
  Existing = {0, 1, 2, 3}
  Fixed <- Points
  Queries <- FewQueries
  RouteUpdatable = TRUE
  DefaultLimit = 2
  MaxDayTables = 3
INVARIANTS
  RowsInTheirDay
CHECK_DEADLOCK FALSE
