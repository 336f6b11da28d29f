\* A calendar that skips midnight of day 1.
SPECIFICATION Spec
CONSTANTS
  Keys = {1}
  Levels = {1}
  MaxTime = 11
  RowTimes = {1, 2, 3, 6, 10}
  Clock <- SkipsMidnight
  HoursPerDay = 3
  Existing = {0, 1, 2, 3}
  Fixed <- Points
  Queries <- FewQueries
  RouteUpdatable = FALSE
  DefaultLimit = 2
  MaxDayTables = 3
INVARIANTS
  TablesAreTheDays
CHECK_DEADLOCK FALSE
