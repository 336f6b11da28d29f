\* One moment, 1.5 seconds after the epoch, which PostgreSQL prints with ".5".
SPECIFICATION Spec
CONSTANTS
  Tables <- HalfSecond
  Offsets = {0}
  MaxColumns = 3
  MaxRows = 3
  DefaultLimit = 2
  MaxCell = 5
  MaxBody = 60
  MaxInt32 = 50
  MaxInt64 = 99999
  Mktime <- Ahead
  BufferSizes = {0}
INVARIANTS
  TimestampsAreEpochMs
