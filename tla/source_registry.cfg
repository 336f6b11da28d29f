\* Two threads, a query each that can be freed and created again, two
\* source addresses, at most three sources in a query: a handle may follow a
\* source that has none.
SPECIFICATION FairSpec
CONSTANTS
  Threads = {t1, t2}
  Queries = {q1, q2}
  Addrs = {a1, a2}
  MaxSources = 3
  NoThread = NoThread
  NoQuery = NoQuery
  NoAddr = NoAddr
INVARIANTS
  TypeOK
  ListedIsAlive
  NoStaleAccess
  ValidatedIsOwn
  QuietIsExact
PROPERTIES
  LockReleased
