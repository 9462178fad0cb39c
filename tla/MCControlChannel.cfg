CONSTANTS
  Managers = {m1, m2}
  Clients = {c1, c2}
  Nobody = Nobody
  Asker = c1
  Frail = m1
  Permits = 2
  QueueSize = 1
SPECIFICATION AskerSpec
INVARIANTS
  TypeOK
  AtMostOnce
  ReportsAreTrue
  QueriesSeeReports
  Reachable
PROPERTIES
  NothingOverwritten
  Answered
  KeepsThePromise
