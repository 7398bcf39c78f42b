SPECIFICATION FairSpec
CONSTANTS
  Threads = {t1, t2}
  Loopers = {t1}
  Clients = {c1, c2}
  MaxBuf = 1
  Nobody = Nobody
INVARIANTS
  TypeOK
  RefsCounted
  WorkPending
  ObjectAlive
  DriverRefsExact
PROPERTY Reclaimed
CHECK_DEADLOCK FALSE
