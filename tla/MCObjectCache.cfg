CONSTANTS
  t1 = t1
  t2 = t2
  t3 = t3
  o1 = o1
  o2 = o2
  o3 = o3
  o4 = o4
  Threads = {t1, t2, t3}
  Objects = {o1, o2, o3, o4}
  CacheSize = 1
  NULL = NULL
SPECIFICATION FairSpec
INVARIANTS TypeOK Exclusive PoolSound
PROPERTY LostOnlyToARace
PROPERTY ImplementsPool
PROPERTY Terminates
CHECK_DEADLOCK FALSE
