SPECIFICATION FairSpec
CONSTANTS
  t1 = t1
  t2 = t2
  t3 = t3
  c1 = c1
  c2 = c2
  c3 = c3
  Callers = {t1, t2, t3}
  Connections = {c1, c2}
  Worker = worker
  NoConn = noconn
  Free = free
  FlagInit = {TRUE, FALSE}
INVARIANTS
  TypeOK
  NoLostWakeup
  ParseUnderLock
  ConnectionOwnership
PROPERTIES
  ImplementsSlot
  PendingIsProcessed
  PendingWorkerExits
  KeepsPromises
CHECK_DEADLOCK FALSE
