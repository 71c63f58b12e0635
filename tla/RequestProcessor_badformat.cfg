SPECIFICATION Spec
CONSTANTS
  t1 = t1
  t2 = t2
  t3 = t3
  c1 = c1
  c2 = c2
  c3 = c3
  Callers = {t1}
  Connections = {c1, c2}
  Worker = worker
  NoConn = noconn
  Free = free
  FlagInit = {TRUE, FALSE}
INVARIANTS
  OnlyAcceptedTaken
CHECK_DEADLOCK FALSE
