SPECIFICATION FairSpec
CONSTANTS
  Threads = {t1, t2}
  Objs = {o1}
  Null = Null
  AtomicRcs = {R}
  AtomicWeaks = {W}
  Snaps = {s1}
  Clients <- LiveClients
CHECK_DEADLOCK FALSE
PROPERTIES Reclaimed
