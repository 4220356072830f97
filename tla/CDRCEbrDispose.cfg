SPECIFICATION Spec
CONSTANTS
  Threads = {t1, t2}
  Objs = {o1}
  Null = Null
  AtomicRcs = {R}
  AtomicWeaks = {W}
  Snaps = {s1}
  Clients <- DisposeClients
SYMMETRY Symmetry
CHECK_DEADLOCK FALSE
INVARIANTS SnapshotsSafe
