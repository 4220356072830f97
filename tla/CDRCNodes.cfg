SPECIFICATION Spec
CONSTANTS
  Threads = {t1, t2}
  Objs = {o1, o2}
  Null = Null
  AtomicRcs = {R}
  AtomicWeaks = {W}
  Snaps = {s1}
  Clients <- NodeClients
SYMMETRY Symmetry
CHECK_DEADLOCK FALSE
INVARIANTS SnapshotsSafe NoUseAfterFree CountsExact NoLeak
