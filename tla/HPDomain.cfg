SPECIFICATION Spec
CONSTANTS
  reader = r
  writer = w
  Threads = {r, w}
  parent = o1
  child = o2
  object = p
  Refs = {o1, o2, o3}
  Null = Null
  Handles = {h1, h2}
  Child <- Fields
  Ptr <- Targets
  Clients <- Programs
  INIT_SIZE = 1
  FLUSH = 1
  MaxRecs = 2
  MaxSize = 2
INVARIANTS TypeOK HazardsHold ArraysHold SlotsMatch EachOnce GarbageExact RetryHonoured
CHECK_DEADLOCK FALSE
