CONSTANTS
  Threads = {t1, t2}
  Writers = {t1, t2}
  Items = {i1, i2, n1}
  Nodes = {n1}
  NoItem = NoItem
  H = 4
  MAX_OBJECTS = 1
  TRIALS = 1
  MaxGuards = 2
  Calls = {"repin_after", "repin", "exit", "push"}
SPECIFICATION Spec
INVARIANTS IInv EachItemOnce GarbageExact GracePeriod TwoAdvancements
PROPERTIES Refinement EpochStep
CONSTRAINT Bound
VIEW View
SYMMETRY Symmetry
CHECK_DEADLOCK FALSE
