CONSTANTS
  Procs = {p1, p2, p3, p4}
  PENDING = 4
  MaxRefs = 3
  MaxFailed = 3
SPECIFICATION FairSpec
INVARIANTS ZeroIsSticky CountIsExact AtMostOneCredit IInv
PROPERTIES Refinement DeathIsCredited
CHECK_DEADLOCK FALSE
