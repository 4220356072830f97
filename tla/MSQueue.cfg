SPECIFICATION Spec
CONSTANTS
  Threads = {t1, t2, t3}
  Nodes = {n1, n2, n3}
  Null = Null
  NoBag = NoBag
  MaxPush = 2
  Pushers = {t1, t2}
  Poppers = {t2, t3}
  Slow = {t2}
INVARIANTS NoUseAfterFree RetiredUnreachable
PROPERTIES Refinement CallsReturn
CHECK_DEADLOCK FALSE
