SPECIFICATION Spec
CONSTANTS
  ALIGN = 4
  WORD = 32
  bit_and <- AndWords
  bit_or <- OrWords
  Threads = {t1, t2, t3}
  Entries = {4, 8, 12}
  MaxReg = 5
INVARIANTS TypeOK IterationComplete EachFinalizedOnce NoDangling DropClean
SYMMETRY Symmetry
CHECK_DEADLOCK FALSE
