SPECIFICATION Spec
CONSTANTS
  Members = 1
  HistorySize = 2
  ChanCap = 2
  MaxPackets = 3
  MaxPauses = 2
INVARIANTS HearsItsOwn FlushIsMarked
CHECK_DEADLOCK FALSE
