SPECIFICATION Spec
CONSTANTS
  SeqSpace = 8
  HistorySize = 4
  MaxPackets = 14
  MaxSyncs = 2
INVARIANTS TypeOK RingHoldsLatest RepliesAreExact SyncRestarts
CHECK_DEADLOCK FALSE
