\* Four exchanges, one of them disturbed in every way, and the clocks apart.
CONSTANTS
  Interval = 4
  Skew <- Behind
  LastExchange = 4
  MaxTroubled = 1
SPECIFICATION Spec
INVARIANTS
  TypeOK
  TroubleIsForgotten
  EveryExchangeCounts
\* The receiver stops after LastExchange.
CHECK_DEADLOCK FALSE
