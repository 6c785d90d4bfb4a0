\* An RTSP connection whose calls may be given up anywhere: safety, and every call returns.
CONSTANTS
  MaxRequests = 4
  MaxBlocks = 2
SPECIFICATION FairSpec
INVARIANTS
  TypeOK
  ResponsesInOrder
  InStepUntilDropped
  LagIsDropped
PROPERTIES
  DamageIsFinal
  CallsReturn
\* After close, or after the last request, nothing more happens.
CHECK_DEADLOCK FALSE
