\* What the keepalive's comment claims.
CONSTANTS
  MaxRequests = 3
  MaxBlocks = 1
SPECIFICATION Spec
INVARIANT KeepaliveIsHarmless
CHECK_DEADLOCK FALSE
