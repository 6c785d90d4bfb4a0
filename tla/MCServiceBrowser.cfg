\* Two callers, one device under both names, there before or not, that comes and goes,
\* and one stop.
CONSTANTS
  Devices = {speaker}
  Callers = {a, b}
  Workers = 2
  MaxChanges = 2
SPECIFICATION Spec
INVARIANT TableIsFresh
SYMMETRY CallerSymmetry
\* The callers and the network come to an end.
CHECK_DEADLOCK FALSE
