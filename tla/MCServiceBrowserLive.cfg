\* Two callers on two workers while a device comes or goes; is a stop heard?
CONSTANTS
  Devices = {speaker}
  Callers = {a, b}
  Workers = 2
  MaxChanges = 1
SPECIFICATION FairSpec
PROPERTY StopIsHeard
\* The callers and the network come to an end.
CHECK_DEADLOCK FALSE
