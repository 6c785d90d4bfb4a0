\* Every sequence of API calls, with every pattern of failing requests.
CONSTANTS
  GroupSize = 2
  Timings = {"ntp", "slave", "master"}
SPECIFICATION Spec
INVARIANTS
  TypeOK
  SessionAgrees
  StreamerFollows
  OnlyFailuresLoseTasks
  ListenerCovers
PROPERTY StreamsOnce
\* wait_for_completion may wait for ever.
CHECK_DEADLOCK FALSE
