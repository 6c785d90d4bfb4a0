\* Safety of the pipeline: the smallest buffer in which a batch fits below the watermark.
SPECIFICATION Spec
CONSTANTS
  LiveCap = 5
  BufCap = 4
  ChanCap = 2
  PacketSamples = 2
  SampleRate = 3
  TimestampSpace = 5
  SyncPort = TRUE
  MaxFrames = 5
INVARIANTS TypeOK InOrder SignalsAgree BufferFits SyncSpacing
PROPERTIES StopIsFinal ImplementsPlayout LivesAsStreamer
CHECK_DEADLOCK FALSE
