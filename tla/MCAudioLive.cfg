SPECIFICATION FairSpec
CONSTANTS
  LiveCap = 1
  BufCap = 10
  ChanCap = 2
  PacketSamples = 1
  SampleRate = 2
  TimestampSpace = 4
  SyncPort = FALSE
  MaxFrames = 3
PROPERTIES StopCompletes StopWithoutSignal TaskReleased EofDrains SignalsTakeEffect
CHECK_DEADLOCK FALSE
