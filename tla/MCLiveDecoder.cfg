\* Frames of no sample, of less than a packet, of one and a half and of more than two.
CONSTANTS
  LiveCap = 3
  Target = 3
  FrameSizes = {0, 1, 4, 7}
  MaxSamples = 12
SPECIFICATION DecoderSpec
INVARIANT PacketsAreTheStream
\* The stream ends, but it may still be asked for more.
