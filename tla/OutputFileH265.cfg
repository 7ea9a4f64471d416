\* An H265 file: the encoder makes H264.
SPECIFICATION SafeSpec
CONSTANTS
  VideoType = "H265"
  SetIds = {1}
  Stamps <- Times
  VideoPackets <- OnePacket
  Gaps <- SomeGaps
  TimeBase <- Ticks
  AudioPackets = 1
  Rtsp = FALSE
  HaveAudio = FALSE
INVARIANTS TrailerAfterHeader
\* The behaviour ends with the wrapper.
CHECK_DEADLOCK FALSE
