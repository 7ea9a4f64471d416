\* A file with audio, whichever thread is first, destroyed at any time.
SPECIFICATION OutputSpec
CONSTANTS
  VideoType = "H264"
  SetIds = {1}
  Stamps <- Times
  VideoPackets <- TwoPackets
  Gaps <- SomeGaps
  TimeBase <- Ticks
  AudioPackets = 3
  Rtsp = FALSE
  HaveAudio = TRUE
INVARIANTS FileComplete StampsIncrease StampsFollowClock
PROPERTIES MuxerUsedInOrder FileEnds
\* The behaviour ends with the wrapper.
CHECK_DEADLOCK FALSE
