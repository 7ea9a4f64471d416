\* Video and audio from a server that asks for credentials.
SPECIFICATION ClientSpec
CONSTANTS
  Media = {"video", "audio"}
  Auth = TRUE
  Breaks = TRUE
  Cuts = 6
  Refusals = 1
  Stream <- MixedStream
INVARIANTS PlayIsPrepared StreamWhole
PROPERTIES ConnectEnds
\* The stream ends, and a failed attempt is not repeated here.
CHECK_DEADLOCK FALSE
