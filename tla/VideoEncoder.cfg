\* Lists that overflow, pictures of several sizes, a codec that refuses
\* frames, fails over them and keeps one back, and a clock finer than a millisecond.
SPECIFICATION Spec
CONSTANTS
  Sizes <- ChangingSizes
  Limit = 1
  Latency = 1
  Refusable = {1, 2, 3}
  TicksPerMs = 2
  MaxTicks = 3
INVARIANTS FramesOwned ContextFits PtsLag
PROPERTIES Progress EncoderIsFifo
\* The behaviour may end when the encoder has been destroyed.
CHECK_DEADLOCK FALSE
