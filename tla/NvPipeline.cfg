\* Videos of up to six packets; a queue of two pictures at most, a parser that keeps
\* one back, and a ring of four surfaces with a lookahead of two pictures.
SPECIFICATION Spec
CONSTANTS
  Streams <- Videos
  ParserDelay = 1
  MaxQueue = 1
  FrameIntervalP = 1
  LookaheadDepth = 2
  ExtraOutputDelay = 1
  Failing = {3}
INVARIANTS FramesWhole RingKept
PROPERTIES Progress PathIsFifo
\* The behaviour ends with the wrapper.
CHECK_DEADLOCK FALSE
