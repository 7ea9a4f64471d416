\* A codec that keeps two packets back, refuses packets, and copies that fail.
SPECIFICATION Spec
CONSTANTS
  MaxPackets = 5
  Delay = 2
  Fails = TRUE
INVARIANTS MemoryOwned NothingSkipped
PROPERTIES Progress DecoderIsFifo
\* The behaviour may end when the decoder has been destroyed.
CHECK_DEADLOCK FALSE
