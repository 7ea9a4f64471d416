\* A hardware that keeps a picture back, refuses packets until the pool is
\* used up, and marks a picture as bad; a packet that is too long.
SPECIFICATION DecSpec
CONSTANTS
  MaxPackets = 7
  OutNum = 3
  Delay = 1
  Unaccepted = {1, 2}
  Bad = {3}
  Huge = {7}
INVARIANTS OutBuffersOwned
PROPERTIES Progress DecoderIsFifo
\* The behaviour may end when the decoder has been destroyed.
CHECK_DEADLOCK FALSE
