\* Streams of one length, of two lengths and of another rate; a packet that is
\* damaged, and codecs of which the decoder's keeps a packet back.
SPECIFICATION Spec
CONSTANTS
  Streams <- AllStreams
  Damaged = {2}
  DecDelay = 1
  EncDelay = 1
  LcLen = 2
  HeLen = 4
INVARIANTS SamplesKept
PROPERTIES Progress AudioIsFifo
\* The behaviour ends with the wrapper.
CHECK_DEADLOCK FALSE
