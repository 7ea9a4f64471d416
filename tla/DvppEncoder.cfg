\* Lists that overflow, a pool that runs out when buffers are lost, a stream
\* cache of one entry, frames the hardware refuses, a stream not copied.
SPECIFICATION Spec
CONSTANTS
  NumFrames = 5
  Sizes <- EitherSize
  Limit = 1
  PoolNum = 4
  InputNum = 1
  QueueLen = 1
  Refusable = {1, 2}
  Uncopied = {3}
  MaxChn = 1
  Starts <- AnyStart
  Align = 16
INVARIANTS MemoryOwned CopyFits
PROPERTIES DestructorReturns DvppIsFifo
\* The behaviour may end when the encoder has been destroyed.
CHECK_DEADLOCK FALSE
