\* The reader as main uses it: no Reset, destroyed once it has called back.
SPECIFICATION Spec
CONSTANTS
  File <- AVFile
  AudioIndex = 1
  MaxResets = 0
  EarlyDestroy = FALSE
INVARIANTS DestructorDefined
PROPERTIES OnlyEarlyOnesLost CloseOnlyWhenPlayed ReaderIsPlayback
\* The behaviour ends when the reader has been destroyed.
CHECK_DEADLOCK FALSE
