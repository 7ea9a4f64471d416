\* An owner that resets the reader and destroys it at any time.
SPECIFICATION Spec
CONSTANTS
  File <- TinyFile
  AudioIndex = 1
  MaxResets = 1
  EarlyDestroy = TRUE
INVARIANTS CloseOncePerPlay
PROPERTIES JoinsReturn
\* The behaviour ends when the reader has been destroyed.
CHECK_DEADLOCK FALSE
