\* Five frames of any kind, empty ones and one beyond the limit included.
CONSTANTS
  Accepted = {"text"}
  CheckUTF8 = TRUE
  MaxFrameSize = 2
  Expand = 2
  Window = 1
  Prefetch = 1
  BufLens = {1, 2}
  Lens = {0, 1, 2, 3}
  MaxFrames = 5
SPECIFICATION Spec
INVARIANTS
  TypeOK
  CleanBetween
  NoFrameAdvance
  TextEndsWhole
PROPERTY ReadsMessages
\* Read gives up for good, and the peer may fall silent.
CHECK_DEADLOCK FALSE
