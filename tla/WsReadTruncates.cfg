\* One compressed message, longer than the application's buffer.
CONSTANTS
  Accepted = {"text"}
  CheckUTF8 = FALSE
  MaxFrameSize = 3
  Expand = 2
  Window = 4
  Prefetch = 4
  BufLens = {1, 2}
  Lens = {1, 2}
  MaxFrames = 2
SPECIFICATION Spec
INVARIANT EofMeansWhole
CHECK_DEADLOCK FALSE
