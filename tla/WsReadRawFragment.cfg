\* A compressed message in two frames, read into a large buffer.
CONSTANTS
  Accepted = {"text"}
  CheckUTF8 = FALSE
  MaxFrameSize = 3
  Expand = 2
  Window = 4
  Prefetch = 4
  BufLens = {8}
  Lens = {1, 2}
  MaxFrames = 2
SPECIFICATION Spec
INVARIANT InflatesEveryFragment
CHECK_DEADLOCK FALSE
