\* Three messages of either side, with and without compression; the longest
\* one passes all three loops of FastCipher.
CONSTANTS
  Lens = {0, 2, 3, 9}
  HeaderLens <- Boundaries
  Threshold = 3
  OpCode = 1
  MaxWrites = 3
SPECIFICATION Spec
INVARIANTS
  TypeOK
  SameStream
  TailDecides
  SliceKept
  HeaderSurvives
\* All messages are written and read.
CHECK_DEADLOCK FALSE
