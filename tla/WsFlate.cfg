\* Two connections of all modes, two goroutines, one that closes, four objects.
CONSTANTS
  Conns = {c1, c2}
  Users = {g1, g2}
  Closers = {k1}
  Objs = {o1, o2, o3, o4}
  None = None
  MaxUses = 6
SYMMETRY Symmetry
SPECIFICATION Spec
INVARIANTS
  TypeOK
  OnePlace
  BoundToUser
  PoolRefersToNobody
\* All connections are closed, or the messages are used up.
CHECK_DEADLOCK FALSE
