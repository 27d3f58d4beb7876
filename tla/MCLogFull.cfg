\* The sizes of the real system, scaled down: param.h's LOGSIZE is three times
\* MAXOPBLOCKS, mkfs makes a log of LOGSIZE blocks, header included, and every
\* operation writes as many blocks as its reservation allows.
CONSTANTS
  Ops = {o1, o2, o3}
  Blocks = {b1, b2, b3, b4, b5, b6}
  Vals = {v0}
  Blank = v0
  MAXOPBLOCKS = 2
  LOGSIZE = 6
  NLOG = 6
  OpBlocks = 2
SPECIFICATION Spec
SYMMETRY Symmetric
INVARIANT NoPanic
