\* Two operations that write up to two of five blocks; crashes at any time.
CONSTANTS
  Ops = {o1, o2}
  Blocks = {b1, b2, b3, b4, b5}
  Vals = {v0, v1}
  Blank = v0
  MAXOPBLOCKS = 3
  LOGSIZE = 6
  NLOG = 6
  OpBlocks = 2
SPECIFICATION Spec
SYMMETRY Symmetric
INVARIANTS DirtyPinned PinsMatch QuiescentDurable NoPanic SleeperHasWaker
PROPERTIES ImplementsAtomicDisk
