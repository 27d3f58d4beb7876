\* Three users of four blocks and three buffers: buffers are recycled, shared,
\* and run out.
CONSTANTS
  Users = {u1, u2, u3}
  Blocks = {b1, b2, b3, b4}
  Vals = {1}
  Blank = 0
  NBUF = 3
  NoBlock = NoBlock
  NoUser = NoUser
SPECIFICATION Spec
SYMMETRY Symmetry
INVARIANTS TypeOK OneBufPerBlock RefsMatch SleeperHasOwner
PROPERTIES ImplementsBlockMemory
