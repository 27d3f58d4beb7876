\* Three processes and descriptors for two requests: one has to wait.
CONSTANTS
  Procs = {p1, p2, p3}
  Blocks = {b1, b2, b3}
  Vals = {1}
  Blank = 0
  NoBlock = NoBlock
  NUM = 7
  RING = 2
  IDX = 4
  NoProc = NoProc
  Handler = Handler
SPECIFICATION Spec
SYMMETRY Symmetry
INVARIANTS TypeOK DescsOwned UsedNamesWaiter DescSleeperHasWaker
PROPERTIES ImplementsBlockDevice
