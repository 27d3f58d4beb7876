\* Two requests in flight, so that the device may complete the second one at
\* any point of the handler's work on the first.
CONSTANTS
  Procs = {p1, p2}
  Blocks = {b1, b2}
  Vals = {0}
  Blank = 0
  NoBlock = NoBlock
  NUM = 7
  RING = 2
  IDX = 4
  NoProc = NoProc
  Handler = Handler
SPECIFICATION FairSpec
PROPERTIES RequestReturns
