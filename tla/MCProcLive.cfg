\* Liveness of wait(): three slots, one hart, no symmetry.
CONSTANTS
  NPROC = 3
  CPUs = {c1}
  NoCpu = NoCpu
  Signals = {"kill0"}
SPECIFICATION FairSpec
PROPERTY WaitReturns
