\* kill(0) with one hart and two slots.
CONSTANTS
  NPROC = 2
  CPUs = {c1}
  NoCpu = NoCpu
  Signals = {"kill0"}
SPECIFICATION Spec
INVARIANT KilledMeansKilled
