\* Safety of the process table: three slots (init and two more), two harts.
CONSTANTS
  NPROC = 3
  CPUs = {c1, c2}
  NoCpu = NoCpu
  Signals = {"kill", "fault"}
SPECIFICATION Spec
SYMMETRY Symmetric
INVARIANTS TypeOK OneCpuPerProc StackOwned SchedChecks NoMissedChild KilledMeansKilled
PROPERTY ImplementsTree
