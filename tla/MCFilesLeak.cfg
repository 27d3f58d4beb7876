CONSTANTS
  Procs = {p1, p2}
  InitProc = p1
  Inums = {1, 2}
  Blocks = {1, 2}
  Names = {"a"}
  DPB = 3
  NINODE = 2
  NFILE = 2
  NOFILE = 1
  Programs <- MCReuse
  Crashes = FALSE
  Nobody = Nobody
SPECIFICATION FilesSpec
INVARIANT NothingLeaks
