CONSTANTS
  Procs = {p1, p2}
  InitProc = p1
  Inums = {1, 2, 3}
  Blocks = {1, 2, 3}
  Names = {"a", "b"}
  DPB = 3
  NINODE = 3
  NFILE = 2
  NOFILE = 2
  Programs <- MCPrograms
  Crashes = TRUE
  Nobody = Nobody
  Slots = {s1, s2, s3}
  FirstSlot = s1
  NPAGES = 20
  PTE = 3
  Images <- MCImages
  Steps <- MCSteps
  NoSlot = NoSlot
  Readers = {r1}
  Writers = {w1}
  Handler = Handler
  Chars = {x, nl, eof}
  Newline = nl
  Eof = eof
  Backspace = bs
  KillKey = kill
  NoKey = NoKey
  INPUT_BUF_SIZE = 2
  UART_TX_BUF_SIZE = 1
  MaxN = 2
  Wrap = 4
  TxWrap = 2
  Free = Free
SPECIFICATION KernelSpec
INVARIANTS FilesNoPanic RefsExact CacheCurrent NoLockCycle DiskConsistent
INVARIANTS PagesOwned ImageMapped ConsoleAwake
PROPERTIES NamelessKept ImplementsTty
