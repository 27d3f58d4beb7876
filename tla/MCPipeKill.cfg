\* One writer, which may be killed, and one reader.
CONSTANTS
  Writers = {w1}
  Readers = {r1}
  Bytes = {0}
  PIPESIZE = 2
  UINT = 4
  MaxIO = 3
  Killable = {w1}
  NoProc = NoProc
SPECIFICATION Spec
INVARIANT NoReaderMissed
CHECK_DEADLOCK FALSE
