\* Two writers and one reader on a pipe of two bytes; the reader may be killed.
CONSTANTS
  Writers = {w1, w2}
  Readers = {r1}
  Bytes = {0, 1}
  PIPESIZE = 2
  UINT = 4
  MaxIO = 3
  Killable = {r1}
  NoProc = NoProc
SPECIFICATION FairSpec
INVARIANTS NoReaderMissed NoWriterMissed FreedLast
PROPERTIES ImplementsFifo CloseWakes
CHECK_DEADLOCK FALSE
