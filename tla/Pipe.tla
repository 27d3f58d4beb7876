-------------------------------- MODULE Pipe --------------------------------
(***************************************************************************)
(* Pipes (kernel/pipe.c): pipewrite(), piperead() and pipeclose(), called  *)
(* by processes that share the two ends, with the sleep() and wakeup() of  *)
(* proc.c on the channels &pi->nwrite (writers wait for room) and          *)
(* &pi->nread (readers wait for bytes), and kill().                        *)
(*                                                                         *)
(* pi->lock is held from one step to the next only where something that    *)
(* does not take it, kill(), may happen in between: around each look at    *)
(* p->killed.                                                              *)
(***************************************************************************)
EXTENDS Naturals, Sequences

CONSTANTS
  Writers, Readers,    \* the processes that hold each end open
  Bytes,
  PIPESIZE,            \* pipe.c
  UINT,                \* 2^32: the counters wrap around here
  MaxIO,               \* bound on the length of a read() or write()
  Killable,            \* the processes that kill() may name
  NoProc

Users == Writers \cup Readers

ASSUME UsersAssumption == /\ Writers \cap Readers = {} /\ NoProc \notin Users
                          /\ Killable \subseteq Users
ASSUME BytesAssumption == Bytes # {}
ASSUME SizeAssumption == /\ PIPESIZE \in Nat \ {0} /\ UINT \in Nat \ {0} /\ MaxIO \in Nat \ {0}
                         /\ UINT % PIPESIZE = 0 /\ UINT > PIPESIZE

VARIABLES
  data, nread, nwrite, readopen, writeopen,   \* struct pipe
  lock,        \* the holder of pi->lock
  holders,     \* the processes that still have their end open
  freed,       \* how many times the pipe's page has been freed
  pc,          \* where each process is
  rest,        \* bytes its call has still to write, or room it has to read
  killed       \* p->killed

pipeVars == <<data, nread, nwrite, readopen, writeopen>>
procVars == <<pc, rest, killed>>
vars == <<pipeVars, lock, holders, freed, procVars>>

\* Mutant: the pipe is full one byte late.
FullLate == nwrite = (nread + PIPESIZE + 1) % UINT
Full == nwrite = (nread + PIPESIZE) % UINT
Empty == nread = nwrite
Count == (nwrite + UINT - nread) % UINT

Init ==
  /\ data = [i \in 0..(PIPESIZE - 1) |-> CHOOSE b \in Bytes : TRUE]
  /\ nread = 0 /\ nwrite = 0
  /\ readopen = 1 /\ writeopen = 1
  /\ lock = NoProc
  /\ holders = Users
  /\ freed = 0
  /\ pc = [p \in Users |-> "user"]
  /\ rest = [p \in Users |-> 0]
  /\ killed = [p \in Users |-> FALSE]

\* Process p moves to point l, and wakeup() wakes the processes at point ch.
MoveAndWake(p, l, ch) ==
  pc' = [q \in Users |-> IF q = p THEN l ELSE IF pc[q] = ch THEN "relock" ELSE pc[q]]
Move(p, l) == pc' = [pc EXCEPT ![p] = l]

Release == lock' = NoProc

-----------------------------------------------------------------------------
(* System calls and pi->lock *)

\* read() or write() of n bytes; a killed process makes no more calls.
Call(p, n) ==
  /\ pc[p] = "user" /\ p \in holders /\ ~killed[p]
  /\ rest' = [rest EXCEPT ![p] = n]
  /\ Move(p, "relock")
  /\ UNCHANGED <<pipeVars, lock, holders, freed, killed>>

\* acquire(&pi->lock), on entry and at the end of sleep().
Acquire(p) ==
  /\ pc[p] = "relock" /\ lock = NoProc
  /\ lock' = p
  /\ Move(p, IF p \in Writers THEN "writeCheck" ELSE "readCheck")
  /\ UNCHANGED <<pipeVars, holders, freed, rest, killed>>

-----------------------------------------------------------------------------
(* pipewrite() *)

\* No reader is left, or the caller was killed: -1.
WriteFail(p) ==
  /\ pc[p] = "writeCheck" /\ rest[p] > 0 /\ (readopen = 0 \/ killed[p])
  /\ Release /\ Move(p, "user")
  /\ rest' = [rest EXCEPT ![p] = 0]
  /\ UNCHANGED <<pipeVars, holders, freed, killed>>

WriteGoOn(p) ==
  /\ pc[p] = "writeCheck" /\ rest[p] > 0 /\ readopen = 1 /\ ~killed[p]
  /\ Move(p, "writeBody")
  /\ UNCHANGED <<pipeVars, lock, holders, freed, rest, killed>>

\* The pipe is full: wake the readers and sleep on &pi->nwrite.
WriteSleep(p) ==
  /\ pc[p] = "writeBody" /\ Full
  /\ Release /\ MoveAndWake(p, "sleepWrite", "sleepRead")
  /\ UNCHANGED <<pipeVars, holders, freed, rest, killed>>

WriteByte(p, b) ==
  /\ pc[p] = "writeBody" /\ ~Full
  /\ data' = [data EXCEPT ![nwrite % PIPESIZE] = b]
  /\ nwrite' = (nwrite + 1) % UINT
  /\ rest' = [rest EXCEPT ![p] = @ - 1]
  /\ Move(p, "writeCheck")
  /\ UNCHANGED <<nread, readopen, writeopen, lock, holders, freed, killed>>

\* Mutant: no wakeup() at the end of the call.
WriteDoneSilent(p) ==
  /\ \/ pc[p] = "writeCheck" /\ rest[p] = 0
     \/ pc[p] = "writeBody" /\ ~Full
  /\ Release /\ Move(p, "user")
  /\ rest' = [rest EXCEPT ![p] = 0]
  /\ UNCHANGED <<pipeVars, holders, freed, killed>>
\* All is written, or copyin() failed: wake the readers and return.
WriteDone(p) ==
  /\ \/ pc[p] = "writeCheck" /\ rest[p] = 0
     \/ pc[p] = "writeBody" /\ ~Full
  /\ Release /\ MoveAndWake(p, "user", "sleepRead")
  /\ rest' = [rest EXCEPT ![p] = 0]
  /\ UNCHANGED <<pipeVars, holders, freed, killed>>

-----------------------------------------------------------------------------
(* piperead() *)

\* Nothing to read: a killed reader returns -1.
ReadFail(p) ==
  /\ pc[p] = "readCheck" /\ Empty /\ writeopen = 1 /\ killed[p]
  /\ Release /\ Move(p, "user")
  /\ rest' = [rest EXCEPT ![p] = 0]
  /\ UNCHANGED <<pipeVars, holders, freed, killed>>

ReadWait(p) ==
  /\ pc[p] = "readCheck" /\ Empty /\ writeopen = 1 /\ ~killed[p]
  /\ Move(p, "readBody")
  /\ UNCHANGED <<pipeVars, lock, holders, freed, rest, killed>>

\* sleep(&pi->nread, &pi->lock)
ReadSleep(p) ==
  /\ pc[p] = "readBody"
  /\ Release /\ Move(p, "sleepRead")
  /\ UNCHANGED <<pipeVars, holders, freed, rest, killed>>

\* Mutant: the writers are woken only by the reader that empties the pipe.
ReadDoneOnce(p, n) ==
  /\ pc[p] = "readCheck" /\ (~Empty \/ writeopen = 0)
  /\ n <= Count /\ n <= rest[p] /\ (n = 0 => Empty \/ rest[p] = 0)
  /\ nread' = (nread + n) % UINT
  /\ Release /\ MoveAndWake(p, "user", IF n = Count THEN "sleepWrite" ELSE "sleepRead")
  /\ rest' = [rest EXCEPT ![p] = 0]
  /\ UNCHANGED <<data, nwrite, readopen, writeopen, holders, freed, killed>>
\* Copy n bytes out: as many as asked for or as there are, or fewer when
\* copyout() fails, which still consumes the byte it failed on.  No bytes and
\* no writers is the end of the file.
ReadDone(p, n) ==
  /\ pc[p] = "readCheck" /\ (~Empty \/ writeopen = 0)
  /\ n <= Count /\ n <= rest[p] /\ (n = 0 => Empty \/ rest[p] = 0)
  /\ nread' = (nread + n) % UINT
  /\ Release /\ MoveAndWake(p, "user", "sleepWrite")
  /\ rest' = [rest EXCEPT ![p] = 0]
  /\ UNCHANGED <<data, nwrite, readopen, writeopen, holders, freed, killed>>

-----------------------------------------------------------------------------
(* close(), kill() *)

\* fileclose() of p's descriptor, or of all of p's descriptors in exit().  It
\* calls pipeclose() only for the last reference to an end.
Close(p) ==
  LET side == IF p \in Writers THEN Writers ELSE Readers
      last == holders \cap side = {p}
  IN /\ pc[p] = "user" /\ p \in holders
     /\ holders' = holders \ {p}
     /\ IF last THEN Move(p, "closing") ELSE Move(p, "user")
     /\ UNCHANGED <<pipeVars, lock, freed, rest, killed>>

\* Mutant: the page is freed when either end is closed.
PipeCloseOr(p) ==
  LET writable == p \in Writers
  IN /\ pc[p] = "closing" /\ lock = NoProc
     /\ writeopen' = IF writable THEN 0 ELSE writeopen
     /\ readopen' = IF writable THEN readopen ELSE 0
     /\ MoveAndWake(p, IF readopen' = 0 \/ writeopen' = 0 THEN "kfree" ELSE "user",
                       IF writable THEN "sleepRead" ELSE "sleepWrite")
     /\ UNCHANGED <<data, nread, nwrite, lock, holders, freed, rest, killed>>
\* Mutant: each end wakes its own channel.
PipeCloseOwnEnd(p) ==
  LET writable == p \in Writers
  IN /\ pc[p] = "closing" /\ lock = NoProc
     /\ writeopen' = IF writable THEN 0 ELSE writeopen
     /\ readopen' = IF writable THEN readopen ELSE 0
     /\ MoveAndWake(p, IF readopen' = 0 /\ writeopen' = 0 THEN "kfree" ELSE "user",
                       IF writable THEN "sleepWrite" ELSE "sleepRead")
     /\ UNCHANGED <<data, nread, nwrite, lock, holders, freed, rest, killed>>
\* pipeclose() under pi->lock: close this end and wake those at the other.
PipeClose(p) ==
  LET writable == p \in Writers
  IN /\ pc[p] = "closing" /\ lock = NoProc
     /\ writeopen' = IF writable THEN 0 ELSE writeopen
     /\ readopen' = IF writable THEN readopen ELSE 0
     /\ MoveAndWake(p, IF readopen' = 0 /\ writeopen' = 0 THEN "kfree" ELSE "user",
                       IF writable THEN "sleepRead" ELSE "sleepWrite")
     /\ UNCHANGED <<data, nread, nwrite, lock, holders, freed, rest, killed>>

\* kfree() of the pipe, after the lock's release.
Free(p) ==
  /\ pc[p] = "kfree"
  /\ freed' = freed + 1
  /\ Move(p, "user")
  /\ UNCHANGED <<pipeVars, lock, holders, rest, killed>>

\* kill(): a sleeping victim becomes runnable.
Kill(p) ==
  /\ p \in Killable /\ ~killed[p]
  /\ killed' = [killed EXCEPT ![p] = TRUE]
  /\ Move(p, IF pc[p] \in {"sleepRead", "sleepWrite"} THEN "relock" ELSE pc[p])
  /\ UNCHANGED <<pipeVars, lock, holders, freed, rest>>

-----------------------------------------------------------------------------
\* The steps of a call under way; all but Acquire and PipeClose need no lock
\* that another process holds.
CallStep(p) ==
  \/ Acquire(p)
  \/ p \in Writers /\ (WriteFail(p) \/ WriteGoOn(p) \/ WriteSleep(p) \/ WriteDone(p)
                       \/ \E b \in Bytes : WriteByte(p, b))
  \/ p \in Readers /\ (ReadFail(p) \/ ReadWait(p) \/ ReadSleep(p)
                       \/ \E n \in 0..MaxIO : ReadDone(p, n))
  \/ PipeClose(p) \/ Free(p)

Next == \E p \in Users : \/ \E n \in 0..MaxIO : Call(p, n)
                         \/ CallStep(p) \/ Close(p) \/ Kill(p)

Spec == Init /\ [][Next]_vars

-----------------------------------------------------------------------------
(* Properties *)

TypeOK ==
  /\ data \in [0..(PIPESIZE - 1) -> Bytes]
  /\ nread \in 0..(UINT - 1) /\ nwrite \in 0..(UINT - 1)
  /\ readopen \in {0, 1} /\ writeopen \in {0, 1}
  /\ lock \in Users \cup {NoProc}
  /\ holders \subseteq Users
  /\ freed \in Nat
  /\ pc \in [Users -> {"user", "relock", "writeCheck", "writeBody", "sleepWrite",
                       "readCheck", "readBody", "sleepRead", "closing", "kfree"}]
  /\ rest \in [Users -> 0..MaxIO]
  /\ killed \in [Users -> BOOLEAN]

\* The pipe is a FIFO queue of at most PIPESIZE bytes, also when the counters
\* wrap around: no byte is overwritten, repeated or taken out of order.
Queue == INSTANCE Fifo WITH
  Capacity <- PIPESIZE,
  queue <- [i \in 1..Count |-> data[(nread + i - 1) % PIPESIZE]]
ImplementsFifo == Queue!Spec

\* No reader sleeps over bytes it could read, or after the last writer left.
NoReaderMissed ==
  lock = NoProc => \A r \in Readers : pc[r] = "sleepRead" => Empty /\ writeopen = 1

\* No writer sleeps while there is room, or after the last reader left.
NoWriterMissed ==
  lock = NoProc => \A w \in Writers : pc[w] = "sleepWrite" => Full /\ readopen = 1

\* The page is freed once, when neither end is open and no call is inside.
FreedLast ==
  /\ freed <= 1
  /\ freed = 1 => readopen = 0 /\ writeopen = 0 /\ \A p \in Users : pc[p] = "user"

\* Fairness: a call under way goes on, and acquire() in the end gets the lock.
\* User programs promise nothing: they may never read, write or close.
Fairness == \A p \in Users : SF_vars(CallStep(p))
FairSpec == Spec /\ Fairness

\* Closing one end sends home every process that waits at the other.
CloseWakes ==
  \A p \in Users :
    (pc[p] # "user" /\ (IF p \in Writers THEN readopen ELSE writeopen) = 0) ~> pc[p] = "user"
=============================================================================
