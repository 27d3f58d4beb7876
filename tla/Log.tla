-------------------------------- MODULE Log ---------------------------------
(***************************************************************************)
(* The write-ahead log of xv6's file system (kernel/log.c): begin_op(),    *)
(* log_write(), end_op() with its group commit, and the recovery that      *)
(* initlog() runs after a crash, together with what the log relies on in   *)
(* the buffer cache (a pinned buffer stays cached, any other may be        *)
(* dropped and read from the disk again).                                  *)
(*                                                                         *)
(* log.lock makes begin_op(), log_write() and each half of end_op() one    *)
(* step.  A commit and a recovery are one step per block written to the    *)
(* disk, and the machine may crash between any two steps.                  *)
(***************************************************************************)
EXTENDS Naturals, Sequences, FiniteSets

CONSTANTS
  Ops,           \* the processes that make file system calls
  Blocks,        \* the home blocks
  Vals, Blank,   \* block contents; what mkfs wrote
  MAXOPBLOCKS,   \* param.h: blocks that begin_op() reserves per operation
  LOGSIZE,       \* param.h: capacity of the header's block array
  NLOG,          \* superblock nlog: header and data blocks of the log
  OpBlocks       \* how many distinct blocks an operation really writes

ASSUME SizeAssumption ==
  /\ MAXOPBLOCKS \in Nat \ {0} /\ LOGSIZE \in Nat \ {0} /\ NLOG \in Nat \ {0}
  /\ OpBlocks \in Nat
ASSUME BlankAssumption == Blank \in Vals

VARIABLES
  home,          \* disk: the home blocks
  head,          \* disk: the block numbers of the log header
  logdata,       \* disk: the log's data blocks
  mem,           \* what bread() returns: the buffer cache, or the disk
  pins,          \* buffer references held by the log (bpin)
  lh,            \* log.lh: the block numbers of the transaction in memory
  outstanding, committing,   \* log.outstanding, log.committing
  pc,            \* where each operation is
  wrote,         \* the distinct blocks each active operation has written
  phase, tail    \* progress of commit() or of recover_from_log()

diskVars == <<home, head, logdata>>
memVars == <<mem, pins, lh, outstanding, committing>>
opVars == <<pc, wrote>>
vars == <<diskVars, memVars, opVars, phase, tail>>

Slots == 1..(NLOG - 1)
Elems(s) == {s[i] : i \in 1..Len(s)}
CommitPhases == {"writeLog", "writeHead", "install", "clear", "done"}
RecoveryPhases == {"readHead", "reinstall", "reclear"}

Init ==
  /\ home = [b \in Blocks |-> Blank]
  /\ head = <<>>
  /\ logdata = [i \in Slots |-> Blank]
  /\ mem = home
  /\ pins = [b \in Blocks |-> 0]
  /\ lh = <<>>
  /\ outstanding = 0
  /\ committing = FALSE
  /\ pc = [o \in Ops |-> "idle"]
  /\ wrote = [o \in Ops |-> {}]
  /\ phase = "readHead"
  /\ tail = 1

-----------------------------------------------------------------------------
(* begin_op(), log_write(), end_op() *)

\* No system call starts before initlog() returns.
Call(o) == /\ pc[o] = "idle" /\ phase \notin RecoveryPhases
           /\ pc' = [pc EXCEPT ![o] = "begin"]
           /\ UNCHANGED <<diskVars, memVars, wrote, phase, tail>>

\* Mutant: begin_op() forgets the operation it is about to admit.
MustWaitLate == committing \/ Len(lh) + outstanding * MAXOPBLOCKS > LOGSIZE
\* Mutant: begin_op() looks only at the space.
MustWaitSpace == Len(lh) + (outstanding + 1) * MAXOPBLOCKS > LOGSIZE
\* begin_op() waits for a commit, or for space.
MustWait == committing \/ Len(lh) + (outstanding + 1) * MAXOPBLOCKS > LOGSIZE

Admit(o) == /\ pc[o] = "begin" /\ ~MustWait
            /\ outstanding' = outstanding + 1
            /\ pc' = [pc EXCEPT ![o] = "active"]
            /\ UNCHANGED <<diskVars, mem, pins, lh, committing, wrote, phase, tail>>

Wait(o) == /\ pc[o] = "begin" /\ MustWait
           /\ pc' = [pc EXCEPT ![o] = "asleep"]
           /\ UNCHANGED <<diskVars, memVars, wrote, phase, tail>>

\* kill() wakes a sleeper, which looks at MustWait again.
Kill(o) == /\ pc[o] = "asleep"
           /\ pc' = [pc EXCEPT ![o] = "begin"]
           /\ UNCHANGED <<diskVars, memVars, wrote, phase, tail>>

\* Mutant: no wakeup(&log).
WakeNobody(now) == now
\* wakeup(&log) on top of the operation's own change of state.
Wake(now) == [o \in Ops |-> IF now[o] = "asleep" THEN "begin" ELSE now[o]]

\* Mutants of bpin() and bunpin(): the reference count stays.
NotPinned(b) == pins
NotUnpinned(b) == pins
\* bpin() and bunpin(): the log's references to the buffer of block b.
bpin(b) == [pins EXCEPT ![b] = @ + 1]
bunpin(b) == [pins EXCEPT ![b] = @ - 1]

\* log_write() tests this before it looks for absorption.
LogFull == Len(lh) >= LOGSIZE \/ Len(lh) >= NLOG - 1

\* An operation changes a locked buffer and calls log_write(): absorbed when
\* the block is in the transaction already, else pinned and appended.  In a
\* full log it panics ("too big a transaction").
LogWrite(o, b, v) ==
  /\ pc[o] = "active"
  /\ b \in wrote[o] \/ Cardinality(wrote[o]) < OpBlocks
  /\ mem' = [mem EXCEPT ![b] = v]
  /\ wrote' = [wrote EXCEPT ![o] = @ \cup {b}]
  /\ pc' = [pc EXCEPT ![o] = IF LogFull THEN "panic" ELSE @]
  /\ IF LogFull \/ b \in Elems(lh) THEN UNCHANGED <<lh, pins>>
     ELSE /\ lh' = Append(lh, b)
          /\ pins' = bpin(b)
  /\ UNCHANGED <<diskVars, outstanding, committing, phase, tail>>

\* end_op(), first half: not the last operation.
EndOp(o) ==
  /\ pc[o] = "active" /\ outstanding > 1
  /\ outstanding' = outstanding - 1
  /\ pc' = Wake([pc EXCEPT ![o] = "idle"])
  /\ wrote' = [wrote EXCEPT ![o] = {}]
  /\ UNCHANGED <<diskVars, mem, pins, lh, committing, phase, tail>>

\* end_op(), first half: the last operation commits.
EndLastOp(o) ==
  /\ pc[o] = "active" /\ outstanding = 1
  /\ outstanding' = 0
  /\ committing' = TRUE
  /\ pc' = [pc EXCEPT ![o] = "commit"]
  /\ wrote' = [wrote EXCEPT ![o] = {}]
  /\ phase' = IF lh = <<>> THEN "done" ELSE "writeLog"
  /\ tail' = 1
  /\ UNCHANGED <<diskVars, mem, pins, lh>>

\* end_op(), second half: the commit is over.
EndCommit ==
  /\ phase = "done"
  /\ committing' = FALSE
  /\ pc' = Wake([o \in Ops |-> IF pc[o] = "commit" THEN "idle" ELSE pc[o]])
  /\ phase' = "none"
  /\ UNCHANGED <<diskVars, mem, pins, lh, outstanding, wrote, tail>>

-----------------------------------------------------------------------------
(* commit(): one step per disk write *)

\* The loops over the transaction: the next tail, or the next phase.
Loop(next) == IF tail < Len(lh) THEN tail' = tail + 1 /\ phase' = phase
              ELSE tail' = 1 /\ phase' = next

WriteLog ==
  /\ phase = "writeLog"
  /\ logdata' = [logdata EXCEPT ![tail] = mem[lh[tail]]]
  /\ Loop("writeHead")
  /\ UNCHANGED <<home, head, memVars, opVars>>

\* Mutant: the transaction is erased before it is installed.
WriteHeadNoInstall ==
  /\ phase = "writeHead"
  /\ head' = lh
  /\ phase' = "clear"
  /\ UNCHANGED <<home, logdata, memVars, opVars, tail>>
\* write_head(): the true point at which the transaction commits.
WriteHead ==
  /\ phase = "writeHead"
  /\ head' = lh
  /\ phase' = "install"
  /\ UNCHANGED <<home, logdata, memVars, opVars, tail>>

\* install_trans(0): copy the log block to the home block's buffer, write it,
\* and let go of the pin.
Install ==
  /\ phase = "install"
  /\ mem' = [mem EXCEPT ![lh[tail]] = logdata[tail]]
  /\ home' = [home EXCEPT ![lh[tail]] = logdata[tail]]
  /\ pins' = bunpin(lh[tail])
  /\ Loop("clear")
  /\ UNCHANGED <<head, logdata, lh, outstanding, committing, opVars>>

Clear ==
  /\ phase = "clear"
  /\ lh' = <<>>
  /\ head' = <<>>
  /\ phase' = "done"
  /\ UNCHANGED <<home, logdata, mem, pins, outstanding, committing, opVars, tail>>

-----------------------------------------------------------------------------
(* The buffer cache, crashes and recovery *)

\* bget() recycles an unpinned, unused buffer: the next read is of the disk.
\* A commit holds the buffers it works on one after the other.
Evict(b) ==
  /\ pins[b] = 0
  /\ mem' = [mem EXCEPT ![b] = home[b]]
  /\ UNCHANGED <<diskVars, pins, lh, outstanding, committing, opVars, phase, tail>>

\* The machine stops and starts again: only the disk survives.
Crash ==
  /\ mem' = home
  /\ pins' = [b \in Blocks |-> 0]
  /\ lh' = <<>>
  /\ outstanding' = 0
  /\ committing' = FALSE
  /\ pc' = [o \in Ops |-> "idle"]
  /\ wrote' = [o \in Ops |-> {}]
  /\ phase' = "readHead"
  /\ tail' = 1
  /\ UNCHANGED diskVars

ReadHead ==
  /\ phase = "readHead"
  /\ lh' = head
  /\ phase' = IF head = <<>> THEN "reclear" ELSE "reinstall"
  /\ UNCHANGED <<diskVars, mem, pins, outstanding, committing, opVars, tail>>

\* install_trans(1): nothing was pinned.
Reinstall ==
  /\ phase = "reinstall"
  /\ mem' = [mem EXCEPT ![lh[tail]] = logdata[tail]]
  /\ home' = [home EXCEPT ![lh[tail]] = logdata[tail]]
  /\ Loop("reclear")
  /\ UNCHANGED <<head, logdata, pins, lh, outstanding, committing, opVars>>

Reclear ==
  /\ phase = "reclear"
  /\ lh' = <<>>
  /\ head' = <<>>
  /\ phase' = "none"
  /\ UNCHANGED <<home, logdata, mem, pins, outstanding, committing, opVars, tail>>

-----------------------------------------------------------------------------
Next == \/ \E o \in Ops : \/ Call(o) \/ Admit(o) \/ Wait(o) \/ Kill(o)
                          \/ EndOp(o) \/ EndLastOp(o)
                          \/ \E b \in Blocks, v \in Vals : LogWrite(o, b, v)
        \/ WriteLog \/ WriteHead \/ Install \/ Clear \/ EndCommit
        \/ Crash \/ ReadHead \/ Reinstall \/ Reclear
        \/ \E b \in Blocks : Evict(b)

Spec == Init /\ [][Next]_vars

-----------------------------------------------------------------------------
(* Properties *)

TypeOK ==
  /\ home \in [Blocks -> Vals] /\ mem \in [Blocks -> Vals]
  /\ logdata \in [Slots -> Vals]
  /\ head \in Seq(Blocks) /\ lh \in Seq(Blocks)
  /\ pins \in [Blocks -> Nat]
  /\ outstanding \in Nat /\ committing \in BOOLEAN
  /\ pc \in [Ops -> {"idle", "begin", "asleep", "active", "commit", "panic"}]
  /\ wrote \in [Ops -> SUBSET Blocks]
  /\ phase \in CommitPhases \cup RecoveryPhases \cup {"none"}
  /\ tail \in Nat \ {0}

\* What a crash now would recover to: the home blocks, overlaid with the log
\* if its header names any blocks.
Recovered ==
  [b \in Blocks |-> IF b \in Elems(head)
                    THEN logdata[CHOOSE i \in 1..Len(head) : head[i] = b] ELSE home[b]]

\* The log implements the atomic disk: a crash between any two disk writes
\* leaves each group of operations done completely or not at all.
Atomic == INSTANCE AtomicDisk WITH
  durable <- Recovered,
  current <- IF phase \in RecoveryPhases THEN Recovered ELSE mem,
  active <- {o \in Ops : pc[o] \in {"active", "panic"}}
ImplementsAtomicDisk == Atomic!Spec

\* A buffer that differs from its home block is pinned in the cache: dropping
\* any other loses nothing, and a later read cannot see an old block.
DirtyPinned == \A b \in Blocks : mem[b] # home[b] => pins[b] > 0

\* Pins are not leaked: outside a commit the log pins exactly the blocks of
\* its transaction, each once, so that buffers return to the cache.
PinsMatch ==
  phase = "none" => \A b \in Blocks : pins[b] = IF b \in Elems(lh) THEN 1 ELSE 0

\* When no operation is under way, all that was ever ended is on its home
\* blocks.
QuiescentDurable ==
  phase = "none" /\ outstanding = 0 => home = mem /\ head = <<>>

\* An operation that keeps within its reservation never finds the log full
\* (panic "too big a transaction").
NoPanic == \A o \in Ops : pc[o] # "panic"

\* No sleeper of begin_op() is forgotten: an operation or a commit is under
\* way whose end_op() will call wakeup(&log).
SleeperHasWaker ==
  \A o \in Ops : pc[o] = "asleep" => \E u \in Ops : pc[u] \in {"active", "commit", "panic"}
=============================================================================
