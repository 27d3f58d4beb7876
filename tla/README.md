# A TLA+ model of the xv6 kernel in this repository

The repository holds three copies of xv6 for RISC-V, one per course lab:

| directory | lab | what it adds |
|---|---|---|
| `src/xv6-lab1` | util | user programs `primes`, `pingpong`, `find`, `xargs`, `sleep` |
| `src/xv6-lab2` | syscall | `trace`, `sysinfo`, a negative argument of `sleep` clamped |
| `src/lab3` | pgtbl | a read-only page shared with the kernel (`USYSCALL`), `vmprint` |

The kernels differ in a few lines of `proc.c`, `syscall.c`, `sysproc.c`,
`kalloc.c` and `memlayout.h`; `log.c`, `pipe.c`, `bio.c`, `sleeplock.c` and
`virtio_disk.c` are the same in all three. The model is of `src/lab3/kernel`, and
"the code" below means that copy. What is modelled of `proc.c` is the same in all
three as well (the others differ in the shared page and the trace mask).

## 1. Inventory

The kernel is a set of threads: one scheduler per hart, one kernel thread per
process, and interrupt handlers. They share memory, under spinlocks (which also
turn interrupts off) and sleeplocks (held across waiting), and wait for each
other with `sleep(chan, lock)` and `wakeup(chan)`.

| component | state | operations | interacts with | what makes it correct |
|---|---|---|---|---|
| process table, scheduler (`proc.c`) | `proc[NPROC]`, `cpus[]`, `wait_lock` | `fork exit wait sleep wakeup kill yield sched scheduler` | everything that sleeps | one hart per kernel stack; no lost wakeup; a child has one parent, dies once and is collected once |
| spinlocks (`spinlock.c`) | holder, `noff`, `intena` | `acquire release push_off pop_off` | timer interrupt | no switch with a lock held, except `p->lock` |
| traps (`trap.c`) | `ticks` | `usertrap kerneltrap clockintr` | `yield`, `killed`, device handlers | a killed process exits at the boundary; no yield inside a critical section |
| log (`log.c`) | header and blocks on disk, `log.lh`, `outstanding`, `committing` | `begin_op log_write end_op commit recover_from_log` | buffer cache, all file system calls | a group of operations reaches the disk all or not at all |
| buffer cache (`bio.c`) with sleeplocks (`sleeplock.c`) | `bcache.buf`, LRU list, `refcnt`, `valid` | `bread bwrite brelse bpin bunpin`, `acquiresleep releasesleep` | log, driver | one buffer per block; cache and disk are one memory; exact reference counts |
| disk driver (`virtio_disk.c`) | descriptors, rings, `used_idx`, `info[]` | `virtio_disk_rw virtio_disk_intr` | device, buffer cache, interrupt | each request served once, before its call returns; no descriptor lost |
| pipes (`pipe.c`) | ring buffer, `nread`, `nwrite`, two open flags | `pipewrite piperead pipeclose` | open files, `kill` | bounded FIFO; nobody sleeps over work; page freed once |
| inodes, block map (`fs.c`) | `itable`, inodes and bitmap on disk | `iget ilock iput ialloc itrunc balloc bfree readi writei` | log, buffer cache | an inode is freed only without links and references; a block has one owner |
| directories (`fs.c`, `sysfile.c`) | directory entries, `nlink` | `namex dirlink dirlookup create link unlink` | inodes | `nlink` counts the entries; no deadlock between inode locks |
| open files (`file.c`) | `ftable`, `ofile[NOFILE]` | `filealloc filedup fileclose fileread filewrite` | pipes, inodes | the last close, and only it, closes |
| memory (`kalloc.c`, `vm.c`) | free list, page tables | `kalloc kfree uvmalloc uvmcopy uvmunmap` | `fork`, `exec`, `sbrk` | each page has one owner; failure paths return what they took |
| `exec.c` | - | `exec` | log, inodes, memory | all or nothing for the caller |
| console, UART (`console.c`, `uart.c`) | `cons` indices, transmit buffer | `consoleread consoleintr uartputc uartstart` | interrupt handlers | indices ordered `r <= w <= e`; writers woken |
| boot, PLIC, dispatch | device registers, tables | `main plicinit syscall` | - | runs once or is a table |
| user programs, `mkfs`, tests | - | shell, utilities, `primes` | system calls | `primes` prints the primes and ends |

Hard behaviours, each listed in `PROJECT.json` under `hazards` at its line:
interleavings of harts (`p->lock`, `wait_lock`, half-done `swtch()`), lost
wakeups, kills of sleepers, crashes between disk writes, completions out of
order, interrupts that race with the handler, counters that wrap around,
resources at their limit (log space, descriptors, buffers, pipe room), and
failures in the middle of an operation. There is no message loss: the only
asynchronous partner is the disk.

## 2. Modules

| module | models | abstract specification | model checking | proofs |
|---|---|---|---|---|
| `Proc` | `proc.c`, what `trap.c` adds | `ProcTree` | `MCProc` + 3 cfg | `ProcConsoleProofs` |
| `Log` | `log.c` and its use of `bio.c` | `AtomicDisk` | `MCLog` + 2 cfg | `LogProofs` |
| `Bcache` | `bio.c`, `sleeplock.c` | `BlockMemory` | `MCBcache` | `BcacheProofs` |
| `VirtioDisk` | `virtio_disk.c` and the device | `BlockDevice` | `MCVirtioDisk` + 2 cfg | `DiskProofs` |
| `Pipe` | `pipe.c`, `fileclose()` of an end | `Fifo` | `MCPipe` + 2 cfg | `PipeMemoryProofs` |
| `Files` | `fs.c`, `file.c`, `sysfile.c` | - | `MCFiles`, `MCKernel` + 2 cfg | `FilesProofs`, `LinksProofs` |
| `Memory` | `kalloc.c`, `vm.c`, the pages of `fork exec sbrk exit wait` | - | `MCKernel` | `PipeMemoryProofs` |
| `Console` | `console.c`, `uart.c` | `Tty` | `MCKernel` | `ProcConsoleProofs` |

`ModArith` holds lemmas on remainders for the counters that wrap around.
`MCKernel` puts `Files`, `Memory` and `Console` in one run: the first state chooses one of the
three and only that one moves. They share no state, so the run is their sum and not
their product, and says of each what a run of its own would.

The three storage modules are stacked as the code is. `VirtioDisk` implements a
device on which a transfer is one step between call and return, which is what
`Bcache` assumes (`ReadDone`, `WriteDone`). `Bcache` implements one memory with a
lock per block in which pinned blocks stay, which is what `Log` assumes (`mem`,
`pins`, `Evict`). `Log` implements an atomic disk. The layers meet in these
assumptions; they are not composed into one state space. `Files` sits on top of all
three and takes them at their promise.

### Granularity

A critical section of a spinlock that takes no other lock is one step, whose
guard is that the lock is free: interrupts are off inside, and nothing else
may read or write what the lock protects. Where something that does not take the
lock may act meanwhile (the device, `kill()`, a second lock) the section is cut
there and the lock is a variable that names its holder. Wherever a process may be
preempted, sleep or wait for a device there is a program point in `pc`.

`kill()` appears in every module: it makes a sleeper look again at what it
waits for. Killed processes in `Log`, `Bcache` and `VirtioDisk` sleep again,
as the code's loops do.

### Proc

`pc[c]` is the point reached by the thread that runs on hart `c`; `context[p]` is
where `swtch()` left `p`. `Sched`, `Back` and `Dispatch` are the three parts of a
switch, so that a process can be `RUNNABLE`, `SLEEPING` or `ZOMBIE` while a hart is
still on its stack. The scans of `wakeup()` and `wait()` take one slot per step, as
they take one lock per slot. `fork()` is `ForkAlloc`, `ForkParent`, `ForkRun`, with
preemption in between; `ForkFail` stands for each of its early exits. The only
channel here is that of `wait()`, other sleepers are in the other modules. `victims` is
a history variable. `Signals` says what may mark a process killed, so that the
runs can tell `kill(pid)`, `kill(0)` and faults apart.

Left out: `growproc()`, the trace mask, the scheduler's position in the table (any
runnable process may be next), `kill()` of init and a fault in init (`exit()` panics
"init exiting").

### Log

`home`, `head` and `logdata` are on the disk; `mem` is what `bread()` returns. A
commit writes one block per step and `Crash` may come between any two. `Evict`
drops an unpinned buffer. `OpBlocks` is the number of blocks an operation really
writes, at most what it reserves. Writing one block is atomic: the header is one
block, and the code depends on that too.

### Bcache

One record per `struct buf` and the list as a sequence. A *user* is one use of a
buffer, from `bread()` to `brelse()`. `Change` is a modification followed by
`log_write()`; `WriteStart`/`WriteDone` the installation of a logged block with its
`bunpin()`; `WriteThrough` the blocks of the log itself and recovery. `NoBuffers` is the
panic of `bget()`, which leaves `bcache.lock` held.

### VirtioDisk

`Submit` and `Publish` are the two halves of `virtio_disk_rw()` around the increment
of `avail->idx`, because the device looks at the rings without the lock. `Take` and
`Complete` are the device (not in `src`, modelled from what the driver expects
of it): it completes in any order and raises its interrupt, also while the handler
works. The address of a request header is represented by the header. The
buffer belongs to the process between the call and the return. A device that
reports an error is left out (the driver panics).

### Pipe

`pi->lock` is a variable, since `kill()` may fall between a look at `p->killed` and
`sleep()`. Descriptors are only given up (`Close`): a `dup()` or `fork()` that adds
one is a larger set of processes from the start.

### Files

What happens under one inode lock is one step, guarded by the lock being free.
Where the code takes a second lock, or goes to the bitmap or the inode table twice,
the lock is held in `ilk` from one step to the next. So `namex()` is a step per path
element, `create()`, `link()`, `unlink()` and `iput()` are several steps with the
states in between: `Iput`, `IputTrunc`, `IputFree`, `IputInvalid` and `IputDrop` are the last
use of an inode, `Ialloc` and `IallocIget` the two lookups of `ialloc()`. `th[p]` holds the
program point and the local variables `ip`, `dp` and `name`. A name that `link()` finds taken is looked up and
let go of with the directory locked (`LinkExists`, `LinkDrop`), as `dirlink()` does it; `create()` has looked before, and
its `dirlink()` finds nothing.

The disk (`dinode`, `bitmap`, `ents`) is what the log and the cache promise: one memory, of
which a crash keeps what it held when last no operation was open. `Crash` is therefore
taken in `Quiet` states only, and stands for a crash in any state that follows. A
directory is a function from names to inode numbers with the number of its slots,
so that it may need a block. Files have at most one block. `Programs` lists the calls that each process
may make, in any order and number.

Left out: the indirect block, offsets and `read()`, which change nothing that is modelled,
`sys_pipe()`, and the splitting of a large write.

### Memory

Pages are interchangeable and counted: `free` is how many `kalloc()` can still give. A
page table is the set of tables below its root and the set of pages mapped; it has
three levels of `PTE` entries as Sv39 has, so that a mapping may cost tables too. Sizes are
in half pages, since `sbrk()` takes sizes that are not aligned. One allocation is one
step and may fail at any of them, because the others allocate in between; each failure
path is an action of its own (`ForkFail`, `ExecBad`, `ExecFail`, `SbrkFail`, `GrowJobFails`). Of the
arguments that `sys_exec()` copies in, a page for each, there is one.
`mpanic` stands for the panics of `uvmunmap()` and `freewalk()`.

Left out: the kernel page table, contents, permissions, `copyin()` and `copyout()`.

### Console

The handler of the UART interrupt takes `cons.lock`, edits, echoes byte by byte and then
drains the transmit buffer; readers and writers sleep in between. The indices of both
rings are taken modulo `Wrap` and `TxWrap`, as unsigned integers are modulo 2^32 and 2^64.
`uartputc_sync()` takes no lock of the transmit buffer. Both it and `uartstart()` first look whether the
UART is idle and then write to it, and these are steps of their own (`EchoLook` and `EchoByte`, `StartByte` and
`SendByte`), so that either may write between the other's look and write. `thr` is the number of bytes that the UART
has then; its FIFO is on (`uart.c:71`) and takes both. The user (`KeyTyped`) and the device (`Sent`) are the environment. `printf()` is
left out.

## 3. Runs

| run | constants | what it shows |
|---|---|---|
| `proc_safety` | 3 slots, 2 harts, kills and faults | types, `OneCpuPerProc`, `StackOwned`, `SchedChecks`, `NoMissedChild`, `KilledMeansKilled`, `ImplementsTree` |
| `proc_live` | 3 slots, 1 hart | `WaitReturns` |
| `proc_kill_zero` | 2 slots, 1 hart, `kill(0)` | violation: `kill(0)` marks an unused slot and the next process there dies |
| `log` | 2 operations, 5 blocks, 2 values, crashes | `ImplementsAtomicDisk`, `DirtyPinned`, `PinsMatch`, `QuiescentDurable`, `NoPanic`, `SleeperHasWaker` |
| `log_full` | 3 operations, sizes in the proportions of `param.h` and `mkfs.c` | violation: operations within their reservation reach "too big a transaction" |
| `bcache` | 3 users, 4 blocks, 3 buffers | `OneBufPerBlock`, `RefsMatch`, `SleeperHasOwner`, `ImplementsBlockMemory` |
| `disk` | 3 processes and blocks, 7 descriptors, rings of 2, counters modulo 4 | `DescsOwned`, `UsedNamesWaiter`, `DescSleeperHasWaker`, `ImplementsBlockDevice` |
| `disk_live` | 2 processes | `RequestReturns` |
| `pipe` | 2 writers, 1 reader that may be killed, 2 bytes of room, counters modulo 4 | `ImplementsFifo`, `NoReaderMissed`, `NoWriterMissed`, `FreedLast`, `CloseWakes` |
| `pipe_kill` | 1 writer that may be killed, 1 reader | violation: bytes in the pipe and a reader asleep |
| `kernel` | files: 2 processes, 3 inodes, 3 blocks, 2 files, 2 descriptors, 4 sets of programs, crashes | `FilesNoPanic`, `RefsExact`, `CacheCurrent`, `NoLockCycle`, `DiskConsistent`, `NamelessKept` |
| | memory: 3 slots, 20 pages, tables of 3 entries | `PagesOwned`, `ImageMapped` |
| | console: 1 reader, 1 writer, ring of 2, buffer of 1, indices modulo 4 and 2 | `ConsoleAwake`, `ImplementsTty` |
| `files_leak` | 2 processes, 2 inodes, 1 name | violation: an inode without a name or a reference stays allocated |

Why these bounds: three slots are init, a parent and a child, and so both the
adoption of a child by init and a grandchild. Two harts give every race for one
lock. Two operations with five blocks give absorption, a shared group and a crash
in each phase, also of recovery. Three buffers for four blocks force recycling
while three users hold, wait for and pin buffers. Seven descriptors are two chains
and one left over, so that `alloc3_desc()` fails half way; rings of two entries
and counters modulo four are shorter than the real ones (8 and 2^16), and are
the shortest that hold two requests. In the pipe a write of three bytes
does not fit, and the counters wrap around several times.

In `kernel` three inodes are the root, a directory and a file in it, which is enough for
`..`, for an inode that is freed and used again at once, and for one table entry
short of the need; three blocks and three entries in each make a disk that fills up and
a directory that has to grow. The four sets of programs are two processes on the same
files, two on the same directories, all calls that fail, and a full disk. Twenty pages are
fewer than three processes need, so that every allocation of `fork()`, `exec()` and `sbrk()` fails in
some behaviour, and one process alone can always run. The rings of the console are the
shortest on which full and empty differ, with indices that wrap around at
once; the proofs below cover every size.

Symmetry is used in runs of safety properties only. `CHECK_DEADLOCK FALSE` is set
for the pipe alone: once all ends are closed nothing is left to do.

### Fairness

* `Proc`: strong fairness for `Dispatch`, `Yield` and the progress of a system call
  per process. Each scheduler walks the whole table for ever, so a slot that is
  runnable again and again is found; the timer ends each slice; an `acquire()` that
  spins on a lock which is free again and again gets it; a system call advances
  between two ticks. User code promises nothing: no process needs to exit or wait.
* `Pipe`: strong fairness of the steps of a call, for the same reasons; calls and
  closes are not fair.
* `VirtioDisk`: weak fairness of the device and of the handler once it has the
  lock; strong fairness where the lock may be taken by others. Nothing is assumed
  of the search for descriptors, and nothing is claimed of it: the code lets a
  process lose each race, so `RequestReturns` starts when a request is submitted.

Not claimed, because the code does not give it:

* that `wait()` collects a particular child: it returns the zombie in the lowest slot
  (`proc.c:423`);
* that a killed process exits promptly: a mark set after it has looked at `p->killed` and
  before it sleeps is seen at the next wakeup only (`proc.c:448`);
* that `begin_op()` is admitted: the log commits when no operation is open, and
  operations may overlap for ever (`log.c:155`);
* that a request gets its descriptors: two processes that each find some of the three
  may wake each other for ever (`virtio_disk.c:232`);
* that a sleeplock is fair;
* that a byte read from a pipe reaches the reader: `piperead()` has consumed it when
  `copyout()` fails (`pipe.c:124`); `consoleread()` has the same order (`console.c:105`);
* that init survives `kill(1)`: `exit()` panics, "init exiting" (`proc.c:607`).

## 4. Proofs

TLAPS proves these for every size of the constants; the model checker finds them
on the instances above.

**`ProcConsoleProofs`**, about `Proc`, assumes `TableAssumption` (a table of at least one slot) and
`CpuAssumption` (`NoCpu` is no hart). `OneCpuPerProc` is not inductive: that a hart
cannot dispatch a process that another is about to leave follows from `p->lock`, which is
passed through `swtch()` from one thread to another. The inductive invariant
`IInv` therefore ties the program point of a hart to the locks it holds:
`CurrentInv` (a current process unless scanning), `LockInv` (`p->lock` is held exactly
at the points around a switch, by the hart on `p`), `StateInv` (`RUNNING` until the
process has given up the CPU), `ForkInv` (a child under construction belongs to one
`fork()`) and `WaitLockInv`. Each action has a lemma; `PlainStep` serves all those that
change neither locks nor states. From it follow `TypeCorrect`, `StackIsPrivate`,
`StackIsOwned` and `SchedNeverPanics`.

Its second part builds on `IInv`. `NoMissedChild` speaks of states in which
`wait_lock` is free; `WInv` says what the holder of `wait_lock` knows at each of its
points: no zombie child among the slots `wait()` has passed (`ScanInv`), no parent asleep
among the slots `exit()` has woken (`ToldInv`), only init asleep over a zombie while it is
about to be told (`MissedInv`), and that each scan starts at the first slot (`IdxInv`).
`FInv` says what `fork()` leaves between its steps, with preemption in between (`ResumeInv`, `ChildInv`: the child of a
process at `forkParent` is without a parent, at `forkRun` with one), that a free slot has
no parent and that init is never killed or in `exit()`. From it `ProcessesFormATree`: giving the child its
parent, `reparent()` and the freeing of a zombie are the three steps of `ProcTree`, all other steps are none.
`OnlyVictimsKilled` shows that without `kill(0)` a mark in `p->killed` is never inherited: the run
`proc_kill_zero` shows that the assumption is needed.

**`BcacheProofs`** assumes at least one buffer and that `NoBlock` and `NoUser` are
neither block nor user. `BInv` adds to `OneBufPerBlock` the types, `OwnerInv` (the sleeplock
of a buffer is held by the one user at work on it), `SleepInv` (a sleeper's
lock is taken) and `BlockInv` (a buffer in use has been given a block). It needs nothing of
the reference counts, which only decide what may be recycled.

Its second part shows that cache and disk are one memory (`CacheIsMemory`) and that the
reference counts are exact (`RefsAreExact`). That a recycled buffer loses nothing depends on the
counts: `CountInv` says that `refcnt` is the number of users plus the pin, `PinnedInv` that a
block the log has taken is pinned, `CleanInv` that a valid buffer without a pin that nobody
is writing agrees with the disk, `HeldInv`, `ReadInv` and `UnreadInv` what a user knows of
its buffer before and after the read. `CacheTypes` adds that no count goes below zero and, by
`ListInv`, that the list holds every buffer exactly once, however often `brelse()` moves one
to the front.

**`LogProofs`** needs no assumption on the sizes for types, pins and durability. `CountInv`
(`outstanding` counts the open operations), `ControlInv` (who commits, and in which phase
nobody is inside), `HeaderInv` and `DataInv` (what the header names has been copied) and
`PinsInv` are true whatever happens. `CleanInv` (what differs from home is pinned) fails once the machine has
panicked, so it is stated under `NoPanic`, and `SpaceInv` gives `NoPanic` under

    WritesFit == OpBlocks < MAXOPBLOCKS /\ LOGSIZE + OpBlocks + 1 < NLOG + MAXOPBLOCKS

The argument counts: `Reserved` is the set of the blocks that open operations have
reserved and not used, and `begin_op()` keeps `Len(lh) + Cardinality(Reserved) <= LOGSIZE`. With
`LOGSIZE = NLOG = 30` and `MAXOPBLOCKS = 10` of this repository it holds for operations of up to 8
blocks; with 10 the panic is reachable (run `log_full`). The sizes of the run `log` lie just
outside `WritesFit` and TLC finds no panic there either. From the invariant follow `LogTypes`, `LogNeverFull`,
`DirtyIsPinned`, `PinsDoNotLeak`, `QuiescentIsDurable`, `SleepersAreWoken` (if one reservation fits into the
log at all) and `LogIsAtomic`: every step, crash and recovery maps to a step of `AtomicDisk`
or to none. `LogNeverFull`, `DirtyIsPinned` and `LogIsAtomic` assume `WritesFit`.

**`PipeMemoryProofs`**, pipes: any ring, with counters that wrap around at a multiple of its size. `LockInv` (who
holds `pi->lock`), `CallInv` and `SeenInv` (what a call knows after its test, up to the `sleep()`),
`EndInv` and `FreeInv` (flags and the page against the open descriptors), `WriterInv` and `ReaderInv`
(sleepers have reason to). `CountInv` bounds `nwrite - nread` modulo the wrap, which is what makes the
ring a queue: `PipeIsFifo`. `ReadersAreWoken` assumes that no writer is killed; the run
`pipe_kill` shows why. Also `PipeTypes`, `WritersAreWoken` and `PageIsFreedLast`.

**`PipeMemoryProofs`**, memory: any number of slots, pages and table entries, under `MemAssumption`: `PTE >= 3` (the
three high pages share their last table), `NPAGES >= 8` (`userinit()` gets the eight pages it asks for) and
`NPAGES < USYSCALL` (the pages run out before user addresses reach the high ones: 128 MB against
256 GB). `MInv` is `PagesOwned` with `SlotInv` (what a slot and a half-made table have at
each point of `fork()`, `exec()` and `sbrk()`: which pages are mapped below which size, which of the high ones) and
`KidInv` (a child under construction belongs to one `fork()`). Counting and mapping need each other: a failure path
gives back as many pages as the size says, which is what was taken if the table maps just these; and the next page is not
mapped yet because the pages mapped are no more than `NPAGES`. From it `PagesAccounted`, a sum over
all slots, and `ImagesMapped`.

**`DiskProofs`** takes any number of descriptors, requests and blocks. The assumptions are those of the code's sizes:
three descriptors at least, `3 * RING >= NUM - 2` (the rings have room for all requests that fit into the descriptors; in the
code `RING = NUM`), counters that wrap at a multiple of the ring and beyond it. In `DInv`, `ChainInv`,
`DisjointInv` and `FreeInv` say that descriptors are split among the requests, `PublishInv`, `AvailInv`,
`FlightInv` and `UsedInv` that the head of an unfinished request is in one place at most: about to be published, in the
avail ring, with the device or in the used ring, once. Counting then gives that the ring entry written next has been
read: unfinished requests hold three descriptors each, so they are no more than `RING`. From it `DiskTypes`, `DescriptorsOwned`,
`CompletionsNameWaiters`, `SleepersHaveWakers` and `DriverIsBlockDevice`: the device's transfer is the
one step of `BlockDevice` that moves data, and each call has one.

**`FilesProofs`** takes any processes, inodes, blocks, names, table sizes and programs, with or without crashes. `FilesAssumption`,
`NamesAssumption`, `ProgramsAssumption` and `FiniteAssumption` only say what the constants are: an inode 1, two entries to a block at least
(a new directory has two), no name `.` or `..`, programs that make the seven calls, as many inodes and names as one likes but finitely
many (links and entries are counted). Four invariants
build on each other.

* `FInv`: types, what each local variable holds at each point of a call (`ControlInv`), and the counts (`RefInv`, `FdInv`): `ref`
  of an entry is the number of *places* (local variables, current directories, open files) that name the inode, `ref` of a file the number of
  its descriptors. A step moves references between places. Gives `CountsExact`.
* `CInv`: who has which inode lock follows from the points (`LockInv`, `ApartInv`), a locked inode has been read
  (`ValidInv`), and a valid copy is what the disk holds (`CacheInv`), save in the last step of `iput()` before it marks the entry
  invalid. Gives `CachedInodesCurrent`, `CallsUnlock` and `LastReferenceUnlocked`.
* `TreeInv`: a directory that a call works in stays one (`KindInv`), what is no directory has no entries (`EmptyInv`), what
  `unlink()` has looked up is still there (`LookInv`), and the edges of the tree, together with those that `create()` is
  about to write, have no circle (`Acyclic`: each set of inodes has one without an entry for another in the set). A process
  that waits with a lock waits for a child of the directory it has locked, so a circle of processes would be a circle
  of directories: `InodeLocksNoCycle`. The entry `..` points up, but `namex()` lets go of the directory before it locks what `..` names, and
  `unlink()` refuses it.
* `BlockInv`: `BlocksExact` at every step and not only in quiet states, with an inode that is free or about to be owning no block.
  Gives `BlocksAccounted` and `BlocksFreedOnce`.

`OnlyThreePanics` names, for all programs, the panics that are left of `FilesNoPanic`, and the process that makes the
step is the one that meets them: a full inode table that lacks some inode, an inode without a type that it is to lock, an entry
that it is to remove whose inode has no links. The other checks (a block freed twice, a file closed too often, a sleep in
`iput()` with `itable.lock` held) never fail. The three that are left cannot be excluded for all constants: `NINODE` may be
small, and a program may reach a freed inode through `..` of a removed directory (section 5).

**`LinksProofs`** goes on from there to names and links. What the code promises about them it does not promise to everybody:
`unlink()` leaves the entry `..` of a directory it removes, without a count in the parent, and `create()` and `link()` do not look
whether the directory they have locked still has a link. So the theorems have the condition that nobody comes upon either, which is
said of the states a run goes through and not of the programs:

* `ParentKept`: who is at `..` of a directory, in a path or as the name that `create()` or `link()` is to make, finds a parent
  there that has a link;
* `MadeLive`: who has a name to make in a directory, and finds it free, finds a directory that has a link;
* `~InodesFull`: there is no inode that a full inode table does not hold. With `NINODE = 50` a program can break it (section 5), and
  "iget: no inodes" is what the code then does; the run `kernel`, with as many entries as inodes, never does.

| theorem | condition | what holds |
|---|---|---|
| `OnlyFullTablePanics` | `ParentKept` | a full inode table is the only panic |
| `NoPanicWithRoom` | `ParentKept`, `~InodesFull` | `FilesNoPanic` |
| `NamelessInodesKept` | `ParentKept` | `NamelessKept` |
| `DiskStaysConsistent` | `ParentKept`, `MadeLive` | `DiskConsistent` |
| `DownNeverPanics` | no path has a `..` | a full inode table is the only panic; with `~InodesFull`, `FilesNoPanic` |
| `KeptDirsConsistent` | no `unlink()` comes to a directory | `DiskConsistent` |
| `KeptDirsNoPanic` | no `unlink()` comes to a directory, `~InodesFull` | `FilesNoPanic` |
| `NoUnlinkConsistent` | no program calls `unlink()` | `DiskConsistent` |
| `NoUnlinkNeverPanics` | no program calls `unlink()` | a full inode table is the only panic; with `~InodesFull`, `FilesNoPanic` |

The second half of the table derives the conditions from others that are easier to see, two of them on the programs alone
(`PathsDown`, `NoUnlink`). The argument has three inductive invariants.

* `NInv`, under `ParentKept`. A link of an inode is *claimed* by an entry, by the `..` of a directory in it, by the root, or by a
  call between two steps, for what it is making or has counted and not yet named. No inode has fewer links than claims (`LinkInv`); what a
  process works on has a type, and an inode is given back only by its last user (`UseInv`); one that is referenced and not yet
  read has a link or is new (`ReadInv`). The claims are counted as the places are in `FInv`, and a step moves them between calls
  and entries. That excludes both other panics.
* `ExactInv`, under `MadeLive` as well: there are no more links than claims either (`LinkExact`), which an entry written into
  a removed directory would break, and of directories `NameInv`: one name at most (`OneName`), no entries without a name (`NamedInv`), `..` names
  the directory it is in (`UpInv`), the root has no other name (`RootInv`), and what `create()` is making will be in a directory
  with a name (`PlacedInv`). In a quiet state no call claims a link, and `DiskConsistent` is left.
* `LiveInv`, while no directory is unlinked: a directory that a call is in, or that is the current one of a process, has a name
  (`KeptDirsLive`). It gives `ParentKept` and `MadeLive`.

The conditions leave room for what they are about: the programs of the run `kernel` do unlink directories and do use `..`, and all
their states, 1.4 million of `FilesSpec`, satisfy `ParentKept`, `MadeLive` and `~InodesFull` (TLC found so with the three as
invariants).

**`ProcConsoleProofs`**, about `Console`, takes any sizes and any number of readers and writers. `RingInv` orders the indices, read,
write, edit, around the ring and says that a full one has complete input; `LineInv` that an incomplete
line holds no newline; `TtyLockInv` and `SleepInv` who holds the locks and why somebody sleeps; `BusyInv`
that bytes in the transmit buffer have an interrupt on its way; `FifoInv` that the UART never has more than two bytes: who
looks finds none, and one other may be between its look and its write. From them `ConsoleNeverStuck`, and
`ConsoleIsTty`: an edited line and a queue of complete input.

Only model-checked:

* all liveness, since fairness and `ENABLED` are out of the prover's reach;
* `FilesNoPanic`, `NamelessKept` and the part of `DiskConsistent` about entries and links in runs that leave the conditions of
  `LinksProofs`: there they are false, and the code does not prevent it (section 5). What holds of them without any
  condition is `OnlyThreePanics` and `BlocksAccounted`.

No module has a recursive definition; what one computes for all inputs could not be proved here.

## 5. Findings

* `kill(0)` (`proc.c:613`): the table is searched for `p->pid == pid` without a look
  at `p->state`, and an unused slot has pid 0. The mark stays; `allocproc()` does
  not clear it, so the next process in that slot is killed at once. Run `proc_kill_zero`.
* `pipewrite()` (`pipe.c:84`): killed after it has put bytes into the pipe, it returns
  without waking the readers. Run `pipe_kill`.
* `log_write()` (`log.c:220`): the header block counts as log space in `sb.nlog` but not in
  `begin_op()`, so that operations that use their whole reservation panic. The file
  system's own operations write fewer blocks, so it is a latent mismatch of
  three sizes. Run `log_full`.

* `iput()` (`fs.c:360`): it frees an inode while it holds the last reference, and only then takes
  that reference away. In between the inode is free on the disk: another process may get
  it from `ialloc()`, unlink and close it again. Both see more than one reference or no work
  to do, and the inode stays allocated without a name until the disk is rebuilt. Run `files_leak`.

Seen while modelling, without a run of their own:

* A process that stands in a directory whose parent is then removed as well, and goes to
  `..`, panics in `ilock()` ("no type"): a removed directory keeps its entry `..` without a
  count in the parent. `create()` does not look at `dp->nlink`, so a file made in a removed
  directory can never be reached (`fs.c:651`). The model does both; the programs of the
  run `kernel` stay clear of it: nobody creates in a directory that another process
  may remove, and no parent is removed under a directory.
* `NINODE` (50) is smaller than `NFILE` (100), and `iget()` panics when the table is full: a
  hundred open files and sixty-four current directories may name more than fifty inodes (`fs.c:266`).
* `proc_pagetable()` (`proc.c:219`) unmaps only the trampoline when the page of `USYSCALL` cannot
  be mapped. A trapframe left mapped would make `freewalk()` panic. It cannot come to that
  because the three high pages share their last table, so that the third mapping needs no memory;
  `MemAssumption` says so (`PTE >= 3`).
* `uartputc_sync()` looks at the UART and writes to it without the lock under which `uartstart()` does the same
  (`uart.c:122`). Both may find it idle and write. A byte would be lost without the FIFO that `uartinit()` turns on; with it both are
  sent, the FIFO never has more than these two, and nobody waits for ever (`ConsoleAwake`).
* `mkfs.c:166` rounds the size of the root directory up to a block and adds one when it is a multiple
  already; the block it adds holds nothing.

## 6. Scope

Modelled: the eight modules of section 2, which cover the concurrent core of the kernel and
its file system.

Open, in the order in which it would add most:

1. Files of several blocks: `filewrite()` splits a large write into several operations
   (`file.c:158`), and a crash or another writer may come between them. It is one of the two
   hazards without a property; the other is the removed directory of section 5, which `ParentKept` and `MadeLive` exclude.
2. The sieve of `src/xv6-lab1/user/primes.c` over the abstract `Fifo`, with the descriptors each
   stage keeps open towards `NOFILE` (`primes.c:13`).

Not modelled:

* `usertests.c`, in three copies, the other tests and the grading scripts: sequential clients
  of the system. What they exercise is modelled; they have no behaviour of their own.
* The kernels of labs 1 and 2: the parts modelled are the same code, line for line, as in
  `src/lab3`, and are modelled once.
* The shell, the user library and the utilities, `mkfs`: sequential programs over system calls.
* Boot, assembly, the interrupt controller, register access, dispatch, strings,
  formatting and `printf()`: they run once, or are tables and arithmetic without shared state.
* `trace` and `sysinfo` of lab 2: a mask per process and two counts taken without
  synchronisation with what they count.

These make up most of the lines of the repository: two of three copies of everything, and
in each copy about as much user code and tests as kernel. `PROJECT.json` gives the reason
for each component.
