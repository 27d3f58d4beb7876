------------------------------- MODULE Bcache -------------------------------
(***************************************************************************)
(* The buffer cache (kernel/bio.c) and the sleeplock of each buffer        *)
(* (kernel/sleeplock.c), as the log uses them: a block that is changed is  *)
(* pinned until it is written to its place on the disk.                    *)
(*                                                                         *)
(* A user is one use of a buffer, from bread() to brelse(): a process with *)
(* two buffers at a time is two users.  Each critical section of           *)
(* bcache.lock, or of the spinlock inside a sleeplock, is one step.        *)
(***************************************************************************)
EXTENDS Naturals, Sequences, FiniteSets, SequencesExt

CONSTANTS
  Users, Blocks, Vals,
  Blank,        \* what the blocks hold at first
  NBUF,         \* param.h: the number of buffers
  NoBlock, NoUser

ASSUME NbufAssumption == NBUF \in Nat \ {0}
ASSUME NoneAssumption == NoBlock \notin Blocks /\ NoUser \notin Users

Bufs == 1..NBUF

VARIABLES
  buf,        \* bcache.buf: block, valid, refcnt, data, and who has its sleeplock
  lru,        \* the list of buffers, from head.next to head.prev
  logged,     \* the blocks that the log has pinned
  disk,
  panicked,   \* in bget(), with bcache.lock held
  pc, blockno, cur     \* the users: the block they ask for and their buffer

cacheVars == <<buf, lru>>
userVars == <<blockno, cur>>
vars == <<cacheVars, logged, disk, panicked, pc, userVars>>

Init ==
  /\ buf = [i \in Bufs |-> [block |-> NoBlock, valid |-> FALSE, refcnt |-> 0,
                            data |-> Blank, owner |-> NoUser]]
  /\ lru = [i \in Bufs |-> NBUF + 1 - i]
  /\ logged = {}
  /\ disk = [b \in Blocks |-> Blank]
  /\ panicked = FALSE
  /\ pc = [u \in Users |-> "idle"]
  /\ blockno = [u \in Users |-> NoBlock]
  /\ cur = [u \in Users |-> 1]

Move(u, l) == pc' = [pc EXCEPT ![u] = l]

-----------------------------------------------------------------------------
(* bread(): bget(), acquiresleep() and the read from the disk *)

Cached(b) == {i \in Bufs : buf[i].block = b}

\* Mutant of Found: a buffer that is not read yet does not count.
FoundValid(b) == {i \in Cached(b) : buf[i].valid}

\* What the search of bget() finds.
Found(b) == Cached(b)
Unused == {i \in Bufs : buf[i].refcnt = 0}

\* The block has a buffer: take a reference, whoever has the buffer.
Hit(u, b) ==
  /\ pc[u] = "idle" /\ ~panicked
  /\ \E i \in Found(b) : /\ buf' = [buf EXCEPT ![i].refcnt = @ + 1]
                         /\ cur' = [cur EXCEPT ![u] = i]
  /\ blockno' = [blockno EXCEPT ![u] = b]
  /\ Move(u, "lock")
  /\ UNCHANGED <<lru, logged, disk, panicked>>

\* It has none: the unused buffer nearest to the end of the list is recycled.
LeastRecent(i) ==
  /\ i \in Unused
  /\ \E k \in DOMAIN lru : lru[k] = i /\ \A m \in DOMAIN lru : m > k => lru[m] \notin Unused

\* Mutant of Recycle: the contents are left valid.
RecycleValid(u, b) ==
  /\ pc[u] = "idle" /\ ~panicked
  /\ Found(b) = {}
  /\ \E i \in Bufs :
       /\ LeastRecent(i)
       /\ buf' = [buf EXCEPT ![i].block = b, ![i].refcnt = 1]
       /\ cur' = [cur EXCEPT ![u] = i]
  /\ blockno' = [blockno EXCEPT ![u] = b]
  /\ Move(u, "lock")
  /\ UNCHANGED <<lru, logged, disk, panicked>>

Recycle(u, b) ==
  /\ pc[u] = "idle" /\ ~panicked
  /\ Found(b) = {}
  /\ \E i \in Bufs :
       /\ LeastRecent(i)
       /\ buf' = [buf EXCEPT ![i].block = b, ![i].valid = FALSE, ![i].refcnt = 1]
       /\ cur' = [cur EXCEPT ![u] = i]
  /\ blockno' = [blockno EXCEPT ![u] = b]
  /\ Move(u, "lock")
  /\ UNCHANGED <<lru, logged, disk, panicked>>

NoBuffers(u, b) ==
  /\ pc[u] = "idle" /\ ~panicked
  /\ Found(b) = {} /\ Unused = {}
  /\ panicked' = TRUE
  /\ UNCHANGED <<cacheVars, logged, disk, pc, userVars>>

SleepOnLock(u) ==
  /\ pc[u] = "lock" /\ buf[cur[u]].owner # NoUser
  /\ Move(u, "asleep")
  /\ UNCHANGED <<cacheVars, logged, disk, panicked, userVars>>

\* acquiresleep() returns; the block may have to be read.
AcquireSleep(u) ==
  /\ pc[u] = "lock" /\ buf[cur[u]].owner = NoUser
  /\ buf' = [buf EXCEPT ![cur[u]].owner = u]
  /\ Move(u, IF buf[cur[u]].valid THEN "has" ELSE "reading")
  /\ UNCHANGED <<lru, logged, disk, panicked, userVars>>

ReadDone(u) ==
  /\ pc[u] = "reading"
  /\ buf' = [buf EXCEPT ![cur[u]].data = disk[buf[cur[u]].block], ![cur[u]].valid = TRUE]
  /\ Move(u, "has")
  /\ UNCHANGED <<lru, logged, disk, panicked, userVars>>

\* kill() of a sleeper: acquiresleep() looks at the lock again.
Kill(u) ==
  /\ pc[u] = "asleep"
  /\ Move(u, "lock")
  /\ UNCHANGED <<cacheVars, logged, disk, panicked, userVars>>

-----------------------------------------------------------------------------
(* The user has the buffer *)

\* Mutant of Change: no absorption, each change pins the buffer again.
ChangePinsAgain(u, v) ==
  LET i == cur[u]
  IN /\ pc[u] = "has" /\ ~panicked
     /\ buf' = [buf EXCEPT ![i].data = v, ![i].refcnt = @ + 1]
     /\ logged' = logged \cup {blockno[u]}
     /\ UNCHANGED <<lru, disk, panicked, pc, userVars>>

\* The user changes the contents, and log_write() pins the buffer if the block
\* is not in the log yet.
Change(u, v) ==
  LET i == cur[u]
  IN /\ pc[u] = "has" /\ (panicked => blockno[u] \in logged)
     /\ buf' = [buf EXCEPT ![i].data = v,
                           ![i].refcnt = IF blockno[u] \in logged THEN @ ELSE @ + 1]
     /\ logged' = logged \cup {blockno[u]}
     /\ UNCHANGED <<lru, disk, panicked, pc, userVars>>

\* bwrite() of a block of the log, to its place on the disk.
WriteStart(u) ==
  /\ pc[u] = "has" /\ blockno[u] \in logged
  /\ Move(u, "writing")
  /\ UNCHANGED <<cacheVars, logged, disk, panicked, userVars>>

\* A change that is written at once: the blocks of the log itself, and the
\* installation of a block by recovery, which pins nothing.
WriteThrough(u, v) ==
  /\ pc[u] = "has" /\ blockno[u] \notin logged
  /\ buf' = [buf EXCEPT ![cur[u]].data = v]
  /\ Move(u, "writing")
  /\ UNCHANGED <<lru, logged, disk, panicked, userVars>>

\* The write ends; install_trans() calls bunpin() for a block of the log.
WriteDone(u) ==
  LET i == cur[u]
  IN /\ pc[u] = "writing" /\ (panicked => blockno[u] \notin logged)
     /\ disk' = [disk EXCEPT ![buf[i].block] = buf[i].data]
     /\ buf' = [buf EXCEPT ![i].refcnt = IF blockno[u] \in logged THEN @ - 1 ELSE @]
     /\ logged' = logged \ {blockno[u]}
     /\ Move(u, "has")
     /\ UNCHANGED <<lru, panicked, userVars>>

-----------------------------------------------------------------------------
(* brelse() *)

\* Mutant of ReleaseSleep: no wakeup().
ReleaseSleepSilent(u) ==
  /\ pc[u] = "has"
  /\ buf' = [buf EXCEPT ![cur[u]].owner = NoUser]
  /\ Move(u, "put")
  /\ UNCHANGED <<lru, logged, disk, panicked, userVars>>

ReleaseSleep(u) ==
  /\ pc[u] = "has"
  /\ buf' = [buf EXCEPT ![cur[u]].owner = NoUser]
  /\ pc' = [w \in Users |-> IF w = u THEN "put"
                            ELSE IF pc[w] = "asleep" /\ cur[w] = cur[u] THEN "lock" ELSE pc[w]]
  /\ UNCHANGED <<lru, logged, disk, panicked, userVars>>

\* Mutant of Put: the buffer stays in its old place of the list, too.
PutTwice(u) ==
  LET i == cur[u]
  IN /\ pc[u] = "put" /\ ~panicked
     /\ buf' = [buf EXCEPT ![i].refcnt = @ - 1]
     /\ lru' = IF buf[i].refcnt = 1 THEN Cons(i, lru) ELSE lru
     /\ blockno' = [blockno EXCEPT ![u] = NoBlock]
     /\ cur' = [cur EXCEPT ![u] = 1]
     /\ Move(u, "idle")
     /\ UNCHANGED <<logged, disk, panicked>>

\* A buffer that nobody refers to any more goes to the front of the list.
Put(u) ==
  LET i == cur[u]
  IN /\ pc[u] = "put" /\ ~panicked
     /\ buf' = [buf EXCEPT ![i].refcnt = @ - 1]
     /\ \E k \in DOMAIN lru :
          lru[k] = i /\ lru' = IF buf[i].refcnt = 1 THEN Cons(i, RemoveAt(lru, k)) ELSE lru
     /\ blockno' = [blockno EXCEPT ![u] = NoBlock]
     /\ cur' = [cur EXCEPT ![u] = 1]
     /\ Move(u, "idle")
     /\ UNCHANGED <<logged, disk, panicked>>

\* panic() loops for ever, with bcache.lock held.
Halted == panicked /\ UNCHANGED vars

-----------------------------------------------------------------------------
Next ==
  \/ \E u \in Users :
       \/ \E b \in Blocks : Hit(u, b) \/ Recycle(u, b) \/ NoBuffers(u, b)
       \/ SleepOnLock(u) \/ AcquireSleep(u) \/ ReadDone(u) \/ Kill(u)
       \/ \E v \in Vals : Change(u, v) \/ WriteThrough(u, v)
       \/ WriteStart(u) \/ WriteDone(u) \/ ReleaseSleep(u) \/ Put(u)
  \/ Halted

Spec == Init /\ [][Next]_vars

-----------------------------------------------------------------------------
(* Properties *)

\* The state of the cache is well formed; the list holds each buffer once.
TypeOK ==
  /\ buf \in [Bufs -> [block : Blocks \cup {NoBlock}, valid : BOOLEAN, refcnt : Nat,
                       data : Vals \cup {Blank}, owner : Users \cup {NoUser}]]
  /\ Len(lru) = NBUF /\ Range(lru) = Bufs
  /\ logged \subseteq Blocks
  /\ disk \in [Blocks -> Vals \cup {Blank}]
  /\ panicked \in BOOLEAN
  /\ pc \in [Users -> {"idle", "lock", "asleep", "reading", "has", "writing", "put"}]
  /\ blockno \in [Users -> Blocks \cup {NoBlock}]
  /\ cur \in [Users -> Bufs]

\* bget() never makes a second buffer for a block, not even when two users
\* miss it at the same time or the first one has not read it yet.
OneBufPerBlock ==
  \A i, j \in Bufs : buf[i].block = buf[j].block /\ buf[i].block # NoBlock => i = j

\* The reference counts are exact: a buffer can be recycled as soon as, and not
\* before, nobody waits for it, has it or has pinned it.
RefsMatch ==
  \A i \in Bufs :
    buf[i].refcnt = Cardinality({u \in Users : pc[u] # "idle" /\ cur[u] = i})
                    + Cardinality({b \in logged : buf[i].block = b})

\* Whoever sleeps on a buffer sleeps while somebody has it, who will wake them.
SleeperHasOwner ==
  \A u \in Users : pc[u] = "asleep" =>
    \E w \in Users : /\ buf[cur[u]].owner = w /\ cur[w] = cur[u]
                     /\ pc[w] \in {"reading", "has", "writing"}

\* The cache and the disk are one memory: mem is the disk under what is cached.
Latest(b) == LET C == {i \in Cached(b) : buf[i].valid}
             IN IF C = {} THEN disk[b] ELSE buf[CHOOSE i \in C : TRUE].data

Having == {u \in Users : pc[u] \in {"has", "writing"}}
Memory == INSTANCE BlockMemory WITH
  mem <- [b \in Blocks |-> Latest(b)],
  held <- [u \in Users |-> IF u \in Having THEN blockno[u] ELSE NoBlock],
  view <- [u \in Users |-> IF u \in Having THEN buf[cur[u]].data ELSE Blank]

\* bread(), the changes and brelse() act on one memory with a lock per block.
ImplementsBlockMemory == Memory!Spec
=============================================================================
