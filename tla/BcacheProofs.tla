---------------------------- MODULE BcacheProofs ----------------------------
(***************************************************************************)
(* Proofs about the buffer cache for any number of users, blocks and       *)
(* buffers: a block never has two buffers, no user sleeps on the sleeplock *)
(* of a buffer that nobody has, the reference counts are exact, and the    *)
(* cache with its disk is one memory with a lock per block (BlockMemory).  *)
(***************************************************************************)
EXTENDS Bcache, FiniteSetTheorems, TLAPS

Points == {"idle", "lock", "asleep", "reading", "has", "writing", "put"}
Owning == {"reading", "has", "writing"}

BufType == [block : Blocks \cup {NoBlock}, valid : BOOLEAN, refcnt : Int,
            data : Vals \cup {Blank}, owner : Users \cup {NoUser}]

\* The part of the typing that does not need the reference counts.
TypeInv == /\ buf \in [Bufs -> BufType]
           /\ disk \in [Blocks -> Vals \cup {Blank}]
           /\ pc \in [Users -> Points]
           /\ cur \in [Users -> Bufs]

\* The buffer of a call has been given a block.
BlockInv == \A u \in Users : pc[u] # "idle" => buf[cur[u]].block # NoBlock

\* The sleeplock of a buffer is held by the user that is at work on it.
OwnerInv ==
  \A i \in Bufs, u \in Users : buf[i].owner = u <=> pc[u] \in Owning /\ cur[u] = i

\* acquiresleep() sleeps on a lock that is taken.
SleepInv == \A u \in Users : pc[u] = "asleep" => buf[cur[u]].owner # NoUser

BInv == TypeInv /\ BlockInv /\ OwnerInv /\ SleepInv /\ OneBufPerBlock

USE NbufAssumption, NoneAssumption

\* binit() gives each buffer an empty place in the list.
LEMMA InitBInv == Init => BInv
<1> SUFFICES ASSUME Init PROVE BInv
  OBVIOUS
<1>1. 1 \in Bufs
  BY DEF Bufs
<1>2. TypeInv
  BY <1>1 DEF Init, TypeInv, BufType, Points
<1>3. BlockInv /\ OwnerInv /\ SleepInv /\ OneBufPerBlock
  BY DEF Init, BlockInv, OwnerInv, SleepInv, OneBufPerBlock, Owning
<1>. QED  BY <1>2, <1>3 DEF BInv

\* bget() finds the block in the cache.
LEMMA HitBInv ==
  ASSUME BInv, NEW u \in Users, NEW b \in Blocks, Hit(u, b)
  PROVE  BInv'
<1>1. PICK i \in Bufs : /\ buf[i].block = b
                        /\ buf' = [buf EXCEPT ![i].refcnt = @ + 1]
                        /\ cur' = [cur EXCEPT ![u] = i]
  BY DEF Hit, Found, Cached
<1>2. /\ pc[u] = "idle" /\ pc' = [pc EXCEPT ![u] = "lock"]
      /\ disk' = disk
  BY DEF Hit, Move
<1>3. TypeInv'
  <2>1. PICK e : e = [buf[i] EXCEPT !.refcnt = buf[i].refcnt + 1]
    OBVIOUS
  <2>2. buf' = [buf EXCEPT ![i] = e]
    BY <1>1, <2>1
  <2>3. buf' \in [Bufs -> BufType]
    <3>1. e \in BufType
      <4>1. PICK old, n : old = buf[i] /\ n = buf[i].refcnt + 1
        OBVIOUS
      <4>2. old \in BufType
        BY <4>1 DEF BInv, TypeInv
      <4>3. n \in Int
        BY <4>1, <4>2 DEF BufType
      <4>. QED  BY <2>1, <4>1, <4>2, <4>3 DEF BufType
    <3>. QED  BY <2>2, <3>1 DEF BInv, TypeInv
  <2>4. pc' \in [Users -> Points] /\ cur' \in [Users -> Bufs]
    BY <1>1, <1>2 DEF BInv, TypeInv, Points
  <2>. QED  BY <1>2, <2>3, <2>4 DEF BInv, TypeInv
<1>4. \A j \in Bufs : buf'[j].block = buf[j].block /\ buf'[j].owner = buf[j].owner
  BY <1>1 DEF BInv, TypeInv, BufType
<1>5. BlockInv'
  BY <1>1, <1>2, <1>4 DEF BInv, TypeInv, BlockInv
<1>6. OwnerInv'
  BY <1>1, <1>2, <1>4 DEF BInv, TypeInv, OwnerInv, Owning
<1>7. SleepInv'
  BY <1>1, <1>2, <1>4 DEF BInv, TypeInv, SleepInv
<1>8. OneBufPerBlock'
  BY <1>4 DEF BInv, OneBufPerBlock
<1>. QED  BY <1>3, <1>5, <1>6, <1>7, <1>8 DEF BInv

\* bget() recycles a buffer: the block had none before.
LEMMA RecycleBInv ==
  ASSUME BInv, NEW u \in Users, NEW b \in Blocks, Recycle(u, b)
  PROVE  BInv'
<1>1. PICK i \in Bufs :
        /\ buf' = [buf EXCEPT ![i].block = b, ![i].valid = FALSE, ![i].refcnt = 1]
        /\ cur' = [cur EXCEPT ![u] = i]
  BY DEF Recycle
<1>2. /\ pc[u] = "idle" /\ pc' = [pc EXCEPT ![u] = "lock"]
      /\ disk' = disk
      /\ \A j \in Bufs : buf[j].block # b
  BY DEF Recycle, Move, Found, Cached
<1>3. TypeInv'
  <2>1. buf[i] \in BufType /\ buf \in [Bufs -> BufType]
    BY DEF BInv, TypeInv
  <2>2. [buf[i] EXCEPT !.block = b] \in BufType
    BY <2>1 DEF BufType
  <2>3. [buf EXCEPT ![i].block = b] \in [Bufs -> BufType]
    BY <2>1, <2>2
  <2> DEFINE invalid == [buf EXCEPT ![i].block = b, ![i].valid = FALSE]
  <2>4. invalid \in [Bufs -> BufType]
    BY <2>3 DEF BufType
  <2>5. buf' = [invalid EXCEPT ![i].refcnt = 1]
    BY <1>1
  <2> HIDE DEF invalid
  <2>6. buf' \in [Bufs -> BufType]
    BY <2>4, <2>5 DEF BufType
  <2>. QED  BY <1>1, <1>2, <2>6 DEF BInv, TypeInv, Points
<1>4. /\ \A j \in Bufs : buf'[j].owner = buf[j].owner
      /\ \A j \in Bufs \ {i} : buf'[j].block = buf[j].block
      /\ buf'[i].block = b
  BY <1>1 DEF BInv, TypeInv, BufType
<1>5. BlockInv'
  BY <1>1, <1>2, <1>4 DEF BInv, TypeInv, BlockInv
<1>6. OwnerInv'
  BY <1>1, <1>2, <1>4 DEF BInv, TypeInv, OwnerInv, Owning
<1>7. SleepInv'
  BY <1>1, <1>2, <1>4 DEF BInv, TypeInv, SleepInv
<1>8. OneBufPerBlock'
  BY <1>2, <1>4 DEF BInv, OneBufPerBlock
<1>. QED  BY <1>3, <1>5, <1>6, <1>7, <1>8 DEF BInv

\* A step that gives no buffer another block or owner, moves no user to another
\* buffer and none across acquiresleep() or releasesleep().
LEMMA Bystander ==
  ASSUME BInv, TypeInv', cur' = cur,
         \A i \in Bufs : buf'[i].block = buf[i].block /\ buf'[i].owner = buf[i].owner,
         \A u \in Users : /\ pc'[u] # "idle" => pc[u] # "idle"
                          /\ pc'[u] = "asleep" => pc[u] = "asleep"
                          /\ pc'[u] \in Owning <=> pc[u] \in Owning
  PROVE  BInv'
<1>1. \A u \in Users : cur[u] \in Bufs
  BY DEF BInv, TypeInv
<1>2. BlockInv' /\ OwnerInv' /\ SleepInv'
  BY <1>1 DEF BInv, BlockInv, OwnerInv, SleepInv
<1>3. OneBufPerBlock'
  BY DEF BInv, OneBufPerBlock
<1>. QED  BY <1>2, <1>3 DEF BInv

\* acquiresleep() takes the lock, or sleeps on its owner.
LEMMA LockBInv ==
  ASSUME BInv, NEW u \in Users, AcquireSleep(u) \/ SleepOnLock(u)
  PROVE  BInv'
<1>1. CASE AcquireSleep(u)
  <2>1. PICK l \in {"has", "reading"} : pc' = [pc EXCEPT ![u] = l]
    BY <1>1 DEF AcquireSleep, Move
  <2>2. /\ buf[cur[u]].owner = NoUser /\ pc[u] = "lock"
        /\ buf' = [buf EXCEPT ![cur[u]].owner = u] /\ cur' = cur /\ disk' = disk
    BY <1>1 DEF AcquireSleep, userVars
  <2>3. TypeInv'
    BY <2>1, <2>2 DEF BInv, TypeInv, BufType, Points
  <2>4. /\ \A i \in Bufs : buf'[i].block = buf[i].block
        /\ \A i \in Bufs \ {cur[u]} : buf'[i].owner = buf[i].owner
        /\ cur[u] \in Bufs /\ buf'[cur[u]].owner = u
    BY <2>2 DEF BInv, TypeInv, BufType
  <2>5. BlockInv'
    BY <2>1, <2>2, <2>4 DEF BInv, TypeInv, BlockInv
  <2>6. OwnerInv'
    BY <2>1, <2>2, <2>4 DEF BInv, TypeInv, OwnerInv, Owning
  <2>7. SleepInv'
    BY <2>1, <2>2, <2>4 DEF BInv, TypeInv, SleepInv
  <2>8. OneBufPerBlock'
    BY <2>4 DEF BInv, OneBufPerBlock
  <2>. QED  BY <2>3, <2>5, <2>6, <2>7, <2>8 DEF BInv
<1>2. CASE SleepOnLock(u)
  <2>1. /\ pc[u] = "lock" /\ pc' = [pc EXCEPT ![u] = "asleep"]
        /\ buf[cur[u]].owner # NoUser
        /\ buf' = buf /\ cur' = cur /\ disk' = disk
    BY <1>2 DEF SleepOnLock, Move, cacheVars, userVars
  <2>2. TypeInv'
    BY <2>1 DEF BInv, TypeInv, Points
  <2>3. BlockInv' /\ OneBufPerBlock'
    BY <2>1 DEF BInv, TypeInv, BlockInv, OneBufPerBlock
  <2>4. OwnerInv' /\ SleepInv'
    BY <2>1 DEF BInv, TypeInv, OwnerInv, SleepInv, Owning
  <2>. QED  BY <2>2, <2>3, <2>4 DEF BInv
<1>. QED  BY <1>1, <1>2

\* releasesleep() wakes everyone that sleeps on the lock.
LEMMA ReleaseBInv ==
  ASSUME BInv, NEW u \in Users, ReleaseSleep(u)
  PROVE  BInv'
<1>1. /\ pc[u] = "has" /\ buf' = [buf EXCEPT ![cur[u]].owner = NoUser]
      /\ cur' = cur /\ disk' = disk
      /\ pc' = [w \in Users |-> IF w = u THEN "put"
                                ELSE IF pc[w] = "asleep" /\ cur[w] = cur[u] THEN "lock"
                                ELSE pc[w]]
  BY DEF ReleaseSleep, userVars
<1>2. TypeInv'
  BY <1>1 DEF BInv, TypeInv, BufType, Points
<1>3. /\ \A i \in Bufs : buf'[i].block = buf[i].block
      /\ \A i \in Bufs \ {cur[u]} : buf'[i].owner = buf[i].owner
      /\ cur[u] \in Bufs /\ buf'[cur[u]].owner = NoUser
  BY <1>1 DEF BInv, TypeInv, BufType
<1>4. BlockInv' /\ OneBufPerBlock'
  BY <1>1, <1>3 DEF BInv, TypeInv, BlockInv, OneBufPerBlock
<1>5. OwnerInv'
  BY <1>1, <1>3 DEF BInv, TypeInv, OwnerInv, Owning
<1>6. SleepInv'
  BY <1>1, <1>3 DEF BInv, TypeInv, SleepInv
<1>. QED  BY <1>2, <1>4, <1>5, <1>6 DEF BInv

\* The steps of a user that has its buffer, and those that wait for the disk.
LEMMA WorkBInv ==
  ASSUME BInv, NEW u \in Users,
         \/ ReadDone(u) \/ WriteStart(u) \/ WriteDone(u) \/ Kill(u) \/ Put(u)
         \/ \E v \in Vals : Change(u, v) \/ WriteThrough(u, v)
  PROVE  BInv'
<1>1. /\ cur[u] \in Bufs
      /\ pc[u] # "idle" => buf[cur[u]].block \in Blocks
  BY DEF BInv, TypeInv, BufType, BlockInv
<1>2. CASE ReadDone(u)
  <2>1. /\ pc[u] = "reading" /\ pc' = [pc EXCEPT ![u] = "has"] /\ cur' = cur /\ disk' = disk
        /\ buf' = [buf EXCEPT ![cur[u]].data = disk[buf[cur[u]].block], ![cur[u]].valid = TRUE]
    BY <1>2 DEF ReadDone, Move, userVars
  <2>2. TypeInv'
    <3>1. disk[buf[cur[u]].block] \in Vals \cup {Blank}
      BY <1>1, <2>1 DEF BInv, TypeInv
    <3>2. [buf EXCEPT ![cur[u]].data = disk[buf[cur[u]].block]] \in [Bufs -> BufType]
      BY <1>1, <3>1 DEF BInv, TypeInv, BufType
    <3>3. buf' \in [Bufs -> BufType]
      BY <1>1, <2>1, <3>2 DEF BufType
    <3>. QED  BY <2>1, <3>3 DEF BInv, TypeInv, Points
  <2>3. \A i \in Bufs : buf'[i].block = buf[i].block /\ buf'[i].owner = buf[i].owner
    BY <2>1 DEF BInv, TypeInv, BufType
  <2>. QED  BY <2>1, <2>2, <2>3, Bystander DEF BInv, TypeInv, Owning
<1>3. CASE WriteStart(u) \/ Kill(u)
  <2>1. /\ buf' = buf /\ cur' = cur /\ disk' = disk
        /\ \/ pc[u] = "has" /\ pc' = [pc EXCEPT ![u] = "writing"]
           \/ pc[u] = "asleep" /\ pc' = [pc EXCEPT ![u] = "lock"]
    BY <1>3 DEF WriteStart, Kill, Move, cacheVars, userVars
  <2>2. TypeInv'
    BY <2>1 DEF BInv, TypeInv, Points
  <2>. QED  BY <2>1, <2>2, Bystander DEF BInv, TypeInv, Owning
<1>4. CASE WriteDone(u)
  <2>1. /\ pc[u] = "writing" /\ pc' = [pc EXCEPT ![u] = "has"] /\ cur' = cur
        /\ disk' = [disk EXCEPT ![buf[cur[u]].block] = buf[cur[u]].data]
        /\ buf' = [buf EXCEPT ![cur[u]].refcnt = IF blockno[u] \in logged THEN @ - 1 ELSE @]
    BY <1>4 DEF WriteDone, Move, userVars
  <2>2. TypeInv'
    BY <1>1, <2>1 DEF BInv, TypeInv, BufType, Points
  <2>3. \A i \in Bufs : buf'[i].block = buf[i].block /\ buf'[i].owner = buf[i].owner
    BY <2>1 DEF BInv, TypeInv, BufType
  <2>. QED  BY <2>1, <2>2, <2>3, Bystander DEF BInv, TypeInv, Owning
<1>5. CASE \E v \in Vals : Change(u, v) \/ WriteThrough(u, v)
  <2>1. PICK v \in Vals : Change(u, v) \/ WriteThrough(u, v)
    BY <1>5
  <2> DEFINE changed == [buf EXCEPT ![cur[u]].data = v]
  <2>2. /\ cur' = cur /\ disk' = disk /\ pc[u] = "has"
        /\ pc' = pc \/ pc' = [pc EXCEPT ![u] = "writing"]
    BY <2>1 DEF Change, WriteThrough, Move, userVars
  <2>3. /\ changed \in [Bufs -> BufType]
        /\ \A i \in Bufs : changed[i].block = buf[i].block /\ changed[i].owner = buf[i].owner
    BY <1>1 DEF BInv, TypeInv, BufType
  <2>4. buf' = changed \/ buf' = [changed EXCEPT ![cur[u]].refcnt = @ + 1]
    <3>1. CASE WriteThrough(u, v)
      BY <3>1 DEF WriteThrough
    <3>2. CASE Change(u, v) /\ blockno[u] \notin logged
      BY <1>1, <3>2 DEF Change, BInv, TypeInv, BufType
    <3>3. CASE Change(u, v) /\ blockno[u] \in logged
      <4>1. changed[cur[u]] = [changed[cur[u]] EXCEPT !.refcnt = @]
        BY <1>1, <2>3 DEF BufType
      <4>2. buf' = [changed EXCEPT ![cur[u]].refcnt = @]
        BY <1>1, <3>3 DEF Change, BInv, TypeInv, BufType
      <4>. QED  BY <1>1, <4>1, <4>2, <2>3
    <3>. QED  BY <2>1, <3>1, <3>2, <3>3
  <2> HIDE DEF changed
  <2>5. buf' \in [Bufs -> BufType]
    BY <1>1, <2>3, <2>4 DEF BufType
  <2>6. TypeInv'
    BY <2>2, <2>5 DEF BInv, TypeInv, Points
  <2>7. \A i \in Bufs : buf'[i].block = buf[i].block /\ buf'[i].owner = buf[i].owner
    BY <1>1, <2>3, <2>4 DEF BufType
  <2>. QED  BY <2>2, <2>6, <2>7, Bystander DEF BInv, TypeInv, Owning
<1>6. CASE Put(u)
  <2>1. /\ pc[u] = "put" /\ pc' = [pc EXCEPT ![u] = "idle"] /\ disk' = disk
        /\ buf' = [buf EXCEPT ![cur[u]].refcnt = @ - 1]
        /\ cur' = [cur EXCEPT ![u] = 1] /\ 1 \in Bufs
    BY <1>6 DEF Put, Move, Bufs
  <2>2. TypeInv'
    <3>1. PICK i, e : i = cur[u] /\ e = [buf[i] EXCEPT !.refcnt = buf[i].refcnt - 1]
      OBVIOUS
    <3>2. i \in Bufs /\ buf' = [buf EXCEPT ![i] = e]
      BY <1>1, <2>1, <3>1
    <3>3. buf' \in [Bufs -> BufType]
      <4>1. e \in BufType
        <5>1. PICK old, n : old = buf[i] /\ n = buf[i].refcnt - 1
          OBVIOUS
        <5>2. old \in BufType
          BY <5>1, <3>2 DEF BInv, TypeInv
        <5>3. n \in Int
          BY <5>1, <5>2 DEF BufType
        <5>. QED  BY <3>1, <5>1, <5>2, <5>3 DEF BufType
      <4>. QED  BY <3>2, <4>1 DEF BInv, TypeInv
    <3>4. pc' \in [Users -> Points] /\ cur' \in [Users -> Bufs]
      BY <2>1 DEF BInv, TypeInv, Points
    <3>. QED  BY <2>1, <3>3, <3>4 DEF BInv, TypeInv
  <2>3. \A i \in Bufs : buf'[i].block = buf[i].block /\ buf'[i].owner = buf[i].owner
    BY <2>1 DEF BInv, TypeInv, BufType
  <2>4. BlockInv' /\ SleepInv' /\ OneBufPerBlock'
    BY <2>1, <2>3 DEF BInv, TypeInv, BlockInv, SleepInv, OneBufPerBlock
  <2>5. OwnerInv'
    BY <2>1, <2>3 DEF BInv, TypeInv, OwnerInv, Owning
  <2>. QED  BY <2>2, <2>4, <2>5 DEF BInv
<1>. QED  BY <1>2, <1>3, <1>4, <1>5, <1>6

\* Every step of the cache preserves its invariant.
LEMMA NextBInv == BInv /\ [Next]_vars => BInv'
<1> SUFFICES ASSUME BInv, [Next]_vars PROVE BInv'
  OBVIOUS
<1>1. CASE buf' = buf /\ disk' = disk /\ pc' = pc /\ cur' = cur
  BY <1>1 DEF BInv, TypeInv, BlockInv, OwnerInv, SleepInv, OneBufPerBlock
<1>2. CASE UNCHANGED vars
  BY <1>1, <1>2 DEF vars, cacheVars, userVars
<1>3. CASE Next
  <2>1. CASE Halted
    BY <2>1, <1>2 DEF Halted
  <2>2. CASE \E u \in Users, b \in Blocks : NoBuffers(u, b)
    BY <2>2, <1>1 DEF NoBuffers, cacheVars, userVars
  <2>. QED  BY <1>3, <2>1, <2>2, HitBInv, RecycleBInv, LockBInv, ReleaseBInv, WorkBInv DEF Next
<1>. QED  BY <1>2, <1>3

\* BInv holds in every reachable state.
THEOREM CacheInvariant == Spec => []BInv
BY InitBInv, NextBInv, PTL DEF Spec

\* A block never has two buffers, whoever misses it when (bget(), bio.c:59).
THEOREM OneBuffer == Spec => []OneBufPerBlock
<1>1. BInv => OneBufPerBlock
  BY DEF BInv
<1>. QED  BY <1>1, CacheInvariant, PTL

\* A user sleeps in acquiresleep() only while another has the buffer, who will
\* wake it in releasesleep() (sleeplock.c:25, sleeplock.c:36).
THEOREM SleeperIsWoken == Spec => []SleeperHasOwner
<1>1. BInv => SleeperHasOwner
  <2> SUFFICES ASSUME BInv, NEW u \in Users, pc[u] = "asleep"
               PROVE  \E w \in Users : /\ buf[cur[u]].owner = w /\ cur[w] = cur[u]
                                       /\ pc[w] \in {"reading", "has", "writing"}
    BY DEF SleeperHasOwner
  <2>1. cur[u] \in Bufs /\ buf[cur[u]].owner \in Users
    BY DEF BInv, TypeInv, BufType, SleepInv
  <2>2. LET w == buf[cur[u]].owner IN pc[w] \in Owning /\ cur[w] = cur[u]
    BY <2>1 DEF BInv, OwnerInv
  <2>. QED  BY <2>1, <2>2 DEF Owning
<1>. QED  BY <1>1, CacheInvariant, PTL

-----------------------------------------------------------------------------
(* The reference counts, and the cache and its disk as one memory *)

Refs(i) == {u \in Users : pc[u] # "idle" /\ cur[u] = i}
Pins(i) == {b \in logged : buf[i].block = b}

\* The rest of the typing.
BookInv == /\ logged \subseteq Blocks
           /\ blockno \in [Users -> Blocks \cup {NoBlock}]

\* The buffer of a user keeps its block while the user refers to it.
HeldInv == \A u \in Users : pc[u] # "idle" => blockno[u] = buf[cur[u]].block

\* A user that is past bread() has read its block, or found it read; only a
\* block that is not read is read.
ReadInv == \A u \in Users : pc[u] \in {"has", "writing"} => buf[cur[u]].valid
UnreadInv == \A u \in Users : pc[u] = "reading" => buf[cur[u]].valid = FALSE

\* A block of the log stays in the cache.
PinnedInv == \A b \in logged : \E i \in Bufs : buf[i].block = b

\* A buffer that is neither pinned nor being written agrees with the disk.
Settled(i) == /\ buf[i].valid /\ buf[i].block \in Blocks \ logged
              /\ \A u \in Users : pc[u] = "writing" => cur[u] # i
CleanInv == \A i \in Bufs : Settled(i) => buf[i].data = disk[buf[i].block]

\* Each buffer counts its users and its pin; finitely many users are at work.
CountInv ==
  /\ IsFiniteSet({u \in Users : pc[u] # "idle"})
  /\ \A i \in Bufs : buf[i].refcnt =
       Cardinality(Refs(i)) + (IF buf[i].block \in logged THEN 1 ELSE 0)

MInv == /\ BInv /\ BookInv /\ HeldInv /\ ReadInv /\ UnreadInv
        /\ PinnedInv /\ CleanInv /\ CountInv

-----------------------------------------------------------------------------
(* Counting *)

\* The users of a buffer are finitely many.
LEMMA RefsFinite ==
  ASSUME CountInv, NEW i \in Bufs
  PROVE  IsFiniteSet(Refs(i)) /\ Cardinality(Refs(i)) \in Nat
<1>1. Refs(i) \subseteq {u \in Users : pc[u] # "idle"}
  BY DEF Refs
<1>2. IsFiniteSet(Refs(i))
  BY <1>1, FS_Subset DEF CountInv
<1>. QED  BY <1>2, FS_CardinalityType

\* The log has at most one pin on a buffer.
LEMMA PinsCount ==
  ASSUME NEW i \in Bufs
  PROVE  Cardinality(Pins(i)) = IF buf[i].block \in logged THEN 1 ELSE 0
<1>1. CASE buf[i].block \in logged
  <2>1. Pins(i) = {buf[i].block}
    BY <1>1 DEF Pins
  <2>. QED  BY <1>1, <2>1, FS_Singleton
<1>2. CASE buf[i].block \notin logged
  <2>1. Pins(i) = {}
    BY <1>2 DEF Pins
  <2>. QED  BY <1>2, <2>1, FS_EmptySet
<1>. QED  BY <1>1, <1>2

\* A buffer that bget() may recycle has no user and no pin.
LEMMA UnusedIsFree ==
  ASSUME MInv, NEW i \in Bufs, buf[i].refcnt = 0
  PROVE  /\ \A u \in Users : pc[u] # "idle" => cur[u] # i
         /\ buf[i].block \notin logged
<1>1. IsFiniteSet(Refs(i)) /\ Cardinality(Refs(i)) \in Nat
  BY RefsFinite DEF MInv
<1>2. buf[i].refcnt = Cardinality(Refs(i)) + (IF buf[i].block \in logged THEN 1 ELSE 0)
  BY DEF MInv, CountInv
<1>3. Cardinality(Refs(i)) = 0 /\ buf[i].block \notin logged
  BY <1>1, <1>2
<1>4. Refs(i) = {}
  BY <1>1, <1>3, FS_EmptySet
<1>. QED  BY <1>3, <1>4 DEF Refs

\* Two users never have the same block: it has one buffer and that one owner.
LEMMA OneOwner ==
  ASSUME MInv, NEW u \in Users, NEW w \in Users,
         pc[u] \in Owning, pc[w] \in Owning, blockno[u] = blockno[w]
  PROVE  u = w
<1>1. /\ buf[cur[u]].block = buf[cur[w]].block /\ buf[cur[u]].block # NoBlock
      /\ cur[u] \in Bufs /\ cur[w] \in Bufs
  BY DEF MInv, HeldInv, BInv, TypeInv, BlockInv, Owning
<1>2. cur[u] = cur[w]
  BY <1>1 DEF MInv, BInv, OneBufPerBlock
<1>. QED  BY <1>1, <1>2 DEF MInv, BInv, OwnerInv

-----------------------------------------------------------------------------
(* The invariant holds at first, and every step keeps it *)

\* At first nothing is cached, pinned or in use.
LEMMA InitMInv == Init => MInv
<1> SUFFICES ASSUME Init PROVE MInv
  OBVIOUS
<1>1. {u \in Users : pc[u] # "idle"} = {} /\ \A i \in Bufs : Refs(i) = {}
  BY DEF Init, Refs
<1>2. IsFiniteSet({}) /\ Cardinality({}) = 0
  BY FS_EmptySet
<1>3. \A i \in Bufs : buf[i].refcnt = 0 /\ buf[i].block \notin logged
  BY DEF Init
<1>4. CountInv
  <2>1. \A i \in Bufs : Cardinality(Refs(i)) = 0
    BY <1>1, <1>2
  <2>2. \A i \in Bufs : buf[i].refcnt =
          Cardinality(Refs(i)) + (IF buf[i].block \in logged THEN 1 ELSE 0)
    BY <1>3, <2>1
  <2>. QED  BY <1>1, <1>2, <2>2 DEF CountInv
<1>5. BookInv /\ HeldInv /\ ReadInv /\ UnreadInv /\ PinnedInv
  BY DEF Init, BookInv, HeldInv, ReadInv, UnreadInv, PinnedInv
<1>6. CleanInv
  BY DEF Init, CleanInv, Settled
<1>. QED  BY <1>4, <1>5, <1>6, InitBInv DEF MInv

\* A step in which one user takes a buffer i that was its own or unused: what
\* the counts become.
LEMMA TakeCounts ==
  ASSUME MInv, NEW u \in Users, NEW i \in Bufs, pc[u] = "idle",
         pc' = [pc EXCEPT ![u] = "lock"], cur' = [cur EXCEPT ![u] = i],
         logged' = logged,
         \A j \in Bufs \ {i} : buf'[j] = buf[j],
         buf'[i].refcnt = buf[i].refcnt + 1,
         buf'[i].block \in logged <=> buf[i].block \in logged
  PROVE  CountInv'
<1> DEFINE busy == {w \in Users : pc[w] # "idle"}
<1>1. /\ pc'[u] # "idle" /\ cur'[u] = i
      /\ \A w \in Users \ {u} : pc'[w] = pc[w] /\ cur'[w] = cur[w]
  BY DEF MInv, BInv, TypeInv
<1>2. {w \in Users : pc[w] # "idle"}' = busy \cup {u}
  BY <1>1
<1>3. IsFiniteSet({w \in Users : pc[w] # "idle"}')
  BY <1>2, FS_AddElement DEF MInv, CountInv
<1>4. Refs(i)' = Refs(i) \cup {u} /\ u \notin Refs(i)
  BY <1>1 DEF Refs
<1>5. \A j \in Bufs \ {i} : Refs(j)' = Refs(j)
  BY <1>1 DEF Refs
<1>6. IsFiniteSet(Refs(i)) /\ Cardinality(Refs(i)) \in Nat
  BY RefsFinite DEF MInv
<1>7. Cardinality(Refs(i)') = Cardinality(Refs(i)) + 1
  BY <1>4, <1>6, FS_AddElement
<1>8. buf[i].refcnt = Cardinality(Refs(i)) + (IF buf[i].block \in logged THEN 1 ELSE 0)
  BY DEF MInv, CountInv
<1>9. buf'[i].refcnt = Cardinality(Refs(i)') + (IF buf'[i].block \in logged' THEN 1 ELSE 0)
  <2>1. CASE buf[i].block \in logged
    BY <2>1, <1>6, <1>7, <1>8
  <2>2. CASE buf[i].block \notin logged
    BY <2>2, <1>6, <1>7, <1>8
  <2>. QED  BY <2>1, <2>2
<1>10. ASSUME NEW j \in Bufs
       PROVE  buf'[j].refcnt
                = Cardinality(Refs(j)') + (IF buf'[j].block \in logged' THEN 1 ELSE 0)
  <2>1. CASE j # i
    BY <2>1, <1>5 DEF MInv, CountInv
  <2>. QED  BY <2>1, <1>9
<1>. QED  BY <1>3, <1>10 DEF CountInv

\* bget() finds the block: one more user of the buffer.
LEMMA HitMInv ==
  ASSUME MInv, NEW u \in Users, NEW b \in Blocks, Hit(u, b)
  PROVE  MInv'
<1>1. PICK i \in Bufs : /\ buf[i].block = b
                        /\ buf' = [buf EXCEPT ![i].refcnt = @ + 1]
                        /\ cur' = [cur EXCEPT ![u] = i]
  BY DEF Hit, Found, Cached
<1>2. /\ pc[u] = "idle" /\ pc' = [pc EXCEPT ![u] = "lock"]
      /\ blockno' = [blockno EXCEPT ![u] = b]
      /\ disk' = disk /\ logged' = logged
  BY DEF Hit, Move
<1>3. /\ \A j \in Bufs : /\ buf'[j].block = buf[j].block /\ buf'[j].valid = buf[j].valid
                         /\ buf'[j].data = buf[j].data
      /\ \A j \in Bufs \ {i} : buf'[j] = buf[j]
      /\ buf'[i].refcnt = buf[i].refcnt + 1
  BY <1>1 DEF MInv, BInv, TypeInv, BufType
<1>4. BookInv' /\ PinnedInv'
  BY <1>2, <1>3 DEF MInv, BookInv, PinnedInv
<1>5. HeldInv' /\ ReadInv' /\ UnreadInv'
  BY <1>1, <1>2, <1>3 DEF MInv, HeldInv, ReadInv, UnreadInv, BookInv, BInv, TypeInv
<1>6. CleanInv'
  BY <1>1, <1>2, <1>3 DEF MInv, CleanInv, Settled, BInv, TypeInv
<1>7. CountInv'
  BY <1>1, <1>2, <1>3, TakeCounts
<1>8. BInv'
  BY HitBInv DEF MInv
<1>. QED  BY <1>4, <1>5, <1>6, <1>7, <1>8 DEF MInv

\* bget() recycles a buffer that nobody uses and that the log has not pinned.
LEMMA RecycleMInv ==
  ASSUME MInv, NEW u \in Users, NEW b \in Blocks, Recycle(u, b)
  PROVE  MInv'
<1>1. PICK i \in Bufs :
        /\ buf[i].refcnt = 0
        /\ buf' = [buf EXCEPT ![i].block = b, ![i].valid = FALSE, ![i].refcnt = 1]
        /\ cur' = [cur EXCEPT ![u] = i]
  BY DEF Recycle, LeastRecent, Unused
<1>2. /\ pc[u] = "idle" /\ pc' = [pc EXCEPT ![u] = "lock"]
      /\ blockno' = [blockno EXCEPT ![u] = b]
      /\ disk' = disk /\ logged' = logged
      /\ \A j \in Bufs : buf[j].block # b
  BY DEF Recycle, Move, Found, Cached
<1>3. /\ \A j \in Bufs \ {i} : buf'[j] = buf[j]
      /\ buf'[i].block = b /\ buf'[i].valid = FALSE /\ buf'[i].refcnt = 1
  BY <1>1 DEF MInv, BInv, TypeInv, BufType
<1>4. /\ \A w \in Users : pc[w] # "idle" => cur[w] # i
      /\ buf[i].block \notin logged
  BY <1>1, UnusedIsFree
<1>5. b \notin logged
  BY <1>2 DEF MInv, PinnedInv
<1>6. BookInv' /\ PinnedInv'
  BY <1>2, <1>3, <1>4 DEF MInv, BookInv, PinnedInv
<1>7. HeldInv' /\ ReadInv' /\ UnreadInv'
  BY <1>1, <1>2, <1>3, <1>4 DEF MInv, HeldInv, ReadInv, UnreadInv, BookInv, BInv, TypeInv
<1>8. CleanInv'
  BY <1>1, <1>2, <1>3 DEF MInv, CleanInv, Settled, BInv, TypeInv
<1>9. CountInv'
  <2>1. buf'[i].refcnt = buf[i].refcnt + 1
    BY <1>1, <1>3
  <2>. QED  BY <1>1, <1>2, <1>3, <1>4, <1>5, <2>1, TakeCounts
<1>10. BInv'
  BY RecycleBInv DEF MInv
<1>. QED  BY <1>6, <1>7, <1>8, <1>9, <1>10 DEF MInv

\* A step that moves a user from one point of its call to another changes no
\* set of users.
LEMMA SameRefs ==
  ASSUME cur' = cur, \A w \in Users : pc'[w] = "idle" <=> pc[w] = "idle"
  PROVE  /\ \A i \in Bufs : Refs(i)' = Refs(i)
         /\ {w \in Users : pc[w] # "idle"}' = {w \in Users : pc[w] # "idle"}
BY DEF Refs

\* Nor does it change the counts, if it changes no count, no block and no pin.
LEMMA SameCounts ==
  ASSUME MInv, cur' = cur, \A w \in Users : pc'[w] = "idle" <=> pc[w] = "idle",
         logged' = logged,
         \A i \in Bufs : buf'[i].block = buf[i].block /\ buf'[i].refcnt = buf[i].refcnt
  PROVE  CountInv'
<1>1. /\ \A i \in Bufs : Refs(i)' = Refs(i)
      /\ {w \in Users : pc[w] # "idle"}' = {w \in Users : pc[w] # "idle"}
  BY SameRefs
<1>2. ASSUME NEW i \in Bufs
      PROVE  buf'[i].refcnt
               = Cardinality(Refs(i)') + (IF buf'[i].block \in logged' THEN 1 ELSE 0)
  BY <1>1 DEF MInv, CountInv
<1>. QED  BY <1>1, <1>2 DEF MInv, CountInv

\* A step that leaves the log, the disk and what the buffers hold alone, and
\* lets no user past a write or into a buffer that is not read.
LEMMA QuietMInv ==
  ASSUME MInv, BInv', cur' = cur, blockno' = blockno, logged' = logged, disk' = disk,
         \A i \in Bufs : /\ buf'[i].block = buf[i].block /\ buf'[i].valid = buf[i].valid
                         /\ buf'[i].data = buf[i].data /\ buf'[i].refcnt = buf[i].refcnt,
         \A w \in Users : /\ pc'[w] = "idle" <=> pc[w] = "idle"
                          /\ pc[w] = "writing" => pc'[w] = "writing"
                          /\ pc'[w] \in {"has", "writing"} => buf[cur[w]].valid
                          /\ pc'[w] = "reading" => buf[cur[w]].valid = FALSE
  PROVE  MInv'
<1>1. \A w \in Users : cur[w] \in Bufs
  BY DEF MInv, BInv, TypeInv
<1>2. BookInv' /\ PinnedInv' /\ HeldInv' /\ ReadInv' /\ UnreadInv'
  BY <1>1 DEF MInv, BookInv, PinnedInv, HeldInv, ReadInv, UnreadInv
<1>3. CleanInv'
  BY DEF MInv, CleanInv, Settled
<1>4. CountInv'
  BY SameCounts
<1>. QED  BY <1>2, <1>3, <1>4 DEF MInv

\* acquiresleep(), its sleepers, the start of a write of the log and
\* releasesleep() change no contents and no count.
LEMMA SleepMInv ==
  ASSUME MInv, NEW u \in Users,
         \/ SleepOnLock(u) \/ AcquireSleep(u) \/ Kill(u) \/ WriteStart(u) \/ ReleaseSleep(u)
  PROVE  MInv'
<1>1. cur[u] \in Bufs /\ buf \in [Bufs -> BufType] /\ pc \in [Users -> Points]
  BY DEF MInv, BInv, TypeInv
<1>2. BInv'
  BY LockBInv, ReleaseBInv, WorkBInv DEF MInv
<1>3. ASSUME NEW w \in Users
      PROVE  /\ pc[w] \in {"has", "writing"} => buf[cur[w]].valid
             /\ pc[w] = "reading" => buf[cur[w]].valid = FALSE
  <2>1. pc[w] \in {"has", "writing"} => buf[cur[w]].valid
    BY DEF MInv, ReadInv
  <2>2. pc[w] = "reading" => buf[cur[w]].valid = FALSE
    BY DEF MInv, UnreadInv
  <2>. QED  BY <2>1, <2>2
<1>4. CASE SleepOnLock(u) \/ Kill(u) \/ WriteStart(u)
  <2>1. /\ buf' = buf /\ cur' = cur /\ disk' = disk /\ blockno' = blockno /\ logged' = logged
        /\ \/ pc[u] = "lock" /\ pc' = [pc EXCEPT ![u] = "asleep"]
           \/ pc[u] = "asleep" /\ pc' = [pc EXCEPT ![u] = "lock"]
           \/ pc[u] = "has" /\ pc' = [pc EXCEPT ![u] = "writing"]
    BY <1>4 DEF SleepOnLock, Kill, WriteStart, Move, cacheVars, userVars
  <2>2. \A w \in Users : /\ pc'[w] = "idle" <=> pc[w] = "idle"
                         /\ pc[w] = "writing" => pc'[w] = "writing"
                         /\ pc'[w] \in {"has", "writing"} => buf[cur[w]].valid
                         /\ pc'[w] = "reading" => buf[cur[w]].valid = FALSE
    BY <1>1, <1>3, <2>1
  <2>. QED  BY <1>2, <2>1, <2>2, QuietMInv
<1>5. CASE AcquireSleep(u)
  <2>1. /\ pc[u] = "lock" /\ buf' = [buf EXCEPT ![cur[u]].owner = u]
        /\ pc' = [pc EXCEPT ![u] = IF buf[cur[u]].valid THEN "has" ELSE "reading"]
        /\ cur' = cur /\ disk' = disk /\ blockno' = blockno /\ logged' = logged
    BY <1>5 DEF AcquireSleep, Move, userVars
  <2>2. \A i \in Bufs : /\ buf'[i].block = buf[i].block /\ buf'[i].valid = buf[i].valid
                        /\ buf'[i].data = buf[i].data /\ buf'[i].refcnt = buf[i].refcnt
    BY <1>1, <2>1 DEF BufType
  <2>3. \A w \in Users : /\ pc'[w] = "idle" <=> pc[w] = "idle"
                         /\ pc[w] = "writing" => pc'[w] = "writing"
                         /\ pc'[w] \in {"has", "writing"} => buf[cur[w]].valid
                         /\ pc'[w] = "reading" => buf[cur[w]].valid = FALSE
    <3>1. CASE buf[cur[u]].valid = TRUE
      BY <1>1, <1>3, <2>1, <3>1
    <3>2. CASE buf[cur[u]].valid = FALSE
      BY <1>1, <1>3, <2>1, <3>2
    <3>. QED  BY <1>1, <3>1, <3>2 DEF BufType
  <2>. QED  BY <1>2, <2>1, <2>2, <2>3, QuietMInv
<1>6. CASE ReleaseSleep(u)
  <2>1. /\ pc[u] = "has" /\ buf' = [buf EXCEPT ![cur[u]].owner = NoUser]
        /\ pc' = [w \in Users |-> IF w = u THEN "put"
                                  ELSE IF pc[w] = "asleep" /\ cur[w] = cur[u] THEN "lock"
                                  ELSE pc[w]]
        /\ cur' = cur /\ disk' = disk /\ blockno' = blockno /\ logged' = logged
    BY <1>6 DEF ReleaseSleep, userVars
  <2>2. \A i \in Bufs : /\ buf'[i].block = buf[i].block /\ buf'[i].valid = buf[i].valid
                        /\ buf'[i].data = buf[i].data /\ buf'[i].refcnt = buf[i].refcnt
    BY <1>1, <2>1 DEF BufType
  <2>3. \A w \in Users : /\ pc'[w] = "idle" <=> pc[w] = "idle"
                         /\ pc[w] = "writing" => pc'[w] = "writing"
                         /\ pc'[w] \in {"has", "writing"} => buf[cur[w]].valid
                         /\ pc'[w] = "reading" => buf[cur[w]].valid = FALSE
    BY <1>1, <1>3, <2>1
  <2>. QED  BY <1>2, <2>1, <2>2, <2>3, QuietMInv
<1>. QED  BY <1>4, <1>5, <1>6

\* What a user that has its buffer, or is reading it, knows of it.
LEMMA Mine ==
  ASSUME MInv, NEW u \in Users, pc[u] \in Owning
  PROVE  /\ cur[u] \in Bufs /\ buf[cur[u]] \in BufType /\ blockno[u] \in Blocks
         /\ buf[cur[u]].block = blockno[u]
         /\ \A i \in Bufs : buf[i].block = blockno[u] => i = cur[u]
         /\ \A w \in Users : pc[w] \in Owning /\ cur[w] = cur[u] => w = u
<1>1. /\ cur[u] \in Bufs /\ buf[cur[u]] \in BufType
      /\ buf[cur[u]].block # NoBlock /\ buf[cur[u]].block = blockno[u]
  BY DEF MInv, HeldInv, BInv, TypeInv, BlockInv, Owning
<1>2. blockno[u] \in Blocks
  BY <1>1 DEF BufType
<1>3. \A i \in Bufs : buf[i].block = blockno[u] => i = cur[u]
  BY <1>1 DEF MInv, BInv, OneBufPerBlock
<1>4. \A w \in Users : pc[w] \in Owning /\ cur[w] = cur[u] => w = u
  BY <1>1 DEF MInv, BInv, OwnerInv
<1>. QED  BY <1>1, <1>2, <1>3, <1>4

\* The read of a block ends.
LEMMA ReadMInv ==
  ASSUME MInv, NEW u \in Users, ReadDone(u)
  PROVE  MInv'
<1>1. /\ pc[u] = "reading" /\ pc' = [pc EXCEPT ![u] = "has"]
      /\ buf' = [buf EXCEPT ![cur[u]].data = disk[buf[cur[u]].block], ![cur[u]].valid = TRUE]
      /\ cur' = cur /\ disk' = disk /\ blockno' = blockno /\ logged' = logged
  BY DEF ReadDone, Move, userVars
<1>2. /\ cur[u] \in Bufs /\ buf \in [Bufs -> BufType] /\ pc \in [Users -> Points]
  BY DEF MInv, BInv, TypeInv
<1>3. /\ \A i \in Bufs : buf'[i].block = buf[i].block /\ buf'[i].refcnt = buf[i].refcnt
      /\ \A i \in Bufs \ {cur[u]} : buf'[i] = buf[i]
      /\ buf'[cur[u]].data = disk[buf[cur[u]].block] /\ buf'[cur[u]].valid
  BY <1>1, <1>2 DEF BufType
<1>4. BookInv' /\ HeldInv' /\ PinnedInv'
  BY <1>1, <1>2, <1>3 DEF MInv, BookInv, HeldInv, PinnedInv, BInv, TypeInv
<1>5. ReadInv' /\ UnreadInv'
  <2>1. \A w \in Users \ {u} : pc[w] \in Owning => cur[w] # cur[u]
    BY <1>1, Mine DEF Owning
  <2>. QED  BY <1>1, <1>2, <1>3, <2>1 DEF MInv, ReadInv, UnreadInv, BInv, TypeInv, Owning
<1>6. CleanInv'
  <2> SUFFICES ASSUME NEW i \in Bufs, Settled(i)' PROVE buf'[i].data = disk'[buf'[i].block]
    BY DEF CleanInv
  <2>1. CASE i = cur[u]
    BY <1>1, <1>3, <2>1
  <2>2. CASE i # cur[u]
    <3>1. Settled(i)
      BY <1>1, <1>2, <1>3, <2>2 DEF Settled
    <3>. QED  BY <1>1, <1>3, <2>2, <3>1 DEF MInv, CleanInv
  <2>. QED  BY <2>1, <2>2
<1>7. CountInv'
  <2>1. \A w \in Users : pc'[w] = "idle" <=> pc[w] = "idle"
    BY <1>1, <1>2
  <2>. QED  BY <1>1, <1>3, <2>1, SameCounts
<1>8. BInv'
  BY WorkBInv DEF MInv
<1>. QED  BY <1>4, <1>5, <1>6, <1>7, <1>8 DEF MInv

\* log_write() pins the block, once; a write through is under way.
LEMMA ChangeMInv ==
  ASSUME MInv, NEW u \in Users, NEW v \in Vals, Change(u, v) \/ WriteThrough(u, v)
  PROVE  MInv'
<1> DEFINE i == cur[u]
           b == blockno[u]
<1>1. /\ pc[u] = "has" /\ cur' = cur /\ disk' = disk /\ blockno' = blockno
      /\ pc \in [Users -> Points] /\ buf \in [Bufs -> BufType]
  BY DEF Change, WriteThrough, userVars, MInv, BInv, TypeInv
<1>2. /\ i \in Bufs /\ b \in Blocks /\ buf[i].block = b /\ buf[i].refcnt \in Int
      /\ \A j \in Bufs : buf[j].block = b => j = i
      /\ \A w \in Users : pc[w] \in Owning /\ cur[w] = i => w = u
  BY <1>1, Mine DEF Owning, BufType
<1>3. CASE Change(u, v)
  <2>1. /\ pc' = pc /\ logged' = logged \cup {b}
        /\ buf' = [buf EXCEPT ![i].data = v, ![i].refcnt = IF b \in logged THEN @ ELSE @ + 1]
    BY <1>3 DEF Change
  <2>2. /\ \A j \in Bufs \ {i} : buf'[j] = buf[j]
        /\ buf'[i].block = b /\ buf'[i].valid = buf[i].valid
        /\ buf'[i].refcnt = IF b \in logged THEN buf[i].refcnt ELSE buf[i].refcnt + 1
    BY <1>1, <1>2, <2>1 DEF BufType
  <2>3. BookInv' /\ HeldInv' /\ PinnedInv' /\ ReadInv' /\ UnreadInv'
    BY <1>1, <1>2, <2>1, <2>2 DEF MInv, BookInv, HeldInv, PinnedInv, ReadInv, UnreadInv,
             BInv, TypeInv
  <2>4. CleanInv'
    <3> SUFFICES ASSUME NEW j \in Bufs, Settled(j)' PROVE buf'[j].data = disk'[buf'[j].block]
      BY DEF CleanInv
    <3>1. j # i /\ Settled(j)
      BY <1>1, <2>1, <2>2 DEF Settled
    <3>. QED  BY <1>1, <2>2, <3>1 DEF MInv, CleanInv
  <2>5. CountInv'
    <3>1. /\ \A j \in Bufs : Refs(j)' = Refs(j)
          /\ {w \in Users : pc[w] # "idle"}' = {w \in Users : pc[w] # "idle"}
      BY <1>1, <2>1 DEF Refs
    <3>2. ASSUME NEW j \in Bufs
          PROVE  buf'[j].refcnt
                   = Cardinality(Refs(j)) + (IF buf'[j].block \in logged' THEN 1 ELSE 0)
      <4>1. buf[j].refcnt = Cardinality(Refs(j)) + (IF buf[j].block \in logged THEN 1 ELSE 0)
        BY DEF MInv, CountInv
      <4>2. CASE j # i
        <5>1. buf[j].block # b /\ buf'[j] = buf[j]
          BY <1>2, <2>2, <4>2
        <5>. QED  BY <4>1, <5>1, <2>1
      <4>3. CASE j = i
        <5>1. Cardinality(Refs(j)) \in Nat
          BY RefsFinite DEF MInv
        <5>. QED  BY <4>1, <4>3, <5>1, <1>2, <2>1, <2>2
      <4>. QED  BY <4>2, <4>3
    <3>. QED  BY <3>1, <3>2 DEF MInv, CountInv
  <2>6. BInv'
    BY <1>3, WorkBInv DEF MInv
  <2>. QED  BY <2>3, <2>4, <2>5, <2>6 DEF MInv
<1>4. CASE WriteThrough(u, v)
  <2>1. /\ pc' = [pc EXCEPT ![u] = "writing"] /\ logged' = logged
        /\ buf' = [buf EXCEPT ![i].data = v]
    BY <1>4 DEF WriteThrough, Move
  <2>2. /\ \A j \in Bufs \ {i} : buf'[j] = buf[j]
        /\ buf'[i].block = b /\ buf'[i].valid = buf[i].valid /\ buf'[i].refcnt = buf[i].refcnt
    BY <1>1, <1>2, <2>1 DEF BufType
  <2>3. BookInv' /\ HeldInv' /\ PinnedInv' /\ ReadInv' /\ UnreadInv'
    BY <1>1, <1>2, <2>1, <2>2 DEF MInv, BookInv, HeldInv, PinnedInv, ReadInv, UnreadInv,
             BInv, TypeInv
  <2>4. CleanInv'
    <3> SUFFICES ASSUME NEW j \in Bufs, Settled(j)' PROVE buf'[j].data = disk'[buf'[j].block]
      BY DEF CleanInv
    <3>1. pc'[u] = "writing" /\ \A w \in Users : pc[w] = "writing" => pc'[w] = "writing"
      BY <1>1, <2>1
    <3>2. j # i
      BY <1>1, <3>1 DEF Settled
    <3>3. Settled(j)
      BY <1>1, <2>1, <2>2, <3>1, <3>2 DEF Settled
    <3>. QED  BY <1>1, <2>2, <3>2, <3>3 DEF MInv, CleanInv
  <2>5. CountInv'
    <3>1. \A w \in Users : pc'[w] = "idle" <=> pc[w] = "idle"
      BY <1>1, <2>1
    <3>2. \A j \in Bufs : buf'[j].block = buf[j].block /\ buf'[j].refcnt = buf[j].refcnt
      BY <1>2, <2>2
    <3>. QED  BY <1>1, <2>1, <3>1, <3>2, SameCounts
  <2>6. BInv'
    BY <1>4, WorkBInv DEF MInv
  <2>. QED  BY <2>3, <2>4, <2>5, <2>6 DEF MInv
<1>. QED  BY <1>3, <1>4

\* A write ends: the block on the disk is what the buffer holds, and its pin goes.
LEMMA WriteMInv ==
  ASSUME MInv, NEW u \in Users, WriteDone(u)
  PROVE  MInv'
<1> DEFINE i == cur[u]
           b == blockno[u]
<1>1. /\ pc[u] = "writing" /\ pc' = [pc EXCEPT ![u] = "has"]
      /\ cur' = cur /\ blockno' = blockno /\ logged' = logged \ {b}
      /\ disk' = [disk EXCEPT ![buf[i].block] = buf[i].data]
      /\ buf' = [buf EXCEPT ![i].refcnt = IF b \in logged THEN @ - 1 ELSE @]
      /\ pc \in [Users -> Points] /\ buf \in [Bufs -> BufType]
      /\ disk \in [Blocks -> Vals \cup {Blank}]
  BY DEF WriteDone, Move, userVars, MInv, BInv, TypeInv
<1>2. /\ i \in Bufs /\ b \in Blocks /\ buf[i].block = b /\ buf[i].refcnt \in Int
      /\ \A j \in Bufs : buf[j].block = b => j = i
  BY <1>1, Mine DEF Owning, BufType
<1>3. /\ \A j \in Bufs : /\ buf'[j].block = buf[j].block /\ buf'[j].valid = buf[j].valid
                         /\ buf'[j].data = buf[j].data
      /\ \A j \in Bufs \ {i} : buf'[j] = buf[j]
      /\ buf'[i].refcnt = IF b \in logged THEN buf[i].refcnt - 1 ELSE buf[i].refcnt
  BY <1>1, <1>2 DEF BufType
<1>4. BookInv' /\ HeldInv' /\ PinnedInv' /\ ReadInv' /\ UnreadInv'
  BY <1>1, <1>2, <1>3 DEF MInv, BookInv, HeldInv, PinnedInv, ReadInv, UnreadInv, BInv, TypeInv
<1>5. CleanInv'
  <2> SUFFICES ASSUME NEW j \in Bufs, Settled(j)' PROVE buf'[j].data = disk'[buf'[j].block]
    BY DEF CleanInv
  <2>1. CASE j = i
    BY <1>1, <1>2, <1>3, <2>1
  <2>2. CASE j # i
    <3>1. buf[j].block # b
      BY <1>2, <2>2
    <3>2. \A w \in Users : pc[w] = "writing" => w = u \/ pc'[w] = "writing"
      BY <1>1
    <3>3. Settled(j)
      BY <1>1, <1>3, <2>2, <3>1, <3>2 DEF Settled
    <3>4. buf[j].data = disk[buf[j].block] /\ buf[j].block \in Blocks
      BY <3>3 DEF MInv, CleanInv, Settled
    <3>. QED  BY <1>1, <1>2, <1>3, <3>1, <3>4
  <2>. QED  BY <2>1, <2>2
<1>6. CountInv'
  <2>1. \A w \in Users : pc'[w] = "idle" <=> pc[w] = "idle"
    BY <1>1
  <2>2. /\ \A j \in Bufs : Refs(j)' = Refs(j)
        /\ {w \in Users : pc[w] # "idle"}' = {w \in Users : pc[w] # "idle"}
    BY <1>1, <2>1, SameRefs
  <2>3. ASSUME NEW j \in Bufs
        PROVE  buf'[j].refcnt
                 = Cardinality(Refs(j)) + (IF buf'[j].block \in logged' THEN 1 ELSE 0)
    <3>1. buf[j].refcnt = Cardinality(Refs(j)) + (IF buf[j].block \in logged THEN 1 ELSE 0)
      BY DEF MInv, CountInv
    <3>2. CASE j # i
      BY <3>1, <3>2, <1>1, <1>2, <1>3
    <3>3. CASE j = i
      <4>1. Cardinality(Refs(j)) \in Nat
        BY RefsFinite DEF MInv
      <4>. QED  BY <3>1, <3>3, <4>1, <1>1, <1>2, <1>3
    <3>. QED  BY <3>2, <3>3
  <2>. QED  BY <2>2, <2>3 DEF MInv, CountInv
<1>7. BInv'
  BY WorkBInv DEF MInv
<1>. QED  BY <1>4, <1>5, <1>6, <1>7 DEF MInv

\* brelse() gives its reference back.
LEMMA PutMInv ==
  ASSUME MInv, NEW u \in Users, Put(u)
  PROVE  MInv'
<1>0. PICK i \in Bufs : i = cur[u]
  BY DEF MInv, BInv, TypeInv
<1>1. /\ pc[u] = "put" /\ pc' = [pc EXCEPT ![u] = "idle"] /\ cur' = [cur EXCEPT ![u] = 1]
      /\ blockno' = [blockno EXCEPT ![u] = NoBlock]
      /\ disk' = disk /\ logged' = logged
      /\ buf' = [buf EXCEPT ![i].refcnt = @ - 1]
      /\ pc \in [Users -> Points] /\ buf \in [Bufs -> BufType] /\ cur \in [Users -> Bufs]
  BY <1>0 DEF Put, Move, MInv, BInv, TypeInv
<1>2. i \in Bufs /\ buf[i].refcnt \in Int
  BY <1>1 DEF BufType
<1>3. /\ \A j \in Bufs : /\ buf'[j].block = buf[j].block /\ buf'[j].valid = buf[j].valid
                         /\ buf'[j].data = buf[j].data
      /\ \A j \in Bufs \ {i} : buf'[j] = buf[j]
      /\ buf'[i].refcnt = buf[i].refcnt - 1
  BY <1>1, <1>2 DEF BufType
<1>4. /\ pc'[u] = "idle"
      /\ \A w \in Users \ {u} : /\ pc'[w] = pc[w] /\ cur'[w] = cur[w]
                                /\ blockno'[w] = blockno[w]
  BY <1>1 DEF MInv, BookInv
<1>5. BookInv' /\ PinnedInv'
  BY <1>1, <1>3 DEF MInv, BookInv, PinnedInv
<1>6. HeldInv' /\ ReadInv' /\ UnreadInv'
  BY <1>1, <1>3, <1>4 DEF MInv, HeldInv, ReadInv, UnreadInv
<1>7. CleanInv'
  BY <1>1, <1>3, <1>4 DEF MInv, CleanInv, Settled
<1>8. CountInv'
  <2> DEFINE busy == {w \in Users : pc[w] # "idle"}
  <2>1. {w \in Users : pc[w] # "idle"}' = busy \ {u}
    BY <1>4
  <2>2. IsFiniteSet({w \in Users : pc[w] # "idle"}')
    BY <2>1, FS_RemoveElement DEF MInv, CountInv
  <2>3. Refs(i)' = Refs(i) \ {u} /\ u \in Refs(i)
    BY <1>0, <1>1, <1>4 DEF Refs
  <2>4. \A j \in Bufs \ {i} : Refs(j)' = Refs(j)
    BY <1>0, <1>1, <1>4 DEF Refs
  <2>5. IsFiniteSet(Refs(i)) /\ Cardinality(Refs(i)) \in Nat
    BY <1>2, RefsFinite DEF MInv
  <2>6. Cardinality(Refs(i)') = Cardinality(Refs(i)) - 1
    BY <2>3, <2>5, FS_RemoveElement
  <2>7. ASSUME NEW j \in Bufs
        PROVE  buf'[j].refcnt
                 = Cardinality(Refs(j)') + (IF buf'[j].block \in logged' THEN 1 ELSE 0)
    <3>1. buf[j].refcnt = Cardinality(Refs(j)) + (IF buf[j].block \in logged THEN 1 ELSE 0)
      BY DEF MInv, CountInv
    <3>2. CASE j # i
      BY <3>1, <3>2, <2>4, <1>1, <1>3
    <3>3. CASE j = i
      BY <3>1, <3>3, <2>5, <2>6, <1>1, <1>2, <1>3
    <3>. QED  BY <3>2, <3>3
  <2>. QED  BY <2>2, <2>7 DEF CountInv
<1>9. BInv'
  BY WorkBInv DEF MInv
<1>. QED  BY <1>5, <1>6, <1>7, <1>8, <1>9 DEF MInv

\* Every step of the cache preserves the invariant.
LEMMA NextMInv == MInv /\ [Next]_vars => MInv'
<1> SUFFICES ASSUME MInv, [Next]_vars PROVE MInv'
  OBVIOUS
<1>1. CASE UNCHANGED <<cacheVars, logged, disk, pc, userVars>>
  <2>1. buf' = buf /\ logged' = logged /\ disk' = disk /\ pc' = pc
        /\ cur' = cur /\ blockno' = blockno
    BY <1>1 DEF cacheVars, userVars
  <2>2. BInv'
    BY <2>1 DEF MInv, BInv, TypeInv, BlockInv, OwnerInv, SleepInv, OneBufPerBlock
  <2>3. \A w \in Users : /\ pc[w] \in {"has", "writing"} => buf[cur[w]].valid
                         /\ pc[w] = "reading" => buf[cur[w]].valid = FALSE
    <3>1. \A w \in Users : pc[w] \in {"has", "writing"} => buf[cur[w]].valid
      BY DEF MInv, ReadInv
    <3>2. \A w \in Users : pc[w] = "reading" => buf[cur[w]].valid = FALSE
      BY DEF MInv, UnreadInv
    <3>. QED  BY <3>1, <3>2
  <2>. QED  BY <2>1, <2>2, <2>3, QuietMInv
<1>2. CASE UNCHANGED vars
  BY <1>1, <1>2 DEF vars
<1>3. CASE Next
  <2>1. CASE Halted
    BY <2>1, <1>2 DEF Halted
  <2>2. CASE \E u \in Users, b \in Blocks : NoBuffers(u, b)
    BY <2>2, <1>1 DEF NoBuffers
  <2>3. CASE \E u \in Users, b \in Blocks : Hit(u, b) \/ Recycle(u, b)
    BY <2>3, HitMInv, RecycleMInv
  <2>4. CASE \E u \in Users : \/ SleepOnLock(u) \/ AcquireSleep(u) \/ Kill(u)
                              \/ WriteStart(u) \/ ReleaseSleep(u)
    BY <2>4, SleepMInv
  <2>5. CASE \E u \in Users : ReadDone(u) \/ WriteDone(u) \/ Put(u)
    BY <2>5, ReadMInv, WriteMInv, PutMInv
  <2>6. CASE \E u \in Users, v \in Vals : Change(u, v) \/ WriteThrough(u, v)
    BY <2>6, ChangeMInv
  <2>. QED  BY <1>3, <2>1, <2>2, <2>3, <2>4, <2>5, <2>6 DEF Next
<1>. QED  BY <1>2, <1>3

\* MInv holds in every reachable state.
THEOREM MemoryInvariant == Spec => []MInv
BY InitMInv, NextMInv, PTL DEF Spec

\* The reference counts are exact: a buffer is recycled as soon as, and not
\* before, nobody waits for it, has it or has pinned it (bio.c:72, bio.c:124).
THEOREM RefsAreExact == Spec => []RefsMatch
<1>1. MInv => RefsMatch
  BY PinsCount DEF MInv, CountInv, RefsMatch, Refs, Pins
<1>. QED  BY <1>1, MemoryInvariant, PTL

-----------------------------------------------------------------------------
(* The cache and the disk are one memory *)

Mem == [b \in Blocks |-> Latest(b)]
HeldBy == [u \in Users |-> IF u \in Having THEN blockno[u] ELSE NoBlock]
View == [u \in Users |-> IF u \in Having THEN buf[cur[u]].data ELSE Blank]

\* A step that BlockMemory does not see.
Unseen == Mem' = Mem /\ HeldBy' = HeldBy /\ View' = View

\* A block that is read is what its buffer holds, now and after a step.
LEMMA LatestCached ==
  ASSUME NEW i \in Bufs, NEW b
  PROVE  /\ MInv /\ b \in Blocks /\ buf[i].block = b /\ buf[i].valid => Latest(b) = buf[i].data
         /\ MInv' /\ b \in Blocks /\ buf'[i].block = b /\ buf'[i].valid
              => Latest(b)' = buf'[i].data
<1>1. ASSUME MInv, b \in Blocks, buf[i].block = b, buf[i].valid PROVE Latest(b) = buf[i].data
  <2>1. {j \in Cached(b) : buf[j].valid} = {i}
    BY <1>1 DEF Cached, MInv, BInv, OneBufPerBlock
  <2>2. (CHOOSE j \in {i} : TRUE) = i
    OBVIOUS
  <2>. QED  BY <2>1, <2>2 DEF Latest
<1>2. ASSUME MInv', b \in Blocks, buf'[i].block = b, buf'[i].valid
      PROVE  Latest(b)' = buf'[i].data
  <2>1. {j \in Cached(b)' : buf'[j].valid} = {i}
    BY <1>2 DEF Cached, MInv, BInv, OneBufPerBlock
  <2>2. (CHOOSE j \in {i} : TRUE) = i
    OBVIOUS
  <2>. QED  BY <2>1, <2>2 DEF Latest
<1>. QED  BY <1>1, <1>2

\* A block that is not read is what the disk holds.
LEMMA LatestOnDisk ==
  ASSUME NEW b
  PROVE  /\ (\A i \in Bufs : buf[i].block = b => ~buf[i].valid) => Latest(b) = disk[b]
         /\ (\A i \in Bufs : buf'[i].block = b => ~buf'[i].valid) => Latest(b)' = disk'[b]
<1>1. ASSUME \A i \in Bufs : buf[i].block = b => ~buf[i].valid PROVE Latest(b) = disk[b]
  <2>1. {j \in Cached(b) : buf[j].valid} = {}
    BY <1>1 DEF Cached
  <2>. QED  BY <2>1 DEF Latest
<1>2. ASSUME \A i \in Bufs : buf'[i].block = b => ~buf'[i].valid PROVE Latest(b)' = disk'[b]
  <2>1. {j \in Cached(b)' : buf'[j].valid} = {}
    BY <1>2 DEF Cached
  <2>. QED  BY <2>1 DEF Latest
<1>. QED  BY <1>1, <1>2

\* A step that leaves alone the buffers of a block and its place on the disk
\* does not change the block.
LEMMA LatestSame ==
  ASSUME MInv, MInv', NEW b \in Blocks, disk'[b] = disk[b],
         \A i \in Bufs : /\ buf'[i].block = b /\ buf'[i].valid
                              <=> buf[i].block = b /\ buf[i].valid
                         /\ buf[i].block = b => buf'[i].data = buf[i].data
  PROVE  Latest(b)' = Latest(b)
<1>1. CASE \E i \in Bufs : buf[i].block = b /\ buf[i].valid
  <2>1. PICK i \in Bufs : buf[i].block = b /\ buf[i].valid
    BY <1>1
  <2>2. buf'[i].block = b /\ buf'[i].valid /\ buf'[i].data = buf[i].data
    BY <2>1
  <2>. QED  BY <2>1, <2>2, LatestCached
<1>2. CASE \A i \in Bufs : buf[i].block = b => ~buf[i].valid
  <2>1. \A i \in Bufs : buf'[i].block = b => ~buf'[i].valid
    BY <1>2
  <2>. QED  BY <1>2, <2>1, LatestOnDisk
<1>. QED  BY <1>1, <1>2

\* A step is not seen if it changes no block and nothing that a user has.
LEMMA NotSeen ==
  ASSUME \A b \in Blocks : Latest(b)' = Latest(b),
         \A u \in Users : /\ pc'[u] \in {"has", "writing"} <=> pc[u] \in {"has", "writing"}
                          /\ pc[u] \in {"has", "writing"} =>
                               /\ blockno'[u] = blockno[u]
                               /\ buf'[cur'[u]].data = buf[cur[u]].data
  PROVE  Unseen
BY DEF Unseen, Mem, HeldBy, View, Having

\* The steps that are not seen, but for those of bget() and the end of a write.
LEMMA QuietUnseen ==
  ASSUME MInv, MInv', NEW u \in Users,
         \/ SleepOnLock(u) \/ Kill(u) \/ WriteStart(u) \/ Put(u)
         \/ AcquireSleep(u) /\ ~buf[cur[u]].valid
         \/ \E b \in Blocks : Hit(u, b)
  PROVE  Unseen
<1>1. /\ pc \in [Users -> Points] /\ buf \in [Bufs -> BufType] /\ cur \in [Users -> Bufs]
      /\ blockno \in [Users -> Blocks \cup {NoBlock}]
  BY DEF MInv, BInv, TypeInv, BookInv
<1>2. /\ disk' = disk
      /\ \A i \in Bufs : /\ buf'[i].block = buf[i].block /\ buf'[i].valid = buf[i].valid
                         /\ buf'[i].data = buf[i].data
  BY <1>1 DEF SleepOnLock, Kill, WriteStart, Put, AcquireSleep, Hit, cacheVars, BufType
<1>3. \A b \in Blocks : Latest(b)' = Latest(b)
  BY <1>2, LatestSame
<1>4. \A w \in Users : /\ pc'[w] \in {"has", "writing"} <=> pc[w] \in {"has", "writing"}
                       /\ pc[w] \in {"has", "writing"} =>
                            blockno'[w] = blockno[w] /\ cur'[w] = cur[w]
  <2>1. CASE SleepOnLock(u) \/ Kill(u) \/ WriteStart(u)
    BY <1>1, <2>1 DEF SleepOnLock, Kill, WriteStart, Move, userVars
  <2>2. CASE AcquireSleep(u) /\ ~buf[cur[u]].valid
    BY <1>1, <2>2 DEF AcquireSleep, Move, userVars
  <2>3. CASE Put(u)
    BY <1>1, <2>3 DEF Put, Move
  <2>4. CASE \E b \in Blocks : Hit(u, b)
    BY <1>1, <2>4 DEF Hit, Move
  <2>. QED  BY <2>1, <2>2, <2>3, <2>4
<1>. QED  BY <1>1, <1>2, <1>3, <1>4, NotSeen

\* A buffer is recycled: what it held is on the disk.
LEMMA RecycleUnseen ==
  ASSUME MInv, MInv', NEW u \in Users, NEW b \in Blocks, Recycle(u, b)
  PROVE  Unseen
<1>1. PICK i \in Bufs :
        /\ buf[i].refcnt = 0
        /\ buf' = [buf EXCEPT ![i].block = b, ![i].valid = FALSE, ![i].refcnt = 1]
        /\ cur' = [cur EXCEPT ![u] = i]
  BY DEF Recycle, LeastRecent, Unused
<1>2. /\ pc[u] = "idle" /\ pc' = [pc EXCEPT ![u] = "lock"]
      /\ blockno' = [blockno EXCEPT ![u] = b] /\ disk' = disk
      /\ pc \in [Users -> Points] /\ buf \in [Bufs -> BufType] /\ cur \in [Users -> Bufs]
      /\ blockno \in [Users -> Blocks \cup {NoBlock}]
  BY DEF Recycle, Move, MInv, BInv, TypeInv, BookInv
<1>3. /\ \A j \in Bufs \ {i} : buf'[j] = buf[j]
      /\ buf'[i].valid = FALSE
  BY <1>1, <1>2 DEF BufType
<1>4. /\ \A w \in Users : pc[w] # "idle" => cur[w] # i
      /\ buf[i].block \notin logged
  BY <1>1, UnusedIsFree
<1>5. ASSUME NEW c \in Blocks PROVE Latest(c)' = Latest(c)
  <2>1. CASE buf[i].block = c /\ buf[i].valid
    <3>1. buf[i].data = disk[c]
      BY <1>4, <2>1 DEF MInv, CleanInv, Settled
    <3>2. \A j \in Bufs : buf[j].block = c => j = i
      BY <2>1 DEF MInv, BInv, OneBufPerBlock
    <3>3. \A j \in Bufs : buf'[j].block = c => ~buf'[j].valid
      BY <1>3, <3>2
    <3>4. Latest(c) = buf[i].data
      BY <2>1, LatestCached
    <3>5. Latest(c)' = disk'[c]
      BY <3>3, LatestOnDisk
    <3>. QED  BY <1>2, <3>1, <3>4, <3>5
  <2>2. CASE ~(buf[i].block = c /\ buf[i].valid)
    <3>1. \A j \in Bufs : buf'[j].block = c /\ buf'[j].valid <=> buf[j].block = c /\ buf[j].valid
      BY <1>3, <2>2
    <3>2. CASE \E j \in Bufs : buf[j].block = c /\ buf[j].valid
      <4>1. PICK j \in Bufs : buf[j].block = c /\ buf[j].valid
        BY <3>2
      <4>2. buf'[j] = buf[j]
        BY <1>3, <2>2, <4>1
      <4>. QED  BY <4>1, <4>2, LatestCached
    <3>3. CASE \A j \in Bufs : buf[j].block = c => ~buf[j].valid
      <4>1. \A j \in Bufs : buf'[j].block = c => ~buf'[j].valid
        BY <3>1, <3>3
      <4>. QED  BY <1>2, <3>3, <4>1, LatestOnDisk
    <3>. QED  BY <3>2, <3>3
  <2>. QED  BY <2>1, <2>2
<1>6. \A w \in Users : /\ pc'[w] \in {"has", "writing"} <=> pc[w] \in {"has", "writing"}
                       /\ pc[w] \in {"has", "writing"} =>
                            /\ blockno'[w] = blockno[w]
                            /\ buf'[cur'[w]].data = buf[cur[w]].data
  BY <1>1, <1>2, <1>3, <1>4
<1>. QED  BY <1>5, <1>6, NotSeen

\* A write ends: the block was already what the buffer holds.
LEMMA WriteUnseen ==
  ASSUME MInv, MInv', NEW u \in Users, WriteDone(u)
  PROVE  Unseen
<1>1. /\ pc[u] = "writing" /\ pc' = [pc EXCEPT ![u] = "has"] /\ cur' = cur /\ blockno' = blockno
      /\ disk' = [disk EXCEPT ![buf[cur[u]].block] = buf[cur[u]].data]
      /\ buf' = [buf EXCEPT ![cur[u]].refcnt = IF blockno[u] \in logged THEN @ - 1 ELSE @]
      /\ pc \in [Users -> Points] /\ buf \in [Bufs -> BufType] /\ cur \in [Users -> Bufs]
      /\ disk \in [Blocks -> Vals \cup {Blank}]
  BY DEF WriteDone, Move, userVars, MInv, BInv, TypeInv
<1>2. \A i \in Bufs : /\ buf'[i].block = buf[i].block /\ buf'[i].valid = buf[i].valid
                      /\ buf'[i].data = buf[i].data
  BY <1>1 DEF BufType
<1>3. buf[cur[u]].valid /\ cur[u] \in Bufs
  <2>1. buf[cur[u]].valid
    BY <1>1 DEF MInv, ReadInv
  <2>. QED  BY <1>1, <2>1
<1>4. ASSUME NEW c \in Blocks PROVE Latest(c)' = Latest(c)
  <2>1. CASE c = buf[cur[u]].block
    BY <1>2, <1>3, <2>1, LatestCached
  <2>2. CASE c # buf[cur[u]].block
    BY <1>1, <1>2, <2>2, LatestSame
  <2>. QED  BY <2>1, <2>2
<1>5. \A w \in Users : /\ pc'[w] \in {"has", "writing"} <=> pc[w] \in {"has", "writing"}
                       /\ pc[w] \in {"has", "writing"} =>
                            /\ blockno'[w] = blockno[w]
                            /\ buf'[cur'[w]].data = buf[cur[w]].data
  BY <1>1, <1>2
<1>. QED  BY <1>4, <1>5, NotSeen

\* bread() returns: the user has the block, as it is.
LEMMA TakeImplements ==
  ASSUME MInv, MInv', NEW u \in Users,
         (AcquireSleep(u) /\ buf[cur[u]].valid) \/ ReadDone(u)
  PROVE  Memory!Next
<1>1. /\ pc[u] \in {"lock", "reading"} /\ pc' = [pc EXCEPT ![u] = "has"]
      /\ cur' = cur /\ blockno' = blockno /\ disk' = disk
      /\ pc \in [Users -> Points] /\ buf \in [Bufs -> BufType] /\ cur \in [Users -> Bufs]
      /\ disk \in [Blocks -> Vals \cup {Blank}] /\ cur[u] \in Bufs
  BY DEF AcquireSleep, ReadDone, Move, userVars, MInv, BInv, TypeInv
<1>2. /\ \A i \in Bufs : buf'[i].block = buf[i].block
      /\ \A i \in Bufs \ {cur[u]} : buf'[i].valid = buf[i].valid /\ buf'[i].data = buf[i].data
      /\ buf'[cur[u]].valid
  BY <1>1 DEF AcquireSleep, ReadDone, BufType
<1>3. PICK b \in Blocks :
        /\ blockno[u] = b /\ b = buf[cur[u]].block
        /\ \A i \in Bufs : buf[i].block = b => i = cur[u]
  <2>1. blockno[u] = buf[cur[u]].block /\ buf[cur[u]].block # NoBlock
    BY <1>1 DEF MInv, HeldInv, BInv, BlockInv
  <2>. QED  BY <1>1, <2>1 DEF BufType, MInv, BInv, OneBufPerBlock
<1>4. ASSUME NEW w \in Users, w # u, pc[w] \in {"has", "writing"}
      PROVE  blockno[w] # b /\ cur[w] # cur[u]
  <2>1. pc'[u] \in Owning /\ pc'[w] \in Owning
    BY <1>1, <1>4 DEF Owning
  <2>2. cur[w] # cur[u]
    BY <1>1, <1>4, <2>1 DEF MInv, BInv, OwnerInv
  <2>3. blockno[w] = buf[cur[w]].block /\ cur[w] \in Bufs
    BY <1>1, <1>4 DEF MInv, HeldInv
  <2>. QED  BY <1>3, <2>2, <2>3
<1>5. Latest(b)' = Latest(b) /\ buf'[cur[u]].data = Latest(b)
  <2>1. CASE AcquireSleep(u) /\ buf[cur[u]].valid
    <3>1. buf'[cur[u]].data = buf[cur[u]].data
      BY <1>1, <2>1 DEF AcquireSleep, BufType
    <3>. QED  BY <1>1, <1>2, <1>3, <2>1, <3>1, LatestCached
  <2>2. CASE ReadDone(u)
    <3>1. buf'[cur[u]].data = disk[b] /\ pc[u] = "reading"
      BY <1>1, <1>3, <2>2 DEF ReadDone, BufType
    <3>2. buf[cur[u]].valid = FALSE
      BY <3>1 DEF MInv, UnreadInv
    <3>3. Latest(b) = disk[b]
      BY <1>3, <3>2, LatestOnDisk
    <3>4. Latest(b)' = buf'[cur[u]].data
      BY <1>1, <1>2, <1>3, LatestCached
    <3>. QED  BY <3>1, <3>3, <3>4
  <2>. QED  BY <2>1, <2>2
<1>6. ASSUME NEW c \in Blocks PROVE Latest(c)' = Latest(c)
  <2>1. CASE c = b
    BY <1>5, <2>1
  <2>2. CASE c # b
    BY <1>1, <1>2, <1>3, <2>2, LatestSame
  <2>. QED  BY <2>1, <2>2
<1>7. Mem' = Mem /\ Mem[b] = Latest(b)
  BY <1>3, <1>6 DEF Mem
<1>8. /\ HeldBy[u] = NoBlock /\ \A w \in Users : HeldBy[w] # b
      /\ HeldBy' = [HeldBy EXCEPT ![u] = b]
  BY <1>1, <1>3, <1>4 DEF HeldBy, Having
<1>9. View' = [View EXCEPT ![u] = Mem[b]]
  BY <1>1, <1>2, <1>4, <1>5, <1>7 DEF View, Having
<1>10. Memory!Take(u, b)
  BY <1>7, <1>8, <1>9 DEF Memory!Take, Mem, HeldBy, View
<1>. QED  BY <1>3, <1>10 DEF Memory!Next

\* A user changes the block that it has.
LEMMA StoreImplements ==
  ASSUME MInv, MInv', NEW u \in Users, NEW v \in Vals, Change(u, v) \/ WriteThrough(u, v)
  PROVE  Memory!Next
<1>1. /\ pc[u] = "has" /\ cur' = cur /\ blockno' = blockno /\ disk' = disk
      /\ pc' = pc \/ pc' = [pc EXCEPT ![u] = "writing"]
      /\ pc \in [Users -> Points] /\ buf \in [Bufs -> BufType] /\ cur \in [Users -> Bufs]
      /\ cur[u] \in Bufs
  BY DEF Change, WriteThrough, Move, userVars, MInv, BInv, TypeInv
<1>2. /\ \A i \in Bufs : buf'[i].block = buf[i].block /\ buf'[i].valid = buf[i].valid
      /\ \A i \in Bufs \ {cur[u]} : buf'[i].data = buf[i].data
      /\ buf'[cur[u]].data = v
  BY <1>1 DEF Change, WriteThrough, BufType
<1>3. PICK b \in Blocks :
        /\ blockno[u] = b /\ b = buf[cur[u]].block
        /\ \A i \in Bufs : buf[i].block = b => i = cur[u]
        /\ \A w \in Users \ {u} : pc[w] \in {"has", "writing"} => cur[w] # cur[u]
  BY <1>1, Mine DEF Owning
<1>0. buf[cur[u]].valid
  BY <1>1 DEF MInv, ReadInv
<1>4. Latest(b)' = v
  BY <1>0, <1>1, <1>2, <1>3, LatestCached
<1>5. \A c \in Blocks \ {b} : Latest(c)' = Latest(c)
  BY <1>1, <1>2, <1>3, LatestSame
<1>6. Mem' = [Mem EXCEPT ![b] = v]
  BY <1>3, <1>4, <1>5 DEF Mem
<1>7. HeldBy[u] = b /\ HeldBy' = HeldBy
  BY <1>1, <1>3 DEF HeldBy, Having
<1>8. View' = [View EXCEPT ![u] = v]
  BY <1>1, <1>2, <1>3 DEF View, Having
<1>9. Memory!Store(u, v)
  BY <1>3, <1>6, <1>7, <1>8 DEF Memory!Store, Mem, HeldBy, View
<1>. QED  BY <1>9 DEF Memory!Next

\* brelse() gives the block to the next user.
LEMMA GiveImplements ==
  ASSUME MInv, MInv', NEW u \in Users, ReleaseSleep(u)
  PROVE  Memory!Next
<1>1. /\ pc[u] = "has" /\ cur' = cur /\ blockno' = blockno /\ disk' = disk
      /\ pc' = [w \in Users |-> IF w = u THEN "put"
                                ELSE IF pc[w] = "asleep" /\ cur[w] = cur[u] THEN "lock"
                                ELSE pc[w]]
      /\ buf' = [buf EXCEPT ![cur[u]].owner = NoUser]
      /\ pc \in [Users -> Points] /\ buf \in [Bufs -> BufType] /\ cur \in [Users -> Bufs]
  BY DEF ReleaseSleep, userVars, MInv, BInv, TypeInv
<1>2. \A i \in Bufs : /\ buf'[i].block = buf[i].block /\ buf'[i].valid = buf[i].valid
                      /\ buf'[i].data = buf[i].data
  BY <1>1 DEF BufType
<1>3. Mem' = Mem
  BY <1>1, <1>2, LatestSame DEF Mem
<1>4. blockno[u] \in Blocks
  BY <1>1, Mine DEF Owning
<1>5. HeldBy[u] # NoBlock /\ HeldBy' = [HeldBy EXCEPT ![u] = NoBlock]
  BY <1>1, <1>4 DEF HeldBy, Having
<1>6. View' = [View EXCEPT ![u] = Blank]
  BY <1>1, <1>2 DEF View, Having
<1>7. Memory!Give(u)
  BY <1>3, <1>5, <1>6 DEF Memory!Give, Mem, HeldBy, View
<1>. QED  BY <1>7 DEF Memory!Next

\* Every step is a step of the memory or is not seen.
LEMMA NextImplements == MInv /\ MInv' /\ [Next]_vars => [Memory!Next]_Memory!vars
<1> SUFFICES ASSUME MInv, MInv', [Next]_vars PROVE Memory!Next \/ Unseen
  BY DEF Unseen, Memory!vars, Mem, HeldBy, View
<1>1. CASE UNCHANGED <<cacheVars, logged, disk, pc, userVars>>
  <2>1. buf' = buf /\ disk' = disk /\ pc' = pc /\ cur' = cur /\ blockno' = blockno
    BY <1>1 DEF cacheVars, userVars
  <2>2. \A b \in Blocks : Latest(b)' = Latest(b)
    BY <2>1, LatestSame
  <2>. QED  BY <2>1, <2>2, NotSeen
<1>2. CASE UNCHANGED vars
  BY <1>1, <1>2 DEF vars
<1>3. CASE Next
  <2>1. CASE Halted
    BY <2>1, <1>2 DEF Halted
  <2>2. CASE \E u \in Users, b \in Blocks : NoBuffers(u, b)
    BY <2>2, <1>1 DEF NoBuffers
  <2>3. CASE \E u \in Users, b \in Blocks : Hit(u, b) \/ Recycle(u, b)
    BY <2>3, QuietUnseen, RecycleUnseen
  <2>4. CASE \E u \in Users : \/ SleepOnLock(u) \/ Kill(u) \/ WriteStart(u) \/ Put(u)
                              \/ AcquireSleep(u) /\ ~buf[cur[u]].valid
    BY <2>4, QuietUnseen
  <2>5. CASE \E u \in Users : (AcquireSleep(u) /\ buf[cur[u]].valid) \/ ReadDone(u)
    BY <2>5, TakeImplements
  <2>6. CASE \E u \in Users : WriteDone(u) \/ ReleaseSleep(u)
    BY <2>6, WriteUnseen, GiveImplements
  <2>7. CASE \E u \in Users, v \in Vals : Change(u, v) \/ WriteThrough(u, v)
    BY <2>7, StoreImplements
  <2>. QED  BY <1>3, <2>1, <2>2, <2>3, <2>4, <2>5, <2>6, <2>7 DEF Next
<1>. QED  BY <1>2, <1>3

\* bread(), the changes of a block and brelse() act on one memory with a lock per
\* block, whatever is recycled, pinned or written meanwhile (bio.c:93, bio.c:117).
THEOREM CacheIsMemory == Spec => ImplementsBlockMemory
<1>1. Init => Memory!Init
  <2> SUFFICES ASSUME Init PROVE Memory!Init
    OBVIOUS
  <2>1. \A b \in Blocks : Latest(b) = Blank
    BY LatestOnDisk DEF Init
  <2>2. Having = {}
    BY DEF Init, Having
  <2>. QED  BY <2>1, <2>2 DEF Memory!Init
<1>2. MInv /\ MInv' /\ [Next]_vars => [Memory!Next]_Memory!vars
  BY NextImplements
<1>. QED  BY <1>1, <1>2, MemoryInvariant, PTL DEF Spec, ImplementsBlockMemory, Memory!Spec

-----------------------------------------------------------------------------
(* The list of buffers *)

\* Each buffer has one place in the list.
ListInv ==
  /\ lru \in [1..NBUF -> Bufs]
  /\ \A i \in Bufs : \E k \in 1..NBUF : lru[k] = i
  /\ \A k, m \in 1..NBUF : lru[k] = lru[m] => k = m

\* brelse() unlinks a buffer and links it at the front: a sequence of the same length.
LEMMA ToFront ==
  ASSUME ListInv, NEW k \in 1..NBUF, NEW new, new = Cons(lru[k], RemoveAt(lru, k))
  PROVE  new = [m \in 1..NBUF |-> IF m = 1 THEN lru[k] ELSE IF m <= k THEN lru[m - 1] ELSE lru[m]]
<1>1. /\ lru \in Seq(Bufs) /\ Len(lru) = NBUF /\ NBUF \in Nat /\ k \in 1..NBUF
      /\ DOMAIN lru = 1..NBUF
  BY DEF ListInv
<1> DEFINE before == SubSeq(lru, 1, k - 1)
           after == SubSeq(lru, k + 1, NBUF)
<1>2. /\ before \in Seq(Bufs) /\ Len(before) = k - 1
      /\ \A m \in 1..(k - 1) : before[m] = lru[m]
  BY <1>1
<1>3. /\ after \in Seq(Bufs) /\ Len(after) = NBUF - k
      /\ \A m \in 1..(NBUF - k) : after[m] = lru[k + m]
  BY <1>1
<1>4. new = <<lru[k]>> \o (before \o after)
  BY <1>1 DEF Cons, RemoveAt
<1> HIDE DEF before, after
<1> DEFINE rest == before \o after
<1>5. /\ rest \in Seq(Bufs) /\ Len(rest) = NBUF - 1
      /\ \A m \in 1..(NBUF - 1) : rest[m] = IF m < k THEN lru[m] ELSE lru[m + 1]
  <2>1. rest \in Seq(Bufs) /\ Len(rest) = NBUF - 1
    <3>1. rest \in Seq(Bufs) /\ Len(rest) = Len(before) + Len(after)
      BY <1>2, <1>3
    <3>. QED  BY <1>1, <1>2, <1>3, <3>1
  <2>2. \A m \in 1..(NBUF - 1) : rest[m] = IF m <= k - 1 THEN before[m] ELSE after[m - (k - 1)]
    BY <1>1, <1>2, <1>3
  <2>3. ASSUME NEW m \in 1..(NBUF - 1), m >= k PROVE after[m - (k - 1)] = lru[m + 1]
    <3>1. m - (k - 1) \in 1..(NBUF - k) /\ k + (m - (k - 1)) = m + 1
      BY <1>1, <2>3
    <3>. QED  BY <1>3, <3>1
  <2>4. \A m \in 1..(NBUF - 1) : rest[m] = IF m < k THEN lru[m] ELSE lru[m + 1]
    <3> TAKE m \in 1..(NBUF - 1)
    <3>1. CASE m < k
      <4>1. m \in 1..(k - 1)
        BY <1>1, <3>1
      <4>. QED  BY <1>1, <1>2, <2>2, <3>1, <4>1
    <3>2. CASE m >= k
      <4>1. ~(m <= k - 1) /\ ~(m < k)
        BY <1>1, <3>2
      <4>2. rest[m] = after[m - (k - 1)]
        BY <2>2, <4>1
      <4>. QED  BY <2>3, <3>2, <4>1, <4>2
    <3>3. m < k \/ m >= k
      BY <1>1
    <3>. QED  BY <3>1, <3>2, <3>3
  <2>. QED  BY <2>1, <2>4
<1> HIDE DEF rest
<1>6. lru[k] \in Bufs
  BY <1>1 DEF ListInv
<1>7. /\ new \in Seq(Bufs) /\ Len(new) = NBUF
      /\ new[1] = lru[k] /\ \A m \in 2..NBUF : new[m] = rest[m - 1]
  BY <1>1, <1>4, <1>5, <1>6 DEF rest
<1>8. \A m \in 1..NBUF : new[m] = IF m = 1 THEN lru[k] ELSE IF m <= k THEN lru[m - 1] ELSE lru[m]
  BY <1>1, <1>5, <1>7
<1>9. new \in [1..NBUF -> Bufs]
  BY <1>1, <1>7
<1>. QED  BY <1>8, <1>9

\* binit() and brelse() keep each buffer in the list, once.
LEMMA NextListInv == ListInv /\ [Next]_vars => ListInv'
<1> SUFFICES ASSUME ListInv, [Next]_vars PROVE ListInv'
  OBVIOUS
<1>1. CASE lru' = lru
  BY <1>1 DEF ListInv
<1>2. ASSUME NEW u \in Users, Put(u), lru' # lru
      PROVE  ListInv'
  <2>1. PICK k \in DOMAIN lru : lru' = Cons(lru[k], RemoveAt(lru, k))
    BY <1>2 DEF Put
  <2>2. k \in 1..NBUF /\ NBUF \in Nat
    BY DEF ListInv
  <2>3. lru' = [m \in 1..NBUF |->
                  IF m = 1 THEN lru[k] ELSE IF m <= k THEN lru[m - 1] ELSE lru[m]]
    BY <2>1, <2>2, ToFront
  <2>4. lru' \in [1..NBUF -> Bufs]
    BY <2>2, <2>3 DEF ListInv
  <2>5. \A i \in Bufs : \E m \in 1..NBUF : lru'[m] = i
    <3> TAKE i \in Bufs
    <3>1. PICK n \in 1..NBUF : lru[n] = i
      BY DEF ListInv
    <3>2. CASE n = k
      <4>1. 1 \in 1..NBUF /\ lru'[1] = lru[k]
        BY <2>2, <2>3
      <4>. QED  BY <3>1, <3>2, <4>1
    <3>3. CASE n < k
      <4>1. n + 1 \in 1..NBUF /\ n + 1 # 1 /\ n + 1 <= k /\ (n + 1) - 1 = n
        BY <2>2, <3>3
      <4>2. lru'[n + 1] = lru[n]
        BY <2>3, <4>1
      <4>. QED  BY <3>1, <4>1, <4>2
    <3>4. CASE n > k
      <4>1. n # 1 /\ ~(n <= k)
        BY <2>2, <3>4
      <4>2. lru'[n] = lru[n]
        BY <2>3, <4>1
      <4>. QED  BY <3>1, <4>2
    <3>. QED  BY <2>2, <3>2, <3>3, <3>4
  <2>6. \A m, n \in 1..NBUF : lru'[m] = lru'[n] => m = n
    BY <2>2, <2>3 DEF ListInv
  <2>. QED  BY <2>4, <2>5, <2>6 DEF ListInv
<1>3. CASE UNCHANGED vars
  BY <1>1, <1>3 DEF vars, cacheVars
<1>4. CASE Next
  BY <1>1, <1>2, <1>4
  DEF Next, Hit, Recycle, NoBuffers, SleepOnLock, AcquireSleep, ReadDone, Kill, Change,
      WriteThrough, WriteStart, WriteDone, ReleaseSleep, Halted, vars, cacheVars
<1>. QED  BY <1>3, <1>4

\* The types of the cache hold for any number of users, blocks and buffers: no
\* reference count goes below zero, and brelse() loses no buffer from the list and
\* puts none into it twice (bio.c:124).
THEOREM CacheTypes == Spec => []TypeOK
<1>1. Init => ListInv
  <2> SUFFICES ASSUME Init PROVE ListInv
    OBVIOUS
  <2>1. NBUF \in Nat /\ lru = [i \in 1..NBUF |-> NBUF + 1 - i]
    BY DEF Init, Bufs
  <2>2. \A i \in 1..NBUF : NBUF + 1 - i \in 1..NBUF /\ NBUF + 1 - (NBUF + 1 - i) = i
    BY <2>1
  <2>. QED  BY <2>1, <2>2 DEF ListInv, Bufs
<1>2. Spec => []ListInv
  BY <1>1, NextListInv, PTL DEF Spec
<1> DEFINE Flag == panicked \in BOOLEAN
<1>4. Init => Flag
  BY DEF Init
<1>5. Flag /\ [Next]_vars => Flag'
  BY DEF Next, Hit, Recycle, NoBuffers, SleepOnLock, AcquireSleep, ReadDone, Kill, Change,
         WriteThrough, WriteStart, WriteDone, ReleaseSleep, Put, Halted, vars
<1>6. Spec => []Flag
  BY <1>4, <1>5, PTL DEF Spec
<1>3. MInv /\ ListInv /\ Flag => TypeOK
  <2> SUFFICES ASSUME MInv, ListInv, Flag PROVE TypeOK
    OBVIOUS
  <2>1. \A i \in Bufs : buf[i].refcnt \in Nat
    BY RefsFinite DEF MInv, CountInv
  <2>2. buf \in [Bufs -> [block : Blocks \cup {NoBlock}, valid : BOOLEAN, refcnt : Nat,
                          data : Vals \cup {Blank}, owner : Users \cup {NoUser}]]
    BY <2>1 DEF MInv, BInv, TypeInv, BufType
  <2>3. Len(lru) = NBUF /\ Range(lru) = Bufs
    <3>1. lru \in [1..NBUF -> Bufs] /\ NBUF \in Nat
      BY DEF ListInv
    <3>2. lru \in Seq(Bufs) /\ Len(lru) = NBUF /\ DOMAIN lru = 1..NBUF
      BY <3>1
    <3>3. Range(lru) = {lru[k] : k \in 1..NBUF}
      BY <3>2 DEF Range
    <3>. QED  BY <3>2, <3>3 DEF ListInv
  <2>4. /\ logged \subseteq Blocks /\ disk \in [Blocks -> Vals \cup {Blank}]
        /\ blockno \in [Users -> Blocks \cup {NoBlock}] /\ cur \in [Users -> Bufs]
    BY DEF MInv, BInv, TypeInv, BookInv
  <2>5. pc \in [Users -> {"idle", "lock", "asleep", "reading", "has", "writing", "put"}]
    BY DEF MInv, BInv, TypeInv, Points
  <2>. QED  BY <2>2, <2>3, <2>4, <2>5 DEF TypeOK
<1> HIDE DEF Flag
<1>. QED  BY <1>2, <1>3, <1>6, MemoryInvariant, PTL
=============================================================================
