----------------------------- MODULE DiskProofs -----------------------------
(***************************************************************************)
(* Proofs about the virtio disk driver for any number of processes, blocks *)
(* and descriptors, rings of any size and counters that wrap around        *)
(* anywhere: descriptors are neither lost nor shared, a completion always  *)
(* names a process that waits for it, and each call of virtio_disk_rw()    *)
(* transfers its block once (BlockDevice).                                 *)
(*                                                                         *)
(* The core is where the head of a chain is: about to be published, in the *)
(* avail ring, with the device or in the used ring, and in one of them at  *)
(* most.  Since requests are no more than the rings have entries, no entry *)
(* is overwritten before it is read.                                       *)
(***************************************************************************)
EXTENDS VirtioDisk, ModArith, FiniteSetTheorems, WellFoundedInduction

Points == {"idle", "enter", "sleepFree", "publish", "sleepBuf", "relock"}

\* How far index j is ahead of index i.
Count(i, j) == (j + IDX - i) % IDX

\* Entries that the reader of a ring has not seen: the k-th one from now.
AvailLen == Count(seen, idx)
UsedLen == Count(used_idx, usedIdx)
AvailAt(k) == ring[(seen + k) % RING]
UsedAt(k) == usedRing[(used_idx + k) % RING]

\* Descriptor i is the head of a request that is not completed.
Waiting(i) == \E p \in Submitted : head[p] = i /\ busy[p]

\* The chain of a request: three descriptors, with its arguments and its buffer.
ChainOf(p) ==
  LET h == head[p]
      i == desc[h].next
      j == desc[i].next
  IN /\ h # i /\ h # j /\ i # j
     /\ desc[h].more /\ desc[i].more /\ ~desc[j].more
     /\ ~free[h] /\ ~free[i] /\ ~free[j]
     /\ desc[h].addr = req[p] /\ desc[i].addr = p
     /\ info[h] = p

ChainInv == \A p \in Submitted : ChainOf(p)
DisjointInv == \A p, q \in Submitted : p # q => Chain(head[p]) \cap Chain(head[q]) = {}
FreeInv == \A i \in Descs : free[i] \/ \E p \in Submitted : i \in Chain(head[p])
ReqInv == \A p \in Procs : pc[p] # "idle" => req[p] \in Requests

\* Between the two halves of a submission the lock is held and the entry is written.
PublishInv ==
  /\ \A p \in Procs : lock = p => pc[p] = "publish"
  /\ \A p \in Procs : pc[p] = "publish" =>
       /\ lock = p /\ busy[p] /\ ring[idx % RING] = head[p]
       /\ head[p] \notin inflight
       /\ \A k \in 0..(AvailLen - 1) : AvailAt(k) # head[p]
       /\ \A k \in 0..(UsedLen - 1) : UsedAt(k) # head[p]

AvailInv ==
  \A k \in 0..(AvailLen - 1) :
    /\ Waiting(AvailAt(k)) /\ AvailAt(k) \notin inflight
    /\ \A l \in 0..(AvailLen - 1) : AvailAt(k) = AvailAt(l) => k = l
    /\ \A l \in 0..(UsedLen - 1) : AvailAt(k) # UsedAt(l)

FlightInv == \A i \in inflight : Waiting(i)

UsedInv ==
  \A k \in 0..(UsedLen - 1) :
    /\ Waiting(UsedAt(k)) /\ UsedAt(k) \notin inflight
    /\ \A l \in 0..(UsedLen - 1) : UsedAt(k) = UsedAt(l) => k = l

\* Whoever waits for descriptors waits for a request that has some.
SleepInv == \A p \in Procs : pc[p] = "sleepFree" => Submitted # {}

DInv == /\ TypeOK /\ ReqInv
        /\ ChainInv /\ DisjointInv /\ FreeInv
        /\ PublishInv /\ AvailInv /\ FlightInv /\ UsedInv
        /\ SleepInv

\* What most proofs need to know of the sizes.
LEMMA Sizes ==
  /\ NUM \in Nat /\ NUM >= 3
  /\ RING \in Nat \ {0} /\ 3 * RING >= NUM - 2
  /\ IDX \in Nat \ {0} /\ IDX > RING
  BY NumAssumption, RingAssumption, IdxAssumption

USE Sizes, ProcAssumption

-----------------------------------------------------------------------------
(* Positions in a ring *)

Index == 0..(IDX - 1)

\* The distance from i to j, going around once at most.
LEMMA CountValue ==
  ASSUME NEW i \in Index, NEW j \in Index
  PROVE  /\ Count(i, j) \in Index
         /\ Count(i, j) = IF i <= j THEN j - i ELSE j + IDX - i
<1> DEFINE x == j + IDX - i
<1>1. IDX \in Nat \ {0} /\ x \in Nat /\ x < 2 * IDX
  BY DEF Index
<1>2. /\ x < IDX => x % IDX = x
      /\ IDX <= x => x % IDX = x - IDX
  <2> HIDE DEF x
  <2>. QED  BY <1>1, ModSmall
<1>. QED  BY <1>1, <1>2 DEF Index, Count

LEMMA SuccValue ==
  ASSUME NEW i \in Index
  PROVE  /\ Succ(i) \in Index
         /\ Succ(i) = IF i + 1 = IDX THEN 0 ELSE i + 1
<1> DEFINE x == i + 1
<1>1. IDX \in Nat \ {0} /\ x \in Nat /\ x <= IDX /\ x < 2 * IDX
  BY DEF Index
<1>2. /\ x < IDX => x % IDX = x
      /\ IDX <= x => x % IDX = x - IDX
  <2> HIDE DEF x
  <2>. QED  BY <1>1, ModSmall
<1>. QED  BY <1>1, <1>2 DEF Index, Succ

\* The writer of a ring moves on, as long as it has not gone all the way around.
LEMMA CountGrows ==
  ASSUME NEW i \in Index, NEW j \in Index, Count(i, j) + 1 < IDX
  PROVE  Count(i, Succ(j)) = Count(i, j) + 1
<1>1. Succ(j) \in Index /\ Succ(j) = IF j + 1 = IDX THEN 0 ELSE j + 1
  BY SuccValue
<1>2. Count(i, j) = IF i <= j THEN j - i ELSE j + IDX - i
  BY CountValue
<1>3. Count(i, Succ(j)) = IF i <= Succ(j) THEN Succ(j) - i ELSE Succ(j) + IDX - i
  BY <1>1, CountValue
<1>. QED  BY <1>1, <1>2, <1>3 DEF Index

\* The reader of a ring moves on.
LEMMA CountShrinks ==
  ASSUME NEW i \in Index, NEW j \in Index, i # j
  PROVE  Count(i, j) > 0 /\ Count(Succ(i), j) = Count(i, j) - 1
<1>1. Succ(i) \in Index /\ Succ(i) = IF i + 1 = IDX THEN 0 ELSE i + 1
  BY SuccValue
<1>2. Count(i, j) = IF i <= j THEN j - i ELSE j + IDX - i
  BY CountValue
<1>3. Count(Succ(i), j) = IF Succ(i) <= j THEN j - Succ(i) ELSE j + IDX - Succ(i)
  BY <1>1, CountValue
<1>. QED  BY <1>1, <1>2, <1>3 DEF Index

LEMMA CountZero ==
  ASSUME NEW i \in Index
  PROVE  Count(i, i) = 0
  BY CountValue DEF Index

\* The place that the writer fills next is that of the first entry not yet there.
LEMMA WriterPlace ==
  ASSUME NEW i \in Index, NEW j \in Index
  PROVE  (i + Count(i, j)) % RING = j % RING
<1>1. RING \in Nat \ {0} /\ IDX \in Nat \ {0}
  OBVIOUS
<1>2. i \in Nat /\ j \in Nat /\ Count(i, j) \in Nat /\ i + Count(i, j) \in Nat
  BY CountValue DEF Index
<1>3. (i + Count(i, j)) % IDX = j
  <2>1. i + Count(i, j) = j \/ i + Count(i, j) = j + IDX
    <3>1. Count(i, j) = IF i <= j THEN j - i ELSE j + IDX - i
      BY CountValue
    <3>. QED  BY <3>1 DEF Index
  <2>2. j < IDX /\ j + IDX < 2 * IDX /\ IDX <= j + IDX /\ j + IDX \in Nat /\ j + IDX - IDX = j
    BY <1>2 DEF Index
  <2>3. j % IDX = j /\ (j + IDX) % IDX = j + IDX - IDX
    BY <1>1, <1>2, <2>2, ModSmall
  <2>4. (j + IDX) % IDX = j
    BY <2>2, <2>3
  <2>5. CASE i + Count(i, j) = j
    BY <2>3, <2>5
  <2>6. CASE i + Count(i, j) = j + IDX
    BY <2>4, <2>6
  <2>. QED  BY <2>1, <2>5, <2>6
<1> DEFINE x == i + Count(i, j)
<1>4. x \in Nat /\ IDX % RING = 0
  BY <1>2, IdxAssumption
<1> HIDE DEF x
<1>5. (x % IDX) % RING = x % RING
  BY <1>1, <1>4, ModMod
<1>. QED  BY <1>3, <1>5 DEF x

\* The reader that moves on has the next entry before it.
LEMMA ReaderPlace ==
  ASSUME NEW i \in Index, NEW k \in Nat
  PROVE  (Succ(i) + k) % RING = (i + (k + 1)) % RING
<1>1. RING \in Nat \ {0} /\ IDX \in Nat \ {0} /\ IDX % RING = 0 /\ i + 1 \in Nat
  BY IdxAssumption DEF Index
<1>2. (((i + 1) % IDX) + k) % RING = ((i + 1) + k) % RING
  BY <1>1, ModPlus
<1>3. (i + 1) + k = i + (k + 1)
  BY DEF Index
<1>. QED  BY <1>2, <1>3 DEF Succ

\* Entries less than a ring apart are in different places.
LEMMA PlacesDiffer ==
  ASSUME NEW i \in Index, NEW k \in Nat, NEW l \in Nat, k < RING, l < RING,
         (i + k) % RING = (i + l) % RING
  PROVE  k = l
<1> DEFINE x == i + k
           y == i + l
<1>1. RING \in Nat \ {0} /\ x \in Nat /\ y \in Nat /\ x < y + RING /\ y < x + RING
  BY DEF Index
<1>2. x % RING = y % RING
  OBVIOUS
<1>3. x = y
  <2> HIDE DEF x, y
  <2>1. CASE x <= y
    BY <1>1, <1>2, <2>1, ModInjective
  <2>2. CASE y <= x
    BY <1>1, <1>2, <2>2, ModInjective
  <2>. QED  BY <1>1, <2>1, <2>2
<1>. QED  BY <1>3 DEF Index

LEMMA PlaceIsSlot ==
  ASSUME NEW i \in Nat
  PROVE  i % RING \in Slots
  BY DivMod DEF Slots

-----------------------------------------------------------------------------
(* Descriptors and requests *)

\* A set of numbers has a least one.
LEMMA LowestIn ==
  ASSUME NEW S \in SUBSET Nat, S # {}
  PROVE  Lowest(S) \in S
<1>1. PICK i \in S : \A j \in S : ~(<<j, i>> \in OpToRel(<, Nat))
  BY NatLessThanWellFounded, WFMin
<1>2. ASSUME NEW j \in S PROVE i <= j
  <2>1. ~(<<j, i>> \in OpToRel(<, Nat)) /\ i \in Nat /\ j \in Nat
    BY <1>1
  <2>. QED  BY <2>1 DEF OpToRel
<1> DEFINE Least(k) == \A j \in S : k <= j
<1>3. \E k \in S : Least(k)
  BY <1>2
<1>4. Lowest(S) = CHOOSE k \in S : Least(k)
  BY DEF Lowest
<1> HIDE DEF Least
<1>5. (CHOOSE k \in S : Least(k)) \in S
  BY <1>3
<1>. QED  BY <1>4, <1>5

\* n numbered things of a finite set that are all different are no more than there are.
LEMMA WindowFits ==
  ASSUME NEW T, IsFiniteSet(T), NEW n \in Nat, NEW f \in [0..(n - 1) -> T],
         \A k, l \in 0..(n - 1) : f[k] = f[l] => k = l
  PROVE  n <= Cardinality(T)
<1>1. f \in Injection(0..(n - 1), T)
  BY DEF Injection, IsInjective
<1>2. Cardinality(0..(n - 1)) <= Cardinality(T)
  BY <1>1, FS_Injection
<1>. QED  BY <1>2, FS_Interval

LEMMA DescsFinite == IsFiniteSet(Descs) /\ Cardinality(Descs) = NUM
  BY FS_Interval DEF Descs

\* Heads of different requests are different.
LEMMA HeadsDiffer ==
  ASSUME DInv, NEW p \in Submitted, NEW q \in Submitted, head[p] = head[q]
  PROVE  p = q
<1>1. head[p] \in Chain(head[p])
  BY DEF Chain
<1>. QED  BY <1>1 DEF DInv, DisjointInv

\* The chain of a request, written out.
LEMMA ChainValue ==
  ASSUME DInv, NEW p \in Submitted
  PROVE  /\ {head[p], desc[head[p]].next, desc[desc[head[p]].next].next} \subseteq Descs
         /\ Chain(head[p]) = {head[p], desc[head[p]].next, desc[desc[head[p]].next].next}
<1>1. ChainOf(p) /\ p \in Procs
  BY DEF DInv, ChainInv, Submitted
<1>2. head[p] \in Descs /\ desc[head[p]].next \in Descs /\ desc[desc[head[p]].next].next \in Descs
  BY <1>1 DEF DInv, TypeOK
<1>. QED  BY <1>1, <1>2 DEF ChainOf, Chain

\* Each request has three descriptors, so the requests fit into a ring.
LEMMA RequestsFit ==
  ASSUME DInv
  PROVE  /\ IsFiniteSet(Submitted)
         /\ 3 * Cardinality(Submitted) + Cardinality(FreeDescs) <= NUM
         /\ IsFiniteSet(FreeDescs) /\ Cardinality(FreeDescs) \in Nat
<1> DEFINE third == [x \in Submitted \X (0..2) |->
                       IF x[2] = 0 THEN head[x[1]]
                       ELSE IF x[2] = 1 THEN desc[head[x[1]]].next
                       ELSE desc[desc[head[x[1]]].next].next]
           taken == Descs \ FreeDescs
<1>1. FreeDescs \in SUBSET Descs /\ IsFiniteSet(FreeDescs) /\ Cardinality(FreeDescs) \in Nat
  BY DescsFinite, FS_Subset, FS_CardinalityType DEF FreeDescs
<1>2. IsFiniteSet(taken) /\ Cardinality(taken) = NUM - Cardinality(FreeDescs)
  <2>1. Descs \cap FreeDescs = FreeDescs
    BY <1>1
  <2>. QED  BY <2>1, DescsFinite, FS_Difference
<1>3. IsFiniteSet(Submitted)
  <2> DEFINE f == [p \in Submitted |-> head[p]]
  <2>1. f \in Injection(Submitted, Descs)
    <3>1. f \in [Submitted -> Descs]
      BY DEF DInv, TypeOK, Submitted
    <3>. QED  BY <3>1, HeadsDiffer DEF Injection, IsInjective
  <2>. QED  BY <2>1, DescsFinite, FS_Injection
<1>4. third \in Injection(Submitted \X (0..2), taken)
  <2>1. ASSUME NEW x \in Submitted \X (0..2)
        PROVE  third[x] \in taken /\ third[x] \in Chain(head[x[1]])
    <3>1. x[1] \in Submitted /\ x[2] \in 0..2
      OBVIOUS
    <3>2. ChainOf(x[1])
      BY <3>1 DEF DInv, ChainInv
    <3>. QED  BY <3>1, <3>2, ChainValue DEF ChainOf, FreeDescs
  <2>2. ASSUME NEW x \in Submitted \X (0..2), NEW y \in Submitted \X (0..2), third[x] = third[y]
        PROVE  x = y
    <3>1. /\ x[1] \in Submitted /\ x[2] \in 0..2 /\ x = <<x[1], x[2]>>
          /\ y[1] \in Submitted /\ y[2] \in 0..2 /\ y = <<y[1], y[2]>>
      OBVIOUS
    <3>2. x[1] = y[1]
      BY <2>1, <2>2, <3>1 DEF DInv, DisjointInv
    <3>3. ChainOf(x[1])
      BY <3>1 DEF DInv, ChainInv
    <3>4. x[2] \in {0, 1, 2} /\ y[2] \in {0, 1, 2}
      BY <3>1
    <3>5. x[2] = y[2]
      BY <2>2, <3>2, <3>3, <3>4 DEF ChainOf
    <3>. QED  BY <3>1, <3>2, <3>5
  <2> HIDE DEF taken
  <2>3. third \in [Submitted \X (0..2) -> taken]
    BY <2>1
  <2>4. DOMAIN third = Submitted \X (0..2)
    OBVIOUS
  <2> HIDE DEF third
  <2>. QED  BY <2>2, <2>3, <2>4 DEF Injection, IsInjective
<1>5. Cardinality(Submitted \X (0..2)) <= Cardinality(taken)
  <2> HIDE DEF third, taken
  <2>. QED  BY <1>2, <1>4, FS_Injection
<1>6. Cardinality(Submitted \X (0..2)) = Cardinality(Submitted) * 3
  <2>1. 0 \in Int /\ 2 \in Int
    OBVIOUS
  <2>2. IsFiniteSet(0..2) /\ Cardinality(0..2) = IF 0 > 2 THEN 0 ELSE 2 - 0 + 1
    BY <2>1, FS_Interval, Zenon
  <2>. QED  BY <1>3, <2>2, FS_Product
<1>7. Cardinality(Submitted) \in Nat
  BY <1>3, FS_CardinalityType
<1>. QED  BY <1>1, <1>2, <1>3, <1>5, <1>6, <1>7

\* The heads of the requests.
Heads == {head[p] : p \in Submitted}

LEMMA HeadsFit ==
  ASSUME DInv
  PROVE  /\ IsFiniteSet(Heads) /\ Cardinality(Heads) \in Nat
         /\ 3 * Cardinality(Heads) + Cardinality(FreeDescs) <= NUM
         /\ Cardinality(FreeDescs) \in Nat
<1> DEFINE f == [p \in Submitted |-> head[p]]
<1>1. f \in Surjection(Submitted, Heads)
  BY DEF Surjection, Heads
<1>2. IsFiniteSet(Heads) /\ Cardinality(Heads) <= Cardinality(Submitted)
  <2> HIDE DEF f
  <2>. QED  BY <1>1, RequestsFit, FS_Surjection
<1>3. Cardinality(Heads) \in Nat /\ Cardinality(Submitted) \in Nat
  BY <1>2, RequestsFit, FS_CardinalityType
<1>. QED  BY <1>2, <1>3, RequestsFit

LEMMA WindowTypes ==
  ASSUME TypeOK
  PROVE  /\ {idx, usedIdx, used_idx, seen} \subseteq Index
         /\ AvailLen \in Index /\ UsedLen \in Index
         /\ \A k \in Nat : AvailAt(k) \in Descs /\ UsedAt(k) \in Descs
<1>1. {idx, usedIdx, used_idx, seen} \subseteq Index
  BY DEF TypeOK, Index
<1>2. AvailLen \in Index /\ UsedLen \in Index
  BY <1>1, CountValue DEF AvailLen, UsedLen
<1>3. ASSUME NEW k \in Nat PROVE AvailAt(k) \in Descs /\ UsedAt(k) \in Descs
  <2>1. seen + k \in Nat /\ used_idx + k \in Nat
    BY <1>1 DEF Index
  <2>2. (seen + k) % RING \in Slots /\ (used_idx + k) % RING \in Slots
    BY <2>1, PlaceIsSlot
  <2>. QED  BY <2>2 DEF TypeOK, AvailAt, UsedAt
<1>. QED  BY <1>1, <1>2, <1>3

\* With a request about to be published, or descriptors for one more, the avail
\* ring has room.
LEMMA AvailFits ==
  ASSUME DInv
  PROVE  /\ Cardinality(FreeDescs) >= 3 => AvailLen < RING
         /\ \A p \in Procs : pc[p] = "publish" => AvailLen < RING
<1> DEFINE f == [k \in 0..(AvailLen - 1) |-> AvailAt(k)]
<1>1. AvailLen \in Nat
  BY WindowTypes DEF DInv, Index
<1>2. \A k \in 0..(AvailLen - 1) : f[k] \in Heads
  BY DEF DInv, AvailInv, Waiting, Heads
<1>3. \A k, l \in 0..(AvailLen - 1) : f[k] = f[l] => k = l
  BY DEF DInv, AvailInv
<1>4. AvailLen <= Cardinality(Heads)
  <2>1. f \in [0..(AvailLen - 1) -> Heads]
    BY <1>2
  <2> HIDE DEF f
  <2>. QED  BY <1>1, <1>3, <2>1, HeadsFit, WindowFits
<1>5. ASSUME NEW p \in Procs, pc[p] = "publish" PROVE AvailLen < RING
  <2> DEFINE T == Heads \ {head[p]}
  <2>1. head[p] \in Heads
    BY <1>5 DEF Heads, Submitted
  <2>2. IsFiniteSet(T) /\ Cardinality(T) = Cardinality(Heads) - 1
    BY <2>1, HeadsFit, FS_RemoveElement
  <2>3. \A k \in 0..(AvailLen - 1) : f[k] # head[p]
    BY <1>5 DEF DInv, PublishInv
  <2>4. f \in [0..(AvailLen - 1) -> T]
    BY <1>2, <2>3
  <2> HIDE DEF f, T
  <2>5. AvailLen <= Cardinality(T)
    BY <1>1, <1>3, <2>2, <2>4, WindowFits
  <2>. QED  BY <1>1, <2>2, <2>5, HeadsFit
<1>. QED  BY <1>1, <1>4, <1>5, HeadsFit

\* With a request at the device the used ring has room.
LEMMA UsedFits ==
  ASSUME DInv, NEW i \in inflight
  PROVE  UsedLen < RING
<1> DEFINE f == [k \in 0..(UsedLen - 1) |-> UsedAt(k)]
           T == Heads \ {i}
<1>1. UsedLen \in Nat
  BY WindowTypes DEF DInv, Index
<1>2. \A k, l \in 0..(UsedLen - 1) : f[k] = f[l] => k = l
  BY DEF DInv, UsedInv
<1>3. i \in Heads
  BY DEF DInv, FlightInv, Waiting, Heads
<1>4. IsFiniteSet(T) /\ Cardinality(T) = Cardinality(Heads) - 1
  BY <1>3, HeadsFit, FS_RemoveElement
<1>5. f \in [0..(UsedLen - 1) -> T]
  BY DEF DInv, UsedInv, Waiting, Heads
<1> HIDE DEF f, T
<1>6. UsedLen <= Cardinality(T)
  BY <1>1, <1>2, <1>4, <1>5, WindowFits
<1>. QED  BY <1>1, <1>4, <1>6, HeadsFit

LEMMA WindowsSame ==
  ASSUME UNCHANGED <<ring, idx, seen, usedRing, usedIdx, used_idx>>
  PROVE  /\ AvailLen' = AvailLen /\ UsedLen' = UsedLen
         /\ \A k : AvailAt(k)' = AvailAt(k) /\ UsedAt(k)' = UsedAt(k)
  BY DEF AvailLen, UsedLen, AvailAt, UsedAt, Count

-----------------------------------------------------------------------------
(* The steps *)

LEMMA InitDInv == Init => DInv
<1> SUFFICES ASSUME Init PROVE DInv
  OBVIOUS
<1>1. 0 \in Descs /\ 0 \in Index /\ 0 \in 0..(IDX - 1)
  BY DEF Descs, Index
<1>2. TypeOK
  BY <1>1 DEF Init, TypeOK, NoDesc, Requests, NoReq
<1>3. Submitted = {}
  BY DEF Init, Submitted
<1>4. AvailLen = 0 /\ UsedLen = 0
  BY <1>1, CountZero DEF Init, AvailLen, UsedLen
<1>5. ReqInv /\ ChainInv /\ DisjointInv /\ FreeInv /\ SleepInv
  BY <1>3 DEF Init, ReqInv, ChainInv, DisjointInv, FreeInv, SleepInv
<1>6. PublishInv /\ AvailInv /\ FlightInv /\ UsedInv
  BY <1>4 DEF Init, PublishInv, AvailInv, FlightInv, UsedInv
<1>. QED  BY <1>2, <1>5, <1>6 DEF DInv

\* Steps that leave the requests, their descriptors and the rings alone.
LEMMA QuietStep ==
  ASSUME DInv, TypeOK', ReqInv', SleepInv',
         UNCHANGED <<free, desc, info, ring, idx, usedRing, usedIdx, used_idx, seen, inflight,
                     busy, head>>,
         Submitted' = Submitted,
         \A p \in Procs : pc'[p] = "publish" <=> pc[p] = "publish",
         \A p \in Procs : lock' = p <=> lock = p,
         \A p \in Submitted : req'[p] = req[p]
  PROVE  DInv'
<1>1. ChainInv'
  BY DEF DInv, ChainInv, ChainOf
<1>2. \A p : Chain(head[p])' = Chain(head[p])
  BY DEF Chain
<1>3. DisjointInv' /\ FreeInv'
  BY <1>2 DEF DInv, DisjointInv, FreeInv
<1>4. \A i : Waiting(i)' = Waiting(i)
  BY DEF Waiting
<1>5. PublishInv'
  BY WindowsSame DEF DInv, PublishInv
<1>6. AvailInv' /\ FlightInv' /\ UsedInv'
  BY <1>4, WindowsSame DEF DInv, AvailInv, FlightInv, UsedInv
<1>. QED  BY <1>1, <1>3, <1>5, <1>6 DEF DInv

LEMMA CallDInv ==
  ASSUME DInv, NEW p \in Procs, NEW r \in Requests, NEW v \in Vals \cup {Blank}, Call(p, r, v)
  PROVE  DInv'
<1> USE DEF Call, Move, driverVars, availVars, usedVars, deviceVars
<1>1. TypeOK'
  BY DEF DInv, TypeOK
<1>2. ReqInv'
  BY DEF DInv, ReqInv, TypeOK
<1>3. Submitted' = Submitted
  BY DEF Submitted, DInv, TypeOK
<1>4. SleepInv'
  BY <1>3 DEF DInv, SleepInv, TypeOK
<1>5. /\ \A q \in Procs : pc'[q] = "publish" <=> pc[q] = "publish"
      /\ \A q \in Submitted : req'[q] = req[q]
  BY DEF Submitted, DInv, TypeOK
<1>. QED  BY <1>1, <1>2, <1>3, <1>4, <1>5, QuietStep

LEMMA AllocFailDInv ==
  ASSUME DInv, NEW p \in Procs, AllocFail(p)
  PROVE  DInv'
<1> USE DEF AllocFail, WakeFree, driverVars, availVars, usedVars, deviceVars, callVars
<1>0. \A q \in Procs : /\ pc[q] \in Points /\ pc'[q] \in Points
                       /\ pc'[q] # pc[q] => pc[q] \in {"enter", "sleepFree"} /\ pc'[q] \in {"enter", "sleepFree"}
  BY DEF DInv, TypeOK, Points
<1>1. TypeOK'
  BY DEF DInv, TypeOK
<1>2. ReqInv'
  BY <1>0 DEF DInv, ReqInv
<1>3. Submitted' = Submitted
  BY <1>0 DEF Submitted
<1>4. Submitted # {}
  <2>1. SUFFICES ASSUME Submitted = {} PROVE FALSE
    OBVIOUS
  <2>2. FreeDescs = Descs
    BY <2>1 DEF DInv, FreeInv, FreeDescs
  <2>. QED  BY <2>2, DescsFinite
<1>5. SleepInv'
  BY <1>3, <1>4 DEF SleepInv
<1>6. \A q \in Procs : pc'[q] = "publish" <=> pc[q] = "publish"
  BY <1>0
<1>. QED  BY <1>1, <1>2, <1>3, <1>5, <1>6, QuietStep

LEMMA SleeperDInv ==
  ASSUME DInv, NEW p \in Procs, SleepAgain(p) \/ Kill(p)
  PROVE  DInv'
<1> USE DEF SleepAgain, Kill, Move, driverVars, availVars, usedVars, deviceVars, callVars
<1>1. TypeOK'
  BY DEF DInv, TypeOK
<1>2. ReqInv'
  BY DEF DInv, ReqInv, TypeOK
<1>3. Submitted' = Submitted
  BY DEF Submitted, DInv, TypeOK
<1>4. SleepInv'
  BY <1>3 DEF DInv, SleepInv, TypeOK
<1>5. \A q \in Procs : pc'[q] = "publish" <=> pc[q] = "publish"
  BY DEF DInv, TypeOK
<1>. QED  BY <1>1, <1>2, <1>3, <1>4, <1>5, QuietStep

LEMMA HandlerDInv ==
  ASSUME DInv, IntrEnter \/ IntrExit
  PROVE  DInv'
<1> USE DEF IntrEnter, IntrExit, driverVars, availVars, deviceVars, callVars, usedVars
<1>1. TypeOK'
  BY DEF DInv, TypeOK
<1>2. ReqInv' /\ SleepInv' /\ Submitted' = Submitted
  BY DEF DInv, ReqInv, SleepInv, Submitted
<1>. QED  BY <1>1, <1>2, QuietStep

\* The chains and the waiting heads stay what they are when neither the descriptors
\* nor the requests change.
LEMMA ChainsKept ==
  ASSUME DInv, UNCHANGED <<free, desc, info, req, head>>, Submitted' = Submitted
  PROVE  ChainInv' /\ DisjointInv' /\ FreeInv'
<1>1. ChainInv'
  BY DEF DInv, ChainInv, ChainOf
<1>2. \A p : Chain(head[p])' = Chain(head[p])
  BY DEF Chain
<1>. QED  BY <1>1, <1>2 DEF DInv, DisjointInv, FreeInv

LEMMA PublishDInv ==
  ASSUME DInv, NEW p \in Procs, Publish(p)
  PROVE  DInv'
<1> USE DEF Publish, Move, driverVars, availVars, usedVars, deviceVars, callVars
<1>1. idx \in Index /\ seen \in Index /\ Succ(idx) \in Index /\ AvailLen \in Nat
  BY WindowTypes, SuccValue DEF DInv, Index
<1>2. TypeOK'
  BY <1>1 DEF DInv, TypeOK, Index
<1>3. ReqInv' /\ Submitted' = Submitted
  BY DEF DInv, ReqInv, Submitted, TypeOK
<1>4. ChainInv' /\ DisjointInv' /\ FreeInv'
  BY <1>3, ChainsKept
<1>5. SleepInv'
  BY <1>3 DEF DInv, SleepInv, TypeOK
<1>6. AvailLen' = AvailLen + 1
  <2>1. Count(seen, idx) + 1 < IDX
    BY <1>1, AvailFits DEF AvailLen
  <2>. QED  BY <1>1, <2>1, CountGrows DEF AvailLen, Count
<1>7. /\ UsedLen' = UsedLen
      /\ \A k : AvailAt(k)' = AvailAt(k) /\ UsedAt(k)' = UsedAt(k)
      /\ \A i : Waiting(i)' = Waiting(i)
  BY <1>3 DEF UsedLen, AvailAt, UsedAt, Waiting, Count
<1>8. AvailAt(AvailLen) = head[p]
  BY <1>1, WriterPlace DEF DInv, PublishInv, AvailAt, AvailLen
<1>9. Waiting(head[p])
  BY DEF Waiting, Submitted, DInv, PublishInv
<1>10. PublishInv'
  BY DEF DInv, PublishInv, TypeOK
<1>11. AvailInv'
  <2> SUFFICES ASSUME NEW k \in 0..AvailLen
               PROVE  /\ Waiting(AvailAt(k)) /\ AvailAt(k) \notin inflight
                      /\ \A l \in 0..AvailLen : AvailAt(k) = AvailAt(l) => k = l
                      /\ \A l \in 0..(UsedLen - 1) : AvailAt(k) # UsedAt(l)
    BY <1>1, <1>6, <1>7 DEF AvailInv
  <2>1. \A l \in 0..AvailLen : l = AvailLen \/ l \in 0..(AvailLen - 1)
    BY <1>1
  <2>2. CASE k = AvailLen
    BY <1>8, <1>9, <2>1, <2>2 DEF DInv, PublishInv
  <2>3. CASE k \in 0..(AvailLen - 1)
    BY <1>8, <2>1, <2>3 DEF DInv, PublishInv, AvailInv
  <2>. QED  BY <2>1, <2>2, <2>3
<1>12. FlightInv' /\ UsedInv'
  BY <1>7 DEF DInv, FlightInv, UsedInv
<1>. QED  BY <1>2, <1>3, <1>4, <1>5, <1>10, <1>11, <1>12 DEF DInv

LEMMA TakeDInv ==
  ASSUME DInv, Take
  PROVE  DInv'
<1> USE DEF Take, driverVars, availVars, usedVars, callVars
<1>1. /\ idx \in Index /\ seen \in Index /\ Succ(seen) \in Index
      /\ AvailLen \in Nat /\ UsedLen \in Nat
  BY WindowTypes, SuccValue DEF DInv, Index
<1>2. AvailLen > 0 /\ AvailLen' = AvailLen - 1
  BY <1>1, CountShrinks DEF AvailLen, Count
<1>3. ring[seen % RING] = AvailAt(0) /\ 0 \in 0..(AvailLen - 1)
  BY <1>1, <1>2 DEF AvailAt, Index
<1>4. \A k \in Nat : AvailAt(k)' = AvailAt(k + 1)
  BY <1>1, ReaderPlace DEF AvailAt
<1>5. TypeOK'
  BY <1>1, <1>3, WindowTypes DEF DInv, TypeOK, Index
<1>6. ReqInv' /\ SleepInv' /\ Submitted' = Submitted
  BY DEF DInv, ReqInv, SleepInv, Submitted
<1>7. ChainInv' /\ DisjointInv' /\ FreeInv'
  BY <1>6, ChainsKept
<1>8. /\ UsedLen' = UsedLen /\ \A k : UsedAt(k)' = UsedAt(k)
      /\ \A i : Waiting(i)' = Waiting(i)
  BY <1>6 DEF UsedLen, UsedAt, Waiting, Count
<1>9. \A k \in 0..(AvailLen' - 1) : k \in Nat /\ k + 1 \in 0..(AvailLen - 1) /\ k + 1 # 0
  BY <1>1, <1>2
<1>10. FlightInv'
  BY <1>3, <1>8 DEF DInv, FlightInv, AvailInv
<1>11. UsedInv'
  BY <1>3, <1>8 DEF DInv, UsedInv, AvailInv
<1>12. AvailInv'
  <2> SUFFICES ASSUME NEW k \in 0..(AvailLen' - 1)
               PROVE  /\ Waiting(AvailAt(k + 1)) /\ AvailAt(k + 1) \notin inflight'
                      /\ \A l \in 0..(AvailLen' - 1) : AvailAt(k + 1) = AvailAt(l + 1) => k = l
                      /\ \A l \in 0..(UsedLen - 1) : AvailAt(k + 1) # UsedAt(l)
    BY <1>4, <1>8, <1>9 DEF AvailInv
  <2>1. \A l \in 0..(AvailLen' - 1) : AvailAt(k + 1) = AvailAt(l + 1) => k + 1 = l + 1
    BY <1>9 DEF DInv, AvailInv
  <2>2. AvailAt(k + 1) # AvailAt(0)
    BY <1>3, <1>9 DEF DInv, AvailInv
  <2>. QED  BY <1>3, <1>9, <2>1, <2>2 DEF DInv, AvailInv
<1>13. PublishInv'
  <2> SUFFICES ASSUME NEW q \in Procs, pc[q] = "publish"
               PROVE  /\ head[q] \notin inflight'
                      /\ \A k \in 0..(AvailLen' - 1) : AvailAt(k + 1) # head[q]
    BY <1>4, <1>8, <1>9 DEF DInv, PublishInv
  <2>. QED  BY <1>3, <1>9 DEF DInv, PublishInv
<1>. QED  BY <1>5, <1>6, <1>7, <1>10, <1>11, <1>12, <1>13 DEF DInv

\* The request that descriptor i is the head of.
LEMMA WaiterOf ==
  ASSUME DInv, NEW i, Waiting(i)
  PROVE  \E p \in Submitted :
           /\ p \in Procs /\ head[p] = i /\ busy[p] /\ info[i] = p
           /\ desc[i].addr = req[p] /\ desc[desc[i].next].addr = p
           /\ req[p] \in Requests
<1>1. PICK p \in Submitted : head[p] = i /\ busy[p]
  BY DEF Waiting
<1>2. ChainOf(p) /\ p \in Procs /\ pc[p] # "idle"
  BY DEF DInv, ChainInv, Submitted
<1>. QED  BY <1>1, <1>2 DEF ChainOf, DInv, ReqInv

LEMMA CompleteDInv ==
  ASSUME DInv, NEW i \in Descs, Complete(i)
  PROVE  DInv'
<1>0. PICK n \in Nat : n = UsedLen
  BY WindowTypes DEF DInv, Index
<1>1. i \in inflight /\ Waiting(i)
  BY DEF Complete, DInv, FlightInv
<1>2. PICK p \in Submitted :
        /\ p \in Procs /\ head[p] = i /\ busy[p] /\ desc[i].addr = req[p]
        /\ desc[desc[i].next].addr = p /\ req[p] \in Requests
  BY <1>1, WaiterOf
<1>3. /\ usedIdx \in Index /\ used_idx \in Index /\ Succ(usedIdx) \in Index /\ n \in Nat
      /\ n < RING /\ n + 1 < IDX /\ usedIdx % RING \in Slots
  BY <1>0, <1>1, WindowTypes, SuccValue, UsedFits, PlaceIsSlot DEF DInv, Index
<1>4. /\ UNCHANGED <<free, desc, info, ring, idx, used_idx, lock, seen, pc, req, busy, head>>
      /\ inflight' = inflight \ {i}
      /\ usedRing' = [usedRing EXCEPT ![usedIdx % RING] = i]
      /\ usedIdx' = Succ(usedIdx) /\ irq' = TRUE
  BY DEF Complete, driverVars, availVars
<1>5. \/ store' = [store EXCEPT ![req[p].block] = data[p]] /\ data' = data
      \/ data' = [data EXCEPT ![p] = store[req[p].block]] /\ store' = store
  BY <1>2 DEF Complete
<1>6. TypeOK'
  <2>1. store' \in [Blocks -> Vals \cup {Blank}] /\ data' \in [Procs -> Vals \cup {Blank}]
    BY <1>2, <1>5 DEF DInv, TypeOK, Requests
  <2>. QED  BY <1>3, <1>4, <2>1 DEF DInv, TypeOK, Index
<1>7. ReqInv' /\ SleepInv' /\ Submitted' = Submitted
  BY <1>4 DEF DInv, ReqInv, SleepInv, Submitted
<1>8. ChainInv' /\ DisjointInv' /\ FreeInv'
  BY <1>4, <1>7, ChainsKept
<1>9. /\ AvailLen' = AvailLen /\ \A k : AvailAt(k)' = AvailAt(k)
      /\ \A j : Waiting(j)' = Waiting(j)
  BY <1>4, <1>7 DEF AvailLen, AvailAt, Waiting, Count
<1>10. UsedLen' = n + 1
  BY <1>0, <1>3, <1>4, CountGrows DEF UsedLen, Count
<1>11. UsedAt(n)' = i
  <2>1. (used_idx + n) % RING = usedIdx % RING
    BY <1>0, <1>3, WriterPlace DEF UsedLen
  <2>. QED  BY <1>3, <1>4, <2>1 DEF DInv, TypeOK, UsedAt
<1>12. ASSUME NEW k \in 0..(n - 1) PROVE UsedAt(k)' = UsedAt(k)
  <2>1. k \in Nat /\ k < RING /\ k # n
    BY <1>3
  <2>2. (used_idx + k) % RING # usedIdx % RING
    BY <1>0, <1>3, <2>1, WriterPlace, PlacesDiffer DEF UsedLen
  <2>. QED  BY <1>4, <2>2 DEF UsedAt, DInv, TypeOK
<1>13. \A k \in 0..n : k = n \/ k \in 0..(n - 1)
  BY <1>3
<1>14. \A k \in 0..(n - 1) : UsedAt(k) # i /\ UsedAt(k) \notin inflight'
  BY <1>0, <1>1, <1>4 DEF DInv, UsedInv
<1>15. \A k \in 0..(AvailLen - 1) : AvailAt(k) # i
  BY <1>1 DEF DInv, AvailInv
<1>16. UsedInv'
  <2> SUFFICES ASSUME NEW k \in 0..n
               PROVE  /\ Waiting(UsedAt(k)') /\ UsedAt(k)' \notin inflight'
                      /\ \A l \in 0..n : UsedAt(k)' = UsedAt(l)' => k = l
    BY <1>3, <1>9, <1>10 DEF UsedInv
  <2>1. CASE k = n
    BY <1>1, <1>4, <1>11, <1>12, <1>13, <1>14, <2>1
  <2>2. CASE k \in 0..(n - 1)
    <3>1. Waiting(UsedAt(k)) /\ \A l \in 0..(n - 1) : UsedAt(k) = UsedAt(l) => k = l
      BY <1>0, <2>2 DEF DInv, UsedInv
    <3>. QED  BY <1>11, <1>12, <1>13, <1>14, <2>2, <3>1
  <2>. QED  BY <1>13, <2>1, <2>2
<1>17. FlightInv'
  BY <1>4, <1>9 DEF DInv, FlightInv
<1>18. AvailInv'
  <2>1. \A k \in 0..(AvailLen - 1), l \in 0..n : AvailAt(k) # UsedAt(l)'
    BY <1>0, <1>11, <1>12, <1>13, <1>15 DEF DInv, AvailInv
  <2>2. 0..(UsedLen' - 1) = 0..n
    BY <1>3, <1>10
  <2>. QED  BY <1>4, <1>9, <2>1, <2>2 DEF DInv, AvailInv
<1>19. PublishInv'
  <2> SUFFICES ASSUME NEW q \in Procs, pc[q] = "publish"
               PROVE  \A k \in 0..n : UsedAt(k)' # head[q]
    BY <1>3, <1>4, <1>9, <1>10 DEF DInv, PublishInv
  <2>. QED  BY <1>0, <1>1, <1>11, <1>12, <1>13 DEF DInv, PublishInv
<1>. QED  BY <1>6, <1>7, <1>8, <1>16, <1>17, <1>18, <1>19 DEF DInv

LEMMA IntrOneDInv ==
  ASSUME DInv, IntrOne
  PROVE  DInv'
<1>0. PICK p : p = info[usedRing[used_idx % RING]]
  OBVIOUS
<1>1. /\ usedIdx \in Index /\ used_idx \in Index /\ Succ(used_idx) \in Index
      /\ UsedLen \in Nat
  BY WindowTypes, SuccValue DEF DInv, Index
<1>2. /\ lock = Handler /\ used_idx # usedIdx
      /\ busy' = [busy EXCEPT ![p] = FALSE]
      /\ pc' = [pc EXCEPT ![p] = IF @ = "sleepBuf" THEN "relock" ELSE @]
      /\ used_idx' = Succ(used_idx)
      /\ UNCHANGED <<free, desc, info, ring, idx, usedRing, usedIdx, irq, lock,
                     seen, inflight, store, req, data, head>>
  BY <1>0 DEF IntrOne, driverVars, availVars, usedVars, deviceVars, callVars
<1>3. UsedLen > 0 /\ UsedLen' = UsedLen - 1
  BY <1>1, <1>2, CountShrinks DEF UsedLen, Count
<1>4. usedRing[used_idx % RING] = UsedAt(0) /\ 0 \in 0..(UsedLen - 1)
  BY <1>1, <1>3 DEF UsedAt, Index
<1>5. \A k \in Nat : UsedAt(k)' = UsedAt(k + 1)
  BY <1>1, <1>2, ReaderPlace DEF UsedAt
<1>6. p \in Submitted /\ p \in Procs /\ head[p] = UsedAt(0)
  <2>1. Waiting(UsedAt(0))
    BY <1>4 DEF DInv, UsedInv
  <2>. QED  BY <1>0, <1>4, <2>1, WaiterOf
<1>7. \A q \in Procs : /\ pc'[q] \in Points
                       /\ pc'[q] # pc[q] => pc[q] = "sleepBuf" /\ pc'[q] = "relock"
  BY <1>2 DEF DInv, TypeOK, Points
<1>8. TypeOK'
  BY <1>1, <1>2, <1>7 DEF DInv, TypeOK, Index, Points
<1>9. Submitted' = Submitted
  BY <1>7 DEF Submitted
<1>10. ReqInv' /\ SleepInv'
  BY <1>2, <1>7, <1>9 DEF DInv, ReqInv, SleepInv
<1>11. ChainInv' /\ DisjointInv' /\ FreeInv'
  BY <1>2, <1>9, ChainsKept
<1>12. AvailLen' = AvailLen /\ \A k : AvailAt(k)' = AvailAt(k)
  BY <1>2 DEF AvailLen, AvailAt, Count
<1> DEFINE WaitsStill(j) == \E q \in Submitted' : head'[q] = j /\ busy'[q]
<1>13. ASSUME NEW j, Waiting(j), j # UsedAt(0) PROVE WaitsStill(j)
  <2>1. PICK q \in Submitted : head[q] = j /\ busy[q]
    BY <1>13 DEF Waiting
  <2>2. q # p /\ q \in Procs
    BY <1>6, <1>13, <2>1 DEF Submitted
  <2>3. busy'[q] /\ head'[q] = j
    BY <1>2, <2>1, <2>2 DEF DInv, TypeOK
  <2>. QED  BY <1>9, <2>1, <2>3
<1>14. \A k \in 0..(UsedLen' - 1) : k \in Nat /\ k + 1 \in 0..(UsedLen - 1) /\ k + 1 # 0
  BY <1>1, <1>3
<1>15. UsedInv'
  <2> SUFFICES ASSUME NEW k \in 0..(UsedLen' - 1)
               PROVE  /\ WaitsStill(UsedAt(k + 1)) /\ UsedAt(k + 1) \notin inflight
                      /\ \A l \in 0..(UsedLen' - 1) : UsedAt(k + 1) = UsedAt(l + 1) => k = l
    BY <1>2, <1>5, <1>14 DEF UsedInv, Waiting
  <2>1. /\ Waiting(UsedAt(k + 1)) /\ UsedAt(k + 1) \notin inflight /\ UsedAt(k + 1) # UsedAt(0)
        /\ \A l \in 0..(UsedLen' - 1) : UsedAt(k + 1) = UsedAt(l + 1) => k + 1 = l + 1
    BY <1>4, <1>14 DEF DInv, UsedInv
  <2>. QED  BY <1>13, <1>14, <2>1
<1>16. AvailInv'
  <2> SUFFICES ASSUME NEW k \in 0..(AvailLen - 1)
               PROVE  /\ WaitsStill(AvailAt(k)) /\ AvailAt(k) \notin inflight
                      /\ \A l \in 0..(AvailLen - 1) : AvailAt(k) = AvailAt(l) => k = l
                      /\ \A l \in 0..(UsedLen' - 1) : AvailAt(k) # UsedAt(l + 1)
    BY <1>2, <1>5, <1>12, <1>14 DEF AvailInv, Waiting
  <2>. QED  BY <1>4, <1>13, <1>14 DEF DInv, AvailInv
<1>17. FlightInv'
  <2> SUFFICES ASSUME NEW i \in inflight PROVE WaitsStill(i)
    BY <1>2 DEF FlightInv, Waiting
  <2>. QED  BY <1>4, <1>13 DEF DInv, FlightInv, UsedInv
<1>18. PublishInv'
  <2>1. \A q \in Procs : lock' # q
    BY <1>2
  <2>2. \A q \in Procs : pc'[q] # "publish"
    BY <1>2, <1>7 DEF DInv, PublishInv
  <2>. QED  BY <2>1, <2>2 DEF PublishInv
<1>. QED  BY <1>8, <1>10, <1>11, <1>15, <1>16, <1>17, <1>18 DEF DInv

\* alloc3_desc() finds three different descriptors that are free.
LEMMA ThreeFree ==
  ASSUME DInv, Cardinality(FreeDescs) >= 3
  PROVE  LET i0 == Lowest(FreeDescs)
             i1 == Lowest(FreeDescs \ {i0})
             i2 == Lowest(FreeDescs \ {i0, i1})
         IN  i0 \in FreeDescs /\ i1 \in FreeDescs \ {i0} /\ i2 \in FreeDescs \ {i0, i1}
<1>0. FreeDescs \in SUBSET Nat /\ IsFiniteSet(FreeDescs)
  BY RequestsFit DEF FreeDescs, Descs
<1>1. FreeDescs # {}
  BY FS_EmptySet
<1>2. PICK i0 : i0 = Lowest(FreeDescs)
  OBVIOUS
<1>3. i0 \in FreeDescs
  BY <1>0, <1>1, <1>2, LowestIn
<1> DEFINE S == FreeDescs \ {i0}
<1>4. IsFiniteSet(S) /\ Cardinality(S) = Cardinality(FreeDescs) - 1
  BY <1>0, <1>3, FS_RemoveElement
<1>5. Cardinality(FreeDescs) \in Nat
  BY RequestsFit
<1>6. S # {}
  BY <1>4, <1>5, FS_EmptySet
<1>7. PICK i1 : i1 = Lowest(S)
  OBVIOUS
<1>8. i1 \in S
  BY <1>0, <1>6, <1>7, LowestIn
<1>9. IsFiniteSet(S \ {i1}) /\ Cardinality(S \ {i1}) = Cardinality(S) - 1
  <2> HIDE DEF S
  <2>. QED  BY <1>4, <1>8, FS_RemoveElement
<1>10. S \ {i1} # {}
  BY <1>4, <1>5, <1>9, FS_EmptySet
<1>11. FreeDescs \ {i0, i1} = S \ {i1}
  OBVIOUS
<1>12. Lowest(FreeDescs \ {i0, i1}) \in FreeDescs \ {i0, i1}
  BY <1>0, <1>10, <1>11, LowestIn
<1>. QED  BY <1>2, <1>3, <1>7, <1>8, <1>12

\* What a submission writes in the avail ring is none of the entries there.
LEMMA WriteAhead ==
  ASSUME DInv, AvailLen < RING, NEW h, ring' = [ring EXCEPT ![idx % RING] = h],
         UNCHANGED seen,
         NEW k \in 0..(AvailLen - 1)
  PROVE  AvailAt(k)' = AvailAt(k)
<1>1. idx \in Index /\ seen \in Index /\ AvailLen \in Nat
  BY WindowTypes DEF DInv, Index
<1>2. (seen + AvailLen) % RING = idx % RING
  BY <1>1, WriterPlace DEF AvailLen
<1>3. k \in Nat /\ k < RING /\ k # AvailLen
  BY <1>1
<1>4. (seen + k) % RING # idx % RING
  BY <1>1, <1>2, <1>3, PlacesDiffer
<1>. QED  BY <1>4 DEF AvailAt, DInv, TypeOK

LEMMA SubmitDInv ==
  ASSUME DInv, NEW p \in Procs, Submit(p)
  PROVE  DInv'
<1>1. PICK i0, i1, i2 :
        /\ i0 \in Descs /\ i1 \in Descs /\ i2 \in Descs
        /\ i0 # i1 /\ i0 # i2 /\ i1 # i2
        /\ free[i0] /\ free[i1] /\ free[i2]
        /\ free' = [i \in Descs |-> free[i] /\ i \notin {i0, i1, i2}]
        /\ desc' = [desc EXCEPT ![i0] = [addr |-> req[p], next |-> i1, more |-> TRUE],
                                ![i1] = [addr |-> p, next |-> i2, more |-> TRUE],
                                ![i2] = NoDesc]
        /\ info' = [info EXCEPT ![i0] = p]
        /\ head' = [head EXCEPT ![p] = i0]
        /\ ring' = [ring EXCEPT ![idx % RING] = i0]
  BY ThreeFree DEF Submit, FreeDescs
<1>2. /\ pc[p] = "enter" /\ lock = NoProc /\ Cardinality(FreeDescs) >= 3
      /\ busy' = [busy EXCEPT ![p] = TRUE]
      /\ lock' = p
      /\ pc' = [pc EXCEPT ![p] = "publish"]
      /\ UNCHANGED <<idx, usedRing, usedIdx, irq, used_idx, seen, inflight, store, req, data>>
  BY DEF Submit, Move, usedVars, deviceVars, callVars
<1>3. /\ idx \in Index /\ seen \in Index /\ AvailLen \in Nat /\ UsedLen \in Nat
      /\ AvailLen < RING /\ idx % RING \in Slots
  BY <1>2, WindowTypes, AvailFits, PlaceIsSlot DEF DInv, Index
<1>4. req[p] \in Requests
  BY <1>2 DEF DInv, ReqInv
<1>5. TypeOK'
  <2>1. desc' \in [Descs -> [addr : Requests \cup Procs \cup {NoProc}, next : Descs, more : BOOLEAN]]
    <3>1. 0 \in Descs
      BY DEF Descs
    <3>. QED  BY <1>1, <1>4, <3>1 DEF DInv, TypeOK, NoDesc
  <2>2. free' \in [Descs -> BOOLEAN]
    BY <1>1
  <2>. QED  BY <1>1, <1>2, <1>3, <2>1, <2>2 DEF DInv, TypeOK
<1>6. ReqInv' /\ SleepInv'
  BY <1>2, <1>4 DEF DInv, ReqInv, SleepInv, TypeOK, Submitted
<1>7. Submitted' = Submitted \cup {p} /\ p \notin Submitted
  BY <1>2 DEF Submitted, DInv, TypeOK
<1>8. /\ desc'[i0] = [addr |-> req[p], next |-> i1, more |-> TRUE]
      /\ desc'[i1] = [addr |-> p, next |-> i2, more |-> TRUE]
      /\ desc'[i2] = NoDesc
  <2>1. DOMAIN desc = Descs
    BY DEF DInv, TypeOK
  <2>. QED  BY <1>1, <2>1
<1>9. \A i \in Descs \ {i0, i1, i2} : desc'[i] = desc[i] /\ info'[i] = info[i] /\ free'[i] = free[i]
  BY <1>1 DEF DInv, TypeOK
<1>10. ~free'[i0] /\ ~free'[i1] /\ ~free'[i2] /\ info'[i0] = p
  BY <1>1 DEF DInv, TypeOK
<1>11. head'[p] = i0 /\ \A q \in Submitted : head'[q] = head[q] /\ busy'[q] = busy[q] /\ q # p
  BY <1>1, <1>2, <1>7 DEF DInv, TypeOK, Submitted
<1>12. ChainOf(p)' /\ Chain(head[p])' = {i0, i1, i2}
  <2>1. /\ desc'[i0].addr = req[p] /\ desc'[i0].next = i1 /\ desc'[i0].more
        /\ desc'[i1].addr = p /\ desc'[i1].next = i2 /\ desc'[i1].more
        /\ ~desc'[i2].more
    BY <1>8 DEF NoDesc
  <2>2. PICK h, i, j : h = head'[p] /\ i = desc'[h].next /\ j = desc'[i].next
    OBVIOUS
  <2>3. h = i0 /\ i = i1 /\ j = i2
    BY <1>11, <2>1, <2>2
  <2>4. ChainOf(p)'
    BY <1>1, <1>2, <1>10, <2>1, <2>2, <2>3 DEF ChainOf
  <2>5. Chain(head[p])' = {i0, i1, i2}
    BY <2>1, <2>2, <2>3 DEF Chain
  <2>. QED  BY <2>4, <2>5
<1>13. ASSUME NEW q \in Submitted
       PROVE  /\ ChainOf(q)' /\ Chain(head[q])' = Chain(head[q])
              /\ Chain(head[q]) \cap {i0, i1, i2} = {}
  <2>1. ChainOf(q)
    BY DEF DInv, ChainInv
  <2>2. {head[q], desc[head[q]].next, desc[desc[head[q]].next].next} \subseteq Descs \ {i0, i1, i2}
    BY <1>1, <2>1, ChainValue DEF ChainOf
  <2>3. PICK h, i, j : h = head[q] /\ i = desc[h].next /\ j = desc[i].next
    OBVIOUS
  <2>4. /\ desc'[h] = desc[h] /\ desc'[i] = desc[i] /\ desc'[j] = desc[j]
        /\ free'[h] = free[h] /\ free'[i] = free[i] /\ free'[j] = free[j]
        /\ info'[h] = info[h] /\ head'[q] = h /\ req' = req
    BY <1>2, <1>9, <1>11, <2>2, <2>3
  <2>5. ChainOf(q)'
    BY <2>1, <2>3, <2>4 DEF ChainOf
  <2>6. Chain(head[q])' = Chain(head[q])
    BY <2>1, <2>3, <2>4 DEF Chain, ChainOf
  <2>. QED  BY <2>2, <2>5, <2>6, ChainValue
<1>14. ChainInv'
  BY <1>7, <1>12, <1>13 DEF ChainInv
<1>15. DisjointInv'
  <2> SUFFICES ASSUME NEW q \in Submitted', NEW s \in Submitted', q # s
               PROVE  Chain(head[q])' \cap Chain(head[s])' = {}
    BY DEF DisjointInv
  <2>1. CASE q = p
    BY <1>7, <1>12, <1>13, <2>1
  <2>2. CASE s = p
    BY <1>7, <1>12, <1>13, <2>2
  <2>3. CASE q \in Submitted /\ s \in Submitted
    <3>1. Chain(head[q]) \cap Chain(head[s]) = {}
      BY <2>3 DEF DInv, DisjointInv
    <3>. QED  BY <1>13, <2>3, <3>1
  <2>. QED  BY <1>7, <2>1, <2>2, <2>3
<1>16. FreeInv'
  <2> SUFFICES ASSUME NEW i \in Descs, ~free'[i]
               PROVE  \E q \in Submitted' : i \in Chain(head[q])'
    BY DEF FreeInv
  <2>1. CASE i \in {i0, i1, i2}
    BY <1>7, <1>12, <2>1
  <2>2. CASE i \notin {i0, i1, i2}
    <3>1. PICK q \in Submitted : i \in Chain(head[q])
      BY <1>9, <2>2 DEF DInv, FreeInv
    <3>. QED  BY <1>7, <1>13, <3>1
  <2>. QED  BY <2>1, <2>2
<1>17. ASSUME NEW j, Waiting(j) PROVE j # i0 /\ Waiting(j)'
  <2>1. PICK q \in Submitted : head[q] = j /\ busy[q]
    BY <1>17 DEF Waiting
  <2>2. ~free[j]
    BY <2>1 DEF DInv, ChainInv, ChainOf
  <2>. QED  BY <1>1, <1>7, <1>11, <2>1, <2>2 DEF Waiting
<1>18. /\ AvailLen' = AvailLen /\ UsedLen' = UsedLen
       /\ \A k : UsedAt(k)' = UsedAt(k)
  BY <1>2 DEF AvailLen, UsedLen, UsedAt, Count
<1>19. \A k \in 0..(AvailLen - 1) : AvailAt(k)' = AvailAt(k)
  BY <1>1, <1>2, <1>3, WriteAhead
<1>20. AvailInv' /\ FlightInv' /\ UsedInv'
  <2>1. ASSUME NEW k \in 0..(AvailLen - 1)
        PROVE  /\ Waiting(AvailAt(k))' /\ AvailAt(k)' \notin inflight'
               /\ \A l \in 0..(AvailLen - 1) : AvailAt(k)' = AvailAt(l)' => k = l
               /\ \A l \in 0..(UsedLen - 1) : AvailAt(k)' # UsedAt(l)'
    <3>1. Waiting(AvailAt(k))
      BY DEF DInv, AvailInv
    <3>2. Waiting(AvailAt(k))'
      BY <1>17, <1>19, <3>1 DEF Waiting
    <3>. QED  BY <1>2, <1>18, <1>19, <3>2 DEF DInv, AvailInv
  <2>2. AvailInv'
    BY <1>18, <2>1 DEF AvailInv
  <2>3. FlightInv'
    BY <1>2, <1>17 DEF DInv, FlightInv
  <2>4. UsedInv'
    BY <1>2, <1>17, <1>18 DEF DInv, UsedInv
  <2>. QED  BY <2>2, <2>3, <2>4
<1>21. PublishInv'
  <2>1. \A q \in Procs : lock' = q => pc'[q] = "publish"
    BY <1>2 DEF DInv, TypeOK
  <2>2. \A q \in Procs : pc'[q] = "publish" => q = p
    BY <1>2 DEF DInv, TypeOK, PublishInv
  <2>3. ring'[idx % RING] = i0 /\ busy'[p] /\ head'[p] = i0
    BY <1>1, <1>2, <1>3 DEF DInv, TypeOK
  <2>4. i0 \notin inflight
    BY <1>17 DEF DInv, FlightInv
  <2>5. \A k \in 0..(AvailLen - 1) : AvailAt(k) # i0
    BY <1>17 DEF DInv, AvailInv
  <2>6. \A k \in 0..(UsedLen - 1) : UsedAt(k) # i0
    BY <1>17 DEF DInv, UsedInv
  <2>. QED  BY <1>2, <1>18, <1>19, <2>1, <2>2, <2>3, <2>4, <2>5, <2>6 DEF PublishInv
<1>. QED  BY <1>5, <1>6, <1>14, <1>15, <1>16, <1>20, <1>21 DEF DInv

LEMMA FinishDInv ==
  ASSUME DInv, NEW p \in Procs, Finish(p)
  PROVE  DInv'
<1>1. PICK h, i, j : h = head[p] /\ i = desc[h].next /\ j = desc[i].next
  OBVIOUS
<1>2. /\ pc[p] = "relock" /\ lock = NoProc /\ ~busy[p] /\ p \in Submitted
      /\ UNCHANGED <<ring, idx, usedRing, usedIdx, irq, used_idx, lock, seen, inflight, store, busy>>
  BY DEF Finish, Submitted, availVars, usedVars, deviceVars
<1>3. h \in Descs /\ i \in Descs /\ j \in Descs /\ Chain(h) = {h, i, j}
  BY <1>1, <1>2, ChainValue
<1>4. /\ free' = [x \in Descs |-> free[x] \/ x \in {h, i, j}]
      /\ desc' = [x \in Descs |-> IF x \in {h, i, j} THEN NoDesc ELSE desc[x]]
      /\ info' = [info EXCEPT ![h] = NoProc]
      /\ req' = [req EXCEPT ![p] = NoReq]
      /\ data' = [data EXCEPT ![p] = Blank]
      /\ head' = [head EXCEPT ![p] = 0]
  BY <1>1, <1>3 DEF Finish
<1>5. /\ pc'[p] = "idle"
      /\ \A q \in Procs \ {p} : pc'[q] = IF pc[q] = "sleepFree" THEN "enter" ELSE pc[q]
  BY DEF Finish, WakeFree
<1>6. pc' \in [Procs -> Points]
  BY DEF Finish, WakeFree, DInv, TypeOK, Points
<1>7. TypeOK'
  <2>1. 0 \in Descs
    BY DEF Descs
  <2>2. NoDesc \in [addr : Requests \cup Procs \cup {NoProc}, next : Descs, more : BOOLEAN]
    BY <2>1 DEF NoDesc
  <2>3. desc' \in [Descs -> [addr : Requests \cup Procs \cup {NoProc}, next : Descs, more : BOOLEAN]]
    BY <1>4, <2>2 DEF DInv, TypeOK
  <2>4. free' \in [Descs -> BOOLEAN]
    BY <1>4
  <2>. QED  BY <1>2, <1>3, <1>4, <1>6, <2>1, <2>3, <2>4 DEF DInv, TypeOK, Points
<1>8. ReqInv' /\ SleepInv'
  BY <1>4, <1>5 DEF DInv, ReqInv, SleepInv, TypeOK
<1>9. Submitted' = Submitted \ {p}
  BY <1>5 DEF Submitted
<1>10. ASSUME NEW q \in Submitted \ {p}
       PROVE  /\ ChainOf(q)' /\ Chain(head[q])' = Chain(head[q])
              /\ Chain(head[q]) \cap {h, i, j} = {}
  <2>1. ChainOf(q) /\ q \in Procs
    BY DEF DInv, ChainInv, Submitted
  <2>2. Chain(head[q]) \cap {h, i, j} = {}
    BY <1>1, <1>2, <1>3 DEF DInv, DisjointInv
  <2>3. PICK h1, i1, j1 : h1 = head[q] /\ i1 = desc[h1].next /\ j1 = desc[i1].next
    OBVIOUS
  <2>4. {h1, i1, j1} \subseteq Descs \ {h, i, j}
    BY <2>2, <2>3, ChainValue
  <2>5. /\ desc'[h1] = desc[h1] /\ desc'[i1] = desc[i1] /\ desc'[j1] = desc[j1]
        /\ free'[h1] = free[h1] /\ free'[i1] = free[i1] /\ free'[j1] = free[j1]
        /\ info'[h1] = info[h1] /\ head'[q] = h1 /\ req'[q] = req[q]
    <3>1. \A x \in Descs \ {h, i, j} : desc'[x] = desc[x] /\ free'[x] = free[x] /\ info'[x] = info[x]
      BY <1>4 DEF DInv, TypeOK
    <3>. QED  BY <1>4, <2>1, <2>3, <2>4, <3>1 DEF DInv, TypeOK
  <2>6. ChainOf(q)'
    BY <2>1, <2>3, <2>5 DEF ChainOf
  <2>7. Chain(head[q])' = Chain(head[q])
    BY <2>1, <2>3, <2>5 DEF Chain, ChainOf
  <2>. QED  BY <2>2, <2>6, <2>7
<1>11. ChainInv' /\ DisjointInv'
  BY <1>9, <1>10 DEF ChainInv, DisjointInv, DInv
<1>12. FreeInv'
  <2> SUFFICES ASSUME NEW x \in Descs, ~free'[x]
               PROVE  \E q \in Submitted' : x \in Chain(head[q])'
    BY DEF FreeInv
  <2>1. x \notin {h, i, j} /\ ~free[x]
    BY <1>4
  <2>2. PICK q \in Submitted : x \in Chain(head[q])
    BY <2>1 DEF DInv, FreeInv
  <2>3. q # p
    BY <1>1, <1>3, <2>1, <2>2
  <2>. QED  BY <1>9, <1>10, <2>2, <2>3
<1>13. ASSUME NEW x, Waiting(x) PROVE Waiting(x)'
  <2>1. PICK q \in Submitted : head[q] = x /\ busy[q]
    BY <1>13 DEF Waiting
  <2>2. q # p /\ q \in Procs
    BY <1>2, <2>1 DEF Submitted
  <2>3. head'[q] = x /\ busy'[q] /\ q \in Submitted'
    BY <1>2, <1>4, <1>9, <2>1, <2>2 DEF DInv, TypeOK
  <2>. QED  BY <2>3 DEF Waiting
<1>14. AvailInv' /\ FlightInv' /\ UsedInv'
  <2>1. /\ AvailLen' = AvailLen /\ UsedLen' = UsedLen
        /\ \A k : AvailAt(k)' = AvailAt(k) /\ UsedAt(k)' = UsedAt(k)
    BY <1>2, WindowsSame
  <2>2. AvailInv'
    <3> SUFFICES ASSUME NEW k \in 0..(AvailLen - 1) PROVE Waiting(AvailAt(k))'
      BY <1>2, <2>1 DEF DInv, AvailInv, Waiting
    <3>1. PICK x : x = AvailAt(k)
      OBVIOUS
    <3>2. x' = x /\ AvailAt(k)' = x
      BY <2>1, <3>1
    <3>. QED  BY <1>13, <2>1, <3>1 DEF DInv, AvailInv, Waiting
  <2>3. FlightInv'
    BY <1>2, <1>13 DEF DInv, FlightInv
  <2>4. UsedInv'
    BY <1>2, <1>13, <2>1 DEF DInv, UsedInv, Waiting
  <2>. QED  BY <2>2, <2>3, <2>4
<1>15. PublishInv'
  <2>1. \A q \in Procs : lock' # q /\ pc'[q] # "publish"
    BY <1>2, <1>5 DEF DInv, PublishInv
  <2>. QED  BY <2>1 DEF PublishInv
<1>. QED  BY <1>7, <1>8, <1>11, <1>12, <1>14, <1>15 DEF DInv

LEMMA NextDInv == DInv /\ [Next]_vars => DInv'
<1> SUFFICES ASSUME DInv, [Next]_vars PROVE DInv'
  OBVIOUS
<1>1. CASE UNCHANGED vars
  <2>1. UNCHANGED <<free, desc, info, ring, idx, usedRing, usedIdx, used_idx, seen, inflight,
                    busy, head, irq, lock, store, pc, req, data>>
    BY <1>1 DEF vars, driverVars, availVars, usedVars, deviceVars, callVars
  <2>2. TypeOK' /\ ReqInv' /\ SleepInv' /\ Submitted' = Submitted
    BY <2>1 DEF DInv, TypeOK, ReqInv, SleepInv, Submitted
  <2>. QED  BY <2>1, <2>2, QuietStep
<1>2. ASSUME NEW p \in Procs,
             \/ AllocFail(p) \/ Submit(p) \/ Publish(p) \/ SleepAgain(p) \/ Finish(p) \/ Kill(p)
             \/ \E r \in Requests, v \in Vals \cup {Blank} : Call(p, r, v)
      PROVE  DInv'
  BY <1>2, AllocFailDInv, SubmitDInv, PublishDInv, SleeperDInv, FinishDInv, CallDInv
<1>3. CASE Take
  BY <1>3, TakeDInv
<1>4. ASSUME NEW i \in Descs, Complete(i) PROVE DInv'
  BY <1>4, CompleteDInv
<1>5. CASE Intr
  BY <1>5, HandlerDInv, IntrOneDInv DEF Intr
<1>. QED  BY <1>1, <1>2, <1>3, <1>4, <1>5 DEF Next

\* The invariant the rest follows from.
THEOREM DiskInvariant == Spec => []DInv
<1>1. Init => DInv
  BY InitDInv
<1>2. DInv /\ [Next]_vars => DInv'
  BY NextDInv
<1>. QED  BY <1>1, <1>2, PTL DEF Spec

-----------------------------------------------------------------------------
(* What the driver keeps *)

\* Type correctness: the counters stay counters of 16 bits and every link of a
\* chain or a ring is a descriptor.
THEOREM DiskTypes == Spec => []TypeOK
  BY DiskInvariant, PTL DEF DInv

LEMMA OwnedFromDInv == DInv => DescsOwned
<1> SUFFICES ASSUME DInv PROVE DescsOwned
  OBVIOUS
<1>1. ASSUME NEW p \in Submitted PROVE Cardinality(Chain(head[p])) = 3
  <2>1. PICK h, i, j : h = head[p] /\ i = desc[h].next /\ j = desc[i].next
    OBVIOUS
  <2>2. Chain(head[p]) = {h, i, j} /\ h # i /\ h # j /\ i # j
    BY <2>1, ChainValue DEF DInv, ChainInv, ChainOf
  <2>3. IsFiniteSet({h}) /\ Cardinality({h}) = 1
    BY FS_Singleton
  <2>4. IsFiniteSet({h} \cup {i}) /\ Cardinality({h} \cup {i}) = 1 + 1
    BY <2>2, <2>3, FS_AddElement
  <2>5. Cardinality(({h} \cup {i}) \cup {j}) = 1 + 1 + 1
    BY <2>2, <2>4, FS_AddElement
  <2>6. ({h} \cup {i}) \cup {j} = {h, i, j}
    OBVIOUS
  <2>. QED  BY <2>2, <2>5, <2>6
<1>2. FreeDescs = Descs \ UNION {Chain(head[p]) : p \in Submitted}
  <2>1. ASSUME NEW p \in Submitted, NEW x \in Chain(head[p]) PROVE x \in Descs /\ ~free[x]
    BY ChainValue DEF DInv, ChainInv, ChainOf
  <2>2. ASSUME NEW x \in Descs, ~free[x]
        PROVE  x \in UNION {Chain(head[p]) : p \in Submitted}
    BY <2>2 DEF DInv, FreeInv
  <2>. QED  BY <2>1, <2>2 DEF FreeDescs
<1>. QED  BY <1>1, <1>2 DEF DescsOwned, DInv, DisjointInv

\* alloc_desc(), free_desc() and free_chain() account for every descriptor: each
\* request has three of its own, the free ones are all the others, and none is
\* ever freed twice (the panic "free_desc 2").
THEOREM DescriptorsOwned == Spec => []DescsOwned
  BY DiskInvariant, OwnedFromDInv, PTL

\* The entries of a ring from i up to j, by their place and by their number.
LEMMA AheadPlaces ==
  ASSUME NEW i, NEW j
  PROVE  Ahead(i, j) = {(i + k) % RING : k \in 0..(Count(i, j) - 1)}
  BY DEF Ahead, Count

LEMMA UsedFromDInv == DInv => UsedNamesWaiter
<1> SUFFICES ASSUME DInv, NEW x \in Ahead(used_idx, usedIdx)
             PROVE  \E p \in Submitted : head[p] = usedRing[x] /\ info[usedRing[x]] = p /\ busy[p]
  BY DEF UsedNamesWaiter
<1>1. PICK k \in 0..(UsedLen - 1) : x = (used_idx + k) % RING
  BY AheadPlaces DEF UsedLen
<1>2. Waiting(UsedAt(k)) /\ usedRing[x] = UsedAt(k)
  BY <1>1 DEF DInv, UsedInv, UsedAt
<1>. QED  BY <1>2, WaiterOf

\* virtio_disk_intr() finds, behind each entry of the used ring it has not seen,
\* a process that still waits for it: info[].b is its buffer, and b->disk is 1.
THEOREM CompletionsNameWaiters == Spec => []UsedNamesWaiter
  BY DiskInvariant, UsedFromDInv, PTL

\* No process sleeps on &disk.free[0] while all descriptors are free: there is a
\* request whose free_chain() will wake it.
THEOREM SleepersHaveWakers == Spec => []DescSleeperHasWaker
<1>1. DInv => DescSleeperHasWaker
  BY DEF DInv, SleepInv, DescSleeperHasWaker
<1>. QED  BY <1>1, DiskInvariant, PTL

-----------------------------------------------------------------------------
(* The driver implements BlockDevice *)

\* The heads that the device has not done yet, whether it has seen them or not.
Outstanding == inflight \cup {AvailAt(k) : k \in 0..(AvailLen - 1)}
Done(p) == pc[p] \in {"sleepBuf", "relock"} /\ head[p] \notin Outstanding
Status == [p \in Procs |-> IF pc[p] = "idle" THEN "idle"
                           ELSE IF Done(p) THEN "served" ELSE "pending"]

\* The refinement mapping, by the numbers of the entries.
LEMMA ServedValue ==
  /\ \A p : Served(p) <=> Done(p)
  /\ \A p : Served(p)' <=> Done(p)'
<1>1. {ring[k] : k \in Ahead(seen, idx)} = {AvailAt(k) : k \in 0..(AvailLen - 1)}
  BY AheadPlaces DEF AvailLen, AvailAt
<1>2. {ring'[k] : k \in Ahead(seen, idx)'} = {AvailAt(k)' : k \in 0..(AvailLen' - 1)}
  <2>1. Ahead(seen, idx)' = Ahead(seen', idx') /\ AvailLen' = Count(seen', idx')
    BY DEF Ahead, AvailLen, Count
  <2>2. Ahead(seen', idx') = {(seen' + k) % RING : k \in 0..(AvailLen' - 1)}
    BY <2>1, AheadPlaces
  <2>3. \A k : AvailAt(k)' = ring'[(seen' + k) % RING]
    BY DEF AvailAt
  <2>. QED  BY <2>1, <2>2, <2>3
<1>3. \A p : Served(p) <=> Done(p)
  BY <1>1 DEF Served, Done, Outstanding
<1>4. \A p : Served(p)' <=> Done(p)'
  BY <1>2 DEF Served, Done, Outstanding
<1>. QED  BY <1>3, <1>4

LEMMA StatusValue ==
  /\ [p \in Procs |-> IF pc[p] = "idle" THEN "idle"
                      ELSE IF Served(p) THEN "served" ELSE "pending"] = Status
  /\ [p \in Procs |-> IF pc[p] = "idle" THEN "idle"
                      ELSE IF Served(p) THEN "served" ELSE "pending"]' = Status'
  BY ServedValue DEF Status

LEMMA OutstandingSame ==
  ASSUME UNCHANGED <<inflight, ring, idx, seen>>
  PROVE  Outstanding' = Outstanding
<1>1. AvailLen' = AvailLen /\ \A k : AvailAt(k)' = AvailAt(k)
  BY DEF AvailLen, AvailAt, Count
<1>. QED  BY <1>1 DEF Outstanding

LEMMA StatusSame ==
  ASSUME Outstanding' = Outstanding,
         \A p \in Procs : /\ pc'[p] = "idle" <=> pc[p] = "idle"
                          /\ pc'[p] \in {"sleepBuf", "relock"} <=> pc[p] \in {"sleepBuf", "relock"}
                          /\ pc[p] \in {"sleepBuf", "relock"} => head'[p] = head[p]
  PROVE  Status' = Status
  BY DEF Status, Done

\* A request whose buffer is the driver's again has been done.
LEMMA IdleBufferDone ==
  ASSUME DInv, NEW p \in Procs, pc[p] = "relock", ~busy[p]
  PROVE  Done(p)
<1>1. p \in Submitted
  BY DEF Submitted
<1>2. ~Waiting(head[p])
  BY <1>1, HeadsDiffer DEF Waiting
<1>. QED  BY <1>2 DEF Done, Outstanding, DInv, FlightInv, AvailInv

LEMMA InitDevice == Init => Device!Init
<1> SUFFICES ASSUME Init PROVE Device!Init
  OBVIOUS
<1>1. Status = [p \in Procs |-> "idle"]
  BY DEF Init, Status
<1>. QED  BY <1>1, StatusValue DEF Init, Device!Init, NoReq, Device!NoReq

\* Device!Next with the mapped status.
LEMMA DeviceSteps ==
  ASSUME NEW p \in Procs,
         \/ /\ Status[p] = "pending"
            /\ Status' = [Status EXCEPT ![p] = "served"]
            /\ IF req[p].write THEN store' = [store EXCEPT ![req[p].block] = data[p]] /\ UNCHANGED data
                               ELSE data' = [data EXCEPT ![p] = store[req[p].block]] /\ UNCHANGED store
            /\ UNCHANGED req
         \/ /\ Status[p] = "served"
            /\ Status' = [Status EXCEPT ![p] = "idle"]
            /\ data' = [data EXCEPT ![p] = Blank]
            /\ req' = [req EXCEPT ![p] = NoReq]
            /\ UNCHANGED store
         \/ \E r \in Requests, v \in Vals \cup {Blank} :
               /\ Status[p] = "idle"
               /\ Status' = [Status EXCEPT ![p] = "pending"]
               /\ req' = [req EXCEPT ![p] = r]
               /\ data' = [data EXCEPT ![p] = v]
               /\ UNCHANGED store
  PROVE  Device!Next
  BY StatusValue DEF Device!Next, Device!Serve, Device!Return, Device!Start, Device!NoReq, NoReq,
     Requests

LEMMA DeviceStutters ==
  ASSUME Status' = Status, UNCHANGED <<store, req, data>>
  PROVE  UNCHANGED Device!vars
  BY StatusValue DEF Device!vars

LEMMA CallStarts ==
  ASSUME DInv, NEW p \in Procs, NEW r \in Requests, NEW v \in Vals \cup {Blank}, Call(p, r, v)
  PROVE  Device!Next
<1>1. /\ pc[p] = "idle" /\ pc' = [pc EXCEPT ![p] = "enter"]
      /\ req' = [req EXCEPT ![p] = r] /\ data' = [data EXCEPT ![p] = v]
      /\ UNCHANGED <<inflight, ring, idx, seen, head, store>>
  BY DEF Call, Move, availVars, deviceVars
<1>2. \A q \in Procs : q # p => pc'[q] = pc[q]
  BY <1>1 DEF DInv, TypeOK
<1>3. pc'[p] = "enter"
  BY <1>1 DEF DInv, TypeOK
<1>4. Status[p] = "idle" /\ Status' = [Status EXCEPT ![p] = "pending"]
  BY <1>1, <1>2, <1>3, OutstandingSame DEF Status, Done
<1>. QED  BY <1>1, <1>4, DeviceSteps

LEMMA FinishReturns ==
  ASSUME DInv, NEW p \in Procs, Finish(p)
  PROVE  Device!Next
<1>1. /\ pc[p] = "relock" /\ ~busy[p]
      /\ req' = [req EXCEPT ![p] = NoReq] /\ data' = [data EXCEPT ![p] = Blank]
      /\ head' = [head EXCEPT ![p] = 0]
      /\ UNCHANGED <<inflight, ring, idx, seen, store>>
  BY DEF Finish, availVars, deviceVars
<1>2. \A q \in Procs : q # p => /\ pc'[q] = IF pc[q] = "sleepFree" THEN "enter" ELSE pc[q]
                                /\ head'[q] = head[q]
  BY DEF Finish, WakeFree, DInv, TypeOK
<1>3. pc'[p] = "idle"
  BY DEF Finish, WakeFree
<1>4. Done(p)
  BY <1>1, IdleBufferDone
<1>5. Outstanding' = Outstanding
  BY <1>1, OutstandingSame
<1>6. \A q \in Procs : q # p => Status'[q] = Status[q]
  BY <1>2, <1>5 DEF Status, Done
<1>7. Status[p] = "served" /\ Status'[p] = "idle"
  BY <1>1, <1>3, <1>4 DEF Status
<1>8. Status' = [Status EXCEPT ![p] = "idle"]
  BY <1>6, <1>7 DEF Status
<1>. QED  BY <1>1, <1>7, <1>8, DeviceSteps

LEMMA CompleteServes ==
  ASSUME DInv, NEW i \in Descs, Complete(i)
  PROVE  Device!Next
<1>1. i \in inflight /\ Waiting(i)
  BY DEF Complete, DInv, FlightInv
<1>2. PICK p \in Submitted :
        /\ p \in Procs /\ head[p] = i /\ busy[p] /\ desc[i].addr = req[p]
        /\ desc[desc[i].next].addr = p /\ req[p] \in Requests
  BY <1>1, WaiterOf
<1>3. /\ inflight' = inflight \ {i}
      /\ UNCHANGED <<ring, idx, seen, pc, req, head>>
      /\ IF req[p].write THEN store' = [store EXCEPT ![req[p].block] = data[p]] /\ UNCHANGED data
                         ELSE data' = [data EXCEPT ![p] = store[req[p].block]] /\ UNCHANGED store
  BY <1>2 DEF Complete, availVars
<1>4. Outstanding' = Outstanding \ {i} /\ i \in Outstanding
  <2>1. AvailLen' = AvailLen /\ \A k : AvailAt(k)' = AvailAt(k)
    BY <1>3 DEF AvailLen, AvailAt, Count
  <2>2. \A k \in 0..(AvailLen - 1) : AvailAt(k) # i
    BY <1>1 DEF DInv, AvailInv
  <2>. QED  BY <1>1, <1>3, <2>1, <2>2 DEF Outstanding
<1>5. pc[p] \in {"sleepBuf", "relock"}
  BY <1>1, <1>2 DEF Submitted, DInv, PublishInv
<1>6. \A q \in Procs : q # p => Status'[q] = Status[q]
  <2> SUFFICES ASSUME NEW q \in Procs, q # p, pc[q] \in {"sleepBuf", "relock"}
               PROVE  head[q] # i
    BY <1>3, <1>4 DEF Status, Done
  <2>. QED  BY <1>2, HeadsDiffer DEF Submitted
<1>7. Status[p] = "pending" /\ Status'[p] = "served"
  BY <1>2, <1>3, <1>4, <1>5 DEF Status, Done
<1>8. Status' = [Status EXCEPT ![p] = "served"]
  BY <1>6, <1>7 DEF Status
<1>. QED  BY <1>2, <1>3, <1>7, <1>8, DeviceSteps

LEMMA SubmitStutters ==
  ASSUME DInv, NEW p \in Procs, Submit(p)
  PROVE  UNCHANGED Device!vars
<1>1. PICK h : ring' = [ring EXCEPT ![idx % RING] = h] /\ head' = [head EXCEPT ![p] = h]
  BY DEF Submit
<1>2. /\ pc[p] = "enter" /\ Cardinality(FreeDescs) >= 3 /\ pc' = [pc EXCEPT ![p] = "publish"]
      /\ UNCHANGED <<idx, seen, inflight, store, req, data>>
  BY DEF Submit, Move, deviceVars, callVars
<1>3. Outstanding' = Outstanding
  <2>1. AvailLen' = AvailLen /\ AvailLen < RING
    BY <1>2, AvailFits DEF AvailLen, Count
  <2>2. \A k \in 0..(AvailLen - 1) : AvailAt(k)' = AvailAt(k)
    BY <1>1, <1>2, <2>1, WriteAhead
  <2>. QED  BY <1>2, <2>1, <2>2 DEF Outstanding
<1>4. Status' = Status
  BY <1>1, <1>2, <1>3, StatusSame DEF DInv, TypeOK
<1>. QED  BY <1>2, <1>4, DeviceStutters

LEMMA PublishStutters ==
  ASSUME DInv, NEW p \in Procs, Publish(p)
  PROVE  UNCHANGED Device!vars
<1>1. /\ pc[p] = "publish" /\ pc' = [pc EXCEPT ![p] = "sleepBuf"] /\ idx' = Succ(idx)
      /\ UNCHANGED <<ring, seen, inflight, head, store, req, data>>
  BY DEF Publish, Move, deviceVars, callVars, driverVars
<1>2. idx \in Index /\ seen \in Index /\ AvailLen \in Nat /\ AvailLen < RING
  BY <1>1, WindowTypes, AvailFits DEF DInv, Index
<1>3. AvailLen' = AvailLen + 1
  BY <1>1, <1>2, CountGrows DEF AvailLen, Count
<1>4. AvailAt(AvailLen) = head[p]
  BY <1>1, <1>2, WriterPlace DEF DInv, PublishInv, AvailAt, AvailLen
<1>5. Outstanding' = Outstanding \cup {head[p]}
  <2>1. \A k : AvailAt(k)' = AvailAt(k)
    BY <1>1 DEF AvailAt
  <2>2. \A k : k \in 0..(AvailLen' - 1) <=> k \in 0..(AvailLen - 1) \/ k = AvailLen
    BY <1>2, <1>3
  <2>. QED  BY <1>1, <1>4, <2>1, <2>2 DEF Outstanding
<1>6. \A q \in Procs : q # p => Status'[q] = Status[q]
  <2> SUFFICES ASSUME NEW q \in Procs, q # p, pc[q] \in {"sleepBuf", "relock"}
               PROVE  head[q] # head[p]
    BY <1>1, <1>5 DEF Status, Done, DInv, TypeOK
  <2>. QED  BY <1>1, HeadsDiffer DEF Submitted
<1>7. Status[p] = "pending" /\ Status'[p] = "pending"
  BY <1>1, <1>5 DEF Status, Done, DInv, TypeOK
<1>8. Status' = Status
  BY <1>6, <1>7 DEF Status
<1>. QED  BY <1>1, <1>8, DeviceStutters

LEMMA TakeStutters ==
  ASSUME DInv, Take
  PROVE  UNCHANGED Device!vars
<1>1. /\ seen # idx /\ seen' = Succ(seen) /\ inflight' = inflight \cup {ring[seen % RING]}
      /\ UNCHANGED <<ring, idx, pc, head, store, req, data>>
  BY DEF Take, availVars, callVars
<1>2. idx \in Index /\ seen \in Index /\ AvailLen \in Nat
  BY WindowTypes DEF DInv, Index
<1>3. AvailLen > 0 /\ AvailLen' = AvailLen - 1
  BY <1>1, <1>2, CountShrinks DEF AvailLen, Count
<1>4. ring[seen % RING] = AvailAt(0)
  BY <1>2 DEF AvailAt, Index
<1>5. \A k \in Nat : AvailAt(k)' = AvailAt(k + 1)
  BY <1>1, <1>2, ReaderPlace DEF AvailAt
<1>6. Outstanding' = Outstanding
  <2>1. ASSUME NEW x \in Outstanding' PROVE x \in Outstanding
    <3>1. CASE \E k \in 0..(AvailLen' - 1) : x = AvailAt(k)'
      <4>1. PICK k \in 0..(AvailLen' - 1) : x = AvailAt(k + 1)
        BY <1>3, <1>5, <3>1
      <4>. QED  BY <1>2, <1>3, <4>1 DEF Outstanding
    <3>2. CASE x \in inflight \cup {AvailAt(0)}
      BY <1>2, <1>3, <3>2 DEF Outstanding
    <3>. QED  BY <1>1, <1>4, <2>1, <3>1, <3>2 DEF Outstanding
  <2>2. ASSUME NEW x \in Outstanding PROVE x \in Outstanding'
    <3>1. CASE \E k \in 0..(AvailLen - 1) : x = AvailAt(k)
      <4>1. PICK k \in 0..(AvailLen - 1) : x = AvailAt(k)
        BY <3>1
      <4>2. CASE k = 0
        BY <1>1, <1>4, <4>1, <4>2 DEF Outstanding
      <4>3. CASE k # 0
        <5>1. k - 1 \in 0..(AvailLen' - 1) /\ k - 1 \in Nat /\ k = (k - 1) + 1
          BY <1>2, <1>3, <4>3
        <5>2. x = AvailAt(k - 1)'
          BY <1>5, <4>1, <5>1
        <5>. QED  BY <5>1, <5>2 DEF Outstanding
      <4>. QED  BY <4>2, <4>3
    <3>2. CASE x \in inflight
      BY <1>1, <3>2 DEF Outstanding
    <3>. QED  BY <2>2, <3>1, <3>2 DEF Outstanding
  <2>. QED  BY <2>1, <2>2
<1>7. Status' = Status
  BY <1>1, <1>6, StatusSame
<1>. QED  BY <1>1, <1>7, DeviceStutters

\* Steps of the driver that its callers do not see.
LEMMA OtherStutters ==
  ASSUME DInv,
         \/ \E p \in Procs : AllocFail(p) \/ SleepAgain(p) \/ Kill(p)
         \/ Intr
         \/ UNCHANGED vars
  PROVE  UNCHANGED Device!vars
<1> USE DEF availVars, usedVars, deviceVars, callVars, driverVars
<1>1. UNCHANGED <<inflight, ring, idx, seen, head, store, req, data>>
  BY DEF AllocFail, SleepAgain, Kill, Intr, IntrEnter, IntrOne, IntrExit, vars
<1>2. \A q \in Procs : /\ pc'[q] = "idle" <=> pc[q] = "idle"
                       /\ pc'[q] \in {"sleepBuf", "relock"} <=> pc[q] \in {"sleepBuf", "relock"}
  <2>1. CASE \E p \in Procs : AllocFail(p)
    BY <2>1 DEF AllocFail, WakeFree, DInv, TypeOK
  <2>2. CASE \E p \in Procs : SleepAgain(p) \/ Kill(p)
    BY <2>2 DEF SleepAgain, Kill, Move, DInv, TypeOK
  <2>3. CASE IntrOne
    BY <2>3 DEF IntrOne, DInv, TypeOK
  <2>4. CASE IntrEnter \/ IntrExit \/ UNCHANGED vars
    BY <2>4 DEF IntrEnter, IntrExit, vars
  <2>. QED  BY <2>1, <2>2, <2>3, <2>4 DEF Intr
<1>3. Status' = Status
  BY <1>1, <1>2, OutstandingSame, StatusSame
<1>. QED  BY <1>1, <1>3, DeviceStutters

LEMMA StepDevice == DInv /\ [Next]_vars => [Device!Next]_(Device!vars)
<1> SUFFICES ASSUME DInv, [Next]_vars PROVE Device!Next \/ UNCHANGED Device!vars
  OBVIOUS
<1>1. CASE \E p \in Procs, r \in Requests, v \in Vals \cup {Blank} : Call(p, r, v)
  BY <1>1, CallStarts
<1>2. CASE \E p \in Procs : Finish(p)
  BY <1>2, FinishReturns
<1>3. CASE \E i \in Descs : Complete(i)
  BY <1>3, CompleteServes
<1>4. CASE \E p \in Procs : Submit(p)
  BY <1>4, SubmitStutters
<1>5. CASE \E p \in Procs : Publish(p)
  BY <1>5, PublishStutters
<1>6. CASE Take
  BY <1>6, TakeStutters
<1>7. CASE (\E p \in Procs : AllocFail(p) \/ SleepAgain(p) \/ Kill(p)) \/ Intr \/ UNCHANGED vars
  BY <1>7, OtherStutters
<1>. QED  BY <1>1, <1>2, <1>3, <1>4, <1>5, <1>6, <1>7 DEF Next

\* virtio_disk_rw() is a block device to its callers: each call transfers its own
\* block once, between the call and the return, whatever the order in which the
\* device completes the requests and however often the ring indices wrap around.
THEOREM DriverIsBlockDevice == Spec => ImplementsBlockDevice
<1>1. Init => Device!Init
  BY InitDevice
<1>2. DInv /\ [Next]_vars => [Device!Next]_(Device!vars)
  BY StepDevice
<1>. QED  BY <1>1, <1>2, DiskInvariant, PTL DEF Spec, ImplementsBlockDevice, Device!Spec
=============================================================================
