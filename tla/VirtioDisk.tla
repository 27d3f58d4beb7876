---------------------------- MODULE VirtioDisk ----------------------------
(***************************************************************************)
(* The virtio disk driver (kernel/virtio_disk.c): virtio_disk_rw() called  *)
(* by several processes, the interrupt handler virtio_disk_intr(), and the *)
(* device, which takes requests from the avail ring and completes them in  *)
(* any order through the used ring.                                        *)
(*                                                                         *)
(* Process p stands for its locked struct buf too: b->data is data[p] and  *)
(* b->disk is busy[p].  vdisk_lock is recorded where the device may move   *)
(* while it is held: it never takes the lock.                              *)
(***************************************************************************)
EXTENDS Naturals, FiniteSets

CONSTANTS
  Procs, Blocks, Vals,
  Blank,       \* what the blocks hold at first
  NoBlock,
  NUM,         \* virtio.h: the number of descriptors
  RING,        \* entries of each ring: NUM in the code; fewer is harder
  IDX,         \* 2^16: the ring indices wrap around here
  NoProc, Handler

ASSUME NumAssumption == NUM \in Nat /\ NUM >= 3
ASSUME RingAssumption == RING \in Nat /\ 3 * RING >= NUM - 2
ASSUME IdxAssumption == IDX \in Nat /\ IDX > RING /\ IDX % RING = 0
ASSUME ProcAssumption == NoProc \notin Procs /\ Handler \notin Procs /\ NoProc # Handler

Descs == 0..(NUM - 1)
Slots == 0..(RING - 1)

VARIABLES
  free,        \* disk.free
  desc,        \* disk.desc: next, more, and what addr points to: a header in
               \* disk.ops (block and direction), a buf, or a status byte
  info,        \* disk.info[].b
  ring, idx,               \* disk.avail
  usedRing, usedIdx,       \* disk.used
  used_idx,    \* disk.used_idx: how far the handler has looked
  lock,        \* holder of disk.vdisk_lock
  irq,         \* the device's interrupt is pending
  seen,        \* device: how far it has looked in the avail ring
  inflight,    \* device: the chains it works on
  store,       \* device: the blocks
  pc, req, data, busy, head     \* the processes, and idx[0] of each

driverVars == <<free, desc, info>>
availVars == <<ring, idx>>
usedVars == <<usedRing, usedIdx, irq>>
deviceVars == <<seen, inflight, store>>
callVars == <<req, data>>
vars == <<driverVars, availVars, usedVars, used_idx, lock, deviceVars, pc, callVars, busy, head>>

NoDesc == [addr |-> NoProc, next |-> 0, more |-> FALSE]
NoReq == [block |-> NoBlock, write |-> FALSE]

Init ==
  /\ free = [i \in Descs |-> TRUE]
  /\ desc = [i \in Descs |-> NoDesc]
  /\ info = [i \in Descs |-> NoProc]
  /\ ring = [i \in Slots |-> 0] /\ idx = 0
  /\ usedRing = [i \in Slots |-> 0] /\ usedIdx = 0
  /\ used_idx = 0
  /\ lock = NoProc
  /\ irq = FALSE
  /\ seen = 0 /\ inflight = {}
  /\ store = [b \in Blocks |-> Blank]
  /\ pc = [p \in Procs |-> "idle"]
  /\ req = [p \in Procs |-> NoReq]
  /\ data = [p \in Procs |-> Blank]
  /\ busy = [p \in Procs |-> FALSE]
  /\ head = [p \in Procs |-> 0]

\* Mutant of Succ: the counters do not wrap around.
SuccNoWrap(i) == i + 1

Succ(i) == (i + 1) % IDX

\* Process p goes on to point l.
Move(p, l) == pc' = [pc EXCEPT ![p] = l]
\* wakeup(&disk.free[0])
WakeFree(now) == [q \in Procs |-> IF now[q] = "sleepFree" THEN "enter" ELSE now[q]]

-----------------------------------------------------------------------------
(* virtio_disk_rw() *)

\* bread() or bwrite() of a locked buffer: no other call is about its block.
Call(p, r, v) ==
  /\ pc[p] = "idle"
  /\ \A q \in Procs : pc[q] # "idle" => req[q].block # r.block
  /\ v \in (IF r.write THEN Vals ELSE {Blank})
  /\ req' = [req EXCEPT ![p] = r]
  /\ data' = [data EXCEPT ![p] = v]
  /\ Move(p, "enter")
  /\ UNCHANGED <<driverVars, availVars, usedVars, used_idx, lock, deviceVars, busy, head>>

FreeDescs == {i \in Descs : free[i]}
Lowest(S) == CHOOSE i \in S : \A j \in S : i <= j

\* alloc3_desc() fails: it gives back what it has got, which wakes the other
\* sleepers, and the caller sleeps on &disk.free[0].
AllocFail(p) ==
  /\ pc[p] = "enter" /\ lock = NoProc
  /\ Cardinality(FreeDescs) < 3
  /\ pc' = [(IF FreeDescs = {} THEN pc ELSE WakeFree(pc)) EXCEPT ![p] = "sleepFree"]
  /\ UNCHANGED <<driverVars, availVars, usedVars, used_idx, lock, deviceVars, callVars,
                 busy, head>>

\* Three descriptors, formatted and chained; the head goes into the avail ring.
Submit(p) ==
  LET i0 == Lowest(FreeDescs)
      i1 == Lowest(FreeDescs \ {i0})
      i2 == Lowest(FreeDescs \ {i0, i1})
  IN /\ pc[p] = "enter" /\ lock = NoProc
     /\ Cardinality(FreeDescs) >= 3
     /\ free' = [i \in Descs |-> free[i] /\ i \notin {i0, i1, i2}]
     /\ desc' = [desc EXCEPT ![i0] = [addr |-> req[p], next |-> i1, more |-> TRUE],
                             ![i1] = [addr |-> p, next |-> i2, more |-> TRUE],
                             ![i2] = NoDesc]
     /\ info' = [info EXCEPT ![i0] = p]
     /\ busy' = [busy EXCEPT ![p] = TRUE]
     /\ head' = [head EXCEPT ![p] = i0]
     /\ ring' = [ring EXCEPT ![idx % RING] = i0]
     /\ lock' = p
     /\ Move(p, "publish")
     /\ UNCHANGED <<idx, usedVars, used_idx, deviceVars, callVars>>

\* The device may see the entry from here on.  sleep(b, &disk.vdisk_lock).
Publish(p) ==
  /\ pc[p] = "publish"
  /\ idx' = Succ(idx)
  /\ lock' = NoProc
  /\ Move(p, "sleepBuf")
  /\ UNCHANGED <<driverVars, ring, usedVars, used_idx, deviceVars, callVars, busy, head>>

\* while(b->disk == 1) sleep(b, &disk.vdisk_lock)
SleepAgain(p) ==
  /\ pc[p] = "relock" /\ lock = NoProc /\ busy[p]
  /\ Move(p, "sleepBuf")
  /\ UNCHANGED <<driverVars, availVars, usedVars, used_idx, lock, deviceVars, callVars,
                 busy, head>>

\* The descriptors that free_chain(i) follows.
Chain(i) ==
  LET j == desc[i].next
  IN IF ~desc[i].more THEN {i} ELSE IF ~desc[j].more THEN {i, j} ELSE {i, j, desc[j].next}

\* Mutant of Finish: only the head of the chain is freed.
FinishHeadOnly(p) ==
  /\ pc[p] = "relock" /\ lock = NoProc /\ ~busy[p]
  /\ info' = [info EXCEPT ![head[p]] = NoProc]
  /\ free' = [free EXCEPT ![head[p]] = TRUE]
  /\ desc' = [desc EXCEPT ![head[p]] = NoDesc]
  /\ pc' = [WakeFree(pc) EXCEPT ![p] = "idle"]
  /\ req' = [req EXCEPT ![p] = NoReq]
  /\ data' = [data EXCEPT ![p] = Blank]
  /\ head' = [head EXCEPT ![p] = 0]
  /\ UNCHANGED <<availVars, usedVars, used_idx, lock, deviceVars, busy>>

\* Mutant of Finish: free_desc() wakes nobody.
FinishSilent(p) ==
  /\ pc[p] = "relock" /\ lock = NoProc /\ ~busy[p]
  /\ info' = [info EXCEPT ![head[p]] = NoProc]
  /\ free' = [i \in Descs |-> free[i] \/ i \in Chain(head[p])]
  /\ desc' = [i \in Descs |-> IF i \in Chain(head[p]) THEN NoDesc ELSE desc[i]]
  /\ pc' = [pc EXCEPT ![p] = "idle"]
  /\ req' = [req EXCEPT ![p] = NoReq]
  /\ data' = [data EXCEPT ![p] = Blank]
  /\ head' = [head EXCEPT ![p] = 0]
  /\ UNCHANGED <<availVars, usedVars, used_idx, lock, deviceVars, busy>>

\* Mutant of Finish: an if in place of the while around sleep().
FinishUnchecked(p) ==
  /\ pc[p] = "relock" /\ lock = NoProc
  /\ info' = [info EXCEPT ![head[p]] = NoProc]
  /\ free' = [i \in Descs |-> free[i] \/ i \in Chain(head[p])]
  /\ desc' = [i \in Descs |-> IF i \in Chain(head[p]) THEN NoDesc ELSE desc[i]]
  /\ pc' = [WakeFree(pc) EXCEPT ![p] = "idle"]
  /\ req' = [req EXCEPT ![p] = NoReq]
  /\ data' = [data EXCEPT ![p] = Blank]
  /\ head' = [head EXCEPT ![p] = 0]
  /\ UNCHANGED <<availVars, usedVars, used_idx, lock, deviceVars, busy>>

\* free_chain() wakes those that wait for descriptors.  Then the call returns:
\* its arguments and its buffer are the caller's affair from here on.
Finish(p) ==
  /\ pc[p] = "relock" /\ lock = NoProc /\ ~busy[p]
  /\ info' = [info EXCEPT ![head[p]] = NoProc]
  /\ free' = [i \in Descs |-> free[i] \/ i \in Chain(head[p])]
  /\ desc' = [i \in Descs |-> IF i \in Chain(head[p]) THEN NoDesc ELSE desc[i]]
  /\ pc' = [WakeFree(pc) EXCEPT ![p] = "idle"]
  /\ req' = [req EXCEPT ![p] = NoReq]
  /\ data' = [data EXCEPT ![p] = Blank]
  /\ head' = [head EXCEPT ![p] = 0]
  /\ UNCHANGED <<availVars, usedVars, used_idx, lock, deviceVars, busy>>

\* kill() of a sleeper: it looks again at what it waits for.
Kill(p) ==
  /\ pc[p] \in {"sleepFree", "sleepBuf"}
  /\ Move(p, IF pc[p] = "sleepFree" THEN "enter" ELSE "relock")
  /\ UNCHANGED <<driverVars, availVars, usedVars, used_idx, lock, deviceVars, callVars,
                 busy, head>>

-----------------------------------------------------------------------------
(* The device *)

Take ==
  /\ seen # idx
  /\ inflight' = inflight \cup {ring[seen % RING]}
  /\ seen' = Succ(seen)
  /\ UNCHANGED <<driverVars, availVars, usedVars, used_idx, lock, store, pc, callVars,
                 busy, head>>

\* The device transfers the data, reports success in the chain's status byte,
\* appends the chain to the used ring and raises its interrupt.
Complete(i) ==
  LET b == desc[i].addr.block
      p == desc[desc[i].next].addr
  IN /\ i \in inflight
     /\ inflight' = inflight \ {i}
     /\ IF desc[i].addr.write THEN store' = [store EXCEPT ![b] = data[p]] /\ UNCHANGED data
                        ELSE data' = [data EXCEPT ![p] = store[b]] /\ UNCHANGED store
     /\ usedRing' = [usedRing EXCEPT ![usedIdx % RING] = i]
     /\ usedIdx' = Succ(usedIdx)
     /\ irq' = TRUE
     /\ UNCHANGED <<driverVars, availVars, used_idx, lock, seen, pc, req, busy, head>>

-----------------------------------------------------------------------------
(* virtio_disk_intr() *)

\* The acknowledgement comes before the look at the used ring.
IntrEnter ==
  /\ irq /\ lock = NoProc
  /\ lock' = Handler
  /\ irq' = FALSE
  /\ UNCHANGED <<driverVars, availVars, usedRing, usedIdx, used_idx, deviceVars, pc,
                 callVars, busy, head>>

\* Mutant of IntrOne: used_idx moves on before the entry is read.
IntrOneNext ==
  LET p == info[usedRing[Succ(used_idx) % RING]]
  IN /\ lock = Handler /\ used_idx # usedIdx
     /\ busy' = [busy EXCEPT ![p] = FALSE]
     /\ pc' = [pc EXCEPT ![p] = IF @ = "sleepBuf" THEN "relock" ELSE @]
     /\ used_idx' = Succ(used_idx)
     /\ UNCHANGED <<driverVars, availVars, usedVars, lock, deviceVars, callVars, head>>

\* Mutant of IntrOne: one entry per interrupt, an if in place of the while.
IntrOneOnly ==
  LET p == info[usedRing[used_idx % RING]]
  IN /\ lock = Handler /\ used_idx # usedIdx
     /\ busy' = [busy EXCEPT ![p] = FALSE]
     /\ pc' = [pc EXCEPT ![p] = IF @ = "sleepBuf" THEN "relock" ELSE @]
     /\ used_idx' = Succ(used_idx)
     /\ lock' = NoProc
     /\ UNCHANGED <<driverVars, availVars, usedVars, deviceVars, callVars, head>>

IntrOne ==
  LET p == info[usedRing[used_idx % RING]]
  IN /\ lock = Handler /\ used_idx # usedIdx
     /\ busy' = [busy EXCEPT ![p] = FALSE]
     /\ pc' = [pc EXCEPT ![p] = IF @ = "sleepBuf" THEN "relock" ELSE @]
     /\ used_idx' = Succ(used_idx)
     /\ UNCHANGED <<driverVars, availVars, usedVars, lock, deviceVars, callVars, head>>

IntrExit ==
  /\ lock = Handler /\ used_idx = usedIdx
  /\ lock' = NoProc
  /\ UNCHANGED <<driverVars, availVars, usedVars, used_idx, deviceVars, pc, callVars,
                 busy, head>>

-----------------------------------------------------------------------------
Requests == [block : Blocks, write : BOOLEAN]
Intr == IntrEnter \/ IntrOne \/ IntrExit

Next == \/ \E p \in Procs : \/ AllocFail(p) \/ Submit(p) \/ Publish(p)
                            \/ SleepAgain(p) \/ Finish(p) \/ Kill(p)
                            \/ \E r \in Requests, v \in Vals \cup {Blank} : Call(p, r, v)
        \/ Take \/ \E i \in Descs : Complete(i)
        \/ Intr

Spec == Init /\ [][Next]_vars

-----------------------------------------------------------------------------
(* Properties *)

TypeOK ==
  /\ free \in [Descs -> BOOLEAN]
  /\ desc \in [Descs -> [addr : Requests \cup Procs \cup {NoProc}, next : Descs, more : BOOLEAN]]
  /\ info \in [Descs -> Procs \cup {NoProc}]
  /\ ring \in [Slots -> Descs] /\ usedRing \in [Slots -> Descs]
  /\ {idx, usedIdx, used_idx, seen} \subseteq 0..(IDX - 1)
  /\ lock \in Procs \cup {NoProc, Handler}
  /\ irq \in BOOLEAN
  /\ inflight \subseteq Descs
  /\ store \in [Blocks -> Vals \cup {Blank}]
  /\ pc \in [Procs -> {"idle", "enter", "sleepFree", "publish", "sleepBuf", "relock"}]
  /\ req \in [Procs -> Requests \cup {NoReq}]
  /\ data \in [Procs -> Vals \cup {Blank}]
  /\ busy \in [Procs -> BOOLEAN]
  /\ head \in [Procs -> Descs]

\* The processes whose request has its descriptors.
Submitted == {p \in Procs : pc[p] \in {"publish", "sleepBuf", "relock"}}

\* Each request has three descriptors of its own and all the others are free:
\* none is leaked, and free_desc() never panics ("free_desc 2").
DescsOwned ==
  /\ \A p, q \in Submitted : p # q => Chain(head[p]) \cap Chain(head[q]) = {}
  /\ \A p \in Submitted : Cardinality(Chain(head[p])) = 3
  /\ FreeDescs = Descs \ UNION {Chain(head[p]) : p \in Submitted}

Ahead(i, j) == {(i + k) % RING : k \in 0..(((j + IDX - i) % IDX) - 1)}

\* An entry of the used ring that the handler has not seen yet names a request
\* that is still waiting: info[].b is no null pointer and no other's buffer.
UsedNamesWaiter ==
  \A k \in Ahead(used_idx, usedIdx) :
    LET i == usedRing[k] IN \E p \in Submitted : head[p] = i /\ info[i] = p /\ busy[p]

\* Whoever waits for descriptors waits for a request that will free some.
DescSleeperHasWaker ==
  \A p \in Procs : pc[p] = "sleepFree" => Submitted # {}

\* The device has done p's request.
Served(p) == /\ pc[p] \in {"sleepBuf", "relock"}
             /\ head[p] \notin inflight \cup {ring[k] : k \in Ahead(seen, idx)}

\* virtio_disk_rw() transfers its block once and returns after the transfer.
Device == INSTANCE BlockDevice WITH
  status <- [p \in Procs |-> IF pc[p] = "idle" THEN "idle"
                             ELSE IF Served(p) THEN "served" ELSE "pending"]
ImplementsBlockDevice == Device!Spec

\* Fairness: the device serves every request, an interrupt is taken some time,
\* a hart with the lock goes on and a woken process gets to run and the lock.
Fairness ==
  /\ WF_vars(Take) /\ \A i \in Descs : WF_vars(Complete(i))
  /\ SF_vars(IntrEnter) /\ WF_vars(IntrOne) /\ WF_vars(IntrExit)
  /\ \A p \in Procs : WF_vars(Publish(p)) /\ SF_vars(SleepAgain(p) \/ Finish(p))
FairSpec == Spec /\ Fairness

\* A request once submitted returns: no completion goes unnoticed, although
\* the device may add one while the handler is at work.
RequestReturns == \A p \in Procs : p \in Submitted ~> pc[p] = "idle"
=============================================================================
