------------------------------ MODULE Memory ------------------------------
(***************************************************************************)
(* Physical pages and who has them: kalloc.c, the page tables of vm.c, and *)
(* the calls that take and give back pages - fork(), exec(), sbrk(),       *)
(* exit() with the wait() that collects it.  kalloc() may fail at any of   *)
(* their steps, because another process has taken the last page.           *)
(*                                                                         *)
(* Pages are interchangeable and counted.  A virtual address is the number *)
(* of its page; a table has three levels of PTE entries each, as in Sv39.  *)
(* The size of a process is in half pages, so that it need not be aligned. *)
(***************************************************************************)
EXTENDS Integers, Sequences, FiniteSets

CONSTANTS
  Slots,      \* slots of the process table
  FirstSlot,  \* the first process
  NPAGES,     \* pages of memory for kalloc()
  PTE,        \* entries of a page-table page
  Images,     \* programs: where each of their segments ends
  Steps,      \* arguments of sbrk()
  NoSlot      \* no slot

MAXVA == PTE * PTE * PTE
TRAMPOLINE == MAXVA - 1
TRAPFRAME == TRAMPOLINE - 1
USYSCALL == TRAPFRAME - 1
High == {TRAMPOLINE, TRAPFRAME, USYSCALL}

\* The three high pages share their last table (512 entries in the code), and memory
\* runs out before user addresses reach them (128 MB against 256 GB).  userinit() finds
\* the eight pages it needs.
ASSUME MemAssumption ==
  /\ IsFiniteSet(Slots) /\ FirstSlot \in Slots /\ NoSlot \notin Slots
  /\ PTE \in Nat /\ PTE >= 3
  /\ NPAGES \in Nat /\ NPAGES >= 8 /\ NPAGES < USYSCALL
  /\ Steps \subseteq Int
  /\ Images \subseteq Seq(Nat \ {0})

VARIABLES
  free,       \* pages on the free list
  pr,         \* slots: state, trapframe, usyscall page, page table, size
  job,        \* the call in progress of each process
  mpanic      \* the kernel has called panic()

memVars == <<free, pr, job, mpanic>>

PGROUNDUP(sz) == (sz + 1) \div 2      \* in pages
Pages(a, b) == a..(b - 1)

NoTable == [nodes |-> {}, map |-> {}]
FreeSlot == [state |-> "UNUSED", trapframe |-> FALSE, usyscall |-> FALSE, pt |-> NoTable, sz |-> 0]

\* kid: the slot that fork() fills; pt: the table being built; sz: the size that it
\* has reached; a: the next page; segs: what exec() has still to load; args: pages of argv.
NoJob == [op |-> "none", pc |-> "none", kid |-> NoSlot, pt |-> NoTable, sz |-> 0,
          a |-> 0, goal |-> 0, segs |-> <<>>, args |-> 0]

-----------------------------------------------------------------------------
(* Page tables *)

\* The tables below the root that walk() goes through.
Path(va) == {<<1, va \div (PTE * PTE)>>, <<0, va \div PTE>>}
Root == <<2, 0>>

\* mappages() of one page with f pages free: walk() takes the tables it misses, the
\* upper one first, and keeps those it got if there is not enough for all.
mappages(pt, va, f) ==
  LET missing == Path(va) \ pt.nodes
      got == {n \in missing : Cardinality({k \in missing : k[1] >= n[1]}) <= f}
  IN [ok |-> got = missing,
      free |-> f - Cardinality(got),
      pt |-> [nodes |-> pt.nodes \cup got,
              map |-> IF got = missing THEN pt.map \cup {va} ELSE pt.map],
      panic |-> va \in pt.map]                                 \* "mappages: remap"

AllocPageLeaks(pt, va, f) ==
  IF f = 0 THEN [ok |-> FALSE, free |-> 0, pt |-> pt, panic |-> FALSE] ELSE mappages(pt, va, f - 1)

\* kalloc() and mappages() of a user page; the page goes back if it cannot be mapped.
AllocPage(pt, va, f) ==
  IF f = 0 THEN [ok |-> FALSE, free |-> 0, pt |-> pt, panic |-> FALSE]
  ELSE LET m == mappages(pt, va, f - 1)
       IN IF m.ok THEN m ELSE [m EXCEPT !.free = @ + 1]

\* uvmunmap() of pages S: each must be mapped.
uvmunmap(pt, S) == [pt EXCEPT !.map = @ \ S]
NotMapped(pt, S) == ~(S \subseteq pt.map)

\* The pages that uvmdealloc() unmaps.
ShrunkDown(oldsz, newsz) == Pages(newsz \div 2, PGROUNDUP(oldsz))
Shrunk(oldsz, newsz) == Pages(PGROUNDUP(newsz), PGROUNDUP(oldsz))

\* proc_freepagetable(): the pages that come back, and the panics of uvmunmap() and
\* freewalk() ("freewalk: leaf") on a table that does not hold just what it should.
Given(pt, sz) == Cardinality(pt.nodes) + PGROUNDUP(sz)
BadTable(pt, sz) == pt.map # High \cup Pages(0, PGROUNDUP(sz))

Bit(b) == IF b THEN 1 ELSE 0

\* freeproc(): trapframe, page table and usyscall, as far as they are there.
FreedByProc(r) ==
  Bit(r.trapframe) + Bit(r.usyscall) + (IF r.pt = NoTable THEN 0 ELSE Given(r.pt, r.sz))
BadProc(r) == r.pt # NoTable /\ BadTable(r.pt, r.sz)

\* After userinit(): the first process has one page.
MemInit ==
  LET pt == [nodes |-> {Root} \cup Path(TRAMPOLINE) \cup Path(0), map |-> High \cup {0}]
  IN /\ pr = [p \in Slots |-> IF p # FirstSlot THEN FreeSlot ELSE
               [state |-> "RUNNING", trapframe |-> TRUE, usyscall |-> TRUE, pt |-> pt, sz |-> 2]]
     /\ free = NPAGES - (Cardinality(pt.nodes) + 3)
     /\ job = [p \in Slots |-> NoJob]
     /\ mpanic = FALSE

-----------------------------------------------------------------------------
(* Growing a table by one page of uvmalloc() or uvmcopy() *)

In(p, pc) == job[p].pc = pc
Idling(p) == pr[p].state = "RUNNING" /\ In(p, "none")
Goto(p, pc) == job' = [job EXCEPT ![p].pc = pc]

\* The loop of uvmalloc() and uvmcopy() on the table being built: page a is next.
GrowJob(p) ==
  LET r == AllocPage(job[p].pt, job[p].a, free) IN
  /\ In(p, "pages") /\ job[p].a < PGROUNDUP(job[p].goal)
  /\ r.ok
  /\ free' = r.free
  /\ job' = [job EXCEPT ![p].pt = r.pt, ![p].a = @ + 1]
  /\ mpanic' = r.panic
  /\ UNCHANGED pr

\* No page: what this loop has mapped is unmapped again, down to the page it began at.
GrowJobFails(p) ==
  LET r == AllocPage(job[p].pt, job[p].a, free)
      undone == Pages(PGROUNDUP(job[p].sz), job[p].a)
  IN
  /\ In(p, "pages") /\ job[p].a < PGROUNDUP(job[p].goal)
  /\ ~r.ok
  /\ free' = r.free + Cardinality(undone)
  /\ job' = [job EXCEPT ![p].pt = uvmunmap(r.pt, undone), ![p].a = 0, ![p].goal = 0, ![p].pc = "bad"]
  /\ mpanic' = (r.panic \/ NotMapped(r.pt, undone))
  /\ UNCHANGED pr

-----------------------------------------------------------------------------
(* proc_pagetable(), for fork() and exec() *)

\* uvmcreate()
NewRoot(p) ==
  /\ In(p, "pagetable")
  /\ IF free = 0
     THEN Goto(p, "bad") /\ free' = free
     ELSE /\ free' = free - 1
          /\ job' = [job EXCEPT ![p].pt.nodes = {Root}, ![p].pc = "high", ![p].a = TRAMPOLINE]
  /\ UNCHANGED <<pr, mpanic>>

\* The high pages, from the trampoline down.  The failure path of each unmaps the
\* trampoline and no more; uvmfree(pagetable, 0) frees the tables.
MapHigh(p) ==
  LET r == mappages(job[p].pt, job[p].a, free)
      left == uvmunmap(r.pt, {TRAMPOLINE})
  IN
  /\ In(p, "high") /\ job[p].a >= USYSCALL
  /\ IF r.ok
     THEN /\ free' = r.free
          /\ job' = [job EXCEPT ![p].pt = r.pt, ![p].a = @ - 1]
          /\ mpanic' = r.panic
     ELSE /\ free' = r.free + Cardinality(left.nodes)
          /\ job' = [job EXCEPT ![p].pt = NoTable, ![p].a = 0, ![p].pc = "bad"]
          /\ mpanic' = (left.map # {})
  /\ UNCHANGED pr

\* The table is there: fork() copies memory, exec() loads its first segment.
TableMade(p) ==
  /\ In(p, "high") /\ job[p].a < USYSCALL
  /\ job' = [job EXCEPT ![p].a = 0, ![p].pc = IF job[p].op = "fork" THEN "pages" ELSE "load",
                        ![p].goal = IF job[p].op = "fork" THEN pr[p].sz ELSE 0]
  /\ UNCHANGED <<free, pr, mpanic>>

-----------------------------------------------------------------------------
(* fork() *)

\* allocproc(): a slot, a trapframe, a usyscall page, a page table.
ForkSlot(p, q) ==
  /\ Idling(p) /\ pr[q].state = "UNUSED"
  /\ pr' = [pr EXCEPT ![q].state = "USED"]
  /\ job' = [job EXCEPT ![p].op = "fork", ![p].pc = "trapframe", ![p].kid = q]
  /\ UNCHANGED <<free, mpanic>>

ForkTrapframe(p) ==
  /\ In(p, "trapframe")
  /\ IF free = 0
     THEN Goto(p, "bad") /\ UNCHANGED <<free, pr>>
     ELSE /\ free' = free - 1
          /\ pr' = [pr EXCEPT ![job[p].kid].trapframe = TRUE]
          /\ Goto(p, "usyscall")
  /\ UNCHANGED mpanic

ForkUsyscall(p) ==
  /\ In(p, "usyscall")
  /\ IF free = 0
     THEN Goto(p, "bad") /\ UNCHANGED <<free, pr>>
     ELSE /\ free' = free - 1
          /\ pr' = [pr EXCEPT ![job[p].kid].usyscall = TRUE]
          /\ Goto(p, "pagetable")
  /\ UNCHANGED mpanic

ForkDone(p) ==
  /\ In(p, "pages") /\ job[p].op = "fork" /\ job[p].a = PGROUNDUP(job[p].goal)
  /\ pr' = [pr EXCEPT ![job[p].kid].pt = job[p].pt, ![job[p].kid].sz = pr[p].sz,
                      ![job[p].kid].state = "RUNNING"]
  /\ job' = [job EXCEPT ![p] = NoJob]
  /\ UNCHANGED <<free, mpanic>>

\* freeproc(np): its table is the one under construction, its size still 0.
ForkFail(p) ==
  LET r == [pr[job[p].kid] EXCEPT !.pt = job[p].pt] IN
  /\ In(p, "bad") /\ job[p].op = "fork"
  /\ free' = free + FreedByProc(r)
  /\ mpanic' = BadProc(r)
  /\ pr' = [pr EXCEPT ![job[p].kid] = FreeSlot]
  /\ job' = [job EXCEPT ![p] = NoJob]

-----------------------------------------------------------------------------
(* exec() *)

\* sys_exec() takes a page for an argument.
ExecStart(p) ==
  \E image \in Images :
    /\ Idling(p) /\ free > 0
    /\ free' = free - 1
    /\ job' = [job EXCEPT ![p].op = "exec", ![p].pc = "pagetable", ![p].segs = image, ![p].args = 1]
    /\ UNCHANGED <<pr, mpanic>>

\* The next segment; after the last one, at the next page, a guard page and the stack.
ExecSegment(p) ==
  /\ In(p, "load") /\ job[p].segs # <<>>
  /\ job' = [job EXCEPT ![p].goal = Head(job[p].segs), ![p].segs = Tail(@), ![p].pc = "pages",
                        ![p].a = PGROUNDUP(job[p].sz)]
  /\ UNCHANGED <<free, pr, mpanic>>

ExecStack(p) ==
  LET top == PGROUNDUP(job[p].sz) IN
  /\ In(p, "load") /\ job[p].segs = <<>>
  /\ job' = [job EXCEPT ![p].sz = 2 * top, ![p].goal = 2 * top + 4, ![p].a = top, ![p].pc = "pages",
                        ![p].op = "execstack"]
  /\ UNCHANGED <<free, pr, mpanic>>

\* uvmalloc() returns: a segment that ends below what is there changes nothing.
ExecGrown(p) ==
  /\ In(p, "pages") /\ job[p].op # "fork" /\ job[p].a >= PGROUNDUP(job[p].goal)
  /\ job' = [job EXCEPT ![p].sz = IF job[p].goal < @ THEN @ ELSE job[p].goal,
                        ![p].pc = IF job[p].op = "exec" THEN "load" ELSE "commit"]
  /\ UNCHANGED <<free, pr, mpanic>>

\* No program, a bad header or segment, arguments that do not fit on the stack.
ExecBad(p) ==
  /\ job[p].op \in {"exec", "execstack"}
  /\ In(p, "pagetable") \/ In(p, "load") \/ In(p, "commit")
  /\ Goto(p, "bad")
  /\ UNCHANGED <<free, pr, mpanic>>

\* "Commit to the user image", free the old one and, in sys_exec(), the argument.
ExecCommit(p) ==
  /\ In(p, "commit")
  /\ free' = free + Given(pr[p].pt, pr[p].sz) + job[p].args
  /\ mpanic' = BadTable(pr[p].pt, pr[p].sz)
  /\ pr' = [pr EXCEPT ![p].pt = job[p].pt, ![p].sz = job[p].sz]
  /\ job' = [job EXCEPT ![p] = NoJob]

ExecFail(p) ==
  /\ In(p, "bad") /\ job[p].op \in {"exec", "execstack"}
  /\ free' = free + job[p].args
             + (IF job[p].pt = NoTable THEN 0 ELSE Given(job[p].pt, job[p].sz))
  /\ mpanic' = (job[p].pt # NoTable /\ BadTable(job[p].pt, job[p].sz))
  /\ job' = [job EXCEPT ![p] = NoJob]
  /\ UNCHANGED pr

-----------------------------------------------------------------------------
(* sbrk(), exit() and wait() *)

SbrkStart(p) ==
  \E n \in Steps :
    /\ Idling(p) /\ n > 0
    /\ job' = [job EXCEPT ![p].op = "sbrk", ![p].pc = "sbrk", ![p].goal = pr[p].sz + n,
                          ![p].a = PGROUNDUP(pr[p].sz)]
    /\ UNCHANGED <<free, pr, mpanic>>

SbrkPage(p) ==
  LET r == AllocPage(pr[p].pt, job[p].a, free) IN
  /\ In(p, "sbrk") /\ job[p].a < PGROUNDUP(job[p].goal) /\ r.ok
  /\ free' = r.free
  /\ pr' = [pr EXCEPT ![p].pt = r.pt]
  /\ job' = [job EXCEPT ![p].a = @ + 1]
  /\ mpanic' = r.panic

\* uvmdealloc() back to the old size, which p->sz still is.
SbrkFail(p) ==
  LET r == AllocPage(pr[p].pt, job[p].a, free)
      undone == Pages(PGROUNDUP(pr[p].sz), job[p].a)
  IN
  /\ In(p, "sbrk") /\ job[p].a < PGROUNDUP(job[p].goal) /\ ~r.ok
  /\ free' = r.free + Cardinality(undone)
  /\ pr' = [pr EXCEPT ![p].pt = uvmunmap(r.pt, undone)]
  /\ job' = [job EXCEPT ![p] = NoJob]
  /\ mpanic' = (r.panic \/ NotMapped(r.pt, undone))

SbrkDone(p) ==
  /\ In(p, "sbrk") /\ job[p].a = PGROUNDUP(job[p].goal)
  /\ pr' = [pr EXCEPT ![p].sz = job[p].goal]
  /\ job' = [job EXCEPT ![p] = NoJob]
  /\ UNCHANGED <<free, mpanic>>

\* uvmdealloc(sz + n), n negative; below zero the sum wraps around and nothing happens.
SbrkShrink(p) ==
  \E n \in Steps :
    LET sz == pr[p].sz + n
        gone == Shrunk(pr[p].sz, sz)
    IN
    /\ Idling(p) /\ n < 0 /\ sz >= 0
    /\ free' = free + Cardinality(gone)
    /\ pr' = [pr EXCEPT ![p].pt = uvmunmap(@, gone), ![p].sz = sz]
    /\ mpanic' = NotMapped(pr[p].pt, gone)
    /\ UNCHANGED job

MemExit(p) ==
  /\ Idling(p) /\ p # FirstSlot
  /\ pr' = [pr EXCEPT ![p].state = "ZOMBIE"]
  /\ UNCHANGED <<free, job, mpanic>>

\* wait() calls freeproc().
Reap(p) ==
  /\ pr[p].state = "ZOMBIE"
  /\ free' = free + FreedByProc(pr[p])
  /\ mpanic' = BadProc(pr[p])
  /\ pr' = [pr EXCEPT ![p] = FreeSlot]
  /\ UNCHANGED job

TableStep(p) == NewRoot(p) \/ MapHigh(p) \/ TableMade(p) \/ GrowJob(p) \/ GrowJobFails(p)
ForkStep(p) ==
  \/ \E q \in Slots : ForkSlot(p, q)
  \/ ForkTrapframe(p) \/ ForkUsyscall(p) \/ ForkDone(p) \/ ForkFail(p)
ExecStep(p) ==
  \/ ExecStart(p) \/ ExecSegment(p) \/ ExecStack(p) \/ ExecGrown(p)
  \/ ExecBad(p) \/ ExecCommit(p) \/ ExecFail(p)
SizeStep(p) ==
  \/ SbrkStart(p) \/ SbrkPage(p) \/ SbrkFail(p) \/ SbrkDone(p) \/ SbrkShrink(p)
  \/ MemExit(p) \/ Reap(p)

MemNext ==
  /\ ~mpanic
  /\ \E p \in Slots : TableStep(p) \/ ForkStep(p) \/ ExecStep(p) \/ SizeStep(p)

MemSpec == MemInit /\ [][MemNext]_memVars

-----------------------------------------------------------------------------
(* Properties *)

\* The pages of a table: its own, and those of user memory.
Held(pt) == Cardinality(pt.nodes) + Cardinality(pt.map \ High)

\* The pages of process p and of the call that it is in.
ProcPages(r) == Bit(r.trapframe) + Bit(r.usyscall) + Held(r.pt)
JobPages(j) == Held(j.pt) + j.args
Total(f) == Cardinality(UNION {{p} \X (1..f[p]) : p \in DOMAIN f})

\* A page is free or has one owner, at every step and through every failure path: the
\* pages of processes, of calls under way and of the free list are all there are.
PagesOwned == free + Total([p \in Slots |-> ProcPages(pr[p]) + JobPages(job[p])]) = NPAGES

\* A process that may run user code or be copied has exactly the pages that its size
\* promises, whatever call has failed before, and no call finds a page or a table
\* that it did not expect ("uvmunmap: not mapped", "freewalk: leaf", "remap").
ImageMapped ==
  /\ ~mpanic
  /\ \A p \in Slots :
       pr[p].state \in {"RUNNING", "ZOMBIE"} /\ ~In(p, "sbrk") =>
         pr[p].pt.map = High \cup Pages(0, PGROUNDUP(pr[p].sz))

=============================================================================
