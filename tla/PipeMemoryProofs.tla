-------------------------- MODULE PipeMemoryProofs --------------------------
(***************************************************************************)
(* Proofs about physical memory for any number of processes, pages and     *)
(* table entries, any programs and any arguments of sbrk(): no page is     *)
(* lost or shared on any failure path, each process has exactly the pages  *)
(* its size promises, and the kernel never panics over a page table.       *)
(* The counts and the tables depend on each other: the failure paths give  *)
(* back as many pages as the size says, which is right if the table holds  *)
(* just these; and the user pages stay below the high ones since the pages *)
(* run out first.                                                          *)
(*                                                                         *)
(* In the second part, proofs about the pipe, which lives in such a page,  *)
(* for any number of readers and writers and any size of the ring and of   *)
(* its counters: it is a FIFO queue, nobody sleeps over work, and the page *)
(* is freed last and once.                                                 *)
(***************************************************************************)
EXTENDS Memory, Pipe, ModArith, SequenceTheorems, FiniteSetTheorems

-----------------------------------------------------------------------------
(* Physical memory: the invariant *)

Nodes == (0..2) \X Nat
Tables == [nodes : {S \in SUBSET Nodes : IsFiniteSet(S)}, map : {S \in SUBSET Nat : IsFiniteSet(S)}]
Procs == [state : {"UNUSED", "USED", "RUNNING", "ZOMBIE"}, trapframe : BOOLEAN, usyscall : BOOLEAN,
          pt : Tables, sz : Nat]
Jobs == [op : {"none", "fork", "exec", "execstack", "sbrk"},
         pc : {"none", "trapframe", "usyscall", "pagetable", "high", "pages", "load", "commit",
               "bad", "sbrk"},
         kid : Slots \cup {NoSlot}, pt : Tables, sz : Nat, a : Nat, goal : Nat,
         segs : Seq(Nat \ {0}), args : Nat]

\* A table with all of its high pages and the first n pages of user memory.
Whole(t, n) == t.map = High \cup Pages(0, n)

\* The calls that get to each point, and those that have no table there.
PointsOf(j) ==
  /\ j.pc \in {"trapframe", "usyscall"} => j.op = "fork"
  /\ j.pc \in {"pagetable", "high"} => j.op \in {"fork", "exec"}
  /\ j.pc \in {"pages", "bad"} => j.op \in {"fork", "exec", "execstack"}
  /\ j.pc = "load" => j.op = "exec"
  /\ j.pc = "commit" => j.op = "execstack"
  /\ j.pc = "sbrk" => j.op = "sbrk"
  /\ j.pc \in {"none", "trapframe", "usyscall", "pagetable", "sbrk"} => j.pt = NoTable
  /\ j.op = "fork" \/ j.pc \in {"pagetable", "high"} => j.sz = 0
  /\ j.op \in {"fork", "sbrk"} => j.args = 0

\* The table that a call builds: where it has got to.
Building(j, r) ==
  /\ j.pc = "high" => /\ j.a \in {TRAMPOLINE, TRAPFRAME, USYSCALL, USYSCALL - 1}
                      /\ j.pt.map = {va \in High : va > j.a}
                      /\ j.a # TRAMPOLINE => Path(TRAMPOLINE) \subseteq j.pt.nodes
  /\ j.pc = "pages" => /\ Whole(j.pt, j.a) /\ PGROUNDUP(j.sz) <= j.a
                       /\ j.a = PGROUNDUP(j.sz) \/ j.a <= PGROUNDUP(j.goal)
                       /\ j.op = "fork" => j.goal = r.sz
  /\ j.pc \in {"load", "commit"} => Whole(j.pt, PGROUNDUP(j.sz))
  /\ j.pc = "bad" => j.pt = NoTable \/ Whole(j.pt, PGROUNDUP(j.sz))
  /\ j.pc = "sbrk" => /\ Whole(r.pt, j.a) /\ PGROUNDUP(r.sz) <= j.a
                      /\ j.a <= PGROUNDUP(j.goal)

\* A process r and the call j that it is in.
SlotOk(j, r) ==
  /\ j.pc = "none" => j = NoJob
  /\ j.pc # "none" => r.state = "RUNNING"
  /\ PointsOf(j) /\ Building(j, r)
  /\ r.state = "UNUSED" => r = FreeSlot
  /\ r.state \in {"RUNNING", "ZOMBIE"} /\ j.pc # "sbrk" => Whole(r.pt, PGROUNDUP(r.sz))

\* The slot r that the fork() j fills.
KidOk(j, r) ==
  /\ r.state = "USED" /\ r.pt = NoTable /\ r.sz = 0
  /\ j.pc = "trapframe" => ~r.trapframe
  /\ j.pc \in {"trapframe", "usyscall"} => ~r.usyscall

Forking(p) == job[p].op = "fork"

TypeInv == pr \in [Slots -> Procs] /\ job \in [Slots -> Jobs] /\ free \in Nat /\ mpanic \in BOOLEAN
SlotInv == \A p \in Slots : SlotOk(job[p], pr[p])
KidInv == /\ \A p \in Slots : Forking(p) => job[p].kid \in Slots /\ KidOk(job[p], pr[job[p].kid])
          /\ \A p, q \in Slots : Forking(p) /\ Forking(q) /\ job[p].kid = job[q].kid => p = q

MInv == TypeInv /\ SlotInv /\ KidInv /\ PagesOwned /\ ~mpanic

-----------------------------------------------------------------------------
(* Addresses *)

LEMMA DivUnique ==
  ASSUME NEW n \in Nat \ {0}, NEW x \in Nat, NEW q \in Nat, NEW k \in 0..(n - 1), x = n * q + k
  PROVE  x \div n = q
  OBVIOUS

\* What most proofs need to know of the high pages and the number of pages.
LEMMA Sizes ==
  /\ NPAGES \in Nat /\ NPAGES >= 8 /\ NPAGES < USYSCALL
  /\ TRAMPOLINE \in Nat /\ TRAPFRAME = TRAMPOLINE - 1 /\ USYSCALL = TRAMPOLINE - 2 /\ USYSCALL \in Nat
<1>1. PTE \in Nat /\ PTE * PTE * PTE \in Int
  BY MemAssumption
<1>. QED  BY <1>1, MemAssumption DEF TRAMPOLINE, TRAPFRAME, USYSCALL, MAXVA

LEMMA HighPath ==
  ASSUME NEW va \in High
  PROVE  Path(va) = Path(TRAMPOLINE)
<1> DEFINE q == PTE * PTE
<1>1. PTE \in Nat /\ PTE >= 3
  BY MemAssumption
<1>2. q \in Nat /\ q >= 3 * PTE
  BY <1>1
<1>3. TRAMPOLINE = q * PTE - 1
  BY <1>1 DEF TRAMPOLINE, MAXVA
<1>4. q * PTE = q * (PTE - 1) + q /\ q * PTE = PTE * (q - 1) + PTE
  <2> HIDE DEF q
  <2>. QED  BY <1>1, <1>2
<1>5. ASSUME NEW d \in 1..3 PROVE (q * PTE - d) \div PTE = q - 1 /\ (q * PTE - d) \div q = PTE - 1
  <2> HIDE DEF q
  <2>1. q * PTE - d = q * (PTE - 1) + (q - d) /\ q - d \in 0..(q - 1) /\ PTE - 1 \in Nat
    BY <1>1, <1>2, <1>4
  <2>2. q * PTE - d = PTE * (q - 1) + (PTE - d) /\ PTE - d \in 0..(PTE - 1) /\ q - 1 \in Nat
    BY <1>1, <1>2, <1>4
  <2>3. q * (PTE - 1) \in Nat
    BY <1>1, <1>2
  <2>4. q * PTE - d \in Nat
    BY <2>1, <2>3
  <2>5. (q * PTE - d) \div PTE = q - 1
    BY <1>1, <2>2, <2>4, DivUnique
  <2>6. (q * PTE - d) \div q = PTE - 1
    BY <1>1, <1>2, <2>1, <2>4, DivUnique
  <2>. QED  BY <2>5, <2>6
<1>6. \E d \in 1..3 : va = q * PTE - d
  <2>1. q * PTE \in Nat
    BY <1>1, <1>2
  <2> HIDE DEF q
  <2>2. TRAPFRAME = q * PTE - 2 /\ USYSCALL = q * PTE - 3
    BY <1>3, <2>1 DEF TRAPFRAME, USYSCALL
  <2>. QED  BY <1>3, <2>2 DEF High
<1>. QED  BY <1>3, <1>5, <1>6 DEF Path

LEMMA DivNat ==
  ASSUME NEW n \in Nat \ {0}, NEW x \in Nat
  PROVE  x \div n \in Nat
  OBVIOUS

LEMMA PathNodes ==
  ASSUME NEW va \in Nat
  PROVE  Path(va) \subseteq Nodes
<1>1. PTE \in Nat \ {0} /\ PTE * PTE \in Nat \ {0}
  BY MemAssumption
<1> DEFINE q == PTE * PTE
<1>2. va \div PTE \in Nat
  BY <1>1, DivNat
<1>3. va \div q \in Nat
  BY <1>1, DivNat
<1>. QED  BY <1>2, <1>3 DEF Path, Nodes

LEMMA RoundUp ==
  ASSUME NEW n \in Nat
  PROVE  /\ PGROUNDUP(n) \in Nat
         /\ PGROUNDUP(2 * n) = n /\ PGROUNDUP(2 * n + 4) = n + 2
         /\ PGROUNDUP(0) = 0
         /\ \A m \in Nat : n <= m => PGROUNDUP(n) <= PGROUNDUP(m)
<1>1. \A x \in Nat : 2 * (x \div 2) <= x /\ x <= 2 * (x \div 2) + 1 /\ x \div 2 \in Nat
  OBVIOUS
<1>. QED  BY <1>1 DEF PGROUNDUP

-----------------------------------------------------------------------------
(* Numbers of pages *)

LEMMA TotalChanges ==
  ASSUME NEW S, IsFiniteSet(S), NEW f \in [S -> Nat], NEW c \in S, NEW n \in Nat
  PROVE  /\ Total(f) \in Nat /\ f[c] <= Total(f)
         /\ Total([f EXCEPT ![c] = n]) = Total(f) - f[c] + n
<1> DEFINE g == [f EXCEPT ![c] = n]
           Pile(h) == UNION {{p} \X (1..h[p]) : p \in S}
           other == UNION {{p} \X (1..f[p]) : p \in S \ {c}}
<1>1. ASSUME NEW T \in SUBSET S
      PROVE  IsFiniteSet(UNION {{p} \X (1..f[p]) : p \in T})
  <2> DEFINE P == [p \in T |-> {p} \X (1..f[p])]
             piles == {{p} \X (1..f[p]) : p \in T}
  <2>1. IsFiniteSet(T)
    BY FS_Subset
  <2>2. P \in Surjection(T, piles)
    BY DEF Surjection
  <2>3. \A p \in T : IsFiniteSet({p} \X (1..f[p]))
    <3> SUFFICES ASSUME NEW p \in T PROVE IsFiniteSet({p} \X (1..f[p]))
      OBVIOUS
    <3>1. f[p] \in Int /\ 1 \in Int
      OBVIOUS
    <3>. QED  BY <3>1, FS_Singleton, FS_Interval, FS_Product
  <2>4. \A x \in piles : IsFiniteSet(x)
    BY <2>3
  <2> HIDE DEF P, piles
  <2>5. IsFiniteSet(piles)
    BY <2>1, <2>2, FS_Surjection
  <2>6. IsFiniteSet(UNION piles)
    BY <2>4, <2>5, FS_UNION
  <2>. QED  BY <2>6 DEF piles
<1>2. ASSUME NEW k \in Nat
      PROVE  IsFiniteSet({c} \X (1..k)) /\ Cardinality({c} \X (1..k)) = k
  <2>1. IsFiniteSet({c}) /\ Cardinality({c}) = 1
    BY FS_Singleton
  <2>2. IsFiniteSet(1..k) /\ Cardinality(1..k) = k
    BY FS_Interval
  <2>3. /\ IsFiniteSet({c} \X (1..k))
        /\ Cardinality({c} \X (1..k)) = Cardinality({c}) * Cardinality(1..k)
    BY <2>1, <2>2, FS_Product
  <2>. QED  BY <2>1, <2>2, <2>3
<1>3. IsFiniteSet(other) /\ Cardinality(other) \in Nat
  BY <1>1, FS_CardinalityType
<1>4. ASSUME NEW k \in Nat
      PROVE  Cardinality(other \cup ({c} \X (1..k))) = Cardinality(other) + k
  <2>1. other \cap ({c} \X (1..k)) = {}
    OBVIOUS
  <2> DEFINE B == {c} \X (1..k)
  <2>2. IsFiniteSet(B) /\ Cardinality(B) = k
    BY <1>2
  <2> HIDE DEF B, other
  <2>3. Cardinality(other \cup B) = Cardinality(other) + Cardinality(B) - Cardinality(other \cap B)
    BY <1>3, <2>2, FS_Union
  <2>4. Cardinality(other \cap B) = 0
    BY <2>1, FS_EmptySet DEF B
  <2>. QED  BY <1>3, <2>2, <2>3, <2>4 DEF B
<1>5. Pile(f) = other \cup ({c} \X (1..f[c]))
  OBVIOUS
<1>6. Pile(g) = other \cup ({c} \X (1..n))
  OBVIOUS
<1>7. Total(f) = Cardinality(Pile(f)) /\ Total(g) = Cardinality(Pile(g))
  BY DEF Total
<1> HIDE DEF other, Pile, g
<1>8. Total(f) = Cardinality(other) + f[c] /\ Total(g) = Cardinality(other) + n /\ f[c] \in Nat
  BY <1>4, <1>5, <1>6, <1>7
<1>. QED  BY <1>3, <1>8 DEF g

-----------------------------------------------------------------------------
(* Page tables *)

\* Whatever walk() takes, it takes from the free list and puts into the table.
LEMMA MapFacts ==
  ASSUME NEW t \in Tables, NEW va \in Nat, NEW f \in Nat, NEW m, m = mappages(t, va, f)
  PROVE  /\ m.free \in Nat /\ m.pt \in Tables
         /\ m.free + Cardinality(m.pt.nodes) = f + Cardinality(t.nodes)
         /\ m.ok \in BOOLEAN
         /\ m.ok => m.pt.map = t.map \cup {va}
         /\ ~m.ok => m.pt.map = t.map
         /\ m.ok => Path(va) \subseteq m.pt.nodes
         /\ Path(va) \subseteq t.nodes => m.ok
         /\ t.nodes \subseteq m.pt.nodes
         /\ m.panic \in BOOLEAN /\ (m.panic <=> va \in t.map)
         /\ m = [ok |-> m.ok, free |-> m.free, pt |-> m.pt, panic |-> m.panic]
<1> DEFINE missing == Path(va) \ t.nodes
           above(n) == {k \in missing : k[1] >= n[1]}
           got == {n \in missing : Cardinality(above(n)) <= f}
<1>1. /\ m.ok \in BOOLEAN /\ (m.ok <=> got = missing) /\ m.free = f - Cardinality(got)
      /\ m.pt = [nodes |-> t.nodes \cup got, map |-> IF got = missing THEN t.map \cup {va} ELSE t.map]
      /\ m.panic \in BOOLEAN /\ (m.panic <=> va \in t.map)
      /\ m = [ok |-> m.ok, free |-> m.free, pt |-> m.pt, panic |-> m.panic]
  <2>1. m = [ok |-> got = missing, free |-> f - Cardinality(got),
             pt |-> [nodes |-> t.nodes \cup got,
                     map |-> IF got = missing THEN t.map \cup {va} ELSE t.map],
             panic |-> va \in t.map]
    BY DEF mappages
  <2> HIDE DEF got, missing
  <2>2. PICK b : b = (got = missing)
    OBVIOUS
  <2>3. PICK d : d = (va \in t.map)
    OBVIOUS
  <2>4. m = [ok |-> b, free |-> f - Cardinality(got),
             pt |-> [nodes |-> t.nodes \cup got,
                     map |-> IF got = missing THEN t.map \cup {va} ELSE t.map],
             panic |-> d]
    BY <2>1, <2>2, <2>3, Zenon
  <2>5. b \in BOOLEAN /\ (b <=> got = missing)
    BY <2>2, Zenon
  <2>6. d \in BOOLEAN /\ (d <=> va \in t.map)
    <3>1. CASE va \in t.map
      <4>1. (va \in t.map) = TRUE
        BY <3>1
      <4>. QED  BY <2>3, <4>1, <3>1, Zenon
    <3>2. CASE va \notin t.map
      <4>1. (va \in t.map) = FALSE
        BY <3>2
      <4>. QED  BY <2>3, <4>1, <3>2, Zenon
    <3>. QED  BY <3>1, <3>2
  <2>7. PICK s : s = [nodes |-> t.nodes \cup got,
                      map |-> IF got = missing THEN t.map \cup {va} ELSE t.map]
    OBVIOUS
  <2>8. m = [ok |-> b, free |-> f - Cardinality(got), pt |-> s, panic |-> d]
    BY <2>4, <2>7, Zenon
  <2>9. m.ok = b /\ m.panic = d /\ m.free = f - Cardinality(got) /\ m.pt = s
    BY <2>8
  <2>10. m = [ok |-> m.ok, free |-> m.free, pt |-> m.pt, panic |-> m.panic]
    BY <2>8, <2>9, Zenon
  <2>. QED  BY <2>5, <2>6, <2>7, <2>9, <2>10, Zenon
<1>2. PICK x, y : Path(va) = {<<1, x>>, <<0, y>>}
  BY DEF Path
<1>3. IsFiniteSet(missing)
  <2>1. IsFiniteSet({<<1, x>>}) /\ {<<1, x>>, <<0, y>>} = {<<1, x>>} \cup {<<0, y>>}
    BY FS_Singleton
  <2>2. IsFiniteSet({<<1, x>>, <<0, y>>})
    BY <2>1, FS_AddElement
  <2>. QED  BY <1>2, <2>2, FS_Subset
<1>4. IsFiniteSet(got) /\ Cardinality(got) \in Nat
  BY <1>3, FS_Subset, FS_CardinalityType
<1>5. Cardinality(got) <= f
  <2>1. CASE <<0, y>> \in got
    <3>1. above(<<0, y>>) = missing
      BY <1>2
    <3>2. Cardinality(missing) <= f
      BY <2>1, <3>1
    <3>3. Cardinality(got) <= Cardinality(missing) /\ Cardinality(missing) \in Nat
      BY <1>3, FS_Subset, FS_CardinalityType
    <3>. QED  BY <1>4, <3>2, <3>3
  <2>2. CASE <<0, y>> \notin got /\ <<1, x>> \in got
    <3>1. got = {<<1, x>>}
      BY <1>2, <2>2
    <3>2. above(<<1, x>>) = {<<1, x>>}
      <4>1. \A k \in missing : k = <<1, x>> \/ k = <<0, y>>
        BY <1>2
      <4>2. <<1, x>> \in missing
        BY <2>2
      <4>3. <<1, x>>[1] = 1 /\ <<0, y>>[1] = 0 /\ 1 >= 1 /\ ~(0 >= 1)
        OBVIOUS
      <4>. QED  BY <4>1, <4>2, <4>3
    <3>. QED  BY <3>1, <3>2
  <2>3. CASE got = {}
    <3>1. Cardinality(got) = 0
      BY <2>3, FS_EmptySet, Zenon
    <3>. QED  BY <3>1
  <2>. QED  BY <1>2, <2>1, <2>2, <2>3
<1>6. got \cap t.nodes = {} /\ got \subseteq Nodes /\ t.nodes \subseteq Nodes /\ IsFiniteSet(t.nodes)
      /\ IsFiniteSet(t.map) /\ t.map \subseteq Nat
  BY PathNodes DEF Tables
<1> HIDE DEF got
<1>7. /\ IsFiniteSet(t.nodes \cup got) /\ Cardinality(t.nodes) \in Nat
      /\ Cardinality(t.nodes \cup got) = Cardinality(t.nodes) + Cardinality(got)
  <2>1. Cardinality(t.nodes \cap got) = 0
    BY <1>6, FS_EmptySet
  <2>2. /\ IsFiniteSet(t.nodes \cup got)
        /\ Cardinality(t.nodes \cup got)
             = Cardinality(t.nodes) + Cardinality(got) - Cardinality(t.nodes \cap got)
    BY <1>4, <1>6, FS_Union
  <2>3. Cardinality(t.nodes) \in Nat
    BY <1>6, FS_CardinalityType
  <2>. QED  BY <1>4, <2>1, <2>2, <2>3
<1>8. IsFiniteSet(t.map \cup {va})
  BY <1>6, FS_AddElement
<1>9. m.pt \in Tables /\ m.pt.nodes = t.nodes \cup got
  BY <1>1, <1>6, <1>7, <1>8 DEF Tables
<1>10. m.free \in Nat /\ m.free + Cardinality(m.pt.nodes) = f + Cardinality(t.nodes)
  BY <1>1, <1>4, <1>5, <1>7, <1>9
<1>11. (m.ok => m.pt.map = t.map \cup {va}) /\ (~m.ok => m.pt.map = t.map)
  <2>1. CASE got = missing
    BY <1>1, <2>1
  <2>2. CASE got # missing
    BY <1>1, <2>2
  <2>. QED  BY <2>1, <2>2
<1>12. Path(va) \subseteq t.nodes => m.ok
  BY <1>1 DEF got
<1>. QED  BY <1>1, <1>9, <1>10, <1>11, <1>12

\* What a table holds is a number.
LEMMA HeldNat ==
  ASSUME NEW t \in Tables
  PROVE  /\ Cardinality(t.nodes) \in Nat /\ IsFiniteSet(t.map \ High)
         /\ Cardinality(t.map \ High) \in Nat /\ Held(t) \in Nat
         /\ Held(t) = Cardinality(t.nodes) + Cardinality(t.map \ High)
<1>1. IsFiniteSet(t.nodes) /\ IsFiniteSet(t.map)
  BY DEF Tables
<1>2. IsFiniteSet(t.map \ High)
  BY <1>1, FS_Difference
<1>. QED  BY <1>1, <1>2, FS_CardinalityType DEF Held

LEMMA NoTableHeld == NoTable \in Tables /\ Held(NoTable) = 0
  BY FS_EmptySet DEF NoTable, Tables, Held

\* A page of user memory that the table does not have yet: it and the tables it needs
\* come from the free list, and it goes back if there is one too few.
LEMMA AllocFacts ==
  ASSUME NEW t \in Tables, NEW va \in Nat, va \notin High, va \notin t.map,
         NEW f \in Nat, NEW m, m = AllocPage(t, va, f)
  PROVE  /\ m.free \in Nat /\ m.pt \in Tables
         /\ m.free + Held(m.pt) = f + Held(t)
         /\ m.ok => m.pt.map = t.map \cup {va}
         /\ ~m.ok => m.pt.map = t.map
         /\ m.panic \in BOOLEAN /\ ~m.panic
<1>1. CASE f = 0
  BY <1>1 DEF AllocPage
<1>2. CASE f # 0
  <2>0. PICK g \in Nat : g = f - 1
    BY <1>2
  <2>1. PICK n : n = mappages(t, va, g)
    OBVIOUS
  <2>2. /\ n.free \in Nat /\ n.pt \in Tables
        /\ n.free + Cardinality(n.pt.nodes) = g + Cardinality(t.nodes)
        /\ n.ok \in BOOLEAN
        /\ n.ok => n.pt.map = t.map \cup {va}
        /\ ~n.ok => n.pt.map = t.map
        /\ n = [ok |-> n.ok, free |-> n.free, pt |-> n.pt, panic |-> n.panic]
    BY <2>1, MapFacts
  <2>6. n.panic \in BOOLEAN /\ ~n.panic
    <3>1. n.panic \in BOOLEAN /\ (n.panic <=> va \in t.map)
      BY <2>1, MapFacts
    <3>. QED  BY <3>1
  <2>3. m = IF n.ok THEN n ELSE [n EXCEPT !.free = @ + 1]
    BY <1>2, <2>0, <2>1 DEF AllocPage
  <2>4. CASE n.ok
    <3>1. m = n
      BY <2>3, <2>4
    <3>2. n.pt.map \ High = (t.map \ High) \cup {va} /\ va \notin t.map \ High
      BY <2>2, <2>4
    <3>3. Cardinality(n.pt.map \ High) = Cardinality(t.map \ High) + 1
      BY <3>2, HeldNat, FS_AddElement
    <3>4. n.free + Held(n.pt) = f + Held(t)
      <4>1. /\ Held(n.pt) = Cardinality(n.pt.nodes) + Cardinality(n.pt.map \ High)
            /\ Held(t) = Cardinality(t.nodes) + Cardinality(t.map \ High)
            /\ Cardinality(n.pt.nodes) \in Nat /\ Cardinality(t.nodes) \in Nat
            /\ Cardinality(t.map \ High) \in Nat /\ n.free \in Nat
        BY <2>2, HeldNat
      <4>2. n.free + Cardinality(n.pt.nodes) = f - 1 + Cardinality(t.nodes)
        BY <2>0, <2>2
      <4>3. PICK x, y, z, w, u, v :
              /\ x = n.free /\ y = Cardinality(n.pt.nodes) /\ z = Cardinality(n.pt.map \ High)
              /\ w = Cardinality(t.nodes) /\ u = Cardinality(t.map \ High) /\ v = Held(n.pt)
        OBVIOUS
      <4>4. x \in Nat /\ y \in Nat /\ w \in Nat /\ u \in Nat /\ z = u + 1 /\ v = y + z
        BY <3>3, <4>1, <4>3
      <4>. QED  BY <4>1, <4>2, <4>3, <4>4
    <3>. QED  BY <2>2, <2>4, <2>6, <3>1, <3>4
  <2>5. CASE ~n.ok
    <3>1. m.free = n.free + 1 /\ m.pt = n.pt /\ (m.ok <=> n.ok) /\ m.panic = n.panic
      BY <2>2, <2>3, <2>5
    <3>2. n.pt.map = t.map
      BY <2>2, <2>5
    <3>3. n.free + 1 + Held(n.pt) = f + Held(t)
      <4>1. /\ Held(n.pt) = Cardinality(n.pt.nodes) + Cardinality(t.map \ High)
            /\ Held(t) = Cardinality(t.nodes) + Cardinality(t.map \ High)
            /\ Cardinality(n.pt.nodes) \in Nat /\ Cardinality(t.nodes) \in Nat
            /\ Cardinality(t.map \ High) \in Nat /\ n.free \in Nat
        BY <2>2, <3>2, HeldNat
      <4>2. n.free + Cardinality(n.pt.nodes) = f - 1 + Cardinality(t.nodes)
        BY <2>0, <2>2
      <4>3. PICK x, y, w, u, v, z :
              /\ x = n.free /\ y = Cardinality(n.pt.nodes) /\ z = Held(t)
              /\ w = Cardinality(t.nodes) /\ u = Cardinality(t.map \ High) /\ v = Held(n.pt)
        OBVIOUS
      <4>4. x \in Nat /\ y \in Nat /\ w \in Nat /\ u \in Nat /\ v = y + u /\ z = w + u
        BY <4>1, <4>3
      <4>. QED  BY <4>2, <4>3, <4>4
    <3>. QED  BY <2>2, <2>5, <2>6, <3>1, <3>3
  <2>. QED  BY <2>2, <2>4, <2>5
<1>. QED  BY <1>1, <1>2

\* User memory stays below the high pages, since there are not as many pages.
LEMMA WholeHeld ==
  ASSUME NEW t \in Tables, NEW n \in Nat, Whole(t, n), Held(t) <= NPAGES
  PROVE  /\ n <= NPAGES /\ t.map \ High = Pages(0, n)
         /\ Held(t) = Cardinality(t.nodes) + n
<1>1. ASSUME NEW k \in Nat PROVE IsFiniteSet(Pages(0, k)) /\ Cardinality(Pages(0, k)) = k
  BY FS_Interval DEF Pages
<1>2. ~(n > NPAGES)
  <2> SUFFICES ASSUME n > NPAGES PROVE FALSE
    OBVIOUS
  <2>1. NPAGES + 1 \in Nat
    BY Sizes
  <2>2. Pages(0, NPAGES + 1) \subseteq t.map \ High
    BY Sizes DEF Whole, Pages, High
  <2>3. NPAGES + 1 <= Cardinality(t.map \ High)
    BY <1>1, <2>1, <2>2, HeldNat, FS_Subset
  <2>4. PICK x, y, z : x = Cardinality(t.map \ High) /\ y = Cardinality(t.nodes) /\ z = Held(t)
    OBVIOUS
  <2>5. x \in Nat /\ y \in Nat /\ z = y + x
    BY <2>4, HeldNat
  <2>. QED  BY <2>3, <2>4, <2>5, Sizes
<1>3. t.map \ High = Pages(0, n)
  BY <1>2, Sizes DEF Whole, Pages, High
<1>. QED  BY <1>1, <1>2, <1>3, Sizes, HeldNat

\* uvmunmap() of the pages from k up to n.
LEMMA UnmapFacts ==
  ASSUME NEW t \in Tables, NEW n \in Nat, Whole(t, n), n <= NPAGES, NEW k \in Nat, k <= n
  PROVE  /\ uvmunmap(t, Pages(k, n)) \in Tables
         /\ Whole(uvmunmap(t, Pages(k, n)), k)
         /\ uvmunmap(t, Pages(k, n)).nodes = t.nodes
         /\ Cardinality(Pages(k, n)) = n - k
         /\ ~NotMapped(t, Pages(k, n))
<1>1. uvmunmap(t, Pages(k, n)) = [nodes |-> t.nodes, map |-> t.map \ Pages(k, n)]
  BY DEF uvmunmap, Tables
<1>2. IsFiniteSet(t.map \ Pages(k, n))
  BY FS_Difference DEF Tables
<1>3. t.map \ Pages(k, n) = High \cup Pages(0, k)
  BY Sizes DEF Whole, Pages, High
<1>4. Cardinality(Pages(k, n)) = n - k
  <2>1. Cardinality(k..(n - 1)) = IF k > n - 1 THEN 0 ELSE (n - 1) - k + 1
    BY FS_Interval
  <2>. QED  BY <2>1 DEF Pages
<1>5. Pages(k, n) \subseteq t.map
  BY DEF Whole, Pages
<1>. QED  BY <1>1, <1>2, <1>3, <1>4, <1>5 DEF Tables, Whole, NotMapped

LEMMA WholeValue ==
  ASSUME NEW t \in Tables, NEW n \in Nat, Whole(t, n), n <= NPAGES
  PROVE  t.map \ High = Pages(0, n) /\ Held(t) = Cardinality(t.nodes) + n
<1>1. IsFiniteSet(Pages(0, n)) /\ Cardinality(Pages(0, n)) = n
  BY FS_Interval DEF Pages
<1>2. t.map \ High = Pages(0, n)
  BY Sizes DEF Whole, Pages, High
<1>. QED  BY <1>1, <1>2, HeldNat

\* proc_freepagetable() gives back just what the table holds, and does not panic.
LEMMA GivenIsHeld ==
  ASSUME NEW t \in Tables, NEW n \in Nat, Whole(t, PGROUNDUP(n)), Held(t) <= NPAGES
  PROVE  Given(t, n) = Held(t) /\ ~BadTable(t, n)
<1>1. PGROUNDUP(n) \in Nat
  BY RoundUp
<1>. QED  BY <1>1, WholeHeld DEF Given, BadTable, Whole

LEMMA BitNat == \A b \in BOOLEAN : Bit(b) \in Nat
  BY DEF Bit

LEMMA FreedIsHeld ==
  ASSUME NEW r \in Procs, Held(r.pt) <= NPAGES,
         r.pt = NoTable \/ Whole(r.pt, PGROUNDUP(r.sz))
  PROVE  FreedByProc(r) = ProcPages(r) /\ ~BadProc(r)
<1>1. r.pt \in Tables /\ r.sz \in Nat
  BY DEF Procs
<1>2. CASE r.pt = NoTable
  <2>1. Held(r.pt) = 0
    BY <1>2, NoTableHeld
  <2>. QED  BY <1>2, <2>1 DEF FreedByProc, ProcPages, BadProc
<1>3. CASE r.pt # NoTable
  BY <1>1, <1>3, GivenIsHeld DEF FreedByProc, ProcPages, BadProc
<1>. QED  BY <1>2, <1>3

-----------------------------------------------------------------------------
(* Steps *)

PagesOf == [p \in Slots |-> ProcPages(pr[p]) + JobPages(job[p])]

LEMMA PageNumbers ==
  ASSUME NEW r \in Procs, NEW j \in Jobs
  PROVE  /\ ProcPages(r) \in Nat /\ JobPages(j) \in Nat
         /\ Held(r.pt) \in Nat /\ Held(j.pt) \in Nat
         /\ Held(r.pt) <= ProcPages(r) /\ Held(j.pt) <= JobPages(j)
<1>1. r.pt \in Tables /\ r.trapframe \in BOOLEAN /\ r.usyscall \in BOOLEAN
      /\ j.pt \in Tables /\ j.args \in Nat
  BY DEF Procs, Jobs
<1>2. Held(r.pt) \in Nat /\ Held(j.pt) \in Nat /\ Bit(r.trapframe) \in Nat /\ Bit(r.usyscall) \in Nat
  BY <1>1, HeldNat, BitNat
<1>. QED  BY <1>1, <1>2 DEF ProcPages, JobPages

\* What is known of a process when it takes a step.
LEMMA Known ==
  ASSUME MInv, NEW p \in Slots
  PROVE  /\ job[p] \in Jobs /\ pr[p] \in Procs /\ SlotOk(job[p], pr[p])
         /\ job[p].pt \in Tables /\ pr[p].pt \in Tables /\ free \in Nat
         /\ Held(job[p].pt) \in Nat /\ Held(job[p].pt) <= NPAGES
         /\ Held(pr[p].pt) \in Nat /\ Held(pr[p].pt) <= NPAGES
<1>1. job[p] \in Jobs /\ pr[p] \in Procs /\ SlotOk(job[p], pr[p]) /\ free \in Nat
  BY DEF MInv, TypeInv, SlotInv
<1>2. job[p].pt \in Tables /\ pr[p].pt \in Tables
  BY <1>1 DEF Jobs, Procs
<1>3. \A q \in Slots : ProcPages(pr[q]) \in Nat /\ JobPages(job[q]) \in Nat
  BY PageNumbers DEF MInv, TypeInv
<1>4. PagesOf \in [Slots -> Nat] /\ PagesOf[p] = ProcPages(pr[p]) + JobPages(job[p])
  BY <1>3 DEF PagesOf
<1>5. PagesOf[p] <= Total(PagesOf) /\ Total(PagesOf) \in Nat
  <2> HIDE DEF PagesOf
  <2>1. IsFiniteSet(Slots)
    BY MemAssumption
  <2>. QED  BY <1>4, <2>1, TotalChanges
<1>6. free + Total(PagesOf) = NPAGES
  BY DEF MInv, PagesOwned, PagesOf
<1>7. ProcPages(pr[p]) <= NPAGES /\ JobPages(job[p]) <= NPAGES
  BY <1>1, <1>3, <1>4, <1>5, <1>6, Sizes
<1>8. /\ Held(job[p].pt) \in Nat /\ Held(job[p].pt) <= JobPages(job[p])
      /\ Held(pr[p].pt) \in Nat /\ Held(pr[p].pt) <= ProcPages(pr[p])
  BY <1>1, PageNumbers
<1>. QED  BY <1>1, <1>2, <1>3, <1>7, <1>8, Sizes

\* What a step takes from the free list, its call or its process has got.
LEMMA PagesStep ==
  ASSUME MInv, NEW p \in Slots, NEW k \in Slots, NEW J \in Jobs, NEW R \in Procs,
         job' = [job EXCEPT ![p] = J], pr' = [pr EXCEPT ![k] = R], free' \in Nat,
         free' + ProcPages(R) + JobPages(J) = free + ProcPages(pr[k]) + JobPages(job[p])
  PROVE  PagesOwned'
<1>1. /\ pr \in [Slots -> Procs] /\ job \in [Slots -> Jobs] /\ free \in Nat
      /\ IsFiniteSet(Slots) /\ free + Total(PagesOf) = NPAGES
  BY MemAssumption DEF MInv, TypeInv, PagesOwned, PagesOf
<1>2. \A q \in Slots : ProcPages(pr[q]) \in Nat /\ JobPages(job[q]) \in Nat
  BY <1>1, PageNumbers
<1>3. ProcPages(R) \in Nat /\ JobPages(J) \in Nat
  BY PageNumbers
<1>4. PICK f : f = PagesOf
  OBVIOUS
<1>5. f \in [Slots -> Nat] /\ \A q \in Slots : f[q] = ProcPages(pr[q]) + JobPages(job[q])
  BY <1>2, <1>4 DEF PagesOf
<1>6. PICK n, m : n = ProcPages(R) + JobPages(job[k])
                  /\ m = (IF k = p THEN ProcPages(R) ELSE ProcPages(pr[p])) + JobPages(J)
  OBVIOUS
<1>7. n \in Nat /\ m \in Nat
  BY <1>2, <1>3, <1>6
<1>8. PICK g : g = [f EXCEPT ![k] = n]
  OBVIOUS
<1>9. g \in [Slots -> Nat] /\ g[p] = IF k = p THEN n ELSE f[p]
  BY <1>5, <1>7, <1>8
<1>10. PICK h : h = [g EXCEPT ![p] = m]
  OBVIOUS
<1>11. Total(g) = Total(f) - f[k] + n /\ Total(f) \in Nat
  BY <1>1, <1>5, <1>7, <1>8, TotalChanges
<1>12. Total(h) = Total(g) - g[p] + m /\ Total(g) \in Nat
  BY <1>1, <1>7, <1>9, <1>10, TotalChanges
<1>13. PagesOf' = h
  <2>1. \A q \in Slots : pr'[q] = (IF q = k THEN R ELSE pr[q]) /\ job'[q] = (IF q = p THEN J ELSE job[q])
    BY <1>1
  <2>2. h \in [Slots -> Nat] /\ \A q \in Slots : h[q] = IF q = p THEN m ELSE IF q = k THEN n ELSE f[q]
    BY <1>5, <1>7, <1>8, <1>9, <1>10
  <2>3. \A q \in Slots : h[q] = ProcPages(pr'[q]) + JobPages(job'[q])
    BY <1>5, <1>6, <2>1, <2>2
  <2>4. PagesOf' = [q \in Slots |-> ProcPages(pr'[q]) + JobPages(job'[q])]
    BY DEF PagesOf, ProcPages, JobPages
  <2>. QED  BY <2>2, <2>3, <2>4
<1>14. f[k] = ProcPages(pr[k]) + JobPages(job[k]) /\ f[p] = ProcPages(pr[p]) + JobPages(job[p])
  BY <1>5
<1>15. free' + Total(h) = NPAGES
  <2>1. CASE k = p
    BY <1>1, <1>2, <1>3, <1>4, <1>6, <1>9, <1>11, <1>12, <1>14, <2>1
  <2>2. CASE k # p
    BY <1>1, <1>2, <1>3, <1>4, <1>6, <1>9, <1>11, <1>12, <1>14, <2>2
  <2>. QED  BY <2>1, <2>2
<1>16. PagesOwned' = (free' + Total(PagesOf') = NPAGES)
  BY DEF PagesOwned, PagesOf, Total
<1>. QED  BY <1>13, <1>15, <1>16

\* A step of p's call that changes slot k.
LEMMA StepMInv ==
  ASSUME MInv, NEW p \in Slots, NEW k \in Slots, NEW J \in Jobs, NEW R \in Procs,
         job' = [job EXCEPT ![p] = J], pr' = [pr EXCEPT ![k] = R], free' \in Nat, mpanic' = FALSE,
         free' + ProcPages(R) + JobPages(J) = free + ProcPages(pr[k]) + JobPages(job[p]),
         k = p => SlotOk(J, R),
         k # p => SlotOk(J, pr[p]),
         k # p => SlotOk(job[k], R),
         \A q \in Slots \ {p} : Forking(q) => job[q].kid # k,
         J.op = "fork" => /\ J.kid \in Slots
                          /\ J.kid = k => KidOk(J, R)
                          /\ J.kid # k => KidOk(J, pr[J.kid])
                          /\ \A q \in Slots \ {p} : Forking(q) => job[q].kid # J.kid
  PROVE  MInv'
<1>1. pr \in [Slots -> Procs] /\ job \in [Slots -> Jobs]
  BY DEF MInv, TypeInv
<1>2. \A q \in Slots : pr'[q] = (IF q = k THEN R ELSE pr[q]) /\ job'[q] = (IF q = p THEN J ELSE job[q])
  BY <1>1
<1>3. TypeInv'
  BY <1>1 DEF TypeInv
<1>4. SlotInv'
  <2> SUFFICES ASSUME NEW q \in Slots PROVE SlotOk(job'[q], pr'[q])
    BY DEF SlotInv, SlotOk, PointsOf, Building, Whole
  <2>1. SlotOk(job[q], pr[q])
    BY DEF MInv, SlotInv
  <2>. QED  BY <1>2, <2>1
<1>5. \A q \in Slots \ {p} : job'[q] = job[q] /\ (Forking(q)' <=> Forking(q))
  BY <1>2 DEF Forking
<1>6. job'[p] = J /\ (Forking(p)' <=> J.op = "fork")
  BY <1>2 DEF Forking
<1>7. KidInv'
  <2>1. ASSUME NEW q \in Slots, Forking(q)'
        PROVE  job'[q].kid \in Slots /\ KidOk(job'[q], pr'[job'[q].kid])
    <3>1. CASE q = p
      BY <1>2, <1>6, <2>1, <3>1
    <3>2. CASE q # p
      <4>1. Forking(q) /\ job[q].kid \in Slots /\ KidOk(job[q], pr[job[q].kid]) /\ job[q].kid # k
        BY <1>5, <2>1, <3>2 DEF MInv, KidInv
      <4>. QED  BY <1>2, <1>5, <3>2, <4>1
    <3>. QED  BY <3>1, <3>2
  <2>2. ASSUME NEW q \in Slots, NEW s \in Slots, Forking(q)', Forking(s)', job'[q].kid = job'[s].kid
        PROVE  q = s
    BY <1>5, <1>6, <2>2 DEF MInv, KidInv
  <2>. QED  BY <2>1, <2>2 DEF KidInv, KidOk
<1>8. PagesOwned'
  BY PagesStep
<1>. QED  BY <1>3, <1>4, <1>7, <1>8 DEF MInv

\* A step of p that changes its own slot at most.
LEMMA OwnStep ==
  ASSUME MInv, NEW p \in Slots, NEW J \in Jobs, NEW R \in Procs,
         pr[p].state \in {"RUNNING", "ZOMBIE"},
         job' = [job EXCEPT ![p] = J], pr' = [pr EXCEPT ![p] = R], free' \in Nat, mpanic' = FALSE,
         free' + ProcPages(R) + JobPages(J) = free + ProcPages(pr[p]) + JobPages(job[p]),
         SlotOk(J, R),
         J.op = "fork" => /\ Forking(p) /\ J.kid = job[p].kid
                          /\ J.pc \notin {"trapframe", "usyscall"}
  PROVE  MInv'
<1>1. ASSUME NEW q \in Slots, Forking(q)
      PROVE  job[q].kid \in Slots /\ KidOk(job[q], pr[job[q].kid]) /\ job[q].kid # p
  BY <1>1 DEF MInv, KidInv, KidOk
<1>2. ASSUME J.op = "fork"
      PROVE  /\ J.kid \in Slots /\ J.kid # p /\ KidOk(J, pr[J.kid])
             /\ \A q \in Slots \ {p} : Forking(q) => job[q].kid # J.kid
  BY <1>1, <1>2 DEF MInv, KidInv, KidOk
<1>. QED  BY <1>1, <1>2, StepMInv

\* The next page of user memory is neither a high page nor mapped yet.
LEMMA NextPage ==
  ASSUME NEW t \in Tables, NEW a \in Nat, Whole(t, a), Held(t) <= NPAGES
  PROVE  a <= NPAGES /\ a \notin High /\ a \notin t.map
<1>1. a <= NPAGES
  BY WholeHeld
<1>. QED  BY <1>1, Sizes DEF High, Whole, Pages

LEMMA GrowJobStep ==
  ASSUME MInv, NEW p \in Slots, GrowJob(p)
  PROVE  MInv'
<1>1. PICK j, r : j = job[p] /\ r = AllocPage(j.pt, j.a, free)
  OBVIOUS
<1>2. /\ j \in Jobs /\ pr[p] \in Procs /\ SlotOk(j, pr[p]) /\ j.pt \in Tables
      /\ free \in Nat /\ Held(j.pt) <= NPAGES /\ Held(j.pt) \in Nat /\ j.a \in Nat
  BY <1>1, Known DEF Jobs
<1>3. j.pc = "pages" /\ j.a < PGROUNDUP(j.goal) /\ r.ok /\ free' = r.free /\ mpanic' = r.panic
      /\ pr' = pr
  BY <1>1 DEF GrowJob, In
<1>4. Whole(j.pt, j.a) /\ pr[p].state = "RUNNING" /\ PGROUNDUP(j.sz) <= j.a
  BY <1>2, <1>3 DEF SlotOk, Building
<1>5. /\ r.free \in Nat /\ r.pt \in Tables /\ r.free + Held(r.pt) = free + Held(j.pt)
      /\ r.pt.map = j.pt.map \cup {j.a} /\ r.panic \in BOOLEAN /\ ~r.panic
  BY <1>1, <1>2, <1>3, <1>4, NextPage, AllocFacts
<1>6. PICK J : J = [j EXCEPT !.pt = r.pt, !.a = j.a + 1]
  OBVIOUS
<1>7. /\ J \in Jobs /\ J.pt = r.pt /\ J.a = j.a + 1 /\ J.pc = "pages" /\ J.op = j.op /\ J.sz = j.sz
      /\ J.goal = j.goal /\ J.kid = j.kid /\ J.args = j.args
  <2>1. r.pt \in Tables
    BY <1>5
  <2>2. PICK n \in Nat : n = j.a + 1
    BY <1>2
  <2>3. J = [j EXCEPT !.pt = r.pt, !.a = n]
    BY <1>6, <2>2
  <2>4. J \in Jobs
    BY <1>2, <2>1, <2>3 DEF Jobs
  <2>. QED  BY <1>2, <1>3, <2>2, <2>3, <2>4 DEF Jobs
<1>8. job' = [job EXCEPT ![p] = J] /\ pr' = [pr EXCEPT ![p] = pr[p]]
  BY <1>1, <1>3, <1>6 DEF GrowJob, MInv, TypeInv
<1>9. Whole(J.pt, J.a) /\ J.a <= PGROUNDUP(J.goal) /\ PGROUNDUP(J.sz) <= J.a
  <2>1. j.sz \in Nat /\ j.goal \in Nat
    BY <1>2 DEF Jobs
  <2>2. PGROUNDUP(j.sz) \in Nat /\ PGROUNDUP(j.goal) \in Nat
    BY <2>1, RoundUp
  <2>. QED  BY <1>2, <1>3, <1>4, <1>5, <1>7, <2>2 DEF Whole, Pages
<1>10. SlotOk(J, pr[p])
  BY <1>2, <1>3, <1>7, <1>9 DEF SlotOk, PointsOf, Building
<1>11. free' + ProcPages(pr[p]) + JobPages(J) = free + ProcPages(pr[p]) + JobPages(j)
  <2>1. ProcPages(pr[p]) \in Nat /\ j.args \in Nat /\ Held(r.pt) \in Nat
    BY <1>2, <1>5, PageNumbers, HeldNat DEF Jobs
  <2>2. JobPages(J) = Held(r.pt) + j.args /\ JobPages(j) = Held(j.pt) + j.args
    BY <1>7 DEF JobPages
  <2>3. free' \in Nat /\ free' + Held(r.pt) = free + Held(j.pt)
    BY <1>3, <1>5
  <2>. QED  BY <1>2, <2>1, <2>2, <2>3
<1>. QED  BY <1>1, <1>2, <1>3, <1>4, <1>5, <1>7, <1>8, <1>10, <1>11, OwnStep DEF Forking

LEMMA GrowJobFailsStep ==
  ASSUME MInv, NEW p \in Slots, GrowJobFails(p)
  PROVE  MInv'
<1>1. PICK j, r, k : j = job[p] /\ r = AllocPage(j.pt, j.a, free) /\ k = PGROUNDUP(j.sz)
  OBVIOUS
<1>2. /\ j \in Jobs /\ pr[p] \in Procs /\ SlotOk(j, pr[p]) /\ j.pt \in Tables
      /\ free \in Nat /\ Held(j.pt) <= NPAGES /\ Held(j.pt) \in Nat /\ j.a \in Nat
  BY <1>1, Known DEF Jobs
<1>3. PICK t : t = uvmunmap(r.pt, Pages(k, j.a))
  OBVIOUS
<1>4. /\ j.pc = "pages" /\ ~r.ok /\ free' = r.free + Cardinality(Pages(k, j.a))
      /\ mpanic' = (r.panic \/ NotMapped(r.pt, Pages(k, j.a)))
      /\ pr' = pr
  BY <1>1 DEF GrowJobFails, In
<1>5. Whole(j.pt, j.a) /\ pr[p].state = "RUNNING" /\ k <= j.a /\ k \in Nat
  <2>1. k \in Nat
    BY <1>1, <1>2, RoundUp DEF Jobs
  <2>. QED  BY <1>1, <1>2, <1>4, <2>1 DEF SlotOk, Building
<1>6. j.a <= NPAGES /\ j.a \notin High /\ j.a \notin j.pt.map
  BY <1>2, <1>5, NextPage
<1>7. /\ r.free \in Nat /\ r.pt \in Tables /\ r.free + Held(r.pt) = free + Held(j.pt)
      /\ r.pt.map = j.pt.map /\ r.panic \in BOOLEAN /\ ~r.panic
  BY <1>1, <1>2, <1>4, <1>6, AllocFacts
<1>8. Whole(r.pt, j.a)
  BY <1>5, <1>7 DEF Whole
<1>9. /\ t \in Tables /\ Whole(t, k) /\ t.nodes = r.pt.nodes
      /\ Cardinality(Pages(k, j.a)) = j.a - k /\ ~NotMapped(r.pt, Pages(k, j.a))
  BY <1>2, <1>3, <1>5, <1>6, <1>7, <1>8, UnmapFacts
<1>10. Held(r.pt) = Cardinality(r.pt.nodes) + j.a /\ Held(t) = Cardinality(r.pt.nodes) + k
       /\ Cardinality(r.pt.nodes) \in Nat
  <2>1. k <= NPAGES /\ Cardinality(r.pt.nodes) \in Nat
    <3>1. k <= NPAGES
      BY <1>2, <1>5, <1>6, Sizes
    <3>. QED  BY <1>7, <3>1, HeldNat
  <2>2. Held(r.pt) = Cardinality(r.pt.nodes) + j.a
    BY <1>2, <1>6, <1>7, <1>8, WholeValue
  <2>3. Held(t) = Cardinality(t.nodes) + k
    BY <1>5, <1>9, <2>1, WholeValue
  <2>. QED  BY <1>9, <2>1, <2>2, <2>3
<1>11. PICK J : J = [j EXCEPT !.pt = t, !.a = 0, !.goal = 0, !.pc = "bad"]
  OBVIOUS
<1>12. /\ J \in Jobs /\ J.pt = t /\ J.pc = "bad" /\ J.op = j.op /\ J.sz = j.sz
       /\ J.kid = j.kid /\ J.args = j.args
  BY <1>2, <1>9, <1>11 DEF Jobs
<1>13. job' = [job EXCEPT ![p] = J] /\ pr' = [pr EXCEPT ![p] = pr[p]]
  BY <1>1, <1>3, <1>4, <1>11 DEF GrowJobFails, MInv, TypeInv
<1>14. SlotOk(J, pr[p])
  BY <1>1, <1>2, <1>4, <1>9, <1>12 DEF SlotOk, PointsOf, Building
<1>15. free' \in Nat /\ free' + ProcPages(pr[p]) + JobPages(J) = free + ProcPages(pr[p]) + JobPages(j)
  <2>1. ProcPages(pr[p]) \in Nat /\ j.args \in Nat
    BY <1>2, PageNumbers DEF Jobs
  <2>2. free' = r.free + (j.a - k)
    BY <1>4, <1>9
  <2>3. JobPages(J) = Held(t) + j.args /\ JobPages(j) = Held(j.pt) + j.args
    BY <1>12 DEF JobPages
  <2>4. r.free \in Nat /\ r.free + Held(r.pt) = free + Held(j.pt)
    BY <1>7
  <2>. QED  BY <1>2, <1>5, <1>10, <2>1, <2>2, <2>3, <2>4
<1>16. mpanic' = FALSE
  BY <1>4, <1>7, <1>9
<1>. QED  BY <1>1, <1>2, <1>4, <1>5, <1>12, <1>13, <1>14, <1>15, <1>16, OwnStep DEF Forking

LEMMA NewRootStep ==
  ASSUME MInv, NEW p \in Slots, NewRoot(p)
  PROVE  MInv'
<1>1. PICK j : j = job[p]
  OBVIOUS
<1>2. j \in Jobs /\ pr[p] \in Procs /\ SlotOk(j, pr[p]) /\ free \in Nat
  BY <1>1, Known
<1>3. j.pc = "pagetable" /\ pr' = pr /\ mpanic' = FALSE
  BY <1>1 DEF NewRoot, In, MInv
<1>4. /\ pr[p].state = "RUNNING" /\ j.op \in {"fork", "exec"} /\ j.pt = NoTable /\ j.sz = 0
      /\ ProcPages(pr[p]) \in Nat /\ j.args \in Nat
  BY <1>2, <1>3, PageNumbers DEF SlotOk, PointsOf, Jobs
<1>5. pr' = [pr EXCEPT ![p] = pr[p]]
  BY <1>3 DEF MInv, TypeInv
<1>6. CASE free = 0
  <2>1. PICK J : J = [j EXCEPT !.pc = "bad"]
    OBVIOUS
  <2>2. /\ J \in Jobs /\ J.pc = "bad" /\ J.op = j.op /\ J.sz = j.sz /\ J.pt = j.pt
        /\ J.kid = j.kid /\ J.args = j.args
    BY <1>2, <2>1 DEF Jobs
  <2>3. job' = [job EXCEPT ![p] = J] /\ free' = free
    BY <1>1, <1>6, <2>1 DEF NewRoot, Goto
  <2>4. SlotOk(J, pr[p])
    BY <1>2, <1>3, <1>4, <2>2 DEF SlotOk, PointsOf, Building
  <2>5. JobPages(J) = JobPages(j)
    BY <2>2 DEF JobPages
  <2>. QED  BY <1>1, <1>2, <1>3, <1>4, <1>5, <2>2, <2>3, <2>4, <2>5, OwnStep DEF Forking
<1>7. CASE free # 0
  <2>1. PICK t : t = [nodes |-> {Root}, map |-> {}]
    OBVIOUS
  <2>2. t \in Tables /\ Held(t) = 1
    <3>0. Root \in Nodes
      BY DEF Root, Nodes
    <3>1. IsFiniteSet({Root}) /\ Cardinality({Root}) = 1
      BY FS_Singleton
    <3>2. IsFiniteSet({}) /\ Cardinality({} \ High) = 0
      BY FS_EmptySet
    <3>. QED  BY <2>1, <3>0, <3>1, <3>2 DEF Tables, Held
  <2>3. PICK J : J = [j EXCEPT !.pt = t, !.pc = "high", !.a = TRAMPOLINE]
    OBVIOUS
  <2>4. /\ J \in Jobs /\ J.pc = "high" /\ J.op = j.op /\ J.sz = j.sz /\ J.pt = t /\ J.a = TRAMPOLINE
        /\ J.kid = j.kid /\ J.args = j.args
    BY <1>2, <2>2, <2>3, Sizes DEF Jobs
  <2>5. free' = free - 1 /\ job' = [job EXCEPT ![p] = J]
    <3>1. job' = [job EXCEPT ![p].pt.nodes = {Root}, ![p].pc = "high", ![p].a = TRAMPOLINE]
          /\ free' = free - 1
      BY <1>7 DEF NewRoot
    <3>2. [j.pt EXCEPT !.nodes = {Root}] = t
      BY <1>4, <2>1 DEF NoTable
    <3>3. job \in [Slots -> Jobs] /\ j.pt = job[p].pt
      BY <1>1 DEF MInv, TypeInv
    <3>. QED  BY <1>1, <2>3, <3>1, <3>2, <3>3 DEF Jobs
  <2>6. {va \in High : va > TRAMPOLINE} = {}
    BY Sizes DEF High
  <2>7. SlotOk(J, pr[p])
    BY <1>2, <1>3, <1>4, <2>1, <2>4, <2>6 DEF SlotOk, PointsOf, Building
  <2>8. JobPages(j) = j.args /\ JobPages(J) = 1 + j.args
    BY <1>4, <2>2, <2>4, NoTableHeld DEF JobPages
  <2>9. free' \in Nat /\ free' + ProcPages(pr[p]) + JobPages(J) = free + ProcPages(pr[p]) + JobPages(j)
    BY <1>2, <1>4, <1>7, <2>5, <2>8
  <2>. QED  BY <1>1, <1>2, <1>3, <1>4, <1>5, <2>4, <2>5, <2>7, <2>9, OwnStep DEF Forking
<1>. QED  BY <1>6, <1>7

LEMMA MapHighStep ==
  ASSUME MInv, NEW p \in Slots, MapHigh(p)
  PROVE  MInv'
<1>1. PICK j, r : j = job[p] /\ r = mappages(j.pt, j.a, free)
  OBVIOUS
<1>2. /\ j \in Jobs /\ pr[p] \in Procs /\ SlotOk(j, pr[p]) /\ j.pt \in Tables
      /\ free \in Nat /\ j.a \in Nat /\ j.args \in Nat
  BY <1>1, Known DEF Jobs
<1>3. j.pc = "high" /\ j.a >= USYSCALL /\ pr' = pr
  BY <1>1 DEF MapHigh, In
<1>4. /\ pr[p].state = "RUNNING" /\ j.op \in {"fork", "exec"} /\ j.sz = 0
      /\ j.a \in {TRAMPOLINE, TRAPFRAME, USYSCALL, USYSCALL - 1}
      /\ j.pt.map = {va \in High : va > j.a}
      /\ j.a # TRAMPOLINE => Path(TRAMPOLINE) \subseteq j.pt.nodes
  BY <1>2, <1>3 DEF SlotOk, PointsOf, Building
<1>5. j.a \in {TRAMPOLINE, TRAPFRAME, USYSCALL} /\ j.a \in High /\ j.a \notin j.pt.map
  BY <1>3, <1>4, Sizes DEF High
<1>6. Path(j.a) = Path(TRAMPOLINE)
  BY <1>5, HighPath
<1>7. /\ r.free \in Nat /\ r.pt \in Tables
      /\ r.free + Cardinality(r.pt.nodes) = free + Cardinality(j.pt.nodes)
      /\ r.ok \in BOOLEAN
      /\ r.ok => r.pt.map = j.pt.map \cup {j.a} /\ Path(TRAMPOLINE) \subseteq r.pt.nodes
      /\ ~r.ok => r.pt.map = j.pt.map /\ j.a = TRAMPOLINE
      /\ r.panic \in BOOLEAN /\ ~r.panic
  BY <1>1, <1>2, <1>4, <1>5, <1>6, MapFacts
<1>8. /\ Cardinality(r.pt.nodes) \in Nat /\ Cardinality(j.pt.nodes) \in Nat
      /\ Cardinality(j.pt.map \ High) = 0
  <2>1. j.pt.map \ High = {}
    BY <1>4
  <2>2. Cardinality(j.pt.map \ High) = 0
    BY <2>1, FS_EmptySet
  <2>. QED  BY <1>2, <1>7, <2>2, HeldNat
<1>9. JobPages(j) = Cardinality(j.pt.nodes) + j.args /\ ProcPages(pr[p]) \in Nat
  <2>1. ProcPages(pr[p]) \in Nat
    BY <1>2, PageNumbers
  <2>2. Held(j.pt) = Cardinality(j.pt.nodes)
    BY <1>8 DEF Held
  <2>. QED  BY <2>1, <2>2 DEF JobPages
<1>10. pr' = [pr EXCEPT ![p] = pr[p]]
  BY <1>3 DEF MInv, TypeInv
<1>11. CASE r.ok
  <2>1. PICK n \in Nat : n = j.a - 1
    BY <1>5, Sizes
  <2>2. PICK J : J = [j EXCEPT !.pt = r.pt, !.a = n]
    OBVIOUS
  <2>3. J \in Jobs
    BY <1>2, <1>7, <2>2 DEF Jobs
  <2>4. /\ J.pc = "high" /\ J.op = j.op /\ J.sz = j.sz /\ J.pt = r.pt /\ J.a = n
        /\ J.kid = j.kid /\ J.args = j.args
    BY <1>2, <1>3, <2>2 DEF Jobs
  <2>5. job' = [job EXCEPT ![p] = J] /\ free' = r.free /\ mpanic' = r.panic
    BY <1>1, <1>11, <2>1, <2>2 DEF MapHigh, MInv, TypeInv
  <2>6. /\ r.pt.map = {va \in High : va > n}
        /\ n \in {TRAMPOLINE, TRAPFRAME, USYSCALL, USYSCALL - 1}
    <3>1. n \in {TRAPFRAME, USYSCALL, USYSCALL - 1}
      BY <1>5, <2>1, Sizes
    <3>2. r.pt.map = {va \in High : va > j.a} \cup {j.a}
      BY <1>4, <1>7, <1>11
    <3>3. {va \in High : va > j.a} \cup {j.a} = {va \in High : va > n}
      BY <1>5, <2>1, Sizes DEF High
    <3>. QED  BY <3>1, <3>2, <3>3
  <2>7. SlotOk(J, pr[p])
    BY <1>2, <1>3, <1>4, <1>7, <1>11, <2>4, <2>6 DEF SlotOk, PointsOf, Building
  <2>8. JobPages(J) = Cardinality(r.pt.nodes) + j.args
    <3>1. r.pt.map \ High = {}
      BY <2>6
    <3>2. Cardinality(r.pt.map \ High) = 0
      BY <3>1, FS_EmptySet
    <3>. QED  BY <1>2, <1>8, <2>4, <3>2 DEF JobPages, Held
  <2>9. free' \in Nat /\ free' + ProcPages(pr[p]) + JobPages(J) = free + ProcPages(pr[p]) + JobPages(j)
    <3>1. /\ r.free \in Nat
          /\ r.free + Cardinality(r.pt.nodes) = free + Cardinality(j.pt.nodes)
      BY <1>7
    <3>. QED  BY <1>2, <1>8, <1>9, <2>5, <2>8, <3>1
  <2>10. mpanic' = FALSE
    BY <1>7, <2>5
  <2>. QED  BY <1>1, <1>2, <1>3, <1>4, <1>10, <2>3, <2>4, <2>5, <2>7, <2>9, <2>10, OwnStep DEF Forking
<1>12. CASE ~r.ok
  <2>1. PICK t : t = uvmunmap(r.pt, {TRAMPOLINE})
    OBVIOUS
  <2>2. t.nodes = r.pt.nodes /\ t.map = {}
    <3>1. j.pt.map = {}
      BY <1>4, <1>7, <1>12, Sizes DEF High
    <3>. QED  BY <1>7, <1>12, <2>1, <3>1 DEF uvmunmap, Tables
  <2>3. PICK J : J = [j EXCEPT !.pt = NoTable, !.a = 0, !.pc = "bad"]
    OBVIOUS
  <2>4. /\ J \in Jobs /\ J.pc = "bad" /\ J.op = j.op /\ J.sz = j.sz /\ J.pt = NoTable
        /\ J.kid = j.kid /\ J.args = j.args
    BY <1>2, <2>3, NoTableHeld DEF Jobs
  <2>5. /\ job' = [job EXCEPT ![p] = J] /\ free' = r.free + Cardinality(t.nodes)
        /\ mpanic' = (t.map # {})
    BY <1>1, <1>12, <2>1, <2>3 DEF MapHigh, MInv, TypeInv
  <2>6. SlotOk(J, pr[p])
    BY <1>2, <1>3, <1>4, <2>4 DEF SlotOk, PointsOf, Building
  <2>7. JobPages(J) = j.args
    BY <1>2, <2>4, NoTableHeld DEF JobPages
  <2>8. free' \in Nat /\ free' + ProcPages(pr[p]) + JobPages(J) = free + ProcPages(pr[p]) + JobPages(j)
    <3>1. /\ r.free \in Nat /\ free' = r.free + Cardinality(r.pt.nodes)
          /\ r.free + Cardinality(r.pt.nodes) = free + Cardinality(j.pt.nodes)
      BY <1>7, <2>2, <2>5
    <3>. QED  BY <1>2, <1>8, <1>9, <2>7, <3>1
  <2>9. mpanic' = FALSE
    BY <2>2, <2>5
  <2>. QED  BY <1>1, <1>2, <1>3, <1>4, <1>10, <2>4, <2>5, <2>6, <2>8, <2>9, OwnStep DEF Forking
<1>. QED  BY <1>7, <1>11, <1>12

\* A step of p's call that takes and gives nothing.
LEMMA JobStep ==
  ASSUME MInv, NEW p \in Slots, NEW J \in Jobs, pr[p].state = "RUNNING",
         job' = [job EXCEPT ![p] = J], UNCHANGED <<free, pr, mpanic>>,
         J.pt = job[p].pt, J.args = job[p].args,
         SlotOk(J, pr[p]),
         J.op = "fork" => /\ Forking(p) /\ J.kid = job[p].kid
                          /\ J.pc \notin {"trapframe", "usyscall"}
  PROVE  MInv'
<1>1. pr' = [pr EXCEPT ![p] = pr[p]] /\ mpanic' = FALSE /\ free' \in Nat /\ pr[p] \in Procs
  BY DEF MInv, TypeInv
<1>2. JobPages(J) = JobPages(job[p])
  BY DEF JobPages
<1>3. free' + ProcPages(pr[p]) + JobPages(J) = free + ProcPages(pr[p]) + JobPages(job[p])
  BY <1>2
<1>. QED  BY <1>1, <1>3, OwnStep

LEMMA TableMadeStep ==
  ASSUME MInv, NEW p \in Slots, TableMade(p)
  PROVE  MInv'
<1>1. PICK j : j = job[p]
  OBVIOUS
<1>2. j \in Jobs /\ pr[p] \in Procs /\ SlotOk(j, pr[p])
  BY <1>1, Known
<1>3. j.pc = "high" /\ j.a < USYSCALL /\ UNCHANGED <<free, pr, mpanic>>
  BY <1>1 DEF TableMade, In
<1>4. /\ pr[p].state = "RUNNING" /\ j.op \in {"fork", "exec"} /\ j.sz = 0
      /\ j.a = USYSCALL - 1 /\ j.pt.map = {va \in High : va > j.a}
  BY <1>2, <1>3, Sizes DEF SlotOk, PointsOf, Building
<1>5. Whole(j.pt, 0)
  BY <1>4, Sizes DEF Whole, High, Pages
<1>6. PICK J : J = [j EXCEPT !.a = 0, !.pc = IF j.op = "fork" THEN "pages" ELSE "load",
                             !.goal = IF j.op = "fork" THEN pr[p].sz ELSE 0]
  OBVIOUS
<1>7. /\ J \in Jobs /\ J.pt = j.pt /\ J.a = 0 /\ J.op = j.op /\ J.sz = 0 /\ J.kid = j.kid
      /\ J.args = j.args
      /\ J.op = "fork" => J.pc = "pages" /\ J.goal = pr[p].sz
      /\ J.op # "fork" => J.pc = "load"
  BY <1>2, <1>4, <1>6 DEF Jobs, Procs
<1>8. job' = [job EXCEPT ![p] = J]
  BY <1>1, <1>6 DEF TableMade, MInv, TypeInv
<1>9. SlotOk(J, pr[p])
  <2>1. PGROUNDUP(0) = 0 /\ 0 <= 0
    BY RoundUp
  <2>2. CASE j.op = "fork"
    BY <1>2, <1>3, <1>4, <1>5, <1>7, <2>1, <2>2 DEF SlotOk, PointsOf, Building
  <2>3. CASE j.op = "exec"
    BY <1>2, <1>3, <1>4, <1>5, <1>7, <2>1, <2>3 DEF SlotOk, PointsOf, Building
  <2>. QED  BY <1>4, <2>2, <2>3
<1>. QED  BY <1>1, <1>3, <1>4, <1>7, <1>8, <1>9, JobStep DEF Forking

\* The slot that a fork() under way fills.
LEMMA KidKnown ==
  ASSUME MInv, NEW p \in Slots, job[p].op = "fork"
  PROVE  /\ job[p].kid \in Slots /\ KidOk(job[p], pr[job[p].kid]) /\ pr[job[p].kid] \in Procs
         /\ job[p].kid # p /\ pr[p].state = "RUNNING"
         /\ job[job[p].kid] = NoJob
         /\ \A q \in Slots \ {p} : Forking(q) => job[q].kid # job[p].kid
<1>1. job[p].kid \in Slots /\ KidOk(job[p], pr[job[p].kid]) /\ pr[job[p].kid] \in Procs
  BY DEF MInv, KidInv, Forking, TypeInv
<1>2. pr[p].state = "RUNNING"
  BY Known DEF SlotOk, NoJob
<1>3. job[job[p].kid] = NoJob
  BY <1>1, Known DEF SlotOk, KidOk
<1>4. \A q \in Slots \ {p} : Forking(q) => job[q].kid # job[p].kid
  BY DEF MInv, KidInv, Forking
<1>. QED  BY <1>1, <1>2, <1>3, <1>4 DEF KidOk

LEMMA NoJobFacts ==
  /\ NoJob \in Jobs /\ JobPages(NoJob) = 0 /\ NoJob.op = "none" /\ NoJob.pc = "none"
  /\ FreeSlot \in Procs /\ ProcPages(FreeSlot) = 0
<1>1. NoJob \in Jobs /\ FreeSlot \in Procs
  BY NoTableHeld DEF NoJob, FreeSlot, Jobs, Procs
<1>2. JobPages(NoJob) = 0 /\ ProcPages(FreeSlot) = 0
  BY NoTableHeld DEF JobPages, ProcPages, NoJob, FreeSlot, Bit
<1>. QED  BY <1>1, <1>2 DEF NoJob

\* A process that is in no call.
LEMMA IdleSlot ==
  ASSUME NEW r \in Procs, r.state = "UNUSED" => r = FreeSlot,
         r.state \in {"RUNNING", "ZOMBIE"} => Whole(r.pt, PGROUNDUP(r.sz))
  PROVE  SlotOk(NoJob, r)
  BY DEF SlotOk, PointsOf, Building, NoJob

LEMMA ForkSlotStep ==
  ASSUME MInv, NEW p \in Slots, NEW q \in Slots, ForkSlot(p, q)
  PROVE  MInv'
<1>1. /\ pr[p].state = "RUNNING" /\ job[p].pc = "none" /\ pr[q].state = "UNUSED" /\ p # q
      /\ UNCHANGED <<free, mpanic>>
  BY DEF ForkSlot, Idling, In
<1>2. /\ job[p] = NoJob /\ pr[q] = FreeSlot /\ job[q] = NoJob
      /\ pr[p] \in Procs /\ Whole(pr[p].pt, PGROUNDUP(pr[p].sz))
  BY <1>1, Known DEF SlotOk
<1>3. PICK J, R : /\ J = [NoJob EXCEPT !.op = "fork", !.pc = "trapframe", !.kid = q]
                  /\ R = [FreeSlot EXCEPT !.state = "USED"]
  OBVIOUS
<1>4. /\ J.op = "fork" /\ J.pc = "trapframe" /\ J.kid = q /\ J.pt = NoTable /\ J.args = 0 /\ J.sz = 0
      /\ R.state = "USED" /\ R.pt = NoTable /\ R.sz = 0 /\ ~R.trapframe /\ ~R.usyscall
      /\ R.trapframe = FALSE /\ R.usyscall = FALSE
  BY <1>3 DEF NoJob, FreeSlot
<1>5. J \in Jobs /\ R \in Procs
  BY <1>3, NoJobFacts DEF Jobs, Procs
<1>6. job' = [job EXCEPT ![p] = J] /\ pr' = [pr EXCEPT ![q] = R]
  BY <1>2, <1>3 DEF ForkSlot, MInv, TypeInv
<1>7. JobPages(J) = 0 /\ ProcPages(R) = 0 /\ JobPages(job[p]) = 0 /\ ProcPages(pr[q]) = 0
  BY <1>2, <1>4, NoTableHeld, NoJobFacts DEF JobPages, ProcPages, Bit
<1>8. SlotOk(J, pr[p])
  BY <1>1, <1>2, <1>4 DEF SlotOk, PointsOf, Building
<1>9. SlotOk(job[q], R)
  BY <1>2, <1>4, <1>5, IdleSlot
<1>10. \A s \in Slots \ {p} : Forking(s) => job[s].kid # q
  BY <1>1 DEF MInv, KidInv, KidOk
<1>11. KidOk(J, R)
  BY <1>4 DEF KidOk
<1>12. free' \in Nat /\ mpanic' = FALSE /\ free' + ProcPages(R) + JobPages(J) = free + ProcPages(pr[q]) + JobPages(job[p])
  BY <1>1, <1>7 DEF MInv, TypeInv
<1>. QED  BY <1>1, <1>4, <1>5, <1>6, <1>8, <1>9, <1>10, <1>11, <1>12, StepMInv

\* allocproc() gives up.
LEMMA ForkGivesUp ==
  ASSUME MInv, NEW p \in Slots, job[p].pc \in {"trapframe", "usyscall"},
         Goto(p, "bad"), UNCHANGED <<free, pr, mpanic>>
  PROVE  MInv'
<1>1. PICK j : j = job[p]
  OBVIOUS
<1>2. j \in Jobs /\ pr[p] \in Procs /\ SlotOk(j, pr[p])
  BY <1>1, Known
<1>3. pr[p].state = "RUNNING" /\ j.op = "fork" /\ j.pt = NoTable /\ j.sz = 0
  BY <1>1, <1>2 DEF SlotOk, PointsOf
<1>4. PICK J : J = [j EXCEPT !.pc = "bad"]
  OBVIOUS
<1>5. /\ J \in Jobs /\ J.pc = "bad" /\ J.op = j.op /\ J.sz = j.sz /\ J.pt = j.pt
      /\ J.kid = j.kid /\ J.args = j.args
  BY <1>2, <1>4 DEF Jobs
<1>6. job' = [job EXCEPT ![p] = J]
  BY <1>1, <1>4 DEF Goto
<1>7. SlotOk(J, pr[p])
  BY <1>1, <1>2, <1>3, <1>5 DEF SlotOk, PointsOf, Building
<1>. QED  BY <1>1, <1>3, <1>5, <1>6, <1>7, JobStep DEF Forking

\* allocproc() gets the trapframe or the usyscall page of the slot.
GotPage(p, k, J, R) ==
  /\ job[p].op = "fork" /\ job[p].kid = k /\ job[p].pt = NoTable
  /\ free # 0 /\ free' = free - 1 /\ mpanic' = mpanic
  /\ job' = [job EXCEPT ![p] = J] /\ pr' = [pr EXCEPT ![k] = R]
  /\ J.op = "fork" /\ J.pc \in {"usyscall", "pagetable"} /\ J.kid = k /\ J.pt = NoTable
  /\ J.args = job[p].args /\ J.sz = 0
  /\ R.state = "USED" /\ R.pt = NoTable /\ R.sz = 0 /\ KidOk(J, R)
  /\ ProcPages(R) = ProcPages(pr[k]) + 1

LEMMA ForkGets ==
  ASSUME MInv, NEW p \in Slots, NEW k, NEW J \in Jobs, NEW R \in Procs, GotPage(p, k, J, R)
  PROVE  MInv'
<1>1. /\ k \in Slots /\ k # p /\ pr[p].state = "RUNNING" /\ job[k] = NoJob
      /\ \A q \in Slots \ {p} : Forking(q) => job[q].kid # k
  BY KidKnown DEF GotPage
<1>2. SlotOk(job[p], pr[p]) /\ free \in Nat /\ pr[p] \in Procs /\ pr[k] \in Procs
  BY <1>1, Known
<1>3. SlotOk(J, pr[p])
  <2>1. pr[p].state \in {"RUNNING", "ZOMBIE"} /\ job[p].pc # "sbrk"
    BY <1>1, <1>2 DEF SlotOk, PointsOf, GotPage
  <2>. QED  BY <1>1, <1>2, <2>1 DEF SlotOk, PointsOf, Building, GotPage
<1>4. SlotOk(job[k], R)
  BY <1>1, IdleSlot DEF GotPage
<1>5. JobPages(J) = JobPages(job[p]) /\ ProcPages(pr[k]) \in Nat /\ JobPages(J) \in Nat
  BY <1>2, PageNumbers DEF JobPages, GotPage
<1>6. /\ free' \in Nat /\ free' = free - 1 /\ mpanic' = FALSE
      /\ job' = [job EXCEPT ![p] = J] /\ pr' = [pr EXCEPT ![k] = R]
  BY <1>2 DEF MInv, GotPage
<1>7. free' + ProcPages(R) + JobPages(J) = free + ProcPages(pr[k]) + JobPages(job[p])
  BY <1>2, <1>5, <1>6 DEF GotPage
<1>8. /\ J.kid \in Slots
      /\ J.kid = k /\ KidOk(J, R)
      /\ \A q \in Slots \ {p} : Forking(q) => job[q].kid # J.kid
  BY <1>1 DEF GotPage
<1>. QED  BY <1>1, <1>3, <1>4, <1>6, <1>7, <1>8, StepMInv

LEMMA ForkTrapframeStep ==
  ASSUME MInv, NEW p \in Slots, ForkTrapframe(p)
  PROVE  MInv'
<1>1. PICK j, k : j = job[p] /\ k = j.kid
  OBVIOUS
<1>2. j \in Jobs /\ SlotOk(j, pr[p]) /\ j.pc = "trapframe" /\ mpanic' = mpanic
  BY <1>1, Known DEF ForkTrapframe, In
<1>3. j.op = "fork" /\ j.pt = NoTable /\ j.sz = 0
  BY <1>2 DEF SlotOk, PointsOf
<1>4. k \in Slots /\ KidOk(j, pr[k]) /\ pr[k] \in Procs
  BY <1>1, <1>3, KidKnown
<1>5. CASE free = 0
  BY <1>1, <1>2, <1>5, ForkGivesUp DEF ForkTrapframe
<1>6. CASE free # 0
  <2>1. PICK J, R : /\ J = [j EXCEPT !.pc = "usyscall"]
                    /\ R = [pr[k] EXCEPT !.trapframe = TRUE]
    OBVIOUS
  <2>2. /\ J \in Jobs /\ J.op = "fork" /\ J.pc = "usyscall" /\ J.kid = k /\ J.pt = NoTable
        /\ J.sz = 0 /\ J.args = j.args
    BY <1>1, <1>2, <1>3, <2>1 DEF Jobs
  <2>3. /\ R \in Procs /\ R.state = pr[k].state /\ R.pt = pr[k].pt /\ R.sz = pr[k].sz
        /\ R.trapframe = TRUE /\ R.usyscall = pr[k].usyscall
    BY <1>4, <2>1 DEF Procs
  <2>4. /\ job' = [job EXCEPT ![p] = J] /\ pr' = [pr EXCEPT ![k] = R] /\ free' = free - 1
    BY <1>1, <1>6, <2>1 DEF ForkTrapframe, Goto
  <2>5. KidOk(J, R)
    BY <1>2, <1>4, <2>2, <2>3 DEF KidOk
  <2>6. ProcPages(R) = ProcPages(pr[k]) + 1
    <3>1. /\ pr[k].trapframe \in BOOLEAN /\ ~pr[k].trapframe /\ pr[k].usyscall \in BOOLEAN
          /\ pr[k].pt \in Tables
      BY <1>2, <1>4 DEF KidOk, Procs
    <3>2. Bit(pr[k].usyscall) \in Nat /\ Held(pr[k].pt) \in Nat
      BY <3>1, BitNat, HeldNat
    <3>3. Bit(R.trapframe) = 1 /\ Bit(pr[k].trapframe) = 0
      BY <2>3, <3>1 DEF Bit
    <3>4. /\ ProcPages(R) = 1 + Bit(pr[k].usyscall) + Held(pr[k].pt)
          /\ ProcPages(pr[k]) = Bit(pr[k].usyscall) + Held(pr[k].pt)
      BY <2>3, <3>2, <3>3 DEF ProcPages
    <3>. QED  BY <3>2, <3>4
  <2>7. R.state = "USED" /\ R.pt = NoTable /\ R.sz = 0
    BY <1>4, <2>3 DEF KidOk
  <2>8. GotPage(p, k, J, R)
    BY <1>1, <1>2, <1>3, <1>6, <2>2, <2>4, <2>5, <2>6, <2>7 DEF GotPage
  <2>. QED  BY <2>2, <2>3, <2>8, ForkGets
<1>. QED  BY <1>5, <1>6

LEMMA ForkUsyscallStep ==
  ASSUME MInv, NEW p \in Slots, ForkUsyscall(p)
  PROVE  MInv'
<1>1. PICK j, k : j = job[p] /\ k = j.kid
  OBVIOUS
<1>2. j \in Jobs /\ SlotOk(j, pr[p]) /\ j.pc = "usyscall" /\ mpanic' = mpanic
  BY <1>1, Known DEF ForkUsyscall, In
<1>3. j.op = "fork" /\ j.pt = NoTable /\ j.sz = 0
  BY <1>2 DEF SlotOk, PointsOf
<1>4. k \in Slots /\ KidOk(j, pr[k]) /\ pr[k] \in Procs
  BY <1>1, <1>3, KidKnown
<1>5. CASE free = 0
  BY <1>1, <1>2, <1>5, ForkGivesUp DEF ForkUsyscall
<1>6. CASE free # 0
  <2>1. PICK J, R : /\ J = [j EXCEPT !.pc = "pagetable"]
                    /\ R = [pr[k] EXCEPT !.usyscall = TRUE]
    OBVIOUS
  <2>2. /\ J \in Jobs /\ J.op = "fork" /\ J.pc = "pagetable" /\ J.kid = k /\ J.pt = NoTable
        /\ J.sz = 0 /\ J.args = j.args
    BY <1>1, <1>2, <1>3, <2>1 DEF Jobs
  <2>3. /\ R \in Procs /\ R.state = pr[k].state /\ R.pt = pr[k].pt /\ R.sz = pr[k].sz
        /\ R.usyscall = TRUE /\ R.trapframe = pr[k].trapframe
    BY <1>4, <2>1 DEF Procs
  <2>4. /\ job' = [job EXCEPT ![p] = J] /\ pr' = [pr EXCEPT ![k] = R] /\ free' = free - 1
    BY <1>1, <1>6, <2>1 DEF ForkUsyscall, Goto
  <2>5. KidOk(J, R)
    BY <1>2, <1>4, <2>2, <2>3 DEF KidOk
  <2>6. ProcPages(R) = ProcPages(pr[k]) + 1
    <3>1. /\ pr[k].usyscall \in BOOLEAN /\ ~pr[k].usyscall /\ pr[k].trapframe \in BOOLEAN
          /\ pr[k].pt \in Tables
      BY <1>2, <1>4 DEF KidOk, Procs
    <3>2. Bit(pr[k].trapframe) \in Nat /\ Held(pr[k].pt) \in Nat
      BY <3>1, BitNat, HeldNat
    <3>3. Bit(R.usyscall) = 1 /\ Bit(pr[k].usyscall) = 0
      BY <2>3, <3>1 DEF Bit
    <3>4. /\ ProcPages(R) = 1 + Bit(pr[k].trapframe) + Held(pr[k].pt)
          /\ ProcPages(pr[k]) = Bit(pr[k].trapframe) + Held(pr[k].pt)
      BY <2>3, <3>2, <3>3 DEF ProcPages
    <3>. QED  BY <3>2, <3>4
  <2>7. R.state = "USED" /\ R.pt = NoTable /\ R.sz = 0
    BY <1>4, <2>3 DEF KidOk
  <2>8. GotPage(p, k, J, R)
    BY <1>1, <1>2, <1>3, <1>6, <2>2, <2>4, <2>5, <2>6, <2>7 DEF GotPage
  <2>. QED  BY <2>2, <2>3, <2>8, ForkGets
<1>. QED  BY <1>5, <1>6

LEMMA ForkDoneStep ==
  ASSUME MInv, NEW p \in Slots, ForkDone(p)
  PROVE  MInv'
<1>1. PICK j, k : j = job[p] /\ k = j.kid
  OBVIOUS
<1>2. /\ j \in Jobs /\ SlotOk(j, pr[p]) /\ j.pc = "pages" /\ j.op = "fork" /\ j.a = PGROUNDUP(j.goal)
      /\ UNCHANGED <<free, mpanic>> /\ pr[p] \in Procs /\ j.pt \in Tables /\ free \in Nat
  BY <1>1, Known DEF ForkDone, In
<1>3. /\ k \in Slots /\ KidOk(j, pr[k]) /\ pr[k] \in Procs /\ k # p /\ pr[p].state = "RUNNING"
      /\ job[k] = NoJob /\ \A q \in Slots \ {p} : Forking(q) => job[q].kid # k
  BY <1>1, <1>2, KidKnown
<1>4. Whole(j.pt, PGROUNDUP(pr[p].sz)) /\ Whole(pr[p].pt, PGROUNDUP(pr[p].sz))
  BY <1>2, <1>3 DEF SlotOk, Building
<1>5. PICK R : R = [pr[k] EXCEPT !.pt = j.pt, !.sz = pr[p].sz, !.state = "RUNNING"]
  OBVIOUS
<1>6. /\ R \in Procs /\ R.pt = j.pt /\ R.sz = pr[p].sz /\ R.state = "RUNNING"
      /\ R.trapframe = pr[k].trapframe /\ R.usyscall = pr[k].usyscall
  BY <1>2, <1>3, <1>5 DEF Procs
<1>7. job' = [job EXCEPT ![p] = NoJob] /\ pr' = [pr EXCEPT ![k] = R]
  BY <1>1, <1>3, <1>5 DEF ForkDone, MInv, TypeInv
<1>8. SlotOk(job[k], R) /\ SlotOk(NoJob, pr[p])
  BY <1>2, <1>3, <1>4, <1>6, IdleSlot
<1>9. ProcPages(R) + JobPages(NoJob) = ProcPages(pr[k]) + JobPages(j)
  <2>1. j.args = 0
    BY <1>2 DEF SlotOk, PointsOf
  <2>2. /\ pr[k].trapframe \in BOOLEAN /\ pr[k].usyscall \in BOOLEAN /\ pr[k].pt = NoTable
    BY <1>3 DEF KidOk, Procs
  <2>3. Bit(pr[k].trapframe) \in Nat /\ Bit(pr[k].usyscall) \in Nat /\ Held(j.pt) \in Nat
    BY <1>2, <2>2, BitNat, HeldNat
  <2>4. /\ ProcPages(R) = Bit(pr[k].trapframe) + Bit(pr[k].usyscall) + Held(j.pt)
        /\ ProcPages(pr[k]) = Bit(pr[k].trapframe) + Bit(pr[k].usyscall) + 0
        /\ JobPages(j) = Held(j.pt) + 0
    BY <1>6, <2>1, <2>2, NoTableHeld DEF ProcPages, JobPages
  <2>. QED  BY <2>3, <2>4, NoJobFacts
<1>10. free' \in Nat /\ mpanic' = FALSE
       /\ free' + ProcPages(R) + JobPages(NoJob) = free + ProcPages(pr[k]) + JobPages(job[p])
  <2>1. ProcPages(R) \in Nat /\ ProcPages(pr[k]) \in Nat /\ JobPages(j) \in Nat /\ JobPages(NoJob) \in Nat
    BY <1>2, <1>3, <1>6, NoJobFacts, PageNumbers
  <2>. QED  BY <1>1, <1>2, <1>9, <2>1 DEF MInv
<1>11. k # p /\ SlotOk(NoJob, pr[p]) /\ (k # p => SlotOk(job[k], R))
  BY <1>3, <1>8
<1>. QED  BY <1>3, <1>6, <1>7, <1>10, <1>11, NoJobFacts, StepMInv

LEMMA ForkFailStep ==
  ASSUME MInv, NEW p \in Slots, ForkFail(p)
  PROVE  MInv'
<1>1. PICK j, k : j = job[p] /\ k = j.kid
  OBVIOUS
<1>2. /\ j \in Jobs /\ SlotOk(j, pr[p]) /\ j.pc = "bad" /\ j.op = "fork"
      /\ pr[p] \in Procs /\ j.pt \in Tables /\ free \in Nat /\ Held(j.pt) <= NPAGES
  BY <1>1, Known DEF ForkFail, In
<1>3. /\ k \in Slots /\ KidOk(j, pr[k]) /\ pr[k] \in Procs /\ k # p /\ pr[p].state = "RUNNING"
      /\ job[k] = NoJob /\ \A q \in Slots \ {p} : Forking(q) => job[q].kid # k
  BY <1>1, <1>2, KidKnown
<1>4. (j.pt = NoTable \/ Whole(j.pt, PGROUNDUP(0))) /\ j.sz = 0
  BY <1>2, <1>3 DEF SlotOk, PointsOf, Building
<1>5. PICK r : r = [pr[k] EXCEPT !.pt = j.pt]
  OBVIOUS
<1>6. /\ r \in Procs /\ r.pt = j.pt /\ r.sz = 0
      /\ r.trapframe = pr[k].trapframe /\ r.usyscall = pr[k].usyscall
  BY <1>2, <1>3, <1>5 DEF Procs, KidOk
<1>7. /\ free' = free + FreedByProc(r) /\ mpanic' = BadProc(r)
      /\ job' = [job EXCEPT ![p] = NoJob] /\ pr' = [pr EXCEPT ![k] = FreeSlot]
  BY <1>1, <1>5 DEF ForkFail
<1>8. FreedByProc(r) = ProcPages(r) /\ ~BadProc(r)
  BY <1>2, <1>4, <1>6, FreedIsHeld
<1>9. SlotOk(job[k], FreeSlot) /\ SlotOk(NoJob, pr[p])
  <2>1. SlotOk(NoJob, FreeSlot)
    BY NoJobFacts, IdleSlot DEF FreeSlot
  <2>2. Whole(pr[p].pt, PGROUNDUP(pr[p].sz))
    BY <1>2, <1>3 DEF SlotOk
  <2>. QED  BY <1>2, <1>3, <2>1, <2>2, IdleSlot
<1>10. free' \in Nat /\ free' + ProcPages(FreeSlot) + JobPages(NoJob) = free + ProcPages(pr[k]) + JobPages(j)
  <2>1. j.args = 0
    BY <1>2 DEF SlotOk, PointsOf
  <2>2. /\ pr[k].trapframe \in BOOLEAN /\ pr[k].usyscall \in BOOLEAN /\ pr[k].pt = NoTable
    BY <1>3 DEF KidOk, Procs
  <2>3. Bit(pr[k].trapframe) \in Nat /\ Bit(pr[k].usyscall) \in Nat /\ Held(j.pt) \in Nat
    BY <1>2, <2>2, BitNat, HeldNat
  <2>4. /\ ProcPages(r) = Bit(pr[k].trapframe) + Bit(pr[k].usyscall) + Held(j.pt)
        /\ ProcPages(pr[k]) = Bit(pr[k].trapframe) + Bit(pr[k].usyscall) + 0
        /\ JobPages(j) = Held(j.pt) + 0
    BY <1>6, <2>1, <2>2, NoTableHeld DEF ProcPages, JobPages
  <2>. QED  BY <1>2, <1>7, <1>8, <2>3, <2>4, NoJobFacts
<1>11. mpanic' = FALSE
  BY <1>7, <1>8
<1>12. free' + ProcPages(FreeSlot) + JobPages(NoJob) = free + ProcPages(pr[k]) + JobPages(job[p])
  BY <1>1, <1>10
<1>13. k # p /\ SlotOk(NoJob, pr[p]) /\ (k # p => SlotOk(job[k], FreeSlot))
  BY <1>3, <1>9
<1>. QED  BY <1>3, <1>7, <1>10, <1>11, <1>12, <1>13, NoJobFacts, StepMInv

LEMMA ExecStartStep ==
  ASSUME MInv, NEW p \in Slots, ExecStart(p)
  PROVE  MInv'
<1>1. PICK image \in Images :
        /\ pr[p].state = "RUNNING" /\ job[p].pc = "none" /\ free > 0 /\ free' = free - 1
        /\ job' = [job EXCEPT ![p].op = "exec", ![p].pc = "pagetable", ![p].segs = image, ![p].args = 1]
        /\ pr' = pr /\ mpanic' = mpanic
  BY DEF ExecStart, Idling, In
<1>2. job[p] = NoJob /\ pr[p] \in Procs /\ Whole(pr[p].pt, PGROUNDUP(pr[p].sz)) /\ free \in Nat
  BY <1>1, Known DEF SlotOk
<1>3. PICK J : J = [NoJob EXCEPT !.op = "exec", !.pc = "pagetable", !.segs = image, !.args = 1]
  OBVIOUS
<1>4. /\ J.op = "exec" /\ J.pc = "pagetable" /\ J.pt = NoTable /\ J.sz = 0 /\ J.args = 1
  BY <1>3 DEF NoJob
<1>5. J \in Jobs
  <2>1. image \in Seq(Nat \ {0})
    BY MemAssumption
  <2>. QED  BY <1>3, <2>1, NoJobFacts DEF Jobs
<1>6. job' = [job EXCEPT ![p] = J] /\ pr' = [pr EXCEPT ![p] = pr[p]]
  BY <1>1, <1>2, <1>3 DEF MInv, TypeInv
<1>7. SlotOk(J, pr[p])
  BY <1>1, <1>2, <1>4 DEF SlotOk, PointsOf, Building
<1>8. JobPages(J) = 1 /\ JobPages(job[p]) = 0 /\ ProcPages(pr[p]) \in Nat
  BY <1>2, <1>4, <1>5, NoTableHeld, NoJobFacts, PageNumbers DEF JobPages
<1>9. free' \in Nat /\ free' + ProcPages(pr[p]) + JobPages(J) = free + ProcPages(pr[p]) + JobPages(job[p])
  BY <1>1, <1>2, <1>8
<1>10. mpanic' = FALSE /\ J.op # "fork"
  BY <1>1, <1>4 DEF MInv
<1>. QED  BY <1>1, <1>2, <1>5, <1>6, <1>7, <1>9, <1>10, OwnStep

LEMMA ExecSegmentStep ==
  ASSUME MInv, NEW p \in Slots, ExecSegment(p)
  PROVE  MInv'
<1>1. PICK j : j = job[p]
  OBVIOUS
<1>2. j \in Jobs /\ pr[p] \in Procs /\ SlotOk(j, pr[p])
  BY <1>1, Known
<1>3. j.pc = "load" /\ j.segs # <<>> /\ UNCHANGED <<free, pr, mpanic>>
  BY <1>1 DEF ExecSegment, In
<1>4. /\ pr[p].state = "RUNNING" /\ j.op = "exec" /\ Whole(j.pt, PGROUNDUP(j.sz))
      /\ PGROUNDUP(j.sz) \in Nat
  <2>1. j.sz \in Nat
    BY <1>2 DEF Jobs
  <2>. QED  BY <1>2, <1>3, <2>1, RoundUp DEF SlotOk, PointsOf, Building
<1>5. PICK a, head, tail : a = PGROUNDUP(j.sz) /\ head = Head(j.segs) /\ tail = Tail(j.segs)
  OBVIOUS
<1>6. a \in Nat /\ head \in Nat /\ tail \in Seq(Nat \ {0})
  <2>1. j.segs \in Seq(Nat \ {0})
    BY <1>2 DEF Jobs
  <2>. QED  BY <1>3, <1>4, <1>5, <2>1
<1>7. PICK J : J = [j EXCEPT !.goal = head, !.segs = tail, !.pc = "pages", !.a = a]
  OBVIOUS
<1>8. /\ J \in Jobs /\ J.pt = j.pt /\ J.pc = "pages" /\ J.op = j.op /\ J.sz = j.sz
      /\ J.a = a /\ J.args = j.args
  BY <1>2, <1>6, <1>7 DEF Jobs
<1>9. job' = [job EXCEPT ![p] = J]
  BY <1>1, <1>5, <1>7 DEF ExecSegment, MInv, TypeInv
<1>10. Whole(J.pt, J.a) /\ PGROUNDUP(J.sz) <= J.a /\ J.a = PGROUNDUP(J.sz)
  BY <1>4, <1>5, <1>6, <1>8
<1>11. SlotOk(J, pr[p])
  BY <1>2, <1>3, <1>4, <1>8, <1>10 DEF SlotOk, PointsOf, Building
<1>. QED  BY <1>1, <1>3, <1>4, <1>8, <1>9, <1>11, JobStep

LEMMA ExecStackStep ==
  ASSUME MInv, NEW p \in Slots, ExecStack(p)
  PROVE  MInv'
<1>1. PICK j, top : j = job[p] /\ top = PGROUNDUP(j.sz)
  OBVIOUS
<1>2. j \in Jobs /\ pr[p] \in Procs /\ SlotOk(j, pr[p])
  BY <1>1, Known
<1>3. j.pc = "load" /\ UNCHANGED <<free, pr, mpanic>>
  BY <1>1 DEF ExecStack, In
<1>4. pr[p].state = "RUNNING" /\ j.op = "exec" /\ Whole(j.pt, top) /\ top \in Nat
  <2>1. j.sz \in Nat
    BY <1>2 DEF Jobs
  <2>. QED  BY <1>1, <1>2, <1>3, <2>1, RoundUp DEF SlotOk, PointsOf, Building
<1>5. PICK sz \in Nat, goal \in Nat : sz = 2 * top /\ goal = 2 * top + 4
  BY <1>4
<1>6. PICK J : J = [j EXCEPT !.sz = sz, !.goal = goal, !.a = top, !.pc = "pages", !.op = "execstack"]
  OBVIOUS
<1>7. /\ J \in Jobs /\ J.pt = j.pt /\ J.pc = "pages" /\ J.op = "execstack" /\ J.sz = sz
      /\ J.a = top /\ J.args = j.args
  BY <1>2, <1>4, <1>6 DEF Jobs
<1>8. job' = [job EXCEPT ![p] = J]
  BY <1>1, <1>5, <1>6 DEF ExecStack, MInv, TypeInv
<1>9. PGROUNDUP(J.sz) = J.a /\ PGROUNDUP(J.sz) <= J.a
  <2>1. PGROUNDUP(2 * top) = top
    BY <1>4, RoundUp
  <2>2. PGROUNDUP(J.sz) = top
    BY <1>5, <1>7, <2>1
  <2>. QED  BY <1>4, <1>7, <2>2
<1>10. SlotOk(J, pr[p])
  BY <1>2, <1>3, <1>4, <1>7, <1>9 DEF SlotOk, PointsOf, Building
<1>. QED  BY <1>1, <1>3, <1>4, <1>7, <1>8, <1>10, JobStep

LEMMA ExecGrownStep ==
  ASSUME MInv, NEW p \in Slots, ExecGrown(p)
  PROVE  MInv'
<1>1. PICK j : j = job[p]
  OBVIOUS
<1>2. j \in Jobs /\ pr[p] \in Procs /\ SlotOk(j, pr[p]) /\ j.sz \in Nat /\ j.goal \in Nat /\ j.a \in Nat
  BY <1>1, Known DEF Jobs
<1>3. /\ j.pc = "pages" /\ j.op # "fork" /\ j.a >= PGROUNDUP(j.goal)
      /\ UNCHANGED <<free, pr, mpanic>>
  BY <1>1 DEF ExecGrown, In
<1>4. /\ pr[p].state = "RUNNING" /\ j.op \in {"exec", "execstack"} /\ Whole(j.pt, j.a)
      /\ PGROUNDUP(j.sz) <= j.a /\ (j.a = PGROUNDUP(j.sz) \/ j.a <= PGROUNDUP(j.goal))
  BY <1>2, <1>3 DEF SlotOk, PointsOf, Building
<1>5. PICK n : n = IF j.goal < j.sz THEN j.sz ELSE j.goal
  OBVIOUS
<1>6. n \in Nat /\ PGROUNDUP(n) = j.a
  <2>1. PGROUNDUP(j.sz) \in Nat /\ PGROUNDUP(j.goal) \in Nat
    BY <1>2, RoundUp
  <2>2. CASE j.goal < j.sz
    <3>1. j.goal <= j.sz
      BY <1>2, <2>2
    <3>2. PGROUNDUP(j.goal) <= PGROUNDUP(j.sz)
      BY <1>2, <3>1, RoundUp
    <3>3. PICK x \in Nat, y \in Nat : x = PGROUNDUP(j.sz) /\ y = PGROUNDUP(j.goal) /\ y <= x
      BY <2>1, <3>2
    <3>4. x = j.a
      BY <1>2, <1>3, <1>4, <3>3
    <3>5. n = j.sz
      BY <1>5, <2>2
    <3>. QED  BY <1>2, <3>3, <3>4, <3>5
  <2>3. CASE j.sz <= j.goal
    <3>1. PICK x \in Nat, y \in Nat : x = PGROUNDUP(j.sz) /\ y = PGROUNDUP(j.goal) /\ x <= y
      BY <1>2, <2>1, <2>3, RoundUp
    <3>2. y = j.a
      BY <1>2, <1>3, <1>4, <3>1
    <3>3. n = j.goal
      BY <1>2, <1>5, <2>3
    <3>. QED  BY <1>2, <3>1, <3>2, <3>3
  <2>. QED  BY <1>2, <2>2, <2>3
<1>7. PICK c : c = IF j.op = "exec" THEN "load" ELSE "commit"
  OBVIOUS
<1>8. PICK J : J = [j EXCEPT !.sz = n, !.pc = c]
  OBVIOUS
<1>9. /\ J \in Jobs /\ J.pt = j.pt /\ J.pc = c /\ J.op = j.op /\ J.sz = n /\ J.args = j.args
  BY <1>2, <1>6, <1>7, <1>8 DEF Jobs
<1>10. job' = [job EXCEPT ![p] = J]
  BY <1>1, <1>5, <1>7, <1>8 DEF ExecGrown, MInv, TypeInv
<1>11. Whole(J.pt, PGROUNDUP(J.sz))
  BY <1>4, <1>6, <1>9
<1>12. (c = "load" /\ j.op = "exec") \/ (c = "commit" /\ j.op = "execstack")
  BY <1>4, <1>7
<1>13. SlotOk(J, pr[p])
  BY <1>2, <1>3, <1>4, <1>9, <1>11, <1>12 DEF SlotOk, PointsOf, Building
<1>14. J.op # "fork"
  BY <1>4, <1>9
<1>. QED  BY <1>1, <1>3, <1>4, <1>9, <1>10, <1>13, <1>14, JobStep

LEMMA ExecBadStep ==
  ASSUME MInv, NEW p \in Slots, ExecBad(p)
  PROVE  MInv'
<1>1. PICK j : j = job[p]
  OBVIOUS
<1>2. j \in Jobs /\ pr[p] \in Procs /\ SlotOk(j, pr[p])
  BY <1>1, Known
<1>3. /\ j.pc \in {"pagetable", "load", "commit"} /\ j.op \in {"exec", "execstack"}
      /\ UNCHANGED <<free, pr, mpanic>>
  BY <1>1 DEF ExecBad, In
<1>4. /\ pr[p].state = "RUNNING"
      /\ j.pt = NoTable \/ Whole(j.pt, PGROUNDUP(j.sz))
  BY <1>2, <1>3 DEF SlotOk, PointsOf, Building
<1>5. PICK J : J = [j EXCEPT !.pc = "bad"]
  OBVIOUS
<1>6. J \in Jobs /\ J.pt = j.pt /\ J.pc = "bad" /\ J.op = j.op /\ J.sz = j.sz /\ J.args = j.args
  BY <1>2, <1>5 DEF Jobs
<1>7. job' = [job EXCEPT ![p] = J]
  BY <1>1, <1>5 DEF ExecBad, Goto
<1>8. SlotOk(J, pr[p])
  BY <1>2, <1>3, <1>4, <1>6 DEF SlotOk, PointsOf, Building
<1>. QED  BY <1>1, <1>3, <1>4, <1>6, <1>7, <1>8, JobStep

\* The new image takes the place of the old one, which goes back with the argument page.
LEMMA ExecCommitStep ==
  ASSUME MInv, NEW p \in Slots, ExecCommit(p)
  PROVE  MInv'
<1>1. PICK j, r : j = job[p] /\ r = pr[p]
  OBVIOUS
<1>2. /\ j \in Jobs /\ r \in Procs /\ SlotOk(j, r) /\ j.pt \in Tables /\ r.pt \in Tables
      /\ free \in Nat /\ Held(r.pt) <= NPAGES /\ j.sz \in Nat /\ r.sz \in Nat /\ j.args \in Nat
  BY <1>1, Known DEF Jobs, Procs
<1>3. /\ j.pc = "commit" /\ free' = free + Given(r.pt, r.sz) + j.args /\ mpanic' = BadTable(r.pt, r.sz)
  BY <1>1 DEF ExecCommit, In
<1>4. r.state = "RUNNING" /\ Whole(j.pt, PGROUNDUP(j.sz)) /\ Whole(r.pt, PGROUNDUP(r.sz))
  BY <1>2, <1>3 DEF SlotOk, Building
<1>5. Given(r.pt, r.sz) = Held(r.pt) /\ ~BadTable(r.pt, r.sz)
  BY <1>2, <1>4, GivenIsHeld
<1>6. PICK R : R = [r EXCEPT !.pt = j.pt, !.sz = j.sz]
  OBVIOUS
<1>7. /\ R \in Procs /\ R.pt = j.pt /\ R.sz = j.sz /\ R.state = "RUNNING"
      /\ R.trapframe = r.trapframe /\ R.usyscall = r.usyscall
  BY <1>2, <1>4, <1>6 DEF Procs
<1>8. job' = [job EXCEPT ![p] = NoJob] /\ pr' = [pr EXCEPT ![p] = R]
  BY <1>1, <1>6 DEF ExecCommit, MInv, TypeInv
<1>9. SlotOk(NoJob, R)
  BY <1>4, <1>7, IdleSlot
<1>10. PICK bits \in Nat : bits = Bit(r.trapframe) + Bit(r.usyscall)
  <2>1. r.trapframe \in BOOLEAN /\ r.usyscall \in BOOLEAN
    BY <1>2 DEF Procs
  <2>2. Bit(r.trapframe) \in Nat /\ Bit(r.usyscall) \in Nat
    BY <2>1, BitNat
  <2>. QED  BY <2>2
<1>11. /\ ProcPages(r) = bits + Held(r.pt) /\ ProcPages(R) = bits + Held(j.pt)
       /\ JobPages(j) = Held(j.pt) + j.args /\ JobPages(NoJob) = 0
  BY <1>7, <1>10, NoJobFacts DEF ProcPages, JobPages
<1>12. Held(r.pt) \in Nat /\ Held(j.pt) \in Nat
  BY <1>2, HeldNat
<1>13. free' \in Nat /\ free' = free + Held(r.pt) + j.args
  BY <1>2, <1>3, <1>5, <1>12
<1>14. free' + ProcPages(R) + JobPages(NoJob) = free + ProcPages(pr[p]) + JobPages(job[p])
  BY <1>1, <1>2, <1>11, <1>12, <1>13
<1>15. mpanic' = FALSE
  BY <1>3, <1>5
<1>16. pr[p].state \in {"RUNNING", "ZOMBIE"}
  BY <1>1, <1>4
<1>. QED  BY <1>7, <1>8, <1>9, <1>13, <1>14, <1>15, <1>16, NoJobFacts, OwnStep

LEMMA ExecFailStep ==
  ASSUME MInv, NEW p \in Slots, ExecFail(p)
  PROVE  MInv'
<1>1. PICK j : j = job[p]
  OBVIOUS
<1>2. /\ j \in Jobs /\ pr[p] \in Procs /\ SlotOk(j, pr[p]) /\ j.pt \in Tables
      /\ free \in Nat /\ Held(j.pt) <= NPAGES /\ j.sz \in Nat /\ j.args \in Nat
  BY <1>1, Known DEF Jobs
<1>3. /\ j.pc = "bad" /\ j.op \in {"exec", "execstack"} /\ pr' = pr
      /\ free' = free + j.args + (IF j.pt = NoTable THEN 0 ELSE Given(j.pt, j.sz))
      /\ mpanic' = (j.pt # NoTable /\ BadTable(j.pt, j.sz))
      /\ job' = [job EXCEPT ![p] = NoJob]
  BY <1>1 DEF ExecFail, In
<1>4. /\ pr[p].state = "RUNNING" /\ Whole(pr[p].pt, PGROUNDUP(pr[p].sz))
      /\ j.pt = NoTable \/ Whole(j.pt, PGROUNDUP(j.sz))
  BY <1>2, <1>3 DEF SlotOk, Building
<1>5. (IF j.pt = NoTable THEN 0 ELSE Given(j.pt, j.sz)) = Held(j.pt) /\ mpanic' = FALSE
  <2>1. CASE j.pt = NoTable
    BY <1>3, <2>1, NoTableHeld
  <2>2. CASE j.pt # NoTable
    <3>1. Given(j.pt, j.sz) = Held(j.pt) /\ ~BadTable(j.pt, j.sz)
      BY <1>2, <1>4, <2>2, GivenIsHeld
    <3>. QED  BY <1>3, <2>2, <3>1
  <2>. QED  BY <2>1, <2>2
<1>6. /\ Held(j.pt) \in Nat /\ ProcPages(pr[p]) \in Nat /\ JobPages(j) = Held(j.pt) + j.args
      /\ JobPages(NoJob) = 0
  BY <1>2, HeldNat, PageNumbers, NoJobFacts DEF JobPages
<1>7. free' \in Nat /\ free' = free + j.args + Held(j.pt)
  BY <1>2, <1>3, <1>5, <1>6
<1>8. free' + ProcPages(pr[p]) + JobPages(NoJob) = free + ProcPages(pr[p]) + JobPages(job[p])
  BY <1>1, <1>2, <1>6, <1>7
<1>9. SlotOk(NoJob, pr[p])
  BY <1>2, <1>4, IdleSlot
<1>10. pr' = [pr EXCEPT ![p] = pr[p]] /\ pr[p].state \in {"RUNNING", "ZOMBIE"}
  BY <1>3, <1>4 DEF MInv, TypeInv
<1>. QED  BY <1>2, <1>3, <1>5, <1>7, <1>8, <1>9, <1>10, NoJobFacts, OwnStep

-----------------------------------------------------------------------------
(* Steps of sbrk(), exit() and wait() *)

LEMMA SbrkStartStep ==
  ASSUME MInv, NEW p \in Slots, SbrkStart(p)
  PROVE  MInv'
<1>1. PICK n \in Steps :
        /\ pr[p].state = "RUNNING" /\ job[p].pc = "none" /\ n > 0
        /\ job' = [job EXCEPT ![p].op = "sbrk", ![p].pc = "sbrk", ![p].goal = pr[p].sz + n,
                              ![p].a = PGROUNDUP(pr[p].sz)]
        /\ UNCHANGED <<free, pr, mpanic>>
  BY DEF SbrkStart, Idling, In
<1>2. /\ job[p] = NoJob /\ pr[p] \in Procs /\ Whole(pr[p].pt, PGROUNDUP(pr[p].sz))
      /\ pr[p].sz \in Nat
  BY <1>1, Known DEF SlotOk, Procs
<1>3. PICK a \in Nat, goal \in Nat :
        a = PGROUNDUP(pr[p].sz) /\ goal = pr[p].sz + n /\ a <= PGROUNDUP(goal)
  <2>1. n \in Int
    BY MemAssumption
  <2>2. PICK goal \in Nat : goal = pr[p].sz + n /\ pr[p].sz <= goal
    BY <1>1, <1>2, <2>1
  <2>3. PGROUNDUP(pr[p].sz) \in Nat /\ PGROUNDUP(pr[p].sz) <= PGROUNDUP(goal)
    BY <1>2, <2>2, RoundUp
  <2>4. PICK a \in Nat : a = PGROUNDUP(pr[p].sz)
    BY <2>3
  <2>5. a <= PGROUNDUP(goal)
    BY <2>3, <2>4
  <2>. QED  BY <2>2, <2>4, <2>5
<1>4. PICK J : J = [NoJob EXCEPT !.op = "sbrk", !.pc = "sbrk", !.goal = goal, !.a = a]
  OBVIOUS
<1>5. /\ J \in Jobs /\ J.op = "sbrk" /\ J.pc = "sbrk" /\ J.goal = goal /\ J.a = a
      /\ J.pt = NoTable /\ J.args = 0
  BY <1>4, NoJobFacts DEF Jobs, NoJob
<1>6. job' = [job EXCEPT ![p] = J]
  BY <1>1, <1>2, <1>3, <1>4 DEF MInv, TypeInv
<1>7. Whole(pr[p].pt, J.a) /\ PGROUNDUP(pr[p].sz) <= J.a /\ J.a <= PGROUNDUP(J.goal)
  BY <1>2, <1>3, <1>5
<1>8. SlotOk(J, pr[p])
  BY <1>1, <1>5, <1>7 DEF SlotOk, PointsOf, Building
<1>9. J.pt = job[p].pt /\ J.args = job[p].args
  BY <1>2, <1>5 DEF NoJob
<1>. QED  BY <1>1, <1>5, <1>6, <1>8, <1>9, JobStep

\* What is known of a process in sbrk().
LEMMA InSbrk ==
  ASSUME MInv, NEW p \in Slots, job[p].pc = "sbrk"
  PROVE  /\ job[p].op = "sbrk" /\ job[p].pt = NoTable /\ job[p].args = 0 /\ JobPages(job[p]) = 0
         /\ pr[p].state = "RUNNING" /\ pr[p] \in Procs /\ pr[p].pt \in Tables /\ pr[p].sz \in Nat
         /\ job[p].a \in Nat /\ job[p].goal \in Nat /\ job[p] \in Jobs /\ free \in Nat
         /\ Whole(pr[p].pt, job[p].a) /\ PGROUNDUP(pr[p].sz) <= job[p].a
         /\ job[p].a <= PGROUNDUP(job[p].goal) /\ PGROUNDUP(pr[p].sz) \in Nat
         /\ job[p].a <= NPAGES /\ job[p].a \notin High /\ job[p].a \notin pr[p].pt.map
<1>1. /\ job[p] \in Jobs /\ pr[p] \in Procs /\ SlotOk(job[p], pr[p]) /\ pr[p].pt \in Tables
      /\ Held(pr[p].pt) <= NPAGES /\ free \in Nat
  BY Known
<1>2. job[p].a \in Nat /\ job[p].goal \in Nat /\ pr[p].sz \in Nat
  BY <1>1 DEF Jobs, Procs
<1>3. /\ job[p].op = "sbrk" /\ job[p].pt = NoTable /\ job[p].args = 0 /\ pr[p].state = "RUNNING"
      /\ Whole(pr[p].pt, job[p].a) /\ PGROUNDUP(pr[p].sz) <= job[p].a
      /\ job[p].a <= PGROUNDUP(job[p].goal)
  BY <1>1 DEF SlotOk, PointsOf, Building
<1>4. JobPages(job[p]) = 0
  BY <1>3, NoTableHeld DEF JobPages
<1>. QED  BY <1>1, <1>2, <1>3, <1>4, NextPage, RoundUp

\* The pages of a process that changes its table.
LEMMA NewTablePages ==
  ASSUME NEW r \in Procs, NEW R \in Procs, R.trapframe = r.trapframe, R.usyscall = r.usyscall
  PROVE  /\ ProcPages(r) \in Nat /\ ProcPages(R) \in Nat
         /\ Held(R.pt) \in Nat /\ Held(r.pt) \in Nat
         /\ ProcPages(R) + Held(r.pt) = ProcPages(r) + Held(R.pt)
<1>1. r.pt \in Tables /\ R.pt \in Tables /\ r.trapframe \in BOOLEAN /\ r.usyscall \in BOOLEAN
  BY DEF Procs
<1>2. PICK bits \in Nat : bits = Bit(r.trapframe) + Bit(r.usyscall)
  <2>1. Bit(r.trapframe) \in Nat /\ Bit(r.usyscall) \in Nat
    BY <1>1, BitNat
  <2>. QED  BY <2>1
<1>3. ProcPages(r) = bits + Held(r.pt) /\ ProcPages(R) = bits + Held(R.pt)
  BY <1>2 DEF ProcPages
<1>4. Held(R.pt) \in Nat /\ Held(r.pt) \in Nat
  BY <1>1, HeldNat
<1>. QED  BY <1>2, <1>3, <1>4

LEMMA SbrkPageStep ==
  ASSUME MInv, NEW p \in Slots, SbrkPage(p)
  PROVE  MInv'
<1>1. PICK j, s, r : j = job[p] /\ s = pr[p] /\ r = AllocPage(s.pt, j.a, free)
  OBVIOUS
<1>2. /\ j.pc = "sbrk" /\ j.a < PGROUNDUP(j.goal) /\ r.ok /\ free' = r.free /\ mpanic' = r.panic
      /\ pr' = [pr EXCEPT ![p].pt = r.pt] /\ job' = [job EXCEPT ![p].a = @ + 1]
  BY <1>1 DEF SbrkPage, In
<1>3. /\ j.op = "sbrk" /\ j.pt = NoTable /\ j.args = 0 /\ JobPages(j) = 0
      /\ s.state = "RUNNING" /\ s \in Procs /\ s.pt \in Tables /\ s.sz \in Nat
      /\ j.a \in Nat /\ j.goal \in Nat /\ j \in Jobs /\ free \in Nat
      /\ Whole(s.pt, j.a) /\ PGROUNDUP(s.sz) <= j.a /\ PGROUNDUP(s.sz) \in Nat
      /\ j.a \notin High /\ j.a \notin s.pt.map
  BY <1>1, <1>2, InSbrk
<1>4. /\ r.free \in Nat /\ r.pt \in Tables /\ r.free + Held(r.pt) = free + Held(s.pt)
      /\ r.pt.map = s.pt.map \cup {j.a} /\ r.panic \in BOOLEAN /\ ~r.panic
  BY <1>1, <1>2, <1>3, AllocFacts
<1>5. PICK n \in Nat : n = j.a + 1
  BY <1>3
<1>6. PICK J, R : J = [j EXCEPT !.a = n] /\ R = [s EXCEPT !.pt = r.pt]
  OBVIOUS
<1>7. /\ J \in Jobs /\ J.a = n /\ J.pc = "sbrk" /\ J.op = "sbrk" /\ J.pt = NoTable /\ J.args = 0
      /\ J.goal = j.goal
  BY <1>2, <1>3, <1>6 DEF Jobs
<1>8. /\ R \in Procs /\ R.pt = r.pt /\ R.sz = s.sz /\ R.state = "RUNNING"
      /\ ProcPages(s) \in Nat /\ Held(r.pt) \in Nat /\ Held(s.pt) \in Nat
      /\ ProcPages(R) + Held(s.pt) = ProcPages(s) + Held(r.pt)
  <2>1. /\ R \in Procs /\ R.pt = r.pt /\ R.sz = s.sz /\ R.state = "RUNNING"
        /\ R.trapframe = s.trapframe /\ R.usyscall = s.usyscall
    BY <1>3, <1>4, <1>6 DEF Procs
  <2>. QED  BY <1>3, <2>1, NewTablePages
<1>9. job' = [job EXCEPT ![p] = J] /\ pr' = [pr EXCEPT ![p] = R]
  BY <1>1, <1>2, <1>5, <1>6 DEF MInv, TypeInv
<1>10. Whole(R.pt, J.a) /\ PGROUNDUP(R.sz) <= J.a /\ J.a <= PGROUNDUP(J.goal)
  <2>1. Whole(r.pt, n)
    BY <1>3, <1>4, <1>5 DEF Whole, Pages
  <2>2. PGROUNDUP(j.goal) \in Nat
    BY <1>3, RoundUp
  <2>3. PGROUNDUP(s.sz) <= n /\ n <= PGROUNDUP(j.goal)
    BY <1>2, <1>3, <1>5, <2>2
  <2>. QED  BY <1>7, <1>8, <2>1, <2>3
<1>11. SlotOk(J, R)
  BY <1>7, <1>8, <1>10 DEF SlotOk, PointsOf, Building
<1>12. JobPages(J) = 0
  BY <1>7, NoTableHeld DEF JobPages
<1>13. free' \in Nat /\ free' + ProcPages(R) + JobPages(J) = free + ProcPages(pr[p]) + JobPages(job[p])
  <2>1. ProcPages(R) \in Nat
    BY <1>7, <1>8, PageNumbers
  <2>2. free' \in Nat /\ free' + Held(r.pt) = free + Held(s.pt)
    BY <1>2, <1>4
  <2>3. /\ free \in Nat /\ ProcPages(s) \in Nat /\ Held(r.pt) \in Nat /\ Held(s.pt) \in Nat
        /\ ProcPages(R) + Held(s.pt) = ProcPages(s) + Held(r.pt)
    BY <1>3, <1>8
  <2>4. free' + ProcPages(R) = free + ProcPages(s)
    BY <2>1, <2>2, <2>3
  <2>5. JobPages(job[p]) = 0 /\ pr[p] = s
    BY <1>1, <1>3
  <2>. QED  BY <1>12, <2>1, <2>2, <2>3, <2>4, <2>5
<1>14. mpanic' = FALSE /\ J.op # "fork" /\ pr[p].state \in {"RUNNING", "ZOMBIE"}
  BY <1>1, <1>2, <1>3, <1>4, <1>7
<1>. QED  BY <1>7, <1>8, <1>9, <1>11, <1>13, <1>14, OwnStep

LEMMA SbrkFailStep ==
  ASSUME MInv, NEW p \in Slots, SbrkFail(p)
  PROVE  MInv'
<1>1. PICK j, s, r, k : j = job[p] /\ s = pr[p] /\ r = AllocPage(s.pt, j.a, free) /\ k = PGROUNDUP(s.sz)
  OBVIOUS
<1>2. PICK t : t = uvmunmap(r.pt, Pages(k, j.a))
  OBVIOUS
<1>3. /\ j.pc = "sbrk" /\ ~r.ok /\ free' = r.free + Cardinality(Pages(k, j.a))
      /\ mpanic' = (r.panic \/ NotMapped(r.pt, Pages(k, j.a)))
      /\ pr' = [pr EXCEPT ![p].pt = t] /\ job' = [job EXCEPT ![p] = NoJob]
  BY <1>1, <1>2 DEF SbrkFail, In
<1>4. /\ JobPages(j) = 0 /\ s.state = "RUNNING" /\ s \in Procs /\ s.pt \in Tables /\ s.sz \in Nat
      /\ j.a \in Nat /\ free \in Nat /\ Whole(s.pt, j.a) /\ k <= j.a /\ k \in Nat
      /\ j.a <= NPAGES /\ j.a \notin High /\ j.a \notin s.pt.map
  BY <1>1, <1>3, InSbrk
<1>5. /\ r.free \in Nat /\ r.pt \in Tables /\ r.free + Held(r.pt) = free + Held(s.pt)
      /\ r.pt.map = s.pt.map /\ r.panic \in BOOLEAN /\ ~r.panic
  BY <1>1, <1>3, <1>4, AllocFacts
<1>6. Whole(r.pt, j.a)
  BY <1>4, <1>5 DEF Whole
<1>7. /\ t \in Tables /\ Whole(t, k) /\ t.nodes = r.pt.nodes
      /\ Cardinality(Pages(k, j.a)) = j.a - k /\ ~NotMapped(r.pt, Pages(k, j.a))
  BY <1>2, <1>4, <1>5, <1>6, UnmapFacts
<1>8. Held(r.pt) = Held(t) + (j.a - k)
  <2>1. k <= NPAGES /\ Cardinality(r.pt.nodes) \in Nat
    <3>1. k <= NPAGES
      BY <1>4, Sizes
    <3>. QED  BY <1>5, <3>1, HeldNat
  <2>2. Held(r.pt) = Cardinality(r.pt.nodes) + j.a
    BY <1>4, <1>5, <1>6, WholeValue
  <2>3. Held(t) = Cardinality(r.pt.nodes) + k
    BY <1>4, <1>7, <2>1, WholeValue
  <2>. QED  BY <1>4, <2>1, <2>2, <2>3
<1>9. PICK R : R = [s EXCEPT !.pt = t]
  OBVIOUS
<1>10. /\ R \in Procs /\ R.pt = t /\ R.sz = s.sz /\ R.state = "RUNNING"
       /\ ProcPages(s) \in Nat /\ Held(t) \in Nat /\ Held(s.pt) \in Nat
       /\ ProcPages(R) + Held(s.pt) = ProcPages(s) + Held(t)
  <2>1. /\ R \in Procs /\ R.pt = t /\ R.sz = s.sz /\ R.state = "RUNNING"
        /\ R.trapframe = s.trapframe /\ R.usyscall = s.usyscall
    BY <1>4, <1>7, <1>9 DEF Procs
  <2>. QED  BY <1>4, <2>1, NewTablePages
<1>11. pr' = [pr EXCEPT ![p] = R]
  BY <1>1, <1>3, <1>9 DEF MInv, TypeInv
<1>12. SlotOk(NoJob, R)
  BY <1>1, <1>7, <1>10, IdleSlot
<1>13. free' \in Nat /\ free' = r.free + (j.a - k)
  BY <1>3, <1>4, <1>5, <1>7
<1>14. free' + ProcPages(R) + JobPages(NoJob) = free + ProcPages(pr[p]) + JobPages(job[p])
  <2>1. ProcPages(R) \in Nat /\ JobPages(NoJob) = 0
    BY <1>10, NoJobFacts, PageNumbers
  <2>2. r.free + (Held(t) + (j.a - k)) = free + Held(s.pt)
    BY <1>5, <1>8
  <2>. QED  BY <1>1, <1>4, <1>5, <1>10, <1>13, <2>1, <2>2
<1>15. mpanic' = FALSE /\ pr[p].state \in {"RUNNING", "ZOMBIE"}
  BY <1>1, <1>3, <1>4, <1>5, <1>7
<1>. QED  BY <1>3, <1>10, <1>11, <1>12, <1>13, <1>14, <1>15, NoJobFacts, OwnStep

LEMMA SbrkDoneStep ==
  ASSUME MInv, NEW p \in Slots, SbrkDone(p)
  PROVE  MInv'
<1>1. PICK j, s : j = job[p] /\ s = pr[p]
  OBVIOUS
<1>2. /\ j.pc = "sbrk" /\ j.a = PGROUNDUP(j.goal) /\ free' = free /\ mpanic' = mpanic
      /\ pr' = [pr EXCEPT ![p].sz = j.goal] /\ job' = [job EXCEPT ![p] = NoJob]
  BY <1>1 DEF SbrkDone, In
<1>3. /\ JobPages(j) = 0 /\ s.state = "RUNNING" /\ s \in Procs /\ s.pt \in Tables /\ s.sz \in Nat
      /\ j.goal \in Nat /\ free \in Nat /\ Whole(s.pt, j.a)
  BY <1>1, <1>2, InSbrk
<1>4. PICK goal \in Nat : goal = j.goal
  BY <1>3
<1>5. PICK R : R = [s EXCEPT !.sz = goal]
  OBVIOUS
<1>6. /\ R \in Procs /\ R.pt = s.pt /\ R.sz = goal /\ R.state = "RUNNING"
      /\ ProcPages(s) \in Nat /\ ProcPages(R) = ProcPages(s)
  <2>1. /\ R \in Procs /\ R.pt = s.pt /\ R.sz = goal /\ R.state = "RUNNING"
        /\ R.trapframe = s.trapframe /\ R.usyscall = s.usyscall
    BY <1>3, <1>5 DEF Procs
  <2>2. ProcPages(R) = ProcPages(s)
    BY <2>1 DEF ProcPages
  <2>. QED  BY <1>3, <2>1, <2>2, NewTablePages
<1>7. pr' = [pr EXCEPT ![p] = R]
  BY <1>1, <1>2, <1>4, <1>5 DEF MInv, TypeInv
<1>8. SlotOk(NoJob, R)
  <2>1. Whole(R.pt, PGROUNDUP(R.sz))
    BY <1>2, <1>3, <1>4, <1>6
  <2>. QED  BY <1>6, <2>1, IdleSlot
<1>9. free' \in Nat /\ free' + ProcPages(R) + JobPages(NoJob) = free + ProcPages(pr[p]) + JobPages(job[p])
  <2>1. ProcPages(R) \in Nat /\ JobPages(NoJob) = 0
    BY <1>6, NoJobFacts, PageNumbers
  <2>. QED  BY <1>1, <1>2, <1>3, <1>6, <2>1
<1>10. mpanic' = FALSE /\ pr[p].state \in {"RUNNING", "ZOMBIE"}
  BY <1>1, <1>2, <1>3 DEF MInv
<1>. QED  BY <1>2, <1>6, <1>7, <1>8, <1>9, <1>10, NoJobFacts, OwnStep

\* What is known of a process in no call.
LEMMA IdleKnown ==
  ASSUME MInv, NEW p \in Slots, job[p].pc = "none", pr[p].state \in {"RUNNING", "ZOMBIE"}
  PROVE  /\ job[p] = NoJob /\ JobPages(job[p]) = 0
         /\ pr[p] \in Procs /\ pr[p].pt \in Tables /\ pr[p].sz \in Nat /\ free \in Nat
         /\ Whole(pr[p].pt, PGROUNDUP(pr[p].sz)) /\ PGROUNDUP(pr[p].sz) \in Nat
         /\ Held(pr[p].pt) \in Nat /\ Held(pr[p].pt) <= NPAGES /\ PGROUNDUP(pr[p].sz) <= NPAGES
<1>1. /\ pr[p] \in Procs /\ SlotOk(job[p], pr[p]) /\ pr[p].pt \in Tables
      /\ Held(pr[p].pt) \in Nat /\ Held(pr[p].pt) <= NPAGES /\ free \in Nat
  BY Known
<1>2. job[p] = NoJob /\ Whole(pr[p].pt, PGROUNDUP(pr[p].sz)) /\ pr[p].sz \in Nat
  BY <1>1 DEF SlotOk, Procs
<1>3. PGROUNDUP(pr[p].sz) \in Nat
  BY <1>2, RoundUp
<1>. QED  BY <1>1, <1>2, <1>3, NoJobFacts, WholeHeld

LEMMA SbrkShrinkStep ==
  ASSUME MInv, NEW p \in Slots, SbrkShrink(p)
  PROVE  MInv'
<1>1. PICK s : s = pr[p]
  OBVIOUS
<1>2. PICK n, sz, gone :
        /\ n \in Steps /\ sz = s.sz + n /\ gone = Shrunk(s.sz, sz)
        /\ s.state = "RUNNING" /\ job[p].pc = "none" /\ n < 0 /\ sz >= 0
        /\ free' = free + Cardinality(gone)
        /\ pr' = [pr EXCEPT ![p].pt = uvmunmap(@, gone), ![p].sz = sz]
        /\ mpanic' = NotMapped(s.pt, gone) /\ job' = job
  BY <1>1 DEF SbrkShrink, Idling, In
<1>3. /\ job[p] = NoJob /\ JobPages(job[p]) = 0 /\ s \in Procs /\ s.pt \in Tables /\ s.sz \in Nat
      /\ free \in Nat /\ Whole(s.pt, PGROUNDUP(s.sz)) /\ PGROUNDUP(s.sz) \in Nat
      /\ Held(s.pt) \in Nat /\ Held(s.pt) <= NPAGES /\ PGROUNDUP(s.sz) <= NPAGES
  BY <1>1, <1>2, IdleKnown
<1>4. sz \in Nat /\ sz <= s.sz
  BY <1>2, <1>3, MemAssumption
<1>5. PICK k \in Nat, m \in Nat : k = PGROUNDUP(sz) /\ m = PGROUNDUP(s.sz) /\ k <= m /\ m <= NPAGES
  <2>1. PGROUNDUP(sz) \in Nat /\ PGROUNDUP(sz) <= PGROUNDUP(s.sz)
    BY <1>3, <1>4, RoundUp
  <2>. QED  BY <1>3, <2>1
<1>6. gone = Pages(k, m) /\ Whole(s.pt, m)
  BY <1>2, <1>3, <1>5 DEF Shrunk
<1>7. PICK t : t = uvmunmap(s.pt, gone)
  OBVIOUS
<1>8. /\ t \in Tables /\ Whole(t, k) /\ t.nodes = s.pt.nodes
      /\ Cardinality(gone) = m - k /\ ~NotMapped(s.pt, gone)
  BY <1>3, <1>5, <1>6, <1>7, UnmapFacts
<1>9. Held(s.pt) = Held(t) + (m - k)
  <2>1. k <= NPAGES /\ Cardinality(s.pt.nodes) \in Nat
    <3>1. k <= NPAGES
      BY <1>5, Sizes
    <3>. QED  BY <1>3, <3>1, HeldNat
  <2>2. Held(s.pt) = Cardinality(s.pt.nodes) + m
    BY <1>3, <1>5, <1>6, WholeValue
  <2>3. Held(t) = Cardinality(s.pt.nodes) + k
    BY <1>5, <1>8, <2>1, WholeValue
  <2>. QED  BY <1>5, <2>1, <2>2, <2>3
<1>10. PICK R : R = [s EXCEPT !.pt = t, !.sz = sz]
  OBVIOUS
<1>11. /\ R \in Procs /\ R.pt = t /\ R.sz = sz /\ R.state = "RUNNING"
       /\ ProcPages(s) \in Nat /\ Held(t) \in Nat
       /\ ProcPages(R) + Held(s.pt) = ProcPages(s) + Held(t)
  <2>1. /\ R \in Procs /\ R.pt = t /\ R.sz = sz /\ R.state = "RUNNING"
        /\ R.trapframe = s.trapframe /\ R.usyscall = s.usyscall
    BY <1>2, <1>3, <1>4, <1>8, <1>10 DEF Procs
  <2>. QED  BY <1>3, <2>1, NewTablePages
<1>12. pr' = [pr EXCEPT ![p] = R] /\ job' = [job EXCEPT ![p] = NoJob]
  BY <1>1, <1>2, <1>3, <1>7, <1>10 DEF MInv, TypeInv
<1>13. SlotOk(NoJob, R)
  BY <1>5, <1>8, <1>11, IdleSlot
<1>14. free' \in Nat /\ free' = free + (m - k)
  BY <1>2, <1>3, <1>5, <1>8
<1>15. free' + ProcPages(R) + JobPages(NoJob) = free + ProcPages(pr[p]) + JobPages(job[p])
  <2>1. ProcPages(R) \in Nat /\ JobPages(NoJob) = 0
    BY <1>11, NoJobFacts, PageNumbers
  <2>2. PICK x \in Nat, y \in Nat, z \in Nat, w \in Nat :
          x = ProcPages(R) /\ y = ProcPages(s) /\ z = Held(s.pt) /\ w = Held(t)
    BY <1>3, <1>11, <2>1
  <2>3. z = w + (m - k) /\ x + z = y + w /\ free' = free + (m - k)
    BY <1>9, <1>11, <1>14, <2>2
  <2>4. free' + x = free + y
    BY <1>3, <1>5, <1>14, <2>2, <2>3
  <2>. QED  BY <1>1, <1>3, <1>14, <2>1, <2>2, <2>4
<1>16. mpanic' = FALSE /\ pr[p].state \in {"RUNNING", "ZOMBIE"}
  BY <1>1, <1>2, <1>8
<1>. QED  BY <1>11, <1>12, <1>13, <1>14, <1>15, <1>16, NoJobFacts, OwnStep

LEMMA MemExitStep ==
  ASSUME MInv, NEW p \in Slots, MemExit(p)
  PROVE  MInv'
<1>1. PICK s : s = pr[p]
  OBVIOUS
<1>2. /\ s.state = "RUNNING" /\ job[p].pc = "none" /\ UNCHANGED <<free, job, mpanic>>
      /\ pr' = [pr EXCEPT ![p].state = "ZOMBIE"]
  BY <1>1 DEF MemExit, Idling, In
<1>3. job[p] = NoJob /\ s \in Procs /\ free \in Nat /\ Whole(s.pt, PGROUNDUP(s.sz))
  BY <1>1, <1>2, IdleKnown
<1>4. PICK R : R = [s EXCEPT !.state = "ZOMBIE"]
  OBVIOUS
<1>5. /\ R \in Procs /\ R.state = "ZOMBIE" /\ R.pt = s.pt /\ R.sz = s.sz
      /\ R.trapframe = s.trapframe /\ R.usyscall = s.usyscall
  BY <1>3, <1>4 DEF Procs
<1>6. ProcPages(R) = ProcPages(s)
  BY <1>5 DEF ProcPages
<1>7. pr' = [pr EXCEPT ![p] = R] /\ job' = [job EXCEPT ![p] = NoJob]
  BY <1>1, <1>2, <1>3, <1>4 DEF MInv, TypeInv
<1>8. SlotOk(NoJob, R)
  BY <1>3, <1>5, IdleSlot
<1>9. free' \in Nat /\ free' + ProcPages(R) + JobPages(NoJob) = free + ProcPages(pr[p]) + JobPages(job[p])
  BY <1>1, <1>2, <1>3, <1>6
<1>10. mpanic' = FALSE /\ pr[p].state \in {"RUNNING", "ZOMBIE"}
  BY <1>1, <1>2 DEF MInv
<1>. QED  BY <1>5, <1>7, <1>8, <1>9, <1>10, NoJobFacts, OwnStep

LEMMA ReapStep ==
  ASSUME MInv, NEW p \in Slots, Reap(p)
  PROVE  MInv'
<1>1. PICK s : s = pr[p]
  OBVIOUS
<1>2. /\ s.state = "ZOMBIE" /\ free' = free + FreedByProc(s) /\ mpanic' = BadProc(s)
      /\ pr' = [pr EXCEPT ![p] = FreeSlot] /\ job' = job
  BY <1>1 DEF Reap
<1>3. job[p].pc = "none"
  BY <1>1, <1>2, Known DEF SlotOk
<1>4. /\ job[p] = NoJob /\ JobPages(job[p]) = 0 /\ s \in Procs /\ free \in Nat
      /\ Whole(s.pt, PGROUNDUP(s.sz)) /\ Held(s.pt) <= NPAGES
  BY <1>1, <1>2, <1>3, IdleKnown
<1>5. FreedByProc(s) = ProcPages(s) /\ ~BadProc(s) /\ ProcPages(s) \in Nat
  BY <1>4, FreedIsHeld, NoJobFacts, PageNumbers
<1>6. job' = [job EXCEPT ![p] = NoJob]
  BY <1>2, <1>4 DEF MInv, TypeInv
<1>7. SlotOk(NoJob, FreeSlot)
  BY NoJobFacts, IdleSlot DEF FreeSlot
<1>8. free' \in Nat /\ free' + ProcPages(FreeSlot) + JobPages(NoJob) = free + ProcPages(pr[p]) + JobPages(job[p])
  BY <1>1, <1>2, <1>4, <1>5, NoJobFacts
<1>9. mpanic' = FALSE /\ pr[p].state \in {"RUNNING", "ZOMBIE"}
  BY <1>1, <1>2, <1>5
<1>. QED  BY <1>2, <1>6, <1>7, <1>8, <1>9, NoJobFacts, OwnStep

-----------------------------------------------------------------------------
(* The invariant holds at the start and is preserved *)

LEMMA FewNodes ==
  ASSUME NEW S, IsFiniteSet(S), NEW x
  PROVE  /\ IsFiniteSet(S \cup {x}) /\ Cardinality(S) \in Nat
         /\ Cardinality(S \cup {x}) \in Nat /\ Cardinality(S \cup {x}) <= Cardinality(S) + 1
<1>1. Cardinality(S) \in Nat
  BY FS_CardinalityType
<1>2. IsFiniteSet(S \cup {x})
      /\ (Cardinality(S \cup {x}) = Cardinality(S) \/ Cardinality(S \cup {x}) = Cardinality(S) + 1)
  BY FS_AddElement
<1>. QED  BY <1>1, <1>2

LEMMA FiveNodes ==
  ASSUME NEW a, NEW b, NEW c, NEW d, NEW e
  PROVE  IsFiniteSet({a, b, c, d, e}) /\ Cardinality({a, b, c, d, e}) \in Nat /\ Cardinality({a, b, c, d, e}) <= 5
<1>1. PICK A, B, C, D, E :
        A = {a} /\ B = A \cup {b} /\ C = B \cup {c} /\ D = C \cup {d} /\ E = D \cup {e}
  OBVIOUS
<1>2. IsFiniteSet(A) /\ Cardinality(A) = 1
  BY <1>1, FS_Singleton, Zenon
<1>3. IsFiniteSet(B) /\ Cardinality(B) \in Nat /\ Cardinality(B) <= Cardinality(A) + 1
  BY <1>1, <1>2, FewNodes, Zenon
<1>4. IsFiniteSet(C) /\ Cardinality(C) \in Nat /\ Cardinality(C) <= Cardinality(B) + 1
  BY <1>1, <1>3, FewNodes, Zenon
<1>5. IsFiniteSet(D) /\ Cardinality(D) \in Nat /\ Cardinality(D) <= Cardinality(C) + 1
  BY <1>1, <1>4, FewNodes, Zenon
<1>6. IsFiniteSet(E) /\ Cardinality(E) \in Nat /\ Cardinality(E) <= Cardinality(D) + 1
  BY <1>1, <1>5, FewNodes, Zenon
<1>7. E = {a, b, c, d, e}
  BY <1>1
<1>8. Cardinality(E) <= 5
  BY <1>2, <1>3, <1>4, <1>5, <1>6
<1>. QED  BY <1>6, <1>7, <1>8, Zenon

\* userinit() takes the trapframe, the usyscall page, a page of memory and the tables.
LEMMA FirstTable ==
  ASSUME NEW S, S = {Root} \cup Path(TRAMPOLINE) \cup Path(0)
  PROVE  S \subseteq Nodes /\ IsFiniteSet(S) /\ Cardinality(S) \in Nat /\ Cardinality(S) <= 5
<1>1. S \subseteq Nodes
  <2>1. Path(TRAMPOLINE) \subseteq Nodes /\ Path(0) \subseteq Nodes
    BY Sizes, PathNodes
  <2>2. Root \in Nodes
    BY DEF Root, Nodes
  <2>. QED  BY <2>1, <2>2
<1>2. PICK a, b : Path(TRAMPOLINE) = {a, b}
  BY DEF Path
<1>3. PICK c, d : Path(0) = {c, d}
  BY DEF Path
<1>4. S = {Root, a, b, c, d}
  BY <1>1, <1>2, <1>3
<1>5. IsFiniteSet(S) /\ Cardinality(S) \in Nat /\ Cardinality(S) <= 5
  <2>1. PICK F : F = {Root, a, b, c, d}
    OBVIOUS
  <2>2. /\ IsFiniteSet({Root, a, b, c, d}) /\ Cardinality({Root, a, b, c, d}) \in Nat
        /\ Cardinality({Root, a, b, c, d}) <= 5
    BY FiveNodes, Zenon
  <2>3. IsFiniteSet(F) /\ Cardinality(F) \in Nat /\ Cardinality(F) <= 5
    BY <2>1, <2>2, Zenon
  <2>. QED  BY <1>4, <2>1, <2>3, Zenon
<1>. QED  BY <1>1, <1>5

LEMMA InitMInv ==
  ASSUME MemInit
  PROVE  MInv
<1>1. PICK S, t, r :
        /\ S = {Root} \cup Path(TRAMPOLINE) \cup Path(0)
        /\ t = [nodes |-> S, map |-> High \cup {0}]
        /\ r = [state |-> "RUNNING", trapframe |-> TRUE, usyscall |-> TRUE, pt |-> t, sz |-> 2]
  OBVIOUS
<1>2. /\ pr = [p \in Slots |-> IF p # FirstSlot THEN FreeSlot ELSE r]
      /\ free = NPAGES - (Cardinality(S) + 3)
      /\ job = [p \in Slots |-> NoJob]
      /\ mpanic = FALSE
  BY <1>1 DEF MemInit
<1>3. S \subseteq Nodes /\ IsFiniteSet(S) /\ Cardinality(S) \in Nat /\ Cardinality(S) <= 5
  BY <1>1, FirstTable
<1>4. t \in Tables
  <2>1. IsFiniteSet({0}) /\ IsFiniteSet(High \cup {0})
    <3>1. High = (({} \cup {TRAMPOLINE}) \cup {TRAPFRAME}) \cup {USYSCALL}
      BY DEF High
    <3>2. IsFiniteSet(High)
      BY <3>1, FS_EmptySet, FS_AddElement
    <3>. QED  BY <3>2, FS_Singleton, FS_AddElement
  <2>2. High \cup {0} \subseteq Nat
    BY Sizes DEF High
  <2>. QED  BY <1>1, <1>3, <2>1, <2>2 DEF Tables
<1>5. r \in Procs /\ r.pt = t /\ r.sz = 2 /\ r.state = "RUNNING" /\ r.trapframe /\ r.usyscall
  BY <1>1, <1>4 DEF Procs
<1>6. PGROUNDUP(2) = 1
  <2>1. PGROUNDUP(2 * 1) = 1
    BY RoundUp
  <2>. QED  BY <2>1
<1>7. Whole(t, 1)
  BY <1>1 DEF Whole, Pages
<1>8. free \in Nat
  BY <1>2, <1>3, Sizes
<1>9. TypeInv
  BY <1>2, <1>5, <1>8, NoJobFacts DEF TypeInv
<1>10. SlotInv
  <2>1. SlotOk(NoJob, r) /\ SlotOk(NoJob, FreeSlot)
    BY <1>5, <1>6, <1>7, NoJobFacts, IdleSlot DEF FreeSlot
  <2>. QED  BY <1>2, <2>1 DEF SlotInv
<1>11. KidInv
  BY <1>2, NoJobFacts DEF KidInv, Forking
<1>12. PagesOwned
  <2>1. PICK n \in Nat : n = Cardinality(S) + 3
    BY <1>3
  <2>2. ProcPages(r) = n
    <3>1. Held(t) = Cardinality(S) + 1
      <4>1. t.nodes = S
        BY <1>1
      <4>2. 1 \in Nat /\ 1 <= NPAGES
        BY Sizes
      <4>. QED  BY <1>4, <1>7, <4>1, <4>2, WholeValue
    <3>2. Bit(r.trapframe) = 1 /\ Bit(r.usyscall) = 1
      BY <1>5 DEF Bit
    <3>3. ProcPages(r) = 1 + 1 + (Cardinality(S) + 1)
      BY <1>5, <3>1, <3>2 DEF ProcPages
    <3>. QED  BY <1>3, <2>1, <3>3
  <2>3. PICK z : z = [p \in Slots |-> 0]
    OBVIOUS
  <2>4. PICK f : f = [z EXCEPT ![FirstSlot] = n]
    OBVIOUS
  <2>5. Total(z) = 0
    <3>1. UNION {{p} \X (1..z[p]) : p \in DOMAIN z} = {}
      BY <2>3
    <3>. QED  BY <3>1, FS_EmptySet DEF Total
  <2>6. Total(f) = n
    <3>1. z \in [Slots -> Nat] /\ FirstSlot \in Slots /\ IsFiniteSet(Slots) /\ z[FirstSlot] = 0
      BY <2>3, MemAssumption
    <3>2. Total([z EXCEPT ![FirstSlot] = n]) = Total(z) - z[FirstSlot] + n
      BY <2>1, <3>1, TotalChanges
    <3>3. Total(f) = Total(z) - z[FirstSlot] + n
      BY <2>4, <3>2
    <3>. QED  BY <2>1, <2>5, <3>1, <3>3
  <2>7. [p \in Slots |-> ProcPages(pr[p]) + JobPages(job[p])] = f
    <3>1. f \in [Slots -> Nat] /\ \A p \in Slots : f[p] = IF p = FirstSlot THEN n ELSE 0
      BY <2>1, <2>3, <2>4
    <3>2. \A p \in Slots : ProcPages(pr[p]) + JobPages(job[p]) = f[p]
      BY <1>2, <2>1, <2>2, <3>1, NoJobFacts
    <3>. QED  BY <3>1, <3>2
  <2>. QED  BY <1>2, <1>3, <2>1, <2>6, <2>7, Sizes DEF PagesOwned
<1>. QED  BY <1>2, <1>9, <1>10, <1>11, <1>12 DEF MInv

LEMMA NextMInv ==
  ASSUME MInv, [MemNext]_memVars
  PROVE  MInv'
<1>1. ASSUME NEW p \in Slots, TableStep(p) PROVE MInv'
  BY <1>1, NewRootStep, MapHighStep, TableMadeStep, GrowJobStep, GrowJobFailsStep DEF TableStep
<1>2. ASSUME NEW p \in Slots, ForkStep(p) PROVE MInv'
  BY <1>2, ForkSlotStep, ForkTrapframeStep, ForkUsyscallStep, ForkDoneStep, ForkFailStep DEF ForkStep
<1>3. ASSUME NEW p \in Slots, ExecStep(p) PROVE MInv'
  BY <1>3, ExecStartStep, ExecSegmentStep, ExecStackStep, ExecGrownStep, ExecBadStep,
     ExecCommitStep, ExecFailStep DEF ExecStep
<1>4. ASSUME NEW p \in Slots, SizeStep(p) PROVE MInv'
  BY <1>4, SbrkStartStep, SbrkPageStep, SbrkFailStep, SbrkDoneStep, SbrkShrinkStep,
     MemExitStep, ReapStep DEF SizeStep
<1>5. CASE UNCHANGED memVars
  BY <1>5 DEF memVars, MInv, TypeInv, SlotInv, SlotOk, PointsOf, Building, Whole, KidInv, KidOk,
              Forking, PagesOwned, ProcPages, JobPages, Total, Held
<1>. QED  BY <1>1, <1>2, <1>3, <1>4, <1>5 DEF MemNext

-----------------------------------------------------------------------------
(* Theorems *)

\* The invariant: where each call has got to, and that the pages add up.
THEOREM MemoryInvariant == MemSpec => []MInv
<1>1. MemInit => MInv
  BY InitMInv
<1>2. MInv /\ [MemNext]_memVars => MInv'
  BY NextMInv
<1>. QED  BY <1>1, <1>2, PTL DEF MemSpec

\* No failure path of fork(), exec() or sbrk(), and neither exit() nor wait(), loses a page
\* or frees one twice, whatever kalloc() refuses (proc.c, exec.c, vm.c).
THEOREM PagesAccounted == MemSpec => []PagesOwned
<1>1. MInv => PagesOwned
  BY DEF MInv
<1>. QED  BY <1>1, MemoryInvariant, PTL

\* A process that may run has just the pages of its size, whatever has failed before, and
\* none of uvmunmap(), freewalk() and mappages() ever panics.
THEOREM ImagesMapped == MemSpec => []ImageMapped
<1>1. MInv => ImageMapped
  BY DEF MInv, SlotInv, SlotOk, Whole, ImageMapped, In
<1>. QED  BY <1>1, MemoryInvariant, PTL

-----------------------------------------------------------------------------
(* The pipe: the invariant *)

Inside == {"relock", "writeCheck", "writeBody", "sleepWrite", "readCheck", "readBody", "sleepRead"}
Locked == {"writeCheck", "writeBody", "readCheck", "readBody"}

\* pi->lock is held exactly between acquire() and release() or sleep().
LockInv == \A p \in Users : lock = p <=> pc[p] \in Locked

\* Writers are in pipewrite(), readers in piperead(); who is inside has the end
\* open, who closes it has not.
CallInv ==
  \A p \in Users :
    /\ pc[p] \in {"writeCheck", "writeBody", "sleepWrite"} => p \in Writers
    /\ pc[p] \in {"readCheck", "readBody", "sleepRead"} => p \in Readers
    /\ pc[p] \in Inside => p \in holders
    /\ pc[p] \in {"closing", "kfree"} => p \notin holders

\* What a process has seen under the lock still holds in front of sleep() or the copy.
SeenInv ==
  \A p \in Users :
    /\ pc[p] = "writeBody" => readopen = 1 /\ rest[p] > 0
    /\ pc[p] = "readBody" => Empty /\ writeopen = 1

\* An end that is closed has no holder; the one that closes it is the last.
EndInv(side, open) ==
  /\ open = 0 => \A p \in side : p \notin holders /\ pc[p] # "closing"
  /\ \A p, q \in side : pc[p] = "closing" => q \notin holders /\ (pc[q] = "closing" => p = q)

\* One process frees the page, after both ends are closed.
FreeInv ==
  /\ freed \in {0, 1}
  /\ freed = 1 => readopen = 0 /\ writeopen = 0
  /\ \A p, q \in Users :
       pc[p] = "kfree" => freed = 0 /\ readopen = 0 /\ writeopen = 0 /\ (pc[q] = "kfree" => p = q)

\* A writer sleeps over a full pipe.
WriterInv == \A w \in Writers : pc[w] = "sleepWrite" => Full /\ readopen = 1

\* A reader sleeps over an empty pipe, or a writer is about to wake it.
ReaderInv ==
  /\ \A p \in Users : killed[p] => p \in Killable
  /\ Killable \cap Writers = {} =>
       \A r \in Readers : pc[r] = "sleepRead" =>
         writeopen = 1 /\ (Empty \/ \E w \in Writers : lock = w)

PInv == /\ TypeOK /\ LockInv /\ CallInv /\ SeenInv
        /\ EndInv(Readers, readopen) /\ EndInv(Writers, writeopen)
        /\ FreeInv /\ WriterInv /\ ReaderInv

USE UsersAssumption, SizeAssumption, BytesAssumption DEF Users

\* The pipe starts empty, with nobody at work.
LEMMA InitPInv == Init => PInv
<1> SUFFICES ASSUME Init PROVE PInv
  OBVIOUS
<1>1. TypeOK
  BY DEF Init, TypeOK
<1>2. LockInv /\ CallInv /\ SeenInv /\ EndInv(Readers, readopen) /\ EndInv(Writers, writeopen)
  BY DEF Init, LockInv, CallInv, SeenInv, EndInv, Locked, Inside
<1>3. FreeInv /\ WriterInv /\ ReaderInv
  BY DEF Init, FreeInv, WriterInv, ReaderInv
<1>. QED  BY <1>1, <1>2, <1>3 DEF PInv

\* A call begins; the caller has its end open.
LEMMA CallPInv ==
  ASSUME PInv, NEW p \in Users, NEW n \in 0..MaxIO, Call(p, n)
  PROVE  PInv'
<1>1. TypeOK'
  BY DEF PInv, TypeOK, Call, Move, pipeVars
<1>2. LockInv'
  BY DEF PInv, TypeOK, LockInv, Locked, Call, Move, pipeVars
<1>3. CallInv'
  BY DEF PInv, TypeOK, CallInv, Inside, Call, Move, pipeVars
<1>4. SeenInv'
  BY DEF PInv, TypeOK, LockInv, Locked, SeenInv, Empty, Call, Move, pipeVars
<1>5. EndInv(Readers, readopen)' /\ EndInv(Writers, writeopen)'
  BY DEF PInv, TypeOK, EndInv, CallInv, Inside, Call, Move, pipeVars
<1>6. FreeInv'
  BY DEF PInv, TypeOK, FreeInv, EndInv, Call, Move, pipeVars
<1>7. WriterInv'
  BY DEF PInv, TypeOK, LockInv, Locked, WriterInv, SeenInv, Full, Call, Move, pipeVars
<1>8. ReaderInv'
  BY DEF PInv, TypeOK, LockInv, CallInv, Locked, Inside, SeenInv, EndInv, ReaderInv, Empty, Call, Move, pipeVars
<1>. QED  BY <1>1, <1>2, <1>3, <1>4, <1>5, <1>6, <1>7, <1>8 DEF PInv

\* acquire() waits for the lock to be free.
LEMMA AcquirePInv ==
  ASSUME PInv, NEW p \in Users, Acquire(p)
  PROVE  PInv'
<1>1. TypeOK'
  BY DEF PInv, TypeOK, Acquire, Move, pipeVars
<1>2. LockInv'
  BY DEF PInv, TypeOK, LockInv, Locked, Acquire, Move, pipeVars
<1>3. CallInv'
  BY DEF PInv, TypeOK, CallInv, Inside, Acquire, Move, pipeVars
<1>4. SeenInv'
  BY DEF PInv, TypeOK, LockInv, Locked, SeenInv, Empty, Acquire, Move, pipeVars
<1>5. EndInv(Readers, readopen)' /\ EndInv(Writers, writeopen)'
  BY DEF PInv, TypeOK, EndInv, CallInv, Inside, Acquire, Move, pipeVars
<1>6. FreeInv'
  BY DEF PInv, TypeOK, FreeInv, EndInv, Acquire, Move, pipeVars
<1>7. WriterInv'
  BY DEF PInv, TypeOK, LockInv, Locked, WriterInv, SeenInv, Full, Acquire, Move, pipeVars
<1>8. ReaderInv'
  BY DEF PInv, TypeOK, LockInv, CallInv, Locked, Inside, SeenInv, EndInv, ReaderInv, Empty, Acquire, Move, pipeVars
<1>. QED  BY <1>1, <1>2, <1>3, <1>4, <1>5, <1>6, <1>7, <1>8 DEF PInv

\* pipewrite() gives up and wakes nobody: no reader is there any more, or a writer
\* was killed that nobody may kill.
LEMMA WriteFailPInv ==
  ASSUME PInv, NEW p \in Writers, WriteFail(p)
  PROVE  PInv'
<1>1. TypeOK'
  BY DEF PInv, TypeOK, WriteFail, Move, Release, pipeVars
<1>2. LockInv'
  BY DEF PInv, TypeOK, LockInv, Locked, WriteFail, Move, Release, pipeVars
<1>3. CallInv'
  BY DEF PInv, TypeOK, CallInv, Inside, WriteFail, Move, Release, pipeVars
<1>4. SeenInv'
  BY DEF PInv, TypeOK, LockInv, Locked, SeenInv, Empty, WriteFail, Move, Release, pipeVars
<1>5. EndInv(Readers, readopen)' /\ EndInv(Writers, writeopen)'
  BY DEF PInv, TypeOK, EndInv, CallInv, Inside, WriteFail, Move, Release, pipeVars
<1>6. FreeInv'
  BY DEF PInv, TypeOK, FreeInv, EndInv, WriteFail, Move, Release, pipeVars
<1>7. WriterInv'
  BY DEF PInv, TypeOK, LockInv, Locked, WriterInv, SeenInv, Full, WriteFail, Move, Release, pipeVars
<1>8. ReaderInv'
  BY DEF PInv, TypeOK, LockInv, CallInv, Locked, Inside, SeenInv, EndInv, ReaderInv, Empty, WriteFail, Move, Release, pipeVars
<1>. QED  BY <1>1, <1>2, <1>3, <1>4, <1>5, <1>6, <1>7, <1>8 DEF PInv

\* pipewrite() has seen that a reader is there.
LEMMA WriteGoOnPInv ==
  ASSUME PInv, NEW p \in Writers, WriteGoOn(p)
  PROVE  PInv'
<1>1. TypeOK'
  BY DEF PInv, TypeOK, WriteGoOn, Move, pipeVars
<1>2. LockInv'
  BY DEF PInv, TypeOK, LockInv, Locked, WriteGoOn, Move, pipeVars
<1>3. CallInv'
  BY DEF PInv, TypeOK, CallInv, Inside, WriteGoOn, Move, pipeVars
<1>4. SeenInv'
  BY DEF PInv, TypeOK, LockInv, Locked, SeenInv, Empty, WriteGoOn, Move, pipeVars
<1>5. EndInv(Readers, readopen)' /\ EndInv(Writers, writeopen)'
  BY DEF PInv, TypeOK, EndInv, CallInv, Inside, WriteGoOn, Move, pipeVars
<1>6. FreeInv'
  BY DEF PInv, TypeOK, FreeInv, EndInv, WriteGoOn, Move, pipeVars
<1>7. WriterInv'
  BY DEF PInv, TypeOK, LockInv, Locked, WriterInv, SeenInv, Full, WriteGoOn, Move, pipeVars
<1>8. ReaderInv'
  BY DEF PInv, TypeOK, LockInv, CallInv, Locked, Inside, SeenInv, EndInv, ReaderInv, Empty, WriteGoOn, Move, pipeVars
<1>. QED  BY <1>1, <1>2, <1>3, <1>4, <1>5, <1>6, <1>7, <1>8 DEF PInv

\* A writer sleeps over the full pipe and has woken the readers.
LEMMA WriteSleepPInv ==
  ASSUME PInv, NEW p \in Writers, WriteSleep(p)
  PROVE  PInv'
<1>1. TypeOK'
  BY DEF PInv, TypeOK, WriteSleep, MoveAndWake, Release, pipeVars
<1>2. LockInv'
  BY DEF PInv, TypeOK, LockInv, Locked, WriteSleep, MoveAndWake, Release, pipeVars
<1>3. CallInv'
  BY DEF PInv, TypeOK, CallInv, Inside, WriteSleep, MoveAndWake, Release, pipeVars
<1>4. SeenInv'
  BY DEF PInv, TypeOK, LockInv, Locked, SeenInv, Empty, WriteSleep, MoveAndWake, Release, pipeVars
<1>5. EndInv(Readers, readopen)' /\ EndInv(Writers, writeopen)'
  BY DEF PInv, TypeOK, EndInv, CallInv, Inside, WriteSleep, MoveAndWake, Release, pipeVars
<1>6. FreeInv'
  BY DEF PInv, TypeOK, FreeInv, EndInv, WriteSleep, MoveAndWake, Release, pipeVars
<1>7. WriterInv'
  BY DEF PInv, TypeOK, LockInv, Locked, WriterInv, SeenInv, Full, WriteSleep, MoveAndWake, Release, pipeVars
<1>8. ReaderInv'
  BY DEF PInv, TypeOK, LockInv, CallInv, Locked, Inside, SeenInv, EndInv, ReaderInv, Empty, WriteSleep, MoveAndWake, Release, pipeVars
<1>. QED  BY <1>1, <1>2, <1>3, <1>4, <1>5, <1>6, <1>7, <1>8 DEF PInv

\* pipewrite() returns and wakes the readers.
LEMMA WriteDonePInv ==
  ASSUME PInv, NEW p \in Writers, WriteDone(p)
  PROVE  PInv'
<1>1. TypeOK'
  BY DEF PInv, TypeOK, WriteDone, MoveAndWake, Release, pipeVars
<1>2. LockInv'
  BY DEF PInv, TypeOK, LockInv, Locked, WriteDone, MoveAndWake, Release, pipeVars
<1>3. CallInv'
  BY DEF PInv, TypeOK, CallInv, Inside, WriteDone, MoveAndWake, Release, pipeVars
<1>4. SeenInv'
  BY DEF PInv, TypeOK, LockInv, Locked, SeenInv, Empty, WriteDone, MoveAndWake, Release, pipeVars
<1>5. EndInv(Readers, readopen)' /\ EndInv(Writers, writeopen)'
  BY DEF PInv, TypeOK, EndInv, CallInv, Inside, WriteDone, MoveAndWake, Release, pipeVars
<1>6. FreeInv'
  BY DEF PInv, TypeOK, FreeInv, EndInv, WriteDone, MoveAndWake, Release, pipeVars
<1>7. WriterInv'
  BY DEF PInv, TypeOK, LockInv, Locked, WriterInv, SeenInv, Full, WriteDone, MoveAndWake, Release, pipeVars
<1>8. ReaderInv'
  BY DEF PInv, TypeOK, LockInv, CallInv, Locked, Inside, SeenInv, EndInv, ReaderInv, Empty, WriteDone, MoveAndWake, Release, pipeVars
<1>. QED  BY <1>1, <1>2, <1>3, <1>4, <1>5, <1>6, <1>7, <1>8 DEF PInv

\* A byte goes in: the pipe is not full, so no writer sleeps.
LEMMA WriteBytePInv ==
  ASSUME PInv, NEW p \in Writers, NEW b \in Bytes, WriteByte(p, b)
  PROVE  PInv'
<1>1. TypeOK'
  <2>. nwrite \in Nat /\ nwrite + 1 \in Nat
    BY DEF PInv, TypeOK
  <2>1. nwrite % PIPESIZE \in 0..(PIPESIZE - 1)
    BY DivMod
  <2>3. (nwrite + 1) % UINT \in 0..(UINT - 1)
    BY DivMod
  <2>2. rest[p] - 1 \in 0..MaxIO
    BY DEF PInv, TypeOK, SeenInv, WriteByte
  <2>. QED  BY <2>1, <2>2, <2>3 DEF PInv, TypeOK, WriteByte, Move
<1>2. LockInv'
  BY DEF PInv, TypeOK, LockInv, Locked, WriteByte, Move
<1>3. CallInv'
  BY DEF PInv, TypeOK, CallInv, Inside, WriteByte, Move
<1>4. SeenInv'
  BY DEF PInv, TypeOK, LockInv, Locked, SeenInv, Empty, WriteByte, Move
<1>5. EndInv(Readers, readopen)' /\ EndInv(Writers, writeopen)'
  BY DEF PInv, TypeOK, EndInv, CallInv, Inside, WriteByte, Move
<1>6. FreeInv'
  BY DEF PInv, TypeOK, FreeInv, EndInv, WriteByte, Move
<1>7. WriterInv'
  BY DEF PInv, TypeOK, LockInv, Locked, WriterInv, SeenInv, Full, WriteByte, Move
<1>8. ReaderInv'
  BY DEF PInv, TypeOK, LockInv, CallInv, Locked, Inside, SeenInv, EndInv, ReaderInv, Empty, WriteByte, Move
<1>. QED  BY <1>1, <1>2, <1>3, <1>4, <1>5, <1>6, <1>7, <1>8 DEF PInv

\* A killed reader returns.
LEMMA ReadFailPInv ==
  ASSUME PInv, NEW p \in Readers, ReadFail(p)
  PROVE  PInv'
<1>1. TypeOK'
  BY DEF PInv, TypeOK, ReadFail, Move, Release, pipeVars
<1>2. LockInv'
  BY DEF PInv, TypeOK, LockInv, Locked, ReadFail, Move, Release, pipeVars
<1>3. CallInv'
  BY DEF PInv, TypeOK, CallInv, Inside, ReadFail, Move, Release, pipeVars
<1>4. SeenInv'
  BY DEF PInv, TypeOK, LockInv, Locked, SeenInv, Empty, ReadFail, Move, Release, pipeVars
<1>5. EndInv(Readers, readopen)' /\ EndInv(Writers, writeopen)'
  BY DEF PInv, TypeOK, EndInv, CallInv, Inside, ReadFail, Move, Release, pipeVars
<1>6. FreeInv'
  BY DEF PInv, TypeOK, FreeInv, EndInv, ReadFail, Move, Release, pipeVars
<1>7. WriterInv'
  BY DEF PInv, TypeOK, LockInv, Locked, WriterInv, SeenInv, Full, ReadFail, Move, Release, pipeVars
<1>8. ReaderInv'
  BY DEF PInv, TypeOK, LockInv, CallInv, Locked, Inside, SeenInv, EndInv, ReaderInv, Empty, ReadFail, Move, Release, pipeVars
<1>. QED  BY <1>1, <1>2, <1>3, <1>4, <1>5, <1>6, <1>7, <1>8 DEF PInv

\* piperead() has seen an empty pipe with a writer.
LEMMA ReadWaitPInv ==
  ASSUME PInv, NEW p \in Readers, ReadWait(p)
  PROVE  PInv'
<1>1. TypeOK'
  BY DEF PInv, TypeOK, ReadWait, Move, pipeVars
<1>2. LockInv'
  BY DEF PInv, TypeOK, LockInv, Locked, ReadWait, Move, pipeVars
<1>3. CallInv'
  BY DEF PInv, TypeOK, CallInv, Inside, ReadWait, Move, pipeVars
<1>4. SeenInv'
  BY DEF PInv, TypeOK, LockInv, Locked, SeenInv, Empty, ReadWait, Move, pipeVars
<1>5. EndInv(Readers, readopen)' /\ EndInv(Writers, writeopen)'
  BY DEF PInv, TypeOK, EndInv, CallInv, Inside, ReadWait, Move, pipeVars
<1>6. FreeInv'
  BY DEF PInv, TypeOK, FreeInv, EndInv, ReadWait, Move, pipeVars
<1>7. WriterInv'
  BY DEF PInv, TypeOK, LockInv, Locked, WriterInv, SeenInv, Full, ReadWait, Move, pipeVars
<1>8. ReaderInv'
  BY DEF PInv, TypeOK, LockInv, CallInv, Locked, Inside, SeenInv, EndInv, ReaderInv, Empty, ReadWait, Move, pipeVars
<1>. QED  BY <1>1, <1>2, <1>3, <1>4, <1>5, <1>6, <1>7, <1>8 DEF PInv

\* A reader sleeps over the empty pipe.
LEMMA ReadSleepPInv ==
  ASSUME PInv, NEW p \in Readers, ReadSleep(p)
  PROVE  PInv'
<1>1. TypeOK'
  BY DEF PInv, TypeOK, ReadSleep, Move, Release, pipeVars
<1>2. LockInv'
  BY DEF PInv, TypeOK, LockInv, Locked, ReadSleep, Move, Release, pipeVars
<1>3. CallInv'
  BY DEF PInv, TypeOK, CallInv, Inside, ReadSleep, Move, Release, pipeVars
<1>4. SeenInv'
  BY DEF PInv, TypeOK, LockInv, Locked, SeenInv, Empty, ReadSleep, Move, Release, pipeVars
<1>5. EndInv(Readers, readopen)' /\ EndInv(Writers, writeopen)'
  BY DEF PInv, TypeOK, EndInv, CallInv, Inside, ReadSleep, Move, Release, pipeVars
<1>6. FreeInv'
  BY DEF PInv, TypeOK, FreeInv, EndInv, ReadSleep, Move, Release, pipeVars
<1>7. WriterInv'
  BY DEF PInv, TypeOK, LockInv, Locked, WriterInv, SeenInv, Full, ReadSleep, Move, Release, pipeVars
<1>8. ReaderInv'
  BY DEF PInv, TypeOK, LockInv, CallInv, Locked, Inside, SeenInv, EndInv, ReaderInv, Empty, ReadSleep, Move, Release, pipeVars
<1>. QED  BY <1>1, <1>2, <1>3, <1>4, <1>5, <1>6, <1>7, <1>8 DEF PInv

\* piperead() takes bytes and wakes the writers; readers sleep only if there were none.
LEMMA ReadDonePInv ==
  ASSUME PInv, NEW p \in Readers, NEW n \in 0..MaxIO, ReadDone(p, n)
  PROVE  PInv'
<1>1. TypeOK'
  BY DEF PInv, TypeOK, ReadDone, MoveAndWake, Release
<1>2. LockInv'
  BY DEF PInv, TypeOK, LockInv, Locked, ReadDone, MoveAndWake, Release
<1>3. CallInv'
  BY DEF PInv, TypeOK, CallInv, Inside, ReadDone, MoveAndWake, Release
<1>4. SeenInv'
  BY DEF PInv, TypeOK, LockInv, Locked, SeenInv, Empty, ReadDone, MoveAndWake, Release
<1>5. EndInv(Readers, readopen)' /\ EndInv(Writers, writeopen)'
  BY DEF PInv, TypeOK, EndInv, CallInv, Inside, ReadDone, MoveAndWake, Release
<1>6. FreeInv'
  BY DEF PInv, TypeOK, FreeInv, EndInv, ReadDone, MoveAndWake, Release
<1>7. WriterInv'
  BY DEF PInv, TypeOK, LockInv, Locked, WriterInv, SeenInv, Full, ReadDone, MoveAndWake, Release
<1>8. ReaderInv'
  BY DEF PInv, TypeOK, LockInv, CallInv, Locked, Inside, SeenInv, EndInv, ReaderInv, Empty, ReadDone, MoveAndWake, Release
<1>. QED  BY <1>1, <1>2, <1>3, <1>4, <1>5, <1>6, <1>7, <1>8 DEF PInv

\* A descriptor is closed, perhaps the last one of its end.
LEMMA ClosePInv ==
  ASSUME PInv, NEW p \in Users, Close(p)
  PROVE  PInv'
<1>1. TypeOK'
  BY DEF PInv, TypeOK, Close, Move, pipeVars
<1>2. LockInv'
  BY DEF PInv, TypeOK, LockInv, Locked, Close, Move, pipeVars
<1>3. CallInv'
  BY DEF PInv, TypeOK, CallInv, Inside, Close, Move, pipeVars
<1>4. SeenInv'
  BY DEF PInv, TypeOK, LockInv, Locked, SeenInv, Empty, Close, Move, pipeVars
<1>5. EndInv(Readers, readopen)' /\ EndInv(Writers, writeopen)'
  BY DEF PInv, TypeOK, EndInv, CallInv, Inside, Close, Move, pipeVars
<1>6. FreeInv'
  BY DEF PInv, TypeOK, FreeInv, EndInv, Close, Move, pipeVars
<1>7. WriterInv'
  BY DEF PInv, TypeOK, LockInv, Locked, WriterInv, SeenInv, Full, Close, Move, pipeVars
<1>8. ReaderInv'
  BY DEF PInv, TypeOK, LockInv, CallInv, Locked, Inside, SeenInv, EndInv, ReaderInv, Empty, Close, Move, pipeVars
<1>. QED  BY <1>1, <1>2, <1>3, <1>4, <1>5, <1>6, <1>7, <1>8 DEF PInv

\* pipeclose() closes an end and wakes those at the other.
LEMMA PipeClosePInv ==
  ASSUME PInv, NEW p \in Users, PipeClose(p)
  PROVE  PInv'
<1>1. TypeOK'
  BY DEF PInv, TypeOK, PipeClose, MoveAndWake
<1>2. LockInv'
  BY DEF PInv, TypeOK, LockInv, Locked, PipeClose, MoveAndWake
<1>3. CallInv'
  BY DEF PInv, TypeOK, CallInv, Inside, PipeClose, MoveAndWake
<1>4. SeenInv'
  BY DEF PInv, TypeOK, LockInv, Locked, SeenInv, Empty, PipeClose, MoveAndWake
<1>5. EndInv(Readers, readopen)' /\ EndInv(Writers, writeopen)'
  BY DEF PInv, TypeOK, EndInv, CallInv, Inside, PipeClose, MoveAndWake
<1>6. FreeInv'
  BY DEF PInv, TypeOK, FreeInv, EndInv, PipeClose, MoveAndWake
<1>7. WriterInv'
  BY DEF PInv, TypeOK, LockInv, Locked, WriterInv, SeenInv, Full, PipeClose, MoveAndWake
<1>8. ReaderInv'
  BY DEF PInv, TypeOK, LockInv, CallInv, Locked, Inside, SeenInv, EndInv, ReaderInv, Empty, PipeClose, MoveAndWake
<1>. QED  BY <1>1, <1>2, <1>3, <1>4, <1>5, <1>6, <1>7, <1>8 DEF PInv

\* The page is freed.
LEMMA FreePInv ==
  ASSUME PInv, NEW p \in Users, Free(p)
  PROVE  PInv'
<1>1. TypeOK'
  BY DEF PInv, TypeOK, Free, Move, pipeVars
<1>2. LockInv'
  BY DEF PInv, TypeOK, LockInv, Locked, Free, Move, pipeVars
<1>3. CallInv'
  BY DEF PInv, TypeOK, CallInv, Inside, Free, Move, pipeVars
<1>4. SeenInv'
  BY DEF PInv, TypeOK, LockInv, Locked, SeenInv, Empty, Free, Move, pipeVars
<1>5. EndInv(Readers, readopen)' /\ EndInv(Writers, writeopen)'
  BY DEF PInv, TypeOK, EndInv, CallInv, Inside, Free, Move, pipeVars
<1>6. FreeInv'
  BY DEF PInv, TypeOK, FreeInv, EndInv, Free, Move, pipeVars
<1>7. WriterInv'
  BY DEF PInv, TypeOK, LockInv, Locked, WriterInv, SeenInv, Full, Free, Move, pipeVars
<1>8. ReaderInv'
  BY DEF PInv, TypeOK, LockInv, CallInv, Locked, Inside, SeenInv, EndInv, ReaderInv, Empty, Free, Move, pipeVars
<1>. QED  BY <1>1, <1>2, <1>3, <1>4, <1>5, <1>6, <1>7, <1>8 DEF PInv

\* kill() sends a sleeper back for the lock.
LEMMA KillPInv ==
  ASSUME PInv, NEW p \in Users, Kill(p)
  PROVE  PInv'
<1>1. TypeOK'
  BY DEF PInv, TypeOK, Kill, Move, pipeVars
<1>2. LockInv'
  BY DEF PInv, TypeOK, LockInv, Locked, Kill, Move, pipeVars
<1>3. CallInv'
  BY DEF PInv, TypeOK, CallInv, Inside, Kill, Move, pipeVars
<1>4. SeenInv'
  BY DEF PInv, TypeOK, LockInv, Locked, SeenInv, Empty, Kill, Move, pipeVars
<1>5. EndInv(Readers, readopen)' /\ EndInv(Writers, writeopen)'
  BY DEF PInv, TypeOK, EndInv, CallInv, Inside, Kill, Move, pipeVars
<1>6. FreeInv'
  BY DEF PInv, TypeOK, FreeInv, EndInv, Kill, Move, pipeVars
<1>7. WriterInv'
  BY DEF PInv, TypeOK, LockInv, Locked, WriterInv, SeenInv, Full, Kill, Move, pipeVars
<1>8. ReaderInv'
  BY DEF PInv, TypeOK, LockInv, CallInv, Locked, Inside, SeenInv, EndInv, ReaderInv, Empty, Kill, Move, pipeVars
<1>. QED  BY <1>1, <1>2, <1>3, <1>4, <1>5, <1>6, <1>7, <1>8 DEF PInv

\* Every step preserves the invariant.
LEMMA NextPInv == PInv /\ [Next]_vars => PInv'
<1> SUFFICES ASSUME PInv, [Next]_vars PROVE PInv'
  OBVIOUS
<1>1. CASE UNCHANGED vars
  <2>1. /\ data' = data /\ nread' = nread /\ nwrite' = nwrite /\ readopen' = readopen
        /\ writeopen' = writeopen /\ lock' = lock /\ holders' = holders /\ freed' = freed
        /\ pc' = pc /\ rest' = rest /\ killed' = killed
    BY <1>1 DEF vars, pipeVars, procVars
  <2>. QED  BY <2>1 DEF PInv, TypeOK, LockInv, CallInv, SeenInv, EndInv, FreeInv, WriterInv,
                        ReaderInv, Full, Empty
<1>2. ASSUME NEW p \in Users, NEW n \in 0..MaxIO, Call(p, n) PROVE PInv'
  BY <1>2, CallPInv
<1>3. ASSUME NEW p \in Users, Close(p) \/ Kill(p) PROVE PInv'
  BY <1>3, ClosePInv, KillPInv
<1>4. ASSUME NEW p \in Users, CallStep(p) PROVE PInv'
  <2>1. CASE Acquire(p) \/ PipeClose(p) \/ Free(p)
    BY <2>1, AcquirePInv, PipeClosePInv, FreePInv
  <2>2. CASE p \in Writers /\ (WriteFail(p) \/ WriteGoOn(p) \/ WriteSleep(p) \/ WriteDone(p))
    BY <2>2, WriteFailPInv, WriteGoOnPInv, WriteSleepPInv, WriteDonePInv
  <2>3. CASE p \in Writers /\ \E b \in Bytes : WriteByte(p, b)
    BY <2>3, WriteBytePInv
  <2>4. CASE p \in Readers /\ (ReadFail(p) \/ ReadWait(p) \/ ReadSleep(p))
    BY <2>4, ReadFailPInv, ReadWaitPInv, ReadSleepPInv
  <2>5. CASE p \in Readers /\ \E n \in 0..MaxIO : ReadDone(p, n)
    BY <2>5, ReadDonePInv
  <2>. QED  BY <1>4, <2>1, <2>2, <2>3, <2>4, <2>5 DEF CallStep
<1>. QED  BY <1>1, <1>2, <1>3, <1>4 DEF Next

\* The inductive invariant holds always.
THEOREM PipeInvariant == Spec => []PInv
<1>1. Init => PInv
  BY InitPInv
<1>2. PInv /\ [Next]_vars => PInv'
  BY NextPInv
<1>. QED  BY <1>1, <1>2, PTL DEF Spec

\* The counters, flags and program points of pipe.c keep their types, whatever
\* wraps around.
THEOREM PipeTypes == Spec => []TypeOK
<1>1. PInv => TypeOK
  BY DEF PInv
<1>. QED  BY <1>1, PipeInvariant, PTL

\* No writer sleeps in pipewrite() while there is room or after the last reader left.
THEOREM WritersAreWoken == Spec => []NoWriterMissed
<1>1. PInv => NoWriterMissed
  BY DEF PInv, WriterInv, NoWriterMissed
<1>. QED  BY <1>1, PipeInvariant, PTL

\* If no writer is killed, no reader sleeps in piperead() over bytes, or after the
\* last writer left.  (The run pipe_kill shows that the condition is needed.)
THEOREM ReadersAreWoken ==
  ASSUME Killable \cap Writers = {}
  PROVE  Spec => []NoReaderMissed
<1>1. PInv => NoReaderMissed
  BY DEF PInv, ReaderInv, NoReaderMissed
<1>. QED  BY <1>1, PipeInvariant, PTL

\* pipeclose() frees the page once, when both ends are closed and nobody is inside.
THEOREM PageIsFreedLast == Spec => []FreedLast
<1>1. PInv => FreedLast
  <2> SUFFICES ASSUME PInv PROVE FreedLast
    OBVIOUS
  <2>1. freed <= 1
    BY DEF PInv, FreeInv
  <2>2. ASSUME freed = 1, NEW p \in Users PROVE pc[p] = "user"
    <3>1. readopen = 0 /\ writeopen = 0 /\ pc[p] # "kfree"
      BY <2>2 DEF PInv, FreeInv
    <3>2. p \notin holders /\ pc[p] # "closing"
      BY <3>1 DEF PInv, EndInv
    <3>. QED  BY <3>1, <3>2 DEF PInv, TypeOK, CallInv, Inside
  <2>. QED  BY <2>1, <2>2 DEF PInv, FreeInv, FreedLast
<1>. QED  BY <1>1, PipeInvariant, PTL

-----------------------------------------------------------------------------
(* The pipe implements the queue *)

\* No more bytes than fit, by the difference of the counters.
CountInv == Count <= PIPESIZE

\* The difference of the counters, without remainders.
LEMMA CountIs ==
  ASSUME NEW x \in 0..(UINT - 1), NEW y \in 0..(UINT - 1)
  PROVE  (y + UINT - x) % UINT = IF x <= y THEN y - x ELSE y + UINT - x
BY SMT

\* The step of a counter by no more than a turn, without remainders.
LEMMA StepIs ==
  ASSUME NEW x \in 0..(UINT - 1), NEW n \in 0..UINT
  PROVE  (x + n) % UINT = IF x + n < UINT THEN x + n ELSE x + n - UINT
BY SMT

\* The queue of the ring: a byte per count, and the write counter after the last.
queue == [i \in 1..Count |-> data[(nread + i - 1) % PIPESIZE]]

\* The queue is as long as the count says, and the next byte goes behind its end.
LEMMA CountFacts ==
  ASSUME TypeOK
  PROVE  /\ Count \in 0..(UINT - 1)
         /\ Len(queue) = Count
         /\ queue \in Seq(Bytes)
         /\ nwrite % PIPESIZE = (nread + Count) % PIPESIZE
<1>1. Count \in 0..(UINT - 1) /\ nwrite = (nread + Count) % UINT
  <2>1. nread \in 0..(UINT - 1) /\ nwrite \in 0..(UINT - 1)
    BY DEF TypeOK
  <2>2. Count = IF nread <= nwrite THEN nwrite - nread ELSE nwrite + UINT - nread
    BY <2>1, CountIs DEF Count
  <2>3. Count \in 0..(UINT - 1)
    BY <2>1, <2>2
  <2>4. (nread + Count) % UINT = IF nread + Count < UINT THEN nread + Count ELSE nread + Count - UINT
    BY <2>1, <2>3, StepIs
  <2>. QED  BY <2>1, <2>2, <2>3, <2>4
<1>2. queue \in Seq(Bytes) /\ Len(queue) = Count
  <2>1. ASSUME NEW i \in 1..Count PROVE (nread + i - 1) % PIPESIZE \in 0..(PIPESIZE - 1)
    <3>1. nread + i - 1 \in Nat
      BY <1>1 DEF TypeOK
    <3>. QED  BY <3>1, DivMod
  <2>2. queue \in [1..Count -> Bytes]
    BY <2>1 DEF queue, TypeOK
  <2>. QED  BY <1>1, <2>2 DEF queue
<1>3. nread + Count \in Nat
  BY <1>1 DEF TypeOK
<1>4. nwrite % PIPESIZE = (nread + Count) % PIPESIZE
  BY <1>1, <1>3, ModMod
<1>. QED  BY <1>1, <1>2, <1>4

\* pipewrite() puts a byte behind the others, in a cell that none of them has.
LEMMA WriteAppends ==
  ASSUME PInv, CountInv, NEW p \in Writers, NEW b \in Bytes, WriteByte(p, b)
  PROVE  Count < PIPESIZE /\ CountInv' /\ queue' = Append(queue, b)
<1>1. TypeOK /\ TypeOK'
  BY WriteBytePInv DEF PInv
<1>2. /\ ~Full /\ nread' = nread /\ nwrite' = (nwrite + 1) % UINT
      /\ data' = [data EXCEPT ![nwrite % PIPESIZE] = b]
  BY DEF WriteByte
<1>3. Count < PIPESIZE /\ Count' = Count + 1
  <2>1. /\ nread \in 0..(UINT - 1) /\ nwrite \in 0..(UINT - 1)
        /\ nread' \in 0..(UINT - 1) /\ nwrite' \in 0..(UINT - 1)
    BY <1>1 DEF TypeOK
  <2>2. /\ Count = IF nread <= nwrite THEN nwrite - nread ELSE nwrite + UINT - nread
        /\ Count' = IF nread' <= nwrite' THEN nwrite' - nread' ELSE nwrite' + UINT - nread'
    BY <2>1, CountIs DEF Count
  <2>3. nwrite' = IF nwrite + 1 < UINT THEN nwrite + 1 ELSE nwrite + 1 - UINT
    BY <1>2, <2>1, StepIs
  <2>4. nwrite # IF nread + PIPESIZE < UINT THEN nread + PIPESIZE ELSE nread + PIPESIZE - UINT
    <3>1. PIPESIZE \in 0..UINT
      BY SMT
    <3>2. (nread + PIPESIZE) % UINT =
            IF nread + PIPESIZE < UINT THEN nread + PIPESIZE ELSE nread + PIPESIZE - UINT
      BY <2>1, <3>1, StepIs
    <3>. QED  BY <1>2, <3>2 DEF Full
  <2>. QED  BY <1>2, <2>1, <2>2, <2>3, <2>4 DEF CountInv
<1>4. Count \in Nat /\ Len(queue) = Count /\ queue \in Seq(Bytes) /\ nread \in Nat
  BY <1>1, CountFacts DEF TypeOK
<1>5. ASSUME NEW i \in 1..Count
      PROVE  data'[(nread + i - 1) % PIPESIZE] = data[(nread + i - 1) % PIPESIZE]
  <2>1. nread + i - 1 \in Nat /\ nread + Count \in Nat
    BY <1>4
  <2> DEFINE x == nread + i - 1
             y == nread + Count
  <2>2. x \in Nat /\ y \in Nat /\ x # y /\ x <= y /\ y < x + PIPESIZE
    BY <1>3, <1>4, <2>1
  <2> HIDE DEF x, y
  <2>3. x % PIPESIZE # y % PIPESIZE
    <3>1. PIPESIZE \in Nat \ {0}
      OBVIOUS
    <3>2. x % PIPESIZE = y % PIPESIZE => x = y
      BY <2>2, <3>1, ModInjective, Zenon
    <3>. QED  BY <2>2, <3>2
  <2> USE DEF x, y
  <2>. QED  BY <1>1, <1>2, <2>3, CountFacts DEF TypeOK
<1>6. data'[(nread + (Count + 1) - 1) % PIPESIZE] = b
  <2>3. nwrite \in Nat
    BY <1>1 DEF TypeOK
  <2>1. nwrite % PIPESIZE \in 0..(PIPESIZE - 1)
    BY <2>3, DivMod
  <2>2. nread + (Count + 1) - 1 = nread + Count
    BY <1>4
  <2>. QED  BY <1>1, <1>2, <2>1, <2>2, CountFacts DEF TypeOK
<1>7. queue' = [i \in 1..(Count + 1) |-> data'[(nread + i - 1) % PIPESIZE]]
  BY <1>2, <1>3 DEF queue
<1>8. ASSUME NEW i \in 1..(Count + 1)
      PROVE  data'[(nread + i - 1) % PIPESIZE] = IF i <= Count THEN queue[i] ELSE b
  <2>1. CASE i <= Count
    <3>1. i \in 1..Count
      BY <1>4, <2>1
    <3>. QED  BY <1>5, <2>1, <3>1 DEF queue
  <2>2. CASE i = Count + 1
    BY <1>4, <1>6, <2>2
  <2>. QED  BY <1>4, <2>1, <2>2
<1>9. /\ Append(queue, b) \in [1..(Count + 1) -> Bytes]
      /\ \A i \in 1..(Count + 1) : Append(queue, b)[i] = IF i <= Count THEN queue[i] ELSE b
  <2> DEFINE q == queue
             k == Count
  <2>1. q \in Seq(Bytes) /\ Len(q) = k /\ k \in Nat
    BY <1>4
  <2> HIDE DEF q, k
  <2>2. Append(q, b) \in Seq(Bytes) /\ Len(Append(q, b)) = k + 1
    BY <2>1, AppendProperties
  <2>3. Append(q, b) \in [1..(k + 1) -> Bytes]
    BY <2>2, LenProperties
  <2>4. \A i \in 1..(k + 1) : Append(q, b)[i] = IF i <= k THEN q[i] ELSE b
    BY <2>1, AppendProperties
  <2>. QED  BY <2>3, <2>4 DEF q, k
<1>10. queue' = Append(queue, b)
  BY <1>7, <1>8, <1>9
<1>. QED  BY <1>3, <1>4, <1>10 DEF CountInv

\* piperead() takes the first n bytes.
LEMMA ReadTakes ==
  ASSUME PInv, CountInv, NEW p \in Readers, NEW n \in 0..MaxIO, ReadDone(p, n)
  PROVE  /\ CountInv' /\ n <= Len(queue)
         /\ queue' = SubSeq(queue, n + 1, Len(queue))
<1>1. TypeOK /\ TypeOK'
  BY ReadDonePInv DEF PInv
<1>2. n <= Count /\ nread' = (nread + n) % UINT /\ nwrite' = nwrite /\ data' = data
  BY DEF ReadDone
<1>3. Count \in 0..(UINT - 1) /\ Len(queue) = Count /\ queue \in Seq(Bytes) /\ nread \in Nat
  BY <1>1, CountFacts DEF TypeOK
<1>4. Count' = Count - n
  <2>1. /\ nread \in 0..(UINT - 1) /\ nwrite \in 0..(UINT - 1)
        /\ nread' \in 0..(UINT - 1) /\ nwrite' \in 0..(UINT - 1)
    BY <1>1 DEF TypeOK
  <2>2. /\ Count = IF nread <= nwrite THEN nwrite - nread ELSE nwrite + UINT - nread
        /\ Count' = IF nread' <= nwrite' THEN nwrite' - nread' ELSE nwrite' + UINT - nread'
    BY <2>1, CountIs DEF Count
  <2>3. nread' = IF nread + n < UINT THEN nread + n ELSE nread + n - UINT
    BY <1>2, <1>3, <2>1, StepIs
  <2>. QED  BY <1>2, <1>3, <2>1, <2>2, <2>3
<1>5. queue' = [i \in 1..(Count - n) |-> data[(nread' + i - 1) % PIPESIZE]]
  BY <1>2, <1>4 DEF queue
<1>6. SubSeq(queue, n + 1, Len(queue)) = [i \in 1..(Count - n) |-> queue[n + i]]
  BY <1>2, <1>3
<1>7. ASSUME NEW i \in 1..(Count - n)
      PROVE  data[(nread' + i - 1) % PIPESIZE] = queue[n + i]
  <2> DEFINE x == nread + n
             y == i - 1
  <2>1. x \in Nat /\ y \in Nat /\ n + i \in 1..Count
    BY <1>2, <1>3
  <2> HIDE DEF x, y
  <2>2. ((x % UINT) + y) % PIPESIZE = (x + y) % PIPESIZE
    <3>1. PIPESIZE \in Nat \ {0} /\ UINT \in Nat \ {0} /\ UINT % PIPESIZE = 0
      OBVIOUS
    <3>. QED  BY <2>1, <3>1, ModPlus, Zenon
  <2> USE DEF x, y
  <2>3. (nread + n) + (i - 1) = nread + (n + i) - 1
    BY <1>3, <2>1
  <2>4. nread' + i - 1 = ((nread + n) % UINT) + (i - 1)
    BY <1>1, <1>2 DEF TypeOK
  <2>. QED  BY <2>1, <2>2, <2>3, <2>4 DEF queue
<1>8. queue' = SubSeq(queue, n + 1, Len(queue))
  BY <1>5, <1>6, <1>7, Zenon
<1>. QED  BY <1>2, <1>3, <1>4, <1>8 DEF CountInv

\* What a step does to the queue and the two ends.
Queued == /\ queue' = queue /\ readopen' = readopen /\ writeopen' = writeopen /\ Count' = Count

\* Every step is a step of the queue or is not seen, and keeps the count.
LEMMA StepQueue ==
  ASSUME PInv, CountInv, [Next]_vars
  PROVE  CountInv' /\ [Queue!Next]_(Queue!vars)
<1> DEFINE abs == <<queue, readopen, writeopen>>
<1>1. ASSUME Queued PROVE CountInv' /\ [Queue!Next]_(Queue!vars)
  BY <1>1 DEF Queued, CountInv, Queue!vars, queue
<1>2. ASSUME UNCHANGED pipeVars PROVE Queued
  BY <1>2 DEF pipeVars, Queued, queue, Count
<1>3. CASE UNCHANGED vars
  BY <1>1, <1>2, <1>3 DEF vars
<1>4. ASSUME NEW p \in Users, NEW n \in 0..MaxIO, Call(p, n) PROVE UNCHANGED pipeVars
  BY <1>4 DEF Call
<1>5. ASSUME NEW p \in Users, Close(p) \/ Kill(p) \/ Acquire(p) \/ Free(p) PROVE UNCHANGED pipeVars
  BY <1>5 DEF Close, Kill, Acquire, Free
<1>6. ASSUME NEW p \in Users, WriteFail(p) \/ WriteGoOn(p) \/ WriteSleep(p) \/ WriteDone(p)
      PROVE  UNCHANGED pipeVars
  BY <1>6 DEF WriteFail, WriteGoOn, WriteSleep, WriteDone
<1>7. ASSUME NEW p \in Users, ReadFail(p) \/ ReadWait(p) \/ ReadSleep(p) PROVE UNCHANGED pipeVars
  BY <1>7 DEF ReadFail, ReadWait, ReadSleep
<1>8. ASSUME NEW p \in Writers, NEW b \in Bytes, WriteByte(p, b)
      PROVE  CountInv' /\ [Queue!Next]_(Queue!vars)
  <2>1. readopen = 1 /\ writeopen = 1
    BY <1>8 DEF PInv, TypeOK, CallInv, Inside, SeenInv, EndInv, WriteByte
  <2>2. readopen' = readopen /\ writeopen' = writeopen
    BY <1>8 DEF WriteByte
  <2>3. Count < PIPESIZE /\ CountInv' /\ queue' = Append(queue, b) /\ Len(queue) = Count
    BY <1>8, WriteAppends, CountFacts DEF PInv
  <2>4. Queue!Put(b)
    BY <2>1, <2>2, <2>3 DEF Queue!Put, queue
  <2>. QED  BY <2>3, <2>4 DEF Queue!Next
<1>9. ASSUME NEW p \in Readers, NEW n \in 0..MaxIO, ReadDone(p, n)
      PROVE  CountInv' /\ [Queue!Next]_(Queue!vars)
  <2>1. readopen = 1
    BY <1>9 DEF PInv, TypeOK, CallInv, Inside, EndInv, ReadDone
  <2>2. readopen' = readopen /\ writeopen' = writeopen
    BY <1>9 DEF ReadDone
  <2>3. /\ CountInv' /\ n <= Len(queue) /\ queue' = SubSeq(queue, n + 1, Len(queue))
        /\ queue \in Seq(Bytes)
    BY <1>9, ReadTakes, CountFacts DEF PInv
  <2>4. CASE n = 0
    <3>1. queue' = queue
      BY <2>3, <2>4
    <3>. QED  BY <2>2, <2>3, <3>1 DEF Queue!vars, queue
  <2>5. CASE n # 0
    <3>1. n \in 1..Len(queue)
      BY <2>3, <2>5
    <3>2. Queue!Take(n)
      BY <2>1, <2>2, <2>3 DEF Queue!Take, queue
    <3>. QED  BY <2>3, <3>1, <3>2 DEF Queue!Next, queue
  <2>. QED  BY <2>4, <2>5
<1>10. ASSUME NEW p \in Users, PipeClose(p) PROVE CountInv' /\ [Queue!Next]_(Queue!vars)
  <2>1. data' = data /\ nread' = nread /\ nwrite' = nwrite
    BY <1>10 DEF PipeClose
  <2>2. queue' = queue /\ Count' = Count
    BY <2>1 DEF queue, Count
  <2>3. CASE p \in Writers
    <3>1. writeopen = 1 /\ writeopen' = 0 /\ readopen' = readopen
      BY <1>10, <2>3 DEF PInv, TypeOK, EndInv, PipeClose
    <3>2. Queue!CloseWrite
      BY <2>2, <3>1 DEF Queue!CloseWrite, queue
    <3>. QED  BY <2>2, <3>2 DEF Queue!Next, CountInv
  <2>4. CASE p \notin Writers
    <3>1. readopen = 1 /\ readopen' = 0 /\ writeopen' = writeopen
      BY <1>10, <2>4 DEF PInv, TypeOK, EndInv, PipeClose
    <3>2. Queue!CloseRead
      BY <2>2, <3>1 DEF Queue!CloseRead, queue
    <3>. QED  BY <2>2, <3>2 DEF Queue!Next, CountInv
  <2>. QED  BY <2>3, <2>4
<1>. QED  BY <1>1, <1>2, <1>3, <1>4, <1>5, <1>6, <1>7, <1>8, <1>9, <1>10 DEF Next, CallStep

\* The empty pipe is the empty queue.
LEMMA InitQueue == Init => CountInv /\ Queue!Init
<1> SUFFICES ASSUME Init PROVE CountInv /\ Queue!Init
  OBVIOUS
<1>1. Count = 0
  BY CountIs DEF Init, Count
<1>2. queue = <<>>
  BY <1>1 DEF queue
<1>. QED  BY <1>1, <1>2 DEF CountInv, Queue!Init, queue, Init

\* The ring of pipe.c is a bounded FIFO queue, for every size of the ring that divides
\* the range of its counters: bytes come out once each and in order, over any number of turns.
THEOREM PipeIsFifo == Spec => ImplementsFifo
<1>1. Init => CountInv /\ Queue!Init
  BY InitQueue
<1>2. PInv /\ CountInv /\ [Next]_vars => CountInv' /\ [Queue!Next]_(Queue!vars)
  BY StepQueue
<1>. QED  BY <1>1, <1>2, PipeInvariant, PTL DEF Spec, ImplementsFifo, Queue!Spec
=============================================================================
