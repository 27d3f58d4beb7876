---------------------------- MODULE FilesProofs ----------------------------
(***************************************************************************)
(* Proofs about inodes and open files for any number of processes, inodes, *)
(* blocks, names and table entries, any programs, and any crashes: the     *)
(* counts of the inode table and of the file table are exact, what the     *)
(* inode table holds of an unlocked inode is what the disk holds, inode    *)
(* locks are never waited for in a circle, each block has one owner, and   *)
(* the calls panic in three ways only.                                     *)
(*                                                                         *)
(* A process passes its references from one local variable to another, to  *)
(* its current directory and to open files.  The first invariant says      *)
(* which of the variables hold one at each point of a call, and counts     *)
(* them; those of the locks and the cache, of the tree of names and of the *)
(* blocks build on it.                                                     *)
(***************************************************************************)
EXTENDS Files, ModArith, FiniteSetTheorems, WellFoundedInduction, TLAPS

-----------------------------------------------------------------------------
(* Types *)

Elems == Entries \cup {"."}
Inums0 == Inums \cup {NoIno}
Types == {"free", "dir", "dev", "file"}
Inode == [type : Types, nlink : Int, addrs : SUBSET Blocks, size : Int]
Entry == [ref : Nat, valid : BOOLEAN, d : Inode]
OpenFile == [ref : Nat, ip : Inums0, writable : BOOLEAN]

\* The points of iput(), and those of the calls.
Putting == {"iput", "itrunc", "ifree", "invalid", "drop"}
Points ==
  {"user", "exit", "namei", "nameiparent", "create", "createfound", "ialloc", "iget",
   "createinit", "dirlink", "createfail", "dropparent", "made", "opened", "unlink",
   "unlinklock", "unlinkdec", "link", "linkdrop", "linkbad", "linkput"}

\* Where iput() may return to: not to the points where create() is making an entry or has
\* failed to, nor where unlink() has found one.
Returns == Points \ {"ialloc", "iget", "createinit", "dirlink", "createfail", "unlinklock"}

Calls == {[op |-> "none"]}
         \cup UNION {UNION {Programs[k][p] : p \in Procs} : k \in DOMAIN Programs}
Thread == [pc : Points \cup Putting, call : Calls, path : Seq(Elems), name : Elems, ip : Inums0,
           dp : Inums0, old : Inums0, put : Inums0, ret : Returns]

DiskTypes == /\ dinode \in [Inums -> Inode] /\ bitmap \subseteq Blocks
             /\ ents \in [Inums -> [Entries -> Inums0]]
LockTypes == ilk \in [Inums -> Procs \cup {Nobody}]
UserTypes == /\ file \in [1..NFILE -> OpenFile] /\ ofile \in [Procs -> [FDs -> 0..NFILE]]
             /\ cwd \in [Procs -> Inums0] /\ prog \in DOMAIN Programs
TypeInv == /\ DiskTypes /\ LockTypes /\ UserTypes
           /\ itab \in [Inums -> Entry] /\ th \in [Procs -> Thread]

-----------------------------------------------------------------------------
(* Which variables hold a reference *)

\* Where a call is, or will be when iput() returns.
Point(t) == IF t.pc \in Putting THEN t.ret ELSE t.pc

HaveIp == {"namei", "nameiparent", "createfound", "iget", "createinit", "dirlink", "createfail",
           "made", "opened", "unlinklock", "unlinkdec"}
HaveDp == {"create", "ialloc", "iget", "createinit", "dirlink", "createfail", "dropparent",
           "unlink", "unlinklock", "link", "linkdrop"}
HaveOld == {"link", "linkdrop", "linkbad", "linkput"}

\* The variables in use at a point of call op.
ThreadOk(t) ==
  /\ t.ip \in Inums <=> Point(t) \in HaveIp
  /\ t.dp \in Inums <=> Point(t) \in HaveDp
  /\ t.old \in Inums <=> \/ Point(t) \in HaveOld
                         \/ Point(t) = "nameiparent" /\ t.call.op = "link"
  /\ t.put \in Inums <=> t.pc \in Putting
  /\ t.pc \notin Putting => t.ret = "user"
  /\ Point(t) = "nameiparent" => t.call.op \in {"mkdir", "mknod", "creat", "unlink", "link"}
ControlInv == \A p \in Procs : ThreadOk(th[p])

\* A slot without a process has no files and makes no call.
GoneInv == \A p \in Procs : cwd[p] = NoIno =>
             /\ Point(th[p]) = "user"
             /\ \A fd \in FDs : ofile[p][fd] = 0

\* A file that is open has an inode.
FileIno(f) == IF f.ref > 0 THEN f.ip ELSE NoIno
FileInv == \A f \in 1..NFILE : file[f].ref > 0 => file[f].ip \in Inums

\* What each place of memory points to.  (At "iget" the inode number is no reference yet.)
Held(t, v) == IF v = "ip" /\ t.pc = "iget" THEN NoIno
              ELSE IF v = "ip" THEN t.ip ELSE IF v = "dp" THEN t.dp
              ELSE IF v = "old" THEN t.old ELSE t.put
Vars == {"ip", "dp", "old", "put"}
Places == (Procs \X (Vars \cup {"cwd"})) \cup ((1..NFILE) \X {"file"})
Ptr == [h \in Places |-> IF h[2] = "file" THEN FileIno(file[h[1]])
                         ELSE IF h[2] = "cwd" THEN cwd[h[1]] ELSE Held(th[h[1]], h[2])]
Fd == [h \in Procs \X FDs |-> ofile[h[1]][h[2]]]

Count(f, i) == Cardinality({h \in DOMAIN f : f[h] = i})
RefInv == \A i \in Inums : itab[i].ref = Count(Ptr, i)
FdInv == \A f \in 1..NFILE : file[f].ref = Count(Fd, f)

FInv == TypeInv /\ ControlInv /\ GoneInv /\ FileInv /\ RefInv /\ FdInv

-----------------------------------------------------------------------------
(* Counting *)

One(x, i) == IF x = i THEN 1 ELSE 0
Swap(n, old, new) == n - old + new
Put(f, h, x) == [f EXCEPT ![h] = x]
Finite(f) == IsFiniteSet(DOMAIN f)
PlaceOf(f, h) == Finite(f) /\ h \in DOMAIN f

\* A finite function points to something a number of times.
LEMMA CountType ==
  ASSUME NEW f, NEW i, Finite(f)
  PROVE  /\ IsFiniteSet({h \in DOMAIN f : f[h] = i})
         /\ Count(f, i) \in Nat
         /\ Count(f, i) = 0 <=> \A h \in DOMAIN f : f[h] # i
<1> DEFINE S == {h \in DOMAIN f : f[h] = i}
<1>1. IsFiniteSet(S)
  BY FS_Subset DEF Finite
<1>2. Count(f, i) = Cardinality(S)
  BY DEF Count
<1>3. Cardinality(S) \in Nat /\ (Cardinality(S) = 0 <=> S = {})
  BY <1>1, FS_CardinalityType, FS_EmptySet
<1>. QED  BY <1>1, <1>2, <1>3

LEMMA CountNat == ASSUME NEW f, NEW i, Finite(f) PROVE Count(f, i) \in Nat
BY CountType

\* One place changes.
LEMMA CountChange ==
  ASSUME NEW f, NEW h, NEW x, NEW i, PlaceOf(f, h)
  PROVE  Count(Put(f, h, x), i) = Swap(Count(f, i), One(f[h], i), One(x, i))
<1>0. IsFiniteSet(DOMAIN f) /\ h \in DOMAIN f
  BY DEF PlaceOf, Finite
<1> DEFINE g == [f EXCEPT ![h] = x]
           S == {k \in DOMAIN f : f[k] = i}
           T == {k \in DOMAIN g : g[k] = i}
           R == S \ {h}
<1>1. IsFiniteSet(S) /\ Count(f, i) = Cardinality(S) /\ Count(f, i) \in Nat
  BY <1>0, CountType DEF Count, PlaceOf
<1>2. Count(g, i) = Cardinality(T)
  BY DEF Count
<1>3. DOMAIN g = DOMAIN f /\ g[h] = x /\ \A k \in DOMAIN f \ {h} : g[k] = f[k]
  BY <1>0
<1>4. IsFiniteSet(R) /\ Cardinality(R) \in Nat /\ h \notin R
  BY <1>1, FS_Subset, FS_CardinalityType
<1>5. Cardinality(S) = Cardinality(R) + One(f[h], i)
  <2>1. CASE f[h] = i
    <3>1. S = R \cup {h}
      BY <1>0, <2>1
    <3>2. Cardinality(R \cup {h}) = Cardinality(R) + 1
      BY <1>4, FS_AddElement
    <3>. QED  BY <2>1, <3>1, <3>2 DEF One
  <2>2. CASE f[h] # i
    <3>1. Cardinality(S) = Cardinality(R)
      BY <2>2
    <3>2. One(f[h], i) = 0
      BY <2>2 DEF One
    <3> HIDE DEF S, R
    <3>. QED  BY <1>4, <3>1, <3>2
  <2>. QED  BY <2>1, <2>2
<1>6. Cardinality(T) = Cardinality(R) + One(x, i)
  <2>1. CASE x = i
    <3>1. T = R \cup {h}
      BY <1>0, <1>3, <2>1
    <3>2. Cardinality(R \cup {h}) = Cardinality(R) + 1
      BY <1>4, FS_AddElement
    <3>. QED  BY <2>1, <3>1, <3>2 DEF One
  <2>2. CASE x # i
    <3>1. Cardinality(T) = Cardinality(R)
      BY <1>3, <2>2
    <3>2. One(x, i) = 0
      BY <2>2 DEF One
    <3> HIDE DEF T, R
    <3>. QED  BY <1>4, <3>1, <3>2
  <2>. QED  BY <2>1, <2>2
<1> HIDE DEF g, S, T, R
<1>7. One(f[h], i) \in Int /\ One(x, i) \in Int
  BY DEF One
<1>8. Count(g, i) = Swap(Count(f, i), One(f[h], i), One(x, i))
  BY <1>1, <1>2, <1>4, <1>5, <1>6, <1>7 DEF Swap
<1>. QED  BY <1>8 DEF g, Put

\* A set of numbers has a least one.
LEMMA MinIn ==
  ASSUME NEW S \in SUBSET Nat, S # {}
  PROVE  Min(S) \in S
<1>1. PICK i \in S : \A j \in S : ~(<<j, i>> \in OpToRel(<, Nat))
  BY NatLessThanWellFounded, WFMin
<1>2. ASSUME NEW j \in S PROVE i <= j
  <2>1. ~(<<j, i>> \in OpToRel(<, Nat)) /\ i \in Nat /\ j \in Nat
    BY <1>1
  <2>. QED  BY <2>1 DEF OpToRel
<1> DEFINE Least(k) == \A j \in S : k <= j
<1>3. \E k \in S : Least(k)
  BY <1>2
<1>4. Min(S) = CHOOSE k \in S : Least(k)
  BY DEF Min
<1> HIDE DEF Least
<1>5. (CHOOSE k \in S : Least(k)) \in S
  BY <1>3
<1>. QED  BY <1>4, <1>5

\* The places are finitely many.
LEMMA PlacesFinite == IsFiniteSet(Places) /\ DOMAIN Ptr = Places
<1>1. IsFiniteSet(Vars \cup {"cwd"}) /\ IsFiniteSet({"file"})
  <2>1. Vars \cup {"cwd"} = {"ip", "dp", "old", "put", "cwd"}
    BY DEF Vars
  <2>2. IsFiniteSet({"file"}) /\ IsFiniteSet({"ip"}) /\ IsFiniteSet({"dp"})
        /\ IsFiniteSet({"old"}) /\ IsFiniteSet({"put"}) /\ IsFiniteSet({"cwd"})
    BY FS_Singleton
  <2>3. IsFiniteSet({"ip"} \cup {"dp"} \cup {"old"} \cup {"put"} \cup {"cwd"})
    BY <2>2, FS_Union
  <2>4. Vars \cup {"cwd"} = {"ip"} \cup {"dp"} \cup {"old"} \cup {"put"} \cup {"cwd"}
    BY <2>1
  <2>. QED  BY <2>2, <2>3, <2>4
<1>2. IsFiniteSet(1..NFILE) /\ IsFiniteSet(Procs)
  BY FilesAssumption, FS_Interval
<1>3. IsFiniteSet(Procs \X (Vars \cup {"cwd"})) /\ IsFiniteSet((1..NFILE) \X {"file"})
  BY <1>1, <1>2, FS_Product
<1>. QED  BY <1>3, FS_Union DEF Places, Ptr

\* How often the variables of a process and its current directory point to i.
Uses(t, i) == One(Held(t, "ip"), i) + One(t.dp, i) + One(t.old, i) + One(t.put, i)
Local(t, c, i) == Uses(t, i) + One(c, i)

\* The places of process p after a step.
Moved(f, p, t, c) ==
  [f EXCEPT ![<<p, "ip">>] = Held(t, "ip"), ![<<p, "dp">>] = t.dp, ![<<p, "old">>] = t.old,
            ![<<p, "put">>] = t.put, ![<<p, "cwd">>] = c]

Apart(a, b, c, d, e) == b # a /\ c \notin {a, b} /\ d \notin {a, b, c} /\ e \notin {a, b, c, d}

\* Five places change.
LEMMA CountFive ==
  ASSUME NEW f, NEW i, NEW k1, NEW k2, NEW k3, NEW k4, NEW k5,
         NEW x1, NEW x2, NEW x3, NEW x4, NEW x5,
         Finite(f), {k1, k2, k3, k4, k5} \subseteq DOMAIN f, Apart(k1, k2, k3, k4, k5)
  PROVE  Count(Put(Put(Put(Put(Put(f, k1, x1), k2, x2), k3, x3), k4, x4), k5, x5), i) =
           Count(f, i)
           - (One(f[k1], i) + One(f[k2], i) + One(f[k3], i) + One(f[k4], i) + One(f[k5], i))
           + (One(x1, i) + One(x2, i) + One(x3, i) + One(x4, i) + One(x5, i))
<1>1. PICK f1 : f1 = Put(f, k1, x1)
  OBVIOUS
<1>2. PICK f2 : f2 = Put(f1, k2, x2)
  OBVIOUS
<1>3. PICK f3 : f3 = Put(f2, k3, x3)
  OBVIOUS
<1>4. PICK f4 : f4 = Put(f3, k4, x4)
  OBVIOUS
<1>5. PICK f5 : f5 = Put(f4, k5, x5)
  OBVIOUS
<1>6. DOMAIN f1 = DOMAIN f /\ f1[k2] = f[k2] /\ f1[k3] = f[k3] /\ f1[k4] = f[k4] /\ f1[k5] = f[k5]
  BY <1>1 DEF Apart, Put
<1>7. DOMAIN f2 = DOMAIN f /\ f2[k3] = f[k3] /\ f2[k4] = f[k4] /\ f2[k5] = f[k5]
  BY <1>2, <1>6 DEF Apart, Put
<1>8. DOMAIN f3 = DOMAIN f /\ f3[k4] = f[k4] /\ f3[k5] = f[k5]
  BY <1>3, <1>7 DEF Apart, Put
<1>9. DOMAIN f4 = DOMAIN f /\ f4[k5] = f[k5]
  BY <1>4, <1>8 DEF Apart, Put
<1>20. /\ PlaceOf(f, k1) /\ PlaceOf(f1, k2) /\ PlaceOf(f2, k3) /\ PlaceOf(f3, k4)
       /\ PlaceOf(f4, k5)
  BY <1>6, <1>7, <1>8, <1>9 DEF PlaceOf, Finite
<1>10. Count(f1, i) = Swap(Count(f, i), One(f[k1], i), One(x1, i))
  BY <1>1, <1>20, CountChange
<1>11. Count(f2, i) = Swap(Count(f1, i), One(f1[k2], i), One(x2, i))
  BY <1>2, <1>20, CountChange
<1>12. Count(f3, i) = Swap(Count(f2, i), One(f2[k3], i), One(x3, i))
  BY <1>3, <1>20, CountChange
<1>13. Count(f4, i) = Swap(Count(f3, i), One(f3[k4], i), One(x4, i))
  BY <1>4, <1>20, CountChange
<1>14. Count(f5, i) = Swap(Count(f4, i), One(f4[k5], i), One(x5, i))
  BY <1>5, <1>20, CountChange
<1>15. Count(f, i) \in Nat
  BY CountNat
<1>16. /\ One(f[k1], i) \in Int /\ One(f[k2], i) \in Int /\ One(f[k3], i) \in Int
       /\ One(f[k4], i) \in Int /\ One(f[k5], i) \in Int
       /\ One(x1, i) \in Int /\ One(x2, i) \in Int /\ One(x3, i) \in Int /\ One(x4, i) \in Int
       /\ One(x5, i) \in Int
  BY DEF One
<1>17. Count(f5, i) =
         Count(f, i)
         - (One(f[k1], i) + One(f[k2], i) + One(f[k3], i) + One(f[k4], i) + One(f[k5], i))
         + (One(x1, i) + One(x2, i) + One(x3, i) + One(x4, i) + One(x5, i))
  BY <1>6, <1>7, <1>8, <1>9, <1>10, <1>11, <1>12, <1>13, <1>14, <1>15, <1>16 DEF Swap
<1>. QED  BY <1>1, <1>2, <1>3, <1>4, <1>5, <1>17

LEMMA MovedCount ==
  ASSUME NEW f, DOMAIN f = Places, NEW p \in Procs, NEW t, NEW c, NEW i
  PROVE  Count(Moved(f, p, t, c), i) =
           Count(f, i) - (One(f[<<p, "ip">>], i) + One(f[<<p, "dp">>], i) + One(f[<<p, "old">>], i)
                          + One(f[<<p, "put">>], i) + One(f[<<p, "cwd">>], i))
           + Local(t, c, i)
<1>1. PICK k1, k2, k3, k4, k5 : /\ k1 = <<p, "ip">> /\ k2 = <<p, "dp">> /\ k3 = <<p, "old">>
                                /\ k4 = <<p, "put">> /\ k5 = <<p, "cwd">>
  OBVIOUS
<1>2. k1 \in Places /\ k2 \in Places /\ k3 \in Places /\ k4 \in Places /\ k5 \in Places
  BY <1>1 DEF Places, Vars
<1>3. Apart(k1, k2, k3, k4, k5)
  BY <1>1 DEF Apart
<1>4. PICK g : g = Put(Put(Put(Put(Put(f, k1, Held(t, "ip")), k2, t.dp), k3, t.old), k4, t.put), k5, c)
  OBVIOUS
<1>5. g = Moved(f, p, t, c)
  BY <1>1, <1>4 DEF Moved, Put
<1>6. Finite(f) /\ {k1, k2, k3, k4, k5} \subseteq DOMAIN f
  BY <1>2, PlacesFinite DEF Finite
<1>7. Count(g, i) =
        Count(f, i)
        - (One(f[k1], i) + One(f[k2], i) + One(f[k3], i) + One(f[k4], i) + One(f[k5], i))
        + (One(Held(t, "ip"), i) + One(t.dp, i) + One(t.old, i) + One(t.put, i) + One(c, i))
  BY <1>3, <1>4, <1>6, CountFive
<1>. QED  BY <1>1, <1>5, <1>7 DEF Local, Uses

\* What Ptr says.
PtrShape ==
  /\ \A q \in Procs : /\ Ptr[<<q, "ip">>] = Held(th[q], "ip") /\ Ptr[<<q, "dp">>] = th[q].dp
                      /\ Ptr[<<q, "old">>] = th[q].old /\ Ptr[<<q, "put">>] = th[q].put
                      /\ Ptr[<<q, "cwd">>] = cwd[q]
  /\ \A f \in 1..NFILE : Ptr[<<f, "file">>] = FileIno(file[f])

LEMMA PtrAt == PtrShape
<1>1. ASSUME NEW q \in Procs
      PROVE  /\ Ptr[<<q, "ip">>] = Held(th[q], "ip") /\ Ptr[<<q, "dp">>] = th[q].dp
             /\ Ptr[<<q, "old">>] = th[q].old /\ Ptr[<<q, "put">>] = th[q].put
             /\ Ptr[<<q, "cwd">>] = cwd[q]
  <2>1. /\ <<q, "ip">> \in Places /\ <<q, "dp">> \in Places /\ <<q, "old">> \in Places
        /\ <<q, "put">> \in Places /\ <<q, "cwd">> \in Places
    BY DEF Places, Vars
  <2>2. Ptr[<<q, "ip">>] = Held(th[q], "ip")
    BY <2>1 DEF Ptr
  <2>3. Ptr[<<q, "dp">>] = th[q].dp
    BY <2>1 DEF Ptr, Held
  <2>4. Ptr[<<q, "old">>] = th[q].old
    BY <2>1 DEF Ptr, Held
  <2>5. Ptr[<<q, "put">>] = th[q].put
    BY <2>1 DEF Ptr, Held
  <2>6. Ptr[<<q, "cwd">>] = cwd[q]
    BY <2>1 DEF Ptr
  <2>. QED  BY <2>2, <2>3, <2>4, <2>5, <2>6
<1>2. ASSUME NEW f \in 1..NFILE PROVE Ptr[<<f, "file">>] = FileIno(file[f])
  <2>1. <<f, "file">> \in Places
    BY DEF Places
  <2>. QED  BY <2>1 DEF Ptr
<1>. QED  BY <1>1, <1>2 DEF PtrShape

\* The places hold inode numbers.
LEMMA PtrType == TypeInv => Ptr \in [Places -> Inums0]
<1> SUFFICES ASSUME TypeInv PROVE Ptr \in [Places -> Inums0]
  OBVIOUS
<1>1. /\ th \in [Procs -> Thread] /\ cwd \in [Procs -> Inums0]
      /\ file \in [1..NFILE -> OpenFile]
  BY DEF TypeInv, UserTypes
<1>2. \A t \in Thread, v \in Vars : Held(t, v) \in Inums0
  BY DEF Held, Thread, Inums0
<1>3. \A f \in OpenFile : FileIno(f) \in Inums0
  BY DEF FileIno, OpenFile, Inums0
<1>4. ASSUME NEW h \in Places
      PROVE  (IF h[2] = "file" THEN FileIno(file[h[1]])
              ELSE IF h[2] = "cwd" THEN cwd[h[1]] ELSE Held(th[h[1]], h[2])) \in Inums0
  BY <1>1, <1>2, <1>3 DEF Places, Vars
<1>. QED  BY <1>4 DEF Ptr

\* A step of process p moves its own references, and at most that of one file.
FilePlace(m, f, x) == IF f = 0 THEN m ELSE Put(m, <<f, "file">>, x)

LEMMA PtrMoved ==
  ASSUME TypeInv, TypeInv', NEW p \in Procs, NEW t \in Thread, NEW c \in Inums0,
         th' = [th EXCEPT ![p] = t], cwd' = [cwd EXCEPT ![p] = c],
         NEW f \in 0..NFILE,
         \A g \in (1..NFILE) \ {f} : FileIno(file'[g]) = FileIno(file[g])
  PROVE  Ptr' = FilePlace(Moved(Ptr, p, t, c), f, FileIno(file'[f]))
<1>1. th \in [Procs -> Thread] /\ cwd \in [Procs -> Inums0]
  BY DEF TypeInv, UserTypes
<1>0. PICK m0 : m0 = Moved(Ptr, p, t, c)
  OBVIOUS
<1>2. PICK m : m = FilePlace(m0, f, FileIno(file'[f]))
  OBVIOUS
<1>3. PICK r : r = Ptr'
  OBVIOUS
<1>4. m \in [Places -> Inums0] /\ r \in [Places -> Inums0]
  <2>1. /\ Ptr \in [Places -> Inums0]
        /\ Held(t, "ip") \in Inums0 /\ t.dp \in Inums0 /\ t.old \in Inums0 /\ t.put \in Inums0
    BY PtrType DEF Held, Thread, Inums0
  <2>2. m0 \in [Places -> Inums0]
    BY <1>0, <2>1 DEF Moved
  <2>4. m \in [Places -> Inums0]
    <3>1. f # 0 => FileIno(file'[f]) \in Inums0
      <4> SUFFICES ASSUME f # 0 PROVE FileIno(file'[f]) \in Inums0
        OBVIOUS
      <4>1. file' \in [1..NFILE -> OpenFile]
        BY DEF TypeInv, UserTypes
      <4>2. f \in 1..NFILE
        BY FilesAssumption
      <4>3. file'[f] \in OpenFile
        BY <4>1, <4>2
      <4>. QED  BY <4>3 DEF FileIno, OpenFile, Inums0
    <3>. QED  BY <1>2, <2>2, <3>1 DEF FilePlace, Put
  <2>3. (TypeInv => Ptr \in [Places -> Inums0])'
    BY PtrType, PTL
  <2>. QED  BY <1>3, <2>3, <2>4
<1>5. /\ m[<<p, "ip">>] = Held(t, "ip") /\ m[<<p, "dp">>] = t.dp /\ m[<<p, "old">>] = t.old
      /\ m[<<p, "put">>] = t.put /\ m[<<p, "cwd">>] = c
      /\ \A h \in Places : (h[1] # p /\ h[2] # "file") \/ (h[2] = "file" /\ h[1] # f) => m[h] = Ptr[h]
      /\ f # 0 => m[<<f, "file">>] = FileIno(file'[f])
  <2>1. /\ <<p, "ip">> \in Places /\ <<p, "dp">> \in Places /\ <<p, "old">> \in Places
        /\ <<p, "put">> \in Places /\ <<p, "cwd">> \in Places
    BY DEF Places, Vars
  <2>2. DOMAIN Ptr = Places
    BY DEF Ptr
  <2>3. /\ m0[<<p, "ip">>] = Held(t, "ip") /\ m0[<<p, "dp">>] = t.dp /\ m0[<<p, "old">>] = t.old
        /\ m0[<<p, "put">>] = t.put /\ m0[<<p, "cwd">>] = c /\ DOMAIN m0 = Places
        /\ \A h \in Places : h[1] # p \/ h[2] = "file" => m0[h] = Ptr[h]
    BY <1>0, <2>1, <2>2 DEF Moved
  <2>4. CASE f = 0
    BY <1>2, <2>3, <2>4 DEF FilePlace
  <2>5. CASE f # 0
    <3>1. m = [m0 EXCEPT ![<<f, "file">>] = FileIno(file'[f])]
      BY <1>2, <2>5 DEF FilePlace, Put
    <3>2. <<f, "file">> \in Places
      BY <2>5 DEF Places
    <3>3. m[<<f, "file">>] = FileIno(file'[f]) /\ \A h \in Places \ {<<f, "file">>} : m[h] = m0[h]
      BY <2>3, <3>1, <3>2
    <3>. QED  BY <2>1, <2>3, <3>3
  <2>. QED  BY <2>4, <2>5
<1>6. PtrShape /\ PtrShape'
  BY PtrAt, PTL
<1>7. ASSUME NEW h \in Places PROVE m[h] = r[h]
  <2>1. CASE h \in (1..NFILE) \X {"file"}
    <3>1. PICK g \in 1..NFILE : h = <<g, "file">>
      BY <2>1
    <3>2. Ptr[h] = FileIno(file[g]) /\ r[h] = FileIno(file'[g])
      BY <1>3, <1>6, <3>1 DEF PtrShape
    <3>3. CASE g = f
      BY <1>5, <3>1, <3>2, <3>3
    <3>4. CASE g # f
      <4>1. m[h] = Ptr[h]
        BY <1>5, <3>1, <3>4
      <4>. QED  BY <3>2, <3>4, <4>1
    <3>. QED  BY <3>3, <3>4
  <2>2. ASSUME NEW q \in Procs, NEW v \in {"ip", "dp", "old", "put", "cwd"}, h = <<q, v>>
        PROVE  m[h] = r[h]
    <3>1. CASE q # p
      <4>1. th'[q] = th[q] /\ cwd'[q] = cwd[q]
        BY <1>1, <3>1
      <4>2. m[h] = Ptr[h]
        BY <1>5, <2>2, <3>1
      <4>3. /\ r[<<q, "ip">>] = Ptr[<<q, "ip">>] /\ r[<<q, "dp">>] = Ptr[<<q, "dp">>]
            /\ r[<<q, "old">>] = Ptr[<<q, "old">>] /\ r[<<q, "put">>] = Ptr[<<q, "put">>]
            /\ r[<<q, "cwd">>] = Ptr[<<q, "cwd">>]
        BY <1>3, <1>6, <4>1 DEF PtrShape
      <4>. QED  BY <2>2, <4>2, <4>3
    <3>2. CASE q = p
      <4>1. th'[p] = t /\ cwd'[p] = c
        BY <1>1
      <4>2. /\ r[<<p, "ip">>] = Held(t, "ip") /\ r[<<p, "dp">>] = t.dp /\ r[<<p, "old">>] = t.old
            /\ r[<<p, "put">>] = t.put /\ r[<<p, "cwd">>] = c
        BY <1>3, <1>6, <4>1 DEF PtrShape
      <4>3. /\ r[<<p, "ip">>] = m[<<p, "ip">>] /\ r[<<p, "dp">>] = m[<<p, "dp">>]
            /\ r[<<p, "old">>] = m[<<p, "old">>] /\ r[<<p, "put">>] = m[<<p, "put">>]
            /\ r[<<p, "cwd">>] = m[<<p, "cwd">>]
        BY <1>5, <4>2
      <4>4. h \in {<<p, "ip">>, <<p, "dp">>, <<p, "old">>, <<p, "put">>, <<p, "cwd">>}
        BY <2>2, <3>2
      <4>. QED  BY <4>3, <4>4
    <3>. QED  BY <3>1, <3>2
  <2>3. h \in (1..NFILE) \X {"file"} \/ h \in Procs \X {"ip", "dp", "old", "put", "cwd"}
    BY DEF Places, Vars
  <2>. QED  BY <2>1, <2>2, <2>3
<1>8. m = r
  BY <1>4, <1>7
<1>. QED  BY <1>0, <1>2, <1>3, <1>8

\* What that does to the counts.
LEMMA PtrCount ==
  ASSUME TypeInv, TypeInv', NEW p \in Procs, NEW t \in Thread, NEW c \in Inums0,
         th' = [th EXCEPT ![p] = t], cwd' = [cwd EXCEPT ![p] = c],
         NEW f \in 0..NFILE,
         \A g \in (1..NFILE) \ {f} : FileIno(file'[g]) = FileIno(file[g]),
         NEW i
  PROVE  Count(Ptr', i) =
           Count(Ptr, i) - Local(th[p], cwd[p], i) + Local(t, c, i)
           + (IF f = 0 THEN 0 ELSE One(FileIno(file'[f]), i) - One(FileIno(file[f]), i))
<1>1. PICK m : m = Moved(Ptr, p, t, c)
  OBVIOUS
<1>2. Ptr' = FilePlace(m, f, FileIno(file'[f]))
  BY <1>1, PtrMoved
<1>3. /\ DOMAIN Ptr = Places /\ DOMAIN m = Places /\ Finite(Ptr) /\ Finite(m)
  BY <1>1, PlacesFinite DEF Finite, Moved
<1>4. Count(m, i) = Count(Ptr, i) - Local(th[p], cwd[p], i) + Local(t, c, i)
  <2>1. Count(Moved(Ptr, p, t, c), i) =
           Count(Ptr, i) - (One(Ptr[<<p, "ip">>], i) + One(Ptr[<<p, "dp">>], i)
                            + One(Ptr[<<p, "old">>], i) + One(Ptr[<<p, "put">>], i)
                            + One(Ptr[<<p, "cwd">>], i))
           + Local(t, c, i)
    BY <1>3, MovedCount
  <2>. QED  BY <1>1, <2>1, PtrAt DEF PtrShape, Local, Uses
<1>5. Count(m, i) \in Nat /\ Count(Ptr, i) \in Nat
  BY <1>3, CountNat
<1>6. CASE f = 0
  BY <1>2, <1>4, <1>5, <1>6 DEF FilePlace
<1>7. CASE f # 0
  <2>1. <<f, "file">> \in Places /\ <<f, "file">>[1] = f /\ <<f, "file">>[2] = "file"
    BY <1>7 DEF Places
  <2>2. m[<<f, "file">>] = FileIno(file[f])
    <3>1. Ptr[<<f, "file">>] = FileIno(file[f])
      BY <1>7, PtrAt DEF PtrShape
    <3>2. m[<<f, "file">>] = Ptr[<<f, "file">>]
      BY <1>1, <1>3, <2>1 DEF Moved
    <3>. QED  BY <3>1, <3>2
  <2>3. PlaceOf(m, <<f, "file">>)
    BY <1>3, <2>1 DEF PlaceOf
  <2>4. Count(Ptr', i) = Swap(Count(m, i), One(FileIno(file[f]), i), One(FileIno(file'[f]), i))
    BY <1>2, <1>7, <2>2, <2>3, CountChange DEF FilePlace
  <2>5. One(FileIno(file[f]), i) \in Int /\ One(FileIno(file'[f]), i) \in Int
    BY DEF One
  <2>6. Count(Ptr', i) = Count(m, i) - One(FileIno(file[f]), i) + One(FileIno(file'[f]), i)
    BY <2>4 DEF Swap
  <2>. QED  BY <1>4, <1>5, <1>7, <2>5, <2>6
<1>. QED  BY <1>6, <1>7

LEMMA ThreadCount ==
  ASSUME TypeInv, TypeInv', NEW p \in Procs, NEW t \in Thread, NEW c \in Inums0,
         th' = [th EXCEPT ![p] = t], cwd' = [cwd EXCEPT ![p] = c],
         \A g \in 1..NFILE : FileIno(file'[g]) = FileIno(file[g]),
         NEW i
  PROVE  Count(Ptr', i) = Count(Ptr, i) - Local(th[p], cwd[p], i) + Local(t, c, i)
<1>1. PICK f \in 0..NFILE : f = 0
  BY FilesAssumption
<1>2. \A g \in (1..NFILE) \ {f} : FileIno(file'[g]) = FileIno(file[g])
  OBVIOUS
<1>3. Count(Ptr', i) =
           Count(Ptr, i) - Local(th[p], cwd[p], i) + Local(t, c, i)
           + (IF f = 0 THEN 0 ELSE One(FileIno(file'[f]), i) - One(FileIno(file[f]), i))
  BY <1>2, PtrCount
<1>4. Count(Ptr, i) \in Int /\ Local(th[p], cwd[p], i) \in Int /\ Local(t, c, i) \in Int
  BY PlacesFinite, CountNat DEF Finite, Local, Uses, One
<1>. QED  BY <1>1, <1>3, <1>4

-----------------------------------------------------------------------------
(* Steps that change the variables of one process *)

LEMMA ThreadStep ==
  ASSUME FInv, NEW p \in Procs, NEW t \in Thread,
         th' = [th EXCEPT ![p] = t], UNCHANGED user,
         DiskTypes', LockTypes', itab' \in [Inums -> Entry],
         ThreadOk(t), cwd[p] = NoIno => Point(t) = "user",
         \A i \in Inums : itab'[i].ref = itab[i].ref - Uses(th[p], i) + Uses(t, i)
  PROVE  FInv'
<1>1. /\ file' = file /\ ofile' = ofile /\ cwd' = cwd /\ prog' = prog
      /\ TypeInv /\ th \in [Procs -> Thread] /\ cwd \in [Procs -> Inums0]
  BY DEF user, FInv, TypeInv, UserTypes
<1>2. TypeInv'
  BY <1>1 DEF TypeInv, UserTypes
<1>3. /\ th'[p] = t /\ \A q \in Procs \ {p} : th'[q] = th[q]
      /\ cwd[p] \in Inums0 /\ cwd' = [cwd EXCEPT ![p] = cwd[p]]
  BY <1>1
<1>4. ControlInv'
  BY <1>3 DEF FInv, ControlInv
<1>5. GoneInv'
  BY <1>1, <1>3 DEF FInv, GoneInv
<1>6. FileInv' /\ FdInv'
  BY <1>1 DEF FInv, FileInv, FdInv, Fd
<1>7. ASSUME NEW i \in Inums PROVE itab'[i].ref = Count(Ptr', i)
  <2>1. Count(Ptr', i) = Count(Ptr, i) - Local(th[p], cwd[p], i) + Local(t, cwd[p], i)
    <3>1. PICK c \in Inums0 : c = cwd[p]
      BY <1>3
    <3>2. cwd' = [cwd EXCEPT ![p] = c] /\ \A g \in 1..NFILE : FileIno(file'[g]) = FileIno(file[g])
      BY <1>1, <1>3, <3>1
    <3>3. Count(Ptr', i) = Count(Ptr, i) - Local(th[p], cwd[p], i) + Local(t, c, i)
      BY <1>1, <1>2, <3>2, ThreadCount
    <3>. QED  BY <3>1, <3>3
  <2>2. itab[i].ref = Count(Ptr, i)
    BY DEF FInv, RefInv
  <2>3. Count(Ptr, i) \in Int /\ Uses(th[p], i) \in Int /\ Uses(t, i) \in Int /\ One(cwd[p], i) \in Int
    BY PlacesFinite, CountNat DEF Finite, Uses, One
  <2>. QED  BY <2>1, <2>2, <2>3 DEF Local
<1>. QED  BY <1>2, <1>4, <1>5, <1>6, <1>7 DEF FInv, RefInv

-----------------------------------------------------------------------------
(* The inode table *)

LEMMA IgetTab ==
  ASSUME NEW tab \in [Inums -> Entry], NEW i \in Inums
  PROVE  /\ iget(tab, i) \in [Inums -> Entry]
         /\ \A j \in Inums : iget(tab, i)[j].ref = tab[j].ref + One(i, j)
<1>1. NoInode \in Inode
  BY DEF NoInode, Inode, Types
<1>2. PICK e : e = IF tab[i].ref > 0 THEN tab[i] ELSE Unreferenced
  OBVIOUS
<1>3. e \in Entry /\ e.ref = tab[i].ref
  <2>1. tab[i] \in Entry
    OBVIOUS
  <2>2. Unreferenced \in Entry /\ Unreferenced.ref = 0
    BY <1>1 DEF Unreferenced, Entry
  <2>. QED  BY <1>2, <2>1, <2>2 DEF Entry
<1>4. [e EXCEPT !.ref = e.ref + 1] \in Entry /\ [e EXCEPT !.ref = e.ref + 1].ref = tab[i].ref + 1
  BY <1>3 DEF Entry
<1>5. iget(tab, i) = [tab EXCEPT ![i] = [e EXCEPT !.ref = e.ref + 1]]
  BY <1>2 DEF iget
<1>6. \A j \in Inums : tab[j].ref \in Nat
  BY DEF Entry
<1>. QED  BY <1>4, <1>5, <1>6 DEF One

LEMMA IlockTab ==
  ASSUME DiskTypes, itab \in [Inums -> Entry], NEW i \in Inums
  PROVE  /\ Loaded(i) \in Inode
         /\ ilock(i) \in [Inums -> Entry]
         /\ \A j \in Inums : ilock(i)[j].ref = itab[j].ref
<1>1. itab[i] \in Entry /\ dinode[i] \in Inode
  BY DEF DiskTypes
<1>2. Loaded(i) \in Inode
  BY <1>1 DEF Loaded, Entry
<1>3. ilock(i) = [itab EXCEPT ![i] = [itab[i] EXCEPT !.valid = TRUE, !.d = Loaded(i)]]
  BY DEF ilock
<1>4. /\ [itab[i] EXCEPT !.valid = TRUE, !.d = Loaded(i)] \in Entry
      /\ [itab[i] EXCEPT !.valid = TRUE, !.d = Loaded(i)].ref = itab[i].ref
  BY <1>1, <1>2 DEF Entry
<1>. QED  BY <1>2, <1>3, <1>4

LEMMA UpdateTab ==
  ASSUME DiskTypes, itab \in [Inums -> Entry], NEW i \in Inums, NEW d \in Inode, Update(i, d)
  PROVE  /\ dinode' \in [Inums -> Inode]
         /\ itab' \in [Inums -> Entry]
         /\ \A j \in Inums : itab'[j].ref = itab[j].ref
<1>1. itab[i] \in Entry
  OBVIOUS
<1>2. itab' = [itab EXCEPT ![i] = [itab[i] EXCEPT !.valid = TRUE, !.d = d]]
  BY DEF Update
<1>3. /\ [itab[i] EXCEPT !.valid = TRUE, !.d = d] \in Entry
      /\ [itab[i] EXCEPT !.valid = TRUE, !.d = d].ref = itab[i].ref
  BY <1>1 DEF Entry
<1>. QED  BY <1>2, <1>3 DEF Update, DiskTypes

-----------------------------------------------------------------------------
(* iput() *)

\* The variables of a process that is about to put what v points to.
After(t, v, r) ==
  [t EXCEPT !.pc = "iput", !.ret = r, !.ip = IF v = "ip" THEN NoIno ELSE t.ip,
            !.dp = IF v = "dp" THEN NoIno ELSE t.dp, !.old = IF v = "old" THEN NoIno ELSE t.old,
            !.put = IF v = "ip" THEN t.ip ELSE IF v = "dp" THEN t.dp ELSE t.old]

LEMMA PutStep ==
  ASSUME FInv, NEW p \in Procs, NEW v \in {"ip", "dp", "old"}, NEW r \in Returns,
         IputThen(p, v, r), UNCHANGED user,
         DiskTypes', LockTypes', itab' \in [Inums -> Entry],
         \A i \in Inums : itab'[i].ref = itab[i].ref,
         th[p].pc \in Points \ {"iget"}, th[p][v] \in Inums,
         ThreadOk(After(th[p], v, r))
  PROVE  FInv'
<1>1. /\ th \in [Procs -> Thread] /\ th[p] \in Thread /\ ThreadOk(th[p])
      /\ itab \in [Inums -> Entry] /\ NoIno \notin Inums
  BY FilesAssumption DEF FInv, TypeInv, ControlInv
<1>2. PICK t : t = After(th[p], v, r)
  OBVIOUS
<1>3. th' = [th EXCEPT ![p] = t]
  <2>1. v = "ip" => th' = [th EXCEPT ![p] = t]
    BY <1>1, <1>2 DEF IputThen, After, Thread
  <2>2. v = "dp" => th' = [th EXCEPT ![p] = t]
    BY <1>1, <1>2 DEF IputThen, After, Thread
  <2>3. v = "old" => th' = [th EXCEPT ![p] = t]
    BY <1>1, <1>2 DEF IputThen, After, Thread
  <2>. QED  BY <2>1, <2>2, <2>3
<1>4. t \in Thread
  BY <1>1, <1>2 DEF After, Thread, Putting, Inums0
<1>5. th[p].pc \notin Putting /\ th[p].put = NoIno
  BY <1>1 DEF ThreadOk, Points, Putting, Thread, Inums0
<1>6. cwd[p] # NoIno
  <2>1. Point(th[p]) # "user"
    BY <1>1, <1>5 DEF ThreadOk, Point, HaveIp, HaveDp, HaveOld
  <2>. QED  BY <2>1 DEF FInv, GoneInv
<1>7. ASSUME NEW i \in Inums PROVE Uses(t, i) = Uses(th[p], i)
  <2>1. One(NoIno, i) = 0
    BY <1>1 DEF One
  <2>2. /\ One(th[p].ip, i) \in Int /\ One(th[p].dp, i) \in Int /\ One(th[p].old, i) \in Int
    BY DEF One
  <2>3. Uses(th[p], i) = One(th[p].ip, i) + One(th[p].dp, i) + One(th[p].old, i)
    BY <1>5, <2>1, <2>2 DEF Uses, Held
  <2>4. Uses(t, i) = One(t.ip, i) + One(t.dp, i) + One(t.old, i) + One(t.put, i)
    BY <1>1, <1>2 DEF Uses, Held, After, Thread
  <2>5. CASE v = "ip"
    BY <1>1, <1>2, <2>1, <2>2, <2>3, <2>4, <2>5 DEF After, Thread
  <2>6. CASE v = "dp"
    BY <1>1, <1>2, <2>1, <2>2, <2>3, <2>4, <2>6 DEF After, Thread
  <2>7. CASE v = "old"
    BY <1>1, <1>2, <2>1, <2>2, <2>3, <2>4, <2>7 DEF After, Thread
  <2>. QED  BY <2>5, <2>6, <2>7
<1>8. \A i \in Inums : itab'[i].ref = itab[i].ref - Uses(th[p], i) + Uses(t, i)
  <2>1. \A i \in Inums : itab[i].ref \in Nat
    BY <1>1 DEF Entry
  <2>2. \A i \in Inums : Uses(th[p], i) \in Int
    BY DEF Uses, One
  <2>. QED  BY <1>7, <2>1, <2>2
<1>. QED  BY <1>2, <1>3, <1>4, <1>6, <1>8, ThreadStep

\* The process goes on at another point, with the same variables.
Jump(t, c) == [t EXCEPT !.pc = c]

LEMMA JumpStep ==
  ASSUME FInv, NEW p \in Procs, NEW c \in (Points \cup Putting) \ {"iget"},
         th' = [th EXCEPT ![p].pc = c], UNCHANGED user,
         DiskTypes', LockTypes', itab' \in [Inums -> Entry],
         \A i \in Inums : itab'[i].ref = itab[i].ref,
         th[p].pc # "iget", ThreadOk(Jump(th[p], c)),
         Point(th[p]) # "user" \/ Point(Jump(th[p], c)) = Point(th[p])
  PROVE  FInv'
<1>1. /\ th \in [Procs -> Thread] /\ th[p] \in Thread /\ itab \in [Inums -> Entry]
  BY DEF FInv, TypeInv
<1>2. PICK t : t = Jump(th[p], c)
  OBVIOUS
<1>3. th' = [th EXCEPT ![p] = t]
  BY <1>1, <1>2 DEF Jump
<1>4. t \in Thread
  BY <1>1, <1>2 DEF Jump, Thread
<1>5. cwd[p] = NoIno => Point(t) = "user"
  BY <1>2 DEF FInv, GoneInv
<1>6. \A i \in Inums : Uses(t, i) = Uses(th[p], i)
  BY <1>1, <1>2 DEF Uses, Held, Jump, Thread
<1>7. \A i \in Inums : itab'[i].ref = itab[i].ref - Uses(th[p], i) + Uses(t, i)
  <2>1. \A i \in Inums : itab[i].ref \in Nat
    BY <1>1 DEF Entry
  <2>2. \A i \in Inums : Uses(th[p], i) \in Int
    BY DEF Uses, One
  <2>. QED  BY <1>6, <2>1, <2>2
<1>. QED  BY <1>2, <1>3, <1>4, <1>5, <1>7, ThreadStep

LEMMA RejectStep ==
  ASSUME FInv, NEW p \in Procs, NEW v \in {"ip", "dp", "old"}, NEW r \in Returns,
         Reject(p, v, r), th[p].pc \in Points \ {"iget"}, th[p][v] \in Inums,
         ThreadOk(After(th[p], v, r))
  PROVE  FInv'
<1>1. DiskTypes /\ LockTypes /\ itab \in [Inums -> Entry]
  BY DEF FInv, TypeInv
<1>2. /\ itab' = ilock(th[p][v]) /\ IputThen(p, v, r)
      /\ dinode' = dinode /\ bitmap' = bitmap /\ ents' = ents /\ ilk' = ilk /\ UNCHANGED user
  BY DEF Reject, disk
<1>3. itab' \in [Inums -> Entry] /\ \A i \in Inums : itab'[i].ref = itab[i].ref
  BY <1>1, <1>2, IlockTab
<1>4. DiskTypes' /\ LockTypes'
  BY <1>1, <1>2 DEF DiskTypes, LockTypes
<1>. QED  BY <1>2, <1>3, <1>4, PutStep

LEMMA UnlockPutStep ==
  ASSUME FInv, NEW p \in Procs, NEW v \in {"ip", "dp", "old"}, NEW r \in Returns,
         iunlockput(p, v, r), th[p].pc \in Points \ {"iget"}, th[p][v] \in Inums,
         ThreadOk(After(th[p], v, r))
  PROVE  FInv'
<1>1. DiskTypes /\ LockTypes /\ itab \in [Inums -> Entry]
  BY DEF FInv, TypeInv
<1>2. /\ itab' = itab /\ IputThen(p, v, r)
      /\ dinode' = dinode /\ bitmap' = bitmap /\ ents' = ents /\ UNCHANGED user
      /\ ilk' = [ilk EXCEPT ![th[p][v]] = Nobody]
  BY DEF iunlockput, disk
<1>3. itab' \in [Inums -> Entry] /\ \A i \in Inums : itab'[i].ref = itab[i].ref
  BY <1>1, <1>2
<1>4. DiskTypes' /\ LockTypes'
  BY <1>1, <1>2 DEF DiskTypes, LockTypes
<1>. QED  BY <1>2, <1>3, <1>4, PutStep

LEMMA HoldStep ==
  ASSUME FInv, NEW p \in Procs, NEW v \in {"ip", "dp", "old"}, NEW c \in Points \ {"iget"},
         Hold(p, v, c), th[p].pc # "iget", th[p][v] \in Inums,
         ThreadOk(Jump(th[p], c)), Point(th[p]) # "user"
  PROVE  FInv'
<1>1. DiskTypes /\ LockTypes /\ itab \in [Inums -> Entry]
  BY DEF FInv, TypeInv
<1>2. /\ itab' = ilock(th[p][v]) /\ th' = [th EXCEPT ![p].pc = c]
      /\ dinode' = dinode /\ bitmap' = bitmap /\ ents' = ents /\ UNCHANGED user
      /\ ilk' = [ilk EXCEPT ![th[p][v]] = p]
  BY DEF Hold, disk
<1>3. itab' \in [Inums -> Entry] /\ \A i \in Inums : itab'[i].ref = itab[i].ref
  BY <1>1, <1>2, IlockTab
<1>4. DiskTypes' /\ LockTypes'
  BY <1>1, <1>2 DEF DiskTypes, LockTypes
<1>. QED  BY <1>2, <1>3, <1>4, JumpStep

\* The steps of iput().
LEMMA ReturnStep ==
  ASSUME FInv, NEW p \in Procs, th[p].pc \in {"iput", "drop"}, Return(p),
         itab' = [itab EXCEPT ![th[p].put].ref = @ - 1], UNCHANGED <<disk, ilk, user>>
  PROVE  FInv'
<1>1. /\ th \in [Procs -> Thread] /\ th[p] \in Thread /\ ThreadOk(th[p])
      /\ itab \in [Inums -> Entry] /\ DiskTypes /\ LockTypes /\ NoIno \notin Inums
  BY FilesAssumption DEF FInv, TypeInv, ControlInv
<1>2. /\ dinode' = dinode /\ bitmap' = bitmap /\ ents' = ents /\ ilk' = ilk /\ UNCHANGED user
  BY DEF disk
<1>3. PICK i : i = th[p].put
  OBVIOUS
<1>4. i \in Inums
  BY <1>1, <1>3 DEF ThreadOk, Putting
<1>5. PICK t : t = IF th[p].ret = "user" THEN Idle
                   ELSE [th[p] EXCEPT !.pc = th[p].ret, !.put = NoIno, !.ret = "user"]
  OBVIOUS
<1>6. th' = [th EXCEPT ![p] = t]
  BY <1>1, <1>5 DEF Return
<1>7. Point(th[p]) = th[p].ret
  BY <1>1 DEF Point, Putting
<1>8. t \in Thread /\ ThreadOk(t) /\ Point(t) = Point(th[p])
  <2>1. CASE th[p].ret = "user"
    <3>1. t = Idle
      BY <1>5, <2>1
    <3>2. Idle \in Thread
      BY DEF Idle, Thread, Points, Calls, Elems, Entries, Inums0, Returns
    <3>3. ThreadOk(Idle) /\ Point(Idle) = "user"
      BY <1>1 DEF ThreadOk, Idle, Point, Putting, HaveIp, HaveDp, HaveOld
    <3>. QED  BY <1>7, <2>1, <3>1, <3>2, <3>3
  <2>2. CASE th[p].ret # "user"
    <3>1. t = [th[p] EXCEPT !.pc = th[p].ret, !.put = NoIno, !.ret = "user"]
      BY <1>5, <2>2
    <3>2. t \in Thread
      BY <1>1, <3>1 DEF Thread, Points, Inums0, Returns
    <3>3. Point(t) = th[p].ret /\ t.pc \notin Putting /\ t.ret = "user"
      BY <1>1, <3>1 DEF Point, Thread, Points, Putting, Returns
    <3>4. ThreadOk(t)
      BY <1>1, <1>7, <3>1, <3>3 DEF ThreadOk, Thread
    <3>. QED  BY <1>7, <3>2, <3>3, <3>4
  <2>. QED  BY <2>1, <2>2
<1>9. cwd[p] = NoIno => Point(t) = "user"
  BY <1>8 DEF FInv, GoneInv
<1>10. ASSUME NEW j \in Inums PROVE Uses(t, j) = Uses(th[p], j) - One(i, j)
  <2>1. One(NoIno, j) = 0
    BY <1>1 DEF One
  <2>2. /\ One(th[p].ip, j) \in Int /\ One(th[p].dp, j) \in Int /\ One(th[p].old, j) \in Int
        /\ One(i, j) \in Int
    BY DEF One
  <2>3. Uses(th[p], j) = One(th[p].ip, j) + One(th[p].dp, j) + One(th[p].old, j) + One(i, j)
    BY <1>3 DEF Uses, Held
  <2>4. CASE th[p].ret = "user"
    <3>1. th[p].ip = NoIno /\ th[p].dp = NoIno /\ th[p].old = NoIno
      BY <1>1, <1>7, <2>4 DEF ThreadOk, Thread, Inums0, HaveIp, HaveDp, HaveOld
    <3>2. Uses(t, j) = 0
      BY <1>5, <2>1, <2>4 DEF Uses, Held, Idle
    <3>. QED  BY <2>1, <2>2, <2>3, <3>1, <3>2
  <2>5. CASE th[p].ret # "user"
    <3>1. /\ t.pc # "iget" /\ t.ip = th[p].ip /\ t.dp = th[p].dp /\ t.old = th[p].old
          /\ t.put = NoIno
      BY <1>1, <1>5, <2>5 DEF Thread, Returns
    <3>. QED  BY <2>1, <2>2, <2>3, <3>1 DEF Uses, Held
  <2>. QED  BY <2>4, <2>5
<1>11. itab' \in [Inums -> Entry] /\ \A j \in Inums : itab'[j].ref = itab[j].ref - One(i, j)
  <2>1. itab[i].ref \in Nat \ {0}
    <3>1. itab[i].ref = Count(Ptr, i) /\ Finite(Ptr)
      BY <1>4, PlacesFinite DEF FInv, RefInv, Finite
    <3>2. <<p, "put">> \in DOMAIN Ptr /\ Ptr[<<p, "put">>] = i
      BY <1>3, PlacesFinite, PtrAt DEF PtrShape, Places, Vars
    <3>3. PICK f, h : f = Ptr /\ h = <<p, "put">>
      OBVIOUS
    <3>4. Finite(f) /\ h \in DOMAIN f /\ f[h] = i
      BY <3>1, <3>2, <3>3
    <3>5. Count(f, i) \in Nat \ {0}
      BY <3>4, CountType
    <3>. QED  BY <3>1, <3>3, <3>5
  <2>2. itab' = [itab EXCEPT ![i] = [itab[i] EXCEPT !.ref = itab[i].ref - 1]]
    BY <1>3
  <2>3. itab[i] \in Entry
    BY <1>1, <1>4
  <2>4. /\ [itab[i] EXCEPT !.ref = itab[i].ref - 1] \in Entry
        /\ [itab[i] EXCEPT !.ref = itab[i].ref - 1].ref = itab[i].ref - 1
    BY <2>1, <2>3 DEF Entry
  <2>5. \A j \in Inums : itab[j].ref \in Nat
    BY <1>1 DEF Entry
  <2>6. PICK e : e = [itab[i] EXCEPT !.ref = itab[i].ref - 1]
    OBVIOUS
  <2>7. itab' = [itab EXCEPT ![i] = e] /\ e \in Entry /\ e.ref = itab[i].ref - 1
    BY <2>2, <2>4, <2>6
  <2>. QED  BY <1>1, <1>4, <2>5, <2>7 DEF One
<1>12. \A j \in Inums : itab'[j].ref = itab[j].ref - Uses(th[p], j) + Uses(t, j)
  <2>1. \A j \in Inums : itab[j].ref \in Nat
    BY <1>1 DEF Entry
  <2>2. \A j \in Inums : Uses(th[p], j) \in Int /\ One(i, j) \in Int
    BY DEF Uses, One
  <2>. QED  BY <1>10, <1>11, <2>1, <2>2
<1>13. DiskTypes' /\ LockTypes'
  BY <1>1, <1>2 DEF DiskTypes, LockTypes
<1>. QED  BY <1>2, <1>6, <1>8, <1>9, <1>11, <1>12, <1>13, ThreadStep

LEMMA ItruncTab ==
  ASSUME DiskTypes, itab \in [Inums -> Entry], NEW i \in Inums, itrunc(i)
  PROVE  DiskTypes' /\ itab' \in [Inums -> Entry] /\ \A j \in Inums : itab'[j].ref = itab[j].ref
<1>1. PICK d : d = [itab[i].d EXCEPT !.addrs = {}, !.size = 0]
  OBVIOUS
<1>2. Update(i, d) /\ bitmap' = bitmap \ itab[i].d.addrs /\ ents' = [ents EXCEPT ![i] = NoEnts]
  BY <1>1 DEF itrunc
<1>3. itab[i].d \in Inode
  BY DEF Entry
<1>4. d \in Inode
  <2>1. {} \in SUBSET Blocks /\ 0 \in Int
    OBVIOUS
  <2>. QED  BY <1>1, <1>3, <2>1 DEF Inode
<1>5. NoEnts \in [Entries -> Inums0]
  BY DEF NoEnts, Inums0
<1>6. bitmap' \subseteq Blocks /\ ents' \in [Inums -> [Entries -> Inums0]]
  BY <1>2, <1>5 DEF DiskTypes
<1>7. /\ dinode' \in [Inums -> Inode] /\ itab' \in [Inums -> Entry]
      /\ \A j \in Inums : itab'[j].ref = itab[j].ref
  BY <1>2, <1>4, UpdateTab
<1>. QED  BY <1>6, <1>7 DEF DiskTypes

LEMMA IputStep ==
  ASSUME FInv, NEW p \in Procs,
         IputLast(p) \/ Iput(p) \/ IputTrunc(p) \/ IputFree(p) \/ IputInvalid(p) \/ IputDrop(p)
  PROVE  FInv'
<1>1. /\ th \in [Procs -> Thread] /\ th[p] \in Thread /\ ThreadOk(th[p])
      /\ itab \in [Inums -> Entry] /\ DiskTypes /\ LockTypes
  BY DEF FInv, TypeInv, ControlInv
<1>2. PICK i : i = th[p].put
  OBVIOUS
<1>3. th[p].pc \in Putting
  BY DEF IputLast, Iput, IputTrunc, IputFree, IputInvalid, IputDrop, Putting
<1>4. i \in Inums
  BY <1>1, <1>2, <1>3 DEF ThreadOk
<1>5. ASSUME NEW c \in Putting
      PROVE  /\ c \in (Points \cup Putting) \ {"iget"} /\ th[p].pc # "iget"
             /\ Point(Jump(th[p], c)) = Point(th[p]) /\ ThreadOk(Jump(th[p], c))
  <2>1. PICK t : t = Jump(th[p], c)
    OBVIOUS
  <2>2. /\ t.pc = c /\ t.call = th[p].call /\ t.ip = th[p].ip /\ t.dp = th[p].dp
        /\ t.old = th[p].old /\ t.put = th[p].put /\ t.ret = th[p].ret
    BY <1>1, <2>1 DEF Jump, Thread
  <2>3. Point(t) = Point(th[p])
    BY <1>3, <2>2 DEF Point
  <2>4. ThreadOk(t)
    BY <1>1, <1>3, <2>2, <2>3 DEF ThreadOk
  <2>. QED  BY <1>3, <2>1, <2>3, <2>4 DEF Putting
<1>6. CASE IputLast(p)
  <2>1. /\ dinode' = dinode /\ bitmap' = bitmap /\ ents' = ents /\ itab' = itab /\ UNCHANGED user
        /\ ilk' = [ilk EXCEPT ![i] = p] /\ th' = [th EXCEPT ![p].pc = "itrunc"]
    BY <1>2, <1>6 DEF IputLast, disk
  <2>2. DiskTypes' /\ LockTypes'
    BY <1>1, <2>1 DEF DiskTypes, LockTypes
  <2>3. "itrunc" \in Putting
    BY DEF Putting
  <2>. QED  BY <1>1, <1>5, <2>1, <2>2, <2>3, JumpStep
<1>7. CASE Iput(p)
  BY <1>7, ReturnStep DEF Iput
<1>8. CASE IputTrunc(p)
  <2>1. itrunc(i) /\ UNCHANGED <<ilk, user>> /\ th' = [th EXCEPT ![p].pc = "ifree"]
    BY <1>2, <1>8 DEF IputTrunc
  <2>2. DiskTypes' /\ itab' \in [Inums -> Entry] /\ \A j \in Inums : itab'[j].ref = itab[j].ref
    BY <1>1, <1>4, <2>1, ItruncTab
  <2>3. "ifree" \in Putting /\ LockTypes'
    BY <1>1, <2>1 DEF Putting, LockTypes
  <2>. QED  BY <1>1, <1>5, <2>1, <2>2, <2>3, JumpStep
<1>9. CASE IputFree(p)
  <2>1. PICK d : d = [itab[i].d EXCEPT !.type = "free"]
    OBVIOUS
  <2>2. /\ Update(i, d) /\ bitmap' = bitmap /\ ents' = ents /\ ilk' = ilk /\ UNCHANGED user
        /\ th' = [th EXCEPT ![p].pc = "invalid"]
    BY <1>2, <1>9, <2>1 DEF IputFree
  <2>3. d \in Inode
    BY <1>1, <1>4, <2>1 DEF Entry, Inode, Types
  <2>4. /\ dinode' \in [Inums -> Inode] /\ itab' \in [Inums -> Entry]
        /\ \A j \in Inums : itab'[j].ref = itab[j].ref
    BY <1>1, <1>4, <2>2, <2>3, UpdateTab
  <2>5. "invalid" \in Putting /\ DiskTypes' /\ LockTypes'
    BY <1>1, <2>2, <2>4 DEF Putting, DiskTypes, LockTypes
  <2>. QED  BY <1>1, <1>5, <2>2, <2>4, <2>5, JumpStep
<1>10. CASE IputInvalid(p)
  <2>1. /\ dinode' = dinode /\ bitmap' = bitmap /\ ents' = ents /\ UNCHANGED user
        /\ itab' = [itab EXCEPT ![i] = [itab[i] EXCEPT !.valid = FALSE]]
        /\ ilk' = [ilk EXCEPT ![i] = Nobody] /\ th' = [th EXCEPT ![p].pc = "drop"]
    BY <1>2, <1>10 DEF IputInvalid, disk
  <2>2. itab[i] \in Entry
    BY <1>1, <1>4
  <2>3. [itab[i] EXCEPT !.valid = FALSE] \in Entry /\ [itab[i] EXCEPT !.valid = FALSE].ref = itab[i].ref
    BY <2>2 DEF Entry
  <2>4. itab' \in [Inums -> Entry] /\ \A j \in Inums : itab'[j].ref = itab[j].ref
    BY <1>1, <2>1, <2>3
  <2>5. "drop" \in Putting /\ DiskTypes' /\ LockTypes'
    BY <1>1, <2>1 DEF Putting, DiskTypes, LockTypes
  <2>. QED  BY <1>1, <1>5, <2>1, <2>4, <2>5, JumpStep
<1>11. CASE IputDrop(p)
  BY <1>11, ReturnStep DEF IputDrop
<1>. QED  BY <1>6, <1>7, <1>8, <1>9, <1>10, <1>11

-----------------------------------------------------------------------------
(* Paths *)

\* Programs make calls that the types know.
LEMMA CallTypes ==
  ASSUME UserTypes, NEW p \in Procs, NEW c \in Programs[prog][p]
  PROVE  /\ c \in Calls /\ Elements(c.path) \in Seq(Elems)
         /\ c.op \in {"mkdir", "mknod", "creat", "unlink", "link", "open", "chdir"}
         /\ c.op = "link" => Elements(c.new) \in Seq(Elems)
<1>1. prog \in DOMAIN Programs
  BY DEF UserTypes
<1>2. c \in Calls
  BY <1>1 DEF Calls
<1>. QED  BY <1>1, <1>2, ProgramsAssumption DEF Elems

\* What is known of a process between two calls.
LEMMA AtUser ==
  ASSUME FInv, NEW p \in Procs, Point(th[p]) = "user", th[p].pc \notin Putting
  PROVE  /\ th[p].ip = NoIno /\ th[p].dp = NoIno /\ th[p].old = NoIno /\ th[p].put = NoIno
         /\ th[p].pc = "user" /\ th[p].ret = "user"
<1>1. th[p] \in Thread /\ ThreadOk(th[p])
  BY DEF FInv, TypeInv, ControlInv
<1>. QED  BY <1>1 DEF ThreadOk, Thread, Inums0, Point, HaveIp, HaveDp, HaveOld

LEMMA StartCallStep ==
  ASSUME FInv, NEW p \in Procs, StartCall(p)
  PROVE  FInv'
<1>1. /\ th \in [Procs -> Thread] /\ th[p] \in Thread /\ ThreadOk(th[p])
      /\ itab \in [Inums -> Entry] /\ DiskTypes /\ LockTypes /\ UserTypes /\ cwd[p] \in Inums0
      /\ NoIno \notin Inums /\ ROOTINO \in Inums
  BY FilesAssumption DEF FInv, TypeInv, ControlInv, UserTypes
<1>2. PICK c \in Programs[prog][p] :
        /\ th[p].pc = "user" /\ cwd[p] # NoIno
        /\ th' = [th EXCEPT ![p].call = c, ![p].path = Elements(c.path), ![p].ip = From(p, c.path),
             ![p].pc = IF c.op \in {"mkdir", "mknod", "creat", "unlink"} THEN "nameiparent" ELSE "namei"]
        /\ itab' = iget(itab, From(p, c.path))
        /\ UNCHANGED <<disk, ilk, user>>
  BY DEF StartCall
<1>3. PICK i, e, n : /\ i = From(p, c.path) /\ e = Elements(c.path)
                     /\ n = IF c.op \in {"mkdir", "mknod", "creat", "unlink"} THEN "nameiparent" ELSE "namei"
  OBVIOUS
<1>4. i \in Inums /\ e \in Seq(Elems) /\ c \in Calls /\ n \in {"namei", "nameiparent"}
      /\ (n = "nameiparent" => c.op \in {"mkdir", "mknod", "creat", "unlink"})
  BY <1>1, <1>2, <1>3, CallTypes DEF From, Inums0
<1>5. PICK t : t = [th[p] EXCEPT !.call = c, !.path = e, !.ip = i, !.pc = n]
  OBVIOUS
<1>6. th' = [th EXCEPT ![p] = t]
  BY <1>1, <1>2, <1>3, <1>5 DEF Thread
<1>7. t \in Thread
  BY <1>1, <1>4, <1>5 DEF Thread, Points, Inums0
<1>8. /\ th[p].ip = NoIno /\ th[p].dp = NoIno /\ th[p].old = NoIno /\ th[p].put = NoIno
      /\ th[p].ret = "user"
  BY <1>2, AtUser DEF Point, Putting
<1>9. /\ t.pc = n /\ t.call = c /\ t.ip = i /\ t.dp = NoIno /\ t.old = NoIno /\ t.put = NoIno
      /\ t.ret = "user"
  BY <1>1, <1>5, <1>8 DEF Thread
<1>10. ThreadOk(t) /\ Point(t) = n
  BY <1>1, <1>4, <1>9 DEF ThreadOk, Point, Putting, HaveIp, HaveDp, HaveOld
<1>11. /\ itab' \in [Inums -> Entry]
       /\ \A j \in Inums : itab'[j].ref = itab[j].ref - Uses(th[p], j) + Uses(t, j)
  <2>1. itab' \in [Inums -> Entry] /\ \A j \in Inums : itab'[j].ref = itab[j].ref + One(i, j)
    BY <1>1, <1>2, <1>3, <1>4, IgetTab
  <2>2. ASSUME NEW j \in Inums PROVE Uses(th[p], j) = 0 /\ Uses(t, j) = One(i, j)
    BY <1>1, <1>2, <1>4, <1>8, <1>9 DEF Uses, Held, One
  <2>3. \A j \in Inums : itab[j].ref \in Nat /\ One(i, j) \in Int
    BY <1>1 DEF Entry, One
  <2>. QED  BY <2>1, <2>2, <2>3
<1>12. DiskTypes' /\ LockTypes' /\ UNCHANGED user
  BY <1>1, <1>2 DEF DiskTypes, LockTypes, disk
<1>. QED  BY <1>2, <1>6, <1>7, <1>10, <1>11, <1>12, ThreadStep

\* The names in a directory, the first of a path that is not empty.
LEMMA LookupType ==
  ASSUME DiskTypes, NEW i \in Inums, NEW n \in Elems
  PROVE  Lookup(i, n) \in Inums0
BY DEF Lookup, DiskTypes, Inums0, Elems

LEMMA LookupIgetTab ==
  ASSUME DiskTypes, itab \in [Inums -> Entry], NEW d \in Inums, NEW i \in Inums, LookupIget(d, i)
  PROVE  /\ itab' \in [Inums -> Entry]
         /\ \A j \in Inums : itab'[j].ref = itab[j].ref + One(i, j)
<1>1. ilock(d) \in [Inums -> Entry] /\ \A j \in Inums : ilock(d)[j].ref = itab[j].ref
  BY IlockTab
<1>2. PICK tab : tab = ilock(d)
  OBVIOUS
<1>3. itab' = iget(tab, i) /\ tab \in [Inums -> Entry]
  BY <1>1, <1>2 DEF LookupIget
<1>4. itab' \in [Inums -> Entry] /\ \A j \in Inums : itab'[j].ref = tab[j].ref + One(i, j)
  BY <1>3, IgetTab
<1>. QED  BY <1>1, <1>2, <1>4

LEMMA WalkStep ==
  ASSUME FInv, NEW p \in Procs,
         WalkFails(p) \/ WalkOn(p) \/ WalkToParent(p) \/ WalkNowhere(p)
  PROVE  FInv'
<1>1. /\ th \in [Procs -> Thread] /\ th[p] \in Thread /\ ThreadOk(th[p])
      /\ itab \in [Inums -> Entry] /\ DiskTypes /\ LockTypes /\ NoIno \notin Inums
  BY FilesAssumption DEF FInv, TypeInv, ControlInv
<1>2. th[p].pc \in {"namei", "nameiparent"}
  BY DEF WalkFails, WalkOn, WalkToParent, WalkNowhere, Walking, At
<1>3. /\ Point(th[p]) = th[p].pc /\ th[p].ip \in Inums /\ th[p].dp = NoIno /\ th[p].put = NoIno
      /\ th[p].old \in Inums <=> th[p].pc = "nameiparent" /\ th[p].call.op = "link"
      /\ th[p].old \in Inums0 /\ th[p].ret = "user" /\ cwd[p] # NoIno
      /\ th[p].pc = "nameiparent" =>
           th[p].call.op \in {"mkdir", "mknod", "creat", "unlink", "link"}
  <2>1. Point(th[p]) = th[p].pc /\ th[p].pc \notin Putting
    BY <1>2 DEF Point, Putting
  <2>2. cwd[p] # NoIno
    BY <1>2, <2>1 DEF FInv, GoneInv
  <2>. QED  BY <1>1, <1>2, <2>1, <2>2 DEF ThreadOk, Thread, Inums0, HaveIp, HaveDp, HaveOld
<1>4. /\ NotFound(p) \in Returns /\ "ip" \in {"ip", "dp", "old"}
      /\ th[p].pc \in Points \ {"iget"} /\ th[p]["ip"] \in Inums
  BY <1>2, <1>3 DEF NotFound, Returns, Points
<1>5. ThreadOk(After(th[p], "ip", NotFound(p)))
  <2>1. PICK t : t = After(th[p], "ip", NotFound(p))
    OBVIOUS
  <2>2. /\ t.pc = "iput" /\ t.ip = NoIno /\ t.dp = NoIno /\ t.old = th[p].old
        /\ t.put = th[p].ip /\ t.ret = NotFound(p)
    BY <1>1, <1>3, <2>1 DEF After, Thread
  <2>3. ThreadOk(t)
    BY <1>1, <1>2, <1>3, <2>2 DEF ThreadOk, Point, Putting, HaveIp, HaveDp, HaveOld, NotFound
  <2>. QED  BY <2>1, <2>3
<1>6. CASE WalkFails(p)
  <2>1. Reject(p, "ip", NotFound(p))
    BY <1>6 DEF WalkFails
  <2>. QED  BY <1>4, <1>5, <2>1, RejectStep
<1>7. CASE WalkNowhere(p)
  <2>1. /\ IputThen(p, "ip", NotFound(p)) /\ dinode' = dinode /\ bitmap' = bitmap /\ ents' = ents
        /\ itab' = itab /\ ilk' = ilk /\ UNCHANGED user
    BY <1>7 DEF WalkNowhere, disk
  <2>2. DiskTypes' /\ LockTypes' /\ itab' \in [Inums -> Entry]
        /\ \A i \in Inums : itab'[i].ref = itab[i].ref
    BY <1>1, <2>1 DEF DiskTypes, LockTypes
  <2>. QED  BY <1>4, <1>5, <2>1, <2>2, PutStep
<1>8. CASE WalkOn(p)
  <2>1. PICK i, s : i = NextIno(p) /\ s = Tail(th[p].path)
    OBVIOUS
  <2>2. /\ th[p].path # <<>> /\ i # NoIno /\ LookupIget(th[p].ip, i)
        /\ th' = [th EXCEPT ![p].pc = "iput", ![p].put = th[p].ip, ![p].ret = th[p].pc,
                            ![p].ip = i, ![p].path = s]
        /\ dinode' = dinode /\ bitmap' = bitmap /\ ents' = ents /\ ilk' = ilk /\ UNCHANGED user
    BY <1>1, <1>8, <2>1 DEF WalkOn, Walking, disk
  <2>3. th[p].path \in Seq(Elems)
    BY <1>1 DEF Thread
  <2>4. Head(th[p].path) \in Elems /\ s \in Seq(Elems)
    BY <2>1, <2>2, <2>3
  <2>5. i \in Inums
    BY <1>1, <1>3, <2>1, <2>2, <2>4, LookupType DEF NextIno, Inums0
  <2>6. PICK t : t = [th[p] EXCEPT !.pc = "iput", !.put = th[p].ip, !.ret = th[p].pc,
                                   !.ip = i, !.path = s]
    OBVIOUS
  <2>7. th' = [th EXCEPT ![p] = t]
    BY <1>1, <2>2, <2>6 DEF Thread
  <2>8. t \in Thread
    BY <1>1, <1>2, <1>3, <2>4, <2>5, <2>6 DEF Thread, Points, Putting, Returns, Inums0
  <2>9. /\ t.pc = "iput" /\ t.call = th[p].call /\ t.ip = i /\ t.dp = NoIno /\ t.old = th[p].old
        /\ t.put = th[p].ip /\ t.ret = th[p].pc
    BY <1>1, <1>3, <2>6 DEF Thread
  <2>10. ThreadOk(t)
    BY <1>1, <1>2, <1>3, <2>5, <2>9 DEF ThreadOk, Point, Putting, HaveIp, HaveDp, HaveOld
  <2>11. /\ itab' \in [Inums -> Entry]
         /\ \A j \in Inums : itab'[j].ref = itab[j].ref - Uses(th[p], j) + Uses(t, j)
    <3>1. itab' \in [Inums -> Entry] /\ \A j \in Inums : itab'[j].ref = itab[j].ref + One(i, j)
      BY <1>1, <1>3, <2>2, <2>5, LookupIgetTab
    <3>2. ASSUME NEW j \in Inums PROVE Uses(t, j) = Uses(th[p], j) + One(i, j)
      <4>1. One(NoIno, j) = 0
        BY <1>1 DEF One
      <4>2. One(th[p].ip, j) \in Int /\ One(th[p].old, j) \in Int /\ One(i, j) \in Int
        BY DEF One
      <4>3. Uses(th[p], j) = One(th[p].ip, j) + One(th[p].old, j)
        BY <1>2, <1>3, <4>1, <4>2 DEF Uses, Held
      <4>4. Uses(t, j) = One(i, j) + One(th[p].old, j) + One(th[p].ip, j)
        BY <2>9, <4>1, <4>2 DEF Uses, Held
      <4>. QED  BY <4>2, <4>3, <4>4
    <3>3. \A j \in Inums : itab[j].ref \in Nat /\ One(i, j) \in Int /\ Uses(th[p], j) \in Int
      BY <1>1 DEF Entry, One, Uses
    <3>. QED  BY <3>1, <3>2, <3>3
  <2>12. DiskTypes' /\ LockTypes'
    BY <1>1, <2>2 DEF DiskTypes, LockTypes
  <2>. QED  BY <1>3, <2>2, <2>7, <2>8, <2>10, <2>11, <2>12, ThreadStep
<1>9. CASE WalkToParent(p)
  <2>1. PICK n, c : /\ n = Head(th[p].path)
                    /\ c = IF th[p].call.op \in {"mkdir", "mknod", "creat"} THEN "create" ELSE th[p].call.op
    OBVIOUS
  <2>2. /\ th[p].path # <<>> /\ th[p].pc = "nameiparent" /\ itab' = ilock(th[p].ip)
        /\ th' = [th EXCEPT ![p].pc = c, ![p].dp = th[p].ip, ![p].ip = NoIno, ![p].name = n,
                            ![p].path = <<>>]
        /\ dinode' = dinode /\ bitmap' = bitmap /\ ents' = ents /\ ilk' = ilk /\ UNCHANGED user
    BY <1>1, <1>9, <2>1 DEF WalkToParent, Walking, AtLast, disk
  <2>3. th[p].path \in Seq(Elems)
    BY <1>1 DEF Thread
  <2>4. n \in Elems /\ <<>> \in Seq(Elems)
    BY <2>1, <2>2, <2>3
  <2>5. c \in {"create", "unlink", "link"} /\ (c = "link" <=> th[p].call.op = "link")
    BY <1>3, <2>1, <2>2
  <2>6. PICK t : t = [th[p] EXCEPT !.pc = c, !.dp = th[p].ip, !.ip = NoIno, !.name = n,
                                   !.path = <<>>]
    OBVIOUS
  <2>7. th' = [th EXCEPT ![p] = t]
    BY <1>1, <2>2, <2>6 DEF Thread
  <2>8. t \in Thread
    BY <1>1, <1>3, <2>4, <2>5, <2>6 DEF Thread, Points, Inums0
  <2>9. /\ t.pc = c /\ t.call = th[p].call /\ t.ip = NoIno /\ t.dp = th[p].ip /\ t.old = th[p].old
        /\ t.put = NoIno /\ t.ret = "user"
    BY <1>1, <1>3, <2>6 DEF Thread
  <2>10. ThreadOk(t)
    BY <1>1, <1>3, <2>2, <2>5, <2>9 DEF ThreadOk, Point, Putting, HaveIp, HaveDp, HaveOld
  <2>11. /\ itab' \in [Inums -> Entry]
         /\ \A j \in Inums : itab'[j].ref = itab[j].ref - Uses(th[p], j) + Uses(t, j)
    <3>1. itab' \in [Inums -> Entry] /\ \A j \in Inums : itab'[j].ref = itab[j].ref
      BY <1>1, <1>3, <2>2, IlockTab
    <3>2. ASSUME NEW j \in Inums PROVE Uses(t, j) = Uses(th[p], j)
      <4>1. One(NoIno, j) = 0
        BY <1>1 DEF One
      <4>2. One(th[p].ip, j) \in Int /\ One(th[p].old, j) \in Int
        BY DEF One
      <4>3. Uses(th[p], j) = One(th[p].ip, j) + One(th[p].old, j)
        BY <1>2, <1>3, <4>1, <4>2 DEF Uses, Held
      <4>4. Uses(t, j) = One(th[p].ip, j) + One(th[p].old, j)
        BY <2>5, <2>9, <4>1, <4>2 DEF Uses, Held
      <4>. QED  BY <4>2, <4>3, <4>4
    <3>3. \A j \in Inums : itab[j].ref \in Nat /\ Uses(th[p], j) \in Int
      BY <1>1 DEF Entry, One, Uses
    <3>. QED  BY <3>1, <3>2, <3>3
  <2>12. DiskTypes' /\ LockTypes'
    BY <1>1, <2>2 DEF DiskTypes, LockTypes
  <2>. QED  BY <1>3, <2>2, <2>7, <2>8, <2>10, <2>11, <2>12, ThreadStep
<1>. QED  BY <1>6, <1>7, <1>8, <1>9

-----------------------------------------------------------------------------
(* create() *)

LEMMA BallocType == ASSUME Unused # {} PROVE balloc \in Blocks
<1>1. Unused \subseteq Nat /\ Unused \subseteq Blocks
  BY FilesAssumption DEF Unused
<1>. QED  BY <1>1, MinIn DEF balloc

LEMMA DirlinkTab ==
  ASSUME DiskTypes, itab \in [Inums -> Entry],
         NEW d \in Inums, NEW n \in Elems, NEW i \in Inums, NEW k \in Int,
         CanLink(d, n), dirlink(d, n, i, k)
  PROVE  DiskTypes' /\ itab' \in [Inums -> Entry] /\ \A j \in Inums : itab'[j].ref = itab[j].ref
<1>1. PICK new : new = IF NeedsBlock(d) THEN {balloc} ELSE {}
  OBVIOUS
<1>2. new \subseteq Blocks
  BY <1>1, BallocType DEF CanLink
<1>3. PICK e : e = [Loaded(d) EXCEPT !.addrs = @ \cup new, !.nlink = @ + k,
                                     !.size = IF SlotsUsed(d) = @ THEN @ + 1 ELSE @]
  OBVIOUS
<1>4. Update(d, e) /\ bitmap' = bitmap \cup new /\ ents' = [ents EXCEPT ![d][n] = i]
  BY <1>1, <1>3 DEF dirlink
<1>5. Loaded(d) \in Inode
  BY IlockTab
<1>6. e \in Inode
  <2>1. PICK l, a, b, s : /\ l = Loaded(d) /\ a = l.addrs \cup new /\ b = l.nlink + k
                          /\ s = IF SlotsUsed(d) = l.size THEN l.size + 1 ELSE l.size
    OBVIOUS
  <2>2. a \in SUBSET Blocks /\ b \in Int /\ s \in Int
    BY <1>2, <1>5, <2>1 DEF Inode
  <2>3. e = [l EXCEPT !.addrs = a, !.nlink = b, !.size = s]
    BY <1>3, <1>5, <2>1
  <2>. QED  BY <1>5, <2>1, <2>2, <2>3 DEF Inode
<1>7. bitmap' \subseteq Blocks /\ ents' \in [Inums -> [Entries -> Inums0]]
  BY <1>2, <1>4 DEF DiskTypes, Inums0
<1>8. /\ dinode' \in [Inums -> Inode] /\ itab' \in [Inums -> Entry]
      /\ \A j \in Inums : itab'[j].ref = itab[j].ref
  BY <1>4, <1>6, UpdateTab
<1>. QED  BY <1>7, <1>8 DEF DiskTypes

\* A change of the number of links.
LEMMA LinksTab ==
  ASSUME DiskTypes, itab \in [Inums -> Entry], NEW i \in Inums, NEW d \in Inode,
         UNCHANGED <<bitmap, ents>>, Update(i, d)
  PROVE  DiskTypes' /\ itab' \in [Inums -> Entry] /\ \A j \in Inums : itab'[j].ref = itab[j].ref
<1>1. /\ dinode' \in [Inums -> Inode] /\ itab' \in [Inums -> Entry]
      /\ \A j \in Inums : itab'[j].ref = itab[j].ref
  BY UpdateTab
<1>. QED  BY <1>1 DEF DiskTypes

LEMMA CreateFindStep ==
  ASSUME FInv, NEW p \in Procs,
         CreateExists(p) \/ CreateFound(p) \/ CreateNew(p)
  PROVE  FInv'
<1>1. /\ th \in [Procs -> Thread] /\ th[p] \in Thread /\ ThreadOk(th[p])
      /\ itab \in [Inums -> Entry] /\ DiskTypes /\ LockTypes /\ NoIno \notin Inums
  BY FilesAssumption DEF FInv, TypeInv, ControlInv
<1>2. CASE CreateExists(p)
  <2>1. PICK i : i = Lookup(th[p].dp, th[p].name)
    OBVIOUS
  <2>2. /\ th[p].pc = "create" /\ i # NoIno /\ LookupIget(th[p].dp, i)
        /\ th' = [th EXCEPT ![p].pc = "iput", ![p].put = th[p].dp, ![p].dp = NoIno, ![p].ip = i,
                            ![p].ret = "createfound"]
        /\ dinode' = dinode /\ bitmap' = bitmap /\ ents' = ents /\ ilk' = ilk /\ UNCHANGED user
    BY <1>2, <2>1 DEF CreateExists, At, disk
  <2>3. /\ th[p].dp \in Inums /\ th[p].ip = NoIno /\ th[p].old = NoIno /\ th[p].put = NoIno
        /\ th[p].ret = "user" /\ th[p].name \in Elems /\ Point(th[p]) = "create"
    BY <1>1, <2>2 DEF ThreadOk, Thread, Inums0, Point, Putting, HaveIp, HaveDp, HaveOld
  <2>4. i \in Inums /\ cwd[p] # NoIno
    BY <1>1, <2>1, <2>2, <2>3, LookupType DEF Inums0, FInv, GoneInv
  <2>5. PICK t : t = [th[p] EXCEPT !.pc = "iput", !.put = th[p].dp, !.dp = NoIno, !.ip = i,
                                   !.ret = "createfound"]
    OBVIOUS
  <2>6. th' = [th EXCEPT ![p] = t]
    BY <1>1, <2>2, <2>5 DEF Thread
  <2>7. t \in Thread
    BY <1>1, <2>3, <2>4, <2>5 DEF Thread, Points, Putting, Returns, Inums0
  <2>8. /\ t.pc = "iput" /\ t.call = th[p].call /\ t.ip = i /\ t.dp = NoIno /\ t.old = NoIno
        /\ t.put = th[p].dp /\ t.ret = "createfound"
    BY <1>1, <2>3, <2>5 DEF Thread
  <2>9. ThreadOk(t)
    BY <1>1, <2>3, <2>4, <2>8 DEF ThreadOk, Point, Putting, HaveIp, HaveDp, HaveOld
  <2>10. /\ itab' \in [Inums -> Entry]
         /\ \A j \in Inums : itab'[j].ref = itab[j].ref - Uses(th[p], j) + Uses(t, j)
    <3>1. itab' \in [Inums -> Entry] /\ \A j \in Inums : itab'[j].ref = itab[j].ref + One(i, j)
      BY <1>1, <2>2, <2>3, <2>4, LookupIgetTab
    <3>2. ASSUME NEW j \in Inums PROVE Uses(t, j) = Uses(th[p], j) + One(i, j)
      <4>1. One(NoIno, j) = 0 /\ One(th[p].dp, j) \in Int /\ One(i, j) \in Int
        BY <1>1 DEF One
      <4>. QED  BY <2>2, <2>3, <2>8, <4>1 DEF Uses, Held
    <3>3. \A j \in Inums : itab[j].ref \in Nat /\ One(i, j) \in Int /\ Uses(th[p], j) \in Int
      BY <1>1 DEF Entry, One, Uses
    <3>. QED  BY <3>1, <3>2, <3>3
  <2>11. DiskTypes' /\ LockTypes'
    BY <1>1, <2>2 DEF DiskTypes, LockTypes
  <2>. QED  BY <2>2, <2>4, <2>6, <2>7, <2>9, <2>10, <2>11, ThreadStep
<1>3. CASE CreateFound(p)
  <2>1. th[p].pc = "createfound" /\ (Hold(p, "ip", "opened") \/ Reject(p, "ip", "user"))
    BY <1>3 DEF CreateFound, At
  <2>2. /\ th[p].dp = NoIno /\ th[p].ip \in Inums /\ th[p].old = NoIno /\ th[p].put = NoIno
        /\ th[p].ret = "user" /\ Point(th[p]) = "createfound"
    BY <1>1, <2>1 DEF ThreadOk, Thread, Inums0, Point, Putting, HaveIp, HaveDp, HaveOld
  <2>3. ThreadOk(After(th[p], "ip", "user"))
    <3>1. PICK t : t = After(th[p], "ip", "user")
      OBVIOUS
    <3>2. /\ t.pc = "iput" /\ t.ip = NoIno /\ t.dp = NoIno /\ t.old = NoIno
          /\ t.put = th[p].ip /\ t.ret = "user"
      BY <1>1, <2>2, <3>1 DEF After, Thread
    <3>3. ThreadOk(t)
      BY <1>1, <2>2, <3>2 DEF ThreadOk, Point, Putting, HaveIp, HaveDp, HaveOld
    <3>. QED  BY <3>1, <3>3
  <2>4. ThreadOk(Jump(th[p], "opened"))
    BY <1>1, <2>1, <2>2 DEF Jump, Thread, ThreadOk, Point, Putting, HaveIp, HaveDp, HaveOld
  <2>5. /\ "user" \in Returns /\ "opened" \in Points \ {"iget"} /\ "ip" \in {"ip", "dp", "old"}
        /\ th[p].pc \in Points \ {"iget"} /\ th[p]["ip"] \in Inums /\ Point(th[p]) # "user"
    BY <2>1, <2>2 DEF Returns, Points
  <2>6. CASE Hold(p, "ip", "opened")
    BY <2>4, <2>5, <2>6, HoldStep
  <2>7. CASE Reject(p, "ip", "user")
    BY <2>3, <2>5, <2>7, RejectStep
  <2>. QED  BY <2>1, <2>6, <2>7
<1>4. CASE CreateNew(p)
  <2>1. th[p].pc = "create" /\ Hold(p, "dp", "ialloc")
    BY <1>4 DEF CreateNew, At
  <2>2. th[p].dp \in Inums /\ Point(th[p]) = "create"
    BY <1>1, <2>1 DEF ThreadOk, Point, Putting, HaveDp
  <2>3. ThreadOk(Jump(th[p], "ialloc"))
    BY <1>1, <2>1, <2>2 DEF Jump, Thread, ThreadOk, Point, Putting, HaveIp, HaveDp, HaveOld
  <2>4. /\ "ialloc" \in Points \ {"iget"} /\ "dp" \in {"ip", "dp", "old"} /\ th[p].pc # "iget"
        /\ th[p]["dp"] \in Inums /\ Point(th[p]) # "user"
    BY <2>1, <2>2 DEF Points
  <2>. QED  BY <2>1, <2>3, <2>4, HoldStep
<1>. QED  BY <1>2, <1>3, <1>4

LEMMA CreateMakeStep ==
  ASSUME FInv, NEW p \in Procs,
         Ialloc(p) \/ IallocFails(p) \/ IallocIget(p) \/ CreateInit(p)
  PROVE  FInv'
<1>1. /\ th \in [Procs -> Thread] /\ th[p] \in Thread /\ ThreadOk(th[p])
      /\ itab \in [Inums -> Entry] /\ DiskTypes /\ LockTypes /\ NoIno \notin Inums
  BY FilesAssumption DEF FInv, TypeInv, ControlInv
<1>2. CASE Ialloc(p)
  <2>1. PICK i \in Inums :
          /\ th[p].pc = "ialloc"
          /\ dinode' = [dinode EXCEPT ![i] = [NoInode EXCEPT !.type = NewType(p)]]
          /\ th' = [th EXCEPT ![p].pc = "iget", ![p].ip = i]
          /\ UNCHANGED <<bitmap, ents, itab, ilk, user, panicked>>
    BY <1>2 DEF Ialloc
  <2>2. /\ th[p].dp \in Inums /\ th[p].ip = NoIno /\ th[p].old = NoIno /\ th[p].put = NoIno
        /\ th[p].ret = "user" /\ Point(th[p]) = "ialloc" /\ cwd[p] # NoIno
    BY <1>1, <2>1 DEF ThreadOk, Thread, Inums0, Point, Putting, HaveIp, HaveDp, HaveOld, FInv, GoneInv
  <2>3. PICK t : t = [th[p] EXCEPT !.pc = "iget", !.ip = i]
    OBVIOUS
  <2>4. th' = [th EXCEPT ![p] = t]
    BY <1>1, <2>1, <2>3 DEF Thread
  <2>5. t \in Thread
    BY <1>1, <2>3 DEF Thread, Points, Inums0
  <2>6. /\ t.pc = "iget" /\ t.ip = i /\ t.dp = th[p].dp /\ t.old = NoIno
        /\ t.put = NoIno /\ t.ret = "user"
    BY <1>1, <2>2, <2>3 DEF Thread
  <2>7. ThreadOk(t)
    BY <1>1, <2>2, <2>6 DEF ThreadOk, Point, Putting, HaveIp, HaveDp, HaveOld
  <2>8. \A j \in Inums : itab'[j].ref = itab[j].ref - Uses(th[p], j) + Uses(t, j)
    <3>1. ASSUME NEW j \in Inums PROVE Uses(t, j) = Uses(th[p], j) /\ Uses(th[p], j) \in Int
      BY <2>1, <2>2, <2>6 DEF Uses, Held, One
    <3>2. \A j \in Inums : itab[j].ref \in Nat
      BY <1>1 DEF Entry
    <3>. QED  BY <2>1, <3>1, <3>2
  <2>9. [NoInode EXCEPT !.type = NewType(p)] \in Inode
    <3>1. PICK y : y = NewType(p)
      OBVIOUS
    <3>2. y \in Types
      BY <3>1 DEF NewType, Types
    <3>3. NoInode = [type |-> "free", nlink |-> 0, addrs |-> {}, size |-> 0] /\ {} \in SUBSET Blocks
      BY DEF NoInode
    <3>. QED  BY <3>1, <3>2, <3>3 DEF Inode
  <2>10. PICK d : d = [NoInode EXCEPT !.type = NewType(p)]
    OBVIOUS
  <2>11. DiskTypes' /\ LockTypes' /\ itab' \in [Inums -> Entry]
    BY <1>1, <2>1, <2>9, <2>10 DEF DiskTypes, LockTypes
  <2>. QED  BY <2>1, <2>2, <2>4, <2>5, <2>7, <2>8, <2>11, ThreadStep
<1>3. CASE IallocFails(p)
  <2>1. th[p].pc = "ialloc" /\ iunlockput(p, "dp", "user")
    BY <1>3 DEF IallocFails
  <2>2. /\ th[p].dp \in Inums /\ th[p].ip = NoIno /\ th[p].old = NoIno
    BY <1>1, <2>1 DEF ThreadOk, Thread, Inums0, Point, Putting, HaveIp, HaveDp, HaveOld
  <2>3. ThreadOk(After(th[p], "dp", "user"))
    <3>1. PICK t : t = After(th[p], "dp", "user")
      OBVIOUS
    <3>2. /\ t.pc = "iput" /\ t.ip = NoIno /\ t.dp = NoIno /\ t.old = NoIno
          /\ t.put = th[p].dp /\ t.ret = "user"
      BY <1>1, <2>2, <3>1 DEF After, Thread
    <3>3. ThreadOk(t)
      BY <1>1, <2>2, <3>2 DEF ThreadOk, Point, Putting, HaveIp, HaveDp, HaveOld
    <3>. QED  BY <3>1, <3>3
  <2>4. /\ "user" \in Returns /\ "dp" \in {"ip", "dp", "old"}
        /\ th[p].pc \in Points \ {"iget"} /\ th[p]["dp"] \in Inums
    BY <2>1, <2>2 DEF Returns, Points
  <2>. QED  BY <2>1, <2>3, <2>4, UnlockPutStep
<1>4. CASE IallocIget(p)
  <2>1. PICK i : i = th[p].ip
    OBVIOUS
  <2>2. /\ th[p].pc = "iget" /\ itab' = iget(itab, i)
        /\ th' = [th EXCEPT ![p].pc = "createinit"]
        /\ dinode' = dinode /\ bitmap' = bitmap /\ ents' = ents /\ ilk' = ilk /\ UNCHANGED user
    BY <1>4, <2>1 DEF IallocIget, disk
  <2>3. /\ th[p].dp \in Inums /\ i \in Inums /\ th[p].old = NoIno /\ th[p].put = NoIno
        /\ th[p].ret = "user" /\ Point(th[p]) = "iget" /\ cwd[p] # NoIno
    BY <1>1, <2>1, <2>2 DEF ThreadOk, Thread, Inums0, Point, Putting, HaveIp, HaveDp, HaveOld, FInv, GoneInv
  <2>4. PICK t : t = [th[p] EXCEPT !.pc = "createinit"]
    OBVIOUS
  <2>5. th' = [th EXCEPT ![p] = t]
    BY <1>1, <2>2, <2>4 DEF Thread
  <2>6. t \in Thread
    BY <1>1, <2>4 DEF Thread, Points
  <2>7. /\ t.pc = "createinit" /\ t.ip = i /\ t.dp = th[p].dp /\ t.old = NoIno
        /\ t.put = NoIno /\ t.ret = "user"
    BY <1>1, <2>1, <2>3, <2>4 DEF Thread
  <2>8. ThreadOk(t)
    BY <1>1, <2>3, <2>7 DEF ThreadOk, Point, Putting, HaveIp, HaveDp, HaveOld
  <2>9. /\ itab' \in [Inums -> Entry]
        /\ \A j \in Inums : itab'[j].ref = itab[j].ref - Uses(th[p], j) + Uses(t, j)
    <3>1. itab' \in [Inums -> Entry] /\ \A j \in Inums : itab'[j].ref = itab[j].ref + One(i, j)
      BY <1>1, <2>2, <2>3, IgetTab
    <3>2. ASSUME NEW j \in Inums PROVE Uses(t, j) = Uses(th[p], j) + One(i, j)
      <4>1. One(NoIno, j) = 0 /\ One(th[p].dp, j) \in Int /\ One(i, j) \in Int
        BY <1>1 DEF One
      <4>2. Uses(th[p], j) = One(th[p].dp, j)
        BY <2>2, <2>3, <4>1 DEF Uses, Held
      <4>3. Uses(t, j) = One(i, j) + One(th[p].dp, j)
        BY <2>7, <4>1 DEF Uses, Held
      <4>. QED  BY <4>1, <4>2, <4>3
    <3>3. \A j \in Inums : itab[j].ref \in Nat /\ One(i, j) \in Int /\ Uses(th[p], j) \in Int
      BY <1>1 DEF Entry, One, Uses
    <3>. QED  BY <3>1, <3>2, <3>3
  <2>10. DiskTypes' /\ LockTypes'
    BY <1>1, <2>2 DEF DiskTypes, LockTypes
  <2>. QED  BY <2>2, <2>3, <2>5, <2>6, <2>8, <2>9, <2>10, ThreadStep
<1>5. CASE CreateInit(p)
  <2>1. PICK i, full, new, c :
          /\ i = th[p].ip
          /\ full \in BOOLEAN /\ (full <=> NewType(p) = "dir" /\ Unused = {})
          /\ new = IF NewType(p) = "dir" /\ ~(NewType(p) = "dir" /\ Unused = {}) THEN {balloc} ELSE {}
          /\ c = IF NewType(p) = "dir" /\ Unused = {} THEN "createfail" ELSE "dirlink"
    OBVIOUS
  <2>2. PICK d : d = [Loaded(i) EXCEPT !.nlink = 1, !.addrs = @ \cup new,
                                       !.size = IF new = {} THEN @ ELSE 2]
    OBVIOUS
  <2>3. /\ th[p].pc = "createinit" /\ Update(i, d) /\ bitmap' = bitmap \cup new
        /\ ents' = IF new = {} THEN ents ELSE [ents EXCEPT ![i][".."] = th[p].dp]
        /\ ilk' = [ilk EXCEPT ![i] = p] /\ th' = [th EXCEPT ![p].pc = c] /\ UNCHANGED user
    BY <1>5, <2>1, <2>2 DEF CreateInit, At
  <2>4. /\ i \in Inums /\ th[p].dp \in Inums /\ Point(th[p]) = "createinit"
    BY <1>1, <2>1, <2>3 DEF ThreadOk, Point, Putting, HaveIp, HaveDp
  <2>5. new \subseteq Blocks
    BY <2>1, BallocType
  <2>6. d \in Inode
    <3>1. Loaded(i) \in Inode
      BY <1>1, <2>4, IlockTab
    <3>2. PICK l, a, s : l = Loaded(i) /\ a = l.addrs \cup new /\ s = IF new = {} THEN l.size ELSE 2
      OBVIOUS
    <3>3. a \in SUBSET Blocks /\ s \in Int /\ 1 \in Int
      BY <2>5, <3>1, <3>2 DEF Inode
    <3>4. d = [l EXCEPT !.nlink = 1, !.addrs = a, !.size = s]
      BY <2>2, <3>1, <3>2
    <3>. QED  BY <3>1, <3>2, <3>3, <3>4 DEF Inode
  <2>7. /\ dinode' \in [Inums -> Inode] /\ itab' \in [Inums -> Entry]
        /\ \A j \in Inums : itab'[j].ref = itab[j].ref
    BY <1>1, <2>3, <2>4, <2>6, UpdateTab
  <2>8. bitmap' \subseteq Blocks /\ ents' \in [Inums -> [Entries -> Inums0]] /\ LockTypes'
    BY <1>1, <2>3, <2>4, <2>5 DEF DiskTypes, LockTypes, Inums0
  <2>9. /\ c \in (Points \cup Putting) \ {"iget"} /\ c \in {"createfail", "dirlink"}
    BY <2>1 DEF Points
  <2>10. ThreadOk(Jump(th[p], c))
    BY <1>1, <2>3, <2>4, <2>9 DEF Jump, Thread, ThreadOk, Point, Putting, HaveIp, HaveDp, HaveOld
  <2>11. th[p].pc # "iget" /\ Point(th[p]) # "user" /\ DiskTypes'
    BY <2>3, <2>4, <2>7, <2>8 DEF DiskTypes
  <2>. QED  BY <2>3, <2>7, <2>8, <2>9, <2>10, <2>11, JumpStep
<1>. QED  BY <1>2, <1>3, <1>4, <1>5

LEMMA CreateEndStep ==
  ASSUME FInv, NEW p \in Procs,
         CreateLink(p) \/ CreateLinkFails(p) \/ CreateFail(p) \/ DropParent(p) \/ Made(p)
  PROVE  FInv'
<1>1. /\ th \in [Procs -> Thread] /\ th[p] \in Thread /\ ThreadOk(th[p])
      /\ itab \in [Inums -> Entry] /\ DiskTypes /\ LockTypes /\ NoIno \notin Inums
  BY FilesAssumption DEF FInv, TypeInv, ControlInv
<1>2. ASSUME NEW v \in {"ip", "dp", "old"}, NEW r \in Returns,
             th[p].pc \in {"dirlink", "createfail", "dropparent", "made"},
             \/ th[p].pc = "dirlink" /\ v = "dp" /\ r \in {"opened", "made"}
             \/ th[p].pc = "createfail" /\ v = "ip" /\ r = "dropparent"
             \/ th[p].pc = "dropparent" /\ v = "dp" /\ r = "user"
             \/ th[p].pc = "made" /\ v = "ip" /\ r = "user"
      PROVE  th[p].pc \in Points \ {"iget"} /\ th[p][v] \in Inums /\ ThreadOk(After(th[p], v, r))
  <2>1. th[p].pc \in Points \ {"iget"} /\ Point(th[p]) = th[p].pc
    BY <1>2 DEF Points, Point, Putting
  <2>2. th[p].ip \in Inums <=> th[p].pc \in {"dirlink", "createfail", "made"}
    BY <1>1, <1>2, <2>1 DEF ThreadOk, HaveIp
  <2>3. th[p].dp \in Inums <=> th[p].pc \in {"dirlink", "createfail", "dropparent"}
    BY <1>1, <1>2, <2>1 DEF ThreadOk, HaveDp
  <2>4. th[p].old \notin Inums
    BY <1>1, <1>2, <2>1 DEF ThreadOk, HaveOld
  <2>5. th[p][v] \in Inums
    BY <1>2, <2>2, <2>3
  <2>6. PICK t : t = After(th[p], v, r)
    OBVIOUS
  <2>7. /\ t.pc = "iput" /\ t.ret = r /\ t.ip = (IF v = "ip" THEN NoIno ELSE th[p].ip)
        /\ t.dp = (IF v = "dp" THEN NoIno ELSE th[p].dp)
        /\ t.old = (IF v = "old" THEN NoIno ELSE th[p].old)
        /\ t.put = (IF v = "ip" THEN th[p].ip ELSE IF v = "dp" THEN th[p].dp ELSE th[p].old)
    BY <1>1, <2>6 DEF After, Thread
  <2>8. Point(t) = r /\ t.put \in Inums /\ t.pc \in Putting
    BY <1>2, <2>2, <2>3, <2>7 DEF Point, Putting
  <2>9. ThreadOk(t)
    <3>1. t.ip \in Inums <=> r \in HaveIp
      BY <1>1, <1>2, <2>2, <2>7 DEF HaveIp
    <3>2. t.dp \in Inums <=> r \in HaveDp
      BY <1>1, <1>2, <2>3, <2>7 DEF HaveDp
    <3>3. t.old \notin Inums /\ r \notin HaveOld /\ r # "nameiparent"
      BY <1>2, <2>4, <2>7 DEF HaveOld
    <3>. QED  BY <2>8, <3>1, <3>2, <3>3 DEF ThreadOk
  <2>. QED  BY <2>1, <2>5, <2>6, <2>9
<1>3. CASE CreateLink(p)
  <2>1. PICK r : r = IF NewType(p) = "file" THEN "opened" ELSE "made"
    OBVIOUS
  <2>2. /\ th[p].pc = "dirlink" /\ CanLink(th[p].dp, th[p].name)
        /\ dirlink(th[p].dp, th[p].name, th[p].ip, ParentLink(NewType(p)))
        /\ ilk' = [ilk EXCEPT ![th[p].dp] = Nobody] /\ IputThen(p, "dp", r) /\ UNCHANGED user
    BY <1>3, <2>1 DEF CreateLink
  <2>3. th[p].ip \in Inums /\ th[p].dp \in Inums /\ th[p].name \in Elems
    BY <1>1, <2>2 DEF ThreadOk, Thread, Point, Putting, HaveIp, HaveDp
  <2>4. DiskTypes' /\ itab' \in [Inums -> Entry] /\ \A j \in Inums : itab'[j].ref = itab[j].ref
    <3>1. ParentLink(NewType(p)) \in Int
      BY DEF ParentLink
    <3>. QED  BY <1>1, <2>2, <2>3, <3>1, DirlinkTab
  <2>5. r \in Returns /\ r \in {"opened", "made"} /\ "dp" \in {"ip", "dp", "old"}
    BY <2>1 DEF Returns, Points
  <2>6. th[p].pc \in Points \ {"iget"} /\ th[p]["dp"] \in Inums /\ ThreadOk(After(th[p], "dp", r))
    BY <1>2, <2>2, <2>5
  <2>7. LockTypes'
    BY <1>1, <2>2 DEF LockTypes
  <2>. QED  BY <2>2, <2>4, <2>5, <2>6, <2>7, PutStep
<1>4. CASE CreateLinkFails(p)
  <2>1. /\ th[p].pc = "dirlink" /\ th' = [th EXCEPT ![p].pc = "createfail"]
        /\ dinode' = dinode /\ bitmap' = bitmap /\ ents' = ents /\ itab' = itab /\ ilk' = ilk
        /\ UNCHANGED user
    BY <1>4 DEF CreateLinkFails, disk
  <2>2. ThreadOk(Jump(th[p], "createfail")) /\ Point(th[p]) # "user"
    BY <1>1, <2>1 DEF Jump, Thread, ThreadOk, Point, Putting, HaveIp, HaveDp, HaveOld
  <2>3. /\ DiskTypes' /\ LockTypes' /\ itab' \in [Inums -> Entry]
        /\ \A j \in Inums : itab'[j].ref = itab[j].ref
    BY <1>1, <2>1 DEF DiskTypes, LockTypes
  <2>4. "createfail" \in (Points \cup Putting) \ {"iget"} /\ th[p].pc # "iget"
    BY <2>1 DEF Points
  <2>. QED  BY <2>1, <2>2, <2>3, <2>4, JumpStep
<1>5. CASE CreateFail(p)
  <2>1. PICK d : d = [Loaded(th[p].ip) EXCEPT !.nlink = 0]
    OBVIOUS
  <2>2. /\ th[p].pc = "createfail" /\ Update(th[p].ip, d) /\ IputThen(p, "ip", "dropparent")
        /\ ilk' = [ilk EXCEPT ![th[p].ip] = Nobody] /\ UNCHANGED <<bitmap, ents>> /\ UNCHANGED user
    BY <1>5, <2>1 DEF CreateFail
  <2>3. "dropparent" \in Returns /\ "ip" \in {"ip", "dp", "old"}
    BY DEF Returns, Points
  <2>4. th[p].pc \in Points \ {"iget"} /\ th[p]["ip"] \in Inums /\ ThreadOk(After(th[p], "ip", "dropparent"))
    BY <1>2, <2>2, <2>3
  <2>5. d \in Inode
    <3>1. Loaded(th[p].ip) \in Inode
      BY <1>1, <2>4, IlockTab
    <3>. QED  BY <2>1, <3>1 DEF Inode
  <2>6. DiskTypes' /\ itab' \in [Inums -> Entry] /\ \A j \in Inums : itab'[j].ref = itab[j].ref
    BY <1>1, <2>2, <2>4, <2>5, LinksTab
  <2>7. LockTypes'
    BY <1>1, <2>2 DEF LockTypes
  <2>. QED  BY <2>2, <2>3, <2>4, <2>6, <2>7, PutStep
<1>6. CASE DropParent(p)
  <2>1. th[p].pc = "dropparent" /\ iunlockput(p, "dp", "user")
    BY <1>6 DEF DropParent
  <2>2. "user" \in Returns /\ "dp" \in {"ip", "dp", "old"}
    BY DEF Returns, Points
  <2>3. th[p].pc \in Points \ {"iget"} /\ th[p]["dp"] \in Inums /\ ThreadOk(After(th[p], "dp", "user"))
    BY <1>2, <2>1, <2>2
  <2>. QED  BY <2>1, <2>2, <2>3, UnlockPutStep
<1>7. CASE Made(p)
  <2>1. th[p].pc = "made" /\ iunlockput(p, "ip", "user")
    BY <1>7 DEF Made
  <2>2. "user" \in Returns /\ "ip" \in {"ip", "dp", "old"}
    BY DEF Returns, Points
  <2>3. th[p].pc \in Points \ {"iget"} /\ th[p]["ip"] \in Inums /\ ThreadOk(After(th[p], "ip", "user"))
    BY <1>2, <2>1, <2>2
  <2>. QED  BY <2>1, <2>2, <2>3, UnlockPutStep
<1>. QED  BY <1>3, <1>4, <1>5, <1>6, <1>7

-----------------------------------------------------------------------------
(* unlink() and link() *)

\* A call may leave v to iput() and go on where it needs the other variables.
LEMMA AfterOk ==
  ASSUME FInv, NEW p \in Procs, NEW v \in {"ip", "dp", "old"}, NEW r \in Returns,
         th[p].pc \in Points \ {"iget"}, th[p][v] \in Inums,
         r \in HaveIp <=> th[p].pc \in HaveIp /\ v # "ip",
         r \in HaveDp <=> th[p].pc \in HaveDp /\ v # "dp",
         r \in HaveOld <=> th[p].old \in Inums /\ v # "old",
         r # "nameiparent"
  PROVE  ThreadOk(After(th[p], v, r))
<1>1. th[p] \in Thread /\ ThreadOk(th[p]) /\ NoIno \notin Inums
  BY FilesAssumption DEF FInv, TypeInv, ControlInv
<1>2. Point(th[p]) = th[p].pc
  BY DEF Points, Point, Putting
<1>3. (th[p].ip \in Inums <=> th[p].pc \in HaveIp) /\ (th[p].dp \in Inums <=> th[p].pc \in HaveDp)
  BY <1>1, <1>2 DEF ThreadOk
<1>4. PICK t : t = After(th[p], v, r)
  OBVIOUS
<1>5. /\ t.pc = "iput" /\ t.ret = r /\ t.ip = (IF v = "ip" THEN NoIno ELSE th[p].ip)
      /\ t.dp = (IF v = "dp" THEN NoIno ELSE th[p].dp)
      /\ t.old = (IF v = "old" THEN NoIno ELSE th[p].old)
      /\ t.put = (IF v = "ip" THEN th[p].ip ELSE IF v = "dp" THEN th[p].dp ELSE th[p].old)
  BY <1>1, <1>4 DEF After, Thread
<1>6. Point(t) = r /\ t.put \in Inums /\ t.pc \in Putting
  BY <1>5 DEF Point, Putting
<1>7. t.ip \in Inums <=> r \in HaveIp
  BY <1>1, <1>3, <1>5
<1>8. t.dp \in Inums <=> r \in HaveDp
  BY <1>1, <1>3, <1>5
<1>9. t.old \in Inums <=> r \in HaveOld
  BY <1>1, <1>5
<1>10. ThreadOk(t)
  BY <1>6, <1>7, <1>8, <1>9 DEF ThreadOk
<1>. QED  BY <1>4, <1>10

\* The references that unlink() and link() have at each point.
LEMMA LinkPoints ==
  ASSUME FInv, NEW p \in Procs,
         th[p].pc \in {"namei", "unlink", "unlinklock", "unlinkdec", "link", "linkdrop", "linkbad",
                       "linkput"}
  PROVE  /\ th[p].ip \in Inums <=> th[p].pc \in {"namei", "unlinklock", "unlinkdec"}
         /\ th[p].dp \in Inums <=> th[p].pc \in {"unlink", "unlinklock", "link", "linkdrop"}
         /\ th[p].old \in Inums <=> th[p].pc \in {"link", "linkdrop", "linkbad", "linkput"}
         /\ th[p].put = NoIno /\ th[p].ret = "user" /\ cwd[p] # NoIno
         /\ th[p].pc \in Points \ {"iget"} /\ Point(th[p]) = th[p].pc
<1>1. th[p] \in Thread /\ ThreadOk(th[p])
  BY DEF FInv, TypeInv, ControlInv
<1>2. Point(th[p]) = th[p].pc /\ th[p].pc \notin Putting /\ th[p].pc \in Points \ {"iget"}
  BY DEF Point, Putting, Points
<1>3. cwd[p] # NoIno
  BY <1>2 DEF FInv, GoneInv
<1>4. th[p].put = NoIno /\ th[p].ret = "user"
  BY <1>1, <1>2 DEF ThreadOk, Thread, Inums0
<1>5. th[p].ip \in Inums <=> th[p].pc \in {"namei", "unlinklock", "unlinkdec"}
  BY <1>1, <1>2 DEF ThreadOk, HaveIp
<1>6. th[p].dp \in Inums <=> th[p].pc \in {"unlink", "unlinklock", "link", "linkdrop"}
  BY <1>1, <1>2 DEF ThreadOk, HaveDp
<1>7. th[p].old \in Inums <=> th[p].pc \in {"link", "linkdrop", "linkbad", "linkput"}
  BY <1>1, <1>2 DEF ThreadOk, HaveOld
<1>. QED  BY <1>2, <1>3, <1>4, <1>5, <1>6, <1>7

\* iunlockput() of what the lookup found, and of what was kept.
LEMMA LinkPutting ==
  ASSUME FInv, NEW p \in Procs, NEW v \in {"ip", "dp", "old"}, NEW r \in Returns,
         \/ th[p].pc = "unlink" /\ v = "dp" /\ r = "user"
         \/ th[p].pc = "unlinklock" /\ v = "ip" /\ r = "dropparent"
         \/ th[p].pc = "unlinklock" /\ v = "dp" /\ r = "unlinkdec"
         \/ th[p].pc = "unlinkdec" /\ v = "ip" /\ r = "user"
         \/ th[p].pc = "namei" /\ v = "ip" /\ r = "user"
         \/ th[p].pc = "link" /\ v = "dp" /\ r \in {"linkput", "linkbad"}
         \/ th[p].pc = "linkdrop" /\ v = "dp" /\ r = "linkbad"
         \/ th[p].pc \in {"linkput", "linkbad"} /\ v = "old" /\ r = "user"
  PROVE  /\ th[p].pc \in Points \ {"iget"} /\ th[p][v] \in Inums
         /\ ThreadOk(After(th[p], v, r))
<1>1. th[p].pc \in {"namei", "unlink", "unlinklock", "unlinkdec", "link", "linkdrop", "linkbad",
                     "linkput"}
  OBVIOUS
<1>2. /\ th[p].ip \in Inums <=> th[p].pc \in {"namei", "unlinklock", "unlinkdec"}
      /\ th[p].dp \in Inums <=> th[p].pc \in {"unlink", "unlinklock", "link", "linkdrop"}
      /\ th[p].old \in Inums <=> th[p].pc \in {"link", "linkdrop", "linkbad", "linkput"}
      /\ th[p].pc \in Points \ {"iget"}
  BY <1>1, LinkPoints
<1>3. th[p][v] \in Inums
  BY <1>2
<1>4. r \in HaveIp <=> th[p].pc \in HaveIp /\ v # "ip"
  BY <1>1 DEF HaveIp
<1>5. r \in HaveDp <=> th[p].pc \in HaveDp /\ v # "dp"
  BY <1>1 DEF HaveDp
<1>6. r \in HaveOld <=> th[p].old \in Inums /\ v # "old"
  BY <1>1, <1>2 DEF HaveOld
<1>7. r # "nameiparent"
  OBVIOUS
<1>. QED  BY <1>2, <1>3, <1>4, <1>5, <1>6, <1>7, AfterOk

LEMMA DropLinkTab ==
  ASSUME DiskTypes, itab \in [Inums -> Entry], NEW i \in Inums,
         UNCHANGED <<bitmap, ents>>, DropLink(i)
  PROVE  DiskTypes' /\ itab' \in [Inums -> Entry] /\ \A j \in Inums : itab'[j].ref = itab[j].ref
<1>1. PICK d : d = [Loaded(i) EXCEPT !.nlink = @ - 1]
  OBVIOUS
<1>2. Loaded(i) \in Inode
  BY IlockTab
<1>3. d \in Inode
  BY <1>1, <1>2 DEF Inode
<1>. QED  BY <1>1, <1>3, LinksTab DEF DropLink

LEMMA UnlinkStep ==
  ASSUME FInv, NEW p \in Procs,
         \/ UnlinkNothing(p) \/ UnlinkLookup(p) \/ UnlinkNotEmpty(p) \/ UnlinkEntry(p)
         \/ UnlinkDec(p)
  PROVE  FInv'
<1>1. /\ th \in [Procs -> Thread] /\ th[p] \in Thread /\ ThreadOk(th[p])
      /\ itab \in [Inums -> Entry] /\ DiskTypes /\ LockTypes /\ NoIno \notin Inums
      /\ {"user", "dropparent", "unlinkdec"} \subseteq Returns
  BY FilesAssumption DEF FInv, TypeInv, ControlInv, Returns, Points
<1>2. CASE UnlinkNothing(p)
  <2>1. th[p].pc = "unlink" /\ Reject(p, "dp", "user")
    BY <1>2 DEF UnlinkNothing, At
  <2>2. th[p].pc \in Points \ {"iget"} /\ th[p]["dp"] \in Inums /\ ThreadOk(After(th[p], "dp", "user"))
    BY <1>1, <2>1, LinkPutting
  <2>. QED  BY <1>1, <2>1, <2>2, RejectStep
<1>3. CASE UnlinkLookup(p)
  <2>1. PICK i : i = Lookup(th[p].dp, th[p].name)
    OBVIOUS
  <2>2. /\ th[p].pc = "unlink" /\ i # NoIno /\ LookupIget(th[p].dp, i)
        /\ th' = [th EXCEPT ![p].pc = "unlinklock", ![p].ip = i]
        /\ ilk' = [ilk EXCEPT ![th[p].dp] = p]
        /\ dinode' = dinode /\ bitmap' = bitmap /\ ents' = ents /\ UNCHANGED user
    BY <1>3, <2>1 DEF UnlinkLookup, At, disk
  <2>3. /\ th[p].dp \in Inums /\ th[p].ip = NoIno /\ th[p].old = NoIno /\ th[p].put = NoIno
        /\ th[p].ret = "user" /\ th[p].name \in Elems /\ cwd[p] # NoIno
    BY <1>1, <2>2, LinkPoints DEF Thread, Inums0
  <2>4. i \in Inums
    BY <1>1, <2>1, <2>2, <2>3, LookupType DEF Inums0
  <2>5. PICK t : t = [th[p] EXCEPT !.pc = "unlinklock", !.ip = i]
    OBVIOUS
  <2>6. th' = [th EXCEPT ![p] = t]
    BY <1>1, <2>2, <2>5 DEF Thread
  <2>7. t \in Thread
    BY <1>1, <2>4, <2>5 DEF Thread, Points, Inums0
  <2>8. /\ t.pc = "unlinklock" /\ t.call = th[p].call /\ t.ip = i /\ t.dp = th[p].dp
        /\ t.old = NoIno /\ t.put = NoIno /\ t.ret = "user"
    BY <1>1, <2>3, <2>5 DEF Thread
  <2>9. ThreadOk(t)
    BY <1>1, <2>3, <2>4, <2>8 DEF ThreadOk, Point, Putting, HaveIp, HaveDp, HaveOld
  <2>10. /\ itab' \in [Inums -> Entry]
         /\ \A j \in Inums : itab'[j].ref = itab[j].ref - Uses(th[p], j) + Uses(t, j)
    <3>1. itab' \in [Inums -> Entry] /\ \A j \in Inums : itab'[j].ref = itab[j].ref + One(i, j)
      BY <1>1, <2>2, <2>3, <2>4, LookupIgetTab
    <3>2. ASSUME NEW j \in Inums PROVE Uses(t, j) = Uses(th[p], j) + One(i, j)
      <4>1. One(NoIno, j) = 0 /\ One(th[p].dp, j) \in Int /\ One(i, j) \in Int
        BY <1>1 DEF One
      <4>2. Uses(th[p], j) = One(th[p].dp, j)
        BY <2>2, <2>3, <4>1 DEF Uses, Held
      <4>3. Uses(t, j) = One(i, j) + One(th[p].dp, j)
        BY <2>8, <4>1 DEF Uses, Held
      <4>. QED  BY <4>1, <4>2, <4>3
    <3>3. \A j \in Inums : itab[j].ref \in Nat /\ One(i, j) \in Int /\ Uses(th[p], j) \in Int
      BY <1>1 DEF Entry, One, Uses
    <3>. QED  BY <3>1, <3>2, <3>3
  <2>11. DiskTypes' /\ LockTypes'
    BY <1>1, <2>2 DEF DiskTypes, LockTypes
  <2>. QED  BY <2>2, <2>3, <2>6, <2>7, <2>9, <2>10, <2>11, ThreadStep
<1>4. CASE UnlinkNotEmpty(p)
  <2>1. th[p].pc = "unlinklock" /\ Reject(p, "ip", "dropparent")
    BY <1>4 DEF UnlinkNotEmpty, At
  <2>2. /\ th[p].pc \in Points \ {"iget"} /\ th[p]["ip"] \in Inums
        /\ ThreadOk(After(th[p], "ip", "dropparent"))
    BY <1>1, <2>1, LinkPutting
  <2>. QED  BY <1>1, <2>1, <2>2, RejectStep
<1>5. CASE UnlinkEntry(p)
  <2>1. PICK i, j, d : /\ i = th[p].ip /\ j = th[p].dp
                       /\ d = [itab[j].d EXCEPT !.nlink = @ - ParentLink(Loaded(i).type)]
    OBVIOUS
  <2>2. /\ th[p].pc = "unlinklock" /\ ents' = [ents EXCEPT ![j][th[p].name] = NoIno]
        /\ itab' = [ilock(i) EXCEPT ![j].d = d] /\ dinode' = [dinode EXCEPT ![j] = d]
        /\ ilk' = [ilk EXCEPT ![i] = p, ![j] = Nobody] /\ bitmap' = bitmap
        /\ IputThen(p, "dp", "unlinkdec") /\ UNCHANGED user
    BY <1>5, <2>1 DEF UnlinkEntry, At
  <2>3. i \in Inums /\ j \in Inums
    BY <2>1, <2>2, LinkPoints
  <2>4. d \in Inode
    <3>1. ParentLink(Loaded(i).type) \in Int /\ itab[j].d \in Inode
      BY <1>1, <2>3 DEF ParentLink, Entry
    <3>2. PICK k : k = ParentLink(Loaded(i).type)
      OBVIOUS
    <3>3. d = [itab[j].d EXCEPT !.nlink = itab[j].d.nlink - k] /\ k \in Int
      BY <2>1, <3>1, <3>2
    <3>. QED  BY <3>1, <3>3 DEF Inode
  <2>5. itab' \in [Inums -> Entry] /\ \A k \in Inums : itab'[k].ref = itab[k].ref
    <3>1. PICK tab : tab = ilock(i)
      OBVIOUS
    <3>2. tab \in [Inums -> Entry] /\ \A k \in Inums : tab[k].ref = itab[k].ref
      BY <1>1, <2>3, <3>1, IlockTab
    <3>3. itab' = [tab EXCEPT ![j] = [tab[j] EXCEPT !.d = d]]
      BY <2>2, <3>1
    <3>4. [tab[j] EXCEPT !.d = d] \in Entry /\ [tab[j] EXCEPT !.d = d].ref = tab[j].ref
      BY <2>3, <2>4, <3>2 DEF Entry
    <3>. QED  BY <2>3, <3>2, <3>3, <3>4
  <2>6. DiskTypes' /\ LockTypes'
    BY <1>1, <2>2, <2>3, <2>4 DEF DiskTypes, LockTypes, Inums0
  <2>7. th[p].pc \in Points \ {"iget"} /\ th[p]["dp"] \in Inums /\ ThreadOk(After(th[p], "dp", "unlinkdec"))
    BY <1>1, <2>2, LinkPutting
  <2>. QED  BY <1>1, <2>2, <2>5, <2>6, <2>7, PutStep
<1>6. CASE UnlinkDec(p)
  <2>1. /\ th[p].pc = "unlinkdec" /\ DropLink(th[p].ip) /\ IputThen(p, "ip", "user")
        /\ ilk' = [ilk EXCEPT ![th[p].ip] = Nobody] /\ UNCHANGED <<bitmap, ents>> /\ UNCHANGED user
    BY <1>6 DEF UnlinkDec
  <2>2. th[p].pc \in Points \ {"iget"} /\ th[p]["ip"] \in Inums /\ ThreadOk(After(th[p], "ip", "user"))
    BY <1>1, <2>1, LinkPutting
  <2>3. DiskTypes' /\ itab' \in [Inums -> Entry] /\ \A j \in Inums : itab'[j].ref = itab[j].ref
    BY <1>1, <2>1, <2>2, DropLinkTab
  <2>4. LockTypes'
    BY <1>1, <2>1 DEF LockTypes
  <2>. QED  BY <1>1, <2>1, <2>2, <2>3, <2>4, PutStep
<1>. QED  BY <1>2, <1>3, <1>4, <1>5, <1>6

LEMMA LinkStepInv ==
  ASSUME FInv, NEW p \in Procs,
         \/ LinkDir(p) \/ LinkInc(p) \/ LinkEntry(p) \/ LinkExists(p) \/ LinkDrop(p)
         \/ LinkFails(p) \/ LinkPut(p) \/ LinkBad(p)
  PROVE  FInv'
<1>1. /\ th \in [Procs -> Thread] /\ th[p] \in Thread /\ ThreadOk(th[p])
      /\ itab \in [Inums -> Entry] /\ DiskTypes /\ LockTypes /\ UserTypes /\ NoIno \notin Inums
      /\ {"user", "linkput", "linkbad"} \subseteq Returns
  BY FilesAssumption DEF FInv, TypeInv, ControlInv, Returns, Points
<1>2. CASE LinkDir(p)
  <2>1. th[p].pc = "namei" /\ Reject(p, "ip", "user")
    BY <1>2 DEF LinkDir, Found, At
  <2>2. th[p].pc \in Points \ {"iget"} /\ th[p]["ip"] \in Inums /\ ThreadOk(After(th[p], "ip", "user"))
    BY <1>1, <2>1, LinkPutting
  <2>. QED  BY <1>1, <2>1, <2>2, RejectStep
<1>3. CASE LinkInc(p)
  <2>1. PICK i, j, d, e : /\ i = th[p].ip /\ j = From(p, th[p].call.new)
                          /\ d = [Loaded(i) EXCEPT !.nlink = @ + 1]
                          /\ e = Elements(th[p].call.new)
    OBVIOUS
  <2>2. /\ th[p].pc = "namei" /\ th[p].call.op = "link"
        /\ itab' = iget([ilock(i) EXCEPT ![i].d = d], j) /\ dinode' = [dinode EXCEPT ![i] = d]
        /\ th' = [th EXCEPT ![p].old = i, ![p].ip = j, ![p].pc = "nameiparent", ![p].path = e]
        /\ bitmap' = bitmap /\ ents' = ents /\ ilk' = ilk /\ UNCHANGED user
    BY <1>3, <2>1 DEF LinkInc, Found, At
  <2>3. /\ i \in Inums /\ th[p].dp = NoIno /\ th[p].old = NoIno /\ th[p].put = NoIno
        /\ th[p].ret = "user" /\ cwd[p] # NoIno
    BY <1>1, <2>1, <2>2, LinkPoints DEF Thread, Inums0
  <2>4. j \in Inums
    BY <1>1, <2>1, <2>3, FilesAssumption DEF From, UserTypes, Inums0
  <2>5. e \in Seq(Elems)
    <3>1. th[p].call \in Calls
      BY <1>1 DEF Thread
    <3>2. PICK k \in DOMAIN Programs, q \in Procs : th[p].call \in Programs[k][q]
      BY <2>2, <3>1 DEF Calls
    <3>. QED  BY <2>1, <2>2, <3>2, ProgramsAssumption DEF Elems
  <2>6. d \in Inode
    <3>1. Loaded(i) \in Inode
      BY <1>1, <2>3, IlockTab
    <3>. QED  BY <2>1, <3>1 DEF Inode
  <2>7. PICK t : t = [th[p] EXCEPT !.old = i, !.ip = j, !.pc = "nameiparent", !.path = e]
    OBVIOUS
  <2>8. th' = [th EXCEPT ![p] = t]
    BY <1>1, <2>2, <2>7 DEF Thread
  <2>9. t \in Thread
    BY <1>1, <2>3, <2>4, <2>5, <2>7 DEF Thread, Points, Inums0
  <2>10. /\ t.pc = "nameiparent" /\ t.call = th[p].call /\ t.ip = j /\ t.dp = NoIno
         /\ t.old = i /\ t.put = NoIno /\ t.ret = "user"
    BY <1>1, <2>3, <2>7 DEF Thread
  <2>11. ThreadOk(t)
    BY <1>1, <2>2, <2>3, <2>4, <2>10 DEF ThreadOk, Point, Putting, HaveIp, HaveDp, HaveOld
  <2>12. /\ itab' \in [Inums -> Entry]
         /\ \A k \in Inums : itab'[k].ref = itab[k].ref - Uses(th[p], k) + Uses(t, k)
    <3>1. PICK tab, tab2 : tab = ilock(i) /\ tab2 = [tab EXCEPT ![i] = [tab[i] EXCEPT !.d = d]]
      OBVIOUS
    <3>2. tab \in [Inums -> Entry] /\ \A k \in Inums : tab[k].ref = itab[k].ref
      BY <1>1, <2>3, <3>1, IlockTab
    <3>3. [tab[i] EXCEPT !.d = d] \in Entry /\ [tab[i] EXCEPT !.d = d].ref = tab[i].ref
      BY <2>3, <2>6, <3>2 DEF Entry
    <3>4. tab2 \in [Inums -> Entry] /\ \A k \in Inums : tab2[k].ref = itab[k].ref
      BY <2>3, <3>1, <3>2, <3>3
    <3>5. itab' = iget(tab2, j)
      BY <2>2, <3>1
    <3>6. itab' \in [Inums -> Entry] /\ \A k \in Inums : itab'[k].ref = tab2[k].ref + One(j, k)
      BY <2>4, <3>4, <3>5, IgetTab
    <3>7. ASSUME NEW k \in Inums PROVE Uses(t, k) = Uses(th[p], k) + One(j, k)
      <4>1. One(NoIno, k) = 0 /\ One(i, k) \in Int /\ One(j, k) \in Int
        BY <1>1 DEF One
      <4>2. Uses(th[p], k) = One(i, k)
        BY <2>1, <2>2, <2>3, <4>1 DEF Uses, Held
      <4>3. Uses(t, k) = One(j, k) + One(i, k)
        BY <2>10, <4>1 DEF Uses, Held
      <4>. QED  BY <4>1, <4>2, <4>3
    <3>8. \A k \in Inums : itab[k].ref \in Nat /\ One(j, k) \in Int /\ Uses(th[p], k) \in Int
      BY <1>1 DEF Entry, One, Uses
    <3>. QED  BY <3>4, <3>6, <3>7, <3>8
  <2>13. DiskTypes' /\ LockTypes'
    BY <1>1, <2>2, <2>3, <2>6 DEF DiskTypes, LockTypes
  <2>. QED  BY <2>2, <2>3, <2>8, <2>9, <2>11, <2>12, <2>13, ThreadStep
<1>4. CASE LinkEntry(p)
  <2>1. /\ th[p].pc = "link" /\ CanLink(th[p].dp, th[p].name)
        /\ dirlink(th[p].dp, th[p].name, th[p].old, 0)
        /\ IputThen(p, "dp", "linkput") /\ ilk' = ilk /\ UNCHANGED user
    BY <1>4 DEF LinkEntry, At
  <2>2. th[p].old \in Inums /\ th[p].dp \in Inums /\ th[p].name \in Elems
    BY <1>1, <2>1, LinkPoints DEF Thread
  <2>3. DiskTypes' /\ itab' \in [Inums -> Entry] /\ \A j \in Inums : itab'[j].ref = itab[j].ref
    BY <1>1, <2>1, <2>2, DirlinkTab
  <2>4. th[p].pc \in Points \ {"iget"} /\ th[p]["dp"] \in Inums /\ ThreadOk(After(th[p], "dp", "linkput"))
    BY <1>1, <2>1, LinkPutting
  <2>5. LockTypes'
    BY <1>1, <2>1 DEF LockTypes
  <2>. QED  BY <1>1, <2>1, <2>3, <2>4, <2>5, PutStep
<1>5. CASE LinkFails(p)
  <2>1. th[p].pc = "link" /\ Reject(p, "dp", "linkbad")
    BY <1>5 DEF LinkFails, At
  <2>2. th[p].pc \in Points \ {"iget"} /\ th[p]["dp"] \in Inums /\ ThreadOk(After(th[p], "dp", "linkbad"))
    BY <1>1, <2>1, LinkPutting
  <2>. QED  BY <1>1, <2>1, <2>2, RejectStep
<1>6. CASE LinkPut(p)
  <2>1. /\ th[p].pc = "linkput" /\ IputThen(p, "old", "user") /\ dinode' = dinode /\ bitmap' = bitmap
        /\ ents' = ents /\ itab' = itab /\ ilk' = ilk /\ UNCHANGED user
    BY <1>6 DEF LinkPut, disk
  <2>2. th[p].pc \in Points \ {"iget"} /\ th[p]["old"] \in Inums /\ ThreadOk(After(th[p], "old", "user"))
    BY <1>1, <2>1, LinkPutting
  <2>3. /\ DiskTypes' /\ LockTypes' /\ itab' \in [Inums -> Entry]
        /\ \A j \in Inums : itab'[j].ref = itab[j].ref
    BY <1>1, <2>1 DEF DiskTypes, LockTypes
  <2>. QED  BY <1>1, <2>1, <2>2, <2>3, PutStep
<1>7. CASE LinkBad(p)
  <2>1. /\ th[p].pc = "linkbad" /\ DropLink(th[p].old) /\ IputThen(p, "old", "user")
        /\ ilk' = ilk /\ UNCHANGED <<bitmap, ents>> /\ UNCHANGED user
    BY <1>7 DEF LinkBad, At
  <2>2. th[p].pc \in Points \ {"iget"} /\ th[p]["old"] \in Inums /\ ThreadOk(After(th[p], "old", "user"))
    BY <1>1, <2>1, LinkPutting
  <2>3. DiskTypes' /\ itab' \in [Inums -> Entry] /\ \A j \in Inums : itab'[j].ref = itab[j].ref
    BY <1>1, <2>1, <2>2, DropLinkTab
  <2>4. LockTypes'
    BY <1>1, <2>1 DEF LockTypes
  <2>. QED  BY <1>1, <2>1, <2>2, <2>3, <2>4, PutStep
<1>8. CASE LinkExists(p)
  <2>1. PICK i : i = Lookup(th[p].dp, th[p].name)
    OBVIOUS
  <2>2. /\ th[p].pc = "link" /\ i # NoIno /\ LookupIget(th[p].dp, i)
        /\ th' = [th EXCEPT ![p].pc = "iput", ![p].put = i, ![p].ret = "linkdrop"]
        /\ ilk' = [ilk EXCEPT ![th[p].dp] = p]
        /\ dinode' = dinode /\ bitmap' = bitmap /\ ents' = ents /\ UNCHANGED user
    BY <1>8, <2>1 DEF LinkExists, At, disk
  <2>3. /\ th[p].dp \in Inums /\ th[p].old \in Inums /\ th[p].ip = NoIno /\ th[p].put = NoIno
        /\ th[p].ret = "user" /\ th[p].name \in Elems /\ cwd[p] # NoIno
    BY <1>1, <2>2, LinkPoints DEF Thread, Inums0
  <2>4. i \in Inums
    BY <1>1, <2>1, <2>2, <2>3, LookupType DEF Inums0
  <2>5. PICK t : t = [th[p] EXCEPT !.pc = "iput", !.put = i, !.ret = "linkdrop"]
    OBVIOUS
  <2>6. th' = [th EXCEPT ![p] = t]
    BY <1>1, <2>2, <2>5 DEF Thread
  <2>7. t \in Thread
    BY <1>1, <2>4, <2>5 DEF Thread, Points, Putting, Returns, Inums0
  <2>8. /\ t.pc = "iput" /\ t.call = th[p].call /\ t.ip = NoIno /\ t.dp = th[p].dp
        /\ t.old = th[p].old /\ t.put = i /\ t.ret = "linkdrop"
    BY <1>1, <2>3, <2>5 DEF Thread
  <2>9. ThreadOk(t)
    BY <1>1, <2>3, <2>4, <2>8 DEF ThreadOk, Point, Putting, HaveIp, HaveDp, HaveOld
  <2>10. /\ itab' \in [Inums -> Entry]
         /\ \A j \in Inums : itab'[j].ref = itab[j].ref - Uses(th[p], j) + Uses(t, j)
    <3>1. itab' \in [Inums -> Entry] /\ \A j \in Inums : itab'[j].ref = itab[j].ref + One(i, j)
      BY <1>1, <2>2, <2>3, <2>4, LookupIgetTab
    <3>2. ASSUME NEW j \in Inums PROVE Uses(t, j) = Uses(th[p], j) + One(i, j)
      <4>1. /\ One(NoIno, j) = 0 /\ One(th[p].dp, j) \in Int /\ One(th[p].old, j) \in Int
            /\ One(i, j) \in Int
        BY <1>1 DEF One
      <4>2. Uses(th[p], j) = One(th[p].dp, j) + One(th[p].old, j)
        BY <2>2, <2>3, <4>1 DEF Uses, Held
      <4>3. Uses(t, j) = One(i, j) + One(th[p].dp, j) + One(th[p].old, j)
        BY <2>8, <4>1 DEF Uses, Held
      <4>. QED  BY <4>1, <4>2, <4>3
    <3>3. \A j \in Inums : itab[j].ref \in Nat /\ One(i, j) \in Int /\ Uses(th[p], j) \in Int
      BY <1>1 DEF Entry, One, Uses
    <3>. QED  BY <3>1, <3>2, <3>3
  <2>11. DiskTypes' /\ LockTypes'
    BY <1>1, <2>2 DEF DiskTypes, LockTypes
  <2>. QED  BY <2>2, <2>3, <2>6, <2>7, <2>9, <2>10, <2>11, ThreadStep
<1>9. CASE LinkDrop(p)
  <2>1. th[p].pc = "linkdrop" /\ iunlockput(p, "dp", "linkbad")
    BY <1>9 DEF LinkDrop
  <2>2. "linkbad" \in Returns /\ "dp" \in {"ip", "dp", "old"}
    BY <1>1
  <2>3. th[p].pc \in Points \ {"iget"} /\ th[p]["dp"] \in Inums /\ ThreadOk(After(th[p], "dp", "linkbad"))
    BY <1>1, <2>1, LinkPutting
  <2>. QED  BY <2>1, <2>2, <2>3, UnlockPutStep
<1>. QED  BY <1>2, <1>3, <1>4, <1>5, <1>6, <1>7, <1>8, <1>9

-----------------------------------------------------------------------------
(* Open files and current directories *)

\* Steps that also change the current directory of the process or one open file.
LEMMA UserStep ==
  ASSUME FInv, TypeInv', NEW p \in Procs, NEW t \in Thread, NEW c \in Inums0,
         th' = [th EXCEPT ![p] = t], cwd' = [cwd EXCEPT ![p] = c], ThreadOk(t),
         NEW f \in 0..NFILE,
         \A g \in (1..NFILE) \ {f} : FileIno(file'[g]) = FileIno(file[g]),
         GoneInv', FileInv', FdInv',
         \A i \in Inums : itab'[i].ref =
           itab[i].ref - Local(th[p], cwd[p], i) + Local(t, c, i)
           + (IF f = 0 THEN 0 ELSE One(FileIno(file'[f]), i) - One(FileIno(file[f]), i))
  PROVE  FInv'
<1>1. TypeInv /\ th \in [Procs -> Thread]
  BY DEF FInv, TypeInv
<1>2. ControlInv'
  BY <1>1 DEF FInv, ControlInv
<1>3. ASSUME NEW i \in Inums PROVE itab'[i].ref = Count(Ptr', i)
  <2>1. Count(Ptr', i) =
           Count(Ptr, i) - Local(th[p], cwd[p], i) + Local(t, c, i)
           + (IF f = 0 THEN 0 ELSE One(FileIno(file'[f]), i) - One(FileIno(file[f]), i))
    BY <1>1, PtrCount
  <2>2. itab[i].ref = Count(Ptr, i)
    BY DEF FInv, RefInv
  <2>. QED  BY <2>1, <2>2
<1>. QED  BY <1>2, <1>3 DEF FInv, RefInv

LEMMA FdsFinite == IsFiniteSet(Procs \X FDs) /\ DOMAIN Fd = Procs \X FDs
<1>1. IsFiniteSet(FDs) /\ IsFiniteSet(Procs)
  BY FilesAssumption, FS_Interval DEF FDs
<1>. QED  BY <1>1, FS_Product DEF Fd

\* One descriptor changes.
LEMMA FdCount ==
  ASSUME ofile \in [Procs -> [FDs -> 0..NFILE]], NEW p \in Procs, NEW fd \in FDs,
         NEW x \in 0..NFILE, ofile' = [ofile EXCEPT ![p] = [ofile[p] EXCEPT ![fd] = x]],
         NEW g
  PROVE  Count(Fd', g) = Count(Fd, g) - One(ofile[p][fd], g) + One(x, g)
<1>1. PICK h : h = <<p, fd>>
  OBVIOUS
<1>2. h \in Procs \X FDs /\ h[1] = p /\ h[2] = fd
  BY <1>1
<1>3. PICK m, r : m = Put(Fd, h, x) /\ r = Fd'
  OBVIOUS
<1>4. Fd \in [Procs \X FDs -> 0..NFILE] /\ \A k \in Procs \X FDs : Fd[k] = ofile[k[1]][k[2]]
  BY DEF Fd
<1>5. ofile' \in [Procs -> [FDs -> 0..NFILE]]
  OBVIOUS
<1>6. r \in [Procs \X FDs -> 0..NFILE] /\ \A k \in Procs \X FDs : r[k] = ofile'[k[1]][k[2]]
  BY <1>3, <1>5 DEF Fd
<1>7. m \in [Procs \X FDs -> 0..NFILE]
  BY <1>3, <1>4 DEF Put
<1>8. ASSUME NEW k \in Procs \X FDs PROVE m[k] = r[k]
  <2>1. PICK q \in Procs, e \in FDs : k = <<q, e>>
    OBVIOUS
  <2>2. r[k] = ofile'[q][e] /\ Fd[k] = ofile[q][e]
    BY <1>4, <1>6, <2>1
  <2>3. CASE k = h
    <3>1. m[h] = x
      BY <1>2, <1>3, <1>4 DEF Put
    <3>2. q = p /\ e = fd
      BY <1>1, <2>1, <2>3
    <3>3. ofile'[p][fd] = x
      OBVIOUS
    <3>. QED  BY <2>2, <2>3, <3>1, <3>2, <3>3
  <2>4. CASE k # h
    <3>1. m[k] = Fd[k] /\ (q # p \/ e # fd)
      BY <1>1, <1>3, <1>4, <2>1, <2>4 DEF Put
    <3>. QED  BY <2>2, <3>1
  <2>. QED  BY <2>3, <2>4
<1>9. m = r
  <2>1. PICK D : D = Procs \X FDs
    OBVIOUS
  <2>2. m \in [D -> 0..NFILE] /\ r \in [D -> 0..NFILE] /\ \A k \in D : m[k] = r[k]
    BY <1>6, <1>7, <1>8, <2>1
  <2>. QED  BY <2>2
<1>10. PlaceOf(Fd, h)
  BY <1>2, FdsFinite DEF PlaceOf, Finite
<1>11. Count(Fd', g) = Swap(Count(Fd, g), One(Fd[h], g), One(x, g))
  <2>1. PICK F : F = Fd
    OBVIOUS
  <2>2. PlaceOf(F, h)
    BY <1>10, <2>1
  <2>3. Count(Put(F, h, x), g) = Swap(Count(F, g), One(F[h], g), One(x, g))
    BY <2>2, CountChange
  <2>. QED  BY <1>3, <1>9, <2>1, <2>3
<1>12. Fd[h] = ofile[p][fd]
  BY <1>2, <1>4
<1>. QED  BY <1>11, <1>12 DEF Swap

\* A descriptor in use is of a file that is open, with an inode.
LEMMA FdOpen ==
  ASSUME FInv, NEW p \in Procs, NEW fd \in FDs, ofile[p][fd] # 0
  PROVE  /\ ofile[p][fd] \in 1..NFILE
         /\ file[ofile[p][fd]] \in OpenFile /\ file[ofile[p][fd]].ref \in Nat \ {0}
         /\ file[ofile[p][fd]].ip \in Inums
<1>1. ofile[p][fd] \in 0..NFILE /\ file \in [1..NFILE -> OpenFile] /\ NFILE \in Nat
  BY FilesAssumption DEF FInv, TypeInv, UserTypes
<1>2. PICK f, h, F : f = ofile[p][fd] /\ h = <<p, fd>> /\ F = Fd
  OBVIOUS
<1>3. f \in 1..NFILE
  BY <1>1, <1>2
<1>4. F[h] = f /\ h \in DOMAIN F /\ Finite(F)
  BY <1>2, FdsFinite DEF Fd, Finite
<1>5. Count(F, f) \in Nat \ {0}
  BY <1>4, CountType
<1>6. file[f].ref = Count(F, f)
  BY <1>2, <1>3 DEF FInv, FdInv
<1>7. file[f] \in OpenFile /\ file[f].ref \in Nat \ {0}
  BY <1>1, <1>3, <1>5, <1>6
<1>8. file[f].ip \in Inums
  BY <1>3, <1>7 DEF FInv, FileInv
<1>. QED  BY <1>2, <1>3, <1>7, <1>8

\* The first free descriptor, and the first free file.
LEMMA FirstFD == ASSUME NEW p, FreeFDs(p) # {} PROVE Min(FreeFDs(p)) \in FreeFDs(p)
<1>1. FreeFDs(p) \subseteq Nat
  BY FilesAssumption DEF FreeFDs, FDs
<1>. QED  BY <1>1, MinIn

LEMMA FirstFile == ASSUME FreeFiles # {} PROVE Min(FreeFiles) \in FreeFiles
<1>1. FreeFiles \subseteq Nat
  BY FilesAssumption DEF FreeFiles
<1>. QED  BY <1>1, MinIn

LEMMA OpenFindStep ==
  ASSUME FInv, NEW p \in Procs, OpenLock(p) \/ OpenFails(p)
  PROVE  FInv'
<1>1. /\ th[p] \in Thread /\ ThreadOk(th[p])
      /\ "user" \in Returns /\ "ip" \in {"ip", "dp", "old"} /\ "opened" \in Points \ {"iget"}
  BY DEF FInv, TypeInv, ControlInv, Returns, Points
<1>2. ASSUME th[p].pc \in {"namei", "opened"}
      PROVE  /\ th[p].pc \in Points \ {"iget"} /\ th[p]["ip"] \in Inums /\ Point(th[p]) # "user"
             /\ ThreadOk(After(th[p], "ip", "user")) /\ ThreadOk(Jump(th[p], "opened"))
  <2>1. th[p].pc \in Points \ {"iget"} /\ Point(th[p]) = th[p].pc /\ th[p].pc \notin Putting
    BY <1>2 DEF Points, Point, Putting
  <2>2. th[p].ip \in Inums /\ th[p].old \notin Inums
    BY <1>1, <1>2, <2>1 DEF ThreadOk, HaveIp, HaveOld
  <2>3. ThreadOk(Jump(th[p], "opened"))
    BY <1>1, <1>2, <2>1, <2>2 DEF Jump, Thread, ThreadOk, Point, Putting, HaveIp, HaveDp, HaveOld
  <2>4. ThreadOk(After(th[p], "ip", "user"))
    <3>1. /\ "user" \notin HaveIp /\ "user" \notin HaveDp /\ "user" \notin HaveOld
          /\ th[p].pc \notin HaveDp
      BY <1>2 DEF HaveIp, HaveDp, HaveOld
    <3>. QED  BY <1>1, <2>1, <2>2, <3>1, AfterOk
  <2>. QED  BY <1>2, <2>1, <2>2, <2>3, <2>4
<1>3. CASE OpenFails(p)
  <2>1. th[p].pc = "opened" /\ iunlockput(p, "ip", "user")
    BY <1>3 DEF OpenFails
  <2>. QED  BY <1>1, <1>2, <2>1, UnlockPutStep
<1>4. CASE OpenLock(p)
  <2>1. th[p].pc = "namei" /\ (Hold(p, "ip", "opened") \/ Reject(p, "ip", "user"))
    BY <1>4 DEF OpenLock, Found, At
  <2>2. CASE Hold(p, "ip", "opened")
    BY <1>1, <1>2, <2>1, <2>2, HoldStep
  <2>3. CASE Reject(p, "ip", "user")
    BY <1>1, <1>2, <2>1, <2>3, RejectStep
  <2>. QED  BY <2>1, <2>2, <2>3
<1>. QED  BY <1>3, <1>4

LEMMA ChdirStep ==
  ASSUME FInv, NEW p \in Procs, Chdir(p)
  PROVE  FInv'
<1>1. /\ th \in [Procs -> Thread] /\ th[p] \in Thread /\ ThreadOk(th[p])
      /\ itab \in [Inums -> Entry] /\ DiskTypes /\ LockTypes /\ UserTypes /\ NoIno \notin Inums
      /\ cwd \in [Procs -> Inums0]
  BY FilesAssumption DEF FInv, TypeInv, ControlInv, UserTypes
<1>2. PICK i : i = th[p].ip
  OBVIOUS
<1>3. th[p].pc = "namei" /\ th[p].call.op = "chdir"
  BY DEF Chdir, Found, At
<1>4. /\ Point(th[p]) = "namei" /\ i \in Inums /\ th[p].dp = NoIno /\ th[p].put = NoIno
      /\ th[p].old = NoIno /\ th[p].ret = "user" /\ cwd[p] \in Inums
  <2>1. Point(th[p]) = "namei" /\ th[p].pc \notin Putting
    BY <1>3 DEF Point, Putting
  <2>2. cwd[p] \in Inums
    BY <1>1, <1>3, <2>1 DEF FInv, GoneInv, Inums0
  <2>. QED  BY <1>1, <1>2, <1>3, <2>1, <2>2 DEF ThreadOk, Thread, Inums0, HaveIp, HaveDp, HaveOld
<1>5. CASE Reject(p, "ip", "user")
  <2>1. /\ "user" \in Returns /\ "ip" \in {"ip", "dp", "old"} /\ th[p].pc \in Points \ {"iget"}
        /\ th[p]["ip"] \in Inums
    BY <1>2, <1>3, <1>4 DEF Returns, Points
  <2>2. ThreadOk(After(th[p], "ip", "user"))
    <3>1. /\ "user" \notin HaveIp /\ "user" \notin HaveDp /\ "user" \notin HaveOld
          /\ th[p].pc \notin HaveDp /\ th[p].old \notin Inums
      BY <1>1, <1>3, <1>4 DEF HaveIp, HaveDp, HaveOld
    <3>. QED  BY <2>1, <3>1, AfterOk
  <2>. QED  BY <1>5, <2>1, <2>2, RejectStep
<1>6. CASE /\ itab' = ilock(i) /\ cwd' = [cwd EXCEPT ![p] = i]
           /\ th' = [th EXCEPT ![p].pc = "iput", ![p].put = cwd[p], ![p].ip = NoIno]
           /\ UNCHANGED <<disk, ilk, file, ofile, prog>>
  <2>1. PICK t : t = [th[p] EXCEPT !.pc = "iput", !.put = cwd[p], !.ip = NoIno]
    OBVIOUS
  <2>2. th' = [th EXCEPT ![p] = t]
    BY <1>1, <1>6, <2>1 DEF Thread
  <2>3. t \in Thread
    BY <1>1, <2>1 DEF Thread, Putting, Inums0
  <2>4. /\ t.pc = "iput" /\ t.ip = NoIno /\ t.dp = NoIno /\ t.old = NoIno /\ t.put = cwd[p]
        /\ t.ret = "user"
    BY <1>1, <1>4, <2>1 DEF Thread
  <2>5. ThreadOk(t)
    BY <1>1, <1>4, <2>4 DEF ThreadOk, Point, Putting, HaveIp, HaveDp, HaveOld
  <2>6. /\ dinode' = dinode /\ bitmap' = bitmap /\ ents' = ents /\ ilk' = ilk
        /\ file' = file /\ ofile' = ofile /\ prog' = prog
    BY <1>6 DEF disk
  <2>7. itab' \in [Inums -> Entry] /\ \A j \in Inums : itab'[j].ref = itab[j].ref
    BY <1>1, <1>4, <1>6, IlockTab
  <2>8. TypeInv'
    BY <1>1, <1>4, <1>6, <2>2, <2>3, <2>6, <2>7
       DEF TypeInv, DiskTypes, LockTypes, UserTypes, Inums0
  <2>9. GoneInv'
    <3>1. \A q \in Procs : q # p => cwd'[q] = cwd[q] /\ th'[q] = th[q]
      BY <1>1, <1>6, <2>2
    <3>2. cwd'[p] # NoIno
      BY <1>1, <1>4, <1>6
    <3>. QED  BY <2>6, <3>1, <3>2 DEF FInv, GoneInv
  <2>10. FileInv' /\ FdInv'
    BY <2>6 DEF FInv, FileInv, FdInv, Fd
  <2>11. PICK f \in 0..NFILE : f = 0
    BY FilesAssumption
  <2>12. \A g \in (1..NFILE) \ {f} : FileIno(file'[g]) = FileIno(file[g])
    BY <2>6
  <2>13. ASSUME NEW j \in Inums
         PROVE  itab'[j].ref = itab[j].ref - Local(th[p], cwd[p], j) + Local(t, i, j)
                  + (IF f = 0 THEN 0 ELSE One(FileIno(file'[f]), j) - One(FileIno(file[f]), j))
    <3>1. One(NoIno, j) = 0 /\ One(i, j) \in Int /\ One(cwd[p], j) \in Int
      BY <1>1 DEF One
    <3>2. Local(th[p], cwd[p], j) = One(i, j) + One(cwd[p], j)
      BY <1>2, <1>3, <1>4, <3>1 DEF Local, Uses, Held
    <3>3. Local(t, i, j) = One(cwd[p], j) + One(i, j)
      BY <2>4, <3>1 DEF Local, Uses, Held
    <3>4. itab[j].ref \in Nat
      BY <1>1 DEF Entry
    <3>. QED  BY <2>7, <2>11, <3>1, <3>2, <3>3, <3>4
  <2>14. i \in Inums0 /\ cwd' = [cwd EXCEPT ![p] = i]
    BY <1>4, <1>6 DEF Inums0
  <2>. QED  BY <2>2, <2>3, <2>5, <2>8, <2>9, <2>10, <2>12, <2>13, <2>14, UserStep
<1>. QED  BY <1>2, <1>5, <1>6 DEF Chdir

LEMMA OpenedStep ==
  ASSUME FInv, NEW p \in Procs, Opened(p)
  PROVE  FInv'
<1>1. /\ th \in [Procs -> Thread] /\ th[p] \in Thread /\ ThreadOk(th[p])
      /\ itab \in [Inums -> Entry] /\ DiskTypes /\ LockTypes /\ UserTypes /\ NoIno \notin Inums
      /\ cwd \in [Procs -> Inums0] /\ file \in [1..NFILE -> OpenFile]
      /\ ofile \in [Procs -> [FDs -> 0..NFILE]] /\ NFILE \in Nat
  BY FilesAssumption DEF FInv, TypeInv, ControlInv, UserTypes
<1>2. PICK i, f, fd, e :
        /\ i = th[p].ip /\ f = Min(FreeFiles) /\ fd = Min(FreeFDs(p))
        /\ e = [ref |-> 1, ip |-> i, writable |-> th[p].call.mode # "r"]
  OBVIOUS
<1>3. /\ th[p].pc = "opened" /\ FreeFDs(p) # {} /\ FreeFiles # {}
      /\ file' = [file EXCEPT ![f] = e] /\ ofile' = [ofile EXCEPT ![p][fd] = f]
      /\ itrunc(i) \/ UNCHANGED <<disk, itab, panicked>>
      /\ ilk' = [ilk EXCEPT ![i] = Nobody] /\ th' = [th EXCEPT ![p] = Idle]
      /\ cwd' = cwd /\ prog' = prog
  BY <1>2 DEF Opened
<1>4. /\ f \in 1..NFILE /\ file[f].ref = 0 /\ fd \in FDs /\ ofile[p][fd] = 0
  BY <1>2, <1>3, FirstFD, FirstFile DEF FreeFiles, FreeFDs
<1>5. /\ i \in Inums /\ th[p].dp = NoIno /\ th[p].put = NoIno /\ th[p].old = NoIno
      /\ cwd[p] # NoIno
  <2>1. Point(th[p]) = "opened" /\ th[p].pc \notin Putting
    BY <1>3 DEF Point, Putting
  <2>2. cwd[p] # NoIno
    BY <2>1 DEF FInv, GoneInv
  <2>. QED  BY <1>1, <1>2, <2>1, <2>2 DEF ThreadOk, Thread, Inums0, HaveIp, HaveDp, HaveOld
<1>6. e \in OpenFile /\ e.ref = 1 /\ e.ip = i
  BY <1>2, <1>5 DEF OpenFile, Inums0
<1>7. PICK t : t = Idle
  OBVIOUS
<1>8. t \in Thread /\ ThreadOk(t) /\ Point(t) = "user"
  <2>1. Idle \in Thread
    BY DEF Idle, Thread, Points, Calls, Elems, Entries, Inums0, Returns
  <2>2. ThreadOk(Idle) /\ Point(Idle) = "user"
    BY <1>1 DEF ThreadOk, Idle, Point, Putting, HaveIp, HaveDp, HaveOld
  <2>. QED  BY <1>7, <2>1, <2>2
<1>9. DiskTypes' /\ itab' \in [Inums -> Entry] /\ \A j \in Inums : itab'[j].ref = itab[j].ref
  <2>1. CASE itrunc(i)
    BY <1>1, <1>5, <2>1, ItruncTab
  <2>2. CASE UNCHANGED <<disk, itab, panicked>>
    BY <1>1, <2>2 DEF disk, DiskTypes
  <2>. QED  BY <1>3, <2>1, <2>2
<1>10. TypeInv'
  <2>1. LockTypes'
    BY <1>1, <1>3 DEF LockTypes
  <2>2. file' \in [1..NFILE -> OpenFile]
    BY <1>1, <1>3, <1>6
  <2>3. ofile' \in [Procs -> [FDs -> 0..NFILE]]
    BY <1>1, <1>3, <1>4
  <2>4. th' \in [Procs -> Thread]
    BY <1>1, <1>3, <1>7, <1>8
  <2>. QED  BY <1>1, <1>3, <1>9, <2>1, <2>2, <2>3, <2>4 DEF TypeInv, UserTypes
<1>11. GoneInv'
  <2>1. \A q \in Procs : q # p => ofile'[q] = ofile[q] /\ th'[q] = th[q]
    BY <1>1, <1>3
  <2>. QED  BY <1>3, <1>5, <2>1 DEF FInv, GoneInv
<1>12. FileInv'
  BY <1>1, <1>3, <1>4, <1>5, <1>6 DEF FInv, FileInv
<1>13. FdInv'
  <2>1. /\ ofile \in [Procs -> [FDs -> 0..NFILE]] /\ fd \in FDs /\ f \in 0..NFILE
        /\ ofile' = [ofile EXCEPT ![p] = [ofile[p] EXCEPT ![fd] = f]]
    BY <1>1, <1>3, <1>4
  <2>2. ASSUME NEW g \in 1..NFILE PROVE file'[g].ref = Count(Fd', g)
    <3>1. Count(Fd', g) = Count(Fd, g) - One(ofile[p][fd], g) + One(f, g)
      BY <2>1, FdCount
    <3>2. file[g].ref = Count(Fd, g) /\ file[g].ref \in Nat
      BY <1>1 DEF FInv, FdInv, OpenFile
    <3>3. One(ofile[p][fd], g) = 0
      BY <1>4 DEF One
    <3>4. CASE g = f
      <4>1. file'[g].ref = 1 /\ One(f, g) = 1 /\ file[g].ref = 0
        BY <1>1, <1>3, <1>4, <1>6, <3>4 DEF One
      <4>. QED  BY <3>1, <3>2, <3>3, <4>1
    <3>5. CASE g # f
      <4>1. file'[g].ref = file[g].ref /\ One(f, g) = 0
        BY <1>1, <1>3, <1>4, <3>5 DEF One
      <4>. QED  BY <3>1, <3>2, <3>3, <4>1
    <3>. QED  BY <3>4, <3>5
  <2>. QED  BY <2>2 DEF FdInv
<1>14. \A g \in (1..NFILE) \ {f} : FileIno(file'[g]) = FileIno(file[g])
  BY <1>1, <1>3
<1>15. PICK c \in Inums0 : c = cwd[p]
  BY <1>1
<1>16. cwd' = [cwd EXCEPT ![p] = c] /\ th' = [th EXCEPT ![p] = t] /\ f \in 0..NFILE
  BY <1>1, <1>3, <1>4, <1>7, <1>15
<1>17. ASSUME NEW j \in Inums
       PROVE  itab'[j].ref = itab[j].ref - Local(th[p], cwd[p], j) + Local(t, c, j)
                + (IF f = 0 THEN 0 ELSE One(FileIno(file'[f]), j) - One(FileIno(file[f]), j))
  <2>1. One(NoIno, j) = 0 /\ One(i, j) \in Int /\ One(c, j) \in Int
    BY <1>1 DEF One
  <2>2. Local(th[p], cwd[p], j) = One(i, j) + One(c, j)
    BY <1>2, <1>3, <1>5, <1>15, <2>1 DEF Local, Uses, Held
  <2>3. Local(t, c, j) = One(c, j)
    BY <1>7, <2>1 DEF Local, Uses, Held, Idle
  <2>4. FileIno(file'[f]) = i /\ FileIno(file[f]) = NoIno /\ f # 0
    BY <1>1, <1>3, <1>4, <1>6 DEF FileIno
  <2>5. itab[j].ref \in Nat
    BY <1>1 DEF Entry
  <2>. QED  BY <1>9, <2>1, <2>2, <2>3, <2>4, <2>5
<1>. QED  BY <1>8, <1>10, <1>11, <1>12, <1>13, <1>14, <1>16, <1>17, UserStep

-----------------------------------------------------------------------------
(* Descriptors *)

LEMMA FilecloseStep ==
  ASSUME FInv, NEW p \in Procs, NEW fd \in FDs, NEW r \in {"user", "exit"},
         th[p].pc \in {"user", "exit"}, r = "exit" => cwd[p] # NoIno, r = "user" => th[p].pc = "user",
         fileclose(p, fd, r)
  PROVE  FInv'
<1>1. /\ th \in [Procs -> Thread] /\ th[p] \in Thread /\ ThreadOk(th[p])
      /\ itab \in [Inums -> Entry] /\ DiskTypes /\ LockTypes /\ UserTypes /\ NoIno \notin Inums
      /\ cwd \in [Procs -> Inums0] /\ file \in [1..NFILE -> OpenFile]
      /\ ofile \in [Procs -> [FDs -> 0..NFILE]] /\ NFILE \in Nat
  BY FilesAssumption DEF FInv, TypeInv, ControlInv, UserTypes
<1>2. PICK f : f = ofile[p][fd]
  OBVIOUS
<1>3. /\ f # 0 /\ ofile' = [ofile EXCEPT ![p][fd] = 0] /\ cwd' = cwd /\ prog' = prog
      /\ dinode' = dinode /\ bitmap' = bitmap /\ ents' = ents /\ itab' = itab /\ ilk' = ilk
  BY <1>2 DEF fileclose, disk
<1>4. f \in 1..NFILE /\ file[f] \in OpenFile /\ file[f].ref \in Nat \ {0} /\ file[f].ip \in Inums
  BY <1>2, <1>3, FdOpen
<1>5. /\ Point(th[p]) = th[p].pc /\ th[p].ip = NoIno /\ th[p].dp = NoIno /\ th[p].old = NoIno
      /\ th[p].put = NoIno /\ th[p].ret = "user" /\ cwd[p] # NoIno
  <2>1. Point(th[p]) = th[p].pc /\ th[p].pc \notin Putting
    BY DEF Point, Putting
  <2>2. cwd[p] # NoIno
    BY <1>2, <1>3 DEF FInv, GoneInv
  <2>. QED  BY <1>1, <2>1, <2>2 DEF ThreadOk, Thread, Inums0, HaveIp, HaveDp, HaveOld
<1>6. PICK t, e :
        /\ t = IF file[f].ref > 1 THEN [th[p] EXCEPT !.pc = r]
               ELSE [th[p] EXCEPT !.pc = "iput", !.put = file[f].ip, !.ret = r]
        /\ e = IF file[f].ref > 1 THEN [file[f] EXCEPT !.ref = file[f].ref - 1] ELSE NoFile
  OBVIOUS
<1>7. th' = [th EXCEPT ![p] = t] /\ file' = [file EXCEPT ![f] = e]
  <2>1. CASE file[f].ref > 1
    BY <1>1, <1>2, <1>4, <1>6, <2>1 DEF fileclose
  <2>2. CASE ~(file[f].ref > 1)
    BY <1>1, <1>2, <1>4, <1>6, <2>2 DEF fileclose, Thread
  <2>. QED  BY <2>1, <2>2
<1>8. e \in OpenFile /\ e.ref = file[f].ref - 1 /\ (e.ref > 0 => e.ip = file[f].ip)
  <2>1. CASE file[f].ref > 1
    BY <1>4, <1>6, <2>1 DEF OpenFile
  <2>2. CASE ~(file[f].ref > 1)
    BY <1>4, <1>6, <2>2 DEF OpenFile, NoFile, Inums0
  <2>. QED  BY <2>1, <2>2
<1>9. /\ t \in Thread /\ t.ip = NoIno /\ t.dp = NoIno /\ t.old = NoIno /\ Point(t) = r
      /\ t.call = th[p].call
      /\ \/ e.ref > 0 /\ t.pc = r /\ t.put = NoIno /\ t.ret = "user"
         \/ e.ref = 0 /\ t.pc = "iput" /\ t.put = file[f].ip /\ t.ret = r
  <2>0. r \in Points /\ r \in Returns /\ r \notin Putting
    BY DEF Points, Returns, Putting
  <2>1. CASE file[f].ref > 1
    <3>1. t = [th[p] EXCEPT !.pc = r] /\ e.ref > 0
      BY <1>4, <1>6, <1>8, <2>1
    <3>2. /\ t \in Thread /\ t.ip = th[p].ip /\ t.dp = th[p].dp /\ t.old = th[p].old /\ t.pc = r
          /\ t.put = th[p].put /\ t.ret = th[p].ret /\ t.call = th[p].call
      BY <1>1, <2>0, <3>1 DEF Thread
    <3>. QED  BY <1>5, <2>0, <3>1, <3>2 DEF Point
  <2>2. CASE ~(file[f].ref > 1)
    <3>1. t = [th[p] EXCEPT !.pc = "iput", !.put = file[f].ip, !.ret = r] /\ e.ref = 0
      BY <1>4, <1>6, <1>8, <2>2
    <3>2. /\ t \in Thread /\ t.ip = th[p].ip /\ t.dp = th[p].dp /\ t.old = th[p].old
          /\ t.pc = "iput" /\ t.put = file[f].ip /\ t.ret = r /\ t.call = th[p].call
      BY <1>1, <1>4, <2>0, <3>1 DEF Thread, Putting, Inums0
    <3>. QED  BY <1>5, <2>0, <3>1, <3>2 DEF Point, Putting
  <2>. QED  BY <2>1, <2>2
<1>10. ThreadOk(t)
  BY <1>1, <1>4, <1>9 DEF ThreadOk, Putting, HaveIp, HaveDp, HaveOld
<1>11. TypeInv'
  <2>1. DiskTypes' /\ LockTypes' /\ itab' \in [Inums -> Entry]
    BY <1>1, <1>3 DEF DiskTypes, LockTypes
  <2>2. file' \in [1..NFILE -> OpenFile] /\ th' \in [Procs -> Thread]
    BY <1>1, <1>7, <1>8, <1>9
  <2>3. ofile' \in [Procs -> [FDs -> 0..NFILE]]
    BY <1>1, <1>3
  <2>. QED  BY <1>1, <1>3, <2>1, <2>2, <2>3 DEF TypeInv, UserTypes
<1>12. GoneInv'
  <2>1. \A q \in Procs : q # p => ofile'[q] = ofile[q] /\ th'[q] = th[q]
    BY <1>1, <1>3, <1>7
  <2>. QED  BY <1>3, <1>5, <2>1 DEF FInv, GoneInv
<1>13. FileInv'
  BY <1>1, <1>4, <1>7, <1>8 DEF FInv, FileInv
<1>14. FdInv'
  <2>1. /\ ofile \in [Procs -> [FDs -> 0..NFILE]] /\ 0 \in 0..NFILE
        /\ ofile' = [ofile EXCEPT ![p] = [ofile[p] EXCEPT ![fd] = 0]]
    BY <1>1, <1>3
  <2>2. ASSUME NEW g \in 1..NFILE PROVE file'[g].ref = Count(Fd', g)
    <3>1. Count(Fd', g) = Count(Fd, g) - One(ofile[p][fd], g) + One(0, g)
      BY <2>1, FdCount
    <3>2. file[g].ref = Count(Fd, g) /\ file[g].ref \in Nat
      BY <1>1 DEF FInv, FdInv, OpenFile
    <3>3. One(0, g) = 0 /\ One(ofile[p][fd], g) = (IF g = f THEN 1 ELSE 0)
      BY <1>2 DEF One
    <3>4. file'[g].ref = file[g].ref - (IF g = f THEN 1 ELSE 0)
      BY <1>1, <1>4, <1>7, <1>8, <3>2
    <3>. QED  BY <3>1, <3>2, <3>3, <3>4
  <2>. QED  BY <2>2 DEF FdInv
<1>15. \A g \in (1..NFILE) \ {f} : FileIno(file'[g]) = FileIno(file[g])
  BY <1>1, <1>7
<1>16. PICK c \in Inums0 : c = cwd[p]
  BY <1>1
<1>17. cwd' = [cwd EXCEPT ![p] = c] /\ f \in 0..NFILE
  BY <1>1, <1>3, <1>4, <1>16
<1>18. ASSUME NEW j \in Inums
       PROVE  itab'[j].ref = itab[j].ref - Local(th[p], cwd[p], j) + Local(t, c, j)
                + (IF f = 0 THEN 0 ELSE One(FileIno(file'[f]), j) - One(FileIno(file[f]), j))
  <2>1. One(NoIno, j) = 0 /\ One(file[f].ip, j) \in Int /\ One(c, j) \in Int
    BY <1>1 DEF One
  <2>2. Local(th[p], cwd[p], j) = One(c, j)
    BY <1>5, <1>16, <2>1 DEF Local, Uses, Held
  <2>3. Local(t, c, j) = One(c, j) + One(t.put, j)
    <3>1. One(t.put, j) \in Int
      BY DEF One
    <3>. QED  BY <1>9, <2>1, <3>1 DEF Local, Uses, Held
  <2>4. FileIno(file[f]) = file[f].ip /\ file'[f] = e
    BY <1>1, <1>4, <1>7 DEF FileIno
  <2>5. One(t.put, j) + One(FileIno(file'[f]), j) = One(FileIno(file[f]), j)
    <3>1. CASE e.ref > 0
      BY <1>4, <1>8, <1>9, <2>1, <2>4, <3>1 DEF FileIno
    <3>2. CASE e.ref = 0
      BY <1>4, <1>8, <1>9, <2>1, <2>4, <3>2 DEF FileIno
    <3>. QED  BY <1>4, <1>8, <3>1, <3>2
  <2>6. itab[j].ref \in Nat /\ One(t.put, j) \in Int /\ One(FileIno(file'[f]), j) \in Int
        /\ One(FileIno(file[f]), j) \in Int
    BY <1>1 DEF Entry, One
  <2>. QED  BY <1>3, <1>4, <2>1, <2>2, <2>3, <2>5, <2>6
<1>. QED  BY <1>7, <1>9, <1>10, <1>11, <1>12, <1>13, <1>14, <1>15, <1>17, <1>18, UserStep

LEMMA ExitStep ==
  ASSUME FInv, NEW p \in Procs, Exit(p)
  PROVE  FInv'
<1>1. /\ th \in [Procs -> Thread] /\ th[p] \in Thread /\ ThreadOk(th[p])
      /\ itab \in [Inums -> Entry] /\ DiskTypes /\ LockTypes /\ UserTypes /\ NoIno \notin Inums
      /\ cwd \in [Procs -> Inums0] /\ ofile \in [Procs -> [FDs -> 0..NFILE]]
  BY FilesAssumption DEF FInv, TypeInv, ControlInv, UserTypes
<1>2. th[p].pc \in {"user", "exit"} /\ cwd[p] # NoIno
  BY DEF Exit
<1>3. ASSUME NEW fd \in FDs, fileclose(p, fd, "exit") PROVE FInv'
  BY <1>2, <1>3, FilecloseStep
<1>4. CASE /\ FreeFDs(p) = FDs /\ cwd' = [cwd EXCEPT ![p] = NoIno]
           /\ th' = [th EXCEPT ![p].pc = "iput", ![p].put = cwd[p]]
           /\ UNCHANGED <<disk, itab, ilk, file, ofile, prog, panicked>>
  <2>1. PICK t : t = [th[p] EXCEPT !.pc = "iput", !.put = cwd[p]]
    OBVIOUS
  <2>2. /\ th' = [th EXCEPT ![p] = t] /\ cwd[p] \in Inums
    BY <1>1, <1>2, <1>4, <2>1 DEF Thread, Inums0
  <2>3. /\ Point(th[p]) = th[p].pc /\ th[p].ip = NoIno /\ th[p].dp = NoIno /\ th[p].old = NoIno
        /\ th[p].put = NoIno /\ th[p].ret = "user"
    <3>1. Point(th[p]) = th[p].pc /\ th[p].pc \notin Putting
      BY <1>2 DEF Point, Putting
    <3>. QED  BY <1>1, <1>2, <3>1 DEF ThreadOk, Thread, Inums0, HaveIp, HaveDp, HaveOld
  <2>4. /\ t \in Thread /\ t.pc = "iput" /\ t.ip = NoIno /\ t.dp = NoIno /\ t.old = NoIno
        /\ t.put = cwd[p] /\ t.ret = "user"
    BY <1>1, <2>1, <2>3 DEF Thread, Putting
  <2>5. ThreadOk(t) /\ Point(t) = "user"
    BY <1>1, <2>2, <2>4 DEF ThreadOk, Point, Putting, HaveIp, HaveDp, HaveOld
  <2>6. /\ dinode' = dinode /\ bitmap' = bitmap /\ ents' = ents /\ itab' = itab /\ ilk' = ilk
        /\ file' = file /\ ofile' = ofile /\ prog' = prog
    BY <1>4 DEF disk
  <2>7. TypeInv'
    BY <1>1, <1>4, <2>2, <2>4, <2>6
       DEF TypeInv, DiskTypes, LockTypes, UserTypes, Inums0
  <2>8. GoneInv'
    <3>1. \A q \in Procs : q # p => cwd'[q] = cwd[q] /\ th'[q] = th[q]
      BY <1>1, <1>4, <2>2
    <3>2. \A fd \in FDs : ofile[p][fd] = 0
      BY <1>4 DEF FreeFDs
    <3>3. th'[p] = t
      BY <1>1, <2>2
    <3>. QED  BY <2>5, <2>6, <3>1, <3>2, <3>3 DEF FInv, GoneInv
  <2>9. FileInv' /\ FdInv'
    BY <2>6 DEF FInv, FileInv, FdInv, Fd
  <2>10. PICK f \in 0..NFILE : f = 0
    BY FilesAssumption
  <2>11. PICK c \in Inums0 : c = NoIno
    BY DEF Inums0
  <2>12. /\ cwd' = [cwd EXCEPT ![p] = c]
         /\ \A g \in (1..NFILE) \ {f} : FileIno(file'[g]) = FileIno(file[g])
    BY <1>4, <2>6, <2>11
  <2>13. ASSUME NEW j \in Inums
         PROVE  itab'[j].ref = itab[j].ref - Local(th[p], cwd[p], j) + Local(t, c, j)
                  + (IF f = 0 THEN 0 ELSE One(FileIno(file'[f]), j) - One(FileIno(file[f]), j))
    <3>1. One(NoIno, j) = 0 /\ One(cwd[p], j) \in Int
      BY <1>1 DEF One
    <3>2. Local(th[p], cwd[p], j) = One(cwd[p], j)
      BY <2>3, <3>1 DEF Local, Uses, Held
    <3>3. Local(t, c, j) = One(cwd[p], j)
      BY <2>4, <2>11, <3>1 DEF Local, Uses, Held
    <3>4. itab[j].ref \in Nat
      BY <1>1 DEF Entry
    <3>. QED  BY <2>6, <2>10, <3>1, <3>2, <3>3, <3>4
  <2>. QED  BY <2>2, <2>4, <2>5, <2>7, <2>8, <2>9, <2>12, <2>13, UserStep
<1>. QED  BY <1>3, <1>4 DEF Exit

LEMMA DupStep ==
  ASSUME FInv, NEW p \in Procs, Dup(p)
  PROVE  FInv'
<1>1. /\ th \in [Procs -> Thread] /\ th[p] \in Thread /\ ThreadOk(th[p])
      /\ itab \in [Inums -> Entry] /\ DiskTypes /\ LockTypes /\ UserTypes /\ NoIno \notin Inums
      /\ cwd \in [Procs -> Inums0] /\ file \in [1..NFILE -> OpenFile]
      /\ ofile \in [Procs -> [FDs -> 0..NFILE]] /\ NFILE \in Nat
  BY FilesAssumption DEF FInv, TypeInv, ControlInv, UserTypes
<1>2. PICK fd \in FDs :
        /\ ofile[p][fd] # 0
        /\ ofile' = [ofile EXCEPT ![p][Min(FreeFDs(p))] = ofile[p][fd]]
        /\ file' = [file EXCEPT ![ofile[p][fd]].ref = @ + 1]
  BY DEF Dup
<1>3. PICK f, k, e : /\ f = ofile[p][fd] /\ k = Min(FreeFDs(p))
                     /\ e = [file[f] EXCEPT !.ref = file[f].ref + 1]
  OBVIOUS
<1>4. f \in 1..NFILE /\ file[f] \in OpenFile /\ file[f].ref \in Nat \ {0} /\ file[f].ip \in Inums
  BY <1>2, <1>3, FdOpen
<1>5. k \in FDs /\ ofile[p][k] = 0
  BY <1>3, FirstFD DEF Dup, FreeFDs
<1>6. /\ ofile' = [ofile EXCEPT ![p] = [ofile[p] EXCEPT ![k] = f]]
      /\ file' = [file EXCEPT ![f] = e] /\ f \in 0..NFILE
  BY <1>1, <1>2, <1>3, <1>4
<1>7. /\ dinode' = dinode /\ bitmap' = bitmap /\ ents' = ents /\ itab' = itab /\ ilk' = ilk
      /\ cwd' = cwd /\ prog' = prog /\ th' = th
  BY DEF Dup, disk
<1>8. e \in OpenFile /\ e.ref = file[f].ref + 1 /\ e.ip = file[f].ip
  BY <1>3, <1>4 DEF OpenFile
<1>9. TypeInv'
  <2>1. DiskTypes' /\ LockTypes' /\ itab' \in [Inums -> Entry]
    BY <1>1, <1>7 DEF DiskTypes, LockTypes
  <2>2. file' \in [1..NFILE -> OpenFile] /\ th' \in [Procs -> Thread]
    BY <1>1, <1>6, <1>7, <1>8
  <2>3. ofile' \in [Procs -> [FDs -> 0..NFILE]]
    BY <1>1, <1>5, <1>6
  <2>. QED  BY <1>1, <1>7, <2>1, <2>2, <2>3 DEF TypeInv, UserTypes
<1>10. GoneInv'
  <2>1. \A q \in Procs : q # p => ofile'[q] = ofile[q]
    BY <1>1, <1>6
  <2>2. cwd[p] # NoIno
    BY <1>2 DEF FInv, GoneInv
  <2>. QED  BY <1>7, <2>1, <2>2 DEF FInv, GoneInv
<1>11. FileInv'
  BY <1>1, <1>4, <1>6, <1>8 DEF FInv, FileInv
<1>12. FdInv'
  <2>2. ASSUME NEW g \in 1..NFILE PROVE file'[g].ref = Count(Fd', g)
    <3>1. Count(Fd', g) = Count(Fd, g) - One(ofile[p][k], g) + One(f, g)
      <4>1. ofile \in [Procs -> [FDs -> 0..NFILE]]
        BY <1>1
      <4>. QED  BY <1>5, <1>6, <4>1, FdCount
    <3>2. file[g].ref = Count(Fd, g) /\ file[g].ref \in Nat
      BY <1>1 DEF FInv, FdInv, OpenFile
    <3>3. One(ofile[p][k], g) = 0 /\ One(f, g) = (IF g = f THEN 1 ELSE 0)
      BY <1>5 DEF One
    <3>4. file'[g].ref = file[g].ref + (IF g = f THEN 1 ELSE 0)
      BY <1>1, <1>4, <1>6, <1>8, <3>2
    <3>. QED  BY <3>1, <3>2, <3>3, <3>4
  <2>. QED  BY <2>2 DEF FdInv
<1>13. PICK t, c : t = th[p] /\ c = cwd[p]
  OBVIOUS
<1>14. /\ t \in Thread /\ c \in Inums0 /\ ThreadOk(t)
       /\ th' = [th EXCEPT ![p] = t] /\ cwd' = [cwd EXCEPT ![p] = c]
  BY <1>1, <1>7, <1>13
<1>15. PICK z \in 0..NFILE : z = 0
  BY <1>1
<1>16. \A g \in (1..NFILE) \ {z} : FileIno(file'[g]) = FileIno(file[g])
  BY <1>1, <1>4, <1>6, <1>8 DEF FileIno
<1>17. ASSUME NEW j \in Inums
       PROVE  itab'[j].ref = itab[j].ref - Local(th[p], cwd[p], j) + Local(t, c, j)
                + (IF z = 0 THEN 0 ELSE One(FileIno(file'[z]), j) - One(FileIno(file[z]), j))
  <2>1. itab[j].ref \in Nat /\ Local(t, c, j) \in Int
    BY <1>1 DEF Entry, Local, Uses, One
  <2>. QED  BY <1>7, <1>13, <1>15, <2>1
<1>. QED  BY <1>9, <1>10, <1>11, <1>12, <1>14, <1>16, <1>17, UserStep

LEMMA WriteStep ==
  ASSUME FInv, NEW p \in Procs, Write(p)
  PROVE  FInv'
<1>1. /\ th \in [Procs -> Thread] /\ th[p] \in Thread /\ ThreadOk(th[p])
      /\ itab \in [Inums -> Entry] /\ DiskTypes /\ LockTypes
  BY DEF FInv, TypeInv, ControlInv
<1>2. PICK fd \in FDs, copied \in BOOLEAN :
        LET f == ofile[p][fd]
            i == file[f].ip
            new == IF Loaded(i).addrs = {} /\ Unused # {} THEN {balloc} ELSE {}
            a == Loaded(i).addrs \cup new
        IN
        /\ th[p].pc = "user" /\ f # 0
        /\ Update(i, [Loaded(i) EXCEPT !.addrs = a, !.size = IF copied /\ a # {} THEN 1 ELSE @])
        /\ bitmap' = bitmap \cup new
        /\ UNCHANGED <<ents, ilk, user, th>>
  BY DEF Write
<1>3. PICK i, new, d :
        /\ i = file[ofile[p][fd]].ip
        /\ new = IF Loaded(i).addrs = {} /\ Unused # {} THEN {balloc} ELSE {}
        /\ d = [Loaded(i) EXCEPT !.addrs = Loaded(i).addrs \cup new,
                                 !.size = IF copied /\ Loaded(i).addrs \cup new # {} THEN 1 ELSE @]
  OBVIOUS
<1>4. /\ th[p].pc = "user" /\ ofile[p][fd] # 0 /\ Update(i, d) /\ bitmap' = bitmap \cup new
      /\ ents' = ents /\ ilk' = ilk /\ UNCHANGED user /\ th' = th
  BY <1>2, <1>3
<1>5. i \in Inums
  BY <1>3, <1>4, FdOpen
<1>6. new \subseteq Blocks
  BY <1>3, BallocType
<1>7. d \in Inode
  <2>1. Loaded(i) \in Inode
    BY <1>1, <1>5, IlockTab
  <2>2. PICK l, a, s : /\ l = Loaded(i) /\ a = l.addrs \cup new
                       /\ s = IF copied /\ a # {} THEN 1 ELSE l.size
    OBVIOUS
  <2>3. a \in SUBSET Blocks /\ s \in Int
    BY <1>6, <2>1, <2>2 DEF Inode
  <2>4. d = [l EXCEPT !.addrs = a, !.size = s]
    BY <1>3, <2>1, <2>2
  <2>. QED  BY <2>1, <2>2, <2>3, <2>4 DEF Inode
<1>8. /\ dinode' \in [Inums -> Inode] /\ itab' \in [Inums -> Entry]
      /\ \A j \in Inums : itab'[j].ref = itab[j].ref
  BY <1>1, <1>4, <1>5, <1>7, UpdateTab
<1>9. DiskTypes' /\ LockTypes'
  BY <1>1, <1>4, <1>6, <1>8 DEF DiskTypes, LockTypes
<1>10. PICK t : t = th[p]
  OBVIOUS
<1>11. th' = [th EXCEPT ![p] = t] /\ t \in Thread /\ ThreadOk(t) /\ (cwd[p] = NoIno => Point(t) = "user")
  BY <1>1, <1>4, <1>10 DEF FInv, GoneInv
<1>12. \A j \in Inums : itab'[j].ref = itab[j].ref - Uses(th[p], j) + Uses(t, j)
  <2>1. \A j \in Inums : itab[j].ref \in Nat /\ Uses(t, j) \in Int
    BY <1>1 DEF Entry, Uses, One
  <2>. QED  BY <1>8, <1>10, <2>1
<1>. QED  BY <1>4, <1>8, <1>9, <1>11, <1>12, ThreadStep

\* The descriptors of a new process.
LEMMA ForkCount ==
  ASSUME ofile \in [Procs -> [FDs -> 0..NFILE]], NEW p \in Procs, NEW q \in Procs, p # q,
         \A fd \in FDs : ofile[q][fd] = 0, ofile' = [ofile EXCEPT ![q] = ofile[p]],
         NEW f \in 1..NFILE
  PROVE  /\ Cardinality({fd \in FDs : ofile[p][fd] = f}) \in Nat
         /\ Count(Fd', f) = Count(Fd, f) + Cardinality({fd \in FDs : ofile[p][fd] = f})
<1>1. PICK R, D, A, B, C :
        /\ R = {fd \in FDs : ofile[p][fd] = f} /\ D = Procs \X FDs
        /\ A = {h \in Procs \X FDs : ofile[h[1]][h[2]] = f}
        /\ B = {q} \X {fd \in FDs : ofile[p][fd] = f}
        /\ C = {h \in Procs \X FDs : ofile'[h[1]][h[2]] = f}
  OBVIOUS
<1>2. /\ IsFiniteSet(FDs) /\ IsFiniteSet(D) /\ IsFiniteSet(R) /\ IsFiniteSet(A)
      /\ Cardinality(R) \in Nat /\ Cardinality(A) \in Nat
  <2>1. IsFiniteSet(FDs) /\ IsFiniteSet(D)
    BY <1>1, FdsFinite, FilesAssumption, FS_Interval DEF FDs
  <2>2. R \subseteq FDs /\ A \subseteq D
    BY <1>1
  <2>. QED  BY <2>1, <2>2, FS_Subset, FS_CardinalityType
<1>3. IsFiniteSet(B) /\ Cardinality(B) = Cardinality(R)
  <2>1. IsFiniteSet({q}) /\ Cardinality({q}) = 1 /\ B = {q} \X R
    BY <1>1, FS_Singleton
  <2>2. IsFiniteSet({q} \X R) /\ Cardinality({q} \X R) = Cardinality({q}) * Cardinality(R)
    BY <1>2, <2>1, FS_Product
  <2>. QED  BY <1>2, <2>1, <2>2
<1>4. NFILE \in Nat /\ f # 0
  BY FilesAssumption
<1>5. A \cap B = {}
  <2>1. ASSUME NEW h \in A, h \in B PROVE FALSE
    <3>1. h[1] = q /\ h[2] \in FDs /\ ofile[h[1]][h[2]] = f
      BY <1>1, <2>1
    <3>. QED  BY <1>4, <3>1
  <2>. QED  BY <2>1
<1>6. C = A \cup B
  <2>1. ASSUME NEW h \in Procs \X FDs PROVE h \in C <=> h \in A \/ h \in B
    <3>1. PICK r \in Procs, fd \in FDs : h = <<r, fd>>
      OBVIOUS
    <3>2. /\ h \in C <=> ofile'[r][fd] = f
          /\ h \in A <=> ofile[r][fd] = f
          /\ h \in B <=> r = q /\ ofile[p][fd] = f
      BY <1>1, <3>1
    <3>3. CASE r = q
      <4>1. ofile'[r][fd] = ofile[p][fd] /\ ofile[r][fd] # f
        BY <1>4, <3>3
      <4>. QED  BY <3>2, <3>3, <4>1
    <3>4. CASE r # q
      <4>1. ofile'[r][fd] = ofile[r][fd]
        BY <3>4
      <4>. QED  BY <3>2, <3>4, <4>1
    <3>. QED  BY <3>3, <3>4
  <2>2. C \subseteq Procs \X FDs /\ A \subseteq Procs \X FDs /\ B \subseteq Procs \X FDs
    BY <1>1
  <2>. QED  BY <2>1, <2>2
<1>7. Cardinality(C) = Cardinality(A) + Cardinality(R)
  <2>1. Cardinality(A \cup B) = Cardinality(A) + Cardinality(B) - Cardinality(A \cap B)
    BY <1>2, <1>3, FS_Union
  <2>2. Cardinality(A \cap B) = 0
    BY <1>5, FS_EmptySet
  <2>3. PICK a, b : a = Cardinality(A) /\ b = Cardinality(R)
    OBVIOUS
  <2>4. Cardinality(C) = a + b - 0 /\ a \in Nat /\ b \in Nat
    BY <1>2, <1>3, <1>6, <2>1, <2>2, <2>3
  <2>. QED  BY <2>3, <2>4
<1>8. Count(Fd, f) = Cardinality(A)
  <2>1. {h \in DOMAIN Fd : Fd[h] = f} = A
    BY <1>1 DEF Fd
  <2>. QED  BY <2>1 DEF Count
<1>9. Count(Fd', f) = Cardinality(C)
  <2>1. PICK F : F = Fd'
    OBVIOUS
  <2>2. {h \in DOMAIN F : F[h] = f} = C
    BY <1>1, <2>1 DEF Fd
  <2>3. Count(F, f) = Cardinality(C)
    BY <2>2 DEF Count
  <2>. QED  BY <2>1, <2>3
<1>. QED  BY <1>1, <1>2, <1>7, <1>8, <1>9

LEMMA ForkStep ==
  ASSUME FInv, NEW p \in Procs, NEW q \in Procs, Fork(p, q)
  PROVE  FInv'
<1>1. /\ th \in [Procs -> Thread] /\ th[q] \in Thread /\ ThreadOk(th[q])
      /\ itab \in [Inums -> Entry] /\ DiskTypes /\ LockTypes /\ UserTypes /\ NoIno \notin Inums
      /\ cwd \in [Procs -> Inums0] /\ file \in [1..NFILE -> OpenFile]
      /\ ofile \in [Procs -> [FDs -> 0..NFILE]] /\ NFILE \in Nat
  BY FilesAssumption DEF FInv, TypeInv, ControlInv, UserTypes
<1>2. /\ cwd[p] # NoIno /\ th[q].pc = "user" /\ cwd[q] = NoIno
      /\ ofile' = [ofile EXCEPT ![q] = ofile[p]] /\ cwd' = [cwd EXCEPT ![q] = cwd[p]]
      /\ file' = [f \in 1..NFILE |->
           [file[f] EXCEPT !.ref = @ + Cardinality({fd \in FDs : ofile[p][fd] = f})]]
      /\ itab' = iget(itab, cwd[p]) /\ dinode' = dinode /\ bitmap' = bitmap /\ ents' = ents
      /\ ilk' = ilk /\ prog' = prog /\ th' = th
  BY DEF Fork, disk
<1>3. p # q /\ (\A fd \in FDs : ofile[q][fd] = 0) /\ cwd[p] \in Inums
  BY <1>1, <1>2 DEF FInv, GoneInv, Inums0
<1>4. ASSUME NEW f \in 1..NFILE
      PROVE  /\ file'[f] \in OpenFile /\ file'[f].ip = file[f].ip
             /\ file'[f].ref = Count(Fd', f)
             /\ FileIno(file'[f]) = FileIno(file[f])
             /\ file'[f].ref > 0 <=> file[f].ref > 0
  <2>1. PICK k : k = Cardinality({fd \in FDs : ofile[p][fd] = f})
    OBVIOUS
  <2>2. k \in Nat /\ Count(Fd', f) = Count(Fd, f) + k
    BY <1>1, <1>2, <1>3, <2>1, ForkCount
  <2>3. file'[f] = [file[f] EXCEPT !.ref = file[f].ref + k] /\ file[f] \in OpenFile
    BY <1>1, <1>2, <2>1
  <2>4. file'[f] \in OpenFile /\ file'[f].ip = file[f].ip /\ file'[f].ref = file[f].ref + k
    BY <2>2, <2>3 DEF OpenFile
  <2>5. file[f].ref = Count(Fd, f) /\ file[f].ref \in Nat
    BY <2>3 DEF FInv, FdInv, OpenFile
  <2>6. file[f].ref = 0 => k = 0
    <3> SUFFICES ASSUME file[f].ref = 0 PROVE k = 0
      OBVIOUS
    <3>1. PICK F : F = Fd
      OBVIOUS
    <3>2. Finite(F) /\ Count(F, f) = 0
      BY <2>5, <3>1, FdsFinite DEF Finite
    <3>3. \A h \in DOMAIN F : F[h] # f
      BY <3>2, CountType
    <3>4. ASSUME NEW fd \in FDs PROVE ofile[p][fd] # f
      <4>1. PICK h : h = <<p, fd>>
        OBVIOUS
      <4>2. h \in DOMAIN F /\ F[h] = ofile[p][fd]
        BY <3>1, <4>1 DEF Fd
      <4>. QED  BY <3>3, <4>2
    <3>5. {fd \in FDs : ofile[p][fd] = f} = {}
      BY <3>4
    <3>. QED  BY <2>1, <3>5, FS_EmptySet
  <2>7. file'[f].ref > 0 <=> file[f].ref > 0
    BY <2>2, <2>4, <2>5, <2>6
  <2>8. FileIno(file'[f]) = FileIno(file[f])
    BY <2>4, <2>7 DEF FileIno
  <2>. QED  BY <2>2, <2>4, <2>5, <2>7, <2>8
<1>5. itab' \in [Inums -> Entry] /\ \A j \in Inums : itab'[j].ref = itab[j].ref + One(cwd[p], j)
  BY <1>1, <1>2, <1>3, IgetTab
<1>6. TypeInv'
  <2>1. DiskTypes' /\ LockTypes' /\ th' \in [Procs -> Thread]
    BY <1>1, <1>2 DEF DiskTypes, LockTypes
  <2>2. file' \in [1..NFILE -> OpenFile]
    <3>1. PICK F : F = file'
      OBVIOUS
    <3>2. DOMAIN F = 1..NFILE /\ F = [f \in DOMAIN F |-> F[f]] /\ \A f \in 1..NFILE : F[f] \in OpenFile
      BY <1>2, <1>4, <3>1
    <3>. QED  BY <3>1, <3>2
  <2>3. ofile' \in [Procs -> [FDs -> 0..NFILE]] /\ cwd' \in [Procs -> Inums0]
    BY <1>1, <1>2
  <2>. QED  BY <1>1, <1>2, <1>5, <2>1, <2>2, <2>3 DEF TypeInv, UserTypes
<1>7. GoneInv'
  <2>1. \A r \in Procs : r # q => ofile'[r] = ofile[r] /\ cwd'[r] = cwd[r]
    BY <1>1, <1>2
  <2>2. cwd'[q] # NoIno
    BY <1>1, <1>2
  <2>. QED  BY <1>2, <2>1, <2>2 DEF FInv, GoneInv
<1>8. FileInv' /\ FdInv'
  <2>1. FdInv'
    BY <1>4 DEF FdInv
  <2>2. FileInv'
    BY <1>4 DEF FInv, FileInv
  <2>. QED  BY <2>1, <2>2
<1>9. PICK t, c : t = th[q] /\ c = cwd[p]
  OBVIOUS
<1>10. /\ t \in Thread /\ c \in Inums0 /\ ThreadOk(t)
       /\ th' = [th EXCEPT ![q] = t] /\ cwd' = [cwd EXCEPT ![q] = c]
  BY <1>1, <1>2, <1>9
<1>11. PICK z \in 0..NFILE : z = 0
  BY <1>1
<1>12. \A g \in (1..NFILE) \ {z} : FileIno(file'[g]) = FileIno(file[g])
  BY <1>4
<1>13. ASSUME NEW j \in Inums
       PROVE  itab'[j].ref = itab[j].ref - Local(th[q], cwd[q], j) + Local(t, c, j)
                + (IF z = 0 THEN 0 ELSE One(FileIno(file'[z]), j) - One(FileIno(file[z]), j))
  <2>1. itab[j].ref \in Nat /\ Uses(t, j) \in Int /\ One(c, j) \in Int /\ One(NoIno, j) = 0
    BY <1>1 DEF Entry, Uses, One
  <2>2. Local(th[q], cwd[q], j) = Uses(t, j) /\ Local(t, c, j) = Uses(t, j) + One(c, j)
    BY <1>2, <1>9, <2>1 DEF Local
  <2>. QED  BY <1>5, <1>9, <1>11, <2>1, <2>2
<1>. QED  BY <1>6, <1>7, <1>8, <1>10, <1>12, <1>13, UserStep

-----------------------------------------------------------------------------
(* The invariant *)

\* Memory after boot, whatever is on the disk.
Booted ==
  /\ itab = BootItab /\ ilk = BootIlk /\ file = BootFile /\ ofile = BootOfile /\ cwd = BootCwd
  /\ th = [p \in Procs |-> Idle] /\ prog \in DOMAIN Programs /\ DiskTypes

LEMMA BootedInv == Booted => FInv
<1> SUFFICES ASSUME Booted PROVE FInv
  OBVIOUS
<1>1. /\ NoIno \notin Inums /\ ROOTINO \in Inums /\ ROOTINO # NoIno /\ InitProc \in Procs
      /\ NFILE \in Nat
  BY FilesAssumption DEF ROOTINO, NoIno
<1>2. /\ itab = BootItab /\ ilk = BootIlk /\ file = BootFile /\ ofile = BootOfile /\ cwd = BootCwd
      /\ th = [p \in Procs |-> Idle]
  BY DEF Booted
<1>3. Idle \in Thread /\ ThreadOk(Idle) /\ Point(Idle) = "user"
  <2>1. Idle \in Thread
    BY DEF Idle, Thread, Points, Calls, Elems, Entries, Inums0, Returns
  <2>2. ThreadOk(Idle) /\ Point(Idle) = "user"
    BY <1>1 DEF ThreadOk, Idle, Point, Putting, HaveIp, HaveDp, HaveOld
  <2>. QED  BY <2>1, <2>2
<1>4. /\ itab \in [Inums -> Entry]
      /\ \A i \in Inums : itab[i].ref = IF i = ROOTINO THEN 1 ELSE 0
  <2>1. NoInode \in Inode
    BY DEF NoInode, Inode, Types
  <2>2. Unreferenced = [ref |-> 0, valid |-> FALSE, d |-> NoInode]
    BY DEF Unreferenced
  <2>3. /\ [Unreferenced EXCEPT !.ref = 1] \in Entry /\ [Unreferenced EXCEPT !.ref = 1].ref = 1
        /\ [Unreferenced EXCEPT !.ref = 0] \in Entry /\ [Unreferenced EXCEPT !.ref = 0].ref = 0
    BY <2>1, <2>2 DEF Entry
  <2>4. PICK a, b : a = [Unreferenced EXCEPT !.ref = 1] /\ b = [Unreferenced EXCEPT !.ref = 0]
    OBVIOUS
  <2>5. itab = [i \in Inums |-> IF i = ROOTINO THEN a ELSE b]
    <3>1. \A i \in Inums : [Unreferenced EXCEPT !.ref = IF i = ROOTINO THEN 1 ELSE 0]
                             = IF i = ROOTINO THEN a ELSE b
      BY <2>4
    <3>. QED  BY <1>2, <3>1 DEF BootItab
  <2>. QED  BY <2>3, <2>4, <2>5
<1>5. /\ file \in [1..NFILE -> OpenFile] /\ \A f \in 1..NFILE : file[f].ref = 0
  BY <1>2 DEF BootFile, NoFile, OpenFile, Inums0
<1>6. /\ ofile \in [Procs -> [FDs -> 0..NFILE]] /\ \A p \in Procs : \A fd \in FDs : ofile[p][fd] = 0
  BY <1>1, <1>2 DEF BootOfile
<1>7. /\ cwd \in [Procs -> Inums0]
      /\ \A p \in Procs : cwd[p] = IF p = InitProc THEN ROOTINO ELSE NoIno
  BY <1>1, <1>2 DEF BootCwd, Inums0
<1>8. TypeInv
  <2>1. LockTypes
    BY <1>2 DEF LockTypes, BootIlk
  <2>2. th \in [Procs -> Thread]
    BY <1>2, <1>3
  <2>. QED  BY <1>4, <1>5, <1>6, <1>7, <2>1, <2>2 DEF TypeInv, UserTypes, Booted
<1>9. ControlInv
  BY <1>2, <1>3 DEF ControlInv
<1>10. GoneInv
  BY <1>2, <1>3, <1>6 DEF GoneInv
<1>11. FileInv
  BY <1>5 DEF FileInv
<1>12. FdInv
  <2>1. ASSUME NEW f \in 1..NFILE PROVE Count(Fd, f) = 0
    <3>1. PICK F : F = Fd
      OBVIOUS
    <3>2. \A h \in DOMAIN F : F[h] # f
      BY <1>1, <1>6, <3>1 DEF Fd
    <3>3. Finite(F)
      BY <3>1, FdsFinite DEF Finite
    <3>. QED  BY <3>1, <3>2, <3>3, CountType
  <2>. QED  BY <1>5, <2>1 DEF FdInv
<1>13. RefInv
  <2>1. PICK F, k : F = Ptr /\ k = <<InitProc, "cwd">>
    OBVIOUS
  <2>2. Finite(F) /\ k \in DOMAIN F /\ F[k] = ROOTINO
    <3>1. k \in Places
      BY <1>1, <2>1 DEF Places
    <3>. QED  BY <1>1, <1>7, <2>1, <3>1, PlacesFinite, PtrAt DEF Finite, PtrShape
  <2>3. \A h \in DOMAIN F : h # k => F[h] = NoIno
    <3>1. ASSUME NEW h \in Places, h # k PROVE Ptr[h] = NoIno
      <4>1. CASE h \in (1..NFILE) \X {"file"}
        <5>1. PICK g \in 1..NFILE : h = <<g, "file">>
          BY <4>1
        <5>. QED  BY <1>5, <5>1, PtrAt DEF PtrShape, FileIno
      <4>2. ASSUME NEW q \in Procs, NEW v \in {"ip", "dp", "old", "put", "cwd"}, h = <<q, v>>
            PROVE  Ptr[h] = NoIno
        <5>1. th[q] = Idle
          BY <1>2
        <5>2. /\ Held(th[q], "ip") = NoIno /\ th[q].dp = NoIno /\ th[q].old = NoIno
              /\ th[q].put = NoIno
          BY <5>1 DEF Held, Idle
        <5>3. v = "cwd" => cwd[q] = NoIno
          BY <1>7, <2>1, <3>1, <4>2
        <5>. QED  BY <4>2, <5>2, <5>3, PtrAt DEF PtrShape
      <4>3. h \in (1..NFILE) \X {"file"} \/ h \in Procs \X {"ip", "dp", "old", "put", "cwd"}
        BY DEF Places, Vars
      <4>. QED  BY <4>1, <4>2, <4>3
    <3>. QED  BY <2>1, <3>1, PlacesFinite
  <2>4. ASSUME NEW i \in Inums PROVE itab[i].ref = Count(F, i)
    <3>1. CASE i = ROOTINO
      <4>1. {h \in DOMAIN F : F[h] = i} = {k}
        BY <1>1, <2>2, <2>3, <3>1
      <4>2. Count(F, i) = 1
        BY <4>1, FS_Singleton DEF Count
      <4>. QED  BY <1>4, <3>1, <4>2
    <3>2. CASE i # ROOTINO
      <4>1. \A h \in DOMAIN F : F[h] # i
        BY <1>1, <2>2, <2>3, <3>2
      <4>2. Count(F, i) = 0
        BY <2>2, <4>1, CountType
      <4>. QED  BY <1>4, <3>2, <4>2
    <3>. QED  BY <3>1, <3>2
  <2>. QED  BY <2>1, <2>4 DEF RefInv
<1>. QED  BY <1>8, <1>9, <1>10, <1>11, <1>12, <1>13 DEF FInv

LEMMA InitBooted == FilesInit => Booted
<1> SUFFICES ASSUME FilesInit PROVE Booted
  OBVIOUS
<1>1. ROOTINO \in Inums /\ DPB \in Int /\ Blocks \subseteq Nat /\ Blocks # {}
  BY FilesAssumption
<1>2. Min(Blocks) \in Blocks
  BY <1>1, MinIn
<1>3. bitmap \subseteq Blocks
  BY <1>2 DEF FilesInit
<1>4. dinode \in [Inums -> Inode]
  <2>1. NoInode \in Inode
    BY DEF NoInode, Inode, Types
  <2>2. [type |-> "dir", nlink |-> 1, addrs |-> bitmap, size |-> DPB] \in Inode
    BY <1>1, <1>3 DEF Inode, Types
  <2>. QED  BY <2>1, <2>2 DEF FilesInit
<1>5. ents \in [Inums -> [Entries -> Inums0]]
  <2>1. NoEnts \in [Entries -> Inums0]
    BY DEF NoEnts, Inums0
  <2>2. [NoEnts EXCEPT ![".."] = ROOTINO] \in [Entries -> Inums0]
    BY <1>1, <2>1 DEF Inums0
  <2>. QED  BY <2>1, <2>2 DEF FilesInit
<1>. QED  BY <1>3, <1>4, <1>5 DEF FilesInit, Booted, DiskTypes

LEMMA InitInv == FilesInit => FInv
BY InitBooted, BootedInv

LEMMA NextInv == FInv /\ [FilesNext]_filesVars => FInv'
<1> SUFFICES ASSUME FInv, [FilesNext]_filesVars PROVE FInv'
  OBVIOUS
<1>1. ASSUME NEW p \in Procs, PathStep(p) PROVE FInv'
  BY <1>1, StartCallStep, WalkStep, IputStep DEF PathStep
<1>2. ASSUME NEW p \in Procs, CreateStep(p) PROVE FInv'
  BY <1>2, CreateFindStep, CreateMakeStep, CreateEndStep DEF CreateStep
<1>3. ASSUME NEW p \in Procs, OpenStep(p) PROVE FInv'
  BY <1>3, OpenFindStep, OpenedStep, ChdirStep DEF OpenStep
<1>4. ASSUME NEW p \in Procs, LinkStep(p) PROVE FInv'
  BY <1>4, UnlinkStep, LinkStepInv DEF LinkStep
<1>5. ASSUME NEW p \in Procs, Close(p) PROVE FInv'
  <2>1. PICK fd \in FDs : th[p].pc = "user" /\ fileclose(p, fd, "user")
    BY <1>5 DEF Close
  <2>. QED  BY <2>1, FilecloseStep
<1>6. ASSUME NEW p \in Procs, FileStep(p) PROVE FInv'
  BY <1>5, <1>6, WriteStep, DupStep, ExitStep, ForkStep DEF FileStep
<1>7. CASE Crash
  <2>1. prog \in DOMAIN Programs /\ DiskTypes
    BY DEF FInv, TypeInv, UserTypes
  <2>2. Booted'
    BY <1>7, <2>1 DEF Crash, Booted, BootItab, BootIlk, BootFile, BootOfile, BootCwd, DiskTypes, disk
  <2>3. (Booted => FInv)'
    BY BootedInv, PTL
  <2>. QED  BY <2>2, <2>3
<1>8. CASE UNCHANGED filesVars
  <2>1. /\ dinode' = dinode /\ bitmap' = bitmap /\ ents' = ents /\ itab' = itab /\ ilk' = ilk
        /\ file' = file /\ ofile' = ofile /\ cwd' = cwd /\ prog' = prog /\ th' = th
    BY <1>8 DEF filesVars
  <2>. QED  BY <2>1 DEF FInv, TypeInv, DiskTypes, LockTypes, UserTypes, ControlInv, GoneInv, FileInv,
                        RefInv, FdInv, Ptr, Fd
<1>. QED  BY <1>1, <1>2, <1>3, <1>4, <1>6, <1>7, <1>8 DEF FilesNext

\* Types, and exact counts, are an invariant.
THEOREM FilesInvariant == FilesSpec => []FInv
BY InitInv, NextInv, PTL DEF FilesSpec

LEMMA RefsFromInv == FInv => RefsExact
<1> SUFFICES ASSUME FInv PROVE RefsExact
  OBVIOUS
<1>1. NoIno \notin Inums
  BY FilesAssumption
<1>2. ASSUME NEW i \in Inums PROVE itab[i].ref = Cardinality(Pointers(i))
  <2>1. {h \in DOMAIN Ptr : Ptr[h] = i} = Pointers(i)
    <3>1. PICK A, B, C, D :
            /\ A = {h \in Procs \X {"ip", "dp", "old", "put"} :
                      th[h[1]][h[2]] = i /\ ~(h[2] = "ip" /\ th[h[1]].pc = "iget")}
            /\ B = {h \in Procs \X {"cwd"} : cwd[h[1]] = i}
            /\ C = {h \in (1..NFILE) \X {"file"} : file[h[1]].ref > 0 /\ file[h[1]].ip = i}
            /\ D = {h \in DOMAIN Ptr : Ptr[h] = i}
      OBVIOUS
    <3>2. Pointers(i) = A \cup B \cup C
      BY <3>1 DEF Pointers
    <3>3. \A h \in D : h \in Places /\ Ptr[h] = i
      BY <3>1, PlacesFinite
    <3>4. A \subseteq Places /\ B \subseteq Places /\ C \subseteq Places /\ D \subseteq Places
      BY <3>1, PlacesFinite DEF Places, Vars
    <3>5. ASSUME NEW q \in Procs
          PROVE  /\ <<q, "ip">> \in A \cup B \cup C <=> Held(th[q], "ip") = i
                 /\ <<q, "dp">> \in A \cup B \cup C <=> th[q].dp = i
                 /\ <<q, "old">> \in A \cup B \cup C <=> th[q].old = i
                 /\ <<q, "put">> \in A \cup B \cup C <=> th[q].put = i
                 /\ <<q, "cwd">> \in A \cup B \cup C <=> cwd[q] = i
      <4>1. Held(th[q], "ip") = i <=> th[q].ip = i /\ th[q].pc # "iget"
        BY <1>1 DEF Held
      <4>2. <<q, "ip">> \in A \cup B \cup C <=> th[q].ip = i /\ th[q].pc # "iget"
        BY <3>1
      <4>3. <<q, "dp">> \in A \cup B \cup C <=> th[q].dp = i
        BY <3>1
      <4>4. <<q, "old">> \in A \cup B \cup C <=> th[q].old = i
        BY <3>1
      <4>5. <<q, "put">> \in A \cup B \cup C <=> th[q].put = i
        BY <3>1
      <4>6. <<q, "cwd">> \in A \cup B \cup C <=> cwd[q] = i
        BY <3>1
      <4>. QED  BY <4>1, <4>2, <4>3, <4>4, <4>5, <4>6
    <3>6. ASSUME NEW f \in 1..NFILE
          PROVE  <<f, "file">> \in A \cup B \cup C <=> FileIno(file[f]) = i
      BY <1>1, <3>1 DEF FileIno
    <3>7. ASSUME NEW h \in Places PROVE h \in A \cup B \cup C <=> Ptr[h] = i
      <4>1. CASE h \in (1..NFILE) \X {"file"}
        <5>1. PICK f \in 1..NFILE : h = <<f, "file">>
          BY <4>1
        <5>. QED  BY <3>6, <5>1, PtrAt DEF PtrShape
      <4>2. ASSUME NEW q \in Procs, NEW v \in {"ip", "dp", "old", "put", "cwd"}, h = <<q, v>>
            PROVE  h \in A \cup B \cup C <=> Ptr[h] = i
        BY <3>5, <4>2, PtrAt DEF PtrShape
      <4>3. h \in (1..NFILE) \X {"file"} \/ h \in Procs \X {"ip", "dp", "old", "put", "cwd"}
        BY DEF Places, Vars
      <4>. QED  BY <4>1, <4>2, <4>3
    <3>8. D = A \cup B \cup C
      <4>1. \A h \in Places : h \in D <=> Ptr[h] = i
        BY <3>1, PlacesFinite
      <4>. QED  BY <3>4, <3>7, <4>1
    <3>. QED  BY <3>1, <3>2, <3>8
  <2>2. itab[i].ref = Count(Ptr, i)
    BY DEF FInv, RefInv
  <2>. QED  BY <2>1, <2>2 DEF Count
<1>3. ASSUME NEW f \in 1..NFILE
      PROVE  file[f].ref = Cardinality({h \in Procs \X FDs : ofile[h[1]][h[2]] = f})
  <2>1. {h \in DOMAIN Fd : Fd[h] = f} = {h \in Procs \X FDs : ofile[h[1]][h[2]] = f}
    BY DEF Fd
  <2>2. file[f].ref = Count(Fd, f)
    BY DEF FInv, FdInv
  <2>. QED  BY <2>1, <2>2 DEF Count
<1>. QED  BY <1>2, <1>3 DEF RefsExact

\* The reference count of an inode is the number of pointers to it, and that of an open
\* file the number of its descriptors: no failure path of a call drops one too many or
\* one too few.
THEOREM CountsExact == FilesSpec => []RefsExact
BY FilesInvariant, RefsFromInv, PTL

-----------------------------------------------------------------------------
(* Inode locks, and the copies of the inode table *)

\* The points where dp is locked, those where ip is, and those of iput() where its
\* inode is.
LockedDp == {"ialloc", "iget", "createinit", "dirlink", "createfail", "dropparent", "unlinklock",
             "linkdrop"}
LockedIp == {"dirlink", "createfail", "made", "opened", "unlinkdec"}
Freeing == {"itrunc", "ifree", "invalid"}

HasLock(t, i) ==
  \/ t.pc \in Freeing /\ t.put = i
  \/ Point(t) \in LockedDp /\ t.dp = i
  \/ Point(t) \in LockedIp /\ t.ip = i

\* A process locks different inodes.
LocksApart(t) ==
  /\ Point(t) \in LockedDp \cap LockedIp => t.dp # t.ip
  /\ t.pc \in Freeing => /\ Point(t) \in LockedDp => t.put # t.dp
                         /\ Point(t) \in LockedIp => t.put # t.ip

LockInv == \A i \in Inums, p \in Procs : ilk[i] = p <=> HasLock(th[p], i)
ApartInv == \A p \in Procs : LocksApart(th[p])

\* An inode that is locked has been read, and is not read again.
ValidInv == \A i \in Inums : ilk[i] # Nobody => itab[i].valid

\* A copy that is valid is what the disk holds, and is in use, except while the second
\* half of iput() is about to say that it is not.
Fresh(i) == itab[i].ref > 0 /\ itab[i].valid =>
              itab[i].d = dinode[i] /\ (dinode[i].type # "free" \/ panicked)
BeingFreed(i) == \E p \in Procs : th[p].pc = "invalid" /\ th[p].put = i
CacheInv == \A i \in Inums : BeingFreed(i) \/ Fresh(i)

CInv == FInv /\ LockInv /\ ApartInv /\ ValidInv /\ CacheInv

\* A step of one process, as its entries and its locks see it.
Kept(e, f) == f.ref > 0 /\ f.valid => e.ref > 0 /\ e.valid /\ f.d = e.d
Stays(e, f) == e.ref > 0 /\ e.valid => f.valid
TabStep ==
  \A i \in Inums : /\ Stays(itab[i], itab'[i]) \/ ilk'[i] = Nobody
                  /\ \/ Fresh(i)' \/ BeingFreed(i)'
                     \/ Kept(itab[i], itab'[i]) /\ dinode'[i] = dinode[i]
Others(p) == \A q \in Procs \ {p} : th'[q] = th[q]
LockStep(p) ==
  /\ LocksApart(th'[p])
  /\ \A i \in Inums :
       /\ ilk'[i] = p <=> HasLock(th'[p], i)
       /\ ilk'[i] = ilk[i] \/ (ilk[i] \in {p, Nobody} /\ ilk'[i] \in {p, Nobody})
       /\ ilk'[i] = p /\ ilk[i] # p => itab'[i].valid

Refers(t, i) == Held(t, "ip") = i \/ t.dp = i \/ t.old = i \/ t.put = i

\* What a process has a reference to has one.
LEMMA HeldRef ==
  ASSUME FInv, NEW p \in Procs, NEW i \in Inums, Refers(th[p], i)
  PROVE  itab[i].ref > 0
<1>1. PICK F, k : /\ F = Ptr /\ k \in Places /\ Ptr[k] = i
  <2>1. /\ <<p, "ip">> \in Places /\ <<p, "dp">> \in Places /\ <<p, "old">> \in Places
        /\ <<p, "put">> \in Places
    BY DEF Places, Vars
  <2>2. \E k \in Places : Ptr[k] = i
    BY <2>1, PtrAt DEF PtrShape, Refers
  <2>. QED  BY <2>2
<1>2. Finite(F) /\ k \in DOMAIN F /\ F[k] = i
  BY <1>1, PlacesFinite DEF Finite
<1>3. Count(F, i) \in Nat \ {0}
  BY <1>2, CountType
<1>. QED  BY <1>1, <1>3 DEF FInv, RefInv

LEMMA LockedRef ==
  ASSUME FInv, NEW p \in Procs, NEW i \in Inums, HasLock(th[p], i)
  PROVE  itab[i].ref > 0
<1>1. Refers(th[p], i)
  BY DEF HasLock, Refers, Held, LockedIp, Point, Putting
<1>. QED  BY <1>1, HeldRef

\* Nobody is about to forget a copy that is not locked, or locked for something else.
LEMMA NotFreed ==
  ASSUME CInv, NEW p \in Procs, NEW i \in Inums,
         ilk[i] = Nobody \/ (ilk[i] = p /\ th[p].pc # "invalid")
  PROVE  ~BeingFreed(i)
<1>1. SUFFICES ASSUME NEW q \in Procs, th[q].pc = "invalid", th[q].put = i PROVE FALSE
  BY DEF BeingFreed
<1>2. HasLock(th[q], i)
  BY <1>1 DEF HasLock, Freeing
<1>3. ilk[i] = q
  BY <1>2 DEF CInv, LockInv
<1>. QED  BY <1>1, <1>3, FilesAssumption

\* The inode that ilock() shows has a type, or ilock() has found that it has none.
LEMMA LoadedTyped ==
  ASSUME CInv, ~panicked, NEW p \in Procs, NEW i \in Inums, itab[i].ref > 0,
         ilk[i] = Nobody \/ (ilk[i] = p /\ th[p].pc # "invalid")
  PROVE  /\ Loaded(i).type # "free" \/ NoType(i)
         /\ itab[i].valid => /\ itab[i].d = dinode[i] /\ itab[i].d.type # "free"
                             /\ Loaded(i) = itab[i].d
<1>1. Fresh(i)
  BY NotFreed DEF CInv, CacheInv
<1>2. itab[i].valid => /\ itab[i].d = dinode[i] /\ itab[i].d.type # "free"
                       /\ Loaded(i) = itab[i].d
  BY <1>1 DEF Fresh, Loaded
<1>3. Loaded(i).type # "free" \/ NoType(i)
  BY <1>2 DEF Loaded, NoType
<1>. QED  BY <1>2, <1>3

LEMMA CacheStep ==
  ASSUME CInv, ~panicked, FInv', NEW p \in Procs, Others(p), TabStep, LockStep(p),
         th[p].pc = "invalid" => ~itab'[th[p].put].valid
  PROVE  CInv'
<1>1. /\ FInv /\ LockInv /\ ApartInv /\ ValidInv /\ CacheInv /\ LockTypes /\ Nobody \notin Procs
      /\ LockTypes'
  BY FilesAssumption DEF CInv, FInv, TypeInv
<1>2. LockInv'
  <2>1. ASSUME NEW i \in Inums, NEW q \in Procs PROVE ilk'[i] = q <=> HasLock(th'[q], i)
    <3>1. CASE q = p
      BY <3>1 DEF LockStep
    <3>2. CASE q # p
      <4>1. ilk[i] = q <=> HasLock(th'[q], i)
        BY <1>1, <3>2 DEF LockInv, Others
      <4>2. ilk'[i] = q <=> ilk[i] = q
        BY <1>1, <3>2 DEF LockStep
      <4>. QED  BY <4>1, <4>2
    <3>. QED  BY <3>1, <3>2
  <2>. QED  BY <2>1 DEF LockInv
<1>3. ApartInv'
  BY <1>1 DEF ApartInv, Others, LockStep
<1>4. ValidInv'
  <2>1. ASSUME NEW i \in Inums, ilk'[i] # Nobody PROVE itab'[i].valid
    <3>1. CASE ilk[i] = ilk'[i]
      <4>1. ilk[i] \in Procs /\ HasLock(th[ilk[i]], i) /\ itab[i].valid
        BY <1>1, <2>1, <3>1 DEF LockTypes, LockInv, ValidInv
      <4>2. itab[i].ref > 0
        BY <1>1, <4>1, LockedRef
      <4>. QED  BY <2>1, <4>1, <4>2 DEF TabStep, Stays
    <3>2. CASE ilk[i] # ilk'[i]
      BY <2>1, <3>2 DEF LockStep
    <3>. QED  BY <3>1, <3>2
  <2>. QED  BY <2>1 DEF ValidInv
<1>5. CacheInv'
  <2>1. ASSUME NEW i \in Inums PROVE BeingFreed(i)' \/ Fresh(i)'
    <3>1. CASE BeingFreed(i)
      <4>1. PICK q \in Procs : th[q].pc = "invalid" /\ th[q].put = i
        BY <3>1 DEF BeingFreed
      <4>2. CASE q = p
        BY <4>1, <4>2 DEF Fresh
      <4>3. CASE q # p
        <5>1. th'[q] = th[q]
          BY <4>3 DEF Others
        <5>. QED  BY <4>1, <5>1 DEF BeingFreed
      <4>. QED  BY <4>2, <4>3
    <3>2. CASE ~BeingFreed(i) /\ Kept(itab[i], itab'[i]) /\ dinode'[i] = dinode[i]
      <4>1. Fresh(i)
        BY <1>1, <3>2 DEF CacheInv
      <4>. QED  BY <3>2, <4>1 DEF Fresh, Kept
    <3>. QED  BY <3>1, <3>2 DEF TabStep
  <2>. QED  BY <2>1 DEF CacheInv
<1>. QED  BY <1>2, <1>3, <1>4, <1>5 DEF CInv

\* What the operations on the inode table do to the copies.
LEMMA TabSame == itab' = itab /\ dinode' = dinode => TabStep
BY DEF TabStep, Kept, Stays

LEMMA IgetKept ==
  ASSUME NEW tab \in [Inums -> Entry], NEW k \in Inums, NEW i \in Inums
  PROVE  Kept(tab[i], iget(tab, k)[i]) /\ Stays(tab[i], iget(tab, k)[i])
<1>1. PICK e : e = IF tab[k].ref > 0 THEN tab[k] ELSE Unreferenced
  OBVIOUS
<1>2. PICK f : f = [e EXCEPT !.ref = e.ref + 1]
  OBVIOUS
<1>3. iget(tab, k) = [tab EXCEPT ![k] = f]
  BY <1>1, <1>2 DEF iget
<1>4. CASE i # k
  BY <1>3, <1>4 DEF Kept, Stays
<1>5. CASE i = k
  <2>1. iget(tab, k)[i] = f /\ tab[k] \in Entry
    BY <1>3, <1>5
  <2>2. CASE tab[k].ref > 0
    <3>1. f.valid = tab[k].valid /\ f.d = tab[k].d
      BY <1>1, <1>2, <2>1, <2>2 DEF Entry
    <3>. QED  BY <1>5, <2>1, <2>2, <3>1 DEF Kept, Stays
  <2>3. CASE ~(tab[k].ref > 0)
    <3>1. f.valid = FALSE
      BY <1>1, <1>2, <2>3 DEF Unreferenced
    <3>. QED  BY <1>5, <2>1, <2>3, <3>1 DEF Kept, Stays
  <2>. QED  BY <2>2, <2>3
<1>. QED  BY <1>4, <1>5

LEMMA TabIget ==
  ASSUME itab \in [Inums -> Entry], NEW k \in Inums, itab' = iget(itab, k), dinode' = dinode
  PROVE  TabStep
<1>1. PICK tab : tab = itab
  OBVIOUS
<1>2. \A i \in Inums : Kept(tab[i], iget(tab, k)[i]) /\ Stays(tab[i], iget(tab, k)[i])
  BY <1>1, IgetKept
<1>. QED  BY <1>1, <1>2 DEF TabStep

\* ilock(), then iget() of the same or of another inode.
LEMMA IlockFresh ==
  ASSUME itab \in [Inums -> Entry], NEW d \in Inums, NEW i \in Inums
  PROVE  /\ Stays(itab[i], ilock(d)[i])
         /\ i = d => ilock(d)[i].valid
         /\ \/ Kept(itab[i], ilock(d)[i])
            \/ i = d /\ ilock(d)[i].d = dinode[i] /\ (dinode[i].type # "free" \/ NoType(d))
<1>1. PICK f : f = [itab[d] EXCEPT !.valid = TRUE, !.d = Loaded(d)]
  OBVIOUS
<1>2. ilock(d) = [itab EXCEPT ![d] = f]
  BY <1>1 DEF ilock
<1>3. itab[d] \in Entry
  OBVIOUS
<1>4. f.valid = TRUE /\ f.d = Loaded(d) /\ f.ref = itab[d].ref
  BY <1>1, <1>3 DEF Entry
<1>5. CASE i # d
  BY <1>2, <1>5 DEF Kept, Stays
<1>6. CASE i = d
  <2>1. ilock(d)[i] = f
    BY <1>2, <1>6
  <2>2. CASE itab[d].valid
    BY <1>4, <1>6, <2>1, <2>2 DEF Kept, Stays, Loaded
  <2>3. CASE ~itab[d].valid
    BY <1>4, <1>6, <2>1, <2>3 DEF Stays, Loaded, NoType
  <2>. QED  BY <2>2, <2>3
<1>. QED  BY <1>5, <1>6

LEMMA TabIlock ==
  ASSUME itab \in [Inums -> Entry], NEW d \in Inums, itab' = ilock(d), dinode' = dinode,
         NoType(d) => panicked'
  PROVE  TabStep /\ itab'[d].valid
<1>1. ASSUME NEW i \in Inums
      PROVE  /\ Stays(itab[i], itab'[i]) /\ (i = d => itab'[i].valid)
             /\ Fresh(i)' \/ (Kept(itab[i], itab'[i]) /\ dinode'[i] = dinode[i])
  <2>1. /\ Stays(itab[i], itab'[i]) /\ (i = d => itab'[i].valid)
        /\ \/ Kept(itab[i], itab'[i])
           \/ i = d /\ itab'[i].d = dinode[i] /\ (dinode[i].type # "free" \/ NoType(d))
    BY IlockFresh
  <2>. QED  BY <2>1 DEF Fresh
<1>. QED  BY <1>1 DEF TabStep

LEMMA TabLookup ==
  ASSUME DiskTypes, itab \in [Inums -> Entry], NEW d \in Inums, NEW k \in Inums,
         LookupIget(d, k), dinode' = dinode
  PROVE  TabStep /\ (itab[d].ref > 0 => itab'[d].valid)
<1>1. PICK tab : tab = ilock(d)
  OBVIOUS
<1>2. tab \in [Inums -> Entry] /\ itab' = iget(tab, k) /\ \A i \in Inums : tab[i].ref = itab[i].ref
  BY <1>1, IlockTab DEF LookupIget
<1>3. NoType(d) => panicked'
  BY DEF LookupIget
<1>4. ASSUME NEW i \in Inums
      PROVE  /\ Stays(itab[i], itab'[i]) /\ (i = d /\ itab[d].ref > 0 => itab'[i].valid)
             /\ Fresh(i)' \/ (Kept(itab[i], itab'[i]) /\ dinode'[i] = dinode[i])
  <2>1. /\ Stays(itab[i], tab[i]) /\ (i = d => tab[i].valid)
        /\ \/ Kept(itab[i], tab[i])
           \/ i = d /\ tab[i].d = dinode[i] /\ (dinode[i].type # "free" \/ NoType(d))
    BY <1>1, IlockFresh
  <2>2. Kept(tab[i], itab'[i]) /\ Stays(tab[i], itab'[i])
    BY <1>2, IgetKept
  <2>3. Stays(itab[i], itab'[i]) /\ (i = d /\ itab[d].ref > 0 => itab'[i].valid)
    BY <1>2, <2>1, <2>2 DEF Stays
  <2>4. CASE Kept(itab[i], tab[i])
    BY <2>2, <2>3, <2>4 DEF Kept
  <2>5. CASE i = d /\ tab[i].d = dinode[i] /\ (dinode[i].type # "free" \/ NoType(d))
    BY <1>3, <2>2, <2>3, <2>5 DEF Kept, Fresh
  <2>. QED  BY <2>1, <2>4, <2>5
<1>. QED  BY <1>4 DEF TabStep

\* Both copies change together.
LEMMA TabUpdate ==
  ASSUME itab \in [Inums -> Entry], dinode \in [Inums -> Inode], NEW k \in Inums, NEW d,
         Update(k, d), d.type # "free" \/ panicked'
  PROVE  TabStep /\ itab'[k].valid
<1>1. itab[k] \in Entry
  OBVIOUS
<1>2. PICK f : f = [itab[k] EXCEPT !.valid = TRUE, !.d = d]
  OBVIOUS
<1>3. itab' = [itab EXCEPT ![k] = f] /\ dinode' = [dinode EXCEPT ![k] = d]
  BY <1>2 DEF Update
<1>4. f.valid = TRUE /\ f.d = d
  BY <1>1, <1>2 DEF Entry
<1>5. ASSUME NEW i \in Inums
      PROVE  /\ Stays(itab[i], itab'[i]) /\ (i = k => itab'[i].valid)
             /\ Fresh(i)' \/ (Kept(itab[i], itab'[i]) /\ dinode'[i] = dinode[i])
  <2>1. CASE i = k
    BY <1>3, <1>4, <2>1 DEF Stays, Fresh
  <2>2. CASE i # k
    BY <1>3, <2>2 DEF Stays, Kept
  <2>. QED  BY <2>1, <2>2
<1>. QED  BY <1>5 DEF TabStep

LEMMA TabRef ==
  ASSUME itab \in [Inums -> Entry], NEW k \in Inums, itab' = [itab EXCEPT ![k].ref = @ - 1],
         dinode' = dinode
  PROVE  TabStep
<1>1. PICK f : f = [itab[k] EXCEPT !.ref = itab[k].ref - 1]
  OBVIOUS
<1>2. itab' = [itab EXCEPT ![k] = f] /\ itab[k] \in Entry
  BY <1>1
<1>3. f.valid = itab[k].valid /\ f.d = itab[k].d /\ f.ref = itab[k].ref - 1 /\ itab[k].ref \in Nat
  BY <1>1, <1>2 DEF Entry
<1>4. ASSUME NEW i \in Inums
      PROVE  Stays(itab[i], itab'[i]) /\ Kept(itab[i], itab'[i])
  <2>1. CASE i = k
    BY <1>2, <1>3, <2>1 DEF Stays, Kept
  <2>2. CASE i # k
    BY <1>2, <2>2 DEF Stays, Kept
  <2>. QED  BY <2>1, <2>2
<1>. QED  BY <1>4 DEF TabStep

-----------------------------------------------------------------------------
(* Steps that take and release locks *)

NoLocks(t) == t.pc \notin Freeing /\ Point(t) \notin LockedDp \cup LockedIp

LEMMA NoLocksHeld == ASSUME NEW t, NoLocks(t) PROVE LocksApart(t) /\ \A i : ~HasLock(t, i)
BY DEF NoLocks, LocksApart, HasLock

LEMMA LockSame ==
  ASSUME LockInv, NEW p \in Procs, ilk' = ilk, LocksApart(th'[p]),
         \A i \in Inums : HasLock(th'[p], i) <=> HasLock(th[p], i)
  PROVE  LockStep(p)
BY DEF LockInv, LockStep

LEMMA LockTake ==
  ASSUME LockTypes, LockInv, NEW p \in Procs, LocksApart(th'[p]),
         NEW k \in Inums, ilk[k] = Nobody, ilk' = [ilk EXCEPT ![k] = p], itab'[k].valid,
         \A i \in Inums : HasLock(th'[p], i) <=> HasLock(th[p], i) \/ i = k
  PROVE  LockStep(p)
BY DEF LockTypes, LockInv, LockStep

LEMMA LockDrop ==
  ASSUME LockTypes, LockInv, NEW p \in Procs, LocksApart(th'[p]),
         NEW k \in Inums, HasLock(th[p], k), ilk' = [ilk EXCEPT ![k] = Nobody],
         \A i \in Inums : HasLock(th'[p], i) <=> HasLock(th[p], i) /\ i # k
  PROVE  LockStep(p)
BY FilesAssumption DEF LockTypes, LockInv, LockStep

\* A step that begins and ends without locks.
LEMMA FreeStep ==
  ASSUME CInv, ~panicked, FInv', NEW p \in Procs, Others(p), TabStep,
         NoLocks(th[p]), NoLocks(th'[p]), ilk' = ilk
  PROVE  CInv'
<1>1. LocksApart(th'[p]) /\ \A i \in Inums : HasLock(th'[p], i) <=> HasLock(th[p], i)
  BY NoLocksHeld
<1>2. LockStep(p)
  BY <1>1, LockSame DEF CInv
<1>3. th[p].pc # "invalid"
  BY DEF NoLocks, Freeing
<1>. QED  BY <1>2, <1>3, CacheStep

\* The locks of a process that leaves v to iput().
LEMMA PutLocks ==
  ASSUME TypeInv, NEW p \in Procs, NEW v \in {"ip", "dp", "old"}, NEW r, IputThen(p, v, r)
  PROVE  /\ Others(p) /\ th'[p].pc = "iput" /\ Point(th'[p]) = r
         /\ r \notin LockedDp \cap LockedIp => LocksApart(th'[p])
         /\ r \notin LockedDp \cup LockedIp => NoLocks(th'[p])
         /\ \A i \in Inums : HasLock(th'[p], i) <=>
              \/ r \in LockedDp /\ v # "dp" /\ th[p].dp = i
              \/ r \in LockedIp /\ v # "ip" /\ th[p].ip = i
<1>1. th \in [Procs -> Thread] /\ th[p] \in Thread /\ NoIno \notin Inums
  BY FilesAssumption DEF TypeInv
<1>2. /\ Others(p) /\ th'[p].pc = "iput" /\ th'[p].ret = r
      /\ th'[p].ip = (IF v = "ip" THEN NoIno ELSE th[p].ip)
      /\ th'[p].dp = (IF v = "dp" THEN NoIno ELSE th[p].dp)
  <2>1. v = "ip" => /\ Others(p) /\ th'[p].pc = "iput" /\ th'[p].ret = r
                    /\ th'[p].ip = NoIno /\ th'[p].dp = th[p].dp
    BY <1>1 DEF IputThen, Thread, Others
  <2>2. v = "dp" => /\ Others(p) /\ th'[p].pc = "iput" /\ th'[p].ret = r
                    /\ th'[p].ip = th[p].ip /\ th'[p].dp = NoIno
    BY <1>1 DEF IputThen, Thread, Others
  <2>3. v = "old" => /\ Others(p) /\ th'[p].pc = "iput" /\ th'[p].ret = r
                     /\ th'[p].ip = th[p].ip /\ th'[p].dp = th[p].dp
    BY <1>1 DEF IputThen, Thread, Others
  <2>. QED  BY <2>1, <2>2, <2>3
<1>3. Point(th'[p]) = r /\ th'[p].pc \notin Freeing
  BY <1>2 DEF Point, Putting, Freeing
<1>4. \A i \in Inums : HasLock(th'[p], i) <=>
              \/ r \in LockedDp /\ v # "dp" /\ th[p].dp = i
              \/ r \in LockedIp /\ v # "ip" /\ th[p].ip = i
  <2> TAKE i \in Inums
  <2>1. HasLock(th'[p], i) <=> (r \in LockedDp /\ th'[p].dp = i) \/ (r \in LockedIp /\ th'[p].ip = i)
    BY <1>3 DEF HasLock
  <2>2. /\ th'[p].dp = i <=> v # "dp" /\ th[p].dp = i
        /\ th'[p].ip = i <=> v # "ip" /\ th[p].ip = i
    BY <1>1, <1>2
  <2>. QED  BY <2>1, <2>2
<1>5. /\ r \notin LockedDp \cap LockedIp => LocksApart(th'[p])
      /\ r \notin LockedDp \cup LockedIp => NoLocks(th'[p])
  BY <1>3 DEF LocksApart, NoLocks
<1>. QED  BY <1>2, <1>3, <1>4, <1>5

\* The locks of a process that is not in iput().
LEMMA CallLocks ==
  ASSUME NEW t, t.pc \in Points
  PROVE  /\ Point(t) = t.pc /\ t.pc \notin Freeing
         /\ t.pc \notin LockedDp \cap LockedIp => LocksApart(t)
         /\ t.pc \notin LockedDp \cup LockedIp => NoLocks(t)
         /\ \A i : HasLock(t, i) <=>
              \/ t.pc \in LockedDp /\ t.dp = i
              \/ t.pc \in LockedIp /\ t.ip = i
<1>1. Point(t) = t.pc /\ t.pc \notin Freeing
  BY DEF Points, Point, Putting, Freeing
<1>. QED  BY <1>1 DEF LocksApart, NoLocks, HasLock

\* Steps that leave v to iput(): the locks stay, or that of v is given up.
LEMMA PutKeeps ==
  ASSUME CInv, ~panicked, FInv', NEW p \in Procs, NEW v \in {"ip", "dp", "old"}, NEW r,
         IputThen(p, v, r), TabStep, ilk' = ilk, th[p].pc \in Points,
         r \notin LockedDp \cap LockedIp,
         r \in LockedDp /\ v # "dp" <=> th[p].pc \in LockedDp,
         r \in LockedIp /\ v # "ip" <=> th[p].pc \in LockedIp
  PROVE  CInv'
<1>1. TypeInv /\ LockInv /\ th[p].pc # "invalid"
  BY DEF CInv, FInv, Points
<1>2. /\ Others(p) /\ LocksApart(th'[p])
      /\ \A i \in Inums : HasLock(th'[p], i) <=>
           \/ r \in LockedDp /\ v # "dp" /\ th[p].dp = i
           \/ r \in LockedIp /\ v # "ip" /\ th[p].ip = i
  BY <1>1, PutLocks
<1>3. \A i \in Inums : HasLock(th[p], i) <=>
           \/ th[p].pc \in LockedDp /\ th[p].dp = i
           \/ th[p].pc \in LockedIp /\ th[p].ip = i
  BY CallLocks
<1>4. \A i \in Inums : HasLock(th'[p], i) <=> HasLock(th[p], i)
  BY <1>2, <1>3
<1>5. LockStep(p)
  BY <1>1, <1>2, <1>4, LockSame
<1>. QED  BY <1>1, <1>2, <1>5, CacheStep

LEMMA PutUnlocks ==
  ASSUME CInv, ~panicked, FInv', NEW p \in Procs, NEW v \in {"ip", "dp"}, NEW r,
         IputThen(p, v, r), TabStep, th[p][v] \in Inums, ilk' = [ilk EXCEPT ![th[p][v]] = Nobody],
         th[p].pc \in Points, r \notin LockedDp \cap LockedIp,
         v = "dp" => th[p].pc \in LockedDp /\ r \notin LockedDp /\ (r \in LockedIp <=> th[p].pc \in LockedIp),
         v = "ip" => th[p].pc \in LockedIp /\ r \notin LockedIp /\ (r \in LockedDp <=> th[p].pc \in LockedDp)
  PROVE  CInv'
<1>1. TypeInv /\ LockTypes /\ LockInv /\ th[p].pc # "invalid" /\ LocksApart(th[p])
  BY DEF CInv, ApartInv, FInv, TypeInv, Points
<1>2. /\ Others(p) /\ LocksApart(th'[p])
      /\ \A i \in Inums : HasLock(th'[p], i) <=>
           \/ r \in LockedDp /\ v # "dp" /\ th[p].dp = i
           \/ r \in LockedIp /\ v # "ip" /\ th[p].ip = i
  BY <1>1, PutLocks
<1>3. /\ Point(th[p]) = th[p].pc
      /\ \A i \in Inums : HasLock(th[p], i) <=>
           \/ th[p].pc \in LockedDp /\ th[p].dp = i
           \/ th[p].pc \in LockedIp /\ th[p].ip = i
  BY CallLocks
<1>4. th[p].pc \in LockedDp \cap LockedIp => th[p].dp # th[p].ip
  BY <1>1, <1>3 DEF LocksApart
<1>5. PICK k : k = th[p][v] /\ k \in Inums
  OBVIOUS
<1>6. HasLock(th[p], k)
  BY <1>3, <1>5
<1>7. \A i \in Inums : HasLock(th'[p], i) <=> HasLock(th[p], i) /\ i # k
  <2>1. CASE v = "dp"
    BY <1>2, <1>3, <1>4, <1>5, <2>1
  <2>2. CASE v = "ip"
    BY <1>2, <1>3, <1>4, <1>5, <2>2
  <2>. QED  BY <2>1, <2>2
<1>8. LockStep(p)
  BY <1>1, <1>2, <1>5, <1>6, <1>7, LockDrop
<1>. QED  BY <1>1, <1>2, <1>8, CacheStep

LEMMA UnlockPutCache ==
  ASSUME CInv, ~panicked, FInv', NEW p \in Procs, NEW v \in {"ip", "dp"}, NEW r,
         iunlockput(p, v, r), th[p][v] \in Inums, th[p].pc \in Points, r \notin LockedDp \cap LockedIp,
         v = "dp" => th[p].pc \in LockedDp /\ r \notin LockedDp /\ (r \in LockedIp <=> th[p].pc \in LockedIp),
         v = "ip" => th[p].pc \in LockedIp /\ r \notin LockedIp /\ (r \in LockedDp <=> th[p].pc \in LockedDp)
  PROVE  CInv'
<1>1. TabStep /\ IputThen(p, v, r) /\ ilk' = [ilk EXCEPT ![th[p][v]] = Nobody]
  BY TabSame DEF iunlockput, disk
<1>. QED  BY <1>1, PutUnlocks

LEMMA RejectCache ==
  ASSUME CInv, ~panicked, FInv', NEW p \in Procs, NEW v \in {"ip", "dp", "old"}, NEW r,
         Reject(p, v, r), th[p][v] \in Inums, th[p].pc \in Points, r \notin LockedDp \cap LockedIp,
         r \in LockedDp /\ v # "dp" <=> th[p].pc \in LockedDp,
         r \in LockedIp /\ v # "ip" <=> th[p].pc \in LockedIp
  PROVE  CInv'
<1>1. PICK k : k = th[p][v] /\ k \in Inums
  OBVIOUS
<1>2. /\ itab' = ilock(k) /\ (NoType(k) => panicked') /\ dinode' = dinode /\ ilk' = ilk
      /\ IputThen(p, v, r)
  BY <1>1 DEF Reject, disk
<1>3. itab \in [Inums -> Entry]
  BY DEF CInv, FInv, TypeInv
<1>4. TabStep
  BY <1>1, <1>2, <1>3, TabIlock
<1>. QED  BY <1>2, <1>4, PutKeeps

\* ilock() for later.
LEMMA HoldCache ==
  ASSUME CInv, ~panicked, FInv', NEW p \in Procs, NEW v \in {"ip", "dp"}, NEW c \in Points,
         Hold(p, v, c), th[p][v] \in Inums, ilk[th[p][v]] = Nobody,
         th[p].pc \in Points \ (LockedDp \cup LockedIp),
         v = "dp" => c \in LockedDp \ LockedIp,
         v = "ip" => c \in LockedIp \ LockedDp
  PROVE  CInv'
<1>1. PICK k : k = th[p][v] /\ k \in Inums
  OBVIOUS
<1>2. /\ itab' = ilock(k) /\ (NoType(k) => panicked') /\ dinode' = dinode
      /\ ilk' = [ilk EXCEPT ![k] = p] /\ th' = [th EXCEPT ![p].pc = c] /\ ilk[k] = Nobody
  BY <1>1 DEF Hold, disk
<1>3. /\ itab \in [Inums -> Entry] /\ th \in [Procs -> Thread] /\ th[p] \in Thread
      /\ LockTypes /\ LockInv /\ th[p].pc # "invalid"
  BY DEF CInv, FInv, TypeInv, Points
<1>4. TabStep /\ itab'[k].valid
  BY <1>1, <1>2, <1>3, TabIlock
<1>5. Others(p) /\ th'[p].pc = c /\ th'[p].ip = th[p].ip /\ th'[p].dp = th[p].dp
  BY <1>2, <1>3 DEF Others, Thread
<1>6. NoLocks(th[p]) /\ \A i : ~HasLock(th[p], i)
  BY CallLocks, NoLocksHeld
<1>7. /\ c \notin LockedDp \cap LockedIp
      /\ \A i \in Inums : HasLock(th'[p], i) <=>
           \/ c \in LockedDp /\ th[p].dp = i
           \/ c \in LockedIp /\ th[p].ip = i
      /\ LocksApart(th'[p])
  BY <1>5, CallLocks
<1>8. \A i \in Inums : HasLock(th'[p], i) <=> HasLock(th[p], i) \/ i = k
  BY <1>1, <1>6, <1>7
<1>9. LockStep(p)
  BY <1>1, <1>2, <1>3, <1>4, <1>7, <1>8, LockTake
<1>. QED  BY <1>3, <1>4, <1>5, <1>9, CacheStep

\* An inode that two variables point to has two references.
LEMMA TwoRefs ==
  ASSUME FInv, NEW i \in Inums, NEW k \in Places, NEW l \in Places, k # l, Ptr[k] = i, Ptr[l] = i
  PROVE  itab[i].ref # 1
<1>1. PICK F, G : F = Ptr /\ G = Put(F, k, NoIno)
  OBVIOUS
<1>2. PlaceOf(F, k) /\ Finite(F) /\ DOMAIN F = Places /\ F[k] = i /\ F[l] = i
  BY <1>1, PlacesFinite DEF PlaceOf, Finite
<1>3. Count(G, i) = Swap(Count(F, i), One(F[k], i), One(NoIno, i))
  BY <1>1, <1>2, CountChange
<1>4. Finite(G) /\ l \in DOMAIN G /\ G[l] = i
  BY <1>1, <1>2 DEF Put, Finite
<1>5. Count(G, i) \in Nat \ {0}
  BY <1>4, CountType
<1>6. Count(F, i) \in Nat /\ One(F[k], i) = 1 /\ One(NoIno, i) = 0
  BY <1>2, CountNat, FilesAssumption DEF One
<1>7. itab[i].ref = Count(F, i)
  BY <1>1 DEF FInv, RefInv
<1>. QED  BY <1>3, <1>5, <1>6, <1>7 DEF Swap

\* The acquiresleep() that iput() makes with a spinlock held finds the lock free: whoever
\* has the lock has a reference too, and iput() has the only one.
LEMMA OneFree ==
  ASSUME CInv, NEW p \in Procs, th[p].pc = "iput", th[p].put \in Inums, itab[th[p].put].ref = 1
  PROVE  ilk[th[p].put] = Nobody
<1>1. PICK i : i = th[p].put /\ i \in Inums
  OBVIOUS
<1>2. SUFFICES ASSUME ilk[i] # Nobody PROVE FALSE
  BY <1>1
<1>3. PICK q \in Procs : HasLock(th[q], i)
  BY <1>1, <1>2 DEF CInv, FInv, TypeInv, LockTypes, LockInv
<1>4. /\ <<p, "put">> \in Places /\ Ptr[<<p, "put">>] = i
  BY <1>1, PtrAt DEF Places, Vars, PtrShape
<1>5. /\ <<q, "put">> \in Places /\ <<q, "dp">> \in Places /\ <<q, "ip">> \in Places
      /\ Ptr[<<q, "put">>] = th[q].put /\ Ptr[<<q, "dp">>] = th[q].dp
      /\ Ptr[<<q, "ip">>] = Held(th[q], "ip")
  BY PtrAt DEF Places, Vars, PtrShape
<1>6. \/ q # p /\ th[q].put = i
      \/ th[q].dp = i
      \/ Held(th[q], "ip") = i
  BY <1>3 DEF HasLock, Freeing, Held, LockedIp, Point, Putting
<1>7. PICK l \in Places : l # <<p, "put">> /\ Ptr[l] = i
  BY <1>5, <1>6
<1>8. itab[i].ref # 1
  BY <1>1, <1>4, <1>7, TwoRefs DEF CInv
<1>. QED  BY <1>1, <1>8

LEMMA LastFree ==
  ASSUME CInv, NEW p \in Procs, th[p].pc = "iput", th[p].put \in Inums, LastUse(th[p].put)
  PROVE  ilk[th[p].put] = Nobody
BY OneFree DEF LastUse

\* What a process sees of an inode that it has locked.
LEMMA LockedTyped ==
  ASSUME CInv, ~panicked, NEW p \in Procs, NEW i \in Inums, HasLock(th[p], i), th[p].pc # "invalid"
  PROVE  /\ ilk[i] = p /\ itab[i].valid /\ itab[i].ref > 0
         /\ itab[i].d = dinode[i] /\ itab[i].d.type # "free" /\ Loaded(i) = itab[i].d
<1>1. ilk[i] = p /\ itab[i].valid /\ itab[i].ref > 0
  BY FilesAssumption, LockedRef DEF CInv, LockInv, ValidInv
<1>. QED  BY <1>1, LoadedTyped

\* The steps of iput().
LEMMA ReturnCache ==
  ASSUME CInv, ~panicked, FInv', NEW p \in Procs, th[p].pc \in {"iput", "drop"}, Return(p),
         itab' = [itab EXCEPT ![th[p].put].ref = @ - 1], UNCHANGED <<disk, ilk>>
  PROVE  CInv'
<1>1. /\ th \in [Procs -> Thread] /\ th[p] \in Thread /\ ThreadOk(th[p])
      /\ itab \in [Inums -> Entry] /\ LockInv /\ NoIno \notin Inums
  BY FilesAssumption DEF CInv, FInv, TypeInv, ControlInv
<1>2. PICK k : k = th[p].put /\ k \in Inums
  BY <1>1 DEF ThreadOk, Putting
<1>3. TabStep
  BY <1>1, <1>2, TabRef DEF disk
<1>4. PICK t : t = IF th[p].ret = "user" THEN Idle
                   ELSE [th[p] EXCEPT !.pc = th[p].ret, !.put = NoIno, !.ret = "user"]
  OBVIOUS
<1>5. th' = [th EXCEPT ![p] = t]
  BY <1>1, <1>4 DEF Return
<1>6. Others(p) /\ th'[p] = t /\ Point(th[p]) = th[p].ret /\ th[p].pc \notin Freeing
  BY <1>1, <1>5 DEF Others, Point, Putting, Freeing
<1>7. /\ t.pc = th[p].ret /\ t.pc \in Points
      /\ th[p].ret # "user" => t.ip = th[p].ip /\ t.dp = th[p].dp
  BY <1>1, <1>4 DEF Thread, Idle, Returns
<1>8. Point(t) = th[p].ret /\ t.pc \notin Freeing
  BY <1>7, CallLocks
<1>9. \A i \in Inums : HasLock(t, i) <=> HasLock(th[p], i)
  <2>1. CASE th[p].ret = "user"
    BY <1>6, <1>8, <2>1 DEF HasLock, LockedDp, LockedIp
  <2>2. CASE th[p].ret # "user"
    BY <1>6, <1>7, <1>8, <2>2 DEF HasLock
  <2>. QED  BY <2>1, <2>2
<1>10. LocksApart(t)
  <2>1. CASE th[p].ret = "user"
    BY <1>8, <2>1 DEF LocksApart, LockedDp, LockedIp
  <2>2. CASE th[p].ret # "user"
    <3>1. LocksApart(th[p])
      BY DEF CInv, ApartInv
    <3>. QED  BY <1>6, <1>7, <1>8, <2>2, <3>1 DEF LocksApart
  <2>. QED  BY <2>1, <2>2
<1>11. LockStep(p)
  BY <1>1, <1>6, <1>9, <1>10, LockSame
<1>. QED  BY <1>3, <1>6, <1>11, CacheStep

LEMMA IputCache ==
  ASSUME CInv, ~panicked, FInv', NEW p \in Procs,
         IputLast(p) \/ Iput(p) \/ IputTrunc(p) \/ IputFree(p) \/ IputInvalid(p) \/ IputDrop(p)
  PROVE  CInv'
<1>1. /\ th \in [Procs -> Thread] /\ th[p] \in Thread /\ ThreadOk(th[p])
      /\ itab \in [Inums -> Entry] /\ dinode \in [Inums -> Inode] /\ LockInv /\ LockTypes
      /\ LocksApart(th[p])
  BY DEF CInv, ApartInv, FInv, TypeInv, ControlInv, DiskTypes
<1>2. PICK i : i = th[p].put /\ i \in Inums
  BY <1>1 DEF IputLast, Iput, IputTrunc, IputFree, IputInvalid, IputDrop, ThreadOk, Putting
<1>3. ASSUME NEW c \in Putting, th[p].pc \in Putting, th' = [th EXCEPT ![p].pc = c]
      PROVE  /\ Others(p) /\ th'[p].pc = c /\ th'[p].put = i /\ Point(th'[p]) = Point(th[p])
             /\ th'[p].dp = th[p].dp /\ th'[p].ip = th[p].ip
  BY <1>1, <1>2, <1>3 DEF Others, Thread, Point
<1>4. CASE IputLast(p)
  <2>1. /\ th[p].pc = "iput" /\ LastUse(i) /\ dinode' = dinode /\ itab' = itab
        /\ ilk' = [ilk EXCEPT ![i] = p] /\ th' = [th EXCEPT ![p].pc = "itrunc"]
    BY <1>2, <1>4 DEF IputLast, disk
  <2>2. ilk[i] = Nobody
    BY <1>2, <2>1, LastFree
  <2>3. /\ Others(p) /\ th'[p].pc = "itrunc" /\ th'[p].put = i /\ Point(th'[p]) = Point(th[p])
        /\ th'[p].dp = th[p].dp /\ th'[p].ip = th[p].ip
    BY <1>3, <2>1 DEF Putting
  <2>4. ~HasLock(th[p], i)
    BY <1>1, <1>2, <2>2, FilesAssumption DEF LockInv
  <2>5. \A j \in Inums : HasLock(th'[p], j) <=> HasLock(th[p], j) \/ j = i
    BY <2>1, <2>3 DEF HasLock, Freeing
  <2>6. LocksApart(th'[p])
    BY <1>1, <2>1, <2>3, <2>4 DEF LocksApart, HasLock, Freeing
  <2>7. TabStep /\ itab'[i].valid
    BY <2>1, TabSame DEF LastUse
  <2>8. LockStep(p)
    BY <1>1, <1>2, <2>1, <2>2, <2>5, <2>6, <2>7, LockTake
  <2>. QED  BY <2>1, <2>3, <2>7, <2>8, CacheStep
<1>5. CASE Iput(p)
  BY <1>5, ReturnCache DEF Iput
<1>6. ASSUME NEW c \in {"ifree", "invalid"}, th[p].pc \in {"itrunc", "ifree"},
             th' = [th EXCEPT ![p].pc = c], ilk' = ilk
      PROVE  Others(p) /\ LockStep(p) /\ th'[p].pc = c /\ th'[p].put = i
  <2>1. /\ Others(p) /\ th'[p].pc = c /\ th'[p].put = i /\ Point(th'[p]) = Point(th[p])
        /\ th'[p].dp = th[p].dp /\ th'[p].ip = th[p].ip
    BY <1>3, <1>6 DEF Putting
  <2>2. LocksApart(th'[p]) /\ \A j \in Inums : HasLock(th'[p], j) <=> HasLock(th[p], j)
    BY <1>1, <1>2, <1>6, <2>1 DEF LocksApart, HasLock, Freeing
  <2>3. LockStep(p)
    BY <1>1, <1>6, <2>2, LockSame
  <2>. QED  BY <2>1, <2>3
<1>7. ASSUME th[p].pc \in {"itrunc", "ifree"}
      PROVE  itab[i].d.type # "free"
  <2>1. HasLock(th[p], i) /\ th[p].pc # "invalid"
    BY <1>2, <1>7 DEF HasLock, Freeing
  <2>. QED  BY <1>2, <2>1, LockedTyped
<1>8. CASE IputTrunc(p)
  <2>1. PICK d : d = [itab[i].d EXCEPT !.addrs = {}, !.size = 0]
    OBVIOUS
  <2>2. /\ th[p].pc = "itrunc" /\ Update(i, d) /\ ilk' = ilk /\ th' = [th EXCEPT ![p].pc = "ifree"]
    BY <1>2, <1>8, <2>1 DEF IputTrunc, itrunc
  <2>3. d.type # "free"
    <3>1. itab[i].d \in Inode
      BY <1>1, <1>2 DEF Entry
    <3>. QED  BY <1>7, <2>1, <2>2, <3>1 DEF Inode
  <2>4. TabStep
    BY <1>1, <1>2, <2>2, <2>3, TabUpdate
  <2>. QED  BY <1>6, <2>2, <2>4, CacheStep
<1>9. CASE IputFree(p)
  <2>1. PICK d : d = [itab[i].d EXCEPT !.type = "free"]
    OBVIOUS
  <2>2. PICK f : f = [itab[i] EXCEPT !.valid = TRUE, !.d = d]
    OBVIOUS
  <2>3. /\ th[p].pc = "ifree" /\ itab' = [itab EXCEPT ![i] = f] /\ dinode' = [dinode EXCEPT ![i] = d]
        /\ ilk' = ilk /\ th' = [th EXCEPT ![p].pc = "invalid"]
    BY <1>2, <1>9, <2>1, <2>2 DEF IputFree, Update
  <2>4. Others(p) /\ LockStep(p) /\ th'[p].pc = "invalid" /\ th'[p].put = i
    BY <1>6, <2>3
  <2>5. BeingFreed(i)'
    BY <2>4 DEF BeingFreed
  <2>6. f.valid = TRUE
    BY <1>1, <1>2, <2>2 DEF Entry
  <2>7. TabStep
    <3>1. ASSUME NEW j \in Inums
          PROVE  /\ Stays(itab[j], itab'[j])
                 /\ BeingFreed(j)' \/ (Kept(itab[j], itab'[j]) /\ dinode'[j] = dinode[j])
      <4>1. CASE j = i
        BY <1>1, <2>3, <2>5, <2>6, <4>1 DEF Stays
      <4>2. CASE j # i
        BY <1>1, <2>3, <4>2 DEF Stays, Kept
      <4>. QED  BY <4>1, <4>2
    <3>. QED  BY <3>1 DEF TabStep
  <2>. QED  BY <2>3, <2>4, <2>7, CacheStep
<1>10. CASE IputInvalid(p)
  <2>1. PICK f : f = [itab[i] EXCEPT !.valid = FALSE]
    OBVIOUS
  <2>2. /\ th[p].pc = "invalid" /\ itab' = [itab EXCEPT ![i] = f] /\ dinode' = dinode
        /\ ilk' = [ilk EXCEPT ![i] = Nobody] /\ th' = [th EXCEPT ![p].pc = "drop"]
    BY <1>2, <1>10, <2>1 DEF IputInvalid, disk
  <2>3. /\ Others(p) /\ th'[p].pc = "drop" /\ th'[p].put = i /\ Point(th'[p]) = Point(th[p])
        /\ th'[p].dp = th[p].dp /\ th'[p].ip = th[p].ip
    BY <1>3, <2>2 DEF Putting
  <2>4. f.valid = FALSE
    BY <1>1, <1>2, <2>1 DEF Entry
  <2>5. itab'[i].valid = FALSE /\ ilk'[i] = Nobody
    BY <1>1, <1>2, <2>2, <2>4 DEF LockTypes
  <2>6. TabStep
    <3>1. ASSUME NEW j \in Inums
          PROVE  /\ Stays(itab[j], itab'[j]) \/ ilk'[j] = Nobody
                 /\ Kept(itab[j], itab'[j]) /\ dinode'[j] = dinode[j]
      <4>1. CASE j = i
        BY <2>2, <2>5, <4>1 DEF Kept
      <4>2. CASE j # i
        BY <1>1, <2>2, <4>2 DEF Stays, Kept
      <4>. QED  BY <4>1, <4>2
    <3>. QED  BY <3>1 DEF TabStep
  <2>7. HasLock(th[p], i)
    BY <1>2, <2>2 DEF HasLock, Freeing
  <2>8. LocksApart(th'[p])
    BY <1>1, <2>2, <2>3 DEF LocksApart, Freeing
  <2>9. \A j \in Inums : HasLock(th'[p], j) <=> HasLock(th[p], j) /\ j # i
    BY <1>1, <1>2, <2>2, <2>3 DEF HasLock, Freeing, LocksApart
  <2>10. LockStep(p)
    BY <1>1, <1>2, <2>2, <2>7, <2>8, <2>9, LockDrop
  <2>. QED  BY <1>2, <2>3, <2>5, <2>6, <2>10, CacheStep
<1>11. CASE IputDrop(p)
  BY <1>11, ReturnCache DEF IputDrop
<1>. QED  BY <1>4, <1>5, <1>8, <1>9, <1>10, <1>11

\* The references of calls at the points where they have no lock.
LEMMA PointRefs ==
  ASSUME CInv, NEW p \in Procs, th[p].pc \in Points
  PROVE  /\ th[p].ip \in Inums <=> th[p].pc \in HaveIp
         /\ th[p].dp \in Inums <=> th[p].pc \in HaveDp
         /\ th[p].old \in Inums <=> \/ th[p].pc \in HaveOld
                                    \/ th[p].pc = "nameiparent" /\ th[p].call.op = "link"
         /\ th \in [Procs -> Thread] /\ th[p] \in Thread /\ itab \in [Inums -> Entry]
         /\ DiskTypes /\ NoIno \notin Inums
<1>1. /\ th \in [Procs -> Thread] /\ th[p] \in Thread /\ ThreadOk(th[p])
      /\ itab \in [Inums -> Entry] /\ DiskTypes /\ NoIno \notin Inums
  BY FilesAssumption DEF CInv, FInv, TypeInv, ControlInv
<1>2. Point(th[p]) = th[p].pc
  BY CallLocks
<1>. QED  BY <1>1, <1>2 DEF ThreadOk

LEMMA StartCache ==
  ASSUME CInv, ~panicked, FInv', NEW p \in Procs, StartCall(p)
  PROVE  CInv'
<1>1. /\ th \in [Procs -> Thread] /\ th[p] \in Thread /\ itab \in [Inums -> Entry]
      /\ cwd[p] \in Inums0 /\ ROOTINO \in Inums
  BY FilesAssumption DEF CInv, FInv, TypeInv, UserTypes
<1>2. PICK c \in Programs[prog][p] :
        /\ th[p].pc = "user" /\ cwd[p] # NoIno
        /\ th' = [th EXCEPT ![p].call = c, ![p].path = Elements(c.path), ![p].ip = From(p, c.path),
             ![p].pc = IF c.op \in {"mkdir", "mknod", "creat", "unlink"} THEN "nameiparent" ELSE "namei"]
        /\ itab' = iget(itab, From(p, c.path))
        /\ UNCHANGED <<disk, ilk, user>>
  BY DEF StartCall
<1>3. PICK i : i = From(p, c.path)
  OBVIOUS
<1>4. i \in Inums
  BY <1>1, <1>2, <1>3 DEF From, Inums0
<1>5. TabStep /\ ilk' = ilk
  BY <1>1, <1>2, <1>3, <1>4, TabIget DEF disk
<1>6. Others(p) /\ th'[p].pc \in {"namei", "nameiparent"}
  BY <1>1, <1>2 DEF Others, Thread
<1>7. /\ th[p].pc \in Points \ (LockedDp \cup LockedIp)
      /\ th'[p].pc \in Points \ (LockedDp \cup LockedIp)
  BY <1>2, <1>6 DEF Points, LockedDp, LockedIp
<1>8. NoLocks(th[p]) /\ NoLocks(th'[p])
  BY <1>7, CallLocks
<1>. QED  BY <1>5, <1>6, <1>8, FreeStep

LEMMA WalkCache ==
  ASSUME CInv, ~panicked, FInv', NEW p \in Procs,
         WalkFails(p) \/ WalkOn(p) \/ WalkToParent(p) \/ WalkNowhere(p)
  PROVE  CInv'
<1>1. th[p].pc \in {"namei", "nameiparent"}
  BY DEF WalkFails, WalkOn, WalkToParent, WalkNowhere, Walking, At
<1>2. th[p].pc \in Points \ (LockedDp \cup LockedIp)
  BY <1>1 DEF Points, LockedDp, LockedIp
<1>3. /\ th[p].ip \in Inums /\ th \in [Procs -> Thread] /\ th[p] \in Thread
      /\ itab \in [Inums -> Entry] /\ DiskTypes /\ NoIno \notin Inums
  BY <1>1, <1>2, PointRefs DEF HaveIp
<1>4. NoLocks(th[p])
  BY <1>2, CallLocks
<1>5. NotFound(p) \in {"linkbad", "user"}
  BY DEF NotFound
<1>6. CASE WalkFails(p)
  <2>1. PICK r : r = NotFound(p)
    OBVIOUS
  <2>2. Reject(p, "ip", r) /\ r \notin LockedDp \cup LockedIp
    BY <1>5, <1>6, <2>1 DEF WalkFails, LockedDp, LockedIp
  <2>3. th[p]["ip"] \in Inums /\ "ip" \in {"ip", "dp", "old"}
    BY <1>3
  <2>. QED  BY <1>2, <2>2, <2>3, RejectCache
<1>7. CASE WalkOn(p)
  <2>1. PICK i, e : i = NextIno(p) /\ e = Tail(th[p].path)
    OBVIOUS
  <2>2. /\ th[p].path # <<>> /\ i # NoIno /\ LookupIget(th[p].ip, i) /\ dinode' = dinode /\ ilk' = ilk
        /\ th' = [th EXCEPT ![p].pc = "iput", ![p].put = th[p].ip, ![p].ret = th[p].pc,
                            ![p].ip = i, ![p].path = e]
    BY <1>7, <2>1 DEF WalkOn, Walking, disk
  <2>3. i \in Inums
    <3>1. th[p].path \in Seq(Elems)
      BY <1>3 DEF Thread
    <3>2. Head(th[p].path) \in Elems
      BY <2>2, <3>1
    <3>. QED  BY <1>3, <2>1, <2>2, <3>2, LookupType DEF NextIno, Inums0
  <2>4. TabStep
    BY <1>3, <2>2, <2>3, TabLookup
  <2>5. Others(p) /\ th'[p].pc = "iput" /\ th'[p].ret = th[p].pc
    BY <1>3, <2>2 DEF Others, Thread
  <2>6. NoLocks(th'[p])
    BY <1>2, <2>5 DEF NoLocks, Point, Putting, Freeing
  <2>. QED  BY <1>4, <2>2, <2>4, <2>5, <2>6, FreeStep
<1>8. CASE WalkToParent(p)
  <2>1. PICK n, c : /\ n = Head(th[p].path)
                    /\ c = IF th[p].call.op \in {"mkdir", "mknod", "creat"} THEN "create" ELSE th[p].call.op
    OBVIOUS
  <2>2. /\ th[p].pc = "nameiparent" /\ itab' = ilock(th[p].ip) /\ panicked' = NoType(th[p].ip)
        /\ th' = [th EXCEPT ![p].pc = c, ![p].dp = th[p].ip, ![p].ip = NoIno, ![p].name = n,
                            ![p].path = <<>>]
        /\ dinode' = dinode /\ ilk' = ilk
    BY <1>3, <1>8, <2>1 DEF WalkToParent, Walking, AtLast, disk
  <2>3. Point(th[p]) = "nameiparent" /\ ThreadOk(th[p])
    BY <1>2, <2>2, CallLocks DEF CInv, FInv, ControlInv
  <2>4. c \in {"create", "unlink", "link"}
    BY <2>1, <2>3 DEF ThreadOk
  <2>5. PICK k : k = th[p].ip /\ k \in Inums
    BY <1>3
  <2>6. TabStep
    BY <1>3, <2>2, <2>5, TabIlock
  <2>7. Others(p) /\ th'[p].pc = c
    BY <1>3, <2>2 DEF Others, Thread
  <2>8. NoLocks(th'[p])
    BY <2>4, <2>7, CallLocks DEF Points, LockedDp, LockedIp
  <2>. QED  BY <1>4, <2>2, <2>6, <2>7, <2>8, FreeStep
<1>9. CASE WalkNowhere(p)
  <2>1. PICK r : r = NotFound(p)
    OBVIOUS
  <2>2. IputThen(p, "ip", r) /\ itab' = itab /\ dinode' = dinode /\ ilk' = ilk
    BY <1>9, <2>1 DEF WalkNowhere, disk
  <2>3. r \notin LockedDp \cup LockedIp /\ "ip" \in {"ip", "dp", "old"}
    BY <1>5, <2>1 DEF LockedDp, LockedIp
  <2>4. TabStep
    BY <2>2, TabSame
  <2>. QED  BY <1>2, <2>2, <2>3, <2>4, PutKeeps
<1>. QED  BY <1>6, <1>7, <1>8, <1>9

\* A step to another point with the same locks.
LEMMA JumpCache ==
  ASSUME CInv, ~panicked, FInv', NEW p \in Procs, NEW c \in Points,
         th' = [th EXCEPT ![p].pc = c], ilk' = ilk, TabStep, th[p].pc \in Points,
         c \in LockedDp <=> th[p].pc \in LockedDp,
         c \in LockedIp <=> th[p].pc \in LockedIp
  PROVE  CInv'
<1>1. /\ th \in [Procs -> Thread] /\ th[p] \in Thread /\ LockInv /\ LocksApart(th[p])
      /\ th[p].pc # "invalid"
  BY DEF CInv, ApartInv, FInv, TypeInv, Points
<1>2. PICK t : t = [th[p] EXCEPT !.pc = c]
  OBVIOUS
<1>3. /\ Others(p) /\ th'[p] = t /\ t.pc = c /\ t.ip = th[p].ip /\ t.dp = th[p].dp
  BY <1>1, <1>2 DEF Others, Thread
<1>4. /\ Point(t) = c /\ Point(th[p]) = th[p].pc /\ c \notin Freeing /\ th[p].pc \notin Freeing
  BY <1>3, CallLocks
<1>5. \A i \in Inums : HasLock(t, i) <=> HasLock(th[p], i)
  BY <1>3, <1>4 DEF HasLock
<1>6. LocksApart(t)
  BY <1>1, <1>3, <1>4 DEF LocksApart
<1>7. LockStep(p)
  BY <1>1, <1>3, <1>5, <1>6, LockSame
<1>. QED  BY <1>1, <1>3, <1>7, CacheStep

LEMMA DirlinkCache ==
  ASSUME DiskTypes, itab \in [Inums -> Entry],
         NEW d \in Inums, NEW n \in Elems, NEW i \in Inums, NEW k \in Int,
         dirlink(d, n, i, k), Loaded(d).type # "free" \/ panicked'
  PROVE  TabStep /\ itab'[d].valid
<1>1. PICK e : /\ Update(d, e) /\ e.type = Loaded(d).type
  <2>1. PICK new, a, s : /\ new = (IF NeedsBlock(d) THEN {balloc} ELSE {})
                         /\ a = Loaded(d).addrs \cup new
                         /\ s = IF SlotsUsed(d) = Loaded(d).size THEN Loaded(d).size + 1 ELSE Loaded(d).size
    OBVIOUS
  <2>2. PICK e : e = [Loaded(d) EXCEPT !.addrs = a, !.nlink = Loaded(d).nlink + k, !.size = s]
    OBVIOUS
  <2>3. Loaded(d) \in Inode
    BY IlockTab
  <2>4. Update(d, e)
    BY <2>1, <2>2, <2>3 DEF dirlink
  <2>5. e.type = Loaded(d).type
    BY <2>2, <2>3 DEF Inode
  <2>. QED  BY <2>4, <2>5
<1>. QED  BY <1>1, TabUpdate DEF DiskTypes

LEMMA CreateFindCache ==
  ASSUME CInv, ~panicked, FInv', NEW p \in Procs,
         CreateExists(p) \/ CreateFound(p) \/ CreateNew(p)
  PROVE  CInv'
<1>1. CASE CreateExists(p)
  <2>1. PICK i : i = Lookup(th[p].dp, th[p].name)
    OBVIOUS
  <2>2. /\ th[p].pc = "create" /\ i # NoIno /\ LookupIget(th[p].dp, i)
        /\ th' = [th EXCEPT ![p].pc = "iput", ![p].put = th[p].dp, ![p].dp = NoIno, ![p].ip = i,
                            ![p].ret = "createfound"]
        /\ dinode' = dinode /\ ilk' = ilk
    BY <1>1, <2>1 DEF CreateExists, At, disk
  <2>3. th[p].pc \in Points \ (LockedDp \cup LockedIp) /\ th[p].pc \in HaveDp
    BY <2>2 DEF Points, LockedDp, LockedIp, HaveDp
  <2>4. /\ th[p].dp \in Inums /\ th \in [Procs -> Thread] /\ th[p] \in Thread
        /\ itab \in [Inums -> Entry] /\ DiskTypes
    BY <2>3, PointRefs
  <2>5. i \in Inums
    BY <2>1, <2>2, <2>4, LookupType DEF Thread, Inums0
  <2>6. TabStep
    BY <2>2, <2>4, <2>5, TabLookup
  <2>7. Others(p) /\ th'[p].pc = "iput" /\ th'[p].ret = "createfound"
    BY <2>2, <2>4 DEF Others, Thread
  <2>8. NoLocks(th[p])
    BY <2>3, CallLocks
  <2>9. NoLocks(th'[p])
    BY <2>7 DEF NoLocks, Point, Putting, Freeing, LockedDp, LockedIp
  <2>. QED  BY <2>2, <2>6, <2>7, <2>8, <2>9, FreeStep
<1>2. CASE CreateFound(p)
  <2>1. th[p].pc = "createfound" /\ (Hold(p, "ip", "opened") \/ Reject(p, "ip", "user"))
    BY <1>2 DEF CreateFound, At
  <2>2. ilk[th[p].ip] = Nobody
    BY <1>2 DEF CreateFound, At, WaitsFor
  <2>3. /\ th[p].pc \in Points \ (LockedDp \cup LockedIp) /\ th[p].pc \in HaveIp /\ "opened" \in Points
        /\ "opened" \in LockedIp \ LockedDp /\ "user" \notin LockedDp \cup LockedIp
    BY <2>1 DEF Points, LockedDp, LockedIp, HaveIp
  <2>4. th[p]["ip"] \in Inums /\ ilk[th[p]["ip"]] = Nobody
    BY <2>2, <2>3, PointRefs
  <2>5. "ip" \in {"ip", "dp"} /\ "ip" \in {"ip", "dp", "old"}
    OBVIOUS
  <2>6. CASE Hold(p, "ip", "opened")
    BY <2>3, <2>4, <2>5, <2>6, HoldCache
  <2>7. CASE Reject(p, "ip", "user")
    BY <2>3, <2>4, <2>5, <2>7, RejectCache
  <2>. QED  BY <2>1, <2>6, <2>7
<1>3. CASE CreateNew(p)
  <2>1. th[p].pc = "create" /\ Hold(p, "dp", "ialloc")
    BY <1>3 DEF CreateNew, At
  <2>2. ilk[th[p].dp] = Nobody
    BY <1>3 DEF CreateNew, At, WaitsFor
  <2>3. /\ th[p].pc \in Points \ (LockedDp \cup LockedIp) /\ th[p].pc \in HaveDp
        /\ "ialloc" \in Points /\ "ialloc" \in LockedDp \ LockedIp
    BY <2>1 DEF Points, LockedDp, LockedIp, HaveDp
  <2>4. th[p]["dp"] \in Inums /\ ilk[th[p]["dp"]] = Nobody /\ "dp" \in {"ip", "dp"}
    BY <2>2, <2>3, PointRefs
  <2>. QED  BY <2>1, <2>3, <2>4, HoldCache
<1>. QED  BY <1>1, <1>2, <1>3

\* The inode that ialloc() takes has no valid copy, unless iput() is about to say so.
LEMMA IallocCache ==
  ASSUME CInv, ~panicked, FInv', NEW p \in Procs, Ialloc(p)
  PROVE  CInv'
<1>1. PICK k \in Inums :
        /\ th[p].pc = "ialloc" /\ dinode[k].type = "free"
        /\ dinode' = [dinode EXCEPT ![k] = [NoInode EXCEPT !.type = NewType(p)]]
        /\ th' = [th EXCEPT ![p].pc = "iget", ![p].ip = k]
        /\ itab' = itab /\ ilk' = ilk
  BY DEF Ialloc
<1>2. /\ th \in [Procs -> Thread] /\ th[p] \in Thread /\ LockInv
  BY DEF CInv, FInv, TypeInv
<1>3. Others(p) /\ th'[p].pc = "iget" /\ th'[p].dp = th[p].dp
  BY <1>1, <1>2 DEF Others, Thread
<1>4. /\ th[p].pc \in Points /\ th'[p].pc \in Points
      /\ th[p].pc \in LockedDp \ LockedIp /\ th'[p].pc \in LockedDp \ LockedIp
  BY <1>1, <1>3 DEF Points, LockedDp, LockedIp
<1>5. \A i \in Inums : HasLock(th'[p], i) <=> th'[p].dp = i
  BY <1>4, CallLocks
<1>6. \A i \in Inums : HasLock(th[p], i) <=> th[p].dp = i
  BY <1>4, CallLocks
<1>7. LocksApart(th'[p])
  BY <1>4, CallLocks
<1>8. LockStep(p)
  BY <1>1, <1>2, <1>3, <1>5, <1>6, <1>7, LockSame
<1>9. ASSUME NEW i \in Inums
      PROVE  /\ Stays(itab[i], itab'[i])
             /\ \/ Fresh(i)' \/ BeingFreed(i)'
                \/ Kept(itab[i], itab'[i]) /\ dinode'[i] = dinode[i]
  <2>1. Stays(itab[i], itab'[i]) /\ Kept(itab[i], itab'[i])
    BY <1>1 DEF Stays, Kept
  <2>2. CASE i # k
    BY <1>1, <2>1, <2>2
  <2>3. CASE i = k /\ BeingFreed(i)
    <3>1. PICK q \in Procs : th[q].pc = "invalid" /\ th[q].put = i
      BY <2>3 DEF BeingFreed
    <3>2. th'[q] = th[q]
      BY <1>1, <1>3, <3>1 DEF Others
    <3>. QED  BY <2>1, <3>1, <3>2 DEF BeingFreed
  <2>4. CASE i = k /\ ~BeingFreed(i)
    <3>1. Fresh(i)
      BY <2>4 DEF CInv, CacheInv
    <3>2. ~(itab[i].ref > 0 /\ itab[i].valid)
      BY <1>1, <2>4, <3>1 DEF Fresh
    <3>. QED  BY <1>1, <2>1, <3>2 DEF Fresh
  <2>. QED  BY <2>2, <2>3, <2>4
<1>10. TabStep
  BY <1>9 DEF TabStep
<1>. QED  BY <1>1, <1>3, <1>8, <1>10, CacheStep

LEMMA CreateMakeCache ==
  ASSUME CInv, ~panicked, FInv', NEW p \in Procs,
         IallocFails(p) \/ IallocIget(p) \/ CreateInit(p)
  PROVE  CInv'
<1>1. CASE IallocFails(p)
  <2>1. th[p].pc = "ialloc" /\ iunlockput(p, "dp", "user")
    BY <1>1 DEF IallocFails
  <2>2. /\ th[p].pc \in Points /\ th[p].pc \in HaveDp /\ th[p].pc \in LockedDp \ LockedIp
        /\ "user" \notin LockedDp \cup LockedIp
    BY <2>1 DEF Points, LockedDp, LockedIp, HaveDp
  <2>3. th[p]["dp"] \in Inums /\ "dp" \in {"ip", "dp"}
    BY <2>2, PointRefs
  <2>. QED  BY <2>1, <2>2, <2>3, UnlockPutCache
<1>2. CASE IallocIget(p)
  <2>1. /\ th[p].pc = "iget" /\ itab' = iget(itab, th[p].ip) /\ dinode' = dinode /\ ilk' = ilk
        /\ th' = [th EXCEPT ![p].pc = "createinit"]
    BY <1>2 DEF IallocIget, disk
  <2>2. /\ th[p].pc \in Points /\ th[p].pc \in HaveIp /\ "createinit" \in Points
        /\ th[p].pc \in LockedDp \ LockedIp /\ "createinit" \in LockedDp \ LockedIp
    BY <2>1 DEF Points, LockedDp, LockedIp, HaveIp
  <2>3. PICK k : k = th[p].ip /\ k \in Inums
    BY <2>2, PointRefs
  <2>4. TabStep
    BY <2>1, <2>3, TabIget DEF CInv, FInv, TypeInv
  <2>. QED  BY <2>1, <2>2, <2>4, JumpCache
<1>3. CASE CreateInit(p)
  <2>1. PICK i, c : i = th[p].ip /\ c \in {"createfail", "dirlink"}
                    /\ c = IF NewType(p) = "dir" /\ Unused = {} THEN "createfail" ELSE "dirlink"
    OBVIOUS
  <2>2. PICK d : /\ Update(i, d) /\ (Loaded(i) \in Inode => d.type = Loaded(i).type)
    <3>1. PICK new : new = IF NewType(p) = "dir" /\ ~(NewType(p) = "dir" /\ Unused = {}) THEN {balloc} ELSE {}
      OBVIOUS
    <3>2. PICK a, s : a = Loaded(i).addrs \cup new /\ s = IF new = {} THEN Loaded(i).size ELSE 2
      OBVIOUS
    <3>3. PICK d : d = [Loaded(i) EXCEPT !.nlink = 1, !.addrs = a, !.size = s]
      OBVIOUS
    <3>4. Loaded(i) \in Inode => d.type = Loaded(i).type
      BY <3>3 DEF Inode
    <3>5. Update(i, [Loaded(i) EXCEPT !.nlink = 1, !.addrs = @ \cup new,
                                      !.size = IF new = {} THEN @ ELSE 2])
      BY <1>3, <2>1, <3>1 DEF CreateInit
    <3>6. th[p].pc = "createinit"
      BY <1>3 DEF CreateInit, At
    <3>7. th[p].pc \in Points /\ th[p].pc \in HaveIp
      BY <3>6 DEF Points, HaveIp
    <3>8. i \in Inums /\ DiskTypes /\ itab \in [Inums -> Entry]
      BY <2>1, <3>7, PointRefs
    <3>9. Loaded(i) \in Inode
      BY <3>8, IlockTab
    <3>10. Update(i, d)
      BY <3>2, <3>3, <3>5, <3>9
    <3>. QED  BY <3>4, <3>10
  <2>3. /\ th[p].pc = "createinit" /\ ilk[i] = Nobody /\ ilk' = [ilk EXCEPT ![i] = p]
        /\ panicked' = NoType(i) /\ th' = [th EXCEPT ![p].pc = c]
    BY <1>3, <2>1 DEF CreateInit, At, WaitsFor
  <2>4. /\ th[p].pc \in Points /\ th[p].pc \in HaveIp /\ th[p].pc \in HaveDp
        /\ th[p].pc \in LockedDp \ LockedIp /\ c \in LockedDp \cap LockedIp /\ c \in Points
    BY <2>1, <2>3 DEF Points, LockedDp, LockedIp, HaveIp, HaveDp
  <2>5. /\ i \in Inums /\ DiskTypes /\ itab \in [Inums -> Entry] /\ th \in [Procs -> Thread]
        /\ th[p] \in Thread /\ th[p].dp \in Inums
    BY <2>1, <2>4, PointRefs
  <2>6. LockTypes /\ LockInv /\ FInv
    BY DEF CInv, FInv, TypeInv
  <2>7. itab[i].ref > 0
    <3>1. Refers(th[p], i)
      BY <2>1, <2>3 DEF Refers, Held
    <3>. QED  BY <2>5, <2>6, <3>1, HeldRef
  <2>8. d.type # "free" \/ panicked'
    <3>1. Loaded(i).type # "free" \/ NoType(i)
      BY <2>3, <2>5, <2>7, LoadedTyped
    <3>2. Loaded(i) \in Inode
      BY <2>5, IlockTab
    <3>. QED  BY <2>2, <2>3, <3>1, <3>2
  <2>9. TabStep /\ itab'[i].valid
    BY <2>2, <2>5, <2>8, TabUpdate DEF DiskTypes
  <2>10. PICK t : t = [th[p] EXCEPT !.pc = c]
    OBVIOUS
  <2>11. Others(p) /\ th'[p] = t /\ t.pc = c /\ t.ip = i /\ t.dp = th[p].dp
    BY <2>1, <2>3, <2>5, <2>10 DEF Others, Thread
  <2>12. \A j \in Inums : HasLock(th[p], j) <=> th[p].dp = j
    BY <2>4, CallLocks
  <2>13. Point(t) = c /\ c \notin Freeing
    BY <2>4, <2>11, CallLocks
  <2>14. \A j \in Inums : HasLock(t, j) <=> HasLock(th[p], j) \/ j = i
    BY <2>4, <2>11, <2>12, <2>13 DEF HasLock
  <2>15. th[p].dp # i
    <3>1. ilk[th[p].dp] = p
      BY <2>5, <2>6, <2>12 DEF LockInv
    <3>. QED  BY <2>3, <3>1, FilesAssumption
  <2>16. LocksApart(t)
    BY <2>11, <2>13, <2>15 DEF LocksApart
  <2>17. LockStep(p)
    BY <2>3, <2>5, <2>6, <2>9, <2>11, <2>14, <2>16, LockTake
  <2>. QED  BY <2>3, <2>9, <2>11, <2>17, CacheStep
<1>. QED  BY <1>1, <1>2, <1>3

LEMMA CreateEndCache ==
  ASSUME CInv, ~panicked, FInv', NEW p \in Procs,
         CreateLink(p) \/ CreateLinkFails(p) \/ CreateFail(p) \/ DropParent(p) \/ Made(p)
  PROVE  CInv'
<1>1. /\ {"opened", "made"} \subseteq LockedIp \ LockedDp /\ "user" \notin LockedDp \cup LockedIp
      /\ "dropparent" \in LockedDp \ LockedIp /\ {"dirlink", "createfail"} \subseteq LockedDp \cap LockedIp
      /\ {"opened", "made", "user", "dropparent", "dirlink", "createfail"} \subseteq Points
      /\ {"dirlink", "createfail", "dropparent"} \subseteq HaveDp
      /\ {"dirlink", "createfail", "made"} \subseteq HaveIp
      /\ {"ip", "dp"} \subseteq {"ip", "dp"}
  BY DEF LockedIp, LockedDp, Points, HaveIp, HaveDp
<1>2. CASE CreateLink(p)
  <2>1. PICK r, m : /\ r = (IF NewType(p) = "file" THEN "opened" ELSE "made")
                    /\ m = ParentLink(NewType(p))
    OBVIOUS
  <2>2. /\ th[p].pc = "dirlink" /\ dirlink(th[p].dp, th[p].name, th[p].ip, m)
        /\ ilk' = [ilk EXCEPT ![th[p].dp] = Nobody] /\ IputThen(p, "dp", r)
    BY <1>2, <2>1 DEF CreateLink
  <2>3. r \in {"opened", "made"} /\ m \in Int
    BY <2>1 DEF ParentLink
  <2>4. /\ th[p].dp \in Inums /\ th[p].ip \in Inums /\ th[p] \in Thread /\ itab \in [Inums -> Entry]
        /\ DiskTypes
    BY <1>1, <2>2, PointRefs
  <2>5. PICK d, i, n : d = th[p].dp /\ i = th[p].ip /\ n = th[p].name
    OBVIOUS
  <2>6. Loaded(d).type # "free"
    <3>1. HasLock(th[p], d) /\ th[p].pc # "invalid"
      BY <1>1, <2>2, <2>5, CallLocks
    <3>. QED  BY <2>4, <2>5, <3>1, LockedTyped
  <2>7. TabStep
    <3>1. n \in Elems /\ d \in Inums /\ i \in Inums /\ dirlink(d, n, i, m)
      BY <2>2, <2>4, <2>5 DEF Thread
    <3>. QED  BY <2>3, <2>4, <2>6, <3>1, DirlinkCache
  <2>8. th[p]["dp"] \in Inums /\ ilk' = [ilk EXCEPT ![th[p]["dp"]] = Nobody]
    BY <2>2, <2>4
  <2>. QED  BY <1>1, <2>2, <2>3, <2>7, <2>8, PutUnlocks
<1>3. CASE CreateLinkFails(p)
  <2>1. th[p].pc = "dirlink" /\ th' = [th EXCEPT ![p].pc = "createfail"] /\ ilk' = ilk
    BY <1>3 DEF CreateLinkFails
  <2>2. TabStep
    BY <1>3, TabSame DEF CreateLinkFails, disk
  <2>. QED  BY <1>1, <2>1, <2>2, JumpCache
<1>4. CASE CreateFail(p)
  <2>1. PICK i, d : i = th[p].ip /\ d = [Loaded(i) EXCEPT !.nlink = 0]
    OBVIOUS
  <2>2. /\ th[p].pc = "createfail" /\ Update(i, d) /\ ilk' = [ilk EXCEPT ![th[p]["ip"]] = Nobody]
        /\ IputThen(p, "ip", "dropparent")
    BY <1>4, <2>1 DEF CreateFail
  <2>3. i \in Inums /\ th[p]["ip"] \in Inums /\ itab \in [Inums -> Entry] /\ DiskTypes
    BY <1>1, <2>1, <2>2, PointRefs
  <2>4. HasLock(th[p], i) /\ th[p].pc # "invalid"
    BY <1>1, <2>1, <2>2, CallLocks
  <2>5. d.type # "free"
    <3>1. Loaded(i).type # "free"
      BY <2>3, <2>4, LockedTyped
    <3>2. Loaded(i) \in Inode
      BY <2>3, IlockTab
    <3>. QED  BY <2>1, <3>1, <3>2 DEF Inode
  <2>6. TabStep
    BY <2>2, <2>3, <2>5, TabUpdate DEF DiskTypes
  <2>. QED  BY <1>1, <2>2, <2>3, <2>6, PutUnlocks
<1>5. CASE DropParent(p)
  <2>1. th[p].pc = "dropparent" /\ iunlockput(p, "dp", "user")
    BY <1>5 DEF DropParent
  <2>2. th[p]["dp"] \in Inums
    BY <1>1, <2>1, PointRefs
  <2>. QED  BY <1>1, <2>1, <2>2, UnlockPutCache
<1>6. CASE Made(p)
  <2>1. th[p].pc = "made" /\ iunlockput(p, "ip", "user")
    BY <1>6 DEF Made
  <2>2. th[p]["ip"] \in Inums
    BY <1>1, <2>1, PointRefs
  <2>. QED  BY <1>1, <2>1, <2>2, UnlockPutCache
<1>. QED  BY <1>2, <1>3, <1>4, <1>5, <1>6

LEMMA OpenCache ==
  ASSUME CInv, ~panicked, FInv', NEW p \in Procs,
         OpenLock(p) \/ Opened(p) \/ OpenFails(p) \/ Chdir(p)
  PROVE  CInv'
<1>1. /\ "opened" \in LockedIp \ LockedDp /\ "user" \notin LockedDp \cup LockedIp
      /\ "namei" \notin LockedDp \cup LockedIp
      /\ {"opened", "user", "namei"} \subseteq Points /\ {"namei", "opened"} \subseteq HaveIp
  BY DEF LockedIp, LockedDp, Points, HaveIp
<1>2. CASE OpenLock(p)
  <2>1. /\ th[p].pc = "namei" /\ th[p].path = <<>>
        /\ Hold(p, "ip", "opened") \/ Reject(p, "ip", "user")
    BY <1>2 DEF OpenLock, Found, At
  <2>2. ilk[th[p].ip] = Nobody
    BY <1>2, <2>1 DEF OpenLock, Found, At, WaitsFor
  <2>3. th[p]["ip"] \in Inums /\ ilk[th[p]["ip"]] = Nobody
    BY <1>1, <2>1, <2>2, PointRefs
  <2>4. "ip" \in {"ip", "dp"} /\ "ip" \in {"ip", "dp", "old"}
    OBVIOUS
  <2>5. CASE Hold(p, "ip", "opened")
    BY <1>1, <2>1, <2>3, <2>4, <2>5, HoldCache
  <2>6. CASE Reject(p, "ip", "user")
    BY <1>1, <2>1, <2>3, <2>4, <2>6, RejectCache
  <2>. QED  BY <2>1, <2>5, <2>6
<1>3. CASE Opened(p)
  <2>1. PICK i, d : i = th[p].ip /\ d = [itab[i].d EXCEPT !.addrs = {}, !.size = 0]
    OBVIOUS
  <2>2. /\ th[p].pc = "opened" /\ ilk' = [ilk EXCEPT ![i] = Nobody] /\ th' = [th EXCEPT ![p] = Idle]
        /\ Update(i, d) \/ (dinode' = dinode /\ itab' = itab)
    BY <1>3, <2>1 DEF Opened, itrunc, disk
  <2>3. i \in Inums /\ itab \in [Inums -> Entry] /\ DiskTypes /\ th \in [Procs -> Thread]
    BY <1>1, <2>1, <2>2, PointRefs
  <2>4. \A j \in Inums : HasLock(th[p], j) <=> j = i
    BY <1>1, <2>1, <2>2, CallLocks
  <2>5. HasLock(th[p], i) /\ th[p].pc # "invalid"
    BY <2>2, <2>3, <2>4
  <2>6. d.type # "free"
    <3>1. itab[i].d.type # "free"
      BY <2>3, <2>5, LockedTyped
    <3>2. itab[i].d \in Inode
      BY <2>3 DEF Entry
    <3>. QED  BY <2>1, <3>1, <3>2 DEF Inode
  <2>7. TabStep
    <3>1. CASE Update(i, d)
      BY <2>3, <2>6, <3>1, TabUpdate DEF DiskTypes
    <3>2. CASE dinode' = dinode /\ itab' = itab
      BY <3>2, TabSame
    <3>. QED  BY <2>2, <3>1, <3>2
  <2>8. Others(p) /\ th'[p] = Idle /\ Idle.pc = "user"
    BY <2>2, <2>3 DEF Others, Idle
  <2>9. LocksApart(th'[p]) /\ \A j : ~HasLock(th'[p], j)
    BY <1>1, <2>8, CallLocks, NoLocksHeld
  <2>10. LockStep(p)
    <3>1. \A j \in Inums : HasLock(th'[p], j) <=> HasLock(th[p], j) /\ j # i
      BY <2>4, <2>9
    <3>2. LockTypes /\ LockInv
      BY DEF CInv, FInv, TypeInv
    <3>. QED  BY <2>2, <2>3, <2>5, <2>9, <3>1, <3>2, LockDrop
  <2>. QED  BY <2>5, <2>7, <2>8, <2>10, CacheStep
<1>4. CASE OpenFails(p)
  <2>1. th[p].pc = "opened" /\ iunlockput(p, "ip", "user")
    BY <1>4 DEF OpenFails
  <2>2. th[p]["ip"] \in Inums /\ "ip" \in {"ip", "dp"}
    BY <1>1, <2>1, PointRefs
  <2>. QED  BY <1>1, <2>1, <2>2, UnlockPutCache
<1>5. CASE Chdir(p)
  <2>1. th[p].pc = "namei"
    BY <1>5 DEF Chdir, Found, At
  <2>2. th[p]["ip"] \in Inums /\ "ip" \in {"ip", "dp", "old"}
    BY <1>1, <2>1, PointRefs
  <2>3. CASE Reject(p, "ip", "user")
    BY <1>1, <2>1, <2>2, <2>3, RejectCache
  <2>4. CASE ~Reject(p, "ip", "user")
    <3>1. /\ itab' = ilock(th[p].ip) /\ panicked' = NoType(th[p].ip) /\ dinode' = dinode /\ ilk' = ilk
          /\ th' = [th EXCEPT ![p].pc = "iput", ![p].put = cwd[p], ![p].ip = NoIno]
      BY <1>5, <2>4 DEF Chdir, disk
    <3>2. PICK i : i = th[p].ip /\ i \in Inums
      BY <2>2
    <3>3. /\ itab \in [Inums -> Entry] /\ th \in [Procs -> Thread] /\ th[p] \in Thread
          /\ ThreadOk(th[p])
      BY DEF CInv, FInv, TypeInv, ControlInv
    <3>4. TabStep
      BY <3>1, <3>2, <3>3, TabIlock
    <3>5. th[p].ret = "user"
      BY <2>1, <3>3 DEF ThreadOk, Putting
    <3>6. Others(p) /\ th'[p].pc = "iput" /\ th'[p].ret = "user"
      BY <3>1, <3>3, <3>5 DEF Others, Thread
    <3>7. NoLocks(th[p])
      BY <1>1, <2>1, CallLocks
    <3>8. NoLocks(th'[p])
      BY <1>1, <3>6 DEF NoLocks, Point, Putting, Freeing
    <3>. QED  BY <3>1, <3>4, <3>6, <3>7, <3>8, FreeStep
  <2>. QED  BY <2>3, <2>4
<1>. QED  BY <1>2, <1>3, <1>4, <1>5

\* unlink(): the directory, then also the inode of the entry, then only that.
LEMMA UnlinkCache ==
  ASSUME CInv, ~panicked, FInv', NEW p \in Procs,
         UnlinkNothing(p) \/ UnlinkLookup(p) \/ UnlinkNotEmpty(p) \/ UnlinkDec(p)
  PROVE  CInv'
<1>1. /\ "unlinklock" \in LockedDp \ LockedIp /\ "dropparent" \in LockedDp \ LockedIp
      /\ "unlinkdec" \in LockedIp \ LockedDp /\ {"user", "unlink"} \cap (LockedDp \cup LockedIp) = {}
      /\ {"unlink", "unlinklock", "unlinkdec", "dropparent", "user"} \subseteq Points
      /\ {"unlinklock", "unlinkdec"} \subseteq HaveIp /\ {"unlink", "unlinklock"} \subseteq HaveDp
  BY DEF LockedIp, LockedDp, Points, HaveIp, HaveDp
<1>2. CASE UnlinkNothing(p)
  <2>1. th[p].pc = "unlink" /\ Reject(p, "dp", "user")
    BY <1>2 DEF UnlinkNothing, At
  <2>2. th[p]["dp"] \in Inums /\ "dp" \in {"ip", "dp", "old"}
    BY <1>1, <2>1, PointRefs
  <2>. QED  BY <1>1, <2>1, <2>2, RejectCache
<1>3. CASE UnlinkLookup(p)
  <2>1. PICK d, i : d = th[p].dp /\ i = Lookup(d, th[p].name)
    OBVIOUS
  <2>2. /\ th[p].pc = "unlink" /\ i # NoIno /\ LookupIget(d, i)
        /\ th' = [th EXCEPT ![p].pc = "unlinklock", ![p].ip = i]
        /\ ilk[d] = Nobody /\ ilk' = [ilk EXCEPT ![d] = p] /\ dinode' = dinode
    BY <1>3, <2>1 DEF UnlinkLookup, At, WaitsFor, disk
  <2>3. /\ d \in Inums /\ th \in [Procs -> Thread] /\ th[p] \in Thread
        /\ itab \in [Inums -> Entry] /\ DiskTypes
    BY <1>1, <2>1, <2>2, PointRefs
  <2>4. i \in Inums
    BY <2>1, <2>2, <2>3, LookupType DEF Thread, Inums0
  <2>5. itab[d].ref > 0
    <3>1. Refers(th[p], d)
      BY <2>1 DEF Refers
    <3>. QED  BY <2>3, <3>1, HeldRef DEF CInv
  <2>6. TabStep /\ itab'[d].valid
    BY <2>2, <2>3, <2>4, <2>5, TabLookup
  <2>7. PICK t : t = [th[p] EXCEPT !.pc = "unlinklock", !.ip = i]
    OBVIOUS
  <2>8. Others(p) /\ th'[p] = t /\ t.pc = "unlinklock" /\ t.dp = d
    BY <2>1, <2>2, <2>3, <2>7 DEF Others, Thread
  <2>9. LocksApart(t) /\ \A j \in Inums : HasLock(t, j) <=> j = d
    BY <1>1, <2>8, CallLocks
  <2>10. \A j : ~HasLock(th[p], j)
    BY <1>1, <2>2, CallLocks, NoLocksHeld
  <2>11. LockStep(p)
    <3>1. LockTypes /\ LockInv
      BY DEF CInv, FInv, TypeInv
    <3>2. \A j \in Inums : HasLock(th'[p], j) <=> HasLock(th[p], j) \/ j = d
      BY <2>8, <2>9, <2>10
    <3>. QED  BY <2>2, <2>3, <2>6, <2>8, <2>9, <3>1, <3>2, LockTake
  <2>. QED  BY <2>2, <2>6, <2>8, <2>11, CacheStep
<1>4. CASE UnlinkNotEmpty(p)
  <2>1. th[p].pc = "unlinklock" /\ Reject(p, "ip", "dropparent")
    BY <1>4 DEF UnlinkNotEmpty, At
  <2>2. th[p]["ip"] \in Inums /\ "ip" \in {"ip", "dp", "old"}
    BY <1>1, <2>1, PointRefs
  <2>. QED  BY <1>1, <2>1, <2>2, RejectCache
<1>5. CASE UnlinkDec(p)
  <2>1. PICK i, d : i = th[p].ip /\ d = [Loaded(i) EXCEPT !.nlink = @ - 1]
    OBVIOUS
  <2>2. /\ th[p].pc = "unlinkdec" /\ Update(i, d) /\ IputThen(p, "ip", "user")
        /\ ilk' = [ilk EXCEPT ![th[p]["ip"]] = Nobody]
    BY <1>5, <2>1 DEF UnlinkDec, DropLink
  <2>3. i \in Inums /\ th[p]["ip"] \in Inums /\ itab \in [Inums -> Entry] /\ DiskTypes
    BY <1>1, <2>1, <2>2, PointRefs
  <2>4. HasLock(th[p], i) /\ th[p].pc # "invalid"
    BY <1>1, <2>1, <2>2, CallLocks
  <2>5. d.type # "free"
    <3>1. Loaded(i).type # "free"
      BY <2>3, <2>4, LockedTyped
    <3>2. Loaded(i) \in Inode
      BY <2>3, IlockTab
    <3>. QED  BY <2>1, <3>1, <3>2 DEF Inode
  <2>6. TabStep /\ "ip" \in {"ip", "dp"}
    BY <2>2, <2>3, <2>5, TabUpdate DEF DiskTypes
  <2>. QED  BY <1>1, <2>2, <2>3, <2>6, PutUnlocks
<1>. QED  BY <1>2, <1>3, <1>4, <1>5

LEMMA UnlinkEntryCache ==
  ASSUME CInv, ~panicked, FInv', NEW p \in Procs, UnlinkEntry(p)
  PROVE  CInv'
<1>1. PICK i, j, d : /\ i = th[p].ip /\ j = th[p].dp
                     /\ d = [itab[j].d EXCEPT !.nlink = @ - ParentLink(Loaded(i).type)]
  OBVIOUS
<1>2. /\ th[p].pc = "unlinklock" /\ itab' = [ilock(i) EXCEPT ![j].d = d]
      /\ dinode' = [dinode EXCEPT ![j] = d] /\ ilk[i] = Nobody
      /\ ilk' = [ilk EXCEPT ![i] = p, ![j] = Nobody] /\ IputThen(p, "dp", "unlinkdec")
      /\ (NoType(i) => panicked')
  BY <1>1 DEF UnlinkEntry, At, WaitsFor
<1>3. /\ th[p].pc \in Points /\ th[p].pc \in HaveIp /\ th[p].pc \in HaveDp
      /\ th[p].pc \in LockedDp \ LockedIp /\ "unlinkdec" \in LockedIp \ LockedDp
      /\ "dp" \in {"ip", "dp", "old"} /\ th[p].pc # "invalid"
  BY <1>2 DEF Points, HaveIp, HaveDp, LockedDp, LockedIp
<1>4. /\ i \in Inums /\ j \in Inums /\ itab \in [Inums -> Entry] /\ DiskTypes
  BY <1>1, <1>3, PointRefs
<1>5. TypeInv /\ LockTypes /\ LockInv /\ Nobody \notin Procs
  BY FilesAssumption DEF CInv, FInv, TypeInv
<1>6. \A k \in Inums : HasLock(th[p], k) <=> k = j
  BY <1>1, <1>3, CallLocks
<1>7. /\ Others(p) /\ LocksApart(th'[p])
      /\ \A k \in Inums : HasLock(th'[p], k) <=> k = i
  BY <1>1, <1>2, <1>3, <1>5, PutLocks
<1>8. ilk[j] = p /\ itab[j].valid /\ itab[j].ref > 0 /\ itab[j].d.type # "free"
  BY <1>3, <1>4, <1>6, LockedTyped
<1>9. i # j
  BY <1>2, <1>5, <1>8
<1>10. PICK tab : tab = ilock(i)
  OBVIOUS
<1>11. tab \in [Inums -> Entry] /\ itab' = [tab EXCEPT ![j] = [tab[j] EXCEPT !.d = d]]
  BY <1>2, <1>4, <1>10, IlockTab
<1>12. PICK f : f = [tab[j] EXCEPT !.d = d]
  OBVIOUS
<1>13. itab' = [tab EXCEPT ![j] = f] /\ f.d = d /\ f.valid = tab[j].valid
  BY <1>4, <1>11, <1>12 DEF Entry
<1>14. \A k \in Inums : /\ Stays(itab[k], tab[k]) /\ (k = i => tab[k].valid)
                        /\ \/ Kept(itab[k], tab[k])
                           \/ k = i /\ tab[k].d = dinode[k] /\ (dinode[k].type # "free" \/ NoType(i))
  BY <1>4, <1>10, IlockFresh
<1>15. d.type # "free"
  <2>1. itab[j].d \in Inode
    BY <1>4 DEF Entry
  <2>. QED  BY <1>1, <1>8, <2>1 DEF Inode
<1>16. ASSUME NEW k \in Inums
       PROVE  /\ Stays(itab[k], itab'[k])
              /\ \/ Fresh(k)'
                 \/ Kept(itab[k], itab'[k]) /\ dinode'[k] = dinode[k]
  <2>1. CASE k = j
    <3>1. itab'[k] = f /\ dinode'[k] = d
      BY <1>2, <1>4, <1>11, <1>13, <2>1 DEF DiskTypes
    <3>. QED  BY <1>13, <1>14, <1>15, <2>1, <3>1 DEF Stays, Fresh
  <2>2. CASE k # j
    <3>1. itab'[k] = tab[k] /\ dinode'[k] = dinode[k]
      BY <1>2, <1>4, <1>11, <1>13, <2>2 DEF DiskTypes
    <3>2. Stays(itab[k], tab[k])
      BY <1>14
    <3>3. \/ Kept(itab[k], tab[k])
          \/ k = i /\ tab[k].d = dinode[k] /\ (dinode[k].type # "free" \/ NoType(i))
      BY <1>14
    <3>. QED  BY <1>2, <3>1, <3>2, <3>3 DEF Fresh
  <2>. QED  BY <2>1, <2>2
<1>17. TabStep
  BY <1>16 DEF TabStep
<1>18. LockStep(p)
  <2>1. ilk'[i] = p /\ ilk'[j] = Nobody /\ \A k \in Inums \ {i, j} : ilk'[k] = ilk[k]
    BY <1>2, <1>4, <1>5, <1>9 DEF LockTypes
  <2>2. itab'[i].valid
    BY <1>4, <1>9, <1>11, <1>13, <1>14
  <2>3. ASSUME NEW k \in Inums
        PROVE  /\ ilk'[k] = p <=> HasLock(th'[p], k)
               /\ ilk'[k] = ilk[k] \/ (ilk[k] \in {p, Nobody} /\ ilk'[k] \in {p, Nobody})
               /\ ilk'[k] = p /\ ilk[k] # p => itab'[k].valid
    <3>1. ilk[k] = p <=> k = j
      BY <1>5, <1>6 DEF LockInv
    <3>. QED  BY <1>2, <1>5, <1>7, <1>8, <1>9, <2>1, <2>2, <3>1
  <2>. QED  BY <1>7, <2>3 DEF LockStep
<1>. QED  BY <1>3, <1>7, <1>17, <1>18, CacheStep

LEMMA LinkCache ==
  ASSUME CInv, ~panicked, FInv', NEW p \in Procs,
         \/ LinkDir(p) \/ LinkInc(p) \/ LinkEntry(p) \/ LinkExists(p) \/ LinkDrop(p)
         \/ LinkFails(p) \/ LinkPut(p) \/ LinkBad(p)
  PROVE  CInv'
<1>1. /\ {"user", "namei", "nameiparent", "link", "linkput", "linkbad"} \cap (LockedDp \cup LockedIp) = {}
      /\ {"user", "namei", "nameiparent", "link", "linkput", "linkbad"} \subseteq Points
      /\ "linkdrop" \in LockedDp \ LockedIp /\ "linkdrop" \in Points
      /\ "namei" \in HaveIp /\ {"link", "linkdrop"} \subseteq HaveDp
      /\ {"link", "linkput", "linkbad"} \subseteq HaveOld
      /\ "ip" \in {"ip", "dp", "old"} /\ "dp" \in {"ip", "dp", "old"} /\ "old" \in {"ip", "dp", "old"}
  BY DEF LockedIp, LockedDp, Points, HaveIp, HaveDp, HaveOld
<1>2. CASE LinkDir(p)
  <2>1. th[p].pc = "namei" /\ Reject(p, "ip", "user")
    BY <1>2 DEF LinkDir, Found, At
  <2>2. th[p]["ip"] \in Inums
    BY <1>1, <2>1, PointRefs
  <2>. QED  BY <1>1, <2>1, <2>2, RejectCache
<1>3. CASE LinkInc(p)
  <2>1. PICK i, j, d : /\ i = th[p].ip /\ j = From(p, th[p].call.new)
                       /\ d = [Loaded(i) EXCEPT !.nlink = @ + 1]
    OBVIOUS
  <2>2. /\ th[p].pc = "namei" /\ th[p].path = <<>> /\ Loaded(i).type # "dir"
        /\ itab' = iget([ilock(i) EXCEPT ![i].d = d], j) /\ dinode' = [dinode EXCEPT ![i] = d]
        /\ panicked' = (NoType(i) \/ TableFull(j)) /\ ilk' = ilk
        /\ th' = [th EXCEPT ![p].old = i, ![p].ip = j, ![p].pc = "nameiparent",
                            ![p].path = Elements(th[p].call.new)]
    BY <1>3, <2>1 DEF LinkInc, Found, At
  <2>3. ilk[i] = Nobody
    BY <1>3, <2>1, <2>2 DEF LinkInc, Found, At, WaitsFor
  <2>4. /\ i \in Inums /\ th \in [Procs -> Thread] /\ th[p] \in Thread
        /\ itab \in [Inums -> Entry] /\ DiskTypes /\ NoIno \notin Inums
    BY <1>1, <2>1, <2>2, PointRefs
  <2>5. j \in Inums
    <3>1. Point(th[p]) # "user" /\ ROOTINO \in Inums
      BY <1>1, <2>2, CallLocks, FilesAssumption
    <3>2. cwd[p] # NoIno /\ cwd[p] \in Inums0
      BY <3>1 DEF CInv, FInv, GoneInv, TypeInv, UserTypes
    <3>. QED  BY <2>1, <3>1, <3>2 DEF From, Inums0
  <2>6. itab[i].ref > 0
    <3>1. Refers(th[p], i)
      BY <2>1, <2>2 DEF Refers, Held
    <3>. QED  BY <2>4, <3>1, HeldRef DEF CInv
  <2>7. d.type # "free" \/ panicked'
    <3>1. Loaded(i).type # "free" \/ NoType(i)
      BY <2>3, <2>4, <2>6, LoadedTyped
    <3>2. Loaded(i) \in Inode
      BY <2>4, IlockTab
    <3>3. d.type = Loaded(i).type
      BY <2>1, <3>2 DEF Inode
    <3>. QED  BY <2>2, <3>1, <3>3
  <2>8. PICK tab : tab = ilock(i)
    OBVIOUS
  <2>9. PICK f : f = [tab[i] EXCEPT !.d = d]
    OBVIOUS
  <2>10. PICK tab2 : tab2 = [tab EXCEPT ![i] = f]
    OBVIOUS
  <2>11. tab \in [Inums -> Entry] /\ itab' = iget(tab2, j)
    BY <2>2, <2>4, <2>8, <2>9, <2>10, IlockTab
  <2>12. f.d = d /\ f.valid = tab[i].valid /\ f \in Entry
    <3>1. tab[i] \in Entry /\ Loaded(i) \in Inode
      BY <2>4, <2>11, IlockTab
    <3>2. d \in Inode
      BY <2>1, <3>1 DEF Inode
    <3>. QED  BY <2>9, <3>1, <3>2 DEF Entry
  <2>13. tab2 \in [Inums -> Entry]
    BY <2>10, <2>11, <2>12
  <2>14. ASSUME NEW k \in Inums
         PROVE  /\ Stays(itab[k], itab'[k])
                /\ \/ Fresh(k)'
                   \/ Kept(itab[k], itab'[k]) /\ dinode'[k] = dinode[k]
    <3>1. /\ Stays(itab[k], tab[k]) /\ (k = i => tab[k].valid)
          /\ Kept(itab[k], tab[k]) \/ k = i
      BY <2>4, <2>8, IlockFresh
    <3>2. Kept(tab2[k], itab'[k]) /\ Stays(tab2[k], itab'[k])
      BY <2>5, <2>11, <2>13, IgetKept
    <3>3. CASE k = i
      <4>1. tab2[k] = f /\ dinode'[k] = d
        BY <2>2, <2>4, <2>10, <2>11, <3>3 DEF DiskTypes
      <4>2. Fresh(k)'
        BY <2>7, <2>12, <3>2, <4>1 DEF Kept, Fresh
      <4>3. Stays(itab[k], itab'[k])
        <5>1. f.valid /\ (itab[k].ref > 0 /\ itab[k].valid => f.ref > 0)
          <6>1. f.valid
            BY <2>12, <3>1, <3>3
          <6>2. f.ref = tab[i].ref
            BY <2>4, <2>9, <2>11 DEF Entry
          <6>3. tab[i].ref = itab[i].ref
            BY <2>4, <2>8, IlockTab
          <6>. QED  BY <3>3, <6>1, <6>2, <6>3
        <5>. QED  BY <3>2, <4>1, <5>1 DEF Stays
      <4>. QED  BY <4>2, <4>3
    <3>4. CASE k # i
      <4>1. tab2[k] = tab[k] /\ dinode'[k] = dinode[k]
        BY <2>2, <2>4, <2>10, <2>11, <3>4 DEF DiskTypes
      <4>2. tab[k].ref = itab[k].ref
        BY <2>4, <2>8, IlockTab
      <4>. QED  BY <3>1, <3>2, <3>4, <4>1, <4>2 DEF Kept, Stays
    <3>. QED  BY <3>3, <3>4
  <2>15. TabStep
    BY <2>14 DEF TabStep
  <2>16. Others(p) /\ th'[p].pc = "nameiparent"
    BY <2>2, <2>4 DEF Others, Thread
  <2>17. NoLocks(th[p])
    BY <1>1, <2>2, CallLocks
  <2>18. NoLocks(th'[p])
    BY <1>1, <2>16, CallLocks
  <2>. QED  BY <2>2, <2>15, <2>16, <2>17, <2>18, FreeStep
<1>4. CASE LinkEntry(p)
  <2>1. PICK d, i, n : d = th[p].dp /\ i = th[p].old /\ n = th[p].name
    OBVIOUS
  <2>2. /\ th[p].pc = "link" /\ dirlink(d, n, i, 0) /\ panicked' = NoType(d)
        /\ IputThen(p, "dp", "linkput") /\ ilk' = ilk /\ ilk[d] = Nobody
    BY <1>4, <2>1 DEF LinkEntry, At, WaitsFor
  <2>3. /\ d \in Inums /\ i \in Inums /\ n \in Elems /\ itab \in [Inums -> Entry] /\ DiskTypes
    BY <1>1, <2>1, <2>2, PointRefs DEF Thread
  <2>4. itab[d].ref > 0
    <3>1. Refers(th[p], d)
      BY <2>1 DEF Refers
    <3>. QED  BY <2>3, <3>1, HeldRef DEF CInv
  <2>5. Loaded(d).type # "free" \/ panicked'
    BY <2>2, <2>3, <2>4, LoadedTyped
  <2>6. TabStep
    BY <2>2, <2>3, <2>5, DirlinkCache
  <2>. QED  BY <1>1, <2>2, <2>6, PutKeeps
<1>5. CASE LinkFails(p)
  <2>1. th[p].pc = "link" /\ Reject(p, "dp", "linkbad")
    BY <1>5 DEF LinkFails, At
  <2>2. th[p]["dp"] \in Inums
    BY <1>1, <2>1, PointRefs
  <2>. QED  BY <1>1, <2>1, <2>2, RejectCache
<1>6. CASE LinkPut(p)
  <2>1. th[p].pc = "linkput" /\ IputThen(p, "old", "user") /\ ilk' = ilk /\ TabStep
    BY <1>6, TabSame DEF LinkPut, disk
  <2>. QED  BY <1>1, <2>1, PutKeeps
<1>7. CASE LinkBad(p)
  <2>1. PICK i, d : i = th[p].old /\ d = [Loaded(i) EXCEPT !.nlink = @ - 1]
    OBVIOUS
  <2>2. /\ th[p].pc = "linkbad" /\ Update(i, d) /\ IputThen(p, "old", "user") /\ ilk' = ilk
        /\ panicked' = NoType(i) /\ ilk[i] = Nobody
    BY <1>7, <2>1 DEF LinkBad, DropLink, At, WaitsFor
  <2>3. i \in Inums /\ itab \in [Inums -> Entry] /\ DiskTypes
    BY <1>1, <2>1, <2>2, PointRefs
  <2>4. itab[i].ref > 0
    <3>1. Refers(th[p], i)
      BY <2>1 DEF Refers
    <3>. QED  BY <2>3, <3>1, HeldRef DEF CInv
  <2>5. d.type # "free" \/ panicked'
    <3>1. Loaded(i).type # "free" \/ NoType(i)
      BY <2>2, <2>3, <2>4, LoadedTyped
    <3>2. Loaded(i) \in Inode
      BY <2>3, IlockTab
    <3>3. d.type = Loaded(i).type
      BY <2>1, <3>2 DEF Inode
    <3>. QED  BY <2>2, <3>1, <3>3
  <2>6. TabStep
    BY <2>2, <2>3, <2>5, TabUpdate DEF DiskTypes
  <2>. QED  BY <1>1, <2>2, <2>6, PutKeeps
<1>8. CASE LinkExists(p)
  <2>1. PICK d, i : d = th[p].dp /\ i = Lookup(d, th[p].name)
    OBVIOUS
  <2>2. /\ th[p].pc = "link" /\ i # NoIno /\ LookupIget(d, i)
        /\ th' = [th EXCEPT ![p].pc = "iput", ![p].put = i, ![p].ret = "linkdrop"]
        /\ ilk[d] = Nobody /\ ilk' = [ilk EXCEPT ![d] = p] /\ dinode' = dinode
    BY <1>8, <2>1 DEF LinkExists, At, WaitsFor, disk
  <2>3. /\ d \in Inums /\ th \in [Procs -> Thread] /\ th[p] \in Thread
        /\ itab \in [Inums -> Entry] /\ DiskTypes
    BY <1>1, <2>1, <2>2, PointRefs
  <2>4. i \in Inums
    BY <2>1, <2>2, <2>3, LookupType DEF Thread, Inums0
  <2>5. itab[d].ref > 0
    <3>1. Refers(th[p], d)
      BY <2>1 DEF Refers
    <3>. QED  BY <2>3, <3>1, HeldRef DEF CInv
  <2>6. TabStep /\ itab'[d].valid
    BY <2>2, <2>3, <2>4, <2>5, TabLookup
  <2>7. PICK t : t = [th[p] EXCEPT !.pc = "iput", !.put = i, !.ret = "linkdrop"]
    OBVIOUS
  <2>8. Others(p) /\ th'[p] = t /\ t.pc = "iput" /\ t.ret = "linkdrop" /\ t.dp = d
    BY <2>1, <2>2, <2>3, <2>7 DEF Others, Thread
  <2>9. Point(t) = "linkdrop" /\ t.pc \notin Freeing
    BY <2>8 DEF Point, Putting, Freeing
  <2>10. LocksApart(t) /\ \A j \in Inums : HasLock(t, j) <=> j = d
    BY <1>1, <2>8, <2>9 DEF LocksApart, HasLock
  <2>11. \A j : ~HasLock(th[p], j)
    BY <1>1, <2>2, CallLocks, NoLocksHeld
  <2>12. LockStep(p)
    <3>1. LockTypes /\ LockInv
      BY DEF CInv, FInv, TypeInv
    <3>2. \A j \in Inums : HasLock(th'[p], j) <=> HasLock(th[p], j) \/ j = d
      BY <2>8, <2>10, <2>11
    <3>. QED  BY <2>2, <2>3, <2>6, <2>8, <2>10, <3>1, <3>2, LockTake
  <2>. QED  BY <2>2, <2>6, <2>8, <2>12, CacheStep
<1>9. CASE LinkDrop(p)
  <2>1. th[p].pc = "linkdrop" /\ iunlockput(p, "dp", "linkbad")
    BY <1>9 DEF LinkDrop
  <2>2. th[p]["dp"] \in Inums
    BY <1>1, <2>1, PointRefs
  <2>. QED  BY <1>1, <2>1, <2>2, UnlockPutCache
<1>. QED  BY <1>2, <1>3, <1>4, <1>5, <1>6, <1>7, <1>8, <1>9

\* Descriptors, fork() and exit() take no lock for longer than a step.
LEMMA FilecloseCache ==
  ASSUME CInv, ~panicked, FInv', NEW p \in Procs, NEW fd \in FDs, NEW r \in {"user", "exit"},
         th[p].pc \in {"user", "exit"}, fileclose(p, fd, r)
  PROVE  CInv'
<1>1. th \in [Procs -> Thread] /\ th[p] \in Thread
  BY DEF CInv, FInv, TypeInv
<1>2. TabStep /\ ilk' = ilk
  BY TabSame DEF fileclose, disk
<1>3. Others(p) /\ (th'[p].pc = r \/ (th'[p].pc = "iput" /\ th'[p].ret = r))
  <2>1. PICK i : i = file[ofile[p][fd]].ip
    OBVIOUS
  <2>2. \/ th' = [th EXCEPT ![p].pc = r]
        \/ th' = [th EXCEPT ![p].pc = "iput", ![p].put = i, ![p].ret = r]
    BY <2>1 DEF fileclose
  <2>. QED  BY <1>1, <2>2 DEF Others, Thread
<1>4. /\ {"user", "exit"} \subseteq Points /\ {"user", "exit"} \cap (LockedDp \cup LockedIp) = {}
  BY DEF Points, LockedDp, LockedIp
<1>5. NoLocks(th[p])
  BY <1>4, CallLocks
<1>6. NoLocks(th'[p])
  BY <1>3, <1>4 DEF NoLocks, Point, Putting, Freeing
<1>. QED  BY <1>2, <1>3, <1>5, <1>6, FreeStep

LEMMA FileCache ==
  ASSUME CInv, ~panicked, FInv', NEW p \in Procs,
         Write(p) \/ Dup(p) \/ Close(p) \/ Exit(p) \/ \E q \in Procs : Fork(p, q)
  PROVE  CInv'
<1>1. /\ {"user", "exit"} \subseteq Points /\ {"user", "exit"} \cap (LockedDp \cup LockedIp) = {}
      /\ th \in [Procs -> Thread] /\ th[p] \in Thread /\ itab \in [Inums -> Entry] /\ DiskTypes
  BY DEF Points, LockedDp, LockedIp, CInv, FInv, TypeInv
<1>2. ASSUME th' = th, ilk' = ilk, TabStep, th[p].pc = "user"
      PROVE  CInv'
  <2>1. NoLocks(th[p]) /\ Others(p) /\ th'[p] = th[p]
    BY <1>1, <1>2, CallLocks DEF Others
  <2>. QED  BY <1>2, <2>1, FreeStep
<1>3. CASE Write(p)
  <2>1. PICK fd \in FDs, copied \in BOOLEAN :
          LET f == ofile[p][fd]
              i == file[f].ip
              new == IF Loaded(i).addrs = {} /\ Unused # {} THEN {balloc} ELSE {}
              a == Loaded(i).addrs \cup new
          IN  /\ th[p].pc = "user" /\ f # 0 /\ file[f].writable /\ Loaded(i).type = "file"
              /\ Update(i, [Loaded(i) EXCEPT !.addrs = a, !.size = IF copied /\ a # {} THEN 1 ELSE @])
              /\ ilk' = ilk /\ th' = th
    BY <1>3 DEF Write
  <2>2. PICK f, i : f = ofile[p][fd] /\ i = file[f].ip
    OBVIOUS
  <2>3. PICK new, a : /\ new = (IF Loaded(i).addrs = {} /\ Unused # {} THEN {balloc} ELSE {})
                      /\ a = Loaded(i).addrs \cup new
    OBVIOUS
  <2>4. PICK d : d = [Loaded(i) EXCEPT !.addrs = a, !.size = IF copied /\ a # {} THEN 1 ELSE @]
    OBVIOUS
  <2>5. /\ th[p].pc = "user" /\ f # 0 /\ Loaded(i).type = "file" /\ Update(i, d) /\ ilk' = ilk /\ th' = th
    BY <2>1, <2>2, <2>3, <2>4
  <2>6. i \in Inums
    <3>1. ofile \in [Procs -> [FDs -> 0..NFILE]] /\ FInv /\ FileInv
      BY DEF CInv, FInv, TypeInv, UserTypes
    <3>2. f \in 1..NFILE
      BY <2>2, <2>5, <3>1, FilesAssumption
    <3>3. file[f].ref > 0
      BY <2>2, <2>5, <3>1, <3>2, FdOpen
    <3>. QED  BY <2>2, <3>1, <3>2, <3>3 DEF FileInv
  <2>7. d.type # "free"
    <3>1. Loaded(i) \in Inode
      BY <1>1, <2>6, IlockTab
    <3>. QED  BY <2>4, <2>5, <3>1 DEF Inode
  <2>8. TabStep
    BY <1>1, <2>5, <2>6, <2>7, TabUpdate DEF DiskTypes
  <2>. QED  BY <1>2, <2>5, <2>8
<1>4. CASE Dup(p)
  <2>1. th' = th /\ ilk' = ilk /\ th[p].pc = "user" /\ itab' = itab /\ dinode' = dinode
    BY <1>4 DEF Dup, disk
  <2>. QED  BY <1>2, <2>1, TabSame
<1>5. CASE Close(p)
  <2>1. PICK fd \in FDs : th[p].pc = "user" /\ fileclose(p, fd, "user")
    BY <1>5 DEF Close
  <2>. QED  BY <2>1, FilecloseCache
<1>6. CASE Exit(p)
  <2>1. th[p].pc \in {"user", "exit"}
    BY <1>6 DEF Exit
  <2>2. CASE \E fd \in FDs : fileclose(p, fd, "exit")
    BY <2>1, <2>2, FilecloseCache
  <2>3. CASE ~(\E fd \in FDs : fileclose(p, fd, "exit"))
    <3>1. /\ th' = [th EXCEPT ![p].pc = "iput", ![p].put = cwd[p]] /\ ilk' = ilk
          /\ itab' = itab /\ dinode' = dinode
      BY <1>6, <2>3 DEF Exit, disk
    <3>2. TabStep /\ Others(p) /\ th'[p].pc = "iput" /\ th'[p].ret = th[p].ret
      BY <1>1, <3>1, TabSame DEF Others, Thread
    <3>3. NoLocks(th[p])
      BY <1>1, <2>1, CallLocks
    <3>4. th[p].ret = "user"
      BY <2>1 DEF CInv, FInv, ControlInv, ThreadOk, Putting
    <3>5. NoLocks(th'[p])
      BY <1>1, <3>2, <3>4 DEF NoLocks, Point, Putting, Freeing
    <3>. QED  BY <3>1, <3>2, <3>3, <3>5, FreeStep
  <2>. QED  BY <2>2, <2>3
<1>7. ASSUME NEW q \in Procs, Fork(p, q) PROVE CInv'
  <2>1. /\ th' = th /\ ilk' = ilk /\ th[p].pc = "user" /\ cwd[p] # NoIno
        /\ itab' = iget(itab, cwd[p]) /\ dinode' = dinode
    BY <1>7 DEF Fork, disk
  <2>2. PICK k : k = cwd[p] /\ k \in Inums
    BY <2>1 DEF CInv, FInv, TypeInv, UserTypes, Inums0
  <2>3. TabStep
    BY <1>1, <2>1, <2>2, TabIget
  <2>. QED  BY <1>2, <2>1, <2>3
<1>. QED  BY <1>3, <1>4, <1>5, <1>6, <1>7

\* After boot nothing is locked and nothing has been read.
LEMMA BootedCache == Booted => CInv
<1> SUFFICES ASSUME Booted PROVE CInv
  OBVIOUS
<1>1. FInv /\ Nobody \notin Procs
  BY BootedInv, FilesAssumption
<1>2. /\ \A i \in Inums : ilk[i] = Nobody /\ ~itab[i].valid
      /\ \A p \in Procs : th[p] = Idle
  BY DEF Booted, BootItab, BootIlk, Unreferenced
<1>3. NoLocks(Idle) /\ Idle.pc = "user"
  BY DEF NoLocks, Idle, Point, Putting, Freeing, LockedDp, LockedIp
<1>4. LocksApart(Idle) /\ \A i : ~HasLock(Idle, i)
  BY <1>3, NoLocksHeld
<1>. QED  BY <1>1, <1>2, <1>4 DEF CInv, LockInv, ApartInv, ValidInv, CacheInv, Fresh

LEMMA CacheNext == CInv /\ [FilesNext]_filesVars => CInv'
<1> SUFFICES ASSUME CInv, [FilesNext]_filesVars PROVE CInv'
  OBVIOUS
<1>1. FInv'
  BY NextInv DEF CInv
<1>2. CASE UNCHANGED filesVars
  <2>1. /\ dinode' = dinode /\ itab' = itab /\ ilk' = ilk /\ th' = th /\ panicked' = panicked
    BY <1>2 DEF filesVars
  <2>. QED  BY <1>1, <2>1 DEF CInv, LockInv, ApartInv, ValidInv, CacheInv, Fresh, BeingFreed
<1>3. CASE FilesNext
  <2>1. ~panicked
    BY <1>3 DEF FilesNext
  <2>2. ASSUME NEW p \in Procs, PathStep(p) PROVE CInv'
    BY <1>1, <2>1, <2>2, StartCache, WalkCache, IputCache DEF PathStep
  <2>3. ASSUME NEW p \in Procs, CreateStep(p) PROVE CInv'
    BY <1>1, <2>1, <2>3, CreateFindCache, IallocCache, CreateMakeCache, CreateEndCache DEF CreateStep
  <2>4. ASSUME NEW p \in Procs, OpenStep(p) PROVE CInv'
    BY <1>1, <2>1, <2>4, OpenCache DEF OpenStep
  <2>5. ASSUME NEW p \in Procs, LinkStep(p) PROVE CInv'
    BY <1>1, <2>1, <2>5, UnlinkCache, UnlinkEntryCache, LinkCache DEF LinkStep
  <2>6. ASSUME NEW p \in Procs, FileStep(p) PROVE CInv'
    BY <1>1, <2>1, <2>6, FileCache DEF FileStep
  <2>7. CASE Crash
    <3>1. prog \in DOMAIN Programs /\ DiskTypes
      BY DEF CInv, FInv, TypeInv, UserTypes
    <3>2. Booted'
      BY <2>7, <3>1 DEF Crash, Booted, BootItab, BootIlk, BootFile, BootOfile, BootCwd, DiskTypes, disk
    <3>3. (Booted => CInv)'
      BY BootedCache, PTL
    <3>. QED  BY <3>2, <3>3
  <2>. QED  BY <1>3, <2>2, <2>3, <2>4, <2>5, <2>6, <2>7 DEF FilesNext
<1>. QED  BY <1>2, <1>3

LEMMA CacheInit == FilesInit => CInv
BY InitBooted, BootedCache

\* Locks, and the copies of the inode table, are an invariant.
THEOREM CacheInvariant == FilesSpec => []CInv
BY CacheInit, CacheNext, PTL DEF FilesSpec

LEMMA CurrentFromInv == CInv => CacheCurrent
<1> SUFFICES ASSUME CInv, NEW i \in Inums, itab[i].ref > 0, itab[i].valid, ilk[i] = Nobody
             PROVE  itab[i].d = dinode[i]
  BY DEF CacheCurrent
<1>1. ~BeingFreed(i)
  <2>1. PICK p \in Procs : TRUE
    BY FilesAssumption
  <2>. QED  BY <2>1, NotFreed
<1>. QED  BY <1>1 DEF CInv, CacheInv, Fresh

\* A copy in the inode table that nobody has locked is what the disk holds, also when its
\* inode was freed and given away again while somebody kept the entry.
THEOREM CachedInodesCurrent == FilesSpec => []CacheCurrent
BY CacheInvariant, CurrentFromInv, PTL

\* A process between two calls, or in exit(), has no inode locked: no failure path of a
\* call forgets to unlock.
NoLockKept == \A i \in Inums, p \in Procs : ilk[i] = p => th[p].pc \notin {"user", "exit"}

LEMMA NoLockFromInv == CInv => NoLockKept
<1> SUFFICES ASSUME CInv, NEW i \in Inums, NEW p \in Procs, ilk[i] = p, th[p].pc \in {"user", "exit"}
             PROVE  FALSE
  BY DEF NoLockKept
<1>1. HasLock(th[p], i)
  BY DEF CInv, LockInv
<1>2. NoLocks(th[p])
  BY DEF NoLocks, Point, Putting, Freeing, LockedDp, LockedIp
<1>. QED  BY <1>1, <1>2, NoLocksHeld

THEOREM CallsUnlock == FilesSpec => []NoLockKept
BY CacheInvariant, NoLockFromInv, PTL

\* "ip->ref == 1 means no other process can have ip locked, so this acquiresleep() won't
\* block (or deadlock)" (fs.c), which iput() relies on: it holds itable.lock.
IputNeverWaits == \A p \in Procs : th[p].pc = "iput" /\ LastUse(th[p].put) => ilk[th[p].put] = Nobody

LEMMA IputFromInv == CInv => IputNeverWaits
<1> SUFFICES ASSUME CInv, NEW p \in Procs, th[p].pc = "iput", LastUse(th[p].put)
             PROVE  ilk[th[p].put] = Nobody
  BY DEF IputNeverWaits
<1>1. th[p].put \in Inums
  BY DEF CInv, FInv, ControlInv, ThreadOk, Putting
<1>. QED  BY <1>1, LastFree

THEOREM LastReferenceUnlocked == FilesSpec => []IputNeverWaits
BY CacheInvariant, IputFromInv, PTL

-----------------------------------------------------------------------------
(* No circle of processes that wait for inode locks *)

\* A process that waits with a lock holds that of a directory, and waits for an entry of
\* it, or for the inode that is about to become one.  So a circle of processes would be a
\* circle of directories: the tree of names has none.  Nor does it while processes make
\* and remove entries, since link() never names a directory, ialloc() gives out inodes
\* without entries, and whoever has a directory locked, or means to lock it, has a
\* reference, so that it is not freed and given out again as something else.
Freed(i) == \E q \in Procs : th[q].pc \in Freeing /\ th[q].put = i
IsDir(i) == dinode[i].type = "dir" /\ ~Freed(i)
NotDir(i) == dinode[i].type # "dir" /\ (dinode[i].type # "free" \/ panicked) /\ ~Freed(i)
KindInv == \A p \in Procs : /\ th[p].dp \in Inums => IsDir(th[p].dp)
                            /\ th[p].old \in Inums => NotDir(th[p].old)

\* Only directories have entries, and iput() removes them before it frees one.
Empty(i) == \A n \in Names : ents[i][n] = NoIno
EmptyInv == /\ \A i \in Inums : dinode[i].type # "dir" => Empty(i)
            /\ \A p \in Procs : th[p].pc \in {"ifree", "invalid"} => Empty(th[p].put)

\* What unlink() has found in the directory that it has locked is still there.
LookInv == \A p \in Procs : th[p].pc = "unlinklock" =>
              th[p].name \in Names /\ ents[th[p].dp][th[p].name] = th[p].ip

\* Entries, and those that create() is making.
Making == {"iget", "createinit", "dirlink"}
Pending(t, d, i) == t.pc \in Making /\ t.dp = d /\ t.ip = i
Edge(d, i) == \/ \E n \in Names : ents[d][n] = i
              \/ \E p \in Procs : Pending(th[p], d, i)
Acyclic == \A S \in (SUBSET Inums) \ {{}} : \E i \in S : \A j \in S : ~Edge(i, j)

TreeInv == KindInv /\ EmptyInv /\ LookInv /\ Acyclic

\* What a step of process p may do to types, to entries and to inodes that are being freed.
TypesStep == \A i \in Inums : dinode[i].type # "free" /\ ~Freed(i) => dinode'[i].type = dinode[i].type
FreedStep == \A i \in Inums : Freed(i)' => Freed(i)
EntsStep(p) ==
  \A i \in Inums, n \in Names :
    \/ ents'[i][n] = ents[i][n]
    \/ ilk[i] \in {p, Nobody} /\ (ents'[i][n] = NoIno \/ IsDir(i))

LEMMA FreedSame ==
  ASSUME NEW p \in Procs, NEW t, th'[p] = t, Others(p),
         t.pc \in Freeing => th[p].pc \in Freeing /\ t.put = th[p].put
  PROVE  FreedStep
<1> SUFFICES ASSUME NEW i \in Inums, NEW q \in Procs, th'[q].pc \in Freeing, th'[q].put = i
             PROVE  Freed(i)
  BY DEF FreedStep, Freed
<1>1. th[q].pc \in Freeing /\ th[q].put = i
  BY DEF Others
<1>. QED  BY <1>1 DEF Freed

\* An inode is not being freed if it is not locked, or locked for something else.
LEMMA NotBeingFreed ==
  ASSUME CInv, NEW i \in Inums, NEW p \in Procs,
         ilk[i] = Nobody \/ (ilk[i] = p /\ th[p].pc \notin Freeing)
  PROVE  ~Freed(i)
<1> SUFFICES ASSUME NEW q \in Procs, th[q].pc \in Freeing, th[q].put = i PROVE FALSE
  BY DEF Freed
<1>1. HasLock(th[q], i)
  BY DEF HasLock
<1>2. ilk[i] = q
  BY <1>1 DEF CInv, LockInv
<1>. QED  BY <1>2, FilesAssumption

LEMMA KindStep ==
  ASSUME KindInv, ~panicked, NEW p \in Procs, NEW t, th'[p] = t, Others(p), TypesStep, FreedStep,
         t.dp \in Inums => t.dp = th[p].dp \/ IsDir(t.dp),
         t.old \in Inums => t.old = th[p].old \/ NotDir(t.old) \/ NotDir(t.old)'
  PROVE  KindInv'
<1>1. ASSUME NEW i \in Inums, IsDir(i) PROVE IsDir(i)'
  BY <1>1 DEF IsDir, TypesStep, FreedStep
<1>2. ASSUME NEW i \in Inums, NotDir(i) PROVE NotDir(i)'
  BY <1>2 DEF NotDir, TypesStep, FreedStep
<1>3. ASSUME NEW q \in Procs
      PROVE  (/\ th[q].dp \in Inums => IsDir(th[q].dp)
              /\ th[q].old \in Inums => NotDir(th[q].old))'
  <2>1. PICK u : u = th'[q]
    OBVIOUS
  <2>2. u.dp \in Inums => IsDir(u.dp)
    BY <2>1 DEF KindInv, Others
  <2>3. u.old \in Inums => NotDir(u.old) \/ NotDir(u.old)'
    BY <2>1 DEF KindInv, Others
  <2>4. u.dp \in Inums => IsDir(u.dp)'
    BY <1>1, <2>2
  <2>5. u.old \in Inums => NotDir(u.old)'
    BY <1>2, <2>3
  <2>. QED  BY <2>1, <2>4, <2>5 DEF IsDir, NotDir, Freed
<1>. QED  BY <1>3 DEF KindInv

LEMMA EmptyStep ==
  ASSUME EmptyInv, KindInv, NEW p \in Procs, NEW t, th'[p] = t, Others(p), TypesStep, EntsStep(p),
         TypeInv, ControlInv,
         \A i \in Inums : dinode[i].type = "dir" /\ dinode'[i].type # "dir" => Empty(i)',
         t.pc \in {"ifree", "invalid"} => Empty(t.put)'
  PROVE  EmptyInv'
<1>1. ASSUME NEW i \in Inums, Empty(i), ~IsDir(i) PROVE Empty(i)'
  BY <1>1 DEF Empty, EntsStep
<1>2. ASSUME NEW i \in Inums, dinode'[i].type # "dir" PROVE Empty(i)'
  <2>1. CASE dinode[i].type = "dir"
    BY <1>2, <2>1
  <2>2. CASE dinode[i].type # "dir"
    BY <1>1, <2>2 DEF EmptyInv, IsDir
  <2>. QED  BY <2>1, <2>2
<1>3. ASSUME NEW q \in Procs, th'[q].pc \in {"ifree", "invalid"} PROVE Empty(th[q].put)'
  <2>1. PICK i : i = th'[q].put
    OBVIOUS
  <2>2. CASE q = p
    <3>1. Empty(i)'
      BY <1>3, <2>1, <2>2
    <3>. QED  BY <2>1, <3>1 DEF Empty
  <2>3. CASE q # p
    <3>1. th[q].pc \in {"ifree", "invalid"} /\ th[q].put = i
      BY <1>3, <2>1, <2>3 DEF Others
    <3>2. i \in Inums
      BY <3>1 DEF ControlInv, ThreadOk, Putting
    <3>3. Empty(i) /\ ~IsDir(i)
      BY <3>1 DEF EmptyInv, IsDir, Freed, Freeing
    <3>4. Empty(i)'
      BY <1>1, <3>2, <3>3
    <3>. QED  BY <2>1, <3>4 DEF Empty
  <2>. QED  BY <2>2, <2>3
<1>. QED  BY <1>2, <1>3 DEF EmptyInv

LEMMA LookStep ==
  ASSUME CInv, LookInv, NEW p \in Procs, NEW t, th'[p] = t, Others(p), EntsStep(p),
         t.pc = "unlinklock" => t.name \in Names /\ ents'[t.dp][t.name] = t.ip
  PROVE  LookInv'
<1> SUFFICES ASSUME NEW q \in Procs, th'[q].pc = "unlinklock"
             PROVE  th'[q].name \in Names /\ ents'[th'[q].dp][th'[q].name] = th'[q].ip
  BY DEF LookInv
<1>1. CASE q = p
  BY <1>1
<1>2. CASE q # p
  <2>1. PICK u, d : u = th[q] /\ d = u.dp
    OBVIOUS
  <2>2. th'[q] = u /\ u.pc = "unlinklock" /\ u.name \in Names /\ ents[d][u.name] = u.ip
    BY <1>2, <2>1 DEF Others, LookInv
  <2>3. d \in Inums
    <3>1. th[q].pc \in Points /\ th[q].pc \in HaveDp
      BY <2>1, <2>2 DEF Points, HaveDp
    <3>. QED  BY <2>1, <3>1, PointRefs
  <2>4. HasLock(u, d)
    BY <2>1, <2>2 DEF HasLock, Point, Putting, LockedDp
  <2>5. ilk[d] = q
    BY <2>1, <2>3, <2>4 DEF CInv, LockInv
  <2>6. ents'[d][u.name] = ents[d][u.name]
    BY <1>2, <2>2, <2>3, <2>5, FilesAssumption DEF EntsStep
  <2>. QED  BY <2>1, <2>2, <2>6
<1>. QED  BY <1>1, <1>2

\* An edge may come to an inode that has none from it.
LEMMA AcyclicStep ==
  ASSUME Acyclic, NEW k,
         \A d \in Inums, i \in Inums : Edge(d, i)' => Edge(d, i) \/ i = k,
         k \in Inums => \/ \A d \in Inums : Edge(d, k)' => Edge(d, k)
                        \/ \A j \in Inums : ~Edge(k, j)'
  PROVE  Acyclic'
<1> SUFFICES ASSUME NEW S \in (SUBSET Inums) \ {{}}
             PROVE  \E i \in S : \A j \in S : ~Edge(i, j)'
  BY DEF Acyclic
<1>1. PICK i \in S : \A j \in S : ~Edge(i, j)
  BY DEF Acyclic
<1>2. CASE k \in S /\ \A j \in Inums : ~Edge(k, j)'
  BY <1>2
<1>3. CASE ~(k \in S /\ \A j \in Inums : ~Edge(k, j)')
  <2>1. ASSUME NEW j \in S, Edge(i, j)' PROVE FALSE
    BY <1>1, <1>3, <2>1
  <2>. QED  BY <2>1
<1>. QED  BY <1>2, <1>3

\* Entries that are new, and that create() begins to make.
LEMMA EdgeStep ==
  ASSUME NEW p \in Procs, NEW t, th'[p] = t, Others(p), NEW d \in Inums, NEW i \in Inums, Edge(d, i)'
  PROVE  \/ Edge(d, i)
         \/ \E n \in Names : ents'[d][n] = i /\ ents'[d][n] # ents[d][n]
         \/ Pending(t, d, i) /\ ~Pending(th[p], d, i)
<1>1. CASE \E n \in Names : ents'[d][n] = i
  BY <1>1 DEF Edge
<1>2. CASE \E q \in Procs : Pending(th'[q], d, i)
  <2>1. PICK q \in Procs : Pending(th'[q], d, i)
    BY <1>2
  <2>2. CASE q = p
    BY <2>1, <2>2 DEF Edge
  <2>3. CASE q # p
    <3>1. Pending(th[q], d, i)
      BY <2>1, <2>3 DEF Others
    <3>. QED  BY <3>1 DEF Edge
  <2>. QED  BY <2>2, <2>3
<1>3. (\E n \in Names : ents'[d][n] = i) \/ \E q \in Procs : Pending(th'[q], d, i)
  BY DEF Edge, Pending
<1>. QED  BY <1>1, <1>2, <1>3

\* A step that adds no entry and finds nothing new.
Calm(t, u) ==
  /\ u.dp \in {t.dp, NoIno} /\ u.old \in {t.old, NoIno}
  /\ u.pc \notin Freeing \cup {"unlinklock"}
  /\ u.pc \in Making => t.pc \in Making /\ u.dp = t.dp /\ u.ip = t.ip

LEMMA CalmStep ==
  ASSUME CInv, TreeInv, ~panicked, NEW p \in Procs, NEW u, th'[p] = u, Others(p), Calm(th[p], u),
         EntsStep(p), \A d \in Inums, n \in Names : ents'[d][n] \in {ents[d][n], NoIno},
         \A i \in Inums : dinode'[i].type = dinode[i].type
  PROVE  TreeInv'
<1>1. NoIno \notin Inums /\ TypeInv /\ ControlInv /\ KindInv /\ EmptyInv /\ LookInv /\ Acyclic
  BY FilesAssumption DEF CInv, FInv, TreeInv
<1>2. FreedStep /\ TypesStep
  BY FreedSame DEF Calm, TypesStep
<1>3. KindInv'
  BY <1>1, <1>2, KindStep DEF Calm
<1>4. EmptyInv'
  BY <1>1, <1>2, EmptyStep DEF Calm, Freeing
<1>5. LookInv'
  BY <1>1, LookStep DEF Calm
<1>6. ASSUME NEW d \in Inums, NEW i \in Inums, Edge(d, i)' PROVE Edge(d, i)
  <2>1. Pending(u, d, i) => Pending(th[p], d, i)
    BY DEF Calm, Pending
  <2>. QED  BY <1>1, <1>6, <2>1, EdgeStep
<1>7. Acyclic'
  BY <1>1, <1>6, AcyclicStep
<1>. QED  BY <1>3, <1>4, <1>5, <1>7 DEF TreeInv

\* Steps that leave types and entries alone.
TypesSame == \A i \in Inums : dinode'[i].type = dinode[i].type

LEMMA QuietTree ==
  ASSUME CInv, TreeInv, ~panicked, NEW p \in Procs, NEW u, th'[p] = u, Others(p), Calm(th[p], u),
         ents' = ents, TypesSame
  PROVE  TreeInv'
BY CalmStep DEF EntsStep, TypesSame

\* What ilock() shows, in a step that locks the inode or has it locked.
LEMMA LoadedType ==
  ASSUME CInv, ~panicked, NEW p \in Procs, NEW i \in Inums, Refers(th[p], i),
         ilk[i] = Nobody \/ (ilk[i] = p /\ th[p].pc # "invalid")
  PROVE  Loaded(i) = dinode[i]
<1>1. itab[i].ref > 0
  BY HeldRef DEF CInv
<1>. QED  BY <1>1, LoadedTyped DEF Loaded

LEMMA UpdateTypes ==
  ASSUME DiskTypes, NEW i \in Inums, NEW d, Update(i, d), d.type = dinode[i].type
  PROVE  TypesSame
BY DEF TypesSame, Update, DiskTypes

LEMMA PutCalm ==
  ASSUME CInv, NEW p \in Procs, NEW v \in {"ip", "dp", "old"}, NEW r, IputThen(p, v, r)
  PROVE  Others(p) /\ Calm(th[p], th'[p])
<1>1. th \in [Procs -> Thread] /\ th[p] \in Thread
  BY DEF CInv, FInv, TypeInv
<1>2. CASE v = "ip"
  BY <1>1, <1>2 DEF IputThen, Thread, Others, Calm, Freeing, Making
<1>3. CASE v = "dp"
  BY <1>1, <1>3 DEF IputThen, Thread, Others, Calm, Freeing, Making
<1>4. CASE v = "old"
  BY <1>1, <1>4 DEF IputThen, Thread, Others, Calm, Freeing, Making
<1>. QED  BY <1>2, <1>3, <1>4

LEMMA PutTree ==
  ASSUME CInv, TreeInv, ~panicked, NEW p \in Procs, NEW v \in {"ip", "dp", "old"}, NEW r,
         IputThen(p, v, r), ents' = ents, TypesSame
  PROVE  TreeInv'
<1>1. PICK u : u = th'[p]
  OBVIOUS
<1>. QED  BY <1>1, PutCalm, QuietTree

LEMMA RejectTree ==
  ASSUME CInv, TreeInv, ~panicked, NEW p \in Procs, NEW v \in {"ip", "dp", "old"}, NEW r,
         Reject(p, v, r)
  PROVE  TreeInv'
BY PutTree DEF Reject, disk, TypesSame

LEMMA UnlockPutTree ==
  ASSUME CInv, TreeInv, ~panicked, NEW p \in Procs, NEW v \in {"ip", "dp", "old"}, NEW r,
         iunlockput(p, v, r)
  PROVE  TreeInv'
BY PutTree DEF iunlockput, disk, TypesSame

\* To a point that is not one of create() with an entry, nor of unlink() with one found.
LEMMA JumpTree ==
  ASSUME CInv, TreeInv, ~panicked, NEW p \in Procs, NEW c \in Points \ (Making \cup {"unlinklock"}),
         th' = [th EXCEPT ![p].pc = c], ents' = ents, TypesSame
  PROVE  TreeInv'
<1>1. th \in [Procs -> Thread] /\ th[p] \in Thread
  BY DEF CInv, FInv, TypeInv
<1>2. PICK u : u = [th[p] EXCEPT !.pc = c]
  OBVIOUS
<1>3. th'[p] = u /\ Others(p) /\ u.pc = c /\ u.dp = th[p].dp /\ u.old = th[p].old
  BY <1>1, <1>2 DEF Others, Thread
<1>4. Calm(th[p], u)
  BY <1>3 DEF Calm, Points, Freeing
<1>. QED  BY <1>3, <1>4, QuietTree

LEMMA StartTree ==
  ASSUME CInv, TreeInv, ~panicked, NEW p \in Procs, StartCall(p)
  PROVE  TreeInv'
<1>1. th \in [Procs -> Thread] /\ th[p] \in Thread
  BY DEF CInv, FInv, TypeInv
<1>2. PICK c \in Programs[prog][p] :
        /\ th' = [th EXCEPT ![p].call = c, ![p].path = Elements(c.path), ![p].ip = From(p, c.path),
             ![p].pc = IF c.op \in {"mkdir", "mknod", "creat", "unlink"} THEN "nameiparent" ELSE "namei"]
        /\ UNCHANGED disk
  BY DEF StartCall
<1>3. PICK u : u = th'[p]
  OBVIOUS
<1>4. /\ Others(p) /\ u.pc \in {"namei", "nameiparent"} /\ u.dp = th[p].dp /\ u.old = th[p].old
  BY <1>1, <1>2, <1>3 DEF Others, Thread
<1>5. Calm(th[p], u)
  BY <1>4 DEF Calm, Freeing, Making
<1>. QED  BY <1>2, <1>3, <1>4, <1>5, QuietTree DEF disk, TypesSame

LEMMA WalkTree ==
  ASSUME CInv, TreeInv, ~panicked, NEW p \in Procs, WalkFails(p) \/ WalkOn(p) \/ WalkNowhere(p)
  PROVE  TreeInv'
<1>1. th \in [Procs -> Thread] /\ th[p] \in Thread /\ "ip" \in {"ip", "dp", "old"}
  BY DEF CInv, FInv, TypeInv
<1>2. CASE WalkFails(p)
  BY <1>1, <1>2, RejectTree DEF WalkFails
<1>3. CASE WalkOn(p)
  <2>1. PICK i, e : i = NextIno(p) /\ e = Tail(th[p].path)
    OBVIOUS
  <2>2. /\ th' = [th EXCEPT ![p].pc = "iput", ![p].put = th[p].ip, ![p].ret = th[p].pc,
                            ![p].ip = i, ![p].path = e]
        /\ UNCHANGED disk
    BY <1>3, <2>1 DEF WalkOn
  <2>3. PICK u : u = th'[p]
    OBVIOUS
  <2>4. Others(p) /\ u.pc = "iput" /\ u.dp = th[p].dp /\ u.old = th[p].old
    BY <1>1, <2>2, <2>3 DEF Others, Thread
  <2>5. Calm(th[p], u)
    BY <2>4 DEF Calm, Freeing, Making
  <2>. QED  BY <2>2, <2>3, <2>4, <2>5, QuietTree DEF disk, TypesSame
<1>4. CASE WalkNowhere(p)
  BY <1>1, <1>4, PutTree DEF WalkNowhere, disk, TypesSame
<1>. QED  BY <1>2, <1>3, <1>4

\* nameiparent() has found a directory, which nobody is freeing.
LEMMA ParentTree ==
  ASSUME CInv, TreeInv, ~panicked, NEW p \in Procs, WalkToParent(p)
  PROVE  TreeInv'
<1>1. PICK i, n, c : /\ i = th[p].ip /\ n = Head(th[p].path)
                     /\ c = IF th[p].call.op \in {"mkdir", "mknod", "creat"} THEN "create" ELSE th[p].call.op
  OBVIOUS
<1>2. /\ th[p].pc = "nameiparent" /\ th[p].path # <<>> /\ Loaded(i).type = "dir" /\ UNCHANGED disk
      /\ th' = [th EXCEPT ![p].pc = c, ![p].dp = i, ![p].ip = NoIno, ![p].name = n, ![p].path = <<>>]
  BY <1>1 DEF WalkToParent, Walking, AtLast
<1>3. ilk[i] = Nobody
  BY <1>1, <1>2 DEF WalkToParent, Walking, At, WaitsFor
<1>4. th[p].pc \in Points /\ th[p].pc \in HaveIp
  BY <1>2 DEF Points, HaveIp
<1>5. /\ th \in [Procs -> Thread] /\ th[p] \in Thread /\ i \in Inums
      /\ TypeInv /\ ControlInv /\ KindInv /\ EmptyInv /\ LookInv /\ Acyclic
  BY <1>1, <1>4, PointRefs DEF CInv, FInv, TreeInv
<1>6. c \in {"create", "unlink", "link"}
  <2>1. Point(th[p]) = "nameiparent" /\ ThreadOk(th[p])
    BY <1>2, <1>4, <1>5, CallLocks DEF ControlInv
  <2>. QED  BY <1>1, <2>1 DEF ThreadOk
<1>7. PICK u : u = th'[p]
  OBVIOUS
<1>8. Others(p) /\ u.pc = c /\ u.dp = i /\ u.old = th[p].old
  BY <1>2, <1>5, <1>7 DEF Others, Thread
<1>9. IsDir(i)
  <2>1. Refers(th[p], i)
    BY <1>1, <1>2 DEF Refers, Held
  <2>2. Loaded(i) = dinode[i] /\ ~Freed(i)
    BY <1>3, <1>5, <2>1, LoadedType, NotBeingFreed
  <2>. QED  BY <1>2, <2>2 DEF IsDir
<1>10. FreedStep /\ TypesStep /\ EntsStep(p)
  BY <1>2, <1>6, <1>7, <1>8, FreedSame DEF Freeing, TypesStep, EntsStep, disk
<1>11. KindInv'
  BY <1>5, <1>7, <1>8, <1>9, <1>10, KindStep
<1>12. EmptyInv'
  <2>1. \A j \in Inums : dinode'[j].type = dinode[j].type
    BY <1>2 DEF disk
  <2>. QED  BY <1>5, <1>6, <1>7, <1>8, <1>10, <2>1, EmptyStep
<1>13. LookInv'
  BY <1>5, <1>6, <1>7, <1>8, <1>10, LookStep
<1>14. Acyclic'
  <2>1. ASSUME NEW d \in Inums, NEW j \in Inums, Edge(d, j)' PROVE Edge(d, j)
    <3>1. ~Pending(u, d, j) /\ ents' = ents
      BY <1>2, <1>6, <1>8 DEF Pending, Making, disk
    <3>. QED  BY <1>7, <1>8, <2>1, <3>1, EdgeStep
  <2>. QED  BY <1>5, <2>1, AcyclicStep
<1>. QED  BY <1>11, <1>12, <1>13, <1>14 DEF TreeInv

LEMMA HoldTree ==
  ASSUME CInv, TreeInv, ~panicked, NEW p \in Procs, NEW v, NEW c \in Points \ (Making \cup {"unlinklock"}),
         Hold(p, v, c)
  PROVE  TreeInv'
BY JumpTree DEF Hold, disk, TypesSame

\* The steps of iput().
LEMMA ReturnTree ==
  ASSUME CInv, TreeInv, ~panicked, NEW p \in Procs, Return(p), UNCHANGED disk
  PROVE  TreeInv'
<1>1. /\ th \in [Procs -> Thread] /\ th[p] \in Thread
  BY DEF CInv, FInv, TypeInv
<1>2. PICK u : u = th'[p]
  OBVIOUS
<1>3. u = IF th[p].ret = "user" THEN Idle
          ELSE [th[p] EXCEPT !.pc = th[p].ret, !.put = NoIno, !.ret = "user"]
  BY <1>1, <1>2 DEF Return
<1>4. Others(p)
  BY <1>1 DEF Return, Others
<1>5. CASE th[p].ret = "user"
  <2>1. u.pc = "user" /\ u.dp = NoIno /\ u.old = NoIno
    BY <1>3, <1>5 DEF Idle
  <2>2. Calm(th[p], u)
    BY <2>1 DEF Calm, Freeing, Making
  <2>. QED  BY <1>2, <1>4, <2>2, QuietTree DEF disk, TypesSame
<1>6. CASE th[p].ret # "user"
  <2>1. u.pc = th[p].ret /\ u.dp = th[p].dp /\ u.old = th[p].old /\ th[p].ret \in Returns
    BY <1>1, <1>3, <1>6 DEF Thread
  <2>2. Calm(th[p], u)
    BY <2>1 DEF Calm, Freeing, Making, Returns, Points
  <2>. QED  BY <1>2, <1>4, <2>2, QuietTree DEF disk, TypesSame
<1>. QED  BY <1>5, <1>6

LEMMA CreateFindTree ==
  ASSUME CInv, TreeInv, ~panicked, NEW p \in Procs, CreateExists(p) \/ CreateFound(p) \/ CreateNew(p)
  PROVE  TreeInv'
<1>1. /\ th \in [Procs -> Thread] /\ th[p] \in Thread /\ "ip" \in {"ip", "dp", "old"}
      /\ {"opened", "ialloc"} \subseteq Points \ (Making \cup {"unlinklock"})
  BY DEF CInv, FInv, TypeInv, Points, Making
<1>2. CASE CreateExists(p)
  <2>1. PICK i : i = Lookup(th[p].dp, th[p].name)
    OBVIOUS
  <2>2. /\ th' = [th EXCEPT ![p].pc = "iput", ![p].put = th[p].dp, ![p].dp = NoIno, ![p].ip = i,
                            ![p].ret = "createfound"]
        /\ UNCHANGED disk
    BY <1>2, <2>1 DEF CreateExists
  <2>3. PICK u : u = th'[p]
    OBVIOUS
  <2>4. Others(p) /\ u.pc = "iput" /\ u.dp = NoIno /\ u.old = th[p].old
    BY <1>1, <2>2, <2>3 DEF Others, Thread
  <2>5. Calm(th[p], u)
    BY <2>4 DEF Calm, Freeing, Making
  <2>. QED  BY <2>2, <2>3, <2>4, <2>5, QuietTree DEF disk, TypesSame
<1>3. CASE CreateFound(p)
  <2>1. Hold(p, "ip", "opened") \/ Reject(p, "ip", "user")
    BY <1>3 DEF CreateFound
  <2>2. CASE Hold(p, "ip", "opened")
    BY <1>1, <2>2, HoldTree
  <2>3. CASE Reject(p, "ip", "user")
    BY <1>1, <2>3, RejectTree
  <2>. QED  BY <2>1, <2>2, <2>3
<1>4. CASE CreateNew(p)
  BY <1>1, <1>4, HoldTree DEF CreateNew
<1>. QED  BY <1>2, <1>3, <1>4

\* create() goes on with the inode it has allocated.
LEMMA IallocIgetTree ==
  ASSUME CInv, TreeInv, ~panicked, NEW p \in Procs, IallocIget(p)
  PROVE  TreeInv'
<1>1. /\ th \in [Procs -> Thread] /\ th[p] \in Thread
  BY DEF CInv, FInv, TypeInv
<1>2. PICK u : u = th'[p]
  OBVIOUS
<1>3. /\ Others(p) /\ th[p].pc = "iget" /\ u.pc = "createinit"
      /\ u.dp = th[p].dp /\ u.old = th[p].old /\ u.ip = th[p].ip
  BY <1>1, <1>2 DEF IallocIget, Others, Thread
<1>4. Calm(th[p], u)
  BY <1>3 DEF Calm, Freeing, Making
<1>. QED  BY <1>2, <1>3, <1>4, QuietTree DEF IallocIget, disk, TypesSame

\* The steps of create() that give up, and the last ones of mkdir() and mknod().
LEMMA CreateEndTree ==
  ASSUME CInv, TreeInv, ~panicked, NEW p \in Procs,
         IallocFails(p) \/ CreateLinkFails(p) \/ CreateFail(p) \/ DropParent(p) \/ Made(p)
  PROVE  TreeInv'
<1>1. "ip" \in {"ip", "dp", "old"} /\ "dp" \in {"ip", "dp", "old"}
  OBVIOUS
<1>2. CASE IallocFails(p)
  BY <1>1, <1>2, UnlockPutTree DEF IallocFails
<1>3. CASE CreateLinkFails(p)
  <2>1. "createfail" \in Points \ (Making \cup {"unlinklock"})
    BY DEF Points, Making
  <2>. QED  BY <1>3, <2>1, JumpTree DEF CreateLinkFails, disk, TypesSame
<1>4. CASE CreateFail(p)
  <2>1. PICK i, d : i = th[p].ip /\ d = [Loaded(i) EXCEPT !.nlink = 0]
    OBVIOUS
  <2>2. /\ th[p].pc = "createfail" /\ Update(i, d) /\ IputThen(p, "ip", "dropparent") /\ ents' = ents
    BY <1>4, <2>1 DEF CreateFail
  <2>3. th[p].pc \in Points /\ th[p].pc \in HaveIp
    BY <2>2 DEF Points, HaveIp
  <2>4. i \in Inums /\ DiskTypes
    BY <2>1, <2>3, PointRefs
  <2>5. HasLock(th[p], i) /\ th[p].pc # "invalid"
    BY <2>1, <2>2 DEF HasLock, Point, Putting, LockedIp
  <2>6. Loaded(i) = dinode[i]
    BY <2>4, <2>5, LockedTyped
  <2>7. d.type = dinode[i].type
    BY <2>1, <2>4, <2>6 DEF DiskTypes, Inode
  <2>8. TypesSame
    BY <2>2, <2>4, <2>7, UpdateTypes
  <2>. QED  BY <1>1, <2>2, <2>8, PutTree
<1>5. CASE DropParent(p)
  BY <1>1, <1>5, UnlockPutTree DEF DropParent
<1>6. CASE Made(p)
  BY <1>1, <1>6, UnlockPutTree DEF Made
<1>. QED  BY <1>2, <1>3, <1>4, <1>5, <1>6

LEMMA OpenTree ==
  ASSUME CInv, TreeInv, ~panicked, NEW p \in Procs, OpenLock(p) \/ OpenFails(p) \/ Chdir(p)
  PROVE  TreeInv'
<1>1. /\ th \in [Procs -> Thread] /\ th[p] \in Thread /\ "ip" \in {"ip", "dp", "old"}
      /\ "opened" \in Points \ (Making \cup {"unlinklock"})
  BY DEF CInv, FInv, TypeInv, Points, Making
<1>2. CASE OpenLock(p)
  <2>1. Hold(p, "ip", "opened") \/ Reject(p, "ip", "user")
    BY <1>2 DEF OpenLock
  <2>2. CASE Hold(p, "ip", "opened")
    BY <1>1, <2>2, HoldTree
  <2>3. CASE Reject(p, "ip", "user")
    BY <1>1, <2>3, RejectTree
  <2>. QED  BY <2>1, <2>2, <2>3
<1>3. CASE OpenFails(p)
  BY <1>1, <1>3, UnlockPutTree DEF OpenFails
<1>4. CASE Chdir(p)
  <2>1. CASE Reject(p, "ip", "user")
    BY <1>1, <2>1, RejectTree
  <2>2. CASE ~Reject(p, "ip", "user")
    <3>1. /\ th' = [th EXCEPT ![p].pc = "iput", ![p].put = cwd[p], ![p].ip = NoIno]
          /\ UNCHANGED disk
      BY <1>4, <2>2 DEF Chdir
    <3>2. PICK u : u = th'[p]
      OBVIOUS
    <3>3. Others(p) /\ u.pc = "iput" /\ u.dp = th[p].dp /\ u.old = th[p].old
      BY <1>1, <3>1, <3>2 DEF Others, Thread
    <3>4. Calm(th[p], u)
      BY <3>3 DEF Calm, Freeing, Making
    <3>. QED  BY <3>1, <3>2, <3>3, <3>4, QuietTree DEF disk, TypesSame
  <2>. QED  BY <2>1, <2>2
<1>. QED  BY <1>2, <1>3, <1>4

\* One link less leaves an inode what it is.
LEMMA DropTree ==
  ASSUME CInv, TreeInv, ~panicked, NEW p \in Procs, NEW v \in {"ip", "dp", "old"}, NEW i \in Inums,
         DropLink(i), IputThen(p, v, "user"), ents' = ents, Loaded(i) = dinode[i]
  PROVE  TreeInv'
<1>1. DiskTypes
  BY DEF CInv, FInv, TypeInv
<1>2. PICK d : d = [Loaded(i) EXCEPT !.nlink = Loaded(i).nlink - 1]
  OBVIOUS
<1>3. Update(i, d)
  BY <1>2 DEF DropLink
<1>4. d.type = dinode[i].type
  BY <1>1, <1>2 DEF DiskTypes, Inode
<1>5. TypesSame
  BY <1>1, <1>3, <1>4, UpdateTypes
<1>. QED  BY <1>5, PutTree

LEMMA UnlinkFailTree ==
  ASSUME CInv, TreeInv, ~panicked, NEW p \in Procs,
         UnlinkNothing(p) \/ UnlinkNotEmpty(p) \/ UnlinkDec(p)
  PROVE  TreeInv'
<1>1. "ip" \in {"ip", "dp", "old"} /\ "dp" \in {"ip", "dp", "old"}
  OBVIOUS
<1>2. CASE UnlinkNothing(p)
  BY <1>1, <1>2, RejectTree DEF UnlinkNothing
<1>3. CASE UnlinkNotEmpty(p)
  BY <1>1, <1>3, RejectTree DEF UnlinkNotEmpty
<1>4. CASE UnlinkDec(p)
  <2>1. PICK i : i = th[p].ip
    OBVIOUS
  <2>2. /\ th[p].pc = "unlinkdec" /\ DropLink(i) /\ IputThen(p, "ip", "user") /\ ents' = ents
    BY <1>4, <2>1 DEF UnlinkDec
  <2>3. th[p].pc \in Points /\ th[p].pc \in HaveIp
    BY <2>2 DEF Points, HaveIp
  <2>4. i \in Inums
    BY <2>1, <2>3, PointRefs
  <2>5. HasLock(th[p], i) /\ th[p].pc # "invalid"
    BY <2>1, <2>2 DEF HasLock, Point, Putting, LockedIp
  <2>6. Loaded(i) = dinode[i]
    BY <2>4, <2>5, LockedTyped
  <2>. QED  BY <1>1, <2>2, <2>4, <2>6, DropTree
<1>. QED  BY <1>2, <1>3, <1>4

LEMMA LinkFailTree ==
  ASSUME CInv, TreeInv, ~panicked, NEW p \in Procs,
         LinkDir(p) \/ LinkExists(p) \/ LinkDrop(p) \/ LinkFails(p) \/ LinkPut(p) \/ LinkBad(p)
  PROVE  TreeInv'
<1>1. "ip" \in {"ip", "dp", "old"} /\ "dp" \in {"ip", "dp", "old"} /\ "old" \in {"ip", "dp", "old"}
  OBVIOUS
<1>2. CASE LinkDir(p)
  BY <1>1, <1>2, RejectTree DEF LinkDir
<1>3. CASE LinkFails(p)
  BY <1>1, <1>3, RejectTree DEF LinkFails
<1>4. CASE LinkPut(p)
  BY <1>1, <1>4, PutTree DEF LinkPut, disk, TypesSame
<1>5. CASE LinkBad(p)
  <2>1. PICK i : i = th[p].old
    OBVIOUS
  <2>2. /\ th[p].pc = "linkbad" /\ ilk[i] = Nobody /\ DropLink(i) /\ IputThen(p, "old", "user")
        /\ ents' = ents
    BY <1>5, <2>1 DEF LinkBad, At, WaitsFor
  <2>3. th[p].pc \in Points /\ th[p].pc \in HaveOld
    BY <2>2 DEF Points, HaveOld
  <2>4. i \in Inums
    BY <2>1, <2>3, PointRefs
  <2>5. Refers(th[p], i)
    BY <2>1 DEF Refers
  <2>6. Loaded(i) = dinode[i]
    BY <2>2, <2>4, <2>5, LoadedType
  <2>. QED  BY <1>1, <2>2, <2>4, <2>6, DropTree
<1>6. CASE LinkExists(p)
  <2>1. PICK i : i = Lookup(th[p].dp, th[p].name)
    OBVIOUS
  <2>2. /\ th' = [th EXCEPT ![p].pc = "iput", ![p].put = i, ![p].ret = "linkdrop"]
        /\ UNCHANGED disk
    BY <1>6, <2>1 DEF LinkExists
  <2>3. th \in [Procs -> Thread] /\ th[p] \in Thread
    BY DEF CInv, FInv, TypeInv
  <2>4. PICK u : u = th'[p]
    OBVIOUS
  <2>5. Others(p) /\ u.pc = "iput" /\ u.dp = th[p].dp /\ u.old = th[p].old
    BY <2>2, <2>3, <2>4 DEF Others, Thread
  <2>6. Calm(th[p], u)
    BY <2>5 DEF Calm, Freeing, Making
  <2>. QED  BY <2>2, <2>4, <2>5, <2>6, QuietTree DEF disk, TypesSame
<1>7. CASE LinkDrop(p)
  BY <1>1, <1>7, PutTree DEF LinkDrop, iunlockput, disk, TypesSame
<1>. QED  BY <1>2, <1>3, <1>4, <1>5, <1>6, <1>7

\* The inode of an open file has a reference.
LEMMA FileRef ==
  ASSUME FInv, NEW f \in 1..NFILE, NEW i \in Inums, file[f].ref > 0, file[f].ip = i
  PROVE  itab[i].ref > 0
<1>1. PICK F, k : F = Ptr /\ k = <<f, "file">>
  OBVIOUS
<1>2. k \in Places /\ F[k] = i
  BY <1>1, PtrAt DEF Places, PtrShape, FileIno
<1>3. Finite(F) /\ k \in DOMAIN F
  BY <1>1, <1>2, PlacesFinite DEF Finite
<1>4. Count(F, i) \in Nat \ {0}
  BY <1>2, <1>3, CountType
<1>. QED  BY <1>1, <1>4 DEF FInv, RefInv

LEMMA WriteTypes ==
  ASSUME CInv, ~panicked, NEW p \in Procs, Write(p)
  PROVE  TypesSame
<1>1. PICK fd \in FDs, copied \in BOOLEAN :
        LET f == ofile[p][fd]
            i == file[f].ip
            new == IF Loaded(i).addrs = {} /\ Unused # {} THEN {balloc} ELSE {}
            a == Loaded(i).addrs \cup new
        IN  /\ th[p].pc = "user" /\ f # 0 /\ ilk[i] = Nobody
            /\ Update(i, [Loaded(i) EXCEPT !.addrs = a, !.size = IF copied /\ a # {} THEN 1 ELSE @])
  BY DEF Write
<1>2. PICK f, i : f = ofile[p][fd] /\ i = file[f].ip
  OBVIOUS
<1>3. PICK new, a : /\ new = (IF Loaded(i).addrs = {} /\ Unused # {} THEN {balloc} ELSE {})
                    /\ a = Loaded(i).addrs \cup new
  OBVIOUS
<1>4. PICK d : d = [Loaded(i) EXCEPT !.addrs = a, !.size = IF copied /\ a # {} THEN 1 ELSE @]
  OBVIOUS
<1>5. th[p].pc = "user" /\ f # 0 /\ ilk[i] = Nobody /\ Update(i, d)
  BY <1>1, <1>2, <1>3, <1>4
<1>6. i \in Inums /\ itab[i].ref > 0
  <2>1. ofile \in [Procs -> [FDs -> 0..NFILE]] /\ FInv /\ FileInv
    BY DEF CInv, FInv, TypeInv, UserTypes
  <2>2. f \in 1..NFILE
    BY <1>2, <1>5, <2>1, FilesAssumption
  <2>3. file[f].ref > 0
    BY <1>2, <1>5, <2>1, <2>2, FdOpen
  <2>4. i \in Inums
    BY <1>2, <2>1, <2>2, <2>3 DEF FileInv
  <2>. QED  BY <1>2, <2>1, <2>2, <2>3, <2>4, FileRef
<1>7. Loaded(i) = dinode[i] /\ DiskTypes
  BY <1>5, <1>6, LoadedTyped DEF Loaded, CInv, FInv, TypeInv
<1>8. d.type = dinode[i].type
  BY <1>4, <1>6, <1>7 DEF DiskTypes, Inode
<1>. QED  BY <1>5, <1>6, <1>7, <1>8, UpdateTypes

\* The calls on descriptors leave the tree alone.
LEMMA FilecloseTree ==
  ASSUME CInv, TreeInv, ~panicked, NEW p \in Procs, NEW fd \in FDs, NEW r \in {"user", "exit"},
         fileclose(p, fd, r)
  PROVE  TreeInv'
<1>1. th \in [Procs -> Thread] /\ th[p] \in Thread
  BY DEF CInv, FInv, TypeInv
<1>2. PICK u, i : u = th'[p] /\ i = file[ofile[p][fd]].ip
  OBVIOUS
<1>3. \/ th' = [th EXCEPT ![p].pc = r]
      \/ th' = [th EXCEPT ![p].pc = "iput", ![p].put = i, ![p].ret = r]
  BY <1>2 DEF fileclose
<1>4. Others(p) /\ u.pc \in {"user", "exit", "iput"} /\ u.dp = th[p].dp /\ u.old = th[p].old
  BY <1>1, <1>2, <1>3 DEF Others, Thread
<1>5. Calm(th[p], u)
  BY <1>4 DEF Calm, Freeing, Making
<1>. QED  BY <1>2, <1>4, <1>5, QuietTree DEF fileclose, disk, TypesSame

LEMMA FileTree ==
  ASSUME CInv, TreeInv, ~panicked, NEW p \in Procs,
         Write(p) \/ Dup(p) \/ Close(p) \/ Exit(p) \/ \E q \in Procs : Fork(p, q)
  PROVE  TreeInv'
<1>1. ASSUME th' = th, th[p].pc = "user", ents' = ents, TypesSame PROVE TreeInv'
  <2>1. PICK u : u = th'[p]
    OBVIOUS
  <2>2. Others(p) /\ Calm(th[p], u)
    BY <1>1, <2>1 DEF Others, Calm, Freeing, Making
  <2>. QED  BY <1>1, <2>1, <2>2, QuietTree
<1>2. CASE Write(p)
  BY <1>1, <1>2, WriteTypes DEF Write
<1>3. CASE Dup(p)
  BY <1>1, <1>3 DEF Dup, disk, TypesSame
<1>4. CASE Close(p)
  BY <1>4, FilecloseTree DEF Close
<1>5. CASE Exit(p)
  <2>1. CASE \E fd \in FDs : fileclose(p, fd, "exit")
    BY <2>1, FilecloseTree
  <2>2. CASE ~(\E fd \in FDs : fileclose(p, fd, "exit"))
    <3>1. th' = [th EXCEPT ![p].pc = "iput", ![p].put = cwd[p]] /\ UNCHANGED disk
      BY <1>5, <2>2 DEF Exit
    <3>2. PICK u : u = th'[p]
      OBVIOUS
    <3>3. th \in [Procs -> Thread] /\ th[p] \in Thread
      BY DEF CInv, FInv, TypeInv
    <3>4. Others(p) /\ u.pc = "iput" /\ u.dp = th[p].dp /\ u.old = th[p].old
      BY <3>1, <3>2, <3>3 DEF Others, Thread
    <3>5. Calm(th[p], u)
      BY <3>4 DEF Calm, Freeing, Making
    <3>. QED  BY <3>1, <3>2, <3>4, <3>5, QuietTree DEF disk, TypesSame
  <2>. QED  BY <2>1, <2>2
<1>6. ASSUME NEW q \in Procs, Fork(p, q) PROVE TreeInv'
  BY <1>1, <1>6 DEF Fork, disk, TypesSame
<1>. QED  BY <1>2, <1>3, <1>4, <1>5, <1>6

\* The parts of the invariant, for the steps that change the tree.
LEMMA GrowTree ==
  ASSUME CInv, TreeInv, ~panicked, NEW p \in Procs, NEW u, th'[p] = u, Others(p),
         FreedStep, TypesStep, EntsStep(p),
         u.dp \in Inums => u.dp = th[p].dp,
         u.old \in Inums => u.old = th[p].old \/ NotDir(u.old)',
         \A i \in Inums : dinode[i].type = "dir" /\ dinode'[i].type # "dir" => Empty(i)',
         u.pc \in {"ifree", "invalid"} => Empty(u.put)',
         u.pc = "unlinklock" => u.name \in Names /\ ents'[u.dp][u.name] = u.ip,
         Acyclic'
  PROVE  TreeInv'
<1>1. TypeInv /\ ControlInv /\ KindInv /\ EmptyInv /\ LookInv
  BY DEF CInv, FInv, TreeInv
<1>2. KindInv'
  BY <1>1, KindStep
<1>3. EmptyInv'
  BY <1>1, EmptyStep
<1>4. LookInv'
  BY <1>1, LookStep
<1>. QED  BY <1>2, <1>3, <1>4 DEF TreeInv

\* No entry is added, and none is about to be.
LEMMA FewerEdges ==
  ASSUME Acyclic, NEW p \in Procs, NEW u, th'[p] = u, Others(p), NoIno \notin Inums,
         \A d \in Inums, n \in Names : ents'[d][n] \in {ents[d][n], NoIno},
         u.pc \in Making => th[p].pc \in Making /\ u.dp = th[p].dp /\ u.ip = th[p].ip
  PROVE  Acyclic'
<1>1. ASSUME NEW d \in Inums, NEW i \in Inums, Edge(d, i)' PROVE Edge(d, i)
  <2>1. Pending(u, d, i) => Pending(th[p], d, i)
    BY DEF Pending
  <2>. QED  BY <1>1, <2>1, EdgeStep
<1>. QED  BY <1>1, AcyclicStep

\* The last reference is that of iput(): nobody is in the directory, nor about to lock it.
LEMMA LastTree ==
  ASSUME CInv, TreeInv, ~panicked, NEW p \in Procs, IputLast(p)
  PROVE  TreeInv'
<1>1. /\ th \in [Procs -> Thread] /\ th[p] \in Thread /\ ThreadOk(th[p]) /\ FInv /\ NoIno \notin Inums
      /\ TypeInv /\ ControlInv /\ KindInv /\ EmptyInv /\ LookInv /\ Acyclic
  BY FilesAssumption DEF CInv, FInv, TypeInv, ControlInv, TreeInv
<1>2. PICK i, u : i = th[p].put /\ u = th'[p]
  OBVIOUS
<1>3. /\ th[p].pc = "iput" /\ LastUse(i) /\ th' = [th EXCEPT ![p].pc = "itrunc"] /\ UNCHANGED disk
  BY <1>2 DEF IputLast
<1>4. Others(p) /\ u.pc = "itrunc" /\ u.put = i /\ u.dp = th[p].dp /\ u.old = th[p].old
  BY <1>1, <1>2, <1>3 DEF Others, Thread
<1>5. i \in Inums
  BY <1>1, <1>2, <1>3 DEF ThreadOk, Putting
<1>6. ASSUME NEW q \in Procs PROVE th[q].dp # i /\ th[q].old # i
  <2>1. /\ <<p, "put">> \in Places /\ <<q, "dp">> \in Places /\ <<q, "old">> \in Places
        /\ Ptr[<<p, "put">>] = i /\ Ptr[<<q, "dp">>] = th[q].dp /\ Ptr[<<q, "old">>] = th[q].old
    BY <1>2, PtrAt DEF Places, Vars, PtrShape
  <2>2. <<p, "put">> # <<q, "dp">> /\ <<p, "put">> # <<q, "old">>
    OBVIOUS
  <2>3. itab[i].ref = 1
    BY <1>3 DEF LastUse
  <2>. QED  BY <1>1, <1>5, <2>1, <2>2, <2>3, TwoRefs
<1>7. ASSUME NEW j \in Inums, j # i PROVE Freed(j)' => Freed(j)
  <2> SUFFICES ASSUME NEW q \in Procs, th'[q].pc \in Freeing, th'[q].put = j PROVE Freed(j)
    BY DEF Freed
  <2>1. q # p
    BY <1>2, <1>4, <1>7
  <2>2. th[q].pc \in Freeing /\ th[q].put = j
    BY <1>4, <2>1 DEF Others
  <2>. QED  BY <2>2 DEF Freed
<1>8. \A j \in Inums \ {i} : (IsDir(j) => IsDir(j)') /\ (NotDir(j) => NotDir(j)')
  BY <1>3, <1>7 DEF IsDir, NotDir, disk
<1>9. KindInv'
  <2>1. ASSUME NEW q \in Procs
        PROVE  (/\ th[q].dp \in Inums => IsDir(th[q].dp)
                /\ th[q].old \in Inums => NotDir(th[q].old))'
    <3>1. PICK d, o : d = th[q].dp /\ o = th[q].old
      OBVIOUS
    <3>2. th'[q].dp = d /\ th'[q].old = o
      BY <1>2, <1>4, <3>1 DEF Others
    <3>3. (d \in Inums => IsDir(d)) /\ (o \in Inums => NotDir(o)) /\ d # i /\ o # i
      BY <1>1, <1>6, <3>1 DEF KindInv
    <3>4. (d \in Inums => IsDir(d)') /\ (o \in Inums => NotDir(o)')
      BY <1>8, <3>3
    <3>. QED  BY <3>2, <3>4 DEF IsDir, NotDir, Freed
  <2>. QED  BY <2>1 DEF KindInv
<1>10. TypesStep /\ EntsStep(p) /\ ents' = ents /\ dinode' = dinode
  BY <1>3 DEF TypesStep, EntsStep, disk
<1>11. EmptyInv'
  BY <1>1, <1>2, <1>4, <1>10, EmptyStep
<1>12. LookInv'
  BY <1>1, <1>2, <1>4, <1>10, LookStep
<1>13. Acyclic'
  <2>1. u.pc \notin Making
    BY <1>4 DEF Making
  <2>. QED  BY <1>1, <1>2, <1>4, <1>10, <2>1, FewerEdges
<1>. QED  BY <1>9, <1>11, <1>12, <1>13 DEF TreeInv

\* itrunc() of an inode that is locked takes the entries and leaves the type.
LEMMA ItruncTree ==
  ASSUME CInv, ~panicked, NEW p \in Procs, NEW i \in Inums, HasLock(th[p], i), th[p].pc # "invalid",
         itrunc(i)
  PROVE  /\ TypesSame /\ EntsStep(p) /\ Empty(i)'
         /\ \A d \in Inums, n \in Names : ents'[d][n] \in {ents[d][n], NoIno}
<1>1. DiskTypes
  BY DEF CInv, FInv, TypeInv
<1>2. ilk[i] = p /\ itab[i].d = dinode[i]
  BY LockedTyped
<1>3. PICK d : d = [itab[i].d EXCEPT !.addrs = {}, !.size = 0]
  OBVIOUS
<1>4. Update(i, d) /\ ents' = [ents EXCEPT ![i] = NoEnts]
  BY <1>3 DEF itrunc
<1>5. d.type = dinode[i].type
  BY <1>1, <1>2, <1>3 DEF DiskTypes, Inode
<1>6. TypesSame
  BY <1>1, <1>4, <1>5, UpdateTypes
<1>7. \A n \in Names : NoEnts[n] = NoIno
  BY DEF NoEnts, Entries
<1>8. ents'[i] = NoEnts /\ \A e \in Inums \ {i} : ents'[e] = ents[e]
  BY <1>1, <1>4 DEF DiskTypes
<1>9. \A e \in Inums, n \in Names : ents'[e][n] = ents[e][n] \/ (e = i /\ ents'[e][n] = NoIno)
  BY <1>7, <1>8
<1>10. EntsStep(p)
  BY <1>2, <1>9 DEF EntsStep
<1>. QED  BY <1>6, <1>7, <1>8, <1>9, <1>10 DEF Empty

LEMMA IputTree ==
  ASSUME CInv, TreeInv, ~panicked, NEW p \in Procs,
         IputLast(p) \/ Iput(p) \/ IputTrunc(p) \/ IputFree(p) \/ IputInvalid(p) \/ IputDrop(p)
  PROVE  TreeInv'
<1>1. /\ th \in [Procs -> Thread] /\ th[p] \in Thread /\ ThreadOk(th[p]) /\ NoIno \notin Inums
      /\ DiskTypes /\ EmptyInv /\ Acyclic
  BY FilesAssumption DEF CInv, FInv, TypeInv, ControlInv, TreeInv
<1>2. PICK i, u : i = th[p].put /\ u = th'[p]
  OBVIOUS
<1>3. i \in Inums
  BY <1>1, <1>2 DEF ThreadOk, Putting, IputLast, Iput, IputTrunc, IputFree, IputInvalid, IputDrop
<1>4. CASE IputLast(p)
  BY <1>4, LastTree
<1>5. CASE Iput(p)
  BY <1>5, ReturnTree DEF Iput
<1>6. CASE IputTrunc(p)
  <2>1. th[p].pc = "itrunc" /\ itrunc(i) /\ th' = [th EXCEPT ![p].pc = "ifree"]
    BY <1>2, <1>6 DEF IputTrunc
  <2>2. HasLock(th[p], i) /\ th[p].pc # "invalid"
    BY <1>2, <2>1 DEF HasLock, Freeing
  <2>3. /\ TypesSame /\ EntsStep(p) /\ Empty(i)'
        /\ \A d \in Inums, n \in Names : ents'[d][n] \in {ents[d][n], NoIno}
    BY <1>3, <2>1, <2>2, ItruncTree
  <2>4. Others(p) /\ u.pc = "ifree" /\ u.put = i /\ u.dp = th[p].dp /\ u.old = th[p].old
    BY <1>1, <1>2, <2>1 DEF Others, Thread
  <2>5. FreedStep /\ TypesStep
    BY <1>2, <2>1, <2>3, <2>4, FreedSame DEF Freeing, TypesStep, TypesSame
  <2>6. Acyclic'
    <3>1. u.pc \notin Making
      BY <2>4 DEF Making
    <3>. QED  BY <1>1, <1>2, <2>3, <2>4, <3>1, FewerEdges
  <2>7. Empty(u.put)'
    BY <2>3, <2>4 DEF Empty
  <2>. QED  BY <1>2, <2>3, <2>4, <2>5, <2>6, <2>7, GrowTree DEF TypesSame
<1>7. CASE IputFree(p)
  <2>1. PICK d : d = [itab[i].d EXCEPT !.type = "free"]
    OBVIOUS
  <2>2. th[p].pc = "ifree" /\ Update(i, d) /\ th' = [th EXCEPT ![p].pc = "invalid"] /\ ents' = ents
    BY <1>2, <1>7, <2>1 DEF IputFree
  <2>3. \A j \in Inums \ {i} : dinode'[j] = dinode[j]
    BY <1>1, <1>3, <2>2 DEF Update, DiskTypes
  <2>4. Freed(i) /\ Empty(i)
    BY <1>1, <1>2, <2>2 DEF Freed, Freeing, EmptyInv
  <2>5. Others(p) /\ u.pc = "invalid" /\ u.put = i /\ u.dp = th[p].dp /\ u.old = th[p].old
    BY <1>1, <1>2, <2>2 DEF Others, Thread
  <2>6. FreedStep /\ TypesStep /\ EntsStep(p)
    BY <1>2, <2>2, <2>3, <2>4, <2>5, FreedSame DEF Freeing, TypesStep, EntsStep
  <2>7. Acyclic'
    <3>1. u.pc \notin Making
      BY <2>5 DEF Making
    <3>. QED  BY <1>1, <1>2, <2>2, <2>5, <3>1, FewerEdges
  <2>8. Empty(i)' /\ Empty(u.put)'
    BY <2>2, <2>4, <2>5 DEF Empty
  <2>9. \A j \in Inums : dinode[j].type = "dir" /\ dinode'[j].type # "dir" => Empty(j)'
    BY <2>3, <2>8
  <2>. QED  BY <1>2, <2>5, <2>6, <2>7, <2>8, <2>9, GrowTree
<1>8. CASE IputInvalid(p)
  <2>1. th' = [th EXCEPT ![p].pc = "drop"] /\ UNCHANGED disk
    BY <1>8 DEF IputInvalid
  <2>2. Others(p) /\ u.pc = "drop" /\ u.dp = th[p].dp /\ u.old = th[p].old
    BY <1>1, <1>2, <2>1 DEF Others, Thread
  <2>3. Calm(th[p], u)
    BY <2>2 DEF Calm, Freeing, Making
  <2>. QED  BY <1>2, <2>1, <2>2, <2>3, QuietTree DEF disk, TypesSame
<1>9. CASE IputDrop(p)
  BY <1>9, ReturnTree DEF IputDrop
<1>. QED  BY <1>4, <1>5, <1>6, <1>7, <1>8, <1>9

\* The inode that ialloc() gives out has no entries, and nobody takes it for a directory.
LEMMA IallocTree ==
  ASSUME CInv, TreeInv, ~panicked, NEW p \in Procs, Ialloc(p)
  PROVE  TreeInv'
<1>1. PICK k \in Inums :
        /\ dinode[k].type = "free"
        /\ dinode' = [dinode EXCEPT ![k] = [NoInode EXCEPT !.type = NewType(p)]]
        /\ th' = [th EXCEPT ![p].pc = "iget", ![p].ip = k]
        /\ ents' = ents
  BY DEF Ialloc
<1>2. /\ th \in [Procs -> Thread] /\ th[p] \in Thread /\ th[p].pc = "ialloc" /\ NoIno \notin Inums
      /\ DiskTypes /\ KindInv /\ EmptyInv /\ Acyclic
  BY FilesAssumption DEF CInv, FInv, TypeInv, TreeInv, Ialloc
<1>3. PICK u : u = th'[p]
  OBVIOUS
<1>4. Others(p) /\ u.pc = "iget" /\ u.ip = k /\ u.dp = th[p].dp /\ u.old = th[p].old
  BY <1>1, <1>2, <1>3 DEF Others, Thread
<1>5. \A j \in Inums \ {k} : dinode'[j] = dinode[j]
  BY <1>1, <1>2 DEF DiskTypes
<1>6. FreedStep /\ TypesStep /\ EntsStep(p)
  BY <1>1, <1>3, <1>4, <1>5, FreedSame DEF Freeing, TypesStep, EntsStep
<1>7. \A q \in Procs : th[q].dp # k
  BY <1>1, <1>2 DEF KindInv, IsDir
<1>8. ASSUME NEW d \in Inums, NEW j \in Inums, Edge(d, j)' PROVE Edge(d, j) \/ j = k
  <2>1. Pending(u, d, j) => j = k
    BY <1>4 DEF Pending
  <2>. QED  BY <1>1, <1>3, <1>4, <1>8, <2>1, EdgeStep
<1>9. ASSUME NEW j \in Inums, Edge(k, j)' PROVE FALSE
  <2>1. ~Pending(u, k, j) /\ ~Edge(k, j)
    <3>1. \A n \in Names : ents[k][n] # j
      BY <1>1, <1>2 DEF EmptyInv, Empty
    <3>. QED  BY <1>4, <1>7, <3>1 DEF Edge, Pending
  <2>. QED  BY <1>1, <1>3, <1>4, <1>9, <2>1, EdgeStep
<1>10. Acyclic'
  BY <1>2, <1>8, <1>9, AcyclicStep
<1>11. \A j \in Inums : dinode[j].type = "dir" /\ dinode'[j].type # "dir" => Empty(j)'
  BY <1>1, <1>5
<1>. QED  BY <1>3, <1>4, <1>6, <1>10, <1>11, GrowTree

\* ".." is not a name.
LEMMA CreateInitTree ==
  ASSUME CInv, TreeInv, ~panicked, NEW p \in Procs, CreateInit(p)
  PROVE  TreeInv'
<1>1. PICK i, full : i = th[p].ip /\ full = (NewType(p) = "dir" /\ Unused = {})
  OBVIOUS
<1>2. PICK new : new = IF NewType(p) = "dir" /\ ~full THEN {balloc} ELSE {}
  OBVIOUS
<1>3. PICK d : d = [Loaded(i) EXCEPT !.nlink = 1, !.addrs = Loaded(i).addrs \cup new,
                                     !.size = IF new = {} THEN Loaded(i).size ELSE 2]
  OBVIOUS
<1>4. /\ th[p].pc = "createinit" /\ ilk[i] = Nobody /\ Update(i, d)
      /\ ents' = IF new = {} THEN ents ELSE [ents EXCEPT ![i][".."] = th[p].dp]
      /\ th' = [th EXCEPT ![p].pc = IF full THEN "createfail" ELSE "dirlink"]
  BY <1>1, <1>2, <1>3 DEF CreateInit, At, WaitsFor
<1>5. th[p].pc \in Points /\ th[p].pc \in HaveIp
  BY <1>4 DEF Points, HaveIp
<1>6. i \in Inums /\ DiskTypes /\ th \in [Procs -> Thread] /\ th[p] \in Thread
  BY <1>1, <1>5, PointRefs
<1>7. TypesSame
  <2>1. Refers(th[p], i)
    BY <1>1, <1>4 DEF Refers, Held
  <2>2. Loaded(i) = dinode[i]
    BY <1>4, <1>6, <2>1, LoadedType
  <2>3. d.type = dinode[i].type
    BY <1>3, <1>6, <2>2 DEF DiskTypes, Inode
  <2>. QED  BY <1>4, <1>6, <2>3, UpdateTypes
<1>8. \A e \in Inums, n \in Names : ents'[e][n] = ents[e][n]
  <2>1. \A n \in Names : n # ".."
    BY NamesAssumption
  <2>. QED  BY <1>4, <1>6, <2>1 DEF DiskTypes, Entries
<1>9. PICK u : u = th'[p]
  OBVIOUS
<1>10. /\ Others(p) /\ u.pc \in {"createfail", "dirlink"}
       /\ u.ip = th[p].ip /\ u.dp = th[p].dp /\ u.old = th[p].old
  BY <1>4, <1>6, <1>9 DEF Others, Thread
<1>11. Calm(th[p], u)
  BY <1>4, <1>10 DEF Calm, Freeing, Making
<1>. QED  BY <1>7, <1>8, <1>9, <1>10, <1>11, CalmStep DEF EntsStep, TypesSame

\* dirlink() writes one entry.
LEMMA DirlinkTree ==
  ASSUME CInv, ~panicked, NEW d \in Inums, NEW n, n \in Elems, NEW i \in Inums, NEW k,
         dirlink(d, n, i, k), CanLink(d, n), Loaded(d) = dinode[d]
  PROVE  /\ TypesSame
         /\ \A e \in Inums, m \in Names : ents'[e][m] = ents[e][m] \/ (e = d /\ ents'[e][m] = i)
<1>1. DiskTypes /\ NoIno \notin Inums
  BY FilesAssumption DEF CInv, FInv, TypeInv
<1>2. PICK new : new = IF NeedsBlock(d) THEN {balloc} ELSE {}
  OBVIOUS
<1>3. PICK f : f = [Loaded(d) EXCEPT !.addrs = Loaded(d).addrs \cup new,
                                     !.nlink = Loaded(d).nlink + k,
                                     !.size = IF SlotsUsed(d) = Loaded(d).size
                                              THEN Loaded(d).size + 1 ELSE Loaded(d).size]
  OBVIOUS
<1>4. Update(d, f) /\ ents' = [ents EXCEPT ![d][n] = i]
  BY <1>2, <1>3 DEF dirlink
<1>5. f.type = dinode[d].type
  BY <1>1, <1>3 DEF DiskTypes, Inode
<1>6. TypesSame
  BY <1>1, <1>4, <1>5, UpdateTypes
<1>7. n \in Entries
  BY <1>1 DEF CanLink, Lookup, Elems
<1>8. \A e \in Inums, m \in Names : ents'[e][m] = ents[e][m] \/ (e = d /\ ents'[e][m] = i)
  BY <1>1, <1>4, <1>7 DEF DiskTypes, Entries
<1>. QED  BY <1>6, <1>8

\* The entry that create() has been making.
LEMMA CreateLinkTree ==
  ASSUME CInv, TreeInv, ~panicked, NEW p \in Procs, CreateLink(p)
  PROVE  TreeInv'
<1>1. PICK d, i, n, k, r : /\ d = th[p].dp /\ i = th[p].ip /\ n = th[p].name
                           /\ k = ParentLink(NewType(p))
                           /\ r = IF NewType(p) = "file" THEN "opened" ELSE "made"
  OBVIOUS
<1>2. /\ th[p].pc = "dirlink" /\ CanLink(d, n) /\ dirlink(d, n, i, k) /\ IputThen(p, "dp", r)
  BY <1>1 DEF CreateLink
<1>3. th[p].pc \in Points /\ th[p].pc \in HaveIp /\ th[p].pc \in HaveDp
  BY <1>2 DEF Points, HaveIp, HaveDp
<1>4. /\ d \in Inums /\ i \in Inums /\ n \in Elems /\ NoIno \notin Inums /\ KindInv /\ Acyclic
      /\ th \in [Procs -> Thread] /\ th[p] \in Thread
  BY <1>1, <1>3, PointRefs DEF Thread, TreeInv
<1>5. HasLock(th[p], d) /\ th[p].pc # "invalid"
  BY <1>1, <1>2 DEF HasLock, Point, Putting, LockedDp
<1>6. ilk[d] = p /\ Loaded(d) = dinode[d]
  BY <1>4, <1>5, LockedTyped
<1>7. /\ TypesSame
      /\ \A e \in Inums, m \in Names : ents'[e][m] = ents[e][m] \/ (e = d /\ ents'[e][m] = i)
  BY <1>2, <1>4, <1>6, DirlinkTree
<1>8. PICK u : u = th'[p]
  OBVIOUS
<1>9. Others(p) /\ u.pc = "iput" /\ u.dp = NoIno /\ u.old = th[p].old
  BY <1>2, <1>4, <1>8 DEF IputThen, Others, Thread
<1>10. IsDir(d)
  BY <1>1, <1>4 DEF KindInv
<1>11. FreedStep /\ TypesStep /\ EntsStep(p)
  BY <1>6, <1>7, <1>8, <1>9, <1>10, FreedSame DEF Freeing, TypesStep, TypesSame, EntsStep
<1>12. ASSUME NEW e \in Inums, NEW j \in Inums, Edge(e, j)' PROVE Edge(e, j)
  <2>1. Edge(d, i)
    BY <1>1, <1>2 DEF Edge, Pending, Making
  <2>2. ~Pending(u, e, j)
    BY <1>9 DEF Pending, Making
  <2>3. ASSUME NEW m \in Names, ents'[e][m] = j, ents'[e][m] # ents[e][m] PROVE Edge(e, j)
    BY <1>7, <2>1, <2>3
  <2>. QED  BY <1>8, <1>9, <1>12, <2>2, <2>3, EdgeStep
<1>13. Acyclic'
  BY <1>4, <1>12, AcyclicStep
<1>. QED  BY <1>4, <1>7, <1>8, <1>9, <1>11, <1>13, GrowTree DEF TypesSame

\* O_TRUNC.
LEMMA OpenedTree ==
  ASSUME CInv, TreeInv, ~panicked, NEW p \in Procs, Opened(p)
  PROVE  TreeInv'
<1>1. PICK i : i = th[p].ip
  OBVIOUS
<1>2. /\ th[p].pc = "opened" /\ th' = [th EXCEPT ![p] = Idle]
      /\ itrunc(i) \/ UNCHANGED disk
  BY <1>1 DEF Opened
<1>3. th[p].pc \in Points /\ th[p].pc \in HaveIp
  BY <1>2 DEF Points, HaveIp
<1>4. i \in Inums /\ th \in [Procs -> Thread] /\ th[p] \in Thread
  BY <1>1, <1>3, PointRefs
<1>5. PICK u : u = th'[p]
  OBVIOUS
<1>6. Others(p) /\ u = Idle
  BY <1>2, <1>4, <1>5 DEF Others
<1>7. Calm(th[p], u)
  BY <1>6 DEF Calm, Idle, Freeing, Making
<1>8. CASE itrunc(i)
  <2>1. HasLock(th[p], i) /\ th[p].pc # "invalid"
    BY <1>1, <1>2 DEF HasLock, Point, Putting, LockedIp
  <2>2. /\ TypesSame /\ EntsStep(p)
        /\ \A d \in Inums, n \in Names : ents'[d][n] \in {ents[d][n], NoIno}
    BY <1>4, <1>8, <2>1, ItruncTree
  <2>. QED  BY <1>5, <1>6, <1>7, <2>2, CalmStep DEF TypesSame
<1>9. CASE UNCHANGED disk
  BY <1>5, <1>6, <1>7, <1>9, QuietTree DEF disk, TypesSame
<1>. QED  BY <1>2, <1>8, <1>9

\* unlink() finds an entry that is neither "." nor "..", and keeps the directory locked.
LEMMA UnlinkLookupTree ==
  ASSUME CInv, TreeInv, ~panicked, NEW p \in Procs, UnlinkLookup(p)
  PROVE  TreeInv'
<1>1. PICK d, n, i : d = th[p].dp /\ n = th[p].name /\ i = Lookup(d, n)
  OBVIOUS
<1>2. /\ th[p].pc = "unlink" /\ ~Dots(n) /\ UNCHANGED disk
      /\ th' = [th EXCEPT ![p].pc = "unlinklock", ![p].ip = i]
  BY <1>1 DEF UnlinkLookup, At
<1>3. /\ th \in [Procs -> Thread] /\ th[p] \in Thread /\ NoIno \notin Inums /\ Acyclic
  BY FilesAssumption DEF CInv, FInv, TypeInv, TreeInv
<1>4. n \in Names /\ i = ents[d][n]
  BY <1>1, <1>2, <1>3 DEF Dots, Thread, Elems, Entries, Lookup
<1>5. PICK u : u = th'[p]
  OBVIOUS
<1>6. /\ Others(p) /\ u.pc = "unlinklock" /\ u.ip = i /\ u.dp = d /\ u.name = n /\ u.old = th[p].old
  BY <1>1, <1>2, <1>3, <1>5 DEF Others, Thread
<1>7. FreedStep /\ TypesStep /\ EntsStep(p) /\ ents' = ents /\ dinode' = dinode
  BY <1>2, <1>5, <1>6, FreedSame DEF Freeing, TypesStep, EntsStep, disk
<1>8. Acyclic'
  <2>1. u.pc \notin Making
    BY <1>6 DEF Making
  <2>. QED  BY <1>3, <1>5, <1>6, <1>7, <2>1, FewerEdges
<1>. QED  BY <1>1, <1>4, <1>5, <1>6, <1>7, <1>8, GrowTree

LEMMA UnlinkEntryTree ==
  ASSUME CInv, TreeInv, ~panicked, NEW p \in Procs, UnlinkEntry(p)
  PROVE  TreeInv'
<1>1. PICK i, d, n, k : /\ i = th[p].ip /\ d = th[p].dp /\ n = th[p].name
                        /\ k = ParentLink(Loaded(i).type)
  OBVIOUS
<1>2. PICK f : f = [itab[d].d EXCEPT !.nlink = itab[d].d.nlink - k]
  OBVIOUS
<1>3. /\ th[p].pc = "unlinklock" /\ ents' = [ents EXCEPT ![d][n] = NoIno]
      /\ dinode' = [dinode EXCEPT ![d] = f] /\ IputThen(p, "dp", "unlinkdec")
  BY <1>1, <1>2 DEF UnlinkEntry, At
<1>4. th[p].pc \in Points /\ th[p].pc \in HaveDp
  BY <1>3 DEF Points, HaveDp
<1>5. d \in Inums /\ DiskTypes /\ LookInv
  BY <1>1, <1>4, PointRefs DEF TreeInv
<1>6. HasLock(th[p], d) /\ th[p].pc # "invalid"
  BY <1>1, <1>3 DEF HasLock, Point, Putting, LockedDp
<1>7. ilk[d] = p /\ itab[d].d = dinode[d]
  BY <1>5, <1>6, LockedTyped
<1>8. TypesSame
  BY <1>2, <1>3, <1>5, <1>7 DEF TypesSame, DiskTypes, Inode
<1>9. \A e \in Inums, m \in Names : ents'[e][m] = ents[e][m] \/ (e = d /\ ents'[e][m] = NoIno)
  BY <1>3, <1>5 DEF DiskTypes, Entries
<1>10. EntsStep(p)
  BY <1>7, <1>9 DEF EntsStep
<1>11. PICK u : u = th'[p]
  OBVIOUS
<1>12. Others(p) /\ Calm(th[p], u)
  BY <1>3, <1>11, PutCalm
<1>. QED  BY <1>8, <1>9, <1>10, <1>11, <1>12, CalmStep DEF TypesSame

\* link() does not name a directory.
LEMMA LinkIncTree ==
  ASSUME CInv, TreeInv, ~panicked, NEW p \in Procs, LinkInc(p)
  PROVE  TreeInv'
<1>1. PICK i, j, e : i = th[p].ip /\ j = From(p, th[p].call.new) /\ e = Elements(th[p].call.new)
  OBVIOUS
<1>2. PICK f : f = [Loaded(i) EXCEPT !.nlink = Loaded(i).nlink + 1]
  OBVIOUS
<1>3. /\ th[p].pc = "namei" /\ ilk[i] = Nobody /\ Loaded(i).type # "dir"
      /\ dinode' = [dinode EXCEPT ![i] = f] /\ ents' = ents /\ (NoType(i) => panicked')
      /\ th' = [th EXCEPT ![p].old = i, ![p].ip = j, ![p].pc = "nameiparent", ![p].path = e]
  BY <1>1, <1>2 DEF LinkInc, Found, At, WaitsFor
<1>4. th[p].pc \in Points /\ th[p].pc \in HaveIp
  BY <1>3 DEF Points, HaveIp
<1>5. /\ i \in Inums /\ DiskTypes /\ th \in [Procs -> Thread] /\ th[p] \in Thread /\ NoIno \notin Inums
      /\ Acyclic
  BY <1>1, <1>4, PointRefs DEF TreeInv
<1>6. Refers(th[p], i)
  BY <1>1, <1>3 DEF Refers, Held
<1>7. Loaded(i) = dinode[i] /\ (dinode[i].type # "free" \/ NoType(i)) /\ ~Freed(i)
  <2>1. itab[i].ref > 0
    BY <1>5, <1>6, HeldRef DEF CInv
  <2>. QED  BY <1>3, <1>5, <1>6, <2>1, LoadedType, LoadedTyped, NotBeingFreed
<1>8. TypesSame
  BY <1>2, <1>3, <1>5, <1>7 DEF TypesSame, DiskTypes, Inode
<1>9. PICK u : u = th'[p]
  OBVIOUS
<1>10. Others(p) /\ u.pc = "nameiparent" /\ u.old = i /\ u.dp = th[p].dp
  BY <1>3, <1>5, <1>9 DEF Others, Thread
<1>11. FreedStep /\ TypesStep /\ EntsStep(p)
  BY <1>3, <1>8, <1>9, <1>10, FreedSame DEF Freeing, TypesStep, TypesSame, EntsStep
<1>12. NotDir(i)'
  <2>1. dinode'[i].type # "dir" /\ (dinode'[i].type # "free" \/ panicked')
    BY <1>3, <1>5, <1>7, <1>8 DEF TypesSame
  <2>. QED  BY <1>5, <1>7, <1>11, <2>1 DEF NotDir, FreedStep
<1>13. NotDir(u.old)'
  BY <1>10, <1>12 DEF NotDir, Freed
<1>14. Acyclic'
  <2>1. u.pc \notin Making
    BY <1>10 DEF Making
  <2>. QED  BY <1>3, <1>5, <1>9, <1>10, <2>1, FewerEdges
<1>. QED  BY <1>8, <1>9, <1>10, <1>11, <1>13, <1>14, GrowTree DEF TypesSame

\* The new entry names an inode without entries, that is no directory.
LEMMA LinkEntryTree ==
  ASSUME CInv, TreeInv, ~panicked, NEW p \in Procs, LinkEntry(p)
  PROVE  TreeInv'
<1>1. PICK d, i, n : d = th[p].dp /\ i = th[p].old /\ n = th[p].name
  OBVIOUS
<1>2. /\ th[p].pc = "link" /\ ilk[d] = Nobody /\ CanLink(d, n) /\ dirlink(d, n, i, 0)
      /\ IputThen(p, "dp", "linkput")
  BY <1>1 DEF LinkEntry, At, WaitsFor
<1>3. th[p].pc \in Points /\ th[p].pc \in HaveOld /\ th[p].pc \in HaveDp
  BY <1>2 DEF Points, HaveOld, HaveDp
<1>4. /\ d \in Inums /\ i \in Inums /\ n \in Elems /\ NoIno \notin Inums /\ KindInv /\ EmptyInv /\ Acyclic
      /\ th \in [Procs -> Thread] /\ th[p] \in Thread
  BY <1>1, <1>3, PointRefs DEF Thread, TreeInv
<1>5. Refers(th[p], d)
  BY <1>1 DEF Refers
<1>6. Loaded(d) = dinode[d]
  BY <1>2, <1>4, <1>5, LoadedType
<1>7. /\ TypesSame
      /\ \A e \in Inums, m \in Names : ents'[e][m] = ents[e][m] \/ (e = d /\ ents'[e][m] = i)
  BY <1>2, <1>4, <1>6, DirlinkTree
<1>8. PICK u : u = th'[p]
  OBVIOUS
<1>9. Others(p) /\ u.pc = "iput" /\ u.dp = NoIno /\ u.old = th[p].old
  BY <1>2, <1>4, <1>8 DEF IputThen, Others, Thread
<1>10. IsDir(d) /\ NotDir(i)
  BY <1>1, <1>4 DEF KindInv
<1>11. FreedStep /\ TypesStep /\ EntsStep(p)
  BY <1>2, <1>7, <1>8, <1>9, <1>10, FreedSame DEF Freeing, TypesStep, TypesSame, EntsStep
<1>12. \A e \in Inums, j \in Inums : ~Pending(u, e, j)
  BY <1>9 DEF Pending, Making
<1>13. ASSUME NEW e \in Inums, NEW j \in Inums, Edge(e, j)' PROVE Edge(e, j) \/ j = i
  <2>1. ASSUME NEW m \in Names, ents'[e][m] = j, ents'[e][m] # ents[e][m] PROVE j = i
    BY <1>7, <2>1
  <2>. QED  BY <1>8, <1>9, <1>12, <1>13, <2>1, EdgeStep
<1>14. ASSUME NEW j \in Inums, Edge(i, j)' PROVE FALSE
  <2>1. i # d /\ Empty(i) /\ \A q \in Procs : th[q].dp # i
    BY <1>4, <1>10 DEF IsDir, NotDir, KindInv, EmptyInv
  <2>2. ~Edge(i, j)
    BY <1>4, <2>1 DEF Edge, Empty, Pending
  <2>3. \A m \in Names : ents'[i][m] = ents[i][m]
    BY <1>4, <1>7, <2>1
  <2>. QED  BY <1>4, <1>8, <1>9, <1>12, <1>14, <2>2, <2>3, EdgeStep
<1>15. Acyclic'
  BY <1>4, <1>13, <1>14, AcyclicStep
<1>. QED  BY <1>4, <1>7, <1>8, <1>9, <1>11, <1>15, GrowTree DEF TypesSame

\* Between boot and the first call the tree is what the disk has.
Still ==
  /\ \A p \in Procs : th[p] = Idle
  /\ \A i \in Inums : dinode[i].type # "dir" => Empty(i)
  /\ Acyclic

LEMMA IdleTree == Still => TreeInv
<1> SUFFICES ASSUME Still PROVE TreeInv
  OBVIOUS
<1>1. /\ \A p \in Procs : th[p] = Idle
      /\ \A i \in Inums : dinode[i].type # "dir" => Empty(i)
      /\ Acyclic /\ NoIno \notin Inums
  BY FilesAssumption DEF Still
<1>2. Idle.dp = NoIno /\ Idle.old = NoIno /\ Idle.pc = "user"
  BY DEF Idle
<1>3. KindInv
  BY <1>1, <1>2 DEF KindInv
<1>4. EmptyInv
  BY <1>1, <1>2 DEF EmptyInv
<1>5. LookInv
  BY <1>1, <1>2 DEF LookInv
<1>. QED  BY <1>1, <1>3, <1>4, <1>5 DEF TreeInv

LEMMA CrashTree ==
  ASSUME TreeInv, Crash
  PROVE  TreeInv'
<1>1. th' = [p \in Procs |-> Idle] /\ dinode' = dinode /\ ents' = ents /\ EmptyInv /\ Acyclic
  BY DEF Crash, disk, TreeInv
<1>2. ASSUME NEW d \in Inums, NEW i \in Inums, Edge(d, i)' PROVE Edge(d, i)
  <2>1. \A p \in Procs : ~Pending(th'[p], d, i)
    BY <1>1 DEF Pending, Making, Idle
  <2>2. \E n \in Names : ents'[d][n] = i
    BY <1>2, <2>1 DEF Edge, Pending
  <2>. QED  BY <1>1, <2>2 DEF Edge
<1>3. Acyclic'
  <2>1. PICK k : k \notin Inums
    BY FilesAssumption
  <2>. QED  BY <1>1, <1>2, <2>1, AcyclicStep
<1>4. \A p \in Procs : th'[p] = Idle
  BY <1>1
<1>5. \A i \in Inums : dinode'[i].type # "dir" => Empty(i)'
  BY <1>1 DEF EmptyInv, Empty
<1>6. Still'
  BY <1>3, <1>4, <1>5 DEF Still
<1>. QED  BY <1>6, IdleTree, PTL

LEMMA TreeInit == FilesInit => TreeInv
<1> SUFFICES ASSUME FilesInit PROVE TreeInv
  OBVIOUS
<1>1. NoIno \notin Inums /\ \A n \in Names : n # ".." /\ NoEnts[n] = NoIno
  BY FilesAssumption, NamesAssumption DEF NoEnts, Entries
<1>2. ASSUME NEW i \in Inums PROVE Empty(i)
  BY <1>1 DEF FilesInit, Empty, NoEnts
<1>3. \A p \in Procs : th[p] = Idle
  BY DEF FilesInit
<1>4. \A d \in Inums, i \in Inums : ~Edge(d, i)
  BY <1>1, <1>2, <1>3 DEF Edge, Pending, Making, Idle, Empty
<1>5. Acyclic
  BY <1>4 DEF Acyclic
<1>6. \A i \in Inums : dinode[i].type # "dir" => Empty(i)
  BY <1>2
<1>7. Still
  BY <1>3, <1>5, <1>6 DEF Still
<1>. QED  BY <1>7, IdleTree

LEMMA TreeNext == CInv /\ TreeInv /\ [FilesNext]_filesVars => TreeInv'
<1> SUFFICES ASSUME CInv, TreeInv, [FilesNext]_filesVars PROVE TreeInv'
  OBVIOUS
<1>1. CASE UNCHANGED filesVars
  BY <1>1 DEF filesVars, TreeInv, KindInv, EmptyInv, LookInv, Acyclic, IsDir, NotDir, Freed, Empty,
              Edge, Pending
<1>2. CASE FilesNext /\ Crash
  BY <1>2, CrashTree
<1>3. CASE FilesNext /\ ~Crash
  <2>1. PICK p \in Procs : PathStep(p) \/ CreateStep(p) \/ OpenStep(p) \/ LinkStep(p) \/ FileStep(p)
    BY <1>3 DEF FilesNext
  <2>2. ~panicked
    BY <1>3 DEF FilesNext
  <2>3. CASE PathStep(p)
    BY <2>2, <2>3, StartTree, WalkTree, ParentTree, IputTree DEF PathStep
  <2>4. CASE CreateStep(p)
    BY <2>2, <2>4, CreateFindTree, IallocTree, IallocIgetTree, CreateInitTree, CreateLinkTree,
       CreateEndTree DEF CreateStep
  <2>5. CASE OpenStep(p)
    BY <2>2, <2>5, OpenTree, OpenedTree DEF OpenStep
  <2>6. CASE LinkStep(p)
    BY <2>2, <2>6, UnlinkFailTree, UnlinkLookupTree, UnlinkEntryTree, LinkFailTree, LinkIncTree,
       LinkEntryTree DEF LinkStep
  <2>7. CASE FileStep(p)
    BY <2>2, <2>7, FileTree DEF FileStep
  <2>. QED  BY <2>1, <2>3, <2>4, <2>5, <2>6, <2>7
<1>. QED  BY <1>1, <1>2, <1>3

\* Only directories have entries, a directory that somebody means to lock is not freed
\* under him, and the names make no circle: the tree survives every interleaving of the
\* steps of create(), link(), unlink() and iput().
THEOREM TreeInvariant == FilesSpec => []TreeInv
<1>1. FilesInit => CInv /\ TreeInv
  BY CacheInit, TreeInit
<1>2. CInv /\ TreeInv /\ [FilesNext]_filesVars => (CInv /\ TreeInv)'
  BY CacheNext, TreeNext
<1>. QED  BY <1>1, <1>2, PTL DEF FilesSpec

\* Whoever waits with a lock has a directory locked, and waits for an entry of it.
LEMMA WaiterEdge ==
  ASSUME CInv, TreeInv, NEW p \in Procs, WaitsFor(p) \in Inums, NEW d \in Inums, HasLock(th[p], d)
  PROVE  /\ th[p].pc \in {"createinit", "unlinklock"} /\ th[p].dp = d /\ WaitsFor(p) = th[p].ip
         /\ Edge(d, th[p].ip)
<1>1. NoIno \notin Inums /\ LookInv
  BY FilesAssumption DEF TreeInv
<1>2. th[p].pc \in {"namei", "createfound", "createinit", "unlinklock", "nameiparent", "create",
                    "unlink", "link", "linkbad"}
  BY <1>1 DEF WaitsFor
<1>3. Point(th[p]) = th[p].pc /\ th[p].pc \notin Freeing
  BY <1>2 DEF Point, Putting, Freeing
<1>4. th[p].pc \in {"createinit", "unlinklock"} /\ th[p].dp = d
  BY <1>2, <1>3 DEF HasLock, LockedDp, LockedIp
<1>5. WaitsFor(p) = th[p].ip
  BY <1>4 DEF WaitsFor
<1>6. CASE th[p].pc = "createinit"
  BY <1>4, <1>5, <1>6 DEF Edge, Pending, Making
<1>7. CASE th[p].pc = "unlinklock"
  BY <1>1, <1>4, <1>5, <1>7 DEF Edge, LookInv
<1>. QED  BY <1>4, <1>5, <1>6, <1>7

LEMMA CycleFromInv == CInv /\ TreeInv => NoLockCycle
<1> SUFFICES ASSUME CInv, TreeInv PROVE NoLockCycle
  OBVIOUS
<1>1. /\ ilk \in [Inums -> Procs \cup {Nobody}] /\ LockInv /\ th \in [Procs -> Thread] /\ Acyclic
      /\ Nobody \notin Procs
  BY FilesAssumption DEF CInv, FInv, TypeInv, LockTypes, TreeInv
<1>2. ASSUME NEW S \in SUBSET Procs, S # {},
             \A p \in S : WaitsFor(p) # NoIno /\ ilk[WaitsFor(p)] \in S
      PROVE  FALSE
  <2>1. ASSUME NEW p \in S
        PROVE  \E q \in S : /\ WaitsFor(p) \in Inums /\ HasLock(th[q], WaitsFor(p))
    <3>1. th[p] \in Thread /\ WaitsFor(p) # NoIno
      BY <1>1, <1>2
    <3>2. WaitsFor(p) \in Inums
      BY <3>1 DEF WaitsFor, Thread, Inums0
    <3>3. PICK w, q : w = WaitsFor(p) /\ q = ilk[w]
      OBVIOUS
    <3>4. w \in Inums /\ q \in S /\ HasLock(th[q], w)
      BY <1>1, <1>2, <3>2, <3>3 DEF LockInv
    <3>. QED  BY <3>3, <3>4
  <2>2. PICK T : T = {d \in Inums : \E q \in S : HasLock(th[q], d)}
    OBVIOUS
  <2>3. T \in (SUBSET Inums) \ {{}}
    <3>1. PICK p \in S : TRUE
      BY <1>2
    <3>2. PICK q \in S : WaitsFor(p) \in Inums /\ HasLock(th[q], WaitsFor(p))
      BY <2>1
    <3>3. WaitsFor(p) \in T
      BY <2>2, <3>2
    <3>4. T # {} /\ T \subseteq Inums
      BY <2>2, <3>3
    <3>. QED  BY <3>4
  <2>4. PICK d \in T : \A j \in T : ~Edge(d, j)
    BY <1>1, <2>3 DEF Acyclic
  <2>5. PICK q \in S : HasLock(th[q], d)
    BY <2>2, <2>4
  <2>6. PICK w : w = WaitsFor(q)
    OBVIOUS
  <2>7. w \in Inums /\ w \in T
    BY <2>1, <2>2, <2>5, <2>6
  <2>8. d \in Inums
    BY <2>2, <2>4
  <2>9. Edge(d, w)
    BY <1>2, <2>5, <2>6, <2>7, <2>8, WaiterEdge
  <2>. QED  BY <2>4, <2>7, <2>9
<1>3. ASSUME NEW i \in Inums, ilk[i] # Nobody PROVE th[ilk[i]].pc # "user"
  <2>1. PICK p : p = ilk[i] /\ p \in Procs
    BY <1>1, <1>3
  <2>2. HasLock(th[p], i)
    BY <1>1, <2>1 DEF LockInv
  <2>3. th[p].pc # "user"
    BY <2>2 DEF HasLock, Point, Putting, Freeing, LockedDp, LockedIp
  <2>. QED  BY <2>1, <2>3
<1>4. ASSUME NEW S \in (SUBSET Procs) \ {{}}
      PROVE  \E p \in S : WaitsFor(p) = NoIno \/ ilk[WaitsFor(p)] \notin S
  BY <1>2
<1>5. \A S \in (SUBSET Procs) \ {{}} : \E p \in S : WaitsFor(p) = NoIno \/ ilk[WaitsFor(p)] \notin S
  BY <1>4
<1>6. \A i \in Inums : ilk[i] # Nobody => th[ilk[i]].pc # "user"
  BY <1>3
<1>. QED  BY ONLY <1>5, <1>6 DEF NoLockCycle

\* No set of processes waits for inode locks that are all held in the set: the order in
\* which create(), unlink() and namex() lock inodes is down the tree, and the tree, with
\* the entries that are about to be, stays one.
THEOREM InodeLocksNoCycle == FilesSpec => []NoLockCycle
<1>1. FilesSpec => []CInv /\ []TreeInv
  BY CacheInvariant, TreeInvariant
<1>. QED  BY <1>1, CycleFromInv, PTL

-----------------------------------------------------------------------------
(* Blocks *)

\* Every block is free or belongs to one inode, and an inode that is free, or is about to
\* be, has none.
BlockInv ==
  /\ BlocksExact /\ IsFiniteSet(bitmap)
  /\ \A i \in Inums : /\ dinode[i].size >= 0
                      /\ dinode[i].type = "free" => dinode[i].addrs = {} \/ panicked
  /\ \A p \in Procs : th[p].pc = "ifree" => dinode[th[p].put].addrs = {}

\* A step is that of one process, and only itrunc() leads to what iput() does next.
OneStep(p) == Others(p) /\ (th'[p].pc = "ifree" => IputTrunc(p))

LEMMA PathOne ==
  ASSUME CInv, NEW p \in Procs, PathStep(p)
  PROVE  OneStep(p)
<1>1. /\ th \in [Procs -> Thread] /\ th[p] \in Thread /\ ThreadOk(th[p])
  BY DEF CInv, FInv, TypeInv, ControlInv
<1>2. CASE StartCall(p)
  <2>1. PICK c \in Programs[prog][p] :
          th' = [th EXCEPT ![p].call = c, ![p].path = Elements(c.path), ![p].ip = From(p, c.path),
             ![p].pc = IF c.op \in {"mkdir", "mknod", "creat", "unlink"} THEN "nameiparent" ELSE "namei"]
    BY <1>2 DEF StartCall
  <2>. QED  BY <1>1, <2>1 DEF Others, OneStep, Thread
<1>3. ASSUME NEW v \in {"ip", "dp", "old"}, NEW r, IputThen(p, v, r) PROVE OneStep(p)
  <2>1. Others(p) /\ Calm(th[p], th'[p])
    BY <1>3, PutCalm
  <2>. QED  BY <2>1 DEF OneStep, Calm, Freeing
<1>4. CASE WalkFails(p) \/ WalkNowhere(p)
  BY <1>3, <1>4 DEF WalkFails, WalkNowhere, Reject
<1>5. CASE WalkOn(p)
  BY <1>1, <1>5 DEF WalkOn, Others, OneStep, Thread
<1>6. CASE WalkToParent(p)
  <2>1. PICK c : c = IF th[p].call.op \in {"mkdir", "mknod", "creat"} THEN "create" ELSE th[p].call.op
    OBVIOUS
  <2>2. /\ th[p].pc = "nameiparent"
        /\ th' = [th EXCEPT ![p].pc = c, ![p].dp = th[p].ip, ![p].ip = NoIno,
                            ![p].name = Head(th[p].path), ![p].path = <<>>]
    BY <1>6, <2>1 DEF WalkToParent, AtLast
  <2>3. c # "ifree"
    BY <1>1, <2>1, <2>2 DEF ThreadOk, Point, Putting
  <2>. QED  BY <1>1, <2>2, <2>3 DEF Others, OneStep, Thread
<1>7. CASE IputLast(p) \/ IputTrunc(p) \/ IputFree(p) \/ IputInvalid(p)
  BY <1>1, <1>7 DEF IputLast, IputTrunc, IputFree, IputInvalid, Others, OneStep, Thread
<1>8. CASE Iput(p) \/ IputDrop(p)
  <2>1. PICK t : t = IF th[p].ret = "user" THEN Idle
                     ELSE [th[p] EXCEPT !.pc = th[p].ret, !.put = NoIno, !.ret = "user"]
    OBVIOUS
  <2>2. th' = [th EXCEPT ![p] = t]
    BY <1>1, <1>8, <2>1 DEF Iput, IputDrop, Return
  <2>3. t.pc # "ifree"
    BY <1>1, <2>1 DEF Idle, Thread, Returns, Points
  <2>. QED  BY <1>1, <2>2, <2>3 DEF Others, OneStep
<1>. QED  BY <1>2, <1>4, <1>5, <1>6, <1>7, <1>8 DEF PathStep

LEMMA CallOne ==
  ASSUME CInv, NEW p \in Procs, CreateStep(p) \/ OpenStep(p) \/ LinkStep(p)
  PROVE  OneStep(p)
<1>1. th \in [Procs -> Thread] /\ th[p] \in Thread
  BY DEF CInv, FInv, TypeInv
<1>2. ASSUME NEW v \in {"ip", "dp", "old"}, NEW r, IputThen(p, v, r) PROVE OneStep(p)
  <2>1. Others(p) /\ Calm(th[p], th'[p])
    BY <1>2, PutCalm
  <2>. QED  BY <2>1 DEF OneStep, Calm, Freeing
<1>3. ASSUME NEW c \in Points, th' = [th EXCEPT ![p].pc = c] PROVE OneStep(p)
  BY <1>1, <1>3 DEF Others, OneStep, Thread, Points
<1>4. {"opened", "ialloc", "createinit", "createfail", "dirlink"} \subseteq Points
  BY DEF Points
<1>5. CASE CreateStep(p)
  <2>1. CASE CreateExists(p)
    BY <1>1, <2>1 DEF CreateExists, Others, OneStep, Thread
  <2>2. CASE CreateFound(p) \/ CreateNew(p)
    BY <1>2, <1>3, <1>4, <2>2 DEF CreateFound, CreateNew, Hold, Reject
  <2>3. CASE Ialloc(p)
    BY <1>1, <2>3 DEF Ialloc, Others, OneStep, Thread
  <2>4. CASE IallocIget(p) \/ CreateLinkFails(p)
    BY <1>3, <1>4, <2>4 DEF IallocIget, CreateLinkFails
  <2>5. CASE CreateInit(p)
    <3>1. PICK c : c \in {"createfail", "dirlink"} /\ th' = [th EXCEPT ![p].pc = c]
      BY <2>5 DEF CreateInit
    <3>. QED  BY <1>3, <1>4, <3>1
  <2>6. CASE CreateLink(p)
    BY <1>2, <2>6 DEF CreateLink
  <2>7. CASE CreateFail(p) \/ IallocFails(p) \/ DropParent(p) \/ Made(p)
    BY <1>2, <2>7 DEF CreateFail, IallocFails, DropParent, Made, iunlockput
  <2>. QED  BY <1>5, <2>1, <2>2, <2>3, <2>4, <2>5, <2>6, <2>7 DEF CreateStep
<1>6. CASE OpenStep(p)
  <2>1. CASE OpenLock(p)
    BY <1>2, <1>3, <1>4, <2>1 DEF OpenLock, Hold, Reject
  <2>2. CASE Opened(p)
    BY <1>1, <2>2 DEF Opened, Others, OneStep, Idle
  <2>3. CASE OpenFails(p)
    BY <1>2, <2>3 DEF OpenFails, iunlockput
  <2>4. CASE Chdir(p) /\ Reject(p, "ip", "user")
    BY <1>2, <2>4 DEF Reject
  <2>5. CASE Chdir(p) /\ ~Reject(p, "ip", "user")
    BY <1>1, <2>5 DEF Chdir, Others, OneStep, Thread
  <2>. QED  BY <1>6, <2>1, <2>2, <2>3, <2>4, <2>5 DEF OpenStep
<1>7. CASE LinkStep(p)
  <2>1. CASE UnlinkNothing(p) \/ UnlinkNotEmpty(p) \/ LinkDir(p) \/ LinkFails(p)
    BY <1>2, <2>1 DEF UnlinkNothing, UnlinkNotEmpty, LinkDir, LinkFails, Reject
  <2>2. CASE UnlinkLookup(p) \/ LinkExists(p)
    BY <1>1, <2>2 DEF UnlinkLookup, LinkExists, Others, OneStep, Thread
  <2>3. CASE UnlinkEntry(p) \/ LinkDrop(p)
    BY <1>2, <2>3 DEF UnlinkEntry, LinkDrop, iunlockput
  <2>4. CASE UnlinkDec(p) \/ LinkEntry(p) \/ LinkPut(p) \/ LinkBad(p)
    BY <1>2, <2>4 DEF UnlinkDec, LinkEntry, LinkPut, LinkBad
  <2>5. CASE LinkInc(p)
    <3>1. PICK i, j, e : i = th[p].ip /\ j = From(p, th[p].call.new) /\ e = Elements(th[p].call.new)
      OBVIOUS
    <3>2. th' = [th EXCEPT ![p].old = i, ![p].ip = j, ![p].pc = "nameiparent", ![p].path = e]
      BY <2>5, <3>1 DEF LinkInc
    <3>. QED  BY <1>1, <3>2 DEF Others, OneStep, Thread
  <2>. QED  BY <1>7, <2>1, <2>2, <2>3, <2>4, <2>5 DEF LinkStep
<1>. QED  BY <1>5, <1>6, <1>7

LEMMA FileOne ==
  ASSUME CInv, NEW p \in Procs, FileStep(p)
  PROVE  OneStep(p)
<1>1. th \in [Procs -> Thread] /\ th[p] \in Thread
  BY DEF CInv, FInv, TypeInv
<1>2. ASSUME th[p].pc = "user", th' = th PROVE OneStep(p)
  BY <1>2 DEF Others, OneStep
<1>3. ASSUME NEW fd \in FDs, NEW r \in {"user", "exit"}, fileclose(p, fd, r) PROVE OneStep(p)
  <2>1. PICK i : i = file[ofile[p][fd]].ip
    OBVIOUS
  <2>2. \/ th' = [th EXCEPT ![p].pc = r]
        \/ th' = [th EXCEPT ![p].pc = "iput", ![p].put = i, ![p].ret = r]
    BY <1>3, <2>1 DEF fileclose
  <2>. QED  BY <1>1, <2>2 DEF Others, OneStep, Thread
<1>4. CASE Write(p) \/ Dup(p) \/ \E q \in Procs : Fork(p, q)
  BY <1>2, <1>4 DEF Write, Dup, Fork
<1>5. CASE Close(p)
  BY <1>3, <1>5 DEF Close
<1>6. CASE Exit(p)
  <2>1. CASE \E fd \in FDs : fileclose(p, fd, "exit")
    BY <1>3, <2>1
  <2>2. CASE ~(\E fd \in FDs : fileclose(p, fd, "exit"))
    BY <1>1, <1>6, <2>2 DEF Exit, Others, OneStep, Thread
  <2>. QED  BY <2>1, <2>2
<1>. QED  BY <1>4, <1>5, <1>6 DEF FileStep

\* A step of process p leaves the inodes alone that others are about to free.
Untouched(p, i) == \A q \in Procs \ {p} : ~(th[q].pc = "ifree" /\ th[q].put = i)

LEMMA LockUntouched ==
  ASSUME CInv, NEW p \in Procs, NEW i \in Inums, ilk[i] \in {p, Nobody}
  PROVE  Untouched(p, i)
<1> SUFFICES ASSUME NEW q \in Procs \ {p}, th[q].pc = "ifree", th[q].put = i PROVE FALSE
  BY DEF Untouched
<1>1. HasLock(th[q], i)
  BY DEF HasLock, Freeing
<1>2. ilk[i] = q
  BY <1>1 DEF CInv, LockInv
<1>. QED  BY <1>2, FilesAssumption

\* An inode gets blocks that were free, if any, and changes otherwise.
LEMMA BlockUpdate ==
  ASSUME CInv, BlockInv, ~panicked, NEW p \in Procs, Others(p), th'[p].pc # "ifree",
         NEW i \in Inums, Untouched(p, i), NEW new, new \subseteq Unused, IsFiniteSet(new),
         bitmap' = bitmap \cup new, NEW d \in Inode, dinode' = [dinode EXCEPT ![i] = d],
         d.addrs = dinode[i].addrs \cup new, d.size >= 0,
         d.size <= DPB * Cardinality(d.addrs), d.type = "free" => d.addrs = {} \/ panicked'
  PROVE  BlockInv'
<1>1. /\ dinode \in [Inums -> Inode] /\ bitmap \subseteq Blocks /\ ControlInv
      /\ \A j, k \in Inums : j # k => dinode[j].addrs \cap dinode[k].addrs = {}
      /\ bitmap = UNION {dinode[j].addrs : j \in Inums}
      /\ \A j \in Inums : /\ dinode[j].size <= DPB * Cardinality(dinode[j].addrs)
                          /\ dinode[j].size >= 0
                          /\ dinode[j].type = "free" => dinode[j].addrs = {}
  BY DEF CInv, FInv, TypeInv, DiskTypes, BlockInv, BlocksExact
<1>2. dinode'[i] = d /\ \A j \in Inums \ {i} : dinode'[j] = dinode[j]
  BY <1>1
<1>3. \A j \in Inums : dinode[j].addrs \cap new = {}
  BY <1>1 DEF Unused
<1>4. \A j, k \in Inums : j # k => dinode'[j].addrs \cap dinode'[k].addrs = {}
  BY <1>1, <1>2, <1>3
<1>5. bitmap' = UNION {dinode'[j].addrs : j \in Inums}
  <2>1. ASSUME NEW b PROVE b \in bitmap' <=> \E j \in Inums : b \in dinode'[j].addrs
    BY <1>1, <1>2
  <2>. QED  BY <2>1
<1>6. \A j \in Inums : /\ dinode'[j].size <= DPB * Cardinality(dinode'[j].addrs)
                       /\ dinode'[j].size >= 0
                       /\ dinode'[j].type = "free" => dinode'[j].addrs = {} \/ panicked'
  BY <1>1, <1>2
<1>7. IsFiniteSet(bitmap')
  BY FS_Union DEF BlockInv
<1>8. ASSUME NEW q \in Procs, th'[q].pc = "ifree" PROVE dinode'[th'[q].put].addrs = {}
  <2>1. PICK j : j = th[q].put
    OBVIOUS
  <2>2. q # p /\ th'[q] = th[q]
    BY <1>8 DEF Others
  <2>3. j \in Inums /\ j # i /\ dinode[j].addrs = {}
    BY <1>1, <1>8, <2>1, <2>2 DEF ControlInv, ThreadOk, Putting, Untouched, BlockInv
  <2>. QED  BY <1>2, <2>1, <2>2, <2>3
<1>. QED  BY <1>4, <1>5, <1>6, <1>7, <1>8 DEF BlockInv, BlocksExact

\* The inode has the blocks and the size that it had.
LEMMA BlockKeep ==
  ASSUME CInv, BlockInv, ~panicked, NEW p \in Procs, Others(p), th'[p].pc # "ifree",
         NEW i \in Inums, Untouched(p, i), bitmap' = bitmap,
         NEW d, dinode' = [dinode EXCEPT ![i] = d], d \in Inode,
         d.addrs = dinode[i].addrs, d.size = dinode[i].size,
         d.type = dinode[i].type \/ d.addrs = {}
  PROVE  BlockInv'
<1>1. /\ d.size >= 0 /\ d.size <= DPB * Cardinality(d.addrs)
      /\ dinode[i].type = "free" => dinode[i].addrs = {}
  BY DEF BlockInv, BlocksExact
<1>2. PICK new : new = {}
  OBVIOUS
<1>3. new \subseteq Unused /\ IsFiniteSet(new) /\ bitmap' = bitmap \cup new /\ d.addrs = dinode[i].addrs \cup new
  BY <1>2, FS_EmptySet
<1>4. d.type = "free" => d.addrs = {} \/ panicked'
  BY <1>1
<1>. QED  BY <1>1, <1>3, <1>4, BlockUpdate

\* No inode changes.
LEMMA BlockSame ==
  ASSUME CInv, BlockInv, ~panicked, NEW p \in Procs, Others(p), th'[p].pc # "ifree",
         dinode' = dinode, bitmap' = bitmap
  PROVE  BlockInv'
<1>1. BlocksExact'
  BY DEF BlockInv, BlocksExact
<1>2. ASSUME NEW q \in Procs, th'[q].pc = "ifree" PROVE dinode'[th'[q].put].addrs = {}
  BY <1>2 DEF Others, BlockInv
<1>. QED  BY <1>1, <1>2 DEF BlockInv

\* itrunc() gives the blocks back, all of them marked.
LEMMA BlockTrunc ==
  ASSUME CInv, BlockInv, ~panicked, NEW p \in Procs, Others(p), NEW i \in Inums,
         HasLock(th[p], i), th[p].pc # "invalid", itrunc(i),
         th'[p].pc = "ifree" => th'[p].put = i
  PROVE  BlockInv' /\ ~panicked'
<1>1. /\ dinode \in [Inums -> Inode] /\ bitmap \subseteq Blocks /\ ControlInv
      /\ \A j, k \in Inums : j # k => dinode[j].addrs \cap dinode[k].addrs = {}
      /\ bitmap = UNION {dinode[j].addrs : j \in Inums}
      /\ \A j \in Inums : /\ dinode[j].size <= DPB * Cardinality(dinode[j].addrs)
                          /\ dinode[j].size >= 0
                          /\ dinode[j].type = "free" => dinode[j].addrs = {}
  BY DEF CInv, FInv, TypeInv, DiskTypes, BlockInv, BlocksExact
<1>2. itab[i].d = dinode[i] /\ ilk[i] = p
  BY LockedTyped
<1>3. PICK d : d = [dinode[i] EXCEPT !.addrs = {}, !.size = 0]
  OBVIOUS
<1>4. /\ dinode' = [dinode EXCEPT ![i] = d] /\ bitmap' = bitmap \ dinode[i].addrs
      /\ panicked' = ~(dinode[i].addrs \subseteq bitmap)
  BY <1>2, <1>3 DEF itrunc, Update
<1>5. ~panicked'
  <2>1. ASSUME NEW b \in dinode[i].addrs PROVE b \in bitmap
    BY <1>1, <2>1
  <2>. QED  BY <1>4, <2>1
<1>6. d.addrs = {} /\ d.size = 0 /\ d.type = dinode[i].type
  BY <1>1, <1>3 DEF Inode
<1>7. dinode'[i] = d /\ \A j \in Inums \ {i} : dinode'[j] = dinode[j]
  BY <1>1, <1>4
<1>8. \A j, k \in Inums : j # k => dinode'[j].addrs \cap dinode'[k].addrs = {}
  BY <1>1, <1>6, <1>7
<1>9. bitmap' = UNION {dinode'[j].addrs : j \in Inums}
  <2>1. ASSUME NEW b PROVE b \in bitmap' <=> \E j \in Inums : b \in dinode'[j].addrs
    BY <1>1, <1>4, <1>6, <1>7
  <2>. QED  BY <2>1
<1>10. \A j \in Inums : /\ dinode'[j].size <= DPB * Cardinality(dinode'[j].addrs)
                        /\ dinode'[j].size >= 0
                        /\ dinode'[j].type = "free" => dinode'[j].addrs = {}
  <2>1. Cardinality({}) = 0 /\ DPB \in Nat
    BY FS_EmptySet, FilesAssumption
  <2>2. d.size <= DPB * Cardinality(d.addrs) /\ d.size >= 0
    BY <1>6, <2>1
  <2>. QED  BY <1>1, <1>6, <1>7, <2>2
<1>11. IsFiniteSet(bitmap')
  BY <1>4, FS_Subset DEF BlockInv
<1>12. ASSUME NEW q \in Procs, th'[q].pc = "ifree" PROVE dinode'[th'[q].put].addrs = {}
  <2>1. PICK j : j = th'[q].put
    OBVIOUS
  <2>2. CASE q = p
    BY <1>6, <1>7, <1>12, <2>2
  <2>3. CASE q # p
    <3>1. th[q].pc = "ifree" /\ th[q].put = j /\ j \in Inums /\ dinode[j].addrs = {}
      BY <1>1, <1>12, <2>1, <2>3 DEF Others, ControlInv, ThreadOk, Putting, BlockInv
    <3>. QED  BY <1>6, <1>7, <2>1, <3>1
  <2>. QED  BY <2>2, <2>3
<1>. QED  BY <1>5, <1>8, <1>9, <1>10, <1>11, <1>12 DEF BlockInv, BlocksExact

\* A size that does not fill its last block leaves room in it.
LEMMA SizeRoom ==
  ASSUME NEW m \in Nat \ {0}, NEW s \in Nat, NEW c \in Nat, s <= m * c, s % m # 0
  PROVE  s + 1 <= m * c
<1>1. m * c \in Nat
  OBVIOUS
<1>2. s # m * c
  <2>1. SUFFICES ASSUME s = m * c + 0 PROVE s % m = 0
    BY <1>1
  <2>2. 0 \in 0..(m - 1)
    OBVIOUS
  <2>. QED  BY <2>1, <2>2, ModUnique
<1>. QED  BY <1>1, <1>2

\* balloc() finds a block that nobody has.
LEMMA BallocFree == ASSUME Unused # {} PROVE balloc \in Unused
<1>1. Unused \subseteq Nat
  BY FilesAssumption DEF Unused
<1>. QED  BY <1>1, MinIn DEF balloc

\* One block more.
LEMMA OneMore ==
  ASSUME CInv, BlockInv, NEW i \in Inums, NEW b \in Unused
  PROVE  /\ IsFiniteSet(dinode[i].addrs) /\ Cardinality(dinode[i].addrs) \in Nat
         /\ IsFiniteSet({b}) /\ Cardinality(dinode[i].addrs \cup {b}) = Cardinality(dinode[i].addrs) + 1
<1>1. dinode[i].addrs \subseteq bitmap /\ IsFiniteSet(bitmap)
  BY DEF BlockInv, BlocksExact
<1>2. b \notin dinode[i].addrs
  BY <1>1 DEF Unused
<1>3. PICK A : A = dinode[i].addrs
  OBVIOUS
<1>4. IsFiniteSet(A) /\ b \notin A
  BY <1>1, <1>2, <1>3, FS_Subset
<1>5. Cardinality(A) \in Nat /\ Cardinality(A \cup {b}) = Cardinality(A) + 1
  BY <1>4, FS_AddElement, FS_CardinalityType
<1>. QED  BY <1>3, <1>4, <1>5, FS_Singleton

LEMMA BlockDirlink ==
  ASSUME CInv, BlockInv, ~panicked, NEW p \in Procs, Others(p), th'[p].pc # "ifree",
         NEW d \in Inums, NEW n, NEW i, NEW k \in Int, dirlink(d, n, i, k), CanLink(d, n),
         Loaded(d) = dinode[d], ilk[d] \in {p, Nobody}, dinode[d].type # "free" \/ panicked'
  PROVE  BlockInv'
<1>1. dinode[d] \in Inode /\ DPB \in Nat \ {0} /\ bitmap \subseteq Blocks
  BY FilesAssumption DEF CInv, FInv, TypeInv, DiskTypes
<1>2. PICK a, l, s, full : /\ a = dinode[d].addrs /\ l = dinode[d].nlink /\ s = dinode[d].size
                           /\ full = (SlotsUsed(d) = s)
  OBVIOUS
<1>3. PICK new : new = IF NeedsBlock(d) THEN {balloc} ELSE {}
  OBVIOUS
<1>4. PICK f : f = [dinode[d] EXCEPT !.addrs = a \cup new, !.nlink = l + k,
                                     !.size = IF full THEN s + 1 ELSE s]
  OBVIOUS
<1>5. dinode' = [dinode EXCEPT ![d] = f] /\ bitmap' = bitmap \cup new
  BY <1>2, <1>3, <1>4 DEF dirlink, Update
<1>6. a \subseteq Blocks /\ l \in Int /\ s \in Nat /\ s <= DPB * Cardinality(a)
  BY <1>1, <1>2 DEF Inode, BlockInv, BlocksExact
<1>7. new \subseteq Unused /\ IsFiniteSet(new)
  <2>1. NeedsBlock(d) => balloc \in Unused
    BY BallocFree DEF CanLink
  <2>. QED  BY <1>3, <2>1, FS_EmptySet, FS_Singleton
<1>8. new \subseteq Blocks
  BY <1>7 DEF Unused
<1>9. f \in Inode /\ f.addrs = a \cup new /\ f.size = (IF full THEN s + 1 ELSE s) /\ f.type = dinode[d].type
  <2>1. PICK x, y, z : x = a \cup new /\ y = l + k /\ z = IF full THEN s + 1 ELSE s
    OBVIOUS
  <2>2. x \in SUBSET Blocks /\ y \in Int /\ z \in Int
    BY <1>6, <1>8, <2>1
  <2>. QED  BY <1>1, <1>4, <2>1, <2>2 DEF Inode
<1>10. PICK c : c = Cardinality(a)
  OBVIOUS
<1>11. c \in Nat
  <2>1. a \subseteq bitmap /\ IsFiniteSet(bitmap)
    BY <1>2 DEF BlockInv, BlocksExact
  <2>. QED  BY <1>10, <2>1, FS_Subset, FS_CardinalityType
<1>12. f.size >= 0 /\ f.size <= DPB * Cardinality(f.addrs)
  <2>1. CASE NeedsBlock(d)
    <3>1. full /\ new = {balloc} /\ balloc \in Unused
      BY <1>2, <1>3, <2>1, BallocFree DEF NeedsBlock, CanLink
    <3>2. Cardinality(f.addrs) = c + 1
      BY <1>2, <1>9, <1>10, <3>1, OneMore
    <3>3. s + 1 <= DPB * (c + 1)
      BY <1>1, <1>6, <1>10, <1>11
    <3>. QED  BY <1>6, <1>9, <3>1, <3>2, <3>3
  <2>2. CASE ~NeedsBlock(d)
    <3>1. f.addrs = a
      BY <1>3, <1>9, <2>2
    <3>2. CASE full
      <4>1. s % DPB # 0
        BY <1>2, <2>2, <3>2 DEF NeedsBlock
      <4>2. s + 1 <= DPB * c
        BY <1>1, <1>6, <1>10, <1>11, <4>1, SizeRoom
      <4>3. f.size = s + 1 /\ Cardinality(f.addrs) = c
        BY <1>9, <1>10, <3>1, <3>2
      <4>. QED  BY <1>6, <4>2, <4>3
    <3>3. CASE ~full
      <4>1. f.size = s /\ f.addrs = a
        BY <1>9, <3>1, <3>3
      <4>. QED  BY <1>6, <4>1
    <3>. QED  BY <3>2, <3>3
  <2>. QED  BY <2>1, <2>2
<1>13. Untouched(p, d)
  BY LockUntouched
<1>14. f.type = "free" => panicked'
  BY <1>9
<1>15. f.addrs = dinode[d].addrs \cup new
  BY <1>2, <1>9
<1>. QED  BY <1>5, <1>7, <1>9, <1>12, <1>13, <1>14, <1>15, BlockUpdate

\* A change of the number of links.
LEMMA BlockLinks ==
  ASSUME CInv, BlockInv, ~panicked, NEW p \in Procs, Others(p), th'[p].pc # "ifree",
         NEW i \in Inums, ilk[i] \in {p, Nobody}, NEW n \in Int,
         bitmap' = bitmap, dinode' = [dinode EXCEPT ![i] = [dinode[i] EXCEPT !.nlink = n]]
  PROVE  BlockInv'
<1>1. dinode[i] \in Inode
  BY DEF CInv, FInv, TypeInv, DiskTypes
<1>2. PICK d : d = [dinode[i] EXCEPT !.nlink = n]
  OBVIOUS
<1>3. /\ d \in Inode /\ d.addrs = dinode[i].addrs /\ d.size = dinode[i].size
      /\ d.type = dinode[i].type /\ dinode' = [dinode EXCEPT ![i] = d]
  BY <1>1, <1>2 DEF Inode
<1>. QED  BY <1>3, BlockKeep, LockUntouched

LEMMA IputBlock ==
  ASSUME CInv, BlockInv, ~panicked, NEW p \in Procs, PathStep(p)
  PROVE  BlockInv'
<1>1. /\ Others(p) /\ (th'[p].pc = "ifree" => IputTrunc(p)) /\ th[p] \in Thread /\ ThreadOk(th[p])
      /\ th \in [Procs -> Thread]
  BY PathOne DEF OneStep, CInv, FInv, TypeInv, ControlInv
<1>2. PICK i : i = th[p].put
  OBVIOUS
<1>3. CASE IputTrunc(p)
  <2>1. th[p].pc = "itrunc" /\ itrunc(i) /\ th' = [th EXCEPT ![p].pc = "ifree"]
    BY <1>2, <1>3 DEF IputTrunc
  <2>2. i \in Inums /\ HasLock(th[p], i) /\ th'[p].put = i
    BY <1>1, <1>2, <2>1 DEF ThreadOk, Putting, HasLock, Freeing, Thread
  <2>. QED  BY <1>1, <2>1, <2>2, BlockTrunc
<1>4. CASE IputFree(p)
  <2>1. PICK d : d = [dinode[i] EXCEPT !.type = "free"]
    OBVIOUS
  <2>2. th[p].pc = "ifree" /\ i \in Inums /\ HasLock(th[p], i) /\ dinode[i].addrs = {}
    BY <1>1, <1>2, <1>4 DEF IputFree, ThreadOk, Putting, HasLock, Freeing, BlockInv
  <2>3. itab[i].d = dinode[i] /\ ilk[i] = p /\ dinode[i] \in Inode
    BY <2>2, LockedTyped DEF CInv, FInv, TypeInv, DiskTypes
  <2>4. dinode' = [dinode EXCEPT ![i] = d] /\ bitmap' = bitmap
    BY <1>2, <1>4, <2>1, <2>3 DEF IputFree, Update
  <2>5. d \in Inode /\ d.addrs = dinode[i].addrs /\ d.size = dinode[i].size /\ d.addrs = {}
    BY <2>1, <2>2, <2>3 DEF Inode, Types
  <2>6. Untouched(p, i)
    BY <2>2, <2>3, LockUntouched
  <2>7. th'[p].pc # "ifree"
    BY <1>1, <2>2 DEF IputTrunc
  <2>. QED  BY <1>1, <2>2, <2>4, <2>5, <2>6, <2>7, BlockKeep
<1>5. CASE ~IputTrunc(p) /\ ~IputFree(p)
  <2>1. dinode' = dinode /\ bitmap' = bitmap
    BY <1>5 DEF PathStep, StartCall, WalkFails, WalkOn, WalkToParent, WalkNowhere, Reject, IputLast,
                Iput, IputInvalid, IputDrop, disk
  <2>. QED  BY <1>1, <1>5, <2>1, BlockSame
<1>. QED  BY <1>3, <1>4, <1>5

\* ialloc() gives out an inode without blocks, and not one that is still being freed.
LEMMA IallocBlock ==
  ASSUME CInv, BlockInv, ~panicked, NEW p \in Procs, Others(p), th'[p].pc # "ifree", Ialloc(p)
  PROVE  BlockInv'
<1>1. PICK i \in Inums :
        /\ dinode[i].type = "free" /\ bitmap' = bitmap
        /\ dinode' = [dinode EXCEPT ![i] = [NoInode EXCEPT !.type = NewType(p)]]
  BY DEF Ialloc
<1>2. PICK d, t : t = NewType(p) /\ d = [NoInode EXCEPT !.type = t]
  OBVIOUS
<1>3. dinode[i].addrs = {} /\ dinode[i].size >= 0 /\ dinode[i].size <= DPB * Cardinality({})
  BY <1>1 DEF BlockInv, BlocksExact
<1>4. t \in Types
  BY <1>2 DEF NewType, Types
<1>5. d \in Inode /\ d.addrs = {} /\ d.size = 0
  BY <1>2, <1>4 DEF Inode, NoInode
<1>6. d.size >= 0 /\ d.size <= DPB * Cardinality(d.addrs) /\ (d.type = "free" => d.addrs = {} \/ panicked')
  <2>1. Cardinality({}) = 0 /\ DPB \in Nat
    BY FS_EmptySet, FilesAssumption
  <2>. QED  BY <1>5, <2>1
<1>7. Untouched(p, i)
  <2> SUFFICES ASSUME NEW q \in Procs, th[q].pc = "ifree", th[q].put = i PROVE FALSE
    BY DEF Untouched
  <2>1. HasLock(th[q], i) /\ th[q].pc # "invalid"
    BY DEF HasLock, Freeing
  <2>. QED  BY <1>1, <2>1, LockedTyped
<1>8. PICK new : new = {}
  OBVIOUS
<1>9. /\ new \subseteq Unused /\ IsFiniteSet(new) /\ bitmap' = bitmap \cup new
      /\ d.addrs = dinode[i].addrs \cup new /\ dinode' = [dinode EXCEPT ![i] = d]
  BY <1>1, <1>2, <1>3, <1>5, <1>8, FS_EmptySet
<1>. QED  BY <1>5, <1>6, <1>7, <1>9, BlockUpdate

\* A new directory gets a block of its own.
LEMMA CreateInitBlock ==
  ASSUME CInv, BlockInv, ~panicked, NEW p \in Procs, Others(p), th'[p].pc # "ifree", CreateInit(p)
  PROVE  BlockInv'
<1>1. PICK i, full : i = th[p].ip /\ full = (NewType(p) = "dir" /\ Unused = {})
  OBVIOUS
<1>2. PICK new : new = IF NewType(p) = "dir" /\ ~full THEN {balloc} ELSE {}
  OBVIOUS
<1>3. PICK a, z : a = Loaded(i).addrs \cup new /\ z = IF new = {} THEN Loaded(i).size ELSE 2
  OBVIOUS
<1>4. PICK d : d = [Loaded(i) EXCEPT !.nlink = 1, !.addrs = a, !.size = z]
  OBVIOUS
<1>5. /\ th[p].pc = "createinit" /\ ilk[i] = Nobody /\ dinode' = [dinode EXCEPT ![i] = d]
      /\ bitmap' = bitmap \cup new /\ panicked' = NoType(i)
  BY <1>1, <1>2, <1>3, <1>4 DEF CreateInit, At, WaitsFor, Update
<1>6. th[p].pc \in Points /\ th[p].pc \in HaveIp
  BY <1>5 DEF Points, HaveIp
<1>7. i \in Inums /\ dinode[i] \in Inode /\ bitmap \subseteq Blocks /\ DPB \in Nat /\ DPB >= 2
  <2>1. i \in Inums /\ DiskTypes
    BY <1>1, <1>6, PointRefs
  <2>. QED  BY <2>1, FilesAssumption DEF DiskTypes
<1>8. Loaded(i) = dinode[i] /\ (dinode[i].type # "free" \/ panicked')
  <2>1. Refers(th[p], i)
    BY <1>1, <1>5 DEF Refers, Held
  <2>2. itab[i].ref > 0
    BY <1>7, <2>1, HeldRef DEF CInv
  <2>. QED  BY <1>5, <1>7, <2>1, <2>2, LoadedType, LoadedTyped
<1>9. new = {} \/ (new = {balloc} /\ balloc \in Unused)
  BY <1>1, <1>2, BallocFree
<1>10. new \subseteq Unused /\ IsFiniteSet(new) /\ new \subseteq Blocks
  BY <1>9, FS_EmptySet, FS_Singleton DEF Unused
<1>11. /\ d \in Inode /\ d.addrs = dinode[i].addrs \cup new /\ d.type = dinode[i].type
       /\ d.size = (IF new = {} THEN dinode[i].size ELSE 2)
  <2>1. a \in SUBSET Blocks /\ z \in Int /\ 1 \in Int
    BY <1>3, <1>7, <1>8, <1>10 DEF Inode
  <2>. QED  BY <1>3, <1>4, <1>7, <1>8, <2>1 DEF Inode
<1>12. d.size >= 0 /\ d.size <= DPB * Cardinality(d.addrs)
  <2>1. CASE new = {}
    <3>1. d.size = dinode[i].size /\ d.addrs = dinode[i].addrs
      BY <1>11, <2>1
    <3>. QED  BY <1>7, <3>1 DEF BlockInv, BlocksExact
  <2>2. CASE new = {balloc} /\ balloc \in Unused
    <3>1. PICK c : c = Cardinality(dinode[i].addrs)
      OBVIOUS
    <3>2. c \in Nat /\ Cardinality(d.addrs) = c + 1
      BY <1>7, <1>11, <2>2, <3>1, OneMore
    <3>3. 2 <= DPB * (c + 1)
      BY <1>7, <3>2
    <3>. QED  BY <1>11, <2>2, <3>2, <3>3
  <2>. QED  BY <1>9, <2>1, <2>2
<1>13. d.type = "free" => panicked'
  BY <1>8, <1>11
<1>14. Untouched(p, i)
  BY <1>5, <1>7, LockUntouched
<1>. QED  BY <1>5, <1>7, <1>10, <1>11, <1>12, <1>13, <1>14, BlockUpdate

\* An inode that a call refers to and nobody has locked, or the call itself.
LEMMA FreeLoaded ==
  ASSUME CInv, ~panicked, NEW p \in Procs, NEW i \in Inums, Refers(th[p], i), ilk[i] = Nobody
  PROVE  Loaded(i) = dinode[i] /\ (dinode[i].type # "free" \/ NoType(i)) /\ dinode[i] \in Inode
<1>1. itab[i].ref > 0
  BY HeldRef DEF CInv
<1>2. Loaded(i) = dinode[i]
  BY LoadedType
<1>3. Loaded(i).type # "free" \/ NoType(i)
  BY <1>1, LoadedTyped
<1>. QED  BY <1>2, <1>3 DEF CInv, FInv, TypeInv, DiskTypes

LEMMA MineLoaded ==
  ASSUME CInv, ~panicked, NEW p \in Procs, NEW i \in Inums, th[p].pc \notin Putting,
         \/ th[p].pc \in LockedDp /\ th[p].dp = i
         \/ th[p].pc \in LockedIp /\ th[p].ip = i
  PROVE  /\ ilk[i] = p /\ HasLock(th[p], i) /\ itab[i].d = dinode[i] /\ Loaded(i) = dinode[i]
         /\ dinode[i].type # "free" /\ dinode[i] \in Inode
<1>1. HasLock(th[p], i) /\ th[p].pc # "invalid"
  BY DEF HasLock, Point, Putting
<1>2. dinode[i] \in Inode
  BY DEF CInv, FInv, TypeInv, DiskTypes
<1>. QED  BY <1>1, <1>2, LockedTyped

LEMMA CreateBlock ==
  ASSUME CInv, BlockInv, ~panicked, NEW p \in Procs, CreateStep(p)
  PROVE  BlockInv'
<1>1. Others(p) /\ th'[p].pc # "ifree"
  <2>1. th[p].pc # "itrunc"
    BY DEF CreateStep, CreateExists, CreateFound, CreateNew, Ialloc, IallocFails, IallocIget, CreateInit,
           CreateLink, CreateLinkFails, CreateFail, DropParent, Made, At
  <2>. QED  BY <2>1, CallOne DEF OneStep, IputTrunc
<1>2. CASE Ialloc(p) \/ CreateInit(p)
  BY <1>1, <1>2, IallocBlock, CreateInitBlock
<1>3. CASE CreateLink(p)
  <2>1. PICK d, n, i, k : d = th[p].dp /\ n = th[p].name /\ i = th[p].ip /\ k = ParentLink(NewType(p))
    OBVIOUS
  <2>2. th[p].pc = "dirlink" /\ CanLink(d, n) /\ dirlink(d, n, i, k)
    BY <1>3, <2>1 DEF CreateLink
  <2>3. d \in Inums
    BY <2>1, <2>2, PointRefs DEF Points, HaveDp
  <2>4. ilk[d] = p /\ Loaded(d) = dinode[d] /\ dinode[d].type # "free"
    BY <2>1, <2>2, <2>3, MineLoaded DEF Putting, LockedDp
  <2>5. k \in Int
    BY <2>1 DEF ParentLink
  <2>. QED  BY <1>1, <2>2, <2>3, <2>4, <2>5, BlockDirlink
<1>4. CASE CreateFail(p)
  <2>1. PICK i : i = th[p].ip
    OBVIOUS
  <2>2. th[p].pc = "createfail" /\ bitmap' = bitmap /\ dinode' = [dinode EXCEPT ![i] = [Loaded(i) EXCEPT !.nlink = 0]]
    BY <1>4, <2>1 DEF CreateFail, Update
  <2>3. i \in Inums
    BY <2>1, <2>2, PointRefs DEF Points, HaveIp
  <2>4. ilk[i] = p /\ Loaded(i) = dinode[i]
    BY <2>1, <2>2, <2>3, MineLoaded DEF Putting, LockedIp
  <2>5. 0 \in Int
    OBVIOUS
  <2>. QED  BY <1>1, <2>2, <2>3, <2>4, <2>5, BlockLinks
<1>5. CASE \/ CreateExists(p) \/ CreateFound(p) \/ CreateNew(p) \/ IallocFails(p) \/ IallocIget(p)
           \/ CreateLinkFails(p) \/ DropParent(p) \/ Made(p)
  <2>1. dinode' = dinode /\ bitmap' = bitmap
    BY <1>5 DEF CreateExists, CreateFound, CreateNew, IallocFails, IallocIget, CreateLinkFails,
                DropParent, Made, Hold, Reject, iunlockput, disk
  <2>. QED  BY <1>1, <2>1, BlockSame
<1>. QED  BY <1>2, <1>3, <1>4, <1>5 DEF CreateStep

LEMMA OpenBlock ==
  ASSUME CInv, BlockInv, ~panicked, NEW p \in Procs, OpenStep(p)
  PROVE  BlockInv'
<1>1. Others(p) /\ th'[p].pc # "ifree"
  <2>1. th[p].pc # "itrunc"
    BY DEF OpenStep, OpenLock, Opened, OpenFails, Chdir, Found, At
  <2>. QED  BY <2>1, CallOne DEF OneStep, IputTrunc
<1>2. PICK i : i = th[p].ip
  OBVIOUS
<1>3. CASE Opened(p) /\ itrunc(i)
  <2>1. th[p].pc = "opened"
    BY <1>3 DEF Opened
  <2>2. i \in Inums
    BY <1>2, <2>1, PointRefs DEF Points, HaveIp
  <2>3. HasLock(th[p], i)
    BY <1>2, <2>1, <2>2, MineLoaded DEF Putting, LockedIp
  <2>4. th[p].pc # "invalid" /\ itrunc(i)
    BY <1>3, <2>1
  <2>. QED  BY <1>1, <2>2, <2>3, <2>4, BlockTrunc
<1>4. CASE OpenLock(p) \/ (Opened(p) /\ ~itrunc(i)) \/ OpenFails(p) \/ Chdir(p)
  <2>1. dinode' = dinode /\ bitmap' = bitmap
    BY <1>2, <1>4 DEF OpenLock, Opened, OpenFails, Chdir, Hold, Reject, iunlockput, disk
  <2>. QED  BY <1>1, <2>1, BlockSame
<1>. QED  BY <1>3, <1>4 DEF OpenStep

LEMMA LinkBlock ==
  ASSUME CInv, BlockInv, ~panicked, NEW p \in Procs, LinkStep(p)
  PROVE  BlockInv'
<1>1. Others(p) /\ th'[p].pc # "ifree"
  <2>1. th[p].pc # "itrunc"
    BY DEF LinkStep, UnlinkNothing, UnlinkLookup, UnlinkNotEmpty, UnlinkEntry, UnlinkDec, LinkDir,
           LinkInc, LinkEntry, LinkExists, LinkDrop, LinkFails, LinkPut, LinkBad, Found, At
  <2>. QED  BY <2>1, CallOne DEF OneStep, IputTrunc
<1>2. ASSUME NEW i \in Inums, dinode[i] \in Inode, NEW k \in {-1, 0, 1}, ilk[i] \in {p, Nobody},
             bitmap' = bitmap, dinode' = [dinode EXCEPT ![i] = [dinode[i] EXCEPT !.nlink = dinode[i].nlink + k]]
      PROVE  BlockInv'
  <2>1. PICK n : n = dinode[i].nlink + k
    OBVIOUS
  <2>2. n \in Int
    BY <1>2, <2>1 DEF Inode
  <2>3. bitmap' = bitmap /\ ilk[i] \in {p, Nobody} /\ dinode' = [dinode EXCEPT ![i] = [dinode[i] EXCEPT !.nlink = n]]
    BY <1>2, <2>1
  <2>. QED  BY <1>1, <2>2, <2>3, BlockLinks
<1>3. CASE UnlinkEntry(p)
  <2>1. PICK d, k : d = th[p].dp /\ k = ParentLink(Loaded(th[p].ip).type)
    OBVIOUS
  <2>2. /\ th[p].pc = "unlinklock" /\ bitmap' = bitmap
        /\ dinode' = [dinode EXCEPT ![d] = [itab[d].d EXCEPT !.nlink = itab[d].d.nlink - k]]
    BY <1>3, <2>1 DEF UnlinkEntry, At
  <2>3. d \in Inums
    BY <2>1, <2>2, PointRefs DEF Points, HaveDp
  <2>4. ilk[d] = p /\ itab[d].d = dinode[d] /\ dinode[d] \in Inode
    BY <2>1, <2>2, <2>3, MineLoaded DEF Putting, LockedDp
  <2>5. PICK m \in {-1, 0, 1} : dinode[d].nlink - k = dinode[d].nlink + m
    <3>1. k \in {0, 1} /\ dinode[d].nlink \in Int
      BY <2>1, <2>4 DEF ParentLink, Inode
    <3>. QED  BY <3>1
  <2>6. dinode' = [dinode EXCEPT ![d] = [dinode[d] EXCEPT !.nlink = dinode[d].nlink + m]]
    BY <2>2, <2>4, <2>5
  <2>. QED  BY <1>2, <2>2, <2>3, <2>4, <2>6
<1>4. ASSUME NEW i \in Inums, Loaded(i) = dinode[i], dinode[i] \in Inode, ilk[i] \in {p, Nobody},
             DropLink(i), bitmap' = bitmap
      PROVE  BlockInv'
  <2>1. -1 \in {-1, 0, 1} /\ dinode[i].nlink - 1 = dinode[i].nlink + (-1)
    BY <1>4 DEF Inode
  <2>2. dinode' = [dinode EXCEPT ![i] = [dinode[i] EXCEPT !.nlink = dinode[i].nlink - 1]]
    BY <1>4 DEF DropLink, Update
  <2>3. dinode' = [dinode EXCEPT ![i] = [dinode[i] EXCEPT !.nlink = dinode[i].nlink + (-1)]]
    BY <2>1, <2>2
  <2>. QED  BY <1>2, <1>4, <2>1, <2>3
<1>5. CASE UnlinkDec(p)
  <2>1. PICK i : i = th[p].ip
    OBVIOUS
  <2>2. th[p].pc = "unlinkdec" /\ DropLink(i) /\ bitmap' = bitmap
    BY <1>5, <2>1 DEF UnlinkDec
  <2>3. i \in Inums
    BY <2>1, <2>2, PointRefs DEF Points, HaveIp
  <2>4. ilk[i] = p /\ Loaded(i) = dinode[i] /\ dinode[i] \in Inode
    BY <2>1, <2>2, <2>3, MineLoaded DEF Putting, LockedIp
  <2>. QED  BY <1>4, <2>2, <2>3, <2>4
<1>6. CASE LinkBad(p)
  <2>1. PICK i : i = th[p].old
    OBVIOUS
  <2>2. th[p].pc = "linkbad" /\ ilk[i] = Nobody /\ DropLink(i) /\ bitmap' = bitmap
    BY <1>6, <2>1 DEF LinkBad, At, WaitsFor
  <2>3. i \in Inums
    BY <2>1, <2>2, PointRefs DEF Points, HaveOld
  <2>4. Loaded(i) = dinode[i] /\ dinode[i] \in Inode
    BY <2>1, <2>2, <2>3, FreeLoaded DEF Refers
  <2>. QED  BY <1>4, <2>2, <2>3, <2>4
<1>7. CASE LinkInc(p)
  <2>1. PICK i : i = th[p].ip
    OBVIOUS
  <2>2. /\ th[p].pc = "namei" /\ ilk[i] = Nobody /\ bitmap' = bitmap
        /\ dinode' = [dinode EXCEPT ![i] = [Loaded(i) EXCEPT !.nlink = Loaded(i).nlink + 1]]
    BY <1>7, <2>1 DEF LinkInc, Found, At, WaitsFor
  <2>3. i \in Inums
    BY <2>1, <2>2, PointRefs DEF Points, HaveIp
  <2>4. Loaded(i) = dinode[i] /\ dinode[i] \in Inode
    BY <2>1, <2>2, <2>3, FreeLoaded DEF Refers, Held
  <2>5. dinode' = [dinode EXCEPT ![i] = [dinode[i] EXCEPT !.nlink = dinode[i].nlink + 1]] /\ 1 \in {-1, 0, 1}
    BY <2>2, <2>4
  <2>. QED  BY <1>2, <2>2, <2>3, <2>4, <2>5
<1>8. CASE LinkEntry(p)
  <2>1. PICK d, n, i, k : d = th[p].dp /\ n = th[p].name /\ i = th[p].old /\ k = 0
    OBVIOUS
  <2>2. th[p].pc = "link" /\ ilk[d] = Nobody /\ CanLink(d, n) /\ dirlink(d, n, i, k) /\ panicked' = NoType(d)
    BY <1>8, <2>1 DEF LinkEntry, At, WaitsFor
  <2>3. d \in Inums
    BY <2>1, <2>2, PointRefs DEF Points, HaveDp
  <2>4. Loaded(d) = dinode[d] /\ (dinode[d].type # "free" \/ panicked')
    BY <2>1, <2>2, <2>3, FreeLoaded DEF Refers
  <2>5. k \in Int /\ ilk[d] \in {p, Nobody}
    BY <2>1, <2>2
  <2>. QED  BY <1>1, <2>2, <2>3, <2>4, <2>5, BlockDirlink
<1>9. CASE \/ UnlinkNothing(p) \/ UnlinkLookup(p) \/ UnlinkNotEmpty(p) \/ LinkDir(p) \/ LinkExists(p)
           \/ LinkDrop(p) \/ LinkFails(p) \/ LinkPut(p)
  <2>1. dinode' = dinode /\ bitmap' = bitmap
    BY <1>9 DEF UnlinkNothing, UnlinkLookup, UnlinkNotEmpty, LinkDir, LinkExists, LinkDrop, LinkFails,
                LinkPut, Reject, iunlockput, disk
  <2>. QED  BY <1>1, <2>1, BlockSame
<1>. QED  BY <1>3, <1>5, <1>6, <1>7, <1>8, <1>9 DEF LinkStep

\* A file gets its first block, and keeps it when the copy into it fails.
LEMMA WriteBlock ==
  ASSUME CInv, BlockInv, ~panicked, NEW p \in Procs, Others(p), th'[p].pc # "ifree", Write(p)
  PROVE  BlockInv'
<1>1. PICK fd \in FDs, copied \in BOOLEAN :
        LET f == ofile[p][fd]
            i == file[f].ip
            new == IF Loaded(i).addrs = {} /\ Unused # {} THEN {balloc} ELSE {}
            a == Loaded(i).addrs \cup new
        IN  /\ f # 0 /\ ilk[i] = Nobody /\ Loaded(i).type = "file" /\ bitmap' = bitmap \cup new
            /\ Update(i, [Loaded(i) EXCEPT !.addrs = a, !.size = IF copied /\ a # {} THEN 1 ELSE @])
  BY DEF Write
<1>2. PICK f, i : f = ofile[p][fd] /\ i = file[f].ip
  OBVIOUS
<1>3. PICK new, a : /\ new = (IF Loaded(i).addrs = {} /\ Unused # {} THEN {balloc} ELSE {})
                    /\ a = Loaded(i).addrs \cup new
  OBVIOUS
<1>4. PICK z : z = IF copied /\ a # {} THEN 1 ELSE Loaded(i).size
  OBVIOUS
<1>5. PICK d : d = [Loaded(i) EXCEPT !.addrs = a, !.size = z]
  OBVIOUS
<1>6. /\ f # 0 /\ ilk[i] = Nobody /\ Loaded(i).type = "file" /\ bitmap' = bitmap \cup new
      /\ dinode' = [dinode EXCEPT ![i] = d]
  BY <1>1, <1>2, <1>3, <1>4, <1>5 DEF Update
<1>7. i \in Inums /\ itab[i].ref > 0
  <2>1. ofile \in [Procs -> [FDs -> 0..NFILE]] /\ FInv /\ FileInv
    BY DEF CInv, FInv, TypeInv, UserTypes
  <2>2. f \in 1..NFILE
    BY <1>2, <1>6, <2>1, FilesAssumption
  <2>3. file[f].ref > 0
    BY <1>2, <1>6, <2>1, <2>2, FdOpen
  <2>4. i \in Inums
    BY <1>2, <2>1, <2>2, <2>3 DEF FileInv
  <2>. QED  BY <1>2, <2>1, <2>2, <2>3, <2>4, FileRef
<1>8. Loaded(i) = dinode[i] /\ dinode[i] \in Inode /\ bitmap \subseteq Blocks
  BY <1>6, <1>7, LoadedTyped DEF Loaded, CInv, FInv, TypeInv, DiskTypes
<1>9. new = {} \/ (new = {balloc} /\ balloc \in Unused)
  BY <1>3, BallocFree
<1>10. new \subseteq Unused /\ IsFiniteSet(new) /\ new \subseteq Blocks
  <2>1. PICK b : b = balloc
    OBVIOUS
  <2>2. IsFiniteSet({}) /\ IsFiniteSet({b})
    BY FS_EmptySet, FS_Singleton
  <2>3. new = {} \/ (new = {b} /\ b \in Unused)
    BY <1>9, <2>1
  <2>. QED  BY <2>2, <2>3 DEF Unused
<1>11. /\ d \in Inode /\ d.addrs = a /\ d.type = "file" /\ d.size = z
  <2>1. a \in SUBSET Blocks /\ z \in Int
    BY <1>3, <1>4, <1>8, <1>10 DEF Inode
  <2>. QED  BY <1>5, <1>6, <1>8, <2>1 DEF Inode
<1>12. d.size >= 0 /\ d.size <= DPB * Cardinality(d.addrs)
  <2>1. PICK b, c, s : b = dinode[i].addrs /\ c = Cardinality(dinode[i].addrs) /\ s = dinode[i].size
    OBVIOUS
  <2>2. DPB \in Nat /\ DPB >= 2 /\ s \in Int /\ s >= 0 /\ s <= DPB * c
    BY <1>7, <1>8, <2>1, FilesAssumption DEF Inode, BlockInv, BlocksExact
  <2>3. IsFiniteSet(b) /\ c \in Nat /\ (b # {} => c > 0)
    <3>1. b \subseteq bitmap /\ IsFiniteSet(bitmap)
      BY <1>7, <2>1 DEF BlockInv, BlocksExact
    <3>2. IsFiniteSet(b)
      BY <3>1, FS_Subset
    <3>3. c = Cardinality(b)
      BY <2>1
    <3>. QED  BY <3>2, <3>3, FS_CardinalityType, FS_EmptySet
  <2>4. CASE new = {}
    <3>1. a = b
      BY <1>3, <1>8, <2>1, <2>4
    <3>2. Cardinality(d.addrs) = c
      BY <1>11, <2>1, <3>1
    <3>3. z = s \/ (z = 1 /\ b # {})
      BY <1>4, <1>8, <2>1, <3>1
    <3>4. b # {} => 1 <= DPB * c
      BY <2>2, <2>3
    <3>. QED  BY <1>11, <2>2, <3>2, <3>3, <3>4
  <2>5. CASE new = {balloc} /\ balloc \in Unused
    <3>1. Cardinality(d.addrs) = c + 1
      BY <1>3, <1>7, <1>8, <1>11, <2>1, <2>5, OneMore
    <3>2. z = s \/ z = 1
      BY <1>4, <1>8, <2>1
    <3>3. s <= DPB * (c + 1) /\ 1 <= DPB * (c + 1)
      BY <2>2, <2>3
    <3>. QED  BY <1>11, <2>2, <3>1, <3>2, <3>3
  <2>. QED  BY <1>9, <2>4, <2>5
<1>13. d.type = "free" => d.addrs = {} \/ panicked'
  BY <1>11
<1>14. d.addrs = dinode[i].addrs \cup new
  BY <1>3, <1>8, <1>11
<1>15. Untouched(p, i)
  BY <1>6, <1>7, LockUntouched
<1>. QED  BY <1>6, <1>7, <1>10, <1>11, <1>12, <1>13, <1>14, <1>15, BlockUpdate

LEMMA FileBlock ==
  ASSUME CInv, BlockInv, ~panicked, NEW p \in Procs, FileStep(p)
  PROVE  BlockInv'
<1>1. Others(p) /\ th'[p].pc # "ifree"
  <2>1. th[p].pc # "itrunc"
    BY DEF FileStep, Write, Dup, Close, Exit, Fork
  <2>. QED  BY <2>1, FileOne DEF OneStep, IputTrunc
<1>2. CASE Dup(p) \/ Close(p) \/ Exit(p) \/ \E q \in Procs : Fork(p, q)
  <2>1. dinode' = dinode /\ bitmap' = bitmap
    BY <1>2 DEF Dup, Close, Exit, Fork, fileclose, disk
  <2>. QED  BY <1>1, <2>1, BlockSame
<1>. QED  BY <1>1, <1>2, WriteBlock DEF FileStep

LEMMA BlockNext == CInv /\ BlockInv /\ [FilesNext]_filesVars => BlockInv'
<1> SUFFICES ASSUME CInv, BlockInv, [FilesNext]_filesVars PROVE BlockInv'
  OBVIOUS
<1>1. ASSUME ~panicked, NEW p \in Procs,
             PathStep(p) \/ CreateStep(p) \/ OpenStep(p) \/ LinkStep(p) \/ FileStep(p)
      PROVE  BlockInv'
  BY <1>1, IputBlock, CreateBlock, OpenBlock, LinkBlock, FileBlock
<1>2. CASE Crash
  <2>1. dinode' = dinode /\ bitmap' = bitmap /\ panicked' = panicked /\ th' = [p \in Procs |-> Idle]
    BY <1>2 DEF Crash, disk
  <2>2. \A p \in Procs : th'[p].pc # "ifree"
    BY <2>1 DEF Idle
  <2>. QED  BY <2>1, <2>2 DEF BlockInv, BlocksExact
<1>3. CASE UNCHANGED filesVars
  BY <1>3 DEF filesVars, BlockInv, BlocksExact
<1>. QED  BY <1>1, <1>2, <1>3 DEF FilesNext

LEMMA BlockInit == FilesInit => BlockInv
<1> SUFFICES ASSUME FilesInit PROVE BlockInv
  OBVIOUS
<1>1. PICK b, root : b = Min(Blocks) /\ root = [type |-> "dir", nlink |-> 1, addrs |-> bitmap, size |-> DPB]
  OBVIOUS
<1>2. /\ bitmap = {b} /\ th = [p \in Procs |-> Idle]
      /\ dinode = [i \in Inums |-> IF i = ROOTINO THEN root ELSE NoInode]
  BY <1>1 DEF FilesInit
<1>3. root.type = "dir" /\ root.addrs = {b} /\ root.size = DPB /\ NoInode.addrs = {} /\ NoInode.size = 0
  BY <1>1, <1>2 DEF NoInode
<1>4. IsFiniteSet({b}) /\ Cardinality({b}) = 1 /\ Cardinality({}) = 0
  BY FS_Singleton, FS_EmptySet
<1>5. DPB \in Nat /\ ROOTINO \in Inums
  BY FilesAssumption
<1>6. BlocksExact
  <2>1. \A i, j \in Inums : i # j => dinode[i].addrs \cap dinode[j].addrs = {}
    BY <1>2, <1>3
  <2>2. bitmap = UNION {dinode[i].addrs : i \in Inums}
    <3>1. ASSUME NEW c PROVE c \in bitmap <=> \E i \in Inums : c \in dinode[i].addrs
      BY <1>2, <1>3, <1>5
    <3>. QED  BY <3>1
  <2>3. ASSUME NEW i \in Inums PROVE dinode[i].size <= DPB * Cardinality(dinode[i].addrs)
    <3>1. \/ dinode[i].size = DPB /\ Cardinality(dinode[i].addrs) = 1
          \/ dinode[i].size = 0 /\ Cardinality(dinode[i].addrs) = 0
      BY <1>2, <1>3, <1>4
    <3>. QED  BY <1>5, <3>1
  <2>. QED  BY <2>1, <2>2, <2>3 DEF BlocksExact
<1>7. \A i \in Inums : dinode[i].size >= 0 /\ (dinode[i].type = "free" => dinode[i].addrs = {})
  BY <1>2, <1>3, <1>5
<1>8. \A p \in Procs : th[p].pc # "ifree"
  BY <1>2 DEF Idle
<1>. QED  BY <1>2, <1>4, <1>6, <1>7, <1>8 DEF BlockInv

\* What every step keeps of the blocks.
THEOREM BlockInvariant == FilesSpec => []BlockInv
<1>1. FilesInit => BlockInv
  BY BlockInit
<1>2. FilesSpec => []CInv
  BY CacheInvariant
<1>3. CInv /\ BlockInv /\ [FilesNext]_filesVars => BlockInv'
  BY BlockNext
<1>. QED  BY <1>1, <1>2, <1>3, PTL DEF FilesSpec

\* No block has two owners and none is lost, not only when the log may commit but after
\* every step, whatever allocation failed halfway; and no size goes beyond the blocks.
THEOREM BlocksAccounted == FilesSpec => []BlocksExact
<1>1. BlockInv => BlocksExact
  BY DEF BlockInv
<1>. QED  BY <1>1, BlockInvariant, PTL

\* itrunc() finds marked what it frees, for iput() and for O_TRUNC: no block is freed
\* twice ("freeing free block"), and none that another inode has got meanwhile.
TruncFindsMarked ==
  ~panicked =>
    \A p \in Procs, i \in Inums :
      ((th[p].pc = "itrunc" /\ th[p].put = i) \/ (th[p].pc = "opened" /\ th[p].ip = i)) =>
        /\ itab[i].d.addrs \subseteq bitmap
        /\ \A j \in Inums \ {i} : dinode[j].addrs \cap itab[i].d.addrs = {}

LEMMA TruncFromInv == CInv /\ BlockInv => TruncFindsMarked
<1> SUFFICES ASSUME CInv, BlockInv, ~panicked, NEW p \in Procs, NEW i \in Inums,
                    \/ th[p].pc = "itrunc" /\ th[p].put = i
                    \/ th[p].pc = "opened" /\ th[p].ip = i
             PROVE  /\ itab[i].d.addrs \subseteq bitmap
                    /\ \A j \in Inums \ {i} : dinode[j].addrs \cap itab[i].d.addrs = {}
  BY DEF TruncFindsMarked
<1>1. HasLock(th[p], i) /\ th[p].pc # "invalid"
  BY DEF HasLock, Freeing, Point, Putting, LockedIp
<1>2. itab[i].d = dinode[i]
  BY <1>1, LockedTyped
<1>. QED  BY <1>2 DEF BlockInv, BlocksExact

THEOREM BlocksFreedOnce == FilesSpec => []TruncFindsMarked
<1>1. FilesSpec => []CInv /\ []BlockInv
  BY CacheInvariant, BlockInvariant
<1>. QED  BY <1>1, TruncFromInv, PTL

-----------------------------------------------------------------------------
(* Panics *)

\* A call can panic in three ways only: the inode table is full, and does not hold some
\* inode ("iget: no inodes"); the inode that the call goes on to has been freed ("ilock: no
\* type"); or the entry that it removes names an inode without links ("unlink: nlink < 1").
InodesFull == \E i \in Inums : TableFull(i)
MayPanic(p) ==
  \/ InodesFull
  \/ WaitsFor(p) \in Inums /\ NoType(WaitsFor(p))
  \/ At(p, "unlinklock") /\ Loaded(th[p].ip).nlink < 1

\* The call that panics is the one that makes the step.
Moves(p) == PathStep(p) \/ CreateStep(p) \/ OpenStep(p) \/ LinkStep(p) \/ FileStep(p)
PanicsNamed == panicked' => panicked \/ \E p \in Procs : Moves(p) /\ MayPanic(p)

\* Where a path begins, and what dirlookup() returns.
LEMMA FromInum ==
  ASSUME CInv, NEW p \in Procs, cwd[p] # NoIno, NEW e
  PROVE  From(p, e) \in Inums
BY FilesAssumption DEF CInv, FInv, TypeInv, UserTypes, From, Inums0

LEMMA LookupInum ==
  ASSUME CInv, NEW d \in Inums, NEW n \in Elems, Lookup(d, n) # NoIno
  PROVE  Lookup(d, n) \in Inums
BY LookupType DEF CInv, FInv, TypeInv, Inums0

\* A call is made by a process that has a directory.
LEMMA CallerHere ==
  ASSUME CInv, NEW p \in Procs, th[p].pc \in {"namei", "nameiparent"}
  PROVE  cwd[p] # NoIno
<1>1. Point(th[p]) = th[p].pc
  BY DEF Point, Putting
<1>. QED  BY <1>1 DEF CInv, FInv, GoneInv

LEMMA PathPanics ==
  ASSUME CInv, BlockInv, ~panicked, NEW p \in Procs, PathStep(p), panicked'
  PROVE  MayPanic(p)
<1>1. PICK t, i : t = th[p] /\ i = th[p].put
  OBVIOUS
<1>2. CASE IputLast(p)
  <2>1. th[p].pc = "iput" /\ LastUse(th[p].put) /\ ilk[th[p].put] # Nobody
    BY <1>2 DEF IputLast
  <2>. QED  BY <2>1, IputFromInv DEF IputNeverWaits
<1>3. CASE IputTrunc(p)
  <2>1. th[p].pc = "itrunc" /\ itrunc(i)
    BY <1>1, <1>3 DEF IputTrunc
  <2>2. i \in Inums
    BY <1>1, <2>1 DEF CInv, FInv, ControlInv, ThreadOk, Putting
  <2>3. HasLock(th[p], i) /\ th[p].pc # "invalid"
    BY <1>1, <2>1 DEF HasLock, Freeing
  <2>4. th'[p].pc = "ifree" => th'[p].put = i
    BY <1>1, <1>3 DEF IputTrunc, CInv, FInv, TypeInv, Thread
  <2>5. Others(p)
    BY PathOne DEF OneStep
  <2>. QED  BY <2>1, <2>2, <2>3, <2>4, <2>5, BlockTrunc
<1>4. CASE StartCall(p)
  <2>1. PICK c \in Programs[prog][p] : cwd[p] # NoIno /\ panicked' = TableFull(From(p, c.path))
    BY <1>4 DEF StartCall
  <2>2. From(p, c.path) \in Inums /\ TableFull(From(p, c.path))
    BY <2>1, FromInum
  <2>. QED  BY <2>2 DEF MayPanic, InodesFull
<1>5. CASE WalkFails(p) \/ WalkOn(p) \/ WalkToParent(p)
  <2>0. th[p].pc \in {"namei", "nameiparent"}
    BY <1>5 DEF WalkFails, WalkOn, WalkToParent, Walking, At
  <2>1. WaitsFor(p) = th[p].ip /\ th[p].ip \in Inums
    BY <1>5, <2>0, PointRefs DEF WalkFails, WalkOn, WalkToParent, Walking, WaitsFor, Points, HaveIp
  <2>2. CASE WalkFails(p) \/ WalkToParent(p)
    <3>1. NoType(th[p].ip)
      BY <2>2 DEF WalkFails, WalkToParent, Reject
    <3>. QED  BY <2>1, <3>1 DEF MayPanic
  <2>3. CASE WalkOn(p)
    <3>1. PICK j : j = NextIno(p)
      OBVIOUS
    <3>2. /\ th[p].path # <<>> /\ j # NoIno /\ j = Lookup(th[p].ip, Head(th[p].path))
          /\ NoType(th[p].ip) \/ TableFull(j)
      BY <2>3, <3>1 DEF WalkOn, Walking, NextIno, LookupIget
    <3>3. Head(th[p].path) \in Elems
      BY <3>2 DEF CInv, FInv, TypeInv, Thread
    <3>4. j \in Inums
      BY <2>1, <3>2, <3>3, LookupInum
    <3>. QED  BY <2>1, <3>2, <3>4 DEF MayPanic, InodesFull
  <2>. QED  BY <1>5, <2>2, <2>3
<1>6. CASE WalkNowhere(p) \/ Iput(p) \/ IputFree(p) \/ IputInvalid(p) \/ IputDrop(p)
  BY <1>6 DEF WalkNowhere, Iput, IputFree, IputInvalid, IputDrop
<1>. QED  BY <1>2, <1>3, <1>4, <1>5, <1>6 DEF PathStep

LEMMA CreatePanics ==
  ASSUME CInv, ~panicked, NEW p \in Procs, CreateStep(p), panicked'
  PROVE  MayPanic(p)
<1>1. CASE CreateExists(p) \/ CreateNew(p)
  <2>0. th[p].pc = "create"
    BY <1>1 DEF CreateExists, CreateNew, At
  <2>1. /\ WaitsFor(p) = th[p].dp /\ th[p].dp \in Inums /\ th[p].name \in Elems
    BY <2>0, PointRefs DEF WaitsFor, Points, HaveDp, Thread
  <2>2. PICK j : j = Lookup(th[p].dp, th[p].name)
    OBVIOUS
  <2>3. NoType(th[p].dp) \/ (j # NoIno /\ TableFull(j))
    BY <1>1, <2>2 DEF CreateExists, CreateNew, Hold, LookupIget
  <2>4. NoType(th[p].dp) \/ (j \in Inums /\ TableFull(j))
    BY <2>1, <2>2, <2>3, LookupInum
  <2>. QED  BY <2>1, <2>4 DEF MayPanic, InodesFull
<1>2. CASE CreateFound(p) \/ CreateInit(p)
  <2>0. th[p].pc \in {"createfound", "createinit"}
    BY <1>2 DEF CreateFound, CreateInit, At
  <2>1. WaitsFor(p) = th[p].ip /\ th[p].ip \in Inums
    BY <2>0, PointRefs DEF WaitsFor, Points, HaveIp
  <2>2. NoType(th[p].ip)
    BY <1>2 DEF CreateFound, CreateInit, Hold, Reject
  <2>. QED  BY <2>1, <2>2 DEF MayPanic
<1>3. CASE IallocIget(p)
  <2>1. th[p].pc = "iget" /\ TableFull(th[p].ip)
    BY <1>3 DEF IallocIget
  <2>2. th[p].ip \in Inums
    BY <2>1, PointRefs DEF Points, HaveIp
  <2>. QED  BY <2>1, <2>2 DEF MayPanic, InodesFull
<1>4. CASE \/ Ialloc(p) \/ IallocFails(p) \/ CreateLink(p) \/ CreateLinkFails(p) \/ CreateFail(p)
           \/ DropParent(p) \/ Made(p)
  BY <1>4 DEF Ialloc, IallocFails, CreateLink, CreateLinkFails, CreateFail, DropParent, Made, iunlockput
<1>. QED  BY <1>1, <1>2, <1>3, <1>4 DEF CreateStep

LEMMA OpenPanics ==
  ASSUME CInv, BlockInv, ~panicked, NEW p \in Procs, OpenStep(p), panicked'
  PROVE  MayPanic(p)
<1>1. PICK i : i = th[p].ip
  OBVIOUS
<1>2. CASE OpenLock(p) \/ Chdir(p)
  <2>0. th[p].pc = "namei"
    BY <1>2 DEF OpenLock, Chdir, Found, At
  <2>1. WaitsFor(p) = i /\ i \in Inums
    BY <1>1, <2>0, PointRefs DEF WaitsFor, Points, HaveIp
  <2>2. NoType(i)
    BY <1>1, <1>2 DEF OpenLock, Chdir, Hold, Reject
  <2>. QED  BY <2>1, <2>2 DEF MayPanic
<1>3. CASE Opened(p) /\ itrunc(i)
  <2>1. th[p].pc = "opened"
    BY <1>3 DEF Opened
  <2>2. i \in Inums
    BY <1>1, <2>1, PointRefs DEF Points, HaveIp
  <2>3. HasLock(th[p], i)
    BY <1>1, <2>1, <2>2, MineLoaded DEF Putting, LockedIp
  <2>4. Others(p) /\ th'[p].pc # "ifree"
    BY <2>1, CallOne DEF OneStep, IputTrunc
  <2>5. th[p].pc # "invalid" /\ itrunc(i)
    BY <1>3, <2>1
  <2>. QED  BY <2>2, <2>3, <2>4, <2>5, BlockTrunc
<1>4. CASE (Opened(p) /\ ~itrunc(i)) \/ OpenFails(p)
  BY <1>1, <1>4 DEF Opened, OpenFails, iunlockput
<1>. QED  BY <1>2, <1>3, <1>4 DEF OpenStep

LEMMA LinkPanics ==
  ASSUME CInv, ~panicked, NEW p \in Procs, LinkStep(p), panicked'
  PROVE  MayPanic(p)
<1>1. CASE \/ UnlinkNothing(p) \/ UnlinkLookup(p) \/ LinkEntry(p) \/ LinkExists(p)
           \/ LinkFails(p)
  <2>0. th[p].pc \in {"unlink", "link"}
    BY <1>1 DEF UnlinkNothing, UnlinkLookup, LinkEntry, LinkExists, LinkFails, At
  <2>1. /\ WaitsFor(p) = th[p].dp /\ th[p].dp \in Inums /\ th[p].name \in Elems
    BY <2>0, PointRefs DEF WaitsFor, Points, HaveDp, Thread
  <2>2. PICK j : j = Lookup(th[p].dp, th[p].name)
    OBVIOUS
  <2>3. NoType(th[p].dp) \/ (j # NoIno /\ TableFull(j))
    BY <1>1, <2>2 DEF UnlinkNothing, UnlinkLookup, LinkEntry, LinkExists, LinkFails, Reject, LookupIget
  <2>4. NoType(th[p].dp) \/ (j \in Inums /\ TableFull(j))
    BY <2>1, <2>2, <2>3, LookupInum
  <2>. QED  BY <2>1, <2>4 DEF MayPanic, InodesFull
<1>2. CASE UnlinkNotEmpty(p) \/ UnlinkEntry(p) \/ LinkDir(p) \/ LinkInc(p)
  <2>0. th[p].pc \in {"namei", "unlinklock"} /\ (LinkInc(p) => th[p].pc = "namei")
    BY <1>2 DEF UnlinkNotEmpty, UnlinkEntry, LinkDir, LinkInc, Found, At
  <2>1. WaitsFor(p) = th[p].ip /\ th[p].ip \in Inums
    BY <2>0, PointRefs DEF WaitsFor, Points, HaveIp
  <2>2. CASE LinkInc(p)
    <3>1. PICK j : j = From(p, th[p].call.new)
      OBVIOUS
    <3>2. NoType(th[p].ip) \/ TableFull(j)
      BY <2>2, <3>1 DEF LinkInc
    <3>3. j \in Inums
      BY <2>0, <2>2, <3>1, CallerHere, FromInum
    <3>. QED  BY <2>1, <3>2, <3>3 DEF MayPanic, InodesFull
  <2>3. CASE UnlinkNotEmpty(p) \/ UnlinkEntry(p) \/ LinkDir(p)
    <3>1. NoType(th[p].ip) \/ (At(p, "unlinklock") /\ Loaded(th[p].ip).nlink < 1)
      BY <2>3 DEF UnlinkNotEmpty, UnlinkEntry, LinkDir, Reject
    <3>. QED  BY <2>1, <3>1 DEF MayPanic
  <2>. QED  BY <1>2, <2>2, <2>3
<1>3. CASE LinkBad(p)
  <2>0. th[p].pc = "linkbad"
    BY <1>3 DEF LinkBad, At
  <2>1. WaitsFor(p) = th[p].old /\ th[p].old \in Inums
    BY <2>0, PointRefs DEF WaitsFor, Points, HaveOld
  <2>. QED  BY <1>3, <2>1 DEF LinkBad, MayPanic
<1>4. CASE UnlinkDec(p) \/ LinkPut(p) \/ LinkDrop(p)
  BY <1>4 DEF UnlinkDec, LinkPut, LinkDrop, iunlockput
<1>. QED  BY <1>1, <1>2, <1>3, <1>4 DEF LinkStep

\* A descriptor names a file that is open, and a write an inode that has a type.
LEMMA FilePanics ==
  ASSUME CInv, ~panicked, NEW p \in Procs, FileStep(p)
  PROVE  ~panicked'
<1>1. /\ ofile \in [Procs -> [FDs -> 0..NFILE]] /\ file \in [1..NFILE -> OpenFile]
      /\ FInv /\ FileInv /\ FdInv
  BY DEF CInv, FInv, TypeInv, UserTypes
<1>2. ASSUME NEW fd \in FDs, ofile[p][fd] # 0
      PROVE  ofile[p][fd] \in 1..NFILE /\ file[ofile[p][fd]].ref >= 1
  <2>1. PICK f : f = ofile[p][fd]
    OBVIOUS
  <2>2. f \in 1..NFILE
    BY <1>1, <1>2, <2>1, FilesAssumption
  <2>3. file[f].ref > 0
    BY <1>1, <1>2, <2>1, <2>2, FdOpen
  <2>4. file[f].ref \in Nat
    BY <1>1, <2>2 DEF OpenFile
  <2>. QED  BY <2>1, <2>2, <2>3, <2>4
<1>3. ASSUME NEW fd \in FDs, NEW r, fileclose(p, fd, r) PROVE ~panicked'
  <2>1. PICK f : f = ofile[p][fd]
    OBVIOUS
  <2>2. f # 0 /\ panicked' = (file[f].ref < 1)
    BY <1>3, <2>1 DEF fileclose
  <2>3. file[f].ref >= 1 /\ file[f].ref \in Nat
    BY <1>1, <1>2, <2>1, <2>2 DEF OpenFile
  <2>4. ~(file[f].ref < 1)
    BY <2>3
  <2>. QED  BY <2>2, <2>4, Zenon
<1>4. CASE Write(p)
  <2>1. PICK i : ilk[i] = Nobody /\ Loaded(i).type = "file" /\ panicked' = NoType(i)
    BY <1>4 DEF Write
  <2>. QED  BY <2>1 DEF Loaded, NoType
<1>5. CASE Close(p) \/ Exit(p)
  BY <1>3, <1>5 DEF Close, Exit
<1>6. CASE Dup(p) \/ \E q \in Procs : Fork(p, q)
  BY <1>6 DEF Dup, Fork
<1>. QED  BY <1>4, <1>5, <1>6 DEF FileStep

LEMMA PanicsFromInv == CInv /\ BlockInv /\ [FilesNext]_filesVars => PanicsNamed
<1> SUFFICES ASSUME CInv, BlockInv, [FilesNext]_filesVars, ~panicked, panicked'
             PROVE  \E p \in Procs : Moves(p) /\ MayPanic(p)
  BY DEF PanicsNamed
<1>1. ASSUME NEW p \in Procs, PathStep(p) \/ CreateStep(p) \/ OpenStep(p) \/ LinkStep(p)
      PROVE  MayPanic(p)
  BY <1>1, PathPanics, CreatePanics, OpenPanics, LinkPanics
<1>2. ASSUME NEW p \in Procs, FileStep(p) PROVE FALSE
  BY <1>2, FilePanics
<1>3. ~Crash /\ ~UNCHANGED filesVars
  BY DEF Crash, filesVars
<1>4. PICK p \in Procs : Moves(p)
  BY <1>3 DEF FilesNext, Moves
<1>5. MayPanic(p)
  BY <1>1, <1>2, <1>4 DEF Moves
<1>. QED  BY <1>4, <1>5

\* No other check of the file system fails, for any programs: no block is freed twice, no
\* file is closed more often than opened, and the last iput() never waits for a lock.
THEOREM OnlyThreePanics == FilesSpec => [][PanicsNamed]_filesVars
<1>1. FilesSpec => []CInv /\ []BlockInv
  BY CacheInvariant, BlockInvariant
<1>2. FilesSpec => [][FilesNext]_filesVars
  BY PTL DEF FilesSpec
<1>3. CInv /\ BlockInv /\ [FilesNext]_filesVars => [PanicsNamed]_filesVars
  BY PanicsFromInv
<1>. QED  BY <1>1, <1>2, <1>3, PTL
=============================================================================
