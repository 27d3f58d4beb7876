---------------------------- MODULE LinksProofs ----------------------------
(***************************************************************************)
(* Proofs about the links of inodes, on top of those of FilesProofs: what  *)
(* names an inode and what links it agree, named inodes are kept, and a    *)
(* full inode table is the only panic, as long as nobody goes up to a      *)
(* directory that has gone or makes an entry in one.  That is so, among    *)
(* others, when nobody's unlink() comes to a directory.                    *)
(*                                                                         *)
(* Between the steps of create(), link() and unlink() the links and the    *)
(* names differ.  The invariants say by how much at each point of a call:  *)
(* each process claims the links that it has counted and not yet named, or *)
(* unnamed and not yet discounted.                                         *)
(***************************************************************************)
EXTENDS FilesProofs

-----------------------------------------------------------------------------
(* Links *)

\* Whoever goes up from directory d: to be at ".." in a path, or to have it as the name
\* of what create() or link() is to make.
LooksUp(p, d) ==
  /\ dinode[d].type = "dir"
  /\ \/ Walking(p) /\ ~AtLast(p) /\ Head(th[p].path) = ".." /\ th[p].ip = d
     \/ (At(p, "create") \/ At(p, "link")) /\ th[p].name = ".." /\ th[p].dp = d

\* Whoever goes up finds a directory that has a link.  (unlink() leaves the ".." of a
\* directory that it removes; the parent may be gone when somebody follows it.)
ParentKept ==
  \A p \in Procs, d \in Inums :
    LooksUp(p, d) /\ ents[d][".."] # NoIno => dinode[ents[d][".."]].nlink > 0

\* Uses of an inode, those of iput() aside when it is freeing it, or has freed it.
UsedBy(t, i) ==
  \/ Held(t, "ip") = i \/ t.dp = i \/ t.old = i
  \/ t.pc = "iput" /\ t.put = i
InUse(i) ==
  \/ \E q \in Procs : UsedBy(th[q], i) \/ cwd[q] = i
  \/ \E f \in 1..NFILE : FileIno(file[f]) = i

\* An inode in use has a type, and one without a type no links.
TypedInv == \A i \in Inums : /\ InUse(i) => dinode[i].type # "free"
                             /\ dinode[i].type = "free" => dinode[i].nlink = 0

\* Whoever is about to free an inode, or has been given a new one, is alone with it, and
\* it has no links by which another could find it.
Owns(t, i) ==
  \/ t.pc \in {"itrunc", "ifree"} /\ t.put = i
  \/ t.pc \in {"iget", "createinit"} /\ t.ip = i
Alone(p, i) ==
  /\ \A q \in Procs \ {p} : ~UsedBy(th[q], i) /\ ~Owns(th[q], i)
  /\ th[p].pc = "createinit" \/ ~UsedBy(th[p], i)
  /\ \A q \in Procs : cwd[q] # i
  /\ \A f \in 1..NFILE : FileIno(file[f]) # i
  /\ dinode[i].nlink = 0 /\ dinode[i].type # "free"
AloneInv == \A p \in Procs, i \in Inums : Owns(th[p], i) => Alone(p, i)

\* What create() makes has the type that it is to have, and its first link.
MadeInv ==
  \A p \in Procs :
    /\ th[p].pc \in {"iget", "createinit", "dirlink", "createfail"} => dinode[th[p].ip].type = NewType(p)
    /\ th[p].pc \in {"dirlink", "createfail"} => dinode[th[p].ip].nlink = 1

\* While iput() is about to forget an inode that it has freed, nobody has it, or create()
\* has just been given it.
Maker(i) == \E q \in Procs : th[q].pc \in {"iget", "createinit"} /\ th[q].ip = i
ForgetInv ==
  \A p \in Procs : th[p].pc = "invalid" => dinode[th[p].put].type = "free" \/ Maker(th[p].put)

UseInv == TypedInv /\ AloneInv /\ MadeInv /\ ForgetInv

\* An inode that is referenced and has not been read yet has a link, or is a new one.
ReadInv ==
  \A i \in Inums : itab[i].ref > 0 /\ ~itab[i].valid /\ dinode[i].type # "free" =>
    dinode[i].nlink >= 1 \/ Maker(i)

-----------------------------------------------------------------------------
(* Steps that give out no inode and free none *)

\* Where a step of process p may have a reference from.
Source(p, i) ==
  \/ UsedBy(th[p], i) \/ cwd[p] = i
  \/ \E f \in 1..NFILE : FileIno(file[f]) = i
  \/ dinode[i].nlink > 0
RefsFrom(p) ==
  \A i \in Inums :
    /\ UsedBy(th'[p], i) => Source(p, i)
    /\ \A q \in Procs : cwd'[q] = i => cwd[q] = i \/ Source(p, i)
    /\ \A f \in 1..NFILE : FileIno(file'[f]) = i => FileIno(file[f]) = i \/ Source(p, i)

\* The points of create() with a new inode.
NewPoints == {"iget", "createinit", "dirlink", "createfail"}
Ordinary(p) ==
  /\ Others(p) /\ TypesSame /\ RefsFrom(p)
  /\ th[p].pc \notin {"iget", "createinit"}
  /\ th'[p].pc \notin {"iget", "createinit", "itrunc", "invalid"}
  /\ th'[p].pc = "ifree" => th[p].pc = "itrunc" /\ th'[p].put = th[p].put
  /\ th'[p].pc \in {"dirlink", "createfail"} =>
       /\ th[p].pc = "dirlink" /\ th'[p].ip = th[p].ip /\ th'[p].call = th[p].call
       /\ dinode' = dinode
  /\ \A i \in Inums : \/ dinode'[i].nlink = dinode[i].nlink
                      \/ UsedBy(th[p], i) /\ ilk[i] \in {p, Nobody}

LEMMA UsedRef ==
  ASSUME FInv, NEW p \in Procs, NEW i \in Inums, UsedBy(th[p], i)
  PROVE  itab[i].ref > 0
<1>1. Refers(th[p], i)
  BY DEF UsedBy, Refers
<1>. QED  BY <1>1, HeldRef

LEMMA CwdRef ==
  ASSUME FInv, NEW p \in Procs, NEW i \in Inums, cwd[p] = i
  PROVE  itab[i].ref > 0
<1>1. PICK F, k : F = Ptr /\ k = <<p, "cwd">>
  OBVIOUS
<1>2. k \in Places /\ F[k] = i
  BY <1>1, PtrAt DEF Places, PtrShape
<1>3. Finite(F) /\ k \in DOMAIN F
  BY <1>1, <1>2, PlacesFinite DEF Finite
<1>4. Count(F, i) \in Nat \ {0}
  BY <1>2, <1>3, CountType
<1>. QED  BY <1>1, <1>4 DEF FInv, RefInv

\* What a reference comes from has a type.
LEMMA SourceTyped ==
  ASSUME FInv, TypedInv, NEW p \in Procs, NEW i \in Inums, Source(p, i)
  PROVE  dinode[i].type # "free" /\ (itab[i].ref > 0 \/ dinode[i].nlink > 0)
<1>1. CASE dinode[i].nlink > 0
  BY <1>1 DEF TypedInv
<1>2. CASE UsedBy(th[p], i) \/ cwd[p] = i
  BY <1>2, UsedRef, CwdRef DEF TypedInv, InUse
<1>3. CASE \E f \in 1..NFILE : FileIno(file[f]) = i
  <2>1. PICK f \in 1..NFILE : FileIno(file[f]) = i
    BY <1>3
  <2>2. file[f].ref > 0 /\ file[f].ip = i
    BY <2>1, FilesAssumption DEF FileIno
  <2>. QED  BY <2>1, <2>2, FileRef DEF TypedInv, InUse
<1>. QED  BY <1>1, <1>2, <1>3 DEF Source

LEMMA OrdinaryTyped ==
  ASSUME FInv, TypedInv, NEW p \in Procs, Ordinary(p)
  PROVE  TypedInv'
<1>1. ASSUME NEW i \in Inums, InUse(i)' PROVE dinode[i].type # "free"
  <2>1. CASE \E q \in Procs : UsedBy(th'[q], i)
    <3>1. PICK q \in Procs : UsedBy(th'[q], i)
      BY <2>1
    <3>2. CASE q = p
      <4>1. Source(p, i)
        BY <3>1, <3>2 DEF Ordinary, RefsFrom
      <4>. QED  BY <4>1, SourceTyped
    <3>3. CASE q # p
      <4>1. th'[q] = th[q]
        BY <3>3 DEF Ordinary, Others
      <4>. QED  BY <3>1, <4>1 DEF TypedInv, InUse
    <3>. QED  BY <3>2, <3>3
  <2>2. CASE \E q \in Procs : cwd'[q] = i
    <3>1. PICK q \in Procs : cwd'[q] = i
      BY <2>2
    <3>2. cwd[q] = i \/ Source(p, i)
      BY <3>1 DEF Ordinary, RefsFrom
    <3>. QED  BY <3>2, SourceTyped DEF TypedInv, InUse
  <2>3. CASE \E f \in 1..NFILE : FileIno(file'[f]) = i
    <3>1. PICK f \in 1..NFILE : FileIno(file'[f]) = i
      BY <2>3
    <3>2. FileIno(file[f]) = i \/ Source(p, i)
      BY <3>1 DEF Ordinary, RefsFrom
    <3>. QED  BY <3>2, SourceTyped DEF TypedInv, InUse
  <2>. QED  BY <1>1, <2>1, <2>2, <2>3 DEF InUse
<1>2. ASSUME NEW i \in Inums, dinode'[i].type = "free" PROVE dinode'[i].nlink = 0
  <2>1. dinode[i].type = "free" /\ dinode[i].nlink = 0
    BY <1>2 DEF Ordinary, TypesSame, TypedInv
  <2>2. ~UsedBy(th[p], i)
    BY <2>1 DEF TypedInv, InUse
  <2>. QED  BY <2>1, <2>2 DEF Ordinary
<1>. QED  BY <1>1, <1>2 DEF TypedInv, Ordinary, TypesSame

LEMMA OrdinaryAlone ==
  ASSUME AloneInv, NEW p \in Procs, Ordinary(p)
  PROVE  AloneInv'
<1> SUFFICES ASSUME NEW q \in Procs, NEW i \in Inums, Owns(th'[q], i) PROVE Alone(q, i)'
  BY DEF AloneInv
<1>1. Others(p) /\ RefsFrom(p) /\ TypesSame
  BY DEF Ordinary
<1>2. ASSUME NEW r \in Procs, Owns(th'[r], i) PROVE Owns(th[r], i)
  <2>1. CASE r = p
    BY <1>2, <2>1 DEF Ordinary, Owns
  <2>2. CASE r # p
    BY <1>1, <1>2, <2>2 DEF Others
  <2>. QED  BY <2>1, <2>2
<1>3. Alone(q, i)
  BY <1>2 DEF AloneInv
<1>4. ~UsedBy(th[p], i)
  BY <1>3 DEF Alone, Ordinary
<1>5. ~Source(p, i)
  <2>1. ~(dinode[i].nlink > 0)
    BY <1>3 DEF Alone
  <2>2. cwd[p] # i /\ \A f \in 1..NFILE : FileIno(file[f]) # i
    BY <1>3 DEF Alone
  <2>. QED  BY <1>4, <2>1, <2>2 DEF Source
<1>6. ASSUME NEW r \in Procs \ {q} PROVE ~UsedBy(th'[r], i) /\ ~Owns(th'[r], i)
  <2>1. ~UsedBy(th[r], i) /\ ~Owns(th[r], i)
    BY <1>3 DEF Alone
  <2>2. CASE r = p
    BY <1>1, <1>2, <1>5, <2>1, <2>2 DEF RefsFrom
  <2>3. CASE r # p
    BY <1>1, <2>1, <2>3 DEF Others
  <2>. QED  BY <2>2, <2>3
<1>7. th'[q].pc = "createinit" \/ ~UsedBy(th'[q], i)
  <2>1. CASE q = p
    BY <1>1, <1>5, <2>1 DEF RefsFrom
  <2>2. CASE q # p
    BY <1>1, <1>3, <2>2 DEF Others, Alone
  <2>. QED  BY <2>1, <2>2
<1>8. (\A r \in Procs : cwd'[r] # i) /\ \A f \in 1..NFILE : FileIno(file'[f]) # i
  BY <1>1, <1>3, <1>5 DEF RefsFrom, Alone
<1>9. dinode'[i].nlink = 0 /\ dinode'[i].type # "free"
  <2>1. dinode[i].nlink = 0 /\ dinode[i].type # "free"
    BY <1>3 DEF Alone
  <2>. QED  BY <1>4, <2>1 DEF Ordinary, TypesSame
<1>. QED  BY <1>6, <1>7, <1>8, <1>9 DEF Alone

LEMMA OrdinaryMade ==
  ASSUME CInv, MadeInv, ForgetInv, NEW p \in Procs, Ordinary(p)
  PROVE  MadeInv' /\ ForgetInv'
<1>1. Others(p) /\ TypesSame /\ ControlInv /\ NoIno \notin Inums
  BY FilesAssumption DEF Ordinary, CInv, FInv
<1>2. ASSUME NEW q \in Procs
      PROVE  /\ th'[q].pc \in NewPoints => dinode'[th'[q].ip].type = NewType(q)'
             /\ th'[q].pc \in {"dirlink", "createfail"} => dinode'[th'[q].ip].nlink = 1
  <2>1. CASE q = p
    <3>1. th'[p].pc \in NewPoints => th'[p].pc \in {"dirlink", "createfail"}
      BY DEF Ordinary, NewPoints
    <3> SUFFICES ASSUME th'[p].pc \in {"dirlink", "createfail"}
                 PROVE  dinode'[th'[p].ip].type = NewType(p)' /\ dinode'[th'[p].ip].nlink = 1
      BY <2>1, <3>1
    <3>2. th[p].pc = "dirlink" /\ th'[p].ip = th[p].ip /\ th'[p].call = th[p].call /\ dinode' = dinode
      BY DEF Ordinary
    <3>. QED  BY <3>2 DEF MadeInv, NewType
  <2>2. CASE q # p
    <3>1. th'[q] = th[q]
      BY <1>1, <2>2 DEF Others
    <3> SUFFICES ASSUME th[q].pc \in NewPoints
                 PROVE  /\ dinode'[th[q].ip].type = NewType(q)
                        /\ th[q].pc \in {"dirlink", "createfail"} => dinode'[th[q].ip].nlink = 1
      BY <3>1 DEF NewType, NewPoints
    <3>2. PICK i : i = th[q].ip
      OBVIOUS
    <3>3. i \in Inums
      BY <3>2, PointRefs DEF NewPoints, Points, HaveIp
    <3>4. dinode'[i].type = NewType(q)
      BY <1>1, <3>2, <3>3 DEF MadeInv, TypesSame, NewPoints
    <3>5. ASSUME th[q].pc \in {"dirlink", "createfail"} PROVE dinode'[i].nlink = 1
      <4>1. dinode[i].nlink = 1
        BY <3>2, <3>5 DEF MadeInv
      <4>2. HasLock(th[q], i)
        BY <3>2, <3>5 DEF HasLock, Point, Putting, LockedIp
      <4>3. ilk[i] = q
        BY <3>3, <4>2 DEF CInv, LockInv
      <4>. QED  BY <2>2, <3>3, <4>1, <4>3, FilesAssumption DEF Ordinary
    <3>. QED  BY <3>2, <3>4, <3>5
  <2>. QED  BY <2>1, <2>2
<1>3. MadeInv'
  BY <1>2 DEF MadeInv, NewPoints
<1>4. ASSUME NEW q \in Procs, NEW i, th'[q].pc = "invalid", i = th'[q].put
      PROVE  dinode'[i].type = "free" \/ Maker(i)'
  <2>1. q # p /\ th'[q] = th[q]
    BY <1>1, <1>4 DEF Others, Ordinary
  <2>2. i = th[q].put /\ th[q].pc = "invalid"
    BY <1>4, <2>1
  <2>3. i \in Inums
    BY <1>1, <2>2 DEF ControlInv, ThreadOk, Putting
  <2>4. dinode[i].type = "free" \/ Maker(i)
    BY <2>2 DEF ForgetInv
  <2>5. Maker(i) => Maker(i)'
    BY <1>1 DEF Maker, Others, Ordinary
  <2>. QED  BY <1>1, <2>3, <2>4, <2>5 DEF TypesSame
<1>. QED  BY <1>3, <1>4 DEF ForgetInv, Maker

LEMMA OrdinaryUse ==
  ASSUME CInv, UseInv, NEW p \in Procs, Ordinary(p)
  PROVE  UseInv'
BY OrdinaryTyped, OrdinaryAlone, OrdinaryMade DEF UseInv, CInv

\* What is read stays read while it is referenced, and links are counted where they are read.
ReadStep(p) ==
  /\ \A i \in Inums : /\ itab[i].ref > 0 /\ itab[i].valid /\ itab'[i].ref > 0 => itab'[i].valid
                      /\ dinode'[i].nlink = dinode[i].nlink \/ itab'[i].valid
  /\ th'[p].pc # "iput" /\ th'[p].put \in Inums => th'[p].put = th[p].put

\* Every reference is somebody's.
RefHeld ==
  \A i \in Inums : itab[i].ref > 0 =>
    \/ \E q \in Procs : Refers(th[q], i) \/ cwd[q] = i
    \/ \E f \in 1..NFILE : FileIno(file[f]) = i

LEMMA RefHeldInv == FInv => RefHeld
<1> SUFFICES ASSUME FInv, NEW i \in Inums, itab[i].ref > 0
             PROVE  \/ \E q \in Procs : Refers(th[q], i) \/ cwd[q] = i
                    \/ \E f \in 1..NFILE : FileIno(file[f]) = i
  BY DEF RefHeld
<1>1. PICK F : F = Ptr
  OBVIOUS
<1>2. DOMAIN F = Places /\ Finite(F)
  BY <1>1, PlacesFinite DEF Finite
<1>3. Count(F, i) # 0
  BY <1>1 DEF FInv, RefInv
<1>4. PICK h \in Places : F[h] = i
  BY <1>2, <1>3, CountType
<1>5. CASE h \in (1..NFILE) \X {"file"}
  <2>1. PICK f \in 1..NFILE : h = <<f, "file">>
    BY <1>5
  <2>. QED  BY <1>1, <1>4, <2>1, PtrAt DEF PtrShape
<1>6. CASE h \in Procs \X (Vars \cup {"cwd"})
  <2>1. PICK q \in Procs, v \in Vars \cup {"cwd"} : h = <<q, v>>
    BY <1>6
  <2>. QED  BY <1>1, <1>4, <2>1, PtrAt DEF PtrShape, Vars, Refers
<1>. QED  BY <1>4, <1>5, <1>6 DEF Places

LEMMA OrdinaryRead ==
  ASSUME FInv, FInv', UseInv, ReadInv, NEW p \in Procs, Ordinary(p), ReadStep(p)
  PROVE  ReadInv'
<1> SUFFICES ASSUME NEW i \in Inums, itab'[i].ref > 0, ~itab'[i].valid, dinode'[i].type # "free"
             PROVE  dinode'[i].nlink >= 1 \/ Maker(i)'
  BY DEF ReadInv
<1>1. dinode[i].type # "free" /\ dinode'[i].nlink = dinode[i].nlink
  BY DEF Ordinary, TypesSame, ReadStep
<1>2. CASE itab[i].ref > 0
  <2>1. ~itab[i].valid
    BY <1>2 DEF ReadStep
  <2>2. dinode[i].nlink >= 1 \/ Maker(i)
    BY <1>1, <1>2, <2>1 DEF ReadInv
  <2>3. Maker(i) => Maker(i)'
    BY DEF Maker, Others, Ordinary
  <2>. QED  BY <1>1, <2>2, <2>3
<1>3. CASE ~(itab[i].ref > 0)
  <2>1. RefHeld'
    BY RefHeldInv, PTL
  <2>6. \/ \E q \in Procs : Refers(th'[q], i) \/ cwd'[q] = i
        \/ \E f \in 1..NFILE : FileIno(file'[f]) = i
    BY <2>1 DEF RefHeld
  <2>7. ASSUME NEW q \in Procs, Refers(th[q], i) \/ cwd[q] = i PROVE FALSE
    BY <1>3, <2>7, HeldRef, CwdRef
  <2>8. ASSUME NEW f \in 1..NFILE, FileIno(file[f]) = i PROVE FALSE
    BY <1>3, <2>8, FileRef, FilesAssumption DEF FileIno
  <2>9. Source(p, i)
    <3>1. CASE \E q \in Procs : Refers(th'[q], i)
      <4>1. PICK q \in Procs : Refers(th'[q], i)
        BY <3>1
      <4>2. q = p
        BY <2>7, <4>1 DEF Ordinary, Others
      <4>3. UsedBy(th'[p], i)
        <5>1. ASSUME th'[p].put = i, th'[p].pc # "iput" PROVE FALSE
          <6>1. th[p].put = i
            BY <5>1 DEF ReadStep
          <6>. QED  BY <2>7, <6>1 DEF Refers
        <5>. QED  BY <4>1, <4>2, <5>1 DEF Refers, UsedBy
      <4>. QED  BY <4>3 DEF Ordinary, RefsFrom
    <3>2. CASE \E q \in Procs : cwd'[q] = i
      BY <2>7, <3>2 DEF Ordinary, RefsFrom
    <3>3. CASE \E f \in 1..NFILE : FileIno(file'[f]) = i
      BY <2>8, <3>3 DEF Ordinary, RefsFrom
    <3>. QED  BY <2>6, <3>1, <3>2, <3>3
  <2>10. dinode[i].nlink > 0
    BY <1>3, <2>9, SourceTyped DEF UseInv
  <2>11. dinode[i].nlink \in Int
    BY DEF FInv, TypeInv, DiskTypes, Inode
  <2>. QED  BY <1>1, <2>10, <2>11
<1>. QED  BY <1>2, <1>3

-----------------------------------------------------------------------------
(* Claims: what the link count of an inode stands for *)

\* The inode that create() has made and given its link, while it has no entry, and the one
\* whose entry unlink() has removed, while it has the link.
MadeIp(t) == IF Point(t) \in {"dirlink", "createfail", "unlinkdec"} THEN t.ip ELSE NoIno
\* The inode that link() has given a link in advance.
Linked(t) == IF Point(t) = "linkput" THEN NoIno ELSE t.old
\* The directory that the ".." of the directory in entry (e, n) counts for.
UpLink(e, n) == IF ents[e][n] \in Inums /\ dinode[ents[e][n]].type = "dir" THEN e ELSE NoIno

Slots == Inums \X Names
Claims == (Slots \X {"entry", "up"}) \cup (Procs \X {"ip", "old"}) \cup {<<Nobody, "root">>}
Claim ==
  [h \in Claims |->
     IF h[2] = "entry" THEN ents[h[1][1]][h[1][2]]
     ELSE IF h[2] = "up" THEN UpLink(h[1][1], h[1][2])
     ELSE IF h[2] = "ip" THEN MadeIp(th[h[1]])
     ELSE IF h[2] = "old" THEN Linked(th[h[1]])
     ELSE ROOTINO]

\* Each claim has its link.
LinkInv == \A i \in Inums : dinode[i].nlink >= Count(Claim, i)

LEMMA ClaimsFinite == IsFiniteSet(Claims) /\ DOMAIN Claim = Claims
<1>1. IsFiniteSet({"entry", "up"}) /\ IsFiniteSet({"ip", "old"}) /\ IsFiniteSet({<<Nobody, "root">>})
  <2>1. IsFiniteSet({"entry"}) /\ IsFiniteSet({"up"}) /\ IsFiniteSet({"ip"}) /\ IsFiniteSet({"old"})
        /\ IsFiniteSet({<<Nobody, "root">>})
    BY FS_Singleton
  <2>2. IsFiniteSet({"entry"} \cup {"up"}) /\ IsFiniteSet({"ip"} \cup {"old"})
    BY <2>1, FS_Union
  <2>3. {"entry", "up"} = {"entry"} \cup {"up"} /\ {"ip", "old"} = {"ip"} \cup {"old"}
    OBVIOUS
  <2>. QED  BY <2>1, <2>2, <2>3
<1>2. IsFiniteSet(Slots)
  BY FiniteAssumption, FS_Product DEF Slots
<1>3. IsFiniteSet(Slots \X {"entry", "up"}) /\ IsFiniteSet(Procs \X {"ip", "old"})
  BY <1>1, <1>2, FilesAssumption, FS_Product
<1>4. IsFiniteSet((Slots \X {"entry", "up"}) \cup (Procs \X {"ip", "old"}))
  BY <1>3, FS_Union
<1>5. IsFiniteSet((Slots \X {"entry", "up"}) \cup (Procs \X {"ip", "old"}) \cup {<<Nobody, "root">>})
  BY <1>1, <1>4, FS_Union
<1>. QED  BY <1>5 DEF Claims, Claim

\* What each claim is.
ClaimShape ==
  /\ \A d \in Inums, n \in Names : /\ <<<<d, n>>, "entry">> \in Claims /\ <<<<d, n>>, "up">> \in Claims
                                   /\ Claim[<<<<d, n>>, "entry">>] = ents[d][n]
                                   /\ Claim[<<<<d, n>>, "up">>] = UpLink(d, n)
  /\ \A q \in Procs : /\ <<q, "ip">> \in Claims /\ <<q, "old">> \in Claims
                      /\ Claim[<<q, "ip">>] = MadeIp(th[q])
                      /\ Claim[<<q, "old">>] = Linked(th[q])
  /\ <<Nobody, "root">> \in Claims /\ Claim[<<Nobody, "root">>] = ROOTINO

LEMMA ClaimAt == ClaimShape
<1>1. ASSUME NEW d \in Inums, NEW n \in Names
      PROVE  /\ <<<<d, n>>, "entry">> \in Claims /\ <<<<d, n>>, "up">> \in Claims
             /\ Claim[<<<<d, n>>, "entry">>] = ents[d][n]
             /\ Claim[<<<<d, n>>, "up">>] = UpLink(d, n)
  <2>1. <<<<d, n>>, "entry">> \in Claims /\ <<<<d, n>>, "up">> \in Claims
    BY DEF Claims, Slots
  <2>. QED  BY <2>1 DEF Claim
<1>2. ASSUME NEW q \in Procs
      PROVE  /\ <<q, "ip">> \in Claims /\ <<q, "old">> \in Claims
             /\ Claim[<<q, "ip">>] = MadeIp(th[q]) /\ Claim[<<q, "old">>] = Linked(th[q])
  <2>1. <<q, "ip">> \in Claims /\ <<q, "old">> \in Claims
    BY DEF Claims
  <2>. QED  BY <2>1 DEF Claim
<1>3. <<Nobody, "root">> \in Claims /\ Claim[<<Nobody, "root">>] = ROOTINO
  <2>1. <<Nobody, "root">> \in Claims
    BY DEF Claims
  <2>. QED  BY <2>1 DEF Claim
<1>. QED  BY <1>1, <1>2, <1>3 DEF ClaimShape

\* There are no other claims.
LEMMA ClaimCases ==
  ASSUME NEW h \in Claims
  PROVE  \/ \E d \in Inums, n \in Names : h = <<<<d, n>>, "entry">> \/ h = <<<<d, n>>, "up">>
         \/ \E q \in Procs : h = <<q, "ip">> \/ h = <<q, "old">>
         \/ h = <<Nobody, "root">>
<1>1. CASE h \in Slots \X {"entry", "up"}
  <2>1. PICK s \in Slots, v \in {"entry", "up"} : h = <<s, v>>
    BY <1>1
  <2>2. PICK d \in Inums, n \in Names : s = <<d, n>>
    BY <2>1 DEF Slots
  <2>. QED  BY <2>1, <2>2
<1>2. CASE h \in Procs \X {"ip", "old"}
  BY <1>2
<1>. QED  BY <1>1, <1>2 DEF Claims

\* A claim has a link.
LEMMA ClaimLink ==
  ASSUME LinkInv, DiskTypes, NEW i \in Inums, NEW h \in Claims, Claim[h] = i
  PROVE  dinode[i].nlink >= 1 /\ dinode[i].nlink > 0 /\ dinode[i].nlink \in Int
<1>1. PICK F : F = Claim
  OBVIOUS
<1>2. Finite(F) /\ h \in DOMAIN F /\ F[h] = i
  BY <1>1, ClaimsFinite DEF Finite
<1>3. Count(F, i) \in Nat \ {0}
  BY <1>2, CountType
<1>4. dinode[i].nlink >= Count(F, i) /\ dinode[i].nlink \in Int
  BY <1>1 DEF LinkInv, DiskTypes, Inode
<1>. QED  BY <1>3, <1>4

LEMMA EntryLink ==
  ASSUME LinkInv, DiskTypes, NEW d \in Inums, NEW n \in Names, ents[d][n] \in Inums
  PROVE  dinode[ents[d][n]].nlink >= 1 /\ dinode[ents[d][n]].nlink > 0
<1>1. PICK i \in Inums : i = ents[d][n]
  OBVIOUS
<1>2. <<<<d, n>>, "entry">> \in Claims /\ Claim[<<<<d, n>>, "entry">>] = i
  BY <1>1, ClaimAt DEF ClaimShape
<1>3. dinode[i].nlink >= 1 /\ dinode[i].nlink > 0
  BY <1>2, ClaimLink
<1>. QED  BY <1>1, <1>3

LEMMA RootLink ==
  ASSUME LinkInv, DiskTypes
  PROVE  ROOTINO \in Inums /\ dinode[ROOTINO].nlink > 0
<1>1. ROOTINO \in Inums
  BY FilesAssumption
<1>2. <<Nobody, "root">> \in Claims /\ Claim[<<Nobody, "root">>] = ROOTINO
  BY ClaimAt DEF ClaimShape
<1>3. dinode[ROOTINO].nlink > 0
  BY <1>1, <1>2, ClaimLink
<1>. QED  BY <1>1, <1>3

\* What is found in a directory has a link, or is the directory.
LEMMA FoundSource ==
  ASSUME CInv, TreeInv, LinkInv, ParentKept, NEW p \in Procs, NEW d \in Inums, UsedBy(th[p], d),
         NEW n \in Elems, Lookup(d, n) # NoIno, n = ".." => LooksUp(p, d)
  PROVE  Lookup(d, n) \in Inums /\ Source(p, Lookup(d, n))
<1>1. DiskTypes /\ NoIno \notin Inums
  BY FilesAssumption DEF CInv, FInv, TypeInv
<1>2. PICK k : k = Lookup(d, n)
  OBVIOUS
<1>3. k \in Inums
  BY <1>1, <1>2, LookupType DEF Inums0
<1>4. CASE n = "."
  BY <1>2, <1>3, <1>4 DEF Lookup, Source
<1>5. CASE n = ".."
  <2>1. k = ents[d][".."]
    BY <1>2, <1>5 DEF Lookup
  <2>2. dinode[k].nlink > 0
    BY <1>2, <1>5, <2>1 DEF ParentKept
  <2>. QED  BY <1>2, <1>3, <2>2 DEF Source
<1>6. CASE n \in Names
  <2>1. k = ents[d][n]
    BY <1>2, <1>6, NamesAssumption DEF Lookup
  <2>2. dinode[k].nlink > 0
    BY <1>1, <1>3, <1>6, <2>1, EntryLink
  <2>. QED  BY <1>2, <1>3, <2>2 DEF Source
<1>. QED  BY <1>4, <1>5, <1>6 DEF Elems, Entries

-----------------------------------------------------------------------------
(* Steps that leave the links alone *)

NLinksSame == \A i \in Inums : dinode'[i].nlink = dinode[i].nlink
SameClaims(p) ==
  /\ \A d \in Inums, n \in Names : ents'[d][n] = ents[d][n]
  /\ MadeIp(th'[p]) = MadeIp(th[p]) /\ Linked(th'[p]) = Linked(th[p])
Plain(p) == Ordinary(p) /\ ReadStep(p) /\ NLinksSame /\ SameClaims(p)

\* The claims stay if the entries do, and the types of what they name.
LEMMA ClaimKept ==
  ASSUME \A d \in Inums, n \in Names :
           /\ ents'[d][n] = ents[d][n]
           /\ ents[d][n] \in Inums => dinode'[ents[d][n]].type = dinode[ents[d][n]].type,
         \A q \in Procs : MadeIp(th'[q]) = MadeIp(th[q]) /\ Linked(th'[q]) = Linked(th[q])
  PROVE  Claim' = Claim
<1>1. PICK F, G : F = Claim /\ G = Claim'
  OBVIOUS
<1>0. ClaimShape'
  BY ClaimAt, PTL
<1>2. ClaimShape /\ ClaimShape'
  BY <1>0, ClaimAt
<1>3. ASSUME NEW h \in Claims PROVE G[h] = F[h]
  <2>1. CASE \E d \in Inums, n \in Names : h = <<<<d, n>>, "entry">>
    <3>1. PICK d \in Inums, n \in Names : h = <<<<d, n>>, "entry">>
      BY <2>1
    <3>2. F[h] = ents[d][n] /\ G[h] = ents'[d][n]
      BY <1>1, <1>2, <3>1 DEF ClaimShape
    <3>. QED  BY <3>2
  <2>2. CASE \E d \in Inums, n \in Names : h = <<<<d, n>>, "up">>
    <3>1. PICK d \in Inums, n \in Names : h = <<<<d, n>>, "up">>
      BY <2>2
    <3>2. PICK i : i = ents[d][n] /\ i = ents'[d][n]
      BY <3>1
    <3>3. ASSUME i \in Inums PROVE UpLink(d, n)' = UpLink(d, n)
      <4>1. dinode'[i].type = dinode[i].type
        BY <3>1, <3>2, <3>3
      <4>2. UpLink(d, n)' = UpLink(d, n)
        BY <3>2, <4>1 DEF UpLink
      <4>. QED  BY <4>2
    <3>4. UpLink(d, n)' = UpLink(d, n)
      BY <3>2, <3>3 DEF UpLink
    <3>5. F[h] = UpLink(d, n)
      BY <1>1, <1>2, <3>1 DEF ClaimShape
    <3>6. G[h] = UpLink(d, n)'
      BY <1>1, <1>0, <3>1 DEF ClaimShape
    <3>. QED  BY <3>4, <3>5, <3>6
  <2>3. CASE \E q \in Procs : h = <<q, "ip">> \/ h = <<q, "old">>
    <3>1. PICK q \in Procs : h = <<q, "ip">> \/ h = <<q, "old">>
      BY <2>3
    <3>2. MadeIp(th'[q]) = MadeIp(th[q]) /\ Linked(th'[q]) = Linked(th[q])
      OBVIOUS
    <3>. QED  BY <1>1, <1>2, <3>1, <3>2 DEF ClaimShape
  <2>4. CASE h = <<Nobody, "root">>
    BY <1>1, <1>2, <2>4 DEF ClaimShape
  <2>. QED  BY <2>1, <2>2, <2>3, <2>4, ClaimCases
<1>4. F = [h \in Claims |-> F[h]] /\ G = [h \in Claims |-> G[h]]
  BY <1>1 DEF Claim
<1>. QED  BY <1>1, <1>3, <1>4

LEMMA ClaimSame ==
  ASSUME NEW p \in Procs, Others(p), TypesSame, SameClaims(p)
  PROVE  Claim' = Claim
<1>1. \A d \in Inums, n \in Names :
        /\ ents'[d][n] = ents[d][n]
        /\ ents[d][n] \in Inums => dinode'[ents[d][n]].type = dinode[ents[d][n]].type
  BY DEF SameClaims, TypesSame
<1>2. \A q \in Procs : MadeIp(th'[q]) = MadeIp(th[q]) /\ Linked(th'[q]) = Linked(th[q])
  BY DEF SameClaims, Others
<1>. QED  BY <1>1, <1>2, ClaimKept

\* What keeps what was read in the inode table.
TabRead == \A i \in Inums : itab[i].ref > 0 /\ itab[i].valid /\ itab'[i].ref > 0 => itab'[i].valid

LEMMA ReadStays ==
  ASSUME \A i \in Inums : Stays(itab[i], itab'[i])
  PROVE  TabRead
BY DEF TabRead, Stays

LEMMA ReadSame == itab' = itab => TabRead
BY DEF TabRead

LEMMA ReadIlock ==
  ASSUME itab \in [Inums -> Entry], NEW d \in Inums, itab' = ilock(d)
  PROVE  TabRead
<1>1. \A i \in Inums : Stays(itab[i], itab'[i])
  BY IlockFresh
<1>. QED  BY <1>1, ReadStays

LEMMA ReadIget ==
  ASSUME itab \in [Inums -> Entry], NEW k \in Inums, itab' = iget(itab, k)
  PROVE  TabRead
<1>1. \A i \in Inums : Stays(itab[i], itab'[i])
  BY IgetKept
<1>. QED  BY <1>1, ReadStays

LEMMA ReadLookup ==
  ASSUME DiskTypes, itab \in [Inums -> Entry], NEW d \in Inums, NEW k \in Inums, LookupIget(d, k)
  PROVE  TabRead
<1>1. PICK tab : tab = ilock(d)
  OBVIOUS
<1>2. tab \in [Inums -> Entry] /\ itab' = iget(tab, k)
  BY <1>1, IlockTab DEF LookupIget
<1>3. ASSUME NEW i \in Inums PROVE Stays(itab[i], itab'[i])
  <2>1. Stays(itab[i], tab[i])
    BY <1>1, IlockFresh
  <2>2. Stays(tab[i], itab'[i])
    BY <1>2, IgetKept
  <2>3. tab[i].ref = itab[i].ref
    BY <1>1, IlockTab
  <2>. QED  BY <2>1, <2>2, <2>3 DEF Stays
<1>. QED  BY <1>3, ReadStays

LEMMA ReadUpdate ==
  ASSUME itab \in [Inums -> Entry], NEW k \in Inums, NEW d, Update(k, d)
  PROVE  TabRead /\ itab'[k].valid
BY DEF TabRead, Update, Entry

LEMMA ReadRef ==
  ASSUME itab \in [Inums -> Entry], NEW k \in Inums, itab' = [itab EXCEPT ![k].ref = @ - 1]
  PROVE  TabRead
BY DEF TabRead, Entry

LEMMA DiskSame == dinode' = dinode => TypesSame /\ NLinksSame
BY DEF TypesSame, NLinksSame

LEMMA PlainPut ==
  ASSUME CInv, NEW p \in Procs, NEW v \in {"ip", "dp", "old"}, NEW r \in Returns,
         IputThen(p, v, r), UNCHANGED user, dinode' = dinode, ents' = ents, TabRead,
         th[p].pc \in Points \ (NewPoints \cup {"unlinkdec"}), r \notin {"unlinkdec", "linkput"},
         v = "old" <=> th[p].pc = "linkput"
  PROVE  Plain(p)
<1>1. PICK t, u : t = th[p] /\ u = th'[p]
  OBVIOUS
<1>2. /\ u.pc = "iput" /\ u.ret = r /\ u.call = t.call /\ u.put = t[v]
      /\ u.ip \in {t.ip, NoIno} /\ u.dp \in {t.dp, NoIno} /\ u.old \in {t.old, NoIno}
      /\ v # "old" => u.old = t.old
      /\ v = "old" => u.old = NoIno
  BY <1>1 DEF IputThen, CInv, FInv, TypeInv, Thread
<1>3. Others(p) /\ NoIno \notin Inums
  BY FilesAssumption DEF IputThen, Others, CInv, FInv, TypeInv
<1>4. t.pc # "iget" /\ t.pc \notin Putting
  BY <1>1 DEF NewPoints, Points, Putting
<1>5. ASSUME NEW i \in Inums, UsedBy(u, i) PROVE UsedBy(t, i)
  BY <1>2, <1>3, <1>4, <1>5 DEF UsedBy, Held
<1>6. RefsFrom(p)
  BY <1>1, <1>5 DEF RefsFrom, Source, user
<1>7. TypesSame /\ NLinksSame
  BY DiskSame
<1>8. Ordinary(p)
  BY <1>1, <1>2, <1>3, <1>6, <1>7 DEF Ordinary, NewPoints, NLinksSame
<1>9. ReadStep(p)
  BY <1>1, <1>2, <1>7 DEF ReadStep, TabRead, NLinksSame
<1>10. MadeIp(u) = MadeIp(t)
  BY <1>1, <1>2, <1>4 DEF MadeIp, Point, Putting, Returns, NewPoints
<1>11. Linked(u) = Linked(t)
  BY <1>1, <1>2, <1>4 DEF Linked, Point, Putting
<1>12. SameClaims(p)
  BY <1>1, <1>10, <1>11 DEF SameClaims
<1>. QED  BY <1>7, <1>8, <1>9, <1>12 DEF Plain

LEMMA PlainReject ==
  ASSUME CInv, NEW p \in Procs, NEW v \in {"ip", "dp"}, NEW r \in Returns, Reject(p, v, r),
         th[p].pc \in Points \ (NewPoints \cup {"unlinkdec", "linkput"}),
         r \notin {"unlinkdec", "linkput"}, th[p][v] \in Inums
  PROVE  Plain(p)
<1>1. TabRead
  BY ReadIlock DEF Reject, CInv, FInv, TypeInv
<1>. QED  BY <1>1, PlainPut DEF Reject, disk

LEMMA PlainUnlockPut ==
  ASSUME CInv, NEW p \in Procs, NEW v \in {"ip", "dp"}, NEW r \in Returns, iunlockput(p, v, r),
         th[p].pc \in Points \ (NewPoints \cup {"unlinkdec", "linkput"}),
         r \notin {"unlinkdec", "linkput"}
  PROVE  Plain(p)
BY PlainPut, ReadSame DEF iunlockput, disk

\* Going on to another point of the call.
LEMMA PlainJump ==
  ASSUME CInv, NEW p \in Procs, NEW c, th' = [th EXCEPT ![p].pc = c], UNCHANGED <<disk, user>>,
         TabRead, th[p].pc \in Points, c \in Points,
         \/ th[p].pc \notin NewPoints \cup {"unlinkdec", "linkput"}
            /\ c \notin NewPoints \cup {"unlinkdec", "linkput"}
         \/ th[p].pc = "dirlink" /\ c = "createfail"
  PROVE  Plain(p)
<1>1. PICK t, u : t = th[p] /\ u = th'[p]
  OBVIOUS
<1>2. /\ u.pc = c /\ u.ret = t.ret /\ u.call = t.call /\ u.put = t.put
      /\ u.ip = t.ip /\ u.dp = t.dp /\ u.old = t.old
  BY <1>1 DEF CInv, FInv, TypeInv, Thread
<1>3. Others(p) /\ NoIno \notin Inums
  BY FilesAssumption DEF Others, CInv, FInv, TypeInv
<1>4. t.pc # "iget" /\ t.pc \notin Putting /\ c # "iget" /\ c \notin Putting
  BY <1>1 DEF NewPoints, Points, Putting
<1>5. ASSUME NEW i \in Inums, UsedBy(u, i) PROVE UsedBy(t, i)
  BY <1>2, <1>3, <1>4, <1>5 DEF UsedBy, Held, Putting
<1>6. RefsFrom(p)
  BY <1>1, <1>5 DEF RefsFrom, Source, user
<1>7. TypesSame /\ NLinksSame
  BY DiskSame DEF disk
<1>8. Ordinary(p)
  BY <1>1, <1>2, <1>3, <1>4, <1>6, <1>7 DEF Ordinary, NewPoints, NLinksSame, Putting, disk
<1>9. ReadStep(p)
  BY <1>1, <1>2, <1>7 DEF ReadStep, TabRead, NLinksSame
<1>10. MadeIp(u) = MadeIp(t)
  BY <1>1, <1>2, <1>4 DEF MadeIp, Point, Putting, NewPoints
<1>11. Linked(u) = Linked(t)
  BY <1>1, <1>2, <1>4 DEF Linked, Point, Putting
<1>12. SameClaims(p)
  BY <1>1, <1>10, <1>11 DEF SameClaims, disk
<1>. QED  BY <1>7, <1>8, <1>9, <1>12 DEF Plain

LEMMA PlainHold ==
  ASSUME CInv, NEW p \in Procs, NEW v \in {"ip", "dp"}, NEW c \in {"opened", "ialloc"}, Hold(p, v, c),
         th[p].pc \in {"createfound", "create", "namei"}, th[p][v] \in Inums
  PROVE  Plain(p)
<1>1. TabRead
  BY ReadIlock DEF Hold, CInv, FInv, TypeInv
<1>2. th' = [th EXCEPT ![p].pc = c] /\ UNCHANGED <<disk, user>>
  BY DEF Hold
<1>. QED  BY <1>1, <1>2, PlainJump DEF Points, NewPoints

\* A step between points where no inode is new or about to be freed.
LEMMA PlainMove ==
  ASSUME NEW p \in Procs, NEW t, NEW u, t = th[p], u = th'[p], Others(p), RefsFrom(p),
         TypesSame, NLinksSame, TabRead, \A d \in Inums, n \in Names : ents'[d][n] = ents[d][n],
         t.pc \notin {"iget", "createinit"},
         u.pc \notin NewPoints \cup {"itrunc", "ifree", "invalid"},
         u.pc # "iput" /\ u.put \in Inums => u.put = t.put,
         MadeIp(u) = MadeIp(t), Linked(u) = Linked(t)
  PROVE  Plain(p)
<1>1. Ordinary(p)
  BY DEF Ordinary, NewPoints, NLinksSame
<1>2. ReadStep(p)
  BY DEF ReadStep, TabRead, NLinksSame
<1>. QED  BY <1>1, <1>2 DEF Plain, SameClaims

\* Only the local variables take references.
LEMMA LocalRefs ==
  ASSUME NEW p \in Procs, UNCHANGED <<cwd, file>>, \A i \in Inums : UsedBy(th'[p], i) => Source(p, i)
  PROVE  RefsFrom(p)
BY DEF RefsFrom

LEMMA PlainStart ==
  ASSUME CInv, LinkInv, NEW p \in Procs, StartCall(p)
  PROVE  Plain(p)
<1>1. PICK c \in Programs[prog][p] :
        /\ th[p].pc = "user" /\ cwd[p] # NoIno
        /\ th' = [th EXCEPT ![p].call = c, ![p].path = Elements(c.path), ![p].ip = From(p, c.path),
             ![p].pc = IF c.op \in {"mkdir", "mknod", "creat", "unlink"} THEN "nameiparent" ELSE "namei"]
        /\ itab' = iget(itab, From(p, c.path))
        /\ UNCHANGED <<disk, ilk, user>>
  BY DEF StartCall
<1>2. PICK t, u, i : t = th[p] /\ u = th'[p] /\ i = From(p, c.path)
  OBVIOUS
<1>3. /\ u.pc \in {"namei", "nameiparent"} /\ u.ip = i /\ u.dp = t.dp /\ u.old = t.old /\ u.put = t.put
      /\ u.ret = t.ret
  BY <1>1, <1>2 DEF CInv, FInv, TypeInv, Thread
<1>4. t.ip = NoIno /\ t.dp = NoIno /\ t.old = NoIno /\ t.put = NoIno /\ t.pc = "user"
  BY <1>1, <1>2, AtUser DEF CInv, Point, Putting
<1>5. i \in Inums /\ (i = cwd[p] \/ dinode[i].nlink > 0)
  <2>1. i = cwd[p] \/ i = ROOTINO
    BY <1>2 DEF From
  <2>2. cwd[p] \in Inums
    BY <1>1 DEF CInv, FInv, TypeInv, UserTypes, Inums0
  <2>. QED  BY <2>1, <2>2, RootLink DEF CInv, FInv, TypeInv
<1>6. Others(p) /\ NoIno \notin Inums
  BY <1>1, FilesAssumption DEF Others, CInv, FInv, TypeInv
<1>7. RefsFrom(p)
  <2>1. ASSUME NEW j \in Inums, UsedBy(u, j) PROVE Source(p, j)
    <3>1. j = i
      BY <1>3, <1>4, <1>6, <2>1 DEF UsedBy, Held
    <3>. QED  BY <1>5, <3>1 DEF Source
  <2>. QED  BY <1>1, <1>2, <2>1, LocalRefs DEF user
<1>8. TabRead
  BY <1>1, <1>2, <1>5, ReadIget DEF CInv, FInv, TypeInv
<1>9. MadeIp(u) = MadeIp(t) /\ Linked(u) = Linked(t)
  BY <1>3, <1>4 DEF MadeIp, Linked, Point, Putting
<1>10. TypesSame /\ NLinksSame /\ ents' = ents
  BY <1>1, DiskSame DEF disk
<1>. QED  BY <1>2, <1>3, <1>4, <1>6, <1>7, <1>8, <1>9, <1>10, PlainMove DEF NewPoints

LEMMA PlainWalk ==
  ASSUME CInv, TreeInv, LinkInv, ParentKept, ~panicked, NEW p \in Procs,
         WalkFails(p) \/ WalkOn(p) \/ WalkToParent(p) \/ WalkNowhere(p)
  PROVE  Plain(p)
<1>1. th[p].pc \in {"namei", "nameiparent"} /\ th[p].pc \in Points \ (NewPoints \cup {"unlinkdec", "linkput"})
  BY DEF WalkFails, WalkOn, WalkToParent, WalkNowhere, Walking, At, Points, NewPoints
<1>2. PICK t, u : t = th[p] /\ u = th'[p]
  OBVIOUS
<1>3. t.ip \in Inums /\ t.dp \in Inums0 /\ t.old \in Inums0 /\ t.put \notin Inums /\ NoIno \notin Inums
  BY <1>1, <1>2, PointRefs, FilesAssumption
     DEF HaveIp, Thread, CInv, FInv, ControlInv, ThreadOk, Putting
<1>4. CASE WalkFails(p)
  <2>1. NotFound(p) \in {"user", "linkbad"} /\ NotFound(p) \in Returns
    BY DEF NotFound, Returns, Points
  <2>. QED  BY <1>1, <1>2, <1>3, <1>4, <2>1, PlainReject DEF WalkFails
<1>5. CASE WalkNowhere(p)
  <2>1. NotFound(p) \in {"user", "linkbad"} /\ NotFound(p) \in Returns
    BY DEF NotFound, Returns, Points
  <2>. QED  BY <1>1, <1>5, <2>1, PlainPut, ReadSame DEF WalkNowhere, disk
<1>6. CASE WalkOn(p)
  <2>1. PICK k : k = NextIno(p)
    OBVIOUS
  <2>2. /\ u.pc = "iput" /\ u.put = t.ip /\ u.ret = t.pc /\ u.ip = k /\ u.dp = t.dp /\ u.old = t.old
        /\ Others(p)
    BY <1>2, <1>6, <2>1 DEF WalkOn, CInv, FInv, TypeInv, Thread, Others
  <2>3. t.path # <<>> /\ t.path \in Seq(Elems) /\ Head(t.path) \in Elems
    <3>1. t.path # <<>> /\ t.path \in Seq(Elems)
      BY <1>2, <1>6 DEF WalkOn, Walking, CInv, FInv, TypeInv, Thread
    <3>. QED  BY <3>1
  <2>4. UsedBy(t, t.ip)
    BY <1>1, <1>2 DEF UsedBy, Held
  <2>5. k \in Inums /\ Source(p, k)
    <3>1. Lookup(t.ip, Head(t.path)) # NoIno /\ k = Lookup(t.ip, Head(t.path))
      BY <1>2, <1>6, <2>1 DEF WalkOn, NextIno
    <3>2. ilk[t.ip] = Nobody /\ Loaded(t.ip).type = "dir"
      BY <1>2, <1>6 DEF WalkOn, Walking, At, WaitsFor
    <3>3. Refers(th[p], t.ip)
      BY <1>1, <1>2 DEF Refers, Held
    <3>4. Loaded(t.ip) = dinode[t.ip]
      BY <1>3, <3>2, <3>3, FreeLoaded
    <3>5. Head(t.path) = ".." => LooksUp(p, t.ip)
      BY <1>2, <1>6, <3>2, <3>4 DEF WalkOn, LooksUp
    <3>. QED  BY <1>2, <1>3, <2>3, <2>4, <3>1, <3>5, FoundSource
  <2>6. RefsFrom(p)
    <3>1. ASSUME NEW j \in Inums, UsedBy(u, j) PROVE Source(p, j)
      <4>1. j = k \/ UsedBy(t, j)
        BY <1>1, <1>2, <2>2, <3>1 DEF UsedBy, Held
      <4>. QED  BY <1>2, <2>5, <4>1 DEF Source
    <3>. QED  BY <1>2, <1>6, <3>1, LocalRefs DEF WalkOn, user
  <2>7. TabRead
    BY <1>2, <1>3, <1>6, <2>1, <2>5, ReadLookup DEF WalkOn, CInv, FInv, TypeInv
  <2>8. MadeIp(u) = MadeIp(t) /\ Linked(u) = Linked(t)
    BY <1>1, <1>2, <2>2 DEF MadeIp, Linked, Point, Putting
  <2>9. TypesSame /\ NLinksSame /\ ents' = ents
    BY <1>6, DiskSame DEF WalkOn, disk
  <2>. QED  BY <1>1, <1>2, <2>2, <2>6, <2>7, <2>8, <2>9, PlainMove DEF NewPoints
<1>7. CASE WalkToParent(p)
  <2>1. /\ u.pc \in {"create", "unlink", "link"} /\ u.put = t.put /\ u.ip = NoIno /\ u.dp = t.ip
        /\ u.old = t.old /\ Others(p)
    BY <1>2, <1>7 DEF WalkToParent, AtLast, CInv, FInv, TypeInv, Thread, Others, ControlInv, ThreadOk,
       Point, Putting
  <2>2. RefsFrom(p)
    <3>1. ASSUME NEW j \in Inums, UsedBy(u, j) PROVE UsedBy(t, j)
      BY <1>1, <1>2, <1>3, <2>1, <3>1 DEF UsedBy, Held
    <3>. QED  BY <1>2, <1>7, <3>1, LocalRefs DEF WalkToParent, user, Source
  <2>3. TabRead
    BY <1>2, <1>3, <1>7, ReadIlock DEF WalkToParent, CInv, FInv, TypeInv
  <2>4. MadeIp(u) = MadeIp(t) /\ Linked(u) = Linked(t)
    BY <1>1, <1>2, <2>1 DEF MadeIp, Linked, Point, Putting
  <2>5. TypesSame /\ NLinksSame /\ ents' = ents
    BY <1>7, DiskSame DEF WalkToParent, disk
  <2>. QED  BY <1>1, <1>2, <2>1, <2>2, <2>3, <2>4, <2>5, PlainMove DEF NewPoints
<1>. QED  BY <1>4, <1>5, <1>6, <1>7

\* Reject(), iunlockput() and Hold() of create(), open() and chdir().
LEMMA PlainCreate ==
  ASSUME CInv, NEW p \in Procs,
         \/ CreateFound(p) \/ CreateNew(p) \/ IallocFails(p) \/ CreateLinkFails(p) \/ DropParent(p)
         \/ Made(p)
  PROVE  Plain(p)
<1>1. CASE CreateFound(p)
  <2>1. th[p].pc = "createfound" /\ th[p].ip \in Inums
    BY <1>1, PointRefs DEF CreateFound, At, HaveIp, Points
  <2>. QED  BY <1>1, <2>1, PlainReject, PlainHold DEF CreateFound, Points, NewPoints, Returns
<1>2. CASE CreateNew(p)
  <2>1. th[p].pc = "create" /\ th[p].dp \in Inums
    BY <1>2, PointRefs DEF CreateNew, At, HaveDp, Points
  <2>. QED  BY <1>2, <2>1, PlainHold DEF CreateNew
<1>3. CASE IallocFails(p)
  BY <1>3, PlainUnlockPut DEF IallocFails, Points, NewPoints, Returns
<1>4. CASE CreateLinkFails(p)
  <2>1. /\ th[p].pc = "dirlink" /\ th' = [th EXCEPT ![p].pc = "createfail"]
        /\ UNCHANGED <<disk, user>> /\ itab' = itab
    BY <1>4 DEF CreateLinkFails
  <2>. QED  BY <2>1, PlainJump, ReadSame DEF Points
<1>5. CASE DropParent(p)
  BY <1>5, PlainUnlockPut DEF DropParent, Points, NewPoints, Returns
<1>6. CASE Made(p)
  BY <1>6, PlainUnlockPut DEF Made, Points, NewPoints, Returns
<1>. QED  BY <1>1, <1>2, <1>3, <1>4, <1>5, <1>6

LEMMA PlainExists ==
  ASSUME CInv, TreeInv, LinkInv, ParentKept, NEW p \in Procs, CreateExists(p)
  PROVE  Plain(p)
<1>1. PICK t, u, k : t = th[p] /\ u = th'[p] /\ k = Lookup(th[p].dp, th[p].name)
  OBVIOUS
<1>2. /\ t.pc = "create" /\ k # NoIno /\ LookupIget(t.dp, k) /\ UNCHANGED <<disk, ilk, user>>
      /\ At(p, "create")
  BY <1>1 DEF CreateExists, At
<1>3. t.dp \in Inums /\ t.ip \notin Inums /\ t.name \in Elems /\ NoIno \notin Inums /\ t.put \notin Inums
  BY <1>1, <1>2, PointRefs, FilesAssumption
     DEF HaveDp, HaveIp, Points, Thread, CInv, FInv, ControlInv, ThreadOk, Putting
<1>4. /\ u.pc = "iput" /\ u.put = t.dp /\ u.ret = "createfound" /\ u.ip = k /\ u.dp = NoIno
      /\ u.old = t.old /\ Others(p)
  BY <1>1 DEF CreateExists, CInv, FInv, TypeInv, Thread, Others
<1>5. UsedBy(t, t.dp)
  BY DEF UsedBy
<1>6. k \in Inums /\ Source(p, k)
  <2>1. Lookup(t.dp, t.name) # NoIno /\ k = Lookup(t.dp, t.name)
    BY <1>1, <1>2
  <2>2. dinode[t.dp].type = "dir"
    BY <1>1, <1>3 DEF TreeInv, KindInv, IsDir
  <2>3. t.name = ".." => LooksUp(p, t.dp)
    BY <1>1, <1>2, <2>2 DEF LooksUp
  <2>. QED  BY <1>1, <1>3, <1>5, <2>1, <2>3, FoundSource
<1>7. RefsFrom(p)
  <2>1. ASSUME NEW j \in Inums, UsedBy(u, j) PROVE Source(p, j)
    <3>1. j = k \/ UsedBy(t, j)
      BY <1>2, <1>3, <1>4, <2>1 DEF UsedBy, Held
    <3>. QED  BY <1>1, <1>6, <3>1 DEF Source
  <2>. QED  BY <1>1, <1>2, <2>1, LocalRefs DEF user
<1>8. TabRead
  BY <1>2, <1>3, <1>6, ReadLookup DEF CInv, FInv, TypeInv
<1>9. MadeIp(u) = MadeIp(t) /\ Linked(u) = Linked(t)
  BY <1>2, <1>4 DEF MadeIp, Linked, Point, Putting
<1>10. TypesSame /\ NLinksSame /\ ents' = ents
  BY <1>2, DiskSame DEF disk
<1>. QED  BY <1>1, <1>2, <1>4, <1>7, <1>8, <1>9, <1>10, PlainMove DEF NewPoints

LEMMA PlainLinkExists ==
  ASSUME CInv, TreeInv, LinkInv, ParentKept, NEW p \in Procs, LinkExists(p)
  PROVE  Plain(p)
<1>1. PICK t, u, k : t = th[p] /\ u = th'[p] /\ k = Lookup(th[p].dp, th[p].name)
  OBVIOUS
<1>2. /\ t.pc = "link" /\ k # NoIno /\ LookupIget(t.dp, k) /\ UNCHANGED <<disk, user>>
      /\ At(p, "link")
  BY <1>1 DEF LinkExists, At
<1>3. t.dp \in Inums /\ t.ip \notin Inums /\ t.name \in Elems /\ NoIno \notin Inums /\ t.put \notin Inums
  BY <1>1, <1>2, PointRefs, FilesAssumption
     DEF HaveDp, HaveIp, Points, Thread, CInv, FInv, ControlInv, ThreadOk, Putting
<1>4. /\ u.pc = "iput" /\ u.put = k /\ u.ret = "linkdrop" /\ u.ip = t.ip /\ u.dp = t.dp
      /\ u.old = t.old /\ Others(p)
  BY <1>1 DEF LinkExists, CInv, FInv, TypeInv, Thread, Others
<1>5. UsedBy(t, t.dp)
  BY DEF UsedBy
<1>6. k \in Inums /\ Source(p, k)
  <2>1. Lookup(t.dp, t.name) # NoIno /\ k = Lookup(t.dp, t.name)
    BY <1>1, <1>2
  <2>2. dinode[t.dp].type = "dir"
    BY <1>1, <1>3 DEF TreeInv, KindInv, IsDir
  <2>3. t.name = ".." => LooksUp(p, t.dp)
    BY <1>1, <1>2, <2>2 DEF LooksUp
  <2>. QED  BY <1>1, <1>3, <1>5, <2>1, <2>3, FoundSource
<1>7. RefsFrom(p)
  <2>1. ASSUME NEW j \in Inums, UsedBy(u, j) PROVE Source(p, j)
    <3>1. j = k \/ UsedBy(t, j)
      BY <1>2, <1>3, <1>4, <2>1 DEF UsedBy, Held
    <3>. QED  BY <1>1, <1>6, <3>1 DEF Source
  <2>. QED  BY <1>1, <1>2, <2>1, LocalRefs DEF user
<1>8. TabRead
  BY <1>2, <1>3, <1>6, ReadLookup DEF CInv, FInv, TypeInv
<1>9. MadeIp(u) = MadeIp(t) /\ Linked(u) = Linked(t)
  BY <1>2, <1>4 DEF MadeIp, Linked, Point, Putting
<1>10. TypesSame /\ NLinksSame /\ ents' = ents
  BY <1>2, DiskSame DEF disk
<1>. QED  BY <1>1, <1>2, <1>4, <1>7, <1>8, <1>9, <1>10, PlainMove DEF NewPoints

LEMMA PlainOpen ==
  ASSUME CInv, NEW p \in Procs, OpenLock(p) \/ OpenFails(p) \/ Chdir(p)
  PROVE  Plain(p)
<1>1. CASE OpenLock(p)
  <2>1. th[p].pc = "namei" /\ th[p].ip \in Inums
    BY <1>1, PointRefs DEF OpenLock, Found, At, HaveIp, Points
  <2>. QED  BY <1>1, <2>1, PlainReject, PlainHold DEF OpenLock, Points, NewPoints, Returns
<1>2. CASE OpenFails(p)
  BY <1>2, PlainUnlockPut DEF OpenFails, Points, NewPoints, Returns
<1>3. CASE Chdir(p)
  <2>1. th[p].pc = "namei" /\ th[p].ip \in Inums
    BY <1>3, PointRefs DEF Chdir, Found, At, HaveIp, Points
  <2>2. CASE Reject(p, "ip", "user")
    BY <2>1, <2>2, PlainReject DEF Points, NewPoints, Returns
  <2>3. CASE ~Reject(p, "ip", "user")
    <3>1. PICK t, u : t = th[p] /\ u = th'[p]
      OBVIOUS
    <3>2. /\ itab' = ilock(t.ip) /\ cwd' = [cwd EXCEPT ![p] = t.ip]
          /\ th' = [th EXCEPT ![p].pc = "iput", ![p].put = cwd[p], ![p].ip = NoIno]
          /\ UNCHANGED <<disk, ilk, file, ofile, prog>>
      BY <1>3, <2>3, <3>1 DEF Chdir
    <3>3. /\ u.pc = "iput" /\ u.put = cwd[p] /\ u.ret = t.ret /\ u.ip = NoIno /\ u.dp = t.dp
          /\ u.old = t.old /\ Others(p)
      BY <3>1, <3>2 DEF CInv, FInv, TypeInv, Thread, Others
    <3>4. t.ret = "user" /\ NoIno \notin Inums /\ t.old = NoIno
      BY <2>1, <3>1, PointRefs, FilesAssumption
         DEF CInv, FInv, ControlInv, ThreadOk, Putting, HaveOld, Points, Thread, Inums0
    <3>5. RefsFrom(p)
      <4>1. ASSUME NEW j \in Inums, UsedBy(u, j) PROVE Source(p, j)
        <5>1. j = cwd[p] \/ UsedBy(t, j)
          BY <3>3, <3>4, <4>1 DEF UsedBy, Held
        <5>. QED  BY <3>1, <5>1 DEF Source
      <4>2. Source(p, t.ip)
        BY <2>1, <3>1 DEF Source, UsedBy, Held
      <4>3. \A q \in Procs : cwd'[q] \in {cwd[q], t.ip}
        BY <3>2 DEF CInv, FInv, TypeInv, UserTypes
      <4>. QED  BY <3>1, <3>2, <4>1, <4>2, <4>3 DEF RefsFrom
    <3>6. TabRead
      BY <2>1, <3>1, <3>2, ReadIlock DEF CInv, FInv, TypeInv
    <3>7. MadeIp(u) = MadeIp(t) /\ Linked(u) = Linked(t)
      BY <2>1, <3>1, <3>3, <3>4 DEF MadeIp, Linked, Point, Putting
    <3>8. TypesSame /\ NLinksSame /\ ents' = ents
      BY <3>2, DiskSame DEF disk
    <3>. QED  BY <2>1, <3>1, <3>3, <3>5, <3>6, <3>7, <3>8, PlainMove DEF NewPoints
  <2>. QED  BY <2>2, <2>3
<1>. QED  BY <1>1, <1>2, <1>3

LEMMA PlainLink ==
  ASSUME CInv, TreeInv, LinkInv, ParentKept, NEW p \in Procs,
         \/ UnlinkNothing(p) \/ UnlinkLookup(p) \/ UnlinkNotEmpty(p) \/ LinkDir(p) \/ LinkExists(p)
         \/ LinkDrop(p) \/ LinkFails(p) \/ LinkPut(p)
  PROVE  Plain(p)
<1>1. CASE UnlinkNothing(p)
  <2>1. th[p].pc = "unlink" /\ th[p].dp \in Inums
    BY <1>1, PointRefs DEF UnlinkNothing, At, HaveDp, Points
  <2>. QED  BY <1>1, <2>1, PlainReject DEF UnlinkNothing, Points, NewPoints, Returns
<1>2. CASE UnlinkNotEmpty(p)
  <2>1. th[p].pc = "unlinklock" /\ th[p].ip \in Inums
    BY <1>2, PointRefs DEF UnlinkNotEmpty, At, HaveIp, Points
  <2>. QED  BY <1>2, <2>1, PlainReject DEF UnlinkNotEmpty, Points, NewPoints, Returns
<1>3. CASE LinkDir(p)
  <2>1. th[p].pc = "namei" /\ th[p].ip \in Inums
    BY <1>3, PointRefs DEF LinkDir, Found, At, HaveIp, Points
  <2>. QED  BY <1>3, <2>1, PlainReject DEF LinkDir, Points, NewPoints, Returns
<1>4. CASE LinkFails(p)
  <2>1. th[p].pc = "link" /\ th[p].dp \in Inums
    BY <1>4, PointRefs DEF LinkFails, At, HaveDp, Points
  <2>. QED  BY <1>4, <2>1, PlainReject DEF LinkFails, Points, NewPoints, Returns
<1>5. CASE LinkPut(p)
  BY <1>5, PlainPut, ReadSame DEF LinkPut, disk, Points, NewPoints, Returns
<1>6. CASE UnlinkLookup(p)
  <2>1. PICK t, u, k : t = th[p] /\ u = th'[p] /\ k = Lookup(th[p].dp, th[p].name)
    OBVIOUS
  <2>2. /\ t.pc = "unlink" /\ k # NoIno /\ LookupIget(t.dp, k) /\ UNCHANGED <<disk, user>>
        /\ t.name # ".."
    BY <1>6, <2>1 DEF UnlinkLookup, At, Dots
  <2>3. /\ t.dp \in Inums /\ t.ip \notin Inums /\ t.name \in Elems /\ NoIno \notin Inums
        /\ t.put \notin Inums
    BY <2>1, <2>2, PointRefs, FilesAssumption
       DEF HaveDp, HaveIp, Points, Thread, CInv, FInv, ControlInv, ThreadOk, Putting
  <2>4. /\ u.pc = "unlinklock" /\ u.put = t.put /\ u.ret = t.ret /\ u.ip = k /\ u.dp = t.dp
        /\ u.old = t.old /\ Others(p)
    BY <1>6, <2>1 DEF UnlinkLookup, CInv, FInv, TypeInv, Thread, Others
  <2>5. UsedBy(t, t.dp)
    BY DEF UsedBy
  <2>6. k \in Inums /\ Source(p, k)
    <3>1. Lookup(t.dp, t.name) # NoIno /\ k = Lookup(t.dp, t.name)
      BY <2>1, <2>2
    <3>. QED  BY <2>1, <2>2, <2>3, <2>5, <3>1, FoundSource
  <2>7. RefsFrom(p)
    <3>1. ASSUME NEW j \in Inums, UsedBy(u, j) PROVE Source(p, j)
      <4>1. j = k \/ UsedBy(t, j)
        BY <2>2, <2>3, <2>4, <3>1 DEF UsedBy, Held
      <4>. QED  BY <2>1, <2>6, <4>1 DEF Source
    <3>. QED  BY <2>1, <2>2, <3>1, LocalRefs DEF user
  <2>8. TabRead
    BY <2>2, <2>3, <2>6, ReadLookup DEF CInv, FInv, TypeInv
  <2>9. MadeIp(u) = MadeIp(t) /\ Linked(u) = Linked(t)
    BY <2>2, <2>4 DEF MadeIp, Linked, Point, Putting
  <2>10. TypesSame /\ NLinksSame /\ ents' = ents
    BY <2>2, DiskSame DEF disk
  <2>. QED  BY <2>1, <2>2, <2>4, <2>7, <2>8, <2>9, <2>10, PlainMove DEF NewPoints
<1>7. CASE LinkExists(p)
  BY <1>7, PlainLinkExists
<1>8. CASE LinkDrop(p)
  BY <1>8, PlainUnlockPut DEF LinkDrop, Points, NewPoints, Returns
<1>. QED  BY <1>1, <1>2, <1>3, <1>4, <1>5, <1>6, <1>7, <1>8

\* The end of iput().
LEMMA PlainReturn ==
  ASSUME CInv, NEW p \in Procs, Return(p), th[p].pc \in {"iput", "drop"},
         itab' = [itab EXCEPT ![th[p].put].ref = @ - 1], UNCHANGED <<disk, ilk, user>>
  PROVE  Plain(p)
<1>1. PICK t, u : t = th[p] /\ u = th'[p]
  OBVIOUS
<1>2. th \in [Procs -> Thread] /\ t \in Thread /\ ThreadOk(t) /\ t.pc \in Putting /\ NoIno \notin Inums
  BY <1>1, FilesAssumption DEF CInv, FInv, TypeInv, ControlInv, Putting
<1>3. u = IF t.ret = "user" THEN Idle ELSE [t EXCEPT !.pc = t.ret, !.put = NoIno, !.ret = "user"]
  BY <1>1, <1>2 DEF Return
<1>4. Others(p)
  BY <1>2 DEF Return, Others
<1>5. t.put \in Inums
  BY <1>2 DEF ThreadOk
<1>6. TabRead
  BY <1>1, <1>5, ReadRef DEF CInv, FInv, TypeInv
<1>7. t.ret \in Returns /\ t.ret \notin NewPoints /\ t.ret \notin Putting
  BY <1>2 DEF Thread, Returns, NewPoints, Points, Putting
<1>8. /\ u.pc = t.ret /\ u.put = NoIno
      /\ u.ip = t.ip \/ u.ip = NoIno
      /\ u.dp = t.dp \/ u.dp = NoIno
      /\ u.old = t.old \/ u.old = NoIno
      /\ t.ret # "user" => u.ip = t.ip /\ u.old = t.old
      /\ t.ret = "user" => u.old = NoIno
  BY <1>2, <1>3 DEF Idle, Thread
<1>9. t.ret = "user" => t.old = NoIno
  BY <1>2 DEF ThreadOk, Point, HaveOld, Thread, Inums0
<1>10. RefsFrom(p)
  <2>1. ASSUME NEW j \in Inums, UsedBy(u, j) PROVE UsedBy(t, j)
    BY <1>2, <1>7, <1>8, <2>1 DEF UsedBy, Held, Putting, NewPoints
  <2>. QED  BY <1>1, <2>1, LocalRefs DEF user, Source
<1>11. Point(t) = t.ret /\ Point(u) = t.ret
  BY <1>2, <1>7, <1>8 DEF Point
<1>12. MadeIp(u) = MadeIp(t)
  BY <1>8, <1>11 DEF MadeIp
<1>13. Linked(u) = Linked(t)
  BY <1>8, <1>9, <1>11 DEF Linked
<1>14. TypesSame /\ NLinksSame /\ ents' = ents
  BY DiskSame DEF disk
<1>15. u.pc \notin NewPoints \cup {"itrunc", "ifree", "invalid"} /\ t.pc \notin {"iget", "createinit"}
  BY <1>2, <1>7, <1>8 DEF Putting
<1>16. u.pc # "iput" /\ u.put \in Inums => u.put = t.put
  BY <1>2, <1>8
<1>. QED  BY <1>1, <1>4, <1>6, <1>10, <1>12, <1>13, <1>14, <1>15, <1>16, PlainMove

LEMMA UpdatePlain ==
  ASSUME DiskTypes, itab \in [Inums -> Entry], NEW i \in Inums, NEW d, Update(i, d),
         d.type = dinode[i].type, d.nlink = dinode[i].nlink
  PROVE  TypesSame /\ NLinksSame /\ TabRead
<1>1. TypesSame /\ TabRead
  BY UpdateTypes, ReadUpdate
<1>2. NLinksSame
  BY DEF DiskTypes, Update, NLinksSame
<1>. QED  BY <1>1, <1>2

LEMMA PlainOpened ==
  ASSUME CInv, TreeInv, ~panicked, NEW p \in Procs, Opened(p)
  PROVE  Plain(p)
<1>1. PICK t, u, i, f : t = th[p] /\ u = th'[p] /\ i = th[p].ip /\ f = Min(FreeFiles)
  OBVIOUS
<1>2. /\ t.pc = "opened" /\ FreeFiles # {} /\ th' = [th EXCEPT ![p] = Idle] /\ cwd' = cwd
      /\ file' = [file EXCEPT ![f] = [ref |-> 1, ip |-> i, writable |-> th[p].call.mode # "r"]]
      /\ \/ itab[i].d.type = "file" /\ itrunc(i)
         \/ UNCHANGED <<disk, itab>>
  BY <1>1 DEF Opened
<1>3. i \in Inums /\ t.old \notin Inums /\ th \in [Procs -> Thread] /\ t \in Thread /\ DiskTypes
      /\ itab \in [Inums -> Entry] /\ NoIno \notin Inums
  BY <1>1, <1>2, PointRefs DEF Points, HaveIp, HaveOld
<1>4. u = Idle /\ Others(p)
  BY <1>1, <1>2, <1>3 DEF Others
<1>5. /\ TypesSame /\ NLinksSame /\ TabRead
      /\ \A d \in Inums, n \in Names : ents'[d][n] = ents[d][n]
  <2>1. CASE UNCHANGED <<disk, itab>>
    BY <2>1, DiskSame, ReadSame DEF disk
  <2>2. CASE itab[i].d.type = "file" /\ itrunc(i)
    <3>1. itab[i].d = dinode[i] /\ dinode[i] \in Inode /\ HasLock(th[p], i)
      BY <1>1, <1>2, <1>3, MineLoaded DEF LockedIp, Putting
    <3>2. PICK d : d = [itab[i].d EXCEPT !.addrs = {}, !.size = 0]
      OBVIOUS
    <3>3. Update(i, d) /\ d.type = dinode[i].type /\ d.nlink = dinode[i].nlink
      BY <2>2, <3>1, <3>2 DEF itrunc, Inode
    <3>4. \A e \in Inums, n \in Names : ents'[e][n] \in {ents[e][n], NoIno}
      BY <1>1, <1>2, <1>3, <2>2, <3>1, ItruncTree
    <3>5. Empty(i)
      BY <1>3, <2>2, <3>1 DEF TreeInv, EmptyInv
    <3>6. \A e \in Inums \ {i} : ents'[e] = ents[e]
      BY <1>3, <2>2 DEF itrunc, DiskTypes
    <3>7. \A e \in Inums, n \in Names : ents'[e][n] = ents[e][n]
      BY <3>4, <3>5, <3>6 DEF Empty
    <3>. QED  BY <1>3, <3>3, <3>7, UpdatePlain
  <2>. QED  BY <1>2, <2>1, <2>2
<1>6. RefsFrom(p)
  <2>1. ASSUME NEW j \in Inums PROVE ~UsedBy(u, j)
    BY <1>3, <1>4 DEF UsedBy, Idle, Held
  <2>2. Source(p, i)
    BY <1>1, <1>2 DEF Source, UsedBy, Held
  <2>3. \A g \in 1..NFILE : FileIno(file'[g]) \in {FileIno(file[g]), i}
    BY <1>2 DEF FileIno, CInv, FInv, TypeInv, UserTypes
  <2>. QED  BY <1>1, <1>2, <2>1, <2>2, <2>3 DEF RefsFrom
<1>7. MadeIp(u) = MadeIp(t)
  BY <1>2, <1>4 DEF MadeIp, Point, Putting, Idle
<1>8. Linked(u) = Linked(t)
  BY <1>2, <1>3, <1>4 DEF Linked, Point, Putting, Idle, Thread, Inums0
<1>9. /\ u.pc \notin NewPoints \cup {"itrunc", "ifree", "invalid"} /\ u.put = NoIno
      /\ t.pc \notin {"iget", "createinit"}
  BY <1>2, <1>4 DEF Idle, NewPoints
<1>. QED  BY <1>1, <1>3, <1>4, <1>5, <1>6, <1>7, <1>8, <1>9, PlainMove

LEMMA PlainFileclose ==
  ASSUME CInv, NEW p \in Procs, NEW fd \in FDs, NEW r \in {"user", "exit"},
         th[p].pc \in {"user", "exit"}, fileclose(p, fd, r)
  PROVE  Plain(p)
<1>1. PICK t, u, f : t = th[p] /\ u = th'[p] /\ f = ofile[p][fd]
  OBVIOUS
<1>2. PICK i : i = file[f].ip
  OBVIOUS
<1>3. /\ f # 0 /\ UNCHANGED <<disk, itab, ilk, cwd, prog>>
      /\ \/ file' = [file EXCEPT ![f].ref = @ - 1] /\ th' = [th EXCEPT ![p].pc = r] /\ file[f].ref > 1
         \/ /\ file' = [file EXCEPT ![f] = NoFile]
            /\ th' = [th EXCEPT ![p].pc = "iput", ![p].put = i, ![p].ret = r]
  BY <1>1, <1>2 DEF fileclose
<1>4. f \in 1..NFILE /\ file[f].ref > 0 /\ i \in Inums /\ FileIno(file[f]) = i
  <2>1. ofile[p][fd] # 0
    BY <1>1, <1>3
  <2>2. f \in 1..NFILE /\ file[f].ref \in Nat \ {0} /\ i \in Inums
    BY <1>1, <1>2, <2>1, FdOpen DEF CInv
  <2>. QED  BY <1>2, <2>2 DEF FileIno
<1>5. th \in [Procs -> Thread] /\ t \in Thread /\ t.ret = "user" /\ NoIno \notin Inums
  BY <1>1, FilesAssumption DEF CInv, FInv, TypeInv, ControlInv, ThreadOk, Putting
<1>6. /\ Others(p) /\ u.ip = t.ip /\ u.dp = t.dp /\ u.old = t.old
      /\ \/ u.pc = r /\ u.ret = t.ret /\ u.put = t.put
         \/ u.pc = "iput" /\ u.ret = r /\ u.put = i
  BY <1>1, <1>3, <1>5 DEF Others, Thread
<1>7. RefsFrom(p)
  <2>1. Source(p, i)
    BY <1>4 DEF Source
  <2>2. ASSUME NEW j \in Inums, UsedBy(u, j) PROVE Source(p, j)
    <3>1. j = i \/ UsedBy(t, j)
      BY <1>1, <1>6, <2>2 DEF UsedBy, Held
    <3>. QED  BY <1>1, <2>1, <3>1 DEF Source
  <2>3. \A g \in 1..NFILE : FileIno(file'[g]) \in {FileIno(file[g]), NoIno}
    <3>1. file \in [1..NFILE -> OpenFile] /\ file[f].ref \in Nat
      BY <1>4 DEF CInv, FInv, TypeInv, UserTypes, OpenFile
    <3>2. CASE file' = [file EXCEPT ![f].ref = @ - 1] /\ file[f].ref > 1
      BY <1>4, <3>1, <3>2 DEF FileIno, OpenFile
    <3>3. CASE file' = [file EXCEPT ![f] = NoFile]
      BY <1>4, <3>1, <3>3 DEF FileIno, NoFile
    <3>. QED  BY <1>3, <3>2, <3>3
  <2>. QED  BY <1>1, <1>3, <1>5, <2>2, <2>3 DEF RefsFrom
<1>8. MadeIp(u) = MadeIp(t) /\ Linked(u) = Linked(t)
  BY <1>1, <1>6 DEF MadeIp, Linked, Point, Putting
<1>9. TypesSame /\ NLinksSame /\ ents' = ents /\ TabRead
  BY <1>3, DiskSame, ReadSame DEF disk
<1>. QED  BY <1>1, <1>6, <1>7, <1>8, <1>9, PlainMove DEF NewPoints

LEMMA PlainWrite ==
  ASSUME CInv, ~panicked, NEW p \in Procs, Write(p)
  PROVE  Plain(p)
<1>1. PICK fd \in FDs, copied \in BOOLEAN :
        LET f == ofile[p][fd]
            i == file[f].ip
            new == IF Loaded(i).addrs = {} /\ Unused # {} THEN {balloc} ELSE {}
            a == Loaded(i).addrs \cup new
        IN  /\ th[p].pc = "user" /\ f # 0 /\ ilk[i] = Nobody
            /\ Update(i, [Loaded(i) EXCEPT !.addrs = a, !.size = IF copied /\ a # {} THEN 1 ELSE @])
            /\ UNCHANGED <<ents, ilk, user, th>>
  BY DEF Write
<1>2. PICK f, i : f = ofile[p][fd] /\ i = file[f].ip
  OBVIOUS
<1>3. PICK new, a : /\ new = (IF Loaded(i).addrs = {} /\ Unused # {} THEN {balloc} ELSE {})
                    /\ a = Loaded(i).addrs \cup new
  OBVIOUS
<1>4. PICK d : d = [Loaded(i) EXCEPT !.addrs = a, !.size = IF copied /\ a # {} THEN 1 ELSE @]
  OBVIOUS
<1>5. th[p].pc = "user" /\ f # 0 /\ ilk[i] = Nobody /\ Update(i, d) /\ UNCHANGED <<ents, ilk, user, th>>
  BY <1>1, <1>2, <1>3, <1>4
<1>6. i \in Inums /\ itab[i].ref > 0
  <2>1. FInv /\ ofile[p][fd] # 0
    BY <1>2, <1>5 DEF CInv
  <2>2. f \in 1..NFILE /\ file[f].ref \in Nat \ {0} /\ i \in Inums
    BY <1>2, <2>1, FdOpen
  <2>. QED  BY <1>2, <2>1, <2>2, FileRef
<1>7. Loaded(i) = dinode[i] /\ DiskTypes /\ itab \in [Inums -> Entry]
  BY <1>5, <1>6, LoadedTyped DEF Loaded, CInv, FInv, TypeInv
<1>8. d.type = dinode[i].type /\ d.nlink = dinode[i].nlink
  BY <1>4, <1>6, <1>7 DEF DiskTypes, Inode
<1>9. TypesSame /\ NLinksSame /\ TabRead
  BY <1>5, <1>6, <1>7, <1>8, UpdatePlain
<1>10. PICK t, u : t = th[p] /\ u = th'[p] /\ t = u
  BY <1>5
<1>11. RefsFrom(p)
  BY <1>5, <1>10 DEF RefsFrom, user, Source
<1>. QED  BY <1>5, <1>9, <1>10, <1>11, PlainMove DEF Others, NewPoints

\* The calls on descriptors.
LEMMA PlainFile ==
  ASSUME CInv, ~panicked, NEW p \in Procs, FileStep(p)
  PROVE  Plain(p)
<1>1. CASE Write(p)
  BY <1>1, PlainWrite
<1>2. CASE Close(p)
  BY <1>2, PlainFileclose DEF Close
<1>3. CASE Exit(p)
  <2>1. CASE \E fd \in FDs : fileclose(p, fd, "exit")
    BY <1>3, <2>1, PlainFileclose DEF Exit
  <2>2. CASE ~(\E fd \in FDs : fileclose(p, fd, "exit"))
    <3>1. PICK t, u : t = th[p] /\ u = th'[p]
      OBVIOUS
    <3>2. /\ t.pc \in {"user", "exit"} /\ th' = [th EXCEPT ![p].pc = "iput", ![p].put = cwd[p]]
          /\ cwd' = [cwd EXCEPT ![p] = NoIno] /\ UNCHANGED <<disk, itab, ilk, file, ofile, prog, panicked>>
      BY <1>3, <2>2, <3>1 DEF Exit
    <3>3. th \in [Procs -> Thread] /\ t \in Thread /\ t.ret = "user" /\ NoIno \notin Inums
      BY <3>1, <3>2, FilesAssumption DEF CInv, FInv, TypeInv, ControlInv, ThreadOk, Putting
    <3>4. /\ Others(p) /\ u.ip = t.ip /\ u.dp = t.dp /\ u.old = t.old /\ u.pc = "iput" /\ u.ret = "user"
          /\ u.put = cwd[p]
      BY <3>1, <3>2, <3>3 DEF Others, Thread
    <3>5. RefsFrom(p)
      <4>1. ASSUME NEW j \in Inums, UsedBy(u, j) PROVE Source(p, j)
        <5>1. j = cwd[p] \/ UsedBy(t, j)
          BY <3>2, <3>4, <4>1 DEF UsedBy, Held
        <5>. QED  BY <3>1, <5>1 DEF Source
      <4>2. \A q \in Procs : cwd'[q] \in {cwd[q], NoIno}
        BY <3>2 DEF CInv, FInv, TypeInv, UserTypes
      <4>. QED  BY <3>1, <3>2, <3>3, <4>1, <4>2 DEF RefsFrom
    <3>6. MadeIp(u) = MadeIp(t) /\ Linked(u) = Linked(t)
      BY <3>2, <3>4 DEF MadeIp, Linked, Point, Putting
    <3>7. TypesSame /\ NLinksSame /\ ents' = ents /\ TabRead
      BY <3>2, DiskSame, ReadSame DEF disk
    <3>. QED  BY <3>1, <3>2, <3>4, <3>5, <3>6, <3>7, PlainMove DEF NewPoints
  <2>. QED  BY <2>1, <2>2
<1>4. CASE Dup(p)
  <2>1. PICK t, u : t = th[p] /\ u = th'[p]
    OBVIOUS
  <2>2. PICK fd \in FDs : ofile[p][fd] # 0 /\ file' = [file EXCEPT ![ofile[p][fd]].ref = @ + 1]
    BY <1>4 DEF Dup
  <2>3. PICK f : f = ofile[p][fd]
    OBVIOUS
  <2>4. f \in 1..NFILE /\ file[f].ref \in Nat \ {0} /\ file \in [1..NFILE -> OpenFile]
    BY <2>2, <2>3, FdOpen DEF CInv, FInv, TypeInv, UserTypes
  <2>5. file' = [file EXCEPT ![f].ref = @ + 1]
    BY <2>2, <2>3
  <2>6. \A g \in 1..NFILE : FileIno(file'[g]) = FileIno(file[g])
    BY <2>4, <2>5 DEF FileIno, OpenFile
  <2>7. t.pc = "user" /\ u = t /\ UNCHANGED <<disk, itab, ilk, cwd, prog, th, panicked>>
    BY <1>4, <2>1 DEF Dup
  <2>8. RefsFrom(p)
    BY <2>1, <2>6, <2>7 DEF RefsFrom, Source
  <2>9. TypesSame /\ NLinksSame /\ ents' = ents /\ TabRead
    BY <2>7, DiskSame, ReadSame DEF disk
  <2>. QED  BY <2>1, <2>7, <2>8, <2>9, PlainMove DEF NewPoints, Others
<1>5. ASSUME NEW q \in Procs, Fork(p, q) PROVE Plain(p)
  <2>1. PICK t, u : t = th[p] /\ u = th'[p]
    OBVIOUS
  <2>2. /\ t.pc = "user" /\ u = t /\ cwd[p] # NoIno /\ cwd' = [cwd EXCEPT ![q] = cwd[p]]
        /\ itab' = iget(itab, cwd[p]) /\ UNCHANGED <<disk, ilk, prog, th, panicked>>
        /\ file' = [f \in 1..NFILE |->
             [file[f] EXCEPT !.ref = @ + Cardinality({fd \in FDs : ofile[p][fd] = f})]]
    BY <1>5, <2>1 DEF Fork
  <2>3. cwd[p] \in Inums /\ itab \in [Inums -> Entry]
    BY <2>2 DEF CInv, FInv, TypeInv, UserTypes, Inums0
  <2>4. \A g \in 1..NFILE : FileIno(file'[g]) \in {FileIno(file[g]), NoIno} \/ file[g].ref = 0
    BY <2>2 DEF FileIno, CInv, FInv, TypeInv, UserTypes, OpenFile
  <2>5. ASSUME NEW g \in 1..NFILE, file[g].ref = 0 PROVE FileIno(file'[g]) = NoIno
    <3>1. \A fd \in FDs : ofile[p][fd] # g
      <4>1. ASSUME NEW fd \in FDs, ofile[p][fd] = g PROVE FALSE
        <5>1. ofile[p][fd] # 0
          BY <4>1
        <5>2. file[ofile[p][fd]].ref \in Nat \ {0}
          BY <5>1, FdOpen DEF CInv
        <5>. QED  BY <2>5, <4>1, <5>2
      <4>. QED  BY <4>1
    <3>2. {fd \in FDs : ofile[p][fd] = g} = {}
      BY <3>1
    <3>3. Cardinality({fd \in FDs : ofile[p][fd] = g}) = 0
      BY <3>2, FS_EmptySet
    <3>4. file'[g].ref = 0
      BY <2>2, <2>5, <3>3 DEF CInv, FInv, TypeInv, UserTypes, OpenFile
    <3>. QED  BY <3>4 DEF FileIno
  <2>6. NoIno \notin Inums /\ \A r \in Procs : cwd'[r] \in {cwd[r], cwd[p]}
    BY <2>2, FilesAssumption DEF CInv, FInv, TypeInv, UserTypes
  <2>7. RefsFrom(p)
    <3>1. \A j \in Inums, g \in 1..NFILE : FileIno(file'[g]) = j => FileIno(file[g]) = j
      BY <2>4, <2>5, <2>6
    <3>. QED  BY <2>1, <2>2, <2>6, <3>1 DEF RefsFrom, Source
  <2>8. TypesSame /\ NLinksSame /\ ents' = ents /\ TabRead
    BY <2>2, <2>3, DiskSame, ReadIget DEF disk
  <2>. QED  BY <2>1, <2>2, <2>7, <2>8, PlainMove DEF NewPoints, Others
<1>. QED  BY <1>1, <1>2, <1>3, <1>4, <1>5 DEF FileStep

-----------------------------------------------------------------------------
(* Steps that change claims and links *)

\* No link without its claim is lost, or none is gained or lost.
Grows == \A i \in Inums : dinode'[i].nlink - Count(Claim', i) >= dinode[i].nlink - Count(Claim, i)
Balanced == \A i \in Inums : dinode'[i].nlink - Count(Claim', i) = dinode[i].nlink - Count(Claim, i)

LEMMA CountNats == \A i : Count(Claim, i) \in Nat
<1>1. PICK F : F = Claim
  OBVIOUS
<1>2. Finite(F)
  BY <1>1, ClaimsFinite DEF Finite
<1>3. \A i : Count(F, i) \in Nat
  BY <1>2, CountNat
<1>. QED  BY <1>1, <1>3

LEMMA ClaimNats == (\A i : Count(Claim, i) \in Nat) /\ (\A i : Count(Claim', i) \in Nat)
<1>1. (\A i : Count(Claim, i) \in Nat)'
  BY CountNats, PTL
<1>2. \A i : Count(Claim', i) \in Nat
  BY <1>1 DEF Count
<1>. QED  BY <1>2, CountNats

LEMMA LinkFromGrows ==
  ASSUME DiskTypes, DiskTypes', LinkInv, Grows
  PROVE  LinkInv'
<1>1. ASSUME NEW i \in Inums PROVE dinode'[i].nlink >= Count(Claim', i)
  <2>1. PICK a, b, m, n : /\ a = Count(Claim, i) /\ b = Count(Claim', i)
                          /\ m = dinode[i].nlink /\ n = dinode'[i].nlink
    OBVIOUS
  <2>2. a \in Nat /\ b \in Nat /\ m \in Int /\ n \in Int
    BY <2>1, ClaimNats DEF DiskTypes, Inode
  <2>3. n - b >= m - a /\ m >= a
    BY <2>1 DEF Grows, LinkInv
  <2>4. n >= b
    BY <2>2, <2>3
  <2>. QED  BY <2>1, <2>4
<1>. QED  BY <1>1 DEF LinkInv, Count

LEMMA SameGrows ==
  ASSUME NEW p \in Procs, Others(p), TypesSame, SameClaims(p), NLinksSame
  PROVE  Balanced
<1>1. Claim' = Claim
  BY ClaimSame
<1>. QED  BY <1>1 DEF Balanced, NLinksSame

LEMMA CountTwo ==
  ASSUME NEW f, NEW g, NEW h, NEW k, Finite(f), {h, k} \subseteq DOMAIN f, h # k,
         g = [l \in DOMAIN f |-> g[l]], \A l \in DOMAIN f \ {h, k} : g[l] = f[l],
         f = [l \in DOMAIN f |-> f[l]], NEW i
  PROVE  Count(g, i) = Count(f, i) - One(f[h], i) - One(f[k], i) + One(g[h], i) + One(g[k], i)
<1>1. PICK f1 : f1 = Put(f, h, g[h])
  OBVIOUS
<1>2. f1 = [f EXCEPT ![h] = g[h]]
  BY <1>1 DEF Put
<1>3. DOMAIN f1 = DOMAIN f /\ Finite(f1) /\ f1[k] = f[k]
  BY <1>2 DEF Finite
<1>4. g = Put(f1, k, g[k])
  <2>1. [f1 EXCEPT ![k] = g[k]] = [l \in DOMAIN f |-> IF l = k THEN g[k] ELSE f1[l]]
    BY <1>2
  <2>2. \A l \in DOMAIN f : g[l] = IF l = k THEN g[k] ELSE f1[l]
    BY <1>2
  <2>3. g = [l \in DOMAIN f |-> IF l = k THEN g[k] ELSE f1[l]]
    BY <2>2
  <2>. QED  BY <2>1, <2>3 DEF Put
<1>5. Count(f1, i) = Swap(Count(f, i), One(f[h], i), One(g[h], i))
  <2>1. PICK x : x = g[h]
    OBVIOUS
  <2>2. PlaceOf(f, h)
    BY DEF PlaceOf
  <2>3. Count(Put(f, h, x), i) = Swap(Count(f, i), One(f[h], i), One(x, i))
    BY <2>2, CountChange
  <2>. QED  BY <1>1, <2>1, <2>3
<1>6. Count(g, i) = Swap(Count(f1, i), One(f[k], i), One(g[k], i))
  <2>1. PICK x : x = g[k]
    OBVIOUS
  <2>2. PlaceOf(f1, k)
    BY <1>3 DEF PlaceOf
  <2>3. Count(Put(f1, k, x), i) = Swap(Count(f1, i), One(f1[k], i), One(x, i))
    BY <2>2, CountChange
  <2>. QED  BY <1>3, <1>4, <2>1, <2>3
<1>7. Count(f, i) \in Nat /\ Count(f1, i) \in Nat /\ Count(g, i) \in Nat
  BY <1>3, CountNat DEF Finite
<1>. QED  BY <1>5, <1>6, <1>7 DEF Swap, One

LEMMA CountFour ==
  ASSUME NEW f, NEW g, NEW h, NEW k, NEW m, NEW n, Finite(f), {h, k, m, n} \subseteq DOMAIN f,
         k # h, m \notin {h, k}, n \notin {h, k, m}, f = [l \in DOMAIN f |-> f[l]],
         g = [l \in DOMAIN f |-> g[l]], \A l \in DOMAIN f \ {h, k, m, n} : g[l] = f[l], NEW i
  PROVE  Count(g, i) =
           Count(f, i) - One(f[h], i) - One(f[k], i) - One(f[m], i) - One(f[n], i)
           + One(g[h], i) + One(g[k], i) + One(g[m], i) + One(g[n], i)
<1>1. PICK e : e = [l \in DOMAIN f |-> IF l \in {h, k} THEN g[l] ELSE f[l]]
  OBVIOUS
<1>2. /\ DOMAIN e = DOMAIN f /\ Finite(e) /\ e = [l \in DOMAIN f |-> e[l]]
      /\ \A l \in DOMAIN f \ {h, k} : e[l] = f[l]
      /\ e[h] = g[h] /\ e[k] = g[k] /\ e[m] = f[m] /\ e[n] = f[n]
      /\ \A l \in DOMAIN e \ {m, n} : g[l] = e[l]
  BY <1>1 DEF Finite
<1>3. Count(e, i) = Count(f, i) - One(f[h], i) - One(f[k], i) + One(e[h], i) + One(e[k], i)
  BY <1>2, CountTwo
<1>4. Count(g, i) = Count(e, i) - One(e[m], i) - One(e[n], i) + One(g[m], i) + One(g[n], i)
  BY <1>2, CountTwo
<1>5. Count(f, i) \in Nat /\ Count(e, i) \in Nat /\ Count(g, i) \in Nat
  BY <1>2, CountNat DEF Finite
<1>. QED  BY <1>2, <1>3, <1>4, <1>5 DEF One

\* What one process claims by its local variables.
Held2(t, i) == One(MadeIp(t), i) + One(Linked(t), i)

\* Entries outside S, and the types of all inodes, stay.
Entered(S) ==
  \A d \in Inums, n \in Names : <<d, n>> \notin S => ents'[d][n] = ents[d][n]

LEMMA OtherClaims ==
  ASSUME NEW p \in Procs, Others(p), TypesSame, NEW S, Entered(S),
         NEW h \in Claims, h \notin {<<p, "ip">>, <<p, "old">>},
         \A s \in S : h # <<s, "entry">> /\ h # <<s, "up">>,
         NEW F, NEW G, F = Claim, G = Claim'
  PROVE  G[h] = F[h]
<1>0. ClaimShape'
  BY ClaimAt, PTL
<1>1. ClaimShape
  BY ClaimAt
<1>2. CASE \E d \in Inums, n \in Names : h = <<<<d, n>>, "entry">>
  <2>1. PICK d \in Inums, n \in Names : h = <<<<d, n>>, "entry">>
    BY <1>2
  <2>2. F[h] = ents[d][n] /\ G[h] = ents'[d][n]
    BY <1>0, <1>1, <2>1 DEF ClaimShape
  <2>. QED  BY <2>1, <2>2 DEF Entered
<1>3. CASE \E d \in Inums, n \in Names : h = <<<<d, n>>, "up">>
  <2>1. PICK d \in Inums, n \in Names : h = <<<<d, n>>, "up">>
    BY <1>3
  <2>2. PICK i : i = ents[d][n] /\ i = ents'[d][n]
    BY <2>1 DEF Entered
  <2>3. UpLink(d, n)' = UpLink(d, n)
    BY <2>2 DEF UpLink, TypesSame
  <2>. QED  BY <1>0, <1>1, <2>1, <2>3 DEF ClaimShape
<1>4. CASE \E q \in Procs : h = <<q, "ip">> \/ h = <<q, "old">>
  <2>1. PICK q \in Procs : h = <<q, "ip">> \/ h = <<q, "old">>
    BY <1>4
  <2>2. th'[q] = th[q]
    BY <2>1 DEF Others
  <2>. QED  BY <1>0, <1>1, <2>1, <2>2 DEF ClaimShape
<1>5. CASE h = <<Nobody, "root">>
  BY <1>0, <1>1, <1>5 DEF ClaimShape
<1>. QED  BY <1>2, <1>3, <1>4, <1>5, ClaimCases

LEMMA ThreadClaims ==
  ASSUME NEW p \in Procs, Others(p), TypesSame, Entered({}), NEW i
  PROVE  Count(Claim', i) = Count(Claim, i) - Held2(th[p], i) + Held2(th'[p], i)
<1>1. PICK F, G, h, k : F = Claim /\ G = Claim' /\ h = <<p, "ip">> /\ k = <<p, "old">>
  OBVIOUS
<1>0. ClaimShape'
  BY ClaimAt, PTL
<1>2. /\ h \in Claims /\ k \in Claims /\ h # k
      /\ F[h] = MadeIp(th[p]) /\ F[k] = Linked(th[p])
      /\ G[h] = MadeIp(th'[p]) /\ G[k] = Linked(th'[p])
  BY <1>0, <1>1, ClaimAt DEF ClaimShape
<1>3. DOMAIN F = Claims /\ Finite(F) /\ F = [l \in Claims |-> F[l]] /\ G = [l \in Claims |-> G[l]]
  BY <1>1, ClaimsFinite DEF Finite, Claim
<1>4. \A l \in Claims \ {h, k} : G[l] = F[l]
  BY <1>1, OtherClaims
<1>5. Count(G, i) = Count(F, i) - One(F[h], i) - One(F[k], i) + One(G[h], i) + One(G[k], i)
  BY <1>2, <1>3, <1>4, CountTwo
<1>6. Count(F, i) \in Nat
  BY <1>3, CountNat
<1>. QED  BY <1>1, <1>2, <1>5, <1>6 DEF Held2, One

LEMMA EntryClaims ==
  ASSUME NEW p \in Procs, Others(p), TypesSame, NEW d \in Inums, NEW n \in Names, Entered({<<d, n>>}),
         NEW i
  PROVE  Count(Claim', i) =
           Count(Claim, i) - Held2(th[p], i) + Held2(th'[p], i)
           - One(ents[d][n], i) + One(ents'[d][n], i) - One(UpLink(d, n), i) + One(UpLink(d, n)', i)
<1>1. PICK F, G, h, k, m, l : /\ F = Claim /\ G = Claim' /\ h = <<p, "ip">> /\ k = <<p, "old">>
                              /\ m = <<<<d, n>>, "entry">> /\ l = <<<<d, n>>, "up">>
  OBVIOUS
<1>0. ClaimShape'
  BY ClaimAt, PTL
<1>2. /\ h \in Claims /\ k \in Claims /\ m \in Claims /\ l \in Claims
      /\ h # k /\ m \notin {h, k} /\ l \notin {h, k, m}
      /\ F[h] = MadeIp(th[p]) /\ F[k] = Linked(th[p]) /\ F[m] = ents[d][n] /\ F[l] = UpLink(d, n)
      /\ G[h] = MadeIp(th'[p]) /\ G[k] = Linked(th'[p]) /\ G[m] = ents'[d][n] /\ G[l] = UpLink(d, n)'
  BY <1>0, <1>1, ClaimAt DEF ClaimShape
<1>3. DOMAIN F = Claims /\ Finite(F) /\ F = [x \in Claims |-> F[x]] /\ G = [x \in Claims |-> G[x]]
  BY <1>1, ClaimsFinite DEF Finite, Claim
<1>4. ASSUME NEW x \in Claims \ {h, k, m, l} PROVE G[x] = F[x]
  <2>1. x \notin {<<p, "ip">>, <<p, "old">>}
    BY <1>1, <1>4
  <2>2. \A s \in {<<d, n>>} : x # <<s, "entry">> /\ x # <<s, "up">>
    BY <1>1, <1>4
  <2>. QED  BY <1>1, <1>4, <2>1, <2>2, OtherClaims
<1>5. Count(G, i) = Count(F, i) - One(F[h], i) - One(F[k], i) - One(F[m], i) - One(F[l], i)
                    + One(G[h], i) + One(G[k], i) + One(G[m], i) + One(G[l], i)
  <2>1. {h, k, m, l} \subseteq DOMAIN F /\ \A x \in DOMAIN F \ {h, k, m, l} : G[x] = F[x]
    BY <1>2, <1>3, <1>4
  <2>2. F = [x \in DOMAIN F |-> F[x]] /\ G = [x \in DOMAIN F |-> G[x]] /\ Finite(F)
    BY <1>3
  <2>3. k # h /\ m \notin {h, k} /\ l \notin {h, k, m}
    BY <1>2
  <2>. QED  BY <2>1, <2>2, <2>3, CountFour
<1>6. Count(F, i) \in Nat
  BY <1>3, CountNat
<1>. QED  BY <1>1, <1>2, <1>5, <1>6 DEF Held2, One

\* A step that changes the links of inode k, which it uses and has locked or finds unlocked.
Link(p, k) ==
  /\ UsedBy(th[p], k) /\ ilk[k] \in {p, Nobody} /\ itab'[k].valid
  /\ \A i \in Inums \ {k} : dinode'[i].nlink = dinode[i].nlink

LEMMA LinkMove ==
  ASSUME NEW p \in Procs, NEW t, NEW u, t = th[p], u = th'[p], Others(p), RefsFrom(p),
         TypesSame, TabRead, NEW k \in Inums, Link(p, k),
         t.pc \notin {"iget", "createinit"},
         u.pc \notin NewPoints \cup {"itrunc", "ifree", "invalid"},
         u.pc # "iput" /\ u.put \in Inums => u.put = t.put
  PROVE  Ordinary(p) /\ ReadStep(p)
<1>1. Ordinary(p)
  BY DEF Ordinary, NewPoints, Link
<1>2. ReadStep(p)
  BY DEF ReadStep, TabRead, Link
<1>. QED  BY <1>1, <1>2

\* The links of k change by x, and so do the claims of the process.
Adds(p, k, x) ==
  \A i \in Inums : /\ dinode'[i].nlink = dinode[i].nlink + (IF i = k THEN x ELSE 0)
                    /\ Held2(th'[p], i) = Held2(th[p], i) + (IF i = k THEN x ELSE 0)

LEMMA LinkCount ==
  ASSUME DiskTypes, NEW p \in Procs, Others(p), TypesSame, Entered({}), NEW k \in Inums,
         NEW x \in Int, Adds(p, k, x)
  PROVE  Balanced
<1>1. ASSUME NEW i \in Inums
      PROVE  dinode'[i].nlink - Count(Claim', i) = dinode[i].nlink - Count(Claim, i)
  <2>1. Count(Claim', i) = Count(Claim, i) - Held2(th[p], i) + Held2(th'[p], i)
    BY ThreadClaims
  <2>2. PICK a, b, m, n, y, z : /\ a = Count(Claim, i) /\ b = Count(Claim', i)
                                /\ m = dinode[i].nlink /\ n = dinode'[i].nlink
                                /\ y = Held2(th[p], i) /\ z = Held2(th'[p], i)
    OBVIOUS
  <2>3. a \in Nat /\ b \in Nat /\ m \in Int /\ y \in Int /\ z \in Int
    BY <2>2, ClaimNats DEF DiskTypes, Inode, Held2, One
  <2>4. n = m + (IF i = k THEN x ELSE 0) /\ z = y + (IF i = k THEN x ELSE 0)
    BY <2>2 DEF Adds
  <2>5. b = a - y + z
    BY <2>1, <2>2
  <2>6. n - b = m - a
    BY <2>3, <2>4, <2>5
  <2>. QED  BY <2>2, <2>6
<1>. QED  BY <1>1 DEF Balanced

LEMMA UnlinkDecLinks ==
  ASSUME CInv, ~panicked, NEW p \in Procs, UnlinkDec(p)
  PROVE  Ordinary(p) /\ ReadStep(p) /\ Balanced
<1>1. PICK t, u, k, d : /\ t = th[p] /\ u = th'[p] /\ k = th[p].ip
                        /\ d = [Loaded(k) EXCEPT !.nlink = Loaded(k).nlink - 1]
  OBVIOUS
<1>2. /\ t.pc = "unlinkdec" /\ Update(k, d) /\ IputThen(p, "ip", "user")
      /\ UNCHANGED <<bitmap, ents, user, panicked>>
  BY <1>1 DEF UnlinkDec, DropLink
<1>3. /\ k \in Inums /\ t.old \notin Inums /\ th \in [Procs -> Thread] /\ t \in Thread /\ DiskTypes
      /\ itab \in [Inums -> Entry] /\ NoIno \notin Inums
  BY <1>1, <1>2, PointRefs DEF Points, HaveIp, HaveOld
<1>4. /\ u.pc = "iput" /\ u.ret = "user" /\ u.put = k /\ u.ip = NoIno /\ u.dp = t.dp /\ u.old = t.old
      /\ Others(p)
  BY <1>1, <1>2, <1>3 DEF IputThen, Thread, Others
<1>5. ilk[k] = p /\ Loaded(k) = dinode[k] /\ dinode[k] \in Inode
  BY <1>1, <1>2, <1>3, MineLoaded DEF LockedIp, Putting
<1>6. d.type = dinode[k].type /\ d.nlink = dinode[k].nlink + (-1)
  BY <1>1, <1>5 DEF Inode
<1>7. TypesSame /\ TabRead /\ itab'[k].valid
  BY <1>2, <1>3, <1>6, UpdateTypes, ReadUpdate
<1>8. UsedBy(t, k)
  BY <1>1, <1>2 DEF UsedBy, Held
<1>9. RefsFrom(p)
  <2>1. ASSUME NEW j \in Inums, UsedBy(u, j) PROVE UsedBy(t, j)
    BY <1>2, <1>3, <1>4, <1>8, <2>1 DEF UsedBy, Held
  <2>. QED  BY <1>1, <1>2, <2>1, LocalRefs DEF user, Source
<1>10. Link(p, k)
  BY <1>1, <1>2, <1>3, <1>5, <1>7, <1>8 DEF Link, Update, DiskTypes
<1>11. Ordinary(p) /\ ReadStep(p)
  BY <1>1, <1>2, <1>3, <1>4, <1>7, <1>9, <1>10, LinkMove DEF NewPoints
<1>12. t.old = NoIno
  BY <1>3 DEF Thread, Inums0
<1>13. MadeIp(t) = k /\ MadeIp(u) = NoIno /\ Linked(t) = NoIno /\ Linked(u) = NoIno
  BY <1>1, <1>2, <1>4, <1>12 DEF MadeIp, Linked, Point, Putting
<1>14. \A i \in Inums : Held2(u, i) = Held2(t, i) + (IF i = k THEN -1 ELSE 0)
  BY <1>3, <1>13 DEF Held2, One
<1>15. Entered({}) /\ dinode' = [dinode EXCEPT ![k] = d] /\ -1 \in Int
  BY <1>2 DEF Entered, Update
<1>16. Balanced
  <2>1. PICK x : x = -1 /\ x \in Int
    OBVIOUS
  <2>2. \A i \in Inums : dinode'[i].nlink = dinode[i].nlink + (IF i = k THEN x ELSE 0)
    BY <1>3, <1>6, <1>15, <2>1 DEF DiskTypes, Inode
  <2>3. Adds(p, k, x)
    BY <1>1, <1>14, <2>1, <2>2 DEF Adds
  <2>. QED  BY <1>3, <1>4, <1>7, <1>15, <2>1, <2>3, LinkCount
<1>. QED  BY <1>11, <1>16

LEMMA LinkBadLinks ==
  ASSUME CInv, ~panicked, NEW p \in Procs, LinkBad(p)
  PROVE  Ordinary(p) /\ ReadStep(p) /\ Balanced
<1>1. PICK t, u, k, d : /\ t = th[p] /\ u = th'[p] /\ k = th[p].old
                        /\ d = [Loaded(k) EXCEPT !.nlink = Loaded(k).nlink - 1]
  OBVIOUS
<1>2. /\ t.pc = "linkbad" /\ ilk[k] = Nobody /\ Update(k, d) /\ IputThen(p, "old", "user")
      /\ UNCHANGED <<bitmap, ents, ilk, user>>
  BY <1>1 DEF LinkBad, DropLink, At, WaitsFor
<1>3. /\ k \in Inums /\ t.ip \notin Inums /\ th \in [Procs -> Thread] /\ t \in Thread /\ DiskTypes
      /\ itab \in [Inums -> Entry] /\ NoIno \notin Inums
  BY <1>1, <1>2, PointRefs DEF Points, HaveIp, HaveOld
<1>4. /\ u.pc = "iput" /\ u.ret = "user" /\ u.put = k /\ u.ip = t.ip /\ u.dp = t.dp /\ u.old = NoIno
      /\ Others(p)
  BY <1>1, <1>2, <1>3 DEF IputThen, Thread, Others
<1>5. Loaded(k) = dinode[k] /\ dinode[k] \in Inode
  <2>1. Refers(th[p], k)
    BY <1>1 DEF Refers
  <2>. QED  BY <1>2, <1>3, <2>1, FreeLoaded
<1>6. d.type = dinode[k].type /\ d.nlink = dinode[k].nlink + (-1)
  BY <1>1, <1>5 DEF Inode
<1>7. TypesSame /\ TabRead /\ itab'[k].valid
  BY <1>2, <1>3, <1>6, UpdateTypes, ReadUpdate
<1>8. UsedBy(t, k)
  BY <1>1, <1>2 DEF UsedBy
<1>9. RefsFrom(p)
  <2>1. ASSUME NEW j \in Inums, UsedBy(u, j) PROVE UsedBy(t, j)
    BY <1>2, <1>3, <1>4, <1>8, <2>1 DEF UsedBy, Held
  <2>. QED  BY <1>1, <1>2, <2>1, LocalRefs DEF user, Source
<1>10. Link(p, k)
  BY <1>1, <1>2, <1>3, <1>5, <1>7, <1>8 DEF Link, Update, DiskTypes
<1>11. Ordinary(p) /\ ReadStep(p)
  BY <1>1, <1>2, <1>3, <1>4, <1>7, <1>9, <1>10, LinkMove DEF NewPoints
<1>13. MadeIp(t) = NoIno /\ MadeIp(u) = NoIno /\ Linked(t) = k /\ Linked(u) = NoIno
  BY <1>1, <1>2, <1>4 DEF MadeIp, Linked, Point, Putting
<1>14. \A i \in Inums : Held2(u, i) = Held2(t, i) + (IF i = k THEN -1 ELSE 0)
  BY <1>3, <1>13 DEF Held2, One
<1>15. Entered({}) /\ dinode' = [dinode EXCEPT ![k] = d] /\ -1 \in Int
  BY <1>2 DEF Entered, Update
<1>16. Balanced
  <2>1. PICK x : x = -1 /\ x \in Int
    OBVIOUS
  <2>2. \A i \in Inums : dinode'[i].nlink = dinode[i].nlink + (IF i = k THEN x ELSE 0)
    BY <1>3, <1>6, <1>15, <2>1 DEF DiskTypes, Inode
  <2>3. Adds(p, k, x)
    BY <1>1, <1>14, <2>1, <2>2 DEF Adds
  <2>. QED  BY <1>3, <1>4, <1>7, <1>15, <2>1, <2>3, LinkCount
<1>. QED  BY <1>11, <1>16

LEMMA CreateFailLinks ==
  ASSUME CInv, MadeInv, ~panicked, NEW p \in Procs, CreateFail(p)
  PROVE  Ordinary(p) /\ ReadStep(p) /\ Balanced
<1>1. PICK t, u, k, d : /\ t = th[p] /\ u = th'[p] /\ k = th[p].ip
                        /\ d = [Loaded(k) EXCEPT !.nlink = 0]
  OBVIOUS
<1>2. /\ t.pc = "createfail" /\ Update(k, d) /\ IputThen(p, "ip", "dropparent")
      /\ UNCHANGED <<bitmap, ents, user, panicked>>
  BY <1>1 DEF CreateFail
<1>3. /\ k \in Inums /\ t.old \notin Inums /\ th \in [Procs -> Thread] /\ t \in Thread /\ DiskTypes
      /\ itab \in [Inums -> Entry] /\ NoIno \notin Inums
  BY <1>1, <1>2, PointRefs DEF Points, HaveIp, HaveOld
<1>4. /\ u.pc = "iput" /\ u.ret = "dropparent" /\ u.put = k /\ u.ip = NoIno /\ u.dp = t.dp
      /\ u.old = t.old /\ Others(p)
  BY <1>1, <1>2, <1>3 DEF IputThen, Thread, Others
<1>5. ilk[k] = p /\ Loaded(k) = dinode[k] /\ dinode[k] \in Inode /\ dinode[k].nlink = 1
  BY <1>1, <1>2, <1>3, MineLoaded DEF LockedIp, Putting, MadeInv
<1>6. d.type = dinode[k].type /\ d.nlink = dinode[k].nlink + (-1)
  BY <1>1, <1>5 DEF Inode
<1>7. TypesSame /\ TabRead /\ itab'[k].valid
  BY <1>2, <1>3, <1>6, UpdateTypes, ReadUpdate
<1>8. UsedBy(t, k)
  BY <1>1, <1>2 DEF UsedBy, Held
<1>9. RefsFrom(p)
  <2>1. ASSUME NEW j \in Inums, UsedBy(u, j) PROVE UsedBy(t, j)
    BY <1>2, <1>3, <1>4, <1>8, <2>1 DEF UsedBy, Held
  <2>. QED  BY <1>1, <1>2, <2>1, LocalRefs DEF user, Source
<1>10. Link(p, k)
  BY <1>1, <1>2, <1>3, <1>5, <1>7, <1>8 DEF Link, Update, DiskTypes
<1>11. Ordinary(p) /\ ReadStep(p)
  BY <1>1, <1>2, <1>3, <1>4, <1>7, <1>9, <1>10, LinkMove DEF NewPoints
<1>12. t.old = NoIno
  BY <1>3 DEF Thread, Inums0
<1>13. MadeIp(t) = k /\ MadeIp(u) = NoIno /\ Linked(t) = NoIno /\ Linked(u) = NoIno
  BY <1>1, <1>2, <1>4, <1>12 DEF MadeIp, Linked, Point, Putting
<1>14. \A i \in Inums : Held2(u, i) = Held2(t, i) + (IF i = k THEN -1 ELSE 0)
  BY <1>3, <1>13 DEF Held2, One
<1>15. Entered({}) /\ dinode' = [dinode EXCEPT ![k] = d] /\ -1 \in Int
  BY <1>2 DEF Entered, Update
<1>16. Balanced
  <2>1. PICK x : x = -1 /\ x \in Int
    OBVIOUS
  <2>2. \A i \in Inums : dinode'[i].nlink = dinode[i].nlink + (IF i = k THEN x ELSE 0)
    BY <1>3, <1>6, <1>15, <2>1 DEF DiskTypes, Inode
  <2>3. Adds(p, k, x)
    BY <1>1, <1>14, <2>1, <2>2 DEF Adds
  <2>. QED  BY <1>3, <1>4, <1>7, <1>15, <2>1, <2>3, LinkCount
<1>. QED  BY <1>11, <1>16

LEMMA LinkIncLinks ==
  ASSUME CInv, LinkInv, ~panicked, NEW p \in Procs, LinkInc(p)
  PROVE  Ordinary(p) /\ ReadStep(p) /\ Balanced
<1>1. PICK t, u, k, j, d : /\ t = th[p] /\ u = th'[p] /\ k = th[p].ip /\ j = From(p, th[p].call.new)
                           /\ d = [Loaded(k) EXCEPT !.nlink = Loaded(k).nlink + 1]
  OBVIOUS
<1>2. PICK e : e = Elements(th[p].call.new)
  OBVIOUS
<1>3. /\ t.pc = "namei" /\ ilk[k] = Nobody /\ itab' = iget([ilock(k) EXCEPT ![k].d = d], j)
      /\ dinode' = [dinode EXCEPT ![k] = d] /\ UNCHANGED <<bitmap, ents, ilk, user>>
      /\ th' = [th EXCEPT ![p].old = k, ![p].ip = j, ![p].pc = "nameiparent", ![p].path = e]
  BY <1>1, <1>2 DEF LinkInc, Found, At, WaitsFor
<1>4. /\ k \in Inums /\ t.old \notin Inums /\ t.dp \notin Inums /\ th \in [Procs -> Thread] /\ t \in Thread
      /\ DiskTypes /\ itab \in [Inums -> Entry] /\ NoIno \notin Inums
  BY <1>1, <1>3, PointRefs DEF Points, HaveIp, HaveOld, HaveDp
<1>5. /\ u.pc = "nameiparent" /\ u.ret = t.ret /\ u.put = t.put /\ u.ip = j /\ u.dp = t.dp /\ u.old = k
      /\ Others(p)
  BY <1>1, <1>3, <1>4 DEF Thread, Others
<1>6. Loaded(k) = dinode[k] /\ dinode[k] \in Inode
  <2>1. Refers(th[p], k)
    BY <1>1, <1>3 DEF Refers, Held
  <2>. QED  BY <1>3, <1>4, <2>1, FreeLoaded
<1>7. d.type = dinode[k].type /\ d.nlink = dinode[k].nlink + 1
  BY <1>1, <1>6 DEF Inode
<1>8. TypesSame
  BY <1>3, <1>4, <1>7 DEF TypesSame, DiskTypes
<1>9. j \in Inums /\ (j = cwd[p] \/ dinode[j].nlink > 0)
  <2>1. j = cwd[p] \/ j = ROOTINO
    BY <1>1 DEF From
  <2>2. cwd[p] \in Inums
    BY <1>1, <1>3, LinkPoints DEF CInv, FInv, TypeInv, UserTypes, Inums0
  <2>. QED  BY <1>4, <2>1, <2>2, RootLink
<1>10. TabRead /\ itab'[k].valid
  <2>1. PICK tab, f : tab = ilock(k) /\ f = [ilock(k)[k] EXCEPT !.d = d]
    OBVIOUS
  <2>2. tab \in [Inums -> Entry] /\ tab[k].ref = itab[k].ref /\ tab[k].valid
    BY <1>4, <2>1, IlockTab, IlockFresh
  <2>3. d \in Inode
    BY <1>1, <1>6 DEF Inode
  <2>4. f \in Entry /\ f.valid = tab[k].valid /\ f.ref = tab[k].ref
    BY <1>4, <2>1, <2>2, <2>3 DEF Entry
  <2>5. PICK tab2 : tab2 = [tab EXCEPT ![k] = f]
    OBVIOUS
  <2>6. tab2 \in [Inums -> Entry] /\ itab' = iget(tab2, j)
    BY <1>3, <1>4, <2>1, <2>2, <2>4, <2>5
  <2>7. ASSUME NEW i \in Inums PROVE Stays(itab[i], itab'[i])
    <3>1. Stays(itab[i], tab[i]) /\ tab[i].ref = itab[i].ref
      BY <1>4, <2>1, IlockFresh, IlockTab
    <3>2. tab2[i].valid = tab[i].valid /\ tab2[i].ref = tab[i].ref
      BY <2>2, <2>4, <2>5
    <3>3. Stays(tab2[i], itab'[i])
      BY <1>9, <2>6, IgetKept
    <3>. QED  BY <3>1, <3>2, <3>3 DEF Stays
  <2>8. itab[k].ref > 0
    <3>1. Refers(th[p], k)
      BY <1>1, <1>3 DEF Refers, Held
    <3>. QED  BY <1>4, <3>1, HeldRef DEF CInv
  <2>9. Stays(tab2[k], itab'[k]) /\ tab2[k].ref > 0 /\ tab2[k].valid
    BY <1>4, <1>9, <2>2, <2>4, <2>5, <2>6, <2>8, IgetKept
  <2>. QED  BY <2>7, <2>9, ReadStays DEF Stays
<1>11. UsedBy(t, k)
  BY <1>1, <1>3 DEF UsedBy, Held
<1>12. RefsFrom(p)
  <2>1. ASSUME NEW i \in Inums, UsedBy(u, i) PROVE Source(p, i)
    <3>1. i = j \/ UsedBy(t, i)
      BY <1>3, <1>4, <1>5, <1>11, <2>1 DEF UsedBy, Held
    <3>. QED  BY <1>1, <1>9, <3>1 DEF Source
  <2>. QED  BY <1>1, <1>3, <2>1, LocalRefs DEF user
<1>13. Link(p, k)
  BY <1>1, <1>3, <1>4, <1>10, <1>11 DEF Link, DiskTypes
<1>14. Ordinary(p) /\ ReadStep(p)
  BY <1>1, <1>3, <1>4, <1>5, <1>8, <1>10, <1>12, <1>13, LinkMove DEF NewPoints
<1>15. t.old = NoIno
  BY <1>4 DEF Thread, Inums0
<1>16. MadeIp(t) = NoIno /\ MadeIp(u) = NoIno /\ Linked(t) = NoIno /\ Linked(u) = k
  BY <1>1, <1>3, <1>5, <1>15 DEF MadeIp, Linked, Point, Putting
<1>17. \A i \in Inums : Held2(u, i) = Held2(t, i) + (IF i = k THEN 1 ELSE 0)
  BY <1>4, <1>16 DEF Held2, One
<1>18. \A i \in Inums : dinode'[i].nlink = dinode[i].nlink + (IF i = k THEN 1 ELSE 0)
  BY <1>3, <1>4, <1>7 DEF DiskTypes, Inode
<1>19. Adds(p, k, 1)
  BY <1>1, <1>17, <1>18 DEF Adds
<1>20. Entered({}) /\ 1 \in Int
  BY <1>3 DEF Entered
<1>21. Balanced
  BY <1>4, <1>5, <1>8, <1>19, <1>20, LinkCount
<1>. QED  BY <1>14, <1>21

\* What dirlink() does to the links and the entries.
LEMMA DirlinkLinks ==
  ASSUME CInv, ~panicked, NEW d \in Inums, NEW n, n \in Elems, NEW i \in Inums, NEW k \in Int,
         dirlink(d, n, i, k), CanLink(d, n), Loaded(d) = dinode[d]
  PROVE  /\ TypesSame /\ TabRead /\ itab'[d].valid
         /\ \A j \in Inums : dinode'[j].nlink = dinode[j].nlink + (IF j = d THEN k ELSE 0)
         /\ n \in Names => Entered({<<d, n>>}) /\ ents[d][n] = NoIno /\ ents'[d][n] = i
         /\ n \notin Names => Entered({})
<1>1. DiskTypes /\ itab \in [Inums -> Entry] /\ NoIno \notin Inums /\ dinode[d] \in Inode
  BY FilesAssumption DEF CInv, FInv, TypeInv, DiskTypes
<1>2. TypesSame
  BY DirlinkTree
<1>3. PICK new : new = IF NeedsBlock(d) THEN {balloc} ELSE {}
  OBVIOUS
<1>4. PICK e : e = [Loaded(d) EXCEPT !.addrs = Loaded(d).addrs \cup new, !.nlink = Loaded(d).nlink + k,
                      !.size = IF SlotsUsed(d) = Loaded(d).size THEN Loaded(d).size + 1
                               ELSE Loaded(d).size]
  OBVIOUS
<1>5. Update(d, e) /\ ents' = [ents EXCEPT ![d][n] = i]
  BY <1>1, <1>3, <1>4 DEF dirlink
<1>6. TabRead /\ itab'[d].valid
  BY <1>1, <1>5, ReadUpdate
<1>7. e.nlink = dinode[d].nlink + k
  BY <1>1, <1>4 DEF Inode
<1>8. \A j \in Inums : dinode'[j].nlink = dinode[j].nlink + (IF j = d THEN k ELSE 0)
  BY <1>1, <1>5, <1>7 DEF Update, DiskTypes, Inode
<1>9. n # "." /\ ents[d][n] = NoIno
  BY <1>1 DEF CanLink, Lookup
<1>10. \A f \in Inums, m \in Names :
         ents'[f][m] = IF f = d /\ m = n THEN i ELSE ents[f][m]
  BY <1>1, <1>5 DEF DiskTypes, Entries
<1>. QED  BY <1>2, <1>6, <1>8, <1>9, <1>10 DEF Entered

\* An entry for inode i is written in d, which process p uses and has locked or finds
\* unlocked; i was claimed by p before.
EntryMove(p, d, n, i, k) ==
  /\ Others(p) /\ TypesSame
  /\ \A j \in Inums : dinode'[j].nlink = dinode[j].nlink + (IF j = d THEN k ELSE 0)
  /\ n \in Names => Entered({<<d, n>>}) /\ ents[d][n] = NoIno /\ ents'[d][n] = i
  /\ n \notin Names => Entered({})
  /\ \A j \in Inums : Held2(th[p], j) = One(i, j) /\ Held2(th'[p], j) = 0
  /\ k = ParentLink(dinode[i].type)

LEMMA EntryCount ==
  ASSUME DiskTypes, NoIno \notin Inums, NEW p \in Procs, NEW d \in Inums, NEW n, NEW i \in Inums, NEW k,
         EntryMove(p, d, n, i, k)
  PROVE  Grows /\ (n \in Names => Balanced)
<1>1. ASSUME NEW j \in Inums
      PROVE  /\ dinode'[j].nlink - Count(Claim', j) >= dinode[j].nlink - Count(Claim, j)
             /\ n \in Names => dinode'[j].nlink - Count(Claim', j) = dinode[j].nlink - Count(Claim, j)
  <2>1. PICK a, b, m, l, c : /\ a = Count(Claim, j) /\ b = Count(Claim', j)
                             /\ m = dinode[j].nlink /\ l = dinode'[j].nlink
                             /\ c = (IF j = d THEN k ELSE 0)
    OBVIOUS
  <2>2. a \in Nat /\ b \in Nat /\ m \in Int /\ c \in {0, 1} /\ l = m + c
    BY <2>1, ClaimNats DEF DiskTypes, Inode, EntryMove, ParentLink
  <2>3. CASE n \in Names
    <3>1. PICK x, y : x = UpLink(d, n) /\ y = UpLink(d, n)'
      OBVIOUS
    <3>2. x = NoIno
      BY <2>3, <3>1 DEF EntryMove, UpLink
    <3>3. y = IF dinode[i].type = "dir" THEN d ELSE NoIno
      BY <2>3, <3>1 DEF EntryMove, UpLink, TypesSame
    <3>4. One(y, j) = c /\ One(x, j) = 0
      BY <2>1, <3>2, <3>3 DEF EntryMove, ParentLink, One
    <3>5. One(ents[d][n], j) = 0 /\ ents'[d][n] = i
      BY <2>3 DEF EntryMove, One
    <3>6. Count(Claim', j) =
            Count(Claim, j) - Held2(th[p], j) + Held2(th'[p], j)
            - One(ents[d][n], j) + One(ents'[d][n], j) - One(UpLink(d, n), j) + One(UpLink(d, n)', j)
      BY <2>3, EntryClaims DEF EntryMove
    <3>7. b = a - One(i, j) + 0 - 0 + One(i, j) - 0 + c
      BY <2>1, <3>1, <3>4, <3>5, <3>6 DEF EntryMove
    <3>8. b = a + c
      BY <2>2, <3>7 DEF One
    <3>. QED  BY <2>1, <2>2, <3>8
  <2>4. CASE n \notin Names
    <3>1. Count(Claim', j) = Count(Claim, j) - Held2(th[p], j) + Held2(th'[p], j)
      BY <2>4, ThreadClaims DEF EntryMove
    <3>2. b = a - One(i, j) + 0
      BY <2>1, <3>1 DEF EntryMove
    <3>3. b <= a
      BY <2>2, <3>2 DEF One
    <3>. QED  BY <2>1, <2>2, <2>4, <3>3
  <2>. QED  BY <2>3, <2>4
<1>. QED  BY <1>1 DEF Grows, Balanced

LEMMA CreateLinkLinks ==
  ASSUME CInv, MadeInv, ~panicked, NEW p \in Procs, CreateLink(p)
  PROVE  Ordinary(p) /\ ReadStep(p) /\ Grows /\ (th[p].name \in Names => Balanced)
<1>1. PICK t, u, d, n, i, k, r :
        /\ t = th[p] /\ u = th'[p] /\ d = th[p].dp /\ n = th[p].name /\ i = th[p].ip
        /\ k = ParentLink(NewType(p)) /\ r = (IF NewType(p) = "file" THEN "opened" ELSE "made")
  OBVIOUS
<1>2. /\ t.pc = "dirlink" /\ CanLink(d, n) /\ dirlink(d, n, i, k) /\ IputThen(p, "dp", r)
      /\ UNCHANGED user /\ r \in {"opened", "made"}
  BY <1>1 DEF CreateLink
<1>3. /\ i \in Inums /\ d \in Inums /\ t.old \notin Inums /\ th \in [Procs -> Thread] /\ t \in Thread
      /\ DiskTypes /\ NoIno \notin Inums /\ n \in Elems /\ k \in Int
  BY <1>1, <1>2, PointRefs DEF Points, HaveIp, HaveOld, HaveDp, Thread, ParentLink
<1>4. /\ u.pc = "iput" /\ u.ret = r /\ u.put = d /\ u.ip = i /\ u.dp = NoIno /\ u.old = t.old
      /\ Others(p)
  BY <1>1, <1>2, <1>3 DEF IputThen, Thread, Others
<1>5. ilk[d] = p /\ Loaded(d) = dinode[d]
  BY <1>1, <1>2, <1>3, MineLoaded DEF LockedDp, Putting
<1>6. /\ TypesSame /\ TabRead /\ itab'[d].valid
      /\ \A j \in Inums : dinode'[j].nlink = dinode[j].nlink + (IF j = d THEN k ELSE 0)
      /\ n \in Names => Entered({<<d, n>>}) /\ ents[d][n] = NoIno /\ ents'[d][n] = i
      /\ n \notin Names => Entered({})
  BY <1>2, <1>3, <1>5, DirlinkLinks
<1>7. UsedBy(t, d)
  BY <1>1 DEF UsedBy
<1>8. RefsFrom(p)
  <2>1. ASSUME NEW j \in Inums, UsedBy(u, j) PROVE UsedBy(t, j)
    BY <1>1, <1>2, <1>3, <1>4, <1>7, <2>1 DEF UsedBy, Held
  <2>. QED  BY <1>1, <1>2, <2>1, LocalRefs DEF user, Source
<1>9. Link(p, d)
  <2>1. \A j \in Inums \ {d} : dinode'[j].nlink = dinode[j].nlink
    BY <1>3, <1>6 DEF DiskTypes, Inode
  <2>. QED  BY <1>1, <1>5, <1>6, <1>7, <2>1 DEF Link
<1>10. Ordinary(p) /\ ReadStep(p)
  BY <1>1, <1>2, <1>3, <1>4, <1>6, <1>8, <1>9, LinkMove DEF NewPoints
<1>11. t.old = NoIno
  BY <1>3 DEF Thread, Inums0
<1>12. MadeIp(t) = i /\ MadeIp(u) = NoIno /\ Linked(t) = NoIno /\ Linked(u) = NoIno
  BY <1>1, <1>2, <1>4, <1>11 DEF MadeIp, Linked, Point, Putting
<1>13. \A j \in Inums : Held2(t, j) = One(i, j) /\ Held2(u, j) = 0
  BY <1>3, <1>12 DEF Held2, One
<1>14. k = ParentLink(dinode[i].type)
  BY <1>1, <1>2 DEF MadeInv
<1>15. EntryMove(p, d, n, i, k)
  BY <1>1, <1>4, <1>6, <1>13, <1>14 DEF EntryMove
<1>16. Grows /\ (n \in Names => Balanced)
  BY <1>3, <1>15, EntryCount
<1>. QED  BY <1>1, <1>10, <1>16

LEMMA LinkEntryLinks ==
  ASSUME CInv, TreeInv, UseInv, ~panicked, NEW p \in Procs, LinkEntry(p)
  PROVE  Ordinary(p) /\ ReadStep(p) /\ Grows /\ (th[p].name \in Names => Balanced)
<1>1. PICK t, u, d, n, i : /\ t = th[p] /\ u = th'[p] /\ d = th[p].dp /\ n = th[p].name /\ i = th[p].old
  OBVIOUS
<1>2. /\ t.pc = "link" /\ CanLink(d, n) /\ dirlink(d, n, i, 0) /\ IputThen(p, "dp", "linkput")
      /\ UNCHANGED user /\ ilk[d] = Nobody
  BY <1>1 DEF LinkEntry, At, WaitsFor
<1>3. /\ i \in Inums /\ d \in Inums /\ t.ip \notin Inums /\ th \in [Procs -> Thread] /\ t \in Thread
      /\ DiskTypes /\ NoIno \notin Inums /\ n \in Elems /\ 0 \in Int
  BY <1>1, <1>2, PointRefs DEF Points, HaveIp, HaveOld, HaveDp, Thread
<1>4. /\ u.pc = "iput" /\ u.ret = "linkput" /\ u.put = d /\ u.ip = t.ip /\ u.dp = NoIno /\ u.old = i
      /\ Others(p)
  BY <1>1, <1>2, <1>3 DEF IputThen, Thread, Others
<1>5. Loaded(d) = dinode[d]
  <2>1. Refers(th[p], d)
    BY <1>1 DEF Refers
  <2>. QED  BY <1>2, <1>3, <2>1, FreeLoaded
<1>6. /\ TypesSame /\ TabRead /\ itab'[d].valid
      /\ \A j \in Inums : dinode'[j].nlink = dinode[j].nlink + (IF j = d THEN 0 ELSE 0)
      /\ n \in Names => Entered({<<d, n>>}) /\ ents[d][n] = NoIno /\ ents'[d][n] = i
      /\ n \notin Names => Entered({})
  BY <1>2, <1>3, <1>5, DirlinkLinks
<1>7. UsedBy(t, d)
  BY <1>1 DEF UsedBy
<1>8. RefsFrom(p)
  <2>1. ASSUME NEW j \in Inums, UsedBy(u, j) PROVE UsedBy(t, j)
    BY <1>1, <1>2, <1>3, <1>4, <1>7, <2>1 DEF UsedBy, Held
  <2>. QED  BY <1>1, <1>2, <2>1, LocalRefs DEF user, Source
<1>9. Link(p, d)
  <2>1. \A j \in Inums \ {d} : dinode'[j].nlink = dinode[j].nlink
    BY <1>3, <1>6 DEF DiskTypes, Inode
  <2>. QED  BY <1>1, <1>2, <1>6, <1>7, <2>1 DEF Link
<1>10. Ordinary(p) /\ ReadStep(p)
  BY <1>1, <1>2, <1>3, <1>4, <1>6, <1>8, <1>9, LinkMove DEF NewPoints
<1>12. MadeIp(t) = NoIno /\ MadeIp(u) = NoIno /\ Linked(t) = i /\ Linked(u) = NoIno
  BY <1>1, <1>2, <1>4 DEF MadeIp, Linked, Point, Putting
<1>13. \A j \in Inums : Held2(t, j) = One(i, j) /\ Held2(u, j) = 0
  BY <1>3, <1>12 DEF Held2, One
<1>14. 0 = ParentLink(dinode[i].type)
  <2>1. dinode[i].type # "dir"
    BY <1>1, <1>3 DEF TreeInv, KindInv, NotDir
  <2>. QED  BY <2>1 DEF ParentLink
<1>15. EntryMove(p, d, n, i, 0)
  BY <1>1, <1>4, <1>6, <1>13, <1>14 DEF EntryMove
<1>16. Grows /\ (n \in Names => Balanced)
  BY <1>3, <1>15, EntryCount
<1>. QED  BY <1>1, <1>10, <1>16

LEMMA UnlinkEntryLinks ==
  ASSUME CInv, TreeInv, ~panicked, NEW p \in Procs, UnlinkEntry(p)
  PROVE  Ordinary(p) /\ ReadStep(p) /\ Balanced
<1>1. PICK t, u, d, n, i : /\ t = th[p] /\ u = th'[p] /\ d = th[p].dp /\ n = th[p].name /\ i = th[p].ip
  OBVIOUS
<1>2. PICK k, e : /\ k = ParentLink(Loaded(i).type)
                  /\ e = [itab[d].d EXCEPT !.nlink = itab[d].d.nlink - k]
  OBVIOUS
<1>3. /\ t.pc = "unlinklock" /\ IputThen(p, "dp", "unlinkdec") /\ UNCHANGED user /\ ilk[i] = Nobody
      /\ ents' = [ents EXCEPT ![d][n] = NoIno] /\ itab' = [ilock(i) EXCEPT ![d].d = e]
      /\ dinode' = [dinode EXCEPT ![d] = e]
  BY <1>1, <1>2 DEF UnlinkEntry, At, WaitsFor
<1>4. /\ i \in Inums /\ d \in Inums /\ t.old \notin Inums /\ th \in [Procs -> Thread] /\ t \in Thread
      /\ DiskTypes /\ NoIno \notin Inums /\ itab \in [Inums -> Entry]
  BY <1>1, <1>3, PointRefs DEF Points, HaveIp, HaveOld, HaveDp
<1>5. n \in Names /\ ents[d][n] = i
  BY <1>1, <1>3 DEF TreeInv, LookInv
<1>6. /\ u.pc = "iput" /\ u.ret = "unlinkdec" /\ u.put = d /\ u.ip = i /\ u.dp = NoIno /\ u.old = t.old
      /\ Others(p)
  BY <1>1, <1>3, <1>4 DEF IputThen, Thread, Others
<1>7. HasLock(th[p], d) /\ ilk[d] = p /\ itab[d].valid /\ itab[d].d = dinode[d] /\ dinode[d] \in Inode
  <2>1. HasLock(th[p], d)
    BY <1>1, <1>3 DEF HasLock, Point, Putting, LockedDp
  <2>. QED  BY <1>1, <1>3, <1>4, <2>1, LockedTyped DEF DiskTypes
<1>8. Loaded(i) = dinode[i] /\ dinode[i] \in Inode
  <2>1. Refers(th[p], i)
    BY <1>1, <1>3 DEF Refers, Held
  <2>. QED  BY <1>3, <1>4, <2>1, FreeLoaded
<1>9. k = ParentLink(dinode[i].type) /\ k \in {0, 1}
  BY <1>2, <1>8 DEF ParentLink
<1>10. e.type = dinode[d].type /\ e.nlink = dinode[d].nlink - k
  BY <1>2, <1>7, <1>9 DEF Inode
<1>11. TypesSame
  BY <1>3, <1>4, <1>10 DEF TypesSame, DiskTypes
<1>12. TabRead /\ itab'[d].valid
  <2>1. PICK tab : tab = ilock(i)
    OBVIOUS
  <2>2. tab \in [Inums -> Entry] /\ \A j \in Inums : Stays(itab[j], tab[j]) /\ tab[j].ref = itab[j].ref
    BY <1>4, <2>1, IlockTab, IlockFresh
  <2>3. itab' = [tab EXCEPT ![d].d = e]
    BY <1>3, <2>1
  <2>4. \A j \in Inums : itab'[j].ref = tab[j].ref /\ itab'[j].valid = tab[j].valid
    BY <1>4, <2>2, <2>3 DEF Entry
  <2>5. itab[d].ref > 0
    BY <1>1, <1>4, <1>7, LockedRef DEF CInv
  <2>. QED  BY <1>4, <1>7, <2>2, <2>4, <2>5 DEF TabRead, Stays
<1>13. UsedBy(t, d)
  BY <1>1 DEF UsedBy
<1>14. RefsFrom(p)
  <2>1. ASSUME NEW j \in Inums, UsedBy(u, j) PROVE UsedBy(t, j)
    BY <1>1, <1>3, <1>4, <1>6, <1>13, <2>1 DEF UsedBy, Held
  <2>. QED  BY <1>1, <1>3, <2>1, LocalRefs DEF user, Source
<1>15. Link(p, d)
  BY <1>1, <1>3, <1>4, <1>7, <1>12, <1>13 DEF Link, DiskTypes
<1>16. Ordinary(p) /\ ReadStep(p)
  BY <1>1, <1>3, <1>4, <1>6, <1>11, <1>12, <1>14, <1>15, LinkMove DEF NewPoints
<1>17. t.old = NoIno
  BY <1>4 DEF Thread, Inums0
<1>18. MadeIp(t) = NoIno /\ MadeIp(u) = i /\ Linked(t) = NoIno /\ Linked(u) = NoIno
  BY <1>1, <1>3, <1>6, <1>17 DEF MadeIp, Linked, Point, Putting
<1>19. \A j \in Inums : Held2(t, j) = 0 /\ Held2(u, j) = One(i, j)
  BY <1>4, <1>18 DEF Held2, One
<1>20. Entered({<<d, n>>}) /\ ents'[d][n] = NoIno
  BY <1>3, <1>4, <1>5 DEF Entered, DiskTypes, Entries
<1>21. ASSUME NEW j \in Inums
       PROVE  dinode'[j].nlink - Count(Claim', j) = dinode[j].nlink - Count(Claim, j)
  <2>1. PICK a, b, m, l, c : /\ a = Count(Claim, j) /\ b = Count(Claim', j)
                             /\ m = dinode[j].nlink /\ l = dinode'[j].nlink
                             /\ c = (IF j = d THEN k ELSE 0)
    OBVIOUS
  <2>2. a \in Nat /\ b \in Nat /\ m \in Int /\ c \in {0, 1}
    BY <1>4, <1>9, <2>1, ClaimNats DEF DiskTypes, Inode
  <2>3. l = m - c
    BY <1>3, <1>4, <1>10, <2>1, <2>2 DEF DiskTypes
  <2>4. PICK x, y : x = UpLink(d, n) /\ y = UpLink(d, n)'
    OBVIOUS
  <2>5. y = NoIno
    BY <1>4, <1>20, <2>4 DEF UpLink
  <2>6. x = IF dinode[i].type = "dir" THEN d ELSE NoIno
    BY <1>4, <1>5, <2>4 DEF UpLink
  <2>7. One(x, j) = c /\ One(y, j) = 0
    BY <1>4, <1>9, <2>1, <2>5, <2>6 DEF ParentLink, One
  <2>8. One(ents[d][n], j) = One(i, j) /\ One(ents'[d][n], j) = 0
    BY <1>4, <1>5, <1>20 DEF One
  <2>9. Count(Claim', j) =
          Count(Claim, j) - Held2(th[p], j) + Held2(th'[p], j)
          - One(ents[d][n], j) + One(ents'[d][n], j) - One(UpLink(d, n), j) + One(UpLink(d, n)', j)
    BY <1>4, <1>5, <1>6, <1>11, <1>20, EntryClaims
  <2>10. b = a - 0 + One(i, j) - One(i, j) + 0 - c + 0
    BY <1>1, <1>19, <2>1, <2>4, <2>7, <2>8, <2>9
  <2>11. b = a - c
    BY <2>2, <2>10 DEF One
  <2>. QED  BY <2>1, <2>2, <2>3, <2>11
<1>22. Balanced
  BY <1>21 DEF Balanced
<1>. QED  BY <1>16, <1>22

LEMMA FewerClaims ==
  ASSUME NEW p \in Procs, Others(p), TypesSame, NLinksSame, DiskTypes, NoIno \notin Inums,
         MadeIp(th'[p]) = MadeIp(th[p]), Linked(th'[p]) = Linked(th[p]),
         \A d \in Inums, n \in Names : ents'[d][n] \in {ents[d][n], NoIno}
  PROVE  Grows
<1>1. ASSUME NEW j \in Inums
      PROVE  dinode'[j].nlink - Count(Claim', j) >= dinode[j].nlink - Count(Claim, j)
  <2>1. PICK F, G : F = Claim /\ G = Claim'
    OBVIOUS
  <2>0. ClaimShape'
    BY ClaimAt, PTL
  <2>2. ClaimShape /\ ClaimShape'
    BY <2>0, ClaimAt
  <2>3. DOMAIN F = Claims /\ DOMAIN G = Claims /\ Finite(F) /\ Finite(G)
    BY <2>1, ClaimsFinite DEF Finite, Claim
  <2>4. ASSUME NEW h \in Claims, G[h] = j PROVE F[h] = j
    <3>1. CASE \E d \in Inums, n \in Names : h = <<<<d, n>>, "entry">>
      <4>1. PICK d \in Inums, n \in Names : h = <<<<d, n>>, "entry">>
        BY <3>1
      <4>2. F[h] = ents[d][n] /\ G[h] = ents'[d][n]
        BY <2>1, <2>2, <4>1 DEF ClaimShape
      <4>. QED  BY <2>4, <4>2
    <3>2. CASE \E d \in Inums, n \in Names : h = <<<<d, n>>, "up">>
      <4>1. PICK d \in Inums, n \in Names : h = <<<<d, n>>, "up">>
        BY <3>2
      <4>2. F[h] = UpLink(d, n) /\ G[h] = UpLink(d, n)'
        BY <2>1, <2>2, <4>1 DEF ClaimShape
      <4>3. ents'[d][n] # NoIno
        BY <2>4, <4>2 DEF UpLink
      <4>4. PICK i : i = ents[d][n] /\ i = ents'[d][n]
        BY <4>3
      <4>5. UpLink(d, n)' = UpLink(d, n)
        BY <4>4 DEF UpLink, TypesSame
      <4>. QED  BY <2>4, <4>2, <4>5
    <3>3. CASE \E q \in Procs : h = <<q, "ip">> \/ h = <<q, "old">>
      <4>1. PICK q \in Procs : h = <<q, "ip">> \/ h = <<q, "old">>
        BY <3>3
      <4>2. MadeIp(th'[q]) = MadeIp(th[q]) /\ Linked(th'[q]) = Linked(th[q])
        BY DEF Others
      <4>. QED  BY <2>1, <2>2, <2>4, <4>1, <4>2 DEF ClaimShape
    <3>4. CASE h = <<Nobody, "root">>
      BY <2>1, <2>2, <2>4, <3>4 DEF ClaimShape
    <3>. QED  BY <3>1, <3>2, <3>3, <3>4, ClaimCases
  <2>5. PICK A, B : A = {h \in DOMAIN F : F[h] = j} /\ B = {h \in DOMAIN G : G[h] = j}
    OBVIOUS
  <2>6. B \subseteq A /\ IsFiniteSet(A)
    BY <2>3, <2>4, <2>5, CountType
  <2>7. Cardinality(B) <= Cardinality(A)
    BY <2>6, FS_Subset
  <2>8. Count(G, j) <= Count(F, j)
    BY <2>5, <2>7 DEF Count
  <2>9. PICK a, b, m : a = Count(F, j) /\ b = Count(G, j) /\ m = dinode[j].nlink
    OBVIOUS
  <2>10. a \in Nat /\ b \in Nat /\ m \in Int /\ m = dinode'[j].nlink
    BY <2>1, <2>9, ClaimNats DEF DiskTypes, Inode, NLinksSame
  <2>11. m - b >= m - a
    BY <2>8, <2>9, <2>10
  <2>. QED  BY <2>1, <2>9, <2>10, <2>11
<1>. QED  BY <1>1 DEF Grows

LEMMA IputTruncLinks ==
  ASSUME CInv, ~panicked, NEW p \in Procs, IputTrunc(p)
  PROVE  Ordinary(p) /\ ReadStep(p) /\ Grows /\ (Empty(th[p].put) => Balanced)
<1>1. PICK t, u, i : t = th[p] /\ u = th'[p] /\ i = th[p].put
  OBVIOUS
<1>2. /\ t.pc = "itrunc" /\ itrunc(i) /\ th' = [th EXCEPT ![p].pc = "ifree"] /\ UNCHANGED <<ilk, user>>
  BY <1>1 DEF IputTrunc
<1>3. /\ th \in [Procs -> Thread] /\ t \in Thread /\ DiskTypes /\ itab \in [Inums -> Entry]
      /\ NoIno \notin Inums /\ i \in Inums
  BY <1>1, <1>2, FilesAssumption DEF CInv, FInv, TypeInv, ControlInv, ThreadOk, Putting
<1>4. HasLock(th[p], i) /\ itab[i].d = dinode[i] /\ dinode[i] \in Inode
  <2>1. HasLock(th[p], i) /\ th[p].pc # "invalid"
    BY <1>1, <1>2 DEF HasLock, Freeing
  <2>. QED  BY <1>3, <2>1, LockedTyped DEF DiskTypes
<1>5. PICK d : d = [itab[i].d EXCEPT !.addrs = {}, !.size = 0]
  OBVIOUS
<1>6. Update(i, d) /\ d.type = dinode[i].type /\ d.nlink = dinode[i].nlink
  BY <1>2, <1>4, <1>5 DEF itrunc, Inode
<1>7. TypesSame /\ NLinksSame /\ TabRead
  BY <1>3, <1>6, UpdatePlain
<1>8. \A e \in Inums, n \in Names : ents'[e][n] \in {ents[e][n], NoIno}
  BY <1>1, <1>2, <1>3, <1>4, ItruncTree
<1>9. /\ u.pc = "ifree" /\ u.ret = t.ret /\ u.ip = t.ip /\ u.dp = t.dp /\ u.old = t.old /\ u.put = t.put
      /\ Others(p)
  BY <1>1, <1>2, <1>3 DEF Thread, Others
<1>10. RefsFrom(p)
  <2>1. ASSUME NEW j \in Inums, UsedBy(u, j) PROVE UsedBy(t, j)
    BY <1>2, <1>9, <2>1 DEF UsedBy, Held
  <2>. QED  BY <1>1, <1>2, <2>1, LocalRefs DEF user, Source
<1>11. Ordinary(p)
  BY <1>1, <1>2, <1>7, <1>9, <1>10 DEF Ordinary, NLinksSame
<1>12. ReadStep(p)
  BY <1>1, <1>7, <1>9 DEF ReadStep, TabRead, NLinksSame
<1>13. MadeIp(u) = MadeIp(t) /\ Linked(u) = Linked(t)
  BY <1>2, <1>9 DEF MadeIp, Linked, Point, Putting
<1>14. Grows
  BY <1>1, <1>3, <1>7, <1>8, <1>9, <1>13, FewerClaims
<1>15. ASSUME Empty(i) PROVE Balanced
  <2>1. \A e \in Inums \ {i} : ents'[e] = ents[e]
    BY <1>2, <1>3 DEF itrunc, DiskTypes
  <2>2. \A e \in Inums, n \in Names : ents'[e][n] = ents[e][n]
    BY <1>3, <1>8, <1>15, <2>1 DEF Empty
  <2>3. SameClaims(p)
    BY <1>1, <1>13, <2>2 DEF SameClaims
  <2>. QED  BY <1>3, <1>7, <1>9, <2>3, SameGrows
<1>. QED  BY <1>1, <1>11, <1>12, <1>14, <1>15

LEMMA IputInvalidLinks ==
  ASSUME CInv, UseInv, ReadInv, NEW p \in Procs, IputInvalid(p)
  PROVE  Ordinary(p) /\ ReadInv' /\ Balanced
<1>1. PICK t, u, i : t = th[p] /\ u = th'[p] /\ i = th[p].put
  OBVIOUS
<1>2. /\ t.pc = "invalid" /\ itab' = [itab EXCEPT ![i].valid = FALSE]
      /\ th' = [th EXCEPT ![p].pc = "drop"] /\ UNCHANGED <<disk, user>>
  BY <1>1 DEF IputInvalid
<1>3. /\ th \in [Procs -> Thread] /\ t \in Thread /\ DiskTypes /\ itab \in [Inums -> Entry]
      /\ NoIno \notin Inums /\ i \in Inums
  BY <1>1, <1>2, FilesAssumption DEF CInv, FInv, TypeInv, ControlInv, ThreadOk, Putting
<1>4. /\ u.pc = "drop" /\ u.ret = t.ret /\ u.ip = t.ip /\ u.dp = t.dp /\ u.old = t.old /\ u.put = t.put
      /\ Others(p)
  BY <1>1, <1>2, <1>3 DEF Thread, Others
<1>5. RefsFrom(p)
  <2>1. ASSUME NEW j \in Inums, UsedBy(u, j) PROVE UsedBy(t, j)
    BY <1>2, <1>4, <2>1 DEF UsedBy, Held
  <2>. QED  BY <1>1, <1>2, <2>1, LocalRefs DEF user, Source
<1>6. TypesSame /\ NLinksSame /\ dinode' = dinode /\ ents' = ents
  BY <1>2, DiskSame DEF disk
<1>7. Ordinary(p)
  BY <1>1, <1>2, <1>4, <1>5, <1>6 DEF Ordinary, NLinksSame
<1>8. MadeIp(u) = MadeIp(t) /\ Linked(u) = Linked(t)
  BY <1>2, <1>4 DEF MadeIp, Linked, Point, Putting
<1>9. SameClaims(p)
  BY <1>1, <1>6, <1>8 DEF SameClaims
<1>10. Balanced
  BY <1>3, <1>4, <1>6, <1>9, SameGrows
<1>11. ASSUME NEW j \in Inums, itab'[j].ref > 0, ~itab'[j].valid, dinode'[j].type # "free"
       PROVE  dinode'[j].nlink >= 1 \/ Maker(j)'
  <2>1. Maker(j) => Maker(j)'
    BY <1>1, <1>2, <1>4 DEF Maker, Others
  <2>2. CASE j = i
    <3>1. dinode[i].type = "free" \/ Maker(i)
      BY <1>1, <1>2 DEF UseInv, ForgetInv
    <3>. QED  BY <1>6, <1>11, <2>1, <2>2, <3>1
  <2>3. CASE j # i
    <3>1. itab'[j] = itab[j]
      BY <1>2, <1>3, <2>3
    <3>2. dinode[j].nlink >= 1 \/ Maker(j)
      BY <1>6, <1>11, <3>1 DEF ReadInv
    <3>. QED  BY <1>6, <2>1, <3>2
  <2>. QED  BY <2>2, <2>3
<1>12. ReadInv'
  BY <1>11 DEF ReadInv
<1>. QED  BY <1>7, <1>10, <1>12

-----------------------------------------------------------------------------
(* Steps that give out an inode, or free one *)

\* No step but these two gives a link to an inode without one, or takes one away unclaimed.
LEMMA KeptBalanced ==
  ASSUME NLinksSame, Claim' = Claim
  PROVE  Balanced
BY DEF Balanced, NLinksSame

\* No entry or pending link names an inode without links.
LEMMA Unnamed ==
  ASSUME LinkInv, DiskTypes, NEW i \in Inums, dinode[i].nlink = 0
  PROVE  \A d \in Inums, n \in Names : ents[d][n] # i
<1>1. ASSUME NEW d \in Inums, NEW n \in Names, ents[d][n] = i PROVE FALSE
  <2>1. dinode[ents[d][n]].nlink >= 1
    BY <1>1, EntryLink
  <2>. QED  BY <1>1, <2>1
<1>. QED  BY <1>1

\* The one reference to an inode is that of put.
LEMMA OneRef ==
  ASSUME FInv, NEW p \in Procs, NEW i \in Inums, th[p].put = i, itab[i].ref = 1
  PROVE  /\ \A q \in Procs \ {p} : ~Refers(th[q], i)
         /\ Held(th[p], "ip") # i /\ th[p].dp # i /\ th[p].old # i
         /\ \A q \in Procs : cwd[q] # i
         /\ \A f \in 1..NFILE : FileIno(file[f]) # i
<1>1. PICK F, k : F = Ptr /\ k = <<p, "put">>
  OBVIOUS
<1>2. k \in Places /\ F[k] = i
  BY <1>1, PtrAt DEF PtrShape, Places, Vars
<1>3. ASSUME NEW l \in Places, F[l] = i PROVE l = k
  BY <1>1, <1>2, <1>3, TwoRefs
<1>4. ASSUME NEW q \in Procs, NEW v \in {"ip", "dp", "old", "put", "cwd"}, F[<<q, v>>] = i
      PROVE  q = p /\ v = "put"
  <2>1. <<q, v>> \in Places
    BY DEF Places, Vars
  <2>2. <<q, v>> = k
    BY <1>3, <1>4, <2>1
  <2>. QED  BY <1>1, <2>2
<1>5. ASSUME NEW f \in 1..NFILE, F[<<f, "file">>] = i PROVE FALSE
  <2>1. <<f, "file">> \in Places
    BY DEF Places
  <2>2. <<f, "file">> = k
    BY <1>3, <1>5, <2>1
  <2>. QED  BY <1>1, <2>2
<1>6. ASSUME NEW q \in Procs \ {p} PROVE ~Refers(th[q], i)
  BY <1>1, <1>4, PtrAt DEF PtrShape, Refers
<1>7. Held(th[p], "ip") # i /\ th[p].dp # i /\ th[p].old # i
  BY <1>1, <1>4, PtrAt DEF PtrShape
<1>8. \A q \in Procs : cwd[q] # i
  BY <1>1, <1>4, PtrAt DEF PtrShape
<1>9. \A f \in 1..NFILE : FileIno(file[f]) # i
  BY <1>1, <1>5, PtrAt DEF PtrShape
<1>. QED  BY <1>6, <1>7, <1>8, <1>9

\* What the end of iput() finds when it is about to free an inode.
LEMMA LastAlone ==
  ASSUME CInv, ~panicked, NEW p \in Procs, NEW i \in Inums, th[p].pc = "iput", th[p].put = i, LastUse(i)
  PROVE  dinode[i].nlink = 0 /\ dinode[i].type # "free"
<1>1. ilk[i] = Nobody
  BY LastFree
<1>2. itab[i].ref > 0 /\ itab[i].valid /\ itab[i].d.nlink = 0
  BY DEF LastUse
<1>3. itab[i].d = dinode[i] /\ itab[i].d.type # "free"
  BY <1>1, <1>2, LoadedTyped
<1>. QED  BY <1>2, <1>3

\* A step of process p that changes only inode k, and the use of it.
Special(p, k) ==
  /\ Others(p) /\ cwd' = cwd /\ file' = file
  /\ \A j \in Inums : UsedBy(th'[p], j) => UsedBy(th[p], j) \/ j = k
  /\ \A j \in Inums : Owns(th'[p], j) => j = k
  /\ Owns(th'[p], k) => Alone(p, k)'
  /\ \A j \in Inums \ {k} :
       /\ dinode'[j] = dinode[j] /\ itab'[j] = itab[j]
       /\ Maker(j) => Maker(j)'
  /\ \A q \in Procs \ {p} :
       /\ ~Owns(th[q], k)
       /\ th[q].pc \in NewPoints => th[q].ip # k
       /\ th[q].pc = "invalid" /\ th[q].put = k => dinode'[k].type = "free" \/ Maker(k)'
  /\ InUse(k)' => dinode'[k].type # "free"
  /\ dinode'[k].type = "free" => dinode'[k].nlink = 0
  /\ th'[p].pc \in NewPoints => dinode'[th'[p].ip].type = NewType(p)'
  /\ th'[p].pc \in {"dirlink", "createfail"} => dinode'[th'[p].ip].nlink = 1
  /\ th'[p].pc = "invalid" => dinode'[th'[p].put].type = "free"
  /\ itab'[k].ref > 0 /\ ~itab'[k].valid /\ dinode'[k].type # "free" => dinode'[k].nlink >= 1 \/ Maker(k)'

LEMMA SpecialUse ==
  ASSUME CInv, UseInv, ReadInv, NEW p \in Procs, NEW k \in Inums, Special(p, k)
  PROVE  UseInv' /\ ReadInv'
<1>1. /\ Others(p) /\ cwd' = cwd /\ file' = file
      /\ \A j \in Inums : UsedBy(th'[p], j) => UsedBy(th[p], j) \/ j = k
      /\ \A j \in Inums \ {k} : dinode'[j] = dinode[j] /\ itab'[j] = itab[j]
  BY DEF Special
<1>2. ASSUME NEW q \in Procs, NEW j \in Inums \ {k}, UsedBy(th'[q], j) PROVE UsedBy(th[q], j)
  BY <1>1, <1>2 DEF Others
<1>3. TypedInv'
  <2>1. ASSUME NEW j \in Inums, InUse(j)' PROVE dinode'[j].type # "free"
    <3>1. CASE j = k
      BY <2>1, <3>1 DEF Special
    <3>2. CASE j # k
      <4>1. InUse(j)
        BY <1>1, <1>2, <2>1, <3>2 DEF InUse
      <4>. QED  BY <1>1, <3>2, <4>1 DEF UseInv, TypedInv
    <3>. QED  BY <3>1, <3>2
  <2>2. ASSUME NEW j \in Inums, dinode'[j].type = "free" PROVE dinode'[j].nlink = 0
    <3>1. CASE j = k
      BY <2>2, <3>1 DEF Special
    <3>2. CASE j # k
      BY <1>1, <2>2, <3>2 DEF UseInv, TypedInv
    <3>. QED  BY <3>1, <3>2
  <2>. QED  BY <2>1, <2>2 DEF TypedInv
<1>4. ASSUME NEW q \in Procs, NEW j \in Inums, Owns(th'[q], j) PROVE Alone(q, j)'
  <2>1. CASE q = p
    BY <1>4, <2>1 DEF Special
  <2>2. CASE q # p
    <3>1. th'[q] = th[q]
      BY <1>1, <2>2 DEF Others
    <3>2. Alone(q, j) /\ j # k
      BY <1>4, <2>2, <3>1 DEF UseInv, AloneInv, Special
    <3>3. ASSUME NEW r \in Procs \ {q} PROVE ~UsedBy(th'[r], j) /\ ~Owns(th'[r], j)
      <4>1. ~UsedBy(th[r], j) /\ ~Owns(th[r], j)
        BY <3>2 DEF Alone
      <4>2. ~UsedBy(th'[r], j)
        BY <1>2, <3>2, <4>1
      <4>3. CASE r = p
        BY <3>2, <4>2, <4>3 DEF Special
      <4>4. CASE r # p
        BY <1>1, <4>1, <4>2, <4>4 DEF Others
      <4>. QED  BY <4>3, <4>4
    <3>4. /\ th[q].pc = "createinit" \/ ~UsedBy(th[q], j)
          /\ \A r \in Procs : cwd[r] # j
          /\ \A f \in 1..NFILE : FileIno(file[f]) # j
          /\ dinode[j].nlink = 0 /\ dinode[j].type # "free"
      BY <3>2 DEF Alone
    <3>. QED  BY <1>1, <3>1, <3>2, <3>3, <3>4 DEF Alone
  <2>. QED  BY <2>1, <2>2
<1>5. AloneInv'
  BY <1>4 DEF AloneInv
<1>6. MadeInv'
  <2>1. ASSUME NEW q \in Procs, th'[q].pc \in NewPoints
        PROVE  /\ dinode'[th'[q].ip].type = NewType(q)'
               /\ th'[q].pc \in {"dirlink", "createfail"} => dinode'[th'[q].ip].nlink = 1
    <3>1. CASE q = p
      BY <2>1, <3>1 DEF Special
    <3>2. CASE q # p
      <4>1. th'[q] = th[q]
        BY <1>1, <3>2 DEF Others
      <4>2. PICK i : i = th[q].ip
        OBVIOUS
      <4>3. i \in Inums \ {k}
        BY <2>1, <3>2, <4>1, <4>2, PointRefs DEF Special, NewPoints, Points, HaveIp
      <4>4. dinode'[i] = dinode[i]
        BY <1>1, <4>3
      <4>. QED  BY <2>1, <4>1, <4>2, <4>4 DEF UseInv, MadeInv, NewType, NewPoints
    <3>. QED  BY <3>1, <3>2
  <2>. QED  BY <2>1 DEF MadeInv, NewPoints
<1>7. ForgetInv'
  <2>1. ASSUME NEW q \in Procs, NEW j, th'[q].pc = "invalid", j = th'[q].put
        PROVE  dinode'[j].type = "free" \/ Maker(j)'
    <3>1. CASE q = p
      BY <2>1, <3>1 DEF Special
    <3>2. CASE q # p
      <4>1. th'[q] = th[q]
        BY <1>1, <3>2 DEF Others
      <4>2. j \in Inums /\ (dinode[j].type = "free" \/ Maker(j))
        BY <2>1, <4>1 DEF UseInv, ForgetInv, CInv, FInv, ControlInv, ThreadOk, Putting
      <4>3. CASE j = k
        BY <2>1, <3>2, <4>1, <4>3 DEF Special
      <4>4. CASE j # k
        BY <4>2, <4>4 DEF Special
      <4>. QED  BY <4>3, <4>4
    <3>. QED  BY <3>1, <3>2
  <2>. QED  BY <2>1 DEF ForgetInv, Maker
<1>8. ReadInv'
  <2>1. ASSUME NEW j \in Inums, itab'[j].ref > 0, ~itab'[j].valid, dinode'[j].type # "free"
        PROVE  dinode'[j].nlink >= 1 \/ Maker(j)'
    <3>1. CASE j = k
      BY <2>1, <3>1 DEF Special
    <3>2. CASE j # k
      <4>1. dinode[j].nlink >= 1 \/ Maker(j)
        BY <1>1, <2>1, <3>2 DEF ReadInv
      <4>. QED  BY <1>1, <3>2, <4>1 DEF Special
    <3>. QED  BY <3>1, <3>2
  <2>. QED  BY <2>1 DEF ReadInv
<1>. QED  BY <1>3, <1>5, <1>6, <1>7, <1>8 DEF UseInv

LEMMA IputLastLinks ==
  ASSUME CInv, UseInv, ReadInv, ~panicked, NEW p \in Procs, IputLast(p)
  PROVE  UseInv' /\ ReadInv' /\ Balanced
<1>1. PICK t, u, i : t = th[p] /\ u = th'[p] /\ i = th[p].put
  OBVIOUS
<1>2. /\ t.pc = "iput" /\ LastUse(i) /\ th' = [th EXCEPT ![p].pc = "itrunc"]
      /\ UNCHANGED <<disk, itab, user>>
  BY <1>1 DEF IputLast
<1>3. th \in [Procs -> Thread] /\ t \in Thread /\ i \in Inums /\ NoIno \notin Inums
  BY <1>1, <1>2, FilesAssumption DEF CInv, FInv, TypeInv, ControlInv, ThreadOk, Putting
<1>4. /\ u.pc = "itrunc" /\ u.ret = t.ret /\ u.ip = t.ip /\ u.dp = t.dp /\ u.old = t.old /\ u.put = i
      /\ Others(p)
  BY <1>1, <1>2, <1>3 DEF Thread, Others
<1>5. dinode' = dinode /\ ents' = ents /\ itab' = itab /\ cwd' = cwd /\ file' = file
  BY <1>2 DEF disk, user
<1>6. ASSUME NEW j, UsedBy(u, j) PROVE UsedBy(t, j)
  BY <1>2, <1>4, <1>6 DEF UsedBy, Held
<1>7. dinode[i].nlink = 0 /\ dinode[i].type # "free"
  BY <1>1, <1>2, <1>3, LastAlone
<1>8. /\ \A q \in Procs \ {p} : ~Refers(th[q], i)
      /\ Held(th[p], "ip") # i /\ th[p].dp # i /\ th[p].old # i
      /\ \A q \in Procs : cwd[q] # i
      /\ \A f \in 1..NFILE : FileIno(file[f]) # i
  BY <1>1, <1>2, <1>3, OneRef DEF CInv, LastUse
<1>9. UsedBy(t, i)
  BY <1>1, <1>2 DEF UsedBy
<1>10. ASSUME NEW q \in Procs \ {p}
       PROVE  /\ th'[q] = th[q] /\ ~UsedBy(th[q], i) /\ ~Owns(th[q], i)
              /\ th[q].pc \in NewPoints => th[q].ip # i
              /\ ~(th[q].pc = "invalid" /\ th[q].put = i)
  <2>1. th'[q] = th[q]
    BY <1>4 DEF Others
  <2>2. ~Refers(th[q], i) /\ ~UsedBy(th[q], i)
    BY <1>8 DEF Refers, UsedBy
  <2>3. ~Owns(th[q], i)
    BY <1>1, <1>3, <1>9 DEF UseInv, AloneInv, Alone
  <2>4. th[q].pc \in NewPoints => th[q].ip # i
    BY <2>2, <2>3 DEF Refers, Held, Owns, NewPoints
  <2>5. ~(th[q].pc = "invalid" /\ th[q].put = i)
    BY <2>2 DEF Refers
  <2>. QED  BY <2>1, <2>2, <2>3, <2>4, <2>5
<1>11. Alone(p, i)'
  <2>1. ~UsedBy(u, i)
    BY <1>1, <1>2, <1>4, <1>8 DEF UsedBy, Held
  <2>. QED  BY <1>1, <1>5, <1>7, <1>8, <1>10, <2>1 DEF Alone
<1>12. \A j \in Inums : Maker(j) => Maker(j)'
  BY <1>1, <1>2, <1>4 DEF Maker, Others
<1>13. ~(itab[i].ref > 0 /\ ~itab[i].valid)
  BY <1>2 DEF LastUse
<1>14. \A j \in Inums : Owns(u, j) => j = i
  BY <1>4 DEF Owns
<1>15. Special(p, i)
  BY <1>1, <1>4, <1>5, <1>6, <1>7, <1>10, <1>11, <1>12, <1>13, <1>14 DEF Special, NewPoints
<1>16. Balanced
  <2>1. MadeIp(u) = MadeIp(t) /\ Linked(u) = Linked(t)
    BY <1>2, <1>4 DEF MadeIp, Linked, Point, Putting
  <2>2. SameClaims(p) /\ TypesSame /\ NLinksSame
    BY <1>1, <1>5, <2>1, DiskSame DEF SameClaims
  <2>. QED  BY <1>4, <2>2, SameGrows
<1>. QED  BY <1>3, <1>15, <1>16, SpecialUse

\* Nobody but the process that owns an inode has to do with it.
LEMMA OwnedApart ==
  ASSUME AloneInv, NEW p \in Procs, NEW i \in Inums, Owns(th[p], i), NEW q \in Procs \ {p}
  PROVE  /\ ~UsedBy(th[q], i) /\ ~Owns(th[q], i)
         /\ th[q].pc \in NewPoints => th[q].ip # i
<1>1. ~UsedBy(th[q], i) /\ ~Owns(th[q], i)
  BY DEF AloneInv, Alone
<1>2. th[q].pc \in NewPoints => th[q].ip # i
  BY <1>1 DEF UsedBy, Held, Owns, NewPoints
<1>. QED  BY <1>1, <1>2

LEMMA IputFreeLinks ==
  ASSUME CInv, UseInv, ReadInv, LinkInv, NEW p \in Procs, IputFree(p)
  PROVE  UseInv' /\ ReadInv' /\ Balanced
<1>1. PICK t, u, i, d : /\ t = th[p] /\ u = th'[p] /\ i = th[p].put
                        /\ d = [itab[i].d EXCEPT !.type = "free"]
  OBVIOUS
<1>2. /\ t.pc = "ifree" /\ Update(i, d) /\ th' = [th EXCEPT ![p].pc = "invalid"]
      /\ UNCHANGED <<ents, user>>
  BY <1>1 DEF IputFree
<1>3. /\ th \in [Procs -> Thread] /\ t \in Thread /\ i \in Inums /\ NoIno \notin Inums
      /\ DiskTypes /\ itab \in [Inums -> Entry]
  BY <1>1, <1>2, FilesAssumption DEF CInv, FInv, TypeInv, ControlInv, ThreadOk, Putting
<1>4. /\ u.pc = "invalid" /\ u.ret = t.ret /\ u.ip = t.ip /\ u.dp = t.dp /\ u.old = t.old /\ u.put = i
      /\ Others(p)
  BY <1>1, <1>2, <1>3 DEF Thread, Others
<1>5. Owns(th[p], i) /\ Alone(p, i) /\ AloneInv
  BY <1>1, <1>2, <1>3 DEF UseInv, AloneInv, Owns
<1>6. dinode[i].nlink = 0 /\ dinode[i].type # "free" /\ ~UsedBy(t, i)
  BY <1>1, <1>2, <1>5 DEF Alone
<1>7. itab[i].d = dinode[i] /\ dinode[i] \in Inode
  <2>1. itab[i].ref > 0 /\ itab[i].valid /\ ilk[i] = p
    <3>1. HasLock(th[p], i)
      BY <1>1, <1>2 DEF HasLock, Freeing
    <3>2. ilk[i] = p /\ p # Nobody
      BY <1>3, <3>1, FilesAssumption DEF CInv, LockInv
    <3>. QED  BY <1>3, <3>1, <3>2, LockedRef DEF CInv, ValidInv
  <2>2. ~BeingFreed(i)
    BY <1>1, <1>2, <1>3, <2>1, NotFreed
  <2>. QED  BY <1>3, <2>1, <2>2 DEF CInv, CacheInv, Fresh, DiskTypes
<1>8. d.type = "free" /\ d.nlink = 0
  BY <1>1, <1>6, <1>7 DEF Inode
<1>9. /\ dinode'[i].type = "free" /\ dinode'[i].nlink = 0 /\ cwd' = cwd /\ file' = file
      /\ \A j \in Inums \ {i} : dinode'[j] = dinode[j] /\ itab'[j] = itab[j]
  BY <1>2, <1>3, <1>8 DEF Update, DiskTypes, user
<1>10. ASSUME NEW j, UsedBy(u, j) PROVE UsedBy(t, j)
  BY <1>2, <1>4, <1>10 DEF UsedBy, Held
<1>11. ASSUME NEW q \in Procs \ {p}
       PROVE  /\ th'[q] = th[q] /\ ~UsedBy(th[q], i) /\ ~Owns(th[q], i)
              /\ th[q].pc \in NewPoints => th[q].ip # i
  <2>1. th'[q] = th[q]
    BY <1>4 DEF Others
  <2>. QED  BY <1>3, <1>5, <2>1, OwnedApart
<1>12. ~InUse(i)'
  <2>1. ASSUME NEW q \in Procs PROVE ~UsedBy(th'[q], i)
    BY <1>1, <1>6, <1>10, <1>11
  <2>2. (\A q \in Procs : cwd[q] # i) /\ \A f \in 1..NFILE : FileIno(file[f]) # i
    BY <1>5 DEF Alone
  <2>. QED  BY <1>9, <2>1, <2>2 DEF InUse
<1>13. \A j \in Inums : Maker(j) => Maker(j)'
  BY <1>1, <1>2, <1>4 DEF Maker, Others
<1>14. \A j \in Inums : ~Owns(u, j)
  BY <1>4 DEF Owns
<1>15. Special(p, i)
  BY <1>1, <1>3, <1>4, <1>9, <1>10, <1>11, <1>12, <1>13, <1>14 DEF Special, NewPoints
<1>16. NLinksSame
  BY <1>6, <1>9 DEF NLinksSame
<1>17. Claim' = Claim
  <2>1. MadeIp(u) = MadeIp(t) /\ Linked(u) = Linked(t)
    BY <1>2, <1>4 DEF MadeIp, Linked, Point, Putting
  <2>2. \A q \in Procs : MadeIp(th'[q]) = MadeIp(th[q]) /\ Linked(th'[q]) = Linked(th[q])
    BY <1>1, <1>4, <2>1 DEF Others
  <2>3. \A e \in Inums, n \in Names : ents[e][n] # i
    BY <1>3, <1>6, Unnamed
  <2>4. ASSUME NEW e \in Inums, NEW n \in Names
        PROVE  /\ ents'[e][n] = ents[e][n]
               /\ ents[e][n] \in Inums => dinode'[ents[e][n]].type = dinode[ents[e][n]].type
    BY <1>2, <1>9, <2>3
  <2>. QED  BY <2>2, <2>4, ClaimKept
<1>18. Balanced
  BY <1>16, <1>17, KeptBalanced
<1>. QED  BY <1>3, <1>15, <1>18, SpecialUse

LEMMA IallocLinks ==
  ASSUME CInv, UseInv, ReadInv, LinkInv, NEW p \in Procs, Ialloc(p)
  PROVE  UseInv' /\ ReadInv' /\ Balanced
<1>1. PICK i \in Inums :
        /\ th[p].pc = "ialloc" /\ dinode[i].type = "free"
        /\ dinode' = [dinode EXCEPT ![i] = [NoInode EXCEPT !.type = NewType(p)]]
        /\ th' = [th EXCEPT ![p].pc = "iget", ![p].ip = i]
        /\ UNCHANGED <<bitmap, ents, itab, ilk, user>>
  BY DEF Ialloc
<1>2. PICK t, u, d : t = th[p] /\ u = th'[p] /\ d = [NoInode EXCEPT !.type = NewType(p)]
  OBVIOUS
<1>3. th \in [Procs -> Thread] /\ t \in Thread /\ NoIno \notin Inums /\ DiskTypes /\ t.ip \notin Inums
  BY <1>1, <1>2, PointRefs DEF Points, HaveIp
<1>4. /\ u.pc = "iget" /\ u.ret = t.ret /\ u.ip = i /\ u.dp = t.dp /\ u.old = t.old /\ u.put = t.put
      /\ u.call = t.call /\ Others(p)
  BY <1>1, <1>2, <1>3 DEF Thread, Others
<1>5. d.type = NewType(p) /\ d.nlink = 0 /\ d.type # "free"
  BY <1>2 DEF NoInode, NewType
<1>6. NewType(p)' = NewType(p)
  BY <1>2, <1>4 DEF NewType
<1>7. /\ dinode'[i] = d /\ \A j \in Inums \ {i} : dinode'[j] = dinode[j]
      /\ itab' = itab /\ cwd' = cwd /\ file' = file /\ ents' = ents
  BY <1>1, <1>2, <1>3 DEF DiskTypes, user
<1>8. dinode[i].nlink = 0 /\ ~InUse(i)
  BY <1>1 DEF UseInv, TypedInv
<1>9. ASSUME NEW j, UsedBy(u, j) PROVE UsedBy(t, j) \/ j \notin Inums
  BY <1>1, <1>2, <1>3, <1>4, <1>9 DEF UsedBy, Held
<1>10. ASSUME NEW q \in Procs \ {p}
       PROVE  /\ th'[q] = th[q] /\ ~UsedBy(th[q], i) /\ ~Owns(th[q], i)
              /\ th[q].pc \in NewPoints => th[q].ip # i
  <2>1. th'[q] = th[q]
    BY <1>4 DEF Others
  <2>2. ~UsedBy(th[q], i)
    BY <1>8 DEF InUse
  <2>3. ~Owns(th[q], i)
    BY <1>1 DEF UseInv, AloneInv, Alone
  <2>4. th[q].pc \in NewPoints => th[q].ip # i
    BY <2>2, <2>3 DEF UsedBy, Held, Owns, NewPoints
  <2>. QED  BY <2>1, <2>2, <2>3, <2>4
<1>11. ~UsedBy(t, i) /\ ~UsedBy(u, i)
  BY <1>2, <1>3, <1>8, <1>9 DEF InUse
<1>12. (\A q \in Procs : cwd[q] # i) /\ \A f \in 1..NFILE : FileIno(file[f]) # i
  BY <1>8 DEF InUse
<1>13. Alone(p, i)'
  BY <1>2, <1>5, <1>7, <1>10, <1>11, <1>12 DEF Alone
<1>14. Maker(i)' /\ \A j \in Inums : Maker(j) => Maker(j)'
  BY <1>1, <1>2, <1>4 DEF Maker, Others
<1>15. \A j \in Inums : Owns(u, j) => j = i
  BY <1>4 DEF Owns
<1>16. Special(p, i)
  BY <1>2, <1>4, <1>5, <1>6, <1>7, <1>9, <1>10, <1>13, <1>14, <1>15 DEF Special, NewPoints
<1>17. NLinksSame
  BY <1>5, <1>7, <1>8 DEF NLinksSame
<1>18. Claim' = Claim
  <2>1. MadeIp(u) = MadeIp(t) /\ Linked(u) = Linked(t)
    BY <1>1, <1>2, <1>4 DEF MadeIp, Linked, Point, Putting
  <2>2. \A q \in Procs : MadeIp(th'[q]) = MadeIp(th[q]) /\ Linked(th'[q]) = Linked(th[q])
    BY <1>2, <1>4, <2>1 DEF Others
  <2>3. \A e \in Inums, n \in Names : ents[e][n] # i
    BY <1>3, <1>8, Unnamed
  <2>4. ASSUME NEW e \in Inums, NEW n \in Names
        PROVE  /\ ents'[e][n] = ents[e][n]
               /\ ents[e][n] \in Inums => dinode'[ents[e][n]].type = dinode[ents[e][n]].type
    BY <1>7, <2>3
  <2>. QED  BY <2>2, <2>4, ClaimKept
<1>19. Balanced
  BY <1>17, <1>18, KeptBalanced
<1>. QED  BY <1>16, <1>19, SpecialUse

LEMMA IallocIgetLinks ==
  ASSUME CInv, UseInv, ReadInv, NEW p \in Procs, IallocIget(p)
  PROVE  UseInv' /\ ReadInv' /\ Balanced
<1>1. PICK t, u, i : t = th[p] /\ u = th'[p] /\ i = th[p].ip
  OBVIOUS
<1>2. /\ t.pc = "iget" /\ itab' = iget(itab, i) /\ th' = [th EXCEPT ![p].pc = "createinit"]
      /\ UNCHANGED <<disk, ilk, user>>
  BY <1>1 DEF IallocIget
<1>3. /\ th \in [Procs -> Thread] /\ t \in Thread /\ i \in Inums /\ NoIno \notin Inums
      /\ itab \in [Inums -> Entry]
  BY <1>1, <1>2, PointRefs DEF Points, HaveIp
<1>4. /\ u.pc = "createinit" /\ u.ret = t.ret /\ u.ip = i /\ u.dp = t.dp /\ u.old = t.old /\ u.put = t.put
      /\ u.call = t.call /\ Others(p)
  BY <1>1, <1>2, <1>3 DEF Thread, Others
<1>5. NewType(p)' = NewType(p)
  BY <1>1, <1>4 DEF NewType
<1>6. /\ dinode' = dinode /\ cwd' = cwd /\ file' = file /\ ents' = ents
      /\ \A j \in Inums \ {i} : itab'[j] = itab[j]
  BY <1>2, <1>3 DEF disk, user, iget
<1>7. Owns(th[p], i) /\ Alone(p, i) /\ AloneInv
  BY <1>1, <1>2, <1>3 DEF UseInv, AloneInv, Owns
<1>8. ASSUME NEW j, UsedBy(u, j) PROVE UsedBy(t, j) \/ j = i
  BY <1>2, <1>4, <1>8 DEF UsedBy, Held
<1>9. ASSUME NEW q \in Procs \ {p}
      PROVE  /\ th'[q] = th[q] /\ ~UsedBy(th[q], i) /\ ~Owns(th[q], i)
             /\ th[q].pc \in NewPoints => th[q].ip # i
  <2>1. th'[q] = th[q]
    BY <1>4 DEF Others
  <2>. QED  BY <1>3, <1>7, <2>1, OwnedApart
<1>10. /\ \A q \in Procs : cwd[q] # i
       /\ \A f \in 1..NFILE : FileIno(file[f]) # i
       /\ dinode[i].nlink = 0 /\ dinode[i].type # "free"
  BY <1>7 DEF Alone
<1>11. Alone(p, i)'
  BY <1>1, <1>4, <1>6, <1>9, <1>10 DEF Alone
<1>12. Maker(i)' /\ \A j \in Inums : Maker(j) => Maker(j)'
  BY <1>1, <1>2, <1>4 DEF Maker, Others
<1>13. \A j \in Inums : Owns(u, j) => j = i
  BY <1>4 DEF Owns
<1>14. dinode[i].type = NewType(p)
  BY <1>1, <1>2 DEF UseInv, MadeInv
<1>15. Special(p, i)
  BY <1>1, <1>4, <1>5, <1>6, <1>8, <1>9, <1>10, <1>11, <1>12, <1>13, <1>14 DEF Special, NewPoints
<1>16. Balanced
  <2>1. MadeIp(u) = MadeIp(t) /\ Linked(u) = Linked(t)
    BY <1>2, <1>4 DEF MadeIp, Linked, Point, Putting
  <2>2. SameClaims(p) /\ TypesSame /\ NLinksSame
    BY <1>1, <1>6, <2>1, DiskSame DEF SameClaims
  <2>. QED  BY <1>4, <2>2, SameGrows
<1>. QED  BY <1>3, <1>15, <1>16, SpecialUse

LEMMA CreateInitLinks ==
  ASSUME CInv, UseInv, ReadInv, ~panicked, NEW p \in Procs, CreateInit(p)
  PROVE  UseInv' /\ ReadInv' /\ Balanced
<1>1. PICK t, u, i : t = th[p] /\ u = th'[p] /\ i = th[p].ip
  OBVIOUS
<1>2. PICK full, new : /\ full = (NewType(p) = "dir" /\ Unused = {})
                       /\ new = IF NewType(p) = "dir" /\ ~full THEN {balloc} ELSE {}
  OBVIOUS
<1>3. PICK d, c : /\ d = [Loaded(i) EXCEPT !.nlink = 1, !.addrs = Loaded(i).addrs \cup new,
                                            !.size = IF new = {} THEN Loaded(i).size ELSE 2]
                  /\ c = IF full THEN "createfail" ELSE "dirlink"
  OBVIOUS
<1>4. /\ t.pc = "createinit" /\ ilk[i] = Nobody /\ Update(i, d)
      /\ ents' = IF new = {} THEN ents ELSE [ents EXCEPT ![i][".."] = th[p].dp]
      /\ th' = [th EXCEPT ![p].pc = c] /\ UNCHANGED user
  BY <1>1, <1>2, <1>3 DEF CreateInit, At, WaitsFor
<1>5. /\ th \in [Procs -> Thread] /\ t \in Thread /\ i \in Inums /\ NoIno \notin Inums /\ DiskTypes
      /\ itab \in [Inums -> Entry] /\ t.old \notin Inums
  BY <1>1, <1>4, PointRefs DEF Points, HaveIp, HaveOld
<1>6. /\ u.pc = c /\ u.ret = t.ret /\ u.ip = i /\ u.dp = t.dp /\ u.old = t.old /\ u.put = t.put
      /\ u.call = t.call /\ Others(p) /\ c \in {"createfail", "dirlink"}
  BY <1>1, <1>3, <1>4, <1>5 DEF Thread, Others
<1>7. NewType(p)' = NewType(p)
  BY <1>1, <1>6 DEF NewType
<1>8. Owns(th[p], i) /\ Alone(p, i) /\ AloneInv /\ dinode[i].type = NewType(p)
  BY <1>1, <1>4, <1>5 DEF UseInv, AloneInv, Owns, MadeInv
<1>9. dinode[i].nlink = 0 /\ dinode[i].type # "free"
  BY <1>8 DEF Alone
<1>10. Loaded(i) = dinode[i] /\ dinode[i] \in Inode
  <2>1. Refers(th[p], i)
    BY <1>1, <1>4 DEF Refers, Held
  <2>. QED  BY <1>4, <1>5, <2>1, FreeLoaded
<1>11. d.type = dinode[i].type /\ d.nlink = 1
  BY <1>3, <1>10 DEF Inode
<1>12. /\ dinode'[i] = d /\ cwd' = cwd /\ file' = file
       /\ \A j \in Inums \ {i} : dinode'[j] = dinode[j] /\ itab'[j] = itab[j]
  <2>1. \A j \in Inums \ {i} : itab'[j] = itab[j]
    BY <1>4, <1>5 DEF Update
  <2>2. dinode'[i] = d /\ \A j \in Inums \ {i} : dinode'[j] = dinode[j]
    BY <1>4, <1>5 DEF Update, DiskTypes
  <2>3. cwd' = cwd /\ file' = file
    BY <1>4 DEF user
  <2>. QED  BY <2>1, <2>2, <2>3
<1>0. itab'[i].valid
  <2>1. Update(i, d)
    BY <1>4
  <2>. QED  BY <1>5, <2>1, ReadUpdate
<1>13. ASSUME NEW j, UsedBy(u, j) PROVE UsedBy(t, j)
  <2>1. t.pc = "createinit" /\ u.pc \in {"createfail", "dirlink"}
    BY <1>4, <1>6
  <2>2. Held(u, "ip") = u.ip /\ Held(t, "ip") = t.ip
    BY <2>1 DEF Held
  <2>3. u.ip = j \/ u.dp = j \/ u.old = j
    BY <1>13, <2>1, <2>2 DEF UsedBy
  <2>4. u.ip = t.ip /\ u.dp = t.dp /\ u.old = t.old
    BY <1>1, <1>6
  <2>. QED  BY <2>2, <2>3, <2>4 DEF UsedBy
<1>14. ASSUME NEW q \in Procs \ {p}
       PROVE  /\ th'[q] = th[q] /\ ~Owns(th[q], i)
              /\ th[q].pc \in NewPoints => th[q].ip # i
              /\ ~(th[q].pc = "invalid" /\ th[q].put = i)
  <2>1. th'[q] = th[q]
    BY <1>6 DEF Others
  <2>2. ~(th[q].pc = "invalid" /\ th[q].put = i)
    <3>1. HasLock(th[q], i) => ilk[i] = q
      BY <1>5 DEF CInv, LockInv
    <3>. QED  BY <1>4, <3>1, FilesAssumption DEF HasLock, Freeing
  <2>. QED  BY <1>5, <1>8, <2>1, <2>2, OwnedApart
<1>15. ASSUME NEW j \in Inums \ {i}, Maker(j) PROVE Maker(j)'
  BY <1>1, <1>6, <1>15 DEF Maker, Others
<1>16. \A j \in Inums : ~Owns(u, j)
  BY <1>6 DEF Owns
<1>17. Special(p, i)
  BY <1>1, <1>5, <1>6, <1>7, <1>8, <1>9, <1>11, <1>12, <1>13, <1>14, <1>15, <1>16, <1>0 DEF Special, NewPoints
<1>18. t.old = NoIno
  BY <1>5 DEF Thread, Inums0
<1>19. MadeIp(t) = NoIno /\ MadeIp(u) = i /\ Linked(t) = NoIno /\ Linked(u) = NoIno
  BY <1>1, <1>4, <1>6, <1>18 DEF MadeIp, Linked, Point, Putting
<1>20. \A j \in Inums : Held2(u, j) = Held2(t, j) + (IF j = i THEN 1 ELSE 0)
  BY <1>5, <1>19 DEF Held2, One
<1>21. TypesSame
  BY <1>11, <1>12 DEF TypesSame
<1>22. Entered({})
  BY <1>4, <1>5, NamesAssumption DEF Entered, DiskTypes, Entries
<1>23. Adds(p, i, 1)
  <2>1. \A j \in Inums : dinode'[j].nlink = dinode[j].nlink + (IF j = i THEN 1 ELSE 0)
    BY <1>5, <1>9, <1>11, <1>12 DEF DiskTypes, Inode
  <2>. QED  BY <1>1, <1>20, <2>1 DEF Adds
<1>24. 1 \in Int
  OBVIOUS
<1>25. Balanced
  BY <1>5, <1>6, <1>21, <1>22, <1>23, <1>24, LinkCount
<1>. QED  BY <1>5, <1>17, <1>25, SpecialUse

-----------------------------------------------------------------------------
(* Every step *)

\* The root directory is in use after boot, and nothing else.
LEMMA BootUse == Booted => \A i \in Inums : InUse(i) => i = ROOTINO
<1> SUFFICES ASSUME Booted, NEW i \in Inums, InUse(i) PROVE i = ROOTINO
  OBVIOUS
<1>1. /\ NoIno \notin Inums /\ Idle.pc = "user" /\ Idle.ip = NoIno /\ Idle.dp = NoIno
      /\ Idle.old = NoIno
  BY FilesAssumption DEF Idle
<1>2. ~UsedBy(Idle, i)
  BY <1>1 DEF UsedBy, Held
<1>3. \A f \in 1..NFILE : FileIno(file[f]) = NoIno
  BY DEF Booted, BootFile, NoFile, FileIno
<1>4. \A q \in Procs : th[q] = Idle
  BY DEF Booted
<1>5. PICK q \in Procs : cwd[q] = i
  BY <1>1, <1>2, <1>3, <1>4 DEF InUse
<1>. QED  BY <1>1, <1>5 DEF Booted, BootCwd

\* What is on the disk and in the links of it, when no call is under way.
LEMMA IdleUse == Booted /\ TypedInv /\ LinkInv /\ DiskTypes => UseInv /\ ReadInv
<1> SUFFICES ASSUME Booted, TypedInv, LinkInv, DiskTypes PROVE UseInv /\ ReadInv
  OBVIOUS
<1>1. Idle.pc = "user"
  BY DEF Idle
<1>2. \A i \in Inums : ~Owns(Idle, i)
  BY <1>1 DEF Owns
<1>3. \A q \in Procs : th[q] = Idle
  BY DEF Booted
<1>4. AloneInv /\ MadeInv /\ ForgetInv
  BY <1>1, <1>2, <1>3 DEF AloneInv, MadeInv, ForgetInv
<1>5. ReadInv
  <2>1. ASSUME NEW i \in Inums, itab[i].ref > 0 PROVE i = ROOTINO
    BY <2>1 DEF Booted, BootItab, Unreferenced
  <2>2. dinode[ROOTINO].nlink > 0 /\ dinode[ROOTINO].nlink \in Int
    BY RootLink DEF DiskTypes, Inode
  <2>. QED  BY <2>1, <2>2 DEF ReadInv
<1>. QED  BY <1>4, <1>5 DEF UseInv

LEMMA CrashLinks ==
  ASSUME CInv, LinkInv, UseInv, Crash
  PROVE  UseInv' /\ ReadInv' /\ Balanced
<1>1. /\ Quiet /\ itab' = BootItab /\ file' = BootFile /\ cwd' = BootCwd
      /\ th' = [q \in Procs |-> Idle] /\ dinode' = dinode /\ ents' = ents
  BY DEF Crash, disk
<1>2. DiskTypes /\ TypedInv
  BY DEF CInv, FInv, TypeInv, UseInv
<1>3. ASSUME NEW q \in Procs PROVE MadeIp(th[q]) = NoIno /\ Linked(th[q]) = NoIno
  <2>1. th[q].pc \in {"user", "exit"}
    BY <1>1 DEF Quiet
  <2>2. th[q].old \notin Inums /\ th[q] \in Thread
    BY <2>1, PointRefs DEF Points, HaveOld
  <2>3. th[q].old = NoIno
    BY <2>2 DEF Thread, Inums0
  <2>. QED  BY <2>1, <2>3 DEF MadeIp, Linked, Point, Putting
<1>4. MadeIp(Idle) = NoIno /\ Linked(Idle) = NoIno
  BY DEF MadeIp, Linked, Point, Putting, Idle
<1>5. ASSUME NEW q \in Procs PROVE MadeIp(th'[q]) = MadeIp(th[q]) /\ Linked(th'[q]) = Linked(th[q])
  BY <1>1, <1>3, <1>4
<1>6. \A d \in Inums, n \in Names :
        /\ ents'[d][n] = ents[d][n]
        /\ ents[d][n] \in Inums => dinode'[ents[d][n]].type = dinode[ents[d][n]].type
  BY <1>1
<1>7. Claim' = Claim
  BY <1>5, <1>6, ClaimKept
<1>8. Balanced
  <2>1. NLinksSame
    BY <1>1, DiskSame
  <2>. QED  BY <1>7, <2>1, KeptBalanced
<1>9. LinkInv' /\ DiskTypes'
  <2>1. \A i \in Inums : dinode'[i].nlink >= Count(Claim', i)
    BY <1>1, <1>7 DEF LinkInv
  <2>2. DiskTypes'
    BY <1>2 DEF Crash, disk, DiskTypes
  <2>. QED  BY <2>1, <2>2 DEF LinkInv, Count
<1>10. Booted'
  BY <1>2 DEF Crash, Booted, CInv, FInv, TypeInv, UserTypes, DiskTypes, disk
<1>11. (\A i \in Inums : InUse(i) => i = ROOTINO)'
  BY <1>10, BootUse, PTL
<1>12. TypedInv'
  <2>1. dinode[ROOTINO].type # "free"
    BY <1>2, RootLink DEF TypedInv
  <2>. QED  BY <1>1, <1>2, <1>11, <2>1 DEF TypedInv
<1>13. UseInv' /\ ReadInv'
  BY <1>9, <1>10, <1>12, IdleUse, PTL
<1>. QED  BY <1>8, <1>13

\* Each link has its claim, too.
LinkExact == \A i \in Inums : dinode[i].nlink = Count(Claim, i)

LEMMA InitLinks ==
  ASSUME FilesInit
  PROVE  LinkExact /\ LinkInv /\ UseInv /\ ReadInv
<1>1. FInv /\ DiskTypes /\ NoIno \notin Inums
  BY InitInv, FilesAssumption DEF FInv, TypeInv
<1>2. ASSUME NEW i \in Inums PROVE dinode[i].nlink = IF i = ROOTINO THEN 1 ELSE 0
  BY DEF FilesInit, NoInode
<1>3. ASSUME NEW d \in Inums, NEW n \in Names PROVE ents[d][n] = NoIno
  BY NamesAssumption DEF FilesInit, NoEnts, Entries
<1>4. ASSUME NEW q \in Procs PROVE MadeIp(th[q]) = NoIno /\ Linked(th[q]) = NoIno
  <2>1. th[q] = Idle
    BY DEF FilesInit
  <2>. QED  BY <2>1 DEF Idle, MadeIp, Linked, Point, Putting
<1>5. PICK F, r : F = Claim /\ r = <<Nobody, "root">>
  OBVIOUS
<1>6. r \in Claims /\ F[r] = ROOTINO /\ DOMAIN F = Claims
  BY <1>5, ClaimAt, ClaimsFinite DEF ClaimShape
<1>7. ASSUME NEW h \in Claims, h # r PROVE F[h] \notin Inums
  <2>1. ASSUME NEW d \in Inums, NEW n \in Names, h = <<<<d, n>>, "entry">> PROVE F[h] \notin Inums
    BY <1>1, <1>3, <1>5, <2>1, ClaimAt DEF ClaimShape
  <2>2. ASSUME NEW d \in Inums, NEW n \in Names, h = <<<<d, n>>, "up">> PROVE F[h] \notin Inums
    <3>1. UpLink(d, n) = NoIno
      BY <1>1, <1>3 DEF UpLink
    <3>. QED  BY <1>1, <1>5, <2>2, <3>1, ClaimAt DEF ClaimShape
  <2>3. ASSUME NEW q \in Procs, h = <<q, "ip">> \/ h = <<q, "old">> PROVE F[h] \notin Inums
    BY <1>1, <1>4, <1>5, <2>3, ClaimAt DEF ClaimShape
  <2>. QED  BY <1>5, <1>7, <2>1, <2>2, <2>3, ClaimCases
<1>8. ASSUME NEW i \in Inums PROVE Count(F, i) = IF i = ROOTINO THEN 1 ELSE 0
  <2>1. CASE i = ROOTINO
    <3>1. {h \in DOMAIN F : F[h] = i} = {r}
      BY <1>6, <1>7, <2>1
    <3>. QED  BY <2>1, <3>1, FS_Singleton DEF Count
  <2>2. CASE i # ROOTINO
    <3>1. {h \in DOMAIN F : F[h] = i} = {}
      BY <1>6, <1>7, <2>2
    <3>. QED  BY <2>2, <3>1, FS_EmptySet DEF Count
  <2>. QED  BY <2>1, <2>2
<1>9. LinkExact
  BY <1>2, <1>5, <1>8 DEF LinkExact
<1>10. LinkInv
  <2>1. \A i \in Inums : dinode[i].nlink \in Int
    BY <1>1 DEF DiskTypes, Inode
  <2>. QED  BY <1>9, <2>1 DEF LinkExact, LinkInv
<1>11. Booted
  BY <1>1 DEF FilesInit, Booted, FInv, TypeInv, UserTypes
<1>12. TypedInv
  <2>1. \A i \in Inums : InUse(i) => i = ROOTINO
    BY <1>11, BootUse
  <2>2. dinode[ROOTINO].type # "free"
    BY FilesAssumption DEF FilesInit
  <2>3. ASSUME NEW i \in Inums, dinode[i].type = "free" PROVE dinode[i].nlink = 0
    BY <1>2, <2>2, <2>3
  <2>. QED  BY <2>1, <2>2, <2>3 DEF TypedInv
<1>. QED  BY <1>1, <1>9, <1>10, <1>11, <1>12, IdleUse

LEMMA BalancedGrows ==
  ASSUME DiskTypes, DiskTypes', Balanced
  PROVE  Grows
<1>1. ASSUME NEW i \in Inums
      PROVE  dinode'[i].nlink - Count(Claim', i) >= dinode[i].nlink - Count(Claim, i)
  <2>1. PICK a, b, m, n : /\ a = Count(Claim, i) /\ b = Count(Claim', i)
                          /\ m = dinode[i].nlink /\ n = dinode'[i].nlink
    OBVIOUS
  <2>2. a \in Nat /\ b \in Nat /\ m \in Int /\ n \in Int
    BY <2>1, ClaimNats DEF DiskTypes, Inode
  <2>3. n - b = m - a
    BY <2>1 DEF Balanced
  <2>4. n - b >= m - a
    BY <2>2, <2>3
  <2>. QED  BY <2>1, <2>4
<1>. QED  BY <1>1 DEF Grows

\* Links, uses and what has been read, together.
NInv == LinkInv /\ UseInv /\ ReadInv

\* The steps at which an entry may be written under ".." or in a directory that has gone.
Orderly(p) ==
  /\ th[p].pc = "dirlink" \/ LinkEntry(p) => th[p].name \in Names
  /\ th[p].pc = "itrunc" => Empty(th[p].put)
Counted(p) == UseInv' /\ ReadInv' /\ Grows /\ (Orderly(p) => Balanced)

LEMMA BalancedCounted ==
  ASSUME DiskTypes, DiskTypes', UseInv', ReadInv', Balanced, NEW p
  PROVE  Counted(p)
BY BalancedGrows DEF Counted

LEMMA OrdinaryCounted ==
  ASSUME CInv, CInv', NInv, NEW p \in Procs, Ordinary(p), ReadStep(p), Grows, Orderly(p) => Balanced
  PROVE  Counted(p)
<1>1. FInv /\ FInv' /\ UseInv /\ ReadInv
  BY DEF CInv, NInv
<1>2. UseInv'
  BY <1>1, OrdinaryUse
<1>3. ReadInv'
  BY <1>1, OrdinaryRead
<1>. QED  BY <1>2, <1>3 DEF Counted

LEMMA PlainCounted ==
  ASSUME CInv, CInv', NInv, NEW p \in Procs, Plain(p)
  PROVE  Counted(p)
<1>1. Ordinary(p) /\ ReadStep(p)
  BY DEF Plain
<1>2. Balanced
  BY SameGrows DEF Plain, Ordinary
<1>3. Grows
  BY <1>2, BalancedGrows DEF CInv, FInv, TypeInv
<1>. QED  BY <1>1, <1>2, <1>3, OrdinaryCounted

LEMMA PathCounted ==
  ASSUME CInv, CInv', TreeInv, NInv, ParentKept, ~panicked, NEW p \in Procs, PathStep(p)
  PROVE  Counted(p)
<1>1. LinkInv /\ UseInv /\ ReadInv /\ DiskTypes /\ DiskTypes'
  BY DEF NInv, CInv, FInv, TypeInv
<1>2. CASE StartCall(p) \/ WalkFails(p) \/ WalkOn(p) \/ WalkToParent(p) \/ WalkNowhere(p)
  <2>1. Plain(p)
    BY <1>1, <1>2, PlainStart, PlainWalk
  <2>. QED  BY <2>1, PlainCounted
<1>3. CASE Iput(p) \/ IputDrop(p)
  <2>1. /\ Return(p) /\ th[p].pc \in {"iput", "drop"}
        /\ itab' = [itab EXCEPT ![th[p].put].ref = @ - 1] /\ UNCHANGED <<disk, ilk, user>>
    BY <1>3 DEF Iput, IputDrop
  <2>2. Plain(p)
    BY <2>1, PlainReturn
  <2>. QED  BY <2>2, PlainCounted
<1>4. CASE IputTrunc(p)
  <2>1. Ordinary(p) /\ ReadStep(p) /\ Grows /\ (Empty(th[p].put) => Balanced)
    BY <1>4, IputTruncLinks
  <2>2. th[p].pc = "itrunc"
    BY <1>4 DEF IputTrunc
  <2>. QED  BY <2>1, <2>2, OrdinaryCounted DEF Orderly
<1>5. CASE IputInvalid(p)
  <2>1. Ordinary(p) /\ ReadInv' /\ Balanced
    BY <1>1, <1>5, IputInvalidLinks
  <2>2. UseInv'
    BY <1>1, <2>1, OrdinaryUse
  <2>. QED  BY <1>1, <2>1, <2>2, BalancedCounted
<1>6. CASE IputLast(p) \/ IputFree(p)
  <2>1. UseInv' /\ ReadInv' /\ Balanced
    BY <1>1, <1>6, IputLastLinks, IputFreeLinks
  <2>. QED  BY <1>1, <2>1, BalancedCounted
<1>. QED  BY <1>2, <1>3, <1>4, <1>5, <1>6 DEF PathStep

LEMMA CreateCounted ==
  ASSUME CInv, CInv', TreeInv, NInv, ParentKept, ~panicked, NEW p \in Procs, CreateStep(p)
  PROVE  Counted(p)
<1>1. LinkInv /\ UseInv /\ ReadInv /\ MadeInv /\ DiskTypes /\ DiskTypes'
  BY DEF NInv, UseInv, CInv, FInv, TypeInv
<1>2. CASE \/ CreateFound(p) \/ CreateNew(p) \/ IallocFails(p) \/ CreateLinkFails(p) \/ DropParent(p)
           \/ Made(p) \/ CreateExists(p)
  <2>1. Plain(p)
    BY <1>1, <1>2, PlainCreate, PlainExists
  <2>. QED  BY <2>1, PlainCounted
<1>3. CASE CreateFail(p)
  <2>1. Ordinary(p) /\ ReadStep(p) /\ Balanced
    BY <1>1, <1>3, CreateFailLinks
  <2>2. Grows
    BY <1>1, <2>1, BalancedGrows
  <2>. QED  BY <2>1, <2>2, OrdinaryCounted
<1>4. CASE CreateLink(p)
  <2>1. Ordinary(p) /\ ReadStep(p) /\ Grows /\ (th[p].name \in Names => Balanced)
    BY <1>1, <1>4, CreateLinkLinks
  <2>2. th[p].pc = "dirlink"
    BY <1>4 DEF CreateLink
  <2>. QED  BY <2>1, <2>2, OrdinaryCounted DEF Orderly
<1>5. CASE Ialloc(p) \/ IallocIget(p) \/ CreateInit(p)
  <2>1. UseInv' /\ ReadInv' /\ Balanced
    BY <1>1, <1>5, IallocLinks, IallocIgetLinks, CreateInitLinks
  <2>. QED  BY <1>1, <2>1, BalancedCounted
<1>. QED  BY <1>2, <1>3, <1>4, <1>5 DEF CreateStep

LEMMA CallCounted ==
  ASSUME CInv, CInv', TreeInv, NInv, ParentKept, ~panicked, NEW p \in Procs,
         OpenStep(p) \/ LinkStep(p) \/ FileStep(p)
  PROVE  Counted(p)
<1>1. LinkInv /\ UseInv /\ ReadInv /\ DiskTypes /\ DiskTypes'
  BY DEF NInv, CInv, FInv, TypeInv
<1>2. CASE OpenStep(p) \/ FileStep(p)
  <2>1. Plain(p)
    BY <1>2, PlainOpen, PlainOpened, PlainFile DEF OpenStep
  <2>. QED  BY <2>1, PlainCounted
<1>3. CASE \/ UnlinkNothing(p) \/ UnlinkLookup(p) \/ UnlinkNotEmpty(p) \/ LinkDir(p) \/ LinkExists(p)
           \/ LinkDrop(p) \/ LinkFails(p) \/ LinkPut(p)
  <2>1. Plain(p)
    BY <1>1, <1>3, PlainLink
  <2>. QED  BY <2>1, PlainCounted
<1>4. CASE UnlinkEntry(p) \/ UnlinkDec(p) \/ LinkInc(p) \/ LinkBad(p)
  <2>1. Ordinary(p) /\ ReadStep(p) /\ Balanced
    BY <1>1, <1>4, UnlinkEntryLinks, UnlinkDecLinks, LinkIncLinks, LinkBadLinks
  <2>2. Grows
    BY <1>1, <2>1, BalancedGrows
  <2>. QED  BY <2>1, <2>2, OrdinaryCounted
<1>5. CASE LinkEntry(p)
  <2>1. Ordinary(p) /\ ReadStep(p) /\ Grows /\ (th[p].name \in Names => Balanced)
    BY <1>1, <1>5, LinkEntryLinks
  <2>. QED  BY <1>5, <2>1, OrdinaryCounted DEF Orderly
<1>. QED  BY <1>2, <1>3, <1>4, <1>5 DEF LinkStep

LEMMA LinksStep ==
  ASSUME CInv, TreeInv, NInv, ParentKept, FilesNext
  PROVE  UseInv' /\ ReadInv' /\ Grows /\ ((\A p \in Procs : Orderly(p)) => Balanced)
<1>1. CInv'
  BY CacheNext
<1>2. CASE Crash
  <2>1. UseInv' /\ ReadInv' /\ Balanced
    BY <1>2, CrashLinks DEF NInv
  <2>2. Grows
    BY <1>1, <2>1, BalancedGrows DEF CInv, FInv, TypeInv
  <2>. QED  BY <2>1, <2>2
<1>3. ~panicked
  BY DEF FilesNext
<1>4. ASSUME NEW p \in Procs, PathStep(p) \/ CreateStep(p) \/ OpenStep(p) \/ LinkStep(p) \/ FileStep(p)
      PROVE  Counted(p)
  BY <1>1, <1>3, <1>4, PathCounted, CreateCounted, CallCounted
<1>. QED  BY <1>2, <1>4 DEF FilesNext, Counted

LEMMA LinksNext == CInv /\ TreeInv /\ NInv /\ ParentKept /\ [FilesNext]_filesVars => NInv'
<1> SUFFICES ASSUME CInv, TreeInv, NInv, ParentKept, [FilesNext]_filesVars PROVE NInv'
  OBVIOUS
<1>1. CASE FilesNext
  <2>1. UseInv' /\ ReadInv' /\ Grows
    BY <1>1, LinksStep
  <2>2. CInv'
    BY <1>1, CacheNext
  <2>3. LinkInv'
    BY <2>1, <2>2, LinkFromGrows DEF NInv, CInv, FInv, TypeInv
  <2>. QED  BY <2>1, <2>3 DEF NInv
<1>2. CASE UNCHANGED filesVars
  <2>1. /\ dinode' = dinode /\ ents' = ents /\ itab' = itab /\ ilk' = ilk
        /\ file' = file /\ cwd' = cwd /\ th' = th
    BY <1>2 DEF filesVars
  <2>2. Claim' = Claim
    BY <2>1, ClaimKept
  <2>3. LinkInv'
    BY <2>1, <2>2 DEF NInv, LinkInv, Count
  <2>4. \A i \in Inums : InUse(i)' <=> InUse(i)
    BY <2>1 DEF InUse
  <2>5. \A i : Maker(i)' <=> Maker(i)
    BY <2>1 DEF Maker
  <2>6. UseInv'
    BY <2>1, <2>4, <2>5 DEF NInv, UseInv, TypedInv, AloneInv, Alone, MadeInv, NewType, ForgetInv, Maker
  <2>7. ReadInv'
    BY <2>1, <2>5 DEF NInv, ReadInv
  <2>. QED  BY <2>3, <2>6, <2>7 DEF NInv
<1>. QED  BY <1>1, <1>2

\* Links, uses and what has been read, while nobody follows ".." to a directory that has gone.
THEOREM LinksInvariant == FilesSpec /\ []ParentKept => []NInv
<1>1. FilesInit => NInv
  BY InitLinks DEF NInv
<1>2. FilesSpec => []CInv /\ []TreeInv
  BY CacheInvariant, TreeInvariant
<1>3. FilesSpec => FilesInit /\ [][FilesNext]_filesVars
  BY PTL DEF FilesSpec
<1>. QED  BY <1>1, <1>2, <1>3, LinksNext, PTL

-----------------------------------------------------------------------------
(* The panics that are left *)

LEMMA WaitsTyped ==
  ASSUME CInv, UseInv, NEW p \in Procs, WaitsFor(p) \in Inums
  PROVE  ~NoType(WaitsFor(p))
<1>1. PICK t, k : t = th[p] /\ k = WaitsFor(p)
  OBVIOUS
<1>2. NoIno \notin Inums
  BY FilesAssumption
<1>3. /\ t.pc \in {"namei", "nameiparent", "createfound", "createinit", "unlinklock", "create",
                   "unlink", "link", "linkbad"}
      /\ k = t.ip \/ k = t.dp \/ k = t.old
  BY <1>1, <1>2 DEF WaitsFor
<1>4. UsedBy(t, k)
  <2>1. Held(t, "ip") = t.ip
    BY <1>3 DEF Held
  <2>. QED  BY <1>3, <2>1 DEF UsedBy
<1>5. dinode[k].type # "free"
  BY <1>1, <1>4 DEF UseInv, TypedInv, InUse
<1>. QED  BY <1>1, <1>5 DEF NoType

LEMMA EntryLinked ==
  ASSUME CInv, TreeInv, LinkInv, ~panicked, NEW p \in Procs, At(p, "unlinklock")
  PROVE  ~(Loaded(th[p].ip).nlink < 1)
<1>1. PICK t, d, i, n : t = th[p] /\ d = t.dp /\ i = t.ip /\ n = t.name
  OBVIOUS
<1>2. t.pc = "unlinklock" /\ ilk[i] = Nobody
  BY <1>1 DEF At, WaitsFor
<1>3. d \in Inums /\ i \in Inums /\ DiskTypes
  BY <1>1, <1>2, PointRefs DEF Points, HaveIp, HaveDp
<1>4. n \in Names /\ ents[d][n] = i
  BY <1>1, <1>2 DEF TreeInv, LookInv
<1>5. dinode[i].nlink >= 1
  BY <1>3, <1>4, EntryLink
<1>6. Refers(th[p], i)
  BY <1>1, <1>2 DEF Refers, Held
<1>7. Loaded(i) = dinode[i] /\ dinode[i].nlink \in Int
  BY <1>2, <1>3, <1>6, FreeLoaded DEF Inode
<1>8. ~(Loaded(i).nlink < 1)
  BY <1>5, <1>7
<1>. QED  BY <1>1, <1>8

\* The inode table is full when the file system panics.
PanicsFull == panicked' => panicked \/ InodesFull

LEMMA PanicsFullStep ==
  ASSUME CInv, TreeInv, BlockInv, NInv, [FilesNext]_filesVars
  PROVE  PanicsFull
<1> SUFFICES ASSUME panicked', ~panicked PROVE InodesFull
  BY DEF PanicsFull
<1>1. PICK p \in Procs : Moves(p) /\ MayPanic(p)
  BY PanicsFromInv DEF PanicsNamed
<1>2. UseInv /\ LinkInv
  BY DEF NInv
<1>. QED  BY <1>1, <1>2, WaitsTyped, EntryLinked DEF MayPanic

\* As long as nobody follows ".." to a directory that has gone, a full inode table is the
\* one thing that makes the file system panic: every inode that is locked has a type
\* ("ilock: no type"), and every entry that is removed names one with links ("unlink:
\* nlink < 1"), for any programs, and after any crash.
THEOREM OnlyFullTablePanics == FilesSpec /\ []ParentKept => [][PanicsFull]_filesVars
<1>1. FilesSpec => []CInv /\ []TreeInv /\ []BlockInv
  BY CacheInvariant, TreeInvariant, BlockInvariant
<1>2. FilesSpec => [][FilesNext]_filesVars
  BY PTL DEF FilesSpec
<1>3. CInv /\ TreeInv /\ BlockInv /\ NInv /\ [FilesNext]_filesVars => [PanicsFull]_filesVars
  BY PanicsFullStep
<1>. QED  BY <1>1, <1>2, <1>3, LinksInvariant, PTL

\* So no call panics while the inode table has room.
THEOREM NoPanicWithRoom == FilesSpec /\ []ParentKept /\ []~InodesFull => []FilesNoPanic
<1>1. FilesInit => ~panicked
  BY DEF FilesInit
<1>2. ~panicked /\ ~InodesFull /\ [PanicsFull]_filesVars => ~panicked'
  BY DEF PanicsFull, filesVars
<1>3. FilesSpec => FilesInit
  BY PTL DEF FilesSpec
<1>4. FilesNoPanic <=> ~panicked
  BY DEF FilesNoPanic
<1>. QED  BY <1>1, <1>2, <1>3, <1>4, OnlyFullTablePanics, PTL

-----------------------------------------------------------------------------
(* The last reference to an inode without a name *)

\* Only iput() gives up a reference.
RefsKept == \A i \in Inums : itab'[i].ref = 0 => itab[i].ref = 0

LEMMA KeptSame == itab' = itab => RefsKept
BY DEF RefsKept

LEMMA KeptIlock ==
  ASSUME DiskTypes, itab \in [Inums -> Entry], NEW d \in Inums, itab' = ilock(d)
  PROVE  RefsKept
BY IlockTab DEF RefsKept

LEMMA KeptIget ==
  ASSUME NEW tab \in [Inums -> Entry], \A i \in Inums : tab[i].ref = itab[i].ref,
         NEW k \in Inums, itab' = iget(tab, k)
  PROVE  RefsKept
<1> SUFFICES ASSUME NEW i \in Inums, itab'[i].ref = 0 PROVE itab[i].ref = 0
  BY DEF RefsKept
<1>1. itab'[i].ref = tab[i].ref + One(k, i)
  BY IgetTab
<1>2. PICK a, b : a = tab[i].ref /\ b = One(k, i)
  OBVIOUS
<1>3. a \in Nat /\ b \in Nat
  BY <1>2 DEF Entry, One
<1>4. a + b = 0
  BY <1>1, <1>2
<1>5. a = 0
  BY <1>3, <1>4
<1>. QED  BY <1>2, <1>5

LEMMA KeptLookup ==
  ASSUME DiskTypes, itab \in [Inums -> Entry], NEW d \in Inums, NEW k \in Inums, LookupIget(d, k)
  PROVE  RefsKept
<1>1. PICK tab : tab = ilock(d)
  OBVIOUS
<1>2. tab \in [Inums -> Entry] /\ (\A i \in Inums : tab[i].ref = itab[i].ref) /\ itab' = iget(tab, k)
  BY <1>1, IlockTab DEF LookupIget
<1>. QED  BY <1>2, KeptIget

LEMMA KeptUpdate ==
  ASSUME itab \in [Inums -> Entry], NEW k \in Inums, NEW d, Update(k, d)
  PROVE  RefsKept
<1>1. itab' = [itab EXCEPT ![k].valid = TRUE, ![k].d = d]
  BY DEF Update
<1>2. ASSUME NEW i \in Inums PROVE itab'[i].ref = itab[i].ref
  BY <1>1 DEF Entry
<1>. QED  BY <1>2 DEF RefsKept

LEMMA KeptPath ==
  ASSUME CInv, NEW p \in Procs, PathStep(p), ~Iput(p), ~IputDrop(p)
  PROVE  RefsKept
<1>1. /\ DiskTypes /\ itab \in [Inums -> Entry] /\ th[p] \in Thread /\ NoIno \notin Inums
      /\ cwd[p] \in Inums0
  BY FilesAssumption DEF CInv, FInv, TypeInv, UserTypes
<1>2. CASE StartCall(p)
  <2>1. PICK c \in Programs[prog][p] : cwd[p] # NoIno /\ itab' = iget(itab, From(p, c.path))
    BY <1>2 DEF StartCall
  <2>2. PICK k : k = From(p, c.path)
    OBVIOUS
  <2>3. k \in Inums /\ itab' = iget(itab, k)
    BY <1>1, <2>1, <2>2, FilesAssumption DEF From, Inums0
  <2>. QED  BY <1>1, <2>3, KeptIget
<1>3. CASE WalkFails(p) \/ WalkToParent(p)
  <2>1. th[p].pc \in {"namei", "nameiparent"}
    BY <1>3 DEF WalkFails, WalkToParent, Walking, At
  <2>2. th[p].ip \in Inums /\ itab' = ilock(th[p].ip)
    BY <1>3, <2>1, PointRefs DEF WalkFails, WalkToParent, Reject, Points, HaveIp
  <2>. QED  BY <1>1, <2>2, KeptIlock
<1>4. CASE WalkOn(p)
  <2>1. th[p].pc \in {"namei", "nameiparent"} /\ th[p].path # <<>> /\ NextIno(p) # NoIno
    BY <1>4 DEF WalkOn, Walking, At
  <2>2. PICK i, k, n : i = th[p].ip /\ k = NextIno(p) /\ n = Head(th[p].path)
    OBVIOUS
  <2>3. i \in Inums /\ LookupIget(i, k)
    BY <1>4, <2>1, <2>2, PointRefs DEF WalkOn, Points, HaveIp
  <2>4. n \in Elems
    BY <1>1, <2>1, <2>2 DEF Thread
  <2>5. k \in Inums
    BY <1>1, <2>1, <2>2, <2>3, <2>4, LookupType DEF NextIno, Inums0
  <2>. QED  BY <1>1, <2>3, <2>5, KeptLookup
<1>5. CASE WalkNowhere(p) \/ IputLast(p)
  BY <1>5, KeptSame DEF WalkNowhere, IputLast
<1>6. CASE IputTrunc(p) \/ IputFree(p) \/ IputInvalid(p)
  <2>1. PICK k : k = th[p].put
    OBVIOUS
  <2>2. th[p].pc \in Putting /\ ThreadOk(th[p])
    BY <1>6 DEF IputTrunc, IputFree, IputInvalid, Putting, CInv, FInv, ControlInv
  <2>3. k \in Inums
    BY <2>1, <2>2 DEF ThreadOk
  <2>4. CASE IputTrunc(p) \/ IputFree(p)
    <3>1. \E d : Update(k, d)
      BY <2>1, <2>4 DEF IputTrunc, IputFree, itrunc
    <3>. QED  BY <1>1, <2>3, <3>1, KeptUpdate
  <2>5. CASE IputInvalid(p)
    <3>1. itab' = [itab EXCEPT ![k].valid = FALSE]
      BY <2>1, <2>5 DEF IputInvalid
    <3>2. ASSUME NEW i \in Inums PROVE itab'[i].ref = itab[i].ref
      BY <1>1, <2>3, <3>1 DEF Entry
    <3>. QED  BY <3>2 DEF RefsKept
  <2>. QED  BY <1>6, <2>4, <2>5
<1>. QED  BY <1>2, <1>3, <1>4, <1>5, <1>6 DEF PathStep

LEMMA KeptCreate ==
  ASSUME CInv, NEW p \in Procs, CreateStep(p)
  PROVE  RefsKept
<1>1. DiskTypes /\ itab \in [Inums -> Entry] /\ th[p] \in Thread /\ NoIno \notin Inums
  BY FilesAssumption DEF CInv, FInv, TypeInv
<1>2. PICK i, d, n : i = th[p].ip /\ d = th[p].dp /\ n = th[p].name
  OBVIOUS
<1>3. CASE CreateExists(p)
  <2>1. PICK k : k = Lookup(d, n)
    OBVIOUS
  <2>2. th[p].pc = "create" /\ k # NoIno /\ LookupIget(d, k)
    BY <1>2, <1>3, <2>1 DEF CreateExists, At
  <2>3. d \in Inums /\ n \in Elems
    BY <1>1, <1>2, <2>2, PointRefs DEF Points, HaveDp, Thread
  <2>4. k \in Inums
    BY <1>1, <2>1, <2>2, <2>3, LookupType DEF Inums0
  <2>. QED  BY <1>1, <2>2, <2>3, <2>4, KeptLookup
<1>4. CASE CreateFound(p) \/ CreateNew(p)
  <2>1. PICK k : k = IF CreateFound(p) THEN i ELSE d
    OBVIOUS
  <2>2. k \in Inums
    BY <1>2, <1>4, <2>1, PointRefs DEF CreateFound, CreateNew, At, Points, HaveIp, HaveDp
  <2>3. itab' = ilock(k)
    BY <1>2, <1>4, <2>1 DEF CreateFound, CreateNew, Hold, Reject
  <2>. QED  BY <1>1, <2>2, <2>3, KeptIlock
<1>5. CASE Ialloc(p) \/ IallocFails(p) \/ CreateLinkFails(p) \/ DropParent(p) \/ Made(p)
  BY <1>5, KeptSame DEF Ialloc, IallocFails, CreateLinkFails, DropParent, Made, iunlockput
<1>6. CASE IallocIget(p)
  <2>1. i \in Inums /\ itab' = iget(itab, i)
    BY <1>2, <1>6, PointRefs DEF IallocIget, Points, HaveIp
  <2>. QED  BY <1>1, <2>1, KeptIget
<1>7. CASE CreateInit(p) \/ CreateFail(p)
  <2>1. i \in Inums
    BY <1>2, <1>7, PointRefs DEF CreateInit, CreateFail, At, Points, HaveIp
  <2>2. \E e : Update(i, e)
    BY <1>2, <1>7 DEF CreateInit, CreateFail
  <2>. QED  BY <1>1, <2>1, <2>2, KeptUpdate
<1>8. CASE CreateLink(p)
  <2>1. d \in Inums
    BY <1>2, <1>8, PointRefs DEF CreateLink, Points, HaveDp
  <2>2. \E e : Update(d, e)
    BY <1>2, <1>8 DEF CreateLink, dirlink
  <2>. QED  BY <1>1, <2>1, <2>2, KeptUpdate
<1>. QED  BY <1>3, <1>4, <1>5, <1>6, <1>7, <1>8 DEF CreateStep

LEMMA KeptOpen ==
  ASSUME CInv, NEW p \in Procs, OpenStep(p)
  PROVE  RefsKept
<1>1. DiskTypes /\ itab \in [Inums -> Entry]
  BY DEF CInv, FInv, TypeInv
<1>2. PICK i : i = th[p].ip
  OBVIOUS
<1>3. CASE OpenLock(p) \/ Chdir(p)
  <2>1. i \in Inums
    BY <1>2, <1>3, PointRefs DEF OpenLock, Chdir, Found, At, Points, HaveIp
  <2>2. itab' = ilock(i)
    BY <1>2, <1>3 DEF OpenLock, Chdir, Hold, Reject
  <2>. QED  BY <1>1, <2>1, <2>2, KeptIlock
<1>4. CASE Opened(p)
  <2>1. i \in Inums
    BY <1>2, <1>4, PointRefs DEF Opened, Points, HaveIp
  <2>2. (\E e : Update(i, e)) \/ itab' = itab
    BY <1>2, <1>4 DEF Opened, itrunc
  <2>. QED  BY <1>1, <2>1, <2>2, KeptUpdate, KeptSame
<1>5. CASE OpenFails(p)
  BY <1>5, KeptSame DEF OpenFails, iunlockput
<1>. QED  BY <1>3, <1>4, <1>5 DEF OpenStep

LEMMA KeptLink ==
  ASSUME CInv, ~panicked, NEW p \in Procs, LinkStep(p)
  PROVE  RefsKept
<1>1. DiskTypes /\ itab \in [Inums -> Entry] /\ th[p] \in Thread /\ NoIno \notin Inums
  BY FilesAssumption DEF CInv, FInv, TypeInv
<1>2. PICK i, d, o : i = th[p].ip /\ d = th[p].dp /\ o = th[p].old
  OBVIOUS
<1>3. CASE UnlinkNothing(p) \/ LinkFails(p)
  <2>1. d \in Inums
    BY <1>2, <1>3, PointRefs DEF UnlinkNothing, LinkFails, At, Points, HaveDp
  <2>2. itab' = ilock(d)
    BY <1>2, <1>3 DEF UnlinkNothing, LinkFails, Reject
  <2>. QED  BY <1>1, <2>1, <2>2, KeptIlock
<1>4. CASE UnlinkNotEmpty(p) \/ LinkDir(p)
  <2>1. i \in Inums
    BY <1>2, <1>4, PointRefs DEF UnlinkNotEmpty, LinkDir, Found, At, Points, HaveIp
  <2>2. itab' = ilock(i)
    BY <1>2, <1>4 DEF UnlinkNotEmpty, LinkDir, Reject
  <2>. QED  BY <1>1, <2>1, <2>2, KeptIlock
<1>5. CASE UnlinkLookup(p)
  <2>1. PICK k : k = Lookup(d, th[p].name)
    OBVIOUS
  <2>2. th[p].pc = "unlink" /\ k # NoIno /\ LookupIget(d, k)
    BY <1>2, <1>5, <2>1 DEF UnlinkLookup, At
  <2>3. d \in Inums /\ th[p].name \in Elems
    BY <1>1, <1>2, <2>2, PointRefs DEF Points, HaveDp, Thread
  <2>4. k \in Inums
    BY <1>1, <2>1, <2>2, <2>3, LookupType DEF Inums0
  <2>. QED  BY <1>1, <2>2, <2>3, <2>4, KeptLookup
<1>6. CASE UnlinkEntry(p)
  <2>1. i \in Inums /\ d \in Inums
    BY <1>2, <1>6, PointRefs DEF UnlinkEntry, At, Points, HaveIp, HaveDp
  <2>2. PICK tab, e : tab = ilock(i) /\ itab' = [tab EXCEPT ![d].d = e]
    BY <1>2, <1>6 DEF UnlinkEntry
  <2>3. tab \in [Inums -> Entry] /\ \A j \in Inums : tab[j].ref = itab[j].ref
    BY <1>1, <2>1, <2>2, IlockTab
  <2>4. ASSUME NEW j \in Inums PROVE itab'[j].ref = tab[j].ref
    BY <2>1, <2>2, <2>3 DEF Entry
  <2>. QED  BY <2>3, <2>4 DEF RefsKept
<1>7. CASE UnlinkDec(p)
  <2>1. i \in Inums
    BY <1>2, <1>7, PointRefs DEF UnlinkDec, Points, HaveIp
  <2>2. \E e : Update(i, e)
    BY <1>2, <1>7 DEF UnlinkDec, DropLink
  <2>. QED  BY <1>1, <2>1, <2>2, KeptUpdate
<1>8. CASE LinkInc(p)
  <2>1. PICK j, e : j = From(p, th[p].call.new) /\ e = [Loaded(i) EXCEPT !.nlink = Loaded(i).nlink + 1]
    OBVIOUS
  <2>2. th[p].pc = "namei" /\ itab' = iget([ilock(i) EXCEPT ![i].d = e], j)
    BY <1>2, <1>8, <2>1 DEF LinkInc, Found, At
  <2>3. i \in Inums
    BY <1>2, <2>2, PointRefs DEF Points, HaveIp
  <2>4. PICK tab : tab = ilock(i)
    OBVIOUS
  <2>5. tab \in [Inums -> Entry] /\ (\A k \in Inums : tab[k].ref = itab[k].ref) /\ Loaded(i) \in Inode
    BY <1>1, <2>3, <2>4, IlockTab
  <2>6. e \in Inode
    BY <2>1, <2>5 DEF Inode
  <2>7. PICK f : f = [tab[i] EXCEPT !.d = e]
    OBVIOUS
  <2>8. f \in Entry /\ f.ref = tab[i].ref
    BY <2>3, <2>5, <2>6, <2>7 DEF Entry
  <2>9. PICK tab2 : tab2 = [tab EXCEPT ![i] = f]
    OBVIOUS
  <2>10. tab2 \in [Inums -> Entry] /\ itab' = iget(tab2, j)
    BY <2>2, <2>3, <2>4, <2>5, <2>7, <2>8, <2>9
  <2>11. \A k \in Inums : tab2[k].ref = itab[k].ref
    BY <2>5, <2>8, <2>9
  <2>12. j \in Inums
    <3>1. j = cwd[p] \/ j = ROOTINO
      BY <2>1 DEF From
    <3>2. cwd[p] \in Inums
      BY <2>2, LinkPoints DEF CInv, FInv, TypeInv, UserTypes, Inums0
    <3>. QED  BY <3>1, <3>2, FilesAssumption
  <2>. QED  BY <2>10, <2>11, <2>12, KeptIget
<1>9. CASE LinkEntry(p)
  <2>1. d \in Inums
    BY <1>2, <1>9, PointRefs DEF LinkEntry, At, Points, HaveDp
  <2>2. \E e : Update(d, e)
    BY <1>2, <1>9 DEF LinkEntry, dirlink
  <2>. QED  BY <1>1, <2>1, <2>2, KeptUpdate
<1>10. CASE LinkPut(p)
  BY <1>10, KeptSame DEF LinkPut
<1>11. CASE LinkExists(p)
  <2>1. PICK k : k = Lookup(d, th[p].name)
    OBVIOUS
  <2>2. th[p].pc = "link" /\ k # NoIno /\ LookupIget(d, k)
    BY <1>2, <1>11, <2>1 DEF LinkExists, At
  <2>3. d \in Inums /\ th[p].name \in Elems
    BY <1>1, <1>2, <2>2, PointRefs DEF Points, HaveDp, Thread
  <2>4. k \in Inums
    BY <1>1, <2>1, <2>2, <2>3, LookupType DEF Inums0
  <2>. QED  BY <1>1, <2>2, <2>3, <2>4, KeptLookup
<1>12. CASE LinkDrop(p)
  BY <1>12, KeptSame DEF LinkDrop, iunlockput
<1>13. CASE LinkBad(p)
  <2>1. o \in Inums
    BY <1>2, <1>13, PointRefs DEF LinkBad, At, Points, HaveOld
  <2>2. \E e : Update(o, e)
    BY <1>2, <1>13 DEF LinkBad, DropLink
  <2>. QED  BY <1>1, <2>1, <2>2, KeptUpdate
<1>. QED  BY <1>3, <1>4, <1>5, <1>6, <1>7, <1>8, <1>9, <1>10, <1>11, <1>12,
         <1>13 DEF LinkStep

LEMMA KeptFile ==
  ASSUME CInv, NEW p \in Procs, FileStep(p)
  PROVE  RefsKept
<1>1. itab \in [Inums -> Entry]
  BY DEF CInv, FInv, TypeInv
<1>2. CASE Write(p)
  <2>0. PICK fd \in FDs : ofile[p][fd] # 0 /\ \E d : Update(file[ofile[p][fd]].ip, d)
    BY <1>2 DEF Write
  <2>1. PICK i : ofile[p][fd] # 0 /\ i = file[ofile[p][fd]].ip /\ \E d : Update(i, d)
    BY <2>0
  <2>2. i \in Inums
    BY <2>1, FdOpen DEF CInv
  <2>. QED  BY <1>1, <2>1, <2>2, KeptUpdate
<1>3. CASE Dup(p) \/ Close(p) \/ Exit(p)
  BY <1>3, KeptSame DEF Dup, Close, Exit, fileclose
<1>4. CASE \E q \in Procs : Fork(p, q)
  <2>1. cwd[p] # NoIno /\ itab' = iget(itab, cwd[p])
    BY <1>4 DEF Fork
  <2>2. cwd[p] \in Inums
    BY <2>1 DEF CInv, FInv, TypeInv, UserTypes, Inums0
  <2>. QED  BY <1>1, <2>1, <2>2, KeptIget
<1>. QED  BY <1>2, <1>3, <1>4 DEF FileStep

\* Who drops the last reference with iput() sees links of the inode.
LEMMA IputSeesLinks ==
  ASSUME CInv, NInv, ~panicked, NEW p \in Procs, Iput(p), NEW i \in Inums,
         itab[i].ref > 0, itab'[i].ref = 0
  PROVE  ~Nameless(i)
<1>1. PICK k : k = th[p].put
  OBVIOUS
<1>2. th[p].pc = "iput" /\ ~LastUse(k) /\ itab' = [itab EXCEPT ![k].ref = @ - 1]
  BY <1>1 DEF Iput
<1>3. k \in Inums /\ itab \in [Inums -> Entry]
  BY <1>1, <1>2 DEF CInv, FInv, TypeInv, ControlInv, ThreadOk, Putting
<1>4. i = k
  BY <1>2, <1>3
<1>5. itab[i].ref = 1
  <2>1. itab[i].ref \in Nat /\ itab'[i].ref = itab[i].ref - 1
    BY <1>2, <1>3, <1>4 DEF Entry
  <2>. QED  BY <2>1
<1>6. ilk[i] = Nobody
  BY <1>1, <1>2, <1>4, <1>5, OneFree
<1>7. SUFFICES ASSUME dinode[i].type # "free", dinode[i].nlink = 0 PROVE FALSE
  BY DEF Nameless
<1>8. CASE itab[i].valid
  <2>1. itab[i].d = dinode[i]
    BY <1>6, <1>8, LoadedTyped
  <2>. QED  BY <1>2, <1>4, <1>5, <1>7, <1>8, <2>1 DEF LastUse
<1>9. CASE ~itab[i].valid
  <2>1. Maker(i)
    BY <1>7, <1>9 DEF NInv, ReadInv
  <2>2. PICK q \in Procs : th[q].pc \in {"iget", "createinit"} /\ th[q].ip = i
    BY <2>1 DEF Maker
  <2>3. Alone(q, i)
    BY <2>2 DEF NInv, UseInv, AloneInv, Owns
  <2>4. ~UsedBy(th[p], i)
    BY <1>2, <2>2, <2>3 DEF Alone
  <2>. QED  BY <1>1, <1>2, <1>4, <2>4 DEF UsedBy
<1>. QED  BY <1>8, <1>9

\* What a step may do with the last reference to an inode without a name (see NamelessKept).
NamelessStep ==
  \A i \in Inums : itab[i].ref > 0 /\ itab'[i].ref = 0 /\ Nameless(i)' =>
    \/ Crash
    \/ \E p \in Procs : th[p].pc = "drop" /\ th[p].put = i

LEMMA NamelessFromInv ==
  ASSUME CInv, NInv, [FilesNext]_filesVars
  PROVE  NamelessStep
<1> SUFFICES ASSUME NEW i \in Inums, itab[i].ref > 0, itab'[i].ref = 0, Nameless(i)', ~Crash
             PROVE  \E p \in Procs : th[p].pc = "drop" /\ th[p].put = i
  BY DEF NamelessStep
<1>1. ~RefsKept /\ itab' # itab
  BY DEF RefsKept
<1>2. ~panicked
  BY <1>1 DEF FilesNext, filesVars
<1>3. PICK p \in Procs : PathStep(p) \/ CreateStep(p) \/ OpenStep(p) \/ LinkStep(p) \/ FileStep(p)
  BY <1>1 DEF FilesNext, filesVars
<1>4. Iput(p) \/ IputDrop(p)
  BY <1>1, <1>2, <1>3, KeptPath, KeptCreate, KeptOpen, KeptLink, KeptFile
<1>5. CASE Iput(p)
  <2>1. ~Nameless(i)
    BY <1>2, <1>5, IputSeesLinks
  <2>2. dinode' = dinode
    BY <1>5 DEF Iput, disk
  <2>. QED  BY <2>1, <2>2 DEF Nameless
<1>6. CASE IputDrop(p)
  <2>1. PICK k : k = th[p].put
    OBVIOUS
  <2>2. th[p].pc = "drop" /\ itab' = [itab EXCEPT ![k].ref = @ - 1]
    BY <1>6, <2>1 DEF IputDrop
  <2>3. i = k
    BY <2>2 DEF CInv, FInv, TypeInv, Entry
  <2>. QED  BY <2>1, <2>2, <2>3
<1>. QED  BY <1>4, <1>5, <1>6

\* An inode without a name is freed by its last user, or left to a crash: no call, and no
\* failure of one, simply drops the last reference to it, for any programs.
THEOREM NamelessInodesKept == FilesSpec /\ []ParentKept => NamelessKept
<1>1. FilesSpec => []CInv
  BY CacheInvariant
<1>2. FilesSpec => [][FilesNext]_filesVars
  BY PTL DEF FilesSpec
<1>3. CInv /\ NInv /\ [FilesNext]_filesVars => [NamelessStep]_filesVars
  BY NamelessFromInv
<1>4. FilesSpec /\ []ParentKept => [][NamelessStep]_filesVars
  BY <1>1, <1>2, <1>3, LinksInvariant, PTL
<1>. QED  BY <1>4, PTL DEF NamelessKept, NamelessStep

-----------------------------------------------------------------------------
(* Programs whose paths only lead down *)

Down(path) == \A k \in 1..Len(path) : path[k] # ".."
PathsDown ==
  \A k \in DOMAIN Programs : \A p \in Procs : \A c \in Programs[k][p] :
    Down(Elements(c.path)) /\ (c.op = "link" => Down(Elements(c.new)))

\* Where a name is about to be given to something.
Naming == {"create", "link"}
DownAt(t) == Down(t.path) /\ (Point(t) \in Naming => t.name # "..")
PathInv == \A p \in Procs : DownAt(th[p])

\* A step that leaves the path and the name alone, or forgets them.
PathKept(p) ==
  /\ th'[p].path \in {th[p].path, <<>>}
  /\ Point(th'[p]) \in Naming => Point(th[p]) \in Naming /\ th'[p].name = th[p].name

LEMMA DownEmpty == Down(<<>>)
BY DEF Down

LEMMA DownTail ==
  ASSUME NEW s \in Seq(Elems), s # <<>>, Down(s)
  PROVE  Down(Tail(s)) /\ Head(s) # ".."
<1>1. Len(s) \in Nat \ {0}
  OBVIOUS
<1>2. Head(s) # ".."
  BY <1>1 DEF Down
<1>3. ASSUME NEW k \in 1..Len(Tail(s)) PROVE Tail(s)[k] # ".."
  <2>1. k + 1 \in 1..Len(s) /\ Tail(s)[k] = s[k + 1]
    BY <1>1
  <2>. QED  BY <2>1 DEF Down
<1>. QED  BY <1>2, <1>3 DEF Down

LEMMA KeptDown ==
  ASSUME NEW p \in Procs, DownAt(th[p]), PathKept(p)
  PROVE  DownAt(th'[p])
BY DownEmpty DEF DownAt, PathKept

LEMMA MoveKept ==
  ASSUME NEW p \in Procs, th \in [Procs -> Thread],
         NEW v \in {"ip", "dp", "old"}, NEW r, r \notin Naming, IputThen(p, v, r)
  PROVE  PathKept(p)
<1>1. th'[p] = [th[p] EXCEPT !.pc = "iput", !.put = th[p][v], ![v] = NoIno, !.ret = r]
  BY DEF IputThen
<1>2. th'[p].pc = "iput" /\ th'[p].ret = r /\ th'[p].path = th[p].path
  BY <1>1 DEF Thread
<1>. QED  BY <1>2 DEF PathKept, Point, Putting, Naming

LEMMA PcKept ==
  ASSUME NEW p \in Procs, th \in [Procs -> Thread], NEW c, c \notin Naming,
         th' = [th EXCEPT ![p].pc = c], c \notin Putting \/ th[p].pc \in Putting
  PROVE  PathKept(p)
<1>1. th'[p].pc = c /\ th'[p].ret = th[p].ret /\ th'[p].path = th[p].path /\ th'[p].name = th[p].name
  BY DEF Thread
<1>. QED  BY <1>1 DEF PathKept, Point

LEMMA ReturnKept ==
  ASSUME NEW p \in Procs, th \in [Procs -> Thread], th[p].pc \in Putting, Return(p)
  PROVE  PathKept(p)
<1>1. CASE th[p].ret = "user"
  <2>1. th'[p] = Idle
    BY <1>1 DEF Return
  <2>. QED  BY <2>1 DEF PathKept, Idle, Point, Putting, Naming
<1>2. CASE th[p].ret # "user"
  <2>1. th'[p] = [th[p] EXCEPT !.pc = th[p].ret, !.put = NoIno, !.ret = "user"]
    BY <1>2 DEF Return
  <2>2. th'[p].pc = th[p].ret /\ th'[p].path = th[p].path /\ th'[p].name = th[p].name
    BY <2>1 DEF Thread
  <2>3. th[p].ret \notin Putting
    BY DEF Thread, Returns, Points, Putting
  <2>4. Point(th'[p]) = Point(th[p])
    BY <2>2, <2>3 DEF Point
  <2>. QED  BY <2>2, <2>4 DEF PathKept
<1>. QED  BY <1>1, <1>2

LEMMA DownPath ==
  ASSUME CInv, PathsDown, NEW p \in Procs, DownAt(th[p]), PathStep(p)
  PROVE  DownAt(th'[p])
<1>1. th \in [Procs -> Thread] /\ th[p] \in Thread /\ ThreadOk(th[p]) /\ prog \in DOMAIN Programs
  BY DEF CInv, FInv, TypeInv, UserTypes, ControlInv
<1>2. CASE StartCall(p)
  <2>0. PICK c \in Programs[prog][p] :
          th' = [th EXCEPT ![p].call = c, ![p].path = Elements(c.path), ![p].ip = From(p, c.path),
            ![p].pc = IF c.op \in {"mkdir", "mknod", "creat", "unlink"} THEN "nameiparent" ELSE "namei"]
    BY <1>2 DEF StartCall
  <2>1. PICK s, pc, i :
          /\ s = Elements(c.path) /\ i = From(p, c.path)
          /\ pc = IF c.op \in {"mkdir", "mknod", "creat", "unlink"} THEN "nameiparent" ELSE "namei"
          /\ th' = [th EXCEPT ![p].call = c, ![p].path = s, ![p].ip = i, ![p].pc = pc]
    BY <2>0
  <2>2. Down(s)
    BY <1>1, <2>1 DEF PathsDown
  <2>3. th'[p].path = s /\ th'[p].pc = pc
    BY <1>1, <2>1 DEF Thread
  <2>. QED  BY <2>1, <2>2, <2>3 DEF DownAt, Point, Putting, Naming
<1>3. CASE WalkFails(p) \/ WalkNowhere(p)
  <2>1. PICK r : r = NotFound(p)
    OBVIOUS
  <2>2. r \notin Naming /\ IputThen(p, "ip", r)
    BY <1>3, <2>1 DEF Naming, WalkFails, WalkNowhere, Reject, NotFound
  <2>. QED  BY <1>1, <2>2, MoveKept, KeptDown DEF Naming
<1>4. CASE WalkOn(p)
  <2>1. PICK s, i : s = th[p].path /\ i = NextIno(p)
    OBVIOUS
  <2>2. /\ s # <<>> /\ th[p].pc \in {"namei", "nameiparent"}
        /\ th' = [th EXCEPT ![p].pc = "iput", ![p].put = th[p].ip, ![p].ret = th[p].pc,
                            ![p].ip = i, ![p].path = Tail(s)]
    BY <1>4, <2>1 DEF WalkOn, Walking, At
  <2>3. th'[p].pc = "iput" /\ th'[p].ret = th[p].pc /\ th'[p].path = Tail(s)
    BY <1>1, <2>2 DEF Thread
  <2>4. s \in Seq(Elems) /\ Down(s)
    BY <1>1, <2>1 DEF Thread, DownAt
  <2>5. Down(Tail(s))
    BY <2>2, <2>4, DownTail
  <2>. QED  BY <2>2, <2>3, <2>5 DEF DownAt, Point, Putting, Naming
<1>5. CASE WalkToParent(p)
  <2>1. PICK s, n : s = th[p].path /\ n = Head(s) /\ s # <<>>
    BY <1>5 DEF WalkToParent, Walking
  <2>0. th' = [th EXCEPT ![p].pc = IF th[p].call.op \in {"mkdir", "mknod", "creat"} THEN "create"
                                   ELSE th[p].call.op,
                         ![p].dp = th[p].ip, ![p].ip = NoIno, ![p].name = Head(th[p].path),
                         ![p].path = <<>>]
    BY <1>5 DEF WalkToParent
  <2>2. th'[p].path = <<>> /\ th'[p].name = n
    BY <1>1, <2>0, <2>1 DEF Thread
  <2>3. s \in Seq(Elems) /\ Down(s)
    BY <1>1, <2>1 DEF Thread, DownAt
  <2>4. n # ".."
    BY <2>1, <2>3, DownTail
  <2>. QED  BY <2>2, <2>4, DownEmpty DEF DownAt
<1>6. CASE IputLast(p) \/ IputTrunc(p) \/ IputFree(p) \/ IputInvalid(p)
  <2>1. PICK c : c \in {"itrunc", "ifree", "invalid", "drop"} /\ th' = [th EXCEPT ![p].pc = c]
    BY <1>6 DEF IputLast, IputTrunc, IputFree, IputInvalid
  <2>2. th[p].pc \in Putting
    BY <1>6 DEF IputLast, IputTrunc, IputFree, IputInvalid, Putting
  <2>. QED  BY <1>1, <2>1, <2>2, PcKept, KeptDown DEF Naming
<1>7. CASE Iput(p) \/ IputDrop(p)
  <2>1. Return(p) /\ th[p].pc \in Putting
    BY <1>7 DEF Iput, IputDrop, Putting
  <2>. QED  BY <1>1, <2>1, ReturnKept, KeptDown
<1>. QED  BY <1>2, <1>3, <1>4, <1>5, <1>6, <1>7 DEF PathStep

LEMMA DownCreate ==
  ASSUME CInv, NEW p \in Procs, CreateStep(p)
  PROVE  PathKept(p)
<1>1. th \in [Procs -> Thread] /\ th[p] \in Thread
  BY DEF CInv, FInv, TypeInv
<1>2. CASE CreateExists(p)
  <2>1. PICK d, i : th' = [th EXCEPT ![p].pc = "iput", ![p].put = d, ![p].dp = NoIno, ![p].ip = i,
                                     ![p].ret = "createfound"]
    BY <1>2 DEF CreateExists
  <2>2. th'[p].pc = "iput" /\ th'[p].ret = "createfound" /\ th'[p].path = th[p].path
    BY <1>1, <2>1 DEF Thread
  <2>. QED  BY <2>2 DEF PathKept, Point, Putting, Naming
<1>3. CASE CreateFound(p)
  <2>1. th' = [th EXCEPT ![p].pc = "opened"] \/ IputThen(p, "ip", "user")
    BY <1>3 DEF CreateFound, Hold, Reject
  <2>2. "opened" \notin Putting
    BY DEF Putting
  <2>. QED  BY <1>1, <2>1, <2>2, PcKept, MoveKept DEF Naming
<1>4. CASE CreateNew(p) \/ IallocIget(p) \/ CreateInit(p) \/ CreateLinkFails(p)
  <2>1. PICK c : c \in {"ialloc", "createinit", "createfail", "dirlink"} /\ th' = [th EXCEPT ![p].pc = c]
    BY <1>4 DEF CreateNew, IallocIget, CreateInit, CreateLinkFails, Hold
  <2>2. c \notin Putting
    BY <2>1 DEF Putting
  <2>. QED  BY <1>1, <2>1, <2>2, PcKept DEF Naming
<1>5. CASE Ialloc(p)
  <2>1. PICK i \in Inums : th' = [th EXCEPT ![p].pc = "iget", ![p].ip = i]
    BY <1>5 DEF Ialloc
  <2>2. th'[p].pc = "iget" /\ th'[p].path = th[p].path
    BY <1>1, <2>1 DEF Thread
  <2>. QED  BY <2>2 DEF PathKept, Point, Putting, Naming
<1>6. CASE IallocFails(p) \/ CreateLink(p) \/ CreateFail(p) \/ DropParent(p) \/ Made(p)
  <2>1. \E v \in {"ip", "dp", "old"}, r \in {"user", "opened", "made", "dropparent"} : IputThen(p, v, r)
    BY <1>6 DEF IallocFails, CreateLink, CreateFail, DropParent, Made, iunlockput
  <2>. QED  BY <1>1, <2>1, MoveKept DEF Naming
<1>. QED  BY <1>2, <1>3, <1>4, <1>5, <1>6 DEF CreateStep

LEMMA DownOpen ==
  ASSUME CInv, NEW p \in Procs, OpenStep(p)
  PROVE  PathKept(p)
<1>1. th \in [Procs -> Thread] /\ th[p] \in Thread
  BY DEF CInv, FInv, TypeInv
<1>2. CASE OpenLock(p) \/ OpenFails(p)
  <2>1. th' = [th EXCEPT ![p].pc = "opened"] \/ IputThen(p, "ip", "user")
    BY <1>2 DEF OpenLock, OpenFails, Hold, Reject, iunlockput
  <2>2. "opened" \notin Putting
    BY DEF Putting
  <2>. QED  BY <1>1, <2>1, <2>2, PcKept, MoveKept DEF Naming
<1>3. CASE Opened(p)
  <2>1. th'[p] = Idle
    BY <1>1, <1>3 DEF Opened
  <2>. QED  BY <2>1 DEF PathKept, Idle, Point, Putting, Naming
<1>4. CASE Chdir(p)
  <2>1. CASE IputThen(p, "ip", "user")
    BY <1>1, <2>1, MoveKept DEF Naming
  <2>2. CASE ~IputThen(p, "ip", "user")
    <3>1. th[p].pc = "namei" /\ th' = [th EXCEPT ![p].pc = "iput", ![p].put = cwd[p], ![p].ip = NoIno]
      BY <1>4, <2>2 DEF Chdir, Reject, Found, At
    <3>2. th[p].ret = "user"
      BY <3>1 DEF CInv, FInv, ControlInv, ThreadOk, Putting
    <3>3. th'[p].pc = "iput" /\ th'[p].ret = "user" /\ th'[p].path = th[p].path
      BY <1>1, <3>1, <3>2 DEF Thread
    <3>. QED  BY <3>3 DEF PathKept, Point, Putting, Naming
  <2>. QED  BY <2>1, <2>2
<1>. QED  BY <1>2, <1>3, <1>4 DEF OpenStep

LEMMA DownLink ==
  ASSUME CInv, PathsDown, NEW p \in Procs, DownAt(th[p]), LinkStep(p)
  PROVE  DownAt(th'[p])
<1>1. th \in [Procs -> Thread] /\ th[p] \in Thread
  BY DEF CInv, FInv, TypeInv
<1>2. CASE UnlinkLookup(p)
  <2>1. PICK i : th' = [th EXCEPT ![p].pc = "unlinklock", ![p].ip = i]
    BY <1>2 DEF UnlinkLookup
  <2>2. th'[p].pc = "unlinklock" /\ th'[p].path = th[p].path
    BY <1>1, <2>1 DEF Thread
  <2>. QED  BY <2>2, KeptDown DEF PathKept, Point, Putting, Naming
<1>3. CASE LinkInc(p)
  <2>1. PICK c, s, i, j : /\ c = th[p].call /\ s = Elements(c.new) /\ c.op = "link"
                          /\ th' = [th EXCEPT ![p].old = i, ![p].ip = j, ![p].pc = "nameiparent",
                                              ![p].path = s]
    BY <1>3 DEF LinkInc, Found
  <2>2. Down(s)
    <3>1. c \in Calls
      BY <1>1, <2>1 DEF Thread
    <3>2. \E k \in DOMAIN Programs, q \in Procs : c \in Programs[k][q]
      BY <2>1, <3>1 DEF Calls
    <3>. QED  BY <2>1, <3>2 DEF PathsDown
  <2>3. th'[p].pc = "nameiparent" /\ th'[p].path = s
    BY <1>1, <2>1 DEF Thread
  <2>. QED  BY <2>2, <2>3 DEF DownAt, Point, Putting, Naming
<1>4. CASE LinkStep(p) /\ ~UnlinkLookup(p) /\ ~LinkInc(p) /\ ~LinkExists(p)
  <2>1. \E v \in {"ip", "dp", "old"}, r \in {"user", "dropparent", "unlinkdec", "linkput", "linkbad"} :
          IputThen(p, v, r)
    BY <1>4 DEF LinkStep, UnlinkNothing, UnlinkNotEmpty, UnlinkEntry, UnlinkDec, LinkDir, LinkEntry,
                LinkDrop, LinkFails, LinkPut, LinkBad, Reject, iunlockput
  <2>. QED  BY <1>1, <2>1, MoveKept, KeptDown DEF Naming
<1>5. CASE LinkExists(p)
  <2>1. PICK i : th' = [th EXCEPT ![p].pc = "iput", ![p].put = i, ![p].ret = "linkdrop"]
    BY <1>5 DEF LinkExists
  <2>2. th'[p].pc = "iput" /\ th'[p].ret = "linkdrop" /\ th'[p].path = th[p].path
    BY <1>1, <2>1 DEF Thread
  <2>. QED  BY <2>2, KeptDown DEF PathKept, Point, Putting, Naming
<1>. QED  BY <1>2, <1>3, <1>4, <1>5

LEMMA DownFile ==
  ASSUME CInv, NEW p \in Procs, FileStep(p)
  PROVE  PathKept(p)
<1>1. th \in [Procs -> Thread] /\ th[p] \in Thread
  BY DEF CInv, FInv, TypeInv
<1>2. ASSUME NEW fd \in FDs, NEW r \in {"user", "exit"}, fileclose(p, fd, r) PROVE PathKept(p)
  <2>1. PICK f : f = file[ofile[p][fd]].ip
    OBVIOUS
  <2>2. \/ th' = [th EXCEPT ![p].pc = r]
        \/ th' = [th EXCEPT ![p].pc = "iput", ![p].put = f, ![p].ret = r]
    BY <1>2, <2>1 DEF fileclose
  <2>3. th'[p].path = th[p].path /\ (th'[p].pc = r \/ (th'[p].pc = "iput" /\ th'[p].ret = r))
    BY <1>1, <2>2 DEF Thread
  <2>. QED  BY <2>3 DEF PathKept, Point, Putting, Naming
<1>3. CASE Write(p) \/ Dup(p) \/ \E q \in Procs : Fork(p, q)
  <2>1. th' = th
    BY <1>3 DEF Write, Dup, Fork
  <2>. QED  BY <2>1 DEF PathKept
<1>4. CASE Close(p) \/ \E fd \in FDs : fileclose(p, fd, "exit")
  BY <1>2, <1>4 DEF Close
<1>5. CASE Exit(p) /\ ~\E fd \in FDs : fileclose(p, fd, "exit")
  <2>1. th[p].pc \in {"user", "exit"} /\ th' = [th EXCEPT ![p].pc = "iput", ![p].put = cwd[p]]
    BY <1>5 DEF Exit
  <2>2. th[p].ret = "user"
    BY <2>1 DEF CInv, FInv, ControlInv, ThreadOk, Putting
  <2>3. th'[p].pc = "iput" /\ th'[p].ret = "user" /\ th'[p].path = th[p].path
    BY <1>1, <2>1, <2>2 DEF Thread
  <2>. QED  BY <2>3 DEF PathKept, Point, Putting, Naming
<1>. QED  BY <1>3, <1>4, <1>5 DEF FileStep, Exit

LEMMA DownNext == PathsDown /\ CInv /\ PathInv /\ [FilesNext]_filesVars => PathInv'
<1> SUFFICES ASSUME PathsDown, CInv, PathInv, [FilesNext]_filesVars, NEW q \in Procs
             PROVE  DownAt(th'[q])
  BY DEF PathInv, DownAt, Point
<1>1. DownAt(th[q])
  BY DEF PathInv
<1>2. ASSUME NEW p \in Procs, PathStep(p) \/ CreateStep(p) \/ OpenStep(p) \/ LinkStep(p) \/ FileStep(p)
      PROVE  DownAt(th'[q])
  <2>1. Others(p)
    BY <1>2, PathOne, CallOne, FileOne DEF OneStep
  <2>2. CASE q = p
    BY <1>1, <1>2, <2>2, DownPath, DownCreate, DownOpen, DownLink, DownFile, KeptDown
  <2>3. CASE q # p
    BY <1>1, <2>1, <2>3 DEF Others
  <2>. QED  BY <2>2, <2>3
<1>3. CASE Crash
  <2>1. th'[q] = Idle
    BY <1>3 DEF Crash
  <2>. QED  BY <2>1, DownEmpty DEF DownAt, Idle, Point, Putting, Naming
<1>4. CASE UNCHANGED filesVars
  BY <1>1, <1>4 DEF filesVars
<1>. QED  BY <1>2, <1>3, <1>4 DEF FilesNext

LEMMA DownKeepsParents == CInv /\ PathInv => ParentKept
<1> SUFFICES ASSUME CInv, PathInv, NEW p \in Procs, NEW d \in Inums, LooksUp(p, d) PROVE FALSE
  BY DEF ParentKept
<1>1. th[p] \in Thread /\ DownAt(th[p])
  BY DEF CInv, FInv, TypeInv, PathInv
<1>2. CASE Walking(p) /\ Head(th[p].path) = ".."
  <2>1. PICK s : s = th[p].path
    OBVIOUS
  <2>2. s \in Seq(Elems) /\ s # <<>> /\ Down(s) /\ Head(s) = ".."
    BY <1>1, <1>2, <2>1 DEF Thread, Walking, DownAt
  <2>. QED  BY <2>2, DownTail
<1>3. CASE (At(p, "create") \/ At(p, "link")) /\ th[p].name = ".."
  BY <1>1, <1>3 DEF At, DownAt, Point, Putting, Naming
<1>. QED  BY <1>2, <1>3 DEF LooksUp

LEMMA DownInit == FilesInit => PathInv
<1> SUFFICES ASSUME FilesInit, NEW p \in Procs PROVE DownAt(th[p])
  BY DEF PathInv
<1>1. th[p] = Idle
  BY DEF FilesInit
<1>. QED  BY <1>1, DownEmpty DEF DownAt, Idle, Point, Putting, Naming

\* Programs whose paths only lead down never come to a directory that has gone: the
\* condition of the theorems above is met by what they may call alone.
THEOREM ParentsKept == PathsDown => (FilesSpec => []ParentKept)
<1> SUFFICES ASSUME PathsDown PROVE FilesSpec => []ParentKept
  OBVIOUS
<1>1. FilesSpec => []CInv
  BY CacheInvariant
<1>2. CInv /\ PathInv /\ [FilesNext]_filesVars => PathInv'
  BY DownNext
<1>3. FilesSpec => []PathInv
  BY <1>1, <1>2, DownInit, PTL DEF FilesSpec
<1>. QED  BY <1>1, <1>3, DownKeepsParents, PTL

\* Programs whose paths only lead down panic in no other way than by wanting an inode
\* that a full table does not hold, and never while the table has room.
THEOREM DownNeverPanics ==
  PathsDown =>
    (FilesSpec => [][PanicsFull]_filesVars /\ ([]~InodesFull => []FilesNoPanic))
<1> SUFFICES ASSUME PathsDown
             PROVE  FilesSpec => [][PanicsFull]_filesVars /\ ([]~InodesFull => []FilesNoPanic)
  OBVIOUS
<1>1. FilesSpec => []ParentKept
  BY ParentsKept
<1>. QED  BY <1>1, OnlyFullTablePanics, NoPanicWithRoom, PTL

-----------------------------------------------------------------------------
(* Directories that have a name *)

\* The root directory, and what an entry names.
Named(d) == d = ROOTINO \/ \E e \in Inums, n \in Names : ents[e][n] = d

\* Only directories that have a name have entries.
NamedInv == \A d \in Inums : ~Empty(d) => Named(d)
\* A directory has one name at most, and its ".." is the directory that this is in.
OneName ==
  \A d, e, f \in Inums, n, m \in Names :
    ents[e][n] = d /\ ents[f][m] = d /\ dinode[d].type = "dir" => e = f /\ n = m
UpInv ==
  \A d, e \in Inums, n \in Names :
    ents[e][n] = d /\ dinode[d].type = "dir" => ents[d][".."] = e
RootInv ==
  /\ \A e \in Inums, n \in Names : ents[e][n] # ROOTINO
  /\ ents[ROOTINO][".."] = ROOTINO /\ dinode[ROOTINO].type = "dir"

\* The points of create() with the directory locked in which the name was free.
MakePoints == {"ialloc", "iget", "createinit", "dirlink"}
\* What create() is making will be in a directory that has a name; what has no entry yet,
\* or no more, is empty.
Placed(t) ==
  /\ t.pc \in MakePoints => Named(t.dp) /\ t.name \in Names
  /\ MadeIp(t) \in Inums => Empty(MadeIp(t))
  /\ t.pc = "dirlink" /\ t.call.op = "mkdir" => ents[t.ip][".."] = t.dp
PlacedInv == \A p \in Procs : Placed(th[p])

NameInv == NamedInv /\ OneName /\ UpInv /\ RootInv /\ PlacedInv

\* What has a name has a link.
LEMMA NamedLink ==
  ASSUME LinkInv, DiskTypes, NEW i \in Inums, Named(i)
  PROVE  dinode[i].nlink > 0
BY RootLink, EntryLink DEF Named

LEMMA TwoClaims ==
  ASSUME LinkInv, DiskTypes, NEW i \in Inums, NEW h \in Claims, NEW k \in Claims, h # k,
         Claim[h] = i, Claim[k] = i
  PROVE  dinode[i].nlink >= 2
<1>1. PICK F, S : F = Claim /\ S = {l \in Claims : F[l] = i}
  OBVIOUS
<1>2. IsFiniteSet(S) /\ {h, k} \subseteq S
  BY <1>1, ClaimsFinite, FS_Subset
<1>3. Cardinality({h, k}) = 2
  <2>1. IsFiniteSet({h}) /\ Cardinality({h}) = 1 /\ {h, k} = {h} \cup {k} /\ k \notin {h}
    BY FS_Singleton
  <2>2. Cardinality({h} \cup {k}) = Cardinality({h}) + 1
    BY <2>1, FS_AddElement
  <2>. QED  BY <2>1, <2>2
<1>4. Cardinality({h, k}) <= Cardinality(S) /\ Cardinality(S) \in Nat
  BY <1>2, FS_Subset, FS_CardinalityType
<1>5. Count(F, i) = Cardinality(S)
  BY <1>1, ClaimsFinite DEF Count
<1>6. dinode[i].nlink >= Count(F, i) /\ dinode[i].nlink \in Int
  BY <1>1 DEF LinkInv, DiskTypes, Inode
<1>. QED  BY <1>3, <1>4, <1>5, <1>6

\* A directory with a link that is nobody's has a name.
LEMMA LiveNamed ==
  ASSUME CInv, KindInv, LinkExact, NamedInv, NEW d \in Inums, dinode[d].type = "dir",
         dinode[d].nlink > 0, \A q \in Procs : MadeIp(th[q]) # d
  PROVE  Named(d)
<1>1. PICK F : F = Claim
  OBVIOUS
<1>2. DOMAIN F = Claims /\ Finite(F) /\ d # NoIno
  BY <1>1, ClaimsFinite, FilesAssumption DEF Finite
<1>3. Count(F, d) # 0
  BY <1>1 DEF LinkExact
<1>4. PICK h \in Claims : F[h] = d
  BY <1>2, <1>3, CountType
<1>5. ASSUME NEW e \in Inums, NEW n \in Names, h = <<<<e, n>>, "entry">> \/ h = <<<<e, n>>, "up">>
      PROVE  Named(d)
  <2>1. CASE h = <<<<e, n>>, "entry">>
    <3>1. ents[e][n] = d
      BY <1>1, <1>4, <2>1, ClaimAt DEF ClaimShape
    <3>. QED  BY <3>1 DEF Named
  <2>2. CASE h = <<<<e, n>>, "up">>
    <3>1. UpLink(e, n) = d
      BY <1>1, <1>4, <2>2, ClaimAt DEF ClaimShape
    <3>2. e = d /\ ents[d][n] \in Inums
      BY <1>2, <3>1 DEF UpLink
    <3>3. ~Empty(d)
      BY <3>2, FilesAssumption DEF Empty
    <3>. QED  BY <3>3 DEF NamedInv
  <2>. QED  BY <1>5, <2>1, <2>2
<1>6. ASSUME NEW q \in Procs, h = <<q, "ip">> \/ h = <<q, "old">> PROVE FALSE
  <2>1. F[h] \in {MadeIp(th[q]), Linked(th[q])}
    BY <1>1, <1>6, ClaimAt DEF ClaimShape
  <2>2. Linked(th[q]) = d
    BY <1>4, <2>1
  <2>3. th[q].old = d
    BY <1>2, <2>2 DEF Linked
  <2>. QED  BY <2>3 DEF KindInv, NotDir
<1>7. CASE h = <<Nobody, "root">>
  <2>1. d = ROOTINO
    BY <1>1, <1>4, <1>7, ClaimAt DEF ClaimShape
  <2>. QED  BY <2>1 DEF Named
<1>. QED  BY <1>5, <1>6, <1>7, ClaimCases

LEMMA FreeNamed ==
  ASSUME CInv, KindInv, LinkExact, NamedInv, NEW d \in Inums, dinode[d].type = "dir",
         dinode[d].nlink > 0, ilk[d] = Nobody
  PROVE  Named(d)
<1>1. ASSUME NEW q \in Procs, MadeIp(th[q]) = d PROVE FALSE
  <2>1. Point(th[q]) \in LockedIp /\ th[q].ip = d
    BY <1>1, FilesAssumption DEF MadeIp, LockedIp
  <2>2. ilk[d] = q
    BY <2>1 DEF CInv, LockInv, HasLock
  <2>. QED  BY <2>2, FilesAssumption
<1>. QED  BY <1>1, LiveNamed

\* A name that is free in a directory that has one itself is neither "." nor "..".
LEMMA FreeName ==
  ASSUME DiskTypes, UpInv, RootInv, NEW d \in Inums, Named(d), dinode[d].type = "dir",
         NEW n \in Elems, Lookup(d, n) = NoIno
  PROVE  n \in Names
<1>1. NoIno \notin Inums /\ ROOTINO \in Inums
  BY FilesAssumption
<1>2. n # "."
  BY <1>1 DEF Lookup
<1>3. ASSUME n = ".." PROVE FALSE
  <2>1. ents[d][".."] = NoIno
    BY <1>3 DEF Lookup
  <2>. QED  BY <1>1, <2>1 DEF Named, UpInv, RootInv
<1>. QED  BY <1>2, <1>3 DEF Elems, Entries

-----------------------------------------------------------------------------
(* Steps that add and remove names *)

\* An inode that is no directory with a name, nor what another process makes.
Loose(p, d) ==
  /\ ~(Named(d) /\ dinode[d].type = "dir")
  /\ \A q \in Procs \ {p} : th[q].pc = "dirlink" => th[q].ip # d

\* Entries stay, and the ".." and the type of what has a name.
EntriesKept(p) ==
  /\ Entered({})
  /\ \A d \in Inums : /\ ents'[d][".."] = ents[d][".."] \/ Loose(p, d)
                      /\ dinode'[d].type = dinode[d].type \/ ~Named(d)

LEMMA NamesKept ==
  ASSUME CInv, NameInv, NEW p \in Procs, Others(p), EntriesKept(p), Placed(th[p])'
  PROVE  NameInv'
<1>1. \A e \in Inums, n \in Names : ents'[e][n] = ents[e][n]
  BY DEF EntriesKept, Entered
<1>2. (\A d : Named(d)' <=> Named(d)) /\ \A d \in Inums : Empty(d)' <=> Empty(d)
  BY <1>1 DEF Named, Empty
<1>3. NamedInv /\ OneName /\ UpInv /\ RootInv /\ PlacedInv /\ ROOTINO \in Inums
  BY FilesAssumption DEF NameInv
<1>4. NamedInv'
  BY <1>2, <1>3 DEF NamedInv
<1>5. ASSUME NEW d \in Inums, NEW e \in Inums, NEW n \in Names, ents'[e][n] = d, dinode'[d].type = "dir"
      PROVE  ents[e][n] = d /\ dinode[d].type = "dir" /\ ents'[d][".."] = ents[d][".."]
  <2>1. ents[e][n] = d /\ Named(d)
    BY <1>1, <1>5 DEF Named
  <2>2. dinode[d].type = "dir"
    BY <1>5, <2>1 DEF EntriesKept
  <2>. QED  BY <2>1, <2>2 DEF EntriesKept, Loose
<1>6. OneName'
  BY <1>3, <1>5 DEF OneName
<1>7. UpInv'
  BY <1>3, <1>5 DEF UpInv
<1>8. RootInv'
  <2>1. Named(ROOTINO) /\ dinode[ROOTINO].type = "dir"
    BY <1>3 DEF Named, RootInv
  <2>2. dinode'[ROOTINO].type = "dir" /\ ents'[ROOTINO][".."] = ents[ROOTINO][".."]
    BY <1>3, <2>1 DEF EntriesKept, Loose
  <2>. QED  BY <1>1, <1>3, <2>2 DEF RootInv
<1>9. ASSUME NEW q \in Procs, q # p PROVE Placed(th[q])'
  <2>1. th'[q] = th[q] /\ Placed(th[q])
    BY <1>3, <1>9 DEF Others, PlacedInv
  <2>2. ASSUME th[q].pc = "dirlink", th[q].call.op = "mkdir" PROVE ents'[th[q].ip][".."] = th[q].dp
    <3>1. th[q].ip \in Inums
      BY <2>2, PointRefs DEF Points, HaveIp
    <3>2. ~Loose(p, th[q].ip)
      BY <1>9, <2>2 DEF Loose
    <3>. QED  BY <2>1, <2>2, <3>1, <3>2 DEF EntriesKept, Placed
  <2>. QED  BY <1>2, <2>1, <2>2 DEF Placed
<1>10. PlacedInv'
  BY <1>9 DEF PlacedInv
<1>. QED  BY <1>4, <1>6, <1>7, <1>8, <1>10 DEF NameInv

\* A step of process p that adds or removes the name n in d.
OneEntry(p, d, n) ==
  /\ Others(p) /\ TypesSame /\ Entered({<<d, n>>})
  /\ \A e \in Inums : ents'[e][".."] = ents[e][".."]

LEMMA NameAdded ==
  ASSUME CInv, NameInv, NEW p \in Procs, NEW d \in Inums, NEW n \in Names, NEW i \in Inums,
         OneEntry(p, d, n), ents[d][n] = NoIno, ents'[d][n] = i, Named(d), ilk[d] \in {p, Nobody},
         i # ROOTINO, dinode[i].type = "dir" => ~Named(i) /\ ents[i][".."] = d, Placed(th[p])'
  PROVE  NameInv'
<1>1. \A e \in Inums, m \in Names : ents'[e][m] = ents[e][m] \/ (e = d /\ m = n)
  BY DEF OneEntry, Entered
<1>2. NamedInv /\ OneName /\ UpInv /\ RootInv /\ PlacedInv /\ NoIno \notin Inums
  BY FilesAssumption DEF NameInv
<1>3. \A x \in Inums : dinode'[x].type = dinode[x].type /\ ents'[x][".."] = ents[x][".."]
  BY DEF OneEntry, TypesSame
<1>4. ASSUME NEW x \in Inums, Named(x) PROVE Named(x)'
  BY <1>1, <1>2, <1>4 DEF Named
<1>5. ASSUME NEW x \in Inums, x # d, Empty(x) PROVE Empty(x)'
  BY <1>1, <1>5 DEF Empty
<1>6. NamedInv'
  <2>1. ASSUME NEW x \in Inums, ~Empty(x)' PROVE Named(x)'
    <3>1. x = d \/ ~Empty(x)
      BY <1>5, <2>1
    <3>. QED  BY <1>2, <1>4, <3>1 DEF NamedInv
  <2>. QED  BY <2>1 DEF NamedInv
<1>7. ASSUME NEW x \in Inums, NEW e \in Inums, NEW m \in Names, ents'[e][m] = x
      PROVE  (ents[e][m] = x /\ Named(x)) \/ (e = d /\ m = n /\ x = i)
  BY <1>1, <1>7 DEF Named
<1>8. OneName'
  <2>1. ASSUME NEW x \in Inums, NEW e \in Inums, NEW f \in Inums, NEW m \in Names, NEW k \in Names,
               ents'[e][m] = x, ents'[f][k] = x, dinode[x].type = "dir"
        PROVE  e = f /\ m = k
    <3>1. (ents[e][m] = x /\ Named(x)) \/ (e = d /\ m = n /\ x = i)
      BY <1>7, <2>1
    <3>2. (ents[f][k] = x /\ Named(x)) \/ (f = d /\ k = n /\ x = i)
      BY <1>7, <2>1
    <3>. QED  BY <1>2, <2>1, <3>1, <3>2 DEF OneName
  <2>. QED  BY <1>3, <2>1 DEF OneName
<1>9. UpInv'
  <2>1. ASSUME NEW x \in Inums, NEW e \in Inums, NEW m \in Names, ents'[e][m] = x, dinode[x].type = "dir"
        PROVE  ents[x][".."] = e
    BY <1>2, <1>7, <2>1 DEF UpInv
  <2>. QED  BY <1>3, <2>1 DEF UpInv
<1>10. RootInv'
  <2>1. ROOTINO \in Inums
    BY FilesAssumption
  <2>2. ASSUME NEW e \in Inums, NEW m \in Names PROVE ents'[e][m] # ROOTINO
    BY <1>2, <1>7, <2>1 DEF RootInv
  <2>. QED  BY <1>2, <1>3, <2>1, <2>2 DEF RootInv
<1>11. ASSUME NEW q \in Procs, q # p PROVE Placed(th[q])'
  <2>1. th'[q] = th[q] /\ Placed(th[q])
    BY <1>2, <1>11 DEF OneEntry, Others, PlacedInv
  <2>2. ASSUME th[q].pc \in MakePoints PROVE Named(th[q].dp)' /\ th[q].name \in Names
    <3>1. th[q].dp \in Inums
      BY <2>2, PointRefs DEF Points, HaveDp, MakePoints
    <3>. QED  BY <1>4, <2>1, <2>2, <3>1 DEF Placed
  <2>3. ASSUME MadeIp(th[q]) \in Inums PROVE Empty(MadeIp(th[q]))'
    <3>1. PICK x \in Inums : x = MadeIp(th[q])
      BY <2>3
    <3>2. Point(th[q]) \in LockedIp /\ th[q].ip = x
      BY <1>2, <3>1 DEF MadeIp, LockedIp
    <3>3. ilk[x] = q
      BY <3>2 DEF CInv, LockInv, HasLock
    <3>4. x # d
      BY <1>11, <3>3, FilesAssumption
    <3>5. Empty(x)'
      BY <1>5, <2>1, <3>1, <3>4 DEF Placed
    <3>. QED  BY <2>1, <3>1, <3>5
  <2>4. ASSUME th[q].pc = "dirlink" PROVE th[q].ip \in Inums
    BY <2>4, PointRefs DEF Points, HaveIp
  <2>. QED  BY <1>3, <2>1, <2>2, <2>3, <2>4 DEF Placed
<1>12. PlacedInv'
  BY <1>11 DEF PlacedInv
<1>. QED  BY <1>6, <1>8, <1>9, <1>10, <1>12 DEF NameInv

LEMMA NameRemoved ==
  ASSUME CInv, NameInv, NEW p \in Procs, NEW d \in Inums, NEW n \in Names, NEW i \in Inums,
         OneEntry(p, d, n), ents[d][n] = i, ents'[d][n] = NoIno, Empty(i), ilk[i] = Nobody,
         Placed(th[p])'
  PROVE  NameInv'
<1>1. \A e \in Inums, m \in Names : ents'[e][m] = ents[e][m] \/ (e = d /\ m = n)
  BY DEF OneEntry, Entered
<1>2. NamedInv /\ OneName /\ UpInv /\ RootInv /\ PlacedInv /\ NoIno \notin Inums
  BY FilesAssumption DEF NameInv
<1>3. \A x \in Inums : dinode'[x].type = dinode[x].type /\ ents'[x][".."] = ents[x][".."]
  BY DEF OneEntry, TypesSame
<1>4. ASSUME NEW x \in Inums, x # i, Named(x) PROVE Named(x)'
  BY <1>1, <1>2, <1>4 DEF Named
<1>5. ASSUME NEW x \in Inums, Empty(x) PROVE Empty(x)'
  BY <1>1, <1>5 DEF Empty
<1>6. NamedInv'
  <2>1. ASSUME NEW x \in Inums, ~Empty(x)' PROVE Named(x)'
    <3>1. ~Empty(x) /\ x # i
      BY <1>5, <2>1
    <3>. QED  BY <1>2, <1>4, <3>1 DEF NamedInv
  <2>. QED  BY <2>1 DEF NamedInv
<1>7. ASSUME NEW x \in Inums, NEW e \in Inums, NEW m \in Names, ents'[e][m] = x PROVE ents[e][m] = x
  BY <1>1, <1>2, <1>7
<1>8. OneName'
  BY <1>2, <1>3, <1>7 DEF OneName
<1>9. UpInv'
  BY <1>2, <1>3, <1>7 DEF UpInv
<1>10. RootInv'
  <2>1. ROOTINO \in Inums
    BY FilesAssumption
  <2>. QED  BY <1>2, <1>3, <1>7, <2>1 DEF RootInv
<1>11. ASSUME NEW q \in Procs, q # p PROVE Placed(th[q])'
  <2>1. th'[q] = th[q] /\ Placed(th[q])
    BY <1>2, <1>11 DEF OneEntry, Others, PlacedInv
  <2>2. ASSUME th[q].pc \in MakePoints PROVE Named(th[q].dp)' /\ th[q].name \in Names
    <3>1. th[q].dp \in Inums
      BY <2>2, PointRefs DEF Points, HaveDp, MakePoints
    <3>2. HasLock(th[q], th[q].dp)
      BY <2>2 DEF HasLock, Point, Putting, LockedDp, MakePoints
    <3>3. th[q].dp # i
      BY <3>1, <3>2, FilesAssumption DEF CInv, LockInv
    <3>. QED  BY <1>4, <2>1, <2>2, <3>1, <3>3 DEF Placed
  <2>3. ASSUME MadeIp(th[q]) \in Inums PROVE Empty(MadeIp(th[q]))'
    BY <1>5, <2>1, <2>3 DEF Placed
  <2>4. ASSUME th[q].pc = "dirlink" PROVE th[q].ip \in Inums
    BY <2>4, PointRefs DEF Points, HaveIp
  <2>. QED  BY <1>3, <2>1, <2>2, <2>3, <2>4 DEF Placed
<1>12. PlacedInv'
  BY <1>11 DEF PlacedInv
<1>. QED  BY <1>6, <1>8, <1>9, <1>10, <1>12 DEF NameInv

-----------------------------------------------------------------------------
(* Every step and the names *)

LEMMA NamesSettled ==
  ASSUME CInv, NameInv, NEW p \in Procs, Others(p), TypesSame, ents' = ents,
         th'[p].pc \notin MakePoints, MadeIp(th'[p]) \in {MadeIp(th[p]), NoIno}
  PROVE  NameInv'
<1>1. EntriesKept(p)
  BY DEF EntriesKept, Entered, TypesSame
<1>2. Placed(th[p])'
  <2>1. th'[p].pc # "dirlink"
    BY DEF MakePoints
  <2>2. ASSUME MadeIp(th'[p]) \in Inums PROVE \A n \in Names : ents'[MadeIp(th'[p])][n] = NoIno
    <3>1. MadeIp(th'[p]) = MadeIp(th[p])
      BY <2>2, FilesAssumption
    <3>2. Empty(MadeIp(th[p]))
      BY <2>2, <3>1 DEF NameInv, PlacedInv, Placed
    <3>. QED  BY <3>1, <3>2 DEF Empty
  <2>. QED  BY <2>1, <2>2 DEF Placed, Empty
<1>. QED  BY <1>1, <1>2, NamesKept

LEMMA PlainNames ==
  ASSUME CInv, NameInv, NEW p \in Procs, Plain(p), ents' = ents, th'[p].pc \notin MakePoints
  PROVE  NameInv'
BY NamesSettled DEF Plain, Ordinary, SameClaims

\* iput() of something, after which create() and unlink() have made nothing.
LEMMA PutNames ==
  ASSUME CInv, NameInv, NEW p \in Procs, NEW v \in {"ip", "dp", "old"},
         NEW r, r \notin {"dirlink", "createfail", "unlinkdec"}, IputThen(p, v, r),
         TypesSame, ents' = ents
  PROVE  NameInv'
<1>1. Others(p) /\ th'[p].pc = "iput" /\ Point(th'[p]) = r
  BY PutLocks DEF CInv, FInv
<1>2. MadeIp(th'[p]) = NoIno /\ th'[p].pc \notin MakePoints
  BY <1>1 DEF MadeIp, MakePoints
<1>. QED  BY <1>1, <1>2, NamesSettled

\* An inode that its process owns has no name and no entries, and is not what another makes.
LEMMA OwnedLoose ==
  ASSUME CInv, NInv, NameInv, NEW p \in Procs, NEW i \in Inums, Owns(th[p], i)
  PROVE  ~Named(i) /\ Empty(i) /\ Loose(p, i)
<1>1. Alone(p, i) /\ AloneInv /\ LinkInv /\ DiskTypes /\ NamedInv
  BY DEF NInv, UseInv, AloneInv, CInv, FInv, TypeInv, NameInv
<1>2. ~Named(i)
  BY <1>1, NamedLink DEF Alone
<1>3. Empty(i)
  BY <1>1, <1>2 DEF NamedInv
<1>4. \A q \in Procs \ {p} : th[q].pc = "dirlink" => th[q].ip # i
  BY <1>1, OwnedApart DEF NewPoints
<1>. QED  BY <1>2, <1>3, <1>4 DEF Loose

LEMMA PathSame ==
  ASSUME CInv, NEW p \in Procs, PathStep(p), ~IputTrunc(p)
  PROVE  ents' = ents /\ th'[p].pc \notin MakePoints
<1>1. th \in [Procs -> Thread] /\ th[p] \in Thread
  BY DEF CInv, FInv, TypeInv
<1>2. ents' = ents
  BY DEF PathStep, StartCall, WalkFails, WalkOn, WalkToParent, WalkNowhere, Reject, IputLast, Iput,
         IputFree, IputInvalid, IputDrop, disk
<1>3. CASE StartCall(p)
  <2>0. PICK c \in Programs[prog][p] :
          th' = [th EXCEPT ![p].call = c, ![p].path = Elements(c.path), ![p].ip = From(p, c.path),
            ![p].pc = IF c.op \in {"mkdir", "mknod", "creat", "unlink"} THEN "nameiparent" ELSE "namei"]
    BY <1>3 DEF StartCall
  <2>1. PICK s, pc, i :
          /\ pc = IF c.op \in {"mkdir", "mknod", "creat", "unlink"} THEN "nameiparent" ELSE "namei"
          /\ th' = [th EXCEPT ![p].call = c, ![p].path = s, ![p].ip = i, ![p].pc = pc]
    BY <2>0
  <2>2. th'[p].pc = pc
    BY <1>1, <2>1 DEF Thread
  <2>. QED  BY <1>2, <2>1, <2>2 DEF MakePoints
<1>4. CASE WalkFails(p) \/ WalkNowhere(p)
  <2>1. PICK r : IputThen(p, "ip", r)
    BY <1>4 DEF WalkFails, WalkNowhere, Reject
  <2>2. th'[p].pc = "iput"
    BY <2>1, PutLocks DEF CInv, FInv
  <2>. QED  BY <1>2, <2>2 DEF MakePoints
<1>5. CASE WalkOn(p)
  <2>1. PICK s, i, j, c : th' = [th EXCEPT ![p].pc = "iput", ![p].put = j, ![p].ret = c,
                                           ![p].ip = i, ![p].path = Tail(s)]
    BY <1>5 DEF WalkOn
  <2>2. th'[p].pc = "iput"
    BY <1>1, <2>1 DEF Thread
  <2>. QED  BY <1>2, <2>2 DEF MakePoints
<1>6. CASE WalkToParent(p)
  <2>1. PICK op, c, d, n : /\ op = th[p].call.op
                           /\ c = IF op \in {"mkdir", "mknod", "creat"} THEN "create" ELSE op
                           /\ th' = [th EXCEPT ![p].pc = c, ![p].dp = d, ![p].ip = NoIno,
                                               ![p].name = n, ![p].path = <<>>]
    BY <1>6 DEF WalkToParent
  <2>2. th'[p].pc = c
    BY <1>1, <2>1 DEF Thread
  <2>3. th[p].pc = "nameiparent"
    BY <1>6 DEF WalkToParent, AtLast
  <2>4. op \in {"mkdir", "mknod", "creat", "unlink", "link"}
    BY <2>1, <2>3 DEF CInv, FInv, ControlInv, ThreadOk, Point, Putting
  <2>. QED  BY <1>2, <2>1, <2>2, <2>4 DEF MakePoints
<1>7. CASE IputLast(p) \/ IputFree(p) \/ IputInvalid(p)
  <2>1. PICK c : c \in {"itrunc", "invalid", "drop"} /\ th' = [th EXCEPT ![p].pc = c]
    BY <1>7 DEF IputLast, IputFree, IputInvalid
  <2>2. th'[p].pc = c
    BY <1>1, <2>1 DEF Thread
  <2>. QED  BY <1>2, <2>1, <2>2 DEF MakePoints
<1>8. CASE Iput(p) \/ IputDrop(p)
  <2>1. Return(p)
    BY <1>8 DEF Iput, IputDrop
  <2>2. th'[p].pc = th[p].ret
    BY <1>1, <2>1 DEF Return, Thread, Idle
  <2>. QED  BY <1>1, <1>2, <2>2 DEF Thread, Returns, Points, MakePoints
<1>. QED  BY <1>3, <1>4, <1>5, <1>6, <1>7, <1>8 DEF PathStep

\* Only the point in iput() changes.
LEMMA InsidePlaced ==
  ASSUME CInv, NEW p \in Procs, NEW c \in Putting, th' = [th EXCEPT ![p].pc = c], th[p].pc \in Putting
  PROVE  Others(p) /\ MadeIp(th'[p]) = MadeIp(th[p]) /\ th'[p].pc = c /\ c \notin MakePoints
<1>1. th \in [Procs -> Thread]
  BY DEF CInv, FInv, TypeInv
<1>2. th'[p].pc = c /\ th'[p].ret = th[p].ret /\ th'[p].ip = th[p].ip /\ Others(p)
  BY <1>1 DEF Thread, Others
<1>. QED  BY <1>2 DEF MadeIp, Point, MakePoints, Putting

LEMMA PathNames ==
  ASSUME CInv, TreeInv, NInv, ParentKept, NameInv, ~panicked, NEW p \in Procs, PathStep(p)
  PROVE  NameInv'
<1>1. LinkInv /\ UseInv /\ DiskTypes /\ itab \in [Inums -> Entry]
  BY DEF NInv, CInv, FInv, TypeInv
<1>2. CASE StartCall(p) \/ WalkFails(p) \/ WalkOn(p) \/ WalkToParent(p) \/ WalkNowhere(p)
  <2>1. Plain(p)
    BY <1>1, <1>2, PlainStart, PlainWalk
  <2>3. ~IputTrunc(p)
    <3>1. th[p].pc # "itrunc"
      BY <1>2 DEF StartCall, WalkFails, WalkOn, WalkToParent, WalkNowhere, Walking, At
    <3>. QED  BY <3>1 DEF IputTrunc
  <2>4. ents' = ents /\ th'[p].pc \notin MakePoints
    BY <2>3, PathSame
  <2>. QED  BY <2>1, <2>4, PlainNames
<1>3. CASE Iput(p) \/ IputDrop(p)
  <2>1. /\ Return(p) /\ th[p].pc \in {"iput", "drop"}
        /\ itab' = [itab EXCEPT ![th[p].put].ref = @ - 1] /\ UNCHANGED <<disk, ilk, user>>
    BY <1>3 DEF Iput, IputDrop
  <2>2. Plain(p)
    BY <2>1, PlainReturn
  <2>3. ~IputTrunc(p)
    BY <2>1 DEF IputTrunc
  <2>4. ents' = ents /\ th'[p].pc \notin MakePoints
    BY <2>3, PathSame
  <2>. QED  BY <2>2, <2>4, PlainNames
<1>4. CASE IputLast(p) \/ IputInvalid(p)
  <2>1. /\ th' = [th EXCEPT ![p].pc = "itrunc"] \/ th' = [th EXCEPT ![p].pc = "drop"]
        /\ th[p].pc \in Putting /\ dinode' = dinode /\ ents' = ents
    BY <1>4 DEF IputLast, IputInvalid, disk, Putting
  <2>2. PICK c \in {"itrunc", "drop"} : th' = [th EXCEPT ![p].pc = c]
    BY <2>1
  <2>3. c \in Putting
    BY DEF Putting
  <2>4. Others(p) /\ MadeIp(th'[p]) = MadeIp(th[p]) /\ th'[p].pc \notin MakePoints
    BY <2>1, <2>2, <2>3, InsidePlaced
  <2>. QED  BY <2>1, <2>4, DiskSame, NamesSettled
<1>5. CASE IputTrunc(p) \/ IputFree(p)
  <2>0. \/ /\ th[p].pc = "itrunc" /\ itrunc(th[p].put) /\ th' = [th EXCEPT ![p].pc = "ifree"]
        \/ /\ th[p].pc = "ifree" /\ th' = [th EXCEPT ![p].pc = "invalid"] /\ ents' = ents
           /\ Update(th[p].put, [itab[th[p].put].d EXCEPT !.type = "free"])
    BY <1>5 DEF IputTrunc, IputFree
  <2>1. PICK i, c : /\ i = th[p].put /\ th[p].pc \in {"itrunc", "ifree"} /\ c \in {"ifree", "invalid"}
                    /\ th' = [th EXCEPT ![p].pc = c]
                    /\ \/ th[p].pc = "itrunc" /\ itrunc(i)
                       \/ Update(i, [itab[i].d EXCEPT !.type = "free"]) /\ ents' = ents
    BY <2>0
  <2>2. i \in Inums /\ HasLock(th[p], i) /\ Owns(th[p], i) /\ th[p].pc \in Putting /\ c \in Putting
    BY <2>1 DEF CInv, FInv, ControlInv, ThreadOk, Putting, HasLock, Freeing, Owns
  <2>3. ~Named(i) /\ Empty(i) /\ Loose(p, i)
    BY <2>2, OwnedLoose
  <2>4. Others(p) /\ MadeIp(th'[p]) = MadeIp(th[p]) /\ th'[p].pc \notin MakePoints
    BY <2>1, <2>2, InsidePlaced
  <2>5. /\ \A d \in Inums \ {i} : ents'[d] = ents[d] /\ dinode'[d] = dinode[d]
        /\ \A n \in Names : ents'[i][n] = NoIno
    <3>1. CASE itrunc(i)
      <4>1. Empty(i)'
        BY <2>1, <2>2, <3>1, ItruncTree
      <4>. QED  BY <1>1, <2>2, <3>1, <4>1 DEF itrunc, Update, DiskTypes, Empty
    <3>2. CASE Update(i, [itab[i].d EXCEPT !.type = "free"]) /\ ents' = ents
      BY <1>1, <2>2, <2>3, <3>2 DEF Update, DiskTypes, Empty
    <3>. QED  BY <2>1, <3>1, <3>2
  <2>6. \A d \in Inums, n \in Names : ents'[d][n] = ents[d][n]
    BY <2>3, <2>5 DEF Empty
  <2>7. EntriesKept(p)
    BY <2>3, <2>5, <2>6 DEF EntriesKept, Entered
  <2>8. Placed(th[p])'
    <3>1. ASSUME MadeIp(th'[p]) \in Inums PROVE \A n \in Names : ents'[MadeIp(th'[p])][n] = NoIno
      <4>1. PICK x \in Inums : x = MadeIp(th[p]) /\ x = MadeIp(th'[p])
        BY <2>4, <3>1
      <4>2. Empty(x)
        BY <4>1 DEF NameInv, PlacedInv, Placed
      <4>. QED  BY <2>6, <4>1, <4>2 DEF Empty
    <3>. QED  BY <2>4, <3>1 DEF Placed, MakePoints, Empty
  <2>. QED  BY <2>4, <2>7, <2>8, NamesKept
<1>. QED  BY <1>2, <1>3, <1>4, <1>5 DEF PathStep

\* Whoever is to make an entry finds that the directory still has a link when he locks it.
\* (create() and link() do not look: the directory may have gone since nameiparent() has
\* given up its lock.)
MadeLive ==
  \A p \in Procs :
    (At(p, "create") \/ At(p, "link")) /\ Lookup(th[p].dp, th[p].name) = NoIno =>
      dinode[th[p].dp].nlink > 0

\* Such a directory has a name, and the name that is free in it is an ordinary one.
LEMMA MadeInNamed ==
  ASSUME CInv, TreeInv, LinkExact, NameInv, MadeLive, NEW p \in Procs,
         At(p, "create") \/ At(p, "link"), Lookup(th[p].dp, th[p].name) = NoIno
  PROVE  /\ th[p].dp \in Inums /\ ilk[th[p].dp] = Nobody
         /\ Named(th[p].dp) /\ dinode[th[p].dp].type = "dir" /\ th[p].name \in Names
<1>1. PICK d, n : d = th[p].dp /\ n = th[p].name
  OBVIOUS
<1>2. th[p].pc \in {"create", "link"} /\ ilk[d] = Nobody
  BY <1>1 DEF At, WaitsFor
<1>3. d \in Inums /\ n \in Elems /\ DiskTypes
  BY <1>1, <1>2, PointRefs DEF Points, HaveDp, Thread
<1>4. dinode[d].type = "dir" /\ KindInv
  BY <1>1, <1>3 DEF TreeInv, KindInv, IsDir
<1>5. dinode[d].nlink > 0
  BY <1>1 DEF MadeLive
<1>6. NamedInv /\ UpInv /\ RootInv
  BY DEF NameInv
<1>7. Named(d)
  BY <1>2, <1>3, <1>4, <1>5, <1>6, FreeNamed
<1>8. Lookup(d, n) = NoIno
  BY <1>1
<1>9. n \in Names
  BY <1>3, <1>4, <1>6, <1>7, <1>8, FreeName
<1>. QED  BY <1>1, <1>2, <1>3, <1>4, <1>7, <1>9

\* The disk stays as it is, and create() goes on.
LEMMA MakingNames ==
  ASSUME CInv, NameInv, NEW p \in Procs, Others(p), TypesSame \/ EntriesKept(p), ents' = ents,
         th'[p].pc \in {"ialloc", "iget", "createinit"},
         th'[p].dp = th[p].dp, th'[p].name = th[p].name, Named(th[p].dp), th[p].name \in Names
  PROVE  NameInv'
<1>1. EntriesKept(p)
  BY DEF EntriesKept, Entered, TypesSame
<1>2. \A d : Named(d)' <=> Named(d)
  BY DEF Named
<1>3. MadeIp(th'[p]) = NoIno /\ NoIno \notin Inums
  BY FilesAssumption DEF MadeIp, Point, Putting
<1>4. Placed(th[p])'
  BY <1>2, <1>3 DEF Placed
<1>. QED  BY <1>1, <1>4, NamesKept

LEMMA CreateNewNames ==
  ASSUME CInv, TreeInv, LinkExact, NameInv, MadeLive, NEW p \in Procs, CreateNew(p)
  PROVE  NameInv'
<1>1. /\ At(p, "create") /\ Lookup(th[p].dp, th[p].name) = NoIno
      /\ th' = [th EXCEPT ![p].pc = "ialloc"] /\ dinode' = dinode /\ ents' = ents
  BY DEF CreateNew, Hold, disk
<1>2. Named(th[p].dp) /\ th[p].name \in Names
  BY <1>1, MadeInNamed
<1>3. th \in [Procs -> Thread]
  BY DEF CInv, FInv, TypeInv
<1>4. /\ Others(p) /\ th'[p].pc = "ialloc" /\ th'[p].dp = th[p].dp /\ th'[p].name = th[p].name
  BY <1>1, <1>3 DEF Thread, Others
<1>. QED  BY <1>1, <1>2, <1>4, DiskSame, MakingNames

LEMMA IallocNames ==
  ASSUME CInv, NInv, NameInv, NEW p \in Procs, Ialloc(p) \/ IallocIget(p)
  PROVE  NameInv'
<1>1. th \in [Procs -> Thread] /\ DiskTypes /\ LinkInv /\ TypedInv
  BY DEF CInv, FInv, TypeInv, NInv, UseInv
<1>2. th[p].pc \in {"ialloc", "iget"} /\ ents' = ents
  BY DEF Ialloc, IallocIget, disk
<1>3. Named(th[p].dp) /\ th[p].name \in Names
  BY <1>2 DEF NameInv, PlacedInv, Placed, MakePoints
<1>4. CASE Ialloc(p)
  <2>1. PICK i \in Inums :
          /\ dinode[i].type = "free" /\ th' = [th EXCEPT ![p].pc = "iget", ![p].ip = i]
          /\ dinode' = [dinode EXCEPT ![i] = [NoInode EXCEPT !.type = NewType(p)]]
    BY <1>4 DEF Ialloc
  <2>2. ~Named(i)
    BY <1>1, <2>1, NamedLink DEF TypedInv
  <2>3. \A d \in Inums \ {i} : dinode'[d] = dinode[d]
    BY <1>1, <2>1 DEF DiskTypes
  <2>4. EntriesKept(p)
    BY <1>2, <2>2, <2>3 DEF EntriesKept, Entered
  <2>5. Others(p) /\ th'[p].pc = "iget" /\ th'[p].dp = th[p].dp /\ th'[p].name = th[p].name
    BY <1>1, <2>1 DEF Thread, Others
  <2>. QED  BY <1>2, <1>3, <2>4, <2>5, MakingNames
<1>5. CASE IallocIget(p)
  <2>1. th' = [th EXCEPT ![p].pc = "createinit"] /\ dinode' = dinode
    BY <1>5 DEF IallocIget, disk
  <2>2. Others(p) /\ th'[p].pc = "createinit" /\ th'[p].dp = th[p].dp /\ th'[p].name = th[p].name
    BY <1>1, <2>1 DEF Thread, Others
  <2>. QED  BY <1>2, <1>3, <2>1, <2>2, DiskSame, MakingNames
<1>. QED  BY <1>4, <1>5

LEMMA CreateInitNames ==
  ASSUME CInv, NInv, NameInv, ~panicked, NEW p \in Procs, CreateInit(p)
  PROVE  NameInv'
<1>1. PICK t, u, i, e : t = th[p] /\ u = th'[p] /\ i = th[p].ip /\ e = th[p].dp
  OBVIOUS
<1>2. PICK full, new : /\ full = (NewType(p) = "dir" /\ Unused = {})
                       /\ new = IF NewType(p) = "dir" /\ ~full THEN {balloc} ELSE {}
  OBVIOUS
<1>3. PICK d, c : /\ d = [Loaded(i) EXCEPT !.nlink = 1, !.addrs = Loaded(i).addrs \cup new,
                                            !.size = IF new = {} THEN Loaded(i).size ELSE 2]
                  /\ c = IF full THEN "createfail" ELSE "dirlink"
  OBVIOUS
<1>4. /\ t.pc = "createinit" /\ ilk[i] = Nobody /\ Update(i, d)
      /\ ents' = IF new = {} THEN ents ELSE [ents EXCEPT ![i][".."] = e]
      /\ th' = [th EXCEPT ![p].pc = c]
  BY <1>1, <1>2, <1>3 DEF CreateInit, At, WaitsFor
<1>5. th \in [Procs -> Thread] /\ t \in Thread /\ i \in Inums /\ e \in Inums /\ DiskTypes
  BY <1>1, <1>4, PointRefs DEF Points, HaveIp, HaveDp
<1>6. u.pc = c /\ u.ip = i /\ u.dp = e /\ u.call = t.call /\ u.name = t.name /\ Others(p)
  BY <1>1, <1>4, <1>5 DEF Thread, Others
<1>7. Owns(th[p], i)
  BY <1>1, <1>4 DEF Owns
<1>8. ~Named(i) /\ Empty(i) /\ Loose(p, i)
  BY <1>5, <1>7, OwnedLoose
<1>9. \A x \in Inums \ {i} : dinode'[x] = dinode[x] /\ ents'[x] = ents[x]
  BY <1>4, <1>5 DEF Update, DiskTypes
<1>10. \A n \in Names : ents'[i][n] = ents[i][n]
  BY <1>4, <1>5, NamesAssumption DEF DiskTypes, Entries
<1>11. Entered({})
  BY <1>9, <1>10 DEF Entered
<1>12. EntriesKept(p)
  BY <1>8, <1>9, <1>11 DEF EntriesKept
<1>13. Named(e) /\ t.name \in Names
  BY <1>1, <1>4 DEF NameInv, PlacedInv, Placed, MakePoints
<1>14. Named(e)' /\ Empty(i)'
  <2>1. \A x \in Inums, n \in Names : ents'[x][n] = ents[x][n]
    BY <1>9, <1>10
  <2>2. Named(e)'
    BY <1>13, <2>1 DEF Named
  <2>3. Empty(i)'
    BY <1>5, <1>8, <2>1 DEF Empty
  <2>. QED  BY <2>2, <2>3
<1>15. c \in {"createfail", "dirlink"}
  BY <1>3
<1>16. MadeIp(u) = i
  BY <1>6, <1>15 DEF MadeIp, Point, Putting
<1>17. ASSUME c = "dirlink", t.call.op = "mkdir" PROVE ents'[i][".."] = e
  <2>1. NewType(p) = "dir" /\ new # {}
    BY <1>1, <1>2, <1>3, <1>17 DEF NewType
  <2>. QED  BY <1>4, <1>5, <2>1 DEF DiskTypes, Entries
<1>18. Placed(th[p])'
  BY <1>1, <1>6, <1>13, <1>14, <1>16, <1>17 DEF Placed
<1>. QED  BY <1>6, <1>12, <1>18, NamesKept

\* What create() makes has no name before it gets its entry.
LEMMA MadeUnnamed ==
  ASSUME CInv, NInv, NEW p \in Procs, th[p].pc = "dirlink"
  PROVE  th[p].ip \in Inums /\ ~Named(th[p].ip)
<1>1. PICK i, h : i = th[p].ip /\ h = <<p, "ip">>
  OBVIOUS
<1>2. i \in Inums /\ LinkInv /\ DiskTypes /\ MadeInv
  BY <1>1, PointRefs DEF Points, HaveIp, NInv, UseInv
<1>3. h \in Claims /\ Claim[h] = i
  BY <1>1, ClaimAt DEF ClaimShape, MadeIp, Point, Putting
<1>4. dinode[i].nlink = 1
  BY <1>1 DEF MadeInv, NInv, UseInv
<1>5. ASSUME NEW k \in Claims, k # h, Claim[k] = i PROVE FALSE
  BY <1>2, <1>3, <1>4, <1>5, TwoClaims
<1>6. i # ROOTINO
  <2>1. <<Nobody, "root">> \in Claims /\ Claim[<<Nobody, "root">>] = ROOTINO /\ <<Nobody, "root">> # h
    BY <1>1, ClaimAt DEF ClaimShape
  <2>. QED  BY <1>5, <2>1
<1>7. ASSUME NEW e \in Inums, NEW n \in Names, ents[e][n] = i PROVE FALSE
  <2>1. <<<<e, n>>, "entry">> \in Claims /\ Claim[<<<<e, n>>, "entry">>] = i /\ <<<<e, n>>, "entry">> # h
    BY <1>1, <1>7, ClaimAt DEF ClaimShape
  <2>. QED  BY <1>5, <2>1
<1>. QED  BY <1>1, <1>2, <1>6, <1>7 DEF Named

\* dirlink() writes one entry.
LEMMA DirlinkNames ==
  ASSUME CInv, NameInv, ~panicked, NEW p \in Procs, NEW d \in Inums, NEW n \in Names, NEW i \in Inums,
         NEW k \in Int, dirlink(d, n, i, k), CanLink(d, n), Loaded(d) = dinode[d], Named(d),
         ilk[d] \in {p, Nobody}, i # ROOTINO, dinode[i].type = "dir" => ~Named(i) /\ ents[i][".."] = d,
         NEW v \in {"ip", "dp", "old"}, NEW r \in {"opened", "made", "linkput"}, IputThen(p, v, r)
  PROVE  NameInv'
<1>1. Others(p) /\ th'[p].pc = "iput" /\ Point(th'[p]) = r
  BY PutLocks DEF CInv, FInv
<1>2. n \in Elems /\ n # ".." /\ DiskTypes /\ NoIno \notin Inums
  BY NamesAssumption, FilesAssumption DEF Elems, Entries, CInv, FInv, TypeInv
<1>3. TypesSame /\ Entered({<<d, n>>}) /\ ents[d][n] = NoIno /\ ents'[d][n] = i
  <2>1. /\ TypesSame /\ TabRead /\ itab'[d].valid
        /\ \A j \in Inums : dinode'[j].nlink = dinode[j].nlink + (IF j = d THEN k ELSE 0)
        /\ n \in Names => Entered({<<d, n>>}) /\ ents[d][n] = NoIno /\ ents'[d][n] = i
        /\ n \notin Names => Entered({})
    BY <1>2, DirlinkLinks
  <2>. QED  BY <2>1
<1>4. \A e \in Inums : ents'[e][".."] = ents[e][".."]
  BY <1>2 DEF dirlink, DiskTypes, Entries
<1>5. OneEntry(p, d, n)
  BY <1>1, <1>3, <1>4 DEF OneEntry
<1>6. Placed(th[p])'
  <2>1. MadeIp(th'[p]) = NoIno
    BY <1>1 DEF MadeIp
  <2>. QED  BY <1>1, <1>2, <2>1 DEF Placed, MakePoints
<1>. QED  BY <1>3, <1>5, <1>6, NameAdded

LEMMA CreateLinkNames ==
  ASSUME CInv, NInv, NameInv, ~panicked, NEW p \in Procs, CreateLink(p)
  PROVE  NameInv'
<1>1. PICK t, d, n, i, k, r :
        /\ t = th[p] /\ d = th[p].dp /\ n = th[p].name /\ i = th[p].ip
        /\ k = ParentLink(NewType(p)) /\ r = (IF NewType(p) = "file" THEN "opened" ELSE "made")
  OBVIOUS
<1>2. /\ t.pc = "dirlink" /\ CanLink(d, n) /\ dirlink(d, n, i, k) /\ IputThen(p, "dp", r)
      /\ r \in {"opened", "made", "linkput"}
  BY <1>1 DEF CreateLink
<1>3. i \in Inums /\ d \in Inums /\ k \in Int /\ ~Named(i)
  BY <1>1, <1>2, PointRefs, MadeUnnamed DEF Points, HaveDp, ParentLink
<1>4. ilk[d] = p /\ Loaded(d) = dinode[d]
  BY <1>1, <1>2, <1>3, MineLoaded DEF LockedDp, Putting
<1>5. Named(d) /\ n \in Names
  BY <1>1, <1>2 DEF NameInv, PlacedInv, Placed, MakePoints
<1>6. ASSUME dinode[i].type = "dir" PROVE ents[i][".."] = d
  <2>1. NewType(p) = "dir"
    BY <1>1, <1>2, <1>6 DEF NInv, UseInv, MadeInv
  <2>2. t.call.op = "mkdir"
    BY <1>1, <2>1 DEF NewType
  <2>. QED  BY <1>1, <1>2, <2>2 DEF NameInv, PlacedInv, Placed
<1>7. i # ROOTINO
  BY <1>3 DEF Named
<1>. QED  BY <1>2, <1>3, <1>4, <1>5, <1>6, <1>7, DirlinkNames

LEMMA LinkEntryNames ==
  ASSUME CInv, TreeInv, LinkExact, NameInv, MadeLive, ~panicked, NEW p \in Procs, LinkEntry(p)
  PROVE  NameInv' /\ th[p].name \in Names
<1>1. PICK t, d, n, i : t = th[p] /\ d = th[p].dp /\ n = th[p].name /\ i = th[p].old
  OBVIOUS
<1>2. /\ At(p, "link") /\ t.pc = "link" /\ CanLink(d, n) /\ dirlink(d, n, i, 0)
      /\ IputThen(p, "dp", "linkput")
  BY <1>1 DEF LinkEntry, At
<1>3. Lookup(d, n) = NoIno
  BY <1>2 DEF CanLink
<1>4. d \in Inums /\ ilk[d] = Nobody /\ Named(d) /\ n \in Names
  BY <1>1, <1>2, <1>3, MadeInNamed
<1>5. i \in Inums /\ 0 \in Int
  BY <1>1, <1>2, PointRefs DEF Points, HaveOld
<1>6. Loaded(d) = dinode[d]
  <2>1. Refers(th[p], d)
    BY <1>1 DEF Refers
  <2>. QED  BY <1>4, <2>1, FreeLoaded
<1>7. dinode[i].type # "dir" /\ i # ROOTINO
  BY <1>1, <1>5 DEF TreeInv, KindInv, NotDir, NameInv, RootInv
<1>8. NameInv'
  BY <1>2, <1>4, <1>5, <1>6, <1>7, DirlinkNames
<1>. QED  BY <1>1, <1>4, <1>8

LEMMA PutSame ==
  ASSUME CInv, NEW p \in Procs, NEW v \in {"ip", "dp", "old"}, NEW r, Reject(p, v, r) \/ iunlockput(p, v, r)
  PROVE  ents' = ents /\ th'[p].pc \notin MakePoints
<1>1. IputThen(p, v, r) /\ ents' = ents
  BY DEF Reject, iunlockput, disk
<1>2. th'[p].pc = "iput"
  BY <1>1, PutLocks DEF CInv, FInv
<1>. QED  BY <1>1, <1>2 DEF MakePoints

LEMMA HoldSame ==
  ASSUME CInv, NEW p \in Procs, NEW v, NEW c, Hold(p, v, c), c \notin MakePoints
  PROVE  ents' = ents /\ th'[p].pc \notin MakePoints
<1>1. th' = [th EXCEPT ![p].pc = c] /\ ents' = ents
  BY DEF Hold, disk
<1>2. th'[p].pc = c
  BY <1>1 DEF CInv, FInv, TypeInv, Thread
<1>. QED  BY <1>1, <1>2

LEMMA CreateNames ==
  ASSUME CInv, TreeInv, NInv, ParentKept, LinkExact, NameInv, MadeLive, ~panicked, NEW p \in Procs,
         CreateStep(p)
  PROVE  NameInv'
<1>1. LinkInv /\ UseInv /\ MadeInv /\ th \in [Procs -> Thread]
  BY DEF NInv, UseInv, CInv, FInv, TypeInv
<1>2. CASE CreateFound(p) \/ IallocFails(p) \/ DropParent(p) \/ Made(p)
  <2>1. Plain(p)
    BY <1>2, PlainCreate
  <2>2. /\ "opened" \notin MakePoints
        /\ \/ Hold(p, "ip", "opened")
           \/ \E v \in {"ip", "dp", "old"} : Reject(p, v, "user") \/ iunlockput(p, v, "user")
    BY <1>2 DEF CreateFound, IallocFails, DropParent, Made, MakePoints
  <2>3. ents' = ents /\ th'[p].pc \notin MakePoints
    BY <2>2, PutSame, HoldSame
  <2>. QED  BY <2>1, <2>3, PlainNames
<1>3. CASE CreateExists(p)
  <2>1. Plain(p)
    BY <1>1, <1>3, PlainExists
  <2>2. PICK i, d : /\ th' = [th EXCEPT ![p].pc = "iput", ![p].put = d, ![p].dp = NoIno, ![p].ip = i,
                                        ![p].ret = "createfound"]
                    /\ ents' = ents
    BY <1>3 DEF CreateExists, disk
  <2>3. th'[p].pc = "iput"
    BY <1>1, <2>2 DEF Thread
  <2>4. th'[p].pc \notin MakePoints
    BY <2>3 DEF MakePoints
  <2>. QED  BY <2>1, <2>2, <2>4, PlainNames
<1>4. CASE CreateLinkFails(p)
  <2>1. Plain(p)
    BY <1>4, PlainCreate
  <2>2. th' = [th EXCEPT ![p].pc = "createfail"] /\ ents' = ents
    BY <1>4 DEF CreateLinkFails, disk
  <2>3. th'[p].pc = "createfail"
    BY <1>1, <2>2 DEF Thread
  <2>4. th'[p].pc \notin MakePoints
    BY <2>3 DEF MakePoints
  <2>. QED  BY <2>1, <2>2, <2>4, PlainNames
<1>5. CASE CreateFail(p)
  <2>1. Ordinary(p)
    BY <1>1, <1>5, CreateFailLinks
  <2>2. TypesSame
    BY <2>1 DEF Ordinary
  <2>3. IputThen(p, "ip", "dropparent") /\ ents' = ents
    BY <1>5 DEF CreateFail
  <2>. QED  BY <2>2, <2>3, PutNames
<1>6. CASE CreateNew(p)
  BY <1>6, CreateNewNames
<1>7. CASE Ialloc(p) \/ IallocIget(p)
  BY <1>7, IallocNames
<1>8. CASE CreateInit(p)
  BY <1>8, CreateInitNames
<1>9. CASE CreateLink(p)
  BY <1>9, CreateLinkNames
<1>. QED  BY <1>2, <1>3, <1>4, <1>5, <1>6, <1>7, <1>8, <1>9 DEF CreateStep

LEMMA OpenNames ==
  ASSUME CInv, TreeInv, NInv, NameInv, ~panicked, NEW p \in Procs, OpenStep(p)
  PROVE  NameInv'
<1>1. th \in [Procs -> Thread] /\ DiskTypes /\ "opened" \notin MakePoints
  BY DEF CInv, FInv, TypeInv, MakePoints
<1>2. CASE OpenLock(p) \/ OpenFails(p) \/ Chdir(p)
  <2>1. Plain(p)
    BY <1>2, PlainOpen
  <2>2. \/ Hold(p, "ip", "opened")
        \/ \E v \in {"ip", "dp", "old"} : Reject(p, v, "user") \/ iunlockput(p, v, "user")
        \/ /\ th' = [th EXCEPT ![p].pc = "iput", ![p].put = cwd[p], ![p].ip = NoIno]
           /\ UNCHANGED <<disk, ilk, file, ofile, prog>>
    BY <1>2 DEF OpenLock, OpenFails, Chdir
  <2>3. CASE /\ th' = [th EXCEPT ![p].pc = "iput", ![p].put = cwd[p], ![p].ip = NoIno]
             /\ UNCHANGED <<disk, ilk, file, ofile, prog>>
    <3>1. th'[p].pc = "iput" /\ ents' = ents
      BY <1>1, <2>3 DEF disk, Thread
    <3>2. th'[p].pc \notin MakePoints
      BY <3>1 DEF MakePoints
    <3>. QED  BY <2>1, <3>1, <3>2, PlainNames
  <2>4. CASE \/ Hold(p, "ip", "opened")
             \/ \E v \in {"ip", "dp", "old"} : Reject(p, v, "user") \/ iunlockput(p, v, "user")
    <3>1. ents' = ents /\ th'[p].pc \notin MakePoints
      BY <1>1, <2>4, PutSame, HoldSame
    <3>. QED  BY <2>1, <3>1, PlainNames
  <2>. QED  BY <2>2, <2>3, <2>4
<1>3. CASE Opened(p)
  <2>1. Plain(p)
    BY <1>3, PlainOpened
  <2>2. Others(p) /\ TypesSame /\ Entered({})
    BY <2>1 DEF Plain, Ordinary, SameClaims, Entered
  <2>3. PICK i : i = th[p].ip
    OBVIOUS
  <2>4. /\ th[p].pc = "opened" /\ th'[p] = Idle
        /\ (itab[i].d.type = "file" /\ itrunc(i)) \/ ents' = ents
    BY <1>1, <1>3, <2>3 DEF Opened, disk
  <2>5. i \in Inums /\ itab[i].d = dinode[i] /\ ilk[i] = p
    <3>1. i \in Inums
      BY <2>3, <2>4, PointRefs DEF Points, HaveIp
    <3>. QED  BY <2>3, <2>4, <3>1, MineLoaded DEF LockedIp, Putting
  <2>6. ASSUME NEW d \in Inums PROVE ents'[d][".."] = ents[d][".."] \/ Loose(p, d)
    <3>1. CASE d # i \/ ents' = ents
      BY <1>1, <2>4, <2>5, <3>1 DEF itrunc, DiskTypes
    <3>2. CASE d = i /\ ents' # ents
      <4>1. dinode[d].type = "file"
        BY <2>4, <2>5, <3>2
      <4>2. ASSUME NEW q \in Procs \ {p}, th[q].pc = "dirlink", th[q].ip = d PROVE FALSE
        <5>1. HasLock(th[q], d)
          BY <4>2 DEF HasLock, Point, Putting, LockedIp
        <5>. QED  BY <2>5, <3>2, <5>1 DEF CInv, LockInv
      <4>. QED  BY <4>1, <4>2 DEF Loose
    <3>. QED  BY <3>1, <3>2
  <2>7. EntriesKept(p)
    BY <2>2, <2>6 DEF EntriesKept, TypesSame
  <2>8. Placed(th[p])'
    <3>1. Idle.pc = "user" /\ MadeIp(Idle) = NoIno /\ NoIno \notin Inums
      BY FilesAssumption DEF Idle, MadeIp, Point, Putting
    <3>2. th'[p].pc = "user" /\ MadeIp(th'[p]) \notin Inums
      BY <2>4, <3>1
    <3>. QED  BY <3>2 DEF Placed, MakePoints
  <2>. QED  BY <2>2, <2>7, <2>8, NamesKept
<1>. QED  BY <1>2, <1>3 DEF OpenStep

LEMMA UnlinkEntryNames ==
  ASSUME CInv, TreeInv, NameInv, ~panicked, NEW p \in Procs, UnlinkEntry(p)
  PROVE  NameInv'
<1>1. PICK d, n, i : d = th[p].dp /\ n = th[p].name /\ i = th[p].ip
  OBVIOUS
<1>2. PICK e : e = [itab[d].d EXCEPT !.nlink = itab[d].d.nlink - ParentLink(Loaded(i).type)]
  OBVIOUS
<1>3. /\ th[p].pc = "unlinklock" /\ IputThen(p, "dp", "unlinkdec") /\ ilk[i] = Nobody
      /\ ents' = [ents EXCEPT ![d][n] = NoIno] /\ dinode' = [dinode EXCEPT ![d] = e]
      /\ Loaded(i).type = "dir" => isdirempty(i)
  BY <1>1, <1>2 DEF UnlinkEntry, At, WaitsFor
<1>4. i \in Inums /\ d \in Inums /\ th \in [Procs -> Thread] /\ DiskTypes /\ NoIno \notin Inums
  BY <1>1, <1>3, PointRefs, FilesAssumption DEF Points, HaveIp, HaveDp
<1>5. n \in Names /\ ents[d][n] = i /\ n # ".."
  BY <1>1, <1>3, NamesAssumption DEF TreeInv, LookInv
<1>6. th'[p].pc = "iput" /\ Point(th'[p]) = "unlinkdec" /\ th'[p].ip = i /\ Others(p)
  <2>1. th'[p].pc = "iput" /\ Point(th'[p]) = "unlinkdec" /\ Others(p)
    BY <1>3, PutLocks DEF CInv, FInv
  <2>2. th'[p].ip = i
    BY <1>1, <1>3, <1>4 DEF IputThen, Thread
  <2>. QED  BY <2>1, <2>2
<1>7. Empty(i)
  <2>1. Refers(th[p], i)
    BY <1>1, <1>3 DEF Refers, Held
  <2>2. Loaded(i) = dinode[i]
    BY <1>3, <1>4, <2>1, FreeLoaded
  <2>. QED  BY <1>3, <1>4, <2>2 DEF isdirempty, Empty, TreeInv, EmptyInv
<1>8. TypesSame
  <2>1. Ordinary(p)
    BY UnlinkEntryLinks
  <2>. QED  BY <2>1 DEF Ordinary
<1>9. ents'[d][n] = NoIno /\ \A f \in Inums, m \in Elems \ {"."} : ents'[f][m] = ents[f][m] \/ (f = d /\ m = n)
  BY <1>3, <1>4, <1>5 DEF DiskTypes, Entries, Elems
<1>10. Names \subseteq Elems \ {"."} /\ ".." \in Elems \ {"."}
  BY NamesAssumption DEF Entries, Elems
<1>11. OneEntry(p, d, n)
  BY <1>5, <1>6, <1>8, <1>9, <1>10 DEF OneEntry, Entered
<1>12. Placed(th[p])'
  <2>1. MadeIp(th'[p]) = i
    BY <1>6 DEF MadeIp
  <2>2. Empty(i)'
    BY <1>4, <1>7, <1>9, <1>10 DEF Empty
  <2>. QED  BY <1>6, <2>1, <2>2 DEF Placed, MakePoints
<1>. QED  BY <1>3, <1>4, <1>5, <1>7, <1>9, <1>11, <1>12, NameRemoved

LEMMA LinkNames ==
  ASSUME CInv, TreeInv, NInv, ParentKept, LinkExact, NameInv, MadeLive, ~panicked, NEW p \in Procs,
         LinkStep(p)
  PROVE  NameInv'
<1>1. LinkInv /\ UseInv /\ th \in [Procs -> Thread]
  BY DEF NInv, CInv, FInv, TypeInv
<1>2. CASE \/ UnlinkNothing(p) \/ UnlinkNotEmpty(p) \/ LinkDir(p) \/ LinkDrop(p) \/ LinkFails(p)
           \/ LinkPut(p)
  <2>1. Plain(p)
    BY <1>1, <1>2, PlainLink
  <2>2. CASE LinkPut(p)
    <3>1. IputThen(p, "old", "user") /\ ents' = ents
      BY <2>2 DEF LinkPut, disk
    <3>2. th'[p].pc = "iput"
      BY <3>1, PutLocks DEF CInv, FInv
    <3>3. th'[p].pc \notin MakePoints
      BY <3>2 DEF MakePoints
    <3>. QED  BY <2>1, <3>1, <3>3, PlainNames
  <2>3. CASE ~LinkPut(p)
    <3>1. \E v \in {"ip", "dp", "old"}, r \in {"user", "dropparent", "linkbad"} :
            Reject(p, v, r) \/ iunlockput(p, v, r)
      BY <1>2, <2>3 DEF UnlinkNothing, UnlinkNotEmpty, LinkDir, LinkDrop, LinkFails
    <3>2. ents' = ents /\ th'[p].pc \notin MakePoints
      BY <3>1, PutSame
    <3>. QED  BY <2>1, <3>2, PlainNames
  <2>. QED  BY <2>2, <2>3
<1>3. CASE UnlinkLookup(p)
  <2>1. Plain(p)
    BY <1>1, <1>3, PlainLink
  <2>2. PICK i : th' = [th EXCEPT ![p].pc = "unlinklock", ![p].ip = i] /\ ents' = ents
    BY <1>3 DEF UnlinkLookup, disk
  <2>3. th'[p].pc = "unlinklock"
    BY <1>1, <2>2 DEF Thread
  <2>4. th'[p].pc \notin MakePoints
    BY <2>3 DEF MakePoints
  <2>. QED  BY <2>1, <2>2, <2>4, PlainNames
<1>4. CASE LinkExists(p)
  <2>1. Plain(p)
    BY <1>1, <1>4, PlainLink
  <2>2. PICK i : /\ th' = [th EXCEPT ![p].pc = "iput", ![p].put = i, ![p].ret = "linkdrop"]
                 /\ ents' = ents
    BY <1>4 DEF LinkExists, disk
  <2>3. th'[p].pc = "iput"
    BY <1>1, <2>2 DEF Thread
  <2>4. th'[p].pc \notin MakePoints
    BY <2>3 DEF MakePoints
  <2>. QED  BY <2>1, <2>2, <2>4, PlainNames
<1>5. CASE UnlinkEntry(p)
  BY <1>5, UnlinkEntryNames
<1>6. CASE UnlinkDec(p) \/ LinkBad(p)
  <2>1. Ordinary(p)
    BY <1>6, UnlinkDecLinks, LinkBadLinks
  <2>2. TypesSame
    BY <2>1 DEF Ordinary
  <2>3. PICK v \in {"ip", "dp", "old"} : IputThen(p, v, "user") /\ ents' = ents
    BY <1>6 DEF UnlinkDec, LinkBad
  <2>. QED  BY <2>2, <2>3, PutNames
<1>7. CASE LinkInc(p)
  <2>1. Ordinary(p)
    BY <1>1, <1>7, LinkIncLinks
  <2>2. TypesSame /\ Others(p)
    BY <2>1 DEF Ordinary
  <2>3. PICK i, j, e : th' = [th EXCEPT ![p].old = i, ![p].ip = j, ![p].pc = "nameiparent", ![p].path = e]
    BY <1>7 DEF LinkInc
  <2>4. th'[p].pc = "nameiparent"
    BY <1>1, <2>3 DEF Thread
  <2>5. MadeIp(th'[p]) = NoIno /\ th'[p].pc \notin MakePoints
    BY <2>4 DEF MadeIp, Point, Putting, MakePoints
  <2>6. ents' = ents
    BY <1>7 DEF LinkInc
  <2>. QED  BY <2>2, <2>5, <2>6, NamesSettled
<1>8. CASE LinkEntry(p)
  BY <1>8, LinkEntryNames
<1>. QED  BY <1>2, <1>3, <1>4, <1>5, <1>6, <1>7, <1>8 DEF LinkStep

LEMMA FileNames ==
  ASSUME CInv, NameInv, ~panicked, NEW p \in Procs, FileStep(p)
  PROVE  NameInv'
<1>1. Plain(p)
  BY PlainFile
<1>2. th \in [Procs -> Thread] /\ th[p].pc \in {"user", "exit"}
  BY DEF CInv, FInv, TypeInv, FileStep, Write, Dup, Close, Exit, Fork
<1>3. ents' = ents
  BY DEF FileStep, Write, Dup, Close, Exit, Fork, fileclose, disk
<1>4. ASSUME NEW fd \in FDs, NEW r \in {"user", "exit"}, fileclose(p, fd, r)
      PROVE  th'[p].pc \in {"user", "exit", "iput"}
  <2>1. PICK f : f = file[ofile[p][fd]].ip
    OBVIOUS
  <2>2. \/ th' = [th EXCEPT ![p].pc = r]
        \/ th' = [th EXCEPT ![p].pc = "iput", ![p].put = f, ![p].ret = r]
    BY <1>4, <2>1 DEF fileclose
  <2>. QED  BY <1>2, <2>2 DEF Thread
<1>5. CASE Write(p) \/ Dup(p) \/ \E q \in Procs : Fork(p, q)
  <2>1. th' = th
    BY <1>5 DEF Write, Dup, Fork
  <2>2. th'[p].pc \notin MakePoints
    BY <1>2, <2>1 DEF MakePoints
  <2>. QED  BY <1>1, <1>3, <2>2, PlainNames
<1>6. CASE Close(p) \/ Exit(p)
  <2>1. th'[p].pc \in {"user", "exit", "iput"}
    <3>1. CASE \E fd \in FDs : fileclose(p, fd, "user") \/ fileclose(p, fd, "exit")
      BY <1>4, <3>1
    <3>2. CASE th' = [th EXCEPT ![p].pc = "iput", ![p].put = cwd[p]]
      BY <1>2, <3>2 DEF Thread
    <3>. QED  BY <1>6, <3>1, <3>2 DEF Close, Exit
  <2>2. th'[p].pc \notin MakePoints
    BY <2>1 DEF MakePoints
  <2>. QED  BY <1>1, <1>3, <2>2, PlainNames
<1>. QED  BY <1>5, <1>6 DEF FileStep

LEMMA CallNames ==
  ASSUME CInv, TreeInv, NInv, ParentKept, LinkExact, NameInv, MadeLive, FilesNext
  PROVE  NameInv'
<1>1. ~panicked
  BY DEF FilesNext
<1>2. ASSUME NEW p \in Procs, PathStep(p) \/ CreateStep(p) \/ OpenStep(p) \/ LinkStep(p) \/ FileStep(p)
      PROVE  NameInv'
  BY <1>1, <1>2, PathNames, CreateNames, OpenNames, LinkNames, FileNames
<1>3. CASE Crash
  <2>1. /\ dinode' = dinode /\ ents' = ents /\ th' = [q \in Procs |-> Idle]
    BY <1>3 DEF Crash, disk
  <2>2. Idle.pc = "user" /\ MadeIp(Idle) = NoIno /\ NoIno \notin Inums
    BY FilesAssumption DEF Idle, MadeIp, Point, Putting
  <2>3. \A q \in Procs : th'[q].pc = "user" /\ MadeIp(th'[q]) \notin Inums
    BY <2>1, <2>2
  <2>4. PlacedInv'
    BY <2>3 DEF PlacedInv, Placed, MakePoints
  <2>. QED  BY <2>1, <2>4 DEF NameInv, NamedInv, Named, Empty, OneName, UpInv, RootInv
<1>. QED  BY <1>2, <1>3 DEF FilesNext

\* No entry is written under another name than an ordinary one, and no directory is freed
\* that has entries.
LEMMA StepsOrderly ==
  ASSUME CInv, TreeInv, NInv, LinkExact, NameInv, MadeLive, ~panicked, NEW p \in Procs
  PROVE  Orderly(p)
<1>1. ASSUME th[p].pc = "dirlink" PROVE th[p].name \in Names
  BY <1>1 DEF NameInv, PlacedInv, Placed, MakePoints
<1>2. ASSUME LinkEntry(p) PROVE th[p].name \in Names
  BY <1>2, LinkEntryNames
<1>3. ASSUME th[p].pc = "itrunc" PROVE Empty(th[p].put)
  <2>1. PICK i : i = th[p].put
    OBVIOUS
  <2>2. i \in Inums /\ Owns(th[p], i)
    BY <1>3, <2>1 DEF CInv, FInv, ControlInv, ThreadOk, Putting, Owns
  <2>. QED  BY <2>1, <2>2, OwnedLoose
<1>. QED  BY <1>1, <1>2, <1>3 DEF Orderly

LEMMA BalancedExact ==
  ASSUME DiskTypes, DiskTypes', LinkExact, Balanced
  PROVE  LinkExact'
<1>1. ASSUME NEW i \in Inums PROVE dinode'[i].nlink = Count(Claim', i)
  <2>1. PICK a, b, m, n : /\ a = Count(Claim, i) /\ b = Count(Claim', i)
                          /\ m = dinode[i].nlink /\ n = dinode'[i].nlink
    OBVIOUS
  <2>2. a \in Nat /\ b \in Nat /\ m \in Int /\ n \in Int /\ m = a
    BY <2>1, ClaimNats DEF DiskTypes, Inode, LinkExact
  <2>3. n - b = m - a
    BY <2>1 DEF Balanced
  <2>4. n = b
    BY <2>2, <2>3
  <2>. QED  BY <2>1, <2>4
<1>. QED  BY <1>1 DEF LinkExact, Count

ExactInv == LinkExact /\ NameInv

LEMMA ExactNext ==
  CInv /\ TreeInv /\ NInv /\ ParentKept /\ MadeLive /\ ExactInv /\ [FilesNext]_filesVars => ExactInv'
<1> SUFFICES ASSUME CInv, TreeInv, NInv, ParentKept, MadeLive, ExactInv, [FilesNext]_filesVars
             PROVE  ExactInv'
  OBVIOUS
<1>1. LinkExact /\ NameInv
  BY DEF ExactInv
<1>2. CASE FilesNext
  <2>1. NameInv'
    BY <1>1, <1>2, CallNames
  <2>2. \A p \in Procs : Orderly(p)
    BY <1>1, <1>2, StepsOrderly DEF FilesNext
  <2>3. Balanced
    BY <1>2, <2>2, LinksStep
  <2>4. CInv'
    BY <1>2, CacheNext
  <2>5. LinkExact'
    BY <1>1, <2>3, <2>4, BalancedExact DEF CInv, FInv, TypeInv
  <2>. QED  BY <2>1, <2>5 DEF ExactInv
<1>3. CASE UNCHANGED filesVars
  <2>1. dinode' = dinode /\ ents' = ents /\ th' = th
    BY <1>3 DEF filesVars
  <2>2. Claim' = Claim
    BY <2>1, ClaimKept
  <2>3. LinkExact'
    BY <1>1, <2>1, <2>2 DEF LinkExact, Count
  <2>4. NameInv'
    BY <1>1, <2>1 DEF NameInv, NamedInv, Named, Empty, OneName, UpInv, RootInv, PlacedInv, Placed
  <2>. QED  BY <2>3, <2>4 DEF ExactInv
<1>. QED  BY <1>2, <1>3

LEMMA InitNames == FilesInit => NameInv
<1> SUFFICES ASSUME FilesInit PROVE NameInv
  OBVIOUS
<1>1. ROOTINO \in Inums /\ NoIno \notin Inums /\ NoIno # ROOTINO
  BY FilesAssumption
<1>2. \A i \in Inums, n \in Names : ents[i][n] = NoIno
  BY NamesAssumption DEF FilesInit, NoEnts, Entries
<1>3. ents[ROOTINO][".."] = ROOTINO /\ dinode[ROOTINO].type = "dir"
  BY <1>1 DEF FilesInit, NoEnts, Entries
<1>4. Idle.pc = "user" /\ MadeIp(Idle) = NoIno /\ \A q \in Procs : th[q] = Idle
  BY DEF FilesInit, Idle, MadeIp, Point, Putting
<1>5. \A q \in Procs : th[q].pc = "user" /\ MadeIp(th[q]) \notin Inums
  BY <1>1, <1>4
<1>6. PlacedInv
  BY <1>5 DEF PlacedInv, Placed, MakePoints
<1>. QED  BY <1>1, <1>2, <1>3, <1>6 DEF NameInv, NamedInv, OneName, UpInv, RootInv, Empty

\* As long as nobody goes up to a directory that has gone, or makes an entry in one, each
\* link is claimed by one thing exactly, an entry, a ".." or a call under way; a directory
\* has one name, its ".." is the directory it is in, and one without a name is empty.
THEOREM NamesInvariant == FilesSpec /\ []ParentKept /\ []MadeLive => []ExactInv
<1>1. FilesInit => ExactInv
  BY InitLinks, InitNames DEF ExactInv
<1>2. FilesSpec => []CInv /\ []TreeInv
  BY CacheInvariant, TreeInvariant
<1>3. FilesSpec => FilesInit /\ [][FilesNext]_filesVars
  BY PTL DEF FilesSpec
<1>. QED  BY <1>1, <1>2, <1>3, LinksInvariant, ExactNext, PTL

-----------------------------------------------------------------------------
(* The disk between operations *)

LEMMA QuietClaims ==
  ASSUME CInv, Quiet, NEW q \in Procs
  PROVE  MadeIp(th[q]) = NoIno /\ Linked(th[q]) = NoIno
<1>1. th[q].pc \in {"user", "exit"}
  BY DEF Quiet
<1>2. th[q].old \notin Inums /\ th[q] \in Thread
  BY <1>1, PointRefs DEF Points, HaveOld
<1>3. th[q].old = NoIno
  BY <1>2 DEF Thread, Inums0
<1>. QED  BY <1>1, <1>3 DEF MadeIp, Linked, Point, Putting

\* A directory with a link is the root or in the directory that its ".." names.
LEMMA LiveUp ==
  ASSUME CInv, TreeInv, ExactInv, Quiet, NEW d \in LiveDirs, d # ROOTINO
  PROVE  /\ d \in Inums /\ dinode[d].type = "dir"
         /\ \E e \in Inums, n \in Names : ents[e][n] = d /\ ents[d][".."] = e
<1>1. d \in Inums /\ dinode[d].type = "dir" /\ dinode[d].nlink > 0
  BY DEF LiveDirs
<1>2. \A q \in Procs : MadeIp(th[q]) # d
  BY <1>1, QuietClaims, FilesAssumption
<1>3. KindInv /\ LinkExact /\ NamedInv /\ UpInv
  BY DEF TreeInv, ExactInv, NameInv
<1>4. Named(d)
  BY <1>1, <1>2, <1>3, LiveNamed
<1>5. PICK e \in Inums, n \in Names : ents[e][n] = d
  BY <1>4 DEF Named
<1>. QED  BY <1>1, <1>3, <1>5 DEF UpInv

\* What has an entry is a directory with a link.
LEMMA EntryLive ==
  ASSUME CInv, TreeInv, LinkInv, ExactInv, NEW d \in Inums, NEW n \in Names, ents[d][n] # NoIno
  PROVE  d \in LiveDirs
<1>1. ~Empty(d)
  BY DEF Empty
<1>2. dinode[d].type = "dir" /\ Named(d)
  BY <1>1 DEF TreeInv, EmptyInv, ExactInv, NameInv, NamedInv
<1>3. dinode[d].nlink > 0
  BY <1>2, NamedLink DEF CInv, FInv, TypeInv
<1>. QED  BY <1>2, <1>3 DEF LiveDirs

\* An entry names an inode in use.
LEMMA EntriesUsed ==
  ASSUME CInv, TreeInv, NInv, ExactInv, Quiet, NEW d \in LiveDirs, NEW n \in Entries,
         ents[d][n] # NoIno
  PROVE  dinode[ents[d][n]].type # "free"
<1>1. PICK i : i = ents[d][n]
  OBVIOUS
<1>2. LinkInv /\ TypedInv /\ DiskTypes /\ EmptyInv /\ RootInv /\ d \in Inums
  BY DEF NInv, UseInv, CInv, FInv, TypeInv, TreeInv, ExactInv, NameInv, LiveDirs
<1>3. i \in Inums
  BY <1>1, <1>2 DEF DiskTypes, Inums0
<1>4. CASE n \in Names
  <2>1. dinode[i].nlink > 0
    BY <1>1, <1>2, <1>3, <1>4, EntryLink
  <2>2. dinode[i].type # "free"
    BY <1>2, <1>3, <2>1 DEF TypedInv
  <2>. QED  BY <1>1, <2>2
<1>5. CASE n = ".."
  <2>1. CASE d = ROOTINO
    BY <1>2, <1>5, <2>1 DEF RootInv
  <2>2. CASE d # ROOTINO
    <3>1. PICK e \in Inums, m \in Names : ents[e][m] = d /\ ents[d][".."] = e
      BY <2>2, LiveUp
    <3>2. ~Empty(e)
      BY <1>2, <3>1, FilesAssumption DEF Empty
    <3>3. dinode[e].type = "dir"
      BY <1>2, <3>2 DEF EmptyInv
    <3>. QED  BY <1>5, <3>1, <3>3
  <2>. QED  BY <2>1, <2>2
<1>. QED  BY <1>4, <1>5 DEF Entries

\* The entries, ".." too, that name inode i, and what claims a link of it.
EntriesOf(i) == {e \in LiveDirs \X Entries : e # <<ROOTINO, "..">> /\ ents[e[1]][e[2]] = i}
ClaimsOf(i) == {h \in Claims : Claim[h] = i} \ {<<Nobody, "root">>}

LEMMA ClaimsOfShape ==
  ASSUME CInv, TreeInv, LinkInv, Quiet, NEW i \in Inums, NEW h \in ClaimsOf(i)
  PROVE  \E d \in Inums, n \in Names :
           \/ h = <<<<d, n>>, "entry">> /\ ents[d][n] = i
           \/ h = <<<<d, n>>, "up">> /\ d = i /\ ents[i][n] \in Inums /\ dinode[ents[i][n]].type = "dir"
<1>1. h \in Claims /\ Claim[h] = i /\ h # <<Nobody, "root">> /\ i # NoIno
  BY FilesAssumption DEF ClaimsOf
<1>2. ASSUME NEW q \in Procs, h = <<q, "ip">> \/ h = <<q, "old">> PROVE FALSE
  <2>1. Claim[h] = NoIno
    BY <1>2, QuietClaims, ClaimAt DEF ClaimShape
  <2>. QED  BY <1>1, <2>1
<1>3. PICK d \in Inums, n \in Names : h = <<<<d, n>>, "entry">> \/ h = <<<<d, n>>, "up">>
  BY <1>1, <1>2, ClaimCases
<1>4. CASE h = <<<<d, n>>, "entry">>
  BY <1>1, <1>4, ClaimAt DEF ClaimShape
<1>5. CASE h = <<<<d, n>>, "up">>
  <2>1. UpLink(d, n) = i
    BY <1>1, <1>5, ClaimAt DEF ClaimShape
  <2>2. d = i /\ ents[i][n] \in Inums /\ dinode[ents[i][n]].type = "dir"
    BY <1>1, <2>1 DEF UpLink
  <2>. QED  BY <1>5, <2>2
<1>. QED  BY <1>3, <1>4, <1>5

\* Each claim is that of one entry: its own, or the ".." of the directory that is named.
EntryOf(h) == IF h[2] = "entry" THEN h[1] ELSE <<ents[h[1][1]][h[1][2]], "..">>

LEMMA EntryOfType ==
  ASSUME CInv, TreeInv, LinkInv, ExactInv, Quiet, NEW i \in Inums, NEW h \in ClaimsOf(i)
  PROVE  EntryOf(h) \in EntriesOf(i)
<1>1. PICK d \in Inums, n \in Names :
        \/ h = <<<<d, n>>, "entry">> /\ ents[d][n] = i
        \/ h = <<<<d, n>>, "up">> /\ d = i /\ ents[i][n] \in Inums /\ dinode[ents[i][n]].type = "dir"
  BY ClaimsOfShape
<1>2. n \in Entries /\ n # ".." /\ ".." \in Entries /\ NoIno \notin Inums /\ DiskTypes
  BY NamesAssumption, FilesAssumption DEF Entries, CInv, FInv, TypeInv
<1>3. CASE h = <<<<d, n>>, "entry">> /\ ents[d][n] = i
  <2>1. d \in LiveDirs
    BY <1>2, <1>3, EntryLive
  <2>2. EntryOf(h) = <<d, n>>
    BY <1>3 DEF EntryOf
  <2>. QED  BY <1>2, <1>3, <2>1, <2>2 DEF EntriesOf
<1>4. CASE h = <<<<d, n>>, "up">> /\ d = i /\ ents[i][n] \in Inums /\ dinode[ents[i][n]].type = "dir"
  <2>1. PICK c \in Inums : c = ents[i][n]
    BY <1>4
  <2>2. EntryOf(h) = <<c, "..">>
    BY <1>4, <2>1 DEF EntryOf
  <2>3. c \in LiveDirs
    BY <1>2, <1>4, <2>1, EntryLink DEF LiveDirs
  <2>4. ents[c][".."] = i /\ c # ROOTINO
    BY <1>4, <2>1 DEF ExactInv, NameInv, UpInv, RootInv
  <2>. QED  BY <1>2, <2>2, <2>3, <2>4 DEF EntriesOf
<1>. QED  BY <1>1, <1>3, <1>4

LEMMA EntryOfOne ==
  ASSUME CInv, TreeInv, LinkInv, ExactInv, Quiet, NEW i \in Inums, NEW h \in ClaimsOf(i), NEW k \in ClaimsOf(i),
         EntryOf(h) = EntryOf(k)
  PROVE  h = k
<1>1. PICK d \in Inums, n \in Names :
        \/ h = <<<<d, n>>, "entry">> /\ ents[d][n] = i
        \/ h = <<<<d, n>>, "up">> /\ d = i /\ ents[i][n] \in Inums /\ dinode[ents[i][n]].type = "dir"
  BY ClaimsOfShape
<1>2. PICK e \in Inums, m \in Names :
        \/ k = <<<<e, m>>, "entry">> /\ ents[e][m] = i
        \/ k = <<<<e, m>>, "up">> /\ e = i /\ ents[i][m] \in Inums /\ dinode[ents[i][m]].type = "dir"
  BY ClaimsOfShape
<1>3. n # ".." /\ m # ".."
  BY NamesAssumption
<1>4. h = <<<<d, n>>, "entry">> => EntryOf(h) = <<d, n>>
  BY DEF EntryOf
<1>5. h = <<<<d, n>>, "up">> => EntryOf(h) = <<ents[d][n], "..">>
  BY DEF EntryOf
<1>6. k = <<<<e, m>>, "entry">> => EntryOf(k) = <<e, m>>
  BY DEF EntryOf
<1>7. k = <<<<e, m>>, "up">> => EntryOf(k) = <<ents[e][m], "..">>
  BY DEF EntryOf
<1>8. CASE h = <<<<d, n>>, "entry">>
  BY <1>2, <1>3, <1>4, <1>6, <1>7, <1>8
<1>9. CASE h = <<<<d, n>>, "up">> /\ d = i /\ ents[i][n] \in Inums /\ dinode[ents[i][n]].type = "dir"
  <2>1. k = <<<<e, m>>, "up">> /\ e = i
    BY <1>2, <1>3, <1>5, <1>6, <1>9
  <2>2. ents[i][n] = ents[i][m]
    BY <1>5, <1>7, <1>9, <2>1
  <2>3. n = m
    BY <1>9, <2>2 DEF ExactInv, NameInv, OneName
  <2>. QED  BY <1>9, <2>1, <2>3
<1>. QED  BY <1>1, <1>8, <1>9

LEMMA EntryOfAll ==
  ASSUME CInv, TreeInv, LinkInv, ExactInv, Quiet, NEW i \in Inums, NEW e \in EntriesOf(i)
  PROVE  \E h \in ClaimsOf(i) : EntryOf(h) = e
<1>1. PICK d \in LiveDirs, n \in Entries : e = <<d, n>>
  BY DEF EntriesOf
<1>2. ents[d][n] = i /\ e # <<ROOTINO, "..">> /\ d \in Inums /\ i # NoIno
  BY <1>1, FilesAssumption DEF EntriesOf, LiveDirs
<1>3. CASE n \in Names
  <2>1. PICK h : h = <<<<d, n>>, "entry">>
    OBVIOUS
  <2>2. h \in Claims /\ Claim[h] = i
    BY <1>2, <1>3, <2>1, ClaimAt DEF ClaimShape
  <2>3. h # <<Nobody, "root">> /\ EntryOf(h) = e
    BY <1>1, <2>1 DEF EntryOf
  <2>. QED  BY <2>2, <2>3 DEF ClaimsOf
<1>4. CASE n = ".."
  <2>1. d # ROOTINO
    BY <1>1, <1>2, <1>4
  <2>2. dinode[d].type = "dir"
    BY DEF LiveDirs
  <2>3. PICK f \in Inums, m \in Names : ents[f][m] = d /\ ents[d][".."] = f
    BY <2>1, LiveUp
  <2>4. f = i
    BY <1>2, <1>4, <2>3
  <2>5. PICK h : h = <<<<i, m>>, "up">>
    OBVIOUS
  <2>6. UpLink(i, m) = i
    BY <1>2, <2>2, <2>3, <2>4 DEF UpLink
  <2>7. h \in Claims /\ Claim[h] = i
    BY <2>5, <2>6, ClaimAt DEF ClaimShape
  <2>8. h # <<Nobody, "root">> /\ EntryOf(h) = e
    BY <1>1, <1>4, <2>3, <2>4, <2>5 DEF EntryOf
  <2>. QED  BY <2>7, <2>8 DEF ClaimsOf
<1>. QED  BY <1>3, <1>4 DEF Entries

LEMMA EntriesCounted ==
  ASSUME CInv, TreeInv, LinkInv, ExactInv, Quiet, NEW i \in Inums
  PROVE  dinode[i].nlink = Cardinality(EntriesOf(i)) + (IF i = ROOTINO THEN 1 ELSE 0)
<1>1. PICK B, E, S, r : B = ClaimsOf(i) /\ E = EntriesOf(i) /\ S = {h \in Claims : Claim[h] = i}
                        /\ r = <<Nobody, "root">>
  OBVIOUS
<1>2. B = S \ {r} /\ IsFiniteSet(S)
  BY <1>1, ClaimsFinite, FS_Subset DEF ClaimsOf
<1>3. IsFiniteSet(B) /\ Cardinality(B) = IF r \in S THEN Cardinality(S) - 1 ELSE Cardinality(S)
  BY <1>2, FS_RemoveElement
<1>4. r \in S <=> i = ROOTINO
  BY <1>1, ClaimAt DEF ClaimShape
<1>5. PICK f : f = [h \in B |-> EntryOf(h)]
  OBVIOUS
<1>6. f \in [B -> E]
  BY <1>1, <1>5, EntryOfType
<1>7. f \in Injection(B, E)
  <2>1. ASSUME NEW h \in B, NEW k \in B, f[h] = f[k] PROVE h = k
    BY <1>1, <1>5, <2>1, EntryOfOne
  <2>. QED  BY <1>6, <2>1 DEF Injection, IsInjective
<1>8. f \in Surjection(B, E)
  <2>1. ASSUME NEW e \in E PROVE \E h \in B : f[h] = e
    BY <1>1, <1>5, EntryOfAll
  <2>. QED  BY <1>6, <2>1 DEF Surjection
<1>9. Cardinality(E) = Cardinality(B)
  BY <1>3, <1>7, <1>8, FS_Surjection
<1>10. dinode[i].nlink = Cardinality(S) /\ Cardinality(S) \in Nat
  BY <1>1, <1>2, ClaimsFinite, FS_CardinalityType DEF ExactInv, LinkExact, Count
<1>11. PICK a, b : a = Cardinality(S) /\ b = Cardinality(E) /\ a \in Nat
                   /\ b = IF i = ROOTINO THEN a - 1 ELSE a
  BY <1>3, <1>4, <1>9, <1>10
<1>. QED  BY <1>1, <1>10, <1>11

\* As long as nobody goes up to a directory that has gone, or makes an entry in one, the disk
\* is consistent whenever the log may commit, and so after every crash: entries name inodes
\* in use, an inode has as many links as entries name it, and every block is accounted for,
\* for any programs and for disks and tables of any size.
THEOREM DiskStaysConsistent == FilesSpec /\ []ParentKept /\ []MadeLive => []DiskConsistent
<1>1. CInv /\ TreeInv /\ BlockInv /\ NInv /\ ExactInv => DiskConsistent
  <2> SUFFICES ASSUME CInv, TreeInv, BlockInv, NInv, ExactInv, Quiet
               PROVE  /\ \A d \in LiveDirs : \A n \in Entries :
                           ents[d][n] # NoIno => dinode[ents[d][n]].type # "free"
                      /\ \A i \in Inums : dinode[i].type # "free" =>
                           dinode[i].nlink = Cardinality({e \in LiveDirs \X Entries :
                                                e # <<ROOTINO, "..">> /\ ents[e[1]][e[2]] = i})
                                             + (IF i = ROOTINO THEN 1 ELSE 0)
                      /\ BlocksExact
    BY DEF DiskConsistent
  <2>1. \A d \in LiveDirs : \A n \in Entries : ents[d][n] # NoIno => dinode[ents[d][n]].type # "free"
    BY EntriesUsed
  <2>2. \A i \in Inums : dinode[i].nlink = Cardinality(EntriesOf(i)) + (IF i = ROOTINO THEN 1 ELSE 0)
    BY EntriesCounted DEF NInv
  <2>. QED  BY <2>1, <2>2 DEF EntriesOf, BlockInv
<1>2. FilesSpec => []CInv /\ []TreeInv /\ []BlockInv
  BY CacheInvariant, TreeInvariant, BlockInvariant
<1>. QED  BY <1>1, <1>2, LinksInvariant, NamesInvariant, PTL

-----------------------------------------------------------------------------
(* Programs that remove no directory *)

\* Nobody's unlink() comes to a directory.
DirsKept == \A p \in Procs : At(p, "unlinklock") => Loaded(th[p].ip).type # "dir"

\* A directory that a call is in, or a process has gone to, has a name.  (What create() is
\* making it is not in yet.)
StandsIn(t, d) == t.dp = d \/ (t.ip = d /\ t.pc \notin NewPoints)
LiveInv ==
  \A d \in Inums, q \in Procs :
    dinode[d].type = "dir" /\ (StandsIn(th[q], d) \/ cwd[q] = d) => Named(d)

\* What is found in a directory with a name has one.
LEMMA FoundNamed ==
  ASSUME NameInv, NEW d \in Inums, dinode[d].type = "dir", Named(d), NEW n \in Elems,
         Lookup(d, n) \in Inums
  PROVE  Named(Lookup(d, n))
<1>1. PICK k : k = Lookup(d, n)
  OBVIOUS
<1>2. CASE n = "."
  BY <1>2 DEF Lookup
<1>3. CASE n = ".."
  <2>1. k = ents[d][".."]
    BY <1>1, <1>3 DEF Lookup
  <2>2. CASE d = ROOTINO
    BY <1>1, <2>1, <2>2 DEF NameInv, RootInv, Named
  <2>3. CASE d # ROOTINO
    <3>1. PICK e \in Inums, m \in Names : ents[e][m] = d
      BY <2>3 DEF Named
    <3>2. ents[d][".."] = e
      BY <3>1 DEF NameInv, UpInv
    <3>3. ~Empty(e)
      BY <3>1, FilesAssumption DEF Empty
    <3>. QED  BY <1>1, <2>1, <3>2, <3>3 DEF NameInv, NamedInv
  <2>. QED  BY <2>2, <2>3
<1>4. CASE n \in Names
  <2>1. k = ents[d][n]
    BY <1>1, <1>4, NamesAssumption DEF Lookup
  <2>. QED  BY <1>1, <1>4, <2>1 DEF Named
<1>. QED  BY <1>2, <1>3, <1>4 DEF Elems, Entries

\* So whoever goes up, or makes an entry, finds a directory with a link.
LEMMA LiveParents == CInv /\ TreeInv /\ NInv /\ NameInv /\ LiveInv => ParentKept /\ MadeLive
<1> SUFFICES ASSUME CInv, TreeInv, NInv, NameInv, LiveInv PROVE ParentKept /\ MadeLive
  OBVIOUS
<1>1. LinkInv /\ DiskTypes /\ NoIno \notin Inums
  BY FilesAssumption DEF NInv, CInv, FInv, TypeInv
<1>2. ASSUME NEW p \in Procs, NEW d \in Inums, LooksUp(p, d), ents[d][".."] # NoIno
      PROVE  dinode[ents[d][".."]].nlink > 0
  <2>1. PICK k : k = ents[d][".."]
    OBVIOUS
  <2>2. k \in Inums /\ k = Lookup(d, "..")
    BY <1>1, <1>2, <2>1 DEF DiskTypes, Inums0, Entries, Lookup
  <2>3. StandsIn(th[p], d)
    BY <1>2 DEF LooksUp, StandsIn, Walking, At, NewPoints
  <2>4. Named(d) /\ dinode[d].type = "dir"
    BY <1>2, <2>3 DEF LiveInv, LooksUp
  <2>5. Named(k)
    BY <2>2, <2>4, FoundNamed DEF Elems, Entries
  <2>. QED  BY <1>1, <2>1, <2>2, <2>5, NamedLink
<1>3. ASSUME NEW p \in Procs, th[p].pc \in {"create", "link"} PROVE dinode[th[p].dp].nlink > 0
  <2>1. PICK d : d = th[p].dp
    OBVIOUS
  <2>2. d \in Inums
    BY <1>3, <2>1, PointRefs DEF Points, HaveDp
  <2>3. dinode[d].type = "dir"
    BY <2>1, <2>2 DEF TreeInv, KindInv, IsDir
  <2>4. Named(d)
    BY <2>1, <2>2, <2>3 DEF LiveInv, StandsIn
  <2>. QED  BY <1>1, <2>1, <2>2, <2>4, NamedLink
<1>4. MadeLive
  BY <1>3 DEF MadeLive, At
<1>. QED  BY <1>2, <1>4 DEF ParentKept

\* A step that removes no name of a directory, and makes only what was free a directory.
KeepsDirs ==
  /\ \A d \in Inums : dinode'[d].type = "dir" => dinode[d].type \in {"dir", "free"}
  /\ \A e \in Inums, n \in Names :
       \/ ents'[e][n] = ents[e][n]
       \/ ents[e][n] \in Inums => dinode[ents[e][n]].type # "dir"
\* A step of process p that leads it only to where it was, or to what has a name.
Settles(p) ==
  \A d \in Inums : StandsIn(th'[p], d) \/ cwd'[p] = d =>
    StandsIn(th[p], d) \/ cwd[p] = d \/ Named(d)' \/ dinode'[d].type # "dir"
CwdFrom(p) == \A q \in Procs : cwd'[q] = cwd[q] \/ cwd'[q] = cwd[p] \/ q = p

LEMMA LiveStep ==
  ASSUME TypedInv, LiveInv, NEW p \in Procs, Others(p), KeepsDirs, Settles(p), CwdFrom(p)
  PROVE  LiveInv'
<1>1. ASSUME NEW d \in Inums, NEW q \in Procs, dinode'[d].type = "dir", StandsIn(th[q], d) \/ cwd[q] = d
      PROVE  Named(d)'
  <2>1. InUse(d)
    BY <1>1 DEF StandsIn, NewPoints, InUse, UsedBy, Held
  <2>2. dinode[d].type = "dir"
    BY <1>1, <2>1 DEF TypedInv, KeepsDirs
  <2>3. Named(d)
    BY <1>1, <2>2 DEF LiveInv
  <2>. QED  BY <2>2, <2>3 DEF Named, KeepsDirs
<1>2. ASSUME NEW d \in Inums, NEW q \in Procs, dinode'[d].type = "dir", StandsIn(th'[q], d) \/ cwd'[q] = d
      PROVE  Named(d)'
  <2>1. CASE q = p
    BY <1>1, <1>2, <2>1 DEF Settles
  <2>2. CASE q # p
    <3>1. StandsIn(th[q], d) \/ cwd[q] = d \/ cwd[p] = d
      BY <1>2, <2>2 DEF Others, CwdFrom
    <3>. QED  BY <1>1, <1>2, <3>1
  <2>. QED  BY <2>1, <2>2
<1>. QED  BY <1>2 DEF LiveInv, StandsIn

LEMMA KeepsSame ==
  ASSUME TypesSame, Entered({}) \/ ents' = ents
  PROVE  KeepsDirs
BY DEF TypesSame, Entered, KeepsDirs

LEMMA KeepsPlain ==
  ASSUME NEW p \in Procs, Plain(p)
  PROVE  KeepsDirs
<1>1. TypesSame /\ Entered({})
  BY DEF Plain, Ordinary, SameClaims, Entered
<1>. QED  BY <1>1, KeepsSame

\* dirlink() writes where there is no entry.
LEMMA KeepsDirlink ==
  ASSUME CInv, ~panicked, NEW d \in Inums, NEW n \in Elems, NEW i \in Inums, NEW k \in Int,
         dirlink(d, n, i, k), CanLink(d, n), TypesSame
  PROVE  KeepsDirs
<1>1. DiskTypes /\ NoIno \notin Inums
  BY FilesAssumption DEF CInv, FInv, TypeInv
<1>2. ents' = [ents EXCEPT ![d][n] = i] /\ Lookup(d, n) = NoIno
  BY DEF dirlink, CanLink
<1>3. n # "." => ents[d][n] = NoIno
  BY <1>2 DEF Lookup
<1>4. n # "."
  BY <1>1, <1>2 DEF Lookup
<1>5. ASSUME NEW e \in Inums, NEW m \in Names PROVE ents'[e][m] = ents[e][m] \/ ents[e][m] = NoIno
  BY <1>1, <1>2, <1>3, <1>4, <1>5 DEF DiskTypes, Entries
<1>. QED  BY <1>1, <1>5 DEF KeepsDirs, TypesSame

LEMMA KeepsPath ==
  ASSUME CInv, TreeInv, NInv, ParentKept, NameInv, ~panicked, NEW p \in Procs, PathStep(p)
  PROVE  KeepsDirs
<1>1. LinkInv /\ UseInv /\ DiskTypes
  BY DEF NInv, CInv, FInv, TypeInv
<1>2. CASE StartCall(p) \/ WalkFails(p) \/ WalkOn(p) \/ WalkToParent(p) \/ WalkNowhere(p)
  <2>1. Plain(p)
    BY <1>1, <1>2, PlainStart, PlainWalk
  <2>. QED  BY <2>1, KeepsPlain
<1>3. CASE IputLast(p) \/ Iput(p) \/ IputInvalid(p) \/ IputDrop(p)
  <2>1. dinode' = dinode /\ ents' = ents
    BY <1>3 DEF IputLast, Iput, IputInvalid, IputDrop, disk
  <2>. QED  BY <2>1 DEF KeepsDirs
<1>4. CASE IputTrunc(p)
  <2>1. PICK i : i = th[p].put
    OBVIOUS
  <2>2. Ordinary(p)
    BY <1>4, IputTruncLinks
  <2>3. th[p].pc = "itrunc" /\ ents' = [ents EXCEPT ![i] = NoEnts]
    BY <1>4, <2>1 DEF IputTrunc, itrunc
  <2>4. i \in Inums /\ Owns(th[p], i)
    BY <2>1, <2>3 DEF CInv, FInv, ControlInv, ThreadOk, Putting, Owns
  <2>5. Empty(i)
    BY <2>4, OwnedLoose
  <2>6. \A e \in Inums, n \in Names : ents'[e][n] = ents[e][n]
    BY <1>1, <2>3, <2>5 DEF DiskTypes, NoEnts, Entries, Empty
  <2>. QED  BY <2>2, <2>6 DEF KeepsDirs, Ordinary, TypesSame
<1>5. CASE IputFree(p)
  <2>1. PICK i, d : i = th[p].put /\ d = [itab[i].d EXCEPT !.type = "free"]
    OBVIOUS
  <2>2. th[p].pc = "ifree" /\ ents' = ents /\ dinode' = [dinode EXCEPT ![i] = d]
    BY <1>5, <2>1 DEF IputFree, Update
  <2>3. i \in Inums /\ itab \in [Inums -> Entry]
    BY <2>1, <2>2 DEF CInv, FInv, TypeInv, ControlInv, ThreadOk, Putting
  <2>4. d.type = "free"
    BY <2>1, <2>3 DEF Entry, Inode
  <2>. QED  BY <1>1, <2>2, <2>4 DEF KeepsDirs, DiskTypes
<1>. QED  BY <1>2, <1>3, <1>4, <1>5 DEF PathStep

LEMMA KeepsCreate ==
  ASSUME CInv, TreeInv, NInv, ParentKept, NameInv, ~panicked, NEW p \in Procs, CreateStep(p)
  PROVE  KeepsDirs
<1>1. LinkInv /\ UseInv /\ MadeInv /\ DiskTypes
  BY DEF NInv, UseInv, CInv, FInv, TypeInv
<1>2. CASE \/ CreateFound(p) \/ CreateNew(p) \/ IallocFails(p) \/ CreateLinkFails(p) \/ DropParent(p)
           \/ Made(p) \/ CreateExists(p)
  <2>1. Plain(p)
    BY <1>1, <1>2, PlainCreate, PlainExists
  <2>. QED  BY <2>1, KeepsPlain
<1>3. CASE CreateFail(p)
  <2>1. Ordinary(p) /\ ents' = ents
    BY <1>1, <1>3, CreateFailLinks DEF CreateFail
  <2>. QED  BY <2>1, KeepsSame DEF Ordinary
<1>4. CASE CreateLink(p)
  <2>1. PICK d, n, i, k : d = th[p].dp /\ n = th[p].name /\ i = th[p].ip /\ k = ParentLink(NewType(p))
    OBVIOUS
  <2>2. th[p].pc = "dirlink" /\ CanLink(d, n) /\ dirlink(d, n, i, k)
    BY <1>4, <2>1 DEF CreateLink
  <2>3. d \in Inums /\ i \in Inums /\ n \in Elems /\ k \in Int
    BY <2>1, <2>2, PointRefs DEF Points, HaveIp, HaveDp, Thread, ParentLink
  <2>4. Ordinary(p)
    BY <1>1, <1>4, CreateLinkLinks
  <2>. QED  BY <2>2, <2>3, <2>4, KeepsDirlink DEF Ordinary
<1>5. CASE IallocIget(p)
  <2>1. dinode' = dinode /\ ents' = ents
    BY <1>5 DEF IallocIget, disk
  <2>. QED  BY <2>1 DEF KeepsDirs
<1>6. CASE Ialloc(p)
  <2>1. PICK i \in Inums : /\ dinode[i].type = "free" /\ ents' = ents
                           /\ dinode' = [dinode EXCEPT ![i] = [NoInode EXCEPT !.type = NewType(p)]]
    BY <1>6 DEF Ialloc
  <2>. QED  BY <1>1, <2>1 DEF KeepsDirs, DiskTypes
<1>7. CASE CreateInit(p)
  <2>1. PICK i, full, new : /\ i = th[p].ip /\ full = (NewType(p) = "dir" /\ Unused = {})
                            /\ new = IF NewType(p) = "dir" /\ ~full THEN {balloc} ELSE {}
    OBVIOUS
  <2>2. PICK d : d = [Loaded(i) EXCEPT !.nlink = 1, !.addrs = Loaded(i).addrs \cup new,
                                       !.size = IF new = {} THEN Loaded(i).size ELSE 2]
    OBVIOUS
  <2>3. /\ th[p].pc = "createinit" /\ ilk[i] = Nobody /\ dinode' = [dinode EXCEPT ![i] = d]
        /\ ents' = IF new = {} THEN ents ELSE [ents EXCEPT ![i][".."] = th[p].dp]
    BY <1>7, <2>1, <2>2 DEF CreateInit, At, WaitsFor, Update
  <2>4. i \in Inums
    BY <2>1, <2>3, PointRefs DEF Points, HaveIp
  <2>5. Refers(th[p], i)
    BY <2>1, <2>3 DEF Refers, Held
  <2>6. Loaded(i) = dinode[i] /\ dinode[i] \in Inode
    BY <2>3, <2>4, <2>5, FreeLoaded
  <2>7. d.type = dinode[i].type
    BY <2>2, <2>6 DEF Inode
  <2>8. \A e \in Inums, n \in Names : ents'[e][n] = ents[e][n]
    BY <1>1, <2>3, NamesAssumption DEF DiskTypes, Entries
  <2>. QED  BY <1>1, <2>3, <2>7, <2>8 DEF KeepsDirs, DiskTypes
<1>. QED  BY <1>2, <1>3, <1>4, <1>5, <1>6, <1>7 DEF CreateStep

\* Only unlink() removes a name, and this is not that of a directory.
LEMMA KeepsCall ==
  ASSUME CInv, TreeInv, NInv, ParentKept, DirsKept, ~panicked, NEW p \in Procs,
         OpenStep(p) \/ LinkStep(p) \/ FileStep(p)
  PROVE  KeepsDirs
<1>1. LinkInv /\ UseInv /\ DiskTypes /\ NoIno \notin Inums
  BY FilesAssumption DEF NInv, CInv, FInv, TypeInv
<1>2. CASE OpenStep(p) \/ FileStep(p)
  <2>1. Plain(p)
    BY <1>2, PlainOpen, PlainOpened, PlainFile DEF OpenStep
  <2>. QED  BY <2>1, KeepsPlain
<1>3. CASE \/ UnlinkNothing(p) \/ UnlinkLookup(p) \/ UnlinkNotEmpty(p) \/ LinkDir(p) \/ LinkExists(p)
           \/ LinkDrop(p) \/ LinkFails(p) \/ LinkPut(p)
  <2>1. Plain(p)
    BY <1>1, <1>3, PlainLink
  <2>. QED  BY <2>1, KeepsPlain
<1>4. CASE UnlinkDec(p) \/ LinkInc(p) \/ LinkBad(p)
  <2>1. Ordinary(p) /\ ents' = ents
    BY <1>1, <1>4, UnlinkDecLinks, LinkIncLinks, LinkBadLinks DEF UnlinkDec, LinkInc, LinkBad
  <2>. QED  BY <2>1, KeepsSame DEF Ordinary
<1>5. CASE UnlinkEntry(p)
  <2>1. PICK d, n, i : d = th[p].dp /\ n = th[p].name /\ i = th[p].ip
    OBVIOUS
  <2>2. /\ At(p, "unlinklock") /\ th[p].pc = "unlinklock" /\ ilk[i] = Nobody
        /\ ents' = [ents EXCEPT ![d][n] = NoIno]
    BY <1>5, <2>1 DEF UnlinkEntry, At, WaitsFor
  <2>3. i \in Inums /\ d \in Inums
    BY <2>1, <2>2, PointRefs DEF Points, HaveIp, HaveDp
  <2>4. ents[d][n] = i
    BY <2>1, <2>2 DEF TreeInv, LookInv
  <2>5. Refers(th[p], i)
    BY <2>1, <2>2 DEF Refers, Held
  <2>6. Loaded(i) = dinode[i]
    BY <2>2, <2>3, <2>5, FreeLoaded
  <2>7. dinode[i].type # "dir"
    BY <2>1, <2>2, <2>6 DEF DirsKept
  <2>8. TypesSame
    BY <1>5, UnlinkEntryLinks DEF Ordinary
  <2>9. ASSUME NEW e \in Inums, NEW m \in Names PROVE ents'[e][m] = ents[e][m] \/ ents[e][m] = i
    BY <1>1, <2>2, <2>4 DEF DiskTypes, Entries
  <2>. QED  BY <2>7, <2>8, <2>9 DEF KeepsDirs, TypesSame
<1>6. CASE LinkEntry(p)
  <2>1. PICK d, n, i : d = th[p].dp /\ n = th[p].name /\ i = th[p].old
    OBVIOUS
  <2>2. th[p].pc = "link" /\ CanLink(d, n) /\ dirlink(d, n, i, 0)
    BY <1>6, <2>1 DEF LinkEntry, At
  <2>3. d \in Inums /\ i \in Inums /\ n \in Elems /\ 0 \in Int
    BY <2>1, <2>2, PointRefs DEF Points, HaveDp, HaveOld, Thread
  <2>4. TypesSame
    BY <1>1, <1>6, LinkEntryLinks DEF Ordinary
  <2>. QED  BY <2>2, <2>3, <2>4, KeepsDirlink
<1>. QED  BY <1>2, <1>3, <1>4, <1>5, <1>6 DEF LinkStep

\* Steps that move a reference on, that change only the point in the call, and the end of
\* iput().
LEMMA MoveSettles ==
  ASSUME CInv, NEW p \in Procs, NEW v \in {"ip", "dp", "old"}, NEW r, IputThen(p, v, r),
         th[p].pc \notin NewPoints \/ v = "ip", cwd' = cwd
  PROVE  Settles(p)
<1>1. PICK t, u : t = th[p] /\ u = th'[p]
  OBVIOUS
<1>2. th \in [Procs -> Thread] /\ t \in Thread /\ NoIno \notin Inums
  BY <1>1, FilesAssumption DEF CInv, FInv, TypeInv
<1>3. u = [t EXCEPT !.pc = "iput", !.put = t[v], ![v] = NoIno, !.ret = r]
  BY <1>1, <1>2 DEF IputThen
<1>4. u.dp \in {t.dp, NoIno} /\ u.ip \in {t.ip, NoIno} /\ (v = "ip" => u.ip = NoIno)
  <2>1. CASE v = "ip"
    BY <1>2, <1>3, <2>1 DEF Thread
  <2>2. CASE v = "dp"
    BY <1>2, <1>3, <2>2 DEF Thread
  <2>3. CASE v = "old"
    BY <1>2, <1>3, <2>3 DEF Thread
  <2>. QED  BY <2>1, <2>2, <2>3
<1>. QED  BY <1>1, <1>2, <1>4 DEF Settles, StandsIn

LEMMA PcSettles ==
  ASSUME CInv, NEW p \in Procs, NEW c, th' = [th EXCEPT ![p].pc = c],
         th[p].pc \notin NewPoints \/ c \in NewPoints, cwd' = cwd
  PROVE  Settles(p)
<1>1. th'[p].pc = c /\ th'[p].ip = th[p].ip /\ th'[p].dp = th[p].dp
  BY DEF CInv, FInv, TypeInv, Thread
<1>. QED  BY <1>1 DEF Settles, StandsIn

LEMMA IdleSettles ==
  ASSUME NEW p \in Procs, th'[p] = Idle, cwd' = cwd
  PROVE  Settles(p)
BY FilesAssumption DEF Settles, StandsIn, Idle

LEMMA ReturnSettles ==
  ASSUME CInv, NEW p \in Procs, Return(p), th[p].pc \in Putting, cwd' = cwd
  PROVE  Settles(p)
<1>1. th \in [Procs -> Thread] /\ th[p] \in Thread
  BY DEF CInv, FInv, TypeInv
<1>2. CASE th[p].ret = "user"
  <2>1. th'[p] = Idle
    BY <1>1, <1>2 DEF Return
  <2>. QED  BY <2>1, IdleSettles
<1>3. CASE th[p].ret # "user"
  <2>1. th'[p] = [th[p] EXCEPT !.pc = th[p].ret, !.put = NoIno, !.ret = "user"]
    BY <1>1, <1>3 DEF Return
  <2>2. th'[p].ip = th[p].ip /\ th'[p].dp = th[p].dp
    BY <1>1, <2>1 DEF Thread
  <2>3. th[p].pc \notin NewPoints
    BY DEF Putting, NewPoints
  <2>. QED  BY <2>2, <2>3 DEF Settles, StandsIn
<1>. QED  BY <1>2, <1>3

\* Steps that put into ip what has a name, if it is a directory, and maybe leave dp.
LEMMA FoundSettles ==
  ASSUME NEW p \in Procs, NEW i, th'[p].ip = i, th'[p].dp \in {th[p].dp, NoIno}, cwd' = cwd, ents' = ents,
         i \in Inums => Named(i) \/ cwd[p] = i \/ dinode'[i].type # "dir"
  PROVE  Settles(p)
<1>1. NoIno \notin Inums
  BY FilesAssumption
<1>2. i \in Inums => Named(i)' \/ cwd[p] = i \/ dinode'[i].type # "dir"
  BY DEF Named
<1>. QED  BY <1>1, <1>2 DEF Settles, StandsIn

\* What a call finds in the directory that it is in.
LEMMA FoundLive ==
  ASSUME CInv, TreeInv, NameInv, LiveInv, NEW p \in Procs, NEW d \in Inums, StandsIn(th[p], d),
         dinode[d].type = "dir", NEW n \in Elems, Lookup(d, n) # NoIno
  PROVE  Named(Lookup(d, n))
<1>1. Lookup(d, n) \in Inums
  BY LookupType DEF CInv, FInv, TypeInv, Inums0
<1>2. Named(d)
  BY DEF LiveInv
<1>. QED  BY <1>1, <1>2, FoundNamed

LEMMA FromLive ==
  ASSUME NEW p \in Procs, NEW s, NEW i, i = From(p, s), i \in Inums
  PROVE  Named(i) \/ cwd[p] = i
BY DEF From, Named

LEMMA SettlesPath ==
  ASSUME CInv, TreeInv, NameInv, LiveInv, ~panicked, NEW p \in Procs, PathStep(p)
  PROVE  Settles(p)
<1>1. th \in [Procs -> Thread] /\ th[p] \in Thread /\ DiskTypes
  BY DEF CInv, FInv, TypeInv
<1>2. cwd' = cwd
  BY DEF PathStep, StartCall, WalkFails, WalkOn, WalkToParent, WalkNowhere, Reject, IputLast, Iput, IputTrunc,
         IputFree, IputInvalid, IputDrop, user
<1>3. CASE StartCall(p)
  <2>0. PICK c \in Programs[prog][p] :
          /\ th' = [th EXCEPT ![p].call = c, ![p].path = Elements(c.path), ![p].ip = From(p, c.path),
               ![p].pc = IF c.op \in {"mkdir", "mknod", "creat", "unlink"} THEN "nameiparent" ELSE "namei"]
          /\ ents' = ents
    BY <1>3 DEF StartCall, disk
  <2>1. PICK s, e, pc, i :
          /\ s = c.path /\ i = From(p, s)
          /\ th' = [th EXCEPT ![p].call = c, ![p].path = e, ![p].ip = i, ![p].pc = pc]
    BY <2>0
  <2>2. th'[p].ip = i /\ th'[p].dp = th[p].dp
    BY <1>1, <2>1 DEF Thread
  <2>3. i \in Inums => Named(i) \/ cwd[p] = i
    BY <2>1, FromLive
  <2>. QED  BY <1>2, <2>0, <2>2, <2>3, FoundSettles
<1>4. CASE WalkFails(p) \/ WalkNowhere(p)
  <2>1. PICK r : IputThen(p, "ip", r)
    BY <1>4 DEF WalkFails, WalkNowhere, Reject
  <2>. QED  BY <1>2, <2>1, MoveSettles
<1>5. CASE WalkOn(p)
  <2>1. PICK s, i, n, d : s = th[p].path /\ n = Head(s) /\ d = th[p].ip /\ i = Lookup(d, n)
    OBVIOUS
  <2>2. /\ s # <<>> /\ th[p].pc \in {"namei", "nameiparent"} /\ ilk[d] = Nobody
        /\ Loaded(d).type = "dir" /\ i # NoIno /\ ents' = ents
        /\ th' = [th EXCEPT ![p].pc = "iput", ![p].put = d, ![p].ret = th[p].pc,
                            ![p].ip = i, ![p].path = Tail(s)]
    BY <1>5, <2>1 DEF WalkOn, Walking, NextIno, At, WaitsFor, disk
  <2>3. d \in Inums /\ n \in Elems
    <3>1. d \in Inums
      BY <2>1, <2>2, PointRefs DEF Points, HaveIp
    <3>2. s \in Seq(Elems)
      BY <1>1, <2>1 DEF Thread
    <3>. QED  BY <2>1, <2>2, <3>1, <3>2
  <2>4. Refers(th[p], d) /\ StandsIn(th[p], d)
    BY <2>1, <2>2 DEF Refers, Held, StandsIn, NewPoints
  <2>5. dinode[d].type = "dir"
    BY <2>2, <2>3, <2>4, FreeLoaded
  <2>6. Named(i)
    BY <2>1, <2>2, <2>3, <2>4, <2>5, FoundLive
  <2>7. th'[p].ip = i /\ th'[p].dp = th[p].dp
    BY <1>1, <2>2 DEF Thread
  <2>. QED  BY <1>2, <2>2, <2>6, <2>7, FoundSettles
<1>6. CASE WalkToParent(p)
  <2>1. PICK c, n, d : /\ d = th[p].ip
                       /\ th' = [th EXCEPT ![p].pc = c, ![p].dp = d, ![p].ip = NoIno, ![p].name = n,
                                           ![p].path = <<>>]
    BY <1>6 DEF WalkToParent
  <2>2. th'[p].dp = d /\ th'[p].ip = NoIno
    BY <1>1, <2>1 DEF Thread
  <2>3. th[p].pc = "nameiparent"
    BY <1>6 DEF WalkToParent, AtLast
  <2>. QED  BY <1>2, <2>1, <2>2, <2>3, FilesAssumption DEF Settles, StandsIn, NewPoints
<1>7. CASE IputLast(p) \/ IputTrunc(p) \/ IputFree(p) \/ IputInvalid(p)
  <2>1. PICK c : th' = [th EXCEPT ![p].pc = c]
    BY <1>7 DEF IputLast, IputTrunc, IputFree, IputInvalid
  <2>2. th[p].pc \notin NewPoints
    BY <1>7 DEF IputLast, IputTrunc, IputFree, IputInvalid, NewPoints
  <2>. QED  BY <1>2, <2>1, <2>2, PcSettles
<1>8. CASE Iput(p) \/ IputDrop(p)
  <2>1. Return(p) /\ th[p].pc \in Putting
    BY <1>8 DEF Iput, IputDrop, Putting
  <2>. QED  BY <1>2, <2>1, ReturnSettles
<1>. QED  BY <1>3, <1>4, <1>5, <1>6, <1>7, <1>8 DEF PathStep

LEMMA SettlesCreate ==
  ASSUME CInv, TreeInv, NameInv, LiveInv, ~panicked, NEW p \in Procs, CreateStep(p)
  PROVE  Settles(p)
<1>1. th \in [Procs -> Thread] /\ th[p] \in Thread /\ DiskTypes /\ NoIno \notin Inums
  BY FilesAssumption DEF CInv, FInv, TypeInv
<1>2. cwd' = cwd
  BY DEF CreateStep, CreateExists, CreateFound, CreateNew, Ialloc, IallocFails, IallocIget, CreateInit,
         CreateLink, CreateLinkFails, CreateFail, DropParent, Made, Hold, Reject, iunlockput, user
<1>3. CASE CreateExists(p)
  <2>1. PICK i, n, d : n = th[p].name /\ d = th[p].dp /\ i = Lookup(d, n)
    OBVIOUS
  <2>2. /\ th[p].pc = "create" /\ i # NoIno /\ ents' = ents
        /\ th' = [th EXCEPT ![p].pc = "iput", ![p].put = d, ![p].dp = NoIno, ![p].ip = i,
                            ![p].ret = "createfound"]
    BY <1>3, <2>1 DEF CreateExists, At, disk
  <2>3. d \in Inums /\ n \in Elems /\ StandsIn(th[p], d)
    BY <1>1, <2>1, <2>2, PointRefs DEF Points, HaveDp, Thread, StandsIn
  <2>4. dinode[d].type = "dir"
    BY <2>1, <2>3 DEF TreeInv, KindInv, IsDir
  <2>5. Named(i)
    BY <2>1, <2>2, <2>3, <2>4, FoundLive
  <2>6. th'[p].ip = i /\ th'[p].dp = NoIno
    BY <1>1, <2>2 DEF Thread
  <2>. QED  BY <1>2, <2>2, <2>5, <2>6, FoundSettles
<1>4. CASE CreateFound(p) \/ CreateNew(p)
  <2>1. (\E c : th' = [th EXCEPT ![p].pc = c]) \/ IputThen(p, "ip", "user")
    BY <1>4 DEF CreateFound, CreateNew, Hold, Reject
  <2>2. th[p].pc \notin NewPoints
    BY <1>4 DEF CreateFound, CreateNew, At, NewPoints
  <2>. QED  BY <1>2, <2>1, <2>2, MoveSettles, PcSettles
<1>5. CASE Ialloc(p)
  <2>1. PICK i \in Inums : th' = [th EXCEPT ![p].pc = "iget", ![p].ip = i]
    BY <1>5 DEF Ialloc
  <2>2. th'[p].pc = "iget" /\ th'[p].dp = th[p].dp
    BY <1>1, <2>1 DEF Thread
  <2>. QED  BY <1>2, <2>2 DEF Settles, StandsIn, NewPoints
<1>6. CASE IallocIget(p) \/ CreateInit(p) \/ CreateLinkFails(p)
  <2>1. PICK c \in NewPoints : th' = [th EXCEPT ![p].pc = c]
    BY <1>6 DEF IallocIget, CreateInit, CreateLinkFails, NewPoints
  <2>. QED  BY <1>2, <2>1, PcSettles
<1>7. CASE CreateLink(p)
  <2>1. PICK d, n, i, r : d = th[p].dp /\ n = th[p].name /\ i = th[p].ip /\ IputThen(p, "dp", r)
    BY <1>7 DEF CreateLink
  <2>2. th[p].pc = "dirlink" /\ ents' = [ents EXCEPT ![d][n] = i]
    BY <1>7, <2>1 DEF CreateLink, dirlink
  <2>3. d \in Inums /\ n \in Names
    BY <2>1, <2>2, PointRefs DEF Points, HaveDp, NameInv, PlacedInv, Placed, MakePoints
  <2>4. ents'[d][n] = i
    BY <1>1, <2>2, <2>3 DEF DiskTypes, Entries
  <2>5. Named(i)'
    BY <2>3, <2>4 DEF Named
  <2>6. th'[p].ip = i /\ th'[p].dp = NoIno
    BY <1>1, <2>1 DEF IputThen, Thread
  <2>. QED  BY <1>1, <1>2, <2>5, <2>6 DEF Settles, StandsIn
<1>8. CASE IallocFails(p) \/ DropParent(p) \/ Made(p)
  <2>1. /\ th[p].pc \in {"ialloc", "dropparent", "made"}
        /\ IputThen(p, "dp", "user") \/ IputThen(p, "ip", "user")
    BY <1>8 DEF IallocFails, DropParent, Made, iunlockput
  <2>2. th[p].pc \notin NewPoints
    BY <2>1 DEF NewPoints
  <2>. QED  BY <1>2, <2>1, <2>2, MoveSettles
<1>9. CASE CreateFail(p)
  <2>1. IputThen(p, "ip", "dropparent")
    BY <1>9 DEF CreateFail
  <2>. QED  BY <1>2, <2>1, MoveSettles
<1>. QED  BY <1>3, <1>4, <1>5, <1>6, <1>7, <1>8, <1>9 DEF CreateStep

LEMMA SettlesOpen ==
  ASSUME CInv, NEW p \in Procs, OpenStep(p)
  PROVE  Settles(p) /\ CwdFrom(p)
<1>1. th \in [Procs -> Thread] /\ cwd \in [Procs -> Inums0] /\ NoIno \notin Inums
  BY FilesAssumption DEF CInv, FInv, TypeInv, UserTypes
<1>2. CASE OpenLock(p) \/ OpenFails(p)
  <2>1. (\E c : th' = [th EXCEPT ![p].pc = c]) \/ IputThen(p, "ip", "user")
    BY <1>2 DEF OpenLock, OpenFails, Hold, Reject, iunlockput
  <2>2. th[p].pc \notin NewPoints
    BY <1>2 DEF OpenLock, OpenFails, Found, At, NewPoints
  <2>3. cwd' = cwd
    BY <1>2 DEF OpenLock, OpenFails, Hold, Reject, iunlockput, user
  <2>. QED  BY <2>1, <2>2, <2>3, MoveSettles, PcSettles DEF CwdFrom
<1>3. CASE Opened(p)
  <2>1. th'[p] = Idle /\ cwd' = cwd
    BY <1>1, <1>3 DEF Opened
  <2>. QED  BY <2>1, IdleSettles DEF CwdFrom
<1>4. CASE Chdir(p)
  <2>1. th[p].pc = "namei" /\ th[p].pc \notin NewPoints
    BY <1>4 DEF Chdir, Found, At, NewPoints
  <2>2. CASE Reject(p, "ip", "user")
    <3>1. IputThen(p, "ip", "user") /\ cwd' = cwd
      BY <2>2 DEF Reject, user
    <3>. QED  BY <2>1, <3>1, MoveSettles DEF CwdFrom
  <2>3. CASE ~Reject(p, "ip", "user")
    <3>1. /\ cwd' = [cwd EXCEPT ![p] = th[p].ip]
          /\ th' = [th EXCEPT ![p].pc = "iput", ![p].put = cwd[p], ![p].ip = NoIno]
      BY <1>4, <2>3 DEF Chdir
    <3>2. th'[p].ip = NoIno /\ th'[p].dp = th[p].dp /\ cwd'[p] = th[p].ip
      BY <1>1, <3>1 DEF Thread
    <3>3. Settles(p)
      BY <1>1, <2>1, <3>2 DEF Settles, StandsIn
    <3>. QED  BY <1>1, <3>1, <3>3 DEF CwdFrom
  <2>. QED  BY <2>2, <2>3
<1>. QED  BY <1>2, <1>3, <1>4 DEF OpenStep

LEMMA SettlesLink ==
  ASSUME CInv, TreeInv, NameInv, LiveInv, ~panicked, NEW p \in Procs, LinkStep(p)
  PROVE  Settles(p) /\ cwd' = cwd
<1>1. th \in [Procs -> Thread] /\ th[p] \in Thread
  BY DEF CInv, FInv, TypeInv
<1>2. cwd' = cwd
  BY DEF LinkStep, UnlinkNothing, UnlinkLookup, UnlinkNotEmpty, UnlinkEntry, UnlinkDec, LinkDir, LinkInc,
         LinkEntry, LinkExists, LinkDrop, LinkFails, LinkPut, LinkBad, Reject, iunlockput, user
<1>3. CASE UnlinkLookup(p)
  <2>1. PICK i, n, d : n = th[p].name /\ d = th[p].dp /\ i = Lookup(d, n)
    OBVIOUS
  <2>2. /\ th[p].pc = "unlink" /\ i # NoIno /\ ents' = ents
        /\ th' = [th EXCEPT ![p].pc = "unlinklock", ![p].ip = i]
    BY <1>3, <2>1 DEF UnlinkLookup, At, disk
  <2>3. d \in Inums /\ n \in Elems /\ StandsIn(th[p], d)
    BY <1>1, <2>1, <2>2, PointRefs DEF Points, HaveDp, Thread, StandsIn
  <2>4. dinode[d].type = "dir"
    BY <2>1, <2>3 DEF TreeInv, KindInv, IsDir
  <2>5. Named(i)
    BY <2>1, <2>2, <2>3, <2>4, FoundLive
  <2>6. th'[p].ip = i /\ th'[p].dp = th[p].dp
    BY <1>1, <2>2 DEF Thread
  <2>. QED  BY <1>2, <2>2, <2>5, <2>6, FoundSettles
<1>4. CASE LinkInc(p)
  <2>1. PICK c, s, e, i, j : /\ s = c.new /\ j = From(p, s) /\ ents' = ents
                             /\ th' = [th EXCEPT ![p].old = i, ![p].ip = j, ![p].pc = "nameiparent",
                                                 ![p].path = e]
    BY <1>4 DEF LinkInc
  <2>2. th'[p].ip = j /\ th'[p].dp = th[p].dp
    BY <1>1, <2>1 DEF Thread
  <2>3. j \in Inums => Named(j) \/ cwd[p] = j
    BY <2>1, FromLive
  <2>. QED  BY <1>2, <2>1, <2>2, <2>3, FoundSettles
<1>5. CASE LinkExists(p)
  <2>1. PICK i : th' = [th EXCEPT ![p].pc = "iput", ![p].put = i, ![p].ret = "linkdrop"]
    BY <1>5 DEF LinkExists
  <2>2. th[p].pc \notin NewPoints
    BY <1>5 DEF LinkExists, At, NewPoints
  <2>3. th'[p].ip = th[p].ip /\ th'[p].dp = th[p].dp
    BY <1>1, <2>1 DEF Thread
  <2>. QED  BY <1>2, <2>2, <2>3 DEF Settles, StandsIn
<1>6. CASE LinkStep(p) /\ ~UnlinkLookup(p) /\ ~LinkInc(p) /\ ~LinkExists(p)
  <2>1. /\ th[p].pc \in {"unlink", "unlinklock", "unlinkdec", "namei", "link", "linkdrop", "linkput",
                         "linkbad"}
        /\ \E v \in {"ip", "dp", "old"}, r \in {"user", "dropparent", "unlinkdec", "linkput", "linkbad"} :
             IputThen(p, v, r)
    BY <1>6 DEF LinkStep, UnlinkNothing, UnlinkNotEmpty, UnlinkEntry, UnlinkDec, LinkDir, LinkEntry,
                LinkDrop, LinkFails, LinkPut, LinkBad, Reject, iunlockput, Found, At
  <2>2. th[p].pc \notin NewPoints
    BY <2>1 DEF NewPoints
  <2>. QED  BY <1>2, <2>1, <2>2, MoveSettles
<1>. QED  BY <1>2, <1>3, <1>4, <1>5, <1>6

LEMMA SettlesFile ==
  ASSUME CInv, NEW p \in Procs, FileStep(p)
  PROVE  Settles(p) /\ CwdFrom(p)
<1>1. th \in [Procs -> Thread] /\ cwd \in [Procs -> Inums0] /\ NoIno \notin Inums
  BY FilesAssumption DEF CInv, FInv, TypeInv, UserTypes
<1>2. th[p].pc \in {"user", "exit"} /\ th[p].pc \notin NewPoints
  BY DEF FileStep, Write, Dup, Close, Exit, Fork, NewPoints
<1>3. ASSUME th'[p].ip = th[p].ip, th'[p].dp = th[p].dp, cwd'[p] \in {cwd[p], NoIno}
      PROVE  Settles(p)
  BY <1>1, <1>2, <1>3 DEF Settles, StandsIn
<1>4. CASE Write(p) \/ Dup(p)
  <2>1. th' = th /\ cwd' = cwd
    BY <1>4 DEF Write, Dup, user
  <2>. QED  BY <1>3, <2>1 DEF CwdFrom
<1>5. CASE \E q \in Procs : Fork(p, q)
  <2>1. PICK q \in Procs : Fork(p, q)
    BY <1>5
  <2>2. th' = th /\ cwd' = [cwd EXCEPT ![q] = cwd[p]]
    BY <2>1 DEF Fork
  <2>3. \A r \in Procs : cwd'[r] = cwd[r] \/ cwd'[r] = cwd[p]
    BY <1>1, <2>2
  <2>. QED  BY <1>3, <2>2, <2>3 DEF CwdFrom
<1>6. ASSUME NEW fd \in FDs, NEW r, fileclose(p, fd, r) PROVE Settles(p) /\ CwdFrom(p)
  <2>1. PICK f : f = file[ofile[p][fd]].ip
    OBVIOUS
  <2>2. /\ cwd' = cwd
        /\ \/ th' = [th EXCEPT ![p].pc = r]
           \/ th' = [th EXCEPT ![p].pc = "iput", ![p].put = f, ![p].ret = r]
    BY <1>6, <2>1 DEF fileclose
  <2>3. th'[p].ip = th[p].ip /\ th'[p].dp = th[p].dp
    BY <1>1, <2>2 DEF Thread
  <2>. QED  BY <1>3, <2>2, <2>3 DEF CwdFrom
<1>7. CASE Exit(p) /\ ~\E fd \in FDs : fileclose(p, fd, "exit")
  <2>1. /\ cwd' = [cwd EXCEPT ![p] = NoIno]
        /\ th' = [th EXCEPT ![p].pc = "iput", ![p].put = cwd[p]]
    BY <1>7 DEF Exit
  <2>2. th'[p].ip = th[p].ip /\ th'[p].dp = th[p].dp /\ cwd'[p] = NoIno
    BY <1>1, <2>1 DEF Thread
  <2>3. \A q \in Procs : cwd'[q] = cwd[q] \/ q = p
    BY <1>1, <2>1
  <2>. QED  BY <1>3, <2>2, <2>3 DEF CwdFrom
<1>. QED  BY <1>4, <1>5, <1>6, <1>7 DEF FileStep, Close, Exit

\* The conditions above follow from this one, and so do the invariants: one induction.
KeptInv == NInv /\ ExactInv /\ LiveInv

LEMMA LiveNext ==
  CInv /\ TreeInv /\ KeptInv /\ DirsKept /\ [FilesNext]_filesVars => LiveInv'
<1> SUFFICES ASSUME CInv, TreeInv, KeptInv, DirsKept, [FilesNext]_filesVars PROVE LiveInv'
  OBVIOUS
<1>1. NInv /\ NameInv /\ LiveInv /\ ParentKept
  BY LiveParents DEF KeptInv, ExactInv
<1>2. TypedInv
  BY <1>1 DEF NInv, UseInv
<1>3. CASE UNCHANGED filesVars
  <2>1. dinode' = dinode /\ ents' = ents /\ th' = th /\ cwd' = cwd
    BY <1>3 DEF filesVars
  <2>. QED  BY <1>1, <2>1 DEF LiveInv, StandsIn, Named
<1>4. CASE Crash
  <2>1. /\ th' = [p \in Procs |-> Idle] /\ cwd' = BootCwd /\ ROOTINO \in Inums /\ NoIno \notin Inums
    BY <1>4, FilesAssumption DEF Crash
  <2>2. ASSUME NEW d \in Inums, NEW q \in Procs, StandsIn(th'[q], d) \/ cwd'[q] = d PROVE d = ROOTINO
    <3>1. ~StandsIn(th'[q], d)
      BY <2>1 DEF StandsIn, Idle
    <3>. QED  BY <2>1, <2>2, <3>1 DEF BootCwd
  <2>. QED  BY <2>2 DEF LiveInv, StandsIn, Named
<1>5. ASSUME ~panicked, NEW p \in Procs,
             PathStep(p) \/ CreateStep(p) \/ OpenStep(p) \/ LinkStep(p) \/ FileStep(p)
      PROVE  LiveInv'
  <2>1. Others(p)
    BY <1>5, PathOne, CallOne, FileOne DEF OneStep
  <2>2. KeepsDirs
    BY <1>1, <1>5, KeepsPath, KeepsCreate, KeepsCall
  <2>3. Settles(p)
    BY <1>1, <1>5, SettlesPath, SettlesCreate, SettlesOpen, SettlesLink, SettlesFile
  <2>4. CwdFrom(p)
    <3>1. CASE PathStep(p) \/ CreateStep(p)
      <4>1. cwd' = cwd
        BY <3>1 DEF PathStep, StartCall, WalkFails, WalkOn, WalkToParent, WalkNowhere, Reject, IputLast, Iput,
             IputTrunc, IputFree, IputInvalid, IputDrop, CreateStep, CreateExists, CreateFound, CreateNew,
             Ialloc, IallocFails, IallocIget, CreateInit, CreateLink, CreateLinkFails, CreateFail,
             DropParent, Made, Hold, iunlockput, user
      <4>. QED  BY <4>1 DEF CwdFrom
    <3>2. CASE LinkStep(p)
      <4>1. cwd' = cwd
        BY <1>1, <1>5, <3>2, SettlesLink
      <4>. QED  BY <4>1 DEF CwdFrom
    <3>. QED  BY <1>5, <3>1, <3>2, SettlesOpen, SettlesFile
  <2>. QED  BY <1>1, <1>2, <2>1, <2>2, <2>3, <2>4, LiveStep
<1>. QED  BY <1>3, <1>4, <1>5 DEF FilesNext

LEMMA KeptNext ==
  CInv /\ TreeInv /\ KeptInv /\ DirsKept /\ [FilesNext]_filesVars => KeptInv'
<1> SUFFICES ASSUME CInv, TreeInv, KeptInv, DirsKept, [FilesNext]_filesVars PROVE KeptInv'
  OBVIOUS
<1>1. NInv /\ ExactInv /\ NameInv /\ ParentKept /\ MadeLive
  BY LiveParents DEF KeptInv, ExactInv
<1>2. NInv'
  BY <1>1, LinksNext
<1>3. ExactInv'
  BY <1>1, ExactNext
<1>4. LiveInv'
  BY LiveNext
<1>. QED  BY <1>2, <1>3, <1>4 DEF KeptInv

LEMMA KeptInit == FilesInit => KeptInv
<1> SUFFICES ASSUME FilesInit PROVE KeptInv
  OBVIOUS
<1>1. NInv /\ LinkExact /\ NameInv
  BY InitLinks, InitNames DEF NInv
<1>2. ROOTINO \in Inums /\ NoIno \notin Inums
  BY FilesAssumption
<1>3. \A q \in Procs : th[q] = Idle /\ cwd[q] \in {ROOTINO, NoIno}
  BY DEF FilesInit, BootCwd
<1>4. LiveInv
  <2>1. ASSUME NEW d \in Inums, NEW q \in Procs, StandsIn(th[q], d) \/ cwd[q] = d PROVE d = ROOTINO
    <3>1. ~StandsIn(th[q], d)
      BY <1>2, <1>3 DEF StandsIn, Idle
    <3>. QED  BY <1>2, <1>3, <2>1, <3>1
  <2>. QED  BY <2>1 DEF LiveInv, Named
<1>. QED  BY <1>1, <1>4 DEF KeptInv, ExactInv

LEMMA KeptAlways == FilesSpec /\ []DirsKept => []KeptInv
<1>1. FilesSpec => []CInv /\ []TreeInv
  BY CacheInvariant, TreeInvariant
<1>2. FilesSpec => FilesInit /\ [][FilesNext]_filesVars
  BY PTL DEF FilesSpec
<1>. QED  BY <1>1, <1>2, KeptInit, KeptNext, PTL

\* As long as unlink() removes no directory, every directory that a call is in, or a process
\* has gone to, has a name: nobody goes up to a directory that has gone, or makes an entry in
\* one, which the theorems above ask for.
THEOREM KeptDirsLive == FilesSpec /\ []DirsKept => []LiveInv /\ []ParentKept /\ []MadeLive
<1>1. CInv /\ TreeInv /\ KeptInv => LiveInv /\ ParentKept /\ MadeLive
  BY LiveParents DEF KeptInv, ExactInv
<1>2. FilesSpec => []CInv /\ []TreeInv
  BY CacheInvariant, TreeInvariant
<1>. QED  BY <1>1, <1>2, KeptAlways, PTL

\* So the disk is consistent whenever the log may commit, with files unlinked at any time.
THEOREM KeptDirsConsistent == FilesSpec /\ []DirsKept => []DiskConsistent
BY KeptDirsLive, DiskStaysConsistent, PTL

\* And no call panics while the inode table has room.
THEOREM KeptDirsNoPanic == FilesSpec /\ []DirsKept /\ []~InodesFull => []FilesNoPanic
BY KeptDirsLive, NoPanicWithRoom, PTL

\* Programs that never call unlink(): what they may call is enough.
NoUnlink == \A k \in DOMAIN Programs : \A p \in Procs : \A c \in Programs[k][p] : c.op # "unlink"

\* Nobody is in unlink() before it has removed an entry, or is to come back there from iput().
UnlinkPoints == {"unlink", "unlinklock"}
OutOfUnlink == \A p \in Procs : Point(th[p]) \notin UnlinkPoints
StaysOut(p) == Point(th'[p]) \in UnlinkPoints => Point(th[p]) \in UnlinkPoints

LEMMA MoveOut ==
  ASSUME CInv, NEW p \in Procs, NEW v \in {"ip", "dp", "old"}, NEW r, r \notin UnlinkPoints, IputThen(p, v, r)
  PROVE  StaysOut(p)
<1>1. Point(th'[p]) = r
  BY PutLocks DEF CInv, FInv
<1>. QED  BY <1>1 DEF StaysOut

LEMMA PcOut ==
  ASSUME CInv, NEW p \in Procs, NEW c, th' = [th EXCEPT ![p].pc = c],
         \/ c \notin UnlinkPoints \cup Putting
         \/ c \in Putting /\ th[p].pc \in Putting
  PROVE  StaysOut(p)
<1>1. th'[p].pc = c /\ th'[p].ret = th[p].ret
  BY DEF CInv, FInv, TypeInv, Thread
<1>. QED  BY <1>1 DEF StaysOut, Point

LEMMA RetOut ==
  ASSUME NEW p \in Procs, NEW r, th'[p].pc = "iput", th'[p].ret = r, r \notin UnlinkPoints
  PROVE  StaysOut(p)
BY DEF StaysOut, Point, Putting

LEMMA IdleOut ==
  ASSUME NEW p \in Procs, th'[p] = Idle
  PROVE  StaysOut(p)
BY DEF StaysOut, Point, Putting, Idle, UnlinkPoints

LEMMA OutPath ==
  ASSUME CInv, NoUnlink, NEW p \in Procs, PathStep(p)
  PROVE  StaysOut(p)
<1>1. /\ th \in [Procs -> Thread] /\ th[p] \in Thread /\ ThreadOk(th[p])
      /\ {"user", "linkbad", "namei", "nameiparent"} \cap UnlinkPoints = {}
  BY DEF CInv, FInv, TypeInv, ControlInv, UnlinkPoints
<1>2. CASE StartCall(p)
  <2>0. PICK c \in Programs[prog][p] :
          th' = [th EXCEPT ![p].call = c, ![p].path = Elements(c.path), ![p].ip = From(p, c.path),
            ![p].pc = IF c.op \in {"mkdir", "mknod", "creat", "unlink"} THEN "nameiparent" ELSE "namei"]
    BY <1>2 DEF StartCall
  <2>1. PICK s, i, pc : /\ pc = IF c.op \in {"mkdir", "mknod", "creat", "unlink"} THEN "nameiparent" ELSE "namei"
                        /\ th' = [th EXCEPT ![p].call = c, ![p].path = s, ![p].ip = i, ![p].pc = pc]
    BY <2>0
  <2>2. th'[p].pc = pc
    BY <1>1, <2>1 DEF Thread
  <2>. QED  BY <2>1, <2>2 DEF StaysOut, Point, Putting, UnlinkPoints
<1>3. CASE WalkFails(p) \/ WalkNowhere(p)
  <2>1. PICK r : r = NotFound(p) /\ IputThen(p, "ip", r)
    BY <1>3 DEF WalkFails, WalkNowhere, Reject
  <2>2. r \notin UnlinkPoints
    BY <2>1 DEF NotFound, UnlinkPoints
  <2>. QED  BY <2>1, <2>2, MoveOut
<1>4. CASE WalkOn(p)
  <2>0. PICK s, i, j : s = th[p].path /\ i = NextIno(p) /\ j = th[p].ip
    OBVIOUS
  <2>1. /\ th[p].pc \in {"namei", "nameiparent"}
        /\ th' = [th EXCEPT ![p].pc = "iput", ![p].put = j, ![p].ret = th[p].pc,
                            ![p].ip = i, ![p].path = Tail(s)]
    BY <1>4, <2>0 DEF WalkOn, Walking, At
  <2>2. th'[p].pc = "iput" /\ th'[p].ret = th[p].pc
    BY <1>1, <2>1 DEF Thread
  <2>. QED  BY <1>1, <2>1, <2>2, RetOut
<1>5. CASE WalkToParent(p)
  <2>1. PICK op, c, d, n : /\ op = th[p].call.op
                           /\ c = IF op \in {"mkdir", "mknod", "creat"} THEN "create" ELSE op
                           /\ th' = [th EXCEPT ![p].pc = c, ![p].dp = d, ![p].ip = NoIno,
                                               ![p].name = n, ![p].path = <<>>]
    BY <1>5 DEF WalkToParent
  <2>2. th'[p].pc = c
    BY <1>1, <2>1 DEF Thread
  <2>3. th[p].pc = "nameiparent"
    BY <1>5 DEF WalkToParent, AtLast
  <2>4. op \in {"mkdir", "mknod", "creat", "unlink", "link"}
    BY <1>1, <2>1, <2>3 DEF ThreadOk, Point, Putting
  <2>5. op # "unlink"
    <3>1. th[p].call \in Calls
      BY <1>1 DEF Thread
    <3>2. \A k \in DOMAIN Programs, q \in Procs : th[p].call \in Programs[k][q] => op # "unlink"
      BY <2>1 DEF NoUnlink
    <3>. QED  BY <2>1, <3>1, <3>2 DEF Calls
  <2>. QED  BY <2>1, <2>2, <2>4, <2>5 DEF StaysOut, Point, Putting, UnlinkPoints
<1>6. CASE IputLast(p) \/ IputTrunc(p) \/ IputFree(p) \/ IputInvalid(p)
  <2>1. PICK c \in Putting : th' = [th EXCEPT ![p].pc = c]
    BY <1>6 DEF IputLast, IputTrunc, IputFree, IputInvalid, Putting
  <2>2. th[p].pc \in Putting
    BY <1>6 DEF IputLast, IputTrunc, IputFree, IputInvalid, Putting
  <2>. QED  BY <2>1, <2>2, PcOut
<1>7. CASE Iput(p) \/ IputDrop(p)
  <2>1. Return(p) /\ th[p].pc \in Putting
    BY <1>7 DEF Iput, IputDrop, Putting
  <2>2. CASE th[p].ret = "user"
    <3>1. th'[p] = Idle
      BY <1>1, <2>1, <2>2 DEF Return
    <3>. QED  BY <3>1, IdleOut
  <2>3. CASE th[p].ret # "user"
    <3>1. th'[p] = [th[p] EXCEPT !.pc = th[p].ret, !.put = NoIno, !.ret = "user"]
      BY <1>1, <2>1, <2>3 DEF Return
    <3>2. th'[p].pc = th[p].ret /\ th'[p].ret = "user"
      BY <1>1, <3>1 DEF Thread
    <3>. QED  BY <2>1, <3>2 DEF StaysOut, Point, Putting, UnlinkPoints
  <2>. QED  BY <2>2, <2>3
<1>. QED  BY <1>2, <1>3, <1>4, <1>5, <1>6, <1>7 DEF PathStep

LEMMA OutCreate ==
  ASSUME CInv, NEW p \in Procs, CreateStep(p) \/ OpenStep(p)
  PROVE  StaysOut(p)
<1>1. th \in [Procs -> Thread] /\ th[p] \in Thread /\ ThreadOk(th[p])
  BY DEF CInv, FInv, TypeInv, ControlInv
<1>2. CASE CreateExists(p)
  <2>1. PICK d, i : th' = [th EXCEPT ![p].pc = "iput", ![p].put = d, ![p].dp = NoIno, ![p].ip = i,
                                     ![p].ret = "createfound"]
    BY <1>2 DEF CreateExists
  <2>2. th'[p].pc = "iput" /\ th'[p].ret = "createfound"
    BY <1>1, <2>1 DEF Thread
  <2>. QED  BY <2>2, RetOut DEF UnlinkPoints
<1>3. CASE Ialloc(p)
  <2>1. PICK i \in Inums : th' = [th EXCEPT ![p].pc = "iget", ![p].ip = i]
    BY <1>3 DEF Ialloc
  <2>2. th'[p].pc = "iget"
    BY <1>1, <2>1 DEF Thread
  <2>. QED  BY <2>2 DEF StaysOut, Point, Putting, UnlinkPoints
<1>4. CASE \/ CreateFound(p) \/ CreateNew(p) \/ IallocIget(p) \/ CreateInit(p) \/ CreateLinkFails(p)
           \/ IallocFails(p) \/ CreateLink(p) \/ CreateFail(p) \/ DropParent(p) \/ Made(p)
           \/ OpenLock(p) \/ OpenFails(p)
  <2>1. \/ \E c \in {"opened", "ialloc", "createinit", "createfail", "dirlink"} : th' = [th EXCEPT ![p].pc = c]
        \/ \E v \in {"ip", "dp", "old"}, r \in {"user", "opened", "made", "dropparent"} : IputThen(p, v, r)
    BY <1>4 DEF CreateFound, CreateNew, IallocIget, CreateInit, CreateLinkFails, IallocFails, CreateLink,
                CreateFail, DropParent, Made, OpenLock, OpenFails, Hold, Reject, iunlockput
  <2>2. /\ {"opened", "ialloc", "createinit", "createfail", "dirlink"} \cap (UnlinkPoints \cup Putting) = {}
        /\ {"user", "opened", "made", "dropparent"} \cap UnlinkPoints = {}
    BY DEF UnlinkPoints, Putting
  <2>. QED  BY <2>1, <2>2, PcOut, MoveOut
<1>5. CASE Opened(p)
  <2>1. th'[p] = Idle
    BY <1>1, <1>5 DEF Opened
  <2>. QED  BY <2>1, IdleOut
<1>6. CASE Chdir(p)
  <2>1. CASE IputThen(p, "ip", "user")
    BY <2>1, MoveOut DEF UnlinkPoints
  <2>2. CASE ~IputThen(p, "ip", "user")
    <3>1. th[p].pc = "namei" /\ th' = [th EXCEPT ![p].pc = "iput", ![p].put = cwd[p], ![p].ip = NoIno]
      BY <1>6, <2>2 DEF Chdir, Reject, Found, At
    <3>2. th[p].ret = "user"
      BY <1>1, <3>1 DEF ThreadOk, Putting
    <3>3. th'[p].pc = "iput" /\ th'[p].ret = "user"
      BY <1>1, <3>1, <3>2 DEF Thread
    <3>. QED  BY <3>3, RetOut DEF UnlinkPoints
  <2>. QED  BY <2>1, <2>2
<1>. QED  BY <1>2, <1>3, <1>4, <1>5, <1>6 DEF CreateStep, OpenStep

LEMMA OutLink ==
  ASSUME CInv, NEW p \in Procs, Point(th[p]) \notin UnlinkPoints, LinkStep(p)
  PROVE  StaysOut(p)
<1>1. th \in [Procs -> Thread] /\ th[p] \in Thread
  BY DEF CInv, FInv, TypeInv
<1>2. ~UnlinkLookup(p)
  BY DEF UnlinkLookup, At, Point, Putting, UnlinkPoints
<1>3. CASE LinkInc(p)
  <2>1. PICK e, i, j : th' = [th EXCEPT ![p].old = i, ![p].ip = j, ![p].pc = "nameiparent", ![p].path = e]
    BY <1>3 DEF LinkInc
  <2>2. th'[p].pc = "nameiparent"
    BY <1>1, <2>1 DEF Thread
  <2>. QED  BY <2>2 DEF StaysOut, Point, Putting, UnlinkPoints
<1>4. CASE LinkExists(p)
  <2>1. PICK i : th' = [th EXCEPT ![p].pc = "iput", ![p].put = i, ![p].ret = "linkdrop"]
    BY <1>4 DEF LinkExists
  <2>2. th'[p].pc = "iput" /\ th'[p].ret = "linkdrop"
    BY <1>1, <2>1 DEF Thread
  <2>. QED  BY <2>2 DEF StaysOut, Point, Putting, UnlinkPoints
<1>5. CASE LinkStep(p) /\ ~UnlinkLookup(p) /\ ~LinkInc(p) /\ ~LinkExists(p)
  <2>1. \E v \in {"ip", "dp", "old"}, r \in {"user", "dropparent", "unlinkdec", "linkput", "linkbad"} :
             IputThen(p, v, r)
    BY <1>5 DEF LinkStep, UnlinkNothing, UnlinkNotEmpty, UnlinkEntry, UnlinkDec, LinkDir, LinkEntry,
                LinkDrop, LinkFails, LinkPut, LinkBad, Reject, iunlockput
  <2>2. {"user", "dropparent", "unlinkdec", "linkput", "linkbad"} \cap UnlinkPoints = {}
    BY DEF UnlinkPoints
  <2>. QED  BY <2>1, <2>2, MoveOut
<1>. QED  BY <1>2, <1>3, <1>4, <1>5

LEMMA OutFile ==
  ASSUME CInv, NEW p \in Procs, FileStep(p)
  PROVE  StaysOut(p)
<1>1. th \in [Procs -> Thread] /\ th[p] \in Thread /\ ThreadOk(th[p])
  BY DEF CInv, FInv, TypeInv, ControlInv
<1>2. ASSUME NEW fd \in FDs, NEW r \in {"user", "exit"}, fileclose(p, fd, r) PROVE StaysOut(p)
  <2>1. PICK f : f = file[ofile[p][fd]].ip
    OBVIOUS
  <2>2. \/ th' = [th EXCEPT ![p].pc = r]
        \/ th' = [th EXCEPT ![p].pc = "iput", ![p].put = f, ![p].ret = r]
    BY <1>2, <2>1 DEF fileclose
  <2>3. th'[p].pc = r \/ (th'[p].pc = "iput" /\ th'[p].ret = r)
    BY <1>1, <2>2 DEF Thread
  <2>. QED  BY <2>3 DEF StaysOut, Point, Putting, UnlinkPoints
<1>3. CASE Write(p) \/ Dup(p) \/ \E q \in Procs : Fork(p, q)
  <2>1. th' = th
    BY <1>3 DEF Write, Dup, Fork
  <2>. QED  BY <2>1 DEF StaysOut
<1>4. CASE Close(p) \/ \E fd \in FDs : fileclose(p, fd, "exit")
  BY <1>2, <1>4 DEF Close
<1>5. CASE Exit(p) /\ ~\E fd \in FDs : fileclose(p, fd, "exit")
  <2>1. th[p].pc \in {"user", "exit"} /\ th' = [th EXCEPT ![p].pc = "iput", ![p].put = cwd[p]]
    BY <1>5 DEF Exit
  <2>2. th[p].ret = "user"
    BY <1>1, <2>1 DEF ThreadOk, Putting
  <2>3. th'[p].pc = "iput" /\ th'[p].ret = "user"
    BY <1>1, <2>1, <2>2 DEF Thread
  <2>. QED  BY <2>3, RetOut DEF UnlinkPoints
<1>. QED  BY <1>3, <1>4, <1>5 DEF FileStep, Exit

LEMMA OutNext == NoUnlink /\ CInv /\ OutOfUnlink /\ [FilesNext]_filesVars => OutOfUnlink'
<1> SUFFICES ASSUME NoUnlink, CInv, OutOfUnlink, [FilesNext]_filesVars, NEW q \in Procs
             PROVE  Point(th'[q]) \notin UnlinkPoints
  BY DEF OutOfUnlink, Point
<1>1. Point(th[q]) \notin UnlinkPoints
  BY DEF OutOfUnlink
<1>2. ASSUME NEW p \in Procs, PathStep(p) \/ CreateStep(p) \/ OpenStep(p) \/ LinkStep(p) \/ FileStep(p)
      PROVE  Point(th'[q]) \notin UnlinkPoints
  <2>1. Others(p)
    BY <1>2, PathOne, CallOne, FileOne DEF OneStep
  <2>2. CASE q = p
    <3>1. StaysOut(p)
      BY <1>1, <1>2, <2>2, OutPath, OutCreate, OutLink, OutFile
    <3>. QED  BY <1>1, <2>2, <3>1 DEF StaysOut
  <2>3. CASE q # p
    BY <1>1, <2>1, <2>3 DEF Others
  <2>. QED  BY <2>2, <2>3
<1>3. CASE Crash
  <2>1. th'[q] = Idle
    BY <1>3 DEF Crash
  <2>. QED  BY <2>1 DEF Idle, Point, Putting, UnlinkPoints
<1>4. CASE UNCHANGED filesVars
  BY <1>1, <1>4 DEF filesVars
<1>. QED  BY <1>2, <1>3, <1>4 DEF FilesNext

\* Programs that make, link and open files and go anywhere, up too, but never unlink() meet
\* the condition.
THEOREM NoUnlinkKeepsDirs == NoUnlink => (FilesSpec => []DirsKept)
<1> SUFFICES ASSUME NoUnlink PROVE FilesSpec => []DirsKept
  OBVIOUS
<1>1. FilesInit => OutOfUnlink
  BY DEF FilesInit, OutOfUnlink, Idle, Point, Putting, UnlinkPoints
<1>2. CInv /\ OutOfUnlink /\ [FilesNext]_filesVars => OutOfUnlink'
  BY OutNext
<1>3. OutOfUnlink => DirsKept
  BY DEF OutOfUnlink, DirsKept, At, Point, Putting, UnlinkPoints
<1>4. FilesSpec => []CInv
  BY CacheInvariant
<1>. QED  BY <1>1, <1>2, <1>3, <1>4, PTL DEF FilesSpec

\* They leave a consistent disk, whatever fails and whenever the machine crashes: what
\* create(), link() and the closing of files do to links and blocks is exact.
THEOREM NoUnlinkConsistent == NoUnlink => (FilesSpec => []DiskConsistent)
<1> SUFFICES ASSUME NoUnlink PROVE FilesSpec => []DiskConsistent
  OBVIOUS
<1>. QED  BY NoUnlinkKeepsDirs, KeptDirsConsistent, PTL

\* They panic in no other way than by wanting an inode that a full table does not hold, and
\* never while the table has room.
THEOREM NoUnlinkNeverPanics ==
  NoUnlink =>
    (FilesSpec => [][PanicsFull]_filesVars /\ ([]~InodesFull => []FilesNoPanic))
<1> SUFFICES ASSUME NoUnlink
             PROVE  FilesSpec => [][PanicsFull]_filesVars /\ ([]~InodesFull => []FilesNoPanic)
  OBVIOUS
<1>1. FilesSpec => []ParentKept
  BY NoUnlinkKeepsDirs, KeptDirsLive, PTL
<1>. QED  BY <1>1, OnlyFullTablePanics, NoPanicWithRoom, PTL
=============================================================================
