------------------------------- MODULE Files -------------------------------
(***************************************************************************)
(* Inodes, directories, path names, open files and the system calls on     *)
(* them: fs.c, file.c and sysfile.c.  The buffer cache and the log below   *)
(* are taken at their promise (BlockMemory, AtomicDisk): the blocks are    *)
(* one memory, and what the disk keeps over a crash is what it held when   *)
(* last no operation was open.                                             *)
(*                                                                         *)
(* A section under one inode lock is one step, guarded by the lock being   *)
(* free, unless it takes a second lock or touches the bitmap or the inode  *)
(* table twice; then the lock is held in ilk from one step to the next.    *)
(* A directory is a function from names to inode numbers and the number    *)
(* of slots it has.                                                        *)
(***************************************************************************)
EXTENDS Naturals, Sequences, FiniteSets, FiniteSetsExt

CONSTANTS
  Procs,      \* processes
  InitProc,   \* the one that lives for ever
  Inums,      \* inode numbers of the disk
  Blocks,     \* numbers of the data blocks of the disk
  Names,      \* names of directory entries, "." and ".." aside
  DPB,        \* directory entries that fit in a block
  NINODE,     \* entries of the inode table
  NFILE,      \* entries of the file table
  NOFILE,     \* descriptors of a process
  Programs,   \* programs to run: the calls on path names that each process makes
  Crashes,    \* whether the machine may crash
  Nobody      \* no process

ROOTINO == 1
NoIno == 0
FDs == 1..NOFILE
Entries == Names \cup {".."}

ASSUME FilesAssumption ==
  /\ IsFiniteSet(Procs) /\ InitProc \in Procs /\ Nobody \notin Procs
  /\ ROOTINO \in Inums /\ Inums \subseteq Nat \ {NoIno}
  /\ Blocks \subseteq Nat /\ Blocks # {}
  /\ {DPB, NINODE, NFILE, NOFILE} \subseteq Nat /\ DPB >= 2
  /\ Crashes \in BOOLEAN

ASSUME NamesAssumption == Names \cap {".", ".."} = {}

\* A disk has so many inodes, and a name has at most DIRSIZ bytes.
ASSUME FiniteAssumption == IsFiniteSet(Inums) /\ IsFiniteSet(Names)

VARIABLES
  dinode,     \* inodes on the disk
  bitmap,     \* blocks marked in use
  ents,       \* contents of the directories
  itab,       \* the inode table: ref, valid and the cached copy of an inode
  ilk,        \* who holds the sleeplock of an inode
  file,       \* the file table
  ofile, cwd, \* descriptors and current directory of a process
  prog,       \* which program runs
  th,         \* where each process is, and its local variables
  panicked    \* the kernel has called panic()

disk == <<dinode, bitmap, ents>>
user == <<file, ofile, cwd, prog>>
filesVars == <<dinode, bitmap, ents, itab, ilk, file, ofile, cwd, prog, th, panicked>>

NoInode == [type |-> "free", nlink |-> 0, addrs |-> {}, size |-> 0]
NoEnts == [n \in Entries |-> NoIno]
Unreferenced == [ref |-> 0, valid |-> FALSE, d |-> NoInode]
NoFile == [ref |-> 0, ip |-> NoIno, writable |-> FALSE]

\* A process outside the file system.  (A slot of the process table without a
\* process is Idle too, and has no current directory.)
Idle == [pc |-> "user", call |-> [op |-> "none"], path |-> <<>>, name |-> "..",
         ip |-> NoIno, dp |-> NoIno, old |-> NoIno, put |-> NoIno, ret |-> "user"]

\* Memory after boot: init runs, in the root directory.
BootItab == [i \in Inums |-> [Unreferenced EXCEPT !.ref = IF i = ROOTINO THEN 1 ELSE 0]]
BootIlk == [i \in Inums |-> Nobody]
BootFile == [f \in 1..NFILE |-> NoFile]
BootOfile == [p \in Procs |-> [fd \in FDs |-> 0]]
BootCwd == [p \in Procs |-> IF p = InitProc THEN ROOTINO ELSE NoIno]

\* The disk as mkfs leaves it: a root directory with "." and "..", whose size is
\* rounded up to a block.
FilesInit ==
  /\ itab = BootItab /\ ilk = BootIlk
  /\ file = BootFile /\ ofile = BootOfile /\ cwd = BootCwd
  /\ prog \in DOMAIN Programs
  /\ th = [p \in Procs |-> Idle]
  /\ bitmap = {Min(Blocks)}
  /\ dinode = [i \in Inums |-> IF i = ROOTINO
                 THEN [type |-> "dir", nlink |-> 1, addrs |-> bitmap, size |-> DPB] ELSE NoInode]
  /\ ents = [i \in Inums |-> IF i = ROOTINO THEN [NoEnts EXCEPT ![".."] = ROOTINO] ELSE NoEnts]
  /\ panicked = FALSE

-----------------------------------------------------------------------------
(* Inodes *)

\* iget() and idup(): an entry without references is given to the inode, and
\* nothing is read from the disk.  (An entry is named by its inode.)
iget(tab, i) ==
  LET e == IF tab[i].ref > 0 THEN tab[i] ELSE Unreferenced
  IN  [tab EXCEPT ![i] = [e EXCEPT !.ref = e.ref + 1]]

\* "iget: no inodes"
TableFull(i) == itab[i].ref = 0 /\ Cardinality({j \in Inums : itab[j].ref > 0}) >= NINODE

\* The inode as ilock() shows it; "ilock: no type".
Loaded(i) == IF itab[i].valid THEN itab[i].d ELSE dinode[i]
NoType(i) == ~itab[i].valid /\ dinode[i].type = "free"
ilock(i) == [itab EXCEPT ![i].valid = TRUE, ![i].d = Loaded(i)]

\* Change the inode under its lock, in the table and, with iupdate(), on the disk.
Update(i, d) ==
  /\ itab' = [itab EXCEPT ![i].valid = TRUE, ![i].d = d]
  /\ dinode' = [dinode EXCEPT ![i] = d]

\* balloc() takes the first free block.
Unused == Blocks \ bitmap
balloc == Min(Unused)

\* Leave the inode in local variable v to iput(), and go on at r.
IputThen(p, v, r) ==
  th' = [th EXCEPT ![p].pc = "iput", ![p].put = th[p][v], ![p][v] = NoIno, ![p].ret = r]

\* A call that is over leaves nothing in the local variables.
Return(p) ==
  th' = [th EXCEPT ![p] = IF @.ret = "user" THEN Idle
                          ELSE [@ EXCEPT !.pc = th[p].ret, !.put = NoIno, !.ret = "user"]]

LastUseAnyRef(i) == itab[i].valid /\ itab[i].d.nlink = 0
LastUseOfFile(i) == itab[i].ref = 1 /\ itab[i].valid /\ itab[i].d.nlink = 0 /\ itab[i].d.type = "file"

\* iput() looks at ref, valid and nlink under itable.lock.
LastUse(i) == itab[i].ref = 1 /\ itab[i].valid /\ itab[i].d.nlink = 0

\* The acquiresleep() must not wait: itable.lock is held.
IputLast(p) ==
  LET i == th[p].put IN
  /\ th[p].pc = "iput" /\ LastUse(i)
  /\ ilk' = [ilk EXCEPT ![i] = p]
  /\ panicked' = (ilk[i] # Nobody)
  /\ th' = [th EXCEPT ![p].pc = "itrunc"]
  /\ UNCHANGED <<disk, itab, user>>

Iput(p) ==
  LET i == th[p].put IN
  /\ th[p].pc = "iput" /\ ~LastUse(i)
  /\ itab' = [itab EXCEPT ![i].ref = @ - 1]
  /\ Return(p)
  /\ UNCHANGED <<disk, ilk, user, panicked>>

\* itrunc(): the blocks go back and what they held is gone; "freeing free block".
itrunc(i) ==
  /\ bitmap' = bitmap \ itab[i].d.addrs
  /\ panicked' = ~(itab[i].d.addrs \subseteq bitmap)
  /\ Update(i, [itab[i].d EXCEPT !.addrs = {}, !.size = 0])
  /\ ents' = [ents EXCEPT ![i] = NoEnts]

IputTrunc(p) ==
  /\ th[p].pc = "itrunc"
  /\ itrunc(th[p].put)
  /\ th' = [th EXCEPT ![p].pc = "ifree"]
  /\ UNCHANGED <<ilk, user>>

\* type = 0 on the disk: from here ialloc() may give the inode away again.
IputFree(p) ==
  /\ th[p].pc = "ifree"
  /\ Update(th[p].put, [itab[th[p].put].d EXCEPT !.type = "free"])
  /\ th' = [th EXCEPT ![p].pc = "invalid"]
  /\ UNCHANGED <<bitmap, ents, ilk, user, panicked>>

IputInvalidKept(p) ==
  /\ th[p].pc = "invalid"
  /\ ilk' = [ilk EXCEPT ![th[p].put] = Nobody]
  /\ th' = [th EXCEPT ![p].pc = "drop"]
  /\ UNCHANGED <<disk, itab, user, panicked>>

IputInvalid(p) ==
  LET i == th[p].put IN
  /\ th[p].pc = "invalid"
  /\ itab' = [itab EXCEPT ![i].valid = FALSE]
  /\ ilk' = [ilk EXCEPT ![i] = Nobody]
  /\ th' = [th EXCEPT ![p].pc = "drop"]
  /\ UNCHANGED <<disk, user, panicked>>

IputDrop(p) ==
  /\ th[p].pc = "drop"
  /\ itab' = [itab EXCEPT ![th[p].put].ref = @ - 1]
  /\ Return(p)
  /\ UNCHANGED <<disk, ilk, user, panicked>>

-----------------------------------------------------------------------------
(* Steps that many calls share *)

\* The inode whose lock a process needs next.
WaitsFor(p) ==
  CASE th[p].pc \in {"namei", "createfound", "createinit", "unlinklock"} -> th[p].ip
    [] th[p].pc = "nameiparent" /\ th[p].path # <<>> -> th[p].ip
    [] th[p].pc \in {"create", "unlink", "link"} -> th[p].dp
    [] th[p].pc = "linkbad" -> th[p].old
    [] OTHER -> NoIno

\* Process p is at pc, and the lock it needs there is free.
At(p, pc) == th[p].pc = pc /\ ilk[WaitsFor(p)] = Nobody

\* ilock() of the inode in v, which will not do: iunlockput().
Reject(p, v, r) ==
  /\ itab' = ilock(th[p][v])
  /\ panicked' = NoType(th[p][v])
  /\ IputThen(p, v, r)
  /\ UNCHANGED <<disk, ilk, user>>

\* ilock() of the inode in v, to be kept until a later step.
Hold(p, v, pc) ==
  /\ itab' = ilock(th[p][v])
  /\ panicked' = NoType(th[p][v])
  /\ ilk' = [ilk EXCEPT ![th[p][v]] = p]
  /\ th' = [th EXCEPT ![p].pc = pc]
  /\ UNCHANGED <<disk, user>>

\* iunlockput() of the inode in v, which was kept.
iunlockput(p, v, r) ==
  /\ ilk' = [ilk EXCEPT ![th[p][v]] = Nobody]
  /\ IputThen(p, v, r)
  /\ UNCHANGED <<disk, itab, user, panicked>>

\* dirlookup() under the lock of i, NoIno if there is no such entry.
Lookup(i, name) == IF name = "." THEN i ELSE ents[i][name]

\* ilock() of d and iget() of the inode i that was found there.
LookupIget(d, i) ==
  /\ itab' = iget(ilock(d), i)
  /\ panicked' = (NoType(d) \/ TableFull(i))

\* dirlink() finds the name free, and a slot or a block for a new one.
SlotsUsed(d) == Cardinality({n \in Entries : ents[d][n] # NoIno}) + 1   \* with "."
NeedsBlock(d) == SlotsUsed(d) = Loaded(d).size /\ Loaded(d).size % DPB = 0
CanLink(d, name) == Lookup(d, name) = NoIno /\ (NeedsBlock(d) => Unused # {})

\* The ".." of a directory is a link to its parent.
ParentLink(type) == IF type = "dir" THEN 1 ELSE 0

\* Write entry (name, i) into d, and add k to the links of d.
dirlink(d, name, i, k) ==
  LET new == IF NeedsBlock(d) THEN {balloc} ELSE {} IN
  /\ ents' = [ents EXCEPT ![d][name] = i]
  /\ bitmap' = bitmap \cup new
  /\ Update(d, [Loaded(d) EXCEPT !.addrs = @ \cup new, !.nlink = @ + k,
                                 !.size = IF SlotsUsed(d) = @ THEN @ + 1 ELSE @])

-----------------------------------------------------------------------------
(* Paths: sequences of names; an absolute one begins with "/" *)

Absolute(path) == path # <<>> /\ path[1] = "/"
From(p, path) == IF Absolute(path) THEN ROOTINO ELSE cwd[p]
Elements(path) == IF Absolute(path) THEN Tail(path) ELSE path

\* Programs make these calls, on paths of names.
ASSUME ProgramsAssumption ==
  \A k \in DOMAIN Programs : \A p \in Procs : \A c \in Programs[k][p] :
    /\ c.op \in {"mkdir", "mknod", "creat", "unlink", "link", "open", "chdir"}
    /\ Elements(c.path) \in Seq(Entries \cup {"."})
    /\ c.op = "link" => Elements(c.new) \in Seq(Entries \cup {"."})

\* The start of a system call with a path: begin_op() and the first inode of namex().
StartCall(p) ==
  \E c \in Programs[prog][p] :
    /\ th[p].pc = "user" /\ cwd[p] # NoIno
    /\ th' = [th EXCEPT ![p].call = c, ![p].path = Elements(c.path), ![p].ip = From(p, c.path),
         ![p].pc = IF c.op \in {"mkdir", "mknod", "creat", "unlink"} THEN "nameiparent" ELSE "namei"]
    /\ itab' = iget(itab, From(p, c.path))
    /\ panicked' = TableFull(From(p, c.path))
    /\ UNCHANGED <<disk, ilk, user>>

\* What a call does when namex() finds nothing: link() has a count to take back.
NotFound(p) == IF th[p].call.op = "link" /\ th[p].pc = "nameiparent" THEN "linkbad" ELSE "user"

\* In the loop of namex(), which is about to look for element Head(path) in ip.
Walking(p) == th[p].path # <<>> /\ (At(p, "namei") \/ At(p, "nameiparent"))
AtLast(p) == th[p].pc = "nameiparent" /\ Len(th[p].path) = 1
NextIno(p) == Lookup(th[p].ip, Head(th[p].path))

WalkFails(p) ==
  /\ Walking(p)
  /\ Loaded(th[p].ip).type # "dir" \/ (~AtLast(p) /\ NextIno(p) = NoIno)
  /\ Reject(p, "ip", NotFound(p))

\* The next inode is referenced before the lock is given up, and locked after.
WalkOn(p) ==
  /\ Walking(p) /\ ~AtLast(p)
  /\ Loaded(th[p].ip).type = "dir" /\ NextIno(p) # NoIno
  /\ LookupIget(th[p].ip, NextIno(p))
  /\ th' = [th EXCEPT ![p].pc = "iput", ![p].put = th[p].ip, ![p].ret = th[p].pc,
                      ![p].ip = NextIno(p), ![p].path = Tail(@)]
  /\ UNCHANGED <<disk, ilk, user>>

\* nameiparent() stops one level early, with the directory unlocked again.
WalkToParent(p) ==
  LET op == th[p].call.op IN
  /\ Walking(p) /\ AtLast(p)
  /\ Loaded(th[p].ip).type = "dir"
  /\ itab' = ilock(th[p].ip)
  /\ panicked' = NoType(th[p].ip)
  /\ th' = [th EXCEPT ![p].pc = IF op \in {"mkdir", "mknod", "creat"} THEN "create" ELSE op,
       ![p].dp = th[p].ip, ![p].ip = NoIno, ![p].name = Head(th[p].path), ![p].path = <<>>]
  /\ UNCHANGED <<disk, ilk, user>>

\* A path without elements has no parent.
WalkNowhere(p) ==
  /\ th[p].pc = "nameiparent" /\ th[p].path = <<>>
  /\ IputThen(p, "ip", NotFound(p))
  /\ UNCHANGED <<disk, itab, ilk, user, panicked>>

\* namei() has found the inode of call op.
Found(p, op) == At(p, "namei") /\ th[p].path = <<>> /\ th[p].call.op = op

-----------------------------------------------------------------------------
(* create(), for mkdir(), mknod() and open(O_CREATE) *)

NewType(p) ==
  CASE th[p].call.op = "mkdir" -> "dir"
    [] th[p].call.op = "mknod" -> "dev"
    [] OTHER -> "file"

\* The name exists: let go of the directory, then lock what was found.
CreateExists(p) ==
  LET i == Lookup(th[p].dp, th[p].name) IN
  /\ At(p, "create") /\ i # NoIno
  /\ LookupIget(th[p].dp, i)
  /\ th' = [th EXCEPT ![p].pc = "iput", ![p].put = th[p].dp, ![p].dp = NoIno, ![p].ip = i,
                      ![p].ret = "createfound"]
  /\ UNCHANGED <<disk, ilk, user>>

CreateFound(p) ==
  /\ At(p, "createfound")
  /\ IF NewType(p) = "file" /\ Loaded(th[p].ip).type # "dir"
     THEN Hold(p, "ip", "opened")
     ELSE Reject(p, "ip", "user")

\* The name is free, and stays free while the directory is locked.
CreateNew(p) ==
  /\ At(p, "create") /\ Lookup(th[p].dp, th[p].name) = NoIno
  /\ Hold(p, "dp", "ialloc")

\* ialloc() marks an inode on the disk.  Any free one: inodes that the scan has
\* passed may have been freed behind it.
Ialloc(p) ==
  /\ th[p].pc = "ialloc"
  /\ \E i \in Inums :
       /\ dinode[i].type = "free"
       /\ dinode' = [dinode EXCEPT ![i] = [NoInode EXCEPT !.type = NewType(p)]]
       /\ th' = [th EXCEPT ![p].pc = "iget", ![p].ip = i]
  /\ UNCHANGED <<bitmap, ents, itab, ilk, user, panicked>>

IallocFails(p) ==
  /\ th[p].pc = "ialloc" /\ \A i \in Inums : dinode[i].type # "free"
  /\ iunlockput(p, "dp", "user")

IallocIget(p) ==
  /\ th[p].pc = "iget"
  /\ itab' = iget(itab, th[p].ip)
  /\ panicked' = TableFull(th[p].ip)
  /\ th' = [th EXCEPT ![p].pc = "createinit"]
  /\ UNCHANGED <<disk, ilk, user>>

\* ilock(ip), nlink = 1; a directory gets a block with "." and "..".
CreateInit(p) ==
  LET i == th[p].ip
      full == NewType(p) = "dir" /\ Unused = {}
      new == IF NewType(p) = "dir" /\ ~full THEN {balloc} ELSE {}
  IN
  /\ At(p, "createinit")
  /\ Update(i, [Loaded(i) EXCEPT !.nlink = 1, !.addrs = @ \cup new,
                                 !.size = IF new = {} THEN @ ELSE 2])
  /\ bitmap' = bitmap \cup new
  /\ ents' = IF new = {} THEN ents ELSE [ents EXCEPT ![i][".."] = th[p].dp]
  /\ ilk' = [ilk EXCEPT ![i] = p]
  /\ panicked' = NoType(i)
  /\ th' = [th EXCEPT ![p].pc = IF full THEN "createfail" ELSE "dirlink"]
  /\ UNCHANGED user

\* The entry in the parent, locked since the name was seen to be free.
CreateLink(p) ==
  /\ th[p].pc = "dirlink" /\ CanLink(th[p].dp, th[p].name)
  /\ dirlink(th[p].dp, th[p].name, th[p].ip, ParentLink(NewType(p)))
  /\ ilk' = [ilk EXCEPT ![th[p].dp] = Nobody]
  /\ IputThen(p, "dp", IF NewType(p) = "file" THEN "opened" ELSE "made")
  /\ UNCHANGED <<user, panicked>>

CreateLinkFails(p) ==
  /\ th[p].pc = "dirlink" /\ ~CanLink(th[p].dp, th[p].name)
  /\ th' = [th EXCEPT ![p].pc = "createfail"]
  /\ UNCHANGED <<disk, itab, ilk, user, panicked>>

CreateFailForgets(p) ==
  /\ th[p].pc = "createfail"
  /\ Update(th[p].ip, [Loaded(th[p].ip) EXCEPT !.nlink = 0])
  /\ ilk' = [ilk EXCEPT ![th[p].ip] = Nobody, ![th[p].dp] = Nobody]
  /\ IputThen(p, "ip", "user")
  /\ UNCHANGED <<bitmap, ents, user, panicked>>

\* "something went wrong. de-allocate ip."
CreateFail(p) ==
  /\ th[p].pc = "createfail"
  /\ Update(th[p].ip, [Loaded(th[p].ip) EXCEPT !.nlink = 0])
  /\ ilk' = [ilk EXCEPT ![th[p].ip] = Nobody]
  /\ IputThen(p, "ip", "dropparent")
  /\ UNCHANGED <<bitmap, ents, user, panicked>>

DropParent(p) == th[p].pc = "dropparent" /\ iunlockput(p, "dp", "user")
Made(p) == th[p].pc = "made" /\ iunlockput(p, "ip", "user")    \* mkdir(), mknod()

-----------------------------------------------------------------------------
(* open() and chdir() *)

OpenLock(p) ==
  /\ Found(p, "open")
  /\ \/ /\ Loaded(th[p].ip).type = "dir" => th[p].call.mode = "r"
        /\ Hold(p, "ip", "opened")
     \/ /\ Loaded(th[p].ip).type = "dir" /\ th[p].call.mode # "r"
        /\ Reject(p, "ip", "user")

FreeFiles == {f \in 1..NFILE : file[f].ref = 0}
FreeFDs(p) == {fd \in FDs : ofile[p][fd] = 0}

\* filealloc(), fdalloc(), O_TRUNC; the reference moves into the file.
Opened(p) ==
  LET i == th[p].ip
      f == Min(FreeFiles)
  IN
  /\ th[p].pc = "opened" /\ FreeFDs(p) # {} /\ FreeFiles # {}
  /\ file' = [file EXCEPT ![f] = [ref |-> 1, ip |-> i, writable |-> th[p].call.mode # "r"]]
  /\ ofile' = [ofile EXCEPT ![p][Min(FreeFDs(p))] = f]
  /\ IF th[p].call.mode = "trunc" /\ itab[i].d.type = "file"
     THEN itrunc(i) ELSE UNCHANGED <<disk, itab, panicked>>
  /\ ilk' = [ilk EXCEPT ![i] = Nobody]
  /\ th' = [th EXCEPT ![p] = Idle]
  /\ UNCHANGED <<cwd, prog>>

\* No descriptor, no entry of the file table, or a device whose major number is bad.
OpenFails(p) ==
  /\ th[p].pc = "opened" /\ (FreeFDs(p) = {} \/ FreeFiles = {} \/ itab[th[p].ip].d.type = "dev")
  /\ iunlockput(p, "ip", "user")

Chdir(p) ==
  LET i == th[p].ip IN
  /\ Found(p, "chdir")
  /\ \/ /\ Loaded(i).type # "dir"
        /\ Reject(p, "ip", "user")
     \/ /\ Loaded(i).type = "dir"
        /\ itab' = ilock(i)
        /\ panicked' = NoType(i)
        /\ cwd' = [cwd EXCEPT ![p] = i]
        /\ th' = [th EXCEPT ![p].pc = "iput", ![p].put = cwd[p], ![p].ip = NoIno]
        /\ UNCHANGED <<disk, ilk, file, ofile, prog>>

-----------------------------------------------------------------------------
(* unlink() and link() *)

DotsOne(name) == name = "."

\* "Cannot unlink . or .."
Dots(name) == name \in {".", ".."}

UnlinkNothing(p) ==
  /\ At(p, "unlink")
  /\ Dots(th[p].name) \/ Lookup(th[p].dp, th[p].name) = NoIno
  /\ Reject(p, "dp", "user")

\* The directory stays locked while the inode of the entry is locked too.
UnlinkLookup(p) ==
  LET i == Lookup(th[p].dp, th[p].name) IN
  /\ At(p, "unlink") /\ ~Dots(th[p].name) /\ i # NoIno
  /\ LookupIget(th[p].dp, i)
  /\ ilk' = [ilk EXCEPT ![th[p].dp] = p]
  /\ th' = [th EXCEPT ![p].pc = "unlinklock", ![p].ip = i]
  /\ UNCHANGED <<disk, user>>

isdiremptySlot(i) == \E n \in Names : ents[i][n] = NoIno
isdirempty(i) == \A n \in Names : ents[i][n] = NoIno

UnlinkNotEmpty(p) ==
  /\ At(p, "unlinklock") /\ Loaded(th[p].ip).type = "dir" /\ ~isdirempty(th[p].ip)
  /\ Reject(p, "ip", "dropparent")

\* The entry goes, with the link that ".." of a directory is to its parent.
UnlinkEntry(p) ==
  LET i == th[p].ip
      d == [itab[th[p].dp].d EXCEPT !.nlink = @ - ParentLink(Loaded(i).type)]
  IN
  /\ At(p, "unlinklock") /\ (Loaded(i).type = "dir" => isdirempty(i))
  /\ panicked' = (NoType(i) \/ Loaded(i).nlink < 1)     \* "unlink: nlink < 1"
  /\ ents' = [ents EXCEPT ![th[p].dp][th[p].name] = NoIno]
  /\ itab' = [ilock(i) EXCEPT ![th[p].dp].d = d]
  /\ dinode' = [dinode EXCEPT ![th[p].dp] = d]
  /\ ilk' = [ilk EXCEPT ![i] = p, ![th[p].dp] = Nobody]
  /\ IputThen(p, "dp", "unlinkdec")
  /\ UNCHANGED <<bitmap, user>>

DropLink(i) == Update(i, [Loaded(i) EXCEPT !.nlink = @ - 1])

UnlinkDec(p) ==
  /\ th[p].pc = "unlinkdec"
  /\ DropLink(th[p].ip)
  /\ ilk' = [ilk EXCEPT ![th[p].ip] = Nobody]
  /\ IputThen(p, "ip", "user")
  /\ UNCHANGED <<bitmap, ents, user, panicked>>

LinkDir(p) == Found(p, "link") /\ Loaded(th[p].ip).type = "dir" /\ Reject(p, "ip", "user")

\* The count goes up before the entry exists; then nameiparent(new) begins.
LinkInc(p) ==
  LET i == th[p].ip
      j == From(p, th[p].call.new)
      d == [Loaded(i) EXCEPT !.nlink = @ + 1]
  IN
  /\ Found(p, "link") /\ Loaded(i).type # "dir"
  /\ itab' = iget([ilock(i) EXCEPT ![i].d = d], j)
  /\ dinode' = [dinode EXCEPT ![i] = d]
  /\ panicked' = (NoType(i) \/ TableFull(j))
  /\ th' = [th EXCEPT ![p].old = i, ![p].ip = j, ![p].pc = "nameiparent",
                      ![p].path = Elements(th[p].call.new)]
  /\ UNCHANGED <<bitmap, ents, ilk, user>>

LinkEntry(p) ==
  /\ At(p, "link") /\ CanLink(th[p].dp, th[p].name)
  /\ dirlink(th[p].dp, th[p].name, th[p].old, 0)
  /\ panicked' = NoType(th[p].dp)
  /\ IputThen(p, "dp", "linkput")
  /\ UNCHANGED <<ilk, user>>

\* dirlink() gets the inode that has the name, and lets go of it with the directory locked.
LinkExists(p) ==
  LET i == Lookup(th[p].dp, th[p].name) IN
  /\ At(p, "link") /\ i # NoIno
  /\ LookupIget(th[p].dp, i)
  /\ ilk' = [ilk EXCEPT ![th[p].dp] = p]
  /\ th' = [th EXCEPT ![p].pc = "iput", ![p].put = i, ![p].ret = "linkdrop"]
  /\ UNCHANGED <<disk, user>>

LinkDrop(p) == th[p].pc = "linkdrop" /\ iunlockput(p, "dp", "linkbad")

\* The name is free, but there is no block for the entry.
LinkFails(p) ==
  /\ At(p, "link") /\ Lookup(th[p].dp, th[p].name) = NoIno /\ ~CanLink(th[p].dp, th[p].name)
  /\ Reject(p, "dp", "linkbad")

LinkPut(p) ==
  /\ th[p].pc = "linkput"
  /\ IputThen(p, "old", "user")
  /\ UNCHANGED <<disk, itab, ilk, user, panicked>>

LinkBad(p) ==
  /\ At(p, "linkbad")
  /\ DropLink(th[p].old)
  /\ panicked' = NoType(th[p].old)
  /\ IputThen(p, "old", "user")
  /\ UNCHANGED <<bitmap, ents, ilk, user>>

-----------------------------------------------------------------------------
(* Descriptors: write, dup, close, and what fork() and exit() do with them *)

\* filewrite(): a first block for a file that has none, if there is one.  The copy
\* from the user may fail when the file has got the block: the inode is written to
\* the disk even if its size has not changed.
Write(p) ==
  \E fd \in FDs, copied \in BOOLEAN :
    LET f == ofile[p][fd]
        i == file[f].ip
        new == IF Loaded(i).addrs = {} /\ Unused # {} THEN {balloc} ELSE {}
        a == Loaded(i).addrs \cup new
    IN
    /\ th[p].pc = "user" /\ f # 0
    /\ file[f].writable /\ Loaded(i).type = "file" /\ ilk[i] = Nobody
    /\ panicked' = NoType(i)
    /\ Update(i, [Loaded(i) EXCEPT !.addrs = a, !.size = IF copied /\ a # {} THEN 1 ELSE @])
    /\ bitmap' = bitmap \cup new
    /\ UNCHANGED <<ents, ilk, user, th>>

\* dup(): the first free descriptor for the same file.
Dup(p) ==
  /\ th[p].pc = "user" /\ FreeFDs(p) # {}
  /\ \E fd \in FDs :
       /\ ofile[p][fd] # 0
       /\ ofile' = [ofile EXCEPT ![p][Min(FreeFDs(p))] = ofile[p][fd]]
       /\ file' = [file EXCEPT ![ofile[p][fd]].ref = @ + 1]
  /\ UNCHANGED <<disk, itab, ilk, cwd, prog, th, panicked>>

\* fileclose(): the last descriptor takes the reference to the inode with it.
fileclose(p, fd, r) ==
  LET f == ofile[p][fd] IN
  /\ f # 0
  /\ ofile' = [ofile EXCEPT ![p][fd] = 0]
  /\ panicked' = (file[f].ref < 1)
  /\ IF file[f].ref > 1
     THEN /\ file' = [file EXCEPT ![f].ref = @ - 1]
          /\ th' = [th EXCEPT ![p].pc = r]
     ELSE /\ file' = [file EXCEPT ![f] = NoFile]
          /\ th' = [th EXCEPT ![p].pc = "iput", ![p].put = file[f].ip, ![p].ret = r]
  /\ UNCHANGED <<disk, itab, ilk, cwd, prog>>

Close(p) == th[p].pc = "user" /\ \E fd \in FDs : fileclose(p, fd, "user")

\* filedup() of each descriptor and idup() of the directory, for a new process q.
Fork(p, q) ==
  /\ th[p].pc = "user" /\ cwd[p] # NoIno
  /\ th[q].pc = "user" /\ cwd[q] = NoIno
  /\ ofile' = [ofile EXCEPT ![q] = ofile[p]]
  /\ file' = [f \in 1..NFILE |->
       [file[f] EXCEPT !.ref = @ + Cardinality({fd \in FDs : ofile[p][fd] = f})]]
  /\ cwd' = [cwd EXCEPT ![q] = cwd[p]]
  /\ itab' = iget(itab, cwd[p])
  /\ UNCHANGED <<disk, ilk, prog, th, panicked>>

\* exit() closes one descriptor after the other and then leaves the directory.
Exit(p) ==
  /\ th[p].pc \in {"user", "exit"} /\ cwd[p] # NoIno /\ p # InitProc
  /\ \/ \E fd \in FDs : fileclose(p, fd, "exit")
     \/ /\ FreeFDs(p) = FDs
        /\ cwd' = [cwd EXCEPT ![p] = NoIno]
        /\ th' = [th EXCEPT ![p].pc = "iput", ![p].put = cwd[p]]
        /\ UNCHANGED <<disk, itab, ilk, file, ofile, prog, panicked>>

\* No operation is open: the log has committed all that is on the disk.
Quiet == \A p \in Procs : th[p].pc \in {"user", "exit"}

\* A crash at any time leaves the disk as it was in the last quiet state, so that a
\* crash in a quiet state stands for all of them.  The boot that follows frees nothing.
Crash ==
  /\ Crashes /\ Quiet
  /\ itab' = BootItab /\ ilk' = BootIlk
  /\ file' = BootFile /\ ofile' = BootOfile /\ cwd' = BootCwd
  /\ th' = [p \in Procs |-> Idle]
  /\ UNCHANGED <<disk, prog, panicked>>

PathStep(p) ==
  \/ StartCall(p) \/ WalkFails(p) \/ WalkOn(p) \/ WalkToParent(p) \/ WalkNowhere(p)
  \/ IputLast(p) \/ Iput(p) \/ IputTrunc(p) \/ IputFree(p) \/ IputInvalid(p) \/ IputDrop(p)
CreateStep(p) ==
  \/ CreateExists(p) \/ CreateFound(p) \/ CreateNew(p)
  \/ Ialloc(p) \/ IallocFails(p) \/ IallocIget(p)
  \/ CreateInit(p) \/ CreateLink(p) \/ CreateLinkFails(p) \/ CreateFail(p)
  \/ DropParent(p) \/ Made(p)
OpenStep(p) == OpenLock(p) \/ Opened(p) \/ OpenFails(p) \/ Chdir(p)
LinkStep(p) ==
  \/ UnlinkNothing(p) \/ UnlinkLookup(p) \/ UnlinkNotEmpty(p) \/ UnlinkEntry(p) \/ UnlinkDec(p)
  \/ LinkDir(p) \/ LinkInc(p) \/ LinkEntry(p) \/ LinkExists(p) \/ LinkDrop(p)
  \/ LinkFails(p) \/ LinkPut(p) \/ LinkBad(p)
FileStep(p) == Write(p) \/ Dup(p) \/ Close(p) \/ Exit(p) \/ \E q \in Procs : Fork(p, q)

FilesNext ==
  /\ ~panicked
  /\ \/ \E p \in Procs : PathStep(p) \/ CreateStep(p) \/ OpenStep(p) \/ LinkStep(p) \/ FileStep(p)
     \/ Crash

FilesSpec == FilesInit /\ [][FilesNext]_filesVars

-----------------------------------------------------------------------------
(* Properties *)

\* No call runs into a panic(): an inode that is locked has a type ("ilock: no
\* type"), a block is freed once, an entry's inode has a link, the table has room,
\* and the acquiresleep() that iput() makes with a spinlock held does not wait.
FilesNoPanic == ~panicked

\* The pointers to inode i: local variables, current directories, open files.
Pointers(i) ==
  {h \in Procs \X {"ip", "dp", "old", "put"} :
     th[h[1]][h[2]] = i /\ ~(h[2] = "ip" /\ th[h[1]].pc = "iget")}
  \cup {h \in Procs \X {"cwd"} : cwd[h[1]] = i}
  \cup {h \in (1..NFILE) \X {"file"} : file[h[1]].ref > 0 /\ file[h[1]].ip = i}

\* ip->ref "tracks the number of in-memory pointers to the entry", and the count of
\* an open file its descriptors, through every failure path: nothing is recycled
\* under a user, and no table entry is lost.
RefsExact ==
  /\ \A i \in Inums : itab[i].ref = Cardinality(Pointers(i))
  /\ \A f \in 1..NFILE :
       file[f].ref = Cardinality({h \in Procs \X FDs : ofile[h[1]][h[2]] = f})

\* A cached inode that nobody has locked is the one on the disk, also when its
\* number was freed and allocated again while the entry stayed in the table.
CacheCurrent ==
  \A i \in Inums :
    itab[i].ref > 0 /\ itab[i].valid /\ ilk[i] = Nobody => itab[i].d = dinode[i]

\* Processes never wait for each other's inode locks in a circle, and a process
\* in user mode has none.
NoLockCycle ==
  /\ \A S \in (SUBSET Procs) \ {{}} :
       \E p \in S : WaitsFor(p) = NoIno \/ ilk[WaitsFor(p)] \notin S
  /\ \A i \in Inums : ilk[i] # Nobody => th[ilk[i]].pc # "user"

\* Directories that have a name.
LiveDirs == {i \in Inums : dinode[i].type = "dir" /\ dinode[i].nlink > 0}

\* The blocks of two inodes are disjoint, the bitmap marks exactly them, and no size goes
\* beyond the blocks: readi() would allocate one, outside any operation of the log.
BlocksExact ==
  /\ \A i, j \in Inums : i # j => dinode[i].addrs \cap dinode[j].addrs = {}
  /\ bitmap = UNION {dinode[i].addrs : i \in Inums}
  /\ \A i \in Inums : dinode[i].size <= DPB * Cardinality(dinode[i].addrs)

\* Whenever the log may commit, and so after every crash: an entry names an inode in
\* use, nlink counts the entries (and the ".." of subdirectories), and the blocks are
\* accounted for.
DiskConsistent ==
  Quiet =>
    /\ \A d \in LiveDirs : \A n \in Entries :
         ents[d][n] # NoIno => dinode[ents[d][n]].type # "free"
    /\ \A i \in Inums : dinode[i].type # "free" =>
         dinode[i].nlink = Cardinality({e \in LiveDirs \X Entries :
                              e # <<ROOTINO, "..">> /\ ents[e[1]][e[2]] = i})
                           + (IF i = ROOTINO THEN 1 ELSE 0)
    /\ BlocksExact

Nameless(i) == dinode[i].type # "free" /\ dinode[i].nlink = 0

\* The last reference to an inode without a name is never simply dropped, by no
\* failure path, close, exit or change of directory; only a crash, and the second
\* half of iput() (see NothingLeaks), let go of one.
NamelessKept ==
  [][\A i \in Inums : itab[i].ref > 0 /\ itab'[i].ref = 0 /\ Nameless(i)' =>
       \/ Crash
       \/ \E p \in Procs : th[p].pc = "drop" /\ th[p].put = i]_filesVars

\* Without crashes, an inode without a name is freed when its last user goes: "iput()
\* frees if the reference and link counts have fallen to zero" (fs.c).
NothingLeaks == Quiet => \A i \in Inums : Nameless(i) => itab[i].ref > 0

=============================================================================
