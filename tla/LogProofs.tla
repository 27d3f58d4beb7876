----------------------------- MODULE LogProofs ------------------------------
(***************************************************************************)
(* Proofs about the log for any number of operations, blocks and contents  *)
(* and any sizes: group commit and recovery implement the atomic disk, no  *)
(* dirty buffer is evicted, no pin leaks, nobody is forgotten.             *)
(***************************************************************************)
EXTENDS Log, TLAPS, SequenceTheorems, FiniteSetTheorems

\* The operations between begin_op() and end_op().
Active == {o \in Ops : pc[o] \in {"active", "panic"}}

Distinct(s) == \A i, j \in 1..Len(s) : s[i] = s[j] => i = j

\* log.outstanding counts them.
CountInv == /\ IsFiniteSet(Active)
            /\ outstanding = Cardinality(Active)
            /\ outstanding = 0 <=> Active = {}
            /\ outstanding = 1 => \A o, p \in Active : o = p

\* Nobody is active during a commit, nobody is there at all during a recovery.
ControlInv ==
  /\ committing <=> phase \in CommitPhases
  /\ committing <=> \E o \in Ops : pc[o] = "commit"
  /\ committing => outstanding = 0
  /\ phase \in RecoveryPhases => \A o \in Ops : pc[o] = "idle"

\* The header on the disk is empty or names the blocks that are being installed.
HeaderInv ==
  /\ Len(lh) < NLOG /\ Len(head) < NLOG
  /\ Distinct(lh) /\ Distinct(head)
  /\ phase \in {"none", "writeLog", "writeHead", "done"} => head = <<>>
  /\ phase \in {"install", "clear", "reinstall", "reclear"} => lh = head
  /\ phase \in {"done", "readHead"} => lh = <<>>
  /\ phase = "none" /\ outstanding = 0 => lh = <<>>
  /\ phase \in {"writeLog", "install", "reinstall"} => tail <= Len(lh)
  /\ phase \in {"writeHead", "readHead"} => tail = 1
  /\ phase = "writeHead" => lh # <<>>

\* The log blocks hold what is to be installed, the home blocks what has been.
DataInv ==
  \A i \in 1..Len(lh) :
    /\ (phase = "writeLog" /\ i < tail) \/ phase \in {"writeHead", "install"}
         => logdata[i] = mem[lh[i]]
    /\ (phase \in {"install", "reinstall"} /\ i < tail) \/ phase \in {"clear", "reclear"}
         => home[lh[i]] = logdata[i]

\* The blocks pinned by the log: those that are not installed yet.
Pinned == IF phase \in {"none", "writeLog", "writeHead"} THEN Elems(lh)
          ELSE IF phase = "install" THEN {lh[i] : i \in tail..Len(lh)} ELSE {}
PinsInv == \A b \in Blocks : pins[b] = IF b \in Pinned THEN 1 ELSE 0

\* Unless the machine has panicked, what is not pinned is clean.
CleanInv == /\ NoPanic => DirtyPinned
            /\ phase \in RecoveryPhases => mem = home

\* The reservation of one operation fits into the log.
ReservationFits == MAXOPBLOCKS <= LOGSIZE
SleepInv == ReservationFits => SleeperHasWaker

\* An operation writes fewer blocks than it reserves, by a margin that covers
\* what the log area is short of the header's array.
WritesFit == OpBlocks < MAXOPBLOCKS /\ LOGSIZE + OpBlocks + 1 < NLOG + MAXOPBLOCKS
\* The blocks that active operations have reserved and not used.
Reserved == {r \in Active \X (1..MAXOPBLOCKS) : r[2] > Cardinality(wrote[r[1]])}
SpaceInv ==
  WritesFit =>
    /\ NoPanic
    /\ \A o \in Ops : /\ IsFiniteSet(wrote[o]) /\ Cardinality(wrote[o]) <= OpBlocks
                      /\ wrote[o] \subseteq Elems(lh)
                      /\ o \notin Active => wrote[o] = {}
    /\ phase = "none" => Len(lh) + Cardinality(Reserved) <= LOGSIZE

LInv == /\ TypeOK /\ CountInv /\ ControlInv /\ HeaderInv /\ DataInv
        /\ PinsInv /\ CleanInv /\ SleepInv /\ SpaceInv

USE SizeAssumption, BlankAssumption


\* Appending a block that is not there keeps the blocks distinct.
LEMMA AppendDistinct ==
  ASSUME NEW s \in Seq(Blocks), NEW b \in Blocks, b \notin Elems(s), Distinct(s)
  PROVE  Distinct(Append(s, b)) /\ Elems(Append(s, b)) = Elems(s) \cup {b}
<1>1. Len(Append(s, b)) = Len(s) + 1 /\ Append(s, b)[Len(s) + 1] = b
      /\ \A i \in 1..Len(s) : Append(s, b)[i] = s[i]
  OBVIOUS
<1>2. Len(s) \in Nat
  OBVIOUS
<1>. QED  BY <1>1, <1>2 DEF Elems, Distinct

\* A finite set has no, one or several elements by its cardinality.
LEMMA CardinalityFacts ==
  ASSUME NEW S, IsFiniteSet(S)
  PROVE  /\ Cardinality(S) \in Nat
         /\ Cardinality(S) = 0 <=> S = {}
         /\ Cardinality(S) = 1 => \A x, y \in S : x = y
<1>1. Cardinality(S) \in Nat
  BY FS_CardinalityType
<1>2. Cardinality(S) = 0 <=> S = {}
  BY FS_EmptySet
<1>3. Cardinality(S) = 1 => \A x, y \in S : x = y
  BY FS_Singleton
<1>. QED  BY <1>1, <1>2, <1>3

\* A set of pairs from S and 1..n is finite and no larger than their product.
LEMMA PairsBound ==
  ASSUME NEW S, IsFiniteSet(S), NEW n \in Nat, NEW T, T \subseteq S \X (1..n)
  PROVE  /\ IsFiniteSet(T) /\ Cardinality(T) \in Nat
         /\ Cardinality(T) <= Cardinality(S) * n
<1>1. IsFiniteSet(1..n) /\ Cardinality(1..n) = n
  <2>1. IsFiniteSet(1..n) /\ Cardinality(1..n) = IF 1 > n THEN 0 ELSE n - 1 + 1
    BY FS_Interval
  <2>. QED  BY <2>1
<1>2. IsFiniteSet(S \X (1..n)) /\ Cardinality(S \X (1..n)) = Cardinality(S) * n
  BY <1>1, FS_Product
<1>. QED  BY <1>2, FS_Subset, FS_CardinalityType

\* The blocks of an empty transaction.
LEMMA ElemsEmpty == Elems(<<>>) = {} /\ Distinct(<<>>) /\ Len(<<>>) = 0
  BY DEF Elems, Distinct

\* A system call begins.
LEMMA CallLInv ==
  ASSUME LInv, NEW o \in Ops, Call(o)
  PROVE  LInv'
<1>1. TypeOK'
  BY DEF LInv, TypeOK, ControlInv, CountInv, HeaderInv, Active, CommitPhases,
     RecoveryPhases, Call, diskVars, memVars
<1>2. CountInv'
  BY DEF LInv, CountInv, Active, TypeOK, Call, diskVars, memVars
<1>3. ControlInv'
  BY DEF LInv, TypeOK, CountInv, ControlInv, HeaderInv, Active, CommitPhases,
     RecoveryPhases, Call, diskVars, memVars
<1>4. HeaderInv'
  BY DEF LInv, TypeOK, CountInv, ControlInv, HeaderInv, Active, CommitPhases,
     RecoveryPhases, Call, diskVars, memVars
<1>5. DataInv'
  BY DEF LInv, TypeOK, CountInv, ControlInv, HeaderInv, DataInv, Active, CommitPhases,
     RecoveryPhases, Distinct, Call, diskVars, memVars
<1>6. PinsInv'
  BY DEF LInv, TypeOK, CountInv, ControlInv, HeaderInv, PinsInv, Pinned, Active,
     CommitPhases, RecoveryPhases, Distinct, Elems, Call, diskVars, memVars
<1>7. CleanInv'
  BY DEF LInv, TypeOK, CountInv, ControlInv, HeaderInv, PinsInv, Pinned, CleanInv,
     NoPanic, DirtyPinned, Active, CommitPhases, RecoveryPhases, Elems, Call,
     diskVars, memVars
<1>8. SleepInv'
  BY DEF LInv, TypeOK, CountInv, ControlInv, HeaderInv, SleepInv, SleeperHasWaker,
     ReservationFits, Active, CommitPhases, RecoveryPhases, Call, diskVars, memVars
<1>9. SpaceInv'
  <2>1. Active' = Active /\ (NoPanic => NoPanic')
    BY DEF LInv, TypeOK, ControlInv, Active, NoPanic, RecoveryPhases, Call, diskVars,
       memVars
  <2>2. wrote' = wrote /\ lh' = lh /\ (phase' = "none" => phase = "none")
    BY DEF Call, diskVars, memVars
  <2>3. Reserved' = Reserved
    BY <2>1, <2>2 DEF Reserved
  <2>. QED  BY <2>1, <2>2, <2>3 DEF LInv, SpaceInv, Elems
<1>. QED  BY <1>1, <1>2, <1>3, <1>4, <1>5, <1>6, <1>7, <1>8, <1>9 DEF LInv

\* begin_op() lets an operation in.
LEMMA AdmitLInv ==
  ASSUME LInv, NEW o \in Ops, Admit(o)
  PROVE  LInv'
<1>1. TypeOK'
  <2>1. outstanding + 1 \in Nat
    BY DEF LInv, TypeOK
  <2>. QED  BY <2>1 DEF LInv, TypeOK, Admit, diskVars
<1>2. CountInv'
  <2>1. Active' = Active \cup {o} /\ o \notin Active
    BY DEF LInv, TypeOK, Active, Admit
  <2>2. IsFiniteSet(Active') /\ Cardinality(Active') = Cardinality(Active) + 1
    BY <2>1, FS_AddElement DEF LInv, CountInv
  <2>. QED  BY <2>2, CardinalityFacts DEF LInv, CountInv, Admit
<1>3. ControlInv'
  BY DEF LInv, TypeOK, CountInv, ControlInv, HeaderInv, Active, CommitPhases,
     RecoveryPhases, Admit, MustWait, diskVars
<1>4. HeaderInv'
  BY DEF LInv, TypeOK, CountInv, ControlInv, HeaderInv, Active, CommitPhases,
     RecoveryPhases, Admit, MustWait, diskVars
<1>5. DataInv'
  BY DEF LInv, TypeOK, CountInv, ControlInv, HeaderInv, DataInv, Active, CommitPhases,
     RecoveryPhases, Distinct, Admit, MustWait, diskVars
<1>6. PinsInv'
  BY DEF LInv, TypeOK, CountInv, ControlInv, HeaderInv, PinsInv, Pinned, Active,
     CommitPhases, RecoveryPhases, Distinct, Elems, Admit, MustWait, diskVars
<1>7. CleanInv'
  BY DEF LInv, TypeOK, CountInv, ControlInv, HeaderInv, PinsInv, Pinned, CleanInv,
     NoPanic, DirtyPinned, Active, CommitPhases, RecoveryPhases, Elems, Admit,
     MustWait, diskVars
<1>8. SleepInv'
  BY DEF LInv, TypeOK, CountInv, ControlInv, HeaderInv, SleepInv, SleeperHasWaker,
     ReservationFits, Active, CommitPhases, RecoveryPhases, Admit, MustWait, diskVars
<1>9. SpaceInv'
  <2>1. Active' = Active \cup {o} /\ o \notin Active /\ (NoPanic => NoPanic')
    BY DEF LInv, TypeOK, Active, NoPanic, Admit
  <2>2. wrote' = wrote /\ lh' = lh /\ outstanding' = outstanding + 1
    BY DEF Admit
  <2>3. IsFiniteSet(Active') /\ Cardinality(Active') = outstanding + 1
    BY <2>1, <2>2, FS_AddElement DEF LInv, CountInv
  <2>4. Reserved' \subseteq Active' \X (1..MAXOPBLOCKS)
    BY DEF Reserved
  <2>5. Cardinality(Reserved') <= (outstanding + 1) * MAXOPBLOCKS
    BY <2>3, <2>4, PairsBound DEF LInv, TypeOK
  <2>6. Cardinality(Reserved') \in Nat
    BY <2>3, <2>4, PairsBound
  <2>7. Len(lh) + (outstanding + 1) * MAXOPBLOCKS <= LOGSIZE
    <3>. DEFINE need == (outstanding + 1) * MAXOPBLOCKS
    <3>1. need \in Nat /\ Len(lh) \in Nat
      BY DEF LInv, TypeOK
    <3>2. ~(Len(lh) + need > LOGSIZE)
      BY DEF Admit, MustWait
    <3>. HIDE DEF need
    <3>3. Len(lh) + need <= LOGSIZE
      BY <3>1, <3>2
    <3>. QED  BY <3>3 DEF need
  <2>8. Len(lh') + Cardinality(Reserved') <= LOGSIZE
    <3>. DEFINE need == (outstanding + 1) * MAXOPBLOCKS
                r == Cardinality(Reserved')
    <3>1. need \in Nat /\ Len(lh) \in Nat /\ r \in Nat /\ r <= need /\ Len(lh) + need <= LOGSIZE
      BY <2>5, <2>6, <2>7 DEF LInv, TypeOK
    <3>. HIDE DEF need, r
    <3>2. Len(lh) + r <= LOGSIZE
      BY <3>1
    <3>. QED  BY <2>2, <3>2 DEF r
  <2>. QED  BY <2>1, <2>2, <2>8 DEF LInv, SpaceInv, Elems
<1>. QED  BY <1>1, <1>2, <1>3, <1>4, <1>5, <1>6, <1>7, <1>8, <1>9 DEF LInv

\* begin_op() sleeps.
LEMMA WaitLInv ==
  ASSUME LInv, NEW o \in Ops, Wait(o)
  PROVE  LInv'
<1>1. TypeOK'
  BY DEF LInv, TypeOK, ControlInv, CountInv, HeaderInv, Active, CommitPhases,
     RecoveryPhases, Wait, MustWait, diskVars, memVars
<1>2. CountInv'
  BY DEF LInv, CountInv, Active, TypeOK, Wait, MustWait, diskVars, memVars
<1>3. ControlInv'
  BY DEF LInv, TypeOK, CountInv, ControlInv, HeaderInv, Active, CommitPhases,
     RecoveryPhases, Wait, MustWait, diskVars, memVars
<1>4. HeaderInv'
  BY DEF LInv, TypeOK, CountInv, ControlInv, HeaderInv, Active, CommitPhases,
     RecoveryPhases, Wait, MustWait, diskVars, memVars
<1>5. DataInv'
  BY DEF LInv, TypeOK, CountInv, ControlInv, HeaderInv, DataInv, Active, CommitPhases,
     RecoveryPhases, Distinct, Wait, MustWait, diskVars, memVars
<1>6. PinsInv'
  BY DEF LInv, TypeOK, CountInv, ControlInv, HeaderInv, PinsInv, Pinned, Active,
     CommitPhases, RecoveryPhases, Distinct, Elems, Wait, MustWait, diskVars, memVars
<1>7. CleanInv'
  BY DEF LInv, TypeOK, CountInv, ControlInv, HeaderInv, PinsInv, Pinned, CleanInv,
     NoPanic, DirtyPinned, Active, CommitPhases, RecoveryPhases, Elems, Wait,
     MustWait, diskVars, memVars
<1>8. SleepInv'
  BY DEF LInv, TypeOK, CountInv, ControlInv, HeaderInv, SleepInv, SleeperHasWaker,
     ReservationFits, Active, CommitPhases, RecoveryPhases, Wait, MustWait, diskVars,
     memVars
<1>9. SpaceInv'
  <2>1. Active' = Active /\ (NoPanic => NoPanic')
    BY DEF LInv, TypeOK, ControlInv, Active, NoPanic, RecoveryPhases, Wait, diskVars,
       memVars
  <2>2. wrote' = wrote /\ lh' = lh /\ (phase' = "none" => phase = "none")
    BY DEF Wait, diskVars, memVars
  <2>3. Reserved' = Reserved
    BY <2>1, <2>2 DEF Reserved
  <2>. QED  BY <2>1, <2>2, <2>3 DEF LInv, SpaceInv, Elems
<1>. QED  BY <1>1, <1>2, <1>3, <1>4, <1>5, <1>6, <1>7, <1>8, <1>9 DEF LInv

\* A sleeper is woken by kill().
LEMMA KillLInv ==
  ASSUME LInv, NEW o \in Ops, Kill(o)
  PROVE  LInv'
<1>1. TypeOK'
  BY DEF LInv, TypeOK, ControlInv, CountInv, HeaderInv, Active, CommitPhases,
     RecoveryPhases, Kill, diskVars, memVars
<1>2. CountInv'
  BY DEF LInv, CountInv, Active, TypeOK, Kill, diskVars, memVars
<1>3. ControlInv'
  BY DEF LInv, TypeOK, CountInv, ControlInv, HeaderInv, Active, CommitPhases,
     RecoveryPhases, Kill, diskVars, memVars
<1>4. HeaderInv'
  BY DEF LInv, TypeOK, CountInv, ControlInv, HeaderInv, Active, CommitPhases,
     RecoveryPhases, Kill, diskVars, memVars
<1>5. DataInv'
  BY DEF LInv, TypeOK, CountInv, ControlInv, HeaderInv, DataInv, Active, CommitPhases,
     RecoveryPhases, Distinct, Kill, diskVars, memVars
<1>6. PinsInv'
  BY DEF LInv, TypeOK, CountInv, ControlInv, HeaderInv, PinsInv, Pinned, Active,
     CommitPhases, RecoveryPhases, Distinct, Elems, Kill, diskVars, memVars
<1>7. CleanInv'
  BY DEF LInv, TypeOK, CountInv, ControlInv, HeaderInv, PinsInv, Pinned, CleanInv,
     NoPanic, DirtyPinned, Active, CommitPhases, RecoveryPhases, Elems, Kill,
     diskVars, memVars
<1>8. SleepInv'
  BY DEF LInv, TypeOK, CountInv, ControlInv, HeaderInv, SleepInv, SleeperHasWaker,
     ReservationFits, Active, CommitPhases, RecoveryPhases, Kill, diskVars, memVars
<1>9. SpaceInv'
  <2>1. Active' = Active /\ (NoPanic => NoPanic')
    BY DEF LInv, TypeOK, ControlInv, Active, NoPanic, RecoveryPhases, Kill, diskVars,
       memVars
  <2>2. wrote' = wrote /\ lh' = lh /\ (phase' = "none" => phase = "none")
    BY DEF Kill, diskVars, memVars
  <2>3. Reserved' = Reserved
    BY <2>1, <2>2 DEF Reserved
  <2>. QED  BY <2>1, <2>2, <2>3 DEF LInv, SpaceInv, Elems
<1>. QED  BY <1>1, <1>2, <1>3, <1>4, <1>5, <1>6, <1>7, <1>8, <1>9 DEF LInv

\* log_write() absorbs, appends or panics.
LEMMA LogWriteLInv ==
  ASSUME LInv, NEW o \in Ops, NEW b \in Blocks, NEW v \in Vals, LogWrite(o, b, v)
  PROVE  LInv'
<1>1. TypeOK'
  <2>1. Append(lh, b) \in Seq(Blocks) /\ pins[b] + 1 \in Nat
    BY DEF LInv, TypeOK
  <2>. QED  BY <2>1 DEF LInv, TypeOK, LogWrite, bpin, diskVars
<1>2. CountInv'
  BY DEF LInv, CountInv, Active, TypeOK, LogWrite, LogFull, bpin, diskVars
<1>3. ControlInv'
  BY DEF LInv, TypeOK, CountInv, ControlInv, HeaderInv, Active, CommitPhases,
     RecoveryPhases, LogWrite, LogFull, bpin, diskVars
<1>4. HeaderInv'
  <2>1. b \notin Elems(lh) => Distinct(Append(lh, b))
    BY AppendDistinct DEF LInv, TypeOK, HeaderInv
  <2>2. Len(Append(lh, b)) = Len(lh) + 1 /\ Len(lh) \in Nat
    BY DEF LInv, TypeOK
  <2>3. outstanding # 0 /\ phase = "none"
    BY DEF LInv, TypeOK, CountInv, ControlInv, Active, RecoveryPhases, LogWrite
  <2>4. ~LogFull => Len(lh) + 1 < NLOG
    BY <2>2 DEF LogFull
  <2>. QED  BY <2>1, <2>2, <2>3, <2>4 DEF LInv, HeaderInv, LogWrite, diskVars
<1>5. DataInv'
  BY DEF LInv, TypeOK, CountInv, ControlInv, HeaderInv, DataInv, Active, CommitPhases,
     RecoveryPhases, Distinct, LogWrite, LogFull, bpin, diskVars
<1>6. PinsInv'
  <2>1. phase = "none" /\ phase' = "none"
    BY DEF LInv, TypeOK, CountInv, ControlInv, Active, RecoveryPhases, LogWrite
  <2>2. CASE LogFull \/ b \in Elems(lh)
    BY <2>1, <2>2 DEF LInv, PinsInv, Pinned, LogWrite, Elems
  <2>3. CASE ~(LogFull \/ b \in Elems(lh))
    <3>1. lh' = Append(lh, b) /\ pins' = bpin(b)
      BY <2>3 DEF LogWrite
    <3>2. Elems(lh') = Elems(lh) \cup {b}
      BY <2>3, <3>1, AppendDistinct DEF LInv, TypeOK, HeaderInv
    <3>3. Pinned' = Pinned \cup {b} /\ b \notin Pinned
      BY <2>1, <2>3, <3>2 DEF Pinned, Elems
    <3>. QED  BY <3>1, <3>3 DEF LInv, TypeOK, PinsInv, bpin
  <2>. QED  BY <2>2, <2>3
<1>7. CleanInv'
  <2>1. phase = "none" /\ phase' = "none"
    BY DEF LInv, TypeOK, CountInv, ControlInv, Active, RecoveryPhases, LogWrite
  <2>2. /\ mem \in [Blocks -> Vals] /\ pins \in [Blocks -> Nat]
        /\ home' = home /\ mem' = [mem EXCEPT ![b] = v]
    BY DEF LInv, TypeOK, LogWrite, diskVars
  <2>3. SUFFICES ASSUME NoPanic', NEW x \in Blocks, mem'[x] # home'[x]
                 PROVE  pins'[x] > 0
    BY <2>1 DEF CleanInv, DirtyPinned, RecoveryPhases
  <2>4. NoPanic /\ ~LogFull
    BY <2>3 DEF LInv, TypeOK, NoPanic, LogWrite
  <2>5. CASE x = b
    <3>1. CASE b \in Elems(lh)
      BY <2>1, <2>5, <3>1 DEF LInv, PinsInv, Pinned, LogWrite
    <3>2. CASE b \notin Elems(lh)
      BY <2>2, <2>4, <2>5, <3>2 DEF LogWrite, bpin
    <3>. QED  BY <3>1, <3>2
  <2>6. CASE x # b
    <3>1. mem'[x] = mem[x] /\ pins[x] > 0
      BY <2>2, <2>3, <2>4, <2>6 DEF LInv, CleanInv, DirtyPinned
    <3>2. pins'[x] = pins[x]
      BY <2>2, <2>6 DEF LogWrite, bpin
    <3>. QED  BY <3>1, <3>2
  <2>. QED  BY <2>5, <2>6
<1>8. SleepInv'
  BY DEF LInv, TypeOK, CountInv, ControlInv, HeaderInv, SleepInv, SleeperHasWaker,
     ReservationFits, Active, CommitPhases, RecoveryPhases, LogWrite, LogFull, bpin,
     diskVars
<1>9. SpaceInv'
  <2>. SUFFICES ASSUME WritesFit PROVE SpaceInv'
    BY DEF SpaceInv, WritesFit
  <2>. DEFINE c == Cardinality(wrote[o])
              left == {o} \X ((OpBlocks + 1)..MAXOPBLOCKS)
  <2>1. phase = "none" /\ phase' = "none" /\ o \in Active /\ NoPanic
    BY DEF LInv, TypeOK, CountInv, ControlInv, Active, RecoveryPhases, SpaceInv,
       LogWrite
  <2>2. /\ IsFiniteSet(wrote[o]) /\ c <= OpBlocks /\ wrote[o] \subseteq Elems(lh)
        /\ Len(lh) + Cardinality(Reserved) <= LOGSIZE
    BY <2>1 DEF LInv, SpaceInv
  <2>3. c \in Nat /\ Len(lh) \in Nat /\ OpBlocks \in Nat /\ MAXOPBLOCKS \in Nat
        /\ OpBlocks < MAXOPBLOCKS /\ LOGSIZE \in Nat /\ NLOG \in Nat
        /\ LOGSIZE + OpBlocks + 1 < NLOG + MAXOPBLOCKS
    BY <2>2, FS_CardinalityType DEF LInv, TypeOK, WritesFit
  <2>4. IsFiniteSet(Reserved) /\ Cardinality(Reserved) \in Nat
    BY PairsBound DEF LInv, CountInv, Reserved
  <2>5. left \subseteq Reserved
    BY <2>1, <2>2, <2>3 DEF Reserved
  <2>6. Cardinality(left) = MAXOPBLOCKS - OpBlocks
    <3>1. IsFiniteSet({o}) /\ Cardinality({o}) = 1
      BY FS_Singleton
    <3>2. IsFiniteSet((OpBlocks + 1)..MAXOPBLOCKS)
          /\ Cardinality((OpBlocks + 1)..MAXOPBLOCKS) = MAXOPBLOCKS - OpBlocks
      <4>1. OpBlocks + 1 \in Int /\ MAXOPBLOCKS \in Int /\ ~(OpBlocks + 1 > MAXOPBLOCKS)
        BY <2>3
      <4>2. IsFiniteSet((OpBlocks + 1)..MAXOPBLOCKS)
            /\ Cardinality((OpBlocks + 1)..MAXOPBLOCKS) = MAXOPBLOCKS - (OpBlocks + 1) + 1
        BY <4>1, FS_Interval
      <4>. QED  BY <2>3, <4>2
    <3>3. Cardinality(left) = 1 * (MAXOPBLOCKS - OpBlocks)
      BY <3>1, <3>2, FS_Product
    <3>. QED  BY <2>3, <3>3
  <2>7. MAXOPBLOCKS - OpBlocks <= Cardinality(Reserved)
    BY <2>4, <2>5, <2>6, FS_Subset
  <2>8. ~LogFull
    BY <2>2, <2>3, <2>4, <2>7 DEF LogFull
  <2>9. pc' = pc /\ NoPanic' /\ Active' = Active
    BY <2>1, <2>8 DEF LInv, TypeOK, NoPanic, Active, LogWrite
  <2>10. /\ wrote' = [wrote EXCEPT ![o] = wrote[o] \cup {b}]
         /\ wrote \in [Ops -> SUBSET Blocks]
         /\ IsFiniteSet(wrote'[o])
         /\ Cardinality(wrote'[o]) = IF b \in wrote[o] THEN c ELSE c + 1
         /\ wrote'[o] = wrote[o] \cup {b}
    BY <2>2, FS_AddElement DEF LInv, TypeOK, LogWrite
  <2>11. Cardinality(wrote'[o]) <= OpBlocks
    BY <2>2, <2>3, <2>10 DEF LogWrite
  <2>12. Reserved' \subseteq Reserved
    BY <2>2, <2>3, <2>9, <2>10 DEF Reserved
  <2>13. Elems(lh') = Elems(lh) \cup {b}
    <3>1. CASE b \in Elems(lh)
      BY <2>8, <3>1 DEF LogWrite
    <3>2. CASE b \notin Elems(lh)
      <4>1. lh' = Append(lh, b) /\ lh \in Seq(Blocks) /\ Distinct(lh)
        BY <2>8, <3>2 DEF LInv, TypeOK, HeaderInv, LogWrite
      <4>. QED  BY <3>2, <4>1, AppendDistinct
    <3>. QED  BY <3>1, <3>2
  <2>14. Len(lh') + Cardinality(Reserved') <= LOGSIZE
    <3>1. CASE b \in Elems(lh)
      <4>1. Cardinality(Reserved') \in Nat /\ Cardinality(Reserved') <= Cardinality(Reserved)
        BY <2>4, <2>12, FS_Subset, FS_CardinalityType
      <4>. QED  BY <2>2, <2>3, <2>4, <3>1, <4>1 DEF LogWrite
    <3>2. CASE b \notin Elems(lh)
      <4>1. b \notin wrote[o] /\ Cardinality(wrote'[o]) = c + 1 /\ Len(lh') = Len(lh) + 1
        BY <2>2, <2>8, <2>10, <3>2 DEF LInv, TypeOK, LogWrite
      <4>2. <<o, c + 1>> \in Reserved
        BY <2>1, <2>3, <2>11, <4>1 DEF Reserved
      <4>3. Reserved' \subseteq Reserved \ {<<o, c + 1>>}
        BY <2>3, <2>12, <4>1 DEF Reserved
      <4>4. IsFiniteSet(Reserved \ {<<o, c + 1>>})
            /\ Cardinality(Reserved \ {<<o, c + 1>>}) = Cardinality(Reserved) - 1
        BY <2>4, <4>2, FS_RemoveElement
      <4>5. Cardinality(Reserved') \in Nat /\ Cardinality(Reserved') <= Cardinality(Reserved) - 1
        BY <4>3, <4>4, FS_Subset, FS_CardinalityType
      <4>. QED  BY <2>2, <2>3, <2>4, <4>1, <4>5
    <3>. QED  BY <3>1, <3>2
  <2>15. \A q \in Ops : /\ IsFiniteSet(wrote[q]) /\ Cardinality(wrote[q]) <= OpBlocks
                        /\ wrote[q] \subseteq Elems(lh) /\ (q \notin Active => wrote[q] = {})
    BY DEF LInv, SpaceInv
  <2>16. \A q \in Ops : /\ IsFiniteSet(wrote'[q]) /\ Cardinality(wrote'[q]) <= OpBlocks
                        /\ wrote'[q] \subseteq Elems(lh') /\ (q \notin Active' => wrote'[q] = {})
    <3>1. \A q \in Ops \ {o} : wrote'[q] = wrote[q]
      BY <2>10
    <3>. QED  BY <2>1, <2>2, <2>9, <2>10, <2>11, <2>13, <2>15, <3>1
  <2>. QED  BY <2>9, <2>14, <2>16 DEF SpaceInv
<1>. QED  BY <1>1, <1>2, <1>3, <1>4, <1>5, <1>6, <1>7, <1>8, <1>9 DEF LInv

\* end_op() of one of several.
LEMMA EndOpLInv ==
  ASSUME LInv, NEW o \in Ops, EndOp(o)
  PROVE  LInv'
<1>1. TypeOK'
  BY DEF LInv, TypeOK, ControlInv, CountInv, HeaderInv, Active, CommitPhases,
     RecoveryPhases, EndOp, Wake, diskVars
<1>2. CountInv'
  <2>1. Active' = Active \ {o} /\ o \in Active
    BY DEF LInv, TypeOK, Active, EndOp, Wake
  <2>2. IsFiniteSet(Active') /\ Cardinality(Active') = Cardinality(Active) - 1
    BY <2>1, FS_RemoveElement DEF LInv, CountInv
  <2>. QED  BY <2>2, CardinalityFacts DEF LInv, CountInv, EndOp
<1>3. ControlInv'
  BY DEF LInv, TypeOK, CountInv, ControlInv, HeaderInv, Active, CommitPhases,
     RecoveryPhases, EndOp, Wake, diskVars
<1>4. HeaderInv'
  BY DEF LInv, TypeOK, CountInv, ControlInv, HeaderInv, Active, CommitPhases,
     RecoveryPhases, EndOp, Wake, diskVars
<1>5. DataInv'
  BY DEF LInv, TypeOK, CountInv, ControlInv, HeaderInv, DataInv, Active, CommitPhases,
     RecoveryPhases, Distinct, EndOp, Wake, diskVars
<1>6. PinsInv'
  BY DEF LInv, TypeOK, CountInv, ControlInv, HeaderInv, PinsInv, Pinned, Active,
     CommitPhases, RecoveryPhases, Distinct, Elems, EndOp, Wake, diskVars
<1>7. CleanInv'
  BY DEF LInv, TypeOK, CountInv, ControlInv, HeaderInv, PinsInv, Pinned, CleanInv,
     NoPanic, DirtyPinned, Active, CommitPhases, RecoveryPhases, Elems, EndOp, Wake,
     diskVars
<1>8. SleepInv'
  BY DEF LInv, TypeOK, CountInv, ControlInv, HeaderInv, SleepInv, SleeperHasWaker,
     ReservationFits, Active, CommitPhases, RecoveryPhases, EndOp, Wake, diskVars
<1>9. SpaceInv'
  <2>1. Active' = Active \ {o} /\ (NoPanic => NoPanic')
    BY DEF LInv, TypeOK, Active, NoPanic, EndOp, Wake
  <2>2. wrote' = [wrote EXCEPT ![o] = {}] /\ lh' = lh /\ phase' = phase
    BY DEF EndOp
  <2>3. Reserved' \subseteq Reserved
    BY <2>1, <2>2 DEF LInv, TypeOK, Reserved
  <2>4. IsFiniteSet(Reserved)
    BY PairsBound DEF LInv, CountInv, Reserved
  <2>5. /\ Cardinality(Reserved') \in Nat /\ Cardinality(Reserved) \in Nat
        /\ Cardinality(Reserved') <= Cardinality(Reserved)
    BY <2>3, <2>4, FS_Subset, FS_CardinalityType
  <2>6. WritesFit /\ phase = "none" => Len(lh) + Cardinality(Reserved') <= LOGSIZE
    BY <2>5 DEF LInv, TypeOK, SpaceInv
  <2>. QED  BY <2>1, <2>2, <2>6, FS_EmptySet DEF LInv, TypeOK, SpaceInv, Elems
<1>. QED  BY <1>1, <1>2, <1>3, <1>4, <1>5, <1>6, <1>7, <1>8, <1>9 DEF LInv

\* end_op() of the last operation.
LEMMA EndLastOpLInv ==
  ASSUME LInv, NEW o \in Ops, EndLastOp(o)
  PROVE  LInv'
<1>1. TypeOK'
  BY DEF LInv, TypeOK, ControlInv, CountInv, HeaderInv, Active, CommitPhases,
     RecoveryPhases, EndLastOp, diskVars
<1>2. CountInv'
  <2>1. Active' = {}
    BY DEF LInv, TypeOK, CountInv, Active, EndLastOp
  <2>. QED  BY <2>1, FS_EmptySet DEF CountInv, EndLastOp
<1>3. ControlInv'
  BY DEF LInv, TypeOK, CountInv, ControlInv, HeaderInv, Active, CommitPhases,
     RecoveryPhases, EndLastOp, diskVars
<1>4. HeaderInv'
  BY DEF LInv, TypeOK, CountInv, ControlInv, HeaderInv, Active, CommitPhases,
     RecoveryPhases, EndLastOp, diskVars
<1>5. DataInv'
  BY DEF LInv, TypeOK, CountInv, ControlInv, HeaderInv, DataInv, Active, CommitPhases,
     RecoveryPhases, Distinct, EndLastOp, diskVars
<1>6. PinsInv'
  BY DEF LInv, TypeOK, CountInv, ControlInv, HeaderInv, PinsInv, Pinned, Active,
     CommitPhases, RecoveryPhases, Distinct, Elems, EndLastOp, diskVars
<1>7. CleanInv'
  BY DEF LInv, TypeOK, CountInv, ControlInv, HeaderInv, PinsInv, Pinned, CleanInv,
     NoPanic, DirtyPinned, Active, CommitPhases, RecoveryPhases, Elems, EndLastOp,
     diskVars
<1>8. SleepInv'
  BY DEF LInv, TypeOK, CountInv, ControlInv, HeaderInv, SleepInv, SleeperHasWaker,
     ReservationFits, Active, CommitPhases, RecoveryPhases, EndLastOp, diskVars
<1>9. SpaceInv'
  <2>1. Active' = Active \ {o} /\ (NoPanic => NoPanic')
    BY DEF LInv, TypeOK, Active, NoPanic, EndLastOp
  <2>2. wrote' = [wrote EXCEPT ![o] = {}] /\ lh' = lh /\ phase' # "none"
    BY DEF EndLastOp
  <2> SUFFICES ASSUME WritesFit
               PROVE  /\ NoPanic'
                      /\ \A p \in Ops : /\ IsFiniteSet(wrote'[p])
                                        /\ Cardinality(wrote'[p]) <= OpBlocks
                                        /\ wrote'[p] \subseteq Elems(lh)
                                        /\ p \notin Active \ {o} => wrote'[p] = {}
    BY <2>1, <2>2 DEF SpaceInv
  <2>3. /\ NoPanic /\ wrote \in [Ops -> SUBSET Blocks] /\ OpBlocks \in Nat
        /\ \A p \in Ops : /\ IsFiniteSet(wrote[p]) /\ Cardinality(wrote[p]) <= OpBlocks
                          /\ wrote[p] \subseteq Elems(lh)
                          /\ p \notin Active => wrote[p] = {}
    BY DEF LInv, TypeOK, SpaceInv
  <2>4. wrote'[o] = {} /\ \A p \in Ops \ {o} : wrote'[p] = wrote[p]
    BY <2>2, <2>3
  <2>5. NoPanic'
    BY <2>1, <2>3
  <2>6. IsFiniteSet(wrote'[o]) /\ Cardinality(wrote'[o]) = 0
    BY <2>4, FS_EmptySet
  <2>7. ASSUME NEW p \in Ops
        PROVE  /\ IsFiniteSet(wrote'[p])
               /\ Cardinality(wrote'[p]) <= OpBlocks
               /\ wrote'[p] \subseteq Elems(lh)
               /\ p \notin Active \ {o} => wrote'[p] = {}
    <3>1. CASE p = o
      <4>1. IsFiniteSet(wrote'[p]) /\ wrote'[p] \subseteq Elems(lh) /\ wrote'[p] = {}
        BY <3>1, <2>4, <2>6
      <4>2. Cardinality(wrote'[p]) <= OpBlocks
        BY ONLY <3>1, <2>6, <2>3, SMT
      <4>. QED  BY <4>1, <4>2
    <3>2. CASE p # o
      <4>1. wrote'[p] = wrote[p]
        BY <3>2, <2>4
      <4>2. p \notin Active \ {o} => p \notin Active
        BY <3>2
      <4>. QED  BY <4>1, <4>2, <2>3
    <3>. QED  BY <3>1, <3>2
  <2>. QED  BY <2>5, <2>7
<1>. QED  BY <1>1, <1>2, <1>3, <1>4, <1>5, <1>6, <1>7, <1>8, <1>9 DEF LInv

\* The commit is over.
LEMMA EndCommitLInv ==
  ASSUME LInv, EndCommit
  PROVE  LInv'
<1>1. TypeOK'
  BY DEF LInv, TypeOK, ControlInv, CountInv, HeaderInv, Active, CommitPhases,
     RecoveryPhases, EndCommit, Wake, diskVars
<1>2. CountInv'
  BY DEF LInv, CountInv, Active, TypeOK, EndCommit, Wake, diskVars
<1>3. ControlInv'
  BY DEF LInv, TypeOK, CountInv, ControlInv, HeaderInv, Active, CommitPhases,
     RecoveryPhases, EndCommit, Wake, diskVars
<1>4. HeaderInv'
  BY DEF LInv, TypeOK, CountInv, ControlInv, HeaderInv, Active, CommitPhases,
     RecoveryPhases, EndCommit, Wake, diskVars
<1>5. DataInv'
  BY DEF LInv, TypeOK, CountInv, ControlInv, HeaderInv, DataInv, Active, CommitPhases,
     RecoveryPhases, Distinct, EndCommit, Wake, diskVars
<1>6. PinsInv'
  BY DEF LInv, TypeOK, CountInv, ControlInv, HeaderInv, PinsInv, Pinned, Active,
     CommitPhases, RecoveryPhases, Distinct, Elems, EndCommit, Wake, diskVars
<1>7. CleanInv'
  BY DEF LInv, TypeOK, CountInv, ControlInv, HeaderInv, PinsInv, Pinned, CleanInv,
     NoPanic, DirtyPinned, Active, CommitPhases, RecoveryPhases, Elems, EndCommit,
     Wake, diskVars
<1>8. SleepInv'
  BY DEF LInv, TypeOK, CountInv, ControlInv, HeaderInv, SleepInv, SleeperHasWaker,
     ReservationFits, Active, CommitPhases, RecoveryPhases, EndCommit, Wake, diskVars
<1>9. SpaceInv'
  <2>1. Active = {} /\ Active' = {} /\ (NoPanic => NoPanic') /\ wrote' = wrote /\ lh' = <<>> /\ lh = lh'
    BY DEF LInv, TypeOK, CountInv, ControlInv, HeaderInv, Active, NoPanic,
       CommitPhases, EndCommit, Wake, diskVars
  <2>2. Reserved' = {} /\ Cardinality({}) = 0 /\ Len(lh') = 0
    BY <2>1, FS_EmptySet DEF Reserved
  <2>. QED  BY <2>1, <2>2 DEF LInv, SpaceInv, Elems
<1>. QED  BY <1>1, <1>2, <1>3, <1>4, <1>5, <1>6, <1>7, <1>8, <1>9 DEF LInv

\* A block goes to the log.
LEMMA WriteLogLInv ==
  ASSUME LInv, WriteLog
  PROVE  LInv'
<1>1. TypeOK'
  <2>1. tail \in 1..Len(lh) /\ lh[tail] \in Blocks /\ tail \in Slots
    BY DEF LInv, TypeOK, HeaderInv, Slots, WriteLog
  <2>2. tail + 1 \in Nat \ {0}
    BY DEF LInv, TypeOK
  <2>. QED  BY <2>1, <2>2 DEF LInv, TypeOK, CommitPhases, RecoveryPhases, WriteLog,
               Loop, memVars, opVars
<1>2. CountInv'
  BY DEF LInv, CountInv, Active, TypeOK, WriteLog, Loop, memVars, opVars
<1>3. ControlInv'
  BY DEF LInv, TypeOK, CountInv, ControlInv, HeaderInv, Active, CommitPhases,
     RecoveryPhases, WriteLog, Loop, memVars, opVars
<1>4. HeaderInv'
  BY DEF LInv, TypeOK, CountInv, ControlInv, HeaderInv, Active, CommitPhases,
     RecoveryPhases, WriteLog, Loop, memVars, opVars
<1>5. DataInv'
  <2>1. tail \in 1..Len(lh) /\ lh[tail] \in Blocks /\ tail \in Slots
    BY DEF LInv, TypeOK, HeaderInv, Slots, WriteLog
  <2>2. Len(lh) < NLOG /\ Len(lh) \in Nat
    BY DEF LInv, TypeOK, HeaderInv
  <2>3. \A i \in 1..Len(lh) : i \in Slots
    BY <2>2 DEF Slots
  <2>4. logdata' = [logdata EXCEPT ![tail] = mem[lh[tail]]] /\ logdata \in [Slots -> Vals]
    BY DEF LInv, TypeOK, WriteLog
  <2>5. \A i \in 1..Len(lh) : logdata'[i] = IF i = tail THEN mem[lh[i]] ELSE logdata[i]
    BY <2>3, <2>4
  <2>6. lh' = lh /\ mem' = mem /\ home' = home /\ phase = "writeLog" /\ phase' \in {"writeLog", "writeHead"}
    BY DEF WriteLog, Loop, memVars
  <2>7. \A i \in 1..Len(lh) : (phase' = "writeLog" /\ i < tail') \/ phase' = "writeHead" => i <= tail
    BY <2>1, <2>2 DEF LInv, TypeOK, WriteLog, Loop
  <2>8. \A i \in 1..Len(lh) : i < tail => logdata[i] = mem[lh[i]]
    BY <2>6 DEF LInv, DataInv
  <2>. QED  BY <2>1, <2>2, <2>5, <2>6, <2>7, <2>8 DEF DataInv
<1>6. PinsInv'
  BY DEF LInv, TypeOK, CountInv, ControlInv, HeaderInv, PinsInv, Pinned, Active,
     CommitPhases, RecoveryPhases, Distinct, Elems, WriteLog, Loop, memVars, opVars
<1>7. CleanInv'
  BY DEF LInv, TypeOK, CountInv, ControlInv, HeaderInv, PinsInv, Pinned, CleanInv,
     NoPanic, DirtyPinned, Active, CommitPhases, RecoveryPhases, Elems, WriteLog,
     Loop, memVars, opVars
<1>8. SleepInv'
  BY DEF LInv, TypeOK, CountInv, ControlInv, HeaderInv, SleepInv, SleeperHasWaker,
     ReservationFits, Active, CommitPhases, RecoveryPhases, WriteLog, Loop, memVars,
     opVars
<1>9. SpaceInv'
  BY DEF LInv, TypeOK, CountInv, ControlInv, HeaderInv, SpaceInv, NoPanic, Reserved,
     Active, Elems, CommitPhases, RecoveryPhases, WriteLog, Loop, memVars, opVars
<1>. QED  BY <1>1, <1>2, <1>3, <1>4, <1>5, <1>6, <1>7, <1>8, <1>9 DEF LInv

\* The commit point.
LEMMA WriteHeadLInv ==
  ASSUME LInv, WriteHead
  PROVE  LInv'
<1>1. TypeOK'
  BY DEF LInv, TypeOK, ControlInv, CountInv, HeaderInv, Active, CommitPhases,
     RecoveryPhases, WriteHead, memVars, opVars
<1>2. CountInv'
  BY DEF LInv, CountInv, Active, TypeOK, WriteHead, memVars, opVars
<1>3. ControlInv'
  BY DEF LInv, TypeOK, CountInv, ControlInv, HeaderInv, Active, CommitPhases,
     RecoveryPhases, WriteHead, memVars, opVars
<1>4. HeaderInv'
  BY DEF LInv, TypeOK, CountInv, ControlInv, HeaderInv, Active, CommitPhases,
     RecoveryPhases, WriteHead, memVars, opVars
<1>5. DataInv'
  BY DEF LInv, TypeOK, CountInv, ControlInv, HeaderInv, DataInv, Active, CommitPhases,
     RecoveryPhases, Distinct, WriteHead, memVars, opVars
<1>6. PinsInv'
  BY DEF LInv, TypeOK, CountInv, ControlInv, HeaderInv, PinsInv, Pinned, Active,
     CommitPhases, RecoveryPhases, Distinct, Elems, WriteHead, memVars, opVars
<1>7. CleanInv'
  BY DEF LInv, TypeOK, CountInv, ControlInv, HeaderInv, PinsInv, Pinned, CleanInv,
     NoPanic, DirtyPinned, Active, CommitPhases, RecoveryPhases, Elems, WriteHead,
     memVars, opVars
<1>8. SleepInv'
  BY DEF LInv, TypeOK, CountInv, ControlInv, HeaderInv, SleepInv, SleeperHasWaker,
     ReservationFits, Active, CommitPhases, RecoveryPhases, WriteHead, memVars, opVars
<1>9. SpaceInv'
  BY DEF LInv, TypeOK, CountInv, ControlInv, HeaderInv, SpaceInv, NoPanic, Reserved,
     Active, Elems, CommitPhases, RecoveryPhases, WriteHead, memVars, opVars
<1>. QED  BY <1>1, <1>2, <1>3, <1>4, <1>5, <1>6, <1>7, <1>8, <1>9 DEF LInv

\* A block goes home and is unpinned.
LEMMA InstallLInv ==
  ASSUME LInv, Install
  PROVE  LInv'
<1>1. TypeOK'
  <2>1. tail \in 1..Len(lh) /\ lh[tail] \in Blocks /\ tail \in Slots
    BY DEF LInv, TypeOK, HeaderInv, Slots, Install
  <2>2. tail + 1 \in Nat \ {0}
    BY DEF LInv, TypeOK
  <2>3. pins[lh[tail]] = 1
    BY <2>1 DEF LInv, TypeOK, PinsInv, Pinned, Install
  <2>. QED  BY <2>1, <2>2, <2>3 DEF LInv, TypeOK, CommitPhases, RecoveryPhases,
               Install, Loop, bunpin, opVars
<1>2. CountInv'
  BY DEF LInv, CountInv, Active, TypeOK, Install, Loop, bunpin, opVars
<1>3. ControlInv'
  BY DEF LInv, TypeOK, CountInv, ControlInv, HeaderInv, Active, CommitPhases,
     RecoveryPhases, Install, Loop, bunpin, opVars
<1>4. HeaderInv'
  BY DEF LInv, TypeOK, CountInv, ControlInv, HeaderInv, Active, CommitPhases,
     RecoveryPhases, Install, Loop, bunpin, opVars
<1>5. DataInv'
  BY DEF LInv, TypeOK, CountInv, ControlInv, HeaderInv, DataInv, Active, CommitPhases,
     RecoveryPhases, Distinct, Install, Loop, bunpin, opVars
<1>6. PinsInv'
  BY DEF LInv, TypeOK, CountInv, ControlInv, HeaderInv, PinsInv, Pinned, Active,
     CommitPhases, RecoveryPhases, Distinct, Elems, Install, Loop, bunpin, opVars
<1>7. CleanInv'
  BY DEF LInv, TypeOK, CountInv, ControlInv, HeaderInv, PinsInv, Pinned, CleanInv,
     NoPanic, DirtyPinned, Active, CommitPhases, RecoveryPhases, Elems, Install, Loop,
     bunpin, opVars
<1>8. SleepInv'
  BY DEF LInv, TypeOK, CountInv, ControlInv, HeaderInv, SleepInv, SleeperHasWaker,
     ReservationFits, Active, CommitPhases, RecoveryPhases, Install, Loop, bunpin,
     opVars
<1>9. SpaceInv'
  BY DEF LInv, TypeOK, CountInv, ControlInv, HeaderInv, SpaceInv, NoPanic, Reserved,
     Active, Elems, CommitPhases, RecoveryPhases, Install, Loop, bunpin, opVars
<1>. QED  BY <1>1, <1>2, <1>3, <1>4, <1>5, <1>6, <1>7, <1>8, <1>9 DEF LInv

\* The transaction is erased.
LEMMA ClearLInv ==
  ASSUME LInv, Clear
  PROVE  LInv'
<1>1. TypeOK'
  BY DEF LInv, TypeOK, ControlInv, CountInv, HeaderInv, Active, CommitPhases,
     RecoveryPhases, Clear, opVars
<1>2. CountInv'
  BY DEF LInv, CountInv, Active, TypeOK, Clear, opVars
<1>3. ControlInv'
  BY DEF LInv, TypeOK, CountInv, ControlInv, HeaderInv, Active, CommitPhases,
     RecoveryPhases, Clear, opVars
<1>4. HeaderInv'
  BY ElemsEmpty DEF LInv, TypeOK, ControlInv, HeaderInv, Clear
<1>5. DataInv'
  BY DEF LInv, TypeOK, CountInv, ControlInv, HeaderInv, DataInv, Active, CommitPhases,
     RecoveryPhases, Distinct, Clear, opVars
<1>6. PinsInv'
  BY DEF LInv, TypeOK, CountInv, ControlInv, HeaderInv, PinsInv, Pinned, Active,
     CommitPhases, RecoveryPhases, Distinct, Elems, Clear, opVars
<1>7. CleanInv'
  BY DEF LInv, TypeOK, CountInv, ControlInv, HeaderInv, PinsInv, Pinned, CleanInv,
     NoPanic, DirtyPinned, Active, CommitPhases, RecoveryPhases, Elems, Clear, opVars
<1>8. SleepInv'
  BY DEF LInv, TypeOK, CountInv, ControlInv, HeaderInv, SleepInv, SleeperHasWaker,
     ReservationFits, Active, CommitPhases, RecoveryPhases, Clear, opVars
<1>9. SpaceInv'
  BY DEF LInv, TypeOK, CountInv, ControlInv, HeaderInv, SpaceInv, NoPanic, Reserved,
     Active, Elems, CommitPhases, RecoveryPhases, Clear, opVars
<1>. QED  BY <1>1, <1>2, <1>3, <1>4, <1>5, <1>6, <1>7, <1>8, <1>9 DEF LInv

\* An unpinned buffer is recycled.
LEMMA EvictLInv ==
  ASSUME LInv, NEW b \in Blocks, Evict(b)
  PROVE  LInv'
<1>1. TypeOK'
  BY DEF LInv, TypeOK, ControlInv, CountInv, HeaderInv, Active, CommitPhases,
     RecoveryPhases, Evict, diskVars, opVars
<1>2. CountInv'
  BY DEF LInv, CountInv, Active, TypeOK, Evict, diskVars, opVars
<1>3. ControlInv'
  BY DEF LInv, TypeOK, CountInv, ControlInv, HeaderInv, Active, CommitPhases,
     RecoveryPhases, Evict, diskVars, opVars
<1>4. HeaderInv'
  BY DEF LInv, TypeOK, CountInv, ControlInv, HeaderInv, Active, CommitPhases,
     RecoveryPhases, Evict, diskVars, opVars
<1>5. DataInv'
  <2>1. \A i \in 1..Len(lh) : lh[i] \in Blocks
    BY DEF LInv, TypeOK
  <2>2. ASSUME NEW i \in 1..Len(lh), lh[i] = b PROVE ~((phase = "writeLog" /\ i < tail) \/ phase = "writeHead")
    BY <2>1, <2>2 DEF LInv, PinsInv, Pinned, Elems, Evict
  <2>3. ASSUME NEW i \in 1..Len(lh), lh[i] = b, phase = "install" PROVE home[lh[i]] = logdata[i]
    BY <2>1, <2>3 DEF LInv, TypeOK, PinsInv, Pinned, DataInv, Evict
  <2>. QED  BY <2>1, <2>2, <2>3 DEF LInv, TypeOK, DataInv, Evict, diskVars, opVars
<1>6. PinsInv'
  BY DEF LInv, TypeOK, CountInv, ControlInv, HeaderInv, PinsInv, Pinned, Active,
     CommitPhases, RecoveryPhases, Distinct, Elems, Evict, diskVars, opVars
<1>7. CleanInv'
  BY DEF LInv, TypeOK, CountInv, ControlInv, HeaderInv, PinsInv, Pinned, CleanInv,
     NoPanic, DirtyPinned, Active, CommitPhases, RecoveryPhases, Elems, Evict,
     diskVars, opVars
<1>8. SleepInv'
  BY DEF LInv, TypeOK, CountInv, ControlInv, HeaderInv, SleepInv, SleeperHasWaker,
     ReservationFits, Active, CommitPhases, RecoveryPhases, Evict, diskVars, opVars
<1>9. SpaceInv'
  BY DEF LInv, TypeOK, CountInv, ControlInv, HeaderInv, SpaceInv, NoPanic, Reserved,
     Active, Elems, CommitPhases, RecoveryPhases, Evict, diskVars, opVars
<1>. QED  BY <1>1, <1>2, <1>3, <1>4, <1>5, <1>6, <1>7, <1>8, <1>9 DEF LInv

\* The machine crashes.
LEMMA CrashLInv ==
  ASSUME LInv, Crash
  PROVE  LInv'
<1>1. TypeOK'
  <2>1. <<>> \in Seq(Blocks)
    OBVIOUS
  <2>2. pins' \in [Blocks -> Nat] /\ wrote' \in [Ops -> SUBSET Blocks] /\ mem' \in [Blocks -> Vals]
    BY DEF LInv, TypeOK, Crash
  <2>3. pc' \in [Ops -> {"idle", "begin", "asleep", "active", "commit", "panic"}]
    BY DEF Crash
  <2>4. outstanding' \in Nat /\ tail' \in Nat \ {0}
    BY DEF Crash
  <2>7. committing' \in BOOLEAN
    BY DEF Crash
  <2>5. phase' \in CommitPhases \cup RecoveryPhases \cup {"none"}
    BY DEF Crash, RecoveryPhases
  <2>6. head' \in Seq(Blocks) /\ lh' \in Seq(Blocks) /\ home' \in [Blocks -> Vals] /\ logdata' \in [Slots -> Vals]
    BY <2>1 DEF LInv, TypeOK, Crash, diskVars
  <2>. QED  BY <2>2, <2>3, <2>4, <2>5, <2>6, <2>7 DEF TypeOK
<1>2. CountInv'
  <2>1. Active' = {}
    BY DEF Active, Crash
  <2>. QED  BY <2>1, FS_EmptySet DEF CountInv, Crash
<1>3. ControlInv'
  BY DEF LInv, TypeOK, CountInv, ControlInv, HeaderInv, Active, CommitPhases,
     RecoveryPhases, Crash, diskVars
<1>4. HeaderInv'
  BY ElemsEmpty DEF LInv, TypeOK, HeaderInv, Crash, diskVars
<1>5. DataInv'
  BY DEF LInv, TypeOK, CountInv, ControlInv, HeaderInv, DataInv, Active, CommitPhases,
     RecoveryPhases, Distinct, Crash, diskVars
<1>6. PinsInv'
  BY DEF LInv, TypeOK, CountInv, ControlInv, HeaderInv, PinsInv, Pinned, Active,
     CommitPhases, RecoveryPhases, Distinct, Elems, Crash, diskVars
<1>7. CleanInv'
  BY DEF LInv, TypeOK, CountInv, ControlInv, HeaderInv, PinsInv, Pinned, CleanInv,
     NoPanic, DirtyPinned, Active, CommitPhases, RecoveryPhases, Elems, Crash,
     diskVars
<1>8. SleepInv'
  BY DEF LInv, TypeOK, CountInv, ControlInv, HeaderInv, SleepInv, SleeperHasWaker,
     ReservationFits, Active, CommitPhases, RecoveryPhases, Crash, diskVars
<1>9. SpaceInv'
  <2>1. NoPanic' /\ phase' # "none" /\ \A q \in Ops : wrote'[q] = {}
    BY DEF NoPanic, Crash
  <2>2. IsFiniteSet({}) /\ Cardinality({}) = 0
    BY FS_EmptySet
  <2>3. \A q \in Ops : IsFiniteSet(wrote'[q]) /\ Cardinality(wrote'[q]) <= OpBlocks /\ wrote'[q] \subseteq Elems(lh')
    BY <2>1, <2>2
  <2>. QED  BY <2>1, <2>3 DEF SpaceInv
<1>. QED  BY <1>1, <1>2, <1>3, <1>4, <1>5, <1>6, <1>7, <1>8, <1>9 DEF LInv

\* Recovery reads the header.
LEMMA ReadHeadLInv ==
  ASSUME LInv, ReadHead
  PROVE  LInv'
<1>1. TypeOK'
  BY DEF LInv, TypeOK, ControlInv, CountInv, HeaderInv, Active, CommitPhases,
     RecoveryPhases, ReadHead, diskVars, opVars
<1>2. CountInv'
  BY DEF LInv, CountInv, Active, TypeOK, ReadHead, diskVars, opVars
<1>3. ControlInv'
  BY DEF LInv, TypeOK, CountInv, ControlInv, HeaderInv, Active, CommitPhases,
     RecoveryPhases, ReadHead, diskVars, opVars
<1>4. HeaderInv'
  BY DEF LInv, TypeOK, CountInv, ControlInv, HeaderInv, Active, CommitPhases,
     RecoveryPhases, ReadHead, diskVars, opVars
<1>5. DataInv'
  BY DEF LInv, TypeOK, CountInv, ControlInv, HeaderInv, DataInv, Active, CommitPhases,
     RecoveryPhases, Distinct, ReadHead, diskVars, opVars
<1>6. PinsInv'
  BY DEF LInv, TypeOK, CountInv, ControlInv, HeaderInv, PinsInv, Pinned, Active,
     CommitPhases, RecoveryPhases, Distinct, Elems, ReadHead, diskVars, opVars
<1>7. CleanInv'
  BY DEF LInv, TypeOK, CountInv, ControlInv, HeaderInv, PinsInv, Pinned, CleanInv,
     NoPanic, DirtyPinned, Active, CommitPhases, RecoveryPhases, Elems, ReadHead,
     diskVars, opVars
<1>8. SleepInv'
  BY DEF LInv, TypeOK, CountInv, ControlInv, HeaderInv, SleepInv, SleeperHasWaker,
     ReservationFits, Active, CommitPhases, RecoveryPhases, ReadHead, diskVars, opVars
<1>9. SpaceInv'
  BY DEF LInv, TypeOK, CountInv, ControlInv, HeaderInv, SpaceInv, NoPanic, Reserved,
     Active, Elems, CommitPhases, RecoveryPhases, ReadHead, diskVars, opVars
<1>. QED  BY <1>1, <1>2, <1>3, <1>4, <1>5, <1>6, <1>7, <1>8, <1>9 DEF LInv

\* Recovery installs a block.
LEMMA ReinstallLInv ==
  ASSUME LInv, Reinstall
  PROVE  LInv'
<1>1. TypeOK'
  <2>1. tail \in 1..Len(lh) /\ lh[tail] \in Blocks /\ tail \in Slots
    BY DEF LInv, TypeOK, HeaderInv, Slots, Reinstall
  <2>2. tail + 1 \in Nat \ {0}
    BY DEF LInv, TypeOK
  <2>. QED  BY <2>1, <2>2 DEF LInv, TypeOK, CommitPhases, RecoveryPhases, Reinstall,
               Loop, opVars
<1>2. CountInv'
  BY DEF LInv, CountInv, Active, TypeOK, Reinstall, Loop, opVars
<1>3. ControlInv'
  BY DEF LInv, TypeOK, CountInv, ControlInv, HeaderInv, Active, CommitPhases,
     RecoveryPhases, Reinstall, Loop, opVars
<1>4. HeaderInv'
  BY DEF LInv, TypeOK, CountInv, ControlInv, HeaderInv, Active, CommitPhases,
     RecoveryPhases, Reinstall, Loop, opVars
<1>5. DataInv'
  BY DEF LInv, TypeOK, CountInv, ControlInv, HeaderInv, DataInv, Active, CommitPhases,
     RecoveryPhases, Distinct, Reinstall, Loop, opVars
<1>6. PinsInv'
  BY DEF LInv, TypeOK, CountInv, ControlInv, HeaderInv, PinsInv, Pinned, Active,
     CommitPhases, RecoveryPhases, Distinct, Elems, Reinstall, Loop, opVars
<1>7. CleanInv'
  BY DEF LInv, TypeOK, CountInv, ControlInv, HeaderInv, PinsInv, Pinned, CleanInv,
     NoPanic, DirtyPinned, Active, CommitPhases, RecoveryPhases, Elems, Reinstall,
     Loop, opVars
<1>8. SleepInv'
  BY DEF LInv, TypeOK, CountInv, ControlInv, HeaderInv, SleepInv, SleeperHasWaker,
     ReservationFits, Active, CommitPhases, RecoveryPhases, Reinstall, Loop, opVars
<1>9. SpaceInv'
  BY DEF LInv, TypeOK, CountInv, ControlInv, HeaderInv, SpaceInv, NoPanic, Reserved,
     Active, Elems, CommitPhases, RecoveryPhases, Reinstall, Loop, opVars
<1>. QED  BY <1>1, <1>2, <1>3, <1>4, <1>5, <1>6, <1>7, <1>8, <1>9 DEF LInv

\* Recovery erases the transaction.
LEMMA ReclearLInv ==
  ASSUME LInv, Reclear
  PROVE  LInv'
<1>1. TypeOK'
  BY DEF LInv, TypeOK, ControlInv, CountInv, HeaderInv, Active, CommitPhases,
     RecoveryPhases, Reclear, opVars
<1>2. CountInv'
  BY DEF LInv, CountInv, Active, TypeOK, Reclear, opVars
<1>3. ControlInv'
  BY DEF LInv, TypeOK, CountInv, ControlInv, HeaderInv, Active, CommitPhases,
     RecoveryPhases, Reclear, opVars
<1>4. HeaderInv'
  BY ElemsEmpty DEF LInv, TypeOK, ControlInv, HeaderInv, Reclear
<1>5. DataInv'
  BY DEF LInv, TypeOK, CountInv, ControlInv, HeaderInv, DataInv, Active, CommitPhases,
     RecoveryPhases, Distinct, Reclear, opVars
<1>6. PinsInv'
  BY DEF LInv, TypeOK, CountInv, ControlInv, HeaderInv, PinsInv, Pinned, Active,
     CommitPhases, RecoveryPhases, Distinct, Elems, Reclear, opVars
<1>7. CleanInv'
  BY DEF LInv, TypeOK, CountInv, ControlInv, HeaderInv, PinsInv, Pinned, CleanInv,
     NoPanic, DirtyPinned, Active, CommitPhases, RecoveryPhases, Elems, Reclear,
     opVars
<1>8. SleepInv'
  BY DEF LInv, TypeOK, CountInv, ControlInv, HeaderInv, SleepInv, SleeperHasWaker,
     ReservationFits, Active, CommitPhases, RecoveryPhases, Reclear, opVars
<1>9. SpaceInv'
  <2>1. /\ Active = {} /\ Active' = {} /\ (NoPanic => NoPanic')
        /\ wrote' = wrote /\ lh' = <<>>
    BY DEF LInv, TypeOK, ControlInv, Active, NoPanic, RecoveryPhases, Reclear, opVars
  <2>2. Reserved' = {} /\ Cardinality({}) = 0 /\ Len(lh') = 0
    BY <2>1, FS_EmptySet DEF Reserved
  <2>3. WritesFit => \A q \in Ops : wrote[q] = {}
    BY <2>1 DEF LInv, SpaceInv
  <2>. QED  BY <2>1, <2>2, <2>3 DEF LInv, SpaceInv, Elems
<1>. QED  BY <1>1, <1>2, <1>3, <1>4, <1>5, <1>6, <1>7, <1>8, <1>9 DEF LInv

\* The machine starts with an empty log.
LEMMA InitLInv == Init => LInv
<1> SUFFICES ASSUME Init PROVE LInv
  OBVIOUS
<1>1. Active = {} /\ lh = <<>> /\ head = <<>> /\ phase = "readHead"
  BY DEF Init, Active
<1>2. TypeOK
  <2>1. <<>> \in Seq(Blocks) /\ logdata \in [Slots -> Vals] /\ home \in [Blocks -> Vals]
    BY DEF Init
  <2>2. pins \in [Blocks -> Nat] /\ wrote \in [Ops -> SUBSET Blocks]
        /\ pc \in [Ops -> {"idle", "begin", "asleep", "active", "commit", "panic"}]
    BY DEF Init
  <2>3. outstanding \in Nat /\ tail \in Nat \ {0}
    BY DEF Init
  <2>7. committing \in BOOLEAN
    BY DEF Init
  <2>4. phase \in CommitPhases \cup RecoveryPhases \cup {"none"}
    BY DEF Init, RecoveryPhases
  <2>5. head \in Seq(Blocks) /\ lh \in Seq(Blocks) /\ mem \in [Blocks -> Vals]
    BY <2>1 DEF Init
  <2>. QED  BY <2>1, <2>2, <2>3, <2>4, <2>5, <2>7 DEF TypeOK
<1>3. CountInv
  BY <1>1, FS_EmptySet DEF Init, CountInv
<1>4. ControlInv /\ HeaderInv /\ DataInv
  BY <1>1, ElemsEmpty DEF Init, ControlInv, HeaderInv, DataInv, CommitPhases,
     RecoveryPhases
<1>5. PinsInv /\ CleanInv /\ SleepInv
  BY DEF Init, PinsInv, Pinned, CleanInv, DirtyPinned, SleepInv, SleeperHasWaker
<1>6. SpaceInv
  <2>1. IsFiniteSet({}) /\ Cardinality({}) = 0
    BY FS_EmptySet
  <2>2. \A q \in Ops : wrote[q] = {} /\ pc[q] # "panic"
    BY DEF Init
  <2>3. \A q \in Ops : IsFiniteSet(wrote[q]) /\ Cardinality(wrote[q]) <= OpBlocks /\ wrote[q] \subseteq Elems(lh)
    BY <2>1, <2>2
  <2>4. NoPanic /\ phase # "none"
    BY <1>1, <2>2 DEF NoPanic
  <2>. QED  BY <2>2, <2>3, <2>4 DEF SpaceInv
<1>. QED  BY <1>2, <1>3, <1>4, <1>5, <1>6 DEF LInv

\* Every step preserves the invariant.
LEMMA NextLInv == LInv /\ [Next]_vars => LInv'
<1> SUFFICES ASSUME LInv, [Next]_vars PROVE LInv'
  OBVIOUS
<1>1. CASE UNCHANGED vars
  <2>1. /\ home' = home /\ head' = head /\ logdata' = logdata /\ mem' = mem /\ pins' = pins
        /\ lh' = lh /\ outstanding' = outstanding /\ committing' = committing
        /\ pc' = pc /\ wrote' = wrote /\ phase' = phase /\ tail' = tail
    BY <1>1 DEF vars, diskVars, memVars, opVars
  <2>2. Active' = Active
    BY <2>1 DEF Active
  <2>. QED  BY <2>1, <2>2 DEF LInv, TypeOK, CountInv, ControlInv, HeaderInv, DataInv,
               PinsInv, Pinned,
                   CleanInv, DirtyPinned, SleepInv, SleeperHasWaker, SpaceInv, NoPanic, Reserved, Elems, Distinct
<1>2. ASSUME NEW o \in Ops, Call(o) \/ Admit(o) \/ Wait(o) \/ Kill(o) \/ EndOp(o) \/ EndLastOp(o)
      PROVE LInv'
  BY <1>2, CallLInv, AdmitLInv, WaitLInv, KillLInv, EndOpLInv, EndLastOpLInv
<1>3. ASSUME NEW o \in Ops, NEW b \in Blocks, NEW v \in Vals, LogWrite(o, b, v) PROVE LInv'
  BY <1>3, LogWriteLInv
<1>4. CASE WriteLog \/ WriteHead \/ Install \/ Clear \/ EndCommit
  BY <1>4, WriteLogLInv, WriteHeadLInv, InstallLInv, ClearLInv, EndCommitLInv
<1>5. CASE Crash \/ ReadHead \/ Reinstall \/ Reclear
  BY <1>5, CrashLInv, ReadHeadLInv, ReinstallLInv, ReclearLInv
<1>6. ASSUME NEW b \in Blocks, Evict(b) PROVE LInv'
  BY <1>6, EvictLInv
<1>. QED  BY <1>1, <1>2, <1>3, <1>4, <1>5, <1>6 DEF Next

\* The invariant holds in every reachable state.
THEOREM LogInvariant == Spec => []LInv
  BY InitLInv, NextLInv, PTL DEF Spec

\* Every variable has its type: in particular no index leaves the log area or the
\* header, and no pin is given back twice.
THEOREM LogTypes == Spec => []TypeOK
  BY LogInvariant, PTL DEF LInv

\* An operation whose writes stay within its reservation never finds the log full.
THEOREM LogNeverFull == ASSUME WritesFit PROVE Spec => []NoPanic
<1>1. LInv => NoPanic
  BY DEF LInv, SpaceInv
<1>. QED  BY <1>1, LogInvariant, PTL

\* No dirty buffer can be evicted.
THEOREM DirtyIsPinned == ASSUME WritesFit PROVE Spec => []DirtyPinned
<1>1. LInv => DirtyPinned
  BY DEF LInv, SpaceInv, CleanInv
<1>. QED  BY <1>1, LogInvariant, PTL

\* Outside a commit the log pins exactly the blocks of its transaction, each once.
THEOREM PinsDoNotLeak == Spec => []PinsMatch
<1>1. LInv => PinsMatch
  BY DEF LInv, PinsInv, Pinned, PinsMatch
<1>. QED  BY <1>1, LogInvariant, PTL

\* When no operation is under way, all that was ever ended is on its home blocks.
THEOREM QuiescentIsDurable == Spec => []QuiescentDurable
<1>1. ASSUME LInv, phase = "none", outstanding = 0 PROVE home = mem /\ head = <<>>
  <2>1. lh = <<>> /\ head = <<>>
    BY <1>1 DEF LInv, HeaderInv
  <2>2. NoPanic
    BY <1>1 DEF LInv, CountInv, Active, NoPanic
  <2>3. \A b \in Blocks : pins[b] = 0
    BY <1>1, <2>1, ElemsEmpty DEF LInv, PinsInv, Pinned
  <2>4. \A b \in Blocks : mem[b] = home[b]
    BY <1>1, <2>2, <2>3 DEF LInv, CleanInv, DirtyPinned
  <2>5. home = mem
    BY <1>1, <2>4 DEF LInv, TypeOK
  <2>. QED  BY <2>1, <2>5
<1>2. LInv => QuiescentDurable
  BY <1>1 DEF QuiescentDurable
<1>. QED  BY <1>2, LogInvariant, PTL

\* No sleeper of begin_op() is forgotten, if one reservation fits into the log at all.
THEOREM SleepersAreWoken == ASSUME ReservationFits PROVE Spec => []SleeperHasWaker
<1>1. LInv => SleeperHasWaker
  BY DEF LInv, SleepInv
<1>. QED  BY <1>1, LogInvariant, PTL

-----------------------------------------------------------------------------
(* Refinement: the log implements the atomic disk. *)

\* What a read returns, and during a recovery what it will return.
Current == IF phase \in RecoveryPhases THEN Recovered ELSE mem

\* Block i of the header is recovered from block i of the log.
LEMMA RecoveredFromLog ==
  ASSUME LInv, NEW i \in 1..Len(head)
  PROVE  Recovered[head[i]] = logdata[i]
<1>1. head[i] \in Blocks /\ head[i] \in Elems(head)
  BY DEF LInv, TypeOK, Elems
<1>2. (CHOOSE j \in 1..Len(head) : head[j] = head[i]) = i
  BY DEF LInv, HeaderInv, Distinct
<1>. QED  BY <1>1, <1>2 DEF Recovered

\* With an empty header the home blocks stand.
LEMMA RecoveredFromHome == LInv /\ head = <<>> => Recovered = home
<1> SUFFICES ASSUME LInv, head = <<>> PROVE Recovered = home
  OBVIOUS
<1>1. Recovered = [b \in Blocks |-> home[b]]
  BY ElemsEmpty DEF Recovered
<1>. QED  BY <1>1 DEF LInv, TypeOK

\* After an installation the log and the home blocks agree.
LEMMA RecoveredInstalled == LInv /\ phase \in {"clear", "reclear"} => Recovered = home
<1> SUFFICES ASSUME LInv, phase \in {"clear", "reclear"} PROVE Recovered = home
  OBVIOUS
<1>1. lh = head
  BY DEF LInv, HeaderInv
<1>2. \A i \in 1..Len(head) : home[head[i]] = logdata[i]
  BY <1>1 DEF LInv, DataInv
<1>3. \A b \in Blocks : Recovered[b] = home[b]
  <2>1. ASSUME NEW b \in Blocks, b \in Elems(head) PROVE Recovered[b] = home[b]
    BY <1>2, <2>1, RecoveredFromLog DEF Elems
  <2>2. ASSUME NEW b \in Blocks, b \notin Elems(head) PROVE Recovered[b] = home[b]
    BY <2>2 DEF Recovered
  <2>. QED  BY <2>1, <2>2
<1>. QED  BY <1>3 DEF LInv, TypeOK, Recovered


\* What the atomic disk sees of a step that does nothing to it.
Unseen == Recovered' = Recovered /\ Current' = Current /\ Active' = Active

\* begin_op(), and all that happens on the way there, as the atomic disk sees it.
LEMMA BeginImplements ==
  ASSUME LInv, NEW o \in Ops, Call(o) \/ Wait(o) \/ Kill(o) \/ Admit(o)
  PROVE  Atomic!Next \/ Unseen
<1>1. home' = home /\ head' = head /\ logdata' = logdata /\ mem' = mem /\ phase' = phase
  BY DEF Call, Wait, Kill, Admit, diskVars, memVars
<1>. Recovered' = Recovered /\ Current' = Current
  BY <1>1 DEF Recovered, Current
<1>2. CASE Call(o) \/ Wait(o) \/ Kill(o)
  <2>1. Active' = Active
    BY <1>2 DEF LInv, TypeOK, Active, Call, Wait, Kill
  <2>. QED  BY <1>1, <2>1 DEF Unseen
<1>3. CASE Admit(o)
  <2>1. o \notin Active /\ Active' = Active \cup {o}
    BY <1>3 DEF LInv, TypeOK, Active, Admit
  <2>2. Atomic!Begin(o)
    BY <1>1, <2>1 DEF Atomic!Begin, Active, Current
  <2>. QED  BY <2>2 DEF Atomic!Next
<1>. QED  BY <1>2, <1>3

\* log_write() is a write of the atomic disk.
LEMMA WriteImplements ==
  ASSUME LInv, NEW o \in Ops, NEW b \in Blocks, NEW v \in Vals, LogWrite(o, b, v)
  PROVE  Atomic!Next
<1>1. Recovered' = Recovered /\ phase' = phase
  BY DEF Recovered, LogWrite, diskVars
<1>2. phase \notin RecoveryPhases
  BY DEF LInv, ControlInv, LogWrite
<1>3. o \in Active /\ Active' = Active
  BY DEF LInv, TypeOK, Active, LogWrite
<1>4. Current = mem /\ Current' = [mem EXCEPT ![b] = v]
  BY <1>1, <1>2 DEF Current, LogWrite
<1>5. Atomic!Write(o, b, v)
  BY <1>1, <1>3, <1>4 DEF Atomic!Write, Active, Current
<1>. QED  BY <1>5 DEF Atomic!Next

\* Both kinds of end_op() end an operation; what follows a commit is not seen.
LEMMA EndImplements ==
  ASSUME LInv, NEW o \in Ops, EndOp(o) \/ EndLastOp(o)
  PROVE  Atomic!Next
<1>0. home' = home /\ head' = head /\ logdata' = logdata /\ mem' = mem
  BY DEF EndOp, EndLastOp, diskVars
<1>1. Recovered' = Recovered /\ mem' = mem
  BY <1>0 DEF Recovered
<1>2. phase \notin RecoveryPhases /\ phase' \notin RecoveryPhases
  BY DEF LInv, ControlInv, RecoveryPhases, EndOp, EndLastOp
<1>3. o \in Active /\ Active' = Active \ {o}
  BY DEF LInv, TypeOK, CountInv, Active, EndOp, EndLastOp, Wake
<1>4. Current' = Current
  BY <1>1, <1>2 DEF Current
<1>5. Atomic!End(o)
  BY <1>1, <1>3, <1>4 DEF Atomic!End, Active, Current
<1>. QED  BY <1>5 DEF Atomic!Next

\* write_head() commits: in one step the whole transaction becomes durable.
LEMMA CommitImplements ==
  ASSUME LInv, LInv', WriteHead
  PROVE  Atomic!Next
<1>1. phase = "writeHead" /\ phase' = "install" /\ head' = lh /\ mem' = mem
      /\ home' = home /\ logdata' = logdata /\ lh' = lh /\ pins' = pins
  BY DEF WriteHead, memVars
<1>2. Active = {} /\ Active' = {} /\ NoPanic
  BY DEF LInv, CountInv, ControlInv, Active, NoPanic, CommitPhases, WriteHead, opVars
<1>3. Recovered = home
  BY <1>1, RecoveredFromHome DEF LInv, HeaderInv
<1>4. ASSUME NEW b \in Blocks, b \notin Elems(lh) PROVE Recovered'[b] = mem[b]
  <2>1. mem[b] = home[b]
    BY <1>1, <1>2, <1>4 DEF LInv, PinsInv, Pinned, CleanInv, DirtyPinned
  <2>. QED  BY <1>1, <1>4, <2>1 DEF Recovered
<1>5. ASSUME NEW b \in Blocks, b \in Elems(lh) PROVE Recovered'[b] = mem[b]
  <2>. DEFINE i == CHOOSE j \in 1..Len(lh) : lh[j] = b
  <2>1. i \in 1..Len(lh) /\ lh[i] = b
    BY <1>5 DEF Elems
  <2>2. logdata[i] = mem[lh[i]]
    BY <1>1, <2>1 DEF LInv, DataInv
  <2>3. Recovered'[b] = logdata[i]
    BY <1>1, <1>5 DEF Recovered
  <2>. QED  BY <2>1, <2>2, <2>3
<1>6. Recovered' = mem
  BY <1>4, <1>5 DEF LInv, TypeOK, Recovered
<1>7. Current = mem /\ Current' = mem
  BY <1>1 DEF Current, RecoveryPhases
<1>8. Atomic!Commit
  BY <1>2, <1>6, <1>7 DEF Atomic!Commit, Active, Current
<1>. QED  BY <1>8 DEF Atomic!Next

\* A block that is copied to where the log has it changes nothing.
LEMMA InstalledUnseen ==
  ASSUME LInv, phase \in {"install", "reinstall"}, lh' = lh, head' = head, logdata' = logdata,
         home' = [home EXCEPT ![lh[tail]] = logdata[tail]]
  PROVE  Recovered' = Recovered
<1>1. lh = head /\ tail \in 1..Len(head)
  BY DEF LInv, TypeOK, HeaderInv
<1>2. head[tail] \in Elems(head)
  BY <1>1 DEF Elems
<1>3. \A b \in Blocks : b \notin Elems(head) => home'[b] = home[b]
  BY <1>1, <1>2 DEF LInv, TypeOK
<1>. QED  BY <1>3 DEF Recovered

\* The other steps of a commit are not seen.
LEMMA CommitUnseen ==
  ASSUME LInv, LInv', WriteLog \/ Install \/ Clear \/ EndCommit
  PROVE  Unseen
<1>1. Active' = Active
  BY DEF LInv, TypeOK, Active, WriteLog, Install, Clear, EndCommit, opVars, Wake
<1>2. phase \notin RecoveryPhases /\ phase' \notin RecoveryPhases
  BY DEF RecoveryPhases, WriteLog, Install, Clear, EndCommit, Loop
<1>3. mem' = mem
  <2>1. CASE Install
    <3>1. tail \in 1..Len(lh) /\ logdata[tail] = mem[lh[tail]]
      BY <2>1 DEF LInv, TypeOK, HeaderInv, DataInv, Install
    <3>. QED  BY <2>1, <3>1 DEF LInv, TypeOK, Install
  <2>. QED  BY <2>1 DEF WriteLog, Clear, EndCommit, memVars
<1>4. Recovered' = Recovered
  <2>1. CASE WriteLog
    BY <2>1, RecoveredFromHome DEF LInv, HeaderInv, Recovered, WriteLog, Elems
  <2>2. CASE Install
    BY <2>2, InstalledUnseen DEF Install
  <2>3. CASE Clear
    <3>1. Recovered = home
      BY <2>3, RecoveredInstalled DEF Clear
    <3>2. Recovered' = [b \in Blocks |-> home[b]]
      BY <2>3, ElemsEmpty DEF Clear, Recovered
    <3>. QED  BY <3>1, <3>2 DEF LInv, TypeOK
  <2>4. CASE EndCommit
    BY <2>4 DEF EndCommit, diskVars, Recovered
  <2>. QED  BY <2>1, <2>2, <2>3, <2>4
<1>. QED  BY <1>1, <1>2, <1>3, <1>4 DEF Unseen, Current

\* An evicted buffer is clean, so the next read returns the same.
LEMMA EvictUnseen ==
  ASSUME LInv, NoPanic, NEW b \in Blocks, Evict(b)
  PROVE  Unseen
<1>1. Active' = Active /\ Recovered' = Recovered /\ phase' = phase
  BY DEF Active, Recovered, Evict, diskVars, opVars
<1>2. mem[b] = home[b]
  BY DEF LInv, TypeOK, CleanInv, DirtyPinned, Evict
<1>3. mem' = mem
  BY <1>2 DEF LInv, TypeOK, Evict
<1>. QED  BY <1>1, <1>3 DEF Unseen, Current

\* A crash returns to what is durable.
LEMMA CrashImplements ==
  ASSUME Crash
  PROVE  Atomic!Next
<1>1. Active' = {} /\ Recovered' = Recovered /\ phase' \in RecoveryPhases
  BY DEF Active, Recovered, RecoveryPhases, Crash, diskVars
<1>2. Current' = Recovered
  BY <1>1 DEF Current
<1>3. Atomic!Crash
  BY <1>1, <1>2 DEF Atomic!Crash, Active, Current
<1>. QED  BY <1>3 DEF Atomic!Next

\* A recovery is not seen, wherever it is interrupted.
LEMMA RecoveryUnseen ==
  ASSUME LInv, ReadHead \/ Reinstall \/ Reclear
  PROVE  Unseen
<1>1. Active' = Active
  BY DEF Active, ReadHead, Reinstall, Reclear, opVars
<1>2. CASE ReadHead
  <2>1. Recovered' = Recovered /\ phase \in RecoveryPhases /\ phase' \in RecoveryPhases
    BY <1>2 DEF ReadHead, diskVars, Recovered, RecoveryPhases
  <2>. QED  BY <1>1, <2>1 DEF Unseen, Current
<1>3. CASE Reinstall
  <2>1. Recovered' = Recovered
    BY <1>3, InstalledUnseen DEF Reinstall
  <2>2. phase \in RecoveryPhases /\ phase' \in RecoveryPhases
    BY <1>3 DEF Reinstall, Loop, RecoveryPhases
  <2>. QED  BY <1>1, <2>1, <2>2 DEF Unseen, Current
<1>4. CASE Reclear
  <2>1. Recovered = home /\ mem = home
    BY <1>4, RecoveredInstalled DEF LInv, CleanInv, Reclear, RecoveryPhases
  <2>2. Recovered' = [b \in Blocks |-> home[b]]
    BY <1>4, ElemsEmpty DEF Reclear, Recovered
  <2>3. Recovered' = home
    BY <2>2 DEF LInv, TypeOK
  <2>4. phase \in RecoveryPhases /\ phase' \notin RecoveryPhases /\ mem' = mem
    BY <1>4 DEF Reclear, RecoveryPhases
  <2>. QED  BY <1>1, <2>1, <2>3, <2>4 DEF Unseen, Current
<1>. QED  BY <1>2, <1>3, <1>4

\* Every step is a step of the atomic disk or is not seen.
LEMMA NextImplements ==
  LInv /\ LInv' /\ NoPanic /\ [Next]_vars => [Atomic!Next]_Atomic!vars
<1> SUFFICES ASSUME LInv, LInv', NoPanic, [Next]_vars
             PROVE  Atomic!Next \/ Unseen
  BY DEF Unseen, Atomic!vars, Active, Current
<1>1. CASE UNCHANGED vars
  BY <1>1 DEF Unseen, Active, Current, Recovered, vars, diskVars, memVars, opVars
<1>2. ASSUME NEW o \in Ops, Call(o) \/ Admit(o) \/ Wait(o) \/ Kill(o)
      PROVE  Atomic!Next \/ Unseen
  BY <1>2, BeginImplements
<1>3. ASSUME NEW o \in Ops, EndOp(o) \/ EndLastOp(o)
      PROVE  Atomic!Next \/ Unseen
  BY <1>3, EndImplements
<1>4. ASSUME NEW o \in Ops, NEW b \in Blocks, NEW v \in Vals, LogWrite(o, b, v)
      PROVE  Atomic!Next \/ Unseen
  BY <1>4, WriteImplements
<1>5. CASE WriteLog \/ WriteHead \/ Install \/ Clear \/ EndCommit
  BY <1>5, CommitImplements, CommitUnseen
<1>6. CASE Crash \/ ReadHead \/ Reinstall \/ Reclear
  BY <1>6, CrashImplements, RecoveryUnseen
<1>7. ASSUME NEW b \in Blocks, Evict(b) PROVE Atomic!Next \/ Unseen
  BY <1>7, EvictUnseen
<1>. QED  BY <1>1, <1>2, <1>3, <1>4, <1>5, <1>6, <1>7 DEF Next

\* Group commit and recovery are atomic, wherever the machine crashes and however
\* often: for every number of operations, blocks and contents the log implements
\* the atomic disk.
THEOREM LogIsAtomic == ASSUME WritesFit PROVE Spec => ImplementsAtomicDisk
<1>1. Init => Atomic!Init
  <2> SUFFICES ASSUME Init PROVE Atomic!Init
    OBVIOUS
  <2>1. phase \in RecoveryPhases /\ Active = {} /\ head = <<>>
    BY DEF Init, RecoveryPhases, Active
  <2>2. Recovered = [b \in Blocks |-> home[b]]
    BY <2>1, ElemsEmpty DEF Recovered
  <2>3. Recovered = [b \in Blocks |-> Blank]
    BY <2>2 DEF Init
  <2>. QED  BY <2>1, <2>3 DEF Atomic!Init, Active
<1>2. LInv /\ LInv' /\ [Next]_vars => [Atomic!Next]_Atomic!vars
  BY NextImplements DEF LInv, SpaceInv
<1>. QED  BY <1>1, <1>2, LogInvariant, PTL DEF Spec, ImplementsAtomicDisk, Atomic!Spec

=============================================================================
