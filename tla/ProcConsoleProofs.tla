-------------------------- MODULE ProcConsoleProofs --------------------------
(***************************************************************************)
(* Proofs about processes and about the console they sleep on.             *)
(*                                                                         *)
(* Proc, for a process table of any size and any set of harts: type        *)
(* correctness, the lock discipline around swtch() that keeps two CPUs off *)
(* one kernel stack (IInv), no wakeup lost between exit() and wait()       *)
(* (WInv), only victims of kill() marked killed, and the table as the tree *)
(* of processes of ProcTree (FInv: what fork() leaves between its steps).  *)
(*                                                                         *)
(* Console, for any number of readers and writers and any size of its      *)
(* rings: input is an edited line and a queue, and nobody sleeps in vain   *)
(* (CInv).                                                                 *)
(***************************************************************************)
EXTENDS Proc, Console, ModArith, SequenceTheorems

-----------------------------------------------------------------------------
(* Processes *)

\* Points of a thread at which its CPU holds p->lock.
HoldsLock == AtSched \cup Resumed \cup {"back"}

\* A CPU has a current process unless its scheduler is scanning.
CurrentInv == \A c \in CPUs : proc[c] = NoProc <=> pc[c] = "scan"

\* p->lock is held exactly by the CPU that is switching to or away from p.
LockInv ==
  /\ \A c \in CPUs : pc[c] \in HoldsLock => lock[proc[c]] = c
  /\ \A c \in CPUs, p \in Procs : lock[p] = c => proc[c] = p /\ pc[c] \in HoldsLock

\* A current process is RUNNING until it has given up the CPU under p->lock.
StateInv ==
  \A c \in CPUs : proc[c] # NoProc =>
    IF pc[c] \in AtSched \cup {"back"}
    THEN state[proc[c]] \in {"SLEEPING", "RUNNABLE", "ZOMBIE"}
    ELSE state[proc[c]] = "RUNNING"

\* A child that fork() is building is USED and belongs to one fork().
ForkInv ==
  /\ \A p \in Procs : np[p] # NoProc => state[np[p]] = "USED"
  /\ \A p, q \in Procs : np[p] = np[q] /\ np[p] # NoProc => p = q

\* wait_lock is held exactly inside the critical sections of exit() and wait().
WaitLockInv == \A c \in CPUs : wait_lock = c <=> pc[c] \in UnderWaitLock

IInv == /\ TypeOK /\ CurrentInv /\ LockInv /\ StateInv /\ ForkInv /\ WaitLockInv
        /\ OneCpuPerProc

USE DEF Procs, NoProc, initproc
USE TableAssumption, CpuAssumption

\* The points of the program are labels.
LEMMA Points ==
  /\ \A l \in Resumed \cup Preemptible : l \in Labels
  /\ {"scan", "back", "user", "ret", "forkParent", "forkRun", "exitLock", "waitLock",
      "reparent", "wakeInit", "wakeParent", "exitZombie", "waitScan", "waitCheck",
      "waitSleep", "sleepSched", "yieldSched", "exitSched"} \subseteq Labels
BY DEF Labels, Preemptible, UnderWaitLock, AtSched, Resumed, InScheduler

\* Where swtch() resumes a process, its CPU holds p->lock and no other lock.
LEMMA ResumedPoints ==
  \A l \in Resumed : /\ l # "scan" /\ l # "back"
                     /\ l \in HoldsLock /\ l \notin AtSched /\ l \notin UnderWaitLock
BY DEF Resumed, HoldsLock, AtSched, UnderWaitLock

\* Where the timer may interrupt a process, its CPU holds no lock.
LEMMA PreemptiblePoints ==
  \A l \in Preemptible : /\ l # "scan" /\ l # "back"
                         /\ l \notin HoldsLock /\ l \notin AtSched /\ l \notin UnderWaitLock
BY DEF Preemptible, Resumed, HoldsLock, AtSched, UnderWaitLock

\* A step that changes no lock, no current process and no state, between points
\* at which p->lock is not held, only has to agree with wait_lock.
LEMMA PlainStep ==
  ASSUME IInv, TypeOK', WaitLockInv', NEW c \in CPUs,
         pc[c] \notin HoldsLock \cup {"scan"}, pc'[c] \notin HoldsLock \cup {"scan"},
         \A d \in CPUs \ {c} : pc'[d] = pc[d],
         UNCHANGED <<proc, lock, state, np>>
  PROVE  IInv'
<1>1. CurrentInv'
  BY DEF IInv, CurrentInv
<1>2. LockInv'
  BY DEF IInv, LockInv
<1>3. StateInv'
  BY DEF IInv, StateInv, HoldsLock
<1>4. ForkInv' /\ OneCpuPerProc'
  BY DEF IInv, ForkInv, OneCpuPerProc
<1>. QED  BY <1>1, <1>2, <1>3, <1>4 DEF IInv

\* scheduler() hands p to CPU c with p->lock, which no CPU held.
LEMMA DispatchStep ==
  ASSUME IInv, NEW c \in CPUs, NEW p \in Procs, Dispatch(c, p)
  PROVE  IInv'
<1> DEFINE l == context[p]
<1>a. /\ l \in Labels /\ l # "scan" /\ l # "back"
      /\ l \in HoldsLock /\ l \notin AtSched /\ l \notin UnderWaitLock
  BY Points, ResumedPoints DEF IInv, TypeOK
<1>b. "scan" \notin HoldsLock /\ "scan" \notin UnderWaitLock
  BY DEF HoldsLock, AtSched, Resumed, UnderWaitLock
<1>c. /\ pc[c] = "scan" /\ lock[p] = NoCpu /\ state[p] = "RUNNABLE"
      /\ lock' = [lock EXCEPT ![p] = c] /\ state' = [state EXCEPT ![p] = "RUNNING"]
      /\ proc' = [proc EXCEPT ![c] = p] /\ pc' = [pc EXCEPT ![c] = l]
      /\ UNCHANGED <<chan, killed, parent, context, wait_lock, resume, idx, np, victims>>
  BY DEF Dispatch, localVars
<1>d. \A d \in CPUs : proc[d] # p
  <2>1. SUFFICES ASSUME NEW d \in CPUs, proc[d] = p PROVE FALSE
    OBVIOUS
  <2>2. pc[d] \in AtSched \cup {"back"}
    BY <1>c, <2>1 DEF IInv, StateInv
  <2>3. lock[p] = d
    BY <2>1, <2>2 DEF IInv, LockInv, HoldsLock
  <2>. QED  BY <1>c, <2>3
<1> HIDE DEF l
<1>1. TypeOK'
  BY <1>a, <1>c DEF IInv, TypeOK, States
<1>2. CurrentInv'
  BY <1>a, <1>c DEF IInv, TypeOK, CurrentInv
<1>3. LockInv'
  BY <1>a, <1>b, <1>c, <1>d DEF IInv, TypeOK, LockInv
<1>4. StateInv'
  BY <1>a, <1>c, <1>d DEF IInv, TypeOK, StateInv
<1>5. ForkInv'
  BY <1>c DEF IInv, TypeOK, ForkInv
<1>6. WaitLockInv'
  BY <1>a, <1>b, <1>c DEF IInv, TypeOK, WaitLockInv
<1>7. OneCpuPerProc'
  BY <1>c, <1>d DEF IInv, TypeOK, OneCpuPerProc
<1>. QED  BY <1>1, <1>2, <1>3, <1>4, <1>5, <1>6, <1>7 DEF IInv

\* sched() passes p->lock on to the scheduler's thread of the same CPU.
LEMMA SchedStep ==
  ASSUME IInv, NEW c \in CPUs, NEW p \in Procs, Sched(c, p)
  PROVE  IInv'
<1>1. TypeOK'
  <2>1. context' \in [Procs -> Resumed]
    BY DEF Sched, Step, IInv, TypeOK, States, AfterSched, Resumed
  <2>2. pc' \in [CPUs -> Labels]
    BY Points DEF Sched, Step, IInv, TypeOK
  <2>3. UNCHANGED <<state, chan, killed, parent, lock, wait_lock,
                    proc, resume, idx, np, victims>>
    BY DEF Sched, tableVars, localVars
  <2>. QED  BY <2>1, <2>2, <2>3 DEF IInv, TypeOK
<1>2. CurrentInv'
  BY SMTT(20) DEF Sched, Step, tableVars, localVars, AfterSched, IInv, TypeOK,
     CurrentInv, Preemptible, UnderWaitLock, AtSched, Resumed
<1>3. LockInv'
  BY SMTT(20) DEF Sched, Step, tableVars, localVars, AfterSched, IInv, TypeOK,
     CurrentInv, LockInv, OneCpuPerProc, HoldsLock, Preemptible, UnderWaitLock,
     AtSched, Resumed
<1>4. StateInv'
  BY SMTT(20) DEF Sched, Step, tableVars, localVars, AfterSched, IInv, TypeOK,
     CurrentInv, LockInv, StateInv, ForkInv, OneCpuPerProc, HoldsLock, States,
     Preemptible, UnderWaitLock, AtSched, Resumed
<1>5. ForkInv'
  BY SMTT(20) DEF Sched, Step, tableVars, localVars, AfterSched, IInv, TypeOK, ForkInv
<1>6. WaitLockInv'
  BY SMTT(20) DEF Sched, Step, tableVars, localVars, AfterSched, IInv, TypeOK,
     WaitLockInv, Preemptible, UnderWaitLock, AtSched, Resumed
<1>7. OneCpuPerProc'
  BY SMTT(20) DEF Sched, Step, tableVars, localVars, AfterSched, IInv, TypeOK,
     CurrentInv, LockInv, StateInv, OneCpuPerProc, HoldsLock, Preemptible,
     UnderWaitLock, AtSched, Resumed
<1>. QED  BY <1>1, <1>2, <1>3, <1>4, <1>5, <1>6, <1>7 DEF IInv

\* scheduler() lets go of p and of its lock together.
LEMMA BackStep ==
  ASSUME IInv, NEW c \in CPUs, NEW p \in Procs, Back(c, p)
  PROVE  IInv'
<1>1. TypeOK'
  <2>1. proc' \in [CPUs -> Procs \cup {NoProc}]
    BY DEF Back, Step, IInv, TypeOK, States
  <2>2. lock' \in [Procs -> CPUs \cup {NoCpu}]
    BY DEF Back, Step, IInv, TypeOK, States
  <2>3. pc' \in [CPUs -> Labels]
    BY Points DEF Back, Step, IInv, TypeOK
  <2>4. UNCHANGED <<state, chan, killed, parent, context,
                    wait_lock, resume, idx, np, victims>>
    BY DEF Back, tableVars, localVars
  <2>. QED  BY <2>1, <2>2, <2>3, <2>4 DEF IInv, TypeOK
<1>2. CurrentInv'
  BY SMTT(20) DEF Back, Step, tableVars, localVars, IInv, TypeOK, CurrentInv,
     Preemptible, UnderWaitLock, AtSched, Resumed
<1>3. LockInv'
  BY SMTT(20) DEF Back, Step, tableVars, localVars, IInv, TypeOK, CurrentInv, LockInv,
     OneCpuPerProc, HoldsLock, Preemptible, UnderWaitLock, AtSched, Resumed
<1>4. StateInv'
  BY SMTT(20) DEF Back, Step, tableVars, localVars, IInv, TypeOK, CurrentInv, LockInv,
     StateInv, ForkInv, OneCpuPerProc, HoldsLock, States, Preemptible, UnderWaitLock,
     AtSched, Resumed
<1>5. ForkInv'
  BY SMTT(20) DEF Back, Step, tableVars, localVars, IInv, TypeOK, ForkInv
<1>6. WaitLockInv'
  BY SMTT(20) DEF Back, Step, tableVars, localVars, IInv, TypeOK, WaitLockInv,
     Preemptible, UnderWaitLock, AtSched, Resumed
<1>7. OneCpuPerProc'
  BY SMTT(20) DEF Back, Step, tableVars, localVars, IInv, TypeOK, CurrentInv, LockInv,
     StateInv, OneCpuPerProc, HoldsLock, Preemptible, UnderWaitLock, AtSched, Resumed
<1>. QED  BY <1>1, <1>2, <1>3, <1>4, <1>5, <1>6, <1>7 DEF IInv

\* yield() takes p->lock before p stops being RUNNING.
LEMMA YieldStep ==
  ASSUME IInv, NEW c \in CPUs, NEW p \in Procs, Yield(c, p)
  PROVE  IInv'
<1>. state[p] = "RUNNING" /\ lock[p] # c
  BY DEF Yield, Step, IInv, TypeOK, StateInv, LockInv, HoldsLock, Preemptible,
     UnderWaitLock, AtSched, Resumed
<1>1. TypeOK'
  <2>1. lock' \in [Procs -> CPUs \cup {NoCpu}]
    BY DEF Yield, Step, IInv, TypeOK, States
  <2>2. state' \in [Procs -> States]
    BY DEF Yield, Step, IInv, TypeOK, States
  <2>3. resume' \in [Procs -> Preemptible]
    BY DEF Yield, Step, IInv, TypeOK, States
  <2>4. pc' \in [CPUs -> Labels]
    BY Points DEF Yield, Step, IInv, TypeOK
  <2>5. UNCHANGED <<chan, killed, parent, context, wait_lock, proc, idx, np, victims>>
    BY DEF Yield, tableVars, localVars
  <2>. QED  BY <2>1, <2>2, <2>3, <2>4, <2>5 DEF IInv, TypeOK
<1>2. CurrentInv'
  BY PreemptiblePoints, SMTT(20) DEF Yield, Step, tableVars, localVars, IInv, TypeOK,
     CurrentInv, Preemptible, UnderWaitLock, AtSched, Resumed
<1>3. LockInv'
  BY PreemptiblePoints, SMTT(20) DEF Yield, Step, tableVars, localVars, IInv, TypeOK,
     CurrentInv, LockInv, OneCpuPerProc, HoldsLock, Preemptible, UnderWaitLock,
     AtSched, Resumed
<1>4. StateInv'
  BY PreemptiblePoints, SMTT(20) DEF Yield, Step, tableVars, localVars, IInv, TypeOK,
     CurrentInv, LockInv, StateInv, ForkInv, OneCpuPerProc, HoldsLock, States,
     Preemptible, UnderWaitLock, AtSched, Resumed
<1>5. ForkInv'
  BY SMTT(20) DEF Yield, Step, tableVars, localVars, IInv, TypeOK, ForkInv
<1>6. WaitLockInv'
  BY PreemptiblePoints, SMTT(20) DEF Yield, Step, tableVars, localVars, IInv, TypeOK,
     WaitLockInv, Preemptible, UnderWaitLock, AtSched, Resumed
<1>7. OneCpuPerProc'
  BY PreemptiblePoints, SMTT(20) DEF Yield, Step, tableVars, localVars, IInv, TypeOK,
     CurrentInv, LockInv, StateInv, OneCpuPerProc, HoldsLock, Preemptible,
     UnderWaitLock, AtSched, Resumed
<1>. QED  BY <1>1, <1>2, <1>3, <1>4, <1>5, <1>6, <1>7 DEF IInv

\* yield() releases the lock that scheduler() acquired.
LEMMA YieldTailStep ==
  ASSUME IInv, NEW c \in CPUs, NEW p \in Procs, YieldTail(c, p)
  PROVE  IInv'
<1> DEFINE l == resume[p]
<1>a. /\ l \in Labels /\ l # "scan" /\ l # "back"
      /\ l \notin HoldsLock /\ l \notin AtSched /\ l \notin UnderWaitLock
  BY Points, PreemptiblePoints DEF IInv, TypeOK
<1>b. /\ "yieldTail" \in HoldsLock /\ "yieldTail" \notin UnderWaitLock
      /\ "yieldTail" \notin AtSched \cup {"back"} /\ "user" \in Preemptible
  BY DEF HoldsLock, AtSched, Resumed, UnderWaitLock, Preemptible
<1>c. /\ pc[c] = "yieldTail" /\ proc[c] = p /\ pc' = [pc EXCEPT ![c] = l]
      /\ lock' = [lock EXCEPT ![p] = NoCpu] /\ resume' = [resume EXCEPT ![p] = "user"]
      /\ UNCHANGED <<state, chan, killed, parent, context, wait_lock, proc, idx, np, victims>>
  BY DEF YieldTail, Step, tableVars
<1> HIDE DEF l
<1>1. TypeOK'
  BY <1>a, <1>b, <1>c DEF IInv, TypeOK
<1>2. CurrentInv'
  BY <1>a, <1>c DEF IInv, TypeOK, CurrentInv
<1>3. LockInv'
  <2>1. /\ pc'[c] = l /\ lock'[p] = NoCpu /\ proc' = proc
        /\ \A d \in CPUs \ {c} : pc'[d] = pc[d] /\ proc[d] # p
        /\ \A q \in Procs \ {p} : lock'[q] = lock[q]
    BY <1>c DEF IInv, TypeOK, OneCpuPerProc
  <2>2. ASSUME NEW d \in CPUs, pc'[d] \in HoldsLock PROVE lock'[proc'[d]] = d
    <3>1. d # c /\ pc[d] \in HoldsLock /\ proc[d] # p
      BY <1>a, <2>1, <2>2
    <3>2. lock[proc[d]] = d
      BY <3>1 DEF IInv, LockInv
    <3>. QED  BY <1>c, <2>1, <3>1, <3>2 DEF IInv, TypeOK
  <2>3. ASSUME NEW d \in CPUs, NEW q \in Procs, lock'[q] = d
        PROVE  proc'[d] = q /\ pc'[d] \in HoldsLock
    <3>1. q # p /\ lock[q] = d
      BY <2>1, <2>3, CpuAssumption
    <3>2. proc[d] = q /\ pc[d] \in HoldsLock
      BY <3>1 DEF IInv, LockInv
    <3>. QED  BY <1>c, <2>1, <3>1, <3>2
  <2>. QED  BY <2>2, <2>3 DEF LockInv
<1>4. StateInv'
  BY <1>a, <1>b, <1>c DEF IInv, TypeOK, StateInv
<1>5. ForkInv'
  BY <1>c DEF IInv, TypeOK, ForkInv
<1>6. WaitLockInv'
  BY <1>a, <1>b, <1>c DEF IInv, TypeOK, WaitLockInv
<1>7. OneCpuPerProc'
  BY <1>c DEF IInv, TypeOK, OneCpuPerProc
<1>. QED  BY <1>1, <1>2, <1>3, <1>4, <1>5, <1>6, <1>7 DEF IInv

\* forkret() releases the lock that scheduler() acquired.
LEMMA ForkretStep ==
  ASSUME IInv, NEW c \in CPUs, NEW p \in Procs, Forkret(c, p)
  PROVE  IInv'
<1>1. TypeOK'
  <2>1. lock' \in [Procs -> CPUs \cup {NoCpu}]
    BY DEF Forkret, Step, IInv, TypeOK, States
  <2>2. pc' \in [CPUs -> Labels]
    BY Points DEF Forkret, Step, IInv, TypeOK
  <2>3. UNCHANGED <<state, chan, killed, parent, context,
                    wait_lock, proc, resume, idx, np, victims>>
    BY DEF Forkret, tableVars, localVars
  <2>. QED  BY <2>1, <2>2, <2>3 DEF IInv, TypeOK
<1>2. CurrentInv'
  BY SMTT(20) DEF Forkret, Step, tableVars, localVars, IInv, TypeOK, CurrentInv,
     Preemptible, UnderWaitLock, AtSched, Resumed
<1>3. LockInv'
  BY SMTT(20) DEF Forkret, Step, tableVars, localVars, IInv, TypeOK, CurrentInv,
     LockInv, OneCpuPerProc, HoldsLock, Preemptible, UnderWaitLock, AtSched, Resumed
<1>4. StateInv'
  BY SMTT(20) DEF Forkret, Step, tableVars, localVars, IInv, TypeOK, CurrentInv,
     LockInv, StateInv, ForkInv, OneCpuPerProc, HoldsLock, States, Preemptible,
     UnderWaitLock, AtSched, Resumed
<1>5. ForkInv'
  BY SMTT(20) DEF Forkret, Step, tableVars, localVars, IInv, TypeOK, ForkInv
<1>6. WaitLockInv'
  BY SMTT(20) DEF Forkret, Step, tableVars, localVars, IInv, TypeOK, WaitLockInv,
     Preemptible, UnderWaitLock, AtSched, Resumed
<1>7. OneCpuPerProc'
  BY SMTT(20) DEF Forkret, Step, tableVars, localVars, IInv, TypeOK, CurrentInv,
     LockInv, StateInv, OneCpuPerProc, HoldsLock, Preemptible, UnderWaitLock, AtSched,
     Resumed
<1>. QED  BY <1>1, <1>2, <1>3, <1>4, <1>5, <1>6, <1>7 DEF IInv

\* usertrap() calls exit() for a killed process: only the point changes.
LEMMA KilledExitStep ==
  ASSUME IInv, NEW c \in CPUs, NEW p \in Procs, KilledExit(c, p)
  PROVE  IInv'
<1>1. TypeOK'
  <2>1. pc' \in [CPUs -> Labels]
    BY Points DEF KilledExit, Step, IInv, TypeOK
  <2>2. UNCHANGED <<state, chan, killed, parent, context, lock,
                    wait_lock, proc, resume, idx, np, victims>>
    BY DEF KilledExit, tableVars, localVars
  <2>. QED  BY <2>1, <2>2 DEF IInv, TypeOK
<1>2. WaitLockInv'
  BY SMTT(20) DEF KilledExit, Step, tableVars, localVars, IInv, TypeOK, WaitLockInv,
     Preemptible, UnderWaitLock, AtSched, Resumed
<1>3. /\ pc[c] \notin HoldsLock \cup {"scan"} /\ pc'[c] \notin HoldsLock \cup {"scan"}
      /\ \A d \in CPUs \ {c} : pc'[d] = pc[d]
      /\ UNCHANGED <<proc, lock, state, np>>
  BY DEF KilledExit, Step, tableVars, localVars, IInv, TypeOK, HoldsLock, AtSched, Resumed
<1>. QED  BY <1>1, <1>2, <1>3, PlainStep

\* usertrap() returns to user mode: only the point changes.
LEMMA ReturnStep ==
  ASSUME IInv, NEW c \in CPUs, NEW p \in Procs, Return(c, p)
  PROVE  IInv'
<1>1. TypeOK'
  <2>1. pc' \in [CPUs -> Labels]
    BY Points DEF Return, Step, IInv, TypeOK
  <2>2. UNCHANGED <<state, chan, killed, parent, context, lock,
                    wait_lock, proc, resume, idx, np, victims>>
    BY DEF Return, tableVars, localVars
  <2>. QED  BY <2>1, <2>2 DEF IInv, TypeOK
<1>2. WaitLockInv'
  BY SMTT(20) DEF Return, Step, tableVars, localVars, IInv, TypeOK, WaitLockInv,
     Preemptible, UnderWaitLock, AtSched, Resumed
<1>3. /\ pc[c] \notin HoldsLock \cup {"scan"} /\ pc'[c] \notin HoldsLock \cup {"scan"}
      /\ \A d \in CPUs \ {c} : pc'[d] = pc[d]
      /\ UNCHANGED <<proc, lock, state, np>>
  BY DEF Return, Step, tableVars, localVars, IInv, TypeOK, HoldsLock, AtSched, Resumed
<1>. QED  BY <1>1, <1>2, <1>3, PlainStep

\* setkilled() changes p->killed alone.
LEMMA FaultStep ==
  ASSUME IInv, NEW c \in CPUs, NEW p \in Procs, Fault(c, p)
  PROVE  IInv'
<1>1. TypeOK'
  <2>1. killed' \in [Procs -> BOOLEAN]
    BY DEF Fault, Step, IInv, TypeOK, States
  <2>2. victims' \in SUBSET Procs
    BY DEF Fault, Step, IInv, TypeOK, States
  <2>3. pc' \in [CPUs -> Labels]
    BY Points DEF Fault, Step, IInv, TypeOK
  <2>4. UNCHANGED <<state, chan, parent, context, lock, wait_lock,
                    proc, resume, idx, np>>
    BY DEF Fault, tableVars, localVars
  <2>. QED  BY <2>1, <2>2, <2>3, <2>4 DEF IInv, TypeOK
<1>2. WaitLockInv'
  BY SMTT(20) DEF Fault, Step, tableVars, localVars, IInv, TypeOK, WaitLockInv,
     Preemptible, UnderWaitLock, AtSched, Resumed
<1>3. /\ pc[c] \notin HoldsLock \cup {"scan"} /\ pc'[c] \notin HoldsLock \cup {"scan"}
      /\ \A d \in CPUs \ {c} : pc'[d] = pc[d]
      /\ UNCHANGED <<proc, lock, state, np>>
  BY DEF Fault, Step, tableVars, localVars, IInv, TypeOK, HoldsLock, AtSched, Resumed
<1>. QED  BY <1>1, <1>2, <1>3, PlainStep

\* A system call that leaves the table alone: only the point changes.
LEMMA OtherCallStep ==
  ASSUME IInv, NEW c \in CPUs, NEW p \in Procs, OtherCall(c, p)
  PROVE  IInv'
<1>1. TypeOK'
  <2>1. pc' \in [CPUs -> Labels]
    BY Points DEF OtherCall, Step, IInv, TypeOK
  <2>2. UNCHANGED <<state, chan, killed, parent, context, lock,
                    wait_lock, proc, resume, idx, np, victims>>
    BY DEF OtherCall, tableVars, localVars
  <2>. QED  BY <2>1, <2>2 DEF IInv, TypeOK
<1>2. WaitLockInv'
  BY SMTT(20) DEF OtherCall, Step, tableVars, localVars, IInv, TypeOK, WaitLockInv,
     Preemptible, UnderWaitLock, AtSched, Resumed
<1>3. /\ pc[c] \notin HoldsLock \cup {"scan"} /\ pc'[c] \notin HoldsLock \cup {"scan"}
      /\ \A d \in CPUs \ {c} : pc'[d] = pc[d]
      /\ UNCHANGED <<proc, lock, state, np>>
  BY DEF OtherCall, Step, tableVars, localVars, IInv, TypeOK, HoldsLock, AtSched, Resumed
<1>. QED  BY <1>1, <1>2, <1>3, PlainStep

\* fork() sets its child's parent; the child stays USED.
LEMMA ForkParentStep ==
  ASSUME IInv, NEW c \in CPUs, NEW p \in Procs, ForkParent(c, p)
  PROVE  IInv'
<1>1. TypeOK'
  <2>1. parent' \in [Procs -> Procs \cup {NoProc}]
    BY DEF ForkParent, Step, IInv, TypeOK, States
  <2>2. pc' \in [CPUs -> Labels]
    BY Points DEF ForkParent, Step, IInv, TypeOK
  <2>3. UNCHANGED <<state, chan, killed, context, lock, wait_lock,
                    proc, resume, idx, np, victims>>
    BY DEF ForkParent, tableVars, localVars
  <2>. QED  BY <2>1, <2>2, <2>3 DEF IInv, TypeOK
<1>2. WaitLockInv'
  BY SMTT(20) DEF ForkParent, Step, tableVars, localVars, IInv, TypeOK, WaitLockInv,
     Preemptible, UnderWaitLock, AtSched, Resumed
<1>3. /\ pc[c] \notin HoldsLock \cup {"scan"} /\ pc'[c] \notin HoldsLock \cup {"scan"}
      /\ \A d \in CPUs \ {c} : pc'[d] = pc[d]
      /\ UNCHANGED <<proc, lock, state, np>>
  BY DEF ForkParent, Step, tableVars, localVars, IInv, TypeOK, HoldsLock, AtSched, Resumed
<1>. QED  BY <1>1, <1>2, <1>3, PlainStep

\* fork() makes its own child RUNNABLE; no CPU runs a child that is still USED.
LEMMA ForkRunStep ==
  ASSUME IInv, NEW c \in CPUs, NEW p \in Procs, ForkRun(c, p)
  PROVE  IInv'
<1>1. TypeOK'
  <2>1. state' \in [Procs -> States]
    BY DEF ForkRun, Step, IInv, TypeOK, States
  <2>2. np' \in [Procs -> Procs \cup {NoProc}]
    BY DEF ForkRun, Step, IInv, TypeOK, States
  <2>3. pc' \in [CPUs -> Labels]
    BY Points DEF ForkRun, Step, IInv, TypeOK
  <2>4. UNCHANGED <<chan, killed, parent, context, lock,
                    wait_lock, proc, resume, idx, victims>>
    BY DEF ForkRun, tableVars, localVars
  <2>. QED  BY <2>1, <2>2, <2>3, <2>4 DEF IInv, TypeOK
<1>2. CurrentInv'
  BY SMTT(20) DEF ForkRun, Step, tableVars, localVars, IInv, TypeOK, CurrentInv,
     Preemptible, UnderWaitLock, AtSched, Resumed
<1>3. LockInv'
  BY SMTT(20) DEF ForkRun, Step, tableVars, localVars, IInv, TypeOK, CurrentInv,
     LockInv, OneCpuPerProc, HoldsLock, Preemptible, UnderWaitLock, AtSched, Resumed
<1>4. StateInv'
  BY SMTT(20) DEF ForkRun, Step, tableVars, localVars, IInv, TypeOK, CurrentInv,
     LockInv, StateInv, ForkInv, OneCpuPerProc, HoldsLock, States, Preemptible,
     UnderWaitLock, AtSched, Resumed
<1>5. ForkInv'
  <2>1. /\ state' = [state EXCEPT ![np[p]] = "RUNNABLE"]
        /\ np' = [np EXCEPT ![p] = NoProc]
    BY DEF ForkRun
  <2>. QED  BY <2>1 DEF IInv, TypeOK, ForkInv
<1>6. WaitLockInv'
  BY SMTT(20) DEF ForkRun, Step, tableVars, localVars, IInv, TypeOK, WaitLockInv,
     Preemptible, UnderWaitLock, AtSched, Resumed
<1>7. OneCpuPerProc'
  BY SMTT(20) DEF ForkRun, Step, tableVars, localVars, IInv, TypeOK, CurrentInv,
     LockInv, StateInv, OneCpuPerProc, HoldsLock, Preemptible, UnderWaitLock, AtSched,
     Resumed
<1>. QED  BY <1>1, <1>2, <1>3, <1>4, <1>5, <1>6, <1>7 DEF IInv

\* sys_exit() enters exit(): only the point changes.
LEMMA ExitCallStep ==
  ASSUME IInv, NEW c \in CPUs, NEW p \in Procs, ExitCall(c, p)
  PROVE  IInv'
<1>1. TypeOK'
  <2>1. pc' \in [CPUs -> Labels]
    BY Points DEF ExitCall, Step, IInv, TypeOK
  <2>2. UNCHANGED <<state, chan, killed, parent, context, lock,
                    wait_lock, proc, resume, idx, np, victims>>
    BY DEF ExitCall, tableVars, localVars
  <2>. QED  BY <2>1, <2>2 DEF IInv, TypeOK
<1>2. WaitLockInv'
  BY SMTT(20) DEF ExitCall, Step, tableVars, localVars, IInv, TypeOK, WaitLockInv,
     Preemptible, UnderWaitLock, AtSched, Resumed
<1>3. /\ pc[c] \notin HoldsLock \cup {"scan"} /\ pc'[c] \notin HoldsLock \cup {"scan"}
      /\ \A d \in CPUs \ {c} : pc'[d] = pc[d]
      /\ UNCHANGED <<proc, lock, state, np>>
  BY DEF ExitCall, Step, tableVars, localVars, IInv, TypeOK, HoldsLock, AtSched, Resumed
<1>. QED  BY <1>1, <1>2, <1>3, PlainStep

\* exit() acquires wait_lock, which no CPU held.
LEMMA ExitLockStep ==
  ASSUME IInv, NEW c \in CPUs, NEW p \in Procs, ExitLock(c, p)
  PROVE  IInv'
<1>1. TypeOK'
  <2>1. wait_lock' \in CPUs \cup {NoCpu}
    BY DEF ExitLock, Step, IInv, TypeOK, States
  <2>2. pc' \in [CPUs -> Labels]
    BY Points DEF ExitLock, Step, IInv, TypeOK
  <2>3. UNCHANGED <<state, chan, killed, parent, context, lock,
                    proc, resume, idx, np, victims>>
    BY DEF ExitLock, tableVars, localVars
  <2>. QED  BY <2>1, <2>2, <2>3 DEF IInv, TypeOK
<1>2. WaitLockInv'
  BY SMTT(20) DEF ExitLock, Step, tableVars, localVars, IInv, TypeOK, WaitLockInv,
     Preemptible, UnderWaitLock, AtSched, Resumed
<1>3. /\ pc[c] \notin HoldsLock \cup {"scan"} /\ pc'[c] \notin HoldsLock \cup {"scan"}
      /\ \A d \in CPUs \ {c} : pc'[d] = pc[d]
      /\ UNCHANGED <<proc, lock, state, np>>
  BY DEF ExitLock, Step, tableVars, localVars, IInv, TypeOK, HoldsLock, AtSched, Resumed
<1>. QED  BY <1>1, <1>2, <1>3, PlainStep

\* reparent() changes parents under wait_lock.
LEMMA ReparentStep ==
  ASSUME IInv, NEW c \in CPUs, NEW p \in Procs, Reparent(c, p)
  PROVE  IInv'
<1>1. TypeOK'
  <2>1. parent' \in [Procs -> Procs \cup {NoProc}]
    BY DEF Reparent, Step, IInv, TypeOK, States, Adopted
  <2>2. pc' \in [CPUs -> Labels]
    BY Points DEF Reparent, Step, IInv, TypeOK
  <2>3. UNCHANGED <<state, chan, killed, context, lock, wait_lock,
                    proc, resume, idx, np, victims>>
    BY DEF Reparent, tableVars, localVars
  <2>. QED  BY <2>1, <2>2, <2>3 DEF IInv, TypeOK
<1>2. WaitLockInv'
  BY SMTT(20) DEF Reparent, Step, tableVars, localVars, Adopted, IInv, TypeOK,
     WaitLockInv, Preemptible, UnderWaitLock, AtSched, Resumed
<1>3. /\ pc[c] \notin HoldsLock \cup {"scan"} /\ pc'[c] \notin HoldsLock \cup {"scan"}
      /\ \A d \in CPUs \ {c} : pc'[d] = pc[d]
      /\ UNCHANGED <<proc, lock, state, np>>
  BY DEF Reparent, Step, tableVars, localVars, IInv, TypeOK, HoldsLock, AtSched, Resumed
<1>. QED  BY <1>1, <1>2, <1>3, PlainStep

\* wakeup() touches a SLEEPING process other than the caller; a SLEEPING slot whose
\* lock is free is on no CPU.
LEMMA WakeupStep ==
  ASSUME IInv, NEW c \in CPUs, NEW p \in Procs, Wakeup(c, p)
  PROVE  IInv'
<1>1. TypeOK'
  <2>1. state' \in [Procs -> States]
    BY DEF Wakeup, Step, IInv, TypeOK, States, Woken, NextSlot
  <2>2. idx' \in [Procs -> Procs]
    BY DEF Wakeup, Step, IInv, TypeOK, States, Woken, NextSlot
  <2>3. pc' \in [CPUs -> Labels]
    BY Points DEF Wakeup, Step, IInv, TypeOK
  <2>4. UNCHANGED <<chan, killed, parent, context, lock,
                    wait_lock, proc, resume, np, victims>>
    BY DEF Wakeup, tableVars, localVars
  <2>. QED  BY <2>1, <2>2, <2>3, <2>4 DEF IInv, TypeOK
<1>2. CurrentInv'
  BY SMTT(20) DEF Wakeup, Step, tableVars, localVars, Woken, NextSlot, IInv, TypeOK,
     CurrentInv, Preemptible, UnderWaitLock, AtSched, Resumed
<1>3. LockInv'
  BY SMTT(20) DEF Wakeup, Step, tableVars, localVars, Woken, NextSlot, IInv, TypeOK,
     CurrentInv, LockInv, OneCpuPerProc, HoldsLock, Preemptible, UnderWaitLock,
     AtSched, Resumed
<1>4. StateInv'
  BY SMTT(20) DEF Wakeup, Step, tableVars, localVars, Woken, NextSlot, IInv, TypeOK,
     CurrentInv, LockInv, StateInv, ForkInv, OneCpuPerProc, HoldsLock, States,
     Preemptible, UnderWaitLock, AtSched, Resumed
<1>5. ForkInv'
  BY SMTT(20) DEF Wakeup, Step, tableVars, localVars, Woken, NextSlot, IInv, TypeOK,
     ForkInv
<1>6. WaitLockInv'
  BY SMTT(20) DEF Wakeup, Step, tableVars, localVars, Woken, NextSlot, IInv, TypeOK,
     WaitLockInv, Preemptible, UnderWaitLock, AtSched, Resumed
<1>7. OneCpuPerProc'
  BY SMTT(20) DEF Wakeup, Step, tableVars, localVars, Woken, NextSlot, IInv, TypeOK,
     CurrentInv, LockInv, StateInv, OneCpuPerProc, HoldsLock, Preemptible,
     UnderWaitLock, AtSched, Resumed
<1>. QED  BY <1>1, <1>2, <1>3, <1>4, <1>5, <1>6, <1>7 DEF IInv

\* exit() takes p->lock before it becomes a ZOMBIE and lets go of wait_lock.
LEMMA ExitZombieStep ==
  ASSUME IInv, NEW c \in CPUs, NEW p \in Procs, ExitZombie(c, p)
  PROVE  IInv'
<1>. state[p] = "RUNNING" /\ lock[p] # c
  BY DEF ExitZombie, Step, IInv, TypeOK, StateInv, LockInv, HoldsLock, Preemptible,
     UnderWaitLock, AtSched, Resumed
<1>1. TypeOK'
  <2>1. lock' \in [Procs -> CPUs \cup {NoCpu}]
    BY DEF ExitZombie, Step, IInv, TypeOK, States
  <2>2. state' \in [Procs -> States]
    BY DEF ExitZombie, Step, IInv, TypeOK, States
  <2>3. wait_lock' \in CPUs \cup {NoCpu}
    BY DEF ExitZombie, Step, IInv, TypeOK, States
  <2>4. pc' \in [CPUs -> Labels]
    BY Points DEF ExitZombie, Step, IInv, TypeOK
  <2>5. UNCHANGED <<chan, killed, parent, context, proc, resume, idx, np, victims>>
    BY DEF ExitZombie, tableVars, localVars
  <2>. QED  BY <2>1, <2>2, <2>3, <2>4, <2>5 DEF IInv, TypeOK
<1>2. CurrentInv'
  BY SMTT(20) DEF ExitZombie, Step, tableVars, localVars, IInv, TypeOK, CurrentInv,
     Preemptible, UnderWaitLock, AtSched, Resumed
<1>3. LockInv'
  BY SMTT(20) DEF ExitZombie, Step, tableVars, localVars, IInv, TypeOK, CurrentInv,
     LockInv, OneCpuPerProc, HoldsLock, Preemptible, UnderWaitLock, AtSched, Resumed
<1>4. StateInv'
  BY SMTT(20) DEF ExitZombie, Step, tableVars, localVars, IInv, TypeOK, CurrentInv,
     LockInv, StateInv, ForkInv, OneCpuPerProc, HoldsLock, States, Preemptible,
     UnderWaitLock, AtSched, Resumed
<1>5. ForkInv'
  BY SMTT(20) DEF ExitZombie, Step, tableVars, localVars, IInv, TypeOK, ForkInv
<1>6. WaitLockInv'
  BY SMTT(20) DEF ExitZombie, Step, tableVars, localVars, IInv, TypeOK, WaitLockInv,
     Preemptible, UnderWaitLock, AtSched, Resumed
<1>7. OneCpuPerProc'
  BY SMTT(20) DEF ExitZombie, Step, tableVars, localVars, IInv, TypeOK, CurrentInv,
     LockInv, StateInv, OneCpuPerProc, HoldsLock, Preemptible, UnderWaitLock, AtSched,
     Resumed
<1>. QED  BY <1>1, <1>2, <1>3, <1>4, <1>5, <1>6, <1>7 DEF IInv

\* sys_wait() enters wait(): only the point changes.
LEMMA WaitCallStep ==
  ASSUME IInv, NEW c \in CPUs, NEW p \in Procs, WaitCall(c, p)
  PROVE  IInv'
<1>1. TypeOK'
  <2>1. pc' \in [CPUs -> Labels]
    BY Points DEF WaitCall, Step, IInv, TypeOK
  <2>2. UNCHANGED <<state, chan, killed, parent, context, lock,
                    wait_lock, proc, resume, idx, np, victims>>
    BY DEF WaitCall, tableVars, localVars
  <2>. QED  BY <2>1, <2>2 DEF IInv, TypeOK
<1>2. WaitLockInv'
  BY SMTT(20) DEF WaitCall, Step, tableVars, localVars, IInv, TypeOK, WaitLockInv,
     Preemptible, UnderWaitLock, AtSched, Resumed
<1>3. /\ pc[c] \notin HoldsLock \cup {"scan"} /\ pc'[c] \notin HoldsLock \cup {"scan"}
      /\ \A d \in CPUs \ {c} : pc'[d] = pc[d]
      /\ UNCHANGED <<proc, lock, state, np>>
  BY DEF WaitCall, Step, tableVars, localVars, IInv, TypeOK, HoldsLock, AtSched, Resumed
<1>. QED  BY <1>1, <1>2, <1>3, PlainStep

\* wait() acquires wait_lock, which no CPU held.
LEMMA WaitLockStep ==
  ASSUME IInv, NEW c \in CPUs, NEW p \in Procs, WaitLock(c, p)
  PROVE  IInv'
<1>1. TypeOK'
  <2>1. wait_lock' \in CPUs \cup {NoCpu}
    BY DEF WaitLock, Step, IInv, TypeOK, States
  <2>2. pc' \in [CPUs -> Labels]
    BY Points DEF WaitLock, Step, IInv, TypeOK
  <2>3. UNCHANGED <<state, chan, killed, parent, context, lock,
                    proc, resume, idx, np, victims>>
    BY DEF WaitLock, tableVars, localVars
  <2>. QED  BY <2>1, <2>2, <2>3 DEF IInv, TypeOK
<1>2. WaitLockInv'
  BY SMTT(20) DEF WaitLock, Step, tableVars, localVars, IInv, TypeOK, WaitLockInv,
     Preemptible, UnderWaitLock, AtSched, Resumed
<1>3. /\ pc[c] \notin HoldsLock \cup {"scan"} /\ pc'[c] \notin HoldsLock \cup {"scan"}
      /\ \A d \in CPUs \ {c} : pc'[d] = pc[d]
      /\ UNCHANGED <<proc, lock, state, np>>
  BY DEF WaitLock, Step, tableVars, localVars, IInv, TypeOK, HoldsLock, AtSched, Resumed
<1>. QED  BY <1>1, <1>2, <1>3, PlainStep

\* The scan of wait() moves on with wait_lock held.
LEMMA WaitPassStep ==
  ASSUME IInv, NEW c \in CPUs, NEW p \in Procs, WaitPass(c, p)
  PROVE  IInv'
<1>1. TypeOK'
  <2>1. idx' \in [Procs -> Procs]
    BY DEF WaitPass, Step, IInv, TypeOK, States, NextSlot
  <2>2. pc' \in [CPUs -> Labels]
    BY Points DEF WaitPass, Step, IInv, TypeOK
  <2>3. UNCHANGED <<state, chan, killed, parent, context, lock,
                    wait_lock, proc, resume, np, victims>>
    BY DEF WaitPass, tableVars, localVars
  <2>. QED  BY <2>1, <2>2, <2>3 DEF IInv, TypeOK
<1>2. WaitLockInv'
  BY SMTT(20) DEF WaitPass, Step, tableVars, localVars, NextSlot, IInv, TypeOK,
     WaitLockInv, Preemptible, UnderWaitLock, AtSched, Resumed
<1>3. /\ pc[c] \notin HoldsLock \cup {"scan"} /\ pc'[c] \notin HoldsLock \cup {"scan"}
      /\ \A d \in CPUs \ {c} : pc'[d] = pc[d]
      /\ UNCHANGED <<proc, lock, state, np>>
  BY DEF WaitPass, Step, tableVars, localVars, IInv, TypeOK, HoldsLock, AtSched, Resumed
<1>. QED  BY <1>1, <1>2, <1>3, PlainStep

\* wait() frees a ZOMBIE whose lock is free: it is on no CPU.
LEMMA WaitReapStep ==
  ASSUME IInv, NEW c \in CPUs, NEW p \in Procs, WaitReap(c, p)
  PROVE  IInv'
<1>1. TypeOK'
  <2>1. state' \in [Procs -> States]
    BY DEF WaitReap, Step, IInv, TypeOK, States, freeproc
  <2>2. chan' \in [Procs -> Procs \cup {NoProc}]
    BY DEF WaitReap, Step, IInv, TypeOK, States, freeproc
  <2>3. killed' \in [Procs -> BOOLEAN]
    BY DEF WaitReap, Step, IInv, TypeOK, States, freeproc
  <2>4. parent' \in [Procs -> Procs \cup {NoProc}]
    BY DEF WaitReap, Step, IInv, TypeOK, States, freeproc
  <2>5. wait_lock' \in CPUs \cup {NoCpu}
    BY DEF WaitReap, Step, IInv, TypeOK, States, freeproc
  <2>6. idx' \in [Procs -> Procs]
    BY DEF WaitReap, Step, IInv, TypeOK, States, freeproc
  <2>7. pc' \in [CPUs -> Labels]
    BY Points DEF WaitReap, Step, IInv, TypeOK
  <2>8. UNCHANGED <<context, lock, proc, resume, np, victims>>
    BY DEF WaitReap, tableVars, localVars
  <2>. QED  BY <2>1, <2>2, <2>3, <2>4, <2>5, <2>6, <2>7, <2>8 DEF IInv, TypeOK
<1>2. CurrentInv'
  BY SMTT(20) DEF WaitReap, Step, tableVars, localVars, freeproc, IInv, TypeOK,
     CurrentInv, Preemptible, UnderWaitLock, AtSched, Resumed
<1>3. LockInv'
  BY SMTT(20) DEF WaitReap, Step, tableVars, localVars, freeproc, IInv, TypeOK,
     CurrentInv, LockInv, OneCpuPerProc, HoldsLock, Preemptible, UnderWaitLock,
     AtSched, Resumed
<1>4. StateInv'
  BY SMTT(20) DEF WaitReap, Step, tableVars, localVars, freeproc, IInv, TypeOK,
     CurrentInv, LockInv, StateInv, ForkInv, OneCpuPerProc, HoldsLock, States,
     Preemptible, UnderWaitLock, AtSched, Resumed
<1>5. ForkInv'
  BY SMTT(20) DEF WaitReap, Step, tableVars, localVars, freeproc, IInv, TypeOK, ForkInv
<1>6. WaitLockInv'
  BY SMTT(20) DEF WaitReap, Step, tableVars, localVars, freeproc, IInv, TypeOK,
     WaitLockInv, Preemptible, UnderWaitLock, AtSched, Resumed
<1>7. OneCpuPerProc'
  BY SMTT(20) DEF WaitReap, Step, tableVars, localVars, freeproc, IInv, TypeOK,
     CurrentInv, LockInv, StateInv, OneCpuPerProc, HoldsLock, Preemptible,
     UnderWaitLock, AtSched, Resumed
<1>. QED  BY <1>1, <1>2, <1>3, <1>4, <1>5, <1>6, <1>7 DEF IInv

\* wait() gives up and releases wait_lock.
LEMMA WaitCopyFailStep ==
  ASSUME IInv, NEW c \in CPUs, NEW p \in Procs, WaitCopyFail(c, p)
  PROVE  IInv'
<1>1. TypeOK'
  <2>1. wait_lock' \in CPUs \cup {NoCpu}
    BY DEF WaitCopyFail, Step, IInv, TypeOK, States
  <2>2. idx' \in [Procs -> Procs]
    BY DEF WaitCopyFail, Step, IInv, TypeOK, States
  <2>3. pc' \in [CPUs -> Labels]
    BY Points DEF WaitCopyFail, Step, IInv, TypeOK
  <2>4. UNCHANGED <<state, chan, killed, parent, context, lock,
                    proc, resume, np, victims>>
    BY DEF WaitCopyFail, tableVars, localVars
  <2>. QED  BY <2>1, <2>2, <2>3, <2>4 DEF IInv, TypeOK
<1>2. WaitLockInv'
  BY SMTT(20) DEF WaitCopyFail, Step, tableVars, localVars, IInv, TypeOK, WaitLockInv,
     Preemptible, UnderWaitLock, AtSched, Resumed
<1>3. /\ pc[c] \notin HoldsLock \cup {"scan"} /\ pc'[c] \notin HoldsLock \cup {"scan"}
      /\ \A d \in CPUs \ {c} : pc'[d] = pc[d]
      /\ UNCHANGED <<proc, lock, state, np>>
  BY DEF WaitCopyFail, Step, tableVars, localVars, IInv, TypeOK, HoldsLock, AtSched, Resumed
<1>. QED  BY <1>1, <1>2, <1>3, PlainStep

\* wait() gives up, or keeps wait_lock for sleep().
LEMMA WaitCheckStep ==
  ASSUME IInv, NEW c \in CPUs, NEW p \in Procs, WaitCheck(c, p)
  PROVE  IInv'
<1>1. TypeOK'
  <2>1. wait_lock' \in CPUs \cup {NoCpu}
    BY DEF WaitCheck, Step, IInv, TypeOK, States
  <2>2. pc' \in [CPUs -> Labels]
    BY Points DEF WaitCheck, Step, IInv, TypeOK
  <2>3. UNCHANGED <<state, chan, killed, parent, context, lock,
                    proc, resume, idx, np, victims>>
    BY DEF WaitCheck, tableVars, localVars
  <2>. QED  BY <2>1, <2>2, <2>3 DEF IInv, TypeOK
<1>2. WaitLockInv'
  BY SMTT(20) DEF WaitCheck, Step, tableVars, localVars, IInv, TypeOK, WaitLockInv,
     Preemptible, UnderWaitLock, AtSched, Resumed
<1>3. /\ pc[c] \notin HoldsLock \cup {"scan"} /\ pc'[c] \notin HoldsLock \cup {"scan"}
      /\ \A d \in CPUs \ {c} : pc'[d] = pc[d]
      /\ UNCHANGED <<proc, lock, state, np>>
  BY DEF WaitCheck, Step, tableVars, localVars, IInv, TypeOK, HoldsLock, AtSched, Resumed
<1>. QED  BY <1>1, <1>2, <1>3, PlainStep

\* sleep() takes p->lock before it releases wait_lock and stops being RUNNING.
LEMMA SleepStep ==
  ASSUME IInv, NEW c \in CPUs, NEW p \in Procs, Sleep(c, p)
  PROVE  IInv'
<1>. state[p] = "RUNNING" /\ lock[p] # c
  BY DEF Sleep, Step, IInv, TypeOK, StateInv, LockInv, HoldsLock, Preemptible,
     UnderWaitLock, AtSched, Resumed
<1>1. TypeOK'
  <2>1. lock' \in [Procs -> CPUs \cup {NoCpu}]
    BY DEF Sleep, Step, IInv, TypeOK, States
  <2>2. wait_lock' \in CPUs \cup {NoCpu}
    BY DEF Sleep, Step, IInv, TypeOK, States
  <2>3. chan' \in [Procs -> Procs \cup {NoProc}]
    BY DEF Sleep, Step, IInv, TypeOK, States
  <2>4. state' \in [Procs -> States]
    BY DEF Sleep, Step, IInv, TypeOK, States
  <2>5. pc' \in [CPUs -> Labels]
    BY Points DEF Sleep, Step, IInv, TypeOK
  <2>6. UNCHANGED <<killed, parent, context, proc, resume, idx, np, victims>>
    BY DEF Sleep, tableVars, localVars
  <2>. QED  BY <2>1, <2>2, <2>3, <2>4, <2>5, <2>6 DEF IInv, TypeOK
<1>2. CurrentInv'
  BY SMTT(20) DEF Sleep, Step, tableVars, localVars, IInv, TypeOK, CurrentInv,
     Preemptible, UnderWaitLock, AtSched, Resumed
<1>3. LockInv'
  BY SMTT(20) DEF Sleep, Step, tableVars, localVars, IInv, TypeOK, CurrentInv,
     LockInv, OneCpuPerProc, HoldsLock, Preemptible, UnderWaitLock, AtSched, Resumed
<1>4. StateInv'
  BY SMTT(20) DEF Sleep, Step, tableVars, localVars, IInv, TypeOK, CurrentInv,
     LockInv, StateInv, ForkInv, OneCpuPerProc, HoldsLock, States, Preemptible,
     UnderWaitLock, AtSched, Resumed
<1>5. ForkInv'
  BY SMTT(20) DEF Sleep, Step, tableVars, localVars, IInv, TypeOK, ForkInv
<1>6. WaitLockInv'
  BY SMTT(20) DEF Sleep, Step, tableVars, localVars, IInv, TypeOK, WaitLockInv,
     Preemptible, UnderWaitLock, AtSched, Resumed
<1>7. OneCpuPerProc'
  BY SMTT(20) DEF Sleep, Step, tableVars, localVars, IInv, TypeOK, CurrentInv,
     LockInv, StateInv, OneCpuPerProc, HoldsLock, Preemptible, UnderWaitLock, AtSched,
     Resumed
<1>. QED  BY <1>1, <1>2, <1>3, <1>4, <1>5, <1>6, <1>7 DEF IInv

\* sleep() releases the lock that scheduler() acquired.
LEMMA SleepTailStep ==
  ASSUME IInv, NEW c \in CPUs, NEW p \in Procs, SleepTail(c, p)
  PROVE  IInv'
<1>1. TypeOK'
  <2>1. chan' \in [Procs -> Procs \cup {NoProc}]
    BY DEF SleepTail, Step, IInv, TypeOK, States
  <2>2. lock' \in [Procs -> CPUs \cup {NoCpu}]
    BY DEF SleepTail, Step, IInv, TypeOK, States
  <2>3. pc' \in [CPUs -> Labels]
    BY Points DEF SleepTail, Step, IInv, TypeOK
  <2>4. UNCHANGED <<state, killed, parent, context, wait_lock,
                    proc, resume, idx, np, victims>>
    BY DEF SleepTail, tableVars, localVars
  <2>. QED  BY <2>1, <2>2, <2>3, <2>4 DEF IInv, TypeOK
<1>2. CurrentInv'
  BY SMTT(20) DEF SleepTail, Step, tableVars, localVars, IInv, TypeOK, CurrentInv,
     Preemptible, UnderWaitLock, AtSched, Resumed
<1>3. LockInv'
  BY SMTT(20) DEF SleepTail, Step, tableVars, localVars, IInv, TypeOK, CurrentInv,
     LockInv, OneCpuPerProc, HoldsLock, Preemptible, UnderWaitLock, AtSched, Resumed
<1>4. StateInv'
  BY SMTT(20) DEF SleepTail, Step, tableVars, localVars, IInv, TypeOK, CurrentInv,
     LockInv, StateInv, ForkInv, OneCpuPerProc, HoldsLock, States, Preemptible,
     UnderWaitLock, AtSched, Resumed
<1>5. ForkInv'
  BY SMTT(20) DEF SleepTail, Step, tableVars, localVars, IInv, TypeOK, ForkInv
<1>6. WaitLockInv'
  BY SMTT(20) DEF SleepTail, Step, tableVars, localVars, IInv, TypeOK, WaitLockInv,
     Preemptible, UnderWaitLock, AtSched, Resumed
<1>7. OneCpuPerProc'
  BY SMTT(20) DEF SleepTail, Step, tableVars, localVars, IInv, TypeOK, CurrentInv,
     LockInv, StateInv, OneCpuPerProc, HoldsLock, Preemptible, UnderWaitLock, AtSched,
     Resumed
<1>. QED  BY <1>1, <1>2, <1>3, <1>4, <1>5, <1>6, <1>7 DEF IInv

\* allocproc() takes an UNUSED slot, which no CPU runs and no other fork() holds.
LEMMA ForkAllocStep ==
  ASSUME IInv, NEW c \in CPUs, NEW p \in Procs, NEW q \in Procs, ForkAlloc(c, p, q)
  PROVE  IInv'
<1>1. TypeOK'
  <2>1. state' \in [Procs -> States]
    BY DEF ForkAlloc, Step, IInv, TypeOK, States
  <2>2. context' \in [Procs -> Resumed]
    BY DEF ForkAlloc, Step, IInv, TypeOK, States, Resumed
  <2>3. np' \in [Procs -> Procs \cup {NoProc}]
    BY DEF ForkAlloc, Step, IInv, TypeOK, States
  <2>4. victims' \in SUBSET Procs
    BY DEF ForkAlloc, Step, IInv, TypeOK, States
  <2>5. pc' \in [CPUs -> Labels]
    BY Points DEF ForkAlloc, Step, IInv, TypeOK
  <2>6. UNCHANGED <<chan, killed, parent, lock, wait_lock, proc, resume, idx>>
    BY DEF ForkAlloc, tableVars, localVars
  <2>. QED  BY <2>1, <2>2, <2>3, <2>4, <2>5, <2>6 DEF IInv, TypeOK
<1>2. CurrentInv'
  BY SMTT(20) DEF ForkAlloc, Step, tableVars, localVars, IInv, TypeOK, CurrentInv,
     Preemptible, UnderWaitLock, AtSched, Resumed
<1>3. LockInv'
  BY SMTT(20) DEF ForkAlloc, Step, tableVars, localVars, IInv, TypeOK, CurrentInv,
     LockInv, OneCpuPerProc, HoldsLock, Preemptible, UnderWaitLock, AtSched, Resumed
<1>4. StateInv'
  BY SMTT(20) DEF ForkAlloc, Step, tableVars, localVars, IInv, TypeOK, CurrentInv,
     LockInv, StateInv, ForkInv, OneCpuPerProc, HoldsLock, States, Preemptible,
     UnderWaitLock, AtSched, Resumed
<1>5. ForkInv'
  BY SMTT(20) DEF ForkAlloc, Step, tableVars, localVars, IInv, TypeOK, ForkInv
<1>6. WaitLockInv'
  BY SMTT(20) DEF ForkAlloc, Step, tableVars, localVars, IInv, TypeOK, WaitLockInv,
     Preemptible, UnderWaitLock, AtSched, Resumed
<1>7. OneCpuPerProc'
  BY SMTT(20) DEF ForkAlloc, Step, tableVars, localVars, IInv, TypeOK, CurrentInv,
     LockInv, StateInv, OneCpuPerProc, HoldsLock, Preemptible, UnderWaitLock, AtSched,
     Resumed
<1>. QED  BY <1>1, <1>2, <1>3, <1>4, <1>5, <1>6, <1>7 DEF IInv

\* freeproc() of a slot that fork() could not set up: it was UNUSED before.
LEMMA ForkFailStep ==
  ASSUME IInv, NEW c \in CPUs, NEW p \in Procs, NEW q \in Procs, ForkFail(c, p, q)
  PROVE  IInv'
<1>1. TypeOK'
  <2>1. state' \in [Procs -> States]
    BY DEF ForkFail, Step, IInv, TypeOK, States, freeproc
  <2>2. chan' \in [Procs -> Procs \cup {NoProc}]
    BY DEF ForkFail, Step, IInv, TypeOK, States, freeproc
  <2>3. killed' \in [Procs -> BOOLEAN]
    BY DEF ForkFail, Step, IInv, TypeOK, States, freeproc
  <2>4. parent' \in [Procs -> Procs \cup {NoProc}]
    BY DEF ForkFail, Step, IInv, TypeOK, States, freeproc
  <2>5. pc' \in [CPUs -> Labels]
    BY Points DEF ForkFail, Step, IInv, TypeOK
  <2>6. UNCHANGED <<context, lock, wait_lock, proc, resume, idx, np, victims>>
    BY DEF ForkFail, tableVars, localVars
  <2>. QED  BY <2>1, <2>2, <2>3, <2>4, <2>5, <2>6 DEF IInv, TypeOK
<1>2. CurrentInv'
  BY SMTT(20) DEF ForkFail, Step, tableVars, localVars, freeproc, IInv, TypeOK,
     CurrentInv, Preemptible, UnderWaitLock, AtSched, Resumed
<1>3. LockInv'
  BY SMTT(20) DEF ForkFail, Step, tableVars, localVars, freeproc, IInv, TypeOK,
     CurrentInv, LockInv, OneCpuPerProc, HoldsLock, Preemptible, UnderWaitLock,
     AtSched, Resumed
<1>4. StateInv'
  BY SMTT(20) DEF ForkFail, Step, tableVars, localVars, freeproc, IInv, TypeOK,
     CurrentInv, LockInv, StateInv, ForkInv, OneCpuPerProc, HoldsLock, States,
     Preemptible, UnderWaitLock, AtSched, Resumed
<1>5. ForkInv'
  <2>1. \A x \in Procs : state'[x] = state[x]
    BY DEF ForkFail, freeproc, IInv, TypeOK
  <2>2. np' = np /\ np \in [Procs -> Procs \cup {NoProc}]
    BY DEF ForkFail, localVars, IInv, TypeOK
  <2>. QED  BY <2>1, <2>2 DEF IInv, ForkInv
<1>6. WaitLockInv'
  BY SMTT(20) DEF ForkFail, Step, tableVars, localVars, freeproc, IInv, TypeOK,
     WaitLockInv, Preemptible, UnderWaitLock, AtSched, Resumed
<1>7. OneCpuPerProc'
  BY SMTT(20) DEF ForkFail, Step, tableVars, localVars, freeproc, IInv, TypeOK,
     CurrentInv, LockInv, StateInv, OneCpuPerProc, HoldsLock, Preemptible,
     UnderWaitLock, AtSched, Resumed
<1>. QED  BY <1>1, <1>2, <1>3, <1>4, <1>5, <1>6, <1>7 DEF IInv

\* kill() makes a SLEEPING process RUNNABLE, under its lock, and no CPU runs it.
LEMMA KillStep ==
  ASSUME IInv, NEW c \in CPUs, NEW p \in Procs, NEW q \in Procs, Kill(c, p, q)
  PROVE  IInv'
<1>1. TypeOK'
  <2>1. killed' \in [Procs -> BOOLEAN]
    BY DEF Kill, Step, IInv, TypeOK, States
  <2>2. state' \in [Procs -> States]
    BY DEF Kill, Step, IInv, TypeOK, States
  <2>3. victims' \in SUBSET Procs
    BY DEF Kill, Step, IInv, TypeOK, States
  <2>4. pc' \in [CPUs -> Labels]
    BY Points DEF Kill, Step, IInv, TypeOK
  <2>5. UNCHANGED <<chan, parent, context, lock, wait_lock, proc, resume, idx, np>>
    BY DEF Kill, tableVars, localVars
  <2>. QED  BY <2>1, <2>2, <2>3, <2>4, <2>5 DEF IInv, TypeOK
<1>2. CurrentInv'
  BY SMTT(20) DEF Kill, Step, tableVars, localVars, IInv, TypeOK, CurrentInv,
     Preemptible, UnderWaitLock, AtSched, Resumed
<1>3. LockInv'
  BY SMTT(20) DEF Kill, Step, tableVars, localVars, IInv, TypeOK, CurrentInv, LockInv,
     OneCpuPerProc, HoldsLock, Preemptible, UnderWaitLock, AtSched, Resumed
<1>4. StateInv'
  BY SMTT(20) DEF Kill, Step, tableVars, localVars, IInv, TypeOK, CurrentInv, LockInv,
     StateInv, ForkInv, OneCpuPerProc, HoldsLock, States, Preemptible, UnderWaitLock,
     AtSched, Resumed
<1>5. ForkInv'
  <2>1. \A x \in Procs : state[x] = "USED" => state'[x] = "USED"
    BY DEF Kill, IInv, TypeOK
  <2>2. np' = np
    BY DEF Kill, localVars
  <2>. QED  BY <2>1, <2>2 DEF IInv, TypeOK, ForkInv
<1>6. WaitLockInv'
  BY SMTT(20) DEF Kill, Step, tableVars, localVars, IInv, TypeOK, WaitLockInv,
     Preemptible, UnderWaitLock, AtSched, Resumed
<1>7. OneCpuPerProc'
  BY SMTT(20) DEF Kill, Step, tableVars, localVars, IInv, TypeOK, CurrentInv, LockInv,
     StateInv, OneCpuPerProc, HoldsLock, Preemptible, UnderWaitLock, AtSched, Resumed
<1>. QED  BY <1>1, <1>2, <1>3, <1>4, <1>5, <1>6, <1>7 DEF IInv

\* kill(0) changes the p->killed of an UNUSED slot alone.
LEMMA KillPidZeroStep ==
  ASSUME IInv, NEW c \in CPUs, NEW p \in Procs, NEW q \in Procs, KillPidZero(c, p, q)
  PROVE  IInv'
<1>1. TypeOK'
  <2>1. killed' \in [Procs -> BOOLEAN]
    BY DEF KillPidZero, Step, IInv, TypeOK, States
  <2>2. pc' \in [CPUs -> Labels]
    BY Points DEF KillPidZero, Step, IInv, TypeOK
  <2>3. UNCHANGED <<state, chan, parent, context, lock, wait_lock,
                    proc, resume, idx, np, victims>>
    BY DEF KillPidZero, tableVars, localVars
  <2>. QED  BY <2>1, <2>2, <2>3 DEF IInv, TypeOK
<1>2. WaitLockInv'
  BY SMTT(20) DEF KillPidZero, Step, tableVars, localVars, IInv, TypeOK, WaitLockInv,
     Preemptible, UnderWaitLock, AtSched, Resumed
<1>3. /\ pc[c] \notin HoldsLock \cup {"scan"} /\ pc'[c] \notin HoldsLock \cup {"scan"}
      /\ \A d \in CPUs \ {c} : pc'[d] = pc[d]
      /\ UNCHANGED <<proc, lock, state, np>>
  BY DEF KillPidZero, Step, tableVars, localVars, IInv, TypeOK, HoldsLock, AtSched, Resumed
<1>. QED  BY <1>1, <1>2, <1>3, PlainStep

\* A step that changes no variable preserves the invariant.
LEMMA StutterStep ==
  ASSUME IInv, UNCHANGED vars
  PROVE  IInv'
<1>1. /\ TypeOK' /\ CurrentInv' /\ LockInv' /\ StateInv'
  BY DEF vars, tableVars, localVars, IInv, TypeOK, CurrentInv, LockInv, StateInv
<1>2. /\ ForkInv' /\ WaitLockInv' /\ OneCpuPerProc'
  BY DEF vars, tableVars, localVars, IInv, ForkInv, WaitLockInv, OneCpuPerProc
<1>. QED  BY <1>1, <1>2 DEF IInv

\* After userinit() the first process is RUNNABLE and every CPU is in its scheduler.
LEMMA InitIInv == Init => IInv
<1>. SUFFICES ASSUME Init PROVE IInv
  OBVIOUS
<1>1. TypeOK
  BY Points DEF Init, TypeOK, States, Resumed, Preemptible
<1>2. CurrentInv /\ StateInv /\ OneCpuPerProc
  BY DEF Init, CurrentInv, StateInv, OneCpuPerProc
<1>3. LockInv
  BY DEF Init, LockInv, HoldsLock, AtSched, Resumed
<1>4. ForkInv /\ WaitLockInv
  BY DEF Init, ForkInv, WaitLockInv, UnderWaitLock
<1>. QED  BY <1>1, <1>2, <1>3, <1>4 DEF IInv

\* Every step of every CPU preserves the invariant.
LEMMA NextIInv == IInv /\ [Next]_vars => IInv'
<1>. SUFFICES ASSUME IInv, [Next]_vars PROVE IInv'
  OBVIOUS
<1>1. CASE UNCHANGED vars
  BY <1>1, StutterStep
<1>2. CASE Next
  <2>1. PICK c \in CPUs, p \in Procs :
          Dispatch(c, p) \/ Yield(c, p) \/ UserStep(c, p) \/ KernelStep(c, p)
    BY <1>2 DEF Next
  <2>2. CASE Dispatch(c, p) \/ Yield(c, p)
    BY <2>2, DispatchStep, YieldStep
  <2>3. CASE UserStep(c, p)
    <3>1. CASE ExitCall(c, p) \/ WaitCall(c, p) \/ OtherCall(c, p) \/ Fault(c, p)
      BY <3>1, ExitCallStep, WaitCallStep, OtherCallStep, FaultStep
    <3>2. CASE \E q \in Procs : \/ ForkAlloc(c, p, q) \/ ForkFail(c, p, q)
                               \/ Kill(c, p, q) \/ KillPidZero(c, p, q)
      BY <3>2, ForkAllocStep, ForkFailStep, KillStep, KillPidZeroStep
    <3>. QED  BY <2>3, <3>1, <3>2 DEF UserStep
  <2>4. CASE KernelStep(c, p)
    BY <2>4, SchedStep, BackStep, YieldTailStep, ForkretStep, KilledExitStep,
       ReturnStep,
       ForkParentStep, ForkRunStep, ExitLockStep, ReparentStep, WakeupStep, ExitZombieStep,
       WaitLockStep, WaitPassStep, WaitReapStep, WaitCopyFailStep, WaitCheckStep, SleepStep,
       SleepTailStep DEF KernelStep
  <2>. QED  BY <2>1, <2>2, <2>3, <2>4
<1>. QED  BY <1>1, <1>2

\* The lock discipline of the process table holds in every reachable state.
THEOREM Invariant == Spec => []IInv
BY InitIInv, NextIInv, PTL DEF Spec

\* Every variable of the process table keeps its type.
THEOREM TypeCorrect == Spec => []TypeOK
<1>1. IInv => TypeOK
  BY DEF IInv
<1>. QED  BY <1>1, Invariant, PTL

\* Two CPUs never run on one kernel stack: scheduler() of proc.c:465 and
\* sched() of proc.c:502 hand p->lock to each other across swtch().
THEOREM StackIsPrivate == Spec => []OneCpuPerProc
<1>1. IInv => OneCpuPerProc
  BY DEF IInv
<1>. QED  BY <1>1, Invariant, PTL

\* A CPU on p's kernel stack runs p or holds p->lock, so that neither wait()
\* nor another scheduler, which take that lock, can use the stack meanwhile.
THEOREM StackIsOwned == Spec => []StackOwned
<1>1. IInv => StackOwned
  BY DEF IInv, StackOwned, StateInv, LockInv, HoldsLock
<1>. QED  BY <1>1, Invariant, PTL

\* sched()'s checks of its caller (proc.c:507-513) never panic.
THEOREM SchedNeverPanics == Spec => []SchedChecks
<1>1. IInv => SchedChecks
  <2>. SUFFICES ASSUME IInv, NEW c \in CPUs, pc[c] \in AtSched
                PROVE  /\ {p \in Procs : lock[p] = c} = {proc[c]} /\ wait_lock # c
                       /\ state[proc[c]] # "RUNNING"
    BY DEF SchedChecks
  <2>1. pc[c] \notin UnderWaitLock /\ pc[c] # "scan" /\ pc[c] \in HoldsLock
    BY DEF AtSched, UnderWaitLock, HoldsLock
  <2>2. proc[c] \in Procs
    BY <2>1 DEF IInv, TypeOK, CurrentInv
  <2>3. wait_lock # c /\ state[proc[c]] # "RUNNING"
    BY <2>1, <2>2 DEF IInv, WaitLockInv, StateInv
  <2>4. {p \in Procs : lock[p] = c} = {proc[c]}
    BY <2>1, <2>2 DEF IInv, LockInv
  <2>. QED  BY <2>3, <2>4
<1>. QED  BY <1>1, Invariant, PTL

-----------------------------------------------------------------------------
(* wait(), kill() and fork() *)

\* p sleeps in wait() over its ZOMBIE child q.
Missed(p, q) == /\ state[p] = "SLEEPING" /\ chan[p] = p
                /\ parent[q] = p /\ state[q] = "ZOMBIE"

\* Only init sleeps over a ZOMBIE, and only while the process that just gave
\* it that child is about to wake it.
MissedInv ==
  \A p, q \in Procs : Missed(p, q) =>
    /\ p = initproc /\ wait_lock # NoCpu
    /\ pc[wait_lock] = "wakeInit" /\ idx[proc[wait_lock]] = 1

\* An exiting process that has passed its parent's slot in wakeup(), and still
\* holds wait_lock, has no parent asleep in wait().
ToldInv ==
  \A p \in Procs :
    /\ wait_lock # NoCpu /\ parent[proc[wait_lock]] = p
    /\ \/ pc[wait_lock] = "exitZombie"
       \/ pc[wait_lock] = "wakeParent" /\ p < idx[proc[wait_lock]]
    => ~ (state[p] = "SLEEPING" /\ chan[p] = p)

\* No slot that wait() has passed holds a ZOMBIE child.
ScanInv ==
  \A q \in Procs :
    /\ wait_lock # NoCpu /\ parent[q] = proc[wait_lock]
    /\ \/ pc[wait_lock] \in {"waitCheck", "waitSleep"}
       \/ pc[wait_lock] = "waitScan" /\ q < idx[proc[wait_lock]]
    => state[q] # "ZOMBIE"

\* Every scan of the table starts at its first slot.
IdxInv ==
  \A p \in Procs : idx[p] # 1 =>
    /\ wait_lock # NoCpu /\ proc[wait_lock] = p
    /\ pc[wait_lock] \in {"wakeInit", "wakeParent", "waitScan"}

WInv == MissedInv /\ ToldInv /\ ScanInv /\ IdxInv

\* Without kill(0), p->killed is set only in slots in use, of processes that
\* kill() named or that faulted.
KInv == \A p \in Procs : killed[p] => state[p] # "UNUSED" /\ p \in victims


\* The CPU at a point inside wait_lock holds it, and its process is RUNNING.
LEMMA Held ==
  ASSUME IInv, NEW c \in CPUs, NEW p \in Procs, proc[c] = p, pc[c] \in UnderWaitLock
  PROVE  wait_lock = c /\ c # NoCpu /\ state[p] = "RUNNING"
<1>1. pc[c] \notin AtSched \cup {"back"} /\ p # NoProc
  BY DEF AtSched, UnderWaitLock
<1>2. state[p] = "RUNNING"
  BY <1>1 DEF IInv, StateInv
<1>. QED  BY <1>2 DEF IInv, WaitLockInv

\* A step of a CPU that does not hold wait_lock, and puts nobody to sleep and
\* makes nobody a ZOMBIE, changes nothing that WInv is about.
LEMMA Bystander ==
  ASSUME IInv, WInv, NEW c \in CPUs, pc[c] \notin UnderWaitLock,
         UNCHANGED <<parent, idx, wait_lock>>,
         \A d \in CPUs \ {c} : pc'[d] = pc[d] /\ proc'[d] = proc[d],
         \A x \in Procs : state'[x] = "SLEEPING" /\ chan'[x] = x
                            => state[x] = "SLEEPING" /\ chan[x] = x,
         \A x \in Procs : state'[x] = "ZOMBIE" => state[x] = "ZOMBIE"
  PROVE  WInv'
<1>1. wait_lock \in CPUs \cup {NoCpu} /\ wait_lock # c
  BY DEF IInv, TypeOK, WaitLockInv
<1>2. wait_lock # NoCpu => /\ pc'[wait_lock] = pc[wait_lock]
                           /\ proc'[wait_lock] = proc[wait_lock]
  BY <1>1
<1>3. MissedInv'
  <2>. SUFFICES ASSUME NEW x \in Procs, NEW q \in Procs, Missed(x, q)'
                PROVE  (/\ x = initproc /\ wait_lock # NoCpu
                        /\ pc[wait_lock] = "wakeInit" /\ idx[proc[wait_lock]] = 1)
    BY <1>2 DEF MissedInv
  <2>. QED  BY DEF WInv, MissedInv, Missed
<1>4. ToldInv'
  BY <1>2 DEF WInv, ToldInv
<1>5. ScanInv'
  BY <1>2 DEF WInv, ScanInv
<1>6. IdxInv'
  BY <1>2 DEF WInv, IdxInv
<1>. QED  BY <1>3, <1>4, <1>5, <1>6 DEF WInv

\* scheduler(), sched(), yield(), fork() up to its use of wait_lock, kill() and
\* the traps are such steps.
LEMMA BystanderWait ==
  ASSUME IInv, WInv, NEW c \in CPUs, NEW p \in Procs, NEW q \in Procs,
         \/ Dispatch(c, p) \/ Sched(c, p) \/ Back(c, p) \/ Yield(c, p) \/ YieldTail(c, p)
         \/ Forkret(c, p) \/ KilledExit(c, p) \/ Return(c, p) \/ Fault(c, p)
         \/ OtherCall(c, p) \/ ForkRun(c, p) \/ ExitCall(c, p) \/ WaitCall(c, p)
         \/ SleepTail(c, p) \/ ForkAlloc(c, p, q) \/ Kill(c, p, q) \/ KillPidZero(c, p, q)
  PROVE  WInv'
<1>. USE DEF tableVars, localVars
<1>1. pc[c] \notin UnderWaitLock
  BY DEF Dispatch, Sched, Back, Yield, YieldTail, Forkret, KilledExit, Return, Fault,
     OtherCall, ForkRun, ExitCall, WaitCall, SleepTail, ForkAlloc, Kill, KillPidZero, Step,
     AtSched, Preemptible, UnderWaitLock
<1>2. UNCHANGED <<parent, idx, wait_lock>>
  BY DEF Dispatch, Sched, Back, Yield, YieldTail, Forkret, KilledExit, Return, Fault,
     OtherCall, ForkRun, ExitCall, WaitCall, SleepTail, ForkAlloc, Kill, KillPidZero
<1>3. \A d \in CPUs \ {c} : pc'[d] = pc[d] /\ proc'[d] = proc[d]
  BY DEF Dispatch, Sched, Back, Yield, YieldTail, Forkret, KilledExit, Return, Fault,
     OtherCall, ForkRun, ExitCall, WaitCall, SleepTail, ForkAlloc, Kill, KillPidZero, Step,
     IInv, TypeOK
<1>4. \A x \in Procs : state'[x] = "SLEEPING" /\ chan'[x] = x
                         => state[x] = "SLEEPING" /\ chan[x] = x
  <2>1. CASE Dispatch(c, p) \/ Yield(c, p) \/ ForkRun(c, p)
    BY <2>1 DEF Dispatch, Yield, ForkRun, IInv, TypeOK
  <2>2. CASE ForkAlloc(c, p, q) \/ Kill(c, p, q)
    BY <2>2 DEF ForkAlloc, Kill, IInv, TypeOK
  <2>3. CASE SleepTail(c, p)
    BY <2>3 DEF SleepTail, IInv, TypeOK
  <2>4. CASE UNCHANGED <<state, chan>>
    BY <2>4
  <2>. QED  BY <2>1, <2>2, <2>3, <2>4 DEF Sched, Back, YieldTail, Forkret, KilledExit,
            Return, Fault, OtherCall, ExitCall, WaitCall, KillPidZero
<1>5. \A x \in Procs : state'[x] = "ZOMBIE" => state[x] = "ZOMBIE"
  BY DEF Dispatch, Sched, Back, Yield, YieldTail, Forkret, KilledExit, Return, Fault,
     OtherCall, ForkRun, ExitCall, WaitCall, SleepTail, ForkAlloc, Kill, KillPidZero,
     IInv, TypeOK
<1>. QED  BY <1>1, <1>2, <1>3, <1>4, <1>5, Bystander

\* fork() gives a parent only to its own USED child, with wait_lock free.
LEMMA ForkParentWait ==
  ASSUME IInv, WInv, NEW c \in CPUs, NEW p \in Procs, ForkParent(c, p)
  PROVE  WInv'
<1>1. /\ wait_lock = NoCpu /\ wait_lock' = NoCpu
      /\ UNCHANGED <<idx, state, chan>>
  BY DEF ForkParent, tableVars, localVars
<1>2. /\ parent' = [parent EXCEPT ![np[p]] = p] /\ np[p] \in Procs \cup {NoProc}
      /\ parent \in [Procs -> Procs \cup {NoProc}]
  BY DEF ForkParent, IInv, TypeOK
<1>3. \A q \in Procs : q = np[p] => state[q] = "USED"
  BY DEF IInv, ForkInv
<1>4. MissedInv'
  BY <1>1, <1>2, <1>3 DEF WInv, MissedInv, Missed
<1>5. ToldInv' /\ ScanInv' /\ IdxInv'
  BY <1>1 DEF WInv, ToldInv, ScanInv, IdxInv
<1>. QED  BY <1>4, <1>5 DEF WInv

\* ExitLock puts no ZOMBIE below a sleeping parent and leaves wait_lock's data alone.
LEMMA ExitLockWait ==
  ASSUME IInv, WInv, NEW c \in CPUs, NEW p \in Procs, ExitLock(c, p)
  PROVE  WInv'
<1>1. MissedInv'
  BY SMTT(30) DEF ExitLock, Step, tableVars, localVars, WInv, MissedInv, Missed,
     ToldInv, ScanInv, IdxInv, IInv, TypeOK, CurrentInv, WaitLockInv, StateInv,
     LockInv, UnderWaitLock, OneCpuPerProc, AtSched
<1>2. ToldInv'
  BY SMTT(30) DEF ExitLock, Step, tableVars, localVars, WInv, ToldInv, IdxInv, IInv,
     TypeOK, CurrentInv, WaitLockInv, StateInv, LockInv, UnderWaitLock, OneCpuPerProc,
     AtSched
<1>3. ScanInv'
  BY SMTT(30) DEF ExitLock, Step, tableVars, localVars, WInv, ScanInv, IdxInv, IInv,
     TypeOK, CurrentInv, WaitLockInv, StateInv, LockInv, UnderWaitLock, OneCpuPerProc,
     AtSched
<1>4. IdxInv'
  BY SMTT(30) DEF ExitLock, Step, tableVars, localVars, WInv, IdxInv, IInv, TypeOK,
     CurrentInv, WaitLockInv, StateInv, LockInv, UnderWaitLock, OneCpuPerProc, AtSched
<1>. QED  BY <1>1, <1>2, <1>3, <1>4 DEF WInv

\* The children of the exiting process become init's: the only step that can put
\* a ZOMBIE below a sleeping parent, and it goes on to wake init.
LEMMA ReparentWait ==
  ASSUME IInv, WInv, NEW c \in CPUs, NEW p \in Procs, Reparent(c, p)
  PROVE  WInv'
<1>1. wait_lock = c /\ c # NoCpu /\ proc[c] = p /\ state[p] = "RUNNING"
  BY Held DEF Reparent, Step, UnderWaitLock
<1>2. /\ pc[c] = "reparent" /\ pc \in [CPUs -> Labels]
      /\ pc' = [pc EXCEPT ![c] = IF Children(p) = {} THEN "wakeParent" ELSE "wakeInit"]
  BY DEF Reparent, Step, IInv, TypeOK
<1>3. parent' = [q \in Procs |-> IF parent[q] = p THEN initproc ELSE parent[q]]
  BY DEF Reparent, Adopted
<1>4. UNCHANGED <<wait_lock, idx, state, chan, proc>>
  BY DEF Reparent, localVars
<1>5. idx[p] = 1
  BY <1>1, <1>2 DEF WInv, IdxInv
<1>6. MissedInv'
  <2>. SUFFICES ASSUME NEW x \in Procs, NEW q \in Procs, Missed(x, q)'
                PROVE  x = initproc /\ pc'[c] = "wakeInit"
    BY <1>1, <1>4, <1>5 DEF MissedInv
  <2>1. ~ Missed(x, q)
    BY <1>1, <1>2 DEF WInv, MissedInv
  <2>2. parent[q] = p /\ x = initproc
    BY <2>1, <1>3, <1>4 DEF Missed
  <2>3. Children(p) # {}
    BY <2>2 DEF Children
  <2>. QED  BY <2>2, <2>3, <1>2
<1>7. ToldInv'
  BY <1>1, <1>2, <1>4, <1>5 DEF ToldInv
<1>8. ScanInv' /\ IdxInv'
  BY <1>1, <1>2, <1>4, <1>5 DEF WInv, ScanInv, IdxInv
<1>. QED  BY <1>6, <1>7, <1>8 DEF WInv

\* wakeup() leaves no process asleep on the channel in a slot it has passed.
LEMMA WakeupWait ==
  ASSUME IInv, WInv, NEW c \in CPUs, NEW p \in Procs, Wakeup(c, p)
  PROVE  WInv'
<1>. DEFINE i == idx[p]
            ch == IF pc[c] = "wakeInit" THEN initproc ELSE parent[p]
<1>1. wait_lock = c /\ c # NoCpu /\ proc[c] = p /\ state[p] = "RUNNING"
  BY Held DEF Wakeup, Step, UnderWaitLock
<1>2. /\ pc[c] \in {"wakeInit", "wakeParent"} /\ pc \in [CPUs -> Labels]
      /\ pc' = [pc EXCEPT ![c] = IF i # NPROC THEN pc[c]
                                 ELSE IF pc[c] = "wakeInit" THEN "wakeParent" ELSE "exitZombie"]
  BY DEF Wakeup, Step, IInv, TypeOK
<1>3. /\ state' = Woken(p, i, ch) /\ state \in [Procs -> States]
      /\ idx' = [idx EXCEPT ![p] = NextSlot(i)] /\ idx \in [Procs -> Procs]
  BY DEF Wakeup, IInv, TypeOK
<1>4. UNCHANGED <<wait_lock, parent, chan, proc>>
  BY DEF Wakeup
<1>5. \A y \in Procs : state'[y] \in {"SLEEPING", "ZOMBIE"} => state'[y] = state[y]
  BY <1>1, <1>3 DEF Woken
<1>10. chan[i] = ch => state'[i] # "SLEEPING"
  BY <1>1, <1>3 DEF Woken
<1>6. i \in Procs /\ NextSlot(i) = (IF i = NPROC THEN 1 ELSE i + 1)
  BY <1>3 DEF NextSlot
<1>7. MissedInv'
  <2>. SUFFICES ASSUME NEW x \in Procs, NEW q \in Procs, Missed(x, q)' PROVE FALSE
    BY DEF MissedInv
  <2>1. Missed(x, q)
    BY <1>4, <1>5 DEF Missed
  <2>2. x = initproc /\ pc[c] = "wakeInit" /\ i = 1
    BY <2>1, <1>1 DEF WInv, MissedInv
  <2>. QED  BY <2>2, <1>4, <1>10 DEF Missed
<1>8. ToldInv'
  <2>. SUFFICES ASSUME NEW x \in Procs, parent[p] = x, state'[x] = "SLEEPING", chan[x] = x,
                       pc'[c] = "exitZombie" \/ (pc'[c] = "wakeParent" /\ x < idx'[p])
                PROVE  FALSE
    BY <1>1, <1>4 DEF ToldInv
  <2>0. idx'[p] = NextSlot(i) /\ x \in 1..NPROC /\ i \in 1..NPROC
    BY <1>3, <1>6
  <2>1. pc[c] = "wakeParent" /\ x <= i
    <3>1. CASE i = NPROC
      BY <3>1, <2>0, <1>2, <1>6
    <3>2. CASE i # NPROC
      BY <3>2, <2>0, <1>2, <1>6
    <3>. QED  BY <3>1, <3>2
  <2>2. x # i
    BY <2>1, <1>10
  <2>3. state[x] = "SLEEPING"
    BY <1>5
  <2>. QED  BY <2>1, <2>2, <2>3, <1>1, <1>6 DEF WInv, ToldInv
<1>9. ScanInv' /\ IdxInv'
  <2>1. ScanInv'
    BY <1>1, <1>2, <1>4 DEF ScanInv
  <2>2. IdxInv'
    BY <1>1, <1>2, <1>3, <1>4, <1>6 DEF WInv, IdxInv
  <2>. QED  BY <2>1, <2>2
<1>. QED  BY <1>7, <1>8, <1>9 DEF WInv

\* The parent of a process about to become a ZOMBIE was told: it is not asleep.
LEMMA ExitZombieWait ==
  ASSUME IInv, WInv, NEW c \in CPUs, NEW p \in Procs, ExitZombie(c, p)
  PROVE  WInv'
<1>1. wait_lock = c /\ c # NoCpu /\ proc[c] = p /\ state[p] = "RUNNING"
  BY Held DEF ExitZombie, Step, UnderWaitLock
<1>2. /\ pc[c] = "exitZombie" /\ wait_lock' = NoCpu /\ UNCHANGED <<idx, parent, chan>>
      /\ state' = [state EXCEPT ![p] = "ZOMBIE"] /\ state \in [Procs -> States]
  BY DEF ExitZombie, Step, localVars, IInv, TypeOK
<1>3. MissedInv'
  <2>. SUFFICES ASSUME NEW x \in Procs, NEW q \in Procs, Missed(x, q)' PROVE FALSE
    BY DEF MissedInv
  <2>1. state[x] = "SLEEPING" /\ chan[x] = x /\ parent[q] = x
    BY <1>2 DEF Missed
  <2>2. q # p
    BY <2>1, <1>1, <1>2 DEF WInv, ToldInv
  <2>3. Missed(x, q)
    BY <2>1, <2>2, <1>2 DEF Missed
  <2>. QED  BY <2>3, <1>1, <1>2 DEF WInv, MissedInv
<1>4. ToldInv' /\ ScanInv'
  BY <1>2 DEF ToldInv, ScanInv
<1>5. IdxInv'
  BY <1>1, <1>2 DEF WInv, IdxInv
<1>. QED  BY <1>3, <1>4, <1>5 DEF WInv

\* WaitLock puts no ZOMBIE below a sleeping parent and leaves wait_lock's data alone.
LEMMA WaitLockWait ==
  ASSUME IInv, WInv, NEW c \in CPUs, NEW p \in Procs, WaitLock(c, p)
  PROVE  WInv'
<1>1. MissedInv'
  BY SMTT(30) DEF WaitLock, Step, tableVars, localVars, WInv, MissedInv, Missed,
     ToldInv, ScanInv, IdxInv, IInv, TypeOK, CurrentInv, WaitLockInv, StateInv,
     LockInv, UnderWaitLock, OneCpuPerProc, AtSched
<1>2. ToldInv'
  BY SMTT(30) DEF WaitLock, Step, tableVars, localVars, WInv, ToldInv, IdxInv, IInv,
     TypeOK, CurrentInv, WaitLockInv, StateInv, LockInv, UnderWaitLock, OneCpuPerProc,
     AtSched
<1>3. ScanInv'
  BY SMTT(30) DEF WaitLock, Step, tableVars, localVars, WInv, ScanInv, IdxInv, IInv,
     TypeOK, CurrentInv, WaitLockInv, StateInv, LockInv, UnderWaitLock, OneCpuPerProc,
     AtSched
<1>4. IdxInv'
  BY SMTT(30) DEF WaitLock, Step, tableVars, localVars, WInv, IdxInv, IInv, TypeOK,
     CurrentInv, WaitLockInv, StateInv, LockInv, UnderWaitLock, OneCpuPerProc, AtSched
<1>. QED  BY <1>1, <1>2, <1>3, <1>4 DEF WInv

\* wait() passes a slot that is not a ZOMBIE child.
LEMMA WaitPassWait ==
  ASSUME IInv, WInv, NEW c \in CPUs, NEW p \in Procs, WaitPass(c, p)
  PROVE  WInv'
<1>1. MissedInv'
  BY SMTT(30) DEF WaitPass, Step, tableVars, localVars, WInv, MissedInv, Missed,
     ToldInv, ScanInv, IdxInv, IInv, TypeOK, CurrentInv, WaitLockInv, StateInv,
     LockInv, UnderWaitLock, OneCpuPerProc, NextSlot, AtSched
<1>2. ToldInv'
  BY SMTT(30) DEF WaitPass, Step, tableVars, localVars, WInv, ToldInv, IdxInv, IInv,
     TypeOK, CurrentInv, WaitLockInv, StateInv, LockInv, UnderWaitLock, OneCpuPerProc,
     NextSlot, AtSched
<1>3. ScanInv'
  BY SMTT(30) DEF WaitPass, Step, tableVars, localVars, WInv, ScanInv, IdxInv, IInv,
     TypeOK, CurrentInv, WaitLockInv, StateInv, LockInv, UnderWaitLock, OneCpuPerProc,
     NextSlot, AtSched
<1>4. IdxInv'
  BY SMTT(30) DEF WaitPass, Step, tableVars, localVars, WInv, IdxInv, IInv, TypeOK,
     CurrentInv, WaitLockInv, StateInv, LockInv, UnderWaitLock, OneCpuPerProc,
     NextSlot, AtSched
<1>. QED  BY <1>1, <1>2, <1>3, <1>4 DEF WInv

\* wait() frees one of the ZOMBIEs.
LEMMA WaitReapWait ==
  ASSUME IInv, WInv, NEW c \in CPUs, NEW p \in Procs, WaitReap(c, p)
  PROVE  WInv'
<1>1. MissedInv'
  BY SMTT(30) DEF WaitReap, Step, tableVars, localVars, WInv, MissedInv, Missed,
     ToldInv, ScanInv, IdxInv, IInv, TypeOK, CurrentInv, WaitLockInv, StateInv,
     LockInv, UnderWaitLock, OneCpuPerProc, freeproc, AtSched
<1>2. ToldInv'
  BY SMTT(30) DEF WaitReap, Step, tableVars, localVars, WInv, ToldInv, IdxInv, IInv,
     TypeOK, CurrentInv, WaitLockInv, StateInv, LockInv, UnderWaitLock, OneCpuPerProc,
     freeproc, AtSched
<1>3. ScanInv'
  BY SMTT(30) DEF WaitReap, Step, tableVars, localVars, WInv, ScanInv, IdxInv, IInv,
     TypeOK, CurrentInv, WaitLockInv, StateInv, LockInv, UnderWaitLock, OneCpuPerProc,
     freeproc, AtSched
<1>4. IdxInv'
  BY SMTT(30) DEF WaitReap, Step, tableVars, localVars, WInv, IdxInv, IInv, TypeOK,
     CurrentInv, WaitLockInv, StateInv, LockInv, UnderWaitLock, OneCpuPerProc,
     freeproc, AtSched
<1>. QED  BY <1>1, <1>2, <1>3, <1>4 DEF WInv

\* WaitCopyFail puts no ZOMBIE below a sleeping parent and leaves wait_lock's data alone.
LEMMA WaitCopyFailWait ==
  ASSUME IInv, WInv, NEW c \in CPUs, NEW p \in Procs, WaitCopyFail(c, p)
  PROVE  WInv'
<1>1. MissedInv'
  BY SMTT(30) DEF WaitCopyFail, Step, tableVars, localVars, WInv, MissedInv, Missed,
     ToldInv, ScanInv, IdxInv, IInv, TypeOK, CurrentInv, WaitLockInv, StateInv,
     LockInv, UnderWaitLock, OneCpuPerProc, AtSched
<1>2. ToldInv'
  BY SMTT(30) DEF WaitCopyFail, Step, tableVars, localVars, WInv, ToldInv, IdxInv,
     IInv, TypeOK, CurrentInv, WaitLockInv, StateInv, LockInv, UnderWaitLock,
     OneCpuPerProc, AtSched
<1>3. ScanInv'
  BY SMTT(30) DEF WaitCopyFail, Step, tableVars, localVars, WInv, ScanInv, IdxInv,
     IInv, TypeOK, CurrentInv, WaitLockInv, StateInv, LockInv, UnderWaitLock,
     OneCpuPerProc, AtSched
<1>4. IdxInv'
  BY SMTT(30) DEF WaitCopyFail, Step, tableVars, localVars, WInv, IdxInv, IInv,
     TypeOK, CurrentInv, WaitLockInv, StateInv, LockInv, UnderWaitLock, OneCpuPerProc,
     AtSched
<1>. QED  BY <1>1, <1>2, <1>3, <1>4 DEF WInv

\* wait() keeps wait_lock from the end of its scan until sleep().
LEMMA WaitCheckWait ==
  ASSUME IInv, WInv, NEW c \in CPUs, NEW p \in Procs, WaitCheck(c, p)
  PROVE  WInv'
<1>1. wait_lock = c /\ c # NoCpu /\ proc[c] = p /\ state[p] = "RUNNING"
  BY Held DEF WaitCheck, Step, UnderWaitLock
<1>2. /\ pc[c] = "waitCheck" /\ wait_lock' \in {NoCpu, c} /\ pc \in [CPUs -> Labels]
      /\ wait_lock' = c => pc' = [pc EXCEPT ![c] = "waitSleep"]
      /\ UNCHANGED <<state, chan, parent, idx, proc>>
  <2>1. wait_lock' \in {NoCpu, c} /\ UNCHANGED <<state, chan, parent, idx, proc>>
    BY DEF WaitCheck, tableVars, localVars
  <2>2. pc[c] = "waitCheck" /\ pc \in [CPUs -> Labels]
    BY DEF WaitCheck, Step, IInv, TypeOK
  <2>3. wait_lock' = c => pc' = [pc EXCEPT ![c] = "waitSleep"]
    BY <1>1 DEF WaitCheck, Step
  <2>. QED  BY <2>1, <2>2, <2>3
<1>3. MissedInv' /\ ToldInv'
  BY <1>1, <1>2 DEF WInv, MissedInv, Missed, ToldInv
<1>4. ScanInv'
  BY <1>1, <1>2 DEF WInv, ScanInv
<1>5. IdxInv'
  BY <1>1, <1>2 DEF WInv, IdxInv
<1>. QED  BY <1>3, <1>4, <1>5 DEF WInv

\* sleep() starts with wait_lock held and no ZOMBIE child.
LEMMA SleepWait ==
  ASSUME IInv, WInv, NEW c \in CPUs, NEW p \in Procs, Sleep(c, p)
  PROVE  WInv'
<1>1. wait_lock = c /\ c # NoCpu /\ proc[c] = p /\ state[p] = "RUNNING"
  BY Held DEF Sleep, Step, UnderWaitLock
<1>2. pc[c] = "waitSleep" /\ wait_lock' = NoCpu /\ UNCHANGED <<parent, idx>>
  BY DEF Sleep, Step, localVars
<1>3. /\ chan' = [chan EXCEPT ![p] = p] /\ chan \in [Procs -> Procs \cup {NoProc}]
      /\ state' = [state EXCEPT ![p] = "SLEEPING"] /\ state \in [Procs -> States]
  BY DEF Sleep, IInv, TypeOK
<1>4. MissedInv'
  <2>. SUFFICES ASSUME NEW x \in Procs, NEW q \in Procs, Missed(x, q)' PROVE FALSE
    BY DEF MissedInv
  <2>1. state[q] = "ZOMBIE" /\ parent[q] = x
    BY <1>2, <1>3 DEF Missed
  <2>2. x # p
    BY <2>1, <1>1, <1>2 DEF WInv, ScanInv
  <2>3. Missed(x, q)
    BY <2>1, <2>2, <1>3 DEF Missed
  <2>. QED  BY <2>3, <1>1, <1>2 DEF WInv, MissedInv
<1>5. ToldInv' /\ ScanInv'
  BY <1>2 DEF ToldInv, ScanInv
<1>6. IdxInv'
  BY <1>1, <1>2 DEF WInv, IdxInv
<1>. QED  BY <1>4, <1>5, <1>6 DEF WInv

\* A fork() that fails frees a slot that was UNUSED.
LEMMA ForkFailWait ==
  ASSUME IInv, WInv, NEW c \in CPUs, NEW p \in Procs, NEW q \in Procs, ForkFail(c, p, q)
  PROVE  WInv'
<1>. USE DEF ForkFail, freeproc, IInv, TypeOK
<1>1. c \in CPUs /\ pc[c] \notin UnderWaitLock /\ UNCHANGED <<idx, wait_lock, proc>>
  BY DEF Step, UnderWaitLock, localVars
<1>2. wait_lock # NoCpu => pc'[wait_lock] = pc[wait_lock]
  BY <1>1 DEF Step, WaitLockInv
<1>3. /\ \A x \in Procs : state'[x] = state[x] /\ (chan'[x] = chan[x] \/ chan'[x] = NoProc)
      /\ \A x \in Procs : parent'[x] = parent[x] \/ (parent'[x] = NoProc /\ x = q)
  OBVIOUS
<1>4. wait_lock # NoCpu => proc[wait_lock] \in Procs /\ state[proc[wait_lock]] = "RUNNING"
  BY Held DEF WaitLockInv, CurrentInv, UnderWaitLock
<1>. HIDE DEF ForkFail, freeproc, IInv, TypeOK
<1>5. MissedInv'
  BY <1>1, <1>2, <1>3 DEF WInv, MissedInv, Missed
<1>6. ToldInv'
  BY <1>1, <1>2, <1>3, <1>4 DEF WInv, ToldInv
<1>7. ScanInv'
  BY <1>1, <1>2, <1>3, <1>4 DEF WInv, ScanInv
<1>8. IdxInv'
  BY <1>1, <1>2 DEF WInv, IdxInv
<1>. QED  BY <1>5, <1>6, <1>7, <1>8 DEF WInv

\* A step that changes no variable preserves the invariant.
LEMMA StutterWait ==
  ASSUME WInv, UNCHANGED vars
  PROVE  WInv'
<1>1. MissedInv' /\ ToldInv'
  BY DEF vars, tableVars, localVars, WInv, MissedInv, Missed, ToldInv
<1>2. ScanInv' /\ IdxInv'
  BY DEF vars, tableVars, localVars, WInv, ScanInv, IdxInv
<1>. QED  BY <1>1, <1>2 DEF WInv

\* Every step of every CPU preserves the invariant.
LEMMA NextWInv == IInv /\ WInv /\ [Next]_vars => WInv'
<1>. SUFFICES ASSUME IInv, WInv, [Next]_vars PROVE WInv'
  OBVIOUS
<1>1. CASE UNCHANGED vars
  BY <1>1, StutterWait
<1>2. CASE Next
  <2>1. PICK c \in CPUs, p \in Procs :
          Dispatch(c, p) \/ Yield(c, p) \/ UserStep(c, p) \/ KernelStep(c, p)
    BY <1>2 DEF Next
  <2>2. CASE Dispatch(c, p) \/ Yield(c, p)
    BY <2>2, BystanderWait
  <2>3. CASE UserStep(c, p)
    BY <2>3, BystanderWait, ForkFailWait DEF UserStep
  <2>4. CASE KernelStep(c, p)
    BY <2>4, BystanderWait, ForkParentWait, ExitLockWait, ReparentWait, WakeupWait,
       ExitZombieWait, WaitLockWait, WaitPassWait, WaitReapWait, WaitCopyFailWait,
       WaitCheckWait, SleepWait DEF KernelStep
  <2>. QED  BY <2>1, <2>2, <2>3, <2>4
<1>. QED  BY <1>1, <1>2

\* What the holder of wait_lock knows holds in every reachable state.
THEOREM WaitInvariant == Spec => []WInv
<1>1. Init => WInv
  BY DEF Init, WInv, MissedInv, Missed, ToldInv, ScanInv, IdxInv
<1>. QED  BY <1>1, NextWInv, Invariant, PTL DEF Spec

\* No wakeup is lost: exit() (proc.c:388-400) and wait() (proc.c:417-454) both
\* hold wait_lock, and sleep() gives it up only under p->lock.
THEOREM NoWakeupLost == Spec => []NoMissedChild
<1>1. WInv => NoMissedChild
  BY DEF WInv, MissedInv, Missed, NoMissedChild
<1>. QED  BY <1>1, WaitInvariant, PTL

\* The steps that do not set p->killed leave KInv true.
LEMMA NextKInv ==
  ASSUME "kill0" \notin Signals, IInv, KInv, [Next]_vars
  PROVE  KInv'
<1>. USE DEF KInv
<1>1. CASE UNCHANGED vars
  BY <1>1 DEF vars, tableVars
<1>2. ASSUME NEW c \in CPUs, NEW p \in Procs,
             \/ Sched(c, p) \/ Back(c, p) \/ YieldTail(c, p) \/ Forkret(c, p)
             \/ KilledExit(c, p) \/ Return(c, p) \/ ForkParent(c, p) \/ ExitLock(c, p)
             \/ Reparent(c, p) \/ WaitLock(c, p) \/ WaitPass(c, p) \/ WaitCopyFail(c, p)
             \/ WaitCheck(c, p) \/ SleepTail(c, p) \/ ExitCall(c, p) \/ WaitCall(c, p)
             \/ OtherCall(c, p)
      PROVE  KInv'
  <2>1. UNCHANGED <<state, killed, victims>>
    BY <1>2 DEF Sched, Back, YieldTail, Forkret, KilledExit, Return, ForkParent,
       ExitLock,
       Reparent, WaitLock, WaitPass, WaitCopyFail, WaitCheck, SleepTail, ExitCall, WaitCall,
       OtherCall, tableVars
  <2>. QED  BY <2>1
<1>3. ASSUME NEW c \in CPUs, NEW p \in Procs, Dispatch(c, p) \/ Yield(c, p)
      PROVE  KInv'
  BY <1>3 DEF Dispatch, Yield, IInv, TypeOK
<1>4. ASSUME NEW c \in CPUs, NEW p \in Procs, ForkRun(c, p) \/ ExitZombie(c, p) \/ Sleep(c, p)
      PROVE  KInv'
  BY <1>4 DEF ForkRun, ExitZombie, Sleep, IInv, TypeOK
<1>5. ASSUME NEW c \in CPUs, NEW p \in Procs, Wakeup(c, p)
      PROVE  KInv'
  BY <1>5 DEF Wakeup, Woken, IInv, TypeOK
<1>6. ASSUME NEW c \in CPUs, NEW p \in Procs, WaitReap(c, p)
      PROVE  KInv'
  BY <1>6 DEF WaitReap, freeproc, IInv, TypeOK
<1>7. ASSUME NEW c \in CPUs, NEW p \in Procs, Fault(c, p)
      PROVE  KInv'
  <2>1. state[p] = "RUNNING"
    BY <1>7 DEF Fault, Step, IInv, StateInv, AtSched
  <2>. QED  BY <2>1, <1>7 DEF Fault, IInv, TypeOK
<1>8. ASSUME NEW c \in CPUs, NEW p \in Procs, NEW q \in Procs,
             \/ ForkAlloc(c, p, q) \/ ForkFail(c, p, q)
             \/ Kill(c, p, q) \/ KillPidZero(c, p, q)
      PROVE  KInv'
  <2>1. CASE ForkAlloc(c, p, q)
    BY <2>1 DEF ForkAlloc, IInv, TypeOK
  <2>2. CASE Kill(c, p, q)
    BY <2>2 DEF Kill, IInv, TypeOK
  <2>3. CASE KillPidZero(c, p, q)
    BY <2>3 DEF KillPidZero
  <2>4. CASE ForkFail(c, p, q)
    BY <2>4 DEF ForkFail, freeproc, IInv, TypeOK
  <2>. QED  BY <1>8, <2>1, <2>2, <2>3, <2>4
<1>9. CASE Next
  <2>1. PICK c \in CPUs, p \in Procs :
          Dispatch(c, p) \/ Yield(c, p) \/ UserStep(c, p) \/ KernelStep(c, p)
    BY <1>9 DEF Next
  <2>2. CASE UserStep(c, p)
    BY <2>2, <1>2, <1>7, <1>8 DEF UserStep
  <2>3. CASE KernelStep(c, p)
    BY <2>3, <1>2, <1>4, <1>5, <1>6 DEF KernelStep
  <2>. QED  BY <2>1, <2>2, <2>3, <1>3
<1>. QED  BY <1>1, <1>9

\* As long as no program calls kill(0), a process is marked killed only if
\* kill() (proc.c:606) named it or it faulted: freeproc() leaves no mark behind.
THEOREM OnlyVictimsKilled ==
  ASSUME "kill0" \notin Signals
  PROVE  Spec => []KilledMeansKilled
<1>1. Init => KInv
  BY DEF Init, KInv
<1>2. KInv => KilledMeansKilled
  BY DEF KInv, KilledMeansKilled
<1>. QED  BY <1>1, <1>2, NextKInv, Invariant, PTL DEF Spec

-----------------------------------------------------------------------------
(* fork(), exit() and wait() keep a tree of processes *)

\* A slot that is free has no parent.
UnusedInv == \A p \in Procs : state[p] = "UNUSED" => parent[p] = NoProc

\* init is never killed, and never in exit().
ExitPoints == {"exitLock", "reparent", "wakeInit", "wakeParent", "exitZombie"}
InitprocInv ==
  /\ state[initproc] \notin {"UNUSED", "ZOMBIE"} /\ ~killed[initproc]
  /\ resume[initproc] # "exitLock"
  /\ \A c \in CPUs : pc[c] \in ExitPoints => proc[c] # initproc

\* p->resume is in use from the timer interrupt until the end of yield().
InYield(p) ==
  \/ \E c \in CPUs : proc[c] = p /\ pc[c] = "yieldTail"
  \/ state[p] = "RUNNABLE" /\ \E c \in CPUs : proc[c] = p /\ pc[c] = "yieldSched"
  \/ /\ state[p] = "RUNNABLE" /\ context[p] = "yieldTail"
     /\ \A c \in CPUs : proc[c] = p => pc[c] = "back"
ResumeInv == \A p \in Procs : resume[p] # "user" => InYield(p)

\* The child that p builds, before and after it has got its parent.
Orphan(p) == np[p] # NoProc /\ parent[np[p]] = NoProc
Adoptee(p) == np[p] # NoProc /\ parent[np[p]] # NoProc
ChildInv ==
  /\ \A p \in Procs : /\ resume[p] = "forkParent" => Orphan(p)
                      /\ resume[p] = "forkRun" => Adoptee(p)
  /\ \A c \in CPUs : /\ pc[c] = "forkParent" => Orphan(proc[c])
                     /\ pc[c] = "forkRun" => Adoptee(proc[c])

FInv == UnusedInv /\ InitprocInv /\ ResumeInv /\ ChildInv

\* The process at a point outside yield() has nothing in p->resume.
LEMMA NotYielding ==
  ASSUME IInv, FInv, NEW c \in CPUs, NEW p \in Procs, proc[c] = p,
         pc[c] \notin {"yieldSched", "yieldTail", "back"}
  PROVE  resume[p] = "user"
<1>1. \A d \in CPUs : proc[d] = p => d = c
  BY DEF IInv, OneCpuPerProc
<1>. QED  BY <1>1 DEF FInv, ResumeInv, InYield

\* The state of a process that runs in the kernel.
LEMMA Current ==
  ASSUME IInv, NEW c \in CPUs, NEW p \in Procs, proc[c] = p
  PROVE  /\ state[p] \in {"RUNNING", "SLEEPING", "RUNNABLE", "ZOMBIE"}
         /\ pc[c] \notin AtSched \cup {"back"} => state[p] = "RUNNING"
         /\ \A d \in CPUs : proc[d] = p => d = c
<1>1. state[p] \in {"RUNNING", "SLEEPING", "RUNNABLE", "ZOMBIE"}
      /\ (pc[c] \notin AtSched \cup {"back"} => state[p] = "RUNNING")
  BY DEF IInv, StateInv
<1>. QED  BY <1>1 DEF IInv, OneCpuPerProc

\* A step of p between points outside fork() and yield(), that frees no slot and
\* gives nobody a parent, preserves the invariant.
LEMMA PlainTree ==
  ASSUME IInv, FInv, NEW c \in CPUs, NEW p \in Procs, proc[c] = p, NEW l,
         pc \in [CPUs -> Labels], pc[c] \notin {"yieldSched", "yieldTail", "back"},
         pc' = [pc EXCEPT ![c] = l],
         l \notin {"forkParent", "forkRun"}, l \in ExitPoints => p # initproc,
         UNCHANGED <<proc, context, resume, np, parent>>,
         \A x \in Procs : state'[x] = "UNUSED" => state[x] = "UNUSED",
         \A x \in Procs : state[x] = "RUNNABLE" => state'[x] = "RUNNABLE",
         state'[initproc] \notin {"UNUSED", "ZOMBIE"}, ~killed'[initproc]
  PROVE  FInv'
<1>1. UnusedInv'
  BY DEF FInv, UnusedInv
<1>2. InitprocInv'
  BY DEF FInv, InitprocInv
<1>3. resume[p] = "user"
  BY NotYielding
<1>4. ResumeInv'
  <2>. SUFFICES ASSUME NEW x \in Procs, resume[x] # "user" PROVE InYield(x)'
    BY DEF ResumeInv
  <2>1. x # p
    BY <1>3
  <2>2. \A d \in CPUs : proc[d] = x => pc'[d] = pc[d]
    BY <2>1
  <2>. QED  BY <2>1, <2>2 DEF FInv, ResumeInv, InYield
<1>5. ChildInv'
  BY DEF FInv, ChildInv, Orphan, Adoptee
<1>. QED  BY <1>1, <1>2, <1>4, <1>5 DEF FInv

\* Most steps of a process are of that kind.
LEMMA PlainStepsTree ==
  ASSUME IInv, FInv, NEW c \in CPUs, NEW p \in Procs, NEW q \in Procs,
         \/ Forkret(c, p) \/ KilledExit(c, p) \/ Return(c, p) \/ Fault(c, p)
         \/ OtherCall(c, p) \/ ExitCall(c, p) \/ ExitLock(c, p) \/ Wakeup(c, p)
         \/ ExitZombie(c, p) \/ WaitCall(c, p) \/ WaitLock(c, p) \/ WaitPass(c, p)
         \/ WaitCopyFail(c, p) \/ WaitCheck(c, p) \/ Sleep(c, p) \/ SleepTail(c, p)
         \/ ForkFail(c, p, q) \/ Kill(c, p, q) \/ KillPidZero(c, p, q)
  PROVE  FInv'
<1>. USE DEF tableVars, localVars
<1>1. pc \in [CPUs -> Labels] /\ state \in [Procs -> States] /\ killed \in [Procs -> BOOLEAN]
      /\ parent \in [Procs -> Procs \cup {NoProc}]
  BY DEF IInv, TypeOK
<1>2. /\ proc[c] = p /\ pc[c] \notin {"yieldSched", "yieldTail", "back"}
      /\ \E l : /\ pc' = [pc EXCEPT ![c] = l] /\ l \notin {"forkParent", "forkRun"}
                /\ l \in ExitPoints => pc[c] \in ExitPoints \/ KilledExit(c, p) \/ ExitCall(c, p)
  BY DEF Forkret, KilledExit, Return, Fault, OtherCall, ExitCall, ExitLock, Wakeup, ExitZombie,
     WaitCall, WaitLock, WaitPass, WaitCopyFail, WaitCheck, Sleep, SleepTail, ForkFail, Kill,
     KillPidZero, Step, ExitPoints
<1>3. UNCHANGED <<proc, context, resume, np>>
  BY DEF Forkret, KilledExit, Return, Fault, OtherCall, ExitCall, ExitLock, Wakeup, ExitZombie,
     WaitCall, WaitLock, WaitPass, WaitCopyFail, WaitCheck, Sleep, SleepTail, ForkFail, Kill,
     KillPidZero
<1>4. parent' = parent
  <2>1. CASE ForkFail(c, p, q)
    <3>1. parent[q] = NoProc /\ parent' = [parent EXCEPT ![q] = NoProc]
      BY <2>1 DEF ForkFail, freeproc, FInv, UnusedInv
    <3>. QED  BY <1>1, <3>1
  <2>. QED  BY <2>1 DEF Forkret, KilledExit, Return, Fault, OtherCall, ExitCall, ExitLock, Wakeup,
            ExitZombie, WaitCall, WaitLock, WaitPass, WaitCopyFail, WaitCheck, Sleep, SleepTail,
            Kill, KillPidZero
<1>5. pc[c] \notin AtSched \cup {"back"} => state[p] = "RUNNING"
  BY <1>2, Current
<1>6. /\ p = initproc => pc[c] \notin ExitPoints /\ ~KilledExit(c, p) /\ ~ExitCall(c, p)
      /\ state[initproc] \notin {"UNUSED", "ZOMBIE"} /\ ~killed[initproc]
  BY <1>2 DEF FInv, InitprocInv, KilledExit, ExitCall
<1>7. /\ \A x \in Procs : state'[x] = "UNUSED" => state[x] = "UNUSED"
      /\ \A x \in Procs : state[x] = "RUNNABLE" => state'[x] = "RUNNABLE"
      /\ state'[initproc] \notin {"UNUSED", "ZOMBIE"}
  <2>1. CASE Wakeup(c, p)
    BY <2>1, <1>1, <1>6 DEF Wakeup, Woken
  <2>2. CASE ExitZombie(c, p)
    <3>1. pc[c] = "exitZombie" /\ state' = [state EXCEPT ![p] = "ZOMBIE"]
      BY <2>2 DEF ExitZombie, Step
    <3>2. state[p] = "RUNNING" /\ p # initproc
      BY <3>1, <1>5, <1>6 DEF AtSched, ExitPoints
    <3>. QED  BY <3>1, <3>2, <1>1, <1>6
  <2>3. CASE Sleep(c, p)
    <3>1. pc[c] = "waitSleep" /\ state' = [state EXCEPT ![p] = "SLEEPING"]
      BY <2>3 DEF Sleep, Step
    <3>2. state[p] = "RUNNING"
      BY <3>1, <1>5 DEF AtSched
    <3>. QED  BY <3>1, <3>2, <1>1, <1>6
  <2>4. CASE ForkFail(c, p, q)
    BY <2>4, <1>1, <1>6 DEF ForkFail, freeproc
  <2>5. CASE Kill(c, p, q)
    BY <2>5, <1>1, <1>6 DEF Kill
  <2>6. CASE state' = state
    BY <2>6, <1>6
  <2>. QED  BY <2>1, <2>2, <2>3, <2>4, <2>5, <2>6 DEF Forkret, KilledExit, Return, Fault,
            OtherCall, ExitCall, ExitLock, WaitCall, WaitLock, WaitPass, WaitCopyFail, WaitCheck,
            SleepTail, KillPidZero
<1>8. ~killed'[initproc]
  <2>1. CASE ForkFail(c, p, q)
    BY <2>1, <1>1, <1>6 DEF ForkFail, freeproc
  <2>2. CASE Kill(c, p, q)
    BY <2>2, <1>1, <1>6 DEF Kill
  <2>3. CASE KillPidZero(c, p, q)
    BY <2>3, <1>1, <1>6 DEF KillPidZero
  <2>4. CASE Fault(c, p)
    BY <2>4, <1>1, <1>6 DEF Fault
  <2>5. CASE killed' = killed
    BY <2>5, <1>6
  <2>. QED  BY <2>1, <2>2, <2>3, <2>4, <2>5 DEF Forkret, KilledExit, Return, OtherCall, ExitCall,
            ExitLock, Wakeup, ExitZombie, WaitCall, WaitLock, WaitPass, WaitCopyFail, WaitCheck,
            Sleep, SleepTail
<1>9. PICK l : /\ pc' = [pc EXCEPT ![c] = l] /\ l \notin {"forkParent", "forkRun"}
               /\ l \in ExitPoints => pc[c] \in ExitPoints \/ KilledExit(c, p) \/ ExitCall(c, p)
  BY <1>2
<1>10. l \in ExitPoints => p # initproc
  BY <1>6, <1>9
<1>. QED  BY <1>1, <1>2, <1>3, <1>4, <1>7, <1>8, <1>9, <1>10, PlainTree

\* scheduler() resumes a process where swtch() left it.
LEMMA DispatchTree ==
  ASSUME IInv, FInv, NEW c \in CPUs, NEW p \in Procs, Dispatch(c, p)
  PROVE  FInv'
<1>1. /\ pc[c] = "scan" /\ proc[c] = NoProc /\ context[p] \in Resumed
      /\ pc' = [pc EXCEPT ![c] = context[p]] /\ pc \in [CPUs -> Labels]
      /\ proc' = [proc EXCEPT ![c] = p] /\ proc \in [CPUs -> Procs \cup {NoProc}]
      /\ state[p] = "RUNNABLE" /\ lock[p] = NoCpu
      /\ state' = [state EXCEPT ![p] = "RUNNING"] /\ state \in [Procs -> States]
      /\ UNCHANGED <<killed, parent, context, resume, np>>
  BY DEF Dispatch, localVars, IInv, TypeOK, CurrentInv
<1>2. \A d \in CPUs : proc[d] # p
  <2>. SUFFICES ASSUME NEW d \in CPUs, proc[d] = p PROVE FALSE
    OBVIOUS
  <2>1. pc[d] \in AtSched \cup {"back"}
    BY <1>1 DEF IInv, StateInv
  <2>2. lock[p] = d
    BY <2>1 DEF IInv, LockInv, HoldsLock
  <2>. QED  BY <1>1, <2>2
<1>3. context[p] \notin ExitPoints \cup {"forkParent", "forkRun"}
  BY <1>1 DEF Resumed, ExitPoints
<1>4. UnusedInv' /\ InitprocInv'
  BY <1>1, <1>3 DEF FInv, UnusedInv, InitprocInv
<1>5. ResumeInv'
  <2>. SUFFICES ASSUME NEW x \in Procs, resume[x] # "user" PROVE InYield(x)'
    BY <1>1 DEF ResumeInv
  <2>1. CASE x = p
    <3>1. context[p] = "yieldTail"
      BY <2>1, <1>1, <1>2 DEF FInv, ResumeInv, InYield
    <3>. QED  BY <3>1, <2>1, <1>1 DEF InYield
  <2>2. CASE x # p
    <3>1. \A d \in CPUs : proc'[d] = x <=> proc[d] = x /\ d # c
      BY <2>2, <1>1
    <3>2. \A d \in CPUs : d # c => pc'[d] = pc[d]
      BY <1>1
    <3>3. proc[c] # x /\ state'[x] = state[x]
      BY <2>2, <1>1
    <3>. QED  BY <3>1, <3>2, <3>3, <1>1 DEF FInv, ResumeInv, InYield
  <2>. QED  BY <2>1, <2>2
<1>6. ChildInv'
  BY <1>1, <1>3 DEF FInv, ChildInv, Orphan, Adoptee
<1>. QED  BY <1>4, <1>5, <1>6 DEF FInv

\* swtch() leaves the point in p->context.
LEMMA SchedTree ==
  ASSUME IInv, FInv, NEW c \in CPUs, NEW p \in Procs, Sched(c, p)
  PROVE  FInv'
<1>1. /\ proc[c] = p /\ pc[c] \in AtSched /\ context \in [Procs -> Resumed]
      /\ context' = [context EXCEPT ![p] = AfterSched(pc[c])]
      /\ pc' = [pc EXCEPT ![c] = "back"] /\ pc \in [CPUs -> Labels]
      /\ UNCHANGED <<state, killed, parent, proc, resume, np>>
  BY DEF Sched, tableVars, localVars, IInv, TypeOK
<1>2. \A d \in CPUs : proc[d] = p => d = c
  BY <1>1, Current
<1>3. UnusedInv' /\ InitprocInv'
  BY <1>1 DEF FInv, UnusedInv, InitprocInv, ExitPoints
<1>4. ResumeInv'
  <2>. SUFFICES ASSUME NEW x \in Procs, resume[x] # "user" PROVE InYield(x)'
    BY <1>1 DEF ResumeInv
  <2>1. CASE x = p
    <3>1. pc[c] = "yieldSched" /\ state[p] = "RUNNABLE"
      <4>1. pc[c] # "back" /\ pc[c] # "yieldTail"
        BY <1>1 DEF AtSched
      <4>. QED  BY <4>1, <2>1, <1>1, <1>2 DEF FInv, ResumeInv, InYield
    <3>2. context'[p] = "yieldTail"
      BY <3>1, <1>1 DEF AfterSched
    <3>. QED  BY <3>1, <3>2, <2>1, <1>1, <1>2 DEF InYield
  <2>2. CASE x # p
    BY <2>2, <1>1 DEF FInv, ResumeInv, InYield
  <2>. QED  BY <2>1, <2>2
<1>5. ChildInv'
  BY <1>1 DEF FInv, ChildInv, Orphan, Adoptee
<1>. QED  BY <1>3, <1>4, <1>5 DEF FInv

\* The scheduler lets go of a process.
LEMMA BackTree ==
  ASSUME IInv, FInv, NEW c \in CPUs, NEW p \in Procs, Back(c, p)
  PROVE  FInv'
<1>1. /\ proc[c] = p /\ pc[c] = "back"
      /\ proc' = [proc EXCEPT ![c] = NoProc] /\ proc \in [CPUs -> Procs \cup {NoProc}]
      /\ pc' = [pc EXCEPT ![c] = "scan"] /\ pc \in [CPUs -> Labels]
      /\ UNCHANGED <<state, killed, parent, context, resume, np>>
  BY DEF Back, tableVars, localVars, IInv, TypeOK
<1>2. UnusedInv' /\ InitprocInv'
  BY <1>1 DEF FInv, UnusedInv, InitprocInv, ExitPoints
<1>3. ResumeInv'
  <2>. SUFFICES ASSUME NEW x \in Procs, resume[x] # "user" PROVE InYield(x)'
    BY <1>1 DEF ResumeInv
  <2>1. \A d \in CPUs : proc'[d] = x <=> proc[d] = x /\ d # c
    BY <1>1
  <2>2. \A d \in CPUs : d # c => pc'[d] = pc[d]
    BY <1>1
  <2>3. InYield(x)
    BY DEF FInv, ResumeInv
  <2>. QED  BY <2>1, <2>2, <2>3, <1>1 DEF InYield
<1>4. ChildInv'
  BY <1>1 DEF FInv, ChildInv, Orphan, Adoptee
<1>. QED  BY <1>2, <1>3, <1>4 DEF FInv

\* The timer interrupts a process: its point moves to p->resume.
LEMMA YieldTree ==
  ASSUME IInv, FInv, NEW c \in CPUs, NEW p \in Procs, Yield(c, p)
  PROVE  FInv'
<1>1. /\ proc[c] = p /\ pc[c] \in Preemptible
      /\ resume' = [resume EXCEPT ![p] = pc[c]] /\ resume \in [Procs -> Preemptible]
      /\ pc' = [pc EXCEPT ![c] = "yieldSched"] /\ pc \in [CPUs -> Labels]
      /\ state' = [state EXCEPT ![p] = "RUNNABLE"] /\ state \in [Procs -> States]
      /\ UNCHANGED <<killed, parent, context, proc, np>>
  BY DEF Yield, IInv, TypeOK
<1>2. UnusedInv' /\ InitprocInv'
  BY <1>1 DEF FInv, UnusedInv, InitprocInv, ExitPoints
<1>3. ResumeInv'
  <2>. SUFFICES ASSUME NEW x \in Procs, resume'[x] # "user" PROVE InYield(x)'
    BY DEF ResumeInv
  <2>1. CASE x = p
    BY <2>1, <1>1 DEF InYield
  <2>2. CASE x # p
    <3>1. InYield(x) /\ state'[x] = state[x]
      BY <2>2, <1>1 DEF FInv, ResumeInv
    <3>2. \A d \in CPUs : proc[d] = x => pc'[d] = pc[d]
      BY <2>2, <1>1
    <3>. QED  BY <3>1, <3>2, <1>1 DEF InYield
  <2>. QED  BY <2>1, <2>2
<1>4. ChildInv'
  BY <1>1 DEF FInv, ChildInv, Orphan, Adoptee
<1>. QED  BY <1>2, <1>3, <1>4 DEF FInv

\* yield() is over: p goes on where it was.
LEMMA YieldTailTree ==
  ASSUME IInv, FInv, NEW c \in CPUs, NEW p \in Procs, YieldTail(c, p)
  PROVE  FInv'
<1>1. /\ proc[c] = p /\ pc[c] = "yieldTail"
      /\ resume' = [resume EXCEPT ![p] = "user"] /\ resume \in [Procs -> Preemptible]
      /\ pc' = [pc EXCEPT ![c] = resume[p]] /\ pc \in [CPUs -> Labels]
      /\ UNCHANGED <<state, killed, parent, context, proc, np>>
  BY DEF YieldTail, Step, tableVars, IInv, TypeOK
<1>2. resume[p] \in ExitPoints => resume[p] = "exitLock"
  BY <1>1 DEF Preemptible, ExitPoints
<1>3. UnusedInv' /\ InitprocInv'
  BY <1>1, <1>2 DEF FInv, UnusedInv, InitprocInv
<1>4. ResumeInv'
  <2>. SUFFICES ASSUME NEW x \in Procs, resume'[x] # "user" PROVE InYield(x)'
    BY DEF ResumeInv
  <2>1. x # p /\ InYield(x)
    BY <1>1 DEF FInv, ResumeInv
  <2>2. \A d \in CPUs : proc[d] = x => pc'[d] = pc[d]
    BY <2>1, <1>1
  <2>. QED  BY <2>1, <2>2, <1>1 DEF InYield
<1>5. ChildInv'
  BY <1>1 DEF FInv, ChildInv, Orphan, Adoptee
<1>. QED  BY <1>3, <1>4, <1>5 DEF FInv

\* Who is in the middle of fork() on another CPU, or in p->resume, is not p.
LEMMA OtherForks ==
  ASSUME IInv, FInv, NEW c \in CPUs, NEW p \in Procs, proc[c] = p,
         pc[c] \notin {"yieldSched", "yieldTail", "back"}
  PROVE  /\ \A x \in Procs : resume[x] \in {"forkParent", "forkRun"} => x # p
         /\ \A d \in CPUs : d # c => proc[d] # p
<1>1. resume[p] = "user"
  BY NotYielding
<1>. QED  BY <1>1, Current

\* fork() takes a slot, which has no parent.
LEMMA ForkAllocTree ==
  ASSUME IInv, FInv, NEW c \in CPUs, NEW p \in Procs, NEW q \in Procs, ForkAlloc(c, p, q)
  PROVE  FInv'
<1>1. /\ proc[c] = p /\ pc[c] = "user" /\ state[q] = "UNUSED"
      /\ pc' = [pc EXCEPT ![c] = "forkParent"] /\ pc \in [CPUs -> Labels]
      /\ state' = [state EXCEPT ![q] = "USED"] /\ state \in [Procs -> States]
      /\ context' = [context EXCEPT ![q] = "forkret"] /\ context \in [Procs -> Resumed]
      /\ np' = [np EXCEPT ![p] = q] /\ np \in [Procs -> Procs \cup {NoProc}]
      /\ UNCHANGED <<killed, parent, proc, resume>>
  BY DEF ForkAlloc, Step, IInv, TypeOK
<1>2. UnusedInv' /\ InitprocInv'
  BY <1>1 DEF FInv, UnusedInv, InitprocInv, ExitPoints
<1>3. ResumeInv'
  <2>. SUFFICES ASSUME NEW x \in Procs, resume[x] # "user" PROVE InYield(x)'
    BY <1>1 DEF ResumeInv
  <2>1. InYield(x) /\ x # p
    BY <1>1, NotYielding DEF FInv, ResumeInv
  <2>2. x # q
    <3>1. \A d \in CPUs : proc[d] # q
      BY <1>1, Current
    <3>. QED  BY <2>1, <3>1, <1>1 DEF InYield
  <2>3. \A d \in CPUs : proc[d] = x => pc'[d] = pc[d]
    BY <2>1, <1>1
  <2>4. state'[x] = state[x] /\ context'[x] = context[x]
    BY <2>2, <1>1
  <2>. QED  BY <2>1, <2>3, <2>4, <1>1 DEF InYield
<1>4. ChildInv'
  <2>1. parent[q] = NoProc /\ q # NoProc
    BY <1>1 DEF FInv, UnusedInv
  <2>2. /\ \A x \in Procs : resume[x] \in {"forkParent", "forkRun"} => x # p
        /\ \A d \in CPUs : d # c => proc[d] # p
    BY <1>1, OtherForks
  <2>3. \A d \in CPUs : pc[d] \in {"forkParent", "forkRun"} => proc[d] \in Procs
    BY DEF IInv, TypeOK, CurrentInv
  <2>4. \A x \in Procs : x # p => np'[x] = np[x]
    BY <1>1
  <2>5. \A x \in Procs : /\ resume'[x] = "forkParent" => Orphan(x)'
                         /\ resume'[x] = "forkRun" => Adoptee(x)'
    BY <2>2, <2>4, <1>1 DEF FInv, ChildInv, Orphan, Adoptee
  <2>6. \A d \in CPUs : /\ pc'[d] = "forkParent" => Orphan(proc[d])'
                        /\ pc'[d] = "forkRun" => Adoptee(proc[d])'
    BY <2>1, <2>2, <2>3, <2>4, <1>1 DEF FInv, ChildInv, Orphan, Adoptee
  <2>. QED  BY <2>5, <2>6, <1>1 DEF ChildInv
<1>. QED  BY <1>2, <1>3, <1>4 DEF FInv

\* A step of p in the kernel that changes neither p->resume nor a context, and
\* makes no RUNNABLE process anything else, keeps ResumeInv.
LEMMA ResumeKept ==
  ASSUME IInv, FInv, NEW c \in CPUs, NEW p \in Procs, proc[c] = p, NEW l,
         pc \in [CPUs -> Labels], pc[c] \notin {"yieldSched", "yieldTail", "back"},
         pc' = [pc EXCEPT ![c] = l], UNCHANGED <<proc, context, resume>>,
         \A x \in Procs : state[x] = "RUNNABLE" => state'[x] = "RUNNABLE"
  PROVE  ResumeInv'
<1>. SUFFICES ASSUME NEW x \in Procs, resume[x] # "user" PROVE InYield(x)'
  BY DEF ResumeInv
<1>1. InYield(x) /\ x # p
  BY NotYielding DEF FInv, ResumeInv
<1>2. \A d \in CPUs : proc[d] = x => pc'[d] = pc[d]
  BY <1>1
<1>. QED  BY <1>1, <1>2 DEF InYield

\* The child gets its parent.
LEMMA ForkParentTree ==
  ASSUME IInv, FInv, NEW c \in CPUs, NEW p \in Procs, ForkParent(c, p)
  PROVE  FInv'
<1>. DEFINE q == np[p]
<1>1. /\ proc[c] = p /\ pc[c] = "forkParent"
      /\ pc' = [pc EXCEPT ![c] = "forkRun"] /\ pc \in [CPUs -> Labels]
      /\ parent' = [parent EXCEPT ![q] = p] /\ parent \in [Procs -> Procs \cup {NoProc}]
      /\ np \in [Procs -> Procs \cup {NoProc}]
      /\ UNCHANGED <<state, killed, context, proc, resume, np>>
  BY DEF ForkParent, Step, localVars, IInv, TypeOK
<1>2. q \in Procs /\ state[q] = "USED" /\ \A x \in Procs : np[x] = q => x = p
  BY <1>1 DEF FInv, ChildInv, Orphan, IInv, ForkInv
<1>3. UnusedInv' /\ InitprocInv'
  BY <1>1, <1>2 DEF FInv, UnusedInv, InitprocInv, ExitPoints
<1>4. ResumeInv'
  BY <1>1, ResumeKept
<1>5. ChildInv'
  <2>2. /\ \A x \in Procs : resume[x] \in {"forkParent", "forkRun"} => x # p
        /\ \A d \in CPUs : d # c => proc[d] # p
    BY <1>1, OtherForks
  <2>3. \A d \in CPUs : pc[d] \in {"forkParent", "forkRun"} => proc[d] \in Procs
    BY DEF IInv, TypeOK, CurrentInv
  <2>4. \A x \in Procs : x # p => np[x] # q
    BY <1>2
  <2>5. \A x \in Procs : /\ resume'[x] = "forkParent" => Orphan(x)'
                         /\ resume'[x] = "forkRun" => Adoptee(x)'
    BY <2>2, <2>4, <1>1 DEF FInv, ChildInv, Orphan, Adoptee
  <2>6. \A d \in CPUs : /\ pc'[d] = "forkParent" => Orphan(proc[d])'
                        /\ pc'[d] = "forkRun" => Adoptee(proc[d])'
    BY <2>2, <2>3, <2>4, <1>1, <1>2 DEF FInv, ChildInv, Orphan, Adoptee
  <2>. QED  BY <2>5, <2>6, <1>1 DEF ChildInv
<1>. QED  BY <1>3, <1>4, <1>5 DEF FInv

\* The child is complete.
LEMMA ForkRunTree ==
  ASSUME IInv, FInv, NEW c \in CPUs, NEW p \in Procs, ForkRun(c, p)
  PROVE  FInv'
<1>1. /\ proc[c] = p /\ pc[c] = "forkRun"
      /\ pc' = [pc EXCEPT ![c] = "ret"] /\ pc \in [CPUs -> Labels]
      /\ state' = [state EXCEPT ![np[p]] = "RUNNABLE"] /\ state \in [Procs -> States]
      /\ np' = [np EXCEPT ![p] = NoProc] /\ np \in [Procs -> Procs \cup {NoProc}]
      /\ UNCHANGED <<killed, parent, context, proc, resume>>
  BY DEF ForkRun, Step, IInv, TypeOK
<1>2. UnusedInv' /\ InitprocInv'
  BY <1>1 DEF FInv, UnusedInv, InitprocInv, ExitPoints
<1>3. ResumeInv'
  BY <1>1, ResumeKept
<1>4. ChildInv'
  <2>2. /\ \A x \in Procs : resume[x] \in {"forkParent", "forkRun"} => x # p
        /\ \A d \in CPUs : d # c => proc[d] # p
    BY <1>1, OtherForks
  <2>3. \A d \in CPUs : pc[d] \in {"forkParent", "forkRun"} => proc[d] \in Procs
    BY DEF IInv, TypeOK, CurrentInv
  <2>4. \A x \in Procs : x # p => np'[x] = np[x]
    BY <1>1
  <2>5. \A x \in Procs : /\ resume'[x] = "forkParent" => Orphan(x)'
                         /\ resume'[x] = "forkRun" => Adoptee(x)'
    BY <2>2, <2>4, <1>1 DEF FInv, ChildInv, Orphan, Adoptee
  <2>6. \A d \in CPUs : /\ pc'[d] = "forkParent" => Orphan(proc[d])'
                        /\ pc'[d] = "forkRun" => Adoptee(proc[d])'
    BY <2>2, <2>3, <2>4, <1>1 DEF FInv, ChildInv, Orphan, Adoptee
  <2>. QED  BY <2>5, <2>6, <1>1 DEF ChildInv
<1>. QED  BY <1>2, <1>3, <1>4 DEF FInv

\* init adopts: who has a parent keeps one.
LEMMA ReparentTree ==
  ASSUME IInv, FInv, NEW c \in CPUs, NEW p \in Procs, Reparent(c, p)
  PROVE  FInv'
<1>1. /\ proc[c] = p /\ pc[c] = "reparent" /\ pc \in [CPUs -> Labels]
      /\ \E l \in {"wakeParent", "wakeInit"} : pc' = [pc EXCEPT ![c] = l]
      /\ \A x \in Procs : parent'[x] = NoProc <=> parent[x] = NoProc
      /\ UNCHANGED <<state, killed, context, proc, resume, np>>
  <2>1. proc[c] = p /\ pc[c] = "reparent" /\ pc \in [CPUs -> Labels]
        /\ \E l \in {"wakeParent", "wakeInit"} : pc' = [pc EXCEPT ![c] = l]
    BY DEF Reparent, Step, IInv, TypeOK
  <2>2. \A x \in Procs : parent'[x] = IF parent[x] = p THEN initproc ELSE parent[x]
    BY DEF Reparent, Adopted
  <2>3. UNCHANGED <<state, killed, context, proc, resume, np>>
    BY DEF Reparent, localVars
  <2>4. p # NoProc /\ initproc # NoProc
    OBVIOUS
  <2>5. \A x \in Procs : parent'[x] = NoProc <=> parent[x] = NoProc
    BY <2>2, <2>4
  <2>. QED  BY <2>1, <2>3, <2>5
<1>2. PICK l \in {"wakeParent", "wakeInit"} : pc' = [pc EXCEPT ![c] = l]
  BY <1>1
<1>3. UnusedInv' /\ InitprocInv'
  BY <1>1, <1>2 DEF FInv, UnusedInv, InitprocInv, ExitPoints
<1>4. ResumeInv'
  BY <1>1, <1>2, ResumeKept
<1>5. ChildInv'
  <2>1. \A x \in Procs : np[x] # NoProc => np[x] \in Procs
    BY DEF IInv, TypeOK
  <2>2. \A x \in Procs : (Orphan(x) => Orphan(x)') /\ (Adoptee(x) => Adoptee(x)')
    BY <2>1, <1>1 DEF Orphan, Adoptee
  <2>3. \A d \in CPUs : pc[d] \in {"forkParent", "forkRun"} => proc[d] \in Procs
    BY DEF IInv, TypeOK, CurrentInv
  <2>4. \A d \in CPUs : pc'[d] \in {"forkParent", "forkRun"} => pc'[d] = pc[d]
    BY <1>1, <1>2
  <2>. QED  BY <2>2, <2>3, <2>4, <1>1 DEF FInv, ChildInv, Orphan, Adoptee
<1>. QED  BY <1>3, <1>4, <1>5 DEF FInv

\* A slot that wait() frees loses its parent.
LEMMA WaitReapTree ==
  ASSUME IInv, FInv, NEW c \in CPUs, NEW p \in Procs, WaitReap(c, p)
  PROVE  FInv'
<1>. DEFINE i == idx[p]
<1>1. /\ proc[c] = p /\ pc[c] = "waitScan" /\ state[i] = "ZOMBIE" /\ i \in Procs
      /\ pc' = [pc EXCEPT ![c] = "ret"] /\ pc \in [CPUs -> Labels]
      /\ state' = [state EXCEPT ![i] = "UNUSED"] /\ state \in [Procs -> States]
      /\ killed' = [killed EXCEPT ![i] = FALSE] /\ killed \in [Procs -> BOOLEAN]
      /\ parent' = [parent EXCEPT ![i] = NoProc] /\ parent \in [Procs -> Procs \cup {NoProc}]
      /\ UNCHANGED <<context, proc, resume, np>>
  BY DEF WaitReap, freeproc, Step, IInv, TypeOK
<1>2. UnusedInv' /\ InitprocInv'
  BY <1>1 DEF FInv, UnusedInv, InitprocInv, ExitPoints
<1>3. ResumeInv'
  BY <1>1, ResumeKept
<1>4. ChildInv'
  <2>1. \A x \in Procs : np[x] # NoProc => np[x] \in Procs /\ np[x] # i
    BY <1>1 DEF IInv, TypeOK, ForkInv
  <2>2. \A x \in Procs : (Orphan(x) => Orphan(x)') /\ (Adoptee(x) => Adoptee(x)')
    BY <2>1, <1>1 DEF Orphan, Adoptee
  <2>3. \A d \in CPUs : pc[d] \in {"forkParent", "forkRun"} => proc[d] \in Procs
    BY DEF IInv, TypeOK, CurrentInv
  <2>4. \A d \in CPUs : pc'[d] \in {"forkParent", "forkRun"} => pc'[d] = pc[d]
    BY <1>1
  <2>. QED  BY <2>2, <2>3, <2>4, <1>1 DEF FInv, ChildInv, Orphan, Adoptee
<1>. QED  BY <1>2, <1>3, <1>4 DEF FInv

\* A step that changes no variable preserves the invariant.
LEMMA StutterTree ==
  ASSUME FInv, UNCHANGED vars
  PROVE  FInv'
<1>. USE DEF vars, tableVars, localVars, FInv
<1>1. UnusedInv' /\ InitprocInv'
  BY DEF UnusedInv, InitprocInv
<1>2. ResumeInv' /\ ChildInv'
  BY DEF ResumeInv, InYield, ChildInv, Orphan, Adoptee
<1>. QED  BY <1>1, <1>2

\* Every step of every CPU preserves the invariant.
LEMMA NextFInv == IInv /\ FInv /\ [Next]_vars => FInv'
<1>. SUFFICES ASSUME IInv, FInv, [Next]_vars PROVE FInv'
  OBVIOUS
<1>1. CASE UNCHANGED vars
  BY <1>1, StutterTree
<1>2. CASE Next
  <2>1. PICK c \in CPUs, p \in Procs :
          Dispatch(c, p) \/ Yield(c, p) \/ UserStep(c, p) \/ KernelStep(c, p)
    BY <1>2 DEF Next
  <2>2. CASE Dispatch(c, p) \/ Yield(c, p)
    BY <2>2, DispatchTree, YieldTree
  <2>3. CASE UserStep(c, p)
    BY <2>3, PlainStepsTree, ForkAllocTree DEF UserStep
  <2>4. CASE KernelStep(c, p)
    BY <2>4, PlainStepsTree, SchedTree, BackTree, YieldTailTree, ForkParentTree, ForkRunTree,
       ReparentTree, WaitReapTree DEF KernelStep
  <2>. QED  BY <2>1, <2>2, <2>3, <2>4
<1>. QED  BY <1>1, <1>2

\* init is never killed or freed, and fork() gives a child its parent once.
LEMMA TreeInvariant == Spec => []FInv
<1>1. Init => FInv
  <2>. SUFFICES ASSUME Init PROVE FInv
    OBVIOUS
  <2>1. UnusedInv /\ InitprocInv
    BY DEF Init, UnusedInv, InitprocInv, ExitPoints
  <2>2. ResumeInv /\ ChildInv
    BY DEF Init, ResumeInv, ChildInv
  <2>. QED  BY <2>1, <2>2 DEF FInv
<1>. QED  BY <1>1, NextFInv, Invariant, PTL DEF Spec

\* Only a step of exit() makes a process Exiting, and only its last one ends that.
LEMMA ExitingKept ==
  ASSUME NEW c \in CPUs, \A d \in CPUs \ {c} : pc'[d] = pc[d] /\ proc'[d] = proc[d],
         \/ /\ proc'[c] = proc[c]
            /\ pc[c] \in {"wakeInit", "wakeParent", "exitZombie"}
                 <=> pc'[c] \in {"wakeInit", "wakeParent", "exitZombie"}
         \/ /\ pc[c] \notin {"wakeInit", "wakeParent", "exitZombie"}
            /\ pc'[c] \notin {"wakeInit", "wakeParent", "exitZombie"}
  PROVE  \A x \in Procs : Exiting(x)' <=> Exiting(x)
BY DEF Exiting

\* A step that moves nobody in or out of exit(), changes no parent, and changes the
\* state of those that live only, is none of the tree's.
LEMMA TreeStutter ==
  ASSUME \A x \in Procs : Exiting(x)' <=> Exiting(x), parent' = parent,
         \A x \in Procs : \/ state'[x] = state[x]
                          \/ {state[x], state'[x]} \subseteq {"SLEEPING", "RUNNABLE", "RUNNING"}
                          \/ /\ {state[x], state'[x]} \subseteq {"UNUSED", "USED"}
                             /\ parent[x] = NoProc
                          \/ /\ state[x] = "USED" /\ state'[x] = "RUNNABLE"
                             /\ parent[x] # NoProc
  PROVE  UNCHANGED Tree!vars
<1>1. \A x \in Procs : Life(x)' = Life(x)
  <2>. SUFFICES ASSUME NEW x \in Procs PROVE Life(x)' = Life(x)
    OBVIOUS
  <2>1. (Exiting(x)' <=> Exiting(x)) /\ parent'[x] = parent[x]
    OBVIOUS
  <2>. QED  BY <2>1 DEF Life
<1>. QED  BY <1>1 DEF Tree!vars

\* The steps of one process are no steps of the tree, except three.
LEMMA QuietSteps ==
  ASSUME IInv, FInv, NEW c \in CPUs, NEW p \in Procs, NEW q \in Procs,
         \/ Dispatch(c, p) \/ Yield(c, p) \/ Sched(c, p) \/ Back(c, p) \/ YieldTail(c, p)
         \/ Forkret(c, p) \/ KilledExit(c, p) \/ Return(c, p) \/ Fault(c, p)
         \/ OtherCall(c, p) \/ ExitCall(c, p) \/ ExitLock(c, p) \/ Wakeup(c, p)
         \/ WaitCall(c, p) \/ WaitLock(c, p) \/ WaitPass(c, p) \/ ForkRun(c, p)
         \/ WaitCopyFail(c, p) \/ WaitCheck(c, p) \/ Sleep(c, p) \/ SleepTail(c, p)
         \/ ForkAlloc(c, p, q) \/ ForkFail(c, p, q) \/ Kill(c, p, q) \/ KillPidZero(c, p, q)
  PROVE  UNCHANGED Tree!vars
<1>. USE DEF tableVars, localVars
<1>1. /\ pc \in [CPUs -> Labels] /\ state \in [Procs -> States]
      /\ proc \in [CPUs -> Procs \cup {NoProc}] /\ parent \in [Procs -> Procs \cup {NoProc}]
      /\ context[p] \in Resumed /\ resume[p] \in Preemptible
  BY DEF IInv, TypeOK
<1>2. \A d \in CPUs \ {c} : pc'[d] = pc[d] /\ proc'[d] = proc[d]
  BY <1>1 DEF Dispatch, Yield, Sched, Back, YieldTail, Forkret, KilledExit, Return, Fault,
     OtherCall, ExitCall, ExitLock, Wakeup, WaitCall, WaitLock, WaitPass, ForkRun, WaitCopyFail,
     WaitCheck, Sleep, SleepTail, ForkAlloc, ForkFail, Kill, KillPidZero, Step
<1>3. \/ /\ proc'[c] = proc[c]
         /\ pc[c] \in {"wakeInit", "wakeParent", "exitZombie"}
              <=> pc'[c] \in {"wakeInit", "wakeParent", "exitZombie"}
      \/ /\ pc[c] \notin {"wakeInit", "wakeParent", "exitZombie"}
         /\ pc'[c] \notin {"wakeInit", "wakeParent", "exitZombie"}
  <2>1. CASE Dispatch(c, p) \/ Yield(c, p) \/ Sched(c, p) \/ Back(c, p) \/ YieldTail(c, p)
    BY <2>1, <1>1 DEF Dispatch, Yield, Sched, Back, YieldTail, Step, Resumed, Preemptible, AtSched
  <2>2. CASE ~(Dispatch(c, p) \/ Yield(c, p) \/ Sched(c, p) \/ Back(c, p) \/ YieldTail(c, p))
    BY <2>2, <1>1 DEF Forkret, KilledExit, Return, Fault,
     OtherCall, ExitCall, ExitLock, Wakeup, WaitCall, WaitLock, WaitPass, ForkRun, WaitCopyFail,
     WaitCheck, Sleep, SleepTail, ForkAlloc, ForkFail, Kill, KillPidZero, Step
  <2>. QED  BY <2>1, <2>2
<1>4. \A x \in Procs : Exiting(x)' <=> Exiting(x)
  BY <1>2, <1>3, ExitingKept
<1>5. parent' = parent
  <2>1. CASE ForkFail(c, p, q)
    <3>1. parent[q] = NoProc /\ parent' = [parent EXCEPT ![q] = NoProc]
      BY <2>1 DEF ForkFail, freeproc, FInv, UnusedInv
    <3>. QED  BY <1>1, <3>1
  <2>. QED  BY <2>1 DEF Dispatch, Yield, Sched, Back, YieldTail, Forkret, KilledExit, Return,
            Fault, OtherCall, ExitCall, ExitLock, Wakeup, WaitCall, WaitLock, WaitPass, ForkRun,
            WaitCopyFail, WaitCheck, Sleep, SleepTail, ForkAlloc, Kill, KillPidZero
<1>6. \A x \in Procs : \/ state'[x] = state[x]
                       \/ {state[x], state'[x]} \subseteq {"SLEEPING", "RUNNABLE", "RUNNING"}
                       \/ /\ {state[x], state'[x]} \subseteq {"UNUSED", "USED"}
                          /\ parent[x] = NoProc
                       \/ /\ state[x] = "USED" /\ state'[x] = "RUNNABLE"
                          /\ parent[x] # NoProc
  <2>1. CASE Dispatch(c, p)
    BY <2>1, <1>1 DEF Dispatch
  <2>2. CASE Yield(c, p) \/ Sleep(c, p)
    <3>1. state[p] = "RUNNING"
      BY <2>2, Current DEF Yield, Sleep, Step, Preemptible, AtSched
    <3>. QED  BY <2>2, <3>1, <1>1 DEF Yield, Sleep
  <2>3. CASE Wakeup(c, p)
    BY <2>3, <1>1 DEF Wakeup, Woken
  <2>4. CASE ForkRun(c, p)
    <3>1. /\ np[p] # NoProc /\ parent[np[p]] # NoProc
          /\ state' = [state EXCEPT ![np[p]] = "RUNNABLE"]
      BY <2>4 DEF ForkRun, Step, FInv, ChildInv, Adoptee
    <3>2. state[np[p]] = "USED"
      BY <3>1 DEF IInv, ForkInv
    <3>. QED  BY <3>1, <3>2, <1>1
  <2>5. CASE ForkAlloc(c, p, q) \/ ForkFail(c, p, q)
    <3>1. state[q] = "UNUSED" /\ parent[q] = NoProc
      BY <2>5 DEF ForkAlloc, ForkFail, FInv, UnusedInv
    <3>. QED  BY <2>5, <3>1, <1>1 DEF ForkAlloc, ForkFail, freeproc
  <2>6. CASE Kill(c, p, q)
    BY <2>6, <1>1 DEF Kill
  <2>7. CASE state' = state
    BY <2>7
  <2>. QED  BY <2>1, <2>2, <2>3, <2>4, <2>5, <2>6, <2>7 DEF Sched, Back, YieldTail, Forkret,
            KilledExit, Return, Fault, OtherCall, ExitCall, ExitLock, WaitCall, WaitLock,
            WaitPass, WaitCopyFail, WaitCheck, SleepTail, KillPidZero
<1>. QED  BY <1>4, <1>5, <1>6, TreeStutter

\* The last step of exit(): the dead stay dead.
LEMMA ExitZombieQuiet ==
  ASSUME IInv, FInv, NEW c \in CPUs, NEW p \in Procs, ExitZombie(c, p)
  PROVE  UNCHANGED Tree!vars
<1>1. /\ proc[c] = p /\ pc[c] = "exitZombie" /\ parent' = parent /\ proc' = proc
      /\ pc' = [pc EXCEPT ![c] = "exitSched"] /\ pc \in [CPUs -> Labels]
      /\ state' = [state EXCEPT ![p] = "ZOMBIE"] /\ state \in [Procs -> States]
  BY DEF ExitZombie, Step, localVars, IInv, TypeOK
<1>2. state[p] = "RUNNING"
  BY <1>1, Current DEF AtSched
<1>3. Life(p) = "dead" /\ Life(p)' = "dead"
  BY <1>1, <1>2 DEF Life, Exiting
<1>4. \A x \in Procs \ {p} : (Exiting(x)' <=> Exiting(x)) /\ state'[x] = state[x]
  BY <1>1 DEF Exiting
<1>5. \A x \in Procs : Life(x)' = Life(x)
  BY <1>1, <1>3, <1>4 DEF Life
<1>. QED  BY <1>1, <1>5 DEF Tree!vars

\* Who is at work in the kernel, and not in exit(), lives.
LEMMA AliveInKernel ==
  ASSUME IInv, NEW c \in CPUs, NEW p \in Procs, proc[c] = p,
         pc[c] \notin AtSched \cup {"back", "wakeInit", "wakeParent", "exitZombie"}
  PROVE  Life(p) = "alive"
<1>1. state[p] = "RUNNING" /\ ~Exiting(p)
  BY Current DEF Exiting
<1>. QED  BY <1>1 DEF Life

\* fork() in the tree: the child gets its parent.
LEMMA ForkInTree ==
  ASSUME IInv, FInv, NEW c \in CPUs, NEW p \in Procs, ForkParent(c, p)
  PROVE  \E q \in Procs : Tree!Fork(p, q)
<1>0. PICK q \in Procs : q = np[p]
  BY DEF ForkParent, Step, FInv, ChildInv, Orphan, IInv, TypeOK
<1>1. /\ proc[c] = p /\ pc[c] = "forkParent" /\ proc' = proc /\ state' = state
      /\ pc' = [pc EXCEPT ![c] = "forkRun"] /\ pc \in [CPUs -> Labels]
      /\ parent' = [parent EXCEPT ![q] = p] /\ parent \in [Procs -> Procs \cup {NoProc}]
  BY <1>0 DEF ForkParent, Step, localVars, IInv, TypeOK
<1>2. state[q] = "USED" /\ parent[q] = NoProc
  BY <1>0, <1>1 DEF FInv, ChildInv, Orphan, IInv, ForkInv
<1>3. \A x \in Procs : Exiting(x)' <=> Exiting(x)
  BY <1>1, ExitingKept
<1>4. Life(p) = "alive"
  BY <1>1, AliveInKernel DEF AtSched
<1>5. ~Exiting(q)
  BY <1>2, Current DEF Exiting
<1>6. Life(q) = "free" /\ Life(q)' = "alive"
  BY <1>1, <1>2, <1>3, <1>5 DEF Life
<1>7. \A x \in Procs \ {q} : Life(x)' = Life(x)
  BY <1>1, <1>3 DEF Life
<1>8. Tree!Fork(p, q)
  BY <1>1, <1>4, <1>6, <1>7 DEF Tree!Fork
<1>. QED  BY <1>8

\* exit() in the tree: init adopts.
LEMMA ExitInTree ==
  ASSUME IInv, FInv, NEW c \in CPUs, NEW p \in Procs, Reparent(c, p)
  PROVE  Tree!Exit(p)
<1>1. /\ proc[c] = p /\ pc[c] = "reparent" /\ proc' = proc /\ state' = state
      /\ parent' = Adopted(p) /\ parent \in [Procs -> Procs \cup {NoProc}]
      /\ pc \in [CPUs -> Labels]
  BY DEF Reparent, Step, localVars, IInv, TypeOK
<1>2. PICK l \in {"wakeParent", "wakeInit"} : pc' = [pc EXCEPT ![c] = l]
  BY DEF Reparent, Step
<1>3. p # initproc /\ state[p] = "RUNNING"
  BY <1>1, Current DEF FInv, InitprocInv, ExitPoints, AtSched
<1>4. Life(p) = "alive"
  BY <1>1, AliveInKernel DEF AtSched
<1>5. Life(p)' = "dead"
  BY <1>1, <1>2, <1>3 DEF Life, Exiting
<1>6. \A x \in Procs \ {p} : Life(x)' = Life(x)
  <2>1. \A x \in Procs \ {p} : Exiting(x)' <=> Exiting(x)
    BY <1>1, <1>2 DEF Exiting
  <2>2. \A x \in Procs : parent'[x] = NoProc <=> parent[x] = NoProc
    BY <1>1 DEF Adopted
  <2>. QED  BY <2>1, <2>2, <1>1 DEF Life
<1>. QED  BY <1>1, <1>3, <1>4, <1>5, <1>6 DEF Tree!Exit, Adopted

\* wait() in the tree: a dead child is collected.
LEMMA ReapInTree ==
  ASSUME IInv, FInv, NEW c \in CPUs, NEW p \in Procs, WaitReap(c, p)
  PROVE  \E i \in Procs : Tree!Reap(p, i)
<1>0. PICK i \in Procs : i = idx[p]
  BY DEF IInv, TypeOK
<1>1. /\ proc[c] = p /\ pc[c] = "waitScan" /\ state[i] = "ZOMBIE"
      /\ parent[i] = p /\ proc' = proc
      /\ pc' = [pc EXCEPT ![c] = "ret"] /\ pc \in [CPUs -> Labels]
      /\ state' = [state EXCEPT ![i] = "UNUSED"] /\ state \in [Procs -> States]
      /\ parent' = [parent EXCEPT ![i] = NoProc] /\ parent \in [Procs -> Procs \cup {NoProc}]
  BY <1>0 DEF WaitReap, freeproc, Step, IInv, TypeOK
<1>2. Life(p) = "alive"
  BY <1>1, AliveInKernel DEF AtSched
<1>3. \A x \in Procs : Exiting(x)' <=> Exiting(x)
  BY <1>1, ExitingKept
<1>4. Life(i) = "dead" /\ Life(i)' = "free"
  BY <1>1 DEF Life
<1>5. \A x \in Procs \ {i} : Life(x)' = Life(x)
  BY <1>1, <1>3 DEF Life
<1>6. Tree!Reap(p, i)
  BY <1>1, <1>2, <1>4, <1>5 DEF Tree!Reap
<1>. QED  BY <1>6

\* Every step is one of the tree, or none.
LEMMA StepInTree == IInv /\ FInv /\ [Next]_vars => [Tree!Next]_(Tree!vars)
<1>. SUFFICES ASSUME IInv, FInv, [Next]_vars PROVE Tree!Next \/ UNCHANGED Tree!vars
  OBVIOUS
<1>1. CASE UNCHANGED vars
  <2>1. UNCHANGED <<state, parent, proc, pc>>
    BY <1>1 DEF vars, tableVars
  <2>2. \A x \in Procs : Life(x)' = Life(x)
    BY <2>1 DEF Life, Exiting
  <2>. QED  BY <2>1, <2>2 DEF Tree!vars
<1>2. CASE Next
  <2>1. PICK c \in CPUs, p \in Procs :
          Dispatch(c, p) \/ Yield(c, p) \/ UserStep(c, p) \/ KernelStep(c, p)
    BY <1>2 DEF Next
  <2>2. CASE Dispatch(c, p) \/ Yield(c, p) \/ UserStep(c, p)
    BY <2>2, QuietSteps DEF UserStep
  <2>3. CASE ForkParent(c, p)
    BY <2>3, ForkInTree DEF Tree!Next
  <2>4. CASE Reparent(c, p)
    BY <2>4, ExitInTree DEF Tree!Next
  <2>5. CASE WaitReap(c, p)
    BY <2>5, ReapInTree DEF Tree!Next
  <2>6. CASE KernelStep(c, p) /\ ~(ForkParent(c, p) \/ Reparent(c, p) \/ WaitReap(c, p))
    BY <2>6, QuietSteps, ExitZombieQuiet DEF KernelStep
  <2>. QED  BY <2>1, <2>2, <2>3, <2>4, <2>5, <2>6
<1>. QED  BY <1>1, <1>2

\* fork(), exit() and wait() (proc.c:301, proc.c:368, proc.c:412) keep the tree of
\* ProcTree, for a table of any size and any set of harts: a child gets one parent, dies
\* once, is init's when its parent is dead, and is collected once by its parent.
THEOREM ProcessesFormATree == Spec => ImplementsTree
<1>1. Init => Tree!Init
  <2>. SUFFICES ASSUME Init PROVE Tree!Init
    OBVIOUS
  <2>1. \A x \in Procs : ~Exiting(x)
    BY DEF Init, Exiting
  <2>2. \A x \in Procs : Life(x) = IF x = initproc THEN "alive" ELSE "free"
    BY <2>1 DEF Init, Life
  <2>. QED  BY <2>2 DEF Init, Tree!Init
<1>. QED  BY <1>1, StepInTree, Invariant, TreeInvariant, PTL DEF Spec, ImplementsTree, Tree!Spec

-----------------------------------------------------------------------------
(* The console *)

Index == 0..(Wrap - 1)
Cells == 0..(INPUT_BUF_SIZE - 1)
TxIndex == 0..(TxWrap - 1)

TypeInv ==
  /\ buf \in [Cells -> Chars] /\ r \in Index /\ w \in Index /\ e \in Index
  /\ rd \in [Readers -> [pc : {"user", "read", "asleep"}, target : Nat, n : Nat]]
  /\ txr \in TxIndex /\ txw \in TxIndex
  /\ wr \in [Writers -> {"user", "putc", "asleep", "start"}]
  /\ thr \in Nat
  /\ h \in {"idle", "input", "echo", "put", "start"}
  /\ irq \in BOOLEAN /\ out \in BOOLEAN

\* Who holds the two locks.
TtyLockInv ==
  /\ conslock = Handler <=> h \in {"echo", "put"}
  /\ txlock = Handler <=> h = "start"
  /\ \A p \in Writers : txlock = p <=> wr[p] = "start"
  /\ txlock \in Writers \cup {Handler, Free}

\* r, w and e follow one another around the ring, no more than its size apart.
RingInv ==
  /\ Minus(w, r) + Minus(e, w) = Minus(e, r)
  /\ Minus(e, r) <= INPUT_BUF_SIZE
  /\ Minus(e, r) = INPUT_BUF_SIZE => r # w

\* A line that is not complete has no newline in it.
LineInv == \A k \in 0..(Minus(e, w) - 1) : buf[Cell(Plus(w, k))] # Newline

\* Readers sleep while no line is complete, writers while the buffer is full.
SleepInv ==
  /\ \A p \in Readers : rd[p].pc = "asleep" => r = w
  /\ \A p \in Writers : wr[p] = "asleep" => TxFull

\* While there is something to send, somebody will.
BusyInv == txr # txw /\ txlock = Free => thr > 0 \/ irq \/ h # "idle"

\* Who has seen the UART idle and not yet written to it counts with the bytes in it.
FifoInv ==
  /\ thr <= 2
  /\ out => thr <= 1
  /\ h = "put" => thr <= 1
  /\ out /\ h = "put" => thr = 0

CInv == TypeInv /\ TtyLockInv /\ RingInv /\ LineInv /\ SleepInv /\ BusyInv /\ FifoInv

-----------------------------------------------------------------------------
(* The ring *)

\* The sizes, one by one.
LEMMA Sizes ==
  /\ INPUT_BUF_SIZE \in Nat \ {0} /\ UART_TX_BUF_SIZE \in Nat \ {0}
  /\ Wrap \in Nat \ {0} /\ TxWrap \in Nat \ {0}
  /\ Wrap > INPUT_BUF_SIZE /\ TxWrap > UART_TX_BUF_SIZE
  BY ConsoleAssumption

\* What Append and Tail are as functions.
LEMMA AppendIs ==
  ASSUME NEW S, NEW s \in Seq(S), NEW c \in S, NEW m \in Nat, Len(s) = m
  PROVE  Append(s, c) = [k \in 1..(m + 1) |-> IF k <= m THEN s[k] ELSE c]
<1>1. Append(s, c) \in Seq(S) /\ Len(Append(s, c)) = m + 1
  BY AppendProperties
<1>2. Append(s, c) \in [1..(m + 1) -> S]
  BY <1>1, LenProperties
<1>3. \A k \in 1..(m + 1) : Append(s, c)[k] = IF k <= m THEN s[k] ELSE c
  BY AppendProperties
<1>. QED  BY <1>2, <1>3

\* And Tail.
LEMMA TailIs ==
  ASSUME NEW S, NEW s \in Seq(S), NEW m \in Nat \ {0}, Len(s) = m
  PROVE  s # <<>> /\ Tail(s) = [k \in 1..(m - 1) |-> s[k + 1]]
<1>1. s # <<>>
  BY EmptySeq
<1>2. Tail(s) \in Seq(S) /\ Len(Tail(s)) = m - 1
      /\ \A k \in 1..(m - 1) : Tail(s)[k] = s[k + 1]
  BY <1>1, HeadTailProperties
<1>3. Tail(s) \in [1..(m - 1) -> S]
  BY <1>2, LenProperties
<1>. QED  BY <1>1, <1>2, <1>3

\* The sum of indices without remainders.
LEMMA PlusIs ==
  ASSUME NEW a \in Index, NEW n \in 0..Wrap
  PROVE  /\ Plus(a, n) = IF a + n < Wrap THEN a + n ELSE a + n - Wrap
         /\ Plus(a, n) \in Index
<1>1. (a + n) % Wrap = IF a + n < Wrap THEN a + n ELSE a + n - Wrap
  BY Sizes, SMT DEF Index
<1>. QED  BY <1>1, Sizes DEF Plus, Index

\* The difference of indices without remainders.
LEMMA MinusIs ==
  ASSUME NEW a \in Index, NEW b \in Index
  PROVE  /\ Minus(a, b) = IF b <= a THEN a - b ELSE a + Wrap - b
         /\ Minus(a, b) \in Index
<1>1. (a + Wrap - b) % Wrap = IF b <= a THEN a - b ELSE a + Wrap - b
  BY Sizes, SMT DEF Index
<1>. QED  BY <1>1, Sizes DEF Minus, Index

\* Steps of one, and the way from one index to another.
LEMMA StepIs ==
  ASSUME NEW a \in Index, NEW b \in Index
  PROVE  /\ Plus(a, Minus(b, a)) = b /\ Minus(a, a) = 0
         /\ Minus(b, a) \in 0..(Wrap - 1)
         /\ Minus(b, a) + 1 < Wrap => Minus(Plus(b, 1), a) = Minus(b, a) + 1
         /\ a # b => /\ Minus(b, a) >= 1
                     /\ Minus(b, Plus(a, 1)) = Minus(b, a) - 1
                     /\ Minus(b, 1) \in Index /\ Minus(Minus(b, 1), a) = Minus(b, a) - 1
<1>1. Wrap \in Nat /\ Wrap > 1 /\ a \in Nat /\ b \in Nat /\ a < Wrap /\ b < Wrap /\ 1 \in Index /\ 1 \in 0..Wrap
  BY Sizes DEF Index
<1>2. /\ Minus(b, a) = IF a <= b THEN b - a ELSE b + Wrap - a
      /\ Minus(b, a) \in 0..(Wrap - 1) /\ Minus(b, a) \in 0..Wrap
  BY <1>1, MinusIs DEF Index
<1>3. Minus(a, a) = 0
  BY <1>1, MinusIs
<1>4. Plus(a, Minus(b, a)) = b
  <2>1. Plus(a, Minus(b, a)) =
          IF a + Minus(b, a) < Wrap THEN a + Minus(b, a) ELSE a + Minus(b, a) - Wrap
    BY <1>2, PlusIs
  <2>. QED  BY <1>1, <1>2, <2>1
<1>5. /\ Plus(b, 1) = IF b + 1 < Wrap THEN b + 1 ELSE b + 1 - Wrap
      /\ Plus(a, 1) = IF a + 1 < Wrap THEN a + 1 ELSE a + 1 - Wrap
      /\ Plus(b, 1) \in Index /\ Plus(a, 1) \in Index
  BY <1>1, PlusIs
<1>6. /\ Minus(Plus(b, 1), a) = IF a <= Plus(b, 1) THEN Plus(b, 1) - a ELSE Plus(b, 1) + Wrap - a
      /\ Minus(b, Plus(a, 1)) = IF Plus(a, 1) <= b THEN b - Plus(a, 1) ELSE b + Wrap - Plus(a, 1)
  BY <1>5, MinusIs
<1>7. Minus(b, 1) = (IF 1 <= b THEN b - 1 ELSE b + Wrap - 1) /\ Minus(b, 1) \in Index
  BY <1>1, MinusIs
<1>8. Minus(Minus(b, 1), a) =
        IF a <= Minus(b, 1) THEN Minus(b, 1) - a ELSE Minus(b, 1) + Wrap - a
  BY <1>7, MinusIs
<1>9. Minus(b, a) + 1 < Wrap => Minus(Plus(b, 1), a) = Minus(b, a) + 1
  BY <1>1, <1>2, <1>5, <1>6
<1>10. a # b => Minus(b, a) >= 1 /\ Minus(b, Plus(a, 1)) = Minus(b, a) - 1
  BY <1>1, <1>2, <1>5, <1>6
<1>11. a # b => Minus(Minus(b, 1), a) = Minus(b, a) - 1
  BY <1>1, <1>2, <1>7, <1>8
<1>. QED  BY <1>2, <1>3, <1>4, <1>7, <1>9, <1>10, <1>11

\* An index names a cell.
LEMMA CellIs == ASSUME NEW a \in Index PROVE Cell(a) \in Cells
<1>1. a \in Nat /\ INPUT_BUF_SIZE \in Nat \ {0}
  BY Sizes DEF Index
<1>. QED  BY <1>1, DivMod DEF Cell, Cells

\* Indices that are less than a ring apart name different cells.
LEMMA CellsDiffer ==
  ASSUME NEW a \in Index, NEW m \in 0..(INPUT_BUF_SIZE - 1), NEW j \in 0..(m - 1)
  PROVE  Cell(Plus(a, j)) # Cell(Plus(a, m))
<1> DEFINE x == a + j
           y == a + m
<1>1. x \in Nat /\ y \in Nat /\ x <= y /\ y < x + INPUT_BUF_SIZE /\ x # y
  BY Sizes DEF Index
<1>2. Plus(a, j) = x % Wrap /\ Plus(a, m) = y % Wrap
  BY DEF Plus
<1> HIDE DEF x, y
<1>3. INPUT_BUF_SIZE \in Nat \ {0} /\ Wrap \in Nat \ {0} /\ Wrap % INPUT_BUF_SIZE = 0
  BY Sizes, ConsoleAssumption
<1>4. (x % Wrap) % INPUT_BUF_SIZE = x % INPUT_BUF_SIZE
  BY <1>1, <1>3, ModMod, Zenon
<1>5. (y % Wrap) % INPUT_BUF_SIZE = y % INPUT_BUF_SIZE
  BY <1>1, <1>3, ModMod, Zenon
<1>6. x % INPUT_BUF_SIZE # y % INPUT_BUF_SIZE
  BY <1>1, <1>3, ModInjective, Zenon
<1>. QED  BY <1>2, <1>4, <1>5, <1>6, Zenon DEF Cell

\* What ring f holds from index a up to index b.
Ring(f, a, b) == [k \in 1..Minus(b, a) |-> f[Cell(Plus(a, k - 1))]]

\* It is a sequence of characters.
LEMMA RingSeq ==
  ASSUME NEW f \in [Cells -> Chars], NEW a \in Index, NEW b \in Index
  PROVE  /\ Ring(f, a, b) \in Seq(Chars) /\ Len(Ring(f, a, b)) = Minus(b, a)
         /\ Ring(f, a, b) \in [1..Minus(b, a) -> Chars]
<1>1. Minus(b, a) \in Index /\ Minus(b, a) \in Nat
  BY MinusIs, Sizes DEF Index
<1>2. ASSUME NEW k \in 1..Minus(b, a) PROVE f[Cell(Plus(a, k - 1))] \in Chars
  <2>1. k - 1 \in 0..Wrap
    BY <1>1, Sizes DEF Index
  <2>. QED  BY <2>1, PlusIs, CellIs
<1>3. Ring(f, a, b) \in [1..Minus(b, a) -> Chars]
  BY <1>2 DEF Ring
<1> DEFINE m == Minus(b, a)
           s == Ring(f, a, b)
<1>4. m \in Nat /\ s \in [1..m -> Chars]
  BY <1>1, <1>3
<1> HIDE DEF m, s
<1>5. s \in Seq(Chars) /\ Len(s) = m
  BY <1>4
<1>. QED  BY <1>3, <1>5 DEF m, s

\* Nothing lies between an index and itself.
LEMMA RingEmpty ==
  ASSUME NEW f, NEW a \in Index
  PROVE  Ring(f, a, a) = <<>>
<1>1. Minus(a, a) = 0
  BY MinusIs DEF Index
<1>. QED  BY <1>1 DEF Ring

\* A character is stored behind the others.
LEMMA RingAppend ==
  ASSUME NEW f \in [Cells -> Chars], NEW a \in Index, NEW b \in Index, NEW c \in Chars,
         Minus(b, a) < INPUT_BUF_SIZE
  PROVE  Ring([f EXCEPT ![Cell(b)] = c], a, Plus(b, 1)) = Append(Ring(f, a, b), c)
<1> DEFINE g == [f EXCEPT ![Cell(b)] = c]
           m == Minus(b, a)
           s == Ring(f, a, b)
<1>1. m \in Nat /\ m < INPUT_BUF_SIZE /\ Minus(Plus(b, 1), a) = m + 1 /\ Plus(a, m) = b
  BY StepIs, Sizes
<1>2. s \in Seq(Chars) /\ Len(s) = m
  BY RingSeq
<1>3. ASSUME NEW k \in 1..m PROVE g[Cell(Plus(a, k - 1))] = s[k]
  <2>1. Cell(Plus(a, k - 1)) # Cell(b)
    <3>1. m \in 0..(INPUT_BUF_SIZE - 1) /\ k - 1 \in 0..(m - 1)
      BY <1>1, Sizes
    <3>. QED  BY <1>1, <3>1, CellsDiffer
  <2>2. Cell(Plus(a, k - 1)) \in Cells
    <3>1. k - 1 \in 0..Wrap
      BY <1>1, Sizes
    <3>. QED  BY <3>1, PlusIs, CellIs
  <2>. QED  BY <2>1, <2>2 DEF Ring
<1>4. g[Cell(Plus(a, (m + 1) - 1))] = c
  BY <1>1, CellIs
<1>5. Ring(g, a, Plus(b, 1)) = [k \in 1..(m + 1) |-> g[Cell(Plus(a, k - 1))]]
  BY <1>1 DEF Ring
<1> HIDE DEF m, s, g
<1>6. Append(s, c) = [k \in 1..(m + 1) |-> IF k <= m THEN s[k] ELSE c]
  BY <1>1, <1>2, AppendIs
<1>7. \A k \in 1..(m + 1) : g[Cell(Plus(a, k - 1))] = IF k <= m THEN s[k] ELSE c
  <2>1. ASSUME NEW k \in 1..(m + 1), k <= m PROVE g[Cell(Plus(a, k - 1))] = s[k]
    <3>1. k \in 1..m
      BY <1>1, <2>1
    <3>. QED  BY <1>3, <3>1
  <2>2. ASSUME NEW k \in 1..(m + 1), ~(k <= m) PROVE g[Cell(Plus(a, k - 1))] = c
    <3>1. k = m + 1
      BY <1>1, <2>2
    <3>. QED  BY <1>4, <3>1
  <2>. QED  BY <2>1, <2>2
<1>8. Ring(g, a, Plus(b, 1)) = Append(s, c)
  BY <1>5, <1>6, <1>7
<1>. QED  BY <1>8 DEF s, g

\* It is stored where nothing lies.
LEMMA RingKeep ==
  \A f, g \in [Cells -> Chars] : \A a, b, d \in Index :
    /\ \A x \in Cells : x # Cell(d) => g[x] = f[x]
    /\ Minus(b, a) <= Minus(d, a) /\ Minus(d, a) < INPUT_BUF_SIZE
    => Ring(g, a, b) = Ring(f, a, b)
<1> SUFFICES ASSUME NEW f \in [Cells -> Chars], NEW g \in [Cells -> Chars],
                    NEW a \in Index, NEW b \in Index, NEW d \in Index,
                    \A x \in Cells : x # Cell(d) => g[x] = f[x],
                    Minus(b, a) <= Minus(d, a), Minus(d, a) < INPUT_BUF_SIZE
             PROVE  Ring(g, a, b) = Ring(f, a, b)
  OBVIOUS
<1> DEFINE m == Minus(d, a)
<1>1. m \in Nat /\ m < INPUT_BUF_SIZE /\ Plus(a, m) = d /\ Minus(b, a) \in Nat /\ Minus(b, a) <= m
  BY StepIs, Sizes
<1>2. ASSUME NEW k \in 1..Minus(b, a)
      PROVE  g[Cell(Plus(a, k - 1))] = f[Cell(Plus(a, k - 1))]
  <2>1. Cell(Plus(a, k - 1)) # Cell(d)
    <3>1. m \in 0..(INPUT_BUF_SIZE - 1) /\ k - 1 \in 0..(m - 1)
      BY <1>1, Sizes
    <3>. QED  BY <1>1, <3>1, CellsDiffer
  <2>2. Cell(Plus(a, k - 1)) \in Cells
    <3>1. k - 1 \in 0..Wrap
      BY <1>1, Sizes
    <3>. QED  BY <3>1, PlusIs, CellIs
  <2>. QED  BY <2>1, <2>2
<1>. QED  BY <1>2 DEF Ring

\* Two stretches that meet.
LEMMA RingConcat ==
  \A f \in [Cells -> Chars] : \A a, b, d \in Index :
    Minus(b, a) + Minus(d, b) = Minus(d, a) => Ring(f, a, d) = Ring(f, a, b) \o Ring(f, b, d)
<1> SUFFICES ASSUME NEW f \in [Cells -> Chars], NEW a \in Index, NEW b \in Index, NEW d \in Index,
                    Minus(b, a) + Minus(d, b) = Minus(d, a)
             PROVE  Ring(f, a, d) = Ring(f, a, b) \o Ring(f, b, d)
  OBVIOUS
<1> DEFINE m == Minus(b, a)
           n == Minus(d, b)
           s == Ring(f, a, b)
           t == Ring(f, b, d)
<1>1. m \in Nat /\ n \in Nat /\ Minus(d, a) = m + n /\ m + n < Wrap
  BY StepIs, Sizes
<1>2. s \in Seq(Chars) /\ Len(s) = m /\ t \in Seq(Chars) /\ Len(t) = n
  BY RingSeq
<1>3. ASSUME NEW k \in 1..(m + n), ~(k <= m) PROVE f[Cell(Plus(a, k - 1))] = t[k - m]
  <2>1. k - m \in 1..n
    BY <1>1, <1>3
  <2>2. Plus(a, k - 1) = Plus(b, (k - m) - 1)
    <3>1. k - 1 \in 0..Wrap /\ (k - m) - 1 \in 0..Wrap
      BY <1>1, <1>3, Sizes
    <3>2. m = IF a <= b THEN b - a ELSE b + Wrap - a
      BY MinusIs
    <3> HIDE DEF m
    <3>3. Plus(a, k - 1) = IF a + (k - 1) < Wrap THEN a + (k - 1) ELSE a + (k - 1) - Wrap
      BY <3>1, PlusIs
    <3>4. Plus(b, (k - m) - 1) =
            IF b + ((k - m) - 1) < Wrap THEN b + ((k - m) - 1) ELSE b + ((k - m) - 1) - Wrap
      BY <3>1, PlusIs
    <3>. QED  BY <1>1, <1>3, <3>2, <3>3, <3>4, Sizes DEF Index
  <2>. QED  BY <2>1, <2>2 DEF Ring
<1>4. ASSUME NEW k \in 1..(m + n), k <= m PROVE f[Cell(Plus(a, k - 1))] = s[k]
  <2>1. k \in 1..m
    BY <1>1, <1>4
  <2>. QED  BY <2>1 DEF Ring
<1>5. Ring(f, a, d) = [k \in 1..(m + n) |-> f[Cell(Plus(a, k - 1))]]
  BY <1>1 DEF Ring
<1> HIDE DEF m, n, s, t
<1>6. s \o t = [k \in 1..(m + n) |-> IF k <= m THEN s[k] ELSE t[k - m]]
  <2>1. /\ s \o t \in Seq(Chars) /\ Len(s \o t) = m + n
        /\ \A k \in 1..(m + n) : (s \o t)[k] = IF k <= m THEN s[k] ELSE t[k - m]
    BY <1>1, <1>2, ConcatProperties
  <2>2. s \o t \in [1..(m + n) -> Chars]
    BY <2>1, LenProperties
  <2>. QED  BY <2>1, <2>2
<1>7. Ring(f, a, d) = s \o t
  BY <1>3, <1>4, <1>5, <1>6
<1>. QED  BY <1>7 DEF s, t

\* The first character is taken.
LEMMA RingTail ==
  ASSUME NEW f \in [Cells -> Chars], NEW a \in Index, NEW b \in Index, a # b
  PROVE  /\ Ring(f, a, b) # <<>> /\ Ring(f, Plus(a, 1), b) = Tail(Ring(f, a, b))
         /\ Minus(b, Plus(a, 1)) = Minus(b, a) - 1
<1> DEFINE m == Minus(b, a)
           s == Ring(f, a, b)
<1>1. m \in Nat \ {0} /\ m < Wrap /\ Minus(b, Plus(a, 1)) = m - 1
  BY StepIs, Sizes
<1>2. s \in Seq(Chars) /\ Len(s) = m
  BY RingSeq
<1>3. ASSUME NEW k \in 1..(m - 1) PROVE f[Cell(Plus(Plus(a, 1), k - 1))] = s[k + 1]
  <2>1. k + 1 \in 1..m /\ k - 1 \in 0..Wrap /\ k \in 0..Wrap /\ 1 \in 0..Wrap
    BY <1>1, Sizes
  <2>2. Plus(Plus(a, 1), k - 1) = Plus(a, (k + 1) - 1)
    <3>1. (k + 1) - 1 = k /\ k \in Nat /\ k < Wrap /\ a \in Nat /\ a < Wrap
      BY <1>1, Sizes DEF Index
    <3>2. Plus(a, 1) = (IF a + 1 < Wrap THEN a + 1 ELSE a + 1 - Wrap) /\ Plus(a, 1) \in Index
      BY <2>1, PlusIs
    <3>3. Plus(a, k) = IF a + k < Wrap THEN a + k ELSE a + k - Wrap
      BY <2>1, PlusIs
    <3>4. Plus(Plus(a, 1), k - 1) =
            IF Plus(a, 1) + (k - 1) < Wrap THEN Plus(a, 1) + (k - 1) ELSE Plus(a, 1) + (k - 1) - Wrap
      BY <2>1, <3>2, PlusIs
    <3>. QED  BY <3>1, <3>2, <3>3, <3>4, Sizes
  <2>. QED  BY <2>1, <2>2 DEF Ring
<1>4. Ring(f, Plus(a, 1), b) = [k \in 1..(m - 1) |-> f[Cell(Plus(Plus(a, 1), k - 1))]]
  BY <1>1 DEF Ring
<1>5. s # <<>> /\ Tail(s) = [k \in 1..(m - 1) |-> s[k + 1]]
  <2> HIDE DEF m, s
  <2>. QED  BY <1>1, <1>2, TailIs
<1>. QED  BY <1>1, <1>3, <1>4, <1>5

\* The last character is erased.
LEMMA RingFront ==
  ASSUME NEW f \in [Cells -> Chars], NEW a \in Index, NEW b \in Index, a # b
  PROVE  /\ Ring(f, a, b) # <<>> /\ Minus(b, 1) \in Index
         /\ Ring(f, a, Minus(b, 1)) = SubSeq(Ring(f, a, b), 1, Len(Ring(f, a, b)) - 1)
         /\ Minus(Minus(b, 1), a) = Minus(b, a) - 1
<1> DEFINE m == Minus(b, a)
           s == Ring(f, a, b)
<1>1. m \in Nat \ {0} /\ Minus(b, 1) \in Index /\ Minus(Minus(b, 1), a) = m - 1
  BY StepIs, Sizes
<1>2. s \in Seq(Chars) /\ Len(s) = m
  BY RingSeq
<1>3. ASSUME NEW k \in 1..(m - 1) PROVE f[Cell(Plus(a, k - 1))] = s[k]
  <2>1. k \in 1..m
    BY <1>1
  <2>. QED  BY <2>1 DEF Ring
<1>4. Ring(f, a, Minus(b, 1)) = [k \in 1..(m - 1) |-> f[Cell(Plus(a, k - 1))]]
  BY <1>1 DEF Ring
<1>5. s # <<>> /\ SubSeq(s, 1, m - 1) = [k \in 1..(m - 1) |-> s[k]]
  <2> HIDE DEF m, s
  <2>. QED  BY <1>1, <1>2
<1>. QED  BY <1>1, <1>2, <1>3, <1>4, <1>5

-----------------------------------------------------------------------------
(* The invariant *)

\* An index is moved by one, an address of the transmit buffer too.
LEMMA MovesInRange ==
  ASSUME TypeInv
  PROVE  /\ Plus(r, 1) \in Index /\ Plus(e, 1) \in Index /\ Minus(e, 1) \in Index
         /\ (txw + 1) % TxWrap \in TxIndex /\ (txr + 1) % TxWrap \in TxIndex
<1>1. 1 \in 0..Wrap /\ 1 \in Index
  BY Sizes DEF Index
<1>2. txw + 1 \in Nat /\ txr + 1 \in Nat /\ TxWrap \in Nat \ {0}
  BY Sizes DEF TypeInv, TxIndex
<1>3. (txw + 1) % TxWrap \in TxIndex
  BY <1>2, DivMod DEF TxIndex
<1>4. (txr + 1) % TxWrap \in TxIndex
  BY <1>2, DivMod DEF TxIndex
<1>. QED  BY <1>1, <1>3, <1>4, PlusIs, MinusIs DEF TypeInv

\* A line has no newline, so that control-H takes its last character and control-U all.
LEMMA KillIs ==
  ASSUME TypeInv, LineInv, KeyKill
  PROVE  e' = w
<1> DEFINE m == Minus(e, w)
           Stops(j) == j = m \/ buf[Cell(Minus(e, j + 1))] = Newline
<1>1. m \in 0..(Wrap - 1) /\ Wrap \in Nat /\ e \in Index /\ w \in Index
  BY StepIs, Sizes DEF TypeInv
<1>2. ASSUME NEW j \in 0..(m - 1) PROVE ~Stops(j)
  <2>1. j + 1 \in Index /\ m - j - 1 \in 0..(m - 1) /\ m - j - 1 \in 0..Wrap /\ j # m
    BY <1>1 DEF Index
  <2>2. m = IF w <= e THEN e - w ELSE e + Wrap - w
    BY <1>1, MinusIs
  <2>3. Minus(e, j + 1) = IF j + 1 <= e THEN e - (j + 1) ELSE e + Wrap - (j + 1)
    BY <1>1, <2>1, MinusIs
  <2> HIDE DEF m
  <2>4. Plus(w, m - j - 1) = IF w + (m - j - 1) < Wrap THEN w + (m - j - 1) ELSE w + (m - j - 1) - Wrap
    BY <1>1, <2>1, PlusIs
  <2>5. Minus(e, j + 1) = Plus(w, m - j - 1)
    BY <1>1, <2>1, <2>2, <2>3, <2>4 DEF Index
  <2>6. buf[Cell(Plus(w, m - j - 1))] # Newline
    BY <2>1 DEF LineInv, m
  <2>. QED  BY <2>1, <2>5, <2>6
<1>3. (CHOOSE k \in 0..m : Stops(k) /\ \A j \in 0..(k - 1) : ~Stops(j)) = m
  <2>1. m \in 0..m /\ Stops(m) /\ \A j \in 0..(m - 1) : ~Stops(j)
    BY <1>1, <1>2
  <2>2. ASSUME NEW k \in 0..m, Stops(k) PROVE k = m
    <3>1. k \notin 0..(m - 1)
      BY <1>2, <2>2
    <3>. QED  BY <1>1, <3>1
  <2> HIDE DEF m, Stops
  <2>. QED  BY <2>1, <2>2
<1>4. e' = Minus(e, m)
  BY <1>3 DEF KeyKill
<1>5. Minus(e, m) = w
  <2>1. m = IF w <= e THEN e - w ELSE e + Wrap - w
    BY <1>1, MinusIs
  <2>2. m \in Index
    BY <1>1 DEF Index
  <2> HIDE DEF m
  <2>3. Minus(e, m) = IF m <= e THEN e - m ELSE e + Wrap - m
    BY <1>1, <2>2, MinusIs
  <2>. QED  BY <1>1, <2>1, <2>3 DEF Index
<1>. QED  BY <1>4, <1>5

\* A read() begins.
LEMMA ReadCallCInv ==
  ASSUME CInv, NEW p \in Readers, ReadCall(p)
  PROVE  CInv'
<1>1. TypeInv'
  BY ConsoleAssumption, MovesInRange DEF CInv, TypeInv, ReadCall, input, output
<1>2. TtyLockInv'
  BY ConsoleAssumption DEF CInv, TypeInv, TtyLockInv, ReadCall, input, output
<1>3. RingInv'
  BY DEF CInv, RingInv, ReadCall, input, output
<1>4. LineInv'
  BY DEF CInv, LineInv, ReadCall, input, output
<1>5. SleepInv'
  BY ConsoleAssumption DEF CInv, TypeInv, TtyLockInv, SleepInv, TxFull, ReadCall, input,
     output
<1>6. BusyInv'
  BY ConsoleAssumption DEF CInv, TypeInv, TtyLockInv, BusyInv, ReadCall, input, output
<1>7. FifoInv'
  BY DEF CInv, TypeInv, FifoInv, ReadCall, input, output
<1>. QED  BY <1>1, <1>2, <1>3, <1>4, <1>5, <1>6, <1>7 DEF CInv

\* A reader sleeps: no line is complete.
LEMMA ReadSleepCInv ==
  ASSUME CInv, NEW p \in Readers, ReadSleep(p)
  PROVE  CInv'
<1>1. TypeInv'
  BY ConsoleAssumption, MovesInRange DEF CInv, TypeInv, ReadSleep, Reading, input,
     output
<1>2. TtyLockInv'
  BY ConsoleAssumption DEF CInv, TypeInv, TtyLockInv, ReadSleep, Reading, input, output
<1>3. RingInv'
  BY DEF CInv, RingInv, ReadSleep, Reading, input, output
<1>4. LineInv'
  BY DEF CInv, LineInv, ReadSleep, Reading, input, output
<1>5. SleepInv'
  BY ConsoleAssumption DEF CInv, TypeInv, TtyLockInv, SleepInv, TxFull, ReadSleep,
     Reading, input, output
<1>6. BusyInv'
  BY ConsoleAssumption DEF CInv, TypeInv, TtyLockInv, BusyInv, ReadSleep, Reading, input,
     output
<1>7. FifoInv'
  BY DEF CInv, TypeInv, FifoInv, ReadSleep, Reading, input, output
<1>. QED  BY <1>1, <1>2, <1>3, <1>4, <1>5, <1>6, <1>7 DEF CInv

\* A reader is woken by kill(), or finds itself killed.
LEMMA ReadKilledCInv ==
  ASSUME CInv, NEW p \in Readers, ReadKilled(p)
  PROVE  CInv'
<1>1. TypeInv'
  BY ConsoleAssumption, MovesInRange DEF CInv, TypeInv, ReadKilled, Reading,
     ReadReturn, input, output
<1>2. TtyLockInv'
  BY ConsoleAssumption DEF CInv, TypeInv, TtyLockInv, ReadKilled, Reading, ReadReturn,
     input, output
<1>3. RingInv'
  BY DEF CInv, RingInv, ReadKilled, Reading, ReadReturn, input, output
<1>4. LineInv'
  BY DEF CInv, LineInv, ReadKilled, Reading, ReadReturn, input, output
<1>5. SleepInv'
  BY ConsoleAssumption DEF CInv, TypeInv, TtyLockInv, SleepInv, TxFull, ReadKilled,
     Reading, ReadReturn, input, output
<1>6. BusyInv'
  BY ConsoleAssumption DEF CInv, TypeInv, TtyLockInv, BusyInv, ReadKilled, Reading,
     ReadReturn, input, output
<1>7. FifoInv'
  BY DEF CInv, TypeInv, FifoInv, ReadKilled, Reading, ReadReturn, input, output
<1>. QED  BY <1>1, <1>2, <1>3, <1>4, <1>5, <1>6, <1>7 DEF CInv

\* A read() ends at an end of file.
LEMMA ReadEofCInv ==
  ASSUME CInv, NEW p \in Readers, ReadEof(p)
  PROVE  CInv'
<1>1. TypeInv'
  BY ConsoleAssumption, MovesInRange DEF CInv, TypeInv, ReadEof, Reading, ReadReturn,
     output
<1>2. TtyLockInv'
  BY ConsoleAssumption DEF CInv, TypeInv, TtyLockInv, ReadEof, Reading, ReadReturn, output
<1>3. RingInv'
  <2>1. r \in Index /\ w \in Index /\ e \in Index /\ r # w /\ w' = w /\ e' = e /\ (r' = r \/ r' = Plus(r, 1))
    BY DEF CInv, TypeInv, ReadEof
  <2>2. r # e /\ Minus(w, r) \in Nat /\ Minus(e, w) \in Nat /\ Minus(e, r) \in Nat
    BY <2>1, StepIs, Sizes DEF CInv, RingInv
  <2>3. Minus(w, Plus(r, 1)) = Minus(w, r) - 1 /\ Minus(e, Plus(r, 1)) = Minus(e, r) - 1
    BY <2>1, <2>2, StepIs
  <2>. QED  BY <2>1, <2>2, <2>3, Sizes DEF CInv, RingInv
<1>4. LineInv'
  BY DEF CInv, LineInv, ReadEof, Reading, ReadReturn, output
<1>5. SleepInv'
  BY ConsoleAssumption DEF CInv, TypeInv, TtyLockInv, SleepInv, TxFull, ReadEof, Reading,
     ReadReturn, output
<1>6. BusyInv'
  BY ConsoleAssumption DEF CInv, TypeInv, TtyLockInv, BusyInv, ReadEof, Reading,
     ReadReturn, output
<1>7. FifoInv'
  BY DEF CInv, TypeInv, FifoInv, ReadEof, Reading, ReadReturn, output
<1>. QED  BY <1>1, <1>2, <1>3, <1>4, <1>5, <1>6, <1>7 DEF CInv

\* A reader takes a character.
LEMMA ReadByteCInv ==
  ASSUME CInv, NEW p \in Readers, ReadByte(p)
  PROVE  CInv'
<1>1. TypeInv'
  BY ConsoleAssumption, MovesInRange DEF CInv, TypeInv, ReadByte, Reading, ReadReturn,
     output
<1>2. TtyLockInv'
  BY ConsoleAssumption DEF CInv, TypeInv, TtyLockInv, ReadByte, Reading, ReadReturn, output
<1>3. RingInv'
  <2>1. r \in Index /\ w \in Index /\ e \in Index /\ r # w /\ w' = w /\ e' = e /\ (r' = r \/ r' = Plus(r, 1))
    BY DEF CInv, TypeInv, ReadByte
  <2>2. r # e /\ Minus(w, r) \in Nat /\ Minus(e, w) \in Nat /\ Minus(e, r) \in Nat
    BY <2>1, StepIs, Sizes DEF CInv, RingInv
  <2>3. Minus(w, Plus(r, 1)) = Minus(w, r) - 1 /\ Minus(e, Plus(r, 1)) = Minus(e, r) - 1
    BY <2>1, <2>2, StepIs
  <2>. QED  BY <2>1, <2>2, <2>3, Sizes DEF CInv, RingInv
<1>4. LineInv'
  BY DEF CInv, LineInv, ReadByte, Reading, ReadReturn, output
<1>5. SleepInv'
  BY ConsoleAssumption DEF CInv, TypeInv, TtyLockInv, SleepInv, TxFull, ReadByte,
     Reading, ReadReturn, output
<1>6. BusyInv'
  BY ConsoleAssumption DEF CInv, TypeInv, TtyLockInv, BusyInv, ReadByte, Reading,
     ReadReturn, output
<1>7. FifoInv'
  BY DEF CInv, TypeInv, FifoInv, ReadByte, Reading, ReadReturn, output
<1>. QED  BY <1>1, <1>2, <1>3, <1>4, <1>5, <1>6, <1>7 DEF CInv

\* A write() begins.
LEMMA WriteCallCInv ==
  ASSUME CInv, NEW p \in Writers, WriteCall(p)
  PROVE  CInv'
<1>1. TypeInv'
  BY ConsoleAssumption, MovesInRange DEF CInv, TypeInv, WriteCall, input
<1>2. TtyLockInv'
  BY ConsoleAssumption DEF CInv, TypeInv, TtyLockInv, WriteCall, input
<1>3. RingInv'
  BY DEF CInv, RingInv, WriteCall, input
<1>4. LineInv'
  BY DEF CInv, LineInv, WriteCall, input
<1>5. SleepInv'
  BY ConsoleAssumption DEF CInv, TypeInv, TtyLockInv, SleepInv, TxFull, WriteCall, input
<1>6. BusyInv'
  BY ConsoleAssumption DEF CInv, TypeInv, TtyLockInv, BusyInv, WriteCall, input
<1>7. FifoInv'
  BY DEF CInv, TypeInv, FifoInv, WriteCall, input
<1>. QED  BY <1>1, <1>2, <1>3, <1>4, <1>5, <1>6, <1>7 DEF CInv

\* A writer sleeps over the full buffer.
LEMMA WriteSleepCInv ==
  ASSUME CInv, NEW p \in Writers, WriteSleep(p)
  PROVE  CInv'
<1>1. TypeInv'
  BY ConsoleAssumption, MovesInRange DEF CInv, TypeInv, WriteSleep, input
<1>2. TtyLockInv'
  BY ConsoleAssumption DEF CInv, TypeInv, TtyLockInv, WriteSleep, input
<1>3. RingInv'
  BY DEF CInv, RingInv, WriteSleep, input
<1>4. LineInv'
  BY DEF CInv, LineInv, WriteSleep, input
<1>5. SleepInv'
  BY ConsoleAssumption DEF CInv, TypeInv, TtyLockInv, SleepInv, TxFull, WriteSleep, input
<1>6. BusyInv'
  BY ConsoleAssumption DEF CInv, TypeInv, TtyLockInv, BusyInv, WriteSleep, input
<1>7. FifoInv'
  BY DEF CInv, TypeInv, FifoInv, WriteSleep, input
<1>. QED  BY <1>1, <1>2, <1>3, <1>4, <1>5, <1>6, <1>7 DEF CInv

\* A character goes into the buffer: no writer sleeps.
LEMMA WriteStoreCInv ==
  ASSUME CInv, NEW p \in Writers, WriteStore(p)
  PROVE  CInv'
<1>1. TypeInv'
  BY ConsoleAssumption, MovesInRange DEF CInv, TypeInv, WriteStore, input
<1>2. TtyLockInv'
  BY ConsoleAssumption DEF CInv, TypeInv, TtyLockInv, WriteStore, input
<1>3. RingInv'
  BY DEF CInv, RingInv, WriteStore, input
<1>4. LineInv'
  BY DEF CInv, LineInv, WriteStore, input
<1>5. SleepInv'
  BY ConsoleAssumption DEF CInv, TypeInv, TtyLockInv, SleepInv, TxFull, WriteStore, input
<1>6. BusyInv'
  BY ConsoleAssumption DEF CInv, TypeInv, TtyLockInv, BusyInv, WriteStore, input
<1>7. FifoInv'
  BY DEF CInv, TypeInv, FifoInv, WriteStore, input
<1>. QED  BY <1>1, <1>2, <1>3, <1>4, <1>5, <1>6, <1>7 DEF CInv

\* uartstart() finds the UART idle, takes a character and wakes the writers.
LEMMA StartByteCInv ==
  ASSUME CInv, NEW x \in Writers \cup {Handler}, StartByte(x)
  PROVE  CInv'
<1>1. TypeInv'
  BY ConsoleAssumption, MovesInRange DEF CInv, TypeInv, StartByte, Wake, input
<1>2. TtyLockInv'
  BY ConsoleAssumption DEF CInv, TypeInv, TtyLockInv, StartByte, Wake, input
<1>3. RingInv'
  BY DEF CInv, RingInv, StartByte, Wake, input
<1>4. LineInv'
  BY DEF CInv, LineInv, StartByte, Wake, input
<1>5. SleepInv'
  BY ConsoleAssumption DEF CInv, TypeInv, TtyLockInv, SleepInv, TxFull, StartByte, Wake,
     input
<1>6. BusyInv'
  BY ConsoleAssumption DEF CInv, TypeInv, TtyLockInv, BusyInv, StartByte, Wake, input
<1>7. FifoInv'
  BY DEF CInv, TypeInv, FifoInv, StartByte, Wake, input
<1>. QED  BY <1>1, <1>2, <1>3, <1>4, <1>5, <1>6, <1>7 DEF CInv

\* uartstart() writes the character to the UART.
LEMMA SendByteCInv ==
  ASSUME CInv, NEW x \in Writers \cup {Handler}, SendByte(x)
  PROVE  CInv'
<1>1. TypeInv'
  <2>1. irq' \in BOOLEAN /\ out' \in BOOLEAN
    BY DEF CInv, TypeInv, SendByte
  <2>2. thr' \in Nat
    BY DEF CInv, TypeInv, SendByte
  <2>. QED  BY <2>1, <2>2 DEF CInv, TypeInv, SendByte, input
<1>2. TtyLockInv'
  BY ConsoleAssumption DEF CInv, TypeInv, TtyLockInv, SendByte, input
<1>3. RingInv'
  BY DEF CInv, RingInv, SendByte, input
<1>4. LineInv'
  BY DEF CInv, LineInv, SendByte, input
<1>5. SleepInv'
  BY ConsoleAssumption DEF CInv, TypeInv, TtyLockInv, SleepInv, TxFull, SendByte,
     input
<1>6. BusyInv'
  BY ConsoleAssumption DEF CInv, TypeInv, TtyLockInv, BusyInv, SendByte, input
<1>7. FifoInv'
  BY DEF CInv, TypeInv, FifoInv, SendByte, input
<1>. QED  BY <1>1, <1>2, <1>3, <1>4, <1>5, <1>6, <1>7 DEF CInv

\* uartstart() returns: nothing to send, or the UART is busy.
LEMMA StartEndCInv ==
  ASSUME CInv, NEW x \in Writers \cup {Handler}, StartEnd(x)
  PROVE  CInv'
<1>1. TypeInv'
  BY ConsoleAssumption, MovesInRange DEF CInv, TypeInv, StartEnd, input
<1>2. TtyLockInv'
  BY ConsoleAssumption DEF CInv, TypeInv, TtyLockInv, StartEnd, input
<1>3. RingInv'
  BY DEF CInv, RingInv, StartEnd, input
<1>4. LineInv'
  BY DEF CInv, LineInv, StartEnd, input
<1>5. SleepInv'
  BY ConsoleAssumption DEF CInv, TypeInv, TtyLockInv, SleepInv, TxFull, StartEnd, input
<1>6. BusyInv'
  BY ConsoleAssumption DEF CInv, TypeInv, TtyLockInv, BusyInv, StartEnd, input
<1>7. FifoInv'
  BY DEF CInv, TypeInv, FifoInv, StartEnd, input
<1>. QED  BY <1>1, <1>2, <1>3, <1>4, <1>5, <1>6, <1>7 DEF CInv

\* A key arrives.
LEMMA KeyTypedCInv ==
  ASSUME CInv, KeyTyped
  PROVE  CInv'
<1>1. TypeInv'
  BY ConsoleAssumption, MovesInRange DEF CInv, TypeInv, KeyTyped, input, output
<1>2. TtyLockInv'
  BY ConsoleAssumption DEF CInv, TypeInv, TtyLockInv, KeyTyped, input, output
<1>3. RingInv'
  BY DEF CInv, RingInv, KeyTyped, input, output
<1>4. LineInv'
  BY DEF CInv, LineInv, KeyTyped, input, output
<1>5. SleepInv'
  BY ConsoleAssumption DEF CInv, TypeInv, TtyLockInv, SleepInv, TxFull, KeyTyped, input,
     output
<1>6. BusyInv'
  BY ConsoleAssumption DEF CInv, TypeInv, TtyLockInv, BusyInv, KeyTyped, input, output
<1>7. FifoInv'
  BY DEF CInv, TypeInv, FifoInv, KeyTyped, input, output
<1>. QED  BY <1>1, <1>2, <1>3, <1>4, <1>5, <1>6, <1>7 DEF CInv

\* The UART has sent a character.
LEMMA SentCInv ==
  ASSUME CInv, Sent
  PROVE  CInv'
<1>1. TypeInv'
  BY ConsoleAssumption, MovesInRange DEF CInv, TypeInv, Sent, input, output
<1>2. TtyLockInv'
  BY ConsoleAssumption DEF CInv, TypeInv, TtyLockInv, Sent, input, output
<1>3. RingInv'
  BY DEF CInv, RingInv, Sent, input, output
<1>4. LineInv'
  BY DEF CInv, LineInv, Sent, input, output
<1>5. SleepInv'
  BY ConsoleAssumption DEF CInv, TypeInv, TtyLockInv, SleepInv, TxFull, Sent, input, output
<1>6. BusyInv'
  <2>1. /\ txr' = txr /\ txw' = txw /\ txlock' = txlock /\ h' = h
        /\ (irq => irq') /\ (thr = 1 => irq')
    BY DEF Sent, output
  <2>2. thr = 1 \/ thr' > 0
    BY DEF CInv, TypeInv, Sent
  <2>. QED  BY <2>1, <2>2 DEF CInv, BusyInv
<1>7. FifoInv'
  BY DEF CInv, TypeInv, FifoInv, Sent, input, output
<1>. QED  BY <1>1, <1>2, <1>3, <1>4, <1>5, <1>6, <1>7 DEF CInv

\* The handler begins.
LEMMA InterruptCInv ==
  ASSUME CInv, Interrupt
  PROVE  CInv'
<1>1. TypeInv'
  BY ConsoleAssumption, MovesInRange DEF CInv, TypeInv, Interrupt, input, output
<1>2. TtyLockInv'
  BY ConsoleAssumption DEF CInv, TypeInv, TtyLockInv, Interrupt, input, output
<1>3. RingInv'
  BY DEF CInv, RingInv, Interrupt, input, output
<1>4. LineInv'
  BY DEF CInv, LineInv, Interrupt, input, output
<1>5. SleepInv'
  BY ConsoleAssumption DEF CInv, TypeInv, TtyLockInv, SleepInv, TxFull, Interrupt, input,
     output
<1>6. BusyInv'
  BY ConsoleAssumption DEF CInv, TypeInv, TtyLockInv, BusyInv, Interrupt, input, output
<1>7. FifoInv'
  BY DEF CInv, TypeInv, FifoInv, Interrupt, input, output
<1>. QED  BY <1>1, <1>2, <1>3, <1>4, <1>5, <1>6, <1>7 DEF CInv

\* A character is stored and may complete the line.
LEMMA KeyStoreCInv ==
  ASSUME CInv, KeyStore
  PROVE  CInv'
<1>1. TypeInv'
  <2>1. Cell(e) \in Cells /\ rx \in Chars /\ buf \in [Cells -> Chars]
        /\ buf' = [buf EXCEPT ![Cell(e)] = rx]
    BY CellIs DEF CInv, TypeInv, KeyStore, Key
  <2>2. buf' \in [Cells -> Chars]
    BY <2>1
  <2>3. r' \in Index /\ w' \in Index /\ e' \in Index
    BY MovesInRange DEF CInv, TypeInv, KeyStore
  <2>4. rd' \in [Readers -> [pc : {"user", "read", "asleep"}, target : Nat, n : Nat]]
    BY DEF CInv, TypeInv, KeyStore
  <2>5. /\ txr' \in TxIndex /\ txw' \in TxIndex /\ thr' \in Nat
        /\ wr' \in [Writers -> {"user", "putc", "asleep", "start"}]
        /\ h' \in {"idle", "input", "echo", "put", "start"}
    BY DEF CInv, TypeInv, KeyStore, Key, output
  <2>6. irq' \in BOOLEAN /\ out' \in BOOLEAN
    BY DEF CInv, TypeInv, KeyStore, Key, output
  <2>. QED  BY <2>2, <2>3, <2>4, <2>5, <2>6 DEF TypeInv
<1>2. TtyLockInv'
  BY ConsoleAssumption DEF CInv, TypeInv, TtyLockInv, KeyStore, Key, Complete, output
<1>3. RingInv'
  <2>1. /\ r \in Index /\ w \in Index /\ e \in Index /\ r' = r /\ e' = Plus(e, 1) /\ Plus(e, 1) \in Index
        /\ Minus(e, r) < INPUT_BUF_SIZE
        /\ (w' = w /\ Minus(e, r) # INPUT_BUF_SIZE - 1) \/ w' = e'
    BY MovesInRange DEF CInv, TypeInv, KeyStore, Complete
  <2>2. Minus(w, r) \in Nat /\ Minus(e, w) \in Nat /\ Minus(e, r) \in Nat
    BY <2>1, StepIs, Sizes
  <2>3. Minus(e, r) + 1 < Wrap /\ Minus(e, w) + 1 < Wrap
    BY <2>1, <2>2, Sizes DEF CInv, RingInv
  <2>4. Minus(e', r) = Minus(e, r) + 1 /\ Minus(e', w) = Minus(e, w) + 1
    BY <2>1, <2>3, StepIs
  <2>5. Minus(e', e') = 0 /\ Minus(r, r) = 0
    BY <2>1, StepIs
  <2>. QED  BY <2>1, <2>2, <2>4, <2>5, Sizes DEF CInv, RingInv
<1>4. LineInv'
  <2>1. /\ w \in Index /\ e \in Index /\ r \in Index /\ buf \in [Cells -> Chars]
        /\ buf' = [buf EXCEPT ![Cell(e)] = rx] /\ e' = Plus(e, 1) /\ e' \in Index
        /\ Minus(e, r) < INPUT_BUF_SIZE
        /\ (w' = w /\ rx # Newline) \/ w' = e'
    BY MovesInRange DEF CInv, TypeInv, KeyStore, Complete
  <2>2. CASE w' = e'
    <3>1. Minus(e', w') = 0
      BY <2>1, <2>2, StepIs
    <3>2. 0..(Minus(e', w') - 1) = {}
      BY <3>1
    <3>. QED  BY <3>2 DEF LineInv
  <2>3. CASE w' = w /\ rx # Newline
    <3> DEFINE m == Minus(e, w)
    <3>1. m \in Nat /\ m < INPUT_BUF_SIZE /\ Plus(w, m) = e /\ Minus(e', w) = m + 1
      <4>1. m \in Nat /\ Minus(w, r) \in Nat /\ Minus(e, r) \in Nat /\ Plus(w, m) = e
        BY <2>1, StepIs, Sizes
      <4>2. m < INPUT_BUF_SIZE /\ m + 1 < Wrap
        BY <2>1, <4>1, Sizes DEF CInv, RingInv
      <4>. QED  BY <2>1, <4>1, <4>2, StepIs
    <3>2. ASSUME NEW k \in 0..m PROVE buf'[Cell(Plus(w, k))] # Newline
      <4>1. CASE k = m
        BY <2>1, <2>3, <3>1, <4>1, CellIs
      <4>2. CASE k # m
        <5>1. k \in 0..(m - 1) /\ k \in 0..Wrap /\ m \in 0..(INPUT_BUF_SIZE - 1)
          BY <3>1, <4>2, Sizes
        <5>2. Cell(Plus(w, k)) # Cell(e) /\ Cell(Plus(w, k)) \in Cells
          BY <2>1, <3>1, <5>1, CellsDiffer, CellIs, PlusIs
        <5>3. buf[Cell(Plus(w, k))] # Newline
          BY <5>1 DEF CInv, LineInv
        <5>. QED  BY <2>1, <5>2, <5>3
      <4>. QED  BY <4>1, <4>2
    <3>3. (m + 1) - 1 = m
      BY <3>1
    <3> HIDE DEF m
    <3>. QED  BY <2>3, <3>1, <3>2, <3>3 DEF LineInv
  <2>. QED  BY <2>1, <2>2, <2>3
<1>5. SleepInv'
  BY ConsoleAssumption DEF CInv, TypeInv, TtyLockInv, SleepInv, TxFull, KeyStore, Key,
     Complete, output
<1>6. BusyInv'
  BY ConsoleAssumption DEF CInv, TypeInv, TtyLockInv, BusyInv, KeyStore, Key, Complete,
     output
<1>7. FifoInv'
  BY DEF CInv, TypeInv, FifoInv, KeyStore, Key, Complete, output
<1>. QED  BY <1>1, <1>2, <1>3, <1>4, <1>5, <1>6, <1>7 DEF CInv

\* The ring is full.
LEMMA KeyLostCInv ==
  ASSUME CInv, KeyLost
  PROVE  CInv'
<1>1. TypeInv'
  BY ConsoleAssumption, MovesInRange DEF CInv, TypeInv, KeyLost, Key, input, output
<1>2. TtyLockInv'
  BY ConsoleAssumption DEF CInv, TypeInv, TtyLockInv, KeyLost, Key, input, output
<1>3. RingInv'
  BY DEF CInv, RingInv, KeyLost, Key, input, output
<1>4. LineInv'
  BY DEF CInv, LineInv, KeyLost, Key, input, output
<1>5. SleepInv'
  BY ConsoleAssumption DEF CInv, TypeInv, TtyLockInv, SleepInv, TxFull, KeyLost, Key,
     input, output
<1>6. BusyInv'
  BY ConsoleAssumption DEF CInv, TypeInv, TtyLockInv, BusyInv, KeyLost, Key, input, output
<1>7. FifoInv'
  BY DEF CInv, TypeInv, FifoInv, KeyLost, Key, input, output
<1>. QED  BY <1>1, <1>2, <1>3, <1>4, <1>5, <1>6, <1>7 DEF CInv

\* Control-H.
LEMMA KeyEraseCInv ==
  ASSUME CInv, KeyErase
  PROVE  CInv'
<1>1. TypeInv'
  BY ConsoleAssumption, MovesInRange DEF CInv, TypeInv, KeyErase, Erasable, Key, output
<1>2. TtyLockInv'
  BY ConsoleAssumption DEF CInv, TypeInv, TtyLockInv, KeyErase, Erasable, Key, output
<1>3. RingInv'
  <2>1. r \in Index /\ w \in Index /\ e \in Index /\ r' = r /\ w' = w /\ (e' = e \/ (e # w /\ e' = Minus(e, 1)))
    BY DEF CInv, TypeInv, KeyErase, Erasable
  <2>2. Minus(w, r) \in Nat /\ Minus(e, w) \in Nat /\ Minus(e, r) \in Nat
    BY <2>1, StepIs, Sizes
  <2>3. CASE e # w /\ e' = Minus(e, 1)
    <3>1. Minus(e, w) >= 1 /\ Minus(e', w) = Minus(e, w) - 1
      BY <2>1, <2>3, StepIs
    <3>2. r # e
      BY <2>1, <2>2, <3>1, StepIs DEF CInv, RingInv
    <3>3. Minus(e', r) = Minus(e, r) - 1
      BY <2>1, <2>3, <3>2, StepIs
    <3>. QED  BY <2>1, <2>2, <3>1, <3>3, Sizes DEF CInv, RingInv
  <2>. QED  BY <2>1, <2>3 DEF CInv, RingInv
<1>4. LineInv'
  <2>1. /\ w \in Index /\ e \in Index /\ w' = w /\ buf' = buf
        /\ e' = e \/ (e # w /\ e' = Minus(e, 1))
    BY DEF CInv, TypeInv, KeyErase, Erasable
  <2>2. CASE e # w /\ e' = Minus(e, 1)
    <3>1. Minus(e', w) = Minus(e, w) - 1 /\ Minus(e, w) \in Nat
      BY <2>1, <2>2, StepIs, Sizes
    <3>2. \A k \in 0..(Minus(e', w) - 1) : k \in 0..(Minus(e, w) - 1)
      BY <3>1
    <3>. QED  BY <2>1, <3>2 DEF CInv, LineInv
  <2>. QED  BY <2>1, <2>2 DEF CInv, LineInv
<1>5. SleepInv'
  BY ConsoleAssumption DEF CInv, TypeInv, TtyLockInv, SleepInv, TxFull, KeyErase,
     Erasable, Key, output
<1>6. BusyInv'
  BY ConsoleAssumption DEF CInv, TypeInv, TtyLockInv, BusyInv, KeyErase, Erasable, Key,
     output
<1>7. FifoInv'
  BY DEF CInv, TypeInv, FifoInv, KeyErase, Erasable, Key, output
<1>. QED  BY <1>1, <1>2, <1>3, <1>4, <1>5, <1>6, <1>7 DEF CInv

\* Control-U.
LEMMA KeyKillCInv ==
  ASSUME CInv, KeyKill
  PROVE  CInv'
<1>1. TypeInv'
  BY ConsoleAssumption, MovesInRange, KillIs DEF CInv, TypeInv, KeyKill, Key, output
<1>2. TtyLockInv'
  BY ConsoleAssumption DEF CInv, TypeInv, TtyLockInv, KeyKill, Key, output
<1>3. RingInv'
  <2>1. r \in Index /\ w \in Index /\ e \in Index /\ r' = r /\ w' = w /\ e' = w
    BY KillIs DEF CInv, TypeInv, KeyKill
  <2>2. Minus(w, r) \in Nat /\ Minus(e, w) \in Nat /\ Minus(w, w) = 0 /\ Minus(r, r) = 0
    BY <2>1, StepIs, Sizes
  <2>. QED  BY <2>1, <2>2, Sizes DEF CInv, RingInv
<1>4. LineInv'
  <2>1. w \in Index /\ w' = w /\ e' = w
    BY KillIs DEF CInv, TypeInv, KeyKill
  <2>2. Minus(e', w') = 0
    BY <2>1, StepIs
  <2>3. 0..(Minus(e', w') - 1) = {}
    BY <2>2
  <2>. QED  BY <2>3 DEF LineInv
<1>5. SleepInv'
  BY ConsoleAssumption DEF CInv, TypeInv, TtyLockInv, SleepInv, TxFull, KeyKill, Key,
     output
<1>6. BusyInv'
  BY ConsoleAssumption DEF CInv, TypeInv, TtyLockInv, BusyInv, KeyKill, Key, output
<1>7. FifoInv'
  BY DEF CInv, TypeInv, FifoInv, KeyKill, Key, output
<1>. QED  BY <1>1, <1>2, <1>3, <1>4, <1>5, <1>6, <1>7 DEF CInv

\* The handler finds the UART idle.
LEMMA EchoLookCInv ==
  ASSUME CInv, EchoLook
  PROVE  CInv'
<1>1. TypeInv'
  BY ConsoleAssumption, MovesInRange DEF CInv, TypeInv, EchoLook, input, output
<1>2. TtyLockInv'
  BY ConsoleAssumption DEF CInv, TypeInv, TtyLockInv, EchoLook, input, output
<1>3. RingInv'
  BY DEF CInv, RingInv, EchoLook, input, output
<1>4. LineInv'
  BY DEF CInv, LineInv, EchoLook, input, output
<1>5. SleepInv'
  BY ConsoleAssumption DEF CInv, TypeInv, TtyLockInv, SleepInv, TxFull, EchoLook, input,
     output
<1>6. BusyInv'
  BY ConsoleAssumption DEF CInv, TypeInv, TtyLockInv, BusyInv, EchoLook, input, output
<1>7. FifoInv'
  BY DEF CInv, TypeInv, FifoInv, EchoLook, input, output
<1>. QED  BY <1>1, <1>2, <1>3, <1>4, <1>5, <1>6, <1>7 DEF CInv

\* A character is echoed.
LEMMA EchoByteCInv ==
  ASSUME CInv, EchoByte
  PROVE  CInv'
<1>1. TypeInv'
  BY ConsoleAssumption, MovesInRange DEF CInv, TypeInv, EchoByte, input, output
<1>2. TtyLockInv'
  BY ConsoleAssumption DEF CInv, TypeInv, TtyLockInv, EchoByte, input, output
<1>3. RingInv'
  BY DEF CInv, RingInv, EchoByte, input, output
<1>4. LineInv'
  BY DEF CInv, LineInv, EchoByte, input, output
<1>5. SleepInv'
  BY ConsoleAssumption DEF CInv, TypeInv, TtyLockInv, SleepInv, TxFull, EchoByte, input,
     output
<1>6. BusyInv'
  BY ConsoleAssumption DEF CInv, TypeInv, TtyLockInv, BusyInv, EchoByte, input, output
<1>7. FifoInv'
  BY DEF CInv, TypeInv, FifoInv, EchoByte, input, output
<1>. QED  BY <1>1, <1>2, <1>3, <1>4, <1>5, <1>6, <1>7 DEF CInv

\* The echo is over.
LEMMA EchoEndCInv ==
  ASSUME CInv, EchoEnd
  PROVE  CInv'
<1>1. TypeInv'
  BY ConsoleAssumption, MovesInRange DEF CInv, TypeInv, EchoEnd, input, output
<1>2. TtyLockInv'
  BY ConsoleAssumption DEF CInv, TypeInv, TtyLockInv, EchoEnd, input, output
<1>3. RingInv'
  BY DEF CInv, RingInv, EchoEnd, input, output
<1>4. LineInv'
  BY DEF CInv, LineInv, EchoEnd, input, output
<1>5. SleepInv'
  BY ConsoleAssumption DEF CInv, TypeInv, TtyLockInv, SleepInv, TxFull, EchoEnd, input,
     output
<1>6. BusyInv'
  BY ConsoleAssumption DEF CInv, TypeInv, TtyLockInv, BusyInv, EchoEnd, input, output
<1>7. FifoInv'
  BY DEF CInv, TypeInv, FifoInv, EchoEnd, input, output
<1>. QED  BY <1>1, <1>2, <1>3, <1>4, <1>5, <1>6, <1>7 DEF CInv

\* The handler goes on to the buffer.
LEMMA TxLockCInv ==
  ASSUME CInv, TxLock
  PROVE  CInv'
<1>1. TypeInv'
  BY ConsoleAssumption, MovesInRange DEF CInv, TypeInv, TxLock, input
<1>2. TtyLockInv'
  BY ConsoleAssumption DEF CInv, TypeInv, TtyLockInv, TxLock, input
<1>3. RingInv'
  BY DEF CInv, RingInv, TxLock, input
<1>4. LineInv'
  BY DEF CInv, LineInv, TxLock, input
<1>5. SleepInv'
  BY ConsoleAssumption DEF CInv, TypeInv, TtyLockInv, SleepInv, TxFull, TxLock, input
<1>6. BusyInv'
  BY ConsoleAssumption DEF CInv, TypeInv, TtyLockInv, BusyInv, TxLock, input
<1>7. FifoInv'
  BY DEF CInv, TypeInv, FifoInv, TxLock, input
<1>. QED  BY <1>1, <1>2, <1>3, <1>4, <1>5, <1>6, <1>7 DEF CInv

\* The machine starts with empty rings.
LEMMA InitCInv == ConsInit => CInv
<1> SUFFICES ASSUME ConsInit PROVE CInv
  OBVIOUS
<1>1. 0 \in Index /\ 0 \in TxIndex
  BY Sizes DEF Index, TxIndex
<1>2. Minus(0, 0) = 0
  BY <1>1, StepIs
<1>3. TypeInv
  <2>1. /\ buf \in [Cells -> Chars]
        /\ rd \in [Readers -> [pc : {"user", "read", "asleep"}, target : Nat, n : Nat]]
        /\ wr \in [Writers -> {"user", "putc", "asleep", "start"}]
    BY ConsoleAssumption DEF ConsInit, Cells
  <2>2. irq \in BOOLEAN /\ out \in BOOLEAN
    BY DEF ConsInit
  <2>. QED  BY <1>1, <2>1, <2>2 DEF ConsInit, TypeInv
<1>4. TtyLockInv /\ SleepInv /\ BusyInv /\ FifoInv
  BY ConsoleAssumption DEF ConsInit, TtyLockInv, SleepInv, BusyInv, FifoInv
<1>5. RingInv
  BY <1>2, Sizes DEF ConsInit, RingInv
<1>6. LineInv
  <2>1. 0..(Minus(e, w) - 1) = {}
    BY <1>2 DEF ConsInit
  <2>. QED  BY <2>1 DEF LineInv
<1>. QED  BY <1>3, <1>4, <1>5, <1>6 DEF CInv

\* Every step preserves the invariant.
LEMMA NextCInv == CInv /\ [ConsNext]_consVars => CInv'
<1> SUFFICES ASSUME CInv, [ConsNext]_consVars PROVE CInv'
  OBVIOUS
<1>1. CASE UNCHANGED consVars
  BY <1>1 DEF consVars, CInv, TypeInv, TtyLockInv, RingInv, LineInv, SleepInv, BusyInv,
     FifoInv, TxFull
<1>2. ASSUME NEW p \in Readers,
             ReadCall(p) \/ ReadSleep(p) \/ ReadKilled(p) \/ ReadEof(p) \/ ReadByte(p)
      PROVE  CInv'
  BY <1>2, ReadCallCInv, ReadSleepCInv, ReadKilledCInv, ReadEofCInv, ReadByteCInv
<1>3. ASSUME NEW p \in Writers, WriteCall(p) \/ WriteSleep(p) \/ WriteStore(p)
      PROVE  CInv'
  BY <1>3, WriteCallCInv, WriteSleepCInv, WriteStoreCInv
<1>4. ASSUME NEW x \in Writers \cup {Handler}, StartByte(x) \/ SendByte(x) \/ StartEnd(x)
      PROVE  CInv'
  BY <1>4, StartByteCInv, SendByteCInv, StartEndCInv
<1>5. CASE KeyTyped \/ Sent \/ Interrupt \/ TxLock
  BY <1>5, KeyTypedCInv, SentCInv, InterruptCInv, TxLockCInv
<1>6. CASE KeyStore \/ KeyLost \/ KeyErase \/ KeyKill \/ EchoLook \/ EchoByte \/ EchoEnd
  BY <1>6, KeyStoreCInv, KeyLostCInv, KeyEraseCInv, KeyKillCInv, EchoLookCInv, EchoByteCInv,
     EchoEndCInv
<1>. QED  BY <1>1, <1>2, <1>3, <1>4, <1>5, <1>6 DEF ConsNext

\* The invariant holds in every reachable state.
THEOREM ConsoleInvariant == ConsSpec => []CInv
  BY InitCInv, NextCInv, PTL DEF ConsSpec

\* Nobody sleeps in vain in consoleread() or uartputc(), and what is in the transmit
\* buffer is on its way, for every size of the rings and wherever their indices wrap,
\* even though uartputc_sync() may write between uartstart()'s look at the UART
\* (uart.c:142) and its write (uart.c:155), and the other way round.
THEOREM ConsoleNeverStuck == ConsSpec => []ConsoleAwake
<1>1. CInv => ConsoleAwake
  BY DEF CInv, RingInv, SleepInv, BusyInv, FifoInv, ConsoleAwake
<1>. QED  BY <1>1, ConsoleInvariant, PTL

-----------------------------------------------------------------------------
(* Refinement: an edited line and a queue of complete input. *)

\* The step is not seen if it leaves the input ring alone.
LEMMA InputUnseen ==
  ASSUME UNCHANGED input
  PROVE  Between(r, w)' = Between(r, w) /\ Between(w, e)' = Between(w, e)
<1>1. buf' = buf /\ r' = r /\ w' = w /\ e' = e
  BY DEF input
<1>. QED  BY <1>1 DEF Between

\* The abstract state as stretches of the ring.
LEMMA Stretches ==
  /\ Between(r, w) = Ring(buf, r, w) /\ Between(w, e) = Ring(buf, w, e)
  /\ Between(r, w)' = Ring(buf', r', w') /\ Between(w, e)' = Ring(buf', w', e')
  BY DEF Between, Ring

\* A reader takes the first character of the input.
LEMMA GetImplements ==
  ASSUME CInv, r # w, r' = Plus(r, 1), buf' = buf, w' = w, e' = e
  PROVE  Abstract!Get
<1>1. Ring(buf, r, w) # <<>> /\ Ring(buf, Plus(r, 1), w) = Tail(Ring(buf, r, w))
  BY RingTail DEF CInv, TypeInv
<1>2. Between(r, w) # <<>> /\ Between(r, w)' = Tail(Between(r, w))
  BY <1>1, Stretches
<1>3. Between(w, e)' = Between(w, e)
  BY Stretches
<1>. QED  BY <1>2, <1>3 DEF Abstract!Get

\* A character joins the line, and the line the input when it is complete.
LEMMA TypeImplements ==
  ASSUME CInv, KeyStore
  PROVE  \E c \in Chars : Abstract!Type(c)
<1> DEFINE in == Ring(buf, r, w)
           ln == Ring(buf, w, e)
<1>1. /\ r \in Index /\ w \in Index /\ e \in Index /\ buf \in [Cells -> Chars] /\ rx \in Chars
      /\ r' = r /\ e' = Plus(e, 1) /\ e' \in Index /\ buf' = [buf EXCEPT ![Cell(e)] = rx]
      /\ Minus(e, r) < INPUT_BUF_SIZE
  BY MovesInRange DEF CInv, TypeInv, KeyStore, Key
<1>2. /\ Minus(w, r) \in Nat /\ Minus(e, w) \in Nat /\ Minus(e, r) \in Nat
      /\ Minus(w, r) + Minus(e, w) = Minus(e, r)
      /\ Minus(e, w) < INPUT_BUF_SIZE /\ Minus(w, r) <= Minus(e, r)
      /\ Minus(e', w) = Minus(e, w) + 1 /\ Minus(e', r) = Minus(e, r) + 1
      /\ INPUT_BUF_SIZE \in Nat
  <2>1. /\ Minus(w, r) \in Nat /\ Minus(e, w) \in Nat /\ Minus(e, r) \in Nat
    BY <1>1, StepIs, Sizes
  <2>2. /\ Minus(w, r) + Minus(e, w) = Minus(e, r)
        /\ Minus(e, w) < INPUT_BUF_SIZE /\ Minus(w, r) <= Minus(e, r)
        /\ Minus(e, w) + 1 < Wrap /\ Minus(e, r) + 1 < Wrap /\ INPUT_BUF_SIZE \in Nat
    BY <1>1, <2>1, Sizes DEF CInv, RingInv
  <2>. QED  BY <1>1, <2>1, <2>2, StepIs
<1>3. in \in Seq(Chars) /\ ln \in Seq(Chars) /\ Len(in) = Minus(w, r) /\ Len(ln) = Minus(e, w)
  BY <1>1, RingSeq
<1>4. Ring(buf', w, e') = Append(ln, rx)
  BY <1>1, <1>2, RingAppend
<1>5. Ring(buf', r, w) = in
  <2>1. Minus(w, r) <= Minus(e, r) /\ Minus(e, r) < INPUT_BUF_SIZE
    BY <1>1, <1>2
  <2> DEFINE g == buf'
  <2>2. g \in [Cells -> Chars] /\ \A x \in Cells : x # Cell(e) => g[x] = buf[x]
    BY <1>1
  <2> HIDE DEF g
  <2>3. Ring(g, r, w) = Ring(buf, r, w)
    <3>2. buf \in [Cells -> Chars] /\ r \in Index /\ w \in Index /\ e \in Index
      BY <1>1
    <3>. QED  BY ONLY <2>1, <2>2, <3>2, RingKeep, Zenon
  <2>. QED  BY <2>3 DEF g
<1>6. Len(in) + Len(ln) < INPUT_BUF_SIZE /\ Len(Append(ln, rx)) = Len(ln) + 1
  BY <1>1, <1>2, <1>3
<1>7. Complete(rx) <=> rx \in {Newline, Eof} \/ Len(in) + Len(Append(ln, rx)) = INPUT_BUF_SIZE
  BY <1>2, <1>3, <1>6 DEF Complete
<1>8. CASE Complete(rx)
  <2>1. w' = e'
    BY <1>8 DEF KeyStore
  <2>2. Ring(buf', r, e') = Ring(buf', r, w) \o Ring(buf', w, e')
    <3>1. Minus(w, r) + Minus(e', w) = Minus(e', r)
      BY <1>2
    <3>2. buf' \in [Cells -> Chars]
      BY <1>1, CellIs
    <3> DEFINE g == buf'
               d == e'
    <3>3. g \in [Cells -> Chars] /\ d \in Index /\ Minus(w, r) + Minus(d, w) = Minus(d, r)
      BY <1>1, <3>1, <3>2
    <3> HIDE DEF g, d
    <3>4. Ring(g, r, d) = Ring(g, r, w) \o Ring(g, w, d)
      <4>2. g \in [Cells -> Chars] /\ r \in Index /\ w \in Index /\ d \in Index
        BY <1>1, <3>3
      <4>. QED  BY ONLY <3>3, <4>2, RingConcat, Zenon
    <3>. QED  BY <3>4 DEF g, d
  <2>3. Between(r, w)' = in \o Append(ln, rx)
    BY <1>1, <1>4, <1>5, <2>1, <2>2, Stretches
  <2>4. Between(w, e)' = <<>>
    BY <1>1, <2>1, RingEmpty, Stretches
  <2>5. Abstract!Type(rx)
    BY <1>6, <1>7, <1>8, <2>3, <2>4, Stretches DEF Abstract!Type
  <2>. QED  BY <1>1, <2>5
<1>9. CASE ~Complete(rx)
  <2>1. w' = w
    BY <1>9 DEF KeyStore
  <2>2. Between(r, w)' = in /\ Between(w, e)' = Append(ln, rx)
    BY <1>1, <1>4, <1>5, <2>1, Stretches
  <2>3. Abstract!Type(rx)
    BY <1>6, <1>7, <1>9, <2>2, Stretches DEF Abstract!Type
  <2>. QED  BY <1>1, <2>3
<1>. QED  BY <1>8, <1>9

\* Control-H takes the last character of the line.
LEMMA EraseImplements ==
  ASSUME CInv, KeyErase, Erasable
  PROVE  Abstract!Erase
<1>1. /\ w \in Index /\ e \in Index /\ buf \in [Cells -> Chars] /\ w # e
      /\ r' = r /\ w' = w /\ e' = Minus(e, 1) /\ buf' = buf
  BY DEF CInv, TypeInv, KeyErase, Erasable
<1>2. /\ Ring(buf, w, e) # <<>>
      /\ Ring(buf, w, e') = SubSeq(Ring(buf, w, e), 1, Len(Ring(buf, w, e)) - 1)
  BY <1>1, RingFront
<1>3. Between(w, e) # <<>> /\ Between(w, e)' = SubSeq(Between(w, e), 1, Len(Between(w, e)) - 1)
  BY <1>1, <1>2, Stretches
<1>4. Between(r, w)' = Between(r, w)
  BY <1>1, Stretches
<1>. QED  BY <1>3, <1>4 DEF Abstract!Erase

\* Control-U takes them all.
LEMMA KillImplements ==
  ASSUME CInv, KeyKill
  PROVE  Abstract!KillLine
<1>1. w \in Index /\ e' = w /\ r' = r /\ w' = w /\ buf' = buf
  BY KillIs DEF CInv, TypeInv, KeyKill
<1>2. Between(w, e)' = <<>>
  BY <1>1, RingEmpty, Stretches
<1>3. Between(r, w)' = Between(r, w)
  BY <1>1, Stretches
<1>. QED  BY <1>2, <1>3 DEF Abstract!KillLine

\* What the specification of the console allows.
Allowed ==
  \/ \E c \in Chars : Abstract!Type(c)
  \/ Abstract!Erase \/ Abstract!KillLine \/ Abstract!Get
  \/ Between(r, w)' = Between(r, w) /\ Between(w, e)' = Between(w, e)

\* Every step is allowed.
LEMMA NextImplements == CInv /\ [ConsNext]_consVars => Allowed
<1> SUFFICES ASSUME CInv, [ConsNext]_consVars PROVE Allowed
  OBVIOUS
<1>1. ASSUME UNCHANGED input PROVE Allowed
  BY <1>1, InputUnseen DEF Allowed
<1>2. CASE UNCHANGED consVars
  BY <1>1, <1>2 DEF consVars, input
<1>3. ASSUME NEW p \in Readers, ReadCall(p) \/ ReadSleep(p) \/ ReadKilled(p) PROVE Allowed
  BY <1>1, <1>3 DEF ReadCall, ReadSleep, ReadKilled
<1>4. ASSUME NEW p \in Readers, ReadEof(p) \/ ReadByte(p) PROVE Allowed
  <2>1. r # w /\ buf' = buf /\ w' = w /\ e' = e /\ (r' = r \/ r' = Plus(r, 1))
    BY <1>4 DEF ReadEof, ReadByte
  <2>2. CASE r' = r
    BY <1>1, <2>1, <2>2 DEF input
  <2>3. CASE r' = Plus(r, 1)
    BY <2>1, <2>3, GetImplements DEF Allowed
  <2>. QED  BY <2>1, <2>2, <2>3
<1>5. ASSUME NEW p \in Writers, WriteCall(p) \/ WriteSleep(p) \/ WriteStore(p) PROVE Allowed
  BY <1>1, <1>5 DEF WriteCall, WriteSleep, WriteStore
<1>6. ASSUME NEW x \in Writers \cup {Handler}, StartByte(x) \/ SendByte(x) \/ StartEnd(x)
      PROVE  Allowed
  BY <1>1, <1>6 DEF StartByte, SendByte, StartEnd
<1>7. CASE KeyTyped \/ Sent \/ Interrupt \/ TxLock \/ KeyLost \/ EchoLook \/ EchoByte \/ EchoEnd
  BY <1>1, <1>7 DEF KeyTyped, Sent, Interrupt, TxLock, KeyLost, EchoLook, EchoByte, EchoEnd
<1>8. CASE KeyStore
  BY <1>8, TypeImplements DEF Allowed
<1>9. CASE KeyErase
  <2>1. ~Erasable => UNCHANGED input
    BY <1>9 DEF KeyErase, input
  <2>. QED  BY <1>1, <1>9, <2>1, EraseImplements DEF Allowed
<1>10. CASE KeyKill
  BY <1>10, KillImplements DEF Allowed
<1>. QED  BY <1>2, <1>3, <1>4, <1>5, <1>6, <1>7, <1>8, <1>9, <1>10 DEF ConsNext

\* For every size of the ring and wherever its indices wrap around, the console is an
\* edited line and a queue of complete input: what is complete is read once, in order,
\* and never erased, overwritten or dropped.
THEOREM ConsoleIsTty == ConsSpec => ImplementsTty
<1>1. ConsInit => Abstract!TtyInit
  <2> SUFFICES ASSUME ConsInit PROVE Abstract!TtyInit
    OBVIOUS
  <2>1. r = 0 /\ w = 0 /\ e = 0 /\ 0 \in Index
    BY Sizes DEF ConsInit, Index
  <2>2. Between(r, w) = <<>> /\ Between(w, e) = <<>>
    BY <2>1, RingEmpty, Stretches
  <2>. QED  BY <2>2 DEF Abstract!TtyInit
<1>2. CInv /\ [ConsNext]_consVars
        => [(\E c \in Chars : Abstract!Type(c)) \/ Abstract!Erase \/ Abstract!KillLine \/ Abstract!Get]_<<Between(r, w), Between(w, e)>>
  BY NextImplements DEF Allowed
<1>. QED  BY <1>1, <1>2, ConsoleInvariant, PTL DEF ConsSpec, ImplementsTty,
             Abstract!TtySpec

==============================================================================
