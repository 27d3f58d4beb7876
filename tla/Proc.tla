-------------------------------- MODULE Proc --------------------------------
(***************************************************************************)
(* The process table of xv6 (kernel/proc.c): fork, exit, wait, sleep,      *)
(* wakeup, kill, yield and the per-CPU scheduler, with the two kinds of    *)
(* spin lock they use (p->lock of every slot and wait_lock).               *)
(*                                                                         *)
(* A thread runs on a CPU: the scheduler's own thread or the kernel or     *)
(* user thread of curproc[c].  pc[c] is the point that thread has reached; *)
(* swtch() saves it in context[p] and loads the other thread's.  A         *)
(* critical section that takes no second lock and does not reach swtch()   *)
(* is one step, guarded by the lock being free; a lock that is held across *)
(* other steps is recorded with the CPU that holds it.                     *)
(***************************************************************************)
EXTENDS Naturals

CONSTANTS
  NPROC,       \* param.h: size of the process table
  CPUs,        \* the harts
  NoCpu,       \* the holder of a free lock
  Signals      \* what may mark processes killed: "kill", "kill0", "fault"

ASSUME TableAssumption == NPROC \in Nat \ {0}
ASSUME CpuAssumption == NoCpu \notin CPUs
ASSUME SignalsAssumption == Signals \subseteq {"kill", "kill0", "fault"}

Procs == 1..NPROC
NoProc == 0              \* the null pointer
initproc == 1            \* userinit() takes the first slot

VARIABLES
  state,       \* p->state
  chan,        \* p->chan; the only channel here is wait()'s, the parent itself
  killed,      \* p->killed
  parent,      \* p->parent
  context,     \* p->context: the point at which swtch() resumes p
  lock,        \* holder of p->lock
  wait_lock,   \* holder of wait_lock
  proc,        \* c->proc
  pc,          \* the point reached by the thread that runs on CPU c
  resume,      \* where p continues after a timer interrupt's yield()
  idx,         \* loop variable of p's scan of the table in wakeup() and wait()
  np,          \* fork()'s local np
  victims      \* history: slots named by kill() or at fault since allocproc()

tableVars == <<state, chan, killed, parent>>
localVars == <<resume, idx, np>>
vars == <<tableVars, context, lock, wait_lock, proc, pc, localVars, victims>>

States == {"UNUSED", "USED", "SLEEPING", "RUNNABLE", "RUNNING", "ZOMBIE"}

\* Mutant: acquire() forgets push_off(), so the timer may fire under wait_lock.
PreemptibleLocked == {"user", "ret", "forkParent", "forkRun", "exitLock", "waitLock",
                      "waitCheck"}
\* Points of a process's thread at which it holds no lock and interrupts are
\* enabled (push_off() in acquire()), so that the timer may take the CPU away.
Preemptible == {"user", "ret", "forkParent", "forkRun", "exitLock", "waitLock"}
\* Points inside exit() and wait() with wait_lock held.
UnderWaitLock == {"reparent", "wakeInit", "wakeParent", "exitZombie",
                  "waitScan", "waitCheck", "waitSleep"}
\* Points about to call sched(), with p->lock held, and where it returns to.
AtSched == {"sleepSched", "yieldSched", "exitSched"}
AfterSched(l) == CASE l = "sleepSched" -> "sleepTail"
                   [] l = "yieldSched" -> "yieldTail"
                   [] OTHER -> "zombieExit"
\* Points at which swtch() has just returned to p, p->lock still held.
Resumed == {"sleepTail", "yieldTail", "forkret", "zombieExit"}
InScheduler == {"scan", "back"}

Labels == Preemptible \cup UnderWaitLock \cup AtSched \cup Resumed
              \cup InScheduler

Children(p) == {q \in Procs : parent[q] = p}

Init ==
  /\ state = [p \in Procs |-> IF p = initproc THEN "RUNNABLE" ELSE "UNUSED"]
  /\ chan = [p \in Procs |-> NoProc]
  /\ killed = [p \in Procs |-> FALSE]
  /\ parent = [p \in Procs |-> NoProc]
  /\ context = [p \in Procs |-> "forkret"]
  /\ lock = [p \in Procs |-> NoCpu]
  /\ wait_lock = NoCpu
  /\ proc = [c \in CPUs |-> NoProc]
  /\ pc = [c \in CPUs |-> "scan"]
  /\ resume = [p \in Procs |-> "user"]
  /\ idx = [p \in Procs |-> 1]
  /\ np = [p \in Procs |-> NoProc]
  /\ victims = {}

\* Mutant: the loop runs past the last slot.
NextSlotLate(i) == i + 1
\* The next value of a loop variable over the table.
NextSlot(i) == IF i = NPROC THEN 1 ELSE i + 1

\* CPU c runs the thread of p, which has reached point l and moves to m.
Step(c, p, l, m) == /\ proc[c] = p /\ pc[c] = l
                    /\ pc' = [pc EXCEPT ![c] = m]

-----------------------------------------------------------------------------
(* scheduler(), sched() and yield() *)

\* scheduler() finds p RUNNABLE and swtch()es to it, keeping p->lock.  Its
\* position in the table is left out: any RUNNABLE process may be next.
Dispatch(c, p) ==
  /\ pc[c] = "scan" /\ lock[p] = NoCpu /\ state[p] = "RUNNABLE"
  /\ lock' = [lock EXCEPT ![p] = c]
  /\ state' = [state EXCEPT ![p] = "RUNNING"]
  /\ proc' = [proc EXCEPT ![c] = p]
  /\ pc' = [pc EXCEPT ![c] = context[p]]
  /\ UNCHANGED <<chan, killed, parent, context, wait_lock, localVars, victims>>

\* sched(): swtch() saves p's context and resumes the scheduler.
Sched(c, p) ==
  /\ proc[c] = p /\ pc[c] \in AtSched
  /\ context' = [context EXCEPT ![p] = AfterSched(pc[c])]
  /\ pc' = [pc EXCEPT ![c] = "back"]
  /\ UNCHANGED <<tableVars, lock, wait_lock, proc, localVars, victims>>

\* scheduler() after swtch(): forget p and release p->lock.
Back(c, p) ==
  /\ proc[c] = p /\ pc[c] = "back"
  /\ proc' = [proc EXCEPT ![c] = NoProc]
  /\ lock' = [lock EXCEPT ![p] = NoCpu]
  /\ pc' = [pc EXCEPT ![c] = "scan"]
  /\ UNCHANGED <<tableVars, context, wait_lock, localVars, victims>>

\* A timer interrupt calls yield(), from user mode (where usertrap() looks at
\* p->killed first) or from inside a system call.
Yield(c, p) ==
  /\ proc[c] = p /\ pc[c] \in Preemptible
  /\ pc[c] = "user" => ~killed[p]
  /\ lock[p] = NoCpu
  /\ lock' = [lock EXCEPT ![p] = c]
  /\ state' = [state EXCEPT ![p] = "RUNNABLE"]
  /\ resume' = [resume EXCEPT ![p] = pc[c]]
  /\ pc' = [pc EXCEPT ![c] = "yieldSched"]
  /\ UNCHANGED <<chan, killed, parent, context, wait_lock, proc, idx, np, victims>>

YieldTail(c, p) ==
  /\ Step(c, p, "yieldTail", resume[p])
  /\ lock' = [lock EXCEPT ![p] = NoCpu]
  /\ resume' = [resume EXCEPT ![p] = "user"]
  /\ UNCHANGED <<tableVars, context, wait_lock, proc, idx, np, victims>>

Forkret(c, p) ==
  /\ Step(c, p, "forkret", "user")
  /\ lock' = [lock EXCEPT ![p] = NoCpu]
  /\ UNCHANGED <<tableVars, context, wait_lock, proc, localVars, victims>>

-----------------------------------------------------------------------------
(* usertrap(): system calls, faults and the checks of p->killed *)

\* A trap from user mode, or the end of a system call, finds p killed.
\* init is never killed here: exit() would panic "init exiting".
KilledExit(c, p) ==
  /\ pc[c] \in {"user", "ret"} /\ killed[p] /\ lock[p] = NoCpu
  /\ Step(c, p, pc[c], "exitLock")
  /\ UNCHANGED <<tableVars, context, lock, wait_lock, proc, localVars, victims>>

\* The system call is over.
Return(c, p) ==
  /\ pc[c] = "ret" /\ ~killed[p] /\ lock[p] = NoCpu
  /\ Step(c, p, "ret", "user")
  /\ UNCHANGED <<tableVars, context, lock, wait_lock, proc, localVars, victims>>

\* An unexpected trap from user mode: setkilled(p).
Fault(c, p) ==
  /\ "fault" \in Signals /\ p # initproc /\ lock[p] = NoCpu
  /\ Step(c, p, "user", "ret")
  /\ killed' = [killed EXCEPT ![p] = TRUE]
  /\ victims' = victims \cup {p}
  /\ UNCHANGED <<state, chan, parent, context, lock, wait_lock, proc, localVars>>

-----------------------------------------------------------------------------
(* fork() *)

\* Mutant: the next user of the slot inherits p->killed.
freeprocKeepsKilled(i) ==
  /\ state' = [state EXCEPT ![i] = "UNUSED"]
  /\ chan' = [chan EXCEPT ![i] = NoProc]
  /\ parent' = [parent EXCEPT ![i] = NoProc]
  /\ UNCHANGED killed
\* freeproc() under the lock of slot i.
freeproc(i) ==
  /\ state' = [state EXCEPT ![i] = "UNUSED"]
  /\ chan' = [chan EXCEPT ![i] = NoProc]
  /\ killed' = [killed EXCEPT ![i] = FALSE]
  /\ parent' = [parent EXCEPT ![i] = NoProc]

\* allocproc() to release(&np->lock): the child's lock is held throughout.  Any
\* UNUSED slot may be the one found, since slots passed over may become UNUSED
\* during the scan.
ForkAlloc(c, p, q) ==
  /\ state[q] = "UNUSED" /\ lock[q] = NoCpu /\ ~killed[p]
  /\ Step(c, p, "user", "forkParent")
  /\ state' = [state EXCEPT ![q] = "USED"]
  /\ context' = [context EXCEPT ![q] = "forkret"]
  /\ np' = [np EXCEPT ![p] = q]
  /\ victims' = victims \ {q}
  /\ UNCHANGED <<chan, killed, parent, lock, wait_lock, proc, resume, idx>>

\* There is no memory for the trapframe, for a page table or for the copy of
\* the parent: freeproc() under the child's lock, and -1.
ForkFail(c, p, q) ==
  /\ state[q] = "UNUSED" /\ lock[q] = NoCpu /\ ~killed[p]
  /\ Step(c, p, "user", "ret")
  /\ freeproc(q)
  /\ UNCHANGED <<context, lock, wait_lock, proc, localVars, victims>>

\* fork() finds no slot; any system call that leaves the table alone does this.
OtherCall(c, p) ==
  /\ ~killed[p] /\ Step(c, p, "user", "ret")
  /\ UNCHANGED <<tableVars, context, lock, wait_lock, proc, localVars, victims>>

ForkParent(c, p) ==
  /\ wait_lock = NoCpu
  /\ Step(c, p, "forkParent", "forkRun")
  /\ parent' = [parent EXCEPT ![np[p]] = p]
  /\ UNCHANGED <<state, chan, killed, context, lock, wait_lock, proc, localVars, victims>>

ForkRun(c, p) ==
  /\ Step(c, p, "forkRun", "ret")
  /\ lock[np[p]] = NoCpu
  /\ state' = [state EXCEPT ![np[p]] = "RUNNABLE"]
  /\ np' = [np EXCEPT ![p] = NoProc]
  /\ UNCHANGED <<chan, killed, parent, context, lock, wait_lock, proc, resume, idx, victims>>

-----------------------------------------------------------------------------
(* exit(), reparent() and wakeup() *)

\* sys_exit.  Closing files and dropping the directory is the file system's.
ExitCall(c, p) ==
  /\ p # initproc /\ ~killed[p]
  /\ Step(c, p, "user", "exitLock")
  /\ UNCHANGED <<tableVars, context, lock, wait_lock, proc, localVars, victims>>

ExitLock(c, p) ==
  /\ wait_lock = NoCpu
  /\ Step(c, p, "exitLock", "reparent")
  /\ wait_lock' = c
  /\ UNCHANGED <<tableVars, context, lock, proc, localVars, victims>>

\* Mutant: only the children that still live get a new parent.
AdoptedLiving(p) == [q \in Procs |-> IF parent[q] = p /\ state[q] # "ZOMBIE" THEN initproc
                                     ELSE parent[q]]
\* The parents once p's children are init's.
Adopted(p) == [q \in Procs |-> IF parent[q] = p THEN initproc ELSE parent[q]]

\* reparent(): the code calls wakeup(initproc) once per child.  One call after
\* the loop has the same effect: wait_lock is held until then, and init cannot
\* go to sleep in wait() without it.
Reparent(c, p) ==
  /\ Step(c, p, "reparent", IF Children(p) = {} THEN "wakeParent" ELSE "wakeInit")
  /\ parent' = Adopted(p)
  /\ UNCHANGED <<state, chan, killed, context, lock, wait_lock, proc, localVars, victims>>

\* Mutant: the loop starts at the second slot.
WokenFromSecond(p, i, ch) ==
  IF i # p /\ i # 1 /\ state[i] = "SLEEPING" /\ chan[i] = ch
  THEN [state EXCEPT ![i] = "RUNNABLE"] ELSE state
\* The slots after one lock of wakeup(ch) at slot i, for the caller p.
Woken(p, i, ch) ==
  IF i # p /\ state[i] = "SLEEPING" /\ chan[i] = ch
  THEN [state EXCEPT ![i] = "RUNNABLE"] ELSE state

\* One iteration of wakeup(initproc) and of wakeup(p->parent).
Wakeup(c, p) ==
  LET i == idx[p]
      ch == IF pc[c] = "wakeInit" THEN initproc ELSE parent[p]
      last == i = NPROC
  IN /\ pc[c] \in {"wakeInit", "wakeParent"}
     /\ i # p => lock[i] = NoCpu
     /\ Step(c, p, pc[c], IF ~last THEN pc[c]
                          ELSE IF pc[c] = "wakeInit" THEN "wakeParent" ELSE "exitZombie")
     /\ state' = Woken(p, i, ch)
     /\ idx' = [idx EXCEPT ![p] = NextSlot(i)]
     /\ UNCHANGED <<chan, killed, parent, context, lock, wait_lock, proc, resume, np, victims>>

\* Take p->lock, become a ZOMBIE, release wait_lock and call sched().
ExitZombie(c, p) ==
  /\ lock[p] = NoCpu
  /\ Step(c, p, "exitZombie", "exitSched")
  /\ lock' = [lock EXCEPT ![p] = c]
  /\ state' = [state EXCEPT ![p] = "ZOMBIE"]
  /\ wait_lock' = NoCpu
  /\ UNCHANGED <<chan, killed, parent, context, proc, localVars, victims>>

-----------------------------------------------------------------------------
(* wait() and sleep() *)

WaitCall(c, p) ==
  /\ ~killed[p] /\ Step(c, p, "user", "waitLock")
  /\ UNCHANGED <<tableVars, context, lock, wait_lock, proc, localVars, victims>>

WaitLock(c, p) ==
  /\ wait_lock = NoCpu
  /\ Step(c, p, "waitLock", "waitScan")
  /\ wait_lock' = c
  /\ UNCHANGED <<tableVars, context, lock, proc, localVars, victims>>

\* The scan passes a slot that is not p's child (whose lock it does not take)
\* or is a child that still lives.
WaitPass(c, p) ==
  LET i == idx[p]
      last == i = NPROC
  IN /\ parent[i] = p => lock[i] = NoCpu /\ state[i] # "ZOMBIE"
     /\ Step(c, p, "waitScan", IF last THEN "waitCheck" ELSE "waitScan")
     /\ idx' = [idx EXCEPT ![p] = NextSlot(i)]
     /\ UNCHANGED <<tableVars, context, lock, wait_lock, proc, resume, np, victims>>

\* The scan finds a zombie child and frees its slot.
WaitReap(c, p) ==
  LET i == idx[p]
  IN /\ parent[i] = p /\ lock[i] = NoCpu /\ state[i] = "ZOMBIE"
     /\ Step(c, p, "waitScan", "ret")
     /\ freeproc(i)
     /\ wait_lock' = NoCpu
     /\ idx' = [idx EXCEPT ![p] = 1]
     /\ UNCHANGED <<context, lock, proc, resume, np, victims>>

\* The zombie's status cannot be copied to the parent's address: -1, no reap.
\* init passes no address (user/init.c).
WaitCopyFail(c, p) ==
  LET i == idx[p]
  IN /\ p # initproc
     /\ parent[i] = p /\ lock[i] = NoCpu /\ state[i] = "ZOMBIE"
     /\ Step(c, p, "waitScan", "ret")
     /\ wait_lock' = NoCpu
     /\ idx' = [idx EXCEPT ![p] = 1]
     /\ UNCHANGED <<tableVars, context, lock, proc, resume, np, victims>>

\* Mutant: wait() releases wait_lock before it calls sleep().
WaitCheckUnlock(c, p) ==
  LET giveUp == Children(p) = {} \/ killed[p]
  IN /\ Children(p) # {} => lock[p] = NoCpu
     /\ Step(c, p, "waitCheck", IF giveUp THEN "ret" ELSE "waitSleep")
     /\ wait_lock' = NoCpu
     /\ UNCHANGED <<tableVars, context, lock, proc, localVars, victims>>
\* if(!havekids || killed(p)) return -1; wait_lock kept the children the same.
WaitCheck(c, p) ==
  LET giveUp == Children(p) = {} \/ killed[p]
  IN /\ Children(p) # {} => lock[p] = NoCpu
     /\ Step(c, p, "waitCheck", IF giveUp THEN "ret" ELSE "waitSleep")
     /\ wait_lock' = IF giveUp THEN NoCpu ELSE c
     /\ UNCHANGED <<tableVars, context, lock, proc, localVars, victims>>

\* Mutant: sleep() releases p->lock before it calls sched().
SleepUnlocked(c, p) ==
  /\ lock[p] = NoCpu
  /\ Step(c, p, "waitSleep", "sleepSched")
  /\ wait_lock' = NoCpu
  /\ chan' = [chan EXCEPT ![p] = p]
  /\ state' = [state EXCEPT ![p] = "SLEEPING"]
  /\ UNCHANGED <<killed, parent, context, lock, proc, localVars, victims>>
\* sleep(p, &wait_lock): take p->lock, then release wait_lock.
Sleep(c, p) ==
  /\ lock[p] = NoCpu
  /\ Step(c, p, "waitSleep", "sleepSched")
  /\ lock' = [lock EXCEPT ![p] = c]
  /\ wait_lock' = NoCpu
  /\ chan' = [chan EXCEPT ![p] = p]
  /\ state' = [state EXCEPT ![p] = "SLEEPING"]
  /\ UNCHANGED <<killed, parent, context, proc, localVars, victims>>

\* After sched(): release p->lock, then take wait_lock and scan again.
SleepTail(c, p) ==
  /\ Step(c, p, "sleepTail", "waitLock")
  /\ chan' = [chan EXCEPT ![p] = NoProc]
  /\ lock' = [lock EXCEPT ![p] = NoCpu]
  /\ UNCHANGED <<state, killed, parent, context, wait_lock, proc, localVars, victims>>

-----------------------------------------------------------------------------
(* kill() *)

\* Mutant: kill() makes its victim RUNNABLE in any state.
KillAnyState(c, p, q) ==
  /\ q # initproc /\ state[q] # "UNUSED" /\ lock[q] = NoCpu
  /\ ~killed[p] /\ Step(c, p, "user", "ret")
  /\ killed' = [killed EXCEPT ![q] = TRUE]
  /\ state' = [state EXCEPT ![q] = "RUNNABLE"]
  /\ victims' = victims \cup {q}
  /\ UNCHANGED <<chan, parent, context, lock, wait_lock, proc, localVars>>
\* kill(pid) of the process in slot q, which may be the caller itself.
Kill(c, p, q) ==
  /\ "kill" \in Signals
  /\ q # initproc /\ state[q] # "UNUSED" /\ lock[q] = NoCpu
  /\ ~killed[p] /\ Step(c, p, "user", "ret")
  /\ killed' = [killed EXCEPT ![q] = TRUE]
  /\ state' = [state EXCEPT ![q] = IF @ = "SLEEPING" THEN "RUNNABLE" ELSE @]
  /\ victims' = victims \cup {q}
  /\ UNCHANGED <<chan, parent, context, lock, wait_lock, proc, localVars>>

\* kill(0): an UNUSED slot's p->pid is 0, and kill() does not look at its
\* state: it marks the first such slot.
KillPidZero(c, p, q) ==
  /\ "kill0" \in Signals /\ state[q] = "UNUSED" /\ lock[q] = NoCpu
  /\ \A r \in 1..(q - 1) : state[r] # "UNUSED"
  /\ ~killed[p] /\ Step(c, p, "user", "ret")
  /\ killed' = [killed EXCEPT ![q] = TRUE]
  /\ UNCHANGED <<state, chan, parent, context, lock, wait_lock, proc, localVars, victims>>

-----------------------------------------------------------------------------
\* What user programs choose to do.
UserStep(c, p) ==
  \/ ExitCall(c, p) \/ WaitCall(c, p) \/ OtherCall(c, p) \/ Fault(c, p)
  \/ \E q \in Procs : \/ ForkAlloc(c, p, q) \/ ForkFail(c, p, q)
                      \/ Kill(c, p, q) \/ KillPidZero(c, p, q)

\* What the kernel does by itself once it runs.
KernelStep(c, p) ==
  \/ Sched(c, p) \/ Back(c, p) \/ YieldTail(c, p) \/ Forkret(c, p)
  \/ KilledExit(c, p) \/ Return(c, p)
  \/ ForkParent(c, p) \/ ForkRun(c, p)
  \/ ExitLock(c, p) \/ Reparent(c, p) \/ Wakeup(c, p) \/ ExitZombie(c, p)
  \/ WaitLock(c, p) \/ WaitPass(c, p) \/ WaitReap(c, p) \/ WaitCopyFail(c, p)
  \/ WaitCheck(c, p) \/ Sleep(c, p) \/ SleepTail(c, p)

Next == \E c \in CPUs, p \in Procs :
          Dispatch(c, p) \/ Yield(c, p) \/ UserStep(c, p) \/ KernelStep(c, p)

Spec == Init /\ [][Next]_vars

-----------------------------------------------------------------------------
(* Properties *)

\* Every variable keeps its type, for any size of the table and set of harts.
TypeOK ==
  /\ state \in [Procs -> States]
  /\ chan \in [Procs -> Procs \cup {NoProc}]
  /\ killed \in [Procs -> BOOLEAN]
  /\ parent \in [Procs -> Procs \cup {NoProc}]
  /\ context \in [Procs -> Resumed]
  /\ lock \in [Procs -> CPUs \cup {NoCpu}]
  /\ wait_lock \in CPUs \cup {NoCpu}
  /\ proc \in [CPUs -> Procs \cup {NoProc}]
  /\ pc \in [CPUs -> Labels]
  /\ resume \in [Procs -> Preemptible]
  /\ idx \in [Procs -> Procs]
  /\ np \in [Procs -> Procs \cup {NoProc}]
  /\ victims \subseteq Procs

\* Two CPUs never run on one kernel stack.  swtch() leaves p's context half
\* saved while p is already SLEEPING, RUNNABLE or ZOMBIE: only p->lock, held
\* from there until the scheduler's release, keeps other CPUs away.
OneCpuPerProc == \A c, d \in CPUs : proc[c] = proc[d] /\ proc[c] # NoProc => c = d

\* A CPU on p's kernel stack either owns p because it is RUNNING, or holds
\* p->lock: wait() cannot free a zombie whose stack is still in use
\* (proc.c:425, "make sure the child isn't still in exit() or swtch()").
StackOwned ==
  \A c \in CPUs : proc[c] # NoProc => state[proc[c]] = "RUNNING" \/ lock[proc[c]] = c

\* sched()'s panics never fire: it is called with p->lock held and no other
\* lock ("sched p->lock", "sched locks"), and not in state RUNNING.
SchedChecks ==
  \A c \in CPUs : pc[c] \in AtSched =>
    /\ {p \in Procs : lock[p] = c} = {proc[c]} /\ wait_lock # c
    /\ state[proc[c]] # "RUNNING"

\* No lost wakeup: unless some thread is between reparenting and becoming a
\* ZOMBIE (it holds wait_lock), no process sleeps in wait() over a child that
\* is already a ZOMBIE.
NoMissedChild ==
  wait_lock = NoCpu =>
    \A p, q \in Procs : ~ (/\ state[p] = "SLEEPING" /\ chan[p] = p
                            /\ parent[q] = p /\ state[q] = "ZOMBIE")

\* proc.h: "If non-zero, have been killed".  A process is marked killed only
\* if kill() named it, or it faulted, since its slot was allocated.
KilledMeansKilled ==
  \A p \in Procs : state[p] # "UNUSED" /\ killed[p] => p \in victims

\* The thread of p is past reparent() in exit().
Exiting(p) == \E c \in CPUs : proc[c] = p /\ pc[c] \in {"wakeInit", "wakeParent", "exitZombie"}

Life(p) == IF state[p] = "UNUSED" \/ (state[p] = "USED" /\ parent[p] = NoProc) THEN "free"
           ELSE IF state[p] = "ZOMBIE" \/ Exiting(p) THEN "dead"
           ELSE "alive"

\* fork(), exit() and wait() implement the process tree: a child appears with
\* its parent, dies once, is init's if its parent is dead, is collected once.
Tree == INSTANCE ProcTree WITH Init0 <- initproc, owner <- parent,
                               life <- [p \in Procs |-> Life(p)]
ImplementsTree == Tree!Spec

\* Switching, which no lock delays.
Switch(p) == \E c \in CPUs : Sched(c, p) \/ Back(c, p) \/ YieldTail(c, p) \/ Forkret(c, p)

\* The rest of a system call; it competes for p->lock and wait_lock.
Progress(p) ==
  \E c \in CPUs :
    \/ KilledExit(c, p) \/ Return(c, p) \/ ForkParent(c, p) \/ ForkRun(c, p)
    \/ ExitLock(c, p) \/ Reparent(c, p) \/ Wakeup(c, p) \/ ExitZombie(c, p)
    \/ WaitLock(c, p) \/ WaitPass(c, p) \/ WaitReap(c, p) \/ WaitCopyFail(c, p)
    \/ WaitCheck(c, p) \/ Sleep(c, p) \/ SleepTail(c, p)

\* Fairness: each scheduler visits every slot again and again, the timer ends
\* every time slice, a spinning acquire() eventually gets its lock and a system
\* call has time to advance between two ticks.  User programs promise nothing.
Fairness ==
  \A p \in Procs :
    /\ SF_vars(\E c \in CPUs : Dispatch(c, p))
    /\ SF_vars(\E c \in CPUs : Yield(c, p))
    /\ SF_vars(Progress(p))
    /\ WF_vars(Switch(p))

FairSpec == Spec /\ Fairness

\* A parent asleep in wait() when a child becomes a ZOMBIE, its own or one that
\* init inherits, comes back from wait().
WaitReturns ==
  \A p \in Procs :
    (state[p] = "SLEEPING" /\ \E q \in Children(p) : state[q] = "ZOMBIE")
      ~> (\E c \in CPUs : proc[c] = p /\ pc[c] = "ret")
=============================================================================
