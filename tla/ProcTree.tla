------------------------------ MODULE ProcTree ------------------------------
(***************************************************************************)
(* What fork(), exit() and wait() promise their callers, with every lock,  *)
(* CPU and sleeping process left out: a forest of processes in which each  *)
(* process has one live parent, a dead process keeps its slot until its    *)
(* parent collects it, and the children of a dead process belong to init.  *)
(* Proc implements this specification.                                     *)
(***************************************************************************)
CONSTANTS
  Procs,     \* the slots of the process table
  Init0,     \* the slot of init, the first process
  NoProc     \* the null pointer

VARIABLES
  life,      \* life[p]: "free", "alive" or "dead"
  owner      \* owner[p]: the process that may collect p

vars == <<life, owner>>

Init == /\ life = [p \in Procs |-> IF p = Init0 THEN "alive" ELSE "free"]
        /\ owner = [p \in Procs |-> NoProc]

\* p gets a child in the free slot q.
Fork(p, q) == /\ life[p] = "alive" /\ life[q] = "free"
              /\ life' = [life EXCEPT ![q] = "alive"]
              /\ owner' = [owner EXCEPT ![q] = p]

\* p dies and, in the same step, init adopts p's children, dead or alive.
Exit(p) == /\ life[p] = "alive" /\ p # Init0
           /\ life' = [life EXCEPT ![p] = "dead"]
           /\ owner' = [q \in Procs |-> IF owner[q] = p THEN Init0 ELSE owner[q]]

\* p collects its dead child q: once, and nobody else's child.
Reap(p, q) == /\ life[p] = "alive" /\ life[q] = "dead" /\ owner[q] = p
              /\ life' = [life EXCEPT ![q] = "free"]
              /\ owner' = [owner EXCEPT ![q] = NoProc]

Next == \/ \E p, q \in Procs : Fork(p, q) \/ Reap(p, q)
        \/ \E p \in Procs : Exit(p)

Spec == Init /\ [][Next]_vars
=============================================================================
