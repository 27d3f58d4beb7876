----------------------------- MODULE AtomicDisk -----------------------------
(***************************************************************************)
(* What the log promises the file system: a disk whose durable contents    *)
(* change only when no file system operation is under way, and then take   *)
(* in, all at once, everything the operations have written.  A crash       *)
(* returns to the durable contents.  Log implements this specification.    *)
(***************************************************************************)
CONSTANTS Ops, Blocks, Vals, Blank

VARIABLES
  durable,   \* what a crash now would leave, block by block
  current,   \* what a read now returns
  active     \* the operations between begin_op() and end_op()

vars == <<durable, current, active>>

Init == /\ durable = [b \in Blocks |-> Blank]
        /\ current = durable
        /\ active = {}

Begin(o) == /\ o \notin active
            /\ active' = active \cup {o}
            /\ UNCHANGED <<durable, current>>

Write(o, b, v) == /\ o \in active
                  /\ current' = [current EXCEPT ![b] = v]
                  /\ UNCHANGED <<durable, active>>

End(o) == /\ o \in active
          /\ active' = active \ {o}
          /\ UNCHANGED <<durable, current>>

\* Group commit: every operation whose writes it takes in has ended.
Commit == /\ active = {}
          /\ durable' = current
          /\ UNCHANGED <<current, active>>

Crash == /\ current' = durable
         /\ active' = {}
         /\ UNCHANGED durable

Next == \/ \E o \in Ops : Begin(o) \/ End(o) \/ \E b \in Blocks, v \in Vals : Write(o, b, v)
        \/ Commit \/ Crash

Spec == Init /\ [][Next]_vars
=============================================================================
