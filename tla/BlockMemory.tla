---------------------------- MODULE BlockMemory ----------------------------
(***************************************************************************)
(* What the buffer cache promises: the blocks of the disk are a memory in  *)
(* which one user at a time has a block, between bread() and brelse(), and *)
(* finds in it what the last user has left.  Bcache implements this.       *)
(***************************************************************************)
CONSTANTS Users, Blocks, Vals, Blank, NoBlock

VARIABLES
  mem,     \* the contents of the blocks
  held,    \* the block that each user has
  view     \* what it sees there

vars == <<mem, held, view>>

Init == /\ mem = [b \in Blocks |-> Blank]
        /\ held = [u \in Users |-> NoBlock]
        /\ view = [u \in Users |-> Blank]

Take(u, b) == /\ held[u] = NoBlock
              /\ \A w \in Users : held[w] # b
              /\ held' = [held EXCEPT ![u] = b]
              /\ view' = [view EXCEPT ![u] = mem[b]]
              /\ UNCHANGED mem

Store(u, v) == /\ held[u] # NoBlock
               /\ mem' = [mem EXCEPT ![held[u]] = v]
               /\ view' = [view EXCEPT ![u] = v]
               /\ UNCHANGED held

Give(u) == /\ held[u] # NoBlock
           /\ held' = [held EXCEPT ![u] = NoBlock]
           /\ view' = [view EXCEPT ![u] = Blank]
           /\ UNCHANGED mem

Next == \E u \in Users : \/ \E b \in Blocks : Take(u, b)
                         \/ \E v \in Vals : Store(u, v)
                         \/ Give(u)

Spec == Init /\ [][Next]_vars
=============================================================================
