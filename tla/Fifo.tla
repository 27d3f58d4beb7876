-------------------------------- MODULE Fifo --------------------------------
(***************************************************************************)
(* What a pipe promises: a bounded first-in first-out queue of bytes       *)
(* between a write end and a read end, each of which closes once.  Bytes   *)
(* enter one at a time, while both ends are open; they leave from the      *)
(* front, several at a time, while the read end is open.                   *)
(***************************************************************************)
EXTENDS Naturals, Sequences

CONSTANTS Bytes, Capacity

VARIABLES queue, readopen, writeopen

vars == <<queue, readopen, writeopen>>

Init == queue = <<>> /\ readopen = 1 /\ writeopen = 1

Put(b) == /\ readopen = 1 /\ writeopen = 1 /\ Len(queue) < Capacity
          /\ queue' = Append(queue, b)
          /\ UNCHANGED <<readopen, writeopen>>

Take(n) == /\ readopen = 1
           /\ queue' = SubSeq(queue, n + 1, Len(queue))
           /\ UNCHANGED <<readopen, writeopen>>

CloseRead == readopen = 1 /\ readopen' = 0 /\ UNCHANGED <<queue, writeopen>>
CloseWrite == writeopen = 1 /\ writeopen' = 0 /\ UNCHANGED <<queue, readopen>>

Next == \/ \E b \in Bytes : Put(b)
        \/ \E n \in 1..Len(queue) : Take(n)
        \/ CloseRead \/ CloseWrite

Spec == Init /\ [][Next]_vars
=============================================================================
