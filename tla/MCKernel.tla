------------------------------ MODULE MCKernel -----------------------------
(***************************************************************************)
(* Three modules in one run: at the start one of them is chosen, and only  *)
(* that one moves.  They share no state, and the states of the run are the *)
(* sum of theirs.                                                          *)
(***************************************************************************)
EXTENDS MCFiles, Memory, Console

VARIABLE part

\* Programs of one segment, and of two that meet in the middle of a page.
MCImages == {<<1>>, <<3, 5>>}
MCSteps == {3, -1, -4}

KernelInit ==
  /\ part \in {"files", "memory", "console"}
  /\ FilesInit /\ MemInit /\ ConsInit
  /\ part = "files" \/ prog = 1

KernelNext ==
  /\ UNCHANGED part
  /\ \/ part = "files" /\ FilesNext /\ UNCHANGED <<memVars, consVars>>
     \/ part = "memory" /\ MemNext /\ UNCHANGED <<filesVars, consVars>>
     \/ part = "console" /\ ConsNext /\ UNCHANGED <<filesVars, memVars>>

KernelSpec == KernelInit /\ [][KernelNext]_<<part, filesVars, memVars, consVars>>
=============================================================================
