---------------------------- MODULE BlockDevice ----------------------------
(***************************************************************************)
(* What virtio_disk_rw() promises its callers: each call transfers its     *)
(* block once, between the call and the return, whatever the order in      *)
(* which the device completes the requests.  VirtioDisk implements this.   *)
(***************************************************************************)
CONSTANTS Procs, Blocks, Vals, Blank, NoBlock

VARIABLES
  store,    \* the blocks of the device
  status,   \* status[p]: "idle", "pending" or "served"
  req,      \* the block of p's call and its direction
  data      \* p's buffer

vars == <<store, status, req, data>>

NoReq == [block |-> NoBlock, write |-> FALSE]

Init == /\ store = [b \in Blocks |-> Blank]
        /\ status = [p \in Procs |-> "idle"]
        /\ req = [p \in Procs |-> NoReq]
        /\ data = [p \in Procs |-> Blank]

Start(p, r, v) == /\ status[p] = "idle"
                  /\ status' = [status EXCEPT ![p] = "pending"]
                  /\ req' = [req EXCEPT ![p] = r]
                  /\ data' = [data EXCEPT ![p] = v]
                  /\ UNCHANGED store

Serve(p) ==
  LET b == req[p].block
  IN /\ status[p] = "pending"
     /\ status' = [status EXCEPT ![p] = "served"]
     /\ IF req[p].write THEN store' = [store EXCEPT ![b] = data[p]] /\ UNCHANGED data
                        ELSE data' = [data EXCEPT ![p] = store[b]] /\ UNCHANGED store
     /\ UNCHANGED req

\* The caller takes the buffer.
Return(p) == /\ status[p] = "served"
             /\ status' = [status EXCEPT ![p] = "idle"]
             /\ data' = [data EXCEPT ![p] = Blank]
             /\ req' = [req EXCEPT ![p] = NoReq]
             /\ UNCHANGED store

Next == \E p \in Procs :
          \/ Serve(p) \/ Return(p)
          \/ \E r \in [block : Blocks, write : BOOLEAN], v \in Vals \cup {Blank} : Start(p, r, v)

Spec == Init /\ [][Next]_vars
=============================================================================
