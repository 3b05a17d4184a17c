------------------------------ MODULE FsStore ------------------------------
(***************************************************************************)
(* What the caches promise: one value per cell (a data block or an inode). *)
(* Programs ask for one thing at a time.  The values change when a write   *)
(* that was asked for is done, as it was asked for, and at no other time;  *)
(* a read is answered with the value of its block.                         *)
(***************************************************************************)
EXTENDS Sequences

CONSTANTS DataBlocks, Inos, Owner, Val, Zero

VARIABLES store, request, answer

svars == <<store, request, answer>>

(* Clearing gives a block to a file; other requests open and close files   *)
(* and sync.                                                               *)
Read(b)     == [op |-> "read", b |-> b]
Write(b, v) == [op |-> "write", b |-> b, v |-> v]
Clear(b)    == [op |-> "clear", b |-> b]
Other       == [op |-> "other"]
Nothing     == [op |-> "none"]

Init ==
    /\ store = [c \in DataBlocks \cup Inos |-> Zero]
    /\ request = Nothing /\ answer = <<>>

Ask ==
    /\ request = Nothing
    /\ \/ request' = Other
       \/ \E b \in DataBlocks :
             request' \in {Read(b), Clear(b)} \cup {Write(b, v) : v \in Val}
    /\ UNCHANGED <<store, answer>>

Answer ==
    /\ request.op = "read" /\ answer = <<>>
    /\ answer' = <<store[request.b]>>
    /\ UNCHANGED <<store, request>>

Done == request' = Nothing /\ answer' = <<>>

ReadDone  == request.op = "read" /\ answer # <<>> /\ Done /\ UNCHANGED store
OtherDone == request.op = "other" /\ Done /\ UNCHANGED store
ClearDone == request.op = "clear" /\ Done /\ store' = [store EXCEPT ![request.b] = Zero]

(* The inode of the file changes with the block when the file has grown.   *)
WriteDone ==
    /\ request.op = "write" /\ Done
    /\ \/ store' = [store EXCEPT ![request.b] = request.v]
       \/ store' = [store EXCEPT ![request.b] = request.v, ![Owner[request.b]] = request.v]

Next == Ask \/ Answer \/ ReadDone \/ OtherDone \/ ClearDone \/ WriteDone

Spec == Init /\ [][Next]_svars
=============================================================================
