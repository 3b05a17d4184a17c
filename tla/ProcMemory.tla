----------------------------- MODULE ProcMemory -----------------------------
(***************************************************************************)
(* What the process layer promises about memory, without the one window    *)
(* and the snapshots: every live process has an image of its own, and only *)
(* the image of the process that is brought to run ever changes.  A new    *)
(* process starts with a copy of the running one's image; an ended process *)
(* has none.                                                               *)
(***************************************************************************)
CONSTANTS Slot, Image, None

VARIABLES mem, run

vars == <<mem, run>>

TypeOK == mem \in [Slot -> Image \cup {None}] /\ run \in Slot

Init ==
    /\ run \in Slot
    /\ mem[run] \in Image
    /\ \A s \in Slot \ {run} : mem[s] = None

(* The process brought to run, or still running, changes its own image.    *)
Store(s) ==
    /\ mem[s] # None /\ mem'[s] \in Image
    /\ mem' = [mem EXCEPT ![s] = mem'[s]]
    /\ run' = s

Spawn(s) ==
    /\ mem[s] = None /\ mem[run] # None
    /\ mem' = [mem EXCEPT ![s] = mem[run]]
    /\ UNCHANGED run

(* A process ends while its own image is the one in use.                   *)
End(s) ==
    /\ mem[s] # None
    /\ mem' = [mem EXCEPT ![s] = None]
    /\ run' = s

Next ==
    \E s \in Slot : Store(s) \/ Spawn(s) \/ End(s)

Spec == Init /\ [][Next]_vars
=============================================================================
