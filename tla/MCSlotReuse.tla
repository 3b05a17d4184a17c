---------------------------- MODULE MCSlotReuse ----------------------------
(***************************************************************************)
(* A slot is used by one process after another and its flags are cleared   *)
(* only by the next fork.  The history variable past remembers, by pid,    *)
(* who was marked by Ctrl+C, whose read was cancelled and who asked for    *)
(* deferral, so that a flag can be traced to its process.                  *)
(***************************************************************************)
EXTENDS MCProcesses

VARIABLE past

Gained(flags, s) == flags'[s] /\ ~flags[s]

HistInit == Init /\ past = [marked |-> {}, cancelled |-> {}, asked |-> {}]

HistNext ==
    /\ Next
    /\ past' = [marked    |-> past.marked \cup {pid[s] : s \in {t \in Slot : Gained(interrupted, t)}},
                cancelled |-> past.cancelled \cup {pid[s] : s \in {t \in Slot : Gained(cancel_read, t)}},
                asked     |-> past.asked \cup {pid[s] : s \in {t \in Slot : Gained(deferred, t)}}]

HistSpec == HistInit /\ [][HistNext]_<<vars, past>>

(* No flag outlives its process: a process killed by Ctrl+C (exit code 2)  *)
(* was itself marked, a read fails only by its own cancellation, and only  *)
(* a process that asked for deferral survives a mark.                      *)
FlagsBelongToTheirProcess ==
    \A s \in Slot : occupied(s) =>
        /\ (state[s] = "zombie" /\ exit_code[s] = 2) => pid[s] \in past.marked
        /\ interrupted[s] => pid[s] \in past.marked
        /\ cancel_read[s] => pid[s] \in past.cancelled
        /\ deferred[s] => pid[s] \in past.asked
=============================================================================
