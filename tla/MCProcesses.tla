---------------------------- MODULE MCProcesses ----------------------------
(* Instances of Processes.tla for TLC: which calls programs make.          *)
EXTENDS Processes

Call(nr, a, b, c) == [nr |-> nr, a |-> a, b |-> b, c |-> c]
Calls0(nrs) == {Call(nr, 0, 0, 0) : nr \in nrs}

(* Process trees: forks, exits in any order, waits for one child or any,   *)
(* the foreground command changing, Ctrl+C at every poll.                  *)
TreeCalls ==
    Calls0({"exit", "fork"})
    \cup {Call("wait", p, 1, 0) : p \in {-1} \cup 2..MaxPid}
    \cup {Call("wait", -1, 0, 1)}
    \cup {Call("fg", p, 0, 0) : p \in {0} \cup 2..MaxPid}
TreeKeys == {"none", "interrupt"}

(* The terminal and cancellation: slots used again while reads, waits,     *)
(* marks, cancelled reads and deferrals are pending.                       *)
TermCalls ==
    Calls0({"fork", "exit"})
    \cup {Call("wait", -1, 0, 0), Call("read", 0, 0, 1)}
    \cup {Call("fg", p, 0, 0) : p \in {0} \cup 2..MaxPid}
    \cup {Call("defer", f, 0, 0) : f \in {0, 1}}
TermKeys == {"none", Newline, "interrupt"}

(* Programs that keep yielding beside readers woken at any time; the       *)
(* status words of their waits tell the images apart.                      *)
YieldCalls ==
    Calls0({"fork", "yield", "exec", "rename", "defer", "cancelled"})
    \cup {Call("read", 0, 0, 1), Call("exit", 1, 0, 0), Call("wait", -1, 1, 0)}
YieldKeys == {"none", Newline}
=============================================================================
