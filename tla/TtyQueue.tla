------------------------------ MODULE TtyQueue ------------------------------
(***************************************************************************)
(* What the terminal's input buffer promises: a queue of bytes to which    *)
(* keys append, of which backspace erases the unfinished end, which Ctrl+C *)
(* empties, and from which a read takes at most one line.                  *)
(***************************************************************************)
EXTENDS TtyLine

CONSTANT Printable      \* the printable bytes

VARIABLE q

Type(c)   == q' = Accept(q, c)
Backspace == q' = Erase(q)
Interrupt == q' = <<>>

(* A read takes bytes only when a line is complete, and none of the next.  *)
Read(n) ==
    /\ line_ready(q)
    /\ Takes(q, n, n)
    /\ q' = Rest(q, n)

Init == q = <<>>

Next ==
    \/ \E c \in Printable \cup {Newline} : Type(c)
    \/ Backspace
    \/ Interrupt
    \/ \E n \in 1..Len(q) : Read(n)

Spec == Init /\ [][Next]_q
=============================================================================
