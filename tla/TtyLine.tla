------------------------------- MODULE TtyLine -------------------------------
(***************************************************************************)
(* The terminal's input queue as a sequence of bytes, each abstracted to   *)
(* Char (any printable byte) or Newline.  These are the operations of      *)
(* kernel/symplus/process.c on input[1024], head and tail with the index   *)
(* arithmetic left out; TtyRing.tla has the arithmetic and is shown to     *)
(* implement this queue.                                                   *)
(***************************************************************************)
EXTENDS Naturals, Sequences, SequencesExt

CONSTANT InputSize    \* sizeof input: 1024 in the code

ASSUME InputSizeAssumption == InputSize \in Nat /\ InputSize > 2

Char    == "char"
Newline == "newline"
Byte    == {Char, Newline}

(* Two places are kept back from characters and one from a newline, so the *)
(* line that fills the queue can still be ended.                           *)
HasRoom(q, c) ==
    \/ Len(q) < InputSize - 2
    \/ c = Newline /\ Len(q) < InputSize - 1

Accept(q, c) == IF HasRoom(q, c) THEN Append(q, c) ELSE q

(* Backspace erases a byte of the unfinished line, never a finished one.   *)
Erase(q) == IF q # <<>> /\ Last(q) # Newline THEN Front(q) ELSE q

line_ready(q) == \E i \in 1..Len(q) : q[i] = Newline

(* tty_read_user(buf, count) moves n bytes: up to the first newline        *)
(* included, at most count.                                                *)
Takes(q, count, n) ==
    /\ n <= count
    /\ \A i \in 1..(n - 1) : q[i] # Newline
    /\ n = count \/ n = Len(q) \/ q[n] = Newline

Rest(q, n) == SubSeq(q, n + 1, Len(q))
=============================================================================
