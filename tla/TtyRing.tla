------------------------------ MODULE TtyRing ------------------------------
(***************************************************************************)
(* The terminal's input path as process.c has it: poll_io decodes one      *)
(* hardware event, keeping the state of each Shift and Control key, and    *)
(* stores the byte in a ring addressed by two counters that only grow;     *)
(* tty_read_user takes a line out.  The counters are unsigned and are      *)
(* compared with < : the model covers their first MaxHead values.          *)
(***************************************************************************)
EXTENDS Integers, TtyLine

CONSTANTS
    MaxHead,     \* bound on the bytes ever accepted (2^32 - 1 in the code)
    Counts       \* byte counts of reads

ASSUME RingAssumption == MaxHead \in Nat /\ Counts \subseteq (Nat \ {0})

(* Key codes by what poll_io does with them.  "letter" is a letter key,    *)
(* "symbol" one of the keys in the table plain, "space" a printable key    *)
(* outside both, "etx" the code 3, "ctrl_c" the letter C, "dead" a code    *)
(* that is none of these.                                                  *)
Shifts   == {"shift_l", "shift_r"}
Controls == {"control_l", "control_r"}
Modifiers == Shifts \cup Controls
Key == Modifiers \cup
       {"letter", "ctrl_c", "symbol", "space", "enter", "backspace", "delete", "etx", "dead"}

Printable == {"lower", "upper", "plain", "shifted", "space"}

VARIABLES ring, head, tail, shift, control,
          held       \* the modifier keys physically down (the keyboard)

vars == <<ring, head, tail, shift, control, held>>

Mask(n) == n % InputSize                   \* n & 1023

(* The byte a key produces, "none" for a key that is not stored.           *)
Decode(key) ==
    CASE key \in {"letter", "ctrl_c"} -> IF shift # {} THEN "upper" ELSE "lower"
      [] key = "symbol" -> IF shift # {} THEN "shifted" ELSE "plain"
      [] key = "space"  -> "space"
      [] key = "enter"  -> Newline
      [] OTHER          -> "none"

IsInterrupt(key) == key = "etx" \/ (control # {} /\ key = "ctrl_c")

StoreAnyNewline(c) ==
    IF head - tail < InputSize - 2 \/ c = Newline
    THEN ring' = [ring EXCEPT ![Mask(head)] = c] /\ head' = head + 1
    ELSE UNCHANGED <<ring, head>>

StoreUpToLast(c) ==
    IF head - tail < InputSize - 1
    THEN ring' = [ring EXCEPT ![Mask(head)] = c] /\ head' = head + 1
    ELSE UNCHANGED <<ring, head>>

StoreByte(c) ==
    IF head - tail < InputSize - 2 \/ (c = Newline /\ head - tail < InputSize - 1)
    THEN ring' = [ring EXCEPT ![Mask(head)] = c] /\ head' = head + 1
    ELSE UNCHANGED <<ring, head>>

EraseLine ==
    /\ head' = IF head > tail THEN head - 1 ELSE head
    /\ UNCHANGED <<ring, tail, shift, control>>

EraseByte ==
    /\ head' = IF head > tail /\ ring[Mask(head - 1)] # Newline THEN head - 1 ELSE head
    /\ UNCHANGED <<ring, tail, shift, control>>

(* Pressing or releasing one of the four modifier keys.                    *)
HeldAsOne(mask, key, down) == IF down THEN mask \cup {key} ELSE {}
Held(mask, key, down) == IF down THEN mask \cup {key} ELSE mask \ {key}

poll_io(key, down) ==
    /\ held' = CASE key \in Modifiers /\ down  -> held \cup {key}
                 [] key \in Modifiers /\ ~down -> held \ {key}
                 [] OTHER -> held
    /\ \/ /\ key \in Controls
          /\ control' = Held(control, key, down)
          /\ UNCHANGED <<ring, head, tail, shift>>
       \/ /\ key \in Shifts
          /\ shift' = Held(shift, key, down)
          /\ UNCHANGED <<ring, head, tail, control>>
       \/ /\ key \notin Modifiers /\ down /\ IsInterrupt(key)
          /\ tail' = head
          /\ UNCHANGED <<ring, head, shift, control>>
       \/ /\ key \in {"backspace", "delete"} /\ down /\ control = {}
          /\ EraseByte
       \/ /\ key \notin Modifiers /\ down /\ ~IsInterrupt(key) /\ control = {}
          /\ Decode(key) # "none"
          /\ head < MaxHead                                         \* bound
          /\ StoreByte(Decode(key))
          /\ UNCHANGED <<tail, shift, control>>
       \/ /\ key \notin Modifiers
          /\ \/ ~down
             \/ control # {} /\ ~IsInterrupt(key)
             \/ key = "dead"
          /\ UNCHANGED <<ring, head, tail, shift, control>>

Bytes == [i \in 1..(head - tail) |-> ring[Mask(tail + i - 1)]]

(* The loop of line_ready, and the copy loop of tty_read_user.             *)
RingLineReady == \E i \in tail..(head - 1) : ring[Mask(i)] = Newline

tty_read_user(count) ==
    /\ RingLineReady
    /\ \E n \in 1..(head - tail) :
          /\ n <= count
          /\ \A i \in tail..(tail + n - 2) : ring[Mask(i)] # Newline
          /\ n = count \/ tail + n = head \/ ring[Mask(tail + n - 1)] = Newline
          /\ tail' = tail + n
    /\ UNCHANGED <<ring, head, shift, control, held>>

Init ==
    /\ ring = [i \in 0..(InputSize - 1) |-> "none"]
    /\ head = 0 /\ tail = 0
    /\ shift = {} /\ control = {} /\ held = {}

Next ==
    \/ \E key \in Key, down \in BOOLEAN : 
          (key \in Modifiers => (down <=> key \notin held)) /\ poll_io(key, down)
    \/ \E count \in Counts : tty_read_user(count)

Spec == Init /\ [][Next]_vars
-----------------------------------------------------------------------------
TypeOK ==
    /\ ring \in [0..(InputSize - 1) -> Printable \cup {Newline, "none"}]
    /\ head \in 0..MaxHead /\ tail \in 0..head
    /\ shift \subseteq Shifts /\ control \subseteq Controls /\ held \subseteq Modifiers

(* The counters never lie further apart than the ring holds, and every     *)
(* byte between them was stored.                                           *)
RingOK ==
    /\ TypeOK
    /\ head - tail < InputSize
    /\ \A i \in tail..(head - 1) : ring[Mask(i)] # "none"

(* A modifier is on exactly while one of its keys is down, whichever of    *)
(* the two was pressed or released last.                                   *)
ModifiersFollowKeys == shift = held \cap Shifts /\ control = held \cap Controls

(* A terminal that is full can still end its line: without a complete line *)
(* there is always room for a newline, so a reader is never stuck.         *)
AlwaysRoomForNewline == ~RingLineReady => head - tail < InputSize - 1

(* The ring implements the queue: no byte is lost, duplicated, reordered   *)
(* or overwritten, across any number of turns of the ring.                 *)
Queue == INSTANCE TtyQueue WITH q <- Bytes
RingIsAQueue == Queue!Spec
=============================================================================
