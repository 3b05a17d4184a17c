---------------------------- MODULE TtyRingProofs ---------------------------
(***************************************************************************)
(* The terminal's ring (poll_io, tty_read_user) keeps its invariants and   *)
(* implements the queue of TtyQueue, for every size of the ring, every     *)
(* number of turns and all byte counts of reads.                           *)
(***************************************************************************)
EXTENDS TtyRing, SequenceTheorems, TLAPS

Index == 0..(InputSize - 1)
Stored == Printable \cup {Newline}

(* Two counters less than InputSize apart have different places in the     *)
(* ring.                                                                   *)
LEMMA MaskDiffers ==
    ASSUME NEW a \in Nat, NEW b \in Nat, a < b, b < a + InputSize
    PROVE  Mask(a) # Mask(b)
<1> DEFINE N == InputSize
           d == (b \div N) - (a \div N)
<1>1. N \in Nat /\ N > 0
  BY InputSizeAssumption
<1>2. /\ a = N * (a \div N) + (a % N) /\ a \div N \in Int /\ a % N \in Int
      /\ b = N * (b \div N) + (b % N) /\ b \div N \in Int /\ b % N \in Int
  BY <1>1
<1> HIDE DEF N
<1>3. SUFFICES ASSUME a % N = b % N PROVE FALSE
  BY DEF Mask, N
<1>4. d \in Int /\ b - a = N * d
  BY <1>1, <1>2, <1>3
<1>5. CASE d <= 0
  <2>1. N * d <= 0
    BY <1>1, <1>4, <1>5
  <2> QED
    BY <1>4, <2>1
<1>6. CASE d >= 1
  <2>1. N * d >= N
    BY <1>1, <1>4, <1>6
  <2> QED
    BY <1>1, <1>4, <2>1 DEF N
<1> QED
  BY <1>4, <1>5, <1>6

(* A counter's place is a place of the ring.                               *)
LEMMA MaskType ==
    ASSUME NEW a \in Nat
    PROVE  Mask(a) \in Index
BY InputSizeAssumption DEF Mask, Index

(* What a key is decoded to and not dropped can be stored.                 *)
LEMMA DecodeType ==
    ASSUME NEW key \in Key, Decode(key) # "none"
    PROVE  Decode(key) \in Stored
BY DEF Decode, Stored, Printable, Key, Modifiers, Shifts, Controls, Newline

(* An empty place is told from a stored byte.                              *)
LEMMA StoredIsSome == "none" \notin Stored
BY DEF Stored, Printable, Newline

-----------------------------------------------------------------------------
(* The bytes between the counters, as a sequence.                          *)
LEMMA BytesAre ==
    ASSUME RingOK
    PROVE  /\ Bytes \in Seq(Stored)
           /\ Len(Bytes) = head - tail
           /\ \A i \in 1..(head - tail) : Bytes[i] = ring[Mask(tail + i - 1)]
<1>1. head \in Nat /\ tail \in Nat /\ tail <= head
  BY RingAssumption DEF RingOK, TypeOK
<1>2. ASSUME NEW i \in 1..(head - tail)
      PROVE  ring[Mask(tail + i - 1)] \in Stored
  <2>1. tail + i - 1 \in tail..(head - 1) /\ tail + i - 1 \in Nat
    BY <1>1
  <2>2. ring[Mask(tail + i - 1)] # "none"
    BY <2>1 DEF RingOK
  <2>3. ring[Mask(tail + i - 1)] \in Printable \cup {Newline, "none"}
    BY <2>1, MaskType DEF RingOK, TypeOK, Index
  <2> QED
    BY <2>2, <2>3 DEF Stored
<1>3. Bytes \in [1..(head - tail) -> Stored]
  BY <1>2 DEF Bytes
<1>4. head - tail \in Nat
  BY <1>1
<1> QED
  BY <1>3, <1>4 DEF Bytes

(* line_ready looks for the newline where the sequence has it.             *)
LEMMA ReadyIs ==
    ASSUME RingOK
    PROVE  RingLineReady <=> line_ready(Bytes)
<1>1. head \in Nat /\ tail \in Nat /\ tail <= head
  BY RingAssumption DEF RingOK, TypeOK
<1>2. ASSUME NEW i \in tail..(head - 1), ring[Mask(i)] = Newline
      PROVE  line_ready(Bytes)
  <2>1. (i - tail + 1) \in 1..(head - tail) /\ tail + (i - tail + 1) - 1 = i
    BY <1>1
  <2> QED
    BY <1>2, <2>1, BytesAre DEF line_ready
<1>3. ASSUME NEW i \in 1..(head - tail), Bytes[i] = Newline
      PROVE  RingLineReady
  <2>1. tail + i - 1 \in tail..(head - 1)
    BY <1>1
  <2> QED
    BY <1>3, <2>1, BytesAre DEF RingLineReady
<1> QED
  BY <1>2, <1>3, BytesAre DEF RingLineReady, line_ready

(* Storing a byte changes no byte that is still to be read.                *)
LEMMA StoreStep ==
    ASSUME RingOK, NEW c \in Stored, StoreByte(c), head < MaxHead, UNCHANGED tail
    PROVE  /\ ring' \in [Index -> Printable \cup {Newline, "none"}]
           /\ head' \in tail..MaxHead /\ head' - tail < InputSize
           /\ \A i \in tail..(head' - 1) : ring'[Mask(i)] # "none"
           /\ Bytes' = Accept(Bytes, c)
<1>1. /\ head \in Nat /\ tail \in Nat /\ tail <= head /\ head < tail + InputSize /\ MaxHead \in Nat
      /\ ring \in [Index -> Printable \cup {Newline, "none"}] /\ Mask(head) \in Index
  BY RingAssumption, InputSizeAssumption, MaskType DEF RingOK, TypeOK, Index
<1>2. CASE HasRoom(Bytes, c)
  <2>1. /\ ring' = [ring EXCEPT ![Mask(head)] = c] /\ head' = head + 1
        /\ head - tail < InputSize - 1
    BY <1>1, <1>2, BytesAre, InputSizeAssumption DEF HasRoom, StoreByte
  <2>2. ASSUME NEW i \in tail..(head - 1)
        PROVE  ring'[Mask(i)] = ring[Mask(i)]
    <3>1. i \in Nat /\ i < head /\ head < i + InputSize
      BY <1>1, InputSizeAssumption
    <3>2. Mask(i) # Mask(head) /\ Mask(i) \in Index
      BY <1>1, <3>1, MaskDiffers, MaskType
    <3> QED
      BY <1>1, <2>1, <3>2
  <2>3. ring'[Mask(head)] = c /\ c # "none"
    BY <1>1, <2>1, StoredIsSome
  <2>4. \A i \in tail..(head' - 1) : ring'[Mask(i)] # "none"
    <3>1. \A i \in tail..(head' - 1) : i \in tail..(head - 1) \/ i = head
      BY <1>1, <2>1
    <3> QED
      BY <2>2, <2>3, <3>1 DEF RingOK
  <2>5. Bytes' = Append(Bytes, c)
    <3>1. Bytes' = [i \in 1..(head - tail + 1) |-> ring'[Mask(tail + i - 1)]]
      BY <1>1, <2>1 DEF Bytes
    <3>2. \A i \in 1..(head - tail) : tail + i - 1 \in tail..(head - 1)
      BY <1>1
    <3>3. \A i \in 1..(head - tail + 1) : i \in 1..(head - tail) \/ (i = head - tail + 1 /\ tail + i - 1 = head)
      BY <1>1
    <3>4. \A i \in 1..(head - tail) : ring'[Mask(tail + i - 1)] = Bytes[i]
      BY <2>2, <3>2, BytesAre
    <3>5. Append(Bytes, c) = [i \in 1..(head - tail + 1) |-> IF i \in 1..(head - tail) THEN Bytes[i] ELSE c]
      <4>1. /\ Append(Bytes, c) \in Seq(Stored) /\ Len(Append(Bytes, c)) = head - tail + 1
            /\ \A i \in 1..(head - tail) : Append(Bytes, c)[i] = Bytes[i]
            /\ Append(Bytes, c)[head - tail + 1] = c
        BY BytesAre, AppendProperties
      <4>2. Append(Bytes, c) = [i \in 1..(head - tail + 1) |-> Append(Bytes, c)[i]]
        BY <4>1, LenProperties
      <4> QED
        BY <3>3, <4>1, <4>2
    <3>6. \A i \in 1..(head - tail + 1) :
             ring'[Mask(tail + i - 1)] = IF i \in 1..(head - tail) THEN Bytes[i] ELSE c
      BY <2>3, <3>3, <3>4
    <3> QED
      BY <3>1, <3>5, <3>6
  <2>6. ring' \in [Index -> Printable \cup {Newline, "none"}]
    BY <1>1, <2>1 DEF Stored
  <2>7. head' \in tail..MaxHead /\ head' - tail < InputSize
    BY <1>1, <2>1, InputSizeAssumption
  <2> QED
    BY <1>2, <2>4, <2>5, <2>6, <2>7 DEF Accept
<1>3. CASE ~HasRoom(Bytes, c)
  <2>1. UNCHANGED <<ring, head>>
    BY <1>1, <1>3, BytesAre, InputSizeAssumption DEF HasRoom, StoreByte
  <2>2. Bytes' = Bytes
    BY <2>1 DEF Bytes
  <2> QED
    BY <1>1, <1>3, <2>1, <2>2 DEF Accept, RingOK
<1> QED
  BY <1>2, <1>3

(* Erasing steps head back over the last byte, unless it is a newline.     *)
LEMMA EraseStep ==
    ASSUME RingOK, EraseByte
    PROVE  /\ head' \in tail..head
           /\ Bytes' = Erase(Bytes)
<1>1. head \in Nat /\ tail \in Nat /\ tail <= head /\ UNCHANGED <<ring, tail>>
  BY RingAssumption DEF RingOK, TypeOK, EraseByte
<1>2. CASE head = tail
  <2>1. Bytes = <<>> /\ head' = head
    BY <1>1, <1>2, BytesAre DEF EraseByte
  <2> QED
    BY <1>1, <1>2, <2>1 DEF Erase, Bytes
<1>3. CASE head > tail
  <2>1. /\ Len(Bytes) = head - tail /\ Bytes # <<>>
        /\ Last(Bytes) = ring[Mask(head - 1)]
    <3>1. head - tail \in 1..(head - tail) /\ tail + (head - tail) - 1 = head - 1
      BY <1>1, <1>3
    <3> QED
      BY <1>1, <1>3, <3>1, BytesAre DEF Last
  <2>2. CASE ring[Mask(head - 1)] = Newline
    <3>1. head' = head
      BY <2>2 DEF EraseByte
    <3> QED
      BY <1>1, <2>1, <2>2, <3>1 DEF Erase, Bytes
  <2>3. CASE ring[Mask(head - 1)] # Newline
    <3>1. head' = head - 1
      BY <1>3, <2>3 DEF EraseByte
    <3>2. Bytes' = [i \in 1..(head - tail - 1) |-> ring[Mask(tail + i - 1)]]
      BY <1>1, <3>1 DEF Bytes
    <3>3. Front(Bytes) = [i \in 1..(head - tail - 1) |-> Bytes[i]]
      BY <1>1, <1>3, <2>1, BytesAre DEF Front
    <3>4. \A i \in 1..(head - tail - 1) : Bytes[i] = ring[Mask(tail + i - 1)]
      BY <1>1, BytesAre
    <3> QED
      BY <1>1, <1>3, <2>1, <2>3, <3>1, <3>2, <3>3, <3>4 DEF Erase
  <2> QED
    BY <2>2, <2>3
<1> QED
  BY <1>1, <1>2, <1>3

(* A read takes the bytes up to the first newline, and none after it.      *)
LEMMA ReadStep ==
    ASSUME RingOK, NEW count \in Counts, tty_read_user(count)
    PROVE  \E n \in 1..Len(Bytes) :
              /\ tail' = tail + n /\ tail' \in tail..head
              /\ line_ready(Bytes) /\ Takes(Bytes, n, n) /\ Bytes' = Rest(Bytes, n)
<1>1. head \in Nat /\ tail \in Nat /\ tail <= head /\ UNCHANGED <<ring, head>>
  BY RingAssumption DEF RingOK, TypeOK, tty_read_user
<1>2. PICK n \in 1..(head - tail) :
         /\ \A i \in tail..(tail + n - 2) : ring[Mask(i)] # Newline
         /\ tail' = tail + n
  BY DEF tty_read_user
<1>3. Takes(Bytes, n, n)
  <2>1. \A i \in 1..(n - 1) : tail + i - 1 \in tail..(tail + n - 2) /\ i \in 1..(head - tail)
    BY <1>1
  <2>2. \A i \in 1..(n - 1) : Bytes[i] # Newline
    BY <1>2, <2>1, BytesAre
  <2>3. n \in Nat /\ n <= Len(Bytes) /\ n \in 1..n
    BY <1>1, <1>2, BytesAre
  <2> QED
    BY <2>2, <2>3 DEF Takes
<1>4. Bytes' = Rest(Bytes, n)
  <2>1. Bytes' = [i \in 1..(head - tail - n) |-> ring[Mask(tail + n + i - 1)]]
    <3>1. head' - tail' = head - tail - n /\ tail' = tail + n /\ UNCHANGED ring
      BY <1>1, <1>2
    <3>2. Bytes' = [i \in 1..(head - tail - n) |-> ring[Mask((tail + n) + i - 1)]]
      BY <3>1 DEF Bytes, Mask
    <3> QED
      BY <3>2
  <2>2. Rest(Bytes, n) = [i \in 1..(head - tail - n) |-> Bytes[n + i]]
    BY <1>1, BytesAre DEF Rest
  <2>3. ASSUME NEW i \in 1..(head - tail - n)
        PROVE  Bytes[n + i] = ring[Mask(tail + n + i - 1)]
    <3>1. n + i \in 1..(head - tail) /\ tail + (n + i) - 1 = tail + n + i - 1
      BY <1>1
    <3> QED
      BY <3>1, BytesAre
  <2> QED
    BY <2>1, <2>2, <2>3
<1>5. n \in 1..Len(Bytes) /\ tail' \in tail..head
  BY <1>1, <1>2, BytesAre
<1> QED
  BY <1>2, <1>3, <1>4, <1>5, ReadyIs DEF tty_read_user

-----------------------------------------------------------------------------
(* Each action keeps the ring in order and is a step of the queue.         *)

Untouched == UNCHANGED <<ring, head, tail>>

(* Whatever an event does to the ring: nothing, store a byte, erase the    *)
(* last one, or (an interrupt) skip all of them.                           *)
LEMMA EventStep ==
    ASSUME RingOK, NEW key \in Key, NEW down \in BOOLEAN, poll_io(key, down)
    PROVE  \/ Untouched
           \/ \E c \in Stored : StoreByte(c) /\ head < MaxHead /\ UNCHANGED tail
           \/ EraseByte
           \/ tail' = head /\ UNCHANGED <<ring, head>>
BY DecodeType DEF poll_io, Untouched

(* The places and types of the ring after any step.                        *)
RingTypes ==
    /\ ring \in [Index -> Printable \cup {Newline, "none"}]
    /\ head \in 0..MaxHead /\ tail \in 0..head
    /\ head - tail < InputSize
    /\ \A i \in tail..(head - 1) : ring[Mask(i)] # "none"

(* Counters that move towards each other keep the ring in order.           *)
LEMMA RingShrinks ==
    ASSUME RingOK, UNCHANGED ring, head' \in tail'..head, tail' \in tail..head
    PROVE  RingTypes'
<1>1. /\ head \in Nat /\ tail \in Nat /\ tail <= head /\ head - tail < InputSize /\ InputSize \in Nat
      /\ head <= MaxHead /\ MaxHead \in Nat
  BY RingAssumption, InputSizeAssumption DEF RingOK, TypeOK
<1> DEFINE h == head'
           t == tail'
<1>2. t \in Nat /\ tail <= t
  BY <1>1
<1>3. h \in Nat /\ t <= h /\ h <= head
  BY <1>1, <1>2
<1>4. head' \in 0..MaxHead /\ tail' \in 0..head' /\ head' - tail' < InputSize
  <2>1. h \in 0..MaxHead /\ t \in 0..h /\ h - t < InputSize
    <3> HIDE DEF h, t
    <3> QED
      BY <1>1, <1>2, <1>3
  <2> QED
    BY <2>1
<1>5. ASSUME NEW i \in tail'..(head' - 1)
      PROVE  ring'[Mask(i)] # "none"
  <2>1. i \in t..(h - 1)
    BY <1>5
  <2>2. i \in tail..(head - 1)
    <3> HIDE DEF h, t
    <3> QED
      BY <1>1, <1>2, <1>3, <2>1
  <2> QED
    BY <2>2 DEF RingOK
<1>6. ring' \in [Index -> Printable \cup {Newline, "none"}]
  BY DEF RingOK, TypeOK, Index
<1> QED
  BY <1>4, <1>5, <1>6 DEF RingTypes

(* The queue's operators are the ring's own.                               *)
LEMMA SameOperators ==
    /\ Queue!Newline = Newline
    /\ \A q, c : Queue!Accept(q, c) = Accept(q, c)
    /\ \A q : Queue!Erase(q) = Erase(q) /\ (Queue!line_ready(q) <=> line_ready(q))
    /\ \A q, n : (Queue!Takes(q, n, n) <=> Takes(q, n, n)) /\ Queue!Rest(q, n) = Rest(q, n)
BY DEF Queue!Newline, Newline, Queue!Accept, Accept, Queue!HasRoom, HasRoom, Queue!Erase, Erase,
       Queue!Last, Last, Queue!Front, Front, Queue!line_ready, line_ready, Queue!Takes, Takes, Queue!Rest, Rest

LEMMA RingStep ==
    ASSUME RingOK, [Next]_vars
    PROVE  RingTypes' /\ [Queue!Next]_Bytes
<1>1. head \in Nat /\ tail \in Nat /\ tail <= head
  BY RingAssumption DEF RingOK, TypeOK
<1>2. CASE Untouched
  <2>1. Bytes' = Bytes
    BY <1>2 DEF Untouched, Bytes
  <2>2. RingTypes'
    BY <1>1, <1>2, RingShrinks DEF Untouched
  <2> QED
    BY <2>1, <2>2
<1>3. ASSUME NEW c \in Stored, StoreByte(c), head < MaxHead, UNCHANGED tail
      PROVE  RingTypes' /\ Queue!Next
  <2>1. /\ ring' \in [Index -> Printable \cup {Newline, "none"}]
        /\ head' \in tail..MaxHead /\ head' - tail < InputSize
        /\ \A i \in tail..(head' - 1) : ring'[Mask(i)] # "none"
    BY <1>3, StoreStep
  <2>2. Queue!Type(c)
    BY <1>3, StoreStep, SameOperators DEF Queue!Type
  <2>3. head' \in 0..MaxHead /\ tail' \in 0..head'
    BY <1>1, <1>3, <2>1, RingAssumption
  <2> QED
    BY <1>3, <2>1, <2>2, <2>3, SameOperators DEF RingTypes, Queue!Next, Stored
<1>4. CASE EraseByte
  <2>1. RingTypes'
    BY <1>1, <1>4, EraseStep, RingShrinks DEF EraseByte
  <2>2. Queue!Backspace
    BY <1>4, EraseStep, SameOperators DEF Queue!Backspace
  <2> QED
    BY <2>1, <2>2 DEF Queue!Next
<1>5. CASE tail' = head /\ UNCHANGED <<ring, head>>
  <2>1. RingTypes'
    BY <1>1, <1>5, RingShrinks
  <2>2. Bytes' = <<>>
    <3>1. 1..(head' - tail') = {}
      BY <1>1, <1>5
    <3> QED
      BY <3>1 DEF Bytes
  <2> QED
    BY <2>1, <2>2 DEF Queue!Next, Queue!Interrupt
<1>6. ASSUME NEW count \in Counts, tty_read_user(count)
      PROVE  RingTypes' /\ Queue!Next
  <2>1. PICK n \in 1..Len(Bytes) :
           /\ tail' = tail + n /\ tail' \in tail..head
           /\ line_ready(Bytes) /\ Takes(Bytes, n, n) /\ Bytes' = Rest(Bytes, n)
    BY <1>6, ReadStep
  <2>2. RingTypes'
    BY <1>1, <1>6, <2>1, RingShrinks DEF tty_read_user
  <2> QED
    BY <2>1, <2>2, SameOperators DEF Queue!Next, Queue!Read
<1>7. \/ \E key \in Key, down \in BOOLEAN : poll_io(key, down)
      \/ \E count \in Counts : tty_read_user(count)
      \/ Untouched
  BY DEF Next, vars, Untouched
<1> QED
  BY <1>2, <1>3, <1>4, <1>5, <1>6, <1>7, EventStep

(* Modifier keys: what the keyboard holds and what the code remembers.     *)
LEMMA ModifierStep ==
    ASSUME TypeOK, ModifiersFollowKeys, [Next]_vars
    PROVE  /\ shift' \subseteq Shifts /\ control' \subseteq Controls /\ held' \subseteq Modifiers
           /\ ModifiersFollowKeys'
<1>1. Shifts \cap Controls = {} /\ Modifiers = Shifts \cup Controls
  BY DEF Shifts, Controls, Modifiers
<1>2. ASSUME NEW key \in Key, NEW down \in BOOLEAN, poll_io(key, down), key \in Controls
      PROVE  /\ control' = Held(control, key, down) /\ UNCHANGED shift
             /\ held' = Held(held, key, down)
  BY <1>1, <1>2 DEF poll_io, Held, EraseByte, Controls, Shifts, Modifiers
<1>3. ASSUME NEW key \in Key, NEW down \in BOOLEAN, poll_io(key, down), key \in Shifts
      PROVE  /\ shift' = Held(shift, key, down) /\ UNCHANGED control
             /\ held' = Held(held, key, down)
  BY <1>1, <1>3 DEF poll_io, Held, EraseByte, Controls, Shifts, Modifiers
<1>4. ASSUME NEW key \in Key, NEW down \in BOOLEAN, poll_io(key, down), key \notin Modifiers
      PROVE  UNCHANGED <<shift, control, held>>
  BY <1>1, <1>4 DEF poll_io, EraseByte, Modifiers
<1>5. ASSUME NEW count \in Counts, tty_read_user(count)
      PROVE  UNCHANGED <<shift, control, held>>
  BY <1>5 DEF tty_read_user
<1> QED
  BY <1>1, <1>2, <1>3, <1>4, <1>5 DEF Next, vars, TypeOK, ModifiersFollowKeys, Held

-----------------------------------------------------------------------------
(* A line that fills the ring can still be ended: a character leaves the   *)
(* last place free, and only a stored newline takes it.                    *)
LEMMA RoomStep ==
    ASSUME RingOK, AlwaysRoomForNewline, [Next]_vars
    PROVE  AlwaysRoomForNewline'
<1>1. /\ head \in Nat /\ tail \in Nat /\ tail <= head /\ head - tail < InputSize
      /\ InputSize \in Nat /\ InputSize > 2 /\ head <= MaxHead
  BY RingAssumption, InputSizeAssumption DEF RingOK, TypeOK
<1>2. CASE Untouched
  BY <1>2 DEF AlwaysRoomForNewline, RingLineReady, Untouched
<1>3. ASSUME NEW c \in Stored, StoreByte(c), UNCHANGED tail, ~RingLineReady'
      PROVE  head' - tail' < InputSize - 1
  <2>1. CASE UNCHANGED <<ring, head>>
    BY <1>3, <2>1 DEF AlwaysRoomForNewline, RingLineReady
  <2>2. CASE /\ ring' = [ring EXCEPT ![Mask(head)] = c] /\ head' = head + 1
             /\ head - tail < InputSize - 2 \/ c = Newline
    <3>1. ring'[Mask(head)] = c
      BY <1>1, <2>2, MaskType DEF RingOK, TypeOK, Index
    <3>2. head \in tail'..(head' - 1)
      BY <1>1, <1>3, <2>2
    <3>3. c # Newline
      BY <1>3, <3>1, <3>2 DEF RingLineReady
    <3> QED
      BY <1>1, <1>3, <2>2, <3>3
  <2> QED
    BY <1>3, <2>1, <2>2 DEF StoreByte
<1>4. CASE EraseByte
  <2>1. CASE head' = head
    BY <1>4, <2>1 DEF EraseByte, AlwaysRoomForNewline, RingLineReady
  <2>2. CASE head' = head - 1
    <3>1. UNCHANGED tail
      BY <1>4 DEF EraseByte
    <3> QED
      BY <1>1, <2>2, <3>1 DEF AlwaysRoomForNewline
  <2> QED
    BY <2>1, <2>2, <1>4 DEF EraseByte
<1>5. CASE tail' = head /\ UNCHANGED <<ring, head>>
  BY <1>1, <1>5 DEF AlwaysRoomForNewline
<1>6. ASSUME NEW count \in Counts, tty_read_user(count)
      PROVE  AlwaysRoomForNewline'
  <2>1. PICK n \in 1..Len(Bytes) : tail' = tail + n
    BY <1>6, ReadStep
  <2>2. head' = head /\ n \in Nat /\ n >= 1
    BY <1>1, <1>6, <2>1, BytesAre DEF tty_read_user
  <2> QED
    BY <1>1, <2>1, <2>2 DEF AlwaysRoomForNewline
<1>7. \/ \E key \in Key, down \in BOOLEAN : poll_io(key, down)
      \/ \E count \in Counts : tty_read_user(count)
      \/ Untouched
  BY DEF Next, vars, Untouched
<1> QED
  BY <1>2, <1>3, <1>4, <1>5, <1>6, <1>7, EventStep DEF AlwaysRoomForNewline

-----------------------------------------------------------------------------
(* The invariants, and the refinement.                                     *)

IInv == RingOK /\ ModifiersFollowKeys /\ AlwaysRoomForNewline

(* The terminal starts empty, with no modifier on.                         *)
LEMMA InitOK ==
    ASSUME Init
    PROVE  IInv /\ Queue!Init
<1>1. RingOK
  BY RingAssumption, InputSizeAssumption DEF Init, RingOK, TypeOK
<1>2. ModifiersFollowKeys
  BY DEF Init, ModifiersFollowKeys
<1>3. AlwaysRoomForNewline
  BY InputSizeAssumption DEF Init, AlwaysRoomForNewline
<1>4. Queue!Init
  <2>1. head - tail = 0 /\ 1..0 = {}
    BY DEF Init
  <2> QED
    BY <2>1 DEF Bytes, Queue!Init
<1> QED
  BY <1>1, <1>2, <1>3, <1>4 DEF IInv

(* Every step keeps the invariant and is a step of the queue or none.      *)
LEMMA StepOK ==
    ASSUME IInv, [Next]_vars
    PROVE  IInv' /\ [Queue!Next]_Bytes
<1>1. RingTypes' /\ [Queue!Next]_Bytes
  BY RingStep DEF IInv
<1>2. /\ shift' \subseteq Shifts /\ control' \subseteq Controls /\ held' \subseteq Modifiers
      /\ ModifiersFollowKeys'
  BY ModifierStep DEF IInv, RingOK
<1>3. RingOK'
  BY <1>1, <1>2 DEF RingOK, TypeOK, RingTypes, Index
<1>4. AlwaysRoomForNewline'
  BY RoomStep DEF IInv
<1> QED
  BY <1>1, <1>2, <1>3, <1>4 DEF IInv

(* poll_io and tty_read_user keep the three invariants together.           *)
THEOREM RingInvariance == Spec => []IInv
<1>1. Init => IInv
  BY InitOK
<1>2. IInv /\ [Next]_vars => IInv'
  BY StepOK
<1> QED
  BY <1>1, <1>2, PTL DEF Spec

(* poll_io and tty_read_user: the counters stay within the ring, whatever  *)
(* lies between them was stored, and both halves of the terminal keep      *)
(* their types.                                                            *)
THEOREM RingCorrect == Spec => []RingOK
<1>1. IInv => RingOK
  BY DEF IInv
<1> QED
  BY <1>1, RingInvariance, PTL

(* poll_io, lines 86-94: a modifier is on exactly while a key of it is     *)
(* held.                                                                   *)
THEOREM ModifiersCorrect == Spec => []ModifiersFollowKeys
<1>1. IInv => ModifiersFollowKeys
  BY DEF IInv
<1> QED
  BY <1>1, RingInvariance, PTL

(* poll_io, line 113: a full terminal can always end its line.             *)
THEOREM NewlineFits == Spec => []AlwaysRoomForNewline
<1>1. IInv => AlwaysRoomForNewline
  BY DEF IInv
<1> QED
  BY <1>1, RingInvariance, PTL

(* The ring with its counters and its modulo implements the queue.         *)
THEOREM RingRefinesQueue == Spec => RingIsAQueue
<1>1. Init => Queue!Init
  BY InitOK
<1>2. IInv /\ [Next]_vars => [Queue!Next]_Bytes
  BY StepOK
<1> QED
  BY <1>1, <1>2, RingInvariance, PTL DEF Spec, RingIsAQueue, Queue!Spec
=============================================================================
