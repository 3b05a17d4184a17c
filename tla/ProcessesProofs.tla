--------------------------- MODULE ProcessesProofs ---------------------------
(***************************************************************************)
(* Proofs about Processes.tla for every number of slots, bound on pids,    *)
(* size of the input queue, set of calls and set of keys.                  *)
(***************************************************************************)
EXTENDS Processes, TLAPS, FiniteSetTheorems, SequenceTheorems, WellFoundedInduction

(* Every nonempty set of naturals has a least element.                     *)
LEMMA LeastNatural ==
    ASSUME NEW S, S \subseteq Nat, S # {}
    PROVE  \E s \in S : \A t \in S : s <= t
<1> DEFINE R == {ss \in Nat \X Nat : ss[1] < ss[2]}
<1>1. OpToRel(<, Nat) = R
  BY Zenon DEF OpToRel
<1>2. PICK s \in S : \A t \in S : ~(<<t, s>> \in R)
  BY <1>1, WFMin, NatLessThanWellFounded
<1>3. ASSUME NEW t \in S
      PROVE  s <= t
  <2>1. t \in Nat /\ s \in Nat /\ ~(<<t, s>> \in R)
    BY <1>2
  <2>2. ~(t < s)
    BY <2>1
  <2> QED
    BY <2>1, <2>2
<1> QED
  BY <1>3

(* Induction on the naturals up to a bound.                                *)
LEMMA Induction ==
    ASSUME NEW S, 0 \in S, NEW n \in Nat,
           \A d \in 0..n : d \in S /\ d + 1 <= n => d + 1 \in S
    PROVE  0..n \subseteq S
<1> DEFINE T == (0..n) \ S
<1> SUFFICES ASSUME T # {} PROVE FALSE
  OBVIOUS
<1>1. T \subseteq Nat
  OBVIOUS
<1> HIDE DEF T
<1>2. PICK d \in T : \A t \in T : d <= t
  BY <1>1, LeastNatural
<1>3. d \in 0..n /\ d \notin S
  BY DEF T
<1>4. d # 0 /\ d - 1 \in 0..n /\ (d - 1) + 1 = d /\ ~(d <= d - 1)
  BY <1>3
<1>5. d - 1 \in S
  BY <1>2, <1>4 DEF T
<1> QED
  BY <1>3, <1>4, <1>5

(* Iterating a function from a first value makes a sequence.               *)
Iterates(up, a, F, n) == up[0] = a /\ \A d \in 1..n : up[d] = F[up[d - 1]]

LEMMA IterationExists ==
    ASSUME NEW a \in Nat, NEW F \in [Nat -> Nat], NEW n \in Nat
    PROVE  \E up \in [0..n -> Nat] : Iterates(up, a, F, n)
<1> DEFINE Up(up, m) == Iterates(up, a, F, m)
           S == {m \in Nat : \E up \in [0..m -> Nat] : Up(up, m)}
<1>1. 0 \in S
  <2>1. [d \in 0..0 |-> a] \in [0..0 -> Nat] /\ Up([d \in 0..0 |-> a], 0)
    BY DEF Iterates
  <2> QED
    BY <2>1
<1>2. ASSUME NEW m \in 0..n, m \in S
      PROVE  m + 1 \in S
  <2>1. PICK up \in [0..m -> Nat] : Up(up, m)
    BY <1>2
  <2> DEFINE vp == [d \in 0..(m + 1) |-> IF d <= m THEN up[d] ELSE F[up[m]]]
  <2>2. ASSUME NEW d \in 0..(m + 1)
        PROVE  vp[d] = IF d = 0 THEN a ELSE F[vp[d - 1]]
    <3>1. CASE d = 0
      BY <2>1, <3>1 DEF Iterates
    <3>2. CASE d \in 1..m
      <4>1. d - 1 \in 0..(m + 1) /\ d - 1 <= m /\ d \in 0..m /\ d # 0
        BY <3>2
      <4>2. vp[d - 1] = up[d - 1] /\ vp[d] = up[d]
        BY <4>1
      <4>3. up[d] = F[up[d - 1]]
        BY <2>1, <4>1 DEF Iterates
      <4> QED
        BY <4>1, <4>2, <4>3
    <3>3. CASE d = m + 1
      BY <3>3
    <3> QED
      BY <3>1, <3>2, <3>3
  <2>3. vp \in [0..(m + 1) -> Nat]
    <3>1. m \in 0..m
      OBVIOUS
    <3>2. \A d \in 0..(m + 1) : d <= m => d \in 0..m
      OBVIOUS
    <3>3. \A d \in 0..(m + 1) : (IF d <= m THEN up[d] ELSE F[up[m]]) \in Nat
      BY <3>1, <3>2
    <3> QED
      BY <3>3
  <2>4. Up(vp, m + 1)
    <3>1. 0 \in 0..(m + 1) /\ \A d \in 1..(m + 1) : d \in 0..(m + 1) /\ d # 0
      OBVIOUS
    <3> HIDE DEF vp
    <3> QED
      BY <2>2, <3>1 DEF Iterates
  <2>5. m + 1 \in Nat
    OBVIOUS
  <2> HIDE DEF vp, Up
  <2> QED
    BY <2>3, <2>4, <2>5
<1> HIDE DEF S
<1>3. 0..n \subseteq S
  BY <1>1, <1>2, Induction
<1>4. n \in S
  BY <1>3
<1> QED
  BY <1>4 DEF S

(* A nonempty set of slots has a lowest one, and FirstOf is it: the loops  *)
(* "for(slot=1;slot<=8;slot++)if(...)break" of process.c.                  *)
LEMMA FirstOfIsFirst ==
    ASSUME NEW S, S \subseteq Slot, S # {}
    PROVE  /\ FirstOf(S) \in S
           /\ FirstOf(S) \in Slot
           /\ \A t \in S : FirstOf(S) <= t
<1>1. S \subseteq Nat
  BY ConstantsAssumption DEF Slot
<1>2. \E s \in S : \A t \in S : s <= t
  BY <1>1, LeastNatural
<1> QED
  BY <1>2 DEF FirstOf

(* Erasing, accepting and taking bytes keep the queue a queue of bytes     *)
(* that never fills its last place.                                        *)
LEMMA QueueOps ==
    ASSUME NEW q \in Seq(Byte), Len(q) < InputSize
    PROVE  /\ \A c \in Byte : Accept(q, c) \in Seq(Byte) /\ Len(Accept(q, c)) < InputSize
           /\ Erase(q) \in Seq(Byte) /\ Len(Erase(q)) < InputSize
           /\ \A n \in 1..Len(q) : Rest(q, n) \in Seq(Byte) /\ Len(Rest(q, n)) < InputSize
<1> USE InputSizeAssumption
<1>0. Len(q) \in Nat /\ \A i \in 1..Len(q) : q[i] \in Byte
  BY LenProperties, ElementOfSeq
<1>1. ASSUME NEW c \in Byte
      PROVE  Accept(q, c) \in Seq(Byte) /\ Len(Accept(q, c)) < InputSize
  BY <1>0, AppendProperties DEF Accept, HasRoom
<1>2. Erase(q) \in Seq(Byte) /\ Len(Erase(q)) < InputSize
  <2>1. /\ SubSeq(q, 1, Len(q) - 1) \in Seq(Byte)
        /\ Len(SubSeq(q, 1, Len(q) - 1)) = IF 1 <= Len(q) - 1 THEN Len(q) - 1 ELSE 0
    BY <1>0, SubSeqProperties
  <2> QED
    BY <1>0, <2>1 DEF Erase, Front
<1>3. ASSUME NEW n \in 1..Len(q)
      PROVE  Rest(q, n) \in Seq(Byte) /\ Len(Rest(q, n)) < InputSize
  <2>1. /\ SubSeq(q, n + 1, Len(q)) \in Seq(Byte)
        /\ Len(SubSeq(q, n + 1, Len(q))) = IF n + 1 <= Len(q) THEN Len(q) - (n + 1) + 1 ELSE 0
    <3>1. n + 1 \in Int /\ Len(q) \in Int /\ \A i \in (n + 1)..Len(q) : q[i] \in Byte
      BY <1>0
    <3> QED
      BY <3>1, SubSeqProperties
  <2> QED
    BY <1>0, <2>1 DEF Rest
<1> QED
  BY <1>1, <1>2, <1>3

(* A poll leaves the terminal's state well typed.                          *)
LEMMA PollKeyType ==
    ASSUME TypeOK, NEW k \in Keys, PollKey(k)
    PROVE  /\ input' \in Seq(Byte) /\ Len(input') < InputSize
           /\ interrupted' \in [Slot -> BOOLEAN]
           /\ cancel_read' \in [Slot -> BOOLEAN]
<1>1. input \in Seq(Byte) /\ Len(input) < InputSize
  BY DEF TypeOK
<1>2. k \in AllKeys
  BY ConstantsAssumption
<1>3. <<>> \in Seq(Byte) /\ Len(<<>>) < InputSize
  BY InputSizeAssumption
<1>4. input' \in Seq(Byte) /\ Len(input') < InputSize
  <2>1. CASE k \in Byte
    BY <1>1, <2>1, QueueOps DEF PollKey, Byte, Char, Newline
  <2>2. CASE k \notin Byte
    BY <1>1, <1>2, <1>3, <2>2, QueueOps DEF PollKey, AllKeys, Byte, Char, Newline
  <2> QED
    BY <2>1, <2>2
<1>5. /\ interrupted' \in [Slot -> BOOLEAN]
      /\ cancel_read' \in [Slot -> BOOLEAN]
  <2>1. CASE k = "interrupt"
    BY <2>1 DEF PollKey, occupied, descendant
  <2>2. CASE k # "interrupt"
    BY <2>2 DEF PollKey, TypeOK
  <2> QED
    BY <2>1, <2>2
<1> QED
  BY <1>4, <1>5

(* The image a slot's process would see is always an image.                *)
LEMMA ImageType ==
    ASSUME TypeOK, NEW s \in Slot
    PROVE  ImageOf(s) \in Image /\ Saved(s) \in [Slot -> Image]
BY DEF TypeOK, ImageOf, Saved

(* Delivering a result keeps the saved registers well typed.               *)
LEMMA SetR1 ==
    ASSUME TypeOK, NEW s \in Slot, NEW r \in Int
    PROVE  [contexts EXCEPT ![s].r1 = r] \in [Slot -> Context]
<1>1. contexts[s] \in Context
  BY DEF TypeOK
<1>2. [contexts[s] EXCEPT !.r1 = r] \in Context
  BY <1>1 DEF Context
<1> QED
  BY <1>2 DEF TypeOK

(* A call that returns leaves the window and the saved registers typed.    *)
LEMMA ReturnType ==
    ASSUME TypeOK, NEW r \in Int, Return(r)
    PROVE  contexts' \in [Slot -> Context] /\ kpc' = "cancel" /\ UNCHANGED <<call, scan>>
<1>1. active \in Slot
  BY DEF TypeOK
<1> QED
  BY <1>1, SetR1 DEF Return

(* An exit keeps the task table well typed.                                *)
LEMMA ExitType ==
    ASSUME TypeOK, NEW s \in Slot, NEW code \in Nat, exit_current(s, code)
    PROVE  /\ pid' \in [Slot -> Nat] /\ father' \in [Slot -> Nat]
           /\ state' \in [Slot -> States] /\ exit_code' \in [Slot -> Nat]
BY DEF exit_current, TypeOK, States, occupied

(* A call that blocks is kept for its caller.                              *)
LEMMA BlockType ==
    ASSUME TypeOK, call \in Calls, Block
    PROVE  /\ pending' \in [Slot -> Calls \cup {NoCall}] /\ state' \in [Slot -> States]
           /\ kpc' = "cancel"
           /\ UNCHANGED <<pid, father, exit_code, contexts, call, scan>>
BY DEF Block, TypeOK, States

(* What Reap(s, c) leaves behind is well typed when a dead child exists.   *)
LEMMA ReapType ==
    ASSUME TypeOK, NEW s \in Slot, NEW c \in Calls,
           Zombies(Children(s, c.a)) # {}, Reap(s, c)
    PROVE  /\ state' \in [Slot -> States] /\ window' \in Image
           /\ contexts' \in [Slot -> Context]
           /\ pending' \in [Slot -> Calls \cup {NoCall}]
           /\ pid' \in [Slot -> Nat] /\ father' \in [Slot -> Nat]
           /\ exit_code' \in [Slot -> Nat]
<1> DEFINE t == FirstOf(Zombies(Children(s, c.a)))
<1>1. t \in Slot
  BY FirstOfIsFirst DEF Zombies, Children
<1>2. ImageOf(s) \in Image
  BY ImageType
<1> HIDE DEF t
<1>3. /\ state' = [state EXCEPT ![t] = "free", ![s] = "running"]
      /\ window' = [ImageOf(s) EXCEPT !.status = IF c.b = 1 THEN exit_code[t] ELSE @]
      /\ contexts' = [contexts EXCEPT ![s].r1 = pid[t]]
      /\ pending' = [pending EXCEPT ![t] = NoCall, ![s] = NoCall]
      /\ UNCHANGED <<pid, father, exit_code>>
  BY DEF Reap, t
<1>4. window' \in Image
  BY <1>1, <1>2, <1>3 DEF TypeOK, Image
<1>5. contexts' \in [Slot -> Context]
  <2>1. pid[t] \in Int
    BY <1>1 DEF TypeOK
  <2> QED
    BY <1>3, <2>1, SetR1
<1>6. state' \in [Slot -> States] /\ pending' \in [Slot -> Calls \cup {NoCall}]
  BY <1>1, <1>3 DEF TypeOK, States
<1> QED
  BY <1>3, <1>4, <1>5, <1>6 DEF TypeOK

(* Chosen is the running slot nearest after the active one, or the active  *)
(* slot itself: the search of sp_dispatch finds one whenever there is one. *)
LEMMA ChosenIsRunnable ==
    ASSUME TypeOK, Runnable # {}
    PROVE  Chosen \in Runnable
<1>1. CASE call.nr # "yield" /\ active \in Runnable
  BY <1>1 DEF Chosen
<1>2. CASE ~(call.nr # "yield" /\ active \in Runnable)
  <2> DEFINE D == {Distance(s) : s \in Runnable}
  <2>1. D \subseteq Nat /\ D # {}
    <3>1. \A s \in Runnable : Distance(s) \in Nat
      BY ConstantsAssumption DEF Distance, Runnable, Slot, TypeOK
    <3> QED
      BY <3>1
  <2>2. PICK d \in D : \A e \in D : d <= e
    BY <2>1, LeastNatural
  <2>3. PICK s \in Runnable : \A t \in Runnable : Distance(s) <= Distance(t)
    BY <2>2
  <2> QED
    BY <1>2, <2>3 DEF Chosen
<1> QED
  BY <1>1, <1>2

(* Every step keeps the state well typed.                                  *)
LEMMA TypeStep == TypeOK /\ [Next]_vars => TypeOK'
<1> SUFFICES ASSUME TypeOK, [Next]_vars PROVE TypeOK'
  OBVIOUS
<1> USE ConstantsAssumption
<1>1. ASSUME NEW c \in Syscalls, NEW d \in Data, NEW p \in Point, NEW k \in Keys,
             UserTrap(c, d, p, k)
      PROVE  TypeOK'
  <2>1. /\ input' \in Seq(Byte) /\ Len(input') < InputSize
        /\ interrupted' \in [Slot -> BOOLEAN]
        /\ cancel_read' \in [Slot -> BOOLEAN]
    BY <1>1, PollKeyType DEF UserTrap
  <2>2. window' \in Image /\ call' \in Calls /\ kpc' = "perform"
    BY <1>1 DEF UserTrap, TypeOK, Image
  <2>3. contexts' \in [Slot -> Context]
    <3>1. contexts[active] \in Context
      BY DEF TypeOK
    <3>2. [contexts[active] EXCEPT !.pc = p] \in Context
      BY <3>1 DEF Context
    <3> QED
      BY <1>1, <3>2 DEF UserTrap, TypeOK
  <2> QED
    BY <1>1, <2>1, <2>2, <2>3 DEF UserTrap, TypeOK, taskVars, fgVars
<1>2. CASE DispatchKill
  <2>1. exit_current(active, 2) /\ Return(0) /\ active \in Slot
    BY <1>2 DEF DispatchKill, TypeOK
  <2>2. /\ contexts' \in [Slot -> Context] /\ kpc' = "cancel" /\ UNCHANGED <<call, scan>>
        /\ pid' \in [Slot -> Nat] /\ father' \in [Slot -> Nat]
        /\ state' \in [Slot -> States] /\ exit_code' \in [Slot -> Nat]
    BY <2>1, ReturnType, ExitType
  <2> QED
    BY <1>2, <2>2 DEF DispatchKill, TypeOK, cancelVars, fgVars, memVars
<1>3. CASE PerformExit
  <2>1. (call.a % 256) * 256 \in Nat
    BY <1>3 DEF PerformExit, Performs, TypeOK, Calls, NoCall
  <2>2. exit_current(active, (call.a % 256) * 256) /\ Return(0) /\ active \in Slot
    BY <1>3 DEF PerformExit, TypeOK
  <2>3. /\ contexts' \in [Slot -> Context] /\ kpc' = "cancel" /\ UNCHANGED <<call, scan>>
        /\ pid' \in [Slot -> Nat] /\ father' \in [Slot -> Nat]
        /\ state' \in [Slot -> States] /\ exit_code' \in [Slot -> Nat]
    BY <2>1, <2>2, ReturnType, ExitType
  <2> QED
    BY <1>3, <2>3 DEF PerformExit, TypeOK, cancelVars, fgVars, memVars
<1>4. CASE ForkFails
  <2>1. \E r \in Int : Return(r)
    BY <1>4 DEF ForkFails, EINTR, EAGAIN
  <2> QED
    BY <1>4, <2>1, ReturnType DEF ForkFails, TypeOK, taskVars, cancelVars, fgVars, memVars
<1>5. CASE fork_current
  <2> DEFINE s == FirstOf(FreeSlots)
  <2>1. s \in Slot
    BY <1>5, FirstOfIsFirst DEF fork_current, FreeSlots
  <2> HIDE DEF s
  <2>2. /\ pid' = [pid EXCEPT ![s] = next_pid + 1]
        /\ father' = [father EXCEPT ![s] = pid[active]]
        /\ state' = [state EXCEPT ![s] = "running"]
        /\ exit_code' = [exit_code EXCEPT ![s] = 0]
        /\ snap' = [snap EXCEPT ![s] = window]
        /\ pending' = [pending EXCEPT ![s] = NoCall]
        /\ interrupted' = [interrupted EXCEPT ![s] = FALSE]
        /\ deferred' = [deferred EXCEPT ![s] = FALSE]
        /\ cancel_read' = [cancel_read EXCEPT ![s] = FALSE]
    BY <1>5 DEF fork_current, NewPid, Cleared, s
  <2>3. contexts' \in [Slot -> Context]
    <3> DEFINE c1 == [contexts EXCEPT ![s] = [pc |-> contexts[active].pc, r1 |-> 0]]
    <3>1. contexts' = [c1 EXCEPT ![active].r1 = next_pid + 1]
      BY <1>5 DEF fork_current, NewPid, s
    <3>2. contexts[active].pc \in Point
      BY DEF TypeOK, Context
    <3>3. c1 \in [Slot -> Context]
      BY <2>1, <3>2 DEF TypeOK, Context
    <3>4. active \in Slot /\ next_pid + 1 \in Int
      BY DEF TypeOK
    <3> HIDE DEF c1
    <3>5. [c1[active] EXCEPT !.r1 = next_pid + 1] \in Context
      BY <3>3, <3>4 DEF Context
    <3> QED
      BY <3>1, <3>3, <3>4, <3>5
  <2>4. /\ next_pid' = next_pid + 1 /\ kpc' = "cancel"
        /\ UNCHANGED <<fgVars, active, window, input, call, scan>>
    BY <1>5 DEF fork_current
  <2>5. /\ pid' \in [Slot -> Nat] /\ father' \in [Slot -> Nat]
        /\ state' \in [Slot -> States] /\ exit_code' \in [Slot -> Nat]
    BY <2>1, <2>2 DEF TypeOK, States
  <2>6. /\ snap' \in [Slot -> Image] /\ pending' \in [Slot -> Calls \cup {NoCall}]
        /\ interrupted' \in [Slot -> BOOLEAN] /\ deferred' \in [Slot -> BOOLEAN]
        /\ cancel_read' \in [Slot -> BOOLEAN]
    BY <2>1, <2>2 DEF TypeOK
  <2> QED
    BY <2>3, <2>4, <2>5, <2>6 DEF TypeOK, fgVars
<1>6. CASE PerformExec
  <2>1. CASE Return(ENOENT) /\ UNCHANGED window
    <3>1. ENOENT \in Int
      BY DEF ENOENT
    <3>2. contexts' \in [Slot -> Context] /\ kpc' = "cancel" /\ UNCHANGED <<call, scan>>
      BY <2>1, <3>1, ReturnType
    <3> QED
      BY <1>6, <2>1, <3>2 DEF PerformExec, TypeOK, taskVars, cancelVars, fgVars
  <2>2. CASE \E e \in Entry :
               /\ window' = [status |-> 0, data |-> Fresh]
               /\ contexts' = [contexts EXCEPT ![active] = [pc |-> e, r1 |-> 0]]
               /\ kpc' = "cancel"
               /\ UNCHANGED <<call, scan>>
    <3>1. window' \in Image /\ contexts' \in [Slot -> Context]
      BY <2>2 DEF TypeOK, Image, Context
    <3> QED
      BY <1>6, <2>2, <3>1 DEF PerformExec, TypeOK, taskVars, cancelVars, fgVars
  <2> QED
    BY <1>6, <2>1, <2>2 DEF PerformExec
<1>7. CASE PerformRename
  <2>1. \E r \in Int : Return(r)
    BY <1>7 DEF PerformRename, EINTR, ENOENT
  <2> QED
    BY <1>7, <2>1, ReturnType DEF PerformRename, TypeOK, taskVars, cancelVars, fgVars, memVars
<1>8. CASE wait_current
  <2>1. /\ call \in Calls /\ active \in Slot
        /\ UNCHANGED <<cancelVars, fgVars, next_pid, active, snap, input>>
    BY <1>8 DEF wait_current, Performs, TypeOK, NoCall
  <2>2. CASE /\ Reap(active, call) /\ Zombies(Children(active, call.a)) # {}
             /\ kpc' = "cancel" /\ UNCHANGED <<call, scan>>
    BY <2>1, <2>2, ReapType DEF TypeOK, cancelVars, fgVars
  <2>3. CASE Block /\ UNCHANGED window
    BY <2>1, <2>3, BlockType DEF TypeOK, cancelVars, fgVars
  <2>4. CASE UNCHANGED <<taskVars, pending, window>> /\ \E r \in Int : Return(r)
    BY <2>1, <2>4, ReturnType DEF TypeOK, taskVars, cancelVars, fgVars
  <2>5. 0 \in Int /\ EINVAL \in Int /\ ECHILD \in Int
    BY DEF EINVAL, ECHILD
  <2> QED
    BY <1>8, <2>2, <2>3, <2>4, <2>5 DEF wait_current
<1>9. CASE tty_read_user
  <2>1. call \in Calls
    BY <1>9 DEF tty_read_user, Performs, TypeOK, NoCall
  <2>2. input' \in Seq(Byte) /\ Len(input') < InputSize
    BY <1>9, QueueOps DEF tty_read_user, TypeOK
  <2>3. cancel_read' \in [Slot -> BOOLEAN]
    BY <1>9 DEF tty_read_user, TypeOK
  <2>4. CASE Block
    BY <1>9, <2>1, <2>2, <2>3, <2>4, BlockType DEF tty_read_user, TypeOK, fgVars, memVars
  <2>5. CASE UNCHANGED <<taskVars, pending>> /\ \E r \in Int : Return(r)
    BY <1>9, <2>2, <2>3, <2>5, ReturnType DEF tty_read_user, TypeOK, taskVars, fgVars, memVars
  <2>6. EINTR \in Int /\ \A n \in 1..Len(input) : n \in Int
    BY DEF EINTR
  <2> QED
    BY <1>9, <2>4, <2>5, <2>6 DEF tty_read_user
<1>10. CASE SetForeground
  <2>1. call.a \in Nat
    BY <1>10 DEF SetForeground, Performs, TypeOK, Calls, NoCall
  <2>2. \E r \in Int : Return(r)
    BY <1>10 DEF SetForeground, ECHILD
  <2>3. /\ contexts' \in [Slot -> Context] /\ kpc' = "cancel" /\ UNCHANGED <<call, scan>>
    BY <2>2, ReturnType
  <2>4. foreground_pid' \in Nat /\ foreground_owner' \in Nat
    BY <1>10, <2>1 DEF SetForeground, TypeOK, fgVars
  <2>5. /\ interrupted' \in [Slot -> BOOLEAN] /\ deferred' \in [Slot -> BOOLEAN]
        /\ cancel_read' \in [Slot -> BOOLEAN]
    BY <1>10 DEF SetForeground, TypeOK, cancelVars, occupied, descendant
  <2> QED
    BY <1>10, <2>3, <2>4, <2>5 DEF SetForeground, TypeOK, taskVars, memVars
<1>11. CASE Defer
  <2>1. \E r \in Int : Return(r)
    BY <1>11 DEF Defer
  <2> QED
    BY <1>11, <2>1, ReturnType DEF Defer, TypeOK, taskVars, fgVars, memVars
<1>12. CASE TakeCancel
  <2>1. \E r \in Int : Return(r)
    BY <1>12 DEF TakeCancel
  <2> QED
    BY <1>12, <2>1, ReturnType DEF TakeCancel, TypeOK, taskVars, fgVars, memVars
<1>13. CASE PerformOther
  BY <1>13, ReturnType DEF PerformOther, TypeOK, taskVars, cancelVars, fgVars, memVars
<1>14. CASE CancelOne
  <2> DEFINE s == FirstOf(Doomed)
  <2>1. s \in Slot
    BY <1>14, FirstOfIsFirst DEF CancelOne, Doomed
  <2>2. ImageOf(s) \in Image /\ Saved(s) \in [Slot -> Image]
    BY <2>1, ImageType
  <2> HIDE DEF s
  <2>3. /\ activate(s) /\ exit_current(s, 2)
        /\ pending' = [pending EXCEPT ![s] = NoCall]
        /\ UNCHANGED <<contexts, cancelVars, fgVars, next_pid, input, kpc, call, scan>>
    BY <1>14 DEF CancelOne, s
  <2> QED
    BY <2>1, <2>2, <2>3, ExitType DEF activate, TypeOK, cancelVars, fgVars
<1>15. CASE CancelDone
  BY <1>15 DEF CancelDone, TypeOK, taskVars, cancelVars, fgVars, memVars
<1>16. ASSUME NEW s \in Slot, RetryReady(s)
       PROVE  TypeOK'
  <2>1. ImageOf(s) \in Image /\ Saved(s) \in [Slot -> Image]
    BY ImageType
  <2>2. pending[s] \in Calls
    BY <1>16 DEF RetryReady, TypeOK, NoCall
  <2>3. /\ active' \in Slot /\ snap' \in [Slot -> Image] /\ scan' \in 0..(NR + 1)
        /\ UNCHANGED <<interrupted, deferred, fgVars, next_pid, kpc, call>>
    BY <1>16, <2>1 DEF RetryReady, Slot
  <2>4. CASE /\ pending[s].nr = "wait" /\ Children(s, pending[s].a) # {}
             /\ Reap(s, pending[s]) /\ UNCHANGED <<cancel_read, input>>
    <3>1. Ready(s)
      BY <1>16, FirstOfIsFirst DEF RetryReady, ToRetry
    <3>2. Zombies(Children(s, pending[s].a)) # {}
      BY <2>4, <3>1 DEF Ready, wait_ready
    <3> QED
      BY <2>2, <2>3, <2>4, <3>2, ReapType DEF TypeOK, fgVars
  <2>5. CASE /\ \E r \in Int : Resume(s, r)
             /\ \/ UNCHANGED <<cancel_read, input>>
                \/ cancel_read' = [cancel_read EXCEPT ![s] = FALSE] /\ UNCHANGED input
                \/ UNCHANGED cancel_read /\ \E n \in 1..Len(input) : input' = Rest(input, n)
    <3>1. /\ contexts' \in [Slot -> Context] /\ window' \in Image
          /\ pending' \in [Slot -> Calls \cup {NoCall}] /\ state' \in [Slot -> States]
          /\ UNCHANGED <<pid, father, exit_code>>
      <4>1. PICK r \in Int : Resume(s, r)
        BY <2>5
      <4>2. contexts' \in [Slot -> Context] /\ window' \in Image
        BY <2>1, <4>1, SetR1 DEF Resume, TypeOK
      <4>3. /\ pending' \in [Slot -> Calls \cup {NoCall}] /\ state' \in [Slot -> States]
            /\ UNCHANGED <<pid, father, exit_code>>
        BY <4>1 DEF Resume, TypeOK, States
      <4> QED
        BY <4>2, <4>3
    <3>2. /\ input' \in Seq(Byte) /\ Len(input') < InputSize
          /\ cancel_read' \in [Slot -> BOOLEAN]
      BY <2>5, QueueOps DEF TypeOK
    <3> QED
      BY <2>3, <3>1, <3>2 DEF TypeOK, fgVars
  <2>6. ECHILD \in Int /\ EINTR \in Int /\ \A n \in 1..Len(input) : n \in Int
    BY DEF ECHILD, EINTR
  <2> QED
    BY <1>16, <2>4, <2>5, <2>6 DEF RetryReady
<1>17. CASE RetryDone
  BY <1>17 DEF RetryDone, TypeOK, taskVars, cancelVars, fgVars, memVars
<1>18. CASE Choose
  <2>1. Chosen \in Slot
    BY <1>18, ChosenIsRunnable DEF Choose, Runnable
  <2>2. ImageOf(Chosen) \in Image /\ Saved(Chosen) \in [Slot -> Image]
    BY <2>1, ImageType
  <2> QED
    BY <1>18, <2>1, <2>2 DEF Choose, activate, TypeOK, taskVars, cancelVars, fgVars
<1>19. ASSUME NEW k \in Keys, Idle(k)
       PROVE  TypeOK'
  <2>1. /\ input' \in Seq(Byte) /\ Len(input') < InputSize
        /\ interrupted' \in [Slot -> BOOLEAN]
        /\ cancel_read' \in [Slot -> BOOLEAN]
    BY <1>19, PollKeyType DEF Idle
  <2> QED
    BY <1>19, <2>1 DEF Idle, TypeOK, taskVars, fgVars, memVars
<1>20. CASE UNCHANGED vars
  BY <1>20 DEF vars, TypeOK, taskVars, cancelVars, fgVars, memVars
<1> QED
  BY <1>1, <1>2, <1>3, <1>4, <1>5, <1>6, <1>7, <1>8, <1>9, <1>10, <1>11, <1>12, <1>13,
     <1>14, <1>15, <1>16, <1>17, <1>18, <1>19, <1>20 DEF Next, Kernel, Perform

(* The state stays well typed whatever the programs do.                    *)
THEOREM TypeCorrect == Spec => []TypeOK
<1>1. Init => TypeOK
  BY ConstantsAssumption, InputSizeAssumption
     DEF Init, TypeOK, Slot, States, Context, Image, NoCall
<1> QED
  BY <1>1, TypeStep, PTL DEF Spec

(***************************************************************************)
(* The process tree.                                                       *)
(***************************************************************************)
(* A step that leaves the task table alone keeps the tree.                 *)
LEMMA TreeUnchanged ==
    ASSUME PidsOK, EveryoneHasAFather, UNCHANGED <<pid, father, next_pid>>,
           \A s \in Slot : (occupied(s)' => occupied(s)) /\ (live(s) => live(s)')
    PROVE  PidsOK' /\ EveryoneHasAFather'
<1>1. PidsOK'
  <2> SUFFICES ASSUME NEW s \in Slot, occupied(s)'
               PROVE  /\ 0 < pid[s] /\ pid[s] <= next_pid /\ father[s] < pid[s]
                      /\ \A t \in Slot : occupied(t)' /\ pid[t] = pid[s] => t = s
    BY DEF PidsOK
  <2> QED
    BY DEF PidsOK, occupied
<1>2. EveryoneHasAFather'
  <2> SUFFICES ASSUME NEW s \in Slot, occupied(s)', pid[s] # 1, father[s] # 1
               PROVE  \E t \in Slot : live(t)' /\ pid[t] = father[s]
    BY DEF EveryoneHasAFather
  <2> QED
    BY DEF EveryoneHasAFather, occupied, live
<1> QED
  BY <1>1, <1>2

(* An exit hands every child, dead or alive, to init.                      *)
LEMMA TreeExit ==
    ASSUME TypeOK, PidsOK, EveryoneHasAFather, NEW s \in Slot, live(s),
           NEW code, exit_current(s, code), UNCHANGED next_pid
    PROVE  PidsOK' /\ EveryoneHasAFather'
<1>1. \A t \in Slot : occupied(t)' <=> occupied(t)
  BY DEF exit_current, occupied, live, TypeOK
<1>2. \A t \in Slot : father'[t] = IF occupied(t) /\ father[t] = pid[s] THEN 1 ELSE father[t]
  BY DEF exit_current
<1>3. PidsOK'
  <2> SUFFICES ASSUME NEW t \in Slot, occupied(t)
               PROVE  /\ 0 < pid[t] /\ pid[t] <= next_pid /\ father'[t] < pid[t]
                      /\ \A u \in Slot : occupied(u) /\ pid[u] = pid[t] => u = t
    BY <1>1 DEF PidsOK, exit_current
  <2>1. 0 < pid[s] /\ pid[s] \in Nat
    BY DEF PidsOK, live, occupied, TypeOK
  <2>2. /\ 0 < pid[t] /\ pid[t] <= next_pid /\ father[t] < pid[t] /\ pid[t] \in Nat
        /\ \A u \in Slot : occupied(u) /\ pid[u] = pid[t] => u = t
    BY DEF PidsOK, TypeOK
  <2>3. father'[t] < pid[t]
    BY <1>2, <2>1, <2>2
  <2> QED
    BY <2>2, <2>3
<1>4. EveryoneHasAFather'
  <2> SUFFICES ASSUME NEW t \in Slot, occupied(t), pid[t] # 1, father'[t] # 1
               PROVE  \E u \in Slot : live(u)' /\ pid[u] = father'[t]
    BY <1>1 DEF EveryoneHasAFather, exit_current
  <2>1. father'[t] = father[t] /\ father[t] # pid[s]
    BY <1>2
  <2>2. PICK u \in Slot : live(u) /\ pid[u] = father[t]
    BY <2>1 DEF EveryoneHasAFather
  <2>3. u # s
    BY <2>1, <2>2
  <2>4. live(u)'
    BY <2>2, <2>3 DEF exit_current, live, TypeOK
  <2> QED
    BY <2>1, <2>2, <2>4
<1> QED
  BY <1>3, <1>4

(* Reaping removes a dead process, which is nobody's live father.          *)
LEMMA TreeReap ==
    ASSUME TypeOK, PidsOK, EveryoneHasAFather, NEW s \in Slot, live(s), NEW c,
           Zombies(Children(s, c.a)) # {}, Reap(s, c), UNCHANGED next_pid
    PROVE  PidsOK' /\ EveryoneHasAFather'
<1> DEFINE t == FirstOf(Zombies(Children(s, c.a)))
<1>1. t \in Zombies(Children(s, c.a))
  BY FirstOfIsFirst DEF Zombies, Children
<1>2. t \in Slot /\ state[t] = "zombie"
  BY <1>1 DEF Zombies, Children
<1> HIDE DEF t
<1>3. state' = [state EXCEPT ![t] = "free", ![s] = "running"] /\ UNCHANGED <<pid, father>>
  BY DEF Reap, t
<1>4. s # t
  BY <1>2 DEF live
<1>5. \A u \in Slot : (occupied(u)' => occupied(u)) /\ (live(u) => live(u)')
  BY <1>2, <1>3, <1>4 DEF occupied, live, TypeOK
<1> QED
  BY <1>3, <1>5, TreeUnchanged

(* A fork gives the new process a fresh pid and a living father.           *)
LEMMA TreeFork ==
    ASSUME TypeOK, PidsOK, EveryoneHasAFather, state[active] = "running", fork_current
    PROVE  PidsOK' /\ EveryoneHasAFather'
<1> DEFINE s == FirstOf(FreeSlots)
<1>1. s \in Slot /\ ~occupied(s)
  BY FirstOfIsFirst DEF fork_current, FreeSlots
<1> HIDE DEF s
<1>2. /\ pid' = [pid EXCEPT ![s] = next_pid + 1]
      /\ father' = [father EXCEPT ![s] = pid[active]]
      /\ state' = [state EXCEPT ![s] = "running"]
      /\ next_pid' = next_pid + 1
  BY DEF fork_current, NewPid, s
<1>3. active \in Slot /\ occupied(active) /\ live(active) /\ active # s
  BY <1>1 DEF TypeOK, occupied, live
<1>4. \A t \in Slot \ {s} : /\ pid'[t] = pid[t] /\ father'[t] = father[t]
                            /\ state'[t] = state[t]
  BY <1>2 DEF TypeOK
<1>5. pid'[s] = next_pid + 1 /\ father'[s] = pid[active] /\ state'[s] = "running"
  BY <1>1, <1>2 DEF TypeOK
<1>6. PidsOK'
  <2> SUFFICES ASSUME NEW t \in Slot, state'[t] # "free"
               PROVE  /\ 0 < pid'[t] /\ pid'[t] <= next_pid + 1 /\ father'[t] < pid'[t]
                      /\ \A u \in Slot : state'[u] # "free" /\ pid'[u] = pid'[t] => u = t
    BY <1>2 DEF PidsOK, occupied
  <2>1. \A u \in Slot \ {s} : state[u] # "free" =>
            /\ 0 < pid[u] /\ pid[u] <= next_pid /\ pid[u] \in Nat /\ father[u] < pid[u]
            /\ \A v \in Slot : state[v] # "free" /\ pid[v] = pid[u] => v = u
    BY DEF PidsOK, TypeOK, occupied
  <2>2. next_pid \in Nat
    BY DEF TypeOK
  <2>3. CASE t = s
    <3>1. pid[active] <= next_pid /\ pid[active] \in Nat
      BY <1>3, <2>1 DEF occupied
    <3>2. \A u \in Slot : state'[u] # "free" /\ pid'[u] = pid'[t] => u = t
      BY <1>4, <1>5, <2>1, <2>2, <2>3
    <3> QED
      BY <1>5, <2>2, <2>3, <3>1, <3>2
  <2>4. CASE t # s
    <3>1. /\ state[t] # "free" /\ pid'[t] = pid[t] /\ father'[t] = father[t]
      BY <1>4, <2>4
    <3>2. \A u \in Slot : state'[u] # "free" /\ pid'[u] = pid'[t] => u = t
      BY <1>4, <1>5, <2>1, <2>2, <2>4, <3>1
    <3> QED
      BY <2>1, <2>2, <2>4, <3>1, <3>2
  <2> QED
    BY <2>3, <2>4
<1>7. EveryoneHasAFather'
  <2> SUFFICES ASSUME NEW t \in Slot, state'[t] # "free", pid'[t] # 1, father'[t] # 1
               PROVE  \E u \in Slot : live(u)' /\ pid'[u] = father'[t]
    BY DEF EveryoneHasAFather, occupied
  <2>1. CASE t = s
    BY <1>3, <1>4, <1>5, <2>1 DEF live
  <2>2. CASE t # s
    <3>1. PICK u \in Slot : live(u) /\ pid[u] = father[t]
      BY <1>4, <2>2 DEF EveryoneHasAFather, occupied
    <3>2. u # s
      BY <1>1, <3>1 DEF live, occupied
    <3> QED
      BY <1>4, <2>2, <3>1, <3>2 DEF live
  <2> QED
    BY <2>1, <2>2
<1> QED
  BY <1>6, <1>7

(* Every step keeps the process tree in order.                             *)
LEMMA TreeStep == IInv /\ [Next]_vars => PidsOK' /\ EveryoneHasAFather'
<1> SUFFICES ASSUME IInv, [Next]_vars PROVE PidsOK' /\ EveryoneHasAFather'
  OBVIOUS
<1>0. /\ TypeOK /\ PidsOK /\ EveryoneHasAFather /\ PassProgress
      /\ kpc = "perform" => live(active) /\ state[active] = "running"
      /\ active \in Slot
  BY DEF IInv, PassProgress, TypeOK, live
<1>1. CASE UNCHANGED <<taskVars, next_pid>>
  BY <1>0, <1>1, TreeUnchanged DEF taskVars, occupied, live
<1>2. CASE DispatchKill \/ PerformExit
  BY <1>0, <1>2, TreeExit DEF DispatchKill, PerformExit, Performs
<1>3. CASE fork_current
  BY <1>0, <1>3, TreeFork DEF fork_current, Performs
<1>4. CASE Block /\ UNCHANGED next_pid /\ kpc = "perform"
  <2>1. \A s \in Slot : (occupied(s)' => occupied(s)) /\ (live(s) => live(s)')
    BY <1>0, <1>4 DEF Block, occupied, live, TypeOK
  <2> QED
    BY <1>0, <1>4, <2>1, TreeUnchanged DEF Block
<1>5. CASE wait_current
  <2>1. CASE UNCHANGED taskVars
    BY <1>1, <1>5, <2>1 DEF wait_current
  <2>2. CASE Reap(active, call) /\ Zombies(Children(active, call.a)) # {}
    BY <1>0, <1>5, <2>2, TreeReap DEF wait_current, Performs
  <2>3. CASE Block
    BY <1>4, <1>5, <2>3 DEF wait_current, Performs
  <2> QED
    BY <1>5, <2>1, <2>2, <2>3 DEF wait_current
<1>6. CASE tty_read_user
  BY <1>1, <1>4, <1>6 DEF tty_read_user, Performs
<1>7. CASE CancelOne
  <2> DEFINE s == FirstOf(Doomed)
  <2>1. s \in Doomed
    BY <1>7, FirstOfIsFirst DEF CancelOne, Doomed
  <2>2. s \in Slot /\ live(s)
    BY <2>1 DEF Doomed
  <2>3. exit_current(s, 2) /\ UNCHANGED next_pid
    BY <1>7 DEF CancelOne
  <2> QED
    BY <1>0, <2>2, <2>3, TreeExit
<1>8. ASSUME NEW s \in Slot, RetryReady(s)
      PROVE  PidsOK' /\ EveryoneHasAFather'
  <2>1. Ready(s) /\ UNCHANGED next_pid
    BY <1>8, FirstOfIsFirst DEF RetryReady, ToRetry
  <2>2. live(s)
    BY <2>1 DEF Ready, IInv, SleepersHaveCalls, NoCall, live
  <2>3. CASE /\ pending[s].nr = "wait" /\ Children(s, pending[s].a) # {}
             /\ Reap(s, pending[s])
    <3>1. Zombies(Children(s, pending[s].a)) # {}
      BY <2>1, <2>3 DEF Ready, wait_ready
    <3> QED
      BY <1>0, <2>1, <2>2, <2>3, <3>1, TreeReap
  <2>4. CASE \E r : Resume(s, r)
    <3>1. \A u \in Slot : (occupied(u)' => occupied(u)) /\ (live(u) => live(u)')
      BY <1>0, <2>2, <2>4 DEF Resume, occupied, live, TypeOK
    <3> QED
      BY <1>0, <2>1, <2>4, <3>1, TreeUnchanged DEF Resume
  <2> QED
    BY <1>8, <2>3, <2>4 DEF RetryReady
<1> QED
  BY <1>1, <1>2, <1>3, <1>5, <1>6, <1>7, <1>8
     DEF Next, Kernel, Perform, UserTrap, ForkFails, PerformExec, PerformRename,
         SetForeground, Defer, TakeCancel, PerformOther, CancelDone, RetryDone, Choose, Idle,
         vars

(***************************************************************************)
(* Sleeping, the foreground command and the phases of a pass.              *)
(***************************************************************************)

(* Every step leaves exactly the sleepers with a call to retry.            *)
LEMMA SleepStep == IInv /\ [Next]_vars => SleepersHaveCalls'
<1> SUFFICES ASSUME IInv, [Next]_vars PROVE SleepersHaveCalls'
  OBVIOUS
<1>0. /\ TypeOK /\ SleepersHaveCalls /\ active \in Slot
      /\ kpc = "perform" => state[active] = "running" /\ pending[active] = NoCall
  BY DEF IInv, PassProgress, TypeOK, SleepersHaveCalls, occupied
<1>1. CASE UNCHANGED <<state, pending>>
  BY <1>0, <1>1 DEF SleepersHaveCalls, occupied
<1>2. CASE DispatchKill \/ PerformExit
  <2>1. state' = [state EXCEPT ![active] = "zombie"] /\ UNCHANGED pending /\ kpc = "perform"
    BY <1>2 DEF DispatchKill, PerformExit, Performs, exit_current
  <2> QED
    BY <1>0, <2>1 DEF SleepersHaveCalls, occupied, TypeOK
<1>3. CASE fork_current
  <2> DEFINE s == FirstOf(FreeSlots)
  <2>1. s \in Slot
    BY <1>3, FirstOfIsFirst DEF fork_current, FreeSlots
  <2>2. state' = [state EXCEPT ![s] = "running"] /\ pending' = [pending EXCEPT ![s] = NoCall]
    BY <1>3 DEF fork_current
  <2> QED
    BY <1>0, <2>1, <2>2 DEF SleepersHaveCalls, occupied, TypeOK
<1>4. CASE Block /\ kpc = "perform" /\ call.nr \in Nrs
  <2>1. call # NoCall
    BY <1>4 DEF NoCall, Nrs
  <2> QED
    BY <1>0, <1>4, <2>1 DEF Block, SleepersHaveCalls, occupied, TypeOK
<1>5. ASSUME NEW s \in Slot, NEW c, live(s), Zombies(Children(s, c.a)) # {}, Reap(s, c)
      PROVE  SleepersHaveCalls'
  <2> DEFINE t == FirstOf(Zombies(Children(s, c.a)))
  <2>1. t \in Slot /\ state[t] = "zombie"
    BY <1>5, FirstOfIsFirst DEF Zombies, Children
  <2>2. /\ state' = [state EXCEPT ![t] = "free", ![s] = "running"]
        /\ pending' = [pending EXCEPT ![t] = NoCall, ![s] = NoCall]
    BY <1>5 DEF Reap
  <2> QED
    BY <1>0, <2>1, <2>2 DEF SleepersHaveCalls, occupied, TypeOK
<1>6. CASE wait_current
  <2>1. live(active) /\ call.nr \in Nrs /\ kpc = "perform"
    BY <1>0, <1>6 DEF wait_current, Performs, live, Nrs
  <2>2. CASE Reap(active, call) /\ Zombies(Children(active, call.a)) # {}
    BY <1>0, <1>5, <2>1, <2>2
  <2>3. CASE Block
    BY <1>4, <2>1, <2>3
  <2>4. CASE UNCHANGED <<taskVars, pending>>
    BY <1>1, <2>4 DEF taskVars
  <2> QED
    BY <1>6, <2>2, <2>3, <2>4 DEF wait_current
<1>7. CASE tty_read_user
  BY <1>1, <1>4, <1>7 DEF tty_read_user, Performs, taskVars, Nrs
<1>8. CASE CancelOne
  <2> DEFINE s == FirstOf(Doomed)
  <2>1. s \in Slot
    BY <1>8, FirstOfIsFirst DEF CancelOne, Doomed
  <2>2. state' = [state EXCEPT ![s] = "zombie"] /\ pending' = [pending EXCEPT ![s] = NoCall]
    BY <1>8 DEF CancelOne, exit_current
  <2> QED
    BY <1>0, <2>1, <2>2 DEF SleepersHaveCalls, occupied, TypeOK
<1>9. ASSUME NEW s \in Slot, RetryReady(s)
      PROVE  SleepersHaveCalls'
  <2>1. Ready(s)
    BY <1>9, FirstOfIsFirst DEF RetryReady, ToRetry
  <2>2. live(s)
    BY <1>0, <2>1 DEF Ready, SleepersHaveCalls, NoCall, live
  <2>3. CASE /\ pending[s].nr = "wait" /\ Children(s, pending[s].a) # {}
             /\ Reap(s, pending[s])
    <3>1. Zombies(Children(s, pending[s].a)) # {}
      BY <2>1, <2>3 DEF Ready, wait_ready
    <3> QED
      BY <1>5, <2>2, <2>3, <3>1
  <2>4. CASE \E r : Resume(s, r)
    BY <1>0, <2>4 DEF Resume, SleepersHaveCalls, occupied, TypeOK
  <2> QED
    BY <1>9, <2>3, <2>4 DEF RetryReady
<1> QED
  BY <1>1, <1>2, <1>3, <1>6, <1>7, <1>8, <1>9
     DEF Next, Kernel, Perform, UserTrap, ForkFails, PerformExec, PerformRename,
         SetForeground, Defer, TakeCancel, PerformOther, CancelDone, RetryDone, Choose, Idle,
         vars, taskVars

(* The foreground command stays younger than its owner.                    *)
LEMMA ForegroundStep == IInv /\ [Next]_vars => ForegroundIsYounger'
<1> SUFFICES ASSUME IInv, [Next]_vars PROVE ForegroundIsYounger'
  OBVIOUS
<1>1. CASE UNCHANGED fgVars
  BY <1>1 DEF fgVars, IInv, ForegroundIsYounger
<1>2. CASE SetForeground
  <2>1. CASE UNCHANGED fgVars
    BY <1>1, <2>1
  <2>2. CASE /\ foreground_owner' = pid[active] /\ foreground_pid' = call.a
             /\ call.a # 0 => \E t \in Slot :
                    occupied(t) /\ pid[t] = call.a /\ father[t] = pid[active]
    BY <2>2 DEF IInv, PidsOK, ForegroundIsYounger
  <2> QED
    BY <1>2, <2>1, <2>2 DEF SetForeground, IsChild
<1> QED
  BY <1>1, <1>2
     DEF Next, Kernel, Perform, UserTrap, DispatchKill, PerformExit, ForkFails, fork_current,
         PerformExec, PerformRename, wait_current, tty_read_user, Defer, TakeCancel,
         PerformOther, CancelOne, CancelDone, RetryReady, RetryDone, Choose, Idle, vars

(* Taking bytes from the queue never completes a line.                     *)
LEMMA RestHasNoNewLine ==
    ASSUME NEW q \in Seq(Byte), NEW n \in 1..Len(q), line_ready(Rest(q, n))
    PROVE  line_ready(q)
<1>1. Len(q) \in Nat /\ \A i \in 1..Len(q) : q[i] \in Byte
  BY LenProperties, ElementOfSeq
<1>2. /\ Len(Rest(q, n)) = IF n + 1 <= Len(q) THEN Len(q) - (n + 1) + 1 ELSE 0
      /\ \A i \in 1..(Len(q) - (n + 1) + 1) : Rest(q, n)[i] = q[n + 1 + i - 1]
  <2>1. n + 1 \in Int /\ Len(q) \in Int /\ \A i \in (n + 1)..Len(q) : q[i] \in Byte
    BY <1>1
  <2> QED
    BY <2>1, SubSeqProperties DEF Rest
<1>3. PICK i \in 1..Len(Rest(q, n)) : Rest(q, n)[i] = Newline
  BY DEF line_ready
<1>4. n + i \in 1..Len(q) /\ q[n + i] = Newline
  BY <1>1, <1>2, <1>3
<1> QED
  BY <1>4 DEF line_ready

(* Finishing one call of a sweep makes no other call ready: a dead child   *)
(* is reaped by its own father, and a line taken leaves no newer line.     *)
LEMMA RetryReadies ==
    ASSUME IInv, NEW s \in Slot, RetryReady(s), NEW u \in Slot, Ready(u)'
    PROVE  u # s /\ Ready(u)
<1>0. /\ TypeOK /\ PidsOK /\ Ready(s) /\ live(s) /\ occupied(s)
  <2>1. Ready(s)
    BY FirstOfIsFirst DEF RetryReady, ToRetry
  <2> QED
    BY <2>1 DEF IInv, Ready, SleepersHaveCalls, NoCall, live, occupied
<1>1. /\ pid' = pid /\ father' = father
      /\ cancel_read'[u] => cancel_read[u]
      /\ line_ready(input') => line_ready(input)
      /\ pending'[s] = NoCall
  <2>1. pid' = pid /\ father' = father
    BY DEF RetryReady, Reap, Resume
  <2>2. cancel_read'[u] => cancel_read[u]
    BY <1>0 DEF RetryReady, TypeOK
  <2>3. line_ready(input') => line_ready(input)
    BY <1>0, RestHasNoNewLine DEF RetryReady, TypeOK
  <2>4. pending'[s] = NoCall
    BY <1>0 DEF RetryReady, Reap, Resume, TypeOK
  <2> QED
    BY <2>1, <2>2, <2>3, <2>4
<1>2. u # s
  BY <1>1 DEF Ready, NoCall
<1>3. CASE \E r : Resume(s, r)
  <2>1. /\ pending'[u] = pending[u] /\ state'[u] = state[u]
        /\ \A t \in Slot : /\ state'[t] # "free" <=> state[t] # "free"
                           /\ state'[t] = "zombie" <=> state[t] = "zombie"
    BY <1>0, <1>2, <1>3 DEF Resume, TypeOK, live
  <2>2. \A p : Children(u, p)' = Children(u, p) /\ Zombies(Children(u, p))' = Zombies(Children(u, p))
    BY <1>1, <2>1 DEF Children, Zombies, occupied
  <2> QED
    BY <1>1, <1>2, <2>1, <2>2 DEF Ready, wait_ready, occupied
<1>4. CASE /\ pending[s].nr = "wait" /\ Children(s, pending[s].a) # {}
           /\ Reap(s, pending[s])
  <2> DEFINE t == FirstOf(Zombies(Children(s, pending[s].a)))
  <2>1. Zombies(Children(s, pending[s].a)) # {}
    BY <1>0, <1>4 DEF Ready, wait_ready
  <2>2. t \in Zombies(Children(s, pending[s].a))
    BY <2>1, FirstOfIsFirst DEF Zombies, Children
  <2>3. t \in Slot /\ state[t] = "zombie" /\ father[t] = pid[s]
    BY <2>2 DEF Zombies, Children
  <2> HIDE DEF t
  <2>4. /\ state' = [state EXCEPT ![t] = "free", ![s] = "running"]
        /\ pending' = [pending EXCEPT ![t] = NoCall, ![s] = NoCall]
    BY <1>4 DEF Reap, t
  <2>5. u # t
    BY <1>0, <2>3, <2>4 DEF Ready, occupied, TypeOK
  <2>6. pending'[u] = pending[u] /\ state'[u] = state[u] /\ occupied(u)
    BY <1>0, <1>2, <2>3, <2>4, <2>5 DEF Ready, occupied, TypeOK
  <2>7. father[t] # pid[u]
    BY <1>0, <1>2, <2>3, <2>6 DEF PidsOK
  <2>8. \A v \in Slot \ {t} : /\ (state'[v] # "free") <=> (state[v] # "free")
                              /\ (state'[v] = "zombie") <=> (state[v] = "zombie")
    BY <1>0, <2>3, <2>4 DEF TypeOK, live
  <2>9. \A p : Children(u, p)' = Children(u, p) /\ Zombies(Children(u, p))' = Zombies(Children(u, p))
    BY <1>1, <2>3, <2>7, <2>8 DEF Children, Zombies, occupied
  <2> QED
    BY <1>1, <1>2, <2>6, <2>9 DEF Ready, wait_ready, occupied
<1> QED
  BY <1>2, <1>3, <1>4 DEF RetryReady

(* Every step keeps what the phases have settled.                          *)
LEMMA PassStep == IInv /\ [Next]_vars => PassProgress'
<1> SUFFICES ASSUME IInv, [Next]_vars PROVE PassProgress'
  OBVIOUS
<1>0. TypeOK /\ PassProgress /\ active \in Slot
  BY DEF IInv, TypeOK
<1>1. CASE kpc' = "cancel"
  BY <1>1 DEF PassProgress
<1>2. CASE UNCHANGED vars
  BY <1>0, <1>2 DEF PassProgress, vars, taskVars, cancelVars, memVars, Doomed, Ready, live,
       occupied, wait_ready, Children, Zombies
<1>3. ASSUME NEW c, NEW d, NEW p, NEW k, UserTrap(c, d, p, k)
      PROVE  PassProgress'
  BY <1>0, <1>3 DEF UserTrap, PassProgress, taskVars
<1>4. CASE CancelOne
  BY <1>1, <1>4 DEF CancelOne
<1>5. CASE CancelDone
  BY <1>5 DEF CancelDone, PassProgress, taskVars, cancelVars, Doomed, live, Slot
<1>6. ASSUME NEW s \in Slot, RetryReady(s)
      PROVE  PassProgress'
  <2>1. kpc = "retry" /\ kpc' = "retry" /\ scan' = s + 1
    BY <1>6 DEF RetryReady
  <2>2. Doomed' = {}
    <3>1. \A u \in Slot : live(u)' => live(u)
      <4>1. Ready(s)
        BY <1>6, FirstOfIsFirst DEF RetryReady, ToRetry
      <4>2. live(s)
        BY <4>1 DEF IInv, Ready, SleepersHaveCalls, NoCall, live
      <4>3. CASE \E r : Resume(s, r)
        BY <1>0, <4>2, <4>3 DEF Resume, live, TypeOK
      <4>4. CASE Reap(s, pending[s])
        BY <1>0, <4>2, <4>4 DEF Reap, live, TypeOK
      <4> QED
        BY <1>6, <4>3, <4>4 DEF RetryReady
    <3> QED
      BY <1>0, <1>6, <2>1, <3>1 DEF RetryReady, Doomed, PassProgress
  <2>3. ASSUME NEW u \in Slot, u < s + 1
        PROVE  ~Ready(u)'
    <3>1. SUFFICES ASSUME Ready(u)' PROVE FALSE
      OBVIOUS
    <3>2. u # s /\ Ready(u)
      BY <1>6, <3>1, RetryReadies
    <3>3. s = FirstOf(ToRetry) /\ ToRetry # {}
      BY <1>6 DEF RetryReady
    <3>4. u \notin ToRetry
      <4>1. u < s
        BY <2>3, <3>2 DEF Slot
      <4>2. \A t \in ToRetry : s <= t
        BY <3>3, FirstOfIsFirst DEF ToRetry
      <4> QED
        BY <4>1, <4>2 DEF Slot
    <3>5. u < scan
      BY <1>0, <3>2, <3>4 DEF ToRetry, TypeOK, Slot
    <3> QED
      BY <1>0, <2>1, <3>2, <3>5 DEF PassProgress
  <2> QED
    BY <2>1, <2>2, <2>3 DEF PassProgress
<1>7. CASE RetryDone
  <2>1. \A s \in Slot : ~Ready(s)
    BY <1>0, <1>7 DEF RetryDone, ToRetry, PassProgress, Slot, TypeOK
  <2>2. Doomed = {}
    BY <1>0, <1>7 DEF RetryDone, PassProgress
  <2>3. Doomed' = {}
    BY <1>7, <2>2 DEF RetryDone, Doomed, live, taskVars, cancelVars
  <2>4. \A s \in Slot : ~Ready(s)'
    BY <1>7, <2>1 DEF RetryDone, Ready, occupied, wait_ready, Children, Zombies, taskVars, cancelVars
  <2> QED
    BY <1>7, <2>3, <2>4 DEF RetryDone, PassProgress
<1>8. CASE Choose
  <2>1. Chosen \in Runnable
    BY <1>0, <1>8, ChosenIsRunnable DEF Choose
  <2>2. state'[active'] = "running"
    BY <1>8, <2>1 DEF Choose, activate, Runnable, taskVars
  <2>3. Doomed' = {}
    BY <1>0, <1>8 DEF PassProgress, Choose, Doomed, live, taskVars, cancelVars
  <2>4. \A s \in Slot : ~Ready(s)'
    BY <1>0, <1>8 DEF PassProgress, Choose, Ready, occupied, wait_ready, Children, Zombies,
         taskVars, cancelVars
  <2> QED
    BY <1>8, <2>2, <2>3, <2>4 DEF Choose, PassProgress
<1>9. CASE DispatchKill \/ Perform \/ \E k \in Keys : Idle(k)
  BY <1>1, <1>9
     DEF DispatchKill, Perform, PerformExit, ForkFails, fork_current, PerformExec, PerformRename,
         wait_current, tty_read_user, SetForeground, Defer, TakeCancel, PerformOther, Idle,
         Return, Block
<1> QED
  BY <1>2, <1>3, <1>4, <1>5, <1>6, <1>7, <1>8, <1>9 DEF Next, Kernel

(* The inductive invariant holds in every reachable state.                 *)
THEOREM Invariance == Spec => []IInv
<1>1. Init => IInv
  <2> SUFFICES ASSUME Init PROVE IInv
    OBVIOUS
  <2>1. TypeOK
    BY ConstantsAssumption, InputSizeAssumption
       DEF Init, TypeOK, Slot, States, Context, Image, NoCall
  <2>2. /\ PidsOK /\ EveryoneHasAFather /\ SleepersHaveCalls /\ ForegroundIsYounger
    BY ConstantsAssumption
       DEF Init, Slot, PidsOK, EveryoneHasAFather, SleepersHaveCalls, ForegroundIsYounger, occupied
  <2>3. PassProgress
    BY ConstantsAssumption DEF Init, Slot, PassProgress, Doomed, Ready, NoCall
  <2> QED
    BY <2>1, <2>2, <2>3 DEF IInv
<1>2. IInv /\ [Next]_vars => IInv'
  BY TypeStep, TreeStep, SleepStep, ForegroundStep, PassStep DEF IInv
<1> QED
  BY <1>1, <1>2, PTL DEF Spec

(* No process sleeps in a call that could finish while a program runs.     *)
THEOREM WakeupsAreNotMissed == Spec => []NoMissedWakeup
<1>1. IInv => NoMissedWakeup
  BY DEF IInv, PassProgress, NoMissedWakeup
<1> QED
  BY <1>1, Invariance, PTL

(* Nothing that Ctrl+C marked runs on, unless it asked to clean up.        *)
THEOREM MarkedProcessesEnd == Spec => []NothingMarkedRuns
<1>1. IInv => NothingMarkedRuns
  BY DEF IInv, PassProgress, NothingMarkedRuns
<1> QED
  BY <1>1, Invariance, PTL

(* fork_current: pids of occupied slots are distinct and never exceed      *)
(* next_pid, and a father is older than its children, so that father links *)
(* end.                                                                    *)
THEOREM PidsCorrect == Spec => []PidsOK
<1>1. IInv => PidsOK
  BY DEF IInv
<1> QED
  BY <1>1, Invariance, PTL

(* exit_current: whatever the order of exits, kills and reparenting, every *)
(* process but init has init or a live process for a father.               *)
THEOREM FathersCorrect == Spec => []EveryoneHasAFather
<1>1. IInv => EveryoneHasAFather
  BY DEF IInv
<1> QED
  BY <1>1, Invariance, PTL

(***************************************************************************)
(* Ended processes wait for their father.                                  *)
(***************************************************************************)
(* What a step may do to the ended process in slot s.                      *)
StillWaits(s) == state'[s] = "zombie" /\ exit_code'[s] = exit_code[s] /\ pid'[s] = pid[s]
Delivered(s) ==
    /\ state'[s] = "free"
    /\ \E t \in Slot : state'[t] = "running" /\ pid[t] = father[s] /\ contexts'[t].r1 = pid[s]
ZombiesKept == \A s \in Slot : state[s] = "zombie" => StillWaits(s) \/ Delivered(s)

(* exit_current ends a live process and no other.                          *)
LEMMA ExitKeepsZombies ==
    ASSUME TypeOK, NEW s \in Slot, live(s), NEW code, exit_current(s, code)
    PROVE  ZombiesKept
<1> SUFFICES ASSUME NEW z \in Slot, state[z] = "zombie" PROVE StillWaits(z)
  BY DEF ZombiesKept
<1>1. z # s
  BY DEF live
<1> QED
  BY <1>1 DEF StillWaits, exit_current, TypeOK

(* A wait takes one ended child and gives its pid to the father.           *)
LEMMA ReapDelivers ==
    ASSUME TypeOK, NEW s \in Slot, live(s), NEW c,
           Zombies(Children(s, c.a)) # {}, Reap(s, c)
    PROVE  ZombiesKept
<1> DEFINE t == FirstOf(Zombies(Children(s, c.a)))
<1>1. t \in Slot /\ state[t] = "zombie" /\ father[t] = pid[s] /\ t # s
  BY FirstOfIsFirst DEF Zombies, Children
<1> HIDE DEF t
<1>2. /\ state' = [state EXCEPT ![t] = "free", ![s] = "running"]
      /\ contexts' = [contexts EXCEPT ![s].r1 = pid[t]]
      /\ UNCHANGED <<pid, exit_code>>
  BY DEF Reap, t
<1>3. state'[t] = "free" /\ state'[s] = "running"
  BY <1>1, <1>2 DEF TypeOK
<1>4. contexts'[s].r1 = pid[t]
  BY <1>2 DEF TypeOK, Context
<1>5. Delivered(t)
  BY <1>1, <1>3, <1>4 DEF Delivered
<1>6. ASSUME NEW z \in Slot, state[z] = "zombie", z # t
      PROVE  StillWaits(z)
  <2>1. z # s
    BY <1>6 DEF live
  <2> QED
    BY <1>2, <1>6, <2>1 DEF StillWaits, TypeOK
<1> QED
  BY <1>5, <1>6 DEF ZombiesKept

(* Steps that change the state of no ended process.                        *)
LEMMA ZombiesUntouched ==
    ASSUME \A z \in Slot : state[z] = "zombie" =>
               state'[z] = "zombie" /\ exit_code'[z] = exit_code[z] /\ pid'[z] = pid[z]
    PROVE  ZombiesKept
BY DEF ZombiesKept, StillWaits

(* Every step leaves an ended process alone or delivers it.                *)
LEMMA ZombieStep == IInv /\ [Next]_vars => ZombiesKept
<1> SUFFICES ASSUME IInv, [Next]_vars PROVE ZombiesKept
  OBVIOUS
<1>0. /\ TypeOK /\ SleepersHaveCalls /\ active \in Slot
      /\ kpc = "perform" => live(active) /\ state[active] = "running"
  BY DEF IInv, PassProgress, TypeOK, live
<1>1. CASE UNCHANGED <<state, exit_code, pid>>
  BY <1>1, ZombiesUntouched
<1>2. CASE DispatchKill \/ PerformExit
  BY <1>0, <1>2, ExitKeepsZombies DEF DispatchKill, PerformExit, Performs
<1>3. CASE fork_current
  <2> DEFINE s == FirstOf(FreeSlots)
  <2>1. s \in Slot /\ state[s] = "free"
    BY <1>3, FirstOfIsFirst DEF fork_current, FreeSlots, occupied
  <2> HIDE DEF s
  <2>2. /\ state' = [state EXCEPT ![s] = "running"] /\ exit_code' = [exit_code EXCEPT ![s] = 0]
        /\ \E p : pid' = [pid EXCEPT ![s] = p]
    BY <1>3 DEF fork_current, s
  <2> QED
    BY <1>0, <2>1, <2>2, ZombiesUntouched DEF TypeOK
<1>4. CASE Block /\ kpc = "perform"
  BY <1>0, <1>4, ZombiesUntouched DEF Block, TypeOK
<1>5. CASE wait_current
  <2>1. kpc = "perform"
    BY <1>5 DEF wait_current, Performs
  <2>2. CASE Reap(active, call) /\ Zombies(Children(active, call.a)) # {}
    BY <1>0, <2>1, <2>2, ReapDelivers
  <2> QED
    BY <1>1, <1>4, <1>5, <2>1, <2>2 DEF wait_current, taskVars
<1>6. CASE tty_read_user
  BY <1>1, <1>4, <1>6 DEF tty_read_user, Performs, taskVars
<1>7. CASE CancelOne
  <2>1. PICK s \in Slot : s = FirstOf(Doomed) /\ live(s)
    BY <1>7, FirstOfIsFirst DEF CancelOne, Doomed
  <2>2. exit_current(s, 2)
    BY <1>7, <2>1 DEF CancelOne
  <2> QED
    BY <1>0, <2>1, <2>2, ExitKeepsZombies
<1>8. ASSUME NEW s \in Slot, RetryReady(s)
      PROVE  ZombiesKept
  <2>1. Ready(s)
    BY <1>8, FirstOfIsFirst DEF RetryReady, ToRetry
  <2>2. live(s)
    BY <1>0, <2>1 DEF Ready, SleepersHaveCalls, NoCall, live
  <2>3. CASE /\ pending[s].nr = "wait" /\ Children(s, pending[s].a) # {}
             /\ Reap(s, pending[s])
    <3>1. Zombies(Children(s, pending[s].a)) # {}
      BY <2>1, <2>3 DEF Ready, wait_ready
    <3> QED
      BY <1>0, <2>2, <2>3, <3>1, ReapDelivers
  <2>4. CASE \E r : Resume(s, r)
    <3>1. /\ state' = [state EXCEPT ![s] = "running"] /\ UNCHANGED <<exit_code, pid>>
      BY <2>4 DEF Resume
    <3> QED
      BY <1>0, <2>2, <3>1, ZombiesUntouched DEF live, TypeOK
  <2> QED
    BY <1>8, <2>3, <2>4 DEF RetryReady
<1> QED
  BY <1>1, <1>2, <1>3, <1>5, <1>6, <1>7, <1>8
     DEF Next, Kernel, Perform, UserTrap, ForkFails, PerformExec, PerformRename,
         SetForeground, Defer, TakeCancel, PerformOther, CancelDone, RetryDone, Choose, Idle,
         vars, taskVars

(* exit_current, wait_current and the cancel pass: an ended process keeps  *)
(* its slot, pid and exit code until its father's wait has got its pid.    *)
THEOREM ZombiesAreDelivered == Spec => ZombiesWait
<1>1. IInv /\ [Next]_vars =>
        [\A s \in Slot : state[s] = "zombie" =>
            \/ state'[s] = "zombie" /\ exit_code'[s] = exit_code[s] /\ pid'[s] = pid[s]
            \/ /\ state'[s] = "free"
               /\ \E t \in Slot :
                     state'[t] = "running" /\ pid[t] = father[s] /\ contexts'[t].r1 = pid[s]]_vars
  BY ZombieStep DEF ZombiesKept, StillWaits, Delivered
<1> QED
  BY <1>1, Invariance, PTL DEF Spec, ZombiesWait

(***************************************************************************)
(* Private memory: the refinement of ProcMemory.tla.                       *)
(***************************************************************************)

(* Bringing s into the window disturbs nobody else's image.                *)
LEMMA OthersKept ==
    ASSUME TypeOK, NEW s \in Slot, active' = s, snap' = Saved(s),
           NEW u \in Slot, u # s, live(u)' <=> live(u)
    PROVE  memory'[u] = memory[u]
BY DEF memory, ImageOf, Saved, TypeOK, live

(* The image of a live process is a real image.                            *)
LEMMA MemoryType ==
    ASSUME TypeOK, NEW s \in Slot
    PROVE  /\ memory[s] = IF live(s) THEN ImageOf(s) ELSE NoImage
           /\ live(s) <=> memory[s] # NoImage
           /\ live(s) => memory[s] \in Image
<1>1. NoImage \notin Image
  BY DEF NoImage, Image
<1>2. ImageOf(s) \in Image
  BY ImageType
<1> QED
  BY <1>1, <1>2 DEF memory

(* Three ways to take a step of the abstract memory.                       *)
LEMMA StoreStep ==
    ASSUME TypeOK, NEW s \in Slot, live(s), active' = s,
           \A u \in Slot : u # s => memory'[u] = memory[u], memory'[s] \in Image
    PROVE  Mem!Next
<1>1. memory' = [memory EXCEPT ![s] = memory'[s]]
  BY DEF memory
<1>2. memory[s] # NoImage
  BY MemoryType
<1> QED
  BY <1>1, <1>2 DEF Mem!Next, Mem!Store

(* A live process that ends (exit_current, a failed exec) gives its image  *)
(* up and touches no other.                                                *)
LEMMA EndStep ==
    ASSUME TypeOK, NEW s \in Slot, live(s), ~live(s)', active' = s,
           \A u \in Slot : u # s => memory'[u] = memory[u]
    PROVE  Mem!Next
<1>1. memory' = [memory EXCEPT ![s] = NoImage]
  BY DEF memory
<1>2. memory[s] # NoImage
  BY MemoryType
<1> QED
  BY <1>1, <1>2 DEF Mem!Next, Mem!End

(* A free slot that comes to life (fork_current) gets its father's image.  *)
LEMMA SpawnStep ==
    ASSUME TypeOK, NEW s \in Slot, ~live(s), live(active), active' = active,
           \A u \in Slot : u # s => memory'[u] = memory[u], memory'[s] = memory[active]
    PROVE  Mem!Next
<1>1. memory' = [memory EXCEPT ![s] = memory[active]]
  BY DEF memory
<1>2. memory[s] = NoImage /\ memory[active] # NoImage
  BY MemoryType DEF TypeOK
<1> QED
  BY <1>1, <1>2 DEF Mem!Next, Mem!Spawn

(* Reaping changes the caller's image at most, and ends no live process.   *)
LEMMA ReapKeepsLives ==
    ASSUME TypeOK, NEW s \in Slot, live(s), NEW c,
           Zombies(Children(s, c.a)) # {}, Reap(s, c)
    PROVE  \A u \in Slot : live(u)' <=> live(u)
<1> DEFINE t == FirstOf(Zombies(Children(s, c.a)))
<1>1. t \in Slot /\ state[t] = "zombie"
  BY FirstOfIsFirst DEF Zombies, Children
<1> HIDE DEF t
<1>2. state' = [state EXCEPT ![t] = "free", ![s] = "running"]
  BY DEF Reap, t
<1> QED
  BY <1>1, <1>2 DEF live, TypeOK

(* Every step of the process layer is a step of the abstract memory or     *)
(* leaves it alone.                                                        *)
LEMMA MemStep == IInv /\ TypeOK' /\ [Next]_vars => [Mem!Next]_(Mem!vars)
<1> SUFFICES ASSUME IInv, TypeOK', [Next]_vars
             PROVE  Mem!Next \/ UNCHANGED <<memory, active>>
  BY DEF Mem!vars
<1>0. /\ TypeOK /\ active \in Slot
      /\ kpc \in {"user", "perform"} => live(active) /\ state[active] = "running"
  BY DEF IInv, PassProgress, TypeOK, live
<1>1. CASE UNCHANGED <<state, memVars>>
  BY <1>1 DEF memory, ImageOf, live, memVars
<1>2. CASE /\ UNCHANGED <<state, active, snap>> /\ kpc \in {"user", "perform"}
  <2>1. \A u \in Slot : u # active => memory'[u] = memory[u]
    BY <1>2 DEF memory, ImageOf, live
  <2>2. memory'[active] = window'
    BY <1>0, <1>2 DEF memory, ImageOf, live
  <2>3. window' \in Image
    BY DEF TypeOK
  <2> QED
    BY <1>0, <1>2, <2>1, <2>2, <2>3, StoreStep
<1>3. CASE DispatchKill \/ PerformExit
  <2>1. /\ kpc = "perform" /\ state' = [state EXCEPT ![active] = "zombie"]
        /\ UNCHANGED <<active, window, snap>>
    BY <1>3 DEF DispatchKill, PerformExit, Performs, exit_current, memVars
  <2>2. ~live(active)' /\ \A u \in Slot : u # active => memory'[u] = memory[u]
    BY <1>0, <2>1 DEF memory, ImageOf, live, TypeOK
  <2> QED
    BY <1>0, <2>1, <2>2, EndStep
<1>4. CASE fork_current
  <2> DEFINE s == FirstOf(FreeSlots)
  <2>1. s \in Slot /\ state[s] = "free"
    BY <1>4, FirstOfIsFirst DEF fork_current, FreeSlots, occupied
  <2> HIDE DEF s
  <2>2. /\ kpc = "perform" /\ state' = [state EXCEPT ![s] = "running"]
        /\ snap' = [snap EXCEPT ![s] = window] /\ UNCHANGED <<active, window>>
    BY <1>4 DEF fork_current, Performs, s
  <2>3. s # active
    BY <1>0, <2>1, <2>2
  <2>4. \A u \in Slot : u # s => memory'[u] = memory[u]
    BY <1>0, <2>1, <2>2 DEF memory, ImageOf, live, TypeOK
  <2>5. memory'[s] = memory[active]
    BY <1>0, <2>1, <2>2, <2>3 DEF memory, ImageOf, live, TypeOK
  <2> QED
    BY <1>0, <2>1, <2>2, <2>4, <2>5, SpawnStep DEF live
<1>5. CASE Block /\ UNCHANGED <<active, window, snap>> /\ kpc = "perform"
  BY <1>0, <1>5 DEF Block, memory, ImageOf, live, TypeOK
<1>6. CASE wait_current
  <2>1. kpc = "perform" /\ UNCHANGED <<active, snap>>
    BY <1>6 DEF wait_current, Performs
  <2>2. CASE Reap(active, call) /\ Zombies(Children(active, call.a)) # {}
    <3>1. \A u \in Slot : live(u)' <=> live(u)
      BY <1>0, <2>1, <2>2, ReapKeepsLives
    <3>2. \A u \in Slot : u # active => memory'[u] = memory[u]
      BY <2>1, <3>1 DEF memory, ImageOf, live
    <3>3. memory'[active] \in Image
      BY <1>0, <2>1, <3>1 DEF memory, ImageOf, live, TypeOK
    <3> QED
      BY <1>0, <2>1, <3>2, <3>3, StoreStep
  <2>3. CASE UNCHANGED <<taskVars, window>>
    BY <1>1, <2>1, <2>3 DEF taskVars, memVars
  <2>4. CASE Block /\ UNCHANGED window
    BY <1>5, <2>1, <2>4
  <2> QED
    BY <1>6, <2>2, <2>3, <2>4 DEF wait_current
<1>7. CASE tty_read_user
  BY <1>1, <1>5, <1>7 DEF tty_read_user, Performs, taskVars, memVars
<1>8. CASE CancelOne
  <2>1. PICK s \in Slot : s = FirstOf(Doomed) /\ live(s)
    BY <1>8, FirstOfIsFirst DEF CancelOne, Doomed
  <2>2. /\ active' = s /\ snap' = Saved(s) /\ state' = [state EXCEPT ![s] = "zombie"]
    BY <1>8, <2>1 DEF CancelOne, activate, exit_current
  <2>3. ~live(s)' /\ \A u \in Slot : u # s => (live(u)' <=> live(u))
    BY <1>0, <2>1, <2>2 DEF live, TypeOK
  <2>4. \A u \in Slot : u # s => memory'[u] = memory[u]
    BY <1>0, <2>1, <2>2, <2>3, OthersKept
  <2> QED
    BY <1>0, <2>1, <2>2, <2>3, <2>4, EndStep
<1>9. ASSUME NEW s \in Slot, RetryReady(s)
      PROVE  Mem!Next
  <2>1. Ready(s)
    BY <1>9, FirstOfIsFirst DEF RetryReady, ToRetry
  <2>2. live(s)
    BY <2>1 DEF IInv, Ready, SleepersHaveCalls, NoCall, live
  <2>3. \A u \in Slot : live(u)' <=> live(u)
    <3>1. CASE \E r : Resume(s, r)
      BY <1>0, <2>2, <3>1 DEF Resume, live, TypeOK
    <3>2. CASE /\ pending[s].nr = "wait" /\ Children(s, pending[s].a) # {}
               /\ Reap(s, pending[s])
      <4>1. Zombies(Children(s, pending[s].a)) # {}
        BY <2>1, <3>2 DEF Ready, wait_ready
      <4> QED
        BY <1>0, <2>2, <3>2, <4>1, ReapKeepsLives
    <3> QED
      BY <1>9, <3>1, <3>2 DEF RetryReady
  <2>4. active' = s /\ snap' = Saved(s)
    BY <1>9 DEF RetryReady
  <2>5. \A u \in Slot : u # s => memory'[u] = memory[u]
    BY <1>0, <2>3, <2>4, OthersKept
  <2>6. memory'[s] \in Image
    BY <2>2, <2>3, <2>4 DEF memory, ImageOf, live, TypeOK
  <2> QED
    BY <1>0, <2>2, <2>4, <2>5, <2>6, StoreStep
<1>10. CASE Choose
  <2> DEFINE s == Chosen
  <2>1. s \in Slot /\ live(s)
    BY <1>0, <1>10, ChosenIsRunnable DEF Choose, Runnable, live
  <2> HIDE DEF s
  <2>2. /\ active' = s /\ snap' = Saved(s) /\ UNCHANGED state
    BY <1>10 DEF Choose, activate, taskVars, s
  <2>3. \A u \in Slot : live(u)' <=> live(u)
    BY <2>2 DEF live
  <2>4. \A u \in Slot : u # s => memory'[u] = memory[u]
    BY <1>0, <2>1, <2>2, <2>3, OthersKept
  <2>5. memory'[s] \in Image
    BY <2>1, <2>2, <2>3 DEF memory, ImageOf, live, TypeOK
  <2> QED
    BY <1>0, <2>1, <2>2, <2>4, <2>5, StoreStep
<1>11. ASSUME NEW c, NEW d, NEW p, NEW k, UserTrap(c, d, p, k)
       PROVE  Mem!Next \/ UNCHANGED <<memory, active>>
  BY <1>2, <1>11 DEF UserTrap, taskVars
<1>12. CASE PerformExec
  BY <1>2, <1>12 DEF PerformExec, Performs, taskVars
<1> QED
  BY <1>1, <1>3, <1>4, <1>6, <1>7, <1>8, <1>9, <1>10, <1>11, <1>12
     DEF Next, Kernel, Perform, ForkFails, PerformRename, SetForeground, Defer, TakeCancel,
         PerformOther, CancelDone, RetryDone, Idle, vars, taskVars, memVars

(* One window and eight snapshots behave as private memories: no process   *)
(* ever sees another's stores, a fork is an exact copy, and a wakeup or a  *)
(* kill alters only its own process.                                       *)
THEOREM MemoryRefinement == Spec => MemoryIsPrivate
<1>1. Init => Mem!Init
  <2> SUFFICES ASSUME Init PROVE Mem!Init
    OBVIOUS
  <2>1. active = 1 /\ active \in Slot
    BY ConstantsAssumption DEF Init, Slot
  <2>2. memory[active] = window /\ window \in Image
    BY <2>1, ConstantsAssumption DEF Init, memory, live, ImageOf, Image
  <2>3. \A s \in Slot \ {active} : memory[s] = NoImage
    BY <2>1 DEF Init, memory, live
  <2> QED
    BY <2>1, <2>2, <2>3 DEF Mem!Init
<1> QED
  BY <1>1, MemStep, Invariance, TypeCorrect, PTL DEF Spec, MemoryIsPrivate, Mem!Spec

(***************************************************************************)
(* The process tree and Ctrl+C: descendant's loop against TreeOf.          *)
(***************************************************************************)

(* The father of a pid is a pid, or 0 for init and where no slot has it.   *)
LEMMA FatherType ==
    ASSUME TypeOK, NEW p \in Nat
    PROVE  FatherOf(p) \in Nat
<1>1. SlotsOf(p) # {} => FirstOf(SlotsOf(p)) \in Slot
  BY FirstOfIsFirst DEF SlotsOf
<1> QED
  BY <1>1 DEF FatherOf, TypeOK

(* What the loop of descendant computes: the pid, then father after father.*)
LEMMA LineageIs ==
    ASSUME TypeOK, NEW s \in Slot
    PROVE  /\ Lineage(s) \in [0..NR -> Nat]
           /\ Lineage(s)[0] = pid[s]
           /\ \A d \in 1..NR : Lineage(s)[d] = FatherOf(Lineage(s)[d - 1])
<1> DEFINE L(up) == up = [d \in 0..NR |-> IF d = 0 THEN pid[s] ELSE FatherOf(up[d - 1])]
           F == [p \in Nat |-> FatherOf(p)]
<1>0. NR \in Nat /\ pid[s] \in Nat /\ F \in [Nat -> Nat]
  BY ConstantsAssumption, FatherType DEF TypeOK
<1>1. \E up : L(up)
  <2> HIDE DEF F
  <2>a. PICK a \in Nat, G \in [Nat -> Nat] : a = pid[s] /\ G = F
    BY <1>0
  <2>b. PICK n \in Nat : n = NR
    BY <1>0
  <2>c. PICK up \in [0..n -> Nat] : Iterates(up, a, G, n)
    BY IterationExists
  <2>1. up[0] = a /\ \A d \in 1..n : up[d] = G[up[d - 1]]
    BY <2>c DEF Iterates
  <2>2. ASSUME NEW d \in 0..NR, d # 0
        PROVE  F[up[d - 1]] = FatherOf(up[d - 1])
    <3>1. d - 1 \in 0..NR
      BY <1>0, <2>2
    <3>2. up[d - 1] \in Nat
      BY <2>b, <3>1
    <3> QED
      BY <3>2 DEF F
  <2>3. ASSUME NEW d \in 0..NR
        PROVE  up[d] = IF d = 0 THEN pid[s] ELSE FatherOf(up[d - 1])
    BY <2>a, <2>b, <2>1, <2>2
  <2>4. L(up)
    BY <2>b, <2>3
  <2> QED
    BY <2>4
<1>2. Lineage(s) = CHOOSE up : L(up)
  BY DEF Lineage
<1>3. L(Lineage(s))
  BY <1>1, <1>2
<1> DEFINE S == {d \in 0..NR : Lineage(s)[d] \in Nat}
<1>4. 0..NR \subseteq S
  <2>1. 0 \in S
    BY <1>0, <1>3
  <2>2. ASSUME NEW d \in 0..NR, d \in S, d + 1 <= NR
        PROVE  d + 1 \in S
    <3>1. d + 1 \in 0..NR /\ d + 1 # 0 /\ (d + 1) - 1 = d
      BY <1>0, <2>2
    <3>2. Lineage(s)[d + 1] = FatherOf(Lineage(s)[d])
      BY <1>3, <3>1
    <3> QED
      BY <2>2, <3>1, <3>2, FatherType
  <2> HIDE DEF S
  <2> QED
    BY <1>0, <2>1, <2>2, Induction
<1>5. Lineage(s) \in [0..NR -> Nat]
  BY <1>3, <1>4
<1>6. Lineage(s)[0] = pid[s]
  BY <1>0, <1>3
<1>7. ASSUME NEW d \in 1..NR
      PROVE  Lineage(s)[d] = FatherOf(Lineage(s)[d - 1])
  <2>1. d \in 0..NR /\ d # 0
    BY <1>0
  <2> QED
    BY <1>3, <2>1
<1> QED
  BY <1>5, <1>6, <1>7

(* Where a lineage reaches a process other than init, every link before it *)
(* is the pid of a process, and leads to its father.                       *)
LEMMA LineageLinks ==
    ASSUME TypeOK, PidsOK, EveryoneHasAFather, NEW s \in Slot, occupied(s),
           NEW d \in 0..NR, Lineage(s)[d] > 1
    PROVE  /\ \A i \in 0..d : \E t \in Slot : occupied(t) /\ pid[t] = Lineage(s)[i]
           /\ \A i \in 0..(d - 1), t \in Slot :
                 occupied(t) /\ pid[t] = Lineage(s)[i] => father[t] = Lineage(s)[i + 1]
           /\ \A i \in 0..(d - 1) : Lineage(s)[i + 1] < Lineage(s)[i]
<1> DEFINE L == Lineage(s)
<1>0. /\ NR \in Nat /\ d \in Nat /\ L \in [0..NR -> Nat] /\ L[0] = pid[s]
      /\ \A e \in 1..NR : L[e] = FatherOf(L[e - 1])
  BY ConstantsAssumption, LineageIs
<1> HIDE DEF L
<1>a. L[d] > 1
  BY DEF L
<1> DEFINE S == {i \in 0..d : L[d - i] > 1}
<1>1. 0..d \subseteq S
  <2>1. 0 \in S
    BY <1>0, <1>a
  <2>2. ASSUME NEW i \in 0..d, i \in S, i + 1 <= d
        PROVE  i + 1 \in S
    <3>1. /\ d - i \in 1..NR /\ (d - i) - 1 = d - (i + 1) /\ i + 1 \in 0..d
          /\ d - (i + 1) \in 0..NR
      BY <1>0, <2>2
    <3>2. L[d - i] = FatherOf(L[d - (i + 1)]) /\ L[d - i] > 1
      BY <1>0, <2>2, <3>1
    <3>3. L[d - (i + 1)] > 1
      BY <3>2 DEF FatherOf
    <3> QED
      BY <3>1, <3>3
  <2> HIDE DEF S
  <2> QED
    BY <1>0, <2>1, <2>2, Induction
<1>2. \A i \in 0..d : L[i] > 1
  <2> SUFFICES ASSUME NEW i \in 0..d PROVE L[i] > 1
    OBVIOUS
  <2>1. d - i \in 0..d /\ d - (d - i) = i
    BY <1>0
  <2> QED
    BY <1>1, <2>1
<1>3. ASSUME NEW i \in 0..(d - 1)
      PROVE  \E t \in Slot : /\ occupied(t) /\ pid[t] = L[i] /\ father[t] = L[i + 1]
                             /\ L[i + 1] < L[i]
  <2>1. i \in 0..d /\ i + 1 \in 1..NR /\ (i + 1) - 1 = i /\ i + 1 \in 0..d
    BY <1>0
  <2>2. L[i + 1] = FatherOf(L[i]) /\ L[i + 1] > 1
    BY <1>0, <1>2, <2>1
  <2>3. SlotsOf(L[i]) # {} /\ L[i + 1] = father[FirstOf(SlotsOf(L[i]))]
    BY <2>2 DEF FatherOf
  <2>4. FirstOf(SlotsOf(L[i])) \in SlotsOf(L[i])
    BY <2>3, FirstOfIsFirst DEF SlotsOf
  <2> QED
    BY <2>3, <2>4 DEF SlotsOf, PidsOK
<1>4. ASSUME NEW i \in 0..d
      PROVE  \E t \in Slot : occupied(t) /\ pid[t] = L[i]
  <2>1. CASE i \in 0..(d - 1)
    BY <1>3, <2>1
  <2>2. CASE i = d /\ d = 0
    BY <1>0, <2>2
  <2>3. CASE i = d /\ d # 0
    <3>1. d - 1 \in 0..(d - 1) /\ (d - 1) + 1 = d /\ d - 1 \in 0..d
      BY <1>0, <2>3
    <3>2. PICK t \in Slot : occupied(t) /\ pid[t] = L[d - 1] /\ father[t] = L[d]
      BY <1>3, <3>1
    <3>3. pid[t] # 1 /\ father[t] # 1
      BY <1>2, <1>a, <3>1, <3>2
    <3> QED
      BY <2>3, <3>2, <3>3 DEF EveryoneHasAFather, live, occupied
  <2> QED
    BY <1>0, <2>1, <2>2, <2>3
<1>5. ASSUME NEW i \in 0..(d - 1), NEW t \in Slot, occupied(t), pid[t] = L[i]
      PROVE  father[t] = L[i + 1]
  BY <1>3, <1>5 DEF PidsOK
<1> QED
  BY <1>3, <1>4, <1>5 DEF L

(* Up to there the pids of a lineage fall: a father is older.              *)
LEMMA LineageFalls ==
    ASSUME TypeOK, PidsOK, EveryoneHasAFather, NEW s \in Slot, occupied(s),
           NEW d \in 0..NR, Lineage(s)[d] > 1,
           NEW i \in 0..d, NEW j \in 0..d, j < i
    PROVE  Lineage(s)[i] < Lineage(s)[j]
<1> DEFINE L == Lineage(s)
<1>0. NR \in Nat /\ d \in Nat /\ L \in [0..NR -> Nat]
  BY ConstantsAssumption, LineageIs
<1>1. \A m \in 0..(d - 1) : L[m + 1] < L[m]
  BY LineageLinks
<1> HIDE DEF L
<1> DEFINE S == {m \in 0..d : \A k \in 0..d : k < m => L[m] < L[k]}
<1>2. 0..d \subseteq S
  <2>1. 0 \in S
    BY <1>0
  <2>2. ASSUME NEW m \in 0..d, m \in S, m + 1 <= d
        PROVE  m + 1 \in S
    <3>1. m \in 0..(d - 1) /\ m + 1 \in 0..d /\ m \in 0..NR /\ m + 1 \in 0..NR
      BY <1>0, <2>2
    <3>2. L[m + 1] < L[m] /\ L[m] \in Nat /\ L[m + 1] \in Nat
      BY <1>0, <1>1, <3>1
    <3>3. ASSUME NEW k \in 0..d, k < m + 1
          PROVE  L[m + 1] < L[k]
      <4>1. L[k] \in Nat
        BY <1>0
      <4>2. CASE k < m
        <5>1. L[m] < L[k]
          BY <2>2, <4>2
        <5> QED
          BY <3>2, <4>1, <5>1
      <4>3. CASE k = m
        BY <3>2, <4>3
      <4> QED
        BY <3>3, <4>2, <4>3
    <3> QED
      BY <3>1, <3>3
  <2> HIDE DEF S
  <2> QED
    BY <1>0, <2>1, <2>2, Induction
<1> QED
  BY <1>2 DEF L

(* A lineage is shorter than the table of processes: no slot is met twice, *)
(* and the bound of NR links is never what stops descendant.               *)
LEMMA LineageIsShort ==
    ASSUME TypeOK, PidsOK, EveryoneHasAFather, NEW s \in Slot, occupied(s),
           NEW d \in 0..NR, Lineage(s)[d] > 1
    PROVE  d < NR
<1> DEFINE L == Lineage(s)
<1>0. NR \in Nat /\ d \in Nat /\ L \in [0..NR -> Nat]
  BY ConstantsAssumption, LineageIs
<1>1. \A i \in 0..d : \E t \in Slot : occupied(t) /\ pid[t] = L[i]
  BY LineageLinks
<1>2. \A i, j \in 0..d : j < i => L[i] < L[j]
  BY LineageFalls
<1> HIDE DEF L
<1> DEFINE f == [i \in 0..d |-> CHOOSE t \in Slot : occupied(t) /\ pid[t] = L[i]]
<1>3. \A i \in 0..d : f[i] \in Slot /\ pid[f[i]] = L[i]
  BY <1>1
<1>4. f \in [0..d -> Slot]
  BY <1>3
<1> HIDE DEF f
<1>5. ASSUME NEW x \in 0..d, NEW y \in 0..d, x # y
      PROVE  f[x] # f[y]
  <2>1. L[x] \in Nat /\ L[y] \in Nat
    BY <1>0
  <2>2. L[x] # L[y]
    BY <1>2, <1>5, <2>1
  <2> QED
    BY <1>3, <2>2
<1>6. IsFiniteSet(0..d) /\ Cardinality(0..d) = d + 1
  <2>1. 0 \in Int /\ d \in Int /\ ~(0 > d) /\ d - 0 + 1 = d + 1
    BY <1>0
  <2> QED
    BY <2>1, FS_Interval
<1>7. IsFiniteSet(Slot) /\ Cardinality(Slot) = NR
  <2>1. 1 \in Int /\ NR \in Int /\ ~(1 > NR) /\ NR - 1 + 1 = NR
    BY ConstantsAssumption
  <2> QED
    BY <2>1, FS_Interval DEF Slot
<1>8. ~(NR < d + 1)
  BY <1>4, <1>5, <1>6, <1>7, FS_PigeonHole
<1> QED
  BY <1>0, <1>8

(* A descendant is not older than the process it descends from.            *)
LEMMA DescendantIsYounger ==
    ASSUME TypeOK, PidsOK, EveryoneHasAFather, NEW s \in Slot, occupied(s),
           NEW root \in Nat, descendant(s, root)
    PROVE  root <= pid[s]
<1>1. PICK d \in 0..NR : Lineage(s)[d] = root /\ root > 1
  BY DEF descendant
<1>2. NR \in Nat /\ Lineage(s)[0] = pid[s] /\ pid[s] \in Nat
  BY ConstantsAssumption, LineageIs DEF TypeOK
<1>3. d # 0 => 0 < d /\ 0 \in 0..d
  BY <1>2
<1>4. d \in 0..d
  BY <1>2
<1>5. d # 0 => root < pid[s]
  BY <1>1, <1>2, <1>3, <1>4, LineageFalls
<1> QED
  BY <1>1, <1>2, <1>5

(* The child of a descendant is one: its lineage is its father's, after    *)
(* its own pid.                                                            *)
LEMMA ChildDescends ==
    ASSUME TypeOK, PidsOK, EveryoneHasAFather, NEW t \in Slot, occupied(t),
           NEW u \in Slot, occupied(u), father[u] = pid[t],
           NEW root \in Nat, descendant(t, root)
    PROVE  descendant(u, root)
<1> DEFINE L == Lineage(t)
           M == Lineage(u)
<1>0. /\ NR \in Nat /\ L \in [0..NR -> Nat] /\ M \in [0..NR -> Nat]
      /\ L[0] = pid[t] /\ M[0] = pid[u]
      /\ \A e \in 1..NR : L[e] = FatherOf(L[e - 1])
      /\ \A e \in 1..NR : M[e] = FatherOf(M[e - 1])
  BY ConstantsAssumption, LineageIs
<1>1. PICK d \in 0..NR : L[d] = root /\ root > 1
  BY DEF descendant
<1>2. d \in Nat /\ d + 1 \in 0..NR
  BY <1>0, <1>1, LineageIsShort
<1> HIDE DEF L, M
<1>3. FatherOf(pid[u]) = pid[t]
  <2>1. 0 < pid[t] /\ father[u] < pid[u] /\ pid[t] \in Nat /\ pid[u] \in Nat
    BY DEF PidsOK, TypeOK
  <2>2. pid[u] > 1
    BY <2>1
  <2>3. SlotsOf(pid[u]) = {u}
    BY DEF SlotsOf, PidsOK
  <2>4. FirstOf({u}) = u
    BY <2>1, FirstOfIsFirst
  <2> QED
    BY <2>2, <2>3, <2>4 DEF FatherOf
<1> DEFINE S == {i \in 0..d : M[i + 1] = L[i]}
<1>4. 0..d \subseteq S
  <2>1. 0 \in S
    <3>1. 1 \in 1..NR /\ 1 - 1 = 0 /\ 0 + 1 = 1
      BY <1>0, <1>2
    <3>2. M[1] = FatherOf(M[0])
      BY <1>0, <3>1
    <3> QED
      BY <1>0, <1>2, <1>3, <3>1, <3>2
  <2>2. ASSUME NEW i \in 0..d, i \in S, i + 1 <= d
        PROVE  i + 1 \in S
    <3>1. /\ i + 1 \in 1..NR /\ (i + 1) - 1 = i /\ i + 1 \in 0..d
          /\ (i + 1) + 1 \in 1..NR /\ ((i + 1) + 1) - 1 = i + 1
      <4>1. i \in Nat /\ d \in Nat /\ NR \in Nat /\ d + 1 <= NR /\ i + 1 <= d
        BY <1>0, <1>2, <2>2
      <4> QED
        BY <4>1
    <3>2. L[i + 1] = FatherOf(L[i]) /\ M[(i + 1) + 1] = FatherOf(M[i + 1])
      BY <1>0, <3>1
    <3> QED
      BY <2>2, <3>1, <3>2
  <2> HIDE DEF S
  <2> QED
    BY <1>2, <2>1, <2>2, Induction
<1>5. M[d + 1] = root
  BY <1>1, <1>2, <1>4
<1> QED
  BY <1>1, <1>2, <1>5 DEF descendant, M

(* The loop of descendant finds exactly the process tree below root.       *)
LEMMA TreeIsDescendants ==
    ASSUME TypeOK, PidsOK, EveryoneHasAFather, NEW root \in Nat, root > 1
    PROVE  TreeOf(root) = {s \in Slot : occupied(s) /\ descendant(s, root)}
<1> DEFINE D == {s \in Slot : occupied(s) /\ descendant(s, root)}
           Closed(T) == /\ SlotsOf(root) \subseteq T
                        /\ \A t, u \in Slot :
                              t \in T /\ occupied(t) /\ occupied(u) /\ father[u] = pid[t] => u \in T
<1>1. ASSUME NEW s \in TreeOf(root)
      PROVE  s \in D
  <2>1. D \in SUBSET Slot
    OBVIOUS
  <2>2. \A t \in SlotsOf(root) : t \in D
    <3> SUFFICES ASSUME NEW t \in SlotsOf(root) PROVE descendant(t, root)
      BY DEF SlotsOf
    <3>1. Lineage(t)[0] = root /\ 0 \in 0..NR
      BY ConstantsAssumption, LineageIs DEF SlotsOf
    <3> QED
      BY <3>1 DEF descendant
  <2>3. \A t, u \in Slot :
            t \in D /\ occupied(t) /\ occupied(u) /\ father[u] = pid[t] => u \in D
    BY ChildDescends
  <2> HIDE DEF D
  <2> QED
    BY <2>1, <2>2, <2>3 DEF TreeOf
<1>2. ASSUME NEW s \in D
      PROVE  s \in TreeOf(root)
  <2> SUFFICES ASSUME NEW T \in SUBSET Slot, Closed(T) PROVE s \in T
    BY DEF TreeOf
  <2> DEFINE L == Lineage(s)
  <2>1. PICK d \in 0..NR : L[d] = root
    BY DEF descendant
  <2>a. NR \in Nat /\ d \in Nat /\ L[0] = pid[s]
    BY ConstantsAssumption, LineageIs
  <2>b. s \in Slot /\ occupied(s) /\ Lineage(s)[d] > 1
    BY <2>1
  <2>2. /\ NR \in Nat /\ d \in Nat /\ L[0] = pid[s]
        /\ \A i \in 0..d : \E t \in Slot : occupied(t) /\ pid[t] = L[i]
        /\ \A i \in 0..(d - 1), t \in Slot :
              occupied(t) /\ pid[t] = L[i] => father[t] = L[i + 1]
    BY <2>a, <2>b, LineageLinks
  <2> HIDE DEF L
  <2> DEFINE S == {i \in 0..d : \A t \in Slot : occupied(t) /\ pid[t] = L[d - i] => t \in T}
  <2>3. 0..d \subseteq S
    <3>1. 0 \in S
      BY <2>1, <2>2 DEF SlotsOf
    <3>2. ASSUME NEW i \in 0..d, i \in S, i + 1 <= d
          PROVE  i + 1 \in S
      <4>1. /\ i + 1 \in 0..d /\ d - i \in 0..d /\ d - (i + 1) \in 0..(d - 1)
            /\ (d - (i + 1)) + 1 = d - i
        BY <2>2, <3>2
      <4>2. PICK u \in Slot : occupied(u) /\ pid[u] = L[d - i]
        BY <2>2, <4>1
      <4>3. u \in T
        BY <3>2, <4>2
      <4>4. ASSUME NEW t \in Slot, occupied(t), pid[t] = L[d - (i + 1)]
            PROVE  t \in T
        <5>1. father[t] = pid[u]
          BY <2>2, <4>1, <4>2, <4>4
        <5> QED
          BY <4>2, <4>3, <4>4, <5>1
      <4> QED
        BY <4>1, <4>4
    <3> HIDE DEF S
    <3> QED
      BY <2>2, <3>1, <3>2, Induction
  <2>4. d \in S /\ d - d = 0
    BY <2>2, <2>3
  <2> QED
    BY <2>2, <2>4
<1> QED
  BY <1>1, <1>2 DEF TreeOf

(* What marking the tree below root means, for a root younger than owner.  *)
MarksTree(root, owner) ==
    LET new == {s \in Slot : interrupted'[s] /\ ~interrupted[s]} IN
    new # {} =>
      /\ new \subseteq TreeOf(root)
      /\ TreeOf(root) \subseteq {s \in Slot : interrupted'[s]}
      /\ \A s \in new : pid[s] # owner

(* Marking every descendant of root marks the tree.                        *)
LEMMA MarkingDescendants ==
    ASSUME TypeOK, PidsOK, EveryoneHasAFather, NEW root \in Nat, NEW owner \in Nat, owner < root,
           \A s \in Slot : interrupted'[s] <=> interrupted[s] \/ (occupied(s) /\ descendant(s, root))
    PROVE  MarksTree(root, owner)
<1> DEFINE new == {s \in Slot : interrupted'[s] /\ ~interrupted[s]}
<1> SUFFICES ASSUME new # {}
             PROVE  /\ new \subseteq TreeOf(root)
                    /\ TreeOf(root) \subseteq {s \in Slot : interrupted'[s]}
                    /\ \A s \in new : pid[s] # owner
  BY DEF MarksTree
<1>1. \A s \in new : s \in Slot /\ occupied(s) /\ descendant(s, root)
  OBVIOUS
<1>2. root > 1
  BY <1>1 DEF descendant
<1>3. TreeOf(root) = {s \in Slot : occupied(s) /\ descendant(s, root)}
  BY <1>2, TreeIsDescendants
<1>4. ASSUME NEW s \in new
      PROVE  pid[s] # owner
  <2>1. root <= pid[s] /\ pid[s] \in Nat
    BY <1>1, DescendantIsYounger DEF TypeOK
  <2> QED
    BY <2>1
<1> QED
  BY <1>1, <1>3, <1>4

(* Ctrl+C at a poll marks the foreground tree.                             *)
LEMMA PollMarks ==
    ASSUME IInv, NEW k, PollKey(k), UNCHANGED fgVars
    PROVE  MarksTree(foreground_pid', foreground_owner')
<1>0. TypeOK /\ PidsOK /\ EveryoneHasAFather /\ ForegroundIsYounger
  BY DEF IInv
<1>1. foreground_pid' = foreground_pid /\ foreground_owner' = foreground_owner
  BY DEF fgVars
<1>2. CASE k = "interrupt" /\ foreground_pid # 0
  <2>1. foreground_pid \in Nat /\ foreground_owner \in Nat /\ foreground_owner < foreground_pid
    BY <1>0, <1>2 DEF TypeOK, ForegroundIsYounger
  <2>2. \A s \in Slot : interrupted'[s] <=>
           interrupted[s] \/ (occupied(s) /\ descendant(s, foreground_pid))
    BY <1>2 DEF PollKey
  <2> QED
    BY <1>0, <1>1, <2>1, <2>2, MarkingDescendants
<1>3. CASE ~(k = "interrupt" /\ foreground_pid # 0)
  <2>1. \A s \in Slot : interrupted'[s] => interrupted[s]
    BY <1>3 DEF PollKey
  <2> QED
    BY <2>1 DEF MarksTree
<1> QED
  BY <1>2, <1>3

(* Every step that marks anything marks the whole foreground tree, nothing *)
(* else, and never the shell that owns the terminal.                       *)
LEMMA MarkStep == IInv /\ [Next]_vars => MarksTree(foreground_pid', foreground_owner')
<1> SUFFICES ASSUME IInv, [Next]_vars PROVE MarksTree(foreground_pid', foreground_owner')
  OBVIOUS
<1>0. TypeOK /\ PidsOK /\ EveryoneHasAFather
  BY DEF IInv
<1>1. CASE UNCHANGED interrupted
  BY <1>1 DEF MarksTree
<1>2. ASSUME NEW c, NEW d, NEW p, NEW k, UserTrap(c, d, p, k)
      PROVE  MarksTree(foreground_pid', foreground_owner')
  BY <1>2, PollMarks DEF UserTrap
<1>3. ASSUME NEW k, Idle(k)
      PROVE  MarksTree(foreground_pid', foreground_owner')
  BY <1>3, PollMarks DEF Idle
<1>4. CASE fork_current
  <2>1. \A s \in Slot : interrupted'[s] => interrupted[s]
    BY <1>0, <1>4 DEF fork_current, Cleared, TypeOK
  <2> QED
    BY <2>1 DEF MarksTree
<1>5. CASE SetForeground
  <2>1. CASE UNCHANGED interrupted
    BY <1>1, <2>1
  <2>2. CASE /\ foreground_owner' = pid[active] /\ foreground_pid' = call.a
             /\ call.a # 0 /\ IsChild(call.a)
             /\ interrupted' = [s \in Slot |->
                    interrupted[s] \/ (occupied(s) /\ descendant(s, call.a))]
    <3>1. pid[active] \in Nat /\ call.a \in Nat /\ pid[active] < call.a
      BY <1>0, <2>2 DEF IsChild, PidsOK, TypeOK
    <3>2. \A s \in Slot : interrupted'[s] <=>
             interrupted[s] \/ (occupied(s) /\ descendant(s, call.a))
      BY <2>2
    <3> QED
      BY <1>0, <2>2, <3>1, <3>2, MarkingDescendants
  <2> QED
    BY <1>5, <2>1, <2>2 DEF SetForeground, cancelVars
<1> QED
  BY <1>1, <1>2, <1>3, <1>4, <1>5
     DEF Next, Kernel, Perform, DispatchKill, PerformExit, ForkFails, PerformExec, PerformRename,
         wait_current, tty_read_user, Defer, TakeCancel, PerformOther, CancelOne, CancelDone,
         RetryReady, RetryDone, Choose, vars, cancelVars

(* poll_io, terminal_interrupt and call 103: Ctrl+C marks exactly the tree *)
(* of the foreground command, however it grew, and not its shell.          *)
THEOREM InterruptMarksExactly == Spec => InterruptMarksTheTree
<1>1. IInv /\ [Next]_vars =>
        [LET new == {s \in Slot : interrupted'[s] /\ ~interrupted[s]} IN
         new # {} =>
           /\ new \subseteq TreeOf(foreground_pid')
           /\ TreeOf(foreground_pid') \subseteq {s \in Slot : interrupted'[s]}
           /\ \A s \in new : pid[s] # foreground_owner']_vars
  BY MarkStep, Zenon DEF MarksTree
<1> QED
  BY <1>1, Invariance, PTL DEF Spec, InterruptMarksTheTree
=============================================================================
