--------------------------- MODULE SlotReuseProofs ---------------------------
(***************************************************************************)
(* Proof that no cancellation flag outlives its process, however often a   *)
(* slot is used again (MCSlotReuse.tla).                                   *)
(***************************************************************************)
EXTENDS MCSlotReuse, ProcessesProofs

(* What FlagsBelongToTheirProcess says of one slot.                        *)
Traced(s) ==
    /\ (state[s] = "zombie" /\ exit_code[s] = 2) => pid[s] \in past.marked
    /\ interrupted[s] => pid[s] \in past.marked
    /\ cancel_read[s] => pid[s] \in past.cancelled
    /\ deferred[s] => pid[s] \in past.asked

(* A slot is still used by the process it had, and that process has not    *)
(* just been killed by Ctrl+C unless it was marked before.                 *)
SameProcess(s) ==
    occupied(s)' =>
        /\ occupied(s) /\ pid'[s] = pid[s]
        /\ \/ ~(state'[s] = "zombie" /\ exit_code'[s] = 2)
           \/ state[s] = "zombie" /\ exit_code[s] = 2
           \/ interrupted[s]

(* Flags gained in a step are remembered, so they can be traced after it.  *)
LEMMA SameIsTraced ==
    ASSUME FlagsBelongToTheirProcess, HistNext, NEW s \in Slot, SameProcess(s), occupied(s)'
    PROVE  Traced(s)'
<1>1. /\ occupied(s) /\ pid'[s] = pid[s]
      /\ \/ ~(state'[s] = "zombie" /\ exit_code'[s] = 2)
         \/ state[s] = "zombie" /\ exit_code[s] = 2
         \/ interrupted[s]
  BY Zenon DEF SameProcess
<1>2. Traced(s)
  BY <1>1, Zenon DEF FlagsBelongToTheirProcess, Traced
<1>3. /\ past'.marked = past.marked \cup {pid[t] : t \in {u \in Slot : Gained(interrupted, u)}}
      /\ past'.cancelled = past.cancelled \cup {pid[t] : t \in {u \in Slot : Gained(cancel_read, u)}}
      /\ past'.asked = past.asked \cup {pid[t] : t \in {u \in Slot : Gained(deferred, u)}}
  BY DEF HistNext
<1>4. (interrupted'[s] \/ interrupted[s]) => pid[s] \in past'.marked
  BY <1>2, <1>3 DEF Traced, Gained
<1>5. cancel_read'[s] => pid[s] \in past'.cancelled
  BY <1>2, <1>3 DEF Traced, Gained
<1>6. deferred'[s] => pid[s] \in past'.asked
  BY <1>2, <1>3 DEF Traced, Gained
<1>7. (state[s] = "zombie" /\ exit_code[s] = 2) => pid[s] \in past'.marked
  BY <1>2, <1>3 DEF Traced
<1> QED
  BY <1>1, <1>4, <1>5, <1>6, <1>7, Zenon DEF Traced

(* A process that exits by itself never leaves the exit code of Ctrl+C.    *)
LEMMA ExitCodeIsNotTwo == \A a \in Nat : (a % 256) * 256 # 2
<1> SUFFICES ASSUME NEW a \in Nat PROVE (a % 256) * 256 # 2
  OBVIOUS
<1>1. a % 256 \in Nat
  OBVIOUS
<1> QED
  BY <1>1

(* An exit changes one slot; only a marked process leaves code 2.          *)
LEMMA ExitKeepsProcesses ==
    ASSUME TypeOK, NEW s \in Slot, live(s), NEW code, exit_current(s, code),
           code # 2 \/ interrupted[s], NEW u \in Slot
    PROVE  SameProcess(u)
BY DEF exit_current, SameProcess, live, occupied, TypeOK

(* A reaped slot is free, every other slot keeps its process.              *)
LEMMA ReapKeepsProcesses ==
    ASSUME TypeOK, NEW s \in Slot, live(s), NEW c,
           Zombies(Children(s, c.a)) # {}, Reap(s, c), NEW u \in Slot
    PROVE  SameProcess(u)
<1> DEFINE t == FirstOf(Zombies(Children(s, c.a)))
<1>1. t \in Slot
  BY FirstOfIsFirst DEF Zombies, Children
<1> HIDE DEF t
<1>2. state' = [state EXCEPT ![t] = "free", ![s] = "running"] /\ UNCHANGED <<pid, exit_code>>
  BY DEF Reap, t
<1> QED
  BY <1>1, <1>2 DEF SameProcess, live, occupied, TypeOK

(* A process that blocks or resumes is the same process.                   *)
LEMMA SleepKeepsProcesses ==
    ASSUME TypeOK, NEW s \in Slot, live(s), UNCHANGED <<pid, exit_code>>,
           NEW now \in {"running", "blocked"}, state' = [state EXCEPT ![s] = now], NEW u \in Slot
    PROVE  SameProcess(u)
BY DEF SameProcess, live, occupied, TypeOK

(* Every step but a fork leaves each slot its process.                     *)
LEMMA StepKeepsProcesses ==
    ASSUME IInv, Next, ~fork_current, NEW u \in Slot
    PROVE  SameProcess(u)
<1>0. /\ TypeOK /\ active \in Slot
      /\ kpc = "perform" => live(active)
  BY DEF IInv, PassProgress, TypeOK, live
<1>1. CASE UNCHANGED taskVars
  BY <1>1 DEF taskVars, SameProcess, occupied
<1>2. CASE DispatchKill
  BY <1>0, <1>2, ExitKeepsProcesses DEF DispatchKill
<1>3. CASE PerformExit
  <2>1. call.a \in Nat
    BY <1>0, <1>3 DEF PerformExit, Performs, TypeOK, Calls, NoCall
  <2>2. (call.a % 256) * 256 # 2
    BY <2>1, ExitCodeIsNotTwo
  <2> QED
    BY <1>0, <1>3, <2>2, ExitKeepsProcesses DEF PerformExit, Performs
<1>4. CASE Block /\ kpc = "perform"
  BY <1>0, <1>4, SleepKeepsProcesses DEF Block
<1>5. CASE wait_current
  BY <1>0, <1>1, <1>4, <1>5, ReapKeepsProcesses DEF wait_current, Performs
<1>6. CASE tty_read_user
  BY <1>1, <1>4, <1>6 DEF tty_read_user, Performs
<1>7. CASE CancelOne
  <2>1. PICK s \in Slot : s = FirstOf(Doomed) /\ s \in Doomed
    BY <1>7, FirstOfIsFirst DEF CancelOne, Doomed
  <2>2. live(s) /\ interrupted[s] /\ exit_current(s, 2)
    BY <1>7, <2>1 DEF CancelOne, Doomed
  <2> QED
    BY <1>0, <2>2, ExitKeepsProcesses
<1>8. ASSUME NEW s \in Slot, RetryReady(s)
      PROVE  SameProcess(u)
  <2>1. Ready(s)
    BY <1>8, FirstOfIsFirst DEF RetryReady, ToRetry
  <2>2. live(s)
    BY <2>1 DEF IInv, Ready, SleepersHaveCalls, NoCall, live
  <2>3. CASE \E r : Resume(s, r)
    BY <1>0, <2>2, <2>3, SleepKeepsProcesses DEF Resume
  <2>4. CASE /\ pending[s].nr = "wait" /\ Children(s, pending[s].a) # {}
             /\ Reap(s, pending[s])
    <3>1. Zombies(Children(s, pending[s].a)) # {}
      BY <2>1, <2>4 DEF Ready, wait_ready
    <3> QED
      BY <1>0, <2>2, <2>4, <3>1, ReapKeepsProcesses
  <2> QED
    BY <1>8, <2>3, <2>4 DEF RetryReady
<1>9. ASSUME NEW c, NEW d, NEW p, NEW k, UserTrap(c, d, p, k)
      PROVE  SameProcess(u)
  BY <1>1, <1>9 DEF UserTrap
<1> QED
  BY <1>1, <1>2, <1>3, <1>5, <1>6, <1>7, <1>8, <1>9
     DEF Next, Kernel, Perform, ForkFails, PerformExec, PerformRename, SetForeground, Defer,
         TakeCancel, PerformOther, CancelDone, RetryDone, Choose, Idle

(* A fork gives the slot to a process with no flag set; the others keep    *)
(* theirs.                                                                 *)
LEMMA ForkClears ==
    ASSUME IInv, fork_current, NEW s \in Slot
    PROVE  \/ SameProcess(s)
           \/ /\ state'[s] = "running"
              /\ ~interrupted'[s] /\ ~cancel_read'[s] /\ ~deferred'[s]
<1> DEFINE t == FirstOf(FreeSlots)
<1>1. t \in Slot
  BY FirstOfIsFirst DEF fork_current, FreeSlots
<1> HIDE DEF t
<1>2. /\ pid' = [pid EXCEPT ![t] = NewPid]
      /\ state' = [state EXCEPT ![t] = "running"]
      /\ exit_code' = [exit_code EXCEPT ![t] = 0]
      /\ interrupted' = [interrupted EXCEPT ![t] = FALSE]
      /\ deferred' = [deferred EXCEPT ![t] = FALSE]
      /\ cancel_read' = [cancel_read EXCEPT ![t] = FALSE]
  BY DEF fork_current, Cleared, t
<1>3. TypeOK
  BY DEF IInv
<1>4. CASE s = t
  BY <1>1, <1>2, <1>3, <1>4 DEF TypeOK
<1>5. CASE s # t
  BY <1>1, <1>2, <1>3, <1>5 DEF TypeOK, SameProcess, occupied
<1> QED
  BY <1>4, <1>5

(* No step makes a flag point at a process that never had it.              *)
LEMMA FlagStep ==
    IInv /\ FlagsBelongToTheirProcess /\ [HistNext]_<<vars, past>>
        => FlagsBelongToTheirProcess'
<1> SUFFICES ASSUME IInv, FlagsBelongToTheirProcess, [HistNext]_<<vars, past>>
             PROVE  FlagsBelongToTheirProcess'
  OBVIOUS
<1>1. CASE HistNext
  <2> SUFFICES ASSUME NEW s \in Slot, occupied(s)'
               PROVE  Traced(s)'
    BY Zenon DEF FlagsBelongToTheirProcess, Traced
  <2>1. CASE SameProcess(s)
    BY <1>1, <2>1, SameIsTraced
  <2>2. CASE /\ state'[s] = "running"
             /\ ~interrupted'[s] /\ ~cancel_read'[s] /\ ~deferred'[s]
    BY <2>2 DEF Traced
  <2>3. Next
    BY <1>1 DEF HistNext
  <2> QED
    BY <2>1, <2>2, <2>3, ForkClears, StepKeepsProcesses
<1>2. CASE UNCHANGED <<vars, past>>
  BY <1>2 DEF FlagsBelongToTheirProcess, occupied, vars, taskVars, cancelVars
<1> QED
  BY <1>1, <1>2

(* No flag outlives its process: whoever died of Ctrl+C was marked itself, *)
(* a read is cancelled only for the process that was to be cancelled, and  *)
(* a process is shielded only if it asked to be.                           *)
THEOREM NoFlagOutlivesItsProcess == HistSpec => []FlagsBelongToTheirProcess
<1>1. HistInit => Init /\ FlagsBelongToTheirProcess
  BY DEF HistInit, Init, FlagsBelongToTheirProcess, occupied
<1>2. [HistNext]_<<vars, past>> => [Next]_vars
  BY DEF HistNext
<1>3. HistSpec => []IInv
  BY <1>1, <1>2, Invariance, PTL DEF HistSpec, Spec
<1> QED
  BY <1>1, <1>3, FlagStep, PTL DEF HistSpec
=============================================================================
