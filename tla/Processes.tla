------------------------------ MODULE Processes ------------------------------
(***************************************************************************)
(* The process layer of the SymphonyPlus kernel: kernel/symplus/process.c. *)
(*                                                                         *)
(* One user window of RAM is shared by every process; the images of the    *)
(* others lie in per-slot snapshots (activate).  There are no interrupts:  *)
(* a process runs until it traps, sp_dispatch polls the keyboard once,     *)
(* performs the call, kills what Ctrl+C marked, retries the calls that had *)
(* to wait, and returns to a running process.  One action here is one      *)
(* phase of one pass of sp_dispatch; kpc names the phase.                  *)
(*                                                                         *)
(* What a program computes is left open: between two traps it may change   *)
(* its own image in any way and make any call (UserTrap).                  *)
(***************************************************************************)
EXTENDS Integers, FiniteSets, TtyLine

CONSTANTS
    NR,         \* number of user slots: 8 in the code
    MaxPid,     \* bound on next_pid
    Data,       \* what a process's memory may hold
    Fresh,      \* the memory exec builds
    Point,      \* user program counters
    Entry,      \* entry points exec may jump to
    Syscalls,   \* the calls programs make: [nr, a, b, c], see Calls
    Keys        \* the keyboard events that may arrive

(* A call as sp_dispatch reads it from r1..r4.  exit(a), wait(a, b, c) with *)
(* b = 0 for a null status pointer, a terminal read of c bytes, foreground  *)
(* (103) of pid a, deferral (104) with flag a.                              *)
Nrs == {"exit", "fork", "read", "wait", "exec", "rename", "fg", "defer",
        "cancelled", "yield", "other"}
Calls == {c \in [nr : Nrs, a : Int, b : {0, 1}, c : Nat] :
             c.nr \in {"exit", "fg", "defer"} => c.a \in Nat}
NoCall == [nr |-> "none", a |-> 0, b |-> 0, c |-> 0]

AllKeys == {"none", Char, Newline, "backspace", "interrupt"}

ASSUME ConstantsAssumption ==
    /\ NR \in Nat /\ NR > 0
    /\ MaxPid \in Nat /\ MaxPid > 0
    /\ Fresh \in Data
    /\ Entry \subseteq Point /\ Entry # {}
    /\ Syscalls \subseteq Calls
    /\ Keys \subseteq AllKeys /\ "none" \in Keys

VARIABLES
    pid, father, state, exit_code,   \* task[slot]; state "free" is !occupied
    contexts,                        \* saved user registers: pc and r1
    pending,                         \* the call a blocked process waits in
    interrupted, deferred, cancel_read,
    foreground_pid, foreground_owner,
    next_pid, active,
    window, snap,                    \* the user window and the snapshots
    input,                           \* the terminal's input queue
    kpc, call, scan                  \* phase, trapped call, retry-loop index

taskVars   == <<pid, father, state, exit_code>>
cancelVars == <<interrupted, deferred, cancel_read>>
fgVars     == <<foreground_pid, foreground_owner>>
memVars    == <<active, window, snap>>
vars == <<taskVars, contexts, pending, cancelVars, fgVars, next_pid, memVars,
          input, kpc, call, scan>>

Slot   == 1..NR
States == {"free", "running", "blocked", "zombie"}
Image  == [status : Nat, data : Data]
Context == [pc : Point, r1 : Int]

(* Errors the modelled calls return.                                       *)
EINTR  == -4
ECHILD == -10
EAGAIN == -11
EINVAL == -22
ENOENT == -2

FirstOf(S)  == CHOOSE s \in S : \A t \in S : s <= t    \* lowest slot first
occupied(s) == state[s] # "free"
live(s)     == state[s] \in {"running", "blocked"}

(***************************************************************************)
(* activate: bring a slot's image into the window, saving the one there    *)
(* unless its process has ended.                                           *)
(***************************************************************************)
ImageOf(s) == IF s = active THEN window ELSE snap[s]

SavedNever(s) == snap
Saved(s) ==
    IF s # active /\ live(active) THEN [snap EXCEPT ![active] = window] ELSE snap

activate(s) ==
    /\ active' = s
    /\ snap' = Saved(s)
    /\ window' = ImageOf(s)

(***************************************************************************)
(* descendant: follow the father links from a slot; stop at init, at a pid *)
(* with no slot, or after nine links.                                      *)
(***************************************************************************)
SlotsOf(p)  == {t \in Slot : occupied(t) /\ pid[t] = p}
FatherOf(p) ==
    IF p > 1 /\ SlotsOf(p) # {} THEN father[FirstOf(SlotsOf(p))] ELSE 0

LineageOfTwo(s) ==
    [d \in 0..NR |-> IF d = 0 THEN pid[s] ELSE IF d = 1 THEN FatherOf(pid[s]) ELSE 0]
Lineage(s) ==
    LET up[d \in 0..NR] == IF d = 0 THEN pid[s] ELSE FatherOf(up[d - 1])
    IN  up

descendantOfFather(s, root) ==
    \E d \in 0..NR : root > 1 /\ Lineage(s)[d] \in {root, FatherOf(root)}
descendantOnlyRoot(s, root) == root > 1 /\ pid[s] = root
descendant(s, root) ==
    \E d \in 0..NR : Lineage(s)[d] = root /\ root > 1

(***************************************************************************)
(* poll_io and terminal_interrupt: one keyboard event per poll.  Ctrl+C    *)
(* empties the queue and marks the foreground tree or, when no command is  *)
(* in the foreground, the shell's read.                                    *)
(***************************************************************************)
PollKey(k) ==
    /\ input' = CASE k \in Byte        -> Accept(input, k)
                  [] k = "backspace"   -> Erase(input)
                  [] k = "interrupt"   -> <<>>
                  [] k = "none"        -> input
    /\ IF k = "interrupt"
       THEN /\ interrupted' = [s \in Slot |->
                  interrupted[s] \/ /\ occupied(s)
                                    /\ foreground_pid # 0
                                    /\ descendant(s, foreground_pid)]
            /\ cancel_read' = [s \in Slot |->
                  cancel_read[s] \/ /\ occupied(s)
                                    /\ foreground_pid = 0
                                    /\ pid[s] = foreground_owner]
       ELSE UNCHANGED <<interrupted, cancel_read>>

FreeOrDead == {s \in Slot : ~live(s)}
FreeSlots == {s \in Slot : ~occupied(s)}

(***************************************************************************)
(* A trap: the program has changed its own image and saved its context;    *)
(* sp_dispatch polls before the call has any effect.                       *)
(***************************************************************************)
UserTrap(c, data, point, k) ==
    /\ kpc = "user"
    /\ c.nr = "fork" => next_pid < MaxPid \/ FreeSlots = {}     \* bound
    /\ window' = [window EXCEPT !.data = data]
    /\ contexts' = [contexts EXCEPT ![active].pc = point]
    /\ call' = c
    /\ PollKey(k)
    /\ kpc' = "perform"
    /\ UNCHANGED <<taskVars, pending, deferred, fgVars, next_pid, active, snap, scan>>

(***************************************************************************)
(* perform: the calls, each on behalf of the active slot.                  *)
(***************************************************************************)

(* The end of the first half of sp_dispatch: deliver r1 and go on.         *)
Return(r) ==
    /\ contexts' = [contexts EXCEPT ![active].r1 = r]
    /\ kpc' = "cancel"
    /\ UNCHANGED <<call, scan>>

(* exit_current: children, dead ones too, go to init; files and inodes     *)
(* are in FileTable.tla.                                                   *)
exit_leaving_zombies(s, code) ==
    /\ state' = [state EXCEPT ![s] = "zombie"]
    /\ exit_code' = [exit_code EXCEPT ![s] = code]
    /\ father' = [t \in Slot |->
                    IF live(t) /\ father[t] = pid[s] THEN 1 ELSE father[t]]
    /\ UNCHANGED pid

exit_current(s, code) ==
    /\ state' = [state EXCEPT ![s] = "zombie"]
    /\ exit_code' = [exit_code EXCEPT ![s] = code]
    /\ father' = [t \in Slot |->
                    IF occupied(t) /\ father[t] = pid[s] THEN 1 ELSE father[t]]
    /\ UNCHANGED pid

DispatchKill ==
    /\ kpc = "perform"
    /\ interrupted[active] /\ ~deferred[active]
    /\ exit_current(active, 2)
    /\ Return(0)
    /\ UNCHANGED <<pending, cancelVars, fgVars, next_pid, memVars, input>>

Performs(nr) ==
    /\ kpc = "perform"
    /\ ~(interrupted[active] /\ ~deferred[active])
    /\ call.nr = nr

PerformExit ==
    /\ Performs("exit")
    /\ exit_current(active, (call.a % 256) * 256)
    /\ Return(0)
    /\ UNCHANGED <<pending, cancelVars, fgVars, next_pid, memVars, input>>


CancelUnseen == FALSE
CancelSeen == deferred[active] /\ interrupted[active]

(* A refused or failed fork leaves everything but r1 alone.                *)
ForkFails ==
    /\ Performs("fork")
    /\ CancelSeen \/ FreeSlots = {}
    /\ Return(IF CancelSeen THEN EINTR ELSE EAGAIN)
    /\ UNCHANGED <<taskVars, pending, cancelVars, fgVars, next_pid, memVars, input>>

(* A slot keeps the flags of its last process until it is used again.      *)
ClearedNever(flags, s) == flags
Cleared(flags, s) == [flags EXCEPT ![s] = FALSE]

NewPidLowest == CHOOSE p \in 1..(NR + 1) :
    SlotsOf(p) = {} /\ \A o \in 1..(p - 1) : SlotsOf(o) # {}
NewPid == next_pid + 1

fork_current ==
    /\ Performs("fork")
    /\ ~CancelSeen /\ FreeSlots # {}
    /\ LET s == FirstOf(FreeSlots) IN
       /\ pid' = [pid EXCEPT ![s] = NewPid]
       /\ father' = [father EXCEPT ![s] = pid[active]]
       /\ state' = [state EXCEPT ![s] = "running"]
       /\ exit_code' = [exit_code EXCEPT ![s] = 0]
       /\ contexts' = [contexts EXCEPT
             ![s] = [pc |-> contexts[active].pc, r1 |-> 0],
             ![active].r1 = NewPid]
       /\ snap' = [snap EXCEPT ![s] = window]
       /\ pending' = [pending EXCEPT ![s] = NoCall]
       /\ interrupted' = Cleared(interrupted, s)
       /\ deferred' = Cleared(deferred, s)
       /\ cancel_read' = Cleared(cancel_read, s)
    /\ next_pid' = next_pid + 1
    /\ kpc' = "cancel"
    /\ UNCHANGED <<fgVars, active, window, input, call, scan>>

(* exec validates in staging RAM and touches the image only to commit.     *)
PerformExec ==
    /\ Performs("exec")
    /\ \/ /\ Return(ENOENT)
          /\ UNCHANGED window
       \/ \E e \in Entry :
          /\ window' = [status |-> 0, data |-> Fresh]
          /\ contexts' = [contexts EXCEPT ![active] = [pc |-> e, r1 |-> 0]]
          /\ kpc' = "cancel"
          /\ UNCHANGED <<call, scan>>
    /\ UNCHANGED <<taskVars, pending, cancelVars, fgVars, next_pid, active, snap, input>>

(* rename is the commit of a compilation: refused once Ctrl+C was seen.    *)
(* Its effect on the file system is not part of this module.               *)
PerformRename ==
    /\ Performs("rename")
    /\ \/ CancelSeen /\ Return(EINTR)
       \/ ~CancelSeen /\ \E r \in {0, ENOENT} : Return(r)
    /\ UNCHANGED <<taskVars, pending, cancelVars, fgVars, next_pid, memVars, input>>

Children(s, p) ==
    {t \in Slot : occupied(t) /\ t # s /\ father[t] = pid[s] /\ p \in {-1, pid[t]}}
Zombies(S) == {t \in S : state[t] = "zombie"}

WaitInvalid(c) == (c.a # -1 /\ c.a <= 0) \/ c.c > 1

(* The process blocks: its call is kept and retried by later passes.       *)
Block ==
    /\ pending' = [pending EXCEPT ![active] = call]
    /\ state' = [state EXCEPT ![active] = "blocked"]
    /\ kpc' = "cancel"
    /\ UNCHANGED <<pid, father, exit_code, contexts, call, scan>>

(* wait_current on behalf of slot s: the first dead child is reaped, its   *)
(* exit code stored in the caller's image, and its pid returned.           *)
Reap(s, c) ==
    LET t == FirstOf(Zombies(Children(s, c.a))) IN
    /\ state' = [state EXCEPT ![t] = "free", ![s] = "running"]
    /\ window' = [ImageOf(s) EXCEPT !.status = IF c.b = 1 THEN exit_code[t] ELSE @]
    /\ contexts' = [contexts EXCEPT ![s].r1 = pid[t]]
    /\ pending' = [pending EXCEPT ![t] = NoCall, ![s] = NoCall]
    /\ UNCHANGED <<pid, father, exit_code>>

wait_current ==
    /\ Performs("wait")
    /\ \/ /\ WaitInvalid(call)
          /\ Return(EINVAL)
          /\ UNCHANGED <<taskVars, pending, window>>
       \/ /\ ~WaitInvalid(call) /\ Children(active, call.a) = {}
          /\ Return(ECHILD)
          /\ UNCHANGED <<taskVars, pending, window>>
       \/ /\ ~WaitInvalid(call) /\ Zombies(Children(active, call.a)) # {}
          /\ Reap(active, call)
          /\ kpc' = "cancel"
          /\ UNCHANGED <<call, scan>>
       \/ /\ ~WaitInvalid(call) /\ Children(active, call.a) # {}
          /\ Zombies(Children(active, call.a)) = {}
          /\ \/ call.c = 1 /\ Return(0) /\ UNCHANGED <<taskVars, pending>>
             \/ call.c = 0 /\ Block
          /\ UNCHANGED window
    /\ UNCHANGED <<cancelVars, fgVars, next_pid, active, snap, input>>

(* tty_read_user: a cancelled read fails, a read without a full line       *)
(* waits.  The bytes go to the caller's buffer, which Image leaves out.    *)
tty_read_user ==
    /\ Performs("read")
    /\ \/ /\ cancel_read[active]
          /\ cancel_read' = [cancel_read EXCEPT ![active] = FALSE]
          /\ Return(EINTR)
          /\ UNCHANGED <<taskVars, pending, input>>
       \/ /\ ~cancel_read[active] /\ call.c = 0
          /\ Return(0)
          /\ UNCHANGED <<taskVars, pending, cancel_read, input>>
       \/ /\ ~cancel_read[active] /\ call.c > 0 /\ line_ready(input)
          /\ \E n \in 1..Len(input) :
                Takes(input, call.c, n) /\ Return(n) /\ input' = Rest(input, n)
          /\ UNCHANGED <<taskVars, pending, cancel_read>>
       \/ /\ ~cancel_read[active] /\ call.c > 0 /\ ~line_ready(input)
          /\ Block
          /\ UNCHANGED <<cancel_read, input>>
    /\ UNCHANGED <<interrupted, deferred, fgVars, next_pid, memVars>>

(* Call 103: the shell names the command in the foreground, 0 for none.    *)
(* A Ctrl+C that arrived before the name is applied to the command now.    *)
IsAnybody(p) == \E t \in Slot : occupied(t) /\ pid[t] = p
IsChild(p) ==
    \E t \in Slot : occupied(t) /\ pid[t] = p /\ father[t] = pid[active]

SetForeground ==
    /\ Performs("fg")
    /\ IF call.a # 0 /\ ~IsChild(call.a)
       THEN /\ Return(ECHILD)
            /\ UNCHANGED <<cancelVars, fgVars>>
       ELSE /\ foreground_owner' = pid[active]
            /\ foreground_pid' = call.a
            /\ IF call.a # 0 /\ cancel_read[active]
               THEN /\ cancel_read' = [cancel_read EXCEPT ![active] = FALSE]
                    /\ interrupted' = [s \in Slot |->
                          interrupted[s] \/ (occupied(s) /\ descendant(s, call.a))]
               ELSE UNCHANGED <<cancel_read, interrupted>>
            /\ Return(0)
            /\ UNCHANGED deferred
    /\ UNCHANGED <<taskVars, pending, next_pid, memVars, input>>

(* Call 104: ask for (a = 1) or just query deferred cancellation.          *)
Defer ==
    /\ Performs("defer")
    /\ deferred' = [deferred EXCEPT ![active] = @ \/ call.a = 1]
    /\ Return(IF interrupted[active] THEN 1 ELSE 0)
    /\ UNCHANGED <<taskVars, pending, interrupted, cancel_read, fgVars, next_pid,
                   memVars, input>>

(* Call 105: take a cancellation that no read has consumed.                *)
TakeCancel ==
    /\ Performs("cancelled")
    /\ cancel_read' = [cancel_read EXCEPT ![active] = FALSE]
    /\ Return(IF cancel_read[active] THEN 1 ELSE 0)
    /\ UNCHANGED <<taskVars, pending, interrupted, deferred, fgVars, next_pid,
                   memVars, input>>

(* yield (101), the safe point (102) and the calls that change neither     *)
(* process nor terminal state.                                             *)
PerformOther ==
    /\ \E nr \in {"yield", "other"} : Performs(nr)
    /\ Return(0)
    /\ UNCHANGED <<taskVars, pending, cancelVars, fgVars, next_pid, memVars, input>>

Perform ==
    \/ PerformExit \/ ForkFails \/ fork_current \/ PerformExec \/ PerformRename
    \/ wait_current \/ tty_read_user \/ SetForeground \/ Defer \/ TakeCancel
    \/ PerformOther

(***************************************************************************)
(* The passes of sp_dispatch.                                              *)
(***************************************************************************)
Doomed == {s \in Slot : live(s) /\ interrupted[s] /\ ~deferred[s]}

(* Cancellation: each marked process ends with its own image and files in  *)
(* place, lowest slot first.                                               *)
CancelOne ==
    /\ kpc = "cancel"
    /\ Doomed # {}
    /\ LET s == FirstOf(Doomed) IN
       /\ activate(s)
       /\ pending' = [pending EXCEPT ![s] = NoCall]
       /\ exit_current(s, 2)
    /\ UNCHANGED <<contexts, cancelVars, fgVars, next_pid, input, kpc, call, scan>>

CancelDone ==
    /\ kpc = "cancel"
    /\ Doomed = {}
    /\ kpc' = "retry"
    /\ scan' = 1
    /\ UNCHANGED <<taskVars, contexts, pending, cancelVars, fgVars, next_pid,
                   memVars, input, call>>

wait_ready(s) ==
    LET C == Children(s, pending[s].a) IN C = {} \/ Zombies(C) # {}

Ready(s) ==
    /\ occupied(s)
    /\ \/ pending[s].nr = "read" /\ (line_ready(input) \/ cancel_read[s])
       \/ pending[s].nr = "wait" /\ wait_ready(s)

(* One sweep over the slots: those still to come whose call can finish.    *)
ToRetryAfter == {s \in Slot : s > scan /\ Ready(s)}
ToRetry == {s \in Slot : s >= scan /\ Ready(s)}

Resume(s, r) ==
    /\ contexts' = [contexts EXCEPT ![s].r1 = r]
    /\ window' = ImageOf(s)
    /\ pending' = [pending EXCEPT ![s] = NoCall]
    /\ state' = [state EXCEPT ![s] = "running"]
    /\ UNCHANGED <<pid, father, exit_code>>

(* A blocked call that can finish does so, with its caller activated.      *)
RetryReady(s) ==
    /\ kpc = "retry" /\ ToRetry # {} /\ s = FirstOf(ToRetry)
    /\ active' = s
    /\ snap' = Saved(s)
    /\ scan' = s + 1
    /\ \/ /\ pending[s].nr = "wait" /\ Children(s, pending[s].a) # {}
          /\ Reap(s, pending[s])
          /\ UNCHANGED <<cancel_read, input>>
       \/ /\ pending[s].nr = "wait" /\ Children(s, pending[s].a) = {}
          /\ Resume(s, ECHILD)
          /\ UNCHANGED <<cancel_read, input>>
       \/ /\ pending[s].nr = "read" /\ cancel_read[s]
          /\ Resume(s, EINTR)
          /\ cancel_read' = [cancel_read EXCEPT ![s] = FALSE]
          /\ UNCHANGED input
       \/ /\ pending[s].nr = "read" /\ ~cancel_read[s]
          /\ \E n \in 1..Len(input) :
                Takes(input, pending[s].c, n) /\ Resume(s, n) /\ input' = Rest(input, n)
          /\ UNCHANGED cancel_read
    /\ UNCHANGED <<interrupted, deferred, fgVars, next_pid, kpc, call>>

RetryDone ==
    /\ kpc = "retry" /\ ToRetry = {}
    /\ kpc' = "choose"
    /\ UNCHANGED <<taskVars, contexts, pending, cancelVars, fgVars, next_pid,
                   memVars, input, call, scan>>

Runnable == {s \in Slot : state[s] = "running"}

(* The active process goes on unless it yielded or stopped running; then   *)
(* the next running slot in circular order does.                           *)
DistanceFromOne(s) == s
Distance(s) == (s - active - 1 + NR) % NR

ChosenIsActive ==
    IF call.nr # "yield" THEN active
    ELSE CHOOSE s \in Runnable : \A t \in Runnable : Distance(s) <= Distance(t)

Chosen ==
    IF call.nr # "yield" /\ active \in Runnable
    THEN active
    ELSE CHOOSE s \in Runnable : \A t \in Runnable : Distance(s) <= Distance(t)

Choose ==
    /\ kpc = "choose" /\ Runnable # {}
    /\ activate(Chosen)
    /\ kpc' = "user" /\ call' = NoCall /\ scan' = 0
    /\ UNCHANGED <<taskVars, contexts, pending, cancelVars, fgVars, next_pid, input>>

(* Nothing can run: poll again and make another pass.                      *)
Idle(k) ==
    /\ kpc = "choose" /\ Runnable = {}
    /\ PollKey(k)
    /\ kpc' = "cancel"
    /\ UNCHANGED <<taskVars, contexts, pending, deferred, fgVars, next_pid,
                   memVars, call, scan>>

Kernel ==
    \/ DispatchKill \/ Perform \/ CancelOne \/ CancelDone
    \/ \E s \in Slot : RetryReady(s)
    \/ RetryDone \/ Choose
    \/ \E k \in Keys : Idle(k)

(* sp_boot: init in slot 1, everything else free.                          *)
Init ==
    /\ pid = [s \in Slot |-> IF s = 1 THEN 1 ELSE 0]
    /\ father = [s \in Slot |-> 0]
    /\ state = [s \in Slot |-> IF s = 1 THEN "running" ELSE "free"]
    /\ exit_code = [s \in Slot |-> 0]
    /\ \E e \in Entry : contexts = [s \in Slot |-> [pc |-> e, r1 |-> 0]]
    /\ pending = [s \in Slot |-> NoCall]
    /\ interrupted = [s \in Slot |-> FALSE]
    /\ deferred = [s \in Slot |-> FALSE]
    /\ cancel_read = [s \in Slot |-> FALSE]
    /\ foreground_pid = 0 /\ foreground_owner = 0
    /\ next_pid = 1 /\ active = 1
    /\ window = [status |-> 0, data |-> Fresh]
    /\ snap = [s \in Slot |-> [status |-> 0, data |-> Fresh]]
    /\ input = <<>>
    /\ kpc = "user" /\ call = NoCall /\ scan = 0

Next ==
    \/ \E c \in Syscalls, d \in Data, p \in Point, k \in Keys : UserTrap(c, d, p, k)
    \/ Kernel

Spec == Init /\ [][Next]_vars

(* The kernel never stops inside a pass.  Nothing is assumed of programs:  *)
(* a pass gives the window back to its caller for every call but yield,    *)
(* so one that computes keeps it for as long as it likes.                  *)
FairSpec == Spec /\ WF_vars(Kernel)

(***************************************************************************)
(* Correctness.                                                            *)
(***************************************************************************)
TypeOK ==
    /\ pid \in [Slot -> Nat] /\ father \in [Slot -> Nat]
    /\ state \in [Slot -> States] /\ exit_code \in [Slot -> Nat]
    /\ contexts \in [Slot -> Context]
    /\ pending \in [Slot -> Calls \cup {NoCall}]
    /\ interrupted \in [Slot -> BOOLEAN]
    /\ deferred \in [Slot -> BOOLEAN]
    /\ cancel_read \in [Slot -> BOOLEAN]
    /\ foreground_pid \in Nat /\ foreground_owner \in Nat
    /\ next_pid \in Nat /\ active \in Slot
    /\ window \in Image /\ snap \in [Slot -> Image]
    /\ input \in Seq(Byte) /\ Len(input) < InputSize
    /\ kpc \in {"user", "perform", "cancel", "retry", "choose"}
    /\ call \in Calls \cup {NoCall} /\ scan \in 0..(NR + 1)

(* A pid names at most one process, is never reused while next_pid grows,  *)
(* and a father is older than its children, so that father links end.      *)
PidsOK ==
    \A s \in Slot : occupied(s) =>
        /\ 0 < pid[s] /\ pid[s] <= next_pid
        /\ father[s] < pid[s]
        /\ \A t \in Slot : occupied(t) /\ pid[t] = pid[s] => t = s

(* Every process, dead ones included, can still be waited for: its father  *)
(* is a live process, or it is init's (exit_current reparents zombies too).*)
EveryoneHasAFather ==
    \A s \in Slot : occupied(s) /\ pid[s] # 1 =>
        \/ father[s] = 1
        \/ \E t \in Slot : live(t) /\ pid[t] = father[s]

(* When the kernel returns to a program, no process is left asleep in a    *)
(* call that could finish: no full line or cancellation beside a reader,   *)
(* no dead or missing child beside a waiter.                               *)
NoMissedWakeup ==
    kpc = "user" => \A s \in Slot : ~Ready(s)

(* A process sleeps exactly while its call is kept for retrying.           *)
SleepersHaveCalls ==
    \A s \in Slot : state[s] = "blocked" <=> occupied(s) /\ pending[s] # NoCall

(* The kernel returns only to a running process, and only when everything  *)
(* that Ctrl+C marked has ended or asked for deferral.                     *)
NothingMarkedRuns ==
    kpc = "user" => state[active] = "running" /\ Doomed = {}

(* The foreground command is younger than the shell that named it, so the  *)
(* shell is never below it in the process tree.                            *)
ForegroundIsYounger ==
    foreground_pid # 0 => foreground_owner < foreground_pid

(* What each phase of a pass has already settled.                          *)
PassProgress ==
    /\ kpc \in {"user", "perform"} => state[active] = "running"
    /\ kpc \in {"retry", "choose", "user"} => Doomed = {}
    /\ kpc = "retry" => \A s \in Slot : s < scan => ~Ready(s)
    /\ kpc \in {"choose", "user"} => \A s \in Slot : ~Ready(s)

(* The inductive invariant: what the phases have settled carries the       *)
(* promises made to programs through the pass.                             *)
IInv ==
    /\ TypeOK /\ PidsOK /\ EveryoneHasAFather
    /\ SleepersHaveCalls /\ ForegroundIsYounger /\ PassProgress

(* The process tree as a reference: the least set of slots that holds the  *)
(* root and, with a process, its children.                                 *)
TreeOf(root) ==
    {s \in Slot : occupied(s) /\ \A T \in SUBSET Slot :
        /\ SlotsOf(root) \subseteq T
        /\ \A t, u \in Slot :
              t \in T /\ occupied(t) /\ occupied(u) /\ father[u] = pid[t] => u \in T
        => s \in T}

(* A step that marks anything marks the whole foreground tree and nothing  *)
(* else; in particular never the shell that owns the terminal, however the *)
(* tree grew or lost members since the command was named.                  *)
InterruptMarksTheTree ==
    [][LET new == {s \in Slot : interrupted'[s] /\ ~interrupted[s]} IN
       new # {} =>
         /\ new \subseteq TreeOf(foreground_pid')
         /\ TreeOf(foreground_pid') \subseteq {s \in Slot : interrupted'[s]}
         /\ \A s \in new : pid[s] # foreground_owner']_vars

(* Ended processes are never resumed and never lose their exit code before *)
(* their father, or init, has taken it.                                    *)
ZombiesWait ==
    [][\A s \in Slot : state[s] = "zombie" =>
         \/ state'[s] = "zombie" /\ exit_code'[s] = exit_code[s] /\ pid'[s] = pid[s]
         \/ /\ state'[s] = "free"
            /\ \E t \in Slot :
                  state'[t] = "running" /\ pid[t] = father[s] /\ contexts'[t].r1 = pid[s]]_vars

(* Yielding reaches everyone: as long as whoever gets the window again and *)
(* again yields again and again, the circular search from the active slot  *)
(* passes over no runnable process for ever, although a woken reader or a  *)
(* cancelled process moves its starting point in the middle of a pass.     *)
HasWindow(s) == kpc = "user" /\ active = s
Yielded(s)   == kpc = "perform" /\ active = s /\ call.nr = "yield"
AllYield     == \A s \in Slot : []<>HasWindow(s) => []<>Yielded(s)
EveryoneRuns ==
    AllYield => \A s \in Slot :
        state[s] = "running" ~> (state[s] # "running" \/ HasWindow(s))

(* The window and the snapshots implement one private image per process.   *)
NoImage == [status |-> -1, data |-> Fresh]
memory  == [s \in Slot |-> IF live(s) THEN ImageOf(s) ELSE NoImage]

Mem == INSTANCE ProcMemory WITH None <- NoImage, run <- active, mem <- memory
MemoryIsPrivate == Mem!Spec
=============================================================================
