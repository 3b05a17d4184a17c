------------------------- MODULE ShellSessionProofs -------------------------
(***************************************************************************)
(* Proofs about ShellSession.tla for every number of slots, of compiler    *)
(* stages and of typed lines, and for all command lists.                   *)
(*                                                                         *)
(* What the programs do is argued one process at a time: a view is what    *)
(* the session knows of one process, and every step changes one or two of  *)
(* them.  The order of processes is argued without their programs.         *)
(***************************************************************************)
EXTENDS ShellSession, ProcessesProofs

(***************************************************************************)
(* Views.  A process is in the middle of its trap, asleep in it, or has    *)
(* returned from it, and then pc is the point it goes on from.             *)
(***************************************************************************)
View(p, r, d, h, c) == [pc |-> p, r1 |-> r, data |-> d, how |-> h, call |-> c]
Gone == View("none", 0, NoLocals, "gone", NoCall)

Trapped(s) == s = active /\ kpc = "perform"
ViewOf(s) ==
    View(contexts[s].pc, contexts[s].r1, ImageOf(s).data,
         IF Trapped(s) THEN "trapped" ELSE IF state[s] = "blocked" THEN "blocked" ELSE "returned",
         IF Trapped(s) THEN call ELSE pending[s])
view == [s \in Slot |-> IF live(s) THEN ViewOf(s) ELSE Gone]

ForkPoints  == {"i_forked", "s_forked", "d_forked"}
WaitPoints  == {"i_waited", "s_waited", "d_waited"}
InitPoints  == {"init", "i_forked", "i_waited"}
ShellPoints == {"sh", "s_start", "s_prompt", "s_line", "s_forked", "s_named", "s_waited",
                "s_unnamed", "s_checked"}
ListPoints  == {"s_forked", "s_named", "s_waited", "s_unnamed", "s_checked"}
LatePoints  == {"d_publish", "d_chmod", "d_renamed"}

(* A process that fork has made and that has not run yet.                  *)
Newborn(v) == v.pc \in ForkPoints /\ v.how = "returned" /\ v.r1 = 0

(* The pid of the child a process has not waited for, 0 for none.          *)
ChildOf(v) ==
    IF v.pc \in ForkPoints /\ v.how = "returned" /\ v.r1 > 0 THEN v.r1
    ELSE IF v.pc = "s_named" \/ (v.pc \in WaitPoints /\ v.how # "returned") THEN v.data.child
    ELSE 0

Execs(v, S) == v.pc = "no_exec" /\ v.how = "trapped" /\ v.call.nr = "exec" /\ v.call.a \in S
RoleOf(v) ==
    IF v.pc \in InitPoints /\ ~Newborn(v) THEN "init"
    ELSE IF \/ v.pc \in ShellPoints /\ ~Newborn(v)
            \/ v.pc = "i_forked"
            \/ Execs(v, {1})
    THEN "shell"
    ELSE IF v.pc \in DriverPoints /\ ~Newborn(v) THEN "driver"
    ELSE IF \/ v.pc \in {"cmd", "s_forked"}
            \/ Execs(v, {2, 3})
    THEN "command"
    ELSE IF v.pc \in {"stage", "d_forked"} \/ Execs(v, {4}) THEN "stage"
    ELSE "other"

(* The call a process makes to reach a point.                              *)
Reaches(p, d, c) ==
    CASE p = "init"       -> c = Sys("exit", 1, 0, 0)
      [] p \in ForkPoints -> c = Sys("fork", 0, 0, 0)
      [] p = "i_waited"   -> c = Sys("wait", -1, 1, 0)
      [] p = "no_exec"    -> c = Sys("exit", 127, 0, 0) \/ \E a \in 1..4 : c = Sys("exec", a, 0, 0)
      [] p \in {"sh", "cc"} -> \E a \in 0..255 : c = Sys("exit", a, 0, 0)
      [] p \in {"s_start", "s_unnamed"} -> c = Sys("fg", 0, 0, 0)
      [] p \in {"s_prompt", "d_chmod"} -> c = Sys("other", 0, 0, 0)
      [] p = "s_line"     -> c = Sys("read", 0, 0, 255)
      [] p = "s_named"    -> c = Sys("fg", d.child, 0, 0)
      [] p \in {"s_waited", "d_waited"} -> c = Sys("wait", d.child, 1, 0)
      [] p = "s_checked"  -> c = Sys("cancelled", 0, 0, 0)
      [] p \in {"cmd", "stage"} ->
            c = Sys("other", 0, 0, 0) \/ c = Sys("exit", 0, 0, 0) \/ c = Sys("exit", 1, 0, 0)
      [] p = "d_deferred" -> c = Sys("defer", 1, 0, 0)
      [] p = "d_reserved" -> c = Reserve
      [] p \in {"d_unreserved", "d_unlinked"} -> c = Unlink
      [] p \in {"d_queried", "d_publish", "d_end"} -> c = Sys("defer", 0, 0, 0)
      [] p = "d_renamed"  -> c = Sys("rename", 0, 0, 0)
      [] OTHER -> FALSE

(* What a process of the session can look like.                            *)
LocalsFit(p, d) ==
    /\ d \in AllLocals
    /\ p \in ListPoints => d.list # <<>>
    /\ p \in DriverPoints \ LatePoints => d.k <= Stages
    /\ p \in WaitPoints \cup {"s_named"} => d.child > 0
Fits(v) ==
    /\ v.pc \in Points /\ v.r1 \in Int /\ v.how \in {"trapped", "blocked", "returned"}
    /\ LocalsFit(v.pc, v.data)
    /\ v.how # "returned" => Reaches(v.pc, v.data, v.call)
    /\ v.how = "blocked" => v.pc \in WaitPoints \cup {"s_line"}
    /\ v.how = "returned" /\ v.pc \in ForkPoints => v.r1 <= MaxPid
    /\ v.how = "returned" /\ v.pc = "i_waited" => v.r1 = v.data.child

(* The temporary files a driver may have left at a point.                  *)
MayExist(v) ==
    CASE v.pc \in {"cc", "d_deferred", "d_end"} -> {}
      [] v.pc = "d_reserved" -> 1..(IF v.how = "trapped" THEN v.data.k - 1 ELSE v.data.k)
      [] v.pc \in {"d_unreserved", "d_unlinked"} ->
            (IF v.how = "trapped" THEN v.data.k ELSE v.data.k + 1)..Stages
      [] OTHER -> 1..Stages

(***************************************************************************)
(* The invariant.                                                          *)
(***************************************************************************)
Kid  == [s \in Slot |-> ChildOf(view[s])]
Born == [s \in Slot |-> Newborn(view[s])]
Role == [s \in Slot |-> RoleOf(view[s])]

ProgramsFit == \A s \in Slot : live(s) => Fits(view[s])

(* Init lives in slot 1 and stays there.                                   *)
InitStays == state[1] # "free" /\ pid[1] = 1 /\ father[1] = 0

(* The processes form a chain: each has one child, which it has not waited *)
(* for, and all but the last are alive.                                    *)
Chain ==
    /\ Kid \in [Slot -> Nat]
    /\ \A s \in Slot : Kid[s] # 0 => live(s) /\ \E t \in Slot : occupied(t) /\ pid[t] = Kid[s]
    /\ \A s, t \in Slot : occupied(s) /\ occupied(t) =>
          /\ pid[s] < pid[t] => 0 < Kid[s] /\ Kid[s] <= pid[t]
          /\ father[t] = pid[s] <=> pid[t] = Kid[s]

(* Only the last process of the chain runs, except that a new one waits    *)
(* for its turn while its father names it.                                 *)
Turns ==
    \A s, t \in Slot : live(t) /\ state[s] = "running" /\ pid[s] < pid[t] =>
        s = active /\ Born[t]

Roles ==
    \A s \in Slot : live(s) =>
        /\ Role[s] = "init" <=> pid[s] = 1
        /\ Role[s] = "shell" => father[s] = 1
        /\ Role[s] \in {"command", "driver"} =>
              \E f \in Slot : live(f) /\ father[f] = 1 /\ pid[f] = father[s]
        /\ Role[s] = "stage" =>
              \E f \in Slot : live(f) /\ Role[f] = "driver" /\ pid[f] = father[s]

(* A driver has asked for deferral from its second call on.                *)
Unshielded(v) == v.pc = "cc" \/ (v.pc = "d_deferred" /\ v.how = "trapped")
Shielded == \A s \in Slot : live(s) /\ Role[s] = "driver" => Unshielded(view[s]) \/ deferred[s]

(* Neither init nor the shell is ever marked, and only marks kill.         *)
Marks ==
    \A s \in Slot : occupied(s) =>
        /\ interrupted[s] => father[s] \notin {0, 1}
        /\ state[s] = "zombie" /\ exit_code[s] = 2 => interrupted[s]

(* What is in the foreground is a command of the shell, and it is the      *)
(* command that the shell waits for.                                       *)
Awaits(v) == v.pc = "s_waited" \/ (v.pc = "s_named" /\ v.how = "returned")
Foreground ==
    /\ foreground_pid <= next_pid
    /\ foreground_pid # 0 => \A t \in Slot :
          occupied(t) /\ pid[t] = foreground_pid => father[t] \notin {0, 1}
    /\ \A s \in Slot : live(s) /\ Awaits(view[s]) => foreground_pid = view[s].data.child

FilesOwned ==
    \A f \in temps : \E s \in Slot : live(s) /\ Role[s] = "driver" /\ f \in MayExist(view[s])

CancelKnown ==
    cancelled => /\ \E s \in Slot : live(s) /\ Role[s] = "driver"
                 /\ \A s \in Slot : live(s) /\ Role[s] = "driver" => interrupted[s]

NobodyYields == call.nr # "yield"

(* A fork that finds a slot finds a pid below the bound.                   *)
ForkBound == kpc = "perform" /\ call.nr = "fork" => next_pid < MaxPid \/ FreeSlots = {}

Order == InitStays /\ Chain /\ Turns /\ Roles
Safe  == Shielded /\ Marks /\ Foreground /\ FilesOwned /\ CancelKnown /\ NobodyYields /\ ForkBound
SInv  == IInv /\ ProgramsFit /\ Order /\ Safe

(***************************************************************************)
(* What the steps of the kernel do to the views.                           *)
(***************************************************************************)
Becomes(s, v) == view' = [view EXCEPT ![s] = v]

(* The parts of IInv that the lemmas below use.                            *)
Sound ==
    /\ TypeOK /\ active \in Slot
    /\ \A s \in Slot : live(s) /\ state[s] # "blocked" => pending[s] = NoCall
    /\ kpc \in {"user", "perform"} => live(active) /\ state[active] = "running"

(* The invariant of the process layer gives what the proofs below use of   *)
(* it: types, PIDs that differ, a child for every wait, and what the       *)
(* running process is.                                                     *)
LEMMA InvariantIsSound == IInv => Sound
BY DEF IInv, Sound, TypeOK, SleepersHaveCalls, PassProgress, live, occupied

(* A view by its parts.                                                    *)
LEMMA ViewParts ==
    ASSUME NEW s \in Slot
    PROVE  /\ live(s) => /\ view[s] = ViewOf(s)
                         /\ view[s].pc = contexts[s].pc /\ view[s].r1 = contexts[s].r1
                         /\ view[s].data = ImageOf(s).data
                         /\ view[s].how = IF Trapped(s) THEN "trapped"
                                          ELSE IF state[s] = "blocked" THEN "blocked" ELSE "returned"
                         /\ view[s].call = IF Trapped(s) THEN call ELSE pending[s]
           /\ ~live(s) => view[s] = Gone
BY DEF view, ViewOf, View

(* A process that a step leaves alone looks the same after it.             *)
LEMMA ViewKept ==
    ASSUME NEW s \in Slot, state'[s] = state[s], contexts'[s] = contexts[s],
           live(s) => memory'[s] = memory[s],
           live(s) => pending'[s] = pending[s], ~Trapped(s), ~Trapped(s)'
    PROVE  view'[s] = view[s]
<1>1. live(s)' <=> live(s)
  BY DEF live
<1>2. CASE ~live(s)
  BY <1>1, <1>2 DEF view
<1>3. CASE live(s)
  <2>1. memory[s] = ImageOf(s) /\ memory'[s] = ImageOf(s)'
    BY <1>1, <1>3 DEF memory
  <2>2. ImageOf(s)' = ImageOf(s)
    BY <1>3, <2>1
  <2>3. ViewOf(s)' = ViewOf(s)
    BY <1>3, <2>2 DEF ViewOf
  <2> QED
    BY <1>1, <1>3, <2>3 DEF view
<1> QED
  BY <1>2, <1>3

(* One process changes.                                                    *)
LEMMA OneChanges ==
    ASSUME NEW s \in Slot, \A t \in Slot : t # s => view'[t] = view[t], NEW v, view'[s] = v
    PROVE  Becomes(s, v)
<1>1. view = [t \in Slot |-> view[t]] /\ view' = [t \in Slot |-> view'[t]]
  BY DEF view
<1> QED
  BY <1>1 DEF Becomes

(* Passes between calls change nobody.                                     *)
LEMMA NoneChange ==
    ASSUME \A t \in Slot : view'[t] = view[t]
    PROVE  view' = view
<1>1. view = [t \in Slot |-> view[t]] /\ view' = [t \in Slot |-> view'[t]]
  BY DEF view
<1> QED
  BY <1>1

(* An interrupt of a user program (syscall3 of the user library) changes   *)
(* the view of the running process only: it is now in the call, with the   *)
(* locals and the point the program left.                                  *)
LEMMA TrapView ==
    ASSUME Sound, NEW c, NEW d, NEW p, NEW k, UserTrap(c, d, p, k)
    PROVE  /\ view[active].how = "returned"
           /\ Becomes(active, View(p, view[active].r1, d, "trapped", c))
<1>0. PICK a \in Slot : a = active
  BY DEF Sound
<1>1. /\ kpc = "user" /\ kpc' = "perform" /\ call' = c /\ live(a)
      /\ state[a] = "running"
      /\ UNCHANGED <<state, pending, active, snap>>
      /\ contexts' = [contexts EXCEPT ![a].pc = p]
      /\ window' = [window EXCEPT !.data = d]
      /\ contexts \in [Slot -> Context] /\ window \in Image
  BY <1>0 DEF UserTrap, Sound, taskVars, TypeOK
<1>2. ASSUME NEW s \in Slot, s # a PROVE view'[s] = view[s]
  <2>1. memory'[s] = memory[s]
    BY <1>0, <1>1, <1>2 DEF memory, live, ImageOf
  <2> QED
    BY <1>0, <1>1, <1>2, <2>1, ViewKept DEF Trapped
<1>3. live(a)' /\ Trapped(a)' /\ ~Trapped(a)
  BY <1>0, <1>1 DEF live, Trapped
<1>4. contexts'[a].pc = p /\ contexts'[a].r1 = contexts[a].r1
  BY <1>1 DEF Context
<1>5. ImageOf(a)'.data = d
  BY <1>0, <1>1 DEF ImageOf, Image
<1>6. view'[a] = View(p, view[a].r1, d, "trapped", c)
  <2>1. view[a].r1 = contexts[a].r1
    BY <1>1, ViewParts
  <2>2. view'[a] = ViewOf(a)'
    BY <1>1, <1>3 DEF view
  <2> QED
    BY <1>1, <1>3, <1>4, <1>5, <2>1, <2>2 DEF ViewOf
<1>7. view[a].how = "returned"
  BY <1>1, <1>3, ViewParts
<1> QED
  BY <1>0, <1>2, <1>6, <1>7, OneChanges

(* A call that returns, whatever it did besides.                           *)
LEMMA ReturnView ==
    ASSUME Sound, kpc = "perform", NEW r, Return(r), UNCHANGED <<state, pending, memVars>>
    PROVE  Becomes(active, View(view[active].pc, r, view[active].data, "returned", NoCall))
<1>0. PICK a \in Slot : a = active
  BY DEF Sound
<1>1. /\ kpc' = "cancel" /\ live(a) /\ state[a] = "running" /\ pending[a] = NoCall
      /\ UNCHANGED <<state, pending, active, snap, window>>
      /\ contexts' = [contexts EXCEPT ![a].r1 = r]
      /\ contexts \in [Slot -> Context]
  BY <1>0 DEF Return, Sound, memVars, TypeOK
<1>2. ASSUME NEW s \in Slot, s # a PROVE view'[s] = view[s]
  <2>1. memory'[s] = memory[s]
    BY <1>1 DEF memory, live, ImageOf
  <2> QED
    BY <1>0, <1>1, <1>2, <2>1, ViewKept DEF Trapped
<1>3. live(a)' /\ ~Trapped(a)' /\ ImageOf(a)' = ImageOf(a)
  BY <1>1 DEF live, Trapped, ImageOf
<1>4. contexts'[a].pc = contexts[a].pc /\ contexts'[a].r1 = r
  BY <1>1 DEF Context
<1>5. view'[a] = View(view[a].pc, r, view[a].data, "returned", NoCall)
  <2>1. view[a].pc = contexts[a].pc /\ view[a].data = ImageOf(a).data
    BY <1>1, ViewParts
  <2>2. view'[a] = ViewOf(a)'
    BY <1>1, <1>3 DEF view
  <2> QED
    BY <1>1, <1>3, <1>4, <2>1, <2>2 DEF ViewOf
<1> QED
  BY <1>0, <1>2, <1>5, OneChanges

(* A call that has to wait.                                                *)
LEMMA BlockView ==
    ASSUME Sound, kpc = "perform", Block, UNCHANGED memVars
    PROVE  Becomes(active, View(view[active].pc, view[active].r1, view[active].data, "blocked", call))
<1>0. PICK a \in Slot : a = active
  BY DEF Sound
<1>1. /\ kpc' = "cancel" /\ live(a)
      /\ UNCHANGED <<contexts, active, snap, window>>
      /\ state' = [state EXCEPT ![a] = "blocked"] /\ pending' = [pending EXCEPT ![a] = call]
      /\ state \in [Slot -> States] /\ pending \in [Slot -> Calls \cup {NoCall}]
  BY <1>0 DEF Block, Sound, memVars, TypeOK
<1>2. ASSUME NEW s \in Slot, s # a PROVE view'[s] = view[s]
  <2>1. memory'[s] = memory[s] /\ state'[s] = state[s] /\ pending'[s] = pending[s]
    BY <1>1, <1>2 DEF memory, live, ImageOf
  <2> QED
    BY <1>0, <1>1, <1>2, <2>1, ViewKept DEF Trapped
<1>3. live(a)' /\ state'[a] = "blocked" /\ pending'[a] = call /\ ~Trapped(a)'
      /\ ImageOf(a)' = ImageOf(a)
  BY <1>1 DEF live, Trapped, ImageOf
<1>5. view'[a] = View(view[a].pc, view[a].r1, view[a].data, "blocked", call)
  <2>1. /\ view[a].pc = contexts[a].pc /\ view[a].data = ImageOf(a).data
        /\ view[a].r1 = contexts[a].r1
    BY <1>1, ViewParts
  <2>2. view'[a] = ViewOf(a)'
    BY <1>1, <1>3 DEF view
  <2> QED
    BY <1>1, <1>3, <2>1, <2>2 DEF ViewOf
<1> QED
  BY <1>0, <1>2, <1>5, OneChanges

(* A process that ends, by its own call or by a mark.                      *)
LEMMA DeathView ==
    ASSUME Sound, NEW s \in Slot, live(s), NEW code, exit_current(s, code),
           active' = s, snap' = Saved(s), kpc' = "cancel",
           \A t \in Slot : t # s => ~Trapped(t),
           \A t \in Slot : t # s => contexts'[t] = contexts[t] /\ pending'[t] = pending[t]
    PROVE  Becomes(s, Gone)
<1>1. state' = [state EXCEPT ![s] = "zombie"] /\ state \in [Slot -> States]
  BY DEF exit_current, Sound, TypeOK
<1>2. ASSUME NEW t \in Slot, t # s PROVE view'[t] = view[t]
  <2>1. state'[t] = state[t] /\ (live(t)' <=> live(t))
    BY <1>1, <1>2 DEF live
  <2>2. memory'[t] = memory[t]
    BY <1>2, <2>1, OthersKept DEF Sound
  <2> QED
    BY <1>2, <2>1, <2>2, ViewKept DEF Trapped
<1>3. view'[s] = Gone
  BY <1>1 DEF view, live
<1> QED
  BY <1>2, <1>3, OneChanges

(* fork: the caller gets the new pid, the new process its father's image.  *)
LEMMA ForkView ==
    ASSUME Sound, fork_current
    PROVE  \E n \in Slot :
              /\ state[n] = "free" /\ n # active
              /\ pid' = [pid EXCEPT ![n] = next_pid + 1]
              /\ father' = [father EXCEPT ![n] = pid[active]]
              /\ state' = [state EXCEPT ![n] = "running"]
              /\ exit_code' = [exit_code EXCEPT ![n] = 0]
              /\ interrupted' = [interrupted EXCEPT ![n] = FALSE]
              /\ deferred' = [deferred EXCEPT ![n] = FALSE]
              /\ next_pid' = next_pid + 1
              /\ \A t \in Slot : t # n /\ t # active => view'[t] = view[t]
              /\ view'[active] = View(view[active].pc, next_pid + 1, view[active].data, "returned", NoCall)
              /\ view'[n] = View(view[active].pc, 0, view[active].data, "returned", NoCall)
<1>0. PICK a \in Slot : a = active
  BY DEF Sound
<1>1. PICK n \in Slot : n = FirstOf(FreeSlots) /\ ~occupied(n)
  BY FirstOfIsFirst DEF fork_current, FreeSlots
<1>2. /\ pid' = [pid EXCEPT ![n] = next_pid + 1] /\ father' = [father EXCEPT ![n] = pid[a]]
      /\ state' = [state EXCEPT ![n] = "running"] /\ exit_code' = [exit_code EXCEPT ![n] = 0]
      /\ contexts' = [contexts EXCEPT ![n] = [pc |-> contexts[a].pc, r1 |-> 0],
                                      ![a].r1 = next_pid + 1]
      /\ snap' = [snap EXCEPT ![n] = window] /\ pending' = [pending EXCEPT ![n] = NoCall]
      /\ interrupted' = [interrupted EXCEPT ![n] = FALSE]
      /\ deferred' = [deferred EXCEPT ![n] = FALSE]
      /\ next_pid' = next_pid + 1 /\ kpc' = "cancel" /\ kpc = "perform"
      /\ UNCHANGED <<active, window>>
  BY <1>0, <1>1 DEF fork_current, Cleared, NewPid, Performs
<1>3. /\ live(a) /\ a # n /\ state[n] = "free" /\ pending[a] = NoCall
      /\ state \in [Slot -> States] /\ contexts \in [Slot -> Context]
      /\ pending \in [Slot -> Calls \cup {NoCall}] /\ snap \in [Slot -> Image]
  BY <1>0, <1>1, <1>2 DEF Sound, live, occupied, TypeOK
<1>4. ASSUME NEW t \in Slot, t # n, t # a PROVE view'[t] = view[t]
  <2>1. /\ state'[t] = state[t] /\ pending'[t] = pending[t] /\ snap'[t] = snap[t]
        /\ contexts'[t] = contexts[t]
    BY <1>2, <1>3, <1>4
  <2>2. memory'[t] = memory[t]
    BY <1>0, <1>2, <1>4, <2>1 DEF memory, live, ImageOf
  <2> QED
    BY <1>0, <1>2, <1>4, <2>1, <2>2, ViewKept DEF Trapped
<1>5. /\ state'[a] = state[a] /\ state[a] = "running" /\ pending'[a] = NoCall
      /\ contexts'[a].pc = contexts[a].pc /\ contexts'[a].r1 = next_pid + 1
      /\ contexts'[n] = [pc |-> contexts[a].pc, r1 |-> 0]
      /\ state'[n] = "running" /\ pending'[n] = NoCall /\ snap'[n] = window
  BY <1>0, <1>2, <1>3 DEF Sound, Context
<1>6. /\ live(a)' /\ live(n)' /\ ~Trapped(a)' /\ ~Trapped(n)'
      /\ ImageOf(a)' = ImageOf(a) /\ ImageOf(n)' = ImageOf(a)
  BY <1>0, <1>2, <1>3, <1>5 DEF live, Trapped, ImageOf
<1>7. view[a].pc = contexts[a].pc /\ view[a].data = ImageOf(a).data
  BY <1>3, ViewParts
<1>8. view'[a] = View(view[a].pc, next_pid + 1, view[a].data, "returned", NoCall)
  <2>1. view'[a] = ViewOf(a)'
    BY <1>6 DEF view
  <2> QED
    BY <1>5, <1>6, <1>7, <2>1 DEF ViewOf
<1>9. view'[n] = View(view[a].pc, 0, view[a].data, "returned", NoCall)
  <2>1. view'[n] = ViewOf(n)'
    BY <1>6 DEF view
  <2>2. contexts'[n].pc = contexts[a].pc /\ contexts'[n].r1 = 0
    BY <1>5
  <2> QED
    BY <1>5, <1>6, <1>7, <2>1, <2>2 DEF ViewOf
<1> QED
  BY <1>0, <1>2, <1>3, <1>4, <1>8, <1>9

(* exec that loads a program.                                              *)
LEMMA LoadView ==
    ASSUME Sound, kpc = "perform", NEW e,
           window' = [status |-> 0, data |-> Fresh],
           contexts' = [contexts EXCEPT ![active] = [pc |-> e, r1 |-> 0]],
           kpc' = "cancel", UNCHANGED <<state, pending, active, snap>>
    PROVE  Becomes(active, View(e, 0, Fresh, "returned", NoCall))
<1>0. PICK a \in Slot : a = active
  BY DEF Sound
<1>1. live(a) /\ state[a] = "running" /\ pending[a] = NoCall /\ contexts \in [Slot -> Context]
  BY <1>0 DEF Sound, TypeOK
<1>2. ASSUME NEW s \in Slot, s # a PROVE view'[s] = view[s]
  <2>1. memory'[s] = memory[s] /\ contexts'[s] = contexts[s]
    BY <1>0, <1>1, <1>2 DEF memory, live, ImageOf
  <2> QED
    BY <1>0, <1>2, <2>1, ViewKept DEF Trapped
<1>3. /\ live(a)' /\ ~Trapped(a)' /\ ImageOf(a)'.data = Fresh
      /\ contexts'[a].pc = e /\ contexts'[a].r1 = 0
  BY <1>0, <1>1 DEF live, Trapped, ImageOf
<1>4. view'[a] = View(e, 0, Fresh, "returned", NoCall)
  <2>1. view'[a] = ViewOf(a)'
    BY <1>3 DEF view
  <2> QED
    BY <1>0, <1>1, <1>3, <2>1 DEF ViewOf
<1> QED
  BY <1>0, <1>2, <1>4, OneChanges

(* A process whose call ends with result r: at once, or when it is retried.*)
LEMMA WakeView ==
    ASSUME Sound, NEW s \in Slot, live(s), NEW r,
           active' = s, snap' = Saved(s), window'.data = ImageOf(s).data,
           contexts' = [contexts EXCEPT ![s].r1 = r],
           state'[s] = "running", pending'[s] = NoCall, kpc' # "perform",
           \A t \in Slot : t # s => ~Trapped(t),
           \A t \in Slot : t # s => \/ state'[t] = state[t] /\ pending'[t] = pending[t]
                                    \/ ~live(t) /\ ~live(t)'
    PROVE  Becomes(s, View(view[s].pc, r, view[s].data, "returned", NoCall))
<1>1. contexts \in [Slot -> Context] /\ TypeOK
  BY DEF Sound, TypeOK
<1>2. ASSUME NEW t \in Slot, t # s PROVE view'[t] = view[t]
  <2>1. CASE ~live(t) /\ ~live(t)'
    BY <2>1 DEF view
  <2>2. CASE state'[t] = state[t] /\ pending'[t] = pending[t]
    <3>1. (live(t)' <=> live(t)) /\ contexts'[t] = contexts[t]
      BY <1>1, <1>2, <2>2 DEF live
    <3>2. memory'[t] = memory[t]
      BY <1>1, <1>2, <3>1, OthersKept
    <3> QED
      BY <1>2, <2>2, <3>1, <3>2, ViewKept DEF Trapped
  <2> QED
    BY <1>2, <2>1, <2>2
<1>3. /\ live(s)' /\ ~Trapped(s)' /\ ImageOf(s)'.data = ImageOf(s).data
      /\ contexts'[s].pc = contexts[s].pc /\ contexts'[s].r1 = r
  BY <1>1 DEF live, Trapped, ImageOf, Context
<1>4. view'[s] = View(view[s].pc, r, view[s].data, "returned", NoCall)
  <2>1. view'[s] = ViewOf(s)'
    BY <1>3 DEF view
  <2>2. view[s].pc = contexts[s].pc /\ view[s].data = ImageOf(s).data
    BY ViewParts
  <2> QED
    BY <1>3, <2>1, <2>2 DEF ViewOf
<1> QED
  BY <1>2, <1>4, OneChanges

(* The phases that change no process.                                      *)
LEMMA QuietView ==
    ASSUME Sound, CancelDone \/ RetryDone \/ Choose \/ \E k \in Keys : Idle(k)
    PROVE  view' = view
<1>1. /\ UNCHANGED <<state, contexts, pending>> /\ kpc # "perform" /\ kpc' # "perform"
  BY DEF CancelDone, RetryDone, Choose, Idle, taskVars
<1>2. ASSUME NEW t \in Slot, live(t) PROVE memory'[t] = memory[t]
  <2>1. CASE UNCHANGED memVars
    BY <1>1, <2>1 DEF memVars, memory, live, ImageOf
  <2>2. CASE Choose
    <3>1. PICK s \in Slot : s = Chosen
      BY <2>2, ChosenIsRunnable DEF Choose, Runnable, Sound
    <3>2. active' = s /\ snap' = Saved(s) /\ window' = ImageOf(s)
      BY <2>2, <3>1 DEF Choose, activate
    <3>3. CASE t = s
      BY <1>1, <3>2, <3>3 DEF memory, ImageOf, live
    <3>4. CASE t # s
      BY <1>1, <3>2, <3>4, OthersKept DEF Sound, live
    <3> QED
      BY <3>3, <3>4
  <2> QED
    BY <2>1, <2>2 DEF CancelDone, RetryDone, Idle
<1>3. \A t \in Slot : view'[t] = view[t]
  BY <1>1, <1>2, ViewKept DEF Trapped
<1> QED
  BY <1>3, NoneChange

(***************************************************************************)
(* The programs, one trap at a time.                                       *)
(***************************************************************************)
(* The end of a sequence from a position on.                               *)
LEMMA Suffix ==
    ASSUME NEW l \in Seq(Command), NEW i \in 1..Len(l)
    PROVE  /\ SubSeq(l, i, Len(l)) \in Seq(Command) /\ SubSeq(l, i, Len(l)) # <<>>
           /\ Len(SubSeq(l, i, Len(l))) = Len(l) - i + 1
<1>1. Len(l) \in Nat /\ \A j \in i..Len(l) : l[j] \in Command
  <2>1. Len(l) \in Nat
    BY LenProperties
  <2>2. ASSUME NEW j \in i..Len(l) PROVE l[j] \in Command
    <3>1. j \in 1..Len(l)
      BY <2>1
    <3> QED
      BY <3>1, ElementOfSeq
  <2> QED
    BY <2>1, <2>2
<1>2. /\ SubSeq(l, i, Len(l)) \in Seq(Command)
      /\ Len(SubSeq(l, i, Len(l))) = IF i <= Len(l) THEN Len(l) - i + 1 ELSE 0
  BY <1>1, SubSeqProperties
<1>3. Len(SubSeq(l, i, Len(l))) = Len(l) - i + 1
  BY <1>1, <1>2
<1>4. Len(SubSeq(l, i, Len(l))) # 0
  BY <1>1, <1>3
<1> QED
  BY <1>2, <1>3, <1>4, EmptySeq

(* What is left of what is left of a list is left of the list.             *)
LEMMA RemaindersClosed ==
    /\ Remainders \subseteq Seq(Command) /\ <<>> \in Remainders /\ Lists \subseteq Remainders
    /\ \A l \in Remainders : \A i \in 1..Len(l) : SubSeq(l, i, Len(l)) \in Remainders \ {<<>>}
    /\ \A l \in Remainders \ {<<>>} : Tail(l) \in Remainders
<1>1. Lists \subseteq Seq(Command)
  BY SessionAssumption
<1>2. \A l \in Lists : \A i \in 1..Len(l) : SubSeq(l, i, Len(l)) \in Seq(Command)
  BY <1>1, Suffix
<1>3. Remainders \subseteq Seq(Command) /\ <<>> \in Remainders
  <2>1. <<>> \in Seq(Command)
    BY EmptySeq
  <2>2. ASSUME NEW x \in Remainders, x # <<>> PROVE x \in Seq(Command)
    <3>1. PICK S \in {{SubSeq(l, i, Len(l)) : i \in 1..Len(l)} : l \in Lists} : x \in S
      BY <2>2 DEF Remainders
    <3>2. PICK l \in Lists : S = {SubSeq(l, i, Len(l)) : i \in 1..Len(l)}
      BY <3>1
    <3> QED
      BY <1>2, <3>1, <3>2
  <2> QED
    BY <2>1, <2>2 DEF Remainders
<1>4. ASSUME NEW l \in Lists, NEW i \in 1..Len(l) PROVE SubSeq(l, i, Len(l)) \in Remainders
  <2>1. SubSeq(l, i, Len(l)) \in {SubSeq(l, j, Len(l)) : j \in 1..Len(l)}
    OBVIOUS
  <2> QED
    BY <2>1 DEF Remainders
<1>5. ASSUME NEW l \in Lists PROVE l \in Remainders
  <2>1. l \in Seq(Command) /\ Len(l) \in Nat
    BY <1>1, LenProperties
  <2>2. CASE l = <<>>
    BY <1>3, <2>2
  <2>3. CASE l # <<>>
    <3>1. Len(l) # 0
      BY <2>1, <2>3, EmptySeq
    <3>2. 1 \in 1..Len(l)
      BY <2>1, <3>1
    <3>3. SubSeq(l, 1, Len(l)) = l
      BY <2>1, SubSeqFull
    <3> QED
      BY <1>4, <3>2, <3>3
  <2> QED
    BY <2>2, <2>3
<1>6. ASSUME NEW l \in Remainders, NEW i \in 1..Len(l)
      PROVE  SubSeq(l, i, Len(l)) \in Remainders \ {<<>>}
  <2>0. l \in Seq(Command) /\ Len(l) \in Nat
    BY <1>3, LenProperties
  <2>1. l # <<>>
    <3>1. Len(l) # 0
      BY <2>0
    <3> QED
      BY <3>1, EmptySeq
  <2>2. PICK m \in Lists : \E h \in 1..Len(m) : l = SubSeq(m, h, Len(m))
    BY <2>1, Zenon DEF Remainders
  <2>3. m \in Seq(Command) /\ Len(m) \in Nat
    BY <1>1, LenProperties
  <2>4. PICK h \in 1..Len(m) : l = SubSeq(m, h, Len(m))
    BY <2>2
  <2>5. Len(l) = Len(m) - h + 1
    BY <2>3, <2>4, Suffix
  <2>6. h \in 1..Len(m) /\ Len(m) \in 1..Len(m) /\ i \in 1..(Len(m) - h + 1)
        /\ Len(l) \in 1..(Len(m) - h + 1) /\ h + i - 1 \in 1..Len(m)
        /\ h + Len(l) - 1 = Len(m)
    BY <2>0, <2>3, <2>5
  <2>7. SubSeq(SubSeq(m, h, Len(m)), i, Len(l)) = SubSeq(m, h + i - 1, h + Len(l) - 1)
    BY <2>3, <2>6, SubSeqOfSubSeq
  <2>8. SubSeq(l, i, Len(l)) = SubSeq(m, h + i - 1, Len(m))
    BY <2>4, <2>6, <2>7
  <2>9. SubSeq(l, i, Len(l)) # <<>>
    BY <2>0, Suffix
  <2> QED
    BY <1>4, <2>6, <2>8, <2>9
<1>7. ASSUME NEW l \in Remainders \ {<<>>} PROVE Tail(l) \in Remainders
  <2>1. l \in Seq(Command) /\ l # <<>> /\ Len(l) \in Nat
    BY <1>3, LenProperties
  <2>2. Tail(l) = SubSeq(l, 2, Len(l)) /\ Len(l) # 0
    BY <2>1, TailIsSubSeq, EmptySeq
  <2>3. CASE Len(l) = 1
    <3>1. SubSeq(l, 2, Len(l)) = <<>>
      BY <2>3, SubSeqEmpty
    <3> QED
      BY <1>3, <2>2, <3>1
  <2>4. CASE Len(l) # 1
    <3>1. 2 \in 1..Len(l)
      BY <2>1, <2>2, <2>4
    <3> QED
      BY <1>6, <2>2, <3>1
  <2> QED
    BY <2>3, <2>4
<1> QED
  BY <1>3, <1>5, <1>6, <1>7

(* next_command of sh.c returns an index of the rest of the list, or that  *)
(* there is none.                                                          *)
LEMMA Selected ==
    ASSUME NEW list \in Seq(Command), NEW last
    PROVE  FirstToRun(list, last) \in 0..Len(list)
<1> DEFINE I == {i \in 1..Len(list) : Runs(list[i], last)}
<1>0. Len(list) \in Nat
  BY LenProperties
<1>1. CASE I = {}
  BY <1>0, <1>1 DEF SelectInSeq, FirstToRun
<1>2. CASE I # {}
  <2>1. \E i \in I : \A j \in I : i <= j
    <3>1. I \subseteq Nat
      BY <1>0
    <3> QED
      BY <1>2, <3>1, LeastNatural
  <2>2. Min(I) \in I
    BY <2>1, Zenon DEF Min
  <2> QED
    BY <1>0, <1>2, <2>2 DEF SelectInSeq, FirstToRun
<1> QED
  BY <1>1, <1>2

(* What a trap keeps of a process.                                         *)
Advances(v, w) ==
    /\ Fits(w) /\ w.call \in AllCalls
    /\ ChildOf(w) = ChildOf(v) /\ RoleOf(w) = RoleOf(v)
    /\ RoleOf(v) = "driver" => MayExist(v) \subseteq MayExist(w)
    /\ Unshielded(v) => Unshielded(w)
    /\ Awaits(w) => Awaits(v) /\ w.data.child = v.data.child
Goes(v, t) == Advances(v, View(t.point, v.r1, t.data, "trapped", t.call))

(* The process about to make a trap.                                       *)
Here(v) ==
    /\ v.pc = at /\ v.r1 = r1 /\ v.data = my /\ v.how = "returned" /\ Fits(v)
    /\ window.status \in Nat

(* The calls that programs make.                                           *)
LEMMA CallsAre ==
    /\ \A a \in 0..255 : Sys("exit", a, 0, 0) \in AllCalls
    /\ \A a \in 0..MaxPid : Sys("fg", a, 0, 0) \in AllCalls
    /\ \A a \in -1..MaxPid : Sys("wait", a, 1, 0) \in AllCalls
    /\ \A a \in 1..4 : Sys("exec", a, 0, 0) \in AllCalls
    /\ \A a \in 0..1 : Sys("defer", a, 0, 0) \in AllCalls
    /\ \A a \in 0..2 : Sys("other", a, 0, 0) \in AllCalls
    /\ Sys("fork", 0, 0, 0) \in AllCalls /\ Sys("read", 0, 0, 255) \in AllCalls
    /\ Sys("cancelled", 0, 0, 0) \in AllCalls /\ Sys("rename", 0, 0, 0) \in AllCalls
BY DEF AllCalls

(* What the locals may hold, and what their updates leave.                 *)
LEMMA LocalsParts ==
    ASSUME NEW d \in AllLocals
    PROVE  /\ d.list \in Remainders /\ d.last \in 0..255 /\ d.child \in 0..MaxPid
           /\ d.k \in 1..(Stages + 1) /\ d.result \in {0, 1}
BY DEF AllLocals

WithChild(d, c) == [d EXCEPT !.child = c]
WithLast(d, n) == [d EXCEPT !.last = n]
WithK(d, n) == [d EXCEPT !.k = n]
WithResult(d, m) == [d EXCEPT !.result = m]
WithKResult(d, n, m) == [d EXCEPT !.k = n, !.result = m]
WithList(d, l, n) == [d EXCEPT !.list = l, !.last = n]

(* Storing the PID that fork returned keeps the locals in their type and   *)
(* changes no other.                                                       *)
LEMMA SetChild ==
    ASSUME NEW d \in AllLocals, NEW c \in 0..MaxPid
    PROVE  /\ WithChild(d, c) \in AllLocals
           /\ WithChild(d, c).child = c /\ WithChild(d, c).list = d.list /\ WithChild(d, c).k = d.k
BY DEF AllLocals, WithChild

(* Storing a status of waitpid as the shell's last status keeps the locals *)
(* in their type.                                                          *)
LEMMA SetLast ==
    ASSUME NEW d \in AllLocals, NEW n \in 0..255
    PROVE  /\ WithLast(d, n) \in AllLocals
           /\ WithLast(d, n).list = d.list
BY DEF AllLocals, WithLast

(* Advancing the compiler driver's loop counter keeps the locals in their  *)
(* type.                                                                   *)
LEMMA SetK ==
    ASSUME NEW d \in AllLocals, NEW n \in 1..(Stages + 1)
    PROVE  /\ WithK(d, n) \in AllLocals
           /\ WithK(d, n).k = n
BY DEF AllLocals, WithK

(* Storing the compiler driver's result keeps the locals in their type.    *)
LEMMA SetResult ==
    ASSUME NEW d \in AllLocals, NEW m \in {0, 1}
    PROVE  /\ WithResult(d, m) \in AllLocals
           /\ WithResult(d, m).k = d.k
BY DEF AllLocals, WithResult

(* Storing the driver's result and restarting its counter (the unlink loop)*)
(* keeps the type.                                                         *)
LEMMA SetKResult ==
    ASSUME NEW d \in AllLocals, NEW n \in 1..(Stages + 1), NEW m \in {0, 1}
    PROVE  /\ WithKResult(d, n, m) \in AllLocals
           /\ WithKResult(d, n, m).k = n
BY DEF AllLocals, WithKResult

(* Dropping the commands run from the shell's list, with a new status,     *)
(* keeps the type.                                                         *)
LEMMA SetList ==
    ASSUME NEW d \in AllLocals, NEW l \in Remainders, NEW n \in 0..255
    PROVE  /\ WithList(d, l, n) \in AllLocals
           /\ WithList(d, l, n).list = l
BY DEF AllLocals, WithList

(* Every trap of the process of init (start shell, wait for it, the child's*)
(* exec) advances its view.                                                *)
LEMMA InitTraps ==
    ASSUME NEW v, Here(v), NEW t \in InitProgram
    PROVE  Goes(v, t)
<1>a. /\ my \in AllLocals /\ r1 \in Int
      /\ at = "i_forked" => r1 <= MaxPid
  BY DEF Here, Fits, LocalsFit, ForkPoints
<1> USE DEF Goes, Advances, View, Fits, LocalsFit, ListPoints, ForkPoints, WaitPoints,
            InitPoints, ShellPoints, LatePoints, Points, DriverPoints, Reaches, AllCalls, ChildOf,
            RoleOf, Newborn, Execs, MayExist, Unshielded, Awaits
<1>0. /\ my \in AllLocals /\ r1 \in Int /\ v.pc = at /\ v.r1 = r1 /\ v.data = my
      /\ v.how = "returned" /\ MaxPid \in Nat
  BY <1>a, ConstantsAssumption DEF Here
<1>1. CASE at = "init" \/ (at = "i_waited" /\ r1 = my.child)
  <2>1. t = [call |-> Sys("fork", 0, 0, 0), data |-> my, point |-> "i_forked"]
    BY <1>1 DEF InitProgram, To
  <2> QED
    BY <1>0, <1>1, <2>1
<1>2. CASE at = "i_forked" /\ r1 = 0
  <2>1. t = [call |-> Sys("exec", 1, 0, 0), data |-> my, point |-> "no_exec"]
    BY <1>2 DEF InitProgram, To
  <2> QED
    BY <1>0, <1>2, <2>1 DEF Sys
<1>3. CASE at = "i_forked" /\ r1 < 0
  <2>1. t = [call |-> Sys("exit", 1, 0, 0), data |-> my, point |-> "init"]
    BY <1>0, <1>3 DEF InitProgram, To
  <2> QED
    BY <1>0, <1>3, <2>1
<1>4. CASE at = "i_forked" /\ r1 > 0
  <2>1. t = [call |-> Sys("wait", -1, 1, 0), data |-> WithChild(my, r1),
             point |-> "i_waited"]
    BY <1>0, <1>4 DEF InitProgram, To, WithChild
  <2>2. r1 \in 0..MaxPid
    BY <1>0, <1>4, <1>a
  <2>3. PICK d \in AllLocals : d = WithChild(my, r1) /\ d.child = r1
    BY <1>a, <2>2, SetChild
  <2> DEFINE w == View("i_waited", r1, d, "trapped", Sys("wait", -1, 1, 0))
  <2>4. Fits(w) /\ w.call \in AllCalls
    BY <1>0, <1>4, <2>3
  <2>5. ChildOf(w) = ChildOf(v)
    BY <1>0, <1>4, <2>3
  <2>6. RoleOf(w) = RoleOf(v) /\ RoleOf(v) = "init"
    BY <1>0, <1>4
  <2>7. ~Unshielded(v) /\ ~Awaits(w)
    BY <1>0, <1>4
  <2> QED
    BY <1>0, <1>4, <2>1, <2>3, <2>4, <2>5, <2>6, <2>7
<1>5. CASE at = "no_exec"
  <2>1. t = [call |-> Sys("exit", 127, 0, 0), data |-> my, point |-> "no_exec"]
    BY <1>5 DEF InitProgram, To
  <2> QED
    BY <1>0, <1>5, <2>1 DEF Sys
<1>6. CASE at = "i_waited" /\ r1 # my.child
  BY <1>6 DEF Here
<1>7. CASE ~(at \in {"init", "i_forked", "i_waited", "no_exec"})
  BY <1>7 DEF InitProgram
<1>8. r1 = 0 \/ r1 < 0 \/ r1 > 0
  BY <1>a
<1> HIDE DEF Goes
<1> QED
  BY <1>1, <1>2, <1>3, <1>4, <1>5, <1>6, <1>7, <1>8

(* The shell at its prompt, and going on with a list.                      *)
LEMMA PromptTraps ==
    ASSUME NEW v, Here(v), at \in {"s_start", "s_line", "s_checked"}, NEW last \in 0..255,
           NEW t \in Prompt(last)
    PROVE  Goes(v, t)
<1>a. my \in AllLocals /\ r1 \in Int
  BY DEF Here, Fits, LocalsFit
<1>b. <<>> \in Remainders
  BY RemaindersClosed
<1>c. PICK d \in AllLocals : d = WithList(my, <<>>, last)
  BY <1>a, <1>b, SetList
<1>1. t = [call |-> Write, data |-> d, point |-> "s_prompt"]
  BY <1>c DEF Prompt, To, WithList
<1> QED
  BY <1>a, <1>1
     DEF Here, Write, Goes, Advances, View, Fits, LocalsFit, ListPoints, ForkPoints, WaitPoints,
         InitPoints, ShellPoints, LatePoints, Points, DriverPoints, Reaches, AllCalls, ChildOf,
         RoleOf, Newborn, Execs, MayExist, Unshielded, Awaits

(* The shell's query after a command that failed or was waited for advances*)
(* its view.                                                               *)
LEMMA CheckTraps ==
    ASSUME NEW v, Here(v), at \in {"s_line", "s_forked", "s_unnamed", "s_checked"},
           at = "s_forked" => r1 < 0,
           NEW d \in AllLocals, d.list # <<>>, NEW t \in CheckCancel(d)
    PROVE  Goes(v, t)
<1>a. my \in AllLocals /\ r1 \in Int
  BY DEF Here, Fits, LocalsFit
<1>1. t = [call |-> Sys("cancelled", 0, 0, 0), data |-> d, point |-> "s_checked"]
  BY DEF CheckCancel, To
<1> QED
  BY <1>a, <1>1
     DEF Here, Goes, Advances, View, Fits, LocalsFit, ListPoints, ForkPoints, WaitPoints,
         InitPoints, ShellPoints, LatePoints, Points, DriverPoints, Reaches, AllCalls, ChildOf,
         RoleOf, Newborn, Execs, MayExist, Unshielded, Awaits

(* The shell going on to the next command of its list, or to the prompt,   *)
(* advances its view.                                                      *)
LEMMA ContinueTraps ==
    ASSUME NEW v, Here(v), at \in {"s_line", "s_checked"}, NEW list \in Remainders,
           NEW last \in 0..255, NEW t \in Continue(list, last)
    PROVE  Goes(v, t)
<1> DEFINE i == FirstToRun(list, last)
           e == WithList(my, SubSeq(list, i, Len(list)), last)
<1>a. my \in AllLocals /\ r1 \in Int
  BY DEF Here, Fits, LocalsFit
<1>b. i \in 0..Len(list) /\ Len(list) \in Nat
  <2>1. list \in Seq(Command)
    BY RemaindersClosed
  <2>2. FirstToRun(list, last) \in 0..Len(list)
    BY <2>1, Selected
  <2> QED
    BY <2>1, <2>2, LenProperties
<1>1. t \in IF i = 0 THEN Prompt(last)
            ELSE IF list[i].name = "exit" THEN CheckCancel(e)
            ELSE To(Sys("fork", 0, 0, 0), e, "s_forked")
  BY DEF Continue, WithList
<1> HIDE DEF i
<1>2. CASE i = 0
  BY <1>1, <1>2, PromptTraps
<1>3. CASE i # 0
  <2>1. SubSeq(list, i, Len(list)) \in Remainders \ {<<>>}
    BY <1>b, <1>3, RemaindersClosed
  <2>2. PICK d \in AllLocals : /\ d = e
                              /\ d.list = SubSeq(list, i, Len(list))
    BY <1>a, <2>1, SetList
  <2>3. d.list # <<>>
    BY <2>1, <2>2
  <2>4. CASE list[i].name = "exit"
    <3>1. t \in CheckCancel(d)
      BY <1>1, <1>3, <2>2, <2>4
    <3> QED
      BY <2>3, <3>1, CheckTraps
  <2>5. CASE list[i].name # "exit"
    <3>1. t = [call |-> Sys("fork", 0, 0, 0), data |-> d, point |-> "s_forked"]
      BY <1>1, <1>3, <2>2, <2>5 DEF To
    <3> HIDE DEF e
    <3> QED
      BY <1>a, <2>3, <3>1
         DEF Here, Goes, Advances, View, Fits, LocalsFit, ListPoints, ForkPoints, WaitPoints,
             InitPoints, ShellPoints, LatePoints, Points, DriverPoints, Reaches, AllCalls, ChildOf,
             RoleOf, Newborn, Execs, MayExist, Unshielded, Awaits
  <2> QED
    BY <2>4, <2>5
<1> QED
  BY <1>2, <1>3

(* The status that sh.c takes from a wait word is a byte.                  *)
LEMMA StatusFits ==
    ASSUME NEW w \in Nat
    PROVE  StatusOf(w) \in 0..255
BY DEF StatusOf

(* Every trap of sh.c advances the view of the shell: prompt, line, fork,  *)
(* the terminal handed to the child and taken back, wait, query, exit.     *)
LEMMA ShTraps ==
    ASSUME NEW v, Here(v), NEW t \in ShProgram
    PROVE  Goes(v, t)
<1>a. /\ my \in AllLocals /\ r1 \in Int /\ MaxPid \in Nat
      /\ at = "s_forked" => r1 <= MaxPid
      /\ at \in ListPoints => my.list # <<>>
      /\ at = "s_named" => my.child > 0
      /\ my.last \in 0..255 /\ my.child \in 0..MaxPid /\ my.list \in Remainders
      /\ window.status \in Nat
  BY ConstantsAssumption, LocalsParts DEF Here, Fits, LocalsFit, ForkPoints, WaitPoints
<1>1. CASE at = "sh"
  <2>1. t = [call |-> Sys("fg", 0, 0, 0), data |-> my, point |-> "s_start"]
    BY <1>1 DEF ShProgram, To
  <2> QED
    BY <1>a, <1>1, <2>1
       DEF Here, Goes, Advances, View, Fits, LocalsFit, ListPoints, ForkPoints, WaitPoints,
           InitPoints, ShellPoints, LatePoints, Points, DriverPoints, Reaches, AllCalls, ChildOf,
           RoleOf, Newborn, Execs, MayExist, Unshielded, Awaits
<1>2. CASE at = "s_start" \/ (at = "s_line" /\ r1 < 0)
  <2>1. t \in Prompt(0) \/ t \in Prompt(130)
    BY <1>a, <1>2 DEF ShProgram
  <2> QED
    BY <1>2, <2>1, PromptTraps
<1>3. CASE at = "s_prompt"
  <2>1. t = [call |-> Sys("read", 0, 0, 255), data |-> my, point |-> "s_line"]
    BY <1>3 DEF ShProgram, To
  <2> QED
    BY <1>a, <1>3, <2>1
       DEF Here, Goes, Advances, View, Fits, LocalsFit, ListPoints, ForkPoints, WaitPoints,
           InitPoints, ShellPoints, LatePoints, Points, DriverPoints, Reaches, AllCalls, ChildOf,
           RoleOf, Newborn, Execs, MayExist, Unshielded, Awaits
<1>4. CASE at = "s_line" /\ r1 > 0
  <2>1. PICK l \in Lists : t \in Continue(l, my.last)
    BY <1>a, <1>4 DEF ShProgram
  <2>2. l \in Remainders
    BY RemaindersClosed
  <2> QED
    BY <1>a, <1>4, <2>1, <2>2, ContinueTraps
<1>5. CASE at = "s_forked" /\ r1 = 0
  <2>1. PICK a \in {2, 3} :
            t = [call |-> Sys("exec", a, 0, 0), data |-> my, point |-> "no_exec"]
    BY <1>5 DEF ShProgram, To
  <2>2. a \in 1..4
    OBVIOUS
  <2> DEFINE w == View("no_exec", r1, my, "trapped", Sys("exec", a, 0, 0))
  <2>s0. /\ w.pc = "no_exec" /\ w.r1 = r1 /\ w.data = my /\ w.how = "trapped"
         /\ w.call = Sys("exec", a, 0, 0)
    BY DEF View
  <2>s5. View(t.point, v.r1, t.data, "trapped", t.call) = w
    BY <1>a, <1>5, <2>1, <2>2 DEF Here
  <2> HIDE DEF w
  <2>s6. Reaches(w.pc, w.data, w.call)
    BY <1>a, <1>5, <2>1, <2>2, <2>s0 DEF Reaches, ForkPoints
  <2>s7. w.call \in AllCalls
    BY <1>a, <1>5, <2>1, <2>2, <2>s0, CallsAre
  <2>s1. Fits(w)
    BY <1>a, <1>5, <2>1, <2>2, <2>s0, <2>s6
       DEF Fits, LocalsFit, ListPoints, WaitPoints, LatePoints, Points, DriverPoints
  <2>s2. ChildOf(w) = ChildOf(v)
    BY <1>a, <1>5, <2>1, <2>2, <2>s0 DEF Here, ChildOf, ForkPoints, WaitPoints
  <2>s3. RoleOf(w) = RoleOf(v) /\ RoleOf(v) # "driver"
    BY <1>a, <1>5, <2>1, <2>2, <2>s0 DEF Here, RoleOf, InitPoints, ShellPoints, DriverPoints,
       ForkPoints,
           Newborn, Execs, Sys
  <2>s4. /\ Unshielded(v) => Unshielded(w)
         /\ Awaits(w) => Awaits(v) /\ w.data.child = v.data.child
    BY <1>a, <1>5, <2>1, <2>2, <2>s0 DEF Here, Unshielded, Awaits
  <2> QED
    BY <2>s1, <2>s2, <2>s3, <2>s4, <2>s5, <2>s7 DEF Goes, Advances
<1>6. CASE at = "s_forked" /\ r1 < 0
  <2>1. 1 \in 0..255 /\ t \in CheckCancel(WithLast(my, 1))
    BY <1>a, <1>6 DEF ShProgram, WithLast
  <2>2. PICK d \in AllLocals : d = WithLast(my, 1) /\ d.list = my.list
    BY <1>a, <2>1, SetLast
  <2>3. d.list # <<>> /\ t \in CheckCancel(d)
    BY <1>a, <1>6, <2>1, <2>2 DEF ListPoints
  <2> QED
    BY <1>6, <2>3, CheckTraps
<1>7. CASE at = "s_forked" /\ r1 > 0
  <2>1. t = [call |-> Sys("fg", r1, 0, 0), data |-> WithChild(my, r1),
             point |-> "s_named"]
    BY <1>a, <1>7 DEF ShProgram, To, WithChild
  <2>2. r1 \in 0..MaxPid
    BY <1>a, <1>7
  <2>3. PICK d \in AllLocals : d = WithChild(my, r1) /\ d.child = r1 /\ d.list = my.list
    BY <1>a, <2>2, SetChild
  <2>4. d.list # <<>> /\ t = [call |-> Sys("fg", r1, 0, 0), data |-> d, point |-> "s_named"]
    BY <1>a, <1>7, <2>1, <2>3 DEF ListPoints
  <2> DEFINE w == View("s_named", r1, d, "trapped", Sys("fg", r1, 0, 0))
  <2>s0. /\ w.pc = "s_named" /\ w.r1 = r1 /\ w.data = d /\ w.how = "trapped"
         /\ w.call = Sys("fg", r1, 0, 0)
    BY DEF View
  <2>s5. View(t.point, v.r1, t.data, "trapped", t.call) = w
    BY <1>a, <1>7, <2>2, <2>3, <2>4 DEF Here
  <2> HIDE DEF w
  <2>s6. Reaches(w.pc, w.data, w.call)
    BY <1>a, <1>7, <2>2, <2>3, <2>4, <2>s0 DEF Reaches, ForkPoints
  <2>s7. w.call \in AllCalls
    BY <1>a, <1>7, <2>2, <2>3, <2>4, <2>s0, CallsAre
  <2>s1. Fits(w)
    BY <1>a, <1>7, <2>2, <2>3, <2>4, <2>s0, <2>s6
       DEF Fits, LocalsFit, ListPoints, WaitPoints, LatePoints, Points, DriverPoints
  <2>s2. ChildOf(w) = ChildOf(v)
    BY <1>a, <1>7, <2>2, <2>3, <2>4, <2>s0 DEF Here, ChildOf, ForkPoints, WaitPoints
  <2>s3. RoleOf(w) = RoleOf(v) /\ RoleOf(v) # "driver"
    BY <1>a, <1>7, <2>2, <2>3, <2>4, <2>s0 DEF Here, RoleOf, InitPoints, ShellPoints,
       DriverPoints, ForkPoints,
           Newborn, Execs
  <2>s4. /\ Unshielded(v) => Unshielded(w)
         /\ Awaits(w) => Awaits(v) /\ w.data.child = v.data.child
    BY <1>a, <1>7, <2>2, <2>3, <2>4, <2>s0 DEF Here, Unshielded, Awaits
  <2> QED
    BY <2>s1, <2>s2, <2>s3, <2>s4, <2>s5, <2>s7 DEF Goes, Advances
<1>8. CASE at = "s_named"
  <2>1. t = [call |-> Sys("wait", my.child, 1, 0), data |-> my, point |-> "s_waited"]
    BY <1>8 DEF ShProgram, To
  <2>2. my.child \in -1..MaxPid
    BY <1>a
  <2> DEFINE w == View("s_waited", r1, my, "trapped", Sys("wait", my.child, 1, 0))
  <2>s0. /\ w.pc = "s_waited" /\ w.r1 = r1 /\ w.data = my /\ w.how = "trapped"
         /\ w.call = Sys("wait", my.child, 1, 0)
    BY DEF View
  <2>s5. View(t.point, v.r1, t.data, "trapped", t.call) = w
    BY <1>a, <1>8, <2>1, <2>2 DEF Here
  <2> HIDE DEF w
  <2>s6. Reaches(w.pc, w.data, w.call)
    BY <1>a, <1>8, <2>1, <2>2, <2>s0 DEF Reaches, ForkPoints
  <2>s7. w.call \in AllCalls
    BY <1>a, <1>8, <2>1, <2>2, <2>s0, CallsAre
  <2>s1. Fits(w)
    BY <1>a, <1>8, <2>1, <2>2, <2>s0, <2>s6
       DEF Fits, LocalsFit, ListPoints, WaitPoints, LatePoints, Points, DriverPoints
  <2>s2. ChildOf(w) = ChildOf(v)
    BY <1>a, <1>8, <2>1, <2>2, <2>s0 DEF Here, ChildOf, ForkPoints, WaitPoints
  <2>s3. RoleOf(w) = RoleOf(v) /\ RoleOf(v) # "driver"
    BY <1>a, <1>8, <2>1, <2>2, <2>s0 DEF Here, RoleOf, InitPoints, ShellPoints, DriverPoints,
       ForkPoints,
           Newborn, Execs
  <2>s4. /\ Unshielded(v) => Unshielded(w)
         /\ Awaits(w) => Awaits(v) /\ w.data.child = v.data.child
    BY <1>a, <1>8, <2>1, <2>2, <2>s0 DEF Here, Unshielded, Awaits
  <2> QED
    BY <2>s1, <2>s2, <2>s3, <2>s4, <2>s5, <2>s7 DEF Goes, Advances
<1>9. CASE at = "s_waited"
  <2>1. PICK n \in 0..255 : t = [call |-> Sys("fg", 0, 0, 0), data |-> WithLast(my, n),
                                 point |-> "s_unnamed"]
    <3>1. (IF r1 < 0 THEN 1 ELSE StatusOf(window.status)) \in 0..255
      <4>1. window.status \in Nat
        BY <1>a
      <4>2. StatusOf(window.status) \in 0..255
        BY <4>1, StatusFits
      <4> QED
        BY <4>2
    <3>2. t = [call |-> Sys("fg", 0, 0, 0), point |-> "s_unnamed",
               data |-> WithLast(my, IF r1 < 0 THEN 1 ELSE StatusOf(window.status))]
      BY <1>9 DEF ShProgram, To, WithLast
    <3> QED
      BY <3>1, <3>2
  <2>2. PICK d \in AllLocals : d = WithLast(my, n) /\ d.list = my.list
    BY <1>a, <2>1, SetLast
  <2>3. d.list # <<>> /\ t = [call |-> Sys("fg", 0, 0, 0), data |-> d, point |-> "s_unnamed"]
    BY <1>a, <1>9, <2>1, <2>2 DEF ListPoints
  <2> DEFINE w == View("s_unnamed", r1, d, "trapped", Sys("fg", 0, 0, 0))
  <2>s0. /\ w.pc = "s_unnamed" /\ w.r1 = r1 /\ w.data = d /\ w.how = "trapped"
         /\ w.call = Sys("fg", 0, 0, 0)
    BY DEF View
  <2>s5. View(t.point, v.r1, t.data, "trapped", t.call) = w
    BY <1>a, <1>9, <2>3 DEF Here
  <2> HIDE DEF w
  <2>s6. Reaches(w.pc, w.data, w.call)
    BY <1>a, <1>9, <2>3, <2>s0 DEF Reaches, ForkPoints
  <2>s7. w.call \in AllCalls
    BY <1>a, <1>9, <2>3, <2>s0, CallsAre
  <2>s1. Fits(w)
    BY <1>a, <1>9, <2>3, <2>s0, <2>s6
       DEF Fits, LocalsFit, ListPoints, WaitPoints, LatePoints, Points, DriverPoints
  <2>s2. ChildOf(w) = ChildOf(v)
    BY <1>a, <1>9, <2>3, <2>s0 DEF Here, ChildOf, ForkPoints, WaitPoints
  <2>s3. RoleOf(w) = RoleOf(v) /\ RoleOf(v) # "driver"
    BY <1>a, <1>9, <2>3, <2>s0 DEF Here, RoleOf, InitPoints, ShellPoints, DriverPoints, ForkPoints,
           Newborn, Execs
  <2>s4. /\ Unshielded(v) => Unshielded(w)
         /\ Awaits(w) => Awaits(v) /\ w.data.child = v.data.child
    BY <1>a, <1>9, <2>3, <2>s0 DEF Here, Unshielded, Awaits
  <2> QED
    BY <2>s1, <2>s2, <2>s3, <2>s4, <2>s5, <2>s7 DEF Goes, Advances
<1>10. CASE at = "s_unnamed"
  <2>1. t \in CheckCancel(my) /\ my.list # <<>>
    BY <1>a, <1>10 DEF ShProgram, ListPoints
  <2> QED
    BY <1>a, <1>10, <2>1, CheckTraps
<1>11. CASE at = "s_checked"
  <2>1. PICK last \in 0..255 : t \in AfterCommand(last)
    <3>1. t \in AfterCommand(IF r1 > 0 THEN 130 ELSE my.last)
      BY <1>11 DEF ShProgram
    <3>2. (IF r1 > 0 THEN 130 ELSE my.last) \in 0..255
      BY <1>a
    <3> QED
      BY <3>1, <3>2
  <2>2. Tail(my.list) \in Remainders
    BY <1>a, <1>11, RemaindersClosed DEF ListPoints
  <2>3. CASE t \in Prompt(130)
    BY <1>11, <2>3, PromptTraps
  <2>4. CASE t \in Continue(Tail(my.list), last)
    BY <1>11, <2>2, <2>4, ContinueTraps
  <2>5. CASE t \in To(Sys("exit", last, 0, 0), my, "sh")
    <3> DEFINE w == View("sh", r1, my, "trapped", Sys("exit", last, 0, 0))
    <3>1. t = [call |-> Sys("exit", last, 0, 0), data |-> my, point |-> "sh"]
      BY <2>5 DEF To
    <3>2. /\ w.pc = "sh" /\ w.r1 = r1 /\ w.data = my /\ w.how = "trapped"
          /\ w.call = Sys("exit", last, 0, 0)
      BY DEF View
    <3>3. View(t.point, v.r1, t.data, "trapped", t.call) = w
      BY <3>1 DEF Here
    <3> HIDE DEF w
    <3>4. Reaches(w.pc, w.data, w.call)
      BY <3>2 DEF Reaches, ForkPoints
    <3>5. w.call \in AllCalls
      BY <2>1, <3>2, CallsAre
    <3>6. Fits(w)
      BY <1>a, <3>2, <3>4 DEF Fits, LocalsFit, ListPoints, WaitPoints, LatePoints, Points,
         DriverPoints
    <3>7. ChildOf(w) = ChildOf(v)
      BY <1>11, <3>2 DEF Here, ChildOf, ForkPoints, WaitPoints
    <3>8. RoleOf(w) = RoleOf(v) /\ RoleOf(v) # "driver"
      BY <1>11, <3>2 DEF Here, RoleOf, InitPoints, ShellPoints, DriverPoints, ForkPoints, Newborn,
             Execs
    <3>9. (Unshielded(v) => Unshielded(w)) /\ ~Awaits(w)
      BY <1>11, <3>2 DEF Here, Unshielded, Awaits
    <3> QED
      BY <3>3, <3>5, <3>6, <3>7, <3>8, <3>9 DEF Goes, Advances
  <2> QED
    BY <2>1, <2>3, <2>4, <2>5 DEF AfterCommand
<1>12. CASE ~(at \in ShellPoints) \/ (at = "s_line" /\ r1 = 0)
  BY <1>a, <1>12 DEF ShProgram, ShellPoints
<1>13. r1 = 0 \/ r1 < 0 \/ r1 > 0
  BY <1>a
<1> QED
  BY <1>1, <1>2, <1>3, <1>4, <1>5, <1>6, <1>7, <1>8, <1>9, <1>10, <1>11, <1>12, <1>13
     DEF ShellPoints

(* Every trap of a plain command or of a stage of the compiler advances its*)
(* view.                                                                   *)
LEMMA CmdTraps ==
    ASSUME NEW v, Here(v), NEW t \in CmdProgram
    PROVE  Goes(v, t)
<1>a. my \in AllLocals /\ r1 \in Int
  BY DEF Here, Fits, LocalsFit
<1>1. at \in {"cmd", "stage"}
  BY DEF CmdProgram
<1>2. PICK c \in {Write, Sys("exit", 0, 0, 0), Sys("exit", 1, 0, 0)} :
          t = [call |-> c, data |-> my, point |-> at]
  BY <1>1 DEF CmdProgram, To
<1> QED
  BY <1>a, <1>1, <1>2
     DEF Here, Write, Goes, Advances, View, Fits, LocalsFit, ListPoints, ForkPoints, WaitPoints,
         InitPoints, ShellPoints, LatePoints, Points, DriverPoints, Reaches, AllCalls, ChildOf,
         RoleOf, Newborn, Execs, MayExist, Unshielded, Awaits

(* The driver.  What a trap of it has to show.                             *)
LEMMA DriverGoes ==
    ASSUME NEW v, Here(v), at \in DriverPoints, ~Newborn(v),
           NEW p \in DriverPoints, NEW d \in AllLocals, p \notin LatePoints => d.k <= Stages,
           NEW c \in AllCalls, Reaches(p, d, c), at = "cc" => p = "d_deferred",
           p # "d_waited" => ChildOf(v) = 0, p = "d_waited" => ChildOf(v) = d.child /\ d.child > 0,
           MayExist(v) \subseteq MayExist(View(p, r1, d, "trapped", c)),
           NEW t, t = [call |-> c, data |-> d, point |-> p]
    PROVE  Goes(v, t)
<1>0. v.pc = at /\ v.r1 = r1 /\ v.how = "returned" /\ r1 \in Int
  BY DEF Here, Fits
<1> DEFINE w == View(p, r1, d, "trapped", c)
<1>1. w.pc = p /\ w.r1 = r1 /\ w.data = d /\ w.how = "trapped" /\ w.call = c
  BY DEF View
<1>2. View(t.point, v.r1, t.data, "trapped", t.call) = w /\ MayExist(v) \subseteq MayExist(w)
  BY <1>0
<1> HIDE DEF w
<1>3. Fits(w)
  BY <1>0, <1>1 DEF Fits, LocalsFit, ListPoints, WaitPoints, LatePoints, Points, DriverPoints
<1>4. ChildOf(w) = ChildOf(v)
  BY <1>1 DEF ChildOf, ForkPoints, WaitPoints, DriverPoints
<1>5. RoleOf(w) = "driver"
  BY <1>1 DEF RoleOf, InitPoints, ShellPoints, DriverPoints, Newborn, Execs
<1>6. RoleOf(v) = "driver"
  BY <1>0 DEF RoleOf, InitPoints, ShellPoints, DriverPoints, Newborn, Execs
<1>7. (Unshielded(v) => Unshielded(w)) /\ ~Awaits(w)
  BY <1>0, <1>1 DEF Unshielded, Awaits, DriverPoints
<1> QED
  BY <1>1, <1>2, <1>3, <1>4, <1>5, <1>6, <1>7 DEF Goes, Advances

(* symcc_native giving up or finishing goes to the unlink loop, from where *)
(* each of the temporary files may still exist.                            *)
LEMMA DoneTraps ==
    ASSUME NEW v, Here(v), at \in {"d_queried", "d_forked", "d_waited", "d_publish", "d_chmod",
                                   "d_renamed"},
           at = "d_forked" => r1 < 0,
           NEW result \in {0, 1}, NEW t \in Done(result)
    PROVE  Goes(v, t)
<1>a. /\ my \in AllLocals /\ r1 \in Int /\ Stages \in Nat \ {0} /\ 1 \in 1..(Stages + 1)
  BY SessionAssumption DEF Here, Fits, LocalsFit
<1>b. PICK d \in AllLocals : d = WithKResult(my, 1, result) /\ d.k = 1
  BY <1>a, SetKResult
<1>1. t = [call |-> Unlink, data |-> d, point |-> "d_unlinked"]
  BY <1>b DEF Done, To, WithKResult
<1>2. Reaches("d_unlinked", d, Unlink) /\ Unlink \in AllCalls
  BY CallsAre DEF Reaches, ForkPoints, Unlink
<1>3. ChildOf(v) = 0 /\ ~Newborn(v)
  BY <1>a DEF Here, ChildOf, ForkPoints, WaitPoints, Newborn
<1>4. MayExist(v) \subseteq MayExist(View("d_unlinked", r1, d, "trapped", Unlink))
  BY <1>a, <1>b DEF MayExist, View, Here
<1>5. at # "cc" /\ at \in DriverPoints /\ "d_unlinked" \in DriverPoints
  BY DEF DriverPoints
<1> QED
  BY <1>a, <1>b, <1>1, <1>2, <1>3, <1>4, <1>5, DriverGoes

(* Every trap of symcc_native advances the view of the driver: the         *)
(* deferral, the reservation of the temporary files, the stages, the       *)
(* rename, the removal of the files.                                       *)
LEMMA CcTraps ==
    ASSUME NEW v, Here(v), NEW t \in CcProgram
    PROVE  Goes(v, t)
<1>a. /\ my \in AllLocals /\ r1 \in Int /\ MaxPid \in Nat /\ Stages \in Nat \ {0}
      /\ at = "d_forked" => r1 <= MaxPid
      /\ my.child \in 0..MaxPid /\ my.k \in 1..(Stages + 1)
      /\ at \in DriverPoints \ LatePoints => my.k <= Stages
      /\ my.result \in {0, 1}
      /\ v.pc = at /\ v.data = my /\ v.r1 = r1 /\ v.how = "returned"
  BY ConstantsAssumption, SessionAssumption, LocalsParts DEF Here, Fits, LocalsFit, ForkPoints
<1>b. /\ at \in DriverPoints \ {"d_forked"} => ~Newborn(v)
      /\ at \in {"cc", "d_deferred", "d_reserved", "d_unreserved", "d_queried", "d_forked",
               "d_waited", "d_unlinked", "d_end"} => my.k <= Stages
  BY <1>a DEF Newborn, ForkPoints, DriverPoints, LatePoints
<1> USE DEF Write
<1>1. CASE at = "cc"
  <2>1. CASE t = [call |-> Sys("defer", 1, 0, 0), data |-> my, point |-> "d_deferred"]
    <3>3. Reaches("d_deferred", my, Sys("defer", 1, 0, 0)) /\ Sys("defer", 1, 0, 0) \in AllCalls
      BY <1>a, <1>b, <1>1, CallsAre DEF Reaches, ForkPoints, Reserve, Unlink
    <3>4. ChildOf(v) = 0
      BY <1>a, <1>b, <1>1 DEF ChildOf, ForkPoints, WaitPoints
    <3>5. MayExist(v) \subseteq
             MayExist(View("d_deferred", r1, my, "trapped", Sys("defer", 1, 0, 0)))
      BY <1>a, <1>b, <1>1 DEF MayExist, View
    <3> QED
      BY <1>a, <1>b, <1>1, <2>1, <3>3, <3>4, <3>5, DriverGoes DEF Newborn, DriverPoints,
         LatePoints, ForkPoints
  <2> HIDE DEF Goes
  <2> QED
    BY <1>a, <1>1, <2>1 DEF CcProgram, To
<1>2. CASE at = "d_deferred"
  <2>1. CASE t = [call |-> Reserve, data |-> my, point |-> "d_reserved"]
    <3>3. Reaches("d_reserved", my, Reserve) /\ Reserve \in AllCalls
      BY <1>a, <1>b, <1>2, CallsAre DEF Reaches, ForkPoints, Reserve, Unlink
    <3>4. ChildOf(v) = 0
      BY <1>a, <1>b, <1>2 DEF ChildOf, ForkPoints, WaitPoints
    <3>5. MayExist(v) \subseteq MayExist(View("d_reserved", r1, my, "trapped", Reserve))
      BY <1>a, <1>b, <1>2 DEF MayExist, View
    <3> QED
      BY <1>a, <1>b, <1>2, <2>1, <3>3, <3>4, <3>5, DriverGoes DEF Newborn, DriverPoints,
         LatePoints, ForkPoints
  <2>2. CASE t = [call |-> Sys("exit", 2, 0, 0), data |-> my, point |-> "cc"]
    <3>3. Reaches("cc", my, Sys("exit", 2, 0, 0)) /\ Sys("exit", 2, 0, 0) \in AllCalls
      BY <1>a, <1>b, <1>2, CallsAre DEF Reaches, ForkPoints, Reserve, Unlink
    <3>4. ChildOf(v) = 0
      BY <1>a, <1>b, <1>2 DEF ChildOf, ForkPoints, WaitPoints
    <3>5. MayExist(v) \subseteq MayExist(View("cc", r1, my, "trapped", Sys("exit", 2, 0, 0)))
      BY <1>a, <1>b, <1>2 DEF MayExist, View
    <3> QED
      BY <1>a, <1>b, <1>2, <2>2, <3>3, <3>4, <3>5, DriverGoes DEF Newborn, DriverPoints,
         LatePoints, ForkPoints
  <2> HIDE DEF Goes
  <2> QED
    BY <1>a, <1>2, <2>1, <2>2 DEF CcProgram, To
<1>3. CASE at = "d_reserved" /\ my.k < Stages
  <2>1. CASE t = [call |-> Reserve, data |-> WithK(my, my.k + 1), point |-> "d_reserved"]
    <3>1. my.k + 1 \in 1..(Stages + 1)
      BY <1>a, <1>b, <1>3
    <3>2. PICK d \in AllLocals : d = WithK(my, my.k + 1) /\ d.k = my.k + 1
      BY <1>a, <3>1, SetK
    <3>3. Reaches("d_reserved", d, Reserve) /\ Reserve \in AllCalls
      BY <1>a, <1>b, <1>3, <3>1, <3>2, CallsAre DEF Reaches, ForkPoints, Reserve, Unlink
    <3>4. ChildOf(v) = 0
      BY <1>a, <1>b, <1>3, <3>1, <3>2 DEF ChildOf, ForkPoints, WaitPoints
    <3>5. MayExist(v) \subseteq MayExist(View("d_reserved", r1, d, "trapped", Reserve))
      BY <1>a, <1>b, <1>3, <3>1, <3>2 DEF MayExist, View
    <3> QED
      BY <1>a, <1>b, <1>3, <3>1, <3>2, <2>1, <3>3, <3>4, <3>5, DriverGoes DEF Newborn,
         DriverPoints, LatePoints, ForkPoints
  <2>2. CASE t = [call |-> Unlink, data |-> WithK(my, 1), point |-> "d_unreserved"]
    <3>1. 1 \in 1..(Stages + 1)
      BY <1>a, <1>b, <1>3
    <3>2. PICK d \in AllLocals : d = WithK(my, 1) /\ d.k = 1
      BY <1>a, <3>1, SetK
    <3>3. Reaches("d_unreserved", d, Unlink) /\ Unlink \in AllCalls
      BY <1>a, <1>b, <1>3, <3>1, <3>2, CallsAre DEF Reaches, ForkPoints, Reserve, Unlink
    <3>4. ChildOf(v) = 0
      BY <1>a, <1>b, <1>3, <3>1, <3>2 DEF ChildOf, ForkPoints, WaitPoints
    <3>5. MayExist(v) \subseteq MayExist(View("d_unreserved", r1, d, "trapped", Unlink))
      BY <1>a, <1>b, <1>3, <3>1, <3>2 DEF MayExist, View
    <3> QED
      BY <1>a, <1>b, <1>3, <3>1, <3>2, <2>2, <3>3, <3>4, <3>5, DriverGoes DEF Newborn,
         DriverPoints, LatePoints, ForkPoints
  <2> HIDE DEF Goes
  <2> QED
    BY <1>a, <1>3, <2>1, <2>2 DEF CcProgram, To, NextFile, Unreserve, WithK
<1>4. CASE at = "d_reserved" /\ ~(my.k < Stages)
  <2>1. CASE t = [call |-> Sys("defer", 0, 0, 0), data |-> WithK(my, 1), point |-> "d_queried"]
    <3>1. 1 \in 1..(Stages + 1)
      BY <1>a, <1>b, <1>4
    <3>2. PICK d \in AllLocals : d = WithK(my, 1) /\ d.k = 1
      BY <1>a, <3>1, SetK
    <3>3. Reaches("d_queried", d, Sys("defer", 0, 0, 0)) /\ Sys("defer", 0, 0, 0) \in AllCalls
      BY <1>a, <1>b, <1>4, <3>1, <3>2, CallsAre DEF Reaches, ForkPoints, Reserve, Unlink
    <3>4. ChildOf(v) = 0
      BY <1>a, <1>b, <1>4, <3>1, <3>2 DEF ChildOf, ForkPoints, WaitPoints
    <3>5. MayExist(v) \subseteq MayExist(View("d_queried", r1, d, "trapped", Sys("defer", 0, 0, 0)))
      BY <1>a, <1>b, <1>4, <3>1, <3>2 DEF MayExist, View
    <3> QED
      BY <1>a, <1>b, <1>4, <3>1, <3>2, <2>1, <3>3, <3>4, <3>5, DriverGoes DEF Newborn,
         DriverPoints, LatePoints, ForkPoints
  <2> HIDE DEF Goes
  <2> QED
    BY <1>a, <1>4, <2>1 DEF CcProgram, To, Query, WithK
<1>5. CASE at = "d_unreserved" /\ my.k < Stages
  <2>1. CASE t = [call |-> Unlink, data |-> WithK(my, my.k + 1), point |-> "d_unreserved"]
    <3>1. my.k + 1 \in 1..(Stages + 1)
      BY <1>a, <1>b, <1>5
    <3>2. PICK d \in AllLocals : d = WithK(my, my.k + 1) /\ d.k = my.k + 1
      BY <1>a, <3>1, SetK
    <3>3. Reaches("d_unreserved", d, Unlink) /\ Unlink \in AllCalls
      BY <1>a, <1>b, <1>5, <3>1, <3>2, CallsAre DEF Reaches, ForkPoints, Reserve, Unlink
    <3>4. ChildOf(v) = 0
      BY <1>a, <1>b, <1>5, <3>1, <3>2 DEF ChildOf, ForkPoints, WaitPoints
    <3>5. MayExist(v) \subseteq MayExist(View("d_unreserved", r1, d, "trapped", Unlink))
      BY <1>a, <1>b, <1>5, <3>1, <3>2 DEF MayExist, View
    <3> QED
      BY <1>a, <1>b, <1>5, <3>1, <3>2, <2>1, <3>3, <3>4, <3>5, DriverGoes DEF Newborn,
         DriverPoints, LatePoints, ForkPoints
  <2> HIDE DEF Goes
  <2> QED
    BY <1>a, <1>5, <2>1 DEF CcProgram, To, NextFile, WithK
<1>6. CASE at = "d_unreserved" /\ ~(my.k < Stages)
  <2>1. CASE t = [call |-> Sys("exit", 1, 0, 0), data |-> my, point |-> "cc"]
    <3>3. Reaches("cc", my, Sys("exit", 1, 0, 0)) /\ Sys("exit", 1, 0, 0) \in AllCalls
      BY <1>a, <1>b, <1>6, CallsAre DEF Reaches, ForkPoints, Reserve, Unlink
    <3>4. ChildOf(v) = 0
      BY <1>a, <1>b, <1>6 DEF ChildOf, ForkPoints, WaitPoints
    <3>5. MayExist(v) \subseteq MayExist(View("cc", r1, my, "trapped", Sys("exit", 1, 0, 0)))
      BY <1>a, <1>b, <1>6 DEF MayExist, View
    <3> QED
      BY <1>a, <1>b, <1>6, <2>1, <3>3, <3>4, <3>5, DriverGoes DEF Newborn, DriverPoints,
         LatePoints, ForkPoints
  <2> HIDE DEF Goes
  <2> QED
    BY <1>a, <1>6, <2>1 DEF CcProgram, To
<1>7. CASE at = "d_queried"
  <2>1. CASE t = [call |-> Sys("fork", 0, 0, 0), data |-> my, point |-> "d_forked"]
    <3>3. Reaches("d_forked", my, Sys("fork", 0, 0, 0)) /\ Sys("fork", 0, 0, 0) \in AllCalls
      BY <1>a, <1>b, <1>7, CallsAre DEF Reaches, ForkPoints, Reserve, Unlink
    <3>4. ChildOf(v) = 0
      BY <1>a, <1>b, <1>7 DEF ChildOf, ForkPoints, WaitPoints
    <3>5. MayExist(v) \subseteq MayExist(View("d_forked", r1, my, "trapped", Sys("fork", 0, 0, 0)))
      BY <1>a, <1>b, <1>7 DEF MayExist, View
    <3> QED
      BY <1>a, <1>b, <1>7, <2>1, <3>3, <3>4, <3>5, DriverGoes DEF Newborn, DriverPoints,
         LatePoints, ForkPoints
  <2>2. CASE \E result \in {0, 1} : t \in Done(result)
    BY <1>7, <2>2, DoneTraps
  <2> HIDE DEF Goes
  <2> QED
    BY <1>a, <1>7, <2>1, <2>2 DEF CcProgram, To
<1>8. CASE at = "d_forked" /\ r1 < 0
  <2>1. CASE \E result \in {0, 1} : t \in Done(result)
    BY <1>8, <2>1, DoneTraps
  <2> HIDE DEF Goes
  <2> QED
    BY <1>a, <1>8, <2>1 DEF CcProgram, To
<1>9. CASE at = "d_forked" /\ r1 = 0
  <2>1. CASE t = [call |-> Sys("exec", 4, 0, 0), data |-> my, point |-> "no_exec"]
    <3> DEFINE w == View("no_exec", r1, my, "trapped", Sys("exec", 4, 0, 0))
    <3>s0. /\ w.pc = "no_exec" /\ w.r1 = r1 /\ w.data = my /\ w.how = "trapped"
           /\ w.call = Sys("exec", 4, 0, 0)
      BY DEF View
    <3>s5. View(t.point, v.r1, t.data, "trapped", t.call) = w
      BY <1>a, <1>9, <2>1 DEF Here
    <3> HIDE DEF w
    <3>s6. Reaches(w.pc, w.data, w.call)
      BY <1>a, <1>9, <2>1, <3>s0 DEF Reaches, ForkPoints
    <3>s7. w.call \in AllCalls
      BY <1>a, <1>9, <2>1, <3>s0, CallsAre DEF Reserve, Unlink
    <3>s1. Fits(w)
      BY <1>a, <1>9, <2>1, <3>s0, <3>s6
         DEF Fits, LocalsFit, ListPoints, WaitPoints, LatePoints, Points, DriverPoints
    <3>s2. ChildOf(w) = ChildOf(v)
      BY <1>a, <1>9, <2>1, <3>s0 DEF Here, ChildOf, ForkPoints, WaitPoints
    <3>s3. RoleOf(w) = RoleOf(v)
      BY <1>a, <1>9, <2>1, <3>s0 DEF Here, RoleOf, InitPoints, ShellPoints, DriverPoints,
         ForkPoints,
             Newborn, Execs, Sys
    <3>s4. /\ Unshielded(v) => Unshielded(w)
           /\ Awaits(w) => Awaits(v) /\ w.data.child = v.data.child
      BY <1>a, <1>9, <2>1, <3>s0 DEF Here, Unshielded, Awaits
    <3>s8. RoleOf(v) = "driver" => MayExist(v) \subseteq MayExist(w)
      BY <1>a, <1>9, <2>1, <3>s0 DEF Here, MayExist
    <3> QED
      BY <3>s1, <3>s2, <3>s3, <3>s4, <3>s5, <3>s7, <3>s8 DEF Goes, Advances
  <2> HIDE DEF Goes
  <2> QED
    BY <1>a, <1>9, <2>1 DEF CcProgram, To
<1>10. CASE at = "d_forked" /\ r1 > 0
  <2>1. CASE t = [call |-> Sys("wait", r1, 1, 0), data |-> WithChild(my, r1), point |-> "d_waited"]
    <3>1. r1 \in 0..MaxPid /\ r1 \in -1..MaxPid
      BY <1>a, <1>b, <1>10
    <3>2. PICK d \in AllLocals : d = WithChild(my, r1) /\ d.child = r1 /\ d.k = my.k
      BY <1>a, <3>1, SetChild
    <3>3. Reaches("d_waited", d, Sys("wait", r1, 1, 0)) /\ Sys("wait", r1, 1, 0) \in AllCalls
      BY <1>a, <1>b, <1>10, <3>1, <3>2, CallsAre DEF Reaches, ForkPoints, Reserve, Unlink
    <3>4. ChildOf(v) = d.child /\ d.child > 0
      BY <1>a, <1>b, <1>10, <3>1, <3>2 DEF ChildOf, ForkPoints, WaitPoints
    <3>5. MayExist(v) \subseteq MayExist(View("d_waited", r1, d, "trapped", Sys("wait", r1, 1, 0)))
      BY <1>a, <1>b, <1>10, <3>1, <3>2 DEF MayExist, View
    <3> QED
      BY <1>a, <1>b, <1>10, <3>1, <3>2, <2>1, <3>3, <3>4, <3>5, DriverGoes DEF Newborn,
         DriverPoints, LatePoints, ForkPoints
  <2> HIDE DEF Goes
  <2> QED
    BY <1>a, <1>10, <2>1 DEF CcProgram, To, WithChild
<1>11. CASE at = "d_waited" /\ my.k < Stages
  <2>1. CASE t = [call |-> Sys("defer", 0, 0, 0), data |-> WithK(my, my.k + 1),
                  point |-> "d_queried"]
    <3>1. my.k + 1 \in 1..(Stages + 1)
      BY <1>a, <1>b, <1>11
    <3>2. PICK d \in AllLocals : d = WithK(my, my.k + 1) /\ d.k = my.k + 1
      BY <1>a, <3>1, SetK
    <3>3. Reaches("d_queried", d, Sys("defer", 0, 0, 0)) /\ Sys("defer", 0, 0, 0) \in AllCalls
      BY <1>a, <1>b, <1>11, <3>1, <3>2, CallsAre DEF Reaches, ForkPoints, Reserve, Unlink
    <3>4. ChildOf(v) = 0
      BY <1>a, <1>b, <1>11, <3>1, <3>2 DEF ChildOf, ForkPoints, WaitPoints
    <3>5. MayExist(v) \subseteq MayExist(View("d_queried", r1, d, "trapped", Sys("defer", 0, 0, 0)))
      BY <1>a, <1>b, <1>11, <3>1, <3>2 DEF MayExist, View
    <3> QED
      BY <1>a, <1>b, <1>11, <3>1, <3>2, <2>1, <3>3, <3>4, <3>5, DriverGoes DEF Newborn,
         DriverPoints, LatePoints, ForkPoints
  <2>2. CASE \E result \in {0, 1} : t \in Done(result)
    BY <1>11, <2>2, DoneTraps
  <2> HIDE DEF Goes
  <2> QED
    BY <1>a, <1>11, <2>1, <2>2 DEF CcProgram, To, Query, WithK
<1>12. CASE at = "d_waited" /\ ~(my.k < Stages)
  <2>1. CASE t = [call |-> Sys("defer", 0, 0, 0), data |-> WithK(my, my.k + 1),
                  point |-> "d_publish"]
    <3>1. my.k + 1 \in 1..(Stages + 1)
      BY <1>a, <1>b, <1>12
    <3>2. PICK d \in AllLocals : d = WithK(my, my.k + 1) /\ d.k = my.k + 1
      BY <1>a, <3>1, SetK
    <3>3. Reaches("d_publish", d, Sys("defer", 0, 0, 0)) /\ Sys("defer", 0, 0, 0) \in AllCalls
      BY <1>a, <1>b, <1>12, <3>1, <3>2, CallsAre DEF Reaches, ForkPoints, Reserve, Unlink
    <3>4. ChildOf(v) = 0
      BY <1>a, <1>b, <1>12, <3>1, <3>2 DEF ChildOf, ForkPoints, WaitPoints
    <3>5. MayExist(v) \subseteq MayExist(View("d_publish", r1, d, "trapped", Sys("defer", 0, 0, 0)))
      BY <1>a, <1>b, <1>12, <3>1, <3>2 DEF MayExist, View
    <3> QED
      BY <1>a, <1>b, <1>12, <3>1, <3>2, <2>1, <3>3, <3>4, <3>5, DriverGoes DEF Newborn,
         DriverPoints, LatePoints, ForkPoints
  <2>2. CASE \E result \in {0, 1} : t \in Done(result)
    BY <1>12, <2>2, DoneTraps
  <2> HIDE DEF Goes
  <2> QED
    BY <1>a, <1>12, <2>1, <2>2 DEF CcProgram, To, Query, WithK
<1>13. CASE at = "d_publish"
  <2>1. CASE t = [call |-> Write, data |-> my, point |-> "d_chmod"]
    <3>3. Reaches("d_chmod", my, Write) /\ Write \in AllCalls
      BY <1>a, <1>b, <1>13, CallsAre DEF Reaches, ForkPoints, Reserve, Unlink
    <3>4. ChildOf(v) = 0
      BY <1>a, <1>b, <1>13 DEF ChildOf, ForkPoints, WaitPoints
    <3>5. MayExist(v) \subseteq MayExist(View("d_chmod", r1, my, "trapped", Write))
      BY <1>a, <1>b, <1>13 DEF MayExist, View
    <3> QED
      BY <1>a, <1>b, <1>13, <2>1, <3>3, <3>4, <3>5, DriverGoes DEF Newborn, DriverPoints,
         LatePoints, ForkPoints
  <2>2. CASE \E result \in {0, 1} : t \in Done(result)
    BY <1>13, <2>2, DoneTraps
  <2> HIDE DEF Goes
  <2> QED
    BY <1>a, <1>13, <2>1, <2>2 DEF CcProgram, To, Chmod, Write
<1>14. CASE at = "d_chmod"
  <2>1. CASE t = [call |-> Sys("rename", 0, 0, 0), data |-> my, point |-> "d_renamed"]
    <3>3. Reaches("d_renamed", my, Sys("rename", 0, 0, 0)) /\ Sys("rename", 0, 0, 0) \in AllCalls
      BY <1>a, <1>b, <1>14, CallsAre DEF Reaches, ForkPoints, Reserve, Unlink
    <3>4. ChildOf(v) = 0
      BY <1>a, <1>b, <1>14 DEF ChildOf, ForkPoints, WaitPoints
    <3>5. MayExist(v) \subseteq
             MayExist(View("d_renamed", r1, my, "trapped", Sys("rename", 0, 0, 0)))
      BY <1>a, <1>b, <1>14 DEF MayExist, View
    <3> QED
      BY <1>a, <1>b, <1>14, <2>1, <3>3, <3>4, <3>5, DriverGoes DEF Newborn, DriverPoints,
         LatePoints, ForkPoints
  <2>2. CASE \E result \in {0, 1} : t \in Done(result)
    BY <1>14, <2>2, DoneTraps
  <2> HIDE DEF Goes
  <2> QED
    BY <1>a, <1>14, <2>1, <2>2 DEF CcProgram, To
<1>15. CASE at = "d_renamed"
  <2>1. CASE \E result \in {0, 1} : t \in Done(result)
    BY <1>15, <2>1, DoneTraps
  <2> HIDE DEF Goes
  <2> QED
    BY <1>a, <1>15, <2>1 DEF CcProgram, To
<1>16. CASE at = "d_unlinked" /\ my.k < Stages
  <2>1. CASE t = [call |-> Unlink, data |-> WithK(my, my.k + 1), point |-> "d_unlinked"]
    <3>1. my.k + 1 \in 1..(Stages + 1)
      BY <1>a, <1>b, <1>16
    <3>2. PICK d \in AllLocals : d = WithK(my, my.k + 1) /\ d.k = my.k + 1
      BY <1>a, <3>1, SetK
    <3>3. Reaches("d_unlinked", d, Unlink) /\ Unlink \in AllCalls
      BY <1>a, <1>b, <1>16, <3>1, <3>2, CallsAre DEF Reaches, ForkPoints, Reserve, Unlink
    <3>4. ChildOf(v) = 0
      BY <1>a, <1>b, <1>16, <3>1, <3>2 DEF ChildOf, ForkPoints, WaitPoints
    <3>5. MayExist(v) \subseteq MayExist(View("d_unlinked", r1, d, "trapped", Unlink))
      BY <1>a, <1>b, <1>16, <3>1, <3>2 DEF MayExist, View
    <3> QED
      BY <1>a, <1>b, <1>16, <3>1, <3>2, <2>1, <3>3, <3>4, <3>5, DriverGoes DEF Newborn,
         DriverPoints, LatePoints, ForkPoints
  <2> HIDE DEF Goes
  <2> QED
    BY <1>a, <1>16, <2>1 DEF CcProgram, To, NextFile, WithK
<1>17. CASE at = "d_unlinked" /\ ~(my.k < Stages)
  <2>1. CASE t = [call |-> Sys("defer", 0, 0, 0), data |-> my, point |-> "d_end"]
    <3>3. Reaches("d_end", my, Sys("defer", 0, 0, 0)) /\ Sys("defer", 0, 0, 0) \in AllCalls
      BY <1>a, <1>b, <1>17, CallsAre DEF Reaches, ForkPoints, Reserve, Unlink
    <3>4. ChildOf(v) = 0
      BY <1>a, <1>b, <1>17 DEF ChildOf, ForkPoints, WaitPoints
    <3>5. MayExist(v) \subseteq MayExist(View("d_end", r1, my, "trapped", Sys("defer", 0, 0, 0)))
      BY <1>a, <1>b, <1>17 DEF MayExist, View
    <3> QED
      BY <1>a, <1>b, <1>17, <2>1, <3>3, <3>4, <3>5, DriverGoes DEF Newborn, DriverPoints,
         LatePoints, ForkPoints
  <2> HIDE DEF Goes
  <2> QED
    BY <1>a, <1>17, <2>1 DEF CcProgram, To, Query
<1>18. CASE at = "d_end"
  <2>1. CASE t = [call |-> Sys("exit", 130, 0, 0), data |-> my, point |-> "cc"]
    <3>3. Reaches("cc", my, Sys("exit", 130, 0, 0)) /\ Sys("exit", 130, 0, 0) \in AllCalls
      BY <1>a, <1>b, <1>18, CallsAre DEF Reaches, ForkPoints, Reserve, Unlink
    <3>4. ChildOf(v) = 0
      BY <1>a, <1>b, <1>18 DEF ChildOf, ForkPoints, WaitPoints
    <3>5. MayExist(v) \subseteq MayExist(View("cc", r1, my, "trapped", Sys("exit", 130, 0, 0)))
      BY <1>a, <1>b, <1>18 DEF MayExist, View
    <3> QED
      BY <1>a, <1>b, <1>18, <2>1, <3>3, <3>4, <3>5, DriverGoes DEF Newborn, DriverPoints,
         LatePoints, ForkPoints
  <2>2. CASE t = [call |-> Sys("exit", my.result, 0, 0), data |-> my, point |-> "cc"]
    <3>3. /\ Reaches("cc", my, Sys("exit", my.result, 0, 0))
          /\ Sys("exit", my.result, 0, 0) \in AllCalls
      BY <1>a, <1>b, <1>18, CallsAre DEF Reaches, ForkPoints, Reserve, Unlink
    <3>4. ChildOf(v) = 0
      BY <1>a, <1>b, <1>18 DEF ChildOf, ForkPoints, WaitPoints
    <3>5. MayExist(v) \subseteq
             MayExist(View("cc", r1, my, "trapped", Sys("exit", my.result, 0, 0)))
      BY <1>a, <1>b, <1>18 DEF MayExist, View
    <3> QED
      BY <1>a, <1>b, <1>18, <2>2, <3>3, <3>4, <3>5, DriverGoes DEF Newborn, DriverPoints,
         LatePoints, ForkPoints
  <2> HIDE DEF Goes
  <2> QED
    BY <1>a, <1>18, <2>1, <2>2 DEF CcProgram, To
<1>19. CASE at \notin DriverPoints
  BY <1>19 DEF CcProgram, DriverPoints
<1>20. r1 = 0 \/ r1 < 0 \/ r1 > 0
  BY <1>a
<1> QED
  BY <1>1, <1>2, <1>3, <1>4, <1>5, <1>6, <1>7, <1>8, <1>9, <1>10, <1>11, <1>12, <1>13, <1>14,
     <1>15, <1>16, <1>17, <1>18, <1>19, <1>20
     DEF DriverPoints

(* A trap of a program, for the process that makes it.                     *)
LEMMA TrapAdvances ==
    ASSUME Sound, ProgramsFit, kpc = "user", NEW t \in Traps, NEW k, UserTrap(t.call, t.data, t.point, k)
    PROVE  /\ live(active) /\ view[active].how = "returned"
           /\ \E w : Becomes(active, w) /\ w.how = "trapped" /\ w.r1 = view[active].r1
                     /\ w.call = t.call /\ w.data = t.data /\ w.pc = t.point
                     /\ Advances(view[active], w)
<1> DEFINE v == view[active]
           w == View(t.point, v.r1, t.data, "trapped", t.call)
<1>1. active \in Slot /\ live(active) /\ window \in Image
  BY DEF Sound, TypeOK
<1>2. v.how = "returned" /\ Becomes(active, w)
  <2>1. PICK c, d, p : c = t.call /\ d = t.data /\ p = t.point
    OBVIOUS
  <2>2. UserTrap(c, d, p, k)
    BY <2>1
  <2>3. /\ view[active].how = "returned"
        /\ Becomes(active, View(p, view[active].r1, d, "trapped", c))
    BY <2>2, TrapView
  <2> QED
    BY <2>1, <2>3 DEF Becomes
<1>3. v.pc = at /\ v.r1 = r1 /\ v.data = my
  BY <1>1, ViewParts DEF ImageOf, at, r1, my
<1>4. Fits(v)
  BY <1>1 DEF ProgramsFit
<1>5. Here(v)
  BY <1>1, <1>2, <1>3, <1>4 DEF Here, Image
<1> HIDE DEF v
<1>6. Goes(v, t)
  BY <1>5, InitTraps, ShTraps, CmdTraps, CcTraps DEF Traps
<1>7. w.how = "trapped" /\ w.r1 = v.r1 /\ w.call = t.call /\ w.data = t.data /\ w.pc = t.point
  BY DEF View
<1> QED
  BY <1>1, <1>2, <1>6, <1>7 DEF Goes, v

(***************************************************************************)
(* The programs, one performed call at a time.                             *)
(***************************************************************************)
(* What a process may turn into without leaving its place in the order.    *)
RoleStep(r, q) ==
    /\ q = "init" <=> r = "init"
    /\ q = "shell" => r = "shell"
    /\ q \in {"command", "driver"} => r \in {"command", "driver"}
    /\ q = "stage" => r = "stage"
    /\ r = "driver" => q = "driver"

(* The points that a trapped process can be at, by its call.               *)
LEMMA PointOfCall ==
    ASSUME NEW v, Fits(v), v.how # "returned"
    PROVE  /\ Reaches(v.pc, v.data, v.call)
           /\ v.call.nr = "fork" <=> v.pc \in ForkPoints
           /\ v.call.nr = "wait" <=> v.pc \in WaitPoints
           /\ v.call.nr = "read" <=> v.pc = "s_line"
           /\ v.call.nr = "exec" => v.pc = "no_exec" /\ \E a \in 1..4 : v.call = Sys("exec", a, 0, 0)
           /\ v.call.nr = "exit" => v.pc \in {"init", "no_exec", "sh", "cc", "cmd", "stage"}
           /\ v.call.nr = "fg" => \/ v.pc \in {"s_start", "s_unnamed"} /\ v.call.a = 0
                                  \/ v.pc = "s_named" /\ v.call.a = v.data.child
           /\ v.call.nr = "rename" => v.pc = "d_renamed"
           /\ v.call.nr # "yield"
           /\ v.call = Reserve <=> v.pc = "d_reserved"
           /\ v.call = Unlink <=> v.pc \in {"d_unreserved", "d_unlinked"}
           /\ v.pc = "d_deferred" => v.call = Sys("defer", 1, 0, 0)
           /\ v.pc = "s_named" => v.call = Sys("fg", v.data.child, 0, 0)
<1>1. Reaches(v.pc, v.data, v.call) /\ v.pc \in Points
  BY DEF Fits
<1>2. CASE v.pc \in {"sh", "cc"}
  <2>1. PICK a \in 0..255 : v.call = Sys("exit", a, 0, 0)
    BY <1>1, <1>2 DEF Reaches, ForkPoints
  <2> QED
    BY <1>1, <1>2, <2>1 DEF ForkPoints, WaitPoints, Sys, Reserve, Unlink
<1>3. CASE v.pc = "no_exec"
  <2>1. v.call = Sys("exit", 127, 0, 0) \/ \E a \in 1..4 : v.call = Sys("exec", a, 0, 0)
    BY <1>1, <1>3 DEF Reaches, ForkPoints
  <2>2. CASE v.call = Sys("exit", 127, 0, 0)
    BY <1>1, <1>3, <2>2 DEF ForkPoints, WaitPoints, Sys, Reserve, Unlink
  <2>3. CASE \E a \in 1..4 : v.call = Sys("exec", a, 0, 0)
    <3>1. v.call.nr = "exec" /\ v.call # Reserve /\ v.call # Unlink
      BY <2>3 DEF Sys, Reserve, Unlink
    <3> QED
      BY <1>1, <1>3, <2>3, <3>1 DEF ForkPoints, WaitPoints
  <2> QED
    BY <2>1, <2>2, <2>3
<1>4. CASE v.pc \in {"init", "i_forked", "i_waited", "s_start", "s_prompt"}
  <2>1. CASE v.pc = "i_waited"
    BY <1>1, <2>1 DEF Reaches, ForkPoints, WaitPoints, Sys, Reserve, Unlink
  <2>2. CASE v.pc = "init"
    BY <1>1, <2>2 DEF Reaches, ForkPoints, WaitPoints, Sys, Reserve, Unlink
  <2>4. CASE v.pc = "i_forked"
    BY <1>1, <2>4 DEF Reaches, ForkPoints, WaitPoints, Sys, Reserve, Unlink
  <2>3. CASE v.pc = "s_start"
    BY <1>1, <2>3 DEF Reaches, ForkPoints, WaitPoints, Sys, Reserve, Unlink
  <2>5. CASE v.pc = "s_prompt"
    BY <1>1, <2>5 DEF Reaches, ForkPoints, WaitPoints, Sys, Reserve, Unlink
  <2> QED
    BY <1>4, <2>1, <2>2, <2>3, <2>4, <2>5
<1>5. CASE v.pc \in {"s_line", "s_forked", "s_named", "s_waited", "s_unnamed", "s_checked"}
  <2>1. CASE v.pc = "s_line"
    BY <1>1, <2>1 DEF Reaches, ForkPoints, WaitPoints, Sys, Reserve, Unlink
  <2>2. CASE v.pc = "s_forked"
    BY <1>1, <2>2 DEF Reaches, ForkPoints, WaitPoints, Sys, Reserve, Unlink
  <2>3. CASE v.pc = "s_named"
    BY <1>1, <2>3 DEF Reaches, ForkPoints, WaitPoints, Sys, Reserve, Unlink
  <2>4. CASE v.pc = "s_waited"
    BY <1>1, <2>4 DEF Reaches, ForkPoints, WaitPoints, Sys, Reserve, Unlink
  <2>5. CASE v.pc = "s_unnamed"
    BY <1>1, <2>5 DEF Reaches, ForkPoints, WaitPoints, Sys, Reserve, Unlink
  <2>6. CASE v.pc = "s_checked"
    BY <1>1, <2>6 DEF Reaches, ForkPoints, WaitPoints, Sys, Reserve, Unlink
  <2> QED
    BY <1>5, <2>1, <2>2, <2>3, <2>4, <2>5, <2>6
<1>6. CASE v.pc \in {"cmd", "stage"}
  <2>1. CASE v.pc = "cmd"
    BY <1>1, <2>1 DEF Reaches, ForkPoints, WaitPoints, Sys, Reserve, Unlink
  <2>2. CASE v.pc = "stage"
    BY <1>1, <2>2 DEF Reaches, ForkPoints, WaitPoints, Sys, Reserve, Unlink
  <2> QED
    BY <1>6, <2>1, <2>2
<1>7. CASE v.pc \in {"d_deferred", "d_reserved", "d_unreserved", "d_queried", "d_forked"}
  <2>1. CASE v.pc = "d_deferred"
    BY <1>1, <2>1 DEF Reaches, ForkPoints, WaitPoints, Sys, Reserve, Unlink
  <2>2. CASE v.pc = "d_reserved"
    BY <1>1, <2>2 DEF Reaches, ForkPoints, WaitPoints, Sys, Reserve, Unlink
  <2>3. CASE v.pc = "d_unreserved"
    BY <1>1, <2>3 DEF Reaches, ForkPoints, WaitPoints, Sys, Reserve, Unlink
  <2>4. CASE v.pc = "d_queried"
    BY <1>1, <2>4 DEF Reaches, ForkPoints, WaitPoints, Sys, Reserve, Unlink
  <2>5. CASE v.pc = "d_forked"
    BY <1>1, <2>5 DEF Reaches, ForkPoints, WaitPoints, Sys, Reserve, Unlink
  <2> QED
    BY <1>7, <2>1, <2>2, <2>3, <2>4, <2>5
<1>8. CASE v.pc \in {"d_waited", "d_publish", "d_chmod", "d_renamed", "d_unlinked", "d_end"}
  <2>1. CASE v.pc = "d_waited"
    BY <1>1, <2>1 DEF Reaches, ForkPoints, WaitPoints, Sys, Reserve, Unlink
  <2>2. CASE v.pc = "d_publish"
    BY <1>1, <2>2 DEF Reaches, ForkPoints, WaitPoints, Sys, Reserve, Unlink
  <2>3. CASE v.pc = "d_chmod"
    BY <1>1, <2>3 DEF Reaches, ForkPoints, WaitPoints, Sys, Reserve, Unlink
  <2>4. CASE v.pc = "d_renamed"
    BY <1>1, <2>4 DEF Reaches, ForkPoints, WaitPoints, Sys, Reserve, Unlink
  <2>5. CASE v.pc = "d_unlinked"
    BY <1>1, <2>5 DEF Reaches, ForkPoints, WaitPoints, Sys, Reserve, Unlink
  <2>6. CASE v.pc = "d_end"
    BY <1>1, <2>6 DEF Reaches, ForkPoints, WaitPoints, Sys, Reserve, Unlink
  <2> QED
    BY <1>8, <2>1, <2>2, <2>3, <2>4, <2>5, <2>6
<1> QED
  BY <1>1, <1>2, <1>3, <1>4, <1>5, <1>6, <1>7, <1>8 DEF Points, DriverPoints

(* A call other than wait that returns: the view fits the returned point,  *)
(* the child is the same, the role changes only as a command may become a  *)
(* driver, and a driver gives up its shield only with the files gone.      *)
LEMMA ReturnFits ==
    ASSUME NEW v, Fits(v), v.how = "trapped", v.call.nr # "wait",
           NEW r \in Int, v.call.nr = "fork" => r < 0 /\ 0 <= MaxPid,
           NEW w, w = View(v.pc, r, v.data, "returned", NoCall)
    PROVE  /\ Fits(w) /\ ChildOf(w) = ChildOf(v) /\ ~Newborn(w)
           /\ RoleStep(RoleOf(v), RoleOf(w))
           /\ Unshielded(v) => Unshielded(w) \/ v.call = Sys("defer", 1, 0, 0)
           /\ Awaits(w) => Awaits(v) \/ v.pc = "s_named"
           /\ \A f \in MayExist(v) : f \in MayExist(w) \/ (v.call = Unlink /\ f = v.data.k)
           /\ v.call = Reserve => RoleOf(w) = "driver" /\ v.data.k \in MayExist(w)
<1>1. /\ w.pc = v.pc /\ w.r1 = r /\ w.data = v.data /\ w.how = "returned"
      /\ v.pc \notin WaitPoints /\ (v.pc \in ForkPoints => r < 0 /\ r <= MaxPid)
      /\ Stages \in Nat /\ v.data.k \in 1..(Stages + 1) /\ v.data.k \in Int
  <2>1. v.data \in AllLocals
    BY DEF Fits, LocalsFit
  <2>2. MaxPid \in Nat /\ Stages \in Nat /\ v.data.k \in 1..(Stages + 1)
    BY <2>1, LocalsParts, ConstantsAssumption, SessionAssumption
  <2> QED
    BY <2>2, PointOfCall DEF View
<1>2. Fits(w)
  BY <1>1 DEF Fits, WaitPoints
<1>3. ChildOf(w) = ChildOf(v) /\ ~Newborn(w) /\ ~Newborn(v)
  BY <1>1 DEF ChildOf, Newborn
<1>4. RoleStep(RoleOf(v), RoleOf(w))
  BY <1>1, <1>3 DEF RoleOf, RoleStep, Execs, InitPoints, ShellPoints, DriverPoints
<1>5. /\ Unshielded(v) => Unshielded(w) \/ v.call = Sys("defer", 1, 0, 0)
      /\ Awaits(w) => Awaits(v) \/ v.pc = "s_named"
  BY <1>1, PointOfCall DEF Unshielded, Awaits
<1>6. ASSUME NEW f \in MayExist(v)
      PROVE  f \in MayExist(w) \/ (v.call = Unlink /\ f = v.data.k)
  <2>1. CASE v.pc \in {"d_unreserved", "d_unlinked"}
    <3>1. v.call = Unlink
      BY <2>1, PointOfCall
    <3>2. f \in v.data.k..Stages
      BY <1>6, <2>1 DEF MayExist
    <3>3. MayExist(w) = (v.data.k + 1)..Stages
      BY <1>1, <2>1 DEF MayExist
    <3> QED
      BY <1>1, <3>1, <3>2, <3>3
  <2>2. CASE v.pc = "d_reserved"
    <3>1. f \in 1..(v.data.k - 1) /\ MayExist(w) = 1..v.data.k
      BY <1>1, <1>6, <2>2 DEF MayExist
    <3> QED
      BY <1>1, <3>1
  <2>3. CASE v.pc \notin {"d_unreserved", "d_unlinked", "d_reserved"}
    BY <1>1, <1>6, <2>3 DEF MayExist
  <2> QED
    BY <2>1, <2>2, <2>3
<1>7. ASSUME v.call = Reserve PROVE RoleOf(w) = "driver" /\ v.data.k \in MayExist(w)
  <2>1. v.pc = "d_reserved"
    BY <1>7, PointOfCall
  <2> QED
    BY <1>1, <1>3, <2>1
       DEF MayExist, RoleOf, InitPoints, ShellPoints, DriverPoints, Execs
<1> QED
  BY <1>2, <1>3, <1>4, <1>5, <1>6, <1>7

(* exec of a program: the new image fits, the caller is no driver before it*)
(* and an unshielded driver without files after it.                        *)
LEMMA LoadFits ==
    ASSUME NEW v, Fits(v), v.how = "trapped", v.call.nr = "exec",
           NEW e, e = Program[v.call.a], NEW w, w = View(e, 0, NoLocals, "returned", NoCall)
    PROVE  /\ Fits(w) /\ ChildOf(w) = ChildOf(v) /\ ~Newborn(w)
           /\ RoleStep(RoleOf(v), RoleOf(w)) /\ RoleOf(v) # "driver"
           /\ RoleOf(w) = "driver" => Unshielded(w)
           /\ ~Awaits(w)
<1>1. PICK a \in 1..4 : v.call = Sys("exec", a, 0, 0) /\ v.pc = "no_exec"
  BY PointOfCall
<1>2. /\ w.pc = Program[a] /\ w.r1 = 0 /\ w.how = "returned" /\ w.data = NoLocals
      /\ w.pc = CASE a = 1 -> "sh" [] a = 2 -> "cmd" [] a = 3 -> "cc" [] OTHER -> "stage"
      /\ v.call.a = a
  BY <1>1 DEF View, Program, Sys
<1>3. NoLocals \in AllLocals /\ NoLocals.k = 1 /\ 1 <= Stages
  BY RemaindersClosed, SessionAssumption, ConstantsAssumption DEF NoLocals, Locals, AllLocals
<1>4. Fits(w)
  BY <1>2, <1>3 DEF Fits, LocalsFit, ListPoints, WaitPoints, ForkPoints, Points, DriverPoints
<1>5. ChildOf(w) = 0 /\ ChildOf(v) = 0 /\ ~Newborn(w)
  BY <1>1, <1>2 DEF ChildOf, Newborn, ForkPoints, WaitPoints
<1>6. /\ a = 1 => RoleOf(v) = "shell" /\ RoleOf(w) = "shell"
      /\ a \in {2, 3} => RoleOf(v) = "command" /\ RoleOf(w) \in {"command", "driver"}
      /\ a = 4 => RoleOf(v) = "stage" /\ RoleOf(w) = "stage"
  BY <1>1, <1>2, <1>5
     DEF RoleOf, Execs, InitPoints, ShellPoints, DriverPoints, Newborn, Sys, ForkPoints
<1>7. RoleStep(RoleOf(v), RoleOf(w)) /\ RoleOf(v) # "driver"
  BY <1>6 DEF RoleStep
<1>8. ~Awaits(w)
  BY <1>2 DEF Awaits
<1>9. RoleOf(w) = "driver" => Unshielded(w)
  BY <1>2, <1>6 DEF Unshielded, RoleOf, Execs, InitPoints, ShellPoints, Newborn, DriverPoints
<1> QED
  BY <1>4, <1>5, <1>7, <1>8, <1>9

(* A wait or a read that blocks changes neither the child, nor the role,   *)
(* nor the files.                                                          *)
LEMMA BlockFits ==
    ASSUME NEW v, Fits(v), v.how = "trapped", v.call.nr \in {"wait", "read"},
           NEW w, w = View(v.pc, v.r1, v.data, "blocked", v.call)
    PROVE  /\ Fits(w) /\ ChildOf(w) = ChildOf(v) /\ RoleOf(w) = RoleOf(v)
           /\ ~Unshielded(v) /\ ~Newborn(w)
           /\ Awaits(w) => Awaits(v)
           /\ MayExist(w) = MayExist(v)
<1>1. /\ w.pc = v.pc /\ w.r1 = v.r1 /\ w.data = v.data /\ w.how = "blocked"
      /\ w.call = v.call /\ v.pc \in WaitPoints \cup {"s_line"}
  BY PointOfCall DEF View
<1>2. Fits(w)
  BY <1>1 DEF Fits
<1>3. ChildOf(w) = ChildOf(v) /\ ~Newborn(w) /\ ~Newborn(v)
  BY <1>1 DEF ChildOf, Newborn, ForkPoints
<1>4. RoleOf(w) = RoleOf(v)
  BY <1>1, <1>3 DEF RoleOf, Execs, WaitPoints
<1>5. ~Unshielded(v) /\ (Awaits(w) => Awaits(v)) /\ MayExist(w) = MayExist(v)
  BY <1>1 DEF Unshielded, Awaits, WaitPoints, MayExist
<1> QED
  BY <1>2, <1>3, <1>4, <1>5

(* A wait or a read that ends leaves its caller without a child (it waited *)
(* for its only one) and in the same role.                                 *)
LEMMA WakeFits ==
    ASSUME NEW v, Fits(v), v.how # "returned", v.call.nr \in {"wait", "read"},
           NEW r \in Int, v.pc = "i_waited" => r = v.data.child,
           NEW w, w = View(v.pc, r, v.data, "returned", NoCall)
    PROVE  /\ Fits(w) /\ ChildOf(w) = 0 /\ RoleOf(w) = RoleOf(v)
           /\ v.call.nr = "wait" => /\ ChildOf(v) = v.data.child /\ v.data.child > 0
                                    /\ v.call.a \in {-1, v.data.child} /\ v.call.c = 0
           /\ v.call.nr = "read" => ChildOf(v) = 0
           /\ ~Unshielded(v) /\ ~Newborn(w) /\ ~Newborn(v)
           /\ Awaits(w) => Awaits(v)
           /\ MayExist(w) = MayExist(v)
<1>1. /\ w.pc = v.pc /\ w.r1 = r /\ w.data = v.data /\ w.how = "returned"
      /\ v.pc \in WaitPoints \cup {"s_line"}
      /\ v.call.nr = "wait" <=> v.pc \in WaitPoints
      /\ v.call.nr = "read" <=> v.pc = "s_line"
  BY PointOfCall DEF View
<1>2. Fits(w)
  BY <1>1 DEF Fits, WaitPoints, ForkPoints
<1>3. ChildOf(w) = 0 /\ ~Newborn(w) /\ ~Newborn(v)
  BY <1>1 DEF ChildOf, Newborn, ForkPoints, WaitPoints
<1>4. RoleOf(w) = RoleOf(v)
  BY <1>1, <1>3 DEF RoleOf, Execs, WaitPoints
<1>5. ~Unshielded(v) /\ (Awaits(w) => Awaits(v)) /\ MayExist(w) = MayExist(v)
  BY <1>1 DEF Unshielded, Awaits, WaitPoints, MayExist
<1>6. ASSUME v.call.nr = "wait"
      PROVE  /\ ChildOf(v) = v.data.child /\ v.data.child > 0
             /\ v.call.a \in {-1, v.data.child} /\ v.call.c = 0
  <2>1. v.pc \in WaitPoints /\ v.data.child > 0
    BY <1>1, <1>6 DEF Fits, LocalsFit
  <2>2. v.call \in {Sys("wait", -1, 1, 0), Sys("wait", v.data.child, 1, 0)}
    BY <2>1 DEF Reaches, WaitPoints, ForkPoints, Fits
  <2> QED
    BY <2>1, <2>2 DEF ChildOf, WaitPoints, ForkPoints, Sys
<1>7. v.call.nr = "read" => ChildOf(v) = 0
  BY <1>1 DEF ChildOf, ForkPoints, WaitPoints
<1> QED
  BY <1>2, <1>3, <1>4, <1>5, <1>6, <1>7

(* fork: the parent has the child it just made, the child is a newborn copy*)
(* without one, and its role follows from its parent's: init makes the     *)
(* shell, the shell a command, the driver a stage.                         *)
LEMMA ForkFits ==
    ASSUME NEW v, Fits(v), v.how = "trapped", v.call.nr = "fork", NEW p \in 1..MaxPid,
           NEW w, w = View(v.pc, p, v.data, "returned", NoCall),
           NEW n, n = View(v.pc, 0, v.data, "returned", NoCall)
    PROVE  /\ Fits(w) /\ Fits(n) /\ ChildOf(v) = 0 /\ ChildOf(w) = p /\ ChildOf(n) = 0
           /\ Newborn(n) /\ ~Newborn(w) /\ RoleOf(w) = RoleOf(v)
           /\ \/ RoleOf(v) = "init" /\ RoleOf(n) = "shell"
              \/ RoleOf(v) = "shell" /\ RoleOf(n) = "command"
              \/ RoleOf(v) = "driver" /\ RoleOf(n) = "stage"
           /\ ~Unshielded(v) /\ ~Awaits(n) /\ ~Awaits(w)
           /\ MayExist(w) = MayExist(v)
<1>1. /\ w.pc = v.pc /\ w.r1 = p /\ w.data = v.data /\ w.how = "returned"
      /\ n.pc = v.pc /\ n.r1 = 0 /\ n.data = v.data /\ n.how = "returned"
      /\ v.pc \in ForkPoints /\ p > 0 /\ p \in Int /\ p <= MaxPid /\ MaxPid \in Nat
  BY PointOfCall, ConstantsAssumption DEF View
<1>2. Fits(w) /\ Fits(n)
  BY <1>1 DEF Fits, WaitPoints, ForkPoints
<1>3. /\ ChildOf(v) = 0 /\ ChildOf(w) = p /\ ChildOf(n) = 0
      /\ Newborn(n) /\ ~Newborn(w) /\ ~Newborn(v)
  BY <1>1 DEF ChildOf, Newborn, ForkPoints, WaitPoints
<1>4. /\ RoleOf(w) = RoleOf(v)
      /\ \/ RoleOf(v) = "init" /\ RoleOf(n) = "shell"
         \/ RoleOf(v) = "shell" /\ RoleOf(n) = "command"
         \/ RoleOf(v) = "driver" /\ RoleOf(n) = "stage"
  BY <1>1, <1>3 DEF RoleOf, Execs, ForkPoints, InitPoints, ShellPoints, DriverPoints
<1>5. ~Unshielded(v) /\ ~Awaits(n) /\ ~Awaits(w) /\ MayExist(w) = MayExist(v)
  BY <1>1 DEF Unshielded, Awaits, ForkPoints, MayExist
<1> QED
  BY <1>2, <1>3, <1>4, <1>5

(* Processes that end have no child and leave no file behind.              *)
LEMMA ExitFits ==
    ASSUME NEW v, Fits(v), v.how = "trapped", v.call.nr = "exit"
    PROVE  ChildOf(v) = 0 /\ (RoleOf(v) = "driver" => MayExist(v) = {})
<1>1. v.pc \in {"init", "no_exec", "sh", "cc", "cmd", "stage"}
  BY PointOfCall
<1>2. ChildOf(v) = 0
  BY <1>1 DEF ChildOf, ForkPoints, WaitPoints
<1>3. RoleOf(v) = "driver" => v.pc = "cc"
  BY <1>1 DEF RoleOf, DriverPoints
<1> QED
  BY <1>2, <1>3 DEF MayExist

(* A process that a cancellation may kill (neither init nor the shell, and *)
(* a driver only while unshielded) has no child and no temporary file.     *)
LEMMA KillFits ==
    ASSUME NEW v, Fits(v), RoleOf(v) \notin {"init", "shell"},
           RoleOf(v) = "driver" => Unshielded(v)
    PROVE  ChildOf(v) = 0 /\ (RoleOf(v) = "driver" => MayExist(v) = {})
<1>1. CASE RoleOf(v) = "driver"
  <2>1. v.pc \in {"cc", "d_deferred"}
    BY <1>1 DEF Unshielded
  <2> QED
    BY <2>1 DEF ChildOf, ForkPoints, WaitPoints, MayExist
<1>2. CASE RoleOf(v) # "driver"
  BY <1>2 DEF RoleOf, ChildOf, ForkPoints, WaitPoints, InitPoints, ShellPoints, DriverPoints,
              Newborn
<1> QED
  BY <1>1, <1>2

(***************************************************************************)
(* The order of processes.                                                 *)
(***************************************************************************)
(* What a change of one view changes.                                      *)
LEMMA Becoming ==
    ASSUME NEW s \in Slot, NEW v, Becomes(s, v)
    PROVE  /\ Kid' = [Kid EXCEPT ![s] = ChildOf(v)]
           /\ Born' = [Born EXCEPT ![s] = Newborn(v)]
           /\ Role' = [Role EXCEPT ![s] = RoleOf(v)]
           /\ view'[s] = v /\ \A t \in Slot : t # s => view'[t] = view[t]
<1>1. view = [t \in Slot |-> view[t]]
  BY DEF view
<1>2. view'[s] = v /\ \A t \in Slot : t # s => view'[t] = view[t]
  BY <1>1 DEF Becomes
<1>3. /\ Kid' = [t \in Slot |-> ChildOf(view'[t])] /\ Born' = [t \in Slot |-> Newborn(view'[t])]
      /\ Role' = [t \in Slot |-> RoleOf(view'[t])]
  BY DEF Kid, Born, Role
<1>4. Kid' = [Kid EXCEPT ![s] = ChildOf(v)]
  BY <1>2, <1>3 DEF Kid
<1>5. Born' = [Born EXCEPT ![s] = Newborn(v)]
  BY <1>2, <1>3 DEF Born
<1>6. Role' = [Role EXCEPT ![s] = RoleOf(v)]
  BY <1>2, <1>3 DEF Role
<1> QED
  BY <1>2, <1>4, <1>5, <1>6

(* The three functions of the order, read at one slot.                     *)
LEMMA KidIs ==
    ASSUME NEW s \in Slot
    PROVE  Kid[s] = ChildOf(view[s]) /\ Born[s] = Newborn(view[s]) /\ Role[s] = RoleOf(view[s])
BY DEF Kid, Born, Role

(* A process without a child is the last of the chain.                     *)
LEMMA LastOfChain ==
    ASSUME TypeOK, PidsOK, Chain, NEW s \in Slot, occupied(s), Kid[s] = 0
    PROVE  \A t \in Slot : occupied(t) => /\ father[t] # pid[s]
                                          /\ t = s \/ pid[t] < pid[s]
<1> SUFFICES ASSUME NEW t \in Slot, occupied(t)
             PROVE  father[t] # pid[s] /\ (t = s \/ pid[t] < pid[s])
  OBVIOUS
<1>1. pid[s] \in Nat /\ pid[t] \in Nat /\ 0 < pid[t] /\ (pid[t] = pid[s] => t = s)
  BY DEF TypeOK, PidsOK
<1>2. father[t] = pid[s] <=> pid[t] = Kid[s]
  BY DEF Chain
<1>3. pid[s] < pid[t] => 0 < Kid[s]
  BY DEF Chain
<1> QED
  BY <1>1, <1>2, <1>3

(* One process goes on, and nobody starts or ends.                         *)
LEMMA OrderMoves ==
    ASSUME TypeOK, Order, NEW a \in Slot, a = active, UNCHANGED <<pid, father>>,
           \A s \in Slot : /\ live(s)' <=> live(s)
                           /\ occupied(s)' <=> occupied(s)
                           /\ state'[s] = "running" => state[s] = "running",
           Kid' = Kid, \A s \in Slot \ {a} : Born'[s] = Born[s] /\ Role'[s] = Role[s],
           RoleStep(Role[a], Role'[a]),
           active' = a \/ (state[a] # "running" /\ Born'[a] = Born[a])
    PROVE  Order'
<1>1. InitStays'
  <2>1. 1 \in Slot
    BY ConstantsAssumption DEF Slot
  <2> QED
    BY <2>1 DEF Order, InitStays, occupied
<1>2. Chain'
  BY DEF Order, Chain
<1>3. Turns'
  <2> SUFFICES ASSUME NEW s \in Slot, NEW t \in Slot, live(t)', state'[s] = "running",
                      pid'[s] < pid'[t]
               PROVE  s = active' /\ Born'[t]
    BY DEF Turns
  <2>1. live(t) /\ state[s] = "running" /\ pid[s] < pid[t]
    OBVIOUS
  <2>2. s = a /\ Born[t]
    BY <2>1 DEF Order, Turns
  <2>3. active' = a
    BY <2>1, <2>2
  <2>4. t # a
    BY <2>1, <2>2 DEF TypeOK
  <2> QED
    BY <2>2, <2>3, <2>4
<1>4. Roles'
  <2> SUFFICES ASSUME NEW s \in Slot, live(s)'
               PROVE  /\ Role'[s] = "init" <=> pid'[s] = 1
                      /\ Role'[s] = "shell" => father'[s] = 1
                      /\ Role'[s] \in {"command", "driver"} =>
                            \E f \in Slot : live(f)' /\ father'[f] = 1 /\ pid'[f] = father'[s]
                      /\ Role'[s] = "stage" =>
                            \E f \in Slot : live(f)' /\ Role'[f] = "driver" /\ pid'[f] = father'[s]
    BY DEF Roles
  <2>1. /\ Role[s] = "init" <=> pid[s] = 1
        /\ Role[s] = "shell" => father[s] = 1
        /\ Role[s] \in {"command", "driver"} =>
              \E f \in Slot : live(f) /\ father[f] = 1 /\ pid[f] = father[s]
        /\ Role[s] = "stage" =>
              \E f \in Slot : live(f) /\ Role[f] = "driver" /\ pid[f] = father[s]
    BY DEF Order, Roles
  <2>2. /\ Role'[s] = "init" <=> Role[s] = "init"
        /\ Role'[s] = "shell" => Role[s] = "shell"
        /\ Role'[s] \in {"command", "driver"} => Role[s] \in {"command", "driver"}
        /\ Role'[s] = "stage" => Role[s] = "stage"
    <3>1. CASE s = a
      BY <3>1 DEF RoleStep
    <3>2. CASE s # a
      BY <3>2
    <3> QED
      BY <3>1, <3>2
  <2>3. \A f \in Slot : Role[f] = "driver" => Role'[f] = "driver"
    BY DEF RoleStep
  <2> QED
    BY <2>1, <2>2, <2>3
<1> QED
  BY <1>1, <1>2, <1>3, <1>4 DEF Order

(* The last process ends.                                                  *)
LEMMA OrderDeath ==
    ASSUME TypeOK, PidsOK, Order, NEW s \in Slot, live(s), Kid[s] = 0,
           NEW code, exit_current(s, code),
           Kid' = Kid, \A t \in Slot \ {s} : Born'[t] = Born[t] /\ Role'[t] = Role[t],
           active' = s
    PROVE  Order' /\ UNCHANGED <<pid, father>>
<1>0. /\ occupied(s) /\ pid' = pid /\ state' = [state EXCEPT ![s] = "zombie"]
      /\ state \in [Slot -> States] /\ father \in [Slot -> Nat]
  BY DEF exit_current, live, occupied, TypeOK
<1>a. \A t \in Slot : occupied(t) => father[t] # pid[s] /\ (t = s \/ pid[t] < pid[s])
  BY <1>0, LastOfChain DEF Order
<1>b. father' = father
  <2>1. father' = [t \in Slot |-> father[t]]
    BY <1>a DEF exit_current
  <2> QED
    BY <1>0, <2>1
<1>c. \A t \in Slot : /\ occupied(t)' <=> occupied(t)
                      /\ live(t)' <=> live(t) /\ t # s
                      /\ state'[t] = "running" => state[t] = "running"
  BY <1>0 DEF live, occupied
<1>1. InitStays'
  <2>1. 1 \in Slot
    BY ConstantsAssumption DEF Slot
  <2> QED
    BY <1>0, <1>b, <1>c, <2>1 DEF Order, InitStays, occupied
<1>2. Chain'
  <2>1. \A t \in Slot : Kid[t] # 0 => t # s
    OBVIOUS
  <2> QED
    BY <1>0, <1>b, <1>c, <2>1 DEF Order, Chain
<1>3. Turns'
  <2> SUFFICES ASSUME NEW u \in Slot, NEW t \in Slot, live(t)', state'[u] = "running",
                      pid'[u] < pid'[t]
               PROVE  FALSE
    BY DEF Turns
  <2>1. live(t) /\ state[u] = "running" /\ pid[u] < pid[t] /\ t # s /\ u # s
    BY <1>0, <1>c DEF States
  <2>2. u = active /\ Born[t] /\ pid[t] < pid[s] /\ pid[u] < pid[s]
    <3>1. u = active /\ Born[t]
      BY <2>1 DEF Order, Turns
    <3>2. pid[t] < pid[s] /\ pid[u] < pid[s]
      BY <1>a, <2>1 DEF live, occupied
    <3> QED
      BY <3>1, <3>2
  <2>3. Kid[t] = 0
    BY <2>2 DEF Kid, Born, Newborn, ChildOf, ForkPoints, WaitPoints
  <2>4. occupied(t) /\ pid[t] \in Nat /\ pid[s] \in Nat /\ (pid[t] < pid[s] => 0 < Kid[t])
    BY <1>0, <2>1 DEF Order, Chain, live, occupied, TypeOK
  <2> QED
    BY <2>2, <2>3, <2>4
<1>4. Roles'
  <2>1. \A t, f \in Slot : live(t) /\ live(f) /\ pid[f] = father[t] => f # s
    BY <1>a DEF live, occupied
  <2> QED
    BY <1>0, <1>b, <1>c, <2>1 DEF Order, Roles
<1> QED
  BY <1>0, <1>1, <1>2, <1>3, <1>4, <1>b DEF Order

(* fork: a new last process.                                               *)
LEMMA OrderFork ==
    ASSUME TypeOK, PidsOK, Order, NEW a \in Slot, a = active, live(a), Kid[a] = 0,
           NEW n \in Slot, state[n] = "free", n # a,
           pid' = [pid EXCEPT ![n] = next_pid + 1], father' = [father EXCEPT ![n] = pid[a]],
           state' = [state EXCEPT ![n] = "running"],
           \A s \in Slot \ {a, n} : Kid'[s] = Kid[s] /\ Born'[s] = Born[s],
           Kid' \in [Slot -> Nat], Kid'[a] = next_pid + 1, Kid'[n] = 0, Born'[n],
           \A s \in Slot \ {n} : Role'[s] = Role[s],
           \/ Role[a] = "init" /\ Role'[n] = "shell"
           \/ Role[a] = "shell" /\ Role'[n] = "command"
           \/ Role[a] = "driver" /\ Role'[n] = "stage",
           active' = a
    PROVE  Order'
<1>0. /\ pid \in [Slot -> Nat] /\ father \in [Slot -> Nat] /\ state \in [Slot -> States]
      /\ next_pid \in Nat /\ next_pid + 1 \in Nat /\ occupied(a) /\ ~occupied(n)
  BY DEF TypeOK, live, occupied
<1>a. /\ pid'[n] = next_pid + 1 /\ father'[n] = pid[a] /\ state'[n] = "running"
      /\ \A s \in Slot \ {n} : pid'[s] = pid[s] /\ father'[s] = father[s] /\ state'[s] = state[s]
  BY <1>0
<1>b. /\ live(n)' /\ occupied(n)'
      /\ \A s \in Slot \ {n} : (live(s)' <=> live(s)) /\ (occupied(s)' <=> occupied(s))
  BY <1>a DEF live, occupied
<1>c. \A s \in Slot : occupied(s) => /\ father[s] # pid[a] /\ (s = a \/ pid[s] < pid[a])
                                     /\ 0 < pid[s] /\ pid[s] < next_pid + 1
                                     /\ father[s] < next_pid + 1
                                     /\ (pid[s] = pid[a] => s = a)
  <2> SUFFICES ASSUME NEW s \in Slot, occupied(s)
               PROVE  /\ father[s] # pid[a] /\ (s = a \/ pid[s] < pid[a])
                      /\ 0 < pid[s] /\ pid[s] < next_pid + 1
                      /\ father[s] < next_pid + 1
                      /\ (pid[s] = pid[a] => s = a)
    OBVIOUS
  <2>1. father[s] # pid[a] /\ (s = a \/ pid[s] < pid[a])
    BY <1>0, LastOfChain DEF Order
  <2>2. /\ 0 < pid[s] /\ pid[s] <= next_pid /\ father[s] < pid[s]
        /\ (pid[s] = pid[a] => s = a)
    BY <1>0 DEF PidsOK
  <2>3. pid[s] \in Nat /\ father[s] \in Nat
    BY <1>0
  <2> QED
    BY <1>0, <2>1, <2>2, <2>3
<1>1. InitStays'
  <2>1. 1 \in Slot /\ occupied(1) /\ n # 1
    BY ConstantsAssumption DEF Slot, Order, InitStays, occupied
  <2> QED
    BY <1>a, <2>1 DEF Order, InitStays
<1>2. Chain'
  <2>1. \A s \in Slot : Kid'[s] # 0 => live(s)' /\ \E t \in Slot : occupied(t)' /\ pid'[t] = Kid'[s]
    <3> SUFFICES ASSUME NEW s \in Slot, Kid'[s] # 0
                 PROVE  live(s)' /\ \E t \in Slot : occupied(t)' /\ pid'[t] = Kid'[s]
      OBVIOUS
    <3>1. CASE s = a
      BY <1>a, <1>b, <3>1
    <3>2. CASE s # a
      <4>1. s # n /\ Kid[s] # 0
        BY <3>2
      <4>2. live(s) /\ \E t \in Slot : occupied(t) /\ pid[t] = Kid[s]
        BY <4>1 DEF Order, Chain
      <4>3. PICK t \in Slot : occupied(t) /\ pid[t] = Kid[s]
        BY <4>2
      <4>4. t # n
        BY <1>0, <4>3
      <4> QED
        BY <1>a, <1>b, <3>2, <4>1, <4>2, <4>3, <4>4
    <3> QED
      BY <3>1, <3>2
  <2>2. ASSUME NEW s \in Slot, NEW t \in Slot, occupied(s)', occupied(t)'
        PROVE  /\ pid'[s] < pid'[t] => 0 < Kid'[s] /\ Kid'[s] <= pid'[t]
               /\ father'[t] = pid'[s] <=> pid'[t] = Kid'[s]
    <3>1. CASE s # n /\ t # n
      <4>1. /\ occupied(s) /\ occupied(t) /\ pid'[s] = pid[s] /\ pid'[t] = pid[t]
            /\ father'[t] = father[t]
        BY <1>a, <1>b, <2>2, <3>1
      <4>2. /\ pid[s] < pid[t] => 0 < Kid[s] /\ Kid[s] <= pid[t]
            /\ father[t] = pid[s] <=> pid[t] = Kid[s]
        BY <4>1 DEF Order, Chain
      <4>3. CASE s = a
        <5>1. father[t] # pid[s] /\ ~(pid[s] < pid[t]) /\ pid[t] # next_pid + 1
          BY <1>0, <1>c, <4>1, <4>3
        <5> QED
          BY <4>1, <4>3, <5>1
      <4>4. CASE s # a
        BY <3>1, <4>1, <4>2, <4>4
      <4> QED
        BY <4>3, <4>4
    <3>2. CASE s = n /\ t # n
      <4>1. occupied(t) /\ pid'[t] = pid[t] /\ father'[t] = father[t]
        BY <1>a, <1>b, <2>2, <3>2
      <4>2. pid[t] < next_pid + 1 /\ father[t] < next_pid + 1 /\ 0 < pid[t]
            /\ pid[t] \in Nat /\ father[t] \in Nat
        BY <1>0, <1>c, <4>1
      <4> QED
        BY <1>0, <1>a, <3>2, <4>1, <4>2
    <3>3. CASE s # n /\ t = n
      <4>1. occupied(s) /\ pid'[s] = pid[s] /\ pid'[t] = next_pid + 1 /\ father'[t] = pid[a]
        BY <1>a, <1>b, <2>2, <3>3
      <4>2. CASE s = a
        BY <1>0, <4>1, <4>2
      <4>3. CASE s # a
        <5>1. pid[s] < pid[a] /\ pid[s] # pid[a]
          BY <1>0, <1>c, <4>1, <4>3
        <5>2. 0 < Kid[s] /\ Kid[s] <= pid[a] /\ pid[a] < next_pid + 1
          BY <1>0, <1>c, <4>1, <5>1 DEF Order, Chain
        <5>3. Kid'[s] = Kid[s] /\ Kid[s] \in Nat /\ pid[a] \in Nat
          BY <1>0, <3>3, <4>3 DEF Order, Chain
        <5> QED
          BY <1>0, <4>1, <5>1, <5>2, <5>3
      <4> QED
        BY <4>2, <4>3
    <3>4. CASE s = n /\ t = n
      <4>1. pid[a] \in Nat /\ pid[a] < next_pid + 1
        BY <1>0, <1>c
      <4> QED
        BY <1>0, <1>a, <3>4, <4>1
    <3> QED
      BY <3>1, <3>2, <3>3, <3>4
  <2> QED
    BY <2>1, <2>2 DEF Chain
<1>3. Turns'
  <2> SUFFICES ASSUME NEW s \in Slot, NEW t \in Slot, live(t)', state'[s] = "running",
                      pid'[s] < pid'[t]
               PROVE  s = a /\ Born'[t]
    BY DEF Turns
  <2>1. CASE t = n /\ s # n
    <3>1. state[s] = "running" /\ occupied(s) /\ live(a)
      BY <1>a, <2>1 DEF occupied
    <3>2. s # a => pid[s] < pid[a]
      BY <1>c, <3>1
    <3>3. s # a => s = active
      BY <3>1, <3>2 DEF Order, Turns
    <3> QED
      BY <2>1, <3>3
  <2>2. CASE s = n
    <3>1. t # n
      BY <1>0, <1>a, <2>2
    <3>2. occupied(t) /\ pid'[t] = pid[t] /\ pid'[s] = next_pid + 1
      BY <1>a, <1>b, <2>2, <3>1 DEF live, occupied
    <3>3. pid[t] < next_pid + 1 /\ pid[t] \in Nat
      BY <1>0, <1>c, <3>2
    <3> QED
      BY <1>0, <3>2, <3>3
  <2>3. CASE s # n /\ t # n
    <3>1. state[s] = "running" /\ live(t) /\ occupied(t) /\ pid[s] < pid[t]
      BY <1>a, <1>b, <2>3 DEF live, occupied
    <3>2. s = a
      BY <3>1 DEF Order, Turns
    <3>3. pid[t] < pid[a] /\ pid[t] \in Nat /\ pid[a] \in Nat
      BY <1>0, <1>c, <3>1, <3>2
    <3> QED
      BY <3>1, <3>2, <3>3
  <2> QED
    BY <2>1, <2>2, <2>3
<1>4. Roles'
  <2> SUFFICES ASSUME NEW s \in Slot, live(s)'
               PROVE  /\ Role'[s] = "init" <=> pid'[s] = 1
                      /\ Role'[s] = "shell" => father'[s] = 1
                      /\ Role'[s] \in {"command", "driver"} =>
                            \E f \in Slot : live(f)' /\ father'[f] = 1 /\ pid'[f] = father'[s]
                      /\ Role'[s] = "stage" =>
                            \E f \in Slot : live(f)' /\ Role'[f] = "driver" /\ pid'[f] = father'[s]
    BY DEF Roles
  <2>1. CASE s # n
    <3>1. /\ live(s) /\ Role'[s] = Role[s] /\ pid'[s] = pid[s] /\ father'[s] = father[s]
      BY <1>a, <1>b, <2>1
    <3>2. /\ Role[s] = "init" <=> pid[s] = 1
          /\ Role[s] = "shell" => father[s] = 1
          /\ Role[s] \in {"command", "driver"} =>
                \E f \in Slot : live(f) /\ father[f] = 1 /\ pid[f] = father[s]
          /\ Role[s] = "stage" =>
                \E f \in Slot : live(f) /\ Role[f] = "driver" /\ pid[f] = father[s]
      BY <3>1 DEF Order, Roles
    <3>3. \A f \in Slot : live(f) => /\ f # n /\ live(f)' /\ father'[f] = father[f]
                                     /\ pid'[f] = pid[f] /\ Role'[f] = Role[f]
      BY <1>0, <1>a, <1>b DEF live, occupied
    <3> QED
      BY <3>1, <3>2, <3>3
  <2>2. CASE s = n
    <3>1. /\ father'[s] = pid[a] /\ pid'[s] = next_pid + 1 /\ live(a)' /\ pid'[a] = pid[a]
          /\ father'[a] = father[a] /\ Role'[a] = Role[a]
      BY <1>a, <1>b, <2>2
    <3>2. next_pid + 1 # 1
      BY <1>0, <1>c
    <3>3. Role[a] = "init" => pid[a] = 1
      BY DEF Order, Roles
    <3>4. Role[a] = "shell" => father[a] = 1
      BY DEF Order, Roles
    <3> QED
      BY <2>2, <3>1, <3>2, <3>3, <3>4
  <2> QED
    BY <2>1, <2>2
<1> QED
  BY <1>1, <1>2, <1>3, <1>4 DEF Order

(* A process whose wait or read ends is the last one again; z is the child *)
(* that its wait has reaped, 0 for none.                                   *)
LEMMA OrderWakes ==
    ASSUME TypeOK, PidsOK, Order, NEW s \in Slot, live(s), UNCHANGED <<pid, father>>,
           state'[s] = "running", NEW z \in Slot \cup {0},
           \A t \in Slot : t # s /\ t # z => state'[t] = state[t],
           z = 0 => Kid[s] = 0,
           z # 0 => z # s /\ state[z] = "zombie" /\ pid[z] = Kid[s] /\ state'[z] = "free",
           Kid' = [Kid EXCEPT ![s] = 0], ~Born'[s], ~Born[s],
           \A t \in Slot \ {s} : Born'[t] = Born[t],
           \A t \in Slot : Role'[t] = Role[t],
           active' = s
    PROVE  Order'
<1>0. /\ pid \in [Slot -> Nat] /\ father \in [Slot -> Nat] /\ Kid \in [Slot -> Nat]
      /\ occupied(s) /\ 0 \notin Slot
  BY DEF TypeOK, live, occupied, Order, Chain, Slot
<1>b. /\ live(s)' /\ \A t \in Slot : live(t)' <=> live(t)
      /\ \A t \in Slot : occupied(t)' <=> occupied(t) /\ t # z
  BY <1>0 DEF live, occupied
<1>c. \A t \in Slot : occupied(t)' => (t = s \/ pid[t] < pid[s])
  <2> SUFFICES ASSUME NEW t \in Slot, occupied(t)' PROVE t = s \/ pid[t] < pid[s]
    OBVIOUS
  <2>1. occupied(t) /\ t # z
    BY <1>b
  <2>2. CASE z = 0
    BY <1>0, <2>1, <2>2, LastOfChain DEF Order
  <2>3. CASE z # 0
    <3>1. z \in Slot /\ occupied(z) /\ Kid[z] = 0
      BY <2>3 DEF occupied, Order, Chain, live
    <3>2. pid[t] < pid[z]
      BY <2>1, <3>1, LastOfChain DEF Order
    <3>3. pid[s] < pid[t] => Kid[s] <= pid[t]
      BY <1>0, <2>1 DEF Order, Chain
    <3>4. pid[t] = pid[s] => t = s
      BY <1>0, <2>1 DEF PidsOK
    <3> QED
      BY <1>0, <2>3, <3>2, <3>3, <3>4
  <2> QED
    BY <2>2, <2>3
<1>1. InitStays'
  <2>1. 1 \in Slot /\ father[1] = 0 /\ state[1] # "free"
    BY ConstantsAssumption DEF Slot, Order, InitStays
  <2>2. z # 1
    <3> SUFFICES ASSUME z = 1 PROVE FALSE
      OBVIOUS
    <3>1. father[1] = pid[s]
      BY <1>0, <2>1 DEF Order, Chain, occupied
    <3> QED
      BY <1>0, <2>1, <3>1 DEF PidsOK
  <2> QED
    BY <1>b, <2>1, <2>2 DEF Order, InitStays, occupied
<1>2. Chain'
  <2>1. Kid' \in [Slot -> Nat] /\ Kid'[s] = 0 /\ \A t \in Slot \ {s} : Kid'[t] = Kid[t]
    BY <1>0
  <2>2. ASSUME NEW u \in Slot, Kid'[u] # 0
        PROVE  live(u)' /\ \E t \in Slot : occupied(t)' /\ pid[t] = Kid'[u]
    <3>1. u # s /\ Kid'[u] = Kid[u]
      BY <2>1, <2>2
    <3>2. PICK t \in Slot : live(u) /\ occupied(t) /\ pid[t] = Kid[u]
      BY <2>2, <3>1 DEF Order, Chain
    <3>3. t # z
      <4> SUFFICES ASSUME t = z PROVE FALSE
        OBVIOUS
      <4>1. father[t] = pid[s] /\ father[t] = pid[u]
        BY <1>0, <3>2 DEF Order, Chain, occupied, live
      <4> QED
        BY <1>0, <3>1, <3>2, <4>1 DEF PidsOK, live, occupied
    <3> QED
      BY <1>b, <3>1, <3>2, <3>3
  <2>3. ASSUME NEW u \in Slot, NEW v \in Slot, occupied(u)', occupied(v)'
        PROVE  /\ pid[u] < pid[v] => 0 < Kid'[u] /\ Kid'[u] <= pid[v]
               /\ father[v] = pid[u] <=> pid[v] = Kid'[u]
    <3>1. /\ occupied(u) /\ occupied(v) /\ v # z
          /\ pid[u] < pid[v] => 0 < Kid[u] /\ Kid[u] <= pid[v]
          /\ father[v] = pid[u] <=> pid[v] = Kid[u]
      BY <1>b, <2>3 DEF Order, Chain
    <3>2. CASE u = s
      <4>1. ~(pid[u] < pid[v])
        BY <1>0, <1>c, <2>3, <3>2
      <4>2. pid[v] # 0
        BY <1>0, <3>1 DEF PidsOK
      <4>3. father[v] # pid[u]
        BY <1>0, <3>1, <4>1 DEF PidsOK
      <4> QED
        BY <2>1, <3>2, <4>1, <4>2, <4>3
    <3>3. CASE u # s
      BY <2>1, <3>1, <3>3
    <3> QED
      BY <3>2, <3>3
  <2> QED
    BY <2>1, <2>2, <2>3 DEF Chain
<1>3. Turns'
  <2> SUFFICES ASSUME NEW u \in Slot, NEW t \in Slot, live(t)', state'[u] = "running",
                      pid[u] < pid[t]
               PROVE  FALSE
    BY DEF Turns
  <2>1. live(t) /\ occupied(t)' /\ occupied(t) /\ (t = s \/ pid[t] < pid[s])
    BY <1>b, <1>c DEF live, occupied
  <2>2. u # s /\ u # z
    BY <1>0, <1>c, <2>1
  <2>3. state[u] = "running"
    BY <2>2
  <2>4. Born[t]
    BY <2>1, <2>3 DEF Order, Turns
  <2>5. t # s /\ Kid[t] = 0
    BY <2>4 DEF Kid, Born, Newborn, ChildOf, ForkPoints, WaitPoints
  <2>6. pid[t] < pid[s] => 0 < Kid[t]
    BY <1>0, <2>1 DEF Order, Chain
  <2> QED
    BY <1>0, <2>1, <2>5, <2>6
<1>4. Roles'
  <2> SUFFICES ASSUME NEW t \in Slot, live(t)'
               PROVE  /\ Role[t] = "init" <=> pid[t] = 1
                      /\ Role[t] = "shell" => father[t] = 1
                      /\ Role[t] \in {"command", "driver"} =>
                            \E f \in Slot : live(f) /\ father[f] = 1 /\ pid[f] = father[t]
                      /\ Role[t] = "stage" =>
                            \E f \in Slot : live(f) /\ Role[f] = "driver" /\ pid[f] = father[t]
    BY <1>b DEF Roles
  <2> QED
    BY <1>b DEF Order, Roles
<1> QED
  BY <1>1, <1>2, <1>3, <1>4 DEF Order

(***************************************************************************)
(* The kinds of steps.                                                     *)
(***************************************************************************)
(* The active process goes on, or falls asleep in its call.                *)
GoesOn(a, w) ==
    /\ a \in Slot /\ a = active /\ active' = a /\ live(a)
    /\ Becomes(a, w) /\ Fits(w)
    /\ RoleStep(RoleOf(view[a]), RoleOf(w)) /\ ChildOf(w) = ChildOf(view[a])
    /\ UNCHANGED <<pid, father, exit_code, next_pid>>
    /\ state'[a] \in {"running", "blocked"} /\ state[a] = "running"
    /\ \A s \in Slot \ {a} : state'[s] = state[s]

(* The call that process s waits in ends, and its wait has reaped z.       *)
Wakes(s, w, z) ==
    /\ s \in Slot /\ live(s) /\ active' = s
    /\ Becomes(s, w) /\ Fits(w)
    /\ RoleOf(w) = RoleOf(view[s]) /\ ChildOf(w) = 0 /\ ~Newborn(w) /\ ~Newborn(view[s])
    /\ UNCHANGED <<pid, father, exit_code, next_pid>>
    /\ z \in Slot \cup {0}
    /\ z = 0 => Kid[s] = 0
    /\ z # 0 => z # s /\ state[z] = "zombie" /\ pid[z] = Kid[s] /\ state'[z] = "free"
    /\ state'[s] = "running" /\ \A t \in Slot : t # s /\ t # z => state'[t] = state[t]

(* The last process, s, ends.                                              *)
Dies(s, code) ==
    /\ s \in Slot /\ live(s) /\ active' = s /\ Kid[s] = 0
    /\ Becomes(s, Gone) /\ exit_current(s, code) /\ UNCHANGED next_pid

(* The active process makes a new one in slot n.                           *)
Forks(a, n) ==
    /\ a \in Slot /\ a = active /\ active' = a /\ live(a) /\ n \in Slot /\ state[n] = "free"
    /\ n # a /\ Fits(view'[a]) /\ Fits(view'[n])
    /\ pid' = [pid EXCEPT ![n] = next_pid + 1] /\ father' = [father EXCEPT ![n] = pid[a]]
    /\ state' = [state EXCEPT ![n] = "running"] /\ exit_code' = [exit_code EXCEPT ![n] = 0]
    /\ next_pid' = next_pid + 1
    /\ \A t \in Slot \ {n, a} : view'[t] = view[t]
    /\ Kid[a] = 0 /\ ChildOf(view'[a]) = next_pid + 1 /\ ChildOf(view'[n]) = 0
    /\ Newborn(view'[n]) /\ RoleOf(view'[a]) = RoleOf(view[a])
    /\ \/ RoleOf(view[a]) = "init" /\ RoleOf(view'[n]) = "shell"
       \/ RoleOf(view[a]) = "shell" /\ RoleOf(view'[n]) = "command"
       \/ RoleOf(view[a]) = "driver" /\ RoleOf(view'[n]) = "stage"

(* No process changes, whoever is active next.                             *)
Rests ==
    /\ view' = view /\ UNCHANGED <<pid, father, state, exit_code, next_pid>>
    /\ active' = active \/ state[active] # "running"

(* A process that goes on without a fork, a wait or an end keeps the order *)
(* of the processes.                                                       *)
LEMMA GoesOnOrder ==
    ASSUME TypeOK, ProgramsFit, Order, NEW a, NEW w, GoesOn(a, w)
    PROVE  Order' /\ ProgramsFit'
<1>0. /\ a \in Slot /\ a = active /\ active' = a /\ live(a)
      /\ Becomes(a, w) /\ Fits(w) /\ UNCHANGED <<pid, father>>
      /\ RoleStep(RoleOf(view[a]), RoleOf(w)) /\ ChildOf(w) = ChildOf(view[a])
      /\ state'[a] \in {"running", "blocked"} /\ state[a] = "running"
      /\ \A s \in Slot \ {a} : state'[s] = state[s]
  BY DEF GoesOn
<1>1. /\ Kid' = [Kid EXCEPT ![a] = ChildOf(w)]
      /\ Born' = [Born EXCEPT ![a] = Newborn(w)]
      /\ Role' = [Role EXCEPT ![a] = RoleOf(w)]
      /\ view'[a] = w /\ \A t \in Slot : t # a => view'[t] = view[t]
  BY <1>0, Becoming
<1>2. Kid[a] = ChildOf(view[a]) /\ Role[a] = RoleOf(view[a]) /\ Kid \in [Slot -> Nat]
  BY <1>0, KidIs DEF Order, Chain
<1>3. Kid' = Kid
  BY <1>0, <1>1, <1>2
<1>4. \A s \in Slot \ {a} : Born'[s] = Born[s] /\ Role'[s] = Role[s]
  BY <1>1 DEF Born, Role
<1>5. Role'[a] = RoleOf(w)
  BY <1>0, <1>1 DEF Role
<1>6. \A s \in Slot : /\ live(s)' <=> live(s)
                      /\ occupied(s)' <=> occupied(s)
                      /\ state'[s] = "running" => state[s] = "running"
  BY <1>0 DEF live, occupied
<1>7. Order'
  BY <1>0, <1>2, <1>3, <1>4, <1>5, <1>6, OrderMoves
<1>8. ProgramsFit'
  BY <1>0, <1>1, <1>6 DEF ProgramsFit
<1> QED
  BY <1>7, <1>8

(* A process whose wait or read ends, the zombie it waited for freed, keeps*)
(* the order.                                                              *)
LEMMA WakesOrder ==
    ASSUME TypeOK, PidsOK, ProgramsFit, Order, NEW s, NEW w, NEW z, Wakes(s, w, z)
    PROVE  Order' /\ ProgramsFit'
<1>0. /\ s \in Slot /\ live(s) /\ active' = s
      /\ Becomes(s, w) /\ Fits(w)
      /\ RoleOf(w) = RoleOf(view[s]) /\ ChildOf(w) = 0 /\ ~Newborn(w) /\ ~Newborn(view[s])
      /\ UNCHANGED <<pid, father>>
      /\ z \in Slot \cup {0}
      /\ z = 0 => Kid[s] = 0
      /\ z # 0 => z # s /\ state[z] = "zombie" /\ pid[z] = Kid[s] /\ state'[z] = "free"
      /\ state'[s] = "running" /\ \A t \in Slot : t # s /\ t # z => state'[t] = state[t]
  BY DEF Wakes
<1>1. /\ Kid' = [Kid EXCEPT ![s] = ChildOf(w)]
      /\ Born' = [Born EXCEPT ![s] = Newborn(w)]
      /\ Role' = [Role EXCEPT ![s] = RoleOf(w)]
      /\ view'[s] = w /\ \A t \in Slot : t # s => view'[t] = view[t]
  BY <1>0, Becoming
<1>2. Role[s] = RoleOf(view[s]) /\ Born[s] = Newborn(view[s])
  BY <1>0, KidIs
<1>3. Kid' = [Kid EXCEPT ![s] = 0]
  BY <1>0, <1>1
<1>4. ~Born'[s] /\ ~Born[s] /\ \A t \in Slot \ {s} : Born'[t] = Born[t]
  BY <1>0, <1>1, <1>2 DEF Born
<1>5. \A t \in Slot : Role'[t] = Role[t]
  BY <1>0, <1>1, <1>2 DEF Role
<1>7. Order'
  BY <1>0, <1>3, <1>4, <1>5, OrderWakes
<1>8. ProgramsFit'
  <2>1. \A t \in Slot : t # s /\ live(t)' => live(t)
    <3>1. 0 \notin Slot
      BY DEF Slot
    <3> QED
      BY <1>0, <3>1 DEF live
  <2> QED
    BY <1>0, <1>1, <2>1 DEF ProgramsFit
<1> QED
  BY <1>7, <1>8

(* A process without a child that becomes a zombie keeps the order: the    *)
(* chain is cut at its end.                                                *)
LEMMA DiesOrder ==
    ASSUME TypeOK, PidsOK, ProgramsFit, Order, NEW s, NEW code, Dies(s, code)
    PROVE  Order' /\ ProgramsFit' /\ UNCHANGED <<pid, father>>
<1>0. /\ s \in Slot /\ live(s) /\ active' = s /\ Kid[s] = 0
      /\ Becomes(s, Gone) /\ exit_current(s, code)
      /\ state \in [Slot -> States]
  BY DEF Dies, TypeOK
<1>1. /\ Kid' = [Kid EXCEPT ![s] = ChildOf(Gone)]
      /\ Born' = [Born EXCEPT ![s] = Newborn(Gone)]
      /\ Role' = [Role EXCEPT ![s] = RoleOf(Gone)]
      /\ view'[s] = Gone /\ \A t \in Slot : t # s => view'[t] = view[t]
  BY <1>0, Becoming
<1>2. ChildOf(Gone) = 0
  BY DEF Gone, View, ChildOf, ForkPoints, WaitPoints
<1>3. Kid' = Kid
  BY <1>0, <1>1, <1>2 DEF Kid
<1>4. \A t \in Slot \ {s} : Born'[t] = Born[t] /\ Role'[t] = Role[t]
  BY <1>1 DEF Born, Role
<1>5. Order' /\ UNCHANGED <<pid, father>>
  BY <1>0, <1>3, <1>4, OrderDeath
<1>6. \A t \in Slot : live(t)' => live(t) /\ t # s
  BY <1>0 DEF exit_current, live
<1>7. ProgramsFit'
  BY <1>1, <1>6 DEF ProgramsFit
<1> QED
  BY <1>5, <1>7

(* fork by the last process of the chain keeps the order: the chain is one *)
(* longer.                                                                 *)
LEMMA ForksOrder ==
    ASSUME TypeOK, PidsOK, ProgramsFit, Order, NEW a, NEW n, Forks(a, n)
    PROVE  Order' /\ ProgramsFit'
<1>0. /\ a \in Slot /\ a = active /\ active' = a /\ live(a) /\ n \in Slot /\ state[n] = "free"
      /\ n # a /\ Fits(view'[a]) /\ Fits(view'[n])
      /\ pid' = [pid EXCEPT ![n] = next_pid + 1] /\ father' = [father EXCEPT ![n] = pid[a]]
      /\ state' = [state EXCEPT ![n] = "running"]
      /\ \A t \in Slot \ {n, a} : view'[t] = view[t]
      /\ Kid[a] = 0 /\ ChildOf(view'[a]) = next_pid + 1 /\ ChildOf(view'[n]) = 0
      /\ Newborn(view'[n]) /\ RoleOf(view'[a]) = RoleOf(view[a])
      /\ \/ RoleOf(view[a]) = "init" /\ RoleOf(view'[n]) = "shell"
         \/ RoleOf(view[a]) = "shell" /\ RoleOf(view'[n]) = "command"
         \/ RoleOf(view[a]) = "driver" /\ RoleOf(view'[n]) = "stage"
      /\ next_pid \in Nat /\ state \in [Slot -> States]
  BY DEF Forks, TypeOK
<1>1. \A t \in Slot : Kid'[t] = ChildOf(view'[t]) /\ Born'[t] = Newborn(view'[t])
                      /\ Role'[t] = RoleOf(view'[t])
  BY DEF Kid, Born, Role
<1>2. \A t \in Slot : Kid[t] = ChildOf(view[t]) /\ Born[t] = Newborn(view[t])
                      /\ Role[t] = RoleOf(view[t])
  BY DEF Kid, Born, Role
<1>3. \A s \in Slot \ {a, n} : Kid'[s] = Kid[s] /\ Born'[s] = Born[s]
  BY <1>0, <1>1, <1>2
<1>4. Kid'[a] = next_pid + 1 /\ Kid'[n] = 0 /\ Born'[n]
  BY <1>0, <1>1
<1>5. \A s \in Slot : Kid'[s] \in Nat
  <2>1. \A s \in Slot : Kid[s] \in Nat
    BY DEF Order, Chain
  <2> QED
    BY <1>0, <1>3, <1>4, <2>1
<1>6. Kid' \in [Slot -> Nat]
  <2>1. Kid' = [s \in Slot |-> ChildOf(view'[s])]
    BY DEF Kid
  <2> QED
    BY <1>5, <2>1
<1>7. \A s \in Slot \ {n} : Role'[s] = Role[s]
  BY <1>0, <1>1, <1>2
<1>8. \/ Role[a] = "init" /\ Role'[n] = "shell"
      \/ Role[a] = "shell" /\ Role'[n] = "command"
      \/ Role[a] = "driver" /\ Role'[n] = "stage"
  BY <1>0, <1>1, <1>2
<1>9. Order'
  BY <1>0, <1>3, <1>4, <1>6, <1>7, <1>8, OrderFork
<1>10. ProgramsFit'
  BY <1>0 DEF ProgramsFit, live
<1> QED
  BY <1>9, <1>10

(* A step of the kernel that ends no process, starts none and moves none   *)
(* keeps the order.                                                        *)
LEMMA RestsOrder ==
    ASSUME TypeOK, ProgramsFit, Order, Rests
    PROVE  Order' /\ ProgramsFit'
<1>1. Kid' = Kid /\ Born' = Born /\ Role' = Role
  BY DEF Rests, Kid, Born, Role
<1>2. PICK a \in Slot : a = active
  BY DEF TypeOK
<1>3. /\ UNCHANGED <<pid, father, state>> /\ view' = view
      /\ active' = a \/ (state[a] # "running" /\ Born'[a] = Born[a])
  BY <1>1, <1>2 DEF Rests
<1>4. RoleStep(Role[a], Role'[a])
  BY <1>1 DEF RoleStep
<1>5. \A s \in Slot : /\ live(s)' <=> live(s)
                      /\ occupied(s)' <=> occupied(s)
                      /\ state'[s] = "running" => state[s] = "running"
  BY <1>3 DEF live, occupied
<1>6. \A s \in Slot \ {a} : Born'[s] = Born[s] /\ Role'[s] = Role[s]
  BY <1>1
<1>7. Order'
  BY <1>1, <1>2, <1>3, <1>4, <1>5, <1>6, OrderMoves
<1>8. ProgramsFit'
  BY <1>3, <1>5 DEF ProgramsFit
<1> QED
  BY <1>7, <1>8

(***************************************************************************)
(* Who the processes are.                                                  *)
(***************************************************************************)
(* Init's slot is one of the slots.                                        *)
LEMMA FirstSlot == 1 \in Slot
BY ConstantsAssumption DEF Slot

(* A child of a process is the one child it has; only init's shell is a    *)
(* child of pid 1.                                                         *)
LEMMA OneShell ==
    ASSUME TypeOK, PidsOK, Order, NEW s \in Slot, NEW t \in Slot, occupied(s), occupied(t),
           father[s] = father[t],
           \E f \in Slot : occupied(f) /\ pid[f] = father[s]
    PROVE  s = t
<1>1. PICK f \in Slot : occupied(f) /\ pid[f] = father[s]
  OBVIOUS
<1>2. pid[s] = Kid[f] /\ pid[t] = Kid[f]
  BY <1>1 DEF Order, Chain
<1> QED
  BY <1>2 DEF PidsOK

(* There is at most one live shell, and at most one live command or driver.*)
LEMMA OneOfEach ==
    ASSUME TypeOK, PidsOK, Order, NEW s \in Slot, NEW t \in Slot, live(s), live(t),
           \/ Role[s] = "shell" /\ Role[t] = "shell"
           \/ Role[s] \in {"command", "driver"} /\ Role[t] \in {"command", "driver"}
    PROVE  s = t
<1>0. occupied(s) /\ occupied(t) /\ \A f \in Slot : live(f) => occupied(f)
  BY DEF live, occupied
<1>1. CASE Role[s] = "shell" /\ Role[t] = "shell"
  <2>1. father[s] = 1 /\ father[t] = 1
    BY <1>1 DEF Order, Roles
  <2>2. occupied(1) /\ pid[1] = 1
    BY DEF Order, InitStays, occupied
  <2> QED
    BY <1>0, <2>1, <2>2, FirstSlot, OneShell
<1>2. CASE Role[s] \in {"command", "driver"} /\ Role[t] \in {"command", "driver"}
  <2>1. PICK f \in Slot : live(f) /\ father[f] = 1 /\ pid[f] = father[s]
    BY <1>2 DEF Order, Roles
  <2>2. PICK g \in Slot : live(g) /\ father[g] = 1 /\ pid[g] = father[t]
    BY <1>2 DEF Order, Roles
  <2>3. occupied(1) /\ pid[1] = 1
    BY DEF Order, InitStays, occupied
  <2>4. f = g
    BY <1>0, <2>1, <2>2, <2>3, FirstSlot, OneShell
  <2> QED
    BY <1>0, <2>1, <2>2, <2>4, OneShell
<1> QED
  BY <1>1, <1>2

(* A command in the middle of its life is the one the shell waits for, so  *)
(* it is in the foreground.                                                *)
LEMMA CommandIsForeground ==
    ASSUME TypeOK, PidsOK, Sound, ProgramsFit, Order, Foreground,
           NEW s \in Slot, live(s), Role[s] \in {"command", "driver"}, ~Born[s]
    PROVE  foreground_pid = pid[s]
<1>1. PICK f \in Slot : live(f) /\ father[f] = 1 /\ pid[f] = father[s]
  BY DEF Order, Roles
<1>2. occupied(f) /\ occupied(s) /\ pid[s] \in Nat /\ pid[f] \in Nat
  BY <1>1 DEF live, occupied, TypeOK
<1>3. Kid[f] = pid[s] /\ pid[f] < pid[s] /\ 0 < pid[s] /\ 1 < pid[f]
  BY <1>1, <1>2 DEF Order, Chain, PidsOK
<1>4. state[f] # "running"
  BY <1>1, <1>3 DEF Order, Turns
<1>5. state[f] = "blocked"
  BY <1>1, <1>4 DEF live
<1>6. ~Trapped(f)
  BY <1>4 DEF Sound, Trapped
<1>7. view[f].how = "blocked"
  BY <1>1, <1>5, <1>6, ViewParts
<1>8. Fits(view[f]) /\ Kid[f] = ChildOf(view[f])
  BY <1>1, KidIs DEF ProgramsFit
<1>9. ChildOf(view[f]) = pid[s] /\ view[f].pc \in WaitPoints
  <2>1. ChildOf(view[f]) = pid[s] /\ ChildOf(view[f]) # 0
    BY <1>2, <1>3, <1>8
  <2>2. view[f].pc # "s_line"
    BY <1>7, <2>1 DEF ChildOf, WaitPoints
  <2> QED
    BY <1>7, <1>8, <2>1, <2>2 DEF Fits
<1>10. view[f].data.child = pid[s] /\ ~Newborn(view[f])
  BY <1>7, <1>9 DEF ChildOf, Newborn, ForkPoints, WaitPoints
<1>11. view[f].pc # "i_waited"
  <2>1. Role[f] # "init"
    BY <1>1, <1>3 DEF Order, Roles
  <2> QED
    BY <1>10, <2>1, KidIs DEF RoleOf, InitPoints
<1>12. view[f].pc # "d_waited"
  <2>1. ASSUME Role[f] = "driver" PROVE FALSE
    <3>1. PICK g \in Slot : live(g) /\ father[g] = 1 /\ pid[g] = father[f]
      BY <1>1, <2>1 DEF Order, Roles
    <3>2. father[g] < pid[g] /\ pid[g] = 1
      BY <1>1, <3>1 DEF PidsOK, live, occupied
    <3> QED
      BY <3>1, <3>2
  <2>2. view[f].pc = "d_waited" => Role[f] = "driver"
    BY <1>10, KidIs DEF RoleOf, InitPoints, ShellPoints, DriverPoints, Execs
  <2> QED
    BY <2>1, <2>2
<1>13. Awaits(view[f])
  BY <1>9, <1>11, <1>12 DEF Awaits, WaitPoints
<1> QED
  BY <1>1, <1>10, <1>13 DEF Foreground

(* Marks below a process that is no child of init spare init's children.   *)
LEMMA MarksSpare ==
    ASSUME TypeOK, PidsOK, EveryoneHasAFather, NEW root \in Nat,
           \A t \in Slot : occupied(t) /\ pid[t] = root => father[t] \notin {0, 1},
           NEW s \in Slot, occupied(s), descendant(s, root)
    PROVE  father[s] \notin {0, 1}
<1> DEFINE L == Lineage(s)
<1>1. /\ L[0] = pid[s] /\ NR \in Nat /\ L \in [0..NR -> Nat]
  BY ConstantsAssumption, LineageIs
<1>2. PICK d \in 0..NR : L[d] = root /\ root > 1
  BY DEF descendant
<1>3. CASE d = 0
  BY <1>1, <1>2, <1>3
<1>4. CASE d # 0
  <2>1. \A i \in 0..(d - 1), t \in Slot :
           occupied(t) /\ pid[t] = L[i] => father[t] = L[i + 1]
    BY <1>2, LineageLinks
  <2>2. 0 \in 0..(d - 1) /\ 0 + 1 = 1 /\ 1 \in 0..d /\ d \in 0..d
    BY <1>1, <1>4
  <2>3. father[s] = L[1]
    BY <1>1, <2>1, <2>2
  <2>4. CASE d = 1
    BY <1>2, <2>3, <2>4
  <2>5. CASE d # 1
    <3>1. L[d] < L[1]
      <4>1. 1 < d
        BY <1>1, <1>4, <2>5
      <4> QED
        BY <1>2, <2>2, <4>1, LineageFalls
    <3>2. L[1] \in Nat
      BY <1>1, <2>2
    <3> QED
      BY <1>2, <2>3, <3>1, <3>2
  <2> QED
    BY <2>4, <2>5
<1> QED
  BY <1>3, <1>4

(***************************************************************************)
(* What each kind of step does to the promises.                            *)
(***************************************************************************)
(* The drivers of a step are those that were there, but for one that has   *)
(* just been loaded.                                                       *)
DriversKept ==
    \A s \in Slot : live(s)' /\ Role'[s] = "driver" =>
        live(s) /\ Role[s] \in {"command", "driver"} /\ (interrupted[s] => interrupted'[s])

(* The driver that a cancellation is recorded against is the live process  *)
(* with that role.                                                         *)
LEMMA DriverAliveIs ==
    ASSUME Roles', ProgramsFit'
    PROVE  DriverAlive' <=> \E s \in Slot : live(s)' /\ Role'[s] = "driver"
<1>1. \A s \in Slot : live(s)' => view'[s].pc = contexts'[s].pc
  BY DEF view, ViewOf, View
<1>2. ASSUME NEW s \in Slot, live(s)', contexts'[s].pc \in DriverPoints
      PROVE  \E f \in Slot : live(f)' /\ Role'[f] = "driver"
  <2>1. view'[s].pc \in DriverPoints /\ Role'[s] = RoleOf(view'[s])
    BY <1>1, <1>2 DEF Role
  <2>2. CASE Newborn(view'[s])
    <3>1. Role'[s] = "stage"
      BY <2>1, <2>2 DEF RoleOf, Newborn, InitPoints, ShellPoints, DriverPoints, Execs, ForkPoints
    <3> QED
      BY <1>2, <3>1 DEF Roles
  <2>3. CASE ~Newborn(view'[s])
    <3>1. Role'[s] = "driver"
      BY <2>1, <2>3 DEF RoleOf, InitPoints, ShellPoints, DriverPoints, Execs
    <3> QED
      BY <1>2, <3>1
  <2> QED
    BY <2>2, <2>3
<1>3. ASSUME NEW s \in Slot, live(s)', Role'[s] = "driver"
      PROVE  contexts'[s].pc \in DriverPoints
  <2>1. view'[s].pc \in DriverPoints
    BY <1>3 DEF Role, RoleOf
  <2> QED
    BY <1>1, <1>3, <2>1
<1> QED
  BY <1>2, <1>3 DEF DriverAlive

(* A step that keeps the drivers keeps the agreement of the cancellation   *)
(* seen by the session with the mark of the driver.                        *)
LEMMA CancelKept ==
    ASSUME TypeOK, PidsOK, Order, CancelKnown, Order', ProgramsFit', DriversKept,
           cancelled' => cancelled /\ DriverAlive'
    PROVE  CancelKnown'
<1> SUFFICES ASSUME cancelled'
             PROVE  /\ \E s \in Slot : live(s)' /\ Role'[s] = "driver"
                    /\ \A s \in Slot : live(s)' /\ Role'[s] = "driver" => interrupted'[s]
  BY DEF CancelKnown
<1>1. \E s \in Slot : live(s)' /\ Role'[s] = "driver"
  BY DriverAliveIs DEF Order
<1>2. ASSUME NEW s \in Slot, live(s)', Role'[s] = "driver" PROVE interrupted'[s]
  <2>1. live(s) /\ Role[s] \in {"command", "driver"} /\ (interrupted[s] => interrupted'[s])
    BY <1>2 DEF DriversKept
  <2>2. PICK d \in Slot : live(d) /\ Role[d] = "driver" /\ interrupted[d]
    BY DEF CancelKnown
  <2>3. d = s
    BY <2>1, <2>2, OneOfEach
  <2> QED
    BY <2>1, <2>2, <2>3
<1> QED
  BY <1>1, <1>2

(* A step keeps every driver with files deferred, if the process it moves  *)
(* is no driver, is unshielded, or has been deferred by the step.          *)
LEMMA ShieldedKept ==
    ASSUME Shielded, NEW a \in Slot, NEW w, Becomes(a, w),
           \A s \in Slot \ {a} : (live(s)' => live(s)) /\ (deferred[s] => deferred'[s]),
           live(a)' /\ RoleOf(w) = "driver" => Unshielded(w) \/ deferred'[a]
    PROVE  Shielded'
<1>1. /\ view'[a] = w /\ \A t \in Slot : t # a => view'[t] = view[t]
      /\ Role'[a] = RoleOf(w) /\ \A t \in Slot : t # a => Role'[t] = Role[t]
  <2>1. view'[a] = w /\ \A t \in Slot : t # a => view'[t] = view[t]
    BY Becoming
  <2> QED
    BY <2>1 DEF Role
<1> QED
  BY <1>1 DEF Shielded

(* A step keeps init and the shell unmarked, if it marks only processes    *)
(* whose father is another, and kills by status 2 only what is marked.     *)
LEMMA MarksKept ==
    ASSUME Marks, UNCHANGED <<father>>,
           \A s \in Slot : occupied(s)' => occupied(s),
           \A s \in Slot : interrupted[s] => interrupted'[s],
           \A s \in Slot : occupied(s) /\ interrupted'[s] =>
               interrupted[s] \/ father[s] \notin {0, 1},
           \A s \in Slot : state'[s] = "zombie" /\ exit_code'[s] = 2 =>
               interrupted'[s] \/ (state[s] = "zombie" /\ exit_code[s] = 2)
    PROVE  Marks'
BY DEF Marks

(* A step keeps the foreground process a child of the shell, if only the   *)
(* shell hands the terminal over, and to none but its child.               *)
LEMMA ForegroundKept ==
    ASSUME TypeOK, PidsOK, Order, Foreground, NEW a \in Slot, live(a), NEW w, Becomes(a, w),
           UNCHANGED <<pid, father, next_pid>>,
           \A s \in Slot : (occupied(s)' => occupied(s)) /\ (s # a /\ live(s)' => live(s)),
           \/ foreground_pid' = foreground_pid
           \/ Role[a] = "shell" /\ foreground_pid' <= next_pid
              /\ (foreground_pid' # 0 => \A t \in Slot :
                    occupied(t) /\ pid[t] = foreground_pid' => father[t] \notin {0, 1}),
           live(a)' /\ Awaits(w) => foreground_pid' = w.data.child
    PROVE  Foreground'
<1>1. view'[a] = w /\ \A t \in Slot : t # a => view'[t] = view[t]
  BY Becoming
<1>2. ASSUME NEW s \in Slot, live(s)', Awaits(view'[s])
      PROVE  foreground_pid' = view'[s].data.child
  <2>1. CASE s = a
    BY <1>1, <1>2, <2>1
  <2>2. CASE s # a
    <3>1. view'[s] = view[s] /\ live(s) /\ foreground_pid = view[s].data.child
      BY <1>1, <1>2, <2>2 DEF Foreground
    <3>2. Role[s] = "shell"
      BY <1>2, <3>1 DEF Role, RoleOf, Awaits, InitPoints, ShellPoints, Newborn, ForkPoints
    <3>3. Role[a] # "shell"
      BY <2>2, <3>1, <3>2, OneOfEach
    <3> QED
      BY <3>1, <3>3
  <2> QED
    BY <2>1, <2>2
<1>3. /\ foreground_pid' <= next_pid
      /\ foreground_pid' # 0 => \A t \in Slot :
            occupied(t)' /\ pid[t] = foreground_pid' => father[t] \notin {0, 1}
  BY DEF Foreground
<1> QED
  BY <1>2, <1>3 DEF Foreground

(* A step keeps every temporary file owned by a live driver, if the one it *)
(* adds is its driver's, and the owner forgets none that is left.          *)
LEMMA FilesKept ==
    ASSUME FilesOwned, NEW a \in Slot, NEW w, Becomes(a, w),
           \A s \in Slot \ {a} : live(s) => live(s)',
           \A f \in temps' : \/ f \in temps
                             \/ live(a)' /\ RoleOf(w) = "driver" /\ f \in MayExist(w),
           \A f \in temps' : live(a) /\ Role[a] = "driver" /\ f \in MayExist(view[a]) =>
                                live(a)' /\ RoleOf(w) = "driver" /\ f \in MayExist(w)
    PROVE  FilesOwned'
<1>1. /\ view'[a] = w /\ \A t \in Slot : t # a => view'[t] = view[t]
      /\ Role'[a] = RoleOf(w) /\ \A t \in Slot : t # a => Role'[t] = Role[t]
  <2>1. view'[a] = w /\ \A t \in Slot : t # a => view'[t] = view[t]
    BY Becoming
  <2> QED
    BY <2>1 DEF Role
<1> SUFFICES ASSUME NEW f \in temps'
             PROVE  \E s \in Slot : live(s)' /\ Role'[s] = "driver" /\ f \in MayExist(view'[s])
  BY DEF FilesOwned
<1>2. CASE live(a)' /\ RoleOf(w) = "driver" /\ f \in MayExist(w)
  BY <1>1, <1>2
<1>3. CASE f \in temps
  <2>1. PICK s \in Slot : live(s) /\ Role[s] = "driver" /\ f \in MayExist(view[s])
    BY <1>3 DEF FilesOwned
  <2>2. CASE s = a
    BY <1>1, <2>1, <2>2
  <2>3. CASE s # a
    BY <1>1, <2>1, <2>3
  <2> QED
    BY <2>2, <2>3
<1> QED
  BY <1>2, <1>3

(* Each poll of the keyboard.                                              *)
LEMMA PollMarksFew ==
    ASSUME TypeOK, PidsOK, EveryoneHasAFather, Foreground, NEW k, PollKey(k)
    PROVE  /\ \A s \in Slot : interrupted[s] => interrupted'[s]
           /\ \A s \in Slot : occupied(s) /\ interrupted'[s] =>
                 interrupted[s] \/ father[s] \notin {0, 1}
           /\ k = "interrupt" => \A s \in Slot :
                 occupied(s) /\ pid[s] = foreground_pid /\ 1 < foreground_pid => interrupted'[s]
<1>1. CASE k # "interrupt"
  BY <1>1 DEF PollKey
<1>2. CASE k = "interrupt"
  <2>1. \A s \in Slot : interrupted'[s] <=>
           interrupted[s] \/ (occupied(s) /\ foreground_pid # 0 /\ descendant(s, foreground_pid))
    <3>1. interrupted' = [s \in Slot |->
              interrupted[s] \/ (occupied(s) /\ foreground_pid # 0 /\ descendant(s, foreground_pid))]
      BY <1>2 DEF PollKey
    <3> QED
      BY <3>1
  <2>2. ASSUME NEW s \in Slot, occupied(s), foreground_pid # 0, descendant(s, foreground_pid)
        PROVE  father[s] \notin {0, 1}
    <3>1. \A t \in Slot : occupied(t) /\ pid[t] = foreground_pid => father[t] \notin {0, 1}
      BY <2>2 DEF Foreground
    <3>2. foreground_pid \in Nat
      BY DEF TypeOK
    <3> QED
      BY <2>2, <3>1, <3>2, MarksSpare
  <2>3. ASSUME NEW s \in Slot, occupied(s), pid[s] = foreground_pid, 1 < foreground_pid
        PROVE  descendant(s, foreground_pid) /\ foreground_pid # 0
    <3>1. Lineage(s)[0] = pid[s] /\ 0 \in 0..NR
      BY ConstantsAssumption, LineageIs
    <3> QED
      BY <2>3, <3>1 DEF descendant
  <2> QED
    BY <2>1, <2>2, <2>3
<1> QED
  BY <1>1, <1>2

(* The invariant beyond that of the process layer.                         *)
Steady == ProgramsFit /\ Order /\ Safe

(* The parts of the session's invariant, for the proofs below to cite.     *)
LEMMA SInvParts ==
    ASSUME SInv
    PROVE  /\ IInv /\ Sound /\ TypeOK /\ PidsOK /\ EveryoneHasAFather /\ active \in Slot
           /\ ProgramsFit /\ Order /\ Shielded /\ Marks /\ Foreground /\ FilesOwned
           /\ CancelKnown /\ NobodyYields /\ ForkBound
           /\ kpc \in {"user", "perform"} => live(active) /\ state[active] = "running"
BY InvariantIsSound DEF SInv, Safe, IInv, Sound

(* The process whose call is performed.                                    *)
LEMMA PerformsFor ==
    ASSUME SInv, kpc = "perform", NEW a \in Slot, a = active
    PROVE  /\ live(a) /\ state[a] = "running" /\ Fits(view[a])
           /\ view[a].how = "trapped" /\ view[a].call = call /\ view[a].data = my
           /\ view[a].pc = at /\ view[a].r1 = r1
           /\ Kid[a] = ChildOf(view[a]) /\ Role[a] = RoleOf(view[a]) /\ Born[a] = Newborn(view[a])
<1>1. live(a) /\ state[a] = "running" /\ ProgramsFit
  BY SInvParts
<1>2. Trapped(a)
  BY DEF Trapped
<1> QED
  BY <1>1, <1>2, ViewParts, KidIs DEF ProgramsFit, ImageOf, at, r1, my

(* The poll of the keyboard records a cancellation exactly when it marks   *)
(* the live driver.                                                        *)
LEMMA CancelPolled ==
    ASSUME SInv, Order', ProgramsFit', NEW k, PollKey(k),
           \A s \in Slot : live(s)' /\ Role'[s] = "driver" => live(s) /\ Role[s] = "driver",
           cancelled' = (DriverAlive' /\ (cancelled \/ k = "interrupt"))
    PROVE  CancelKnown'
<1>1. /\ TypeOK /\ PidsOK /\ EveryoneHasAFather /\ Sound /\ ProgramsFit /\ Order
      /\ Foreground /\ CancelKnown
  BY SInvParts
<1>2. /\ \A s \in Slot : interrupted[s] => interrupted'[s]
      /\ k = "interrupt" => \A s \in Slot :
            occupied(s) /\ pid[s] = foreground_pid /\ 1 < foreground_pid => interrupted'[s]
  BY <1>1, PollMarksFew
<1>3. CASE k = "interrupt"
  <2> SUFFICES ASSUME cancelled'
               PROVE  /\ \E s \in Slot : live(s)' /\ Role'[s] = "driver"
                      /\ \A s \in Slot : live(s)' /\ Role'[s] = "driver" => interrupted'[s]
    BY DEF CancelKnown
  <2>1. \E s \in Slot : live(s)' /\ Role'[s] = "driver"
    BY DriverAliveIs DEF Order
  <2>2. ASSUME NEW s \in Slot, live(s)', Role'[s] = "driver" PROVE interrupted'[s]
    <3>1. live(s) /\ Role[s] = "driver" /\ occupied(s)
      BY <2>2 DEF live, occupied
    <3>2. ~Born[s]
      BY <3>1, KidIs DEF RoleOf
    <3>3. foreground_pid = pid[s]
      BY <1>1, <3>1, <3>2, CommandIsForeground
    <3>4. 1 < pid[s]
      <4>1. pid[s] # 1
        BY <1>1, <3>1 DEF Order, Roles
      <4>2. pid[s] \in Nat /\ 0 < pid[s]
        BY <1>1, <3>1 DEF PidsOK, TypeOK
      <4> QED
        BY <4>1, <4>2
    <3> QED
      BY <1>2, <1>3, <3>1, <3>3, <3>4
  <2> QED
    BY <2>1, <2>2
<1>4. CASE k # "interrupt"
  <2>1. DriversKept
    BY <1>2 DEF DriversKept
  <2>2. cancelled' => cancelled /\ DriverAlive'
    BY <1>4
  <2> QED
    BY <1>1, <2>1, <2>2, CancelKept
<1> QED
  BY <1>3, <1>4

(* A trap: its program computes, and the keyboard is polled.               *)
LEMMA TrapKeeps ==
    ASSUME SInv, NEW k, Trap(k)
    PROVE  Steady'
<1>0. PICK a \in Slot : a = active
  BY SInvParts
<1>1. PICK t \in Traps : UserTrap(t.call, t.data, t.point, k)
  BY DEF Trap
<1>2. /\ kpc = "user" /\ kpc' = "perform" /\ call' = t.call /\ PollKey(k)
      /\ (t.call.nr = "fork" => next_pid < MaxPid \/ FreeSlots = {})
      /\ UNCHANGED <<taskVars, pending, deferred, fgVars, next_pid, active, snap>>
      /\ temps' = temps /\ cancelled' = (DriverAlive' /\ (cancelled \/ k = "interrupt"))
  BY <1>1 DEF UserTrap, Trap, Seen
<1>3. /\ IInv /\ Sound /\ TypeOK /\ PidsOK /\ EveryoneHasAFather
      /\ ProgramsFit /\ Order /\ Shielded /\ Marks /\ Foreground /\ FilesOwned
      /\ live(a) /\ state[a] = "running"
  BY <1>0, <1>2, SInvParts
<1>4. PICK w : Becomes(active, w) /\ w.how = "trapped" /\ w.r1 = view[active].r1
               /\ w.call = t.call /\ w.data = t.data /\ w.pc = t.point
               /\ Advances(view[active], w)
  BY <1>1, <1>2, <1>3, TrapAdvances
<1>5. /\ Becomes(a, w) /\ Fits(w) /\ w.call \in AllCalls
      /\ ChildOf(w) = ChildOf(view[a]) /\ RoleOf(w) = RoleOf(view[a])
      /\ RoleOf(view[a]) = "driver" => MayExist(view[a]) \subseteq MayExist(w)
      /\ Unshielded(view[a]) => Unshielded(w)
      /\ Awaits(w) => Awaits(view[a]) /\ w.data.child = view[a].data.child
  BY <1>0, <1>4 DEF Advances
<1>6. /\ UNCHANGED <<pid, father, state, exit_code, next_pid, deferred, foreground_pid>>
      /\ active' = a
  BY <1>0, <1>2 DEF taskVars, fgVars
<1>7. GoesOn(a, w)
  BY <1>0, <1>3, <1>5, <1>6 DEF GoesOn, RoleStep
<1>8. Order' /\ ProgramsFit'
  BY <1>3, <1>7, GoesOnOrder
<1>9. \A s \in Slot : /\ live(s)' <=> live(s)
                      /\ occupied(s)' <=> occupied(s)
  BY <1>6 DEF live, occupied
<1>10. Role[a] = RoleOf(view[a]) /\ Role' = Role
  <2>1. Role' = [Role EXCEPT ![a] = RoleOf(w)]
    BY <1>5, Becoming
  <2>2. Role[a] = RoleOf(view[a]) /\ Role = [s \in Slot |-> Role[s]]
    BY DEF Role
  <2> QED
    BY <1>5, <2>1, <2>2
<1>11. Shielded'
  <2>1. RoleOf(w) = "driver" => Unshielded(w) \/ deferred'[a]
    BY <1>3, <1>5, <1>6, <1>10 DEF Shielded
  <2> QED
    BY <1>3, <1>5, <1>6, <1>9, <2>1, ShieldedKept
<1>12. Marks'
  <2>1. /\ \A s \in Slot : interrupted[s] => interrupted'[s]
        /\ \A s \in Slot : occupied(s) /\ interrupted'[s] =>
              interrupted[s] \/ father[s] \notin {0, 1}
    BY <1>2, <1>3, PollMarksFew
  <2> QED
    BY <1>3, <1>6, <1>9, <2>1, MarksKept
<1>13. Foreground'
  <2>1. Awaits(w) => foreground_pid' = w.data.child
    BY <1>3, <1>5, <1>6 DEF Foreground
  <2> QED
    BY <1>3, <1>5, <1>6, <1>9, <2>1, ForegroundKept
<1>14. FilesOwned'
  <2>1. \A f \in temps' : f \in temps
    BY <1>2
  <2>2. \A f \in temps' : Role[a] = "driver" /\ f \in MayExist(view[a]) =>
                             RoleOf(w) = "driver" /\ f \in MayExist(w)
    BY <1>5, <1>10
  <2> QED
    BY <1>3, <1>5, <1>9, <2>1, <2>2, FilesKept
<1>15. CancelKnown'
  BY <1>2, <1>8, <1>9, <1>10, CancelPolled
<1>16. NobodyYields'
  <2>1. \A c \in AllCalls : c.nr # "yield"
    BY DEF AllCalls, Sys
  <2> QED
    BY <1>2, <1>4, <1>5, <2>1 DEF NobodyYields
<1>17. ForkBound'
  <2>1. FreeSlots' = FreeSlots
    BY <1>6 DEF FreeSlots, occupied
  <2> QED
    BY <1>2, <1>6, <2>1 DEF ForkBound
<1> QED
  BY <1>8, <1>11, <1>12, <1>13, <1>14, <1>15, <1>16, <1>17 DEF Steady, Safe

(* What every performed call keeps, whatever kind of step it is.           *)
LEMMA PerformedRest ==
    ASSUME SInv, kpc = "perform", kpc' # "perform", call' = call
    PROVE  NobodyYields' /\ ForkBound'
BY SInvParts DEF NobodyYields, ForkBound

(* A call that returns to the process that made it.                        *)
LEMMA ReturnKeeps ==
    ASSUME SInv, kpc = "perform", ~(interrupted[active] /\ ~deferred[active]),
           NEW r \in Int, Return(r), UNCHANGED <<taskVars, pending, memVars, next_pid>>,
           call.nr # "wait", call.nr = "fork" => r < 0,
           \A s \in Slot : deferred[s] => deferred'[s],
           call = Sys("defer", 1, 0, 0) => deferred'[active],
           \A s \in Slot : interrupted[s] => interrupted'[s],
           \A s \in Slot : occupied(s) /\ interrupted'[s] =>
               interrupted[s] \/ father[s] \notin {0, 1},
           call.nr # "fg" => foreground_pid' = foreground_pid,
           call.nr = "fg" =>
               foreground_pid' = call.a /\ (call.a # 0 => IsChild(call.a)),
           FileEffects, cancelled' = (cancelled /\ DriverAlive')
    PROVE  Steady'
<1>0. PICK a \in Slot : a = active
  BY SInvParts
<1>1. /\ TypeOK /\ PidsOK /\ EveryoneHasAFather
      /\ ProgramsFit /\ Order /\ Shielded /\ Marks /\ Foreground /\ FilesOwned /\ Sound
      /\ CancelKnown
  BY SInvParts
<1> DEFINE v == view[a]
           w == View(v.pc, r, v.data, "returned", NoCall)
<1>2. /\ live(a) /\ state[a] = "running" /\ Fits(v)
      /\ v.how = "trapped" /\ v.call = call /\ v.data = my
      /\ Kid[a] = ChildOf(v) /\ Role[a] = RoleOf(v)
  BY <1>0, PerformsFor
<1>3. /\ UNCHANGED <<pid, father, state, exit_code, pending, active, next_pid, call>>
      /\ kpc' = "cancel"
  BY DEF Return, taskVars, memVars
<1>4. Becomes(a, w)
  BY <1>0, <1>1, <1>3, ReturnView
<1> HIDE DEF v
<1>5. /\ Fits(w) /\ ChildOf(w) = ChildOf(v) /\ ~Newborn(w)
      /\ RoleStep(RoleOf(v), RoleOf(w))
      /\ Unshielded(v) => Unshielded(w) \/ v.call = Sys("defer", 1, 0, 0)
      /\ Awaits(w) => Awaits(v) \/ v.pc = "s_named"
      /\ \A f \in MayExist(v) : f \in MayExist(w) \/ (v.call = Unlink /\ f = v.data.k)
      /\ v.call = Reserve => RoleOf(w) = "driver" /\ v.data.k \in MayExist(w)
  <2>1. 0 <= MaxPid
    BY ConstantsAssumption
  <2> QED
    BY <1>2, <2>1, ReturnFits
<1>6. w.data = v.data /\ w.pc = v.pc
  BY DEF View
<1> HIDE DEF w
<1>7. GoesOn(a, w)
  BY <1>0, <1>2, <1>3, <1>4, <1>5 DEF GoesOn, v
<1>8. Order' /\ ProgramsFit'
  BY <1>1, <1>7, GoesOnOrder
<1>9. \A s \in Slot : /\ live(s)' <=> live(s)
                      /\ occupied(s)' <=> occupied(s)
  BY <1>3 DEF live, occupied
<1>10. /\ Role'[a] = RoleOf(w) /\ \A s \in Slot \ {a} : Role'[s] = Role[s]
  <2>1. view'[a] = w /\ \A t \in Slot : t # a => view'[t] = view[t]
    BY <1>4, Becoming
  <2> QED
    BY <2>1 DEF Role
<1>11. Shielded'
  <2>1. RoleOf(w) = "driver" => Unshielded(w) \/ deferred'[a]
    <3> SUFFICES ASSUME RoleOf(w) = "driver" PROVE Unshielded(w) \/ deferred'[a]
      OBVIOUS
    <3>1. CASE Role[a] = "driver"
      <4>1. Unshielded(v) \/ deferred[a]
        BY <1>1, <1>2, <3>1 DEF Shielded, v
      <4> QED
        BY <1>0, <1>2, <1>5, <4>1
    <3>2. CASE Role[a] # "driver"
      <4>1. v.pc \in DriverPoints \/ RoleOf(w) # "driver"
        BY <1>6 DEF RoleOf
      <4>2. Newborn(v)
        BY <1>2, <3>2, <4>1 DEF RoleOf, InitPoints, ShellPoints, DriverPoints, Execs
      <4> QED
        BY <1>2, <4>2 DEF Newborn
    <3> QED
      BY <3>1, <3>2
  <2> QED
    BY <1>1, <1>4, <1>9, <2>1, ShieldedKept
<1>12. Marks'
  BY <1>1, <1>3, <1>9, MarksKept
<1>13. Foreground'
  <2>1. v.call.nr = "fg" => \/ v.pc \in {"s_start", "s_unnamed"} /\ v.call.a = 0
                            \/ v.pc = "s_named" /\ v.call.a = v.data.child
    BY <1>2, PointOfCall
  <2>2. v.pc = "s_named" => v.call.nr = "fg"
    <3>1. v.pc = "s_named" => v.call = Sys("fg", v.data.child, 0, 0)
      BY <1>2, PointOfCall
    <3> QED
      BY <3>1 DEF Sys
  <2>3. Awaits(w) => foreground_pid' = w.data.child
    <3>1. CASE v.pc = "s_named"
      BY <1>2, <1>6, <2>1, <2>2, <3>1
    <3>2. CASE v.pc # "s_named"
      <4> SUFFICES ASSUME Awaits(w) PROVE foreground_pid' = w.data.child
        OBVIOUS
      <4>1. Awaits(v) /\ v.pc = "s_waited"
        BY <1>5, <3>2 DEF Awaits
      <4>2. v.call.nr = "wait"
        BY <1>2, <4>1, PointOfCall DEF WaitPoints
      <4> QED
        BY <1>2, <4>2
    <3> QED
      BY <3>1, <3>2
  <2>4. call.nr = "fg" => Role[a] = "shell"
    BY <1>2, <2>1 DEF RoleOf, Newborn, InitPoints, ShellPoints, ForkPoints
  <2>5. ASSUME call.nr = "fg"
        PROVE  /\ foreground_pid' <= next_pid
               /\ foreground_pid' # 0 => \A t \in Slot :
                     occupied(t) /\ pid[t] = foreground_pid' => father[t] \notin {0, 1}
    <3>1. CASE call.a = 0
      <4>1. next_pid \in Nat /\ foreground_pid' = 0
        BY <1>1, <2>5, <3>1 DEF TypeOK
      <4> QED
        BY <4>1
    <3>2. CASE call.a # 0
      <4>1. PICK t \in Slot : occupied(t) /\ pid[t] = call.a /\ father[t] = pid[a]
        BY <1>0, <2>5, <3>2 DEF IsChild
      <4>2. foreground_pid' = pid[t] /\ pid[t] <= next_pid
        BY <1>1, <2>5, <4>1 DEF PidsOK
      <4>3. pid[a] \notin {0, 1}
        <5>1. pid[a] # 1
          BY <1>1, <1>2, <2>4, <2>5 DEF Order, Roles
        <5>2. 0 < pid[a]
          BY <1>1, <1>2 DEF PidsOK, live, occupied
        <5> QED
          BY <5>1, <5>2
      <4>4. \A u \in Slot : occupied(u) /\ pid[u] = pid[t] => u = t
        BY <1>1, <4>1 DEF PidsOK
      <4> QED
        BY <4>1, <4>2, <4>3, <4>4
    <3> QED
      BY <3>1, <3>2
  <2>6. \/ foreground_pid' = foreground_pid
        \/ Role[a] = "shell" /\ foreground_pid' <= next_pid
           /\ (foreground_pid' # 0 => \A t \in Slot :
                 occupied(t) /\ pid[t] = foreground_pid' => father[t] \notin {0, 1})
    BY <2>4, <2>5
  <2> QED
    BY <1>1, <1>2, <1>3, <1>4, <1>9, <2>3, <2>6, ForegroundKept
<1>14. FilesOwned'
  <2>1. /\ temps' \subseteq IF call = Reserve THEN temps \cup {my.k} ELSE temps
        /\ call = Unlink => my.k \notin temps'
    BY DEF FileEffects, Performed, Reserve, Unlink, Sys
  <2>2. \A f \in temps' : \/ f \in temps
                          \/ live(a)' /\ RoleOf(w) = "driver" /\ f \in MayExist(w)
    BY <1>2, <1>5, <1>9, <2>1
  <2>3. \A f \in temps' : live(a) /\ Role[a] = "driver" /\ f \in MayExist(view[a]) =>
                             live(a)' /\ RoleOf(w) = "driver" /\ f \in MayExist(w)
    BY <1>2, <1>5, <1>9, <2>1 DEF RoleStep, v
  <2> QED
    BY <1>1, <1>4, <1>9, <2>2, <2>3, FilesKept
<1>15. CancelKnown'
  <2>1. DriversKept
    BY <1>2, <1>5, <1>9, <1>10 DEF DriversKept, RoleStep
  <2> QED
    BY <1>1, <1>8, <2>1, CancelKept
<1>16. NobodyYields' /\ ForkBound'
  BY <1>3, PerformedRest
<1> QED
  BY <1>8, <1>11, <1>12, <1>13, <1>14, <1>15, <1>16 DEF Steady, Safe

(* exec that loads a program.                                              *)
LEMMA LoadKeeps ==
    ASSUME SInv, Performs("exec"), NEW e \in Entry, window' = [status |-> 0, data |-> Fresh],
           contexts' = [contexts EXCEPT ![active] = [pc |-> e, r1 |-> 0]], kpc' = "cancel",
           UNCHANGED <<taskVars, pending, cancelVars, fgVars, next_pid, active, snap, call>>,
           ExecEntry, FileEffects, cancelled' = (cancelled /\ DriverAlive')
    PROVE  Steady'
<1>0. PICK a \in Slot : a = active
  BY SInvParts
<1>1. /\ TypeOK /\ PidsOK /\ EveryoneHasAFather
      /\ ProgramsFit /\ Order /\ Shielded /\ Marks /\ Foreground /\ FilesOwned /\ Sound
      /\ CancelKnown /\ kpc = "perform" /\ call.nr = "exec"
  BY SInvParts DEF Performs
<1> DEFINE v == view[a]
           w == View(e, 0, NoLocals, "returned", NoCall)
<1>2. /\ live(a) /\ state[a] = "running" /\ Fits(v)
      /\ v.how = "trapped" /\ v.call = call /\ v.pc = at
      /\ Kid[a] = ChildOf(v) /\ Role[a] = RoleOf(v)
  BY <1>0, <1>1, PerformsFor
<1>3. /\ UNCHANGED <<pid, father, state, exit_code, pending, active, next_pid, call, snap,
                     interrupted, deferred, foreground_pid>>
  BY DEF taskVars, cancelVars, fgVars
<1>4. Becomes(a, w)
  <2>1. Fresh = NoLocals
    BY SessionAssumption
  <2>2. Becomes(active, View(e, 0, Fresh, "returned", NoCall))
    BY <1>1, <1>3, LoadView
  <2> QED
    BY <1>0, <2>1, <2>2
<1> HIDE DEF v
<1>5. e = Program[v.call.a]
  <2>1. PICK i \in 1..4 : v.call = Sys("exec", i, 0, 0) /\ v.pc = "no_exec"
    BY <1>1, <1>2, PointOfCall
  <2>2. contexts'[active].pc \in {Program[call.a]} \cup (IF call.a = 1 THEN {} ELSE {at})
    <3>1. Performed /\ call.nr = "exec"
      BY <1>1 DEF Performed, Performs
    <3> QED
      BY <3>1 DEF ExecEntry
  <2>3. contexts'[active].pc = e
    BY <1>0, <1>1 DEF TypeOK
  <2>4. e # "no_exec"
    BY SessionAssumption DEF Program
  <2> QED
    BY <1>2, <2>1, <2>2, <2>3, <2>4
<1>6. /\ Fits(w) /\ ChildOf(w) = ChildOf(v) /\ ~Newborn(w)
      /\ RoleStep(RoleOf(v), RoleOf(w)) /\ RoleOf(v) # "driver"
      /\ RoleOf(w) = "driver" => Unshielded(w)
      /\ ~Awaits(w)
  BY <1>1, <1>2, <1>5, LoadFits
<1> HIDE DEF w
<1>7. GoesOn(a, w)
  BY <1>0, <1>2, <1>3, <1>4, <1>6 DEF GoesOn, v
<1>8. Order' /\ ProgramsFit'
  BY <1>1, <1>7, GoesOnOrder
<1>9. \A s \in Slot : /\ live(s)' <=> live(s)
                      /\ occupied(s)' <=> occupied(s)
  BY <1>3 DEF live, occupied
<1>10. /\ Role'[a] = RoleOf(w) /\ \A s \in Slot \ {a} : Role'[s] = Role[s]
  <2>1. view'[a] = w /\ \A t \in Slot : t # a => view'[t] = view[t]
    BY <1>4, Becoming
  <2> QED
    BY <2>1 DEF Role
<1>11. Shielded'
  BY <1>1, <1>3, <1>4, <1>6, <1>9, ShieldedKept
<1>12. Marks'
  BY <1>1, <1>3, <1>9, MarksKept
<1>13. Foreground'
  BY <1>1, <1>2, <1>3, <1>4, <1>6, <1>9, ForegroundKept
<1>14. FilesOwned'
  <2>1. \A f \in temps' : f \in temps
    BY <1>1 DEF FileEffects, Reserve, Unlink, Sys
  <2> QED
    BY <1>1, <1>2, <1>4, <1>6, <1>9, <2>1, FilesKept
<1>15. CancelKnown'
  <2>1. DriversKept
    BY <1>2, <1>3, <1>6, <1>9, <1>10 DEF DriversKept, RoleStep
  <2> QED
    BY <1>1, <1>8, <2>1, CancelKept
<1>16. NobodyYields' /\ ForkBound'
  BY <1>1, <1>3, PerformedRest
<1> QED
  BY <1>8, <1>11, <1>12, <1>13, <1>14, <1>15, <1>16 DEF Steady, Safe

(* A call that has to wait.                                                *)
LEMMA BlockKeeps ==
    ASSUME SInv, kpc = "perform", call.nr \in {"wait", "read"}, Block,
           UNCHANGED <<interrupted, deferred, fgVars, next_pid, memVars>>,
           FileEffects, cancelled' = (cancelled /\ DriverAlive')
    PROVE  Steady'
<1>0. PICK a \in Slot : a = active
  BY SInvParts
<1>1. /\ TypeOK /\ PidsOK /\ EveryoneHasAFather
      /\ ProgramsFit /\ Order /\ Shielded /\ Marks /\ Foreground /\ FilesOwned /\ Sound
      /\ CancelKnown
  BY SInvParts
<1> DEFINE v == view[a]
           w == View(v.pc, v.r1, v.data, "blocked", v.call)
<1>2. /\ live(a) /\ state[a] = "running" /\ Fits(v)
      /\ v.how = "trapped" /\ v.call = call
      /\ Kid[a] = ChildOf(v) /\ Role[a] = RoleOf(v)
  BY <1>0, PerformsFor
<1>3. /\ UNCHANGED <<pid, father, exit_code, active, next_pid, call, foreground_pid>>
      /\ kpc' = "cancel" /\ state' = [state EXCEPT ![a] = "blocked"] /\ state \in [Slot -> States]
  BY <1>0, <1>1 DEF Block, memVars, fgVars, TypeOK
<1>4. Becomes(a, w)
  BY <1>0, <1>1, <1>2, BlockView
<1> HIDE DEF v
<1>5. /\ Fits(w) /\ ChildOf(w) = ChildOf(v) /\ RoleOf(w) = RoleOf(v)
      /\ ~Unshielded(v) /\ ~Newborn(w)
      /\ Awaits(w) => Awaits(v)
      /\ MayExist(w) = MayExist(v)
  BY <1>2, BlockFits
<1>6. w.data = v.data
  BY DEF View
<1> HIDE DEF w
<1>7. GoesOn(a, w)
  BY <1>0, <1>2, <1>3, <1>4, <1>5 DEF GoesOn, RoleStep, v
<1>8. Order' /\ ProgramsFit'
  BY <1>1, <1>7, GoesOnOrder
<1>9. \A s \in Slot : /\ live(s)' <=> live(s)
                      /\ occupied(s)' <=> occupied(s)
                      /\ state'[s] = "zombie" <=> state[s] = "zombie"
  BY <1>2, <1>3 DEF live, occupied
<1>10. \A s \in Slot : Role'[s] = Role[s]
  <2>1. view'[a] = w /\ \A t \in Slot : t # a => view'[t] = view[t]
    BY <1>4, Becoming
  <2> QED
    BY <1>2, <1>5, <2>1 DEF Role
<1>11. Shielded'
  <2>1. RoleOf(w) = "driver" => deferred'[a]
    BY <1>1, <1>2, <1>5 DEF Shielded, v
  <2> QED
    BY <1>1, <1>4, <1>9, <2>1, ShieldedKept
<1>12. Marks'
  BY <1>1, <1>3, <1>9, MarksKept
<1>13. Foreground'
  <2>1. Awaits(w) => foreground_pid' = w.data.child
    BY <1>1, <1>2, <1>3, <1>5, <1>6 DEF Foreground, v
  <2> QED
    BY <1>1, <1>2, <1>3, <1>4, <1>9, <2>1, ForegroundKept
<1>14. FilesOwned'
  <2>1. \A f \in temps' : f \in temps
    BY DEF FileEffects, Reserve, Unlink, Sys
  <2>2. \A f \in temps' : live(a) /\ Role[a] = "driver" /\ f \in MayExist(view[a]) =>
                             live(a)' /\ RoleOf(w) = "driver" /\ f \in MayExist(w)
    BY <1>2, <1>5, <1>9 DEF v
  <2> QED
    BY <1>1, <1>4, <1>9, <2>1, <2>2, FilesKept
<1>15. CancelKnown'
  <2>1. DriversKept
    BY <1>9, <1>10 DEF DriversKept
  <2> QED
    BY <1>1, <1>8, <2>1, CancelKept
<1>16. NobodyYields' /\ ForkBound'
  BY <1>3, PerformedRest
<1> QED
  BY <1>8, <1>11, <1>12, <1>13, <1>14, <1>15, <1>16 DEF Steady, Safe

(* The end of a wait or a read, at once or in a later pass.                *)
LEMMA WakeKeeps ==
    ASSUME SInv, NEW s \in Slot, live(s), NEW v, v = view[s], v.how # "returned",
           v.call.nr \in {"wait", "read"}, NEW r \in Int, v.pc = "i_waited" => r = v.data.child,
           NEW w, w = View(v.pc, r, v.data, "returned", NoCall), Becomes(s, w), active' = s,
           UNCHANGED <<pid, father, exit_code, next_pid, interrupted, deferred, foreground_pid>>,
           UNCHANGED <<call, temps>>,
           state'[s] = "running", NEW z \in Slot \cup {0},
           v.call.nr = "read" => z = 0,
           z # 0 => z # s /\ state[z] = "zombie" /\ pid[z] = Kid[s] /\ state'[z] = "free",
           v.call.nr = "wait" => z # 0,
           \A t \in Slot : t # s /\ t # z => state'[t] = state[t],
           kpc' # "perform", cancelled' = (cancelled /\ DriverAlive')
    PROVE  Steady'
<1>1. /\ TypeOK /\ PidsOK /\ EveryoneHasAFather
      /\ ProgramsFit /\ Order /\ Shielded /\ Marks /\ Foreground /\ FilesOwned /\ Sound
      /\ CancelKnown /\ NobodyYields
  BY SInvParts
<1>2. Fits(v) /\ Kid[s] = ChildOf(v) /\ Role[s] = RoleOf(v)
  BY <1>1, KidIs DEF ProgramsFit
<1>3. /\ Fits(w) /\ ChildOf(w) = 0 /\ RoleOf(w) = RoleOf(v)
      /\ v.call.nr = "wait" => /\ ChildOf(v) = v.data.child /\ v.data.child > 0
                               /\ v.call.a \in {-1, v.data.child} /\ v.call.c = 0
      /\ v.call.nr = "read" => ChildOf(v) = 0
      /\ ~Unshielded(v) /\ ~Newborn(w) /\ ~Newborn(v)
      /\ Awaits(w) => Awaits(v)
      /\ MayExist(w) = MayExist(v)
  BY <1>2, WakeFits
<1>4. w.data = v.data
  BY DEF View
<1>5. Wakes(s, w, z)
  BY <1>2, <1>3 DEF Wakes
<1>6. Order' /\ ProgramsFit'
  BY <1>1, <1>5, WakesOrder
<1>7. 0 \notin Slot
  BY DEF Slot
<1>8. \A t \in Slot : /\ live(t)' <=> live(t)
                      /\ occupied(t)' => occupied(t)
                      /\ state'[t] = "zombie" => state[t] = "zombie"
  BY <1>7 DEF live, occupied
<1>9. \A t \in Slot : Role'[t] = Role[t]
  <2>1. view'[s] = w /\ \A t \in Slot : t # s => view'[t] = view[t]
    BY Becoming
  <2> QED
    BY <1>2, <1>3, <2>1 DEF Role
<1>10. Shielded'
  <2>1. RoleOf(w) = "driver" => deferred'[s]
    BY <1>1, <1>2, <1>3 DEF Shielded
  <2> QED
    BY <1>1, <1>8, <2>1, ShieldedKept
<1>11. Marks'
  BY <1>1, <1>8, MarksKept
<1>12. Foreground'
  <2>1. Awaits(w) => foreground_pid' = w.data.child
    BY <1>1, <1>3, <1>4 DEF Foreground
  <2> QED
    BY <1>1, <1>8, <2>1, ForegroundKept
<1>13. FilesOwned'
  <2>1. \A f \in temps' : Role[s] = "driver" /\ f \in MayExist(view[s]) =>
                             live(s)' /\ RoleOf(w) = "driver" /\ f \in MayExist(w)
    BY <1>2, <1>3, <1>8
  <2> QED
    BY <1>1, <1>8, <2>1, FilesKept
<1>14. CancelKnown'
  <2>1. DriversKept
    BY <1>8, <1>9 DEF DriversKept
  <2> QED
    BY <1>1, <1>6, <2>1, CancelKept
<1>15. NobodyYields' /\ ForkBound'
  BY <1>1 DEF NobodyYields, ForkBound
<1> QED
  BY <1>6, <1>10, <1>11, <1>12, <1>13, <1>14, <1>15 DEF Steady, Safe

(* Who waits has a child to wait for.                                      *)
LEMMA WaitersHaveChildren ==
    ASSUME SInv, NEW s \in Slot, live(s), NEW v, v = view[s], v.how # "returned",
           NEW c, c = v.call, c.nr = "wait"
    PROVE  /\ ~WaitInvalid(c) /\ c.c = 0 /\ Children(s, c.a) # {}
           /\ \A t \in Children(s, c.a) : pid[t] = Kid[s] /\ pid[t] = v.data.child
<1>1. TypeOK /\ PidsOK /\ ProgramsFit /\ Order
  BY SInvParts
<1>2. Fits(v) /\ Kid[s] = ChildOf(v)
  BY <1>1, KidIs DEF ProgramsFit
<1>3. v.data.child \in Int
  <2>1. v.data.child \in 0..MaxPid /\ MaxPid \in Nat
    BY <1>2, LocalsParts, ConstantsAssumption DEF Fits, LocalsFit
  <2> QED
    BY <2>1
<1>4. /\ ChildOf(v) = v.data.child /\ v.data.child > 0
      /\ c.a \in {-1, v.data.child} /\ c.c = 0
  <2> DEFINE w == View(v.pc, v.data.child, v.data, "returned", NoCall)
  <2> HIDE DEF w
  <2>1. w = View(v.pc, v.data.child, v.data, "returned", NoCall)
    BY DEF w
  <2> QED
    BY <1>2, <1>3, <2>1, WakeFits
<1>5. ~WaitInvalid(c)
  BY <1>3, <1>4 DEF WaitInvalid
<1>6. PICK t \in Slot : occupied(t) /\ pid[t] = Kid[s]
  BY <1>1, <1>2, <1>4 DEF Order, Chain
<1>7. father[t] = pid[s] /\ t # s
  <2>1. father[t] = pid[s] /\ occupied(s)
    BY <1>1, <1>6 DEF Order, Chain, live, occupied
  <2>2. pid[s] < pid[t] /\ pid[s] \in Nat
    BY <1>1, <1>6, <2>1 DEF PidsOK, TypeOK
  <2> QED
    BY <2>1, <2>2
<1>8. t \in Children(s, c.a)
  BY <1>2, <1>4, <1>6, <1>7 DEF Children
<1>9. ASSUME NEW u \in Children(s, c.a) PROVE pid[u] = Kid[s]
  <2>1. u \in Slot /\ occupied(u) /\ father[u] = pid[s] /\ occupied(s)
    BY <1>9 DEF Children, live, occupied
  <2> QED
    BY <1>1, <2>1 DEF Order, Chain
<1> QED
  BY <1>2, <1>4, <1>5, <1>8, <1>9

(* A wait that reaps.                                                      *)
LEMMA ReapKeeps ==
    ASSUME SInv, NEW s \in Slot, live(s), view[s].how # "returned",
           NEW c, c = view[s].call, c.nr = "wait", Zombies(Children(s, c.a)) # {}, Reap(s, c),
           active' = s, snap' = Saved(s), kpc' # "perform",
           \A t \in Slot : t # s => ~Trapped(t),
           UNCHANGED <<interrupted, deferred, fgVars, next_pid, call, temps>>,
           cancelled' = (cancelled /\ DriverAlive')
    PROVE  Steady'
<1> DEFINE z == FirstOf(Zombies(Children(s, c.a)))
<1>1. /\ TypeOK /\ PidsOK /\ Order /\ Sound
  BY SInvParts
<1>2. z \in Slot /\ z \in Children(s, c.a) /\ state[z] = "zombie" /\ z # s
  BY FirstOfIsFirst DEF Zombies, Children
<1>3. /\ state' = [state EXCEPT ![z] = "free", ![s] = "running"]
      /\ window' = [ImageOf(s) EXCEPT !.status = IF c.b = 1 THEN exit_code[z] ELSE @]
      /\ contexts' = [contexts EXCEPT ![s].r1 = pid[z]]
      /\ pending' = [pending EXCEPT ![z] = NoCall, ![s] = NoCall]
      /\ UNCHANGED <<pid, father, exit_code>>
  BY DEF Reap
<1> HIDE DEF z
<1>4. pid[z] = Kid[s] /\ pid[z] = view[s].data.child /\ pid[z] \in Int
  <2>1. PICK v : v = view[s]
    OBVIOUS
  <2>2. \A t \in Children(s, c.a) : pid[t] = Kid[s] /\ pid[t] = v.data.child
    BY <2>1, WaitersHaveChildren
  <2> QED
    BY <1>1, <1>2, <2>1, <2>2 DEF TypeOK
<1>5. /\ state'[s] = "running" /\ state'[z] = "free" /\ pending'[s] = NoCall
      /\ \A t \in Slot : t # s /\ t # z => state'[t] = state[t] /\ pending'[t] = pending[t]
  BY <1>1, <1>2, <1>3 DEF TypeOK
<1>6. window'.data = ImageOf(s).data
  <2>1. ImageOf(s) \in Image
    BY <1>1, ImageType
  <2> QED
    BY <1>3, <2>1 DEF Image
<1>7. PICK r \in Int : r = pid[z]
  BY <1>4
<1>8. PICK v : v = view[s]
  OBVIOUS
<1>9. PICK w : w = View(v.pc, r, v.data, "returned", NoCall)
  OBVIOUS
<1>10. Becomes(s, w)
  <2>1. contexts' = [contexts EXCEPT ![s].r1 = r]
    BY <1>3, <1>7
  <2>2. \A t \in Slot : t # s => \/ state'[t] = state[t] /\ pending'[t] = pending[t]
                                 \/ ~live(t) /\ ~live(t)'
    BY <1>2, <1>5 DEF live
  <2>3. Becomes(s, View(view[s].pc, r, view[s].data, "returned", NoCall))
    BY <1>1, <1>5, <1>6, <2>1, <2>2, WakeView
  <2> QED
    BY <1>8, <1>9, <2>3
<1>11. v.pc = "i_waited" => r = v.data.child
  BY <1>4, <1>7, <1>8
<1>12. z # 0 /\ z \in Slot \cup {0} /\ v.call.nr = "wait"
  BY <1>2, <1>8 DEF Slot
<1> QED
  <2>1. UNCHANGED foreground_pid
    BY DEF fgVars
  <2>2. UNCHANGED <<pid, father, exit_code, next_pid, interrupted, deferred, foreground_pid>>
    BY <1>3, <2>1
  <2>3. /\ z # s
        /\ state[z] = "zombie"
        /\ pid[z] = Kid[s]
        /\ state'[z] = "free"
        /\ state'[s] = "running"
    BY <1>2, <1>4, <1>5
  <2>4. \A t \in Slot : t # s /\ t # z => state'[t] = state[t]
    BY <1>5
  <2>5. v.how # "returned" /\ v.call.nr # "read"
    BY <1>8, <1>12
  <2> QED
    BY <1>8, <1>9, <1>10, <1>11, <1>12, <2>2, <2>3, <2>4, <2>5, WakeKeeps

(* A retried read.                                                         *)
LEMMA ReadKeeps ==
    ASSUME SInv, NEW s \in Slot, live(s), view[s].how # "returned", view[s].call.nr = "read",
           NEW r \in Int, Resume(s, r),
           active' = s, snap' = Saved(s), kpc' # "perform",
           \A t \in Slot : t # s => ~Trapped(t),
           UNCHANGED <<interrupted, deferred, fgVars, next_pid, call, temps>>,
           cancelled' = (cancelled /\ DriverAlive')
    PROVE  Steady'
<1>1. /\ TypeOK /\ Sound /\ ProgramsFit
  BY SInvParts
<1>3. /\ state' = [state EXCEPT ![s] = "running"]
      /\ window' = ImageOf(s)
      /\ contexts' = [contexts EXCEPT ![s].r1 = r]
      /\ pending' = [pending EXCEPT ![s] = NoCall]
      /\ UNCHANGED <<pid, father, exit_code>>
  BY DEF Resume
<1>5. /\ state'[s] = "running" /\ pending'[s] = NoCall
      /\ \A t \in Slot : t # s => state'[t] = state[t] /\ pending'[t] = pending[t]
  BY <1>1, <1>3 DEF TypeOK
<1>8. PICK v : v = view[s]
  OBVIOUS
<1>9. PICK w : w = View(v.pc, r, v.data, "returned", NoCall)
  OBVIOUS
<1>10. Becomes(s, w)
  <2>3. Becomes(s, View(view[s].pc, r, view[s].data, "returned", NoCall))
    BY <1>1, <1>3, <1>5, WakeView
  <2> QED
    BY <1>8, <1>9, <2>3
<1>11. v.pc # "i_waited"
  <2>1. Fits(v)
    BY <1>1, <1>8 DEF ProgramsFit
  <2>2. v.pc = "s_line"
    BY <1>8, <2>1, PointOfCall
  <2> QED
    BY <2>2
<1>12. PICK z : z = 0
  OBVIOUS
<1> QED
  BY <1>3, <1>5, <1>8, <1>9, <1>10, <1>11, <1>12, WakeKeeps DEF fgVars

(* A process ends.                                                         *)
LEMMA DeathKeeps ==
    ASSUME SInv, NEW s, NEW code, Dies(s, code), code = 2 => interrupted[s],
           Role[s] = "driver" => MayExist(view[s]) = {},
           UNCHANGED <<interrupted, deferred, foreground_pid, call, temps>>,
           kpc' # "perform", cancelled' = (cancelled /\ DriverAlive')
    PROVE  Steady'
<1>1. /\ TypeOK /\ PidsOK /\ EveryoneHasAFather
      /\ ProgramsFit /\ Order /\ Shielded /\ Marks /\ Foreground /\ FilesOwned /\ Sound
      /\ CancelKnown /\ NobodyYields
  BY SInvParts
<1>2. /\ s \in Slot /\ live(s) /\ Becomes(s, Gone) /\ UNCHANGED next_pid
      /\ state' = [state EXCEPT ![s] = "zombie"] /\ exit_code' = [exit_code EXCEPT ![s] = code]
      /\ state \in [Slot -> States] /\ exit_code \in [Slot -> Nat]
  BY <1>1 DEF Dies, exit_current, TypeOK
<1>3. Order' /\ ProgramsFit' /\ UNCHANGED <<pid, father>>
  BY <1>1, DiesOrder
<1>4. /\ ~live(s)'
      /\ \A t \in Slot : /\ occupied(t)' => occupied(t)
                         /\ live(t)' => live(t)
                         /\ t # s => live(t)' = live(t) /\ state'[t] = state[t]
                                     /\ exit_code'[t] = exit_code[t]
  BY <1>2 DEF live, occupied
<1>5. \A t \in Slot : t # s => Role'[t] = Role[t]
  <2>1. \A t \in Slot : t # s => view'[t] = view[t]
    BY <1>2, Becoming
  <2> QED
    BY <2>1 DEF Role
<1>6. Shielded'
  BY <1>1, <1>2, <1>4, ShieldedKept
<1>7. Marks'
  <2>1. \A t \in Slot : state'[t] = "zombie" /\ exit_code'[t] = 2 =>
               interrupted'[t] \/ (state[t] = "zombie" /\ exit_code[t] = 2)
    BY <1>2, <1>4
  <2> QED
    BY <1>1, <1>3, <1>4, <2>1, MarksKept
<1>8. Foreground'
  BY <1>1, <1>2, <1>3, <1>4, ForegroundKept
<1>9. FilesOwned'
  BY <1>1, <1>2, <1>4, FilesKept
<1>10. CancelKnown'
  <2>1. DriversKept
    BY <1>4, <1>5 DEF DriversKept
  <2> QED
    BY <1>1, <1>3, <2>1, CancelKept
<1>11. NobodyYields' /\ ForkBound'
  BY <1>1 DEF NobodyYields, ForkBound
<1> QED
  BY <1>3, <1>6, <1>7, <1>8, <1>9, <1>10, <1>11 DEF Steady, Safe

(* Only a process without children and files is ended by a mark.           *)
LEMMA DoomedFits ==
    ASSUME SInv, NEW s \in Slot, live(s), interrupted[s], ~deferred[s]
    PROVE  Kid[s] = 0 /\ (Role[s] = "driver" => MayExist(view[s]) = {})
<1>1. TypeOK /\ PidsOK /\ ProgramsFit /\ Order /\ Shielded /\ Marks
  BY SInvParts
<1>2. father[s] \notin {0, 1} /\ occupied(s)
  BY <1>1 DEF Marks, live, occupied
<1>3. Role[s] # "shell"
  BY <1>1, <1>2 DEF Order, Roles
<1>4. Role[s] # "init"
  <2> SUFFICES ASSUME pid[s] = 1 PROVE FALSE
    BY <1>1 DEF Order, Roles
  <2>1. s = 1
    BY <1>1, <1>2, FirstSlot DEF PidsOK, Order, InitStays, occupied
  <2> QED
    BY <1>1, <1>2, <2>1 DEF Order, InitStays
<1>5. Role[s] = "driver" => Unshielded(view[s])
  BY <1>1 DEF Shielded
<1>6. Fits(view[s]) /\ Kid[s] = ChildOf(view[s]) /\ Role[s] = RoleOf(view[s])
  BY <1>1, KidIs DEF ProgramsFit
<1> QED
  BY <1>3, <1>4, <1>5, <1>6, KillFits

(* fork: the new process has done nothing yet.                             *)
LEMMA ForkKeeps ==
    ASSUME SInv, fork_current, FileEffects, cancelled' = (cancelled /\ DriverAlive')
    PROVE  Steady'
<1>0. PICK a \in Slot : a = active
  BY SInvParts
<1>1. /\ TypeOK /\ PidsOK /\ EveryoneHasAFather
      /\ ProgramsFit /\ Order /\ Shielded /\ Marks /\ Foreground /\ FilesOwned /\ Sound
      /\ CancelKnown /\ ForkBound /\ next_pid \in Nat
  BY SInvParts DEF TypeOK
<1>2. /\ kpc = "perform" /\ call.nr = "fork" /\ kpc' = "cancel" /\ FreeSlots # {}
      /\ active' = active
      /\ UNCHANGED <<foreground_pid, call>>
  BY DEF fork_current, Performs, fgVars
<1> DEFINE v == view[a]
           p == next_pid + 1
<1>3. PICK n \in Slot :
              /\ state[n] = "free" /\ n # a
              /\ pid' = [pid EXCEPT ![n] = p] /\ father' = [father EXCEPT ![n] = pid[a]]
              /\ state' = [state EXCEPT ![n] = "running"]
              /\ exit_code' = [exit_code EXCEPT ![n] = 0]
              /\ interrupted' = [interrupted EXCEPT ![n] = FALSE]
              /\ deferred' = [deferred EXCEPT ![n] = FALSE]
              /\ next_pid' = p
              /\ \A t \in Slot : t # n /\ t # a => view'[t] = view[t]
              /\ view'[a] = View(v.pc, p, v.data, "returned", NoCall)
              /\ view'[n] = View(v.pc, 0, v.data, "returned", NoCall)
  <2>1. \E n \in Slot :
              /\ state[n] = "free" /\ n # active
              /\ pid' = [pid EXCEPT ![n] = next_pid + 1]
              /\ father' = [father EXCEPT ![n] = pid[active]]
              /\ state' = [state EXCEPT ![n] = "running"]
              /\ exit_code' = [exit_code EXCEPT ![n] = 0]
              /\ interrupted' = [interrupted EXCEPT ![n] = FALSE]
              /\ deferred' = [deferred EXCEPT ![n] = FALSE]
              /\ next_pid' = next_pid + 1
              /\ \A t \in Slot : t # n /\ t # active => view'[t] = view[t]
              /\ view'[active] = View(view[active].pc, next_pid + 1, view[active].data, "returned", NoCall)
              /\ view'[n] = View(view[active].pc, 0, view[active].data, "returned", NoCall)
    BY <1>1, ForkView
  <2>2. view'[active] = view'[a]
    BY <1>0
  <2> QED
    BY <1>0, <2>1, <2>2
<1>4. /\ live(a) /\ state[a] = "running" /\ Fits(v)
      /\ v.how = "trapped" /\ v.call = call
      /\ Kid[a] = ChildOf(v) /\ Role[a] = RoleOf(v)
  BY <1>0, <1>2, PerformsFor
<1>5. p \in 1..MaxPid
  BY <1>1, <1>2, ConstantsAssumption DEF ForkBound
<1> DEFINE w == view'[a]
           m == view'[n]
<1> HIDE DEF v, p
<1>6. /\ Fits(w) /\ Fits(m) /\ ChildOf(v) = 0 /\ ChildOf(w) = p /\ ChildOf(m) = 0
      /\ Newborn(m) /\ ~Newborn(w) /\ RoleOf(w) = RoleOf(v)
      /\ \/ RoleOf(v) = "init" /\ RoleOf(m) = "shell"
         \/ RoleOf(v) = "shell" /\ RoleOf(m) = "command"
         \/ RoleOf(v) = "driver" /\ RoleOf(m) = "stage"
      /\ ~Unshielded(v) /\ ~Awaits(m) /\ ~Awaits(w)
      /\ MayExist(w) = MayExist(v)
  <2>1. PICK x : x = View(v.pc, p, v.data, "returned", NoCall)
    OBVIOUS
  <2>2. PICK y : y = View(v.pc, 0, v.data, "returned", NoCall)
    OBVIOUS
  <2>3. /\ Fits(x) /\ Fits(y) /\ ChildOf(v) = 0 /\ ChildOf(x) = p /\ ChildOf(y) = 0
        /\ Newborn(y) /\ ~Newborn(x) /\ RoleOf(x) = RoleOf(v)
        /\ \/ RoleOf(v) = "init" /\ RoleOf(y) = "shell"
           \/ RoleOf(v) = "shell" /\ RoleOf(y) = "command"
           \/ RoleOf(v) = "driver" /\ RoleOf(y) = "stage"
        /\ ~Unshielded(v) /\ ~Awaits(y) /\ ~Awaits(x)
        /\ MayExist(x) = MayExist(v)
    BY <1>2, <1>4, <1>5, <2>1, <2>2, ForkFits
  <2>4. w = x /\ m = y
    BY <1>3, <2>1, <2>2
  <2> QED
    BY <2>3, <2>4
<1>7. Forks(a, n)
  <2>1. active' = a
    BY <1>0, <1>2
  <2> QED
    BY <1>0, <1>3, <1>4, <1>6, <2>1 DEF Forks, v, p
<1>8. Order' /\ ProgramsFit'
  BY <1>1, <1>7, ForksOrder
<1>9. /\ state \in [Slot -> States] /\ pid \in [Slot -> Nat] /\ father \in [Slot -> Nat]
      /\ exit_code \in [Slot -> Nat] /\ interrupted \in [Slot -> BOOLEAN]
      /\ deferred \in [Slot -> BOOLEAN]
  BY <1>1 DEF TypeOK
<1>10. /\ live(n)' /\ ~live(n) /\ state'[n] = "running" /\ exit_code'[n] = 0 /\ ~interrupted'[n]
       /\ father'[n] = pid[a] /\ pid'[n] = p
       /\ \A s \in Slot : s # n => /\ state'[s] = state[s] /\ pid'[s] = pid[s]
                                   /\ father'[s] = father[s] /\ exit_code'[s] = exit_code[s]
                                   /\ interrupted'[s] = interrupted[s] /\ deferred'[s] = deferred[s]
  BY <1>3, <1>9 DEF live
<1>11. \A s \in Slot : s # n => /\ live(s)' <=> live(s)
                                /\ occupied(s)' <=> occupied(s)
  BY <1>10 DEF live, occupied
<1>12. /\ \A s \in Slot \ {a, n} : view'[s] = view[s] /\ Role'[s] = Role[s]
       /\ Role'[a] = Role[a] /\ Role'[n] = RoleOf(m) /\ Role'[n] # "driver"
  <2>1. \A s \in Slot : Role'[s] = RoleOf(view'[s]) /\ Role[s] = RoleOf(view[s])
    BY DEF Role
  <2> QED
    BY <1>3, <1>4, <1>6, <2>1
<1>13. Shielded'
  <2> SUFFICES ASSUME NEW s \in Slot, live(s)', Role'[s] = "driver"
               PROVE  Unshielded(view'[s]) \/ deferred'[s]
    BY DEF Shielded
  <2>1. s # n
    BY <1>12
  <2>2. CASE s = a
    <3>1. Unshielded(view[a]) \/ deferred[a]
      BY <1>1, <1>4, <1>12, <2>2 DEF Shielded
    <3> QED
      BY <1>6, <1>10, <2>1, <2>2, <3>1 DEF v
  <2>3. CASE s # a
    BY <1>1, <1>10, <1>11, <1>12, <2>1, <2>3 DEF Shielded
  <2> QED
    BY <2>2, <2>3
<1>14. Marks'
  <2> SUFFICES ASSUME NEW s \in Slot, occupied(s)'
               PROVE  /\ interrupted'[s] => father'[s] \notin {0, 1}
                      /\ state'[s] = "zombie" /\ exit_code'[s] = 2 => interrupted'[s]
    BY DEF Marks
  <2>1. CASE s = n
    BY <1>10, <2>1
  <2>2. CASE s # n
    BY <1>1, <1>10, <1>11, <2>2 DEF Marks
  <2> QED
    BY <2>1, <2>2
<1>15. Foreground'
  <2>1. foreground_pid' <= next_pid' /\ foreground_pid' # p
    <3>1. foreground_pid <= next_pid /\ foreground_pid \in Nat
      BY <1>1 DEF Foreground, TypeOK
    <3> QED
      BY <1>1, <1>2, <1>3, <3>1 DEF p
  <2>2. ASSUME foreground_pid' # 0, NEW t \in Slot, occupied(t)', pid'[t] = foreground_pid'
        PROVE  father'[t] \notin {0, 1}
    <3>1. t # n
      BY <1>10, <2>1, <2>2
    <3> QED
      BY <1>1, <1>2, <1>10, <1>11, <2>2, <3>1 DEF Foreground
  <2>3. ASSUME NEW s \in Slot, live(s)', Awaits(view'[s])
        PROVE  foreground_pid' = view'[s].data.child
    <3>1. s # n /\ s # a
      BY <1>6, <2>3
    <3> QED
      BY <1>1, <1>2, <1>11, <1>12, <2>3, <3>1 DEF Foreground
  <2> QED
    BY <2>1, <2>2, <2>3 DEF Foreground
<1>16. FilesOwned'
  <2>1. temps' \subseteq temps
    BY <1>2 DEF FileEffects, Reserve, Unlink, Sys
  <2> SUFFICES ASSUME NEW f \in temps'
               PROVE  \E s \in Slot : live(s)' /\ Role'[s] = "driver" /\ f \in MayExist(view'[s])
    BY DEF FilesOwned
  <2>2. PICK s \in Slot : live(s) /\ Role[s] = "driver" /\ f \in MayExist(view[s])
    BY <1>1, <2>1 DEF FilesOwned
  <2>3. s # n /\ live(s)' /\ Role'[s] = "driver"
    BY <1>10, <1>11, <1>12, <2>2
  <2>4. f \in MayExist(view'[s])
    BY <1>6, <1>12, <2>2, <2>3 DEF v
  <2> QED
    BY <2>3, <2>4
<1>17. CancelKnown'
  <2>1. DriversKept
    BY <1>10, <1>11, <1>12 DEF DriversKept
  <2> QED
    BY <1>1, <1>8, <2>1, CancelKept
<1>18. NobodyYields' /\ ForkBound'
  BY <1>2, PerformedRest
<1> QED
  BY <1>8, <1>13, <1>14, <1>15, <1>16, <1>17, <1>18 DEF Steady, Safe

(* The phases between calls.                                               *)
LEMMA QuietKeeps ==
    ASSUME SInv, view' = view, UNCHANGED <<taskVars, deferred, fgVars, next_pid, temps>>,
           kpc' # "perform", call' = call \/ call' = NoCall,
           active' = active \/ state[active] # "running",
           \/ UNCHANGED interrupted /\ cancelled' = (cancelled /\ DriverAlive')
           \/ \E k \in Keys : /\ PollKey(k)
                              /\ cancelled' = (DriverAlive' /\ (cancelled \/ k = "interrupt"))
    PROVE  Steady'
<1>1. /\ TypeOK /\ PidsOK /\ EveryoneHasAFather
      /\ ProgramsFit /\ Order /\ Shielded /\ Marks /\ Foreground /\ FilesOwned /\ Sound
      /\ CancelKnown /\ NobodyYields
  BY SInvParts
<1>2. UNCHANGED <<pid, father, state, exit_code, next_pid, deferred, foreground_pid, temps>>
  BY DEF taskVars, fgVars
<1>3. Rests
  BY <1>2 DEF Rests
<1>4. Order' /\ ProgramsFit'
  BY <1>1, <1>3, RestsOrder
<1>5. Role' = Role /\ \A s \in Slot : /\ live(s)' <=> live(s)
                                      /\ occupied(s)' <=> occupied(s)
  BY <1>2 DEF Role, live, occupied
<1>6. /\ \A s \in Slot : interrupted[s] => interrupted'[s]
      /\ \A s \in Slot : occupied(s) /\ interrupted'[s] => interrupted[s] \/ father[s] \notin {0, 1}
  BY <1>1, PollMarksFew
<1>7. Shielded' /\ FilesOwned'
  BY <1>1, <1>2, <1>5 DEF Shielded, FilesOwned
<1>8. Marks'
  BY <1>1, <1>2, <1>5, <1>6, MarksKept
<1>9. Foreground'
  BY <1>1, <1>2, <1>5 DEF Foreground
<1>10. CancelKnown'
  <2>1. CASE UNCHANGED interrupted /\ cancelled' = (cancelled /\ DriverAlive')
    <3>1. DriversKept
      BY <1>5, <1>6 DEF DriversKept
    <3> QED
      BY <1>1, <1>4, <2>1, <3>1, CancelKept
  <2>2. CASE \E k \in Keys : /\ PollKey(k)
                             /\ cancelled' = (DriverAlive' /\ (cancelled \/ k = "interrupt"))
    BY <1>4, <1>5, <2>2, CancelPolled
  <2> QED
    BY <2>1, <2>2
<1>11. NobodyYields' /\ ForkBound'
  BY <1>1 DEF NobodyYields, ForkBound, NoCall
<1> QED
  BY <1>4, <1>7, <1>8, <1>9, <1>10, <1>11 DEF Steady, Safe

(***************************************************************************)
(* Every step.                                                             *)
(***************************************************************************)
LEMMA ExitKeeps ==
    ASSUME SInv, PerformExit, FileEffects, cancelled' = (cancelled /\ DriverAlive')
    PROVE  Steady'
<1>0. PICK a \in Slot : a = active
  BY SInvParts
<1>1. /\ kpc = "perform" /\ kpc' = "cancel" /\ call.nr = "exit" /\ call' = call
      /\ exit_current(a, (call.a % 256) * 256)
      /\ contexts' = [contexts EXCEPT ![a].r1 = 0]
      /\ UNCHANGED <<pending, interrupted, deferred, foreground_pid, next_pid, active, snap>>
  BY <1>0 DEF PerformExit, Performs, Return, cancelVars, fgVars, memVars
<1>2. /\ live(a) /\ state[a] = "running" /\ Fits(view[a])
      /\ view[a].how = "trapped" /\ view[a].call = call
      /\ Kid[a] = ChildOf(view[a]) /\ Role[a] = RoleOf(view[a])
  BY <1>0, <1>1, PerformsFor
<1>3. Kid[a] = 0 /\ (Role[a] = "driver" => MayExist(view[a]) = {})
  BY <1>1, <1>2, ExitFits
<1>4. Sound /\ TypeOK
  BY SInvParts
<1>5. Becomes(a, Gone)
  <2>1. snap' = Saved(a)
    BY <1>0, <1>1 DEF Saved
  <2>2. \A t \in Slot : t # a =>
           ~Trapped(t) /\ contexts'[t] = contexts[t] /\ pending'[t] = pending[t]
    BY <1>0, <1>1, <1>4 DEF Trapped, TypeOK
  <2> QED
    BY <1>0, <1>1, <1>2, <1>4, <2>1, <2>2, DeathView
<1>6. PICK code : code = (call.a % 256) * 256
  OBVIOUS
<1>7. code # 2
  <2>1. call.a \in Nat
    BY <1>1, <1>4 DEF TypeOK, Calls, NoCall
  <2>2. call.a % 256 \in Int
    BY <2>1
  <2> QED
    BY <1>6, <2>2
<1>8. Dies(a, code)
  BY <1>0, <1>1, <1>2, <1>3, <1>5, <1>6 DEF Dies
<1>9. temps' = temps
  BY <1>1 DEF FileEffects, Reserve, Unlink, Sys
<1> QED
  BY <1>1, <1>3, <1>7, <1>8, <1>9, DeathKeeps

(* The dispatch killing a marked process before it runs (process.c,        *)
(* dispatch) keeps the invariant: it is neither init nor the shell, nor a  *)
(* driver with files.                                                      *)
LEMMA KillKeeps ==
    ASSUME SInv, DispatchKill, FileEffects, cancelled' = (cancelled /\ DriverAlive')
    PROVE  Steady'
<1>0. PICK a \in Slot : a = active
  BY SInvParts
<1>1. /\ kpc = "perform" /\ kpc' = "cancel" /\ call' = call
      /\ interrupted[a] /\ ~deferred[a]
      /\ exit_current(a, 2)
      /\ contexts' = [contexts EXCEPT ![a].r1 = 0]
      /\ UNCHANGED <<pending, interrupted, deferred, foreground_pid, next_pid, active, snap>>
  BY <1>0 DEF DispatchKill, Return, cancelVars, fgVars, memVars
<1>2. live(a)
  BY <1>0, <1>1, PerformsFor
<1>3. Kid[a] = 0 /\ (Role[a] = "driver" => MayExist(view[a]) = {})
  BY <1>1, <1>2, DoomedFits
<1>4. Sound /\ TypeOK
  BY SInvParts
<1>5. Becomes(a, Gone)
  <2>1. snap' = Saved(a)
    BY <1>0, <1>1 DEF Saved
  <2>2. \A t \in Slot : t # a =>
           ~Trapped(t) /\ contexts'[t] = contexts[t] /\ pending'[t] = pending[t]
    BY <1>0, <1>1, <1>4 DEF Trapped, TypeOK
  <2> QED
    BY <1>0, <1>1, <1>2, <1>4, <2>1, <2>2, DeathView
<1>6. Dies(a, 2)
  BY <1>0, <1>1, <1>2, <1>3, <1>5 DEF Dies
<1>7. temps' = temps
  <2>1. ~Performed
    BY <1>0, <1>1 DEF Performed
  <2> QED
    BY <2>1 DEF FileEffects
<1> QED
  BY <1>1, <1>3, <1>6, <1>7, DeathKeeps

(* The cancellation of one marked, undeferred process keeps the invariant. *)
LEMMA CancelOneKeeps ==
    ASSUME SInv, CancelOne, FileEffects, cancelled' = (cancelled /\ DriverAlive')
    PROVE  Steady'
<1>0. PICK s \in Slot : s = FirstOf(Doomed) /\ s \in Doomed
  <2>1. Doomed \subseteq Slot /\ Doomed # {}
    BY DEF CancelOne, Doomed
  <2> QED
    BY <2>1, FirstOfIsFirst
<1>1. /\ kpc = "cancel" /\ kpc' = "cancel" /\ call' = call
      /\ live(s) /\ interrupted[s] /\ ~deferred[s]
      /\ exit_current(s, 2) /\ active' = s /\ snap' = Saved(s)
      /\ pending' = [pending EXCEPT ![s] = NoCall]
      /\ UNCHANGED <<contexts, interrupted, deferred, foreground_pid, next_pid>>
  BY <1>0 DEF CancelOne, Doomed, activate, cancelVars, fgVars
<1>3. Kid[s] = 0 /\ (Role[s] = "driver" => MayExist(view[s]) = {})
  BY <1>1, DoomedFits
<1>4. Sound /\ TypeOK
  BY SInvParts
<1>5. Becomes(s, Gone)
  <2>2. \A t \in Slot : t # s =>
           ~Trapped(t) /\ contexts'[t] = contexts[t] /\ pending'[t] = pending[t]
    BY <1>1, <1>4 DEF Trapped, TypeOK
  <2> QED
    BY <1>1, <1>4, <2>2, DeathView
<1>6. Dies(s, 2)
  BY <1>1, <1>3, <1>5 DEF Dies
<1>7. temps' = temps
  <2>1. ~Performed
    BY <1>1 DEF Performed
  <2> QED
    BY <2>1 DEF FileEffects
<1> QED
  BY <1>1, <1>3, <1>6, <1>7, DeathKeeps

(* Calls that only return: nothing is marked, named or deferred by them.   *)
LEMMA PlainKeeps ==
    ASSUME SInv, kpc = "perform", ~(interrupted[active] /\ ~deferred[active]),
           NEW r \in Int, Return(r), UNCHANGED <<taskVars, pending, memVars, next_pid>>,
           call.nr \notin {"wait", "fg", "defer"}, call.nr = "fork" => r < 0,
           UNCHANGED <<interrupted, deferred, fgVars>>,
           FileEffects, cancelled' = (cancelled /\ DriverAlive')
    PROVE  Steady'
<1>1. call # Sys("defer", 1, 0, 0)
  BY DEF Sys
<1>2. foreground_pid' = foreground_pid
  BY DEF fgVars
<1> QED
  BY <1>1, <1>2, ReturnKeeps

(* Call 103, by which the shell hands the terminal over, keeps the         *)
(* invariant.                                                              *)
LEMMA SetForegroundKeeps ==
    ASSUME SInv, SetForeground, FileEffects, cancelled' = (cancelled /\ DriverAlive')
    PROVE  Steady'
<1>0. PICK a \in Slot : a = active
  BY SInvParts
<1>1. /\ kpc = "perform" /\ ~(interrupted[a] /\ ~deferred[a]) /\ call.nr = "fg"
      /\ UNCHANGED <<taskVars, pending, next_pid, memVars>>
  BY <1>0 DEF SetForeground, Performs
<1>2. /\ live(a) /\ Fits(view[a])
      /\ view[a].how = "trapped" /\ view[a].call = call
      /\ Kid[a] = ChildOf(view[a]) /\ Role[a] = RoleOf(view[a])
  BY <1>0, <1>1, PerformsFor
<1>3. /\ TypeOK /\ PidsOK /\ EveryoneHasAFather /\ Order
  BY SInvParts
<1>4. \/ view[a].pc \in {"s_start", "s_unnamed"} /\ call.a = 0
      \/ view[a].pc = "s_named" /\ call.a = view[a].data.child
  BY <1>1, <1>2, PointOfCall
<1>5. call.a # 0 => IsChild(call.a)
  <2> SUFFICES ASSUME call.a # 0 PROVE IsChild(call.a)
    OBVIOUS
  <2>1. Kid[a] = call.a
    BY <1>2, <1>4 DEF ChildOf, ForkPoints, WaitPoints
  <2>2. PICK t \in Slot : occupied(t) /\ pid[t] = Kid[a]
    BY <1>3, <2>1 DEF Order, Chain
  <2>3. father[t] = pid[a]
    BY <1>2, <1>3, <2>2 DEF Order, Chain, live, occupied
  <2> QED
    BY <1>0, <2>1, <2>2, <2>3 DEF IsChild
<1>6. /\ Return(0) /\ foreground_pid' = call.a /\ deferred' = deferred
      /\ \/ UNCHANGED interrupted
         \/ call.a # 0 /\ interrupted' = [s \in Slot |->
                              interrupted[s] \/ (occupied(s) /\ descendant(s, call.a))]
  BY <1>5 DEF SetForeground
<1>7. pid[a] \notin {0, 1}
  <2>1. Role[a] = "shell"
    BY <1>2, <1>4 DEF RoleOf, Newborn, InitPoints, ShellPoints, ForkPoints
  <2>2. pid[a] # 1
    BY <1>2, <1>3, <2>1 DEF Order, Roles
  <2>3. 0 < pid[a]
    BY <1>2, <1>3 DEF PidsOK, live, occupied
  <2> QED
    BY <2>2, <2>3
<1>8. ASSUME call.a # 0, NEW s \in Slot, occupied(s), descendant(s, call.a)
      PROVE  father[s] \notin {0, 1}
  <2>1. PICK t \in Slot : occupied(t) /\ pid[t] = call.a /\ father[t] = pid[a]
    BY <1>0, <1>5, <1>8 DEF IsChild
  <2>2. \A u \in Slot : occupied(u) /\ pid[u] = call.a => father[u] \notin {0, 1}
    BY <1>3, <1>7, <2>1 DEF PidsOK
  <2>3. call.a \in Nat
    BY <1>3, <2>1 DEF TypeOK
  <2> QED
    BY <1>3, <1>8, <2>2, <2>3, MarksSpare
<1>9. /\ \A s \in Slot : interrupted[s] => interrupted'[s]
      /\ \A s \in Slot : occupied(s) /\ interrupted'[s] =>
             interrupted[s] \/ father[s] \notin {0, 1}
  <2>1. CASE UNCHANGED interrupted
    BY <2>1
  <2>2. CASE /\ call.a # 0
             /\ interrupted' = [s \in Slot |->
                              interrupted[s] \/ (occupied(s) /\ descendant(s, call.a))]
    BY <1>8, <2>2
  <2> QED
    BY <1>6, <2>1, <2>2
<1>10. call # Sys("defer", 1, 0, 0)
  BY <1>1 DEF Sys
<1> QED
  BY <1>0, <1>1, <1>5, <1>6, <1>9, <1>10, ReturnKeeps

(* Call 104, by which the driver shields itself or asks whether it was     *)
(* cancelled, keeps the invariant.                                         *)
LEMMA DeferKeeps ==
    ASSUME SInv, Defer, FileEffects, cancelled' = (cancelled /\ DriverAlive')
    PROVE  Steady'
<1>0. PICK a \in Slot : a = active
  BY SInvParts
<1>1. /\ kpc = "perform" /\ ~(interrupted[active] /\ ~deferred[active]) /\ call.nr = "defer"
      /\ deferred' = [deferred EXCEPT ![a] = @ \/ call.a = 1]
      /\ deferred \in [Slot -> BOOLEAN]
      /\ UNCHANGED <<taskVars, pending, interrupted, next_pid, memVars>>
      /\ foreground_pid' = foreground_pid
      /\ Return(IF interrupted[active] THEN 1 ELSE 0)
  BY <1>0, SInvParts DEF Defer, Performs, fgVars, TypeOK
<1>2. /\ \A s \in Slot : deferred[s] => deferred'[s]
      /\ call.a = 1 => deferred'[a]
  BY <1>1
<1>3. call = Sys("defer", 1, 0, 0) => deferred'[active]
  BY <1>0, <1>2 DEF Sys
<1>4. PICK r \in Int : Return(r)
  BY <1>1
<1> QED
  BY <1>1, <1>2, <1>3, <1>4, ReturnKeeps

(* waitpid, which reaps a zombie, blocks or fails, keeps the invariant.    *)
LEMMA WaitKeeps ==
    ASSUME SInv, wait_current, FileEffects, cancelled' = (cancelled /\ DriverAlive')
    PROVE  Steady'
<1>0. PICK a \in Slot : a = active
  BY SInvParts
<1>1. /\ kpc = "perform" /\ call.nr = "wait"
      /\ UNCHANGED <<interrupted, deferred, fgVars, next_pid, active, snap>>
  BY DEF wait_current, Performs, cancelVars
<1>2. /\ live(a) /\ view[a].how = "trapped" /\ view[a].call = call
  BY <1>0, <1>1, PerformsFor
<1>3. PICK v, c : v = view[a] /\ c = call
  OBVIOUS
<1>4. /\ ~WaitInvalid(c) /\ c.c = 0 /\ Children(a, c.a) # {}
  BY <1>1, <1>2, <1>3, WaitersHaveChildren
<1>5. CASE Zombies(Children(a, c.a)) # {}
  <2>1. Reap(a, c) /\ kpc' = "cancel" /\ call' = call
    BY <1>0, <1>3, <1>4, <1>5 DEF wait_current
  <2>2. temps' = temps
    BY <1>1 DEF FileEffects, Reserve, Unlink, Sys
  <2>3. active' = a /\ snap' = Saved(a) /\ \A t \in Slot : t # a => ~Trapped(t)
    BY <1>0, <1>1 DEF Saved, Trapped
  <2> QED
    BY <1>1, <1>2, <1>3, <1>5, <2>1, <2>2, <2>3, ReapKeeps
<1>6. CASE Zombies(Children(a, c.a)) = {}
  <2>1. Block /\ UNCHANGED window
    BY <1>0, <1>3, <1>4, <1>6 DEF wait_current
  <2>2. UNCHANGED memVars
    BY <1>1, <2>1 DEF memVars
  <2> QED
    BY <1>1, <2>1, <2>2, BlockKeeps
<1> QED
  BY <1>5, <1>6

(* A read of the terminal, which returns a line, fails or blocks, keeps the*)
(* invariant.                                                              *)
LEMMA ReadCallKeeps ==
    ASSUME SInv, tty_read_user, FileEffects, cancelled' = (cancelled /\ DriverAlive')
    PROVE  Steady'
<1>1. /\ kpc = "perform" /\ call.nr = "read" /\ ~(interrupted[active] /\ ~deferred[active])
      /\ UNCHANGED <<interrupted, deferred, fgVars, next_pid, memVars>>
  BY DEF tty_read_user, Performs
<1>2. \/ Block
      \/ \E r \in Int : Return(r) /\ UNCHANGED <<taskVars, pending>>
  <2>1. Len(input) \in Nat
    <3>1. input \in Seq(Byte)
      BY SInvParts DEF TypeOK
    <3> QED
      BY <3>1
  <2>2. 1..Len(input) \subseteq Int /\ EINTR \in Int
    BY <2>1 DEF EINTR
  <2> QED
    BY <2>2 DEF tty_read_user
<1>3. CASE Block
  BY <1>1, <1>3, BlockKeeps
<1>4. CASE \E r \in Int : Return(r) /\ UNCHANGED <<taskVars, pending>>
  <2>1. PICK r \in Int : Return(r) /\ UNCHANGED <<taskVars, pending>>
    BY <1>4
  <2> QED
    BY <1>1, <2>1, PlainKeeps
<1> QED
  BY <1>2, <1>3, <1>4

(* exec, which loads a program or fails, keeps the invariant.              *)
LEMMA ExecKeeps ==
    ASSUME SInv, PerformExec, ExecEntry, FileEffects, cancelled' = (cancelled /\ DriverAlive')
    PROVE  Steady'
<1>1. /\ kpc = "perform" /\ call.nr = "exec" /\ ~(interrupted[active] /\ ~deferred[active])
      /\ Performs("exec")
      /\ UNCHANGED <<taskVars, pending, cancelVars, fgVars, next_pid, active, snap>>
  BY DEF PerformExec, Performs
<1>2. CASE Return(ENOENT) /\ UNCHANGED window
  <2>1. ENOENT \in Int /\ UNCHANGED memVars /\ UNCHANGED <<interrupted, deferred>>
    BY <1>1, <1>2 DEF ENOENT, memVars, cancelVars
  <2> QED
    BY <1>1, <1>2, <2>1, PlainKeeps
<1>3. CASE \E e \in Entry :
             /\ window' = [status |-> 0, data |-> Fresh]
             /\ contexts' = [contexts EXCEPT ![active] = [pc |-> e, r1 |-> 0]]
             /\ kpc' = "cancel"
             /\ UNCHANGED <<call, scan>>
  <2>1. PICK e \in Entry :
             /\ window' = [status |-> 0, data |-> Fresh]
             /\ contexts' = [contexts EXCEPT ![active] = [pc |-> e, r1 |-> 0]]
             /\ kpc' = "cancel"
             /\ UNCHANGED <<call, scan>>
    BY <1>3
  <2> QED
    BY <1>1, <2>1, LoadKeeps
<1> QED
  BY <1>2, <1>3 DEF PerformExec

(* A fork that fails, a rename, the query of call 105 and the calls without*)
(* an effect on processes keep the invariant.                              *)
LEMMA OthersKeep ==
    ASSUME SInv, ForkFails \/ PerformRename \/ TakeCancel \/ PerformOther,
           FileEffects, cancelled' = (cancelled /\ DriverAlive')
    PROVE  Steady'
<1>1. /\ kpc = "perform" /\ ~(interrupted[active] /\ ~deferred[active])
      /\ UNCHANGED <<taskVars, pending, memVars, next_pid, interrupted, deferred, fgVars>>
  BY DEF ForkFails, PerformRename, TakeCancel, PerformOther, Performs, cancelVars
<1>2. /\ call.nr \notin {"wait", "fg", "defer"}
      /\ \E r \in Int : Return(r) /\ (call.nr = "fork" => r < 0)
  <2>1. CASE ForkFails
    <3>1. /\ (IF CancelSeen THEN EINTR ELSE EAGAIN) \in Int
          /\ (IF CancelSeen THEN EINTR ELSE EAGAIN) < 0
      BY DEF EINTR, EAGAIN
    <3> QED
      BY <2>1, <3>1 DEF ForkFails, Performs
  <2>2. CASE PerformRename
    <3>1. {0, ENOENT} \subseteq Int /\ EINTR \in Int
      BY DEF EINTR, ENOENT
    <3> QED
      BY <2>2, <3>1 DEF PerformRename, Performs
  <2>3. CASE TakeCancel
    <3>1. (IF cancel_read[active] THEN 1 ELSE 0) \in Int
      OBVIOUS
    <3> QED
      BY <2>3, <3>1 DEF TakeCancel, Performs
  <2>4. CASE PerformOther
    BY <2>4 DEF PerformOther, Performs
  <2> QED
    BY <2>1, <2>2, <2>3, <2>4
<1>3. PICK r \in Int : Return(r) /\ (call.nr = "fork" => r < 0)
  BY <1>2
<1> QED
  BY <1>1, <1>2, <1>3, PlainKeeps

(* A retry of a blocked wait or read by the scheduler's pass keeps the     *)
(* invariant.                                                              *)
LEMMA RetryKeeps ==
    ASSUME SInv, NEW s \in Slot, RetryReady(s), FileEffects,
           cancelled' = (cancelled /\ DriverAlive')
    PROVE  Steady'
<1>1. /\ kpc = "retry" /\ kpc' = "retry" /\ call' = call /\ active' = s /\ snap' = Saved(s)
      /\ UNCHANGED <<interrupted, deferred, fgVars, next_pid>>
      /\ pending[s].nr \in {"wait", "read"}
  BY DEF RetryReady
<1>2. occupied(s)
  <2>1. s = FirstOf(ToRetry) /\ ToRetry \subseteq Slot /\ ToRetry # {}
    BY DEF RetryReady, ToRetry
  <2>2. s \in ToRetry
    BY <2>1, FirstOfIsFirst
  <2> QED
    BY <2>2 DEF ToRetry, Ready
<1>3. TypeOK /\ SleepersHaveCalls
  BY SInvParts DEF IInv
<1>4. state[s] = "blocked" /\ live(s)
  <2>1. pending[s] # NoCall
    BY <1>1 DEF NoCall
  <2> QED
    BY <1>2, <1>3, <2>1 DEF SleepersHaveCalls, live
<1>5. ~Performed /\ \A t \in Slot : ~Trapped(t)
  BY <1>1 DEF Performed, Trapped
<1>6. temps' = temps
  BY <1>5 DEF FileEffects
<1>7. view[s].how # "returned" /\ view[s].call = pending[s]
  BY <1>4, <1>5, ViewParts
<1>8. CASE pending[s].nr = "wait"
  <2>1. PICK v, c : v = view[s] /\ c = pending[s]
    OBVIOUS
  <2>2. Children(s, c.a) # {}
    BY <1>4, <1>7, <1>8, <2>1, WaitersHaveChildren
  <2>3. Reap(s, c)
    BY <1>8, <2>1, <2>2 DEF RetryReady
  <2>4. Zombies(Children(s, c.a)) # {}
    <3>1. s = FirstOf(ToRetry) /\ ToRetry \subseteq Slot /\ ToRetry # {}
      BY DEF RetryReady, ToRetry
    <3>2. Ready(s)
      BY <3>1, FirstOfIsFirst DEF ToRetry
    <3> QED
      BY <1>8, <2>1, <2>2, <3>2 DEF Ready, wait_ready
  <2> QED
    BY <1>1, <1>4, <1>5, <1>6, <1>7, <1>8, <2>1, <2>3, <2>4, ReapKeeps
<1>9. CASE pending[s].nr = "read"
  <2>1. \E r \in Int : Resume(s, r)
    <3>1. Len(input) \in Nat
      <4>1. input \in Seq(Byte)
        BY <1>3 DEF TypeOK
      <4> QED
        BY <4>1
    <3>2. 1..Len(input) \subseteq Int /\ EINTR \in Int
      BY <3>1 DEF EINTR
    <3> QED
      BY <1>9, <3>2 DEF RetryReady
  <2>2. PICK r \in Int : Resume(s, r)
    BY <2>1
  <2> QED
    BY <1>1, <1>4, <1>5, <1>6, <1>7, <1>9, <2>2, ReadKeeps
<1> QED
  BY <1>1, <1>8, <1>9

(* The ends of the scheduler's passes and its choice of the next process   *)
(* keep the invariant.                                                     *)
LEMMA PhasesKeep ==
    ASSUME SInv, CancelDone \/ RetryDone \/ Choose, FileEffects,
           cancelled' = (cancelled /\ DriverAlive')
    PROVE  Steady'
<1>1. Sound /\ NobodyYields
  BY SInvParts
<1>2. view' = view
  BY <1>1, QuietView
<1>3. /\ UNCHANGED <<taskVars, deferred, interrupted, fgVars, next_pid>>
      /\ kpc # "perform" /\ kpc' # "perform" /\ (call' = call \/ call' = NoCall)
  BY DEF CancelDone, RetryDone, Choose, cancelVars
<1>4. temps' = temps
  <2>1. ~Performed
    BY <1>3 DEF Performed
  <2> QED
    BY <2>1 DEF FileEffects
<1>5. active' = active \/ state[active] # "running"
  <2>1. CASE CancelDone \/ RetryDone
    BY <2>1 DEF CancelDone, RetryDone, memVars
  <2>2. CASE Choose
    <3>1. active' = Chosen /\ call.nr # "yield" /\ active \in Slot
      BY <1>1, <2>2 DEF Choose, activate, NobodyYields, Sound
    <3>2. CASE state[active] = "running"
      BY <3>1, <3>2 DEF Chosen, Runnable
    <3> QED
      BY <3>2
  <2> QED
    BY <2>1, <2>2
<1> QED
  BY <1>2, <1>3, <1>4, <1>5, QuietKeeps

(* The idle loop's poll of the keyboard keeps the invariant.               *)
LEMMA IdleKeeps ==
    ASSUME SInv, NEW k \in Keys, Idle(k), Seen(k), temps' = temps
    PROVE  Steady'
<1>1. Sound
  BY SInvParts
<1>2. view' = view
  BY <1>1, QuietView
<1>3. /\ UNCHANGED <<taskVars, deferred, fgVars, next_pid>>
      /\ kpc' # "perform" /\ call' = call /\ PollKey(k) /\ active' = active
      /\ cancelled' = (DriverAlive' /\ (cancelled \/ k = "interrupt"))
  BY DEF Idle, memVars, Seen
<1> QED
  BY <1>2, <1>3, QuietKeeps

(* The steps of the session are steps of the process layer.                *)
LEMMA StepRefines ==
    ASSUME SInv, SessionNext
    PROVE  Next
<1>1. ASSUME NEW k \in Keys, Trap(k) PROVE Next
  <2>1. PICK t \in Traps : UserTrap(t.call, t.data, t.point, k)
    BY <1>1 DEF Trap
  <2>2. PICK a \in Slot : a = active /\ Sound /\ ProgramsFit /\ kpc = "user"
    BY <2>1, SInvParts DEF UserTrap
  <2>3. PICK w : /\ w.call = t.call /\ w.data = t.data /\ w.pc = t.point
                 /\ Advances(view[active], w)
    BY <2>1, <2>2, TrapAdvances
  <2>4. t.call \in AllCalls /\ t.data \in AllLocals /\ t.point \in Points
    BY <2>3 DEF Advances, Fits, LocalsFit
  <2>5. PICK c, d, p : c = t.call /\ d = t.data /\ p = t.point
    OBVIOUS
  <2>6. UserTrap(c, d, p, k)
    BY <2>1, <2>5
  <2>7. c \in Syscalls /\ d \in Data /\ p \in Point
    BY <2>4, <2>5, SessionAssumption
  <2> QED
    BY <2>6, <2>7 DEF Next
<1>2. ASSUME KernelStep PROVE Next
  <2>1. Kernel
    BY <1>2 DEF KernelStep, Kernel
  <2> QED
    BY <2>1 DEF Next
<1> QED
  BY <1>1, <1>2 DEF SessionNext

(* Every step of the session keeps what it adds to the invariant of the    *)
(* process layer.                                                          *)
LEMMA SteadyStep ==
    ASSUME SInv, SessionNext
    PROVE  Steady'
<1>1. ASSUME NEW k \in Keys, Trap(k) PROVE Steady'
  BY <1>1, TrapKeeps
<1>2. ASSUME NEW k \in Keys, Idle(k), Seen(k), UNCHANGED <<output, temps>> PROVE Steady'
  BY <1>2, IdleKeeps
<1>3. ASSUME DispatchKill \/ Perform \/ CancelOne \/ CancelDone \/ RetryDone \/ Choose
                \/ \E s \in Slot : RetryReady(s),
             ExecEntry, FileEffects, cancelled' = (cancelled /\ DriverAlive')
      PROVE  Steady'
  <2>1. CASE DispatchKill
    BY <1>3, <2>1, KillKeeps
  <2>2. CASE Perform
    <3>1. CASE PerformExit
      BY <1>3, <3>1, ExitKeeps
    <3>2. CASE ForkFails \/ PerformRename \/ TakeCancel \/ PerformOther
      BY <1>3, <3>2, OthersKeep
    <3>3. CASE fork_current
      BY <1>3, <3>3, ForkKeeps
    <3>4. CASE PerformExec
      BY <1>3, <3>4, ExecKeeps
    <3>5. CASE wait_current
      BY <1>3, <3>5, WaitKeeps
    <3>6. CASE tty_read_user
      BY <1>3, <3>6, ReadCallKeeps
    <3>7. CASE SetForeground
      BY <1>3, <3>7, SetForegroundKeeps
    <3>8. CASE Defer
      BY <1>3, <3>8, DeferKeeps
    <3> QED
      BY <2>2, <3>1, <3>2, <3>3, <3>4, <3>5, <3>6, <3>7, <3>8 DEF Perform
  <2>3. CASE CancelOne
    BY <1>3, <2>3, CancelOneKeeps
  <2>4. CASE CancelDone \/ RetryDone \/ Choose
    BY <1>3, <2>4, PhasesKeep
  <2>5. CASE \E s \in Slot : RetryReady(s)
    BY <1>3, <2>5, RetryKeeps
  <2> QED
    BY <1>3, <2>1, <2>2, <2>3, <2>4, <2>5
<1> QED
  BY <1>1, <1>2, <1>3 DEF SessionNext, KernelStep

(***************************************************************************)
(* The theorems.                                                           *)
(***************************************************************************)
(* Nothing happens, and everything still holds.                            *)
LEMMA SessionStutters ==
    ASSUME SInv, UNCHANGED <<vars, sessionVars>>
    PROVE  SInv'
<1>1. /\ UNCHANGED <<pid, father, state, exit_code, contexts, pending, interrupted, deferred>>
      /\ UNCHANGED <<cancel_read, foreground_pid, foreground_owner, next_pid, active, window>>
      /\ UNCHANGED <<snap, input, kpc, call, scan, temps, cancelled>>
  BY DEF vars, sessionVars, taskVars, cancelVars, fgVars, memVars
<1>2. IInv'
  <2>1. IInv /\ [Next]_vars
    BY DEF SInv, vars
  <2>2. TypeOK' /\ PidsOK' /\ EveryoneHasAFather' /\ SleepersHaveCalls' /\ ForegroundIsYounger'
        /\ PassProgress'
    BY <2>1, TypeStep, TreeStep, SleepStep, ForegroundStep, PassStep DEF IInv
  <2> QED
    BY <2>2 DEF IInv
<1>3. view' = view
  BY <1>1 DEF view, ViewOf, ImageOf, Trapped, live
<1>4. Kid' = Kid /\ Born' = Born /\ Role' = Role
  BY <1>3 DEF Kid, Born, Role
<1>5. \A s \in Slot : /\ live(s)' <=> live(s)
                      /\ occupied(s)' <=> occupied(s)
  BY <1>1 DEF live, occupied
<1>6. ProgramsFit'
  BY <1>3, <1>5 DEF SInv, ProgramsFit
<1>7. Order'
  <2>1. InitStays /\ Chain /\ Turns /\ Roles
    BY DEF SInv, Order
  <2>2. InitStays'
    BY <1>1, <2>1 DEF InitStays
  <2>3. Chain'
    BY <1>1, <1>4, <1>5, <2>1 DEF Chain
  <2>4. Turns'
    BY <1>1, <1>4, <1>5, <2>1 DEF Turns
  <2>5. Roles'
    BY <1>1, <1>4, <1>5, <2>1 DEF Roles
  <2> QED
    BY <2>2, <2>3, <2>4, <2>5 DEF Order
<1>8. Shielded' /\ Marks' /\ Foreground' /\ FilesOwned' /\ CancelKnown'
  <2>1. Shielded /\ Marks /\ Foreground /\ FilesOwned /\ CancelKnown
    BY SInvParts
  <2>2. Shielded'
    BY <1>1, <1>3, <1>4, <1>5, <2>1 DEF Shielded
  <2>3. Marks'
    BY <1>1, <1>5, <2>1 DEF Marks
  <2>4. Foreground'
    BY <1>1, <1>3, <1>5, <2>1 DEF Foreground
  <2>5. FilesOwned'
    BY <1>1, <1>3, <1>4, <1>5, <2>1 DEF FilesOwned
  <2>6. CancelKnown'
    BY <1>1, <1>4, <1>5, <2>1 DEF CancelKnown
  <2> QED
    BY <2>2, <2>3, <2>4, <2>5, <2>6
<1>9. NobodyYields' /\ ForkBound'
  <2>1. FreeSlots' = FreeSlots
    BY <1>1 DEF FreeSlots, occupied
  <2> QED
    BY <1>1, <2>1, SInvParts DEF NobodyYields, ForkBound
<1> QED
  BY <1>2, <1>6, <1>7, <1>8, <1>9 DEF SInv, Safe

(* sp_boot: init alone.                                                    *)
LEMMA SessionStarts == SessionInit => SInv
<1> SUFFICES ASSUME SessionInit PROVE SInv
  OBVIOUS
<1>1. Init => IInv
  <2> SUFFICES ASSUME Init PROVE IInv
    OBVIOUS
  <2>1. TypeOK
    BY ConstantsAssumption, InputSizeAssumption
       DEF Init, TypeOK, Slot, States, Context, Image, NoCall
  <2>2. PidsOK /\ EveryoneHasAFather /\ SleepersHaveCalls /\ ForegroundIsYounger
    BY ConstantsAssumption
       DEF Init, Slot, PidsOK, EveryoneHasAFather, SleepersHaveCalls, ForegroundIsYounger, occupied
  <2>3. PassProgress
    BY ConstantsAssumption DEF Init, Slot, PassProgress, Doomed, Ready, NoCall
  <2> QED
    BY <2>1, <2>2, <2>3 DEF IInv
<1>2. /\ Init /\ contexts[1].pc = "init" /\ temps = {} /\ cancelled = FALSE
      /\ pid = [s \in Slot |-> IF s = 1 THEN 1 ELSE 0] /\ father = [s \in Slot |-> 0]
      /\ state = [s \in Slot |-> IF s = 1 THEN "running" ELSE "free"]
      /\ interrupted = [s \in Slot |-> FALSE] /\ foreground_pid = 0 /\ next_pid = 1 /\ active = 1
      /\ window = [status |-> 0, data |-> Fresh] /\ kpc = "user" /\ call = NoCall
      /\ pending = [s \in Slot |-> NoCall]
  BY DEF SessionInit, Init
<1>3. \E e \in Entry : contexts = [s \in Slot |-> [pc |-> e, r1 |-> 0]]
  BY <1>2 DEF Init
<1>4. /\ 1 \in Slot /\ live(1) /\ occupied(1) /\ state[1] = "running" /\ pid[1] = 1 /\ father[1] = 0
      /\ \A s \in Slot : s # 1 => ~live(s) /\ ~occupied(s)
  BY <1>2, FirstSlot DEF live, occupied
<1>5. view[1] = View("init", 0, NoLocals, "returned", NoCall)
  <2>1. contexts[1].r1 = 0 /\ ImageOf(1).data = NoLocals /\ pending[1] = NoCall
    BY <1>2, <1>3, <1>4, SessionAssumption DEF ImageOf
  <2>2. view[1] = ViewOf(1) /\ ~Trapped(1)
    BY <1>2, <1>4, ViewParts DEF Trapped
  <2> QED
    BY <1>2, <1>4, <2>1, <2>2 DEF ViewOf
<1>6. \A s \in Slot : s # 1 => view[s] = Gone
  BY <1>4, ViewParts
<1>7. /\ ChildOf(view[1]) = 0 /\ ~Newborn(view[1]) /\ RoleOf(view[1]) = "init" /\ ~Awaits(view[1])
      /\ Fits(view[1]) /\ ChildOf(Gone) = 0
  <2>1. NoLocals \in AllLocals
    BY RemaindersClosed, SessionAssumption, ConstantsAssumption DEF NoLocals, Locals, AllLocals
  <2>2. /\ view[1].pc = "init" /\ view[1].r1 = 0 /\ view[1].how = "returned"
        /\ view[1].data = NoLocals
    BY <1>5 DEF View
  <2>3. Fits(view[1])
    BY <2>1, <2>2
       DEF Fits, LocalsFit, ListPoints, WaitPoints, ForkPoints, Points, DriverPoints
  <2>4. ChildOf(Gone) = 0
    BY DEF Gone, View, ChildOf, ForkPoints, WaitPoints
  <2> QED
    BY <2>2, <2>3, <2>4
       DEF ChildOf, Newborn, RoleOf, Awaits, ForkPoints, WaitPoints, InitPoints
<1>8. ProgramsFit
  BY <1>4, <1>7 DEF ProgramsFit
<1>9. /\ \A s \in Slot : Kid[s] = 0
      /\ Role[1] = "init"
  BY <1>4, <1>6, <1>7 DEF Kid, Role
<1>10. Kid \in [Slot -> Nat]
  <2>1. Kid = [s \in Slot |-> Kid[s]]
    BY DEF Kid
  <2> QED
    BY <1>9, <2>1
<1>11. Order
  <2>1. InitStays
    BY <1>4 DEF InitStays
  <2>2. Chain
    BY <1>4, <1>9, <1>10 DEF Chain
  <2>3. Turns
    <3> SUFFICES ASSUME NEW s \in Slot, NEW t \in Slot, live(t), state[s] = "running",
                        pid[s] < pid[t]
                 PROVE  FALSE
      BY DEF Turns
    <3>1. s = 1 /\ t = 1
      BY <1>4 DEF live
    <3> QED
      BY <1>4, <3>1
  <2>4. Roles
    BY <1>4, <1>9 DEF Roles
  <2> QED
    BY <2>1, <2>2, <2>3, <2>4 DEF Order
<1>12. Safe
  <2>1. Shielded
    BY <1>4, <1>9 DEF Shielded
  <2>2. Marks
    BY <1>2, <1>4 DEF Marks
  <2>3. Foreground
    BY <1>2, <1>4, <1>7 DEF Foreground
  <2>4. FilesOwned /\ CancelKnown
    BY <1>2 DEF FilesOwned, CancelKnown
  <2>5. NobodyYields /\ ForkBound
    BY <1>2 DEF NobodyYields, ForkBound, NoCall
  <2> QED
    BY <2>1, <2>2, <2>3, <2>4, <2>5 DEF Safe
<1> QED
  BY <1>1, <1>2, <1>8, <1>11, <1>12 DEF SInv

(* Every step of the session, and stuttering, keeps its inductive          *)
(* invariant.                                                              *)
LEMMA SessionStep == SInv /\ [SessionNext]_<<vars, sessionVars>> => SInv'
<1>1. ASSUME SInv, SessionNext PROVE SInv'
  <2>1. IInv /\ [Next]_vars
    BY <1>1, StepRefines DEF SInv
  <2>2. IInv'
    <3>1. TypeOK' /\ PidsOK' /\ EveryoneHasAFather' /\ SleepersHaveCalls' /\ ForegroundIsYounger'
          /\ PassProgress'
      BY <2>1, TypeStep, TreeStep, SleepStep, ForegroundStep, PassStep DEF IInv
    <3> QED
      BY <3>1 DEF IInv
  <2> QED
    BY <1>1, <2>2, SteadyStep DEF SInv, Steady
<1> QED
  BY <1>1, SessionStutters

(* What the programs of the system do, which pids they wait for and which  *)
(* calls they make between them, holds in every session.                   *)
THEOREM SessionInvariance == SessionSpec => []SInv
BY SessionStarts, SessionStep, PTL DEF SessionSpec

(* The session is one way to use the process layer: everything proved of   *)
(* process.c under any programs holds with init, sh and symcc.             *)
THEOREM SessionRefines == SessionSpec => Spec
<1>1. SessionInit => Init
  BY DEF SessionInit
<1>2. SInv /\ [SessionNext]_<<vars, sessionVars>> => [Next]_vars
  BY StepRefines DEF vars
<1> QED
  BY <1>1, <1>2, SessionInvariance, PTL DEF SessionSpec, Spec

(* symcc_native.c: whatever ends a driver, by success, a failed stage or   *)
(* Ctrl+C at any call, its temporary files do not outlive it.              *)
THEOREM TempsAreOwned == SessionSpec => []TempsAreRemoved
<1>1. SInv => TempsAreRemoved
  <2> SUFFICES ASSUME SInv, temps # {} PROVE DriverAlive
    BY DEF TempsAreRemoved
  <2>1. PICK f \in temps : TRUE
    OBVIOUS
  <2>2. PICK s \in Slot : live(s) /\ Role[s] = "driver"
    BY <2>1, SInvParts DEF FilesOwned
  <2>3. view[s].pc \in DriverPoints
    BY <2>2, KidIs DEF RoleOf
  <2> QED
    BY <2>2, <2>3, ViewParts DEF DriverAlive
<1> QED
  BY <1>1, SessionInvariance, PTL

(* process.c, sh.c: Ctrl+C never marks the shell or init, between which of *)
(* their calls it arrives.                                                 *)
THEOREM ShellIsSpared == SessionSpec => []ShellSurvives
<1>1. SInv => ShellSurvives
  BY SInvParts DEF Marks, ShellSurvives
<1> QED
  BY <1>1, SessionInvariance, PTL

(* symcc_native.c, call 104 and rename: a driver that was alive when       *)
(* Ctrl+C was seen never replaces the output.                              *)
THEOREM CancelledNeverPublish == SessionSpec => NoPublishAfterCancel
<1>1. SInv /\ [SessionNext]_<<vars, sessionVars>> =>
          [output' # output => ~cancelled]_<<vars, sessionVars>>
  <2> SUFFICES ASSUME SInv, SessionNext, output' # output, cancelled PROVE FALSE
    BY DEF sessionVars
  <2>1. PICK a \in Slot : a = active
    BY SInvParts
  <2>2. KernelStep /\ FileEffects /\ Performed /\ call.nr = "rename" /\ r1' = 0
    <3>1. \A k : ~Trap(k)
      BY DEF Trap
    <3>2. KernelStep
      BY <3>1 DEF SessionNext
    <3>3. FileEffects
      BY <3>2 DEF KernelStep
    <3> QED
      BY <3>2, <3>3 DEF FileEffects
  <2>3. kpc = "perform" /\ ~(interrupted[a] /\ ~deferred[a])
    BY <2>1, <2>2 DEF Performed
  <2>4. live(a) /\ Fits(view[a]) /\ view[a].how = "trapped" /\ view[a].call = call
        /\ Role[a] = RoleOf(view[a])
    BY <2>1, <2>3, PerformsFor
  <2>5. view[a].pc = "d_renamed"
    BY <2>2, <2>4, PointOfCall
  <2>6. Role[a] = "driver"
    BY <2>4, <2>5 DEF RoleOf, Newborn, InitPoints, ShellPoints, DriverPoints, Execs, ForkPoints
  <2>7. interrupted[a]
    BY <2>4, <2>6, SInvParts DEF CancelKnown
  <2>8. CancelSeen
    BY <2>1, <2>3, <2>7 DEF CancelSeen
  <2>9. PerformRename
    <3>1. ~DispatchKill
      BY <2>1, <2>3 DEF DispatchKill
    <3>2. Perform
      BY <2>2, <2>3, <3>1
         DEF KernelStep, CancelOne, CancelDone, RetryDone, RetryReady, Choose, Idle
    <3> QED
      BY <2>2, <3>2
         DEF Perform, PerformExit, ForkFails, fork_current, PerformExec, wait_current,
             tty_read_user, SetForeground, Defer, TakeCancel, PerformOther, Performs
  <2>10. Return(EINTR) /\ active' = active
    BY <2>8, <2>9 DEF PerformRename, memVars
  <2>11. contexts'[a].r1 = EINTR
    BY <2>1, <2>10, SInvParts DEF Return, TypeOK, Context
  <2> QED
    BY <2>1, <2>2, <2>10, <2>11 DEF r1, EINTR
<1> QED
  BY <1>1, SessionInvariance, PTL DEF SessionSpec, NoPublishAfterCancel
=============================================================================
