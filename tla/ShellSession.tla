---------------------------- MODULE ShellSession ----------------------------
(***************************************************************************)
(* The interactive system: init, the shell, plain commands and the native  *)
(* compiler driver as the programs that the process layer runs.            *)
(*                                                                         *)
(* A program is a set of points, one after each of its system calls; from  *)
(* a point it computes on its own image and makes the next call.  Every    *)
(* such trap polls the keyboard, so Ctrl+C may be seen at any of them.     *)
(* Of the file system, only what the driver does to its temporary files    *)
(* and to the output it publishes is kept.                                 *)
(***************************************************************************)
EXTENDS Processes

CONSTANTS
    Stages,      \* compiler stages, one temporary file each: 3 in the code
    Lists,       \* the command lists the user may type
    MaxLines     \* bound on the lines typed

VARIABLES
    output,      \* the compiler's output file: "old" or "new"
    temps,       \* the driver's temporary files that exist
    typed,       \* lines typed so far
    cancelled,   \* history: Ctrl+C was seen while a driver was alive
    dropping     \* history: Ctrl+C was seen since the list was read

sessionVars == <<output, temps, typed, cancelled, dropping>>

(* Programs exec can load, by the number the model passes in a.            *)
Program == <<"sh", "cmd", "cc", "stage">>

(* An image's locals.  list is what is left of the command list, its head  *)
(* the command being run.                                                  *)
Locals(list, last, child, k, result) ==
    [list |-> list, last |-> last, child |-> child, k |-> k, result |-> result]
NoLocals == Locals(<<>>, 0, 0, 1, 1)

Sys(nr, a, b, c) == [nr |-> nr, a |-> a, b |-> b, c |-> c]
Write   == Sys("other", 0, 0, 0)     \* puts, error, a safe point
Chmod   == Sys("other", 0, 0, 0)
Reserve == Sys("other", 1, 0, 0)     \* create temporary file k
Unlink  == Sys("other", 2, 0, 0)     \* remove temporary file k

at == contexts[active].pc
r1 == contexts[active].r1
my == window.data

(* What they may hold: what is left of a list, a status, the pid of a child *)
(* and the counters of the driver.                                         *)
Command == [name : {"cmd", "cc", "exit"}, when : {"always", "and", "or"}]
Remainders ==
    {<<>>} \cup UNION {{SubSeq(l, i, Len(l)) : i \in 1..Len(l)} : l \in Lists}
AllLocals == [list : Remainders, last : 0..255, child : 0..MaxPid,
              k : 1..(Stages + 1), result : {0, 1}]

DriverPoints ==
    {"cc", "d_deferred", "d_reserved", "d_unreserved", "d_queried", "d_forked",
     "d_waited", "d_publish", "d_chmod", "d_renamed", "d_unlinked", "d_end"}
Points ==
    {"init", "i_forked", "i_waited", "no_exec", "sh", "s_start", "s_prompt", "s_line",
     "s_forked", "s_named", "s_waited", "s_unnamed", "s_checked", "cmd", "stage"}
    \cup DriverPoints

AllCalls ==
    {Sys("exit", a, 0, 0) : a \in 0..255} \cup {Sys("fg", a, 0, 0) : a \in 0..MaxPid}
    \cup {Sys("wait", a, 1, 0) : a \in -1..MaxPid} \cup {Sys("exec", a, 0, 0) : a \in 1..4}
    \cup {Sys("defer", a, 0, 0) : a \in 0..1} \cup {Sys("other", a, 0, 0) : a \in 0..2}
    \cup {Sys("fork", 0, 0, 0), Sys("read", 0, 0, 255), Sys("cancelled", 0, 0, 0),
          Sys("rename", 0, 0, 0)}

ASSUME SessionAssumption ==
    /\ Stages \in Nat \ {0} /\ Lists \subseteq Seq(Command)
    /\ AllLocals \subseteq Data /\ Fresh = NoLocals
    /\ Points \subseteq Point /\ Entry = {Program[i] : i \in 1..4} \cup {"init"}
    /\ AllCalls \subseteq Syscalls

(* The traps a program may make next: call, locals, point.                 *)
To(c, d, p) == {[call |-> c, data |-> d, point |-> p]}

(***************************************************************************)
(* init: keep one shell running.                                           *)
(***************************************************************************)
InitProgram ==
    LET Fork == To(Sys("fork", 0, 0, 0), my, "i_forked")
        Wait(d) == To(Sys("wait", -1, 1, 0), d, "i_waited")
    IN
    CASE at = "init" -> Fork
      [] at = "i_forked" /\ r1 = 0 -> To(Sys("exec", 1, 0, 0), my, "no_exec")
      [] at = "i_forked" /\ r1 < 0 -> To(Sys("exit", 1, 0, 0), my, "init")
      [] at = "i_forked" /\ r1 > 0 -> Wait([my EXCEPT !.child = r1])
      [] at = "i_waited" -> IF r1 = my.child THEN Fork ELSE Wait(my)
      [] at = "no_exec"  -> To(Sys("exit", 127, 0, 0), my, "no_exec")
      [] OTHER -> {}

(***************************************************************************)
(* sh: read a list, run its commands in the foreground one by one.         *)
(***************************************************************************)
Runs(cmd, last) ==
    \/ cmd.when = "always"
    \/ cmd.when = "and" /\ last = 0
    \/ cmd.when = "or" /\ last # 0

Prompt(last) == To(Write, [my EXCEPT !.list = <<>>, !.last = last], "s_prompt")
CheckCancel(d) == To(Sys("cancelled", 0, 0, 0), d, "s_checked")

(* The first command of a list that runs, 0 for none.                      *)
FirstToRun(list, last) == SelectInSeq(list, LAMBDA cmd : Runs(cmd, last))

(* Go on with the rest of a list: the next command that runs, or, when     *)
(* there is none, the prompt.  exit stands for the builtins.               *)
Continue(list, last) ==
    LET i == FirstToRun(list, last)
        d == [my EXCEPT !.list = SubSeq(list, i, Len(list)), !.last = last]
    IN  IF i = 0 THEN Prompt(last)
        ELSE IF list[i].name = "exit" THEN CheckCancel(d)
        ELSE To(Sys("fork", 0, 0, 0), d, "s_forked")

(* A wait status word: 2 when killed by Ctrl+C, else the exit code * 256.  *)
StatusOf(w) == IF w % 128 # 0 THEN 128 + (w % 128) ELSE (w \div 256) % 256

(* After a command and call 105: leave, give the list up, or go on.        *)
AfterCommand(last) ==
    IF r1 = 0 /\ my.list[1].name = "exit"
    THEN To(Sys("exit", last, 0, 0), my, "sh")
    ELSE IF last = 130 THEN Prompt(130) ELSE Continue(Tail(my.list), last)

ShProgram ==
    CASE at = "sh"       -> To(Sys("fg", 0, 0, 0), my, "s_start")
      [] at = "s_start"  -> Prompt(0)
      [] at = "s_prompt" -> To(Sys("read", 0, 0, 255), my, "s_line")
      [] at = "s_line" /\ r1 < 0 -> Prompt(130)
      [] at = "s_line" /\ r1 > 0 -> UNION {Continue(l, my.last) : l \in Lists}
      [] at = "s_forked" /\ r1 = 0 ->
            To(Sys("exec", IF my.list[1].name = "cmd" THEN 2 ELSE 3, 0, 0), my, "no_exec")
      [] at = "s_forked" /\ r1 < 0 -> CheckCancel([my EXCEPT !.last = 1])
      [] at = "s_forked" /\ r1 > 0 ->
            To(Sys("fg", r1, 0, 0), [my EXCEPT !.child = r1], "s_named")
      [] at = "s_named"  -> To(Sys("wait", my.child, 1, 0), my, "s_waited")
      [] at = "s_waited" ->
            To(Sys("fg", 0, 0, 0),
               [my EXCEPT !.last = IF r1 < 0 THEN 1 ELSE StatusOf(window.status)], "s_unnamed")
      [] at = "s_unnamed" -> CheckCancel(my)
      [] at = "s_checked" -> AfterCommand(IF r1 > 0 THEN 130 ELSE my.last)
      [] OTHER -> {}

(* A plain command, or a compiler stage: runs for as long as it likes.     *)
CmdProgram ==
    IF at \in {"cmd", "stage"}
    THEN UNION {To(c, my, at) : c \in {Write, Sys("exit", 0, 0, 0), Sys("exit", 1, 0, 0)}}
    ELSE {}

(***************************************************************************)
(* symcc: ask for deferral, make the temporary files, run the stages,      *)
(* publish by rename, clean up.  k counts stages and files.  Bad arguments *)
(* end it at once; any of its calls on files may fail.                     *)
(***************************************************************************)
Query(d, p) == To(Sys("defer", 0, 0, 0), d, p)
DoneWithoutCleanup(result) ==
    IF result = 0 THEN To(Unlink, [my EXCEPT !.k = 1, !.result = 0], "d_unlinked")
    ELSE Query([my EXCEPT !.result = result], "d_end")
Done(result) == To(Unlink, [my EXCEPT !.k = 1, !.result = result], "d_unlinked")
NextFile(c) == To(c, [my EXCEPT !.k = @ + 1], at)

(* A temporary file could not be made: those made before it are removed.   *)
Unreserve == To(Unlink, [my EXCEPT !.k = 1], "d_unreserved")

CcProgram ==
    CASE at = "cc"         -> To(Sys("defer", 1, 0, 0), my, "d_deferred")
      [] at = "d_deferred" -> To(Reserve, my, "d_reserved") \cup To(Sys("exit", 2, 0, 0), my, "cc")
      [] at = "d_reserved" ->
            IF my.k < Stages THEN NextFile(Reserve) \cup Unreserve
            ELSE Query([my EXCEPT !.k = 1], "d_queried")
      [] at = "d_unreserved" ->
            IF my.k < Stages THEN NextFile(Unlink) ELSE To(Sys("exit", 1, 0, 0), my, "cc")
      [] at = "d_queried" ->
            IF r1 # 0 THEN Done(1) ELSE To(Sys("fork", 0, 0, 0), my, "d_forked")
      [] at = "d_forked" /\ r1 < 0 -> Done(1)
      [] at = "d_forked" /\ r1 = 0 -> To(Sys("exec", 4, 0, 0), my, "no_exec")
      [] at = "d_forked" /\ r1 > 0 ->
            To(Sys("wait", r1, 1, 0), [my EXCEPT !.child = r1], "d_waited")
      [] at = "d_waited" ->
            IF r1 # my.child \/ window.status # 0 THEN Done(1)
            ELSE Query([my EXCEPT !.k = @ + 1], IF my.k < Stages THEN "d_queried" ELSE "d_publish")
      [] at = "d_publish" -> IF r1 # 0 THEN Done(1) ELSE To(Chmod, my, "d_chmod")
      [] at = "d_chmod"   -> To(Sys("rename", 0, 0, 0), my, "d_renamed") \cup Done(1)
      [] at = "d_renamed" -> Done(IF r1 # 0 THEN 1 ELSE 0)
      [] at = "d_unlinked" -> IF my.k < Stages THEN NextFile(Unlink) ELSE Query(my, "d_end")
      [] at = "d_end" -> To(Sys("exit", IF r1 # 0 THEN 130 ELSE my.result, 0, 0), my, "cc")
      [] OTHER -> {}

Traps == InitProgram \cup ShProgram \cup CmdProgram \cup CcProgram

DriverAlive == \E s \in Slot :
    live(s) /\ contexts[s].pc \in DriverPoints

Seen(k) ==
    /\ typed' = IF k = Newline THEN typed + 1 ELSE typed
    /\ k = Newline => typed < MaxLines                               \* bound
    /\ cancelled' = (DriverAlive' /\ (cancelled \/ k = "interrupt"))

(* What a performed call does to the driver's files.                       *)
Performed == kpc = "perform" /\ ~(interrupted[active] /\ ~deferred[active])

FileEffects ==
    /\ output' = IF Performed /\ call.nr = "rename" /\ r1' = 0 THEN "new" ELSE output
    /\ temps' = CASE Performed /\ call = Reserve -> temps \cup {my.k}
                  [] Performed /\ call = Unlink  -> temps \ {my.k}
                  [] Performed /\ call.nr = "rename" /\ r1' = 0 -> temps \ {Stages}
                  [] OTHER -> temps

(* Loading a program starts it at its own entry.  A command may be missing *)
(* from the file system, the shell is not.                                 *)
ExecEntry ==
    Performed /\ call.nr = "exec" =>
        contexts'[active].pc \in {Program[call.a]} \cup (IF call.a = 1 THEN {} ELSE {at})

Trap(k) ==
    /\ \E t \in Traps : UserTrap(t.call, t.data, t.point, k)
    /\ Seen(k)
    /\ dropping' = (k = "interrupt" \/ (dropping /\ contexts[active].pc # "s_line"))
    /\ UNCHANGED <<output, temps>>

KernelStep ==
    \/ /\ DispatchKill \/ Perform \/ CancelOne \/ CancelDone \/ RetryDone \/ Choose
          \/ \E s \in Slot : RetryReady(s)
       /\ ExecEntry /\ FileEffects
       /\ cancelled' = (cancelled /\ DriverAlive')
       /\ UNCHANGED <<typed, dropping>>
    \/ \E k \in Keys :
       /\ Idle(k) /\ Seen(k)
       /\ dropping' = (dropping \/ k = "interrupt")
       /\ UNCHANGED <<output, temps>>

SessionInit ==
    /\ Init /\ contexts[1].pc = "init"
    /\ output = "old" /\ temps = {} /\ typed = 0 /\ cancelled = FALSE /\ dropping = FALSE

SessionNext == (\E k \in Keys : Trap(k)) \/ KernelStep
SessionSpec == SessionInit /\ [][SessionNext]_<<vars, sessionVars>>

(* Everything runs: programs are not suspended and the kernel polls on.    *)
FairSession == SessionSpec /\ WF_<<vars, sessionVars>>(SessionNext)
-----------------------------------------------------------------------------
(* Temporary files exist only while a driver is alive to remove them,      *)
(* however it ended: by success, by a failed stage, or by Ctrl+C.          *)
TempsAreRemoved == temps # {} => DriverAlive

(* Ctrl+C never marks the shell or init, whatever command it is running,   *)
(* between which of its calls the key arrives.                             *)
ShellSurvives ==
    \A s \in Slot : occupied(s) /\ father[s] \in {0, 1} =>
        ~interrupted[s] /\ (state[s] = "zombie" => exit_code[s] # 2)

(* A driver that was alive when Ctrl+C was seen never replaces the output: *)
(* not even when the key arrives before the shell has named the command.   *)
NoPublishAfterCancel ==
    [][output' # output => ~cancelled]_<<vars, sessionVars>>

(* What Ctrl+C marked comes to an end: a command at once, a driver after   *)
(* its clean-up, although its stages might have run for ever.              *)
CancelTakesEffect ==
    \A s \in Slot : live(s) /\ interrupted[s] ~> ~live(s)

(* README: a cancelled compilation keeps the old executable.  A driver     *)
(* that reports cancellation (status 130) has left the output alone.       *)
CancelledKeepsOldOutput ==
    \A s \in Slot : state[s] = "zombie" /\ exit_code[s] = 130 * 256 => output = "old"

(* README: after Ctrl+C the rest of the same command list is not executed. *)
(* The shell starts no further command of a list during which Ctrl+C came. *)
CancelStopsTheList ==
    [][kpc = "user" /\ kpc' = "perform" /\ at = "s_checked" /\ dropping
         => call'.nr # "fork"]_<<vars, sessionVars>>
=============================================================================
