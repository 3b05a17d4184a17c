# A TLA+ verification of SymphonyPlus Linux

SymphonyPlus is a port of Linux 0.11 to a 32-bit CPU built inside a game,
together with the C compiler, linker, assembler and emulator it is built with
and the user programs it runs.  This directory holds the TLA+ development kept
beside that code: models of its core, the TLC runs that check them on small
instances, and TLAPS proofs of what holds for every instance.  It covers both
halves of the system: what runs on the machine (process layer, terminal, files,
shell session, allocator) and what makes it run (preprocessor, compiler,
linkers, assembler and the machine itself).

Paths below are relative to the repository (`src/`).  `K/` stands for
`Reference/Linux-0.11-main/`.

## 1. Inventory of the system

### What makes this system unusual

The CPU has **no interrupts and no memory protection**.  The kernel is entered
only by a trap of the running program: a system call, or the software
checkpoint the compiler puts into functions and loops (every 4096th makes call
102, which polls the keyboard and gives the window back to its caller; only
call 101 yields).  There is one *user window* of memory; a process that is not running lives in a snapshot
of it.  Every trap runs `sp_dispatch` to its end: poll the keyboard, perform
the call, kill what Ctrl+C marked, retry the blocked calls, choose who runs.
So there is no preemption inside the kernel, and all that is hard lies in the
*order* of those passes, in what is left behind for the next trap, and in
programs that are interleaved at trap boundaries.

### Components

| Component | Source | State it keeps | Operations | Interacts with |
|---|---|---|---|---|
| Process layer | `K/kernel/symplus/process.c` | slots (pid, ppid, state, pending call, exit code), flags `interrupted`/`deferred`/`cancel_read`, `active`, `foreground_pid`, `foreground_owner`, `next_pid`, snapshots | `sp_dispatch`, `perform`, `fork_current`, `exit_current`, `wait_current`, `activate`, calls 103-105 | terminal (polls, reads), file system, every program (traps) |
| Terminal input | same file, `poll_io`, `line_ready`, `tty_read_user` | ring of 1024 bytes with free-running `head`/`tail`, `shift`, `control` | one key per poll; erase; a line per read | process layer: an interrupt key marks processes, a newline wakes readers |
| init, shell, compiler driver | `user/bin/init.c`, `sh.c`, `symcc.c` | the shell's list position and status, the driver's temporaries, stage and status | fork/exec/wait, foreground protocol 103, cancellation query 105, deferral 104, publish by rename | only through system calls |
| Block and inode caches | `K/fs/buffer.c`, cache half of `K/fs/inode.c`, `K/kernel/blk_drv/ll_rw_blk.c`, `symdisk.c` | buffer heads, hash and free lists, `inode_table`, `last_inode` | `getblk`, `bread`, `brelse`, `sync_dev`, `sys_sync`, `iget`, `iput`, `read_inode`, `write_inode` | disk below, files and directories above; the functions call each other in circles |
| File table and descriptors | `K/fs/open.c`, `fcntl.c`, `read_write.c`, fork and exit in `process.c` | `file_table` counts, `filp[]`, `close_on_exec`, `pwd` | open, close, dup, dup2, chdir, fork, exit | inodes |
| Name space and allocation | `K/fs/namei.c`, `bitmap.c`, `truncate.c`, allocation half of `inode.c` | directory entries, link counts, bitmaps | `open_namei`, mkdir, rmdir, link, unlink, rename, `new_block`, `free_block` | caches |
| exec loader | `K/fs/symexec.c` | none of its own | validates the image, builds the stack, replaces the window | process layer |
| Clock | `K/kernel/symplus/tick.c`, `K/kernel/mktime.c` | jiffies from a polled counter | tick | idle loop |
| Console output | `K/kernel/chr_drv/*` as built for the port | cursor, screen | write | hardware |
| Allocator | `user/native/heap.c`, call 45 in `process.c` | headers in the memory it hands out (chain by address, 32 bins of free blocks), the break | `malloc`, `calloc`, `realloc`, `free` | the kernel's break, which programs may move as well |
| Rest of the user library | `user/lib`, `user/native` | stdio buffers | printf, conversions | system calls |
| Shell parser | `user/lib/shell_parse.c` | none | one line to a command list | shell |
| Compiler | `symcc/src/*` | token lists, types, AST, output | preprocess, tokenize, parse, generate | files |
| Object format and linkers | `symcc/src/obj.c`, `link.c`, `link_image.c`, `symld/` | sections, symbols, relocations | read, resolve, relocate, write | compiler's objects in, assembler's lines out |
| Emulator and assembler | `emu/*`, `SymphonyPlus.isa` | label table, image; registers, memory, disk, devices | two passes; one instruction | linkers, host |
| Runtime | `runtime/*`, `user/lib/crt0.sym`, `syscall.sym` | none | start, halt, signed division, system call stub | linked into every program |
| Build and tests | `scripts/*`, `Makefile`, `tests/*` | files of the host | build images, run tests | all of the above |
| Linux 0.11 code not built into the port | `K/boot`, `K/mm`, `hd.c`, `floppy.c`, `signal.c`, `pipe.c`, ... | - | - | - |

### Behaviours that are hard, and what correctness means

* **Process layer.**  Flags of a slot outlive its process; the retry sweep
  activates other processes in the middle of a pass; a wait performed for a
  sleeper writes into an image that is not in the window.  Correct means: no
  wake-up is missed, nothing marked by Ctrl+C runs on unless it asked for
  deferral, pids are unique and every process has a father that can wait for
  it, exit statuses are not lost, each process has a memory of its own, and
  among programs that yield none is passed over for ever.  (A program that
  computes without a system call keeps the window: the code promises the
  others nothing then, only that Ctrl+C still reaches it.)
* **Terminal.**  Free-running counters and reserved places.  Correct means the
  ring is a queue whose last, unfinished line can be edited, and that a full
  terminal can still end its line.
* **Session.**  Ctrl+C may arrive at any trap of any of the programs.  Correct
  means: the shell survives, temporaries are removed, a cancelled compilation
  publishes nothing, a cancelled list stops.
* **Caches.**  `getblk -> sync_dev -> sync_inodes -> write_inode -> bread ->
  getblk` is a circle, entered with buffers and inode locks held.  Correct
  means: no block or inode is held twice, reference counts return to zero,
  programs cannot tell that there is a cache, and sync is durable and returns.

* **Allocator.**  Its tables lie in the memory it manages; sizes are unsigned
  and wrap round, and programs may move the break between two calls, so that
  neighbours in the chain need not touch.  Correct means: no two blocks
  overlap, a pointer held has the memory asked for, no block is lost, links
  lead to blocks, and memory freed piece by piece can be had in one piece.

* **Toolchain.**  Four programs agree on conventions that nothing checks: how
  many bytes a line of assembly takes (the linkers count them, the assembler
  lays them out), which registers survive a call, where the frame lies, which
  symbol is whose.  A wrong offset is a program that runs and computes
  something else.  Correct means: a C program computes, on the machine, what C
  says it means, whatever files it is cut into and whichever linker made it;
  what is not a program is refused; the stack is where it was.

`PROJECT.json` lists every hazard at its line with the properties that cover it.

## 2. The modules and the code

### `TtyLine`: what the terminal keeps
The unread characters of the terminal as a sequence, with the operators
`poll_io` and `tty_read_user` apply to it: whether there is room, accept, erase
the last character of the unfinished line, is a line ready, how much a read
takes.  Used by `Processes` and `TtyQueue`.

### `Processes`: `kernel/symplus/process.c`
One action per stage of a trap.  `kpc` says which stage of `sp_dispatch` runs:

| Action | Code |
|---|---|
| `UserTrap` | the running program's window changes and it traps with a call; `poll_io` reads one key (`PollKey`), an interrupt key marks (`terminal_interrupt`, `descendant`) |
| `DispatchKill` | a program marked and not deferring is ended instead of performing its call |
| `Perform...`, `fork_current`, `wait_current`, `tty_read_user`, `SetForeground`, `Defer`, `TakeCancel` | the cases of `perform`; a call that must wait is kept in the slot (`Block`) |
| `CancelOne`, `CancelDone` | the pass that ends every other marked process |
| `RetryReady`, `RetryDone` | the sweep over the blocked calls, slot after slot |
| `Choose`, `Idle` | the circular search for the next process; when nobody can run, poll again |

Programs are arbitrary: at a trap the window takes any value of `Data` and the
call is any of `Syscalls` (an instance chooses which).  `activate` saves and
restores the window exactly where the code does.

### `ProcMemory`: the memory each process is promised
An abstract specification with one private image per live process.
`MemoryIsPrivate` is the refinement of `Processes` to it.

### `TtyRing` and `TtyQueue`: the bytes of the terminal
`TtyRing` has the ring, `head`, `tail`, `shift` and `control` of `poll_io`
with its key codes in classes; `TtyQueue` is the queue it must implement
(`RingIsAQueue`).

### `ShellSession`: `init.c`, `sh.c`, `symcc.c` on the process layer
`SessionSpec` constrains the traps of `Processes`: a program's next call is a
function of where it is (`InitProgram`, `ShProgram`, `CcProgram`) and its
locals live in its image, so a fork copies them and an exec replaces them.
Outcomes the model does not compute (a stage's exit status, a failed open) are
nondeterministic.  A variable keeps the files: the driver's temporaries and
the published output.

### `FsCache`, `FsStore` and `FsHistory`: `fs/buffer.c`, `fs/inode.c`
`FsCache` has the buffer heads, the free list, the inode table and a call
stack; one action is the code between two calls.  `FsStore` is the store
without caches, with the one request a program has made and the answer to it:
its contents change only when a write or a clearing that was asked for is done,
and a read is answered with the contents of its block.  `CacheIsTransparent` is
the refinement.  The mapping reads the contents off the inode table over the
buffers over the disk, the request off the frame at the bottom of the call
stack, the answer off the buffer `file_read` copies from: a block whose last
write is lost on the way to the disk, or that changes while another one is
asked for, is no step of the store.

`FsHistory` adds a record, `written`, of the last value programs wrote to each
block and inode.  It changes in the steps of `file_write` and `new_block` that
store, takes their arguments and not what is in a buffer, and nothing else
touches it; `ReadsAreCurrent` and `SyncIsDurable` compare the caches with it.

A wait for a lock spins (`Spin`), because `switch_to` is empty in the port and
nobody else can run.

### `FileSys`: `namei.c`, `open.c`, `fcntl.c`, allocation
The disk's inodes with their directory entries and zones, the two bitmaps, the
file table, and each process's descriptors and working directory.  A system
call is one action, because no other process runs inside it; it is composed of
the code's helpers (`find_entry`, `add_entry`, `new_inode`, `iput`...), which
pass the tables on as the code changes them, so that an error path is what the
code does: take an inode, take a block, find no room for the entry, set the
link count to zero and let `iput` give everything back.

### `Heap`: `user/native/heap.c`
The fields of the headers are functions of the address (`heap.size`,
`heap.next`, ...), and the helpers (`insert_free`, `remove_free`, `join_next`,
`split_block`) take the headers and return them changed, as the code writes
them.  `malloc` is the set of results it may have: which block of the lowest
bin with a fitting one is met first is left open.  `Realloc` has one action per
case of the code: keep, absorb the free block behind, extend the last block
with the break, move.  `MoveBreak` is a program that raises the break itself;
lowering it under the allocator's feet is the program's error and left out.
What is in the memory (copied by `realloc`, cleared by `calloc`) is not
represented.

### The toolchain: from C files to a program that has run

`Compiler` composes it.  A *job* is what the tools are asked to do: preprocess
only, compile and link for the bare machine (`symcc`), compile and link for the
kernel to run (`symld`, with a small kernel that starts it), or assemble and run
assembly lines.  The actions are the driver's (`ReadFile`, `CompileFile`,
`LinkFlat`, `LinkUser`, `Assemble`), the preprocessor's, one per kind of line,
and the machine's, one instruction each; a refusal (`exit(1)`, an error code)
ends the job.  Parser, code generator and linkers are pure: each is one operator
of what it reads, called by the action that runs it.

| Module | Code |
|---|---|
| `Words` | bytes and words of the machine, two's complement, C division |
| `ConstInt` | `symcc/src/const_int.h`: constant arithmetic shared by `#if` and the parser |
| `PpMacro` | macro expansion (`preprocess.c` 137-554): arguments, `#`, `##`, rescanning, the flag against recursion |
| `PpExpr` | the evaluator of `#if` (557-892) with its skipping mode |
| `Preprocess` | the directives (896-1362): a stack of files being read, the macro table, the stack of conditions |
| `Ast` | types and trees (`symcc.h`, `type.c`) |
| `ParseExpr`, `Parse` | `parse.c`: types, declarators, constants, expressions; initializers, statements, functions, the top level |
| `Isa` | `emu/isa.c`: the table of instructions and what a mnemonic assembles to |
| `Asm` | `emu/asm.c`: the two passes |
| `Codegen` | `codegen.c`: trees to assembly lines, data, bss and symbols |
| `Link` | `link.c`: one flat program, its constant pool, `end`, `halt`, which symbols are whose |
| `LinkImage` | `link_image.c`: user and kernel images with trampolines, far jumps and polls, and the start-up code |
| `Machine` | `emu.c`: registers, memory, disk, screen settings, clock, keyboard |
| `Runtime` | `runtime/divsi3.c`, as a C program that is compiled and linked like any other |

Two modules say what C says and owe nothing to the code: `CMeaning` evaluates a
C program (as a tree, `CSource`) over objects made of cells, without addresses,
sizes or registers; `PpReference` expands macros with a hide set per token,
evaluates `#if` by splitting at the operator that binds last and pairs `#if`
with `#endif`.  `CompilerProperties` compares the two sides.  `CSource` writes a
tree down as tokens with as few parentheses as C allows, so that the parser has
to find the tree again.

Where the code's functions call one another in circles, a module has one
recursive operator that dispatches to them (`Rule` in `ParseExpr`, `Parsed` in
`Parse`, `Gen` in `Codegen`, `PpEval` and `PpSkip` in `PpExpr`, `Means` in
`CMeaning`); everything else is an ordinary definition.  The parser's
file-level variables are the fields of one record that each operator takes and
returns.

### Instances

`MC*` modules hold only the instances' constants and symmetry, `MCPreprocess`
and `MCCompiler` the programs that are tried; `MCSlotReuse` adds a history
variable.

## 3. The runs

| Run | Instance | What it shows |
|---|---|---|
| `ProcTree` | 4 slots, pids to 4; fork, exit, wait for one child or any, foreground, Ctrl+C | pids are unique and fathers older (`PidsOK`); nobody is left without a father that can wait (`EveryoneHasAFather`); Ctrl+C marks exactly the least tree below the foreground process (`InterruptMarksTheTree`, against a set-theoretic definition); a status is delivered before its slot is freed (`ZombiesWait`) |
| `ProcTerm` | 2 slots, pids to 3; reads, waits, deferral, foreground, lines and Ctrl+C | `NoMissedWakeup`, `NothingMarkedRuns`; the inductive invariant `IInv`; with a history of who was marked, cancelled or asked for deferral, that no flag reaches the slot's next process (`FlagsBelongToTheirProcess`) |
| `ProcYield` | 3 slots, pids to 3; programs that fork, yield, exec, rename, ask for deferral, readers woken at any time | `EveryoneRuns`: if whoever gets the window again and again also yields again and again, every runnable process gets it; and the refinement `MemoryIsPrivate` |
| `Compiler` | 802 C and assembly programs and 18,600 files for the preprocessor | `ResultIsMeaning`: a program that halts has computed what `CMeaning` says, through either linker, with and without `--d32`; `ValidProgramsRun`: what is no program is refused or stopped before its end, and one of these programs that is C and fits is neither refused nor stopped by the machine; `StackIsBalanced`: at every epilogue and at the end; `LabelsAreExact`: the linkers' addresses are the assembler's; `MnemonicsDoWhatTheySay`: assembler and emulator agree on every instruction of these programs (they disagree on `out` with an immediate, see below, which none contains); `OutputIsC`: the preprocessor's output is `PpReference`'s; `CompilerTypeOK` |
| `TtyRing` | ring of 4 bytes, more than two turns | `RingIsAQueue` (refinement), `RingOK` (counters, slots and types), `ModifiersFollowKeys`, `AlwaysRoomForNewline` |
| `Session` | 4 slots, two lines, lists with `&&` and `\|\|`, the three-stage driver, Ctrl+C at any trap | `TempsAreRemoved`, `ShellSurvives`, `NoPublishAfterCancel`, and under fairness `CancelTakesEffect` |
| `SessionOutput` | one driver | **violated**: finding 1 below |
| `SessionList` | a list of two commands | **violated**: finding 2 |
| `FsCache` | 2 buffers and 2 inode slots for 3 blocks and 2 files | `NoDuplicates`, `NothingHeldAtRest`; against the record of what was written, `ReadsAreCurrent` (blocks read and inodes open) and `SyncIsDurable`; the refinement `CacheIsTransparent` |
| `FsSync` | the same | **violated**: finding 3 |
| `FileSys` | 2 processes, 2 descriptors each, 2 files, 3 inodes, 3 zones, blocks of 3 entries; names here, in the parent and below the root | `LinksMatchEntries`, `RefsMatch`, `MapsAreExact`, `DirsFormATree` |
| `Heap` | words of 8 bits, 152 bytes for data; sizes 0, 8, 40 and two that wrap round; a program that moves the break | `NoOverlap`, `HeldIsUsable`, `BinsAreExact` (every free block is in the list of its bin once), `FreeNeighboursJoined`, the inductive invariant `HeapInv`, and that the break moves only when no free block fits (`GrowsOnlyWhenFull`) |

Deadlock is checked in every run.  Each property has a mutant: a definition
changed the way a plausible bug would change the code (an operator beside the
original, marked "Mutant"), under which TLC finds the property violated.

### Bounds, and why they are enough
* `NR`, `MaxPid`: three or four processes make chains (grandchildren),
  siblings and orphans; `MaxPid > NR` (`ProcTerm`) lets a slot be used again.
  `MaxPid` keeps a fork from using a further pid; it does not keep a fork from
  failing for want of a slot.  The number of slots enters the code only through
  loops over all of them.  What the proofs cover holds for every `NR`.
* `InputSize = 3`, ring of 4: the smallest with room for a character besides
  the two reserved places; the ring is run round more than twice.
* Session: two lines make the second command list meet what the first left
  behind (`foreground_pid`, the flags and slots of the first list's commands).
* `FsCache`: two buffers are fewer than the blocks in use, so every read may
  evict; two values tell an old content from a new one, and a third (`Junk`)
  is what a buffer holds before it has been read; `MaxOpen` bounds the
  references to one inode.  The record of `FsHistory` costs no states: it is
  what the caches hold, which is what is checked.
* `FileSys`: three inodes and zones run out at every step of `mkdir` and
  `open`; a block of three entries (two are `.` and `..`) makes the second name
  of a directory need a new block.  `MaxBlocks` and `MaxEntries` bound growth.
* `Heap`: room for four headers with memory behind them, so that blocks have
  neighbours on both sides, are split and joined, and run out; words of 8 bits
  so that the largest sizes wrap round as they would with 32.

* `Compiler`: bytes of 4 bits and words of 16 (`ByteBits`), immediates of 12
  (`ImmBits`), so that constants need the pool, narrow types truncate and
  arithmetic wraps at numbers a program of a few lines can reach; the layout of
  instruction words keeps its real 32 bits.  `RamSize` and `UserLimit` are small
  enough for an array to be too large.  `PollPeriod = 2` makes every loop reach
  its poll.  `MaxInstr` is more than any of the valid programs needs.
  `MaxInclude = 3` and `MaxCond = 4` are reached.  The programs are one for each
  way the parts depend on each other: every pair of operators, every width in
  every kind of assignment, every loop left at every turn, calls with every kind
  of argument, one file and two, and for the preprocessor every short file over
  a small alphabet of lines.

### Fairness
* `Processes!FairSpec`: the kernel's passes go on (`WF(Kernel)`: it is straight
  code).  Nothing is assumed about programs.  The compiler's checkpoints do not
  make them yield: call 102 polls and returns 0 (`process.c:236`), and a pass
  keeps the active process for every call but 101 (`process.c:293`).  So a
  program that computes, or that forks and waits over and over, may keep the
  window and the others starve.  What the scheduler does promise is stated with
  yielding as the antecedent (`AllYield` in `EveryoneRuns`): if whoever gets the
  window infinitely often also makes call 101 infinitely often, nobody is
  passed over.  Without the antecedent TLC finds the program that never traps
  again.
* `FairSession`: one machine that keeps executing, `WF` of its next-state
  relation.  Which program runs is decided by the modelled scheduler.
* `FsHistory!FairSpec`: `WF(Step)`, a call that has begun goes on.  `Spin` is not
  in `Step`: it changes nothing.

### Findings
1. `SessionOutput`: `symcc` asks once more whether it was cancelled after it
   has replaced the output and while it removes its temporaries
   (`user/bin/symcc.c:71`).  A Ctrl+C polled there makes it report 130 although
   the old executable is gone; the README promises that it is kept.
2. `SessionList`: between the end of a command and the shell's call 103(0)
   (`user/bin/sh.c:160`) Ctrl+C looks for a process that no longer exists and
   marks nobody; the rest of the list runs, against the README.
3. `FsSync`: `sync` (and likewise any read or write of an inode) that needs a
   buffer while every free one is dirty runs `sync_dev` with its own inode
   locked, and waits for that lock for ever (`fs/inode.c:69`).  Data calls
   that find all buffers dirty are safe: they hold no lock.

### Where this compiler's language is not C

`ResultIsMeaning` is about the programs of the run.  While they were written the
following differences from C were met, each confirmed with the compiler itself;
the programs avoid them.  A restriction the repository's `README.md` announces is not
repeated here.

Preprocessor (`preprocess.c`): a call nested in its own argument, `f(f(1))`, is
not expanded; a self-referential macro is expanded again when it is an argument;
a macro whose argument list is completed by pasted tokens is "unterminated"; an
empty left operand of `##`; a function-like macro's name at the end of a line
with its `(` on the next takes directives for arguments; a comment between two
letters joins them; a line comment ending in a backslash ends.

Parser (`parse.c`): nested local initializers lose all but the first element of
every inner list but the last; `{1}` for a member that is a struct copies from
address 0; `p - a` for an array `a` scales the wrong operand; two functions'
local `struct S` share the first layout; negative case constants and
enumerators are refused; so are `2 * -3` and `array + constant` in a global
initializer, and `case E + 1:`; a member after a zero-width bit-field overlaps;
`*p++ += 5` evaluates `p++` twice; a storage class is lost when the declarator
contains another declaration; unary `-` and `~` and `sizeof` have type `int`;
operands of type `unsigned char` stay unsigned; parameter declarations of the
old style and initialized arrays of function pointers are refused; a local
`extern` for a bss variable gives it data.

Code generator (`codegen.c`): a struct a call returned, passed as an argument
without being stored, is copied onto itself in the wrong direction; the value of
an assignment to a bit-field is the shifted field, to a narrow object the whole
word; a narrow return type does not narrow; statements before the first `case`
are executed; `va_start` counts struct parameters as one word.

Linker (`link.c`): a `static` function is shadowed by another file's global of
the same name; a global `s0` is the string label `s0`; `end` is the end of bss
although data follows; a duplicate goto label is found by the linker only.

Instruction table (`isa.c`): `out` with an immediate, which
`SymphonyPlus.isa:39-41` defines, assembles to 0x12 (`isa.c:31`); the emulator
takes 0x10 for it (`emu.c:121`) and stops with error 3 at 0x12.  `Isa` and
`Machine` have both tables as they are, so a program with that instruction would
violate `ValidProgramsRun`.

The programs of the run that must not reach their end (`InvalidJobs`,
`FailingJobs`) are no C, do not fit, or leave the limits of the machine; valid C
that this compiler refuses, as listed above, is not among them.

## 4. Proofs

`ProcessesProofs` proves about `Processes`, for every number of slots, pids,
calls, keys, images and sizes of the terminal that `ConstantsAssumption` and
`InputSizeAssumption` allow:

| Theorem | Statement |
|---|---|
| `TypeCorrect` | `Spec => []TypeOK` |
| `Invariance` | `Spec => []IInv` |
| `WakeupsAreNotMissed` | `Spec => []NoMissedWakeup` |
| `MarkedProcessesEnd` | `Spec => []NothingMarkedRuns` |
| `PidsCorrect` | `Spec => []PidsOK` |
| `FathersCorrect` | `Spec => []EveryoneHasAFather` |
| `ZombiesAreDelivered` | `Spec => ZombiesWait` |
| `MemoryRefinement` | `Spec => MemoryIsPrivate` |
| `InterruptMarksExactly` | `Spec => InterruptMarksTheTree` |

and `SlotReuseProofs` about the same system with its history of flags
(`MCSlotReuse`):

| Theorem | Statement |
|---|---|
| `NoFlagOutlivesItsProcess` | `HistSpec => []FlagsBelongToTheirProcess` |

**The inductive invariant.**  `NoMissedWakeup` speaks of the moment a program
runs; it is kept through a pass only because of what each stage has settled
when it is left.  `PassProgress` says that: after the cancel pass nothing
doomed is left (`Doomed = {}`), the retry sweep leaves no ready call behind it
(`s < scan => ~Ready(s)`), and none at all when it is done.  That the sweep does
not make an earlier slot ready again is the heart of it (`RetryReadies`): a
dead child is reaped only by its own father, so nobody else's wait becomes
ready, and taking bytes from the terminal never completes a line
(`RestHasNoNewLine`).  This needs that sleepers have the call that put them to
sleep (`SleepersHaveCalls`), that pids are unique and fathers live or init
(`PidsOK`, `EveryoneHasAFather`).  `IInv` is the conjunction; `ProcTerm` checks
it with TLC first, the proof has one lemma per conjunct and in it one case per
action.

**The refinement.**  `MemoryRefinement` maps a process's memory to the window
when it is the live one and to its snapshot otherwise (`ImageOf`).  `activate`
is the step to be argued: it saves the window only if the live process has not
ended, and that changes no live process's image (`OthersKept`).

**Zombies.**  `ZombiesWait` is about steps: each transition of a pass either leaves
every ended process as it was (`ExitKeepsZombies`, `ZombiesUntouched`) or is the
wait that reaps one, and then the father has its pid (`ReapDelivers`).  Only
`alloc` could reuse a slot, and it takes a free one.

**The tree Ctrl+C marks.**  `descendant` climbs from a process to its father, from pid to
pid, for at most `NR` links; `InterruptMarksTheTree` defines the tree the other
way, by the pids of fathers below fathers.  `LineageIs` gives the climb link by
link; a father's pid is lower than its child's (`PidsOK`), so that pids fall along
it, no slot is met twice, and `NR` links are always enough (`LineageIsShort`, a
pigeonhole).  Both definitions then have the same members (`TreeIsDescendants`)
and the interrupt marks those of them that are live.

**Flags.**  `FlagsBelongToTheirProcess` is inductive together with `IInv`.  Every
step but a fork leaves each occupied slot to the process it had
(`StepKeepsProcesses`), so what a flag says stays true of the same pid; a fork
takes a free slot and clears its flags (`ForkClears`).  A process that ends by
itself has an exit code that is a multiple of 256 (`ExitCodeIsNotTwo`), so that
code 2 always comes from a mark.

`TtyRingProofs` proves about `TtyRing`, for every size of the ring, every bound on
`head` and all byte counts of reads (`InputSizeAssumption`, `RingAssumption`):

| Theorem | Statement |
|---|---|
| `RingCorrect` | `Spec => []RingOK` |
| `ModifiersCorrect` | `Spec => []ModifiersFollowKeys` |
| `NewlineFits` | `Spec => []AlwaysRoomForNewline` |
| `RingRefinesQueue` | `Spec => RingIsAQueue` |

**The refinement of the ring.**  The queue is the sequence of bytes between `tail`
and `head` (`Bytes`).  The heart is `MaskDiffers`: two counters less than
`InputSize` apart have different places, so that storing at `head` overwrites
nothing unread (`StoreStep`).  This needs the room test to leave one place free,
which `RingOK` carries.  Every action of `TtyRing` is then a step of `TtyQueue` or
leaves `Bytes` alone.

`HeapProofs` proves about `Heap`, for every width of words, every place of data
and stack and all sizes (`HeapAssumption`):

| Theorem | Statement |
|---|---|
| `HeapInvariance` | `Spec => []HeapInv` |
| `HeapTypes` | `Spec => []TypeOK` |
| `HeapNoOverlap` | `Spec => []NoOverlap` |
| `HeapHeldIsUsable` | `Spec => []HeldIsUsable` |
| `HeapFreeJoined` | `Spec => []FreeNeighboursJoined` |
| `HeapBinsAreExact` | `Spec => []BinsAreExact` |
| `HeapGrowsOnlyWhenFull` | `Spec => GrowsOnlyWhenFull` |

`PowersOfTwo`, the second assumption, is what doubling means (the provers know
nothing of `^`); TLC evaluates it for the instance.  That a positive word has a
highest bit (`HighestBit`), and that a larger size has no smaller bin
(`BinsAreOrdered`), are lemmas proved from it.

**The inductive invariant of the heap.**  That blocks do not overlap is not
inductive: `split_block` and `join_next` are right only if the chain runs
through all blocks in the order of their addresses with each ending before the
next (`Chain`), and `remove_free` may write through a link only if links lead to
free blocks of the same bin and back (`FreeLinks`).  `Good` is the conjunction
with the places of blocks (`Clear`), for any headers: each helper is shown to
keep it (`RemoveKeeps`, `InsertKeeps`, `JoinKeeps`, `SplitKeeps`, `AppendKeeps`,
`GrowKeeps`) and to leave the blocks in use as they were (`SameUsers`), and
`malloc`, `free` and each case of `realloc` are compositions of these
(`MallocIs`, `FreeKeeps`, `...Step`).  `Aligned` does not wrap because of the
guard `TooBig` (`AlignedIs`), the product of `calloc` because of its division
(`DivBound`).

**Free neighbours.**  `HeapFreeJoined` adds `Joined` to the invariant.  In a chain the
block that starts where another ends is its next one (`NeighbourIsNext`), so
looking at `prev` and `next` alone finds every free neighbour: after
`JoinedPrev` and `JoinedNext` the sum has none (`ApartBefore`, `ApartAfter`).
`split_block` may make its rest free without looking, because the block it
splits was itself free, or has just absorbed the free block after it, and so
has no free block at its end (`SplitJoined`).

**Bins and their order.**  `BinsAreExact` says of the walk along `free_next` from the
head of a bin that it meets each free block of the bin once and comes to an end.
That every link leads to a free block of the bin and back (`FreeLinks`) is not
enough: blocks could form a ring that no head leads to.  `Ranked` excludes it: the
free blocks can be numbered so that every `free_prev` leads to a lower number,
since `insert_free` puts a block before all the others.  Climbing `free_prev` then
ends at the head (`BinWalks`), and walking `free_next` from there meets each block
and stops, because no more headers than `Stack \div Header` fit below the stack
(`BlocksAreFew`, `WalkEnds`, `WalkIsComplete`).  `GrowsOnlyWhenFull` needs besides
that every size is a multiple of 8 (`Sized`), through splits, joins and the
break: the block that fits the aligned size lies in a bin that the search
visits, since bins are ordered by size (`SearchFinds`).  `Neat` is the
conjunction with `Joined`; `AlwaysNeat` keeps it through every call.

**Induction.**  The library's induction theorems take an operator as a parameter and
cannot be used; the proofs about powers of two, walks and lineages use instead that
a non-empty set of natural numbers has a least member (`LeastNatural`), applied
to the set of those for which a claim fails (`Induction`), and that a function
defined by recursion exists (`IterationExists`).

`ShellSessionProofs` proves about `ShellSession`, for every number of slots, of
compiler stages and of typed lines, and all command lists.  Besides the
assumptions of the process layer it uses `SessionAssumption`: the lists are
sequences of commands, and the images, points and calls that `Processes` leaves
open include those of the four programs.

| Theorem | Statement |
|---|---|
| `SessionInvariance` | `SessionSpec => []SInv` |
| `SessionRefines` | `SessionSpec => Spec` (the specification of `Processes`) |
| `TempsAreOwned` | `SessionSpec => []TempsAreRemoved` |
| `ShellIsSpared` | `SessionSpec => []ShellSurvives` |
| `CancelledNeverPublish` | `SessionSpec => NoPublishAfterCancel` |

With `SessionRefines` every theorem of `ProcessesProofs` holds of sessions too.

**The inductive invariant of the session.**  That the shell is never marked depends on
who is in the foreground; that on which process the shell waits for; that on
who its children are; and a file left behind belongs to a driver that only its
own program removes.  `SInv` adds three parts to `IInv`:

* `ProgramsFit`: each live process stands at a point of its program, in the call
  that leads there (`Reaches`), with locals that fit (`LocalsFit`).
* `Order`: init stays in slot 1 (`InitStays`); the processes form a chain in
  which each has at most one child, the one it is about to wait for or waits
  for (`Chain`); only the last of them runs, but for a new child whose father
  has not reached its wait (`Turns`); and init's child is the shell, the
  shell's a command or a driver, a driver's a stage (`Roles`).
* `Safe`: a driver is shielded from its second call on (`Shielded`); neither init nor
  the shell is marked, and only a mark ends with code 2 (`Marks`); what is in the
  foreground is a child of the shell, and the one it waits for
  (`Foreground`); each temporary file belongs to a live driver at a point where it
  may exist (`FilesOwned`, `MayExist`); a cancellation that was seen has marked
  the driver (`CancelKnown`); and two facts of the instance: no program of a
  session yields, and a fork is within `MaxPid`.

It was checked with TLC on the instance of `Session` before it was proved.

**Views.**  The argument is made one process at a time.  `view` is what the session
knows of each process: its point, result, locals, and whether it is in a call,
asleep in it or has returned.  What a program does at a trap is a lemma for each
of the four (`InitTraps`, `ShTraps`, `CmdTraps`, `CcTraps`): its view *advances*,
which keeps its child and its role and never gives up a shield or a file.  What the
kernel does is one of five changes of the views, whatever the call: a process
goes on, wakes (a child reaped), dies, forks, or rests; each keeps the order
without looking at programs (`GoesOnOrder`, `WakesOrder`, `DiesOrder`,
`ForksOrder`, `RestsOrder`).  The lemmas `...Keeps`, one for each action of
`Processes`, join the two.  `ShellIsSpared`
rests on `MarksSpare`: below a process that is no child of init, the climb of
`descendant` cannot come from one.  `CancelledNeverPublish` rests on
`CommandIsForeground`: once a command has made its first call the shell sleeps
in the wait for it, so that it is in the foreground, and Ctrl+C marks it.

`FsCacheProofs` proves about `FsCache` and `FsHistory`, for any numbers of buffers and inode slots,
any blocks, inodes and values, and however inodes share blocks
(`CacheAssumption`):

| Theorem | Statement |
|---|---|
| `CacheInvariant` | `Spec => []Inv` |
| `CachesHoldNoDuplicates` | `Spec => []NoDuplicates` |
| `NothingIsHeldBetweenCalls` | `Spec => []NothingHeldAtRest` |
| `ReadsSeeLastWrite` | `HistSpec => []ReadsAreCurrent` |
| `SyncLeavesAllOnDisk` | `HistSpec => SyncIsDurable` |
| `CachesImplementStore` | `Spec => CacheIsTransparent` |

**The inductive invariant of the caches.**  `getblk` that finds only dirty buffers
calls `sync_dev`, which calls `write_inode`, which calls `bread` and so `getblk`
again; what a function may rely on when such a call returns is not visible in
any single state of the tables.  So the invariant is about the call stack:
`FrameOK` says what each frame may count on wherever it stands (the victim is a
buffer, the slot still has its inode, ...), `CalledBy` which function may have
called which and what they agree about, `TopOK` what the frame on top knows
besides (the buffer just returned is the one asked for; `sync_inodes` has
cleaned the slots it passed).  The rest ties the tables to each other:
`CountsOK` (a buffer is in use only between its return and the next step),
`LocksOK` (a locked inode is being encoded or decoded by some frame),
`BuffersOK` (a buffer that is not dirty says what the disk says), `InodesOK` (an
inode that is neither dirty nor being read says what buffers and disk say).
One lemma for each action (`...Keeps`) gives the invariant after the step, and
what happened to the store the program sees: nothing, or the write or clearing
it asked for.

**The record and the store.**  `ReadsSeeLastWrite` and `SyncLeavesAllOnDisk` are
about `HistSpec`.  Their invariant is `HInv`: `Inv`, and that inode table, buffers
and disk, taken together, hold what the record `written` says.  `HistoryExact`
shows that each step changes both in the same way: the two steps that store
change them as asked, and in every other step neither moves (eviction,
write-back and reading again only carry a value from one place to another).
For `CachesImplementStore` the request has to be followed as well: it is the
frame at the bottom of the stack, which only the step that begins a call puts
there (`AskStep`) and the one that ends it takes away (`DoneStep`); the frames
above it come and go without a trace (`InsideStep`), and a block that was
cleared, stored or copied is the one named in it (`CallRequest`,
`InnerRequest`).  That a sync *returns* is not true (finding 3) and not claimed.

`FileSysLemmas` and `FileSysProofs` prove about `FileSys`, for any numbers of
processes, descriptors, open files, inodes and zones, every block size and all
path names (`FilesAssumption`):

| Theorem | Statement |
|---|---|
| `FilesInvariant` | `Spec => []Inv` |
| `LinkCountsMatch` | `Spec => []LinksMatchEntries` |
| `ReferencesMatch` | `Spec => []RefsMatch` |
| `BitmapsMatch` | `Spec => []MapsAreExact` |
| `DirectoriesStayATree` | `Spec => []DirsFormATree` |

**The inductive invariant of the files.**  No one of the four is inductive.
`rmdir` sets a link count to zero without looking at it, which is right only
because an empty directory is named by its entry and its own `.` alone, and
that needs the tree (`RemovableDir`); `rmdir`'s test `i_count > 1` is what keeps
a working directory and the root, so the tree needs the reference counts; freeing
an inode with its zones is right only if the bitmaps are exact, and handing one
out only if a free inode has no name (`FreshInode`), which needs the link
counts.  `Inv` is their conjunction, with the shape of directories (`Dots`: at
least two slots, `.` names itself) and that dead processes hold nothing.  It was
checked with TLC on the instance of the run before it was proved.

**Counting.**  Every count of the code is the number of places where a function has
a value: from the slots of the disk to the inodes named there (`Disk`), from
open files to inodes (`Opens`), from descriptors to files (`Held`), from
processes to directories.  A step changes such a function in one or two places,
and `OneChange` and `TwoChanges` say what that does to the count of every value; the
steps that change a whole row (`close`, `exit`, `fork`) are sums over it
(`RowChange`, `ClosedOpens`).

**Inside a call.**  A call is one step of the specification but passes through
tables that are wrong in one place: a name without its link, an inode without
its name.  The invariant is therefore stated of any table of inodes, in parts
(`Shaped`, `Linked`, `Hung`, `Exact`), and the lemmas about the helpers
(`EntryAdded`, `EntryCleared`, `DroppedKeeps`, `NewDirNames`, `GivenBack`,
`PutKeeps`...) say which parts each of them keeps or restores; the lemma of an
action composes them in the order of the code, the error paths included:
`GivenBack` is the one for an inode that was taken and has to go back.

Two assumptions are about the instance and not the code: the sets are finite
(the tables of the code are arrays), and `MaxEntries > 1`, the bound on a
directory, leaves room for `.` and `..`.  `TypeOK` takes names from
`Components`, the names that occur in paths.

**Model-checked only.**  Liveness (`EveryoneRuns`, `CancelTakesEffect`) is out of
the prover's reach; so is all about `Compiler`, whose parser, code generator and
linkers are recursive over the program (the prover's arithmetic is lost in a
module with a recursive operator).

## 5. Not modelled, and why
* In the toolchain: cutting characters into tokens, the text of assembly lines,
  of object files and of archives (conversions of layout); the choice of archive
  members (all are taken here); the headers of executable images; unions, which
  the compiler lays out as structs, and the limits of its native build; wording
  of diagnostics; the emulator's window and options; `runtime/tty.c`; machine
  programs that jump into the middle of an instruction or write over one (a
  jump to data or to memory never written is modelled: it executes what is
  there).
* In the files: the times in an inode (`file_dev.c` sets them without marking
  the inode dirty, and no property depends on them); the indirect zones
  (`_bmap` beyond the seventh block), whose blocks are counted like data
  blocks.
* In the driver: the loop that tries another name when that of a temporary is
  taken (`EEXIST`).
* The rest of the user library, the shell's parser and redirections, the clock: planned.
* Screen output, formatting, dates: layout and data.
* I/O errors: `symdisk.c` cannot report one; damaged disks.
* Linux 0.11 code the port does not use (paging, signals, pipes, floppy, ...).
* Crashes in the middle of write-back: the code orders nothing there and
  promises nothing but `sync`.

## 6. Plan

Done: the process layer, its memory, the terminal, the session, the caches, the
files, the allocator; the toolchain from preprocessor to machine; proofs about
the process layer and its flags, the terminal's ring, the session, the
allocator, the caches and the files.  Next, in this order:

1. `ShellFds`: redirections, heredocs and their restoration in `sh.c` on top of
   `FileSys` descriptors: 0-2 are the terminal again at every prompt, a command
   starts with 0-2 only.
2. Pure algorithms against a reference: `ShellParse` (`shell_parse.c`), `Tick`
   (`tick.c`), `exec` header validation with its unsigned arithmetic.
3. The toolchain's texts: reading an object back gives the object written;
   which archive members are linked.

New modules share runs with the ones they extend where they ask the same kind
of question.
