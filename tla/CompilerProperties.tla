------------------------- MODULE CompilerProperties -------------------------
(* What the compiler, the linkers, the assembler and the emulator promise   *)
(* together.  A job's `items' is its C program as a tree, <<>> when it has  *)
(* none; `valid' says whether it is a program at all; `out' is what an      *)
(* assembly program prints.                                                 *)
EXTENDS Compiler, PpReference, Runtime

(* TYPE: registers and memory hold words and bytes, zr is zero, and the     *)
(* preprocessor keeps to its limits and its chains.                         *)
CompilerTypeOK ==
    /\ PpTypeOK
    /\ \A r \in 0..15 : regs[r] \in 0..WordSize - 1
    /\ \A a \in DOMAIN ram : ram[a] \in 0..ByteSize - 1 /\ a \in 0..RamSize - 1
    /\ regs[zr] = 0

(* codegen.c, parse.c and all that follow: a program that reaches its halt  *)
(* has computed what C says it means, in the register its caller reads.     *)
HasMeaning == job.mode \in {"flat", "user"} /\ job.valid
Result == IF job.mode = "user" THEN regs[2] ELSE regs[1]
ResultIsMeaning ==
    status = "halt" /\ HasMeaning => Result = Meaning(job.items)

(* error_at, LinkError and the emulator's error codes: a program of the run *)
(* that is C and fits is accepted by every stage and never stops with an    *)
(* address, opcode or instruction count error; of the others, none gets as  *)
(* far as its halt.                                                         *)
ValidProgramsRun ==
    job.mode # "E" =>
        IF job.valid THEN stage # "rejected" /\ status \notin {"1", "2", "3"}
        ELSE status # "halt"

(* gen_func's prologue and epilogue, gen_call and crt0: whatever was pushed *)
(* has been popped when main's caller goes on, and already when a function  *)
(* begins its epilogue, whose mov sp, r10 would hide what a call or an      *)
(* expression has left behind.                                              *)
SpFromBase   == emit_insn(<<>>, Head(gen_epilogue))[1]
BaseFromSp   == emit_insn(<<>>, I2("mov", R10, SP))[1]
FrameOpened  == emit_insn(<<>>, I3("sub", SP, SP, Imm(0)))[1]
Prologue     == Max({a \in DOMAIN text : a < pc /\ text[a] = BaseFromSp})
FrameSize ==
    LET w == text[Prologue + 4] - FrameOpened
    IN  IF w \in 1..ImmLimit - 1 THEN w ELSE 0
StackIsBalanced ==
    HasMeaning =>
        /\ status = "halt" => regs[sp] = StackTop - (IF job.mode = "user" THEN 8 ELSE 0)
        /\ status = "run" /\ pc \in DOMAIN text /\ text[pc] = SpFromBase =>
              regs[sp] = regs[10] - FrameSize

(* line_size_after, line_size and obj_line_size against asm.c: the address  *)
(* a linker has computed for a label is where the assembler then finds it.  *)
LabelsAreExact ==
    stage = "load" =>
        LET InFlat(lk, at) == \A n \in DOMAIN at :
                                (IF n = "halt" THEN {lk.lay.halt} ELSE lk.globals[n]) = {at[n]}
            InUser(im, at) == \A n \in DOMAIN at : AddrOf(im, n, -1) = UserBase + at[n]
            Assembled == add_label(linked[Len(linked)].lines).labels
        IN  CASE job.mode = "flat" -> InFlat(LinkRecord(<<crt0_asm>> \o objs), Assembled)
              [] job.mode = "user" ->
                   InUser(ImageLayout(UserObjs, ImageOptions("user", UserBase, UserLimit)), Assembled)
              [] OTHER -> TRUE

(* isa.c against emu.c: an assembly program prints what its mnemonics say.  *)
MnemonicsDoWhatTheySay == status = "halt" /\ job.mode = "asm" => printed = job.out
=============================================================================
