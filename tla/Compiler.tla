------------------------------ MODULE Compiler ------------------------------
(***************************************************************************)
(* From C files to a program that has run: the driver of the compiler      *)
(* (src/symcc/src/main.c and compile.c), which preprocesses, parses and    *)
(* generates code for one file after the other and links the objects, and  *)
(* the emulator (src/emu/emu_main.c), which assembles the result and runs  *)
(* it.  A job is what the tools are asked to do:                           *)
(*   mode   "E" (symcc -E), "flat" (symcc), "user" (symcc -c --d32 and     *)
(*          symld for a user program), "asm" (the emulator on its own)     *)
(*   files  the lines of the C files                                       *)
(*   d32    the option --d32                                               *)
(*   asm    the assembly lines of mode "asm"                               *)
(***************************************************************************)
EXTENDS Preprocess, Parse, LinkImage, Machine

CONSTANTS
    Jobs,        \* what the tools are asked to do
    PpPrograms,  \* files that are only preprocessed
    KernelBase,  \* where the kernel's text is linked
    UserBase,    \* SP_USER_BASE
    UserLimit,   \* the end of a user program's window
    BranchGate, SyscallGate   \* 0x100 and 0x104

VARIABLES
    job,         \* what the tools are asked to do
    unit,        \* files read so far
    objs,        \* objects compiled so far
    linked,      \* the linkers' output: lines by load address
    stage        \* "compile", "link", "load", "run", "done" or "rejected"

jobVars == <<job, unit, objs, linked, stage>>
allVars == <<ppVars, mvars, jobVars>>

OnlyPreprocess(lines) == [mode |-> "E", files |-> <<lines>>]

Init ==
    /\ job \in Jobs \/ \E lines \in PpPrograms : job = OnlyPreprocess(lines)
    /\ unit = 0 /\ objs = <<>> /\ linked = <<>>
    /\ stage = IF job.mode = "asm" THEN "link" ELSE "compile"
    /\ PpIdle /\ MachineOff

(* read_file and the start of preprocess_tokens.                           *)
ReadFile ==
    /\ stage = "compile" /\ ppStatus = "idle"
    /\ unit' = unit + 1
    /\ PpStart(job.files[unit + 1])
    /\ UNCHANGED <<job, objs, linked, stage, mvars>>

PreprocessStep ==
    /\ stage = "compile" /\ PpNext
    /\ UNCHANGED <<jobVars, mvars>>

(* symcc -E writes the tokens and takes the next file.                     *)
Forget == ppSource' = <<>> /\ ppCalls' = <<>> /\ ppMacros' = NoMacros /\ ppCond' = <<>>
MoreFiles == unit < Len(job.files)

PreprocessOnly ==
    /\ stage = "compile" /\ ppStatus = "done" /\ job.mode = "E"
    /\ Forget /\ ppStatus' = "idle"
    /\ stage' = IF MoreFiles THEN "compile" ELSE "done"
    /\ UNCHANGED <<job, unit, objs, linked, mvars>>

(* symcc_compile_obj: parse and codegen; an error ends the compiler.       *)
Refuse == stage' = "rejected" /\ UNCHANGED objs
KeepObject(obj) ==
    IF err_imm \in Range(obj.text) THEN Refuse
    ELSE objs' = Append(objs, obj) /\ stage' = IF MoreFiles THEN "compile" ELSE "link"

CompileFile ==
    /\ stage = "compile" /\ ppStatus = "done" /\ job.mode # "E"
    /\ \E prog \in {parse(Top.out)} :
           IF prog.ok THEN KeepObject(codegen(prog, job.d32)) ELSE Refuse
    /\ Forget /\ ppStatus' = "idle"
    /\ UNCHANGED <<job, unit, linked, mvars>>

PreprocessorStops ==
    /\ stage = "compile" /\ ppStatus \notin {"idle", "run", "done"}
    /\ stage' = "rejected"
    /\ UNCHANGED <<job, unit, objs, linked, ppVars, mvars>>

(* The options of the two images symld makes.                              *)
ImageOptions(kind, base, limit) ==
    [kind |-> kind, base |-> base, limit |-> limit,
     branch_gate |-> BranchGate, syscall_gate |-> SyscallGate]
UserObjs == <<crt0_sym>> \o objs \o <<syscall_sym(SyscallGate)>>
UserImage   == symld_link_ex(UserObjs, ImageOptions("user", UserBase, UserLimit))
KernelImage(start) ==
    symld_link_ex(<<SmallKernel(start)>>, ImageOptions("kernel", KernelBase, UserBase))

Loaded(base, lines) == [base |-> base, lines |-> lines]

LinkFlat ==
    /\ stage = "link" /\ job.mode = "flat"
    /\ \E out \in {symld_link(<<crt0_asm>> \o objs)} :
           IF out.ok THEN linked' = <<Loaded(0, out.lines)>> /\ stage' = "load"
                     ELSE stage' = "rejected" /\ UNCHANGED linked
    /\ UNCHANGED <<job, unit, objs, ppVars, mvars>>

LinkUser ==
    /\ stage = "link" /\ job.mode = "user"
    /\ \E u \in {UserImage} :
           IF u.ok
           THEN /\ linked' = <<Loaded(0, KernelImage(The(u.entry)).lines), Loaded(UserBase, u.lines)>>
                /\ stage' = "load"
           ELSE stage' = "rejected" /\ UNCHANGED linked
    /\ UNCHANGED <<job, unit, objs, ppVars, mvars>>

LinkNothing ==
    /\ stage = "link" /\ job.mode = "asm"
    /\ linked' = <<Loaded(0, job.asm)>> /\ stage' = "load"
    /\ UNCHANGED <<job, unit, objs, ppVars, mvars>>

(* asm_assemble, then emu_run_ex up to its first instruction.              *)
Image(l) == asm_assemble(l.lines)
Placed0(f, base) == [a \in {x + base : x \in DOMAIN f} |-> f[a - base]]
Assemble ==
    /\ stage = "load"
    /\ \E im \in {[i \in DOMAIN linked |-> Image(linked[i])]} :
           IF \A i \in DOMAIN linked : im[i].ok
           THEN /\ Reset(FoldLeft(LAMBDA acc, i : acc @@ Placed0(im[i].code, linked[i].base),
                                  <<>>, [i \in DOMAIN linked |-> i]),
                         FoldLeft(LAMBDA acc, i : acc @@ Placed0(im[i].bytes, linked[i].base),
                                  <<>>, [i \in DOMAIN linked |-> i]), 0)
                /\ stage' = "run"
           ELSE stage' = "rejected" /\ UNCHANGED mvars
    /\ objs' = <<>> /\ linked' = <<>>
    /\ UNCHANGED <<job, unit, ppVars>>

Execute ==
    /\ stage = "run" /\ emu_run
    /\ UNCHANGED <<jobVars, ppVars>>

Finished ==
    /\ stage \in {"done", "rejected"} \/ status \notin {"off", "run"}
    /\ UNCHANGED allVars

Next ==
    \/ ReadFile \/ PreprocessStep \/ PreprocessOnly \/ CompileFile \/ PreprocessorStops
    \/ LinkFlat \/ LinkUser \/ LinkNothing \/ Assemble \/ Execute \/ Finished

Spec == Init /\ [][Next]_allVars
=============================================================================
