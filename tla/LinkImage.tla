----------------------------- MODULE LinkImage -----------------------------
(***************************************************************************)
(* The linker of the kernel image and of user programs                     *)
(* (src/symcc/src/link_image.c): flat text, data and bss from a base       *)
(* address.  A far jump loads r13; a far conditional jump loads r13 and    *)
(* jumps on the condition to one gate in low memory, which jumps to r13.   *)
(* User programs that have __sp_poll count r12 at every poll label and     *)
(* call it each PollPeriod-th time.                                        *)
(***************************************************************************)
EXTENDS Link

CONSTANTS PollPeriod,      \* 4096 in the code
          HaltAt           \* the kernel's halt loop: 0x140

POLL_BYTES == 60
R12 == Reg(12)
IsPoll(l) == l.k = "label" /\ "poll" \in DOMAIN l

line_size(l, poll) ==
    CASE IsPoll(l)        -> IF poll THEN POLL_BYTES ELSE 0
      [] is_cond_jump(l)  -> 16
      [] l.k = "insn" /\ l.op = "call" -> 32
      [] Named(l, "jmp")  -> 16
      [] OTHER            -> obj_line_size(l)

exported(obj, name) == \E s \in Range(obj.syms) : s.name = name

(* labels: the symbols a segment adds; a poll label stands before the      *)
(* bytes of its poll.                                                      *)
labels(obj, owner, lines, base, sizes) ==
    LET Noted(marks, offs) ==
            [k \in 1..Len(marks) |->
                [name |-> lines[marks[k]].n, addr |-> offs[marks[k]], owner |-> owner,
                 exp |-> exported(obj, lines[marks[k]].n)]]
    IN  Noted(SelectSeq([i \in 1..Len(lines) |-> i], LAMBDA i : lines[i].k = "label"),
              Bases(sizes, base))

(* add refuses a second symbol of one object and a second exported one.    *)
AddOk(syms) ==
    \A i, j \in 1..Len(syms) :
        i < j /\ syms[i].name = syms[j].name =>
            syms[i].owner # syms[j].owner /\ ~(syms[i].exp /\ syms[j].exp)

(* resolve: the object's own symbol first, then an exported one.           *)
resolve(im, name, owner) ==
    LET FirstOf(own, exp) == CASE own # {} -> {im.syms[Min(own)].addr}
                               [] exp # {} -> {im.syms[Min(exp)].addr}
                               [] OTHER    -> {}
        mine == {i \in 1..Len(im.syms) : im.syms[i].name = name}
    IN  FirstOf({i \in mine : im.syms[i].owner = owner}, {i \in mine : im.syms[i].exp})

LoadR13(addr) ==
    <<I2("mov", R13, Imm(addr \div ImmLimit)), I3("lsl", R13, R13, Imm(ImmBits)),
      I3("or", R13, R13, Imm(addr % ImmLimit))>>
FarJump(addr) == LoadR13(addr) \o <<I1("jmp", R13)>>
FarCall(addr) ==
    <<I1("counter", FL), I3("add", FL, FL, Imm(32)), I3("sub", SP, SP, Imm(4)), I2("store_32", SP, FL)>>
    \o FarJump(addr)

AddrOf(im, name, owner) == The(resolve(im, name, owner))

PollLines(im, l, owner, opt) ==
    <<I3("add", R12, R12, Imm(1)), I3("and", R12, R12, Imm(PollPeriod - 1)), I2("cmp", R12, Imm(0))>>
    \o LoadR13(AddrOf(im, l.n, owner) + POLL_BYTES) \o <<I1("jne", Imm(opt.branch_gate))>>
    \o FarCall(AddrOf(im, "__sp_poll", owner))

value(im, owner, a) ==
    IF IsRef(a) THEN Imm(HalfOf(a, AddrOf(im, a.n, owner))) ELSE a

line(im, l, owner, opt) ==
    CASE IsPoll(l) /\ im.poll -> PollLines(im, l, owner, opt)
      [] l.k = "label"    -> IF l.n = "main" THEN <<l>> ELSE <<>>
      [] is_cond_jump(l)  -> LoadR13(AddrOf(im, Target(l), owner)) \o <<I1(l.op, Imm(opt.branch_gate))>>
      [] Named(l, "call") -> FarCall(AddrOf(im, Target(l), owner))
      [] Named(l, "jmp")  -> FarJump(AddrOf(im, Target(l), owner))
      [] l.k = "insn"     -> <<[l EXCEPT !.args = [i \in 1..Len(l.args) |-> value(im, owner, l.args[i])]]>>
      [] l.k = "data"     -> <<[l EXCEPT !.arg = value(im, owner, l.arg)]>>
      [] OTHER            -> <<l>>

(* Every name a line uses is known, and a short reference is low.          *)
ImageLineOk(im, l, owner) ==
    /\ \A a \in {x \in Operands(l) : IsRef(x)} :
          \E at \in resolve(im, a.n, owner) : a.k = "at" => at < ImmLimit
    /\ (is_cond_jump(l) \/ Pooled(l)) => resolve(im, Target(l), owner) # {}

pad(from, to) == ZeroWords((to - from) \div 4) \o [i \in 1..(to - from) % 4 |-> Datum(1, Imm(0))]

(* The low memory of the kernel image: jump to the start, the branch gate, *)
(* the system call gate, the halt loop.                                    *)
KernelHead(im, opt, base) ==
    LET Entry(e) == IF e = {} THEN HaltAt ELSE The(e)
    IN  <<I1("jmp", Imm(base))>> \o pad(4, opt.branch_gate) \o <<I1("jmp", R13)>>
        \o FarJump(Entry(resolve(im, "sp_syscall_entry", -1)))
        \o pad(opt.syscall_gate + 16, HaltAt)
        \o <<Label("halt"), I1("jmp", Imm(HaltAt))>> \o pad(HaltAt + 4, base)

(* tsz and dsz: the sizes of the lines of the objects' text and data.      *)
ImageLayoutOf(objs, opt, poll, bs, tsz, dsz) ==
    LET Sums(sz) == [o \in 1..Len(objs) |-> Total(sz[o])]
        Widths == [i \in 1..Len(bs) |-> align4(bs[i].size)]
        own(n, a) == [name |-> n, addr |-> a, owner |-> -1, exp |-> TRUE]
        Segments(ts, ds, bat) ==
            FlattenSeq([o \in 1..Len(objs) |->
                labels(objs[o], o, objs[o].text, ts[o], tsz[o])
                \o labels(objs[o], o, objs[o].data, ds[o], dsz[o])])
            \o [i \in 1..Len(bs) |-> [name |-> bs[i].name, addr |-> bat[i], owner |-> bs[i].obj,
                                      exp |-> exported(objs[bs[i].obj], bs[i].name)]]
        Ended(bss, bend, tend, load) ==
            [poll |-> poll, text_end |-> tend, loaded |-> load, bss_end |-> bend,
             syms |-> Segments(Bases(Sums(tsz), opt.base), Bases(Sums(dsz), align4(tend)),
                               Bases(Widths, bss))
                      \o <<own("__bss_start", bss), own("__bss_end", bend), own("end", bend),
                           own("__syscall_gate", opt.syscall_gate)>>]
        Loaded(tend, load) == Ended(align4(load), align4(load) + Total(Widths), tend, load)
        Texts(tend) == Loaded(tend, align4(tend) + Total(Sums(dsz)))
    IN  Texts(opt.base + Total(Sums(tsz)))

ImageLayout(objs, opt) ==
    LET With(poll) ==
            LET tsize(l) == line_size(l, poll)
            IN  ImageLayoutOf(objs, opt, poll, BssOf(objs),
                              [o \in 1..Len(objs) |-> Sizes(objs[o].text, tsize)],
                              [o \in 1..Len(objs) |-> Sizes(objs[o].data, obj_line_size)])
    IN  With(opt.kind = "user" /\ \E o \in 1..Len(objs) : exported(objs[o], "__sp_poll"))

ImageOk(objs, opt, im) ==
    /\ AddOk(im.syms)
    /\ im.bss_end <= opt.limit
    /\ \A o \in 1..Len(objs) : \A l \in Range(objs[o].text) \cup Range(objs[o].data) :
          ImageLineOk(im, l, o)

ImageLines(objs, opt, im) ==
    LET kernel == opt.kind = "kernel"
        Emit(o, lines) == Joined([i \in 1..Len(lines) |-> line(im, lines[i], o, opt)])
        Segments == [i \in 1..2 * Len(objs) |->
                       IF i <= Len(objs) THEN <<i, objs[i].text>>
                       ELSE <<i - Len(objs), objs[i - Len(objs)].data>>]
        (* the padding behind the last text *)
        Emitted(seg) == [i \in 1..Len(seg) |->
                          Emit(seg[i][1], seg[i][2])
                          \o (IF i = Len(objs) THEN pad(im.text_end, align4(im.text_end)) ELSE <<>>)]
    IN  (IF kernel THEN KernelHead(im, opt, opt.base) ELSE <<>>)
        \o FlattenSeq(Emitted(Segments))
        \o (IF kernel THEN pad(im.loaded, im.bss_end) ELSE <<>>)

symld_link_ex(objs, opt) ==
    LET Linked(im) ==
            IF ~ImageOk(objs, opt, im) THEN [ok |-> FALSE, lines |-> <<>>]
            ELSE [ok |-> TRUE, bss_end |-> im.bss_end, loaded |-> im.loaded,
                  entry |-> resolve(im, "_start", 1), lines |-> ImageLines(objs, opt, im)]
    IN  Linked(ImageLayout(objs, opt))

(* The objects every user program is linked with, as src/user/lib has      *)
(* them: crt0.sym, and the poll and exit calls of syscall.sym.  What is    *)
(* behind the system call gate is the kernel; the smallest one that        *)
(* answers polls and stops at exit stands for it.                          *)
Code(lines, names) ==
    [text |-> lines, data |-> <<>>, bss |-> <<>>,
     syms |-> [i \in 1..Len(names) |-> [name |-> names[i], data |-> FALSE]]]

crt0_sym ==
    Code(<<Label("_start"), I1("call", Sym("main")), I1("push", R1), I1("call", Sym("_exit")),
           Label("user_hang"), Jmp("user_hang")>>, <<"_start">>)

syscall_sym(gate) ==
    Code(<<Label("_exit"), I3("add", R9, SP, Imm(4)), I2("load_32", R2, R9), I2("mov", R1, Imm(1)),
           I1("jmp", Imm(gate)),
           Label("__sp_poll"), I2("mov", R1, Imm(102)), I1("jmp", Imm(gate))>>, <<"_exit", "__sp_poll">>)

SmallKernel(start) ==
    Code(<<I2("mov", SP, Imm(StackTop \div 4)), I3("lsl", SP, SP, Imm(2))>> \o LoadR13(start)
         \o <<I1("jmp", R13),
              Label("sp_syscall_entry"), I2("cmp", R1, Imm(102)), I1("jne", Sym("stop")), I0("ret"),
              Label("stop"), I1("jmp", Imm(HaltAt))>>, <<"sp_syscall_entry">>)
=============================================================================
