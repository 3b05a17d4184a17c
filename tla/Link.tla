------------------------------- MODULE Link -------------------------------
(***************************************************************************)
(* The linker of flat programs (src/symcc/src/link.c) and the part of      *)
(* obj.c it measures lines with.                                           *)
(*                                                                         *)
(* A jump instruction holds a 16-bit address, so the low region carries a  *)
(* pool of target addresses and trampolines that jump through it:          *)
(*   crt0 | jmp halt | halt | pool | trampolines | bss | text | data       *)
(* An object is [text, data, bss, syms]; objs[1] is crt0.                  *)
(***************************************************************************)
EXTENDS Codegen

CONSTANTS
    FrameBase,   \* FRAMEBUF_BASE: 0x2000
    PoolFloor,   \* the end of the frame buffer area: 0x3000
    StackTop     \* what crt0 loads sp with

align4(x) == Round4(x)
R13 == Reg(13)
FL  == Reg(flags)

(* obj_line_size: what the assembler will make of a line.                  *)
obj_line_size(l) ==
    CASE l.k = "label" -> 0
      [] l.k = "data"  -> l.w
      [] l.k = "str"   -> Len(l.s)
      [] l.k = "insn"  -> CASE l.op \in {"push", "pop"} -> 8
                            [] l.op = "call" -> 20
                            [] l.op = "ret"  -> 12
                            [] OTHER         -> 4

CondJumps == Range(CondNames) \cup Range(CondOpposites)
is_cond_jump(l) == l.k = "insn" /\ l.op \in CondJumps
Named(l, op) == l.k = "insn" /\ l.op = op /\ l.args[1].k = "sym"
Pooled(l) == Named(l, "call") \/ Named(l, "jmp")
Target(l) == l.args[1].n

(* A bug: the size of a call as the assembler knows it, before the linker  *)
(* has lengthened it.                                                      *)
CallSizeBefore(l) ==
    CASE Named(l, "call") -> 20 [] Named(l, "jmp") -> 8 [] OTHER -> obj_line_size(l)

line_size_after(l) ==
    CASE Named(l, "call") -> 24 [] Named(l, "jmp") -> 8 [] OTHER -> obj_line_size(l)

Sizes(lines, Size(_)) == [i \in 1..Len(lines) |-> Size(lines[i])]

(* collect_jumps: every object has its own trampolines and pool slots, one *)
(* for each distinct target.  The list of trampolines is built backwards.  *)
RECURSIVE Distinct(_, _)
Distinct(s, seen) ==
    IF s = <<>> THEN <<>>
    ELSE IF Head(s) \in seen THEN Distinct(Tail(s), seen)
    ELSE <<Head(s)>> \o Distinct(Tail(s), seen \cup {Head(s)})

TargetsOf(objs, Want(_)) ==
    Distinct(FlattenSeq([o \in 1..Len(objs) |->
        LET ls == SelectSeq(objs[o].text, Want) IN [i \in 1..Len(ls) |-> <<o, Target(ls[i])>>]]), {})

tramps(objs)     == Reverse(TargetsOf(objs, is_cond_jump))
pool_slots(objs) == TargetsOf(objs, Pooled)
IndexIn(s, x)    == CHOOSE i \in 1..Len(s) : s[i] = x

BssOf(objs) == FlattenSeq([o \in 1..Len(objs) |->
    [i \in 1..Len(objs[o].bss) |-> [obj |-> o, name |-> objs[o].bss[i].name, size |-> objs[o].bss[i].size]]])

(* tr and ps: the trampolines and the slots of the pool, bs: the bss       *)
(* variables, sz and dsz: the sizes of the objects' text and data.          *)
LayoutOf(tr, ps, bs, sz, dsz) ==
    LET pool == Max({PoolFloor, align4(sz[1] + 8)})
        Bss(bss, widths) ==
            LET text == align4(bss + Total(widths))
            IN  [tramps |-> tr, slots |-> ps, halt |-> sz[1] + 4, pool |-> pool,
                 tramp |-> bss - 8 * Len(tr), bss |-> bss, bss_end |-> bss + Total(widths),
                 bss_at |-> Bases(widths, bss), bss_vars |-> bs,
                 text |-> <<0>> \o Bases(Tail(sz), text),
                 data |-> Bases(dsz, align4(text + Total(Tail(sz))))]
    IN  Bss(align4(pool + 4 * (Len(tr) + Len(ps))) + 8 * Len(tr),
            [i \in 1..Len(bs) |-> bs[i].size])

Layout(objs) ==
    LayoutOf(tramps(objs), pool_slots(objs), BssOf(objs),
             [o \in 1..Len(objs) |-> Total(Sizes(objs[o].text, line_size_after))],
             [o \in 1..Len(objs) |-> Total(Sizes(objs[o].data, obj_line_size))])

(* The labels of one segment: name to offset; ok unless one is repeated.   *)
LabelTable(lines, sizes) ==
    LET Table(marks, names, offs) ==
            [ok |-> Cardinality(names) = Cardinality(marks),
             at |-> [n \in names |-> offs[CHOOSE i \in marks : lines[i].n = n]]]
        OfMarks(marks) == Table(marks, {lines[i].n : i \in marks}, Bases(sizes, 0))
    IN  OfMarks({i \in 1..Len(lines) : lines[i].k = "label"})

(* locals: for every object its text and data labels, as addresses.        *)
Moved(table, base) == [n \in DOMAIN table |-> table[n] + base]

Locals(objs, lay) ==
    LET Tables(o, t, d) ==
            [ok |-> t.ok /\ d.ok, text |-> Moved(t.at, lay.text[o]), data |-> Moved(d.at, lay.data[o])]
    IN  [o \in 1..Len(objs) |->
            Tables(o, LabelTable(objs[o].text, Sizes(objs[o].text, line_size_after)),
                      LabelTable(objs[o].data, Sizes(objs[o].data, obj_line_size)))]

Reserved == {"__bss_start", "__bss_end", "end"}
SymNames(o) == [i \in 1..Len(o.syms) |-> o.syms[i].name]

(* A bug: a name that two files define is not noticed.                     *)
OnlyReservedChecked(objs) ==
    Range(FlattenSeq([o \in 1..Len(objs) |-> SymNames(objs[o])])) \cap Reserved = {}

SymbolsOk(objs) ==
    LET AllNew(all) == Range(all) \cap Reserved = {} /\ Cardinality(Range(all)) = Len(all)
    IN  AllNew(FlattenSeq([o \in 1..Len(objs) |-> SymNames(objs[o])]))

(* Where an exported name lies; no address when it has no definition.      *)
BssAddress(lay, o, name) ==
    {lay.bss_at[i] : i \in {j \in 1..Len(lay.bss_vars) :
                              lay.bss_vars[j].obj = o /\ lay.bss_vars[j].name = name}}

SymbolAddress(lay, loc, o, s) ==
    CASE ~s.data /\ s.name \in DOMAIN loc[o].text -> {loc[o].text[s.name]}
      [] ~s.data                                  -> {}
      [] s.name \in DOMAIN loc[o].data            -> {loc[o].data[s.name]}
      [] OTHER                                    -> BssAddress(lay, o, s.name)

globals(objs, lay, loc) ==
    LET Table(defs) == [n \in {d.name : d \in defs} |-> (CHOOSE d \in defs : d.name = n).at]
    IN  Table(UNION {{[name |-> objs[o].syms[i].name, at |-> SymbolAddress(lay, loc, o, objs[o].syms[i])]
                       : i \in 1..Len(objs[o].syms)} : o \in 1..Len(objs)})
        @@ [n \in Reserved |-> {IF n = "__bss_start" THEN lay.bss ELSE align4(lay.bss_end)}]

(* resolve_jtarget and resolve_dref: a global of any object comes first,   *)
(* then a label of the object itself, data before text; a data reference   *)
(* may also name a bss variable that is not exported.                      *)
resolve_jtarget(lk, o, name) ==
    CASE name \in DOMAIN lk.globals     -> lk.globals[name]
      [] name \in DOMAIN lk.loc[o].data -> {lk.loc[o].data[name]}
      [] name \in DOMAIN lk.loc[o].text -> {lk.loc[o].text[name]}
      [] OTHER                          -> {}

resolve_dref(lk, o, name) ==
    LET OrBss(j) == IF j # {} THEN j ELSE BssAddress(lk.lay, o, name)
    IN  OrBss(resolve_jtarget(lk, o, name))

The(S) == CHOOSE x \in S : TRUE

(* An operand with its reference replaced by a number.                     *)
IsRef(a) == a.k \in {"at", "hi", "lo", "full"}
HalfOf(a, v) == CASE a.k = "hi" -> v \div ImmLimit [] a.k = "lo" -> v % ImmLimit
                  [] a.k = "full" -> (v + a.add) % WordSize [] OTHER -> v
Filled(lk, o, a) == IF IsRef(a) THEN Imm(HalfOf(a, The(resolve_dref(lk, o, a.n)))) ELSE a

Operands(l) == CASE l.k = "insn" -> Range(l.args) [] l.k = "data" -> {l.arg} [] OTHER -> {}

(* What may go wrong in a line: an unknown name, a short reference to an   *)
(* address above the low region.                                           *)
LineOk(lk, o, l) ==
    /\ \A a \in {x \in Operands(l) : IsRef(x)} :
          \E at \in resolve_dref(lk, o, a.n) : a.k = "at" => at < ImmLimit
    /\ (is_cond_jump(l) \/ Pooled(l)) => resolve_jtarget(lk, o, Target(l)) # {}

PoolAddress(lk, o, name) ==
    Imm(lk.lay.pool + 4 * (Len(lk.lay.tramps) + IndexIn(lk.lay.slots, <<o, name>>) - 1))
ThroughPool(lk, o, name) == <<I2("load_32", R13, PoolAddress(lk, o, name)), I1("jmp", R13)>>

emit_line(lk, o, l) ==
    CASE l.k = "label" ->
           IF l.n \in DOMAIN lk.globals /\ l.n \in lk.funcs THEN <<l>> ELSE <<>>
      [] is_cond_jump(l) ->
           <<I1(l.op, Imm(lk.lay.tramp + 8 * (IndexIn(lk.lay.tramps, <<o, Target(l)>>) - 1)))>>
      [] Named(l, "call") ->
           <<I1("counter", FL), I3("add", FL, FL, Imm(24)), I3("sub", SP, SP, Imm(4)),
             I2("store_32", SP, FL)>> \o ThroughPool(lk, o, Target(l))
      [] Named(l, "jmp") -> ThroughPool(lk, o, Target(l))
      [] l.k = "insn" -> <<[l EXCEPT !.args = [i \in 1..Len(l.args) |-> Filled(lk, o, l.args[i])]]>>
      [] l.k = "data" -> <<[l EXCEPT !.arg = Filled(lk, o, l.arg)]>>
      [] OTHER -> <<l>>

EmitAll(lk, o, lines) == Joined([i \in 1..Len(lines) |-> emit_line(lk, o, lines[i])])
ZeroWords(n) == IF n = 0 THEN <<>> ELSE <<Fill(4 * n)>>

LinkRecord(objs) ==
    LET Resolved(lay, loc) ==
            [lay |-> lay, loc |-> loc, globals |-> globals(objs, lay, loc),
             funcs |-> UNION {{s.name : s \in {x \in Range(objs[o].syms) : ~x.data}} : o \in 1..Len(objs)}]
        LaidOut(lay) == Resolved(lay, Locals(objs, lay))
    IN  LaidOut(Layout(objs))

LinkOk(objs, lk) ==
    /\ SymbolsOk(objs)
    /\ lk.lay.bss_end <= ImmLimit
    /\ \A o \in 1..Len(objs) : lk.loc[o].ok
    /\ \A n \in DOMAIN lk.globals : lk.globals[n] # {}
    /\ \A o \in 1..Len(objs) : \A l \in Range(objs[o].text) \cup Range(objs[o].data) : LineOk(lk, o, l)

(* EmitAll over the segments (object and lines) in their order.            *)
FlatImage(objs, lk, lay) ==
    LET Word(slot) == U32(The(resolve_jtarget(lk, slot[1], slot[2])))
        Through(i) == <<I2("load_32", R13, Imm(lay.pool + 4 * (i - 1))), I1("jmp", R13)>>
        Lines(o, data) == EmitAll(lk, o, IF data THEN objs[o].data ELSE objs[o].text)
        Texts == [o \in 1..Len(objs) |-> <<o, FALSE>>]
        Datas == [o \in 1..Len(objs) |-> <<o, TRUE>>]
        Low == <<I1("jmp", Sym("halt")), Label("halt"), I1("jmp", Sym("halt"))>>
               \o ZeroWords((lay.pool - lay.halt - 4) \div 4)
               \o [i \in 1..Len(lay.tramps \o lay.slots) |-> Word((lay.tramps \o lay.slots)[i])]
               \o FlattenSeq([i \in 1..Len(lay.tramps) |-> Through(i)])
               \o ZeroWords((align4(lay.bss_end) - lay.bss) \div 4)
        Emitted(segs) == [i \in 1..Len(segs) |-> Lines(segs[i][1], segs[i][2])
                                                \o (IF i = 1 THEN Low ELSE <<>>)]
    IN  FlattenSeq(Emitted(Texts \o Datas))

symld_link(objs) ==
    LET Linked(lk) == IF LinkOk(objs, lk)
                      THEN [ok |-> TRUE, lines |-> FlatImage(objs, lk, lk.lay)]
                      ELSE [ok |-> FALSE, lines |-> <<>>]
    IN  Linked(LinkRecord(objs))

(* runtime/crt0.asm: screen, stack, bss and frame buffer cleared, main.    *)
ClearLoop(name, step, value) ==
    <<Label(name \o "_loop"), I2("cmp", R9, R10), I1("jae", Sym(name \o "_done")),
      I2(IF step = 4 THEN "store_32" ELSE "store_8", R9, value),
      I3("add", R9, R9, Imm(step)), Jmp(name \o "_loop"), Label(name \o "_done")>>

Load32(r, name) ==
    <<I2("mov", r, HiName(name)), I3("lsl", r, r, Imm(ImmBits)), I3("or", r, r, LoName(name))>>

crt0_asm ==
    [text |->
       <<I2("mov", R1, Imm(0)), I2("screen", R1, Imm(0)), I2("mov", R1, Imm(1)),
         I2("mov", R2, Imm(FrameBase)), I2("screen", R1, R2),
         I2("mov", R1, Imm(2)), I2("mov", R2, Imm(ImmLimit - 1)), I3("lsl", R2, R2, Imm(ByteBits)),
         I3("or", R2, R2, Imm(ByteSize - 1)), I2("screen", R1, R2), I2("mov", R1, Imm(3)), I2("screen", R1, Imm(0)),
         I2("mov", SP, Imm(StackTop \div 4)), I3("lsl", SP, SP, Imm(2))>>
       \o Load32(R9, "__bss_start") \o Load32(R10, "__bss_end")
       \o ClearLoop("L_bss", 4, Reg(zr))
       \o <<I2("mov", R9, Imm(FrameBase)), I3("add", R10, R9, Imm(8)), I2("mov", Reg(11), Imm(1))>>
       \o ClearLoop("L_clear", 1, Reg(11))
       \o <<I1("call", Sym("main"))>>,
     data |-> <<>>, bss |-> <<>>, syms |-> <<>>]
=============================================================================
