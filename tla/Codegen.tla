------------------------------ MODULE Codegen ------------------------------
(***************************************************************************)
(* Code generation (src/symcc/src/codegen.c): from the trees of a program  *)
(* to an object of assembly lines, data lines, bss variables and exported  *)
(* symbols.                                                                *)
(*                                                                         *)
(* Values are computed in r1, addresses in r9, the frame base is r10; the  *)
(* right operand is computed first and waits on the stack.  The generator  *)
(* keeps a label counter and two stacks of break and continue labels:      *)
(* every operator below takes the counter and returns [t |-> lines,        *)
(* n |-> counter afterwards], in the order the code calls new_label.       *)
(*                                                                         *)
(* Comments and message texts are left out.                                *)
(***************************************************************************)
EXTENDS Asm, Ast

--------------------------------------------------------------------------
(* Lines the generator uses again and again.                               *)
R1 == Reg(1)
R2 == Reg(2)
R3 == Reg(3)
R4 == Reg(4)
R9 == Reg(9)
R10 == Reg(10)
SP == Reg(sp)

AtName(n) == [k |-> "at", n |-> n]
HiName(n) == [k |-> "hi", n |-> n]
LoName(n) == [k |-> "lo", n |-> n]
FullName(n, add) == [k |-> "full", n |-> n, add |-> add]

L(n)      == "L" \o ToString(n)
Lg(n)     == "Lg" \o ToString(n)
StrName(i) == "s" \o ToString(i)

Out(t, n) == [t |-> t, n |-> n]

RECURSIVE gen_block_copy_from(_, _)
gen_block_copy_from(off, size) ==
    IF off + 4 > size THEN <<>>
    ELSE <<I3("add", R3, R1, Imm(off)), I2("load_32", R2, R3),
           I3("add", R3, R9, Imm(off)), I2("store_32", R3, R2)>>
         \o gen_block_copy_from(off + 4, size)
gen_block_copy(size) == gen_block_copy_from(0, size)

(* A constant that does not fit an immediate is put together from halves.  *)
(* One that is no word ends the compiler (err_imm).                        *)
err_imm == I0("err_imm")
gen_num_reg(r, val) ==
    LET hi == val \div ImmLimit
        lo == val % ImmLimit
    IN  IF val \notin 0..WordSize - 1 THEN <<err_imm>>
        ELSE IF hi = 0 THEN <<I2("mov", r, Imm(lo))>>
        ELSE <<I2("mov", r, Imm(hi)), I3("lsl", r, r, Imm(ImmBits))>>
             \o (IF lo = 0 THEN <<>> ELSE <<I3("or", r, r, Imm(lo))>>)

emit_addr32(name) ==
    <<I2("mov", R9, HiName(name)), I3("lsl", R9, R9, Imm(ImmBits)), I3("or", R9, R9, LoName(name))>>

IsBss(g) == ~g.extern /\ g.init = <<>>

(* ref_needs_d32: only a variable of this file without initializer is      *)
(* known to lie in the low region.                                         *)
ref_needs_d32(prog, name) ==
    ~ \E g \in Range(prog.globals) : g.name = name /\ IsBss(g)

Extend(ty, bits) ==
    <<I3("lsl", R1, R1, Imm(bits)), I3(IF ty.uns THEN "lsr" ELSE "asr", R1, R1, Imm(bits))>>

Narrow(ty) ==
    CASE ty.kind = "char"  -> Extend(ty, WordBits - ByteBits)
      [] ty.kind = "short" -> Extend(ty, WordBits - 2 * ByteBits)
      [] OTHER             -> <<>>

gen_load(ty) ==
    CASE ty.kind = "char"  -> <<I2("load_8", R1, R9)>> \o Narrow(ty)
      [] ty.kind = "short" -> <<I2("load_16", R1, R9)>> \o Narrow(ty)
      [] OTHER             -> <<I2("load_32", R1, R9)>>

gen_store(ty) ==
    <<I2(CASE ty.kind = "char" -> "store_8" [] ty.kind = "short" -> "store_16" [] OTHER -> "store_32",
         R9, R1)>>

(* Bit-fields are packed from the most significant bit of their unit.      *)
BitShift(n) == WordBits - n.bo - n.bw
BitMask(n)  == 2 ^ n.bw - 1

gen_load_bitfield(n) ==
    <<I2("load_32", R1, R9)>>
    \o (IF BitShift(n) > 0 THEN gen_num_reg(R2, BitShift(n)) \o <<I3("lsr", R1, R1, R2)>> ELSE <<>>)
    \o (IF n.bw < WordBits THEN gen_num_reg(R2, BitMask(n)) \o <<I3("and", R1, R1, R2)>> ELSE <<>>)
    \o (IF ~n.ty.uns /\ n.bw < WordBits
        THEN <<I3("lsl", R1, R1, Imm(WordBits - n.bw)), I3("asr", R1, R1, Imm(WordBits - n.bw))>>
        ELSE <<>>)

gen_store_bitfield(n) ==
    <<I2("load_32", R2, R9)>> \o gen_num_reg(R3, BitMask(n)) \o <<I3("and", R1, R1, R3)>>
    \o (IF BitShift(n) > 0
        THEN <<I3("lsl", R1, R1, Imm(BitShift(n))), I3("lsl", R3, R3, Imm(BitShift(n)))>> ELSE <<>>)
    \o gen_num_reg(R4, WordSize - 1)
    \o <<I3("xor", R3, R3, R4), I3("and", R2, R2, R3), I3("or", R2, R2, R1), I2("store_32", R9, R2)>>

(* r1 = 1 when the jump after cmp r1, r2 is taken, else 0.                 *)
gen_compare(jump, n) ==
    Out(<<I2("cmp", R1, R2), I1(jump, Sym(L(n))), I2("mov", R1, Imm(0)), I1("jmp", Sym(L(n + 1))),
          Label(L(n)), I2("mov", R1, Imm(1)), Label(L(n + 1))>>, n + 2)

TestZero(jump, name) == <<I2("mov", R2, Imm(0)), I2("cmp", R1, R2), I1(jump, Sym(name))>>

(* A bug the compilation is checked against: comparisons that are always   *)
(* signed.                                                                 *)
SignedCompareJump(kind, uns) ==
    CASE kind = "eq" -> "je" [] kind = "ne" -> "jne" [] kind = "lt" -> "jl"
      [] kind = "le" -> "jle" [] kind = "gt" -> "jg" [] kind = "ge" -> "jge"

CompareJump(kind, uns) ==
    CASE kind = "eq" -> "je"  [] kind = "ne" -> "jne"
      [] kind = "lt" -> IF uns THEN "jb" ELSE "jl"
      [] kind = "le" -> IF uns THEN "jbe" ELSE "jle"
      [] kind = "gt" -> IF uns THEN "ja" ELSE "jg"
      [] kind = "ge" -> IF uns THEN "jae" ELSE "jge"

CallRuntime(name) ==
    <<I1("push", R2), I1("push", R1), I1("call", Sym(name)), I3("add", SP, SP, Imm(8))>>

(* r1 op r2, once both operands are there.                                 *)
Operate(n, cnt) ==
    LET plain(op) == Out(<<I3(op, R1, R1, R2)>>, cnt) IN
    CASE n.kind = "add"    -> plain("add")
      [] n.kind = "mul"    -> plain("mul")
      [] n.kind = "bitand" -> plain("and")
      [] n.kind = "bitor"  -> plain("or")
      [] n.kind = "bitxor" -> plain("xor")
      [] n.kind = "lsl"    -> plain("lsl")
      [] n.kind = "lsr"    -> plain(IF n.ty.uns THEN "lsr" ELSE "asr")
      [] n.kind = "div"    -> IF n.ty.uns THEN plain("div") ELSE Out(CallRuntime("__divsi3"), cnt)
      [] n.kind = "mod"    -> IF n.ty.uns THEN plain("mod") ELSE Out(CallRuntime("__modsi3"), cnt)
      [] n.kind = "sub"    ->
           LET elem  == IF "elem" \in DOMAIN n THEN n.elem ELSE 1
               scale == CASE elem = 1 -> <<>>
                          [] elem = 2 -> <<I3("asr", R1, R1, Imm(1))>>
                          [] elem = 4 -> <<I3("asr", R1, R1, Imm(2))>>
                          [] elem = 8 -> <<I3("asr", R1, R1, Imm(3))>>
                          [] OTHER    ->
                               <<I1("push", R1)>> \o gen_num_reg(R1, elem)
                               \o <<I1("push", R1), I1("pop", R2), I1("pop", R1)>> \o CallRuntime("__divsi3")
           IN Out(<<I3("sub", R1, R1, R2)>> \o scale, cnt)
      [] OTHER -> gen_compare(CompareJump(n.kind, n.ty.uns), cnt)

--------------------------------------------------------------------------
(* Expressions.  env is what the generator's file-level variables hold:    *)
(* cur_prog, obj_d32, cur_func and the tops of the label stacks.           *)
Then(o, t) == Out(o.t \o t, o.n)
After(t, o) == Out(t \o o.t, o.n)

RetbufSize(f) == IF is_agg(f.ret) THEN Round4(f.ret.size) ELSE 0

IsBitField(e) == e.kind = "member" /\ e.bw >= 0
Offset(r, off) == IF off = 0 THEN <<I2("mov", R9, r)>> ELSE <<I3("add", R9, r, Imm(off))>>

(* The generators call one another through Gen, defined below: what to      *)
(* generate, env, the tree, the counter.                                   *)
RECURSIVE Gen(_, _, _, _)

gen_member_addr(env, e, n) ==
    CASE e.lhs.kind = "deref" -> Then(Gen("expr", env, e.lhs.lhs, n), Offset(R1, e.off))
      [] e.lhs.kind \in {"call", "callptr"} -> Then(Gen("expr", env, e.lhs, n), Offset(R1, e.off))
      [] OTHER -> Then(Gen("laddr", env, e.lhs, n), IF e.off = 0 THEN <<>> ELSE Offset(R9, e.off))

(* The address of an lvalue, in r9.                                        *)
gen_laddr(env, e, n) ==
    CASE e.kind = "var"    -> Out(<<I3("sub", R9, R10, Imm(-e.off))>>, n)
      [] e.kind = "gvar"   -> Out(IF env.d32 \/ ref_needs_d32(env.prog, e.name)
                                  THEN emit_addr32(e.name) ELSE <<I2("mov", R9, AtName(e.name))>>, n)
      [] e.kind = "deref"  -> Then(Gen("expr", env, e.lhs, n), <<I2("mov", R9, R1)>>)
      [] e.kind = "member" -> gen_member_addr(env, e, n)

(* && and ||: the jump that leaves early, the value it leaves with.        *)
ShortCircuit(env, e, n, jump, early) ==
    LET l == Gen("expr", env, e.lhs, n + 2)
        r == Gen("expr", env, e.rhs, l.n)
    IN  Out(l.t \o TestZero(jump, L(n)) \o r.t \o TestZero(jump, L(n))
            \o <<I2("mov", R1, Imm(1 - early)), I1("jmp", Sym(L(n + 1))),
                 Label(L(n)), I2("mov", R1, Imm(early)), Label(L(n + 1))>>, r.n)

gen_logand(env, e, n) == ShortCircuit(env, e, n, "je", 0)
gen_logor(env, e, n)  == ShortCircuit(env, e, n, "jne", 1)

(* Arguments, the last one first; a struct is copied onto the stack.       *)
gen_args(env, args, n) ==
    IF args = <<>> THEN Out(<<>>, n)
    ELSE LET ty == Last(args).ty
             a == Gen("expr", env, Last(args), n)
             put == IF is_agg(ty)
                    THEN <<I3("sub", SP, SP, Imm(ty.size)), I2("mov", R9, SP)>> \o gen_block_copy(ty.size)
                    ELSE <<I1("push", R1)>>
         IN After(a.t \o put, Gen("args", env, Front(args), a.n))

ArgSize(ty) == IF is_agg(ty) THEN ty.size ELSE 4

DynamicCall ==
    <<I1("counter", R2), I3("add", R2, R2, Imm(20)), I1("push", R2), I1("jmp", R1)>>

(* A bug: the arguments are left on the stack.                             *)
CallLeavingArguments(env, e, n) ==
    LET retbuf == is_agg(e.ty)
        args   == Then(Gen("args", env, e.args, n),
                       IF retbuf THEN <<I3("sub", SP, SP, Imm(e.ty.size))>> ELSE <<>>)
        called == IF e.kind = "call" THEN Then(args, <<I1("call", Sym(e.name))>>)
                  ELSE LET f == Gen("expr", env, e.lhs, args.n)
                       IN Out(args.t \o f.t \o DynamicCall, f.n)
    IN  Then(called, IF retbuf THEN <<I2("mov", R1, SP)>> ELSE <<>>)

gen_call(env, e, n) ==
    LET retbuf == is_agg(e.ty)
        total  == FoldLeft(LAMBDA acc, a : acc + ArgSize(a.ty), 0, e.args)
                  + (IF retbuf THEN e.ty.size ELSE 0)
        args   == Then(Gen("args", env, e.args, n),
                       IF retbuf THEN <<I3("sub", SP, SP, Imm(e.ty.size))>> ELSE <<>>)
        called == IF e.kind = "call" THEN Then(args, <<I1("call", Sym(e.name))>>)
                  ELSE LET f == Gen("expr", env, e.lhs, args.n)
                       IN Out(args.t \o f.t \o DynamicCall, f.n)
    IN  Then(called, (IF retbuf THEN <<I2("mov", R1, SP)>> ELSE <<>>)
                     \o (IF total > 0 THEN <<I3("add", SP, SP, Imm(total))>> ELSE <<>>))

gen_branch_zero(env, c, n, name) == Then(Gen("expr", env, c, n), TestZero("je", name))

gen_cond(env, e, n) ==
    LET c == gen_branch_zero(env, e.lhs, n + 2, L(n))
        a == Gen("expr", env, e.rhs, c.n)
        b == Gen("expr", env, e.els, a.n)
    IN  Out(c.t \o a.t \o <<I1("jmp", Sym(L(n + 1))), Label(L(n))>> \o b.t \o <<Label(L(n + 1))>>, b.n)

(* The address is computed, waits on the stack and takes the value.        *)
gen_assign(env, e, n) ==
    LET a == Gen("laddr", env, e.lhs, n)
        v == Gen("expr", env, e.rhs, a.n)
    IN  Out(a.t \o <<I1("push", R9)>> \o v.t \o <<I1("pop", R9)>>
            \o (CASE is_agg(e.ty)        -> gen_block_copy(e.ty.size)
                  [] IsBitField(e.lhs)   -> gen_store_bitfield(e.lhs)
                  [] OTHER               -> gen_store(e.ty)), v.n)

gen_vastart(env, e, n) ==
    Then(Gen("laddr", env, e.lhs, n),
         <<I1("push", R9), I2("mov", R9, R10),
           I3("add", R9, R9, Imm(8 + 4 * Len(env.func.params) + RetbufSize(env.func))),
           I1("pop", R2), I2("store_32", R2, R9)>>)

(* Both operands, the right one first, then the operation.                 *)
gen_binary(env, e, n) ==
    LET r  == Gen("expr", env, e.rhs, n)
        l  == Gen("expr", env, e.lhs, r.n)
        op == Operate(e, l.n)
    IN  Out(r.t \o <<I1("push", R1)>> \o l.t \o <<I1("pop", R2)>> \o op.t, op.n)

(* The value of an lvalue in r9: its address for an aggregate.             *)
LoadValue(e) ==
    CASE IsBitField(e) -> gen_load_bitfield(e)
      [] Decays(e.ty)  -> <<I2("mov", R1, R9)>>
      [] OTHER         -> gen_load(e.ty)

gen_expr(env, e, n) ==
    CASE e.kind = "num"     -> Out(gen_num_reg(R1, e.v), n)
      [] e.kind \in {"var", "gvar", "member"} -> Then(Gen("laddr", env, e, n), LoadValue(e))
      [] e.kind = "func"    -> Out(emit_addr32(e.name) \o <<I2("mov", R1, R9)>>, n)
      [] e.kind = "str"     -> Out(emit_addr32(StrName(e.i)) \o <<I2("mov", R1, R9)>>, n)
      [] e.kind = "addr"    -> IF e.lhs.kind = "str" THEN Gen("expr", env, e.lhs, n)
                               ELSE Then(Gen("laddr", env, e.lhs, n), <<I2("mov", R1, R9)>>)
      [] e.kind = "deref"   -> Then(Gen("expr", env, e.lhs, n),
                                    IF Decays(e.ty) THEN <<>> ELSE <<I2("mov", R9, R1)>> \o gen_load(e.ty))
      [] e.kind = "vastart" -> gen_vastart(env, e, n)
      [] e.kind = "cast"    -> Then(Gen("expr", env, e.lhs, n), Narrow(e.ty))
      [] e.kind = "bitnot"  -> Then(Gen("expr", env, e.lhs, n),
                                    gen_num_reg(R2, WordSize - 1) \o <<I3("xor", R1, R1, R2)>>)
      [] e.kind = "neg"     -> Then(Gen("expr", env, e.lhs, n), <<I2("neg", R1, R1)>>)
      [] e.kind = "not"     -> LET v == Gen("expr", env, e.lhs, n)
                                   c == gen_compare("je", v.n)
                               IN Out(v.t \o <<I2("mov", R2, Imm(0))>> \o c.t, c.n)
      [] e.kind = "assign"  -> gen_assign(env, e, n)
      [] e.kind \in {"call", "callptr"} -> gen_call(env, e, n)
      [] e.kind = "logand"  -> gen_logand(env, e, n)
      [] e.kind = "logor"   -> gen_logor(env, e, n)
      [] e.kind = "cond"    -> gen_cond(env, e, n)
      [] e.kind = "comma"   -> LET l == Gen("expr", env, e.lhs, n)
                               IN After(l.t, Gen("expr", env, e.rhs, l.n))
      [] OTHER              -> gen_binary(env, e, n)

--------------------------------------------------------------------------
(* Statements.                                                             *)
gen_epilogue == <<I2("mov", SP, R10), I1("pop", R10), I0("ret")>>
Poll(n) == [k |-> "label", n |-> "__sp_poll_L" \o ToString(n), poll |-> TRUE]
Jmp(name) == I1("jmp", Sym(name))

Inside(env, brk, cont) == [env EXCEPT !.brk = brk, !.cont = cont]

gen_stmts(env, b, n) ==
    IF b = <<>> THEN Out(<<>>, n)
    ELSE LET s == Gen("stmt", env, Head(b), n) IN After(s.t, Gen("stmts", env, Tail(b), s.n))

gen_return(env, s, n) ==
    Then(IF s.kind = "returnvoid" THEN Out(<<>>, n)
         ELSE Then(Gen("expr", env, s.e, n),
                   IF is_agg(s.e.ty) THEN <<I3("add", R9, R10, Imm(8))>> \o gen_block_copy(s.e.ty.size)
                   ELSE <<>>),
         gen_epilogue)

gen_if(env, s, n) ==
    LET c == gen_branch_zero(env, s.c, n + 2, L(n))
        a == Gen("stmts", env, s.then, c.n)
        b == Gen("stmts", env, s.els, a.n)
    IN  IF s.els = <<>> THEN Out(c.t \o a.t \o <<Label(L(n))>>, a.n)
        ELSE Out(c.t \o a.t \o <<Jmp(L(n + 1)), Label(L(n))>> \o b.t \o <<Label(L(n + 1))>>, b.n)

gen_while(env, s, n) ==
    LET inner == Inside(env, L(n + 1), L(n))
        c == gen_branch_zero(inner, s.c, n + 3, L(n + 1))
        b == Gen("stmts", inner, s.body, c.n)
    IN  Out(<<Label(L(n)), Poll(n + 2)>> \o c.t \o b.t \o <<Jmp(L(n)), Label(L(n + 1))>>, b.n)

gen_for(env, s, n) ==
    LET i == Gen("stmts", env, s.init, n + 3)
        c == IF s.c = <<>> THEN Out(<<>>, i.n + 1)
             ELSE gen_branch_zero(env, s.c[1], i.n + 1, L(n + 2))
        b == Gen("stmts", Inside(env, L(n + 2), L(n + 1)), s.body, c.n)
        u == IF s.inc = <<>> THEN Out(<<>>, b.n) ELSE Gen("expr", env, s.inc[1], b.n)
    IN  Out(i.t \o <<Label(L(n)), Poll(i.n)>> \o c.t \o b.t \o <<Label(L(n + 1))>>
            \o u.t \o <<Jmp(L(n)), Label(L(n + 2))>>, u.n)

gen_dowhile(env, s, n) ==
    LET inner == Inside(env, L(n + 2), L(n + 1))
        b == Gen("stmts", inner, s.body, n + 4)
        c == gen_branch_zero(inner, s.c, b.n, L(n + 2))
    IN  Out(<<Label(L(n)), Poll(n + 3)>> \o b.t \o <<Label(L(n + 1))>> \o c.t
            \o <<Jmp(L(n)), Label(L(n + 2))>>, c.n)

(* switch: the value goes to its slot, the statements before the first     *)
(* label are run, a chain of comparisons picks the label.                  *)
Leading(b) ==
    LET at == {i \in 1..Len(b) : b[i].kind \in {"case", "default"}}
    IN  IF at = {} THEN Len(b) ELSE Min(at) - 1

gen_switch(env, s, n) ==
    LET k     == Leading(s.body)
        slot  == I3("sub", R9, R10, Imm(s.slot))
        v     == Gen("expr", env, s.e, n + 1)
        pre   == Gen("stmts", env, SubSeq(s.body, 1, k), v.n)
        tests == FlattenSeq([i \in 1..Len(s.cases) |->
                    IF s.cases[i].kind = "default" THEN <<>>
                    ELSE <<slot, I2("load_32", R1, R9)>> \o gen_num_reg(R2, s.cases[i].v)
                         \o <<I2("cmp", R1, R2), I1("je", Sym(Lg(s.cases[i].num)))>>])
        defs  == SelectSeq(s.cases, LAMBDA c : c.kind = "default")
        rest  == Gen("stmts", [env EXCEPT !.brk = L(n)], SubSeq(s.body, k + 1, Len(s.body)), pre.n)
    IN  Out(v.t \o <<slot, I2("store_32", R9, R1)>> \o pre.t \o tests
            \o <<Jmp(IF defs = <<>> THEN L(n) ELSE Lg(Last(defs).num))>>
            \o rest.t \o <<Label(L(n))>>, rest.n)

gen_stmt(env, s, n) ==
    CASE s.kind = "expr"     -> Gen("expr", env, s.e, n)
      [] s.kind = "return"   -> gen_return(env, s, n)
      [] s.kind = "returnvoid" -> gen_return(env, s, n)
      [] s.kind = "if"       -> gen_if(env, s, n)
      [] s.kind = "while"    -> gen_while(env, s, n)
      [] s.kind = "for"      -> gen_for(env, s, n)
      [] s.kind = "dowhile"  -> gen_dowhile(env, s, n)
      [] s.kind = "switch"   -> gen_switch(env, s, n)
      [] s.kind \in {"case", "default"} -> Out(<<Label(Lg(s.num))>>, n)
      [] s.kind = "break"    -> Out(<<Jmp(env.brk)>>, n)
      [] s.kind = "continue" -> Out(<<Jmp(env.cont)>>, n)
      [] s.kind = "goto"     -> Out(<<Poll(n), Jmp(Lg(s.num))>>, n + 1)
      [] s.kind = "label"    -> After(<<Label(Lg(s.num))>>, Gen("stmts", env, s.body, n))
      [] s.kind = "decl"     -> Out(<<>>, n)

Gen(what, env, x, n) ==
    CASE what = "expr"  -> gen_expr(env, x, n)
      [] what = "laddr" -> gen_laddr(env, x, n)
      [] what = "args"  -> gen_args(env, x, n)
      [] what = "stmt"  -> gen_stmt(env, x, n)
      [] what = "stmts" -> gen_stmts(env, x, n)

--------------------------------------------------------------------------
(* Functions: name, params (their types), ret, frame, static, body.        *)
RECURSIVE CopyParams(_, _, _, _)
CopyParams(tys, k, arg_off, slot_off) ==
    IF k > Len(tys) THEN <<>>
    ELSE LET slot == slot_off + Round4(tys[k].size)
         IN  (IF is_agg(tys[k])
              THEN <<I3("add", R1, R10, Imm(arg_off)), I3("sub", R9, R10, Imm(slot))>>
                   \o gen_block_copy(tys[k].size)
              ELSE <<I3("add", R9, R10, Imm(arg_off)), I2("load_32", R1, R9),
                     I3("sub", R9, R10, Imm(slot))>> \o gen_store(tys[k]))
             \o CopyParams(tys, k + 1, arg_off + Round4(tys[k].size), slot)

gen_func(prog, d32, f, n) ==
    LET env == [prog |-> prog, d32 |-> d32, func |-> f, brk |-> "", cont |-> ""]
    IN  After(<<Label(f.name), I1("push", R10), I2("mov", R10, SP)>>
              \o (IF f.frame > 0 THEN <<I3("sub", SP, SP, Imm(f.frame))>> ELSE <<>>)
              \o CopyParams(f.params, 1, 8 + RetbufSize(f), 0) \o <<Poll(n)>>,
              Then(Gen("stmts", env, f.body, n + 1), gen_epilogue))

RECURSIVE gen_funcs(_, _, _, _)
gen_funcs(prog, d32, fs, n) ==
    IF fs = <<>> THEN <<>>
    ELSE LET f == gen_func(prog, d32, Head(fs), n) IN f.t \o gen_funcs(prog, d32, Tail(fs), f.n)

(* The bytes of a global as words, then the bytes past the last whole      *)
(* word.  A word may be the full address of a string or of a name.         *)
DataWord(g, off) ==
    LET str == SelectSeq(g.strs, LAMBDA r : r.at = off)
        ref == SelectSeq(g.relocs, LAMBDA r : r.at = off)
    IN  CASE str # <<>> -> FullName(StrName(str[1].i), 0)
          [] ref # <<>> -> FullName(ref[1].name, ref[1].add)
          [] OTHER -> Imm(((g.init[off + 1] * ByteSize + g.init[off + 2]) * ByteSize
                           + g.init[off + 3]) * ByteSize + g.init[off + 4])

DataLines(g) ==
    LET n == Len(g.init) IN
    IF g.extern \/ IsBss(g) THEN <<>>
    ELSE <<Label(g.name)>> \o [i \in 1..n \div 4 |-> Datum(4, DataWord(g, 4 * (i - 1)))]
         \o [i \in 1..n % 4 |-> Datum(1, Imm(g.init[4 * (n \div 4) + i]))]

StringLines(strs) ==
    FlattenSeq([i \in 1..Len(strs) |-> <<Label(StrName(i - 1)), Chars(strs[i]), Datum(1, Imm(0))>>])

emit_data(prog) == FlattenSeq([i \in 1..Len(prog.globals) |-> DataLines(prog.globals[i])])
                   \o StringLines(prog.strs)

(* main first, declarations without a body left out.  obj.c prepends to    *)
(* its lists of symbols and of bss variables.                              *)
FuncOrder(fs) ==
    SelectSeq(fs, LAMBDA f : f.name = "main" /\ ~f.decl)
    \o SelectSeq(fs, LAMBDA f : f.name # "main" /\ ~f.decl)

Defined(prog)  == SelectSeq(prog.globals, LAMBDA g : ~g.extern)
Exported(seq)  == SelectSeq(seq, LAMBDA x : ~x.static)

codegen(prog, d32) ==
    LET fs == FuncOrder(prog.funcs)
        gs == Defined(prog)
        zs == SelectSeq(gs, IsBss)
        fsyms == [i \in 1..Len(Exported(fs)) |-> [name |-> Exported(fs)[i].name, data |-> FALSE]]
        gsyms == [i \in 1..Len(Exported(gs)) |-> [name |-> Exported(gs)[i].name, data |-> TRUE]]
    IN  [text |-> gen_funcs(prog, d32, fs, 0),
         data |-> emit_data(prog),
         bss  |-> Reverse([i \in 1..Len(zs) |-> [name |-> zs[i].name, size |-> zs[i].ty.size]]),
         syms |-> Reverse(fsyms \o gsyms)]
=============================================================================
