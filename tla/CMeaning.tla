------------------------------ MODULE CMeaning -----------------------------
(***************************************************************************)
(* What a C program means: the reference the compiled code is held         *)
(* against.  It is written from the language (C89), not from the compiler. *)
(*                                                                         *)
(* Memory is a set of objects, each a sequence of cells, one for every     *)
(* scalar the object is made of; a pointer is an object and a cell, so     *)
(* there are no sizes, no alignment and no byte order here.  Signed        *)
(* arithmetic wraps.  The programs leave nothing to the order in which     *)
(* operands are evaluated.                                                 *)
(*                                                                         *)
(* m is the whole state: objects, the names in scope, the globals' names,  *)
(* functions, structs, a counter for fresh objects, the object that holds  *)
(* the variable arguments of the current call.                             *)
(***************************************************************************)
EXTENDS CSource

SInt  == T("int")
UInt == T("uint")
Null == [o |-> "", c |-> 0]

Unsigned(t) == t.k \in {"uint", "uchar", "ushort"} \/ (t.k = "bits" /\ t.uns)
BitsOf(t) ==
    CASE t.k \in {"char", "uchar"}   -> ByteBits
      [] t.k \in {"short", "ushort"} -> 2 * ByteBits
      [] t.k = "bits"                -> t.w
      [] OTHER                       -> WordBits

Wrap(v, t) == IF Unsigned(t) THEN v % 2 ^ BitsOf(t) ELSE SignedIn(v % 2 ^ BitsOf(t), BitsOf(t))
Promoted(t) == IF t.k = "uint" THEN UInt ELSE SInt
IsPtr(t) == t.k = "ptr"

(* A value of type `from' as one of type t.                                *)
As(v, from, t) ==
    CASE IsPtr(t)        -> IF IsPtr(from) THEN v ELSE Null
      [] t.k = "struct"  -> v
      [] t.k = "void"    -> 0
      [] OTHER           -> Wrap(v, t)
IsTrue(v, t) == IF IsPtr(t) THEN v # Null ELSE v # 0

RECURSIVE Cells(_, _)
Cells(m, t) ==
    CASE t.k = "array"  -> t.n * Cells(m, t.of)
      [] t.k = "struct" -> FoldLeft(LAMBDA acc, x : acc + Cells(m, x.t), 0, m.structs[t.name])
      [] OTHER          -> 1
SizeOf(t) == CASE t.k \in {"char", "uchar"} -> 1 [] t.k \in {"short", "ushort"} -> 2
               [] t.k = "array" -> t.n * (IF t.of.k \in {"char", "uchar"} THEN 1 ELSE 4) [] OTHER -> 4

Val(v, t, m)  == [v |-> v, t |-> t, m |-> m]
Place2(at, t, m) == [at |-> at, t |-> t, m |-> m]
Cell(o, c) == [o |-> o, c |-> c]

(* Reading and writing an object at a place.                               *)
Fetch(l) ==
    LET n == Cells(l.m, l.t)
        obj == l.m.mem[l.at.o]
    IN  CASE l.t.k = "array"  -> Val(l.at, Ptr(l.t.of), l.m)
          [] l.t.k = "func"   -> Val(l.at, Ptr(l.t), l.m)
          [] l.t.k = "struct" -> Val(SubSeq(obj, l.at.c + 1, l.at.c + n), l.t, l.m)
          [] OTHER            -> Val(obj[l.at.c + 1], l.t, l.m)
Put(m, at, t, v) ==
    LET n == Cells(m, t) IN
    [m EXCEPT !.mem[at.o] = [i \in DOMAIN @ |->
        IF i > at.c /\ i <= at.c + n THEN (IF t.k = "struct" THEN v[i - at.c] ELSE v) ELSE @[i]]]

MemberPlace(l, name) ==
    LET ms == l.m.structs[l.t.name]
        k == CHOOSE i \in DOMAIN ms : ms[i].name = name
        off == FoldLeft(LAMBDA acc, x : acc + Cells(l.m, x.t), 0, SubSeq(ms, 1, k - 1))
    IN  Place2(Cell(l.at.o, l.at.c + off), ms[k].t, l.m)

(* Operators.                                                              *)
Arith(op, x, y, t) ==
    CASE op = "+" -> Wrap(x + y, t) [] op = "-" -> Wrap(x - y, t) [] op = "*" -> Wrap(Times(x % WordSize, y % WordSize), t)
      [] op = "/" -> Wrap(CDiv(x, y), t) [] op = "%" -> Wrap(CMod(x, y), t)
      [] op = "&" -> Wrap((x % WordSize) & (y % WordSize), t)
      [] op = "|" -> Wrap((x % WordSize) | (y % WordSize), t)
      [] op = "^" -> Wrap((x % WordSize) ^^ (y % WordSize), t)
Relate(op, x, y) ==
    CASE op = "<" -> x < y [] op = "<=" -> x <= y [] op = ">" -> x > y [] op = ">=" -> x >= y
      [] op = "==" -> x = y [] op = "!=" -> x # y

Operator(op, a, b, m) ==
    LET t == IF a.t.k = "uint" \/ b.t.k = "uint" THEN UInt ELSE SInt
        x == Wrap(a.v, t)
        y == Wrap(b.v, t)
        moved(p, n) == Val(Cell(p.v.o, p.v.c + n * Cells(m, p.t.of)), p.t, m)
    IN  CASE IsPtr(a.t) /\ op \in {"==", "!="} -> Val(Truth((a.v = As(b.v, b.t, a.t)) = (op = "==")), SInt, m)
          [] IsPtr(a.t) /\ IsPtr(b.t) ->
               IF op = "-" THEN Val((a.v.c - b.v.c) \div Cells(m, a.t.of), SInt, m)
               ELSE Val(Truth(Relate(op, a.v.c, b.v.c)), SInt, m)
          [] IsPtr(a.t) -> moved(a, IF op = "+" THEN b.v ELSE -b.v)
          [] IsPtr(b.t) -> moved(b, a.v)
          [] op = "<<"  -> Val(Wrap(ShiftUp(a.v % WordSize, b.v), Promoted(a.t)), Promoted(a.t), m)
          [] op = ">>"  -> Val(Wrap(a.v \div 2 ^ b.v, Promoted(a.t)), Promoted(a.t), m)
          [] op \in {"<", "<=", ">", ">=", "==", "!="} -> Val(Truth(Relate(op, x, y)), SInt, m)
          [] OTHER      -> Val(Arith(op, x, y, t), t, m)

StepOp(op) == IF op = "++" THEN "+" ELSE "-"
CompoundOp == [o \in {"+=", "-=", "*=", "/=", "%=", "&=", "|=", "^=", "<<=", ">>="} |->
    CASE o = "+=" -> "+" [] o = "-=" -> "-" [] o = "*=" -> "*" [] o = "/=" -> "/" [] o = "%=" -> "%"
      [] o = "&=" -> "&" [] o = "|=" -> "|" [] o = "^=" -> "^" [] o = "<<=" -> "<<" [] o = ">>=" -> ">>"]

--------------------------------------------------------------------------
(* Expressions.                                                            *)
(* What is meant by a part of a program depends on all kinds of others:    *)
(* Means, defined below, takes the kind of meaning, the parts and the state. *)
RECURSIVE Means(_, _, _)

PlaceOf(e, m) ==
    LET a == Means("Eval", <<e.a>>, m)
        i == Means("Eval", <<e.i>>, a.m)
        s == Means("PlaceOf", <<e.a>>, m)
    IN  CASE e.e = "name"  -> Place2(m.env[e.name].at, m.env[e.name].t, m)
          [] e.e = "un"    -> Place2(a.v, a.t.of, a.m)
          [] e.e = "idx"   -> Place2(Cell(a.v.o, a.v.c + i.v * Cells(m, a.t.of)), a.t.of, i.m)
          [] e.e = "arrow" -> MemberPlace(Place2(a.v, a.t.of, a.m), e.m)
          [] e.e = "dot"   -> MemberPlace(s, e.m)

(* Assigning v of type t to place l; the value is the one stored.          *)
Assign(l, v, t, m) ==
    LET w == As(v, t, l.t) IN Val(w, l.t, Put(m, l.at, l.t, w))

NewObject(m, o, cells) == [m EXCEPT !.mem = @ @@ (o :> cells)]

(* ++ and --: the old value, and the place with the new one in it.         *)
AssignVal(l, r) == Assign(l, r.v, r.t, r.m)
Incremented(op, l)  == AssignVal(l, Operator(StepOp(op), Fetch(l), Val(1, SInt, l.m), l.m))
OldValue(op, l)    == [Fetch(l) EXCEPT !.m = Incremented(op, l).m]

EvalUnary(e, m) ==
    LET a == Means("Eval", <<e.a>>, m)
        l == Means("PlaceOf", <<e.a>>, m)
    IN  CASE e.op = "-" -> Val(Wrap(-a.v, Promoted(a.t)), Promoted(a.t), a.m)
          [] e.op = "~" -> Val(Wrap(-a.v - 1, Promoted(a.t)), Promoted(a.t), a.m)
          [] e.op = "!" -> Val(Truth(~IsTrue(a.v, a.t)), SInt, a.m)
          [] e.op = "*" -> Fetch(Means("PlaceOf", <<e>>, m))
          [] e.op = "&" -> Val(l.at, Ptr(l.t), l.m)
          [] e.op \in {"++", "--"} -> Incremented(e.op, l)

EvalAssign(e, m) ==
    LET l == Means("PlaceOf", <<e.a>>, m)
        b == Means("Eval", <<e.b>>, l.m)
        new == IF e.op = "=" THEN b ELSE Operator(CompoundOp[e.op], Fetch(l), b, b.m)
    IN  AssignVal(l, new)

EvalBinary(e, m) ==
    LET a == Means("Eval", <<e.a>>, m)
        b == Means("Eval", <<e.b>>, a.m)
        ta == IsTrue(a.v, a.t)
    IN  CASE e.op = "&&" /\ ~ta -> Val(0, SInt, a.m)
          [] e.op = "||" /\ ta  -> Val(1, SInt, a.m)
          [] e.op \in {"&&", "||"} -> Val(Truth(IsTrue(b.v, b.t)), SInt, b.m)
          [] OTHER -> Operator(e.op, a, b, b.m)

EvalCall(e, m) ==
    LET f == Means("Eval", <<e.f>>, m)
        args == Means("EvalArgs", <<e.args, <<>>>>, f.m)
    IN  IF e.f = V("__builtin_va_start")
        THEN LET l == Means("PlaceOf", <<e.args[1]>>, m) IN Assign(l, Cell(m.va, 0), Ptr(SInt), m)
        ELSE Means("Invoke", <<m.funcs[f.v.o], args.v>>, args.m)

EvalArgs(args, done, m) ==
    IF args = <<>> THEN Val(done, SInt, m)
    ELSE LET a == Means("Eval", <<args[1]>>, m) IN Means("EvalArgs", <<Tail(args), Append(done, a)>>, a.m)

Eval(e, m) ==
    LET a == Means("Eval", <<e.a>>, m)
        c == Means("Eval", <<e.c>>, m)
        l == Means("PlaceOf", <<e.a>>, m)
        s == "str" \o ToString(e.s)
    IN  CASE e.e = "lit"  -> Val(e.v, IF e.u THEN UInt ELSE SInt, m)
          [] e.e = "name" -> Fetch(Means("PlaceOf", <<e>>, m))
          [] e.e = "str"  -> Val(Cell(s, 0), Ptr(T("char")), NewObject(m, s, Append(e.s, 0)))
          [] e.e = "un"   -> EvalUnary(e, m)
          [] e.e = "bin"  -> EvalBinary(e, m)
          [] e.e = "asg"  -> EvalAssign(e, m)
          [] e.e = "post" -> OldValue(e.op, l)
          [] e.e = "cond" -> Means("Eval", <<IF IsTrue(c.v, c.t) THEN e.a ELSE e.b>>, c.m)
          [] e.e = "comma" -> Means("Eval", <<e.b>>, a.m)
          [] e.e = "cast" -> Val(As(a.v, a.t, e.t), e.t, a.m)
          [] e.e = "sizeof" -> Val(SizeOf(e.t), UInt, m)
          [] e.e = "call" -> EvalCall(e, m)
          [] e.e = "dot" /\ e.a.e = "call" ->
               Fetch(MemberPlace(Place2(Cell("tmp", 0), a.t, NewObject([a.m EXCEPT !.mem = ("tmp" :> a.v) @@ @], "tmp", a.v)), e.m))
          [] OTHER        -> Fetch(Means("PlaceOf", <<e>>, m))

--------------------------------------------------------------------------
(* Initializers: the cells of an object of type t.                         *)
InitialList(ts, es, m) ==
    IF ts = <<>> THEN Val(<<>>, SInt, m)
    ELSE LET c == Means("Initial", <<Head(ts), IF es = <<>> THEN <<>> ELSE <<Head(es)>>>>, m)
             r == Means("InitialList", <<Tail(ts), IF es = <<>> THEN <<>> ELSE Tail(es)>>, c.m)
         IN  Val(c.v \o r.v, SInt, r.m)

Initial(t, init, m) ==
    LET e == Means("Eval", <<init[1]>>, m)
        es == IF init = <<>> THEN <<>> ELSE init[1].of
        str == init[1].s
    IN  CASE init # <<>> /\ t.k = "array" /\ init[1].e = "str" ->
               Val([i \in 1..t.n |-> IF i <= Len(str) THEN str[i] ELSE 0], t, m)
          [] t.k = "array" -> Means("InitialList", <<[i \in 1..t.n |-> t.of], es>>, m)
          [] t.k = "struct" /\ (init = <<>> \/ init[1].e = "list") ->
               Means("InitialList", <<[i \in DOMAIN m.structs[t.name] |-> m.structs[t.name][i].t], es>>, m)
          [] t.k = "struct" -> Val(e.v, t, e.m)
          [] init = <<>>    -> Val(<<IF IsPtr(t) THEN Null ELSE 0>>, t, m)
          [] OTHER          -> Val(<<As(e.v, e.t, t)>>, t, e.m)

Bound(m, name, o, t) == [m EXCEPT !.env = (name :> [at |-> Cell(o, 0), t |-> t]) @@ @]

(* A local is a new object; a static one is made once.                     *)
Declare(d, m) ==
    LET o == d.name \o (IF d.static THEN "@static" ELSE ToString(m.fresh))
        c == Means("Initial", <<d.t, d.init>>, [m EXCEPT !.fresh = @ + 1])
    IN  Bound(IF o \in DOMAIN m.mem THEN m ELSE NewObject(c.m, o, c.v), d.name, o, d.t)

--------------------------------------------------------------------------
(* Statements: sig says how one ends.                                      *)
Ends(sig, v, m) == [sig |-> sig, v |-> v, m |-> m]
Scoped(r, m) == [r EXCEPT !.m.env = m.env]

(* The statements of b from the k-th on.                                   *)
Run(b, k, m) ==
    IF k > Len(b) THEN Ends("next", 0, m)
    ELSE LET r == Means("Exec", <<b[k]>>, m) IN IF r.sig = "next" THEN Means("Run", <<b, k + 1>>, r.m) ELSE r

Loop(c, loop, m) ==
    LET b == loop[1]
        u == loop[2]
        t == Means("Eval", <<c>>, m)
        r == Scoped(Means("Run", <<b, 1>>, t.m), t.m)
        n == IF u = <<>> THEN r.m ELSE Means("Eval", <<u[1]>>, r.m).m
    IN  CASE ~IsTrue(t.v, t.t)  -> Ends("next", 0, t.m)
          [] r.sig = "break"    -> Ends("next", 0, r.m)
          [] r.sig \in {"next", "continue"} -> Means("Loop", <<c, loop>>, n)
          [] OTHER              -> r

SwitchTo(b, v) ==
    LET hit == {i \in DOMAIN b : b[i].s = "case" /\ b[i].v = v}
        def == {i \in DOMAIN b : b[i].s = "default"}
    IN  CASE hit # {} -> CHOOSE i \in hit : TRUE
          [] def # {} -> CHOOSE i \in def : TRUE
          [] OTHER    -> Len(b) + 1

Exec(s, m) ==
    LET c == Means("Eval", <<s.c>>, m)
        e == Means("Eval", <<s.e>>, m)
        first == Scoped(Means("Run", <<s.b, 1>>, m), m)
        i == Means("Exec", <<s.i>>, m)
        sw == Scoped(Means("Run", <<s.b, SwitchTo(s.b, c.v)>>, c.m), m)
    IN  CASE s.s = "expr"   -> Ends("next", 0, e.m)
          [] s.s = "decl"   -> Ends("next", 0, Declare(s, m))
          [] s.s = "if"     -> Scoped(Means("Run", <<IF IsTrue(c.v, c.t) THEN s.a ELSE s.b, 1>>, c.m), m)
          [] s.s = "while"  -> Means("Loop", <<s.c, <<s.b, <<>>>>>>, m)
          [] s.s = "dowhile" -> IF first.sig \in {"next", "continue"} THEN Means("Loop", <<s.c, <<s.b, <<>>>>>>, first.m)
                                ELSE IF first.sig = "break" THEN Ends("next", 0, first.m) ELSE first
          [] s.s = "for"    -> Scoped(Means("Loop", <<s.c, <<s.b, <<s.u>>>>>>, i.m), m)
          [] s.s = "switch" -> IF sw.sig = "break" THEN Ends("next", 0, sw.m) ELSE sw
          [] s.s = "block"  -> Scoped(Means("Run", <<s.b, 1>>, m), m)
          [] s.s = "return" -> [sig |-> "return", v |-> e.v, m |-> e.m, t |-> e.t]
          [] s.s = "goto"   -> Ends("goto", s.l, m)
          [] s.s \in {"break", "continue"} -> Ends(s.s, 0, m)
          [] OTHER          -> Ends("next", 0, m)

(* A function body; labels are at its top level only.                      *)
RunBody(b, k, m) ==
    LET r == Means("Run", <<b, k>>, m)
        to == CHOOSE i \in DOMAIN b : b[i].s = "label" /\ b[i].l = r.v
    IN  IF r.sig = "goto" THEN Means("RunBody", <<b, to>>, r.m) ELSE r

RECURSIVE BindParams(_, _, _, _)
BindParams(ps, args, k, m) ==
    IF k > Len(ps) THEN m
    ELSE LET o == ps[k].name \o ToString(m.fresh)
             v == As(args[k].v, args[k].t, ps[k].t)
         IN  BindParams(ps, args, k + 1,
                 Bound(NewObject([m EXCEPT !.fresh = @ + 1], o, IF ps[k].t.k = "struct" THEN v ELSE <<v>>),
                       ps[k].name, o, ps[k].t))

Invoke(f, args, m) ==
    LET va == "va" \o ToString(m.fresh)
        extra == [i \in 1..Len(args) - Len(f.t.ps) |-> args[Len(f.t.ps) + i].v]
        in == BindParams(f.t.ps, args, 1,
                  NewObject([m EXCEPT !.env = m.genv, !.va = va, !.fresh = @ + 1], va, extra))
        r == Means("RunBody", <<f.body, 1>>, in)
        out == [r.m EXCEPT !.env = m.env, !.va = m.va]
    IN  IF r.sig = "return" THEN Val(As(r.v, r.t, f.t.of), f.t.of, out) ELSE Val(0, SInt, out)

Means(what, x, m) ==
    CASE what = "Eval"    -> Eval(x[1], m)
      [] what = "PlaceOf" -> PlaceOf(x[1], m)
      [] what = "EvalArgs" -> EvalArgs(x[1], x[2], m)
      [] what = "Exec"    -> Exec(x[1], m)
      [] what = "Run"     -> Run(x[1], x[2], m)
      [] what = "Loop"    -> Loop(x[1], x[2], m)
      [] what = "Invoke"  -> Invoke(x[1], x[2], m)
      [] what = "RunBody" -> RunBody(x[1], x[2], m)
      [] what = "Initial" -> Initial(x[1], x[2], m)
      [] what = "InitialList" -> InitialList(x[1], x[2], m)

--------------------------------------------------------------------------
(* Programs: all files together; the static names of different files       *)
(* differ in the programs that are tried.                                  *)
RECURSIVE SetUp(_, _)
SetUp(items, m) ==
    IF items = <<>> THEN m
    ELSE LET d == Head(items)
             Made(c) == Bound(NewObject(c.m, d.name, c.v), d.name, d.name, d.t)
             now == CASE d.d = "struct" -> [m EXCEPT !.structs = @ @@ (d.name :> d.ms)]
                      [] d.d = "func"   -> [Bound(m, d.name, d.name, d.t) EXCEPT !.funcs = @ @@ (d.name :> d)]
                      [] d.d = "global" /\ d.words # <<"extern">> ->
                             Made(Means("Initial", <<d.t, d.init>>, m))
                      [] OTHER          -> m
         IN  SetUp(Tail(items), now)

(* Functions first, so that initializers may name them.                    *)
Start0 == [mem |-> <<>>, env |-> <<>>, genv |-> <<>>, funcs |-> <<>>, structs |-> <<>>, fresh |-> 0, va |-> ""]
Meaning(items) ==
    LET fs == SelectSeq(items, LAMBDA d : d.d \in {"func", "struct"})
        gs == SelectSeq(items, LAMBDA d : d.d = "global")
        Main(m) == Means("Invoke", <<m.funcs["main"], <<>>>>, [m EXCEPT !.genv = m.env])
    IN  Main(SetUp(fs \o gs, Start0)).v % WordSize
=============================================================================
