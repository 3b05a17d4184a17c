------------------------------- MODULE Parse -------------------------------
(***************************************************************************)
(* The parser (src/symcc/src/parse.c), second half: initializers,          *)
(* statements, functions and the top level.  Statements are sequences of   *)
(* trees, the code's chains through next.  The state record and the        *)
(* convention for errors are those of ParseExpr.                           *)
(***************************************************************************)
EXTENDS ParseExpr

(* Calls go through Parsed, defined at the end, as they go through Rule in *)
(* ParseExpr.                                                              *)
RECURSIVE Parsed(_, _, _)

Terminates(s) == OneOf(s, {",", ";", "}"})

--------------------------------------------------------------------------
(* Local initializers: assignments to the elements of the target.  The     *)
(* code links the parts of an aggregate with cur = cur->next = part, which *)
(* drops all but the first assignment of every part except the last.       *)
Assigned(target, e) == ExprStmt(new_assign(target, e))
Chain(parts) ==
    IF parts = <<>> THEN <<>>
    ELSE [i \in 1..Len(parts) - 1 |-> Head(parts[i])] \o Last(parts)

arr_elem(s, target, i) == Index(s, target, new_num(i))
ElemAssign(s, target, i, v) == <<Assigned(arr_elem(s, target, i), new_num(v))>>


InitElems(s, ty, target, i, parts) ==
    LET t == IF i > 0 THEN skip(s, ",") ELSE s
        e == Parsed("init_local", t, <<Base(s, ty), arr_elem(s, target, i)>>)
        zeros == [k \in 1..ty.len - i |-> ElemAssign(s, target, i + k - 1, 0)]
    IN  IF i < ty.len /\ ~Is(s, "}") /\ s.ok THEN Parsed("InitElems", e.s, <<ty, target, i + 1, Append(parts, e.n)>>)
        ELSE R(skip(s, "}"), Chain(parts \o zeros))

InitMembers(s, ms, target, i, parts) ==
    LET t == IF i > 1 THEN skip(s, ",") ELSE s
        e == Parsed("init_local", t, <<ms[i].ty, MemberNode(target, ms[i])>>)
        zeros == [k \in 1..Len(ms) - i + 1 |-> <<Assigned(MemberNode(target, ms[i + k - 1]), new_num(0))>>]
    IN  IF i <= Len(ms) /\ ~Is(s, "}") /\ s.ok THEN Parsed("InitMembers", e.s, <<ms, target, i + 1, Append(parts, e.n)>>)
        ELSE R(skip(s, "}"), Chain(parts \o zeros))

InitString(s, ty, target) ==
    LET str == Cur(s).s
    IN  R(Check(Step(s), Len(str) < ty.len),
          Chain([i \in 1..ty.len |-> ElemAssign(s, target, i - 1, IF i <= Len(str) THEN str[i] ELSE 0)]))

init_local(s, ty, target) ==
    LET e == Parsed("assign", s, <<>>)
        ms == s.structs[ty.id].members
        first == Parsed("init_local", Step(s), <<ms[1].ty, target>>)
    IN  CASE ty.kind = "array" ->
               IF Cur(s).k = "str" /\ ty.base.kind = "char" THEN InitString(s, ty, target)
               ELSE IF Is(s, "{") THEN Parsed("InitElems", Step(s), <<ty, target, 0, <<>>>>)
               ELSE R(error_at(s), <<>>)
          [] ty.kind = "struct" /\ Is(s, "{") -> Parsed("InitMembers", Step(s), <<ms, target, 1, <<>>>>)
          [] ty.kind = "union" /\ Is(s, "{")  -> R(skip(first.s, "}"), first.n)
          [] OTHER                            -> R(e.s, <<Assigned(target, e.n)>>)

--------------------------------------------------------------------------
(* The length of an array that its initializer gives; nothing is consumed. *)
SkipElement(s, depth) ==
    CASE AtEnd(s) -> error_at(s)
      [] depth = 0 /\ OneOf(s, {"}", ","}) -> s
      [] OTHER -> Parsed("SkipElement", Step(s), <<CASE OneOf(s, {"{", "("}) -> depth + 1
                                         [] OneOf(s, {"}", ")"}) -> depth - 1
                                         [] OTHER -> depth>>)
CountElements(s, n) ==
    LET e == Parsed("SkipElement", s, <<0>>)
    IN  IF Is(s, "}") \/ ~s.ok THEN R(s, n) ELSE Parsed("CountElements", IF Is(e, ",") THEN Step(e) ELSE e, <<n + 1>>)

count_init_elements(s, elem) ==
    LET n == Parsed("CountElements", Step(s), <<0>>)
        e == Parsed("eval_const", s, <<>>)
        Counted(r, k) == R(IF r.ok THEN s ELSE error_at(s), k)
    IN  CASE Cur(s).k = "str" -> R(Check(s, elem.kind = "char"), Len(Cur(s).s) + 1)
          [] Is(s, "{")       -> Counted(n.s, n.n)
          [] OTHER            -> Counted(e.s, 1)

(* Static initializers: the bytes of a global, most significant first, and *)
(* the words of it that hold the address of a string or of a name.         *)
NoData == [init |-> <<>>, strs |-> <<>>, relocs |-> <<>>]
Zeros(size) == [NoData EXCEPT !.init = [i \in 1..size |-> 0]]

ByteOf(v, k) == (v \div ByteSize ^ k) % ByteSize
PutWord(g, at, v, size) ==
    [g EXCEPT !.init = [i \in DOMAIN @ |-> IF i > at /\ i <= at + size THEN ByteOf(v, at + size - i) ELSE @[i]]]
WordAt(g, at) ==
    ((g.init[at + 1] * ByteSize + g.init[at + 2]) * ByteSize + g.init[at + 3]) * ByteSize + g.init[at + 4]

PutField(g, at, m, v) ==
    LET low == 2 ^ (WordBits - m.bo - m.bw)
        old == WordAt(g, at)
        field == (old \div low) % 2 ^ m.bw
    IN  PutWord(g, at, old - field * low + (v % 2 ^ m.bw) * low, 4)

(* A sum of constants and at most one address, the constants cut at the    *)
(* next + or - outside brackets.  fine is FALSE when the initializer is    *)
(* not of this form.                                                       *)
NoSum(s) == [s |-> s, fine |-> FALSE, name |-> "", add |-> 0]

SkipParens(s, depth) ==
    CASE AtEnd(s) -> s
      [] Is(s, ")") /\ depth = 0 -> Step(s)
      [] OTHER -> Parsed("SkipParens", Step(s), <<CASE Is(s, "(") -> depth + 1 [] Is(s, ")") -> depth - 1 [] OTHER -> depth>>)
SkipCasts(s) == IF ParenType(s) THEN Parsed("SkipCasts", Parsed("SkipParens", Step(s), <<0>>), <<>>) ELSE s

AddrPath(s, ty, a) ==
    LET i == Parsed("eval_const", Step(s), <<>>)
        agg == IF Is(s, "->") THEN Base(s, ty) ELSE ty
        m == Find(s.structs[agg.id].members, Peek(s).s)
    IN  CASE Is(s, "[") ->
               IF ty.kind # "array" THEN R(error_at(s), 0)
               ELSE Parsed("AddrPath", skip(i.s, "]"), <<Base(s, ty), a + i.n * Base(s, ty).size>>)
          [] OneOf(s, {".", "->"}) ->
               IF (Is(s, "->") /\ ty.kind # "ptr") \/ ~is_agg(agg) \/ Peek(s).k # "id" \/ m = <<>>
               THEN R(error_at(s), 0) ELSE Parsed("AddrPath", Step(Step(s)), <<m[1].ty, a + m[1].off>>)
          [] OTHER -> R(s, a)

ChunkEnd(s, depth) ==
    CASE AtEnd(s) -> s.p
      [] depth = 0 /\ OneOf(s, {"+", "-"}) -> s.p
      [] OTHER -> Parsed("ChunkEnd", Step(s), <<CASE OneOf(s, {"(", "["}) -> depth + 1
                                                [] OneOf(s, {")", "]"}) -> depth - 1 [] OTHER -> depth>>)

(* An address term: &name, &(name...), a function or an array; g is the    *)
(* global of that name, if there is one.                                   *)
TermAt(at, g, amp, paren) ==
    LET path == IF g = <<>> THEN R(Step(at), 0) ELSE Parsed("AddrPath", Step(at), <<Whole(at, g[1].ty), 0>>)
    IN  [is |-> \/ Cur(at).k = "id" /\ Find(at.funcs, Cur(at).s) # <<>>
                \/ g # <<>> /\ (amp \/ g[1].ty.kind = "array"),
         name |-> Cur(at).s, add |-> path.n,
         closed |-> ~paren \/ Is(path.s, ")"),
         s |-> IF paren THEN Step(path.s) ELSE path.s]

AddrTerm(c) ==
    LET amp == Is(c, "&")
        paren == amp /\ TokIs(Peek(c), "(")
        at == IF paren THEN Step(Step(c)) ELSE IF amp THEN Step(c) ELSE c
    IN  TermAt(at, IF Cur(at).k = "id" THEN Find(at.globals, Cur(at).s) ELSE <<>>, amp, paren)

address_sum(s, add, name) ==
    LET sign == IF Is(s, "-") THEN -1 ELSE 1
        q == IF OneOf(s, {"+", "-"}) THEN Step(s) ELSE s
        c == Parsed("SkipCasts", q, <<>>)
        a == Parsed("AddrTerm", c, <<>>)
        p == Parsed("ChunkEnd", q, <<0>>)
        v == Parsed("eval_const", [q EXCEPT !.toks[p].k = "eof"], <<>>)
        back == [v.s EXCEPT !.toks = q.toks]
    IN  CASE AtEnd(c) /\ ParenType(q) -> NoSum(s)
          [] Terminates(q)  -> [s |-> q, fine |-> name # <<>>, name |-> name, add |-> add]
          [] name # <<>>    -> NoSum(s)
          [] a.is           -> IF a.closed THEN Parsed("address_sum", a.s, <<add + sign * a.add, <<a.name>>>>) ELSE NoSum(s)
          [] \E i \in q.p..p - 1 : TokIs(q.toks[i], "&") -> NoSum(s)
          [] ~v.s.ok        -> NoSum(back)
          [] v.s.p # p      -> NoSum(s)
          [] OTHER          -> Parsed("address_sum", back, <<add + sign * v.n, <<>>>>)

Scalar(s, ty, g, at) ==
    LET sum == Parsed("address_sum", s, <<0, <<>>>>)
        v == Parsed("eval_const", s, <<>>)
    IN  CASE Cur(s).k = "str" ->
               R([Step(s) EXCEPT !.strs = Append(@, Cur(s).s)],
                 [g EXCEPT !.strs = Append(@, [at |-> at, i |-> Len(s.strs)])])
          [] sum.fine   -> R(sum.s, [g EXCEPT !.relocs = Append(@, [at |-> at, name |-> sum.name[1], add |-> sum.add])])
          [] ~sum.s.ok  -> R(sum.s, g)
          [] OTHER      -> R(v.s, PutWord(g, at, v.n, IF ty.kind \in {"char", "short"} THEN ty.size ELSE 4))

Trailing(s) == skip(IF Is(s, ",") THEN Step(s) ELSE s, "}")

BytesElems(s, ty, g, at, i) ==
    LET t == IF i > 0 /\ i < ty.len /\ ~Is(s, "}") THEN skip(s, ",") ELSE s
        elem == Base(s, ty)
        e == Parsed("init_bytes", t, <<elem, g, at + i * elem.size>>)
    IN  IF i < ty.len /\ ~Is(t, "}") /\ t.ok THEN Parsed("BytesElems", e.s, <<ty, e.n, at, i + 1>>)
        ELSE R(Trailing(t), g)

BytesMembers(s, ms, g, at, i) ==
    LET t == IF i > 1 /\ i <= Len(ms) /\ ~Is(s, "}") THEN skip(s, ",") ELSE s
        m == ms[i]
        v == Parsed("eval_const", t, <<>>)
        e == IF m.bw >= 0 THEN R(v.s, PutField(g, at + m.off, m, v.n)) ELSE Parsed("init_bytes", t, <<m.ty, g, at + m.off>>)
    IN  IF i <= Len(ms) /\ ~Is(t, "}") /\ t.ok THEN Parsed("BytesMembers", e.s, <<ms, e.n, at, i + 1>>)
        ELSE R(Trailing(t), g)

BytesString(s, ty, g, at) ==
    LET str == Cur(s).s
    IN  R(Check(Step(s), Len(str) <= ty.len),
          [g EXCEPT !.init = [i \in DOMAIN @ |->
              IF i > at /\ i <= at + ty.len THEN (IF i - at <= Len(str) THEN str[i - at] ELSE 0) ELSE @[i]]])

init_bytes(s, ty, g, at) ==
    LET ms == s.structs[ty.id].members
        first == Parsed("init_bytes", Step(s), <<ms[1].ty, g, at + ms[1].off>>)
    IN  CASE ty.kind = "array" /\ Cur(s).k = "str" /\ ty.base.kind = "char" -> BytesString(s, ty, g, at)
          [] ty.kind \in {"array", "struct", "union"} /\ ~Is(s, "{") -> R(error_at(s), g)
          [] ty.kind = "array"  -> Parsed("BytesElems", Step(s), <<ty, g, at, 0>>)
          [] ty.kind = "struct" -> Parsed("BytesMembers", Step(s), <<ms, g, at, 1>>)
          [] ty.kind = "union"  -> R(Trailing(first.s), first.n)
          [] OTHER              -> Scalar(s, ty, g, at)

--------------------------------------------------------------------------
(* Declarations inside functions.                                          *)
Bind(s, name, off, gname, ty) ==
    [s EXCEPT !.vars = <<[name |-> name, off |-> off, gname |-> gname, ty |-> ty]>> \o @]

AddLocal(s, name, ty) ==
    LET f == Align(s.frame, 4) + Round4(ty.size)
    IN  Bind([s EXCEPT !.frame = f], name, -f, <<>>, ty)

GlobalRec(name, ty, static, extern) ==
    NoData @@ [name |-> name, ty |-> ty, static |-> static, extern |-> extern]
AddGlobal(s, g) == [s EXCEPT !.globals = <<g>> \o @]
SetData(s, name, data) ==
    [s EXCEPT !.globals = [i \in DOMAIN @ |-> IF @[i].name = name THEN data @@ @[i] ELSE @[i]]]

(* An array without length takes it from its initializer; s is behind "=". *)
Inferred(s, ty) ==
    LET n == Parsed("count_init_elements", Step(s), <<ty.base>>)
    IN  IF Is(s, "=") THEN R(n.s, ty_array(Base(s, ty), n.n)) ELSE R(error_at(s), ty)

StaticName(s) == "__local_static_" \o ToString(s.static_id)

HoistStatic(s, name, ty) ==
    Bind(AddGlobal([s EXCEPT !.static_id = @ + 1], GlobalRec(StaticName(s), ty, TRUE, FALSE)),
         name, 0, <<StaticName(s)>>, ty)

HoistExtern(s, name, ty) ==
    Bind(IF Find(s.globals, name) = <<>> THEN AddGlobal(s, GlobalRec(name, ty, FALSE, TRUE)) ELSE s,
         name, 0, <<name>>, ty)

(* One declarator: s is behind it, init tells whether "=" has been passed. *)
DeclareOne(s, name, ty, init) ==
    LET h == CASE s.is_static -> HoistStatic(s, name, ty)
               [] s.is_extern -> HoistExtern(s, name, ty)
               [] OTHER       -> AddLocal(s, name, ty)
        gname  == h.vars[1].gname
        extern == gname # <<>> /\ Find(h.globals, gname[1])[1].extern
        b == Parsed("init_bytes", h, <<ty, Zeros(ty.size), 0>>)
        old == Find(h.globals, gname[1])[1].init
        l == Parsed("init_local", h, <<ty, VarRef(h, h.vars[1])>>)
    IN  CASE init /\ gname = <<>> -> l
          [] init /\ extern       -> R(error_at(s), <<>>)
          [] init                 -> R(SetData(b.s, gname[1], b.n), <<>>)
          [] gname # <<>> /\ ~extern /\ old = <<>> ->
               R(SetData(h, gname[1], Zeros(ty.size)), <<>>)
          [] OTHER                -> R(h, <<>>)

DeclList(s, base, stmts) ==
    LET d == Parsed("declarator", s, <<base>>)
        ty0 == Whole(d.s, func_to_ptr(d.n))
        open == ty0.kind = "array" /\ ty0.len < 0
        t == IF open THEN Parsed("Inferred", d.s, <<ty0>>) ELSE R(IF Is(d.s, "=") THEN Step(d.s) ELSE d.s, ty0)
        one == Parsed("DeclareOne", t.s, <<d.name[1], t.n, open \/ Is(d.s, "=")>>)
        all == stmts \o one.n
    IN  CASE ~t.s.ok \/ d.name = <<>> \/ ty0.kind = "void" -> R(error_at(s), <<>>)
          [] Is(one.s, ",") -> Parsed("DeclList", Step(one.s), <<base, all>>)
          [] OTHER          -> R(skip(one.s, ";"), all)

decl_stmt(s) ==
    LET b == Parsed("declspec", s, <<>>)
    IN  IF Is(s, "typedef") THEN R(error_at(s), <<>>) ELSE Parsed("DeclList", b.s, <<b.n, <<>>>>)

--------------------------------------------------------------------------
(* Statements; the result is a sequence.                                   *)

StmtList(s, done) ==
    LET r == Parsed("stmt", s, <<>>)
    IN  CASE AtEnd(s)   -> R(error_at(s), done)
          [] Is(s, "}") -> R(Step(s), done)
          [] OTHER      -> Parsed("StmtList", r.s, <<done \o r.n>>)

InLoop(s)    == [s EXCEPT !.loops = @ + 1, !.breakable = @ + 1]
OutOfLoop(s) == [s EXCEPT !.loops = @ - 1, !.breakable = @ - 1]
ParenExpr(s) == LET c == Parsed("expr", skip(s, "("), <<>>) IN R(skip(c.s, ")"), c.n)
Single(s, n)    == R(s, <<n>>)

return_stmt(s) ==
    LET e == Parsed("expr", s, <<>>)
    IN  CASE Is(s, ";") -> Single(Step(s), Stmt("returnvoid"))
          [] Is(s, "}") -> Single(s, Stmt("returnvoid"))
          [] OTHER      -> Single(skip(e.s, ";"), Stmt("return") @@ [e |-> e.n])

(* Inline assembly is skipped.                                             *)
asm_stmt(s) ==
    LET t == IF OneOf(s, {"volatile", "__volatile__"}) THEN Step(s) ELSE s
        e == Parsed("SkipParens", skip(t, "("), <<0>>)
    IN  R(skip(e, ";"), <<>>)

if_stmt(s) ==
    LET c == Parsed("ParenExpr", s, <<>>)
        a == Parsed("stmt", c.s, <<>>)
        b == IF Is(a.s, "else") THEN Parsed("stmt", Step(a.s), <<>>) ELSE R(a.s, <<>>)
    IN  Single(b.s, Stmt("if") @@ [c |-> c.n, then |-> a.n, els |-> b.n])

while_stmt(s) ==
    LET c == Parsed("ParenExpr", s, <<>>)
        b == Parsed("stmt", InLoop(c.s), <<>>)
    IN  Single(OutOfLoop(b.s), Stmt("while") @@ [c |-> c.n, body |-> b.n])

(* An optional expression that ends at x.                                  *)
Optional(s, x) ==
    LET e == Parsed("expr", s, <<>>) IN IF Is(s, x) THEN R(Step(s), <<>>) ELSE R(skip(e.s, x), <<e.n>>)

for_stmt(s) ==
    LET t == skip(s, "(")
        e == Parsed("Optional", t, <<";">>)
        i == IF AtType(t) THEN Parsed("decl_stmt", t, <<>>) ELSE R(e.s, [k \in 1..Len(e.n) |-> ExprStmt(e.n[k])])
        c == Parsed("Optional", i.s, <<";">>)
        u == Parsed("Optional", c.s, <<")">>)
        b == Parsed("stmt", InLoop(u.s), <<>>)
    IN  Single([OutOfLoop(b.s) EXCEPT !.vars = s.vars],
            Stmt("for") @@ [init |-> i.n, c |-> c.n, inc |-> u.n, body |-> b.n])

do_stmt(s) ==
    LET b == Parsed("stmt", InLoop(s), <<>>)
        c == Parsed("ParenExpr", skip(OutOfLoop(b.s), "while"), <<>>)
    IN  Single(skip(c.s, ";"), Stmt("dowhile") @@ [c |-> c.n, body |-> b.n])

switch_stmt(s) ==
    LET c == Parsed("ParenExpr", s, <<>>)
        b == Parsed("stmt", [c.s EXCEPT !.breakable = @ + 1, !.cases = Append(@, <<>>)], <<>>)
        h == hidden_lvar([b.s EXCEPT !.breakable = @ - 1, !.cases = Front(@)], ty_int)
    IN  IF ~b.s.ok THEN R(b.s, <<>>)
        ELSE Single(h.s, Stmt("switch") @@ [e |-> c.n, cases |-> Last(b.s.cases), body |-> b.n, slot |-> -h.n.off])

register_case(s, n) ==
    LET list == Last(s.cases)
    IN  IF s.cases = <<>> \/ \E c \in Range(list) : c.kind = n.kind /\ (n.kind = "case" => c.v = n.v)
        THEN error_at(s)
        ELSE [s EXCEPT !.cases = Append(Front(@), Append(list, n)), !.lbl_num = @ + 1]

case_stmt(s) ==
    LET v == Parsed("assign", Step(s), <<>>)
        n == Stmt("case") @@ [v |-> v.n.v, num |-> v.s.lbl_num]
        d == Stmt("default") @@ [num |-> s.lbl_num]
    IN  IF Is(s, "default") THEN Single(register_case(skip(Step(s), ":"), d), d)
        ELSE IF v.n.kind # "num" \/ ~v.s.ok THEN R(error_at(s), <<>>)
        ELSE Single(register_case(skip(v.s, ":"), n), n)

(* goto and labels share the numbers of the cases.                         *)
label_of(s, name) ==
    LET l == Find(s.lbls, name)
    IN  IF l # <<>> THEN R(s, l[1].num)
        ELSE R([s EXCEPT !.lbl_num = @ + 1,
                         !.lbls = <<[name |-> name, num |-> s.lbl_num, defined |-> FALSE]>> \o @], s.lbl_num)

goto_stmt(s) ==
    LET l == label_of(s, Cur(s).s)
    IN  IF Cur(s).k # "id" THEN R(error_at(s), <<>>)
        ELSE Single(skip(Step(l.s), ";"), Stmt("goto") @@ [num |-> l.n])

label_stmt(s) ==
    LET l == label_of(s, Cur(s).s)
        b == Parsed("stmt", [Step(Step(l.s)) EXCEPT
                   !.lbls = [i \in DOMAIN @ |-> IF @[i].num = l.n THEN [@[i] EXCEPT !.defined = TRUE] ELSE @[i]]], <<>>)
    IN  Single(b.s, Stmt("label") @@ [num |-> l.n, body |-> b.n])

block(s) ==
    LET b == Parsed("StmtList", s, <<<<>>>>)
    IN  R([b.s EXCEPT !.vars = s.vars, !.tdefs = s.tdefs, !.enums = s.enums, !.tags = s.tags], b.n)

expr_stmt(s) == LET e == Parsed("expr", s, <<>>) IN Single(skip(e.s, ";"), ExprStmt(e.n))

stmt(s) ==
    LET t == Step(s) IN
    CASE Is(s, "return") -> return_stmt(t)
      [] OneOf(s, {"__asm__", "asm"}) -> asm_stmt(t)
      [] AtType(s)       -> Parsed("decl_stmt", s, <<>>)
      [] Is(s, "if")     -> if_stmt(t)
      [] Is(s, "while")  -> while_stmt(t)
      [] Is(s, "for")    -> for_stmt(t)
      [] Is(s, "do")     -> do_stmt(t)
      [] Is(s, "switch") -> switch_stmt(t)
      [] OneOf(s, {"case", "default"}) -> case_stmt(s)
      [] Is(s, "break")  -> Single(Check(skip(t, ";"), s.breakable > 0), Stmt("break"))
      [] Is(s, "continue") -> Single(Check(skip(t, ";"), s.loops > 0), Stmt("continue"))
      [] Is(s, "goto")   -> goto_stmt(t)
      [] Cur(s).k = "id" /\ TokIs(Peek(s), ":") -> label_stmt(s)
      [] Is(s, "{")      -> block(t)
      [] Is(s, ";")      -> R(t, <<>>)
      [] OTHER           -> expr_stmt(s)

--------------------------------------------------------------------------
(* Functions.  A prototype and a definition both fill the entry of the     *)
(* name; a parameter without type is an int.                               *)
ParamType(s, p) == IF p.ty = <<>> THEN ty_int ELSE Whole(s, p.ty[1])

FuncRec(s, name, fty, old, is_static) ==
    [name |-> name, ret |-> Whole(s, fty.base), fty |-> <<fty>>,
     params |-> [i \in DOMAIN fty.params |-> ParamType(s, fty.params[i])],
     variadic |-> fty.variadic, knr |-> fty.knr, decl |-> TRUE,
     static |-> is_static \/ (old # <<>> /\ old[1].static), frame |-> 0, body |-> <<>>]

PutFunc(s, f) ==
    IF Find(s.funcs, f.name) = <<>> THEN [s EXCEPT !.funcs = <<f>> \o @]
    ELSE [s EXCEPT !.funcs = Replace(@, f)]

register_proto(s, fty, name, is_static) ==
    LET old == Find(s.funcs, name)
    IN  IF old # <<>> /\ ~old[1].decl THEN s ELSE PutFunc(s, FuncRec(s, name, fty, old, is_static))

(* The parameters are the first locals.  The labels are numbered through   *)
(* the whole file, everything else starts anew.  A definition of the old   *)
(* style is only reached without declarations of its parameters.           *)
RECURSIVE AddParams(_, _, _, _)
AddParams(s, names, tys, i) ==
    IF i > Len(names) THEN s
    ELSE IF names[i].name = <<>> THEN error_at(s)
    ELSE AddParams(AddLocal(s, names[i].name[1], tys[i]), names, tys, i + 1)

funcdef(s, fty, name, is_static) ==
    LET old == Find(s.funcs, name)
        f == [FuncRec(s, name, fty, old, is_static) EXCEPT !.decl = FALSE]
        clear == [PutFunc(s, f) EXCEPT !.vars = <<>>, !.frame = 0, !.lbls = <<>>,
                                       !.breakable = 0, !.loops = 0, !.cases = <<>>]
        body == Parsed("StmtList", skip(AddParams(clear, fty.params, f.params, 1), "{"), <<<<>>>>)
        done == \A i \in DOMAIN body.s.lbls : body.s.lbls[i].defined
        now == Find(body.s.funcs, name)[1]
    IN  IF (old # <<>> /\ ~old[1].decl) \/ ~body.s.ok \/ ~done THEN error_at(s)
        ELSE PutFunc(body.s, [now EXCEPT !.frame = body.s.frame, !.body = body.n])

(* Every name followed by "(" after int, char, unsigned or void is made    *)
(* known before the parse, so that calls may come first; declarations that *)
(* begin with typedef, struct, union or enum are passed over.              *)
RECURSIVE PassDeclaration(_, _), PassWords(_), PassStars(_), pre_scan_functions(_)
PassDeclaration(s0, depth) ==
    LET s == Seek(s0, LAMBDA t : t.k = "punct" /\ t.s \in {"{", "(", "}", ")", ";"})
        next == CASE OneOf(s, {"{", "("}) -> depth + 1 [] OneOf(s, {"}", ")"}) -> depth - 1 [] OTHER -> depth
    IN  IF AtEnd(s) \/ (next = 0 /\ OneOf(s, {"}", ";"})) THEN s ELSE PassDeclaration(Step(s), next)

PassWords(s) ==
    IF OneOf(s, {"static", "extern", "const", "volatile", "register", "inline", "unsigned", "int", "char", "void"})
    THEN PassWords(Step(s)) ELSE s
PassStars(s) == IF Is(s, "*") THEN PassStars(Step(s)) ELSE s

pre_scan_functions(s0) ==
    LET s == Seek(s0, LAMBDA t : t.k = "kw" /\ t.s \in {"int", "char", "unsigned", "void",
                                                         "typedef", "struct", "union", "enum"})
        q == PassStars(PassWords(s))
        name == Cur(q).s
        new == Cur(q).k = "id" /\ TokIs(Peek(q), "(") /\ Find(s.funcs, name) = <<>>
        known == [s EXCEPT !.funcs = <<[Implicit(name) EXCEPT !.knr = FALSE]>> \o @]
    IN  CASE AtEnd(s) -> s
          [] OneOf(s, {"typedef", "struct", "union", "enum"}) -> pre_scan_functions(Step(PassDeclaration(s, 0)))
          [] OTHER    -> pre_scan_functions(Step(IF new THEN known ELSE s))

--------------------------------------------------------------------------
(* The top level.                                                          *)
TypedefList(s, base) ==
    LET d == Parsed("declarator", s, <<base>>)
        t == [d.s EXCEPT !.tdefs = <<[name |-> d.name[1], ty |-> func_to_ptr(d.n)]>> \o @]
    IN  CASE d.name = <<>> -> error_at(s)
          [] Is(t, ",")    -> Parsed("TypedefList", Step(t), <<base>>)
          [] OTHER         -> skip(t, ";")

(* The entry a declaration of a global makes or completes.                 *)
DeclareGlobal(s, name, ty) ==
    LET old == Find(s.globals, name)
    IN  CASE old # <<>> /\ s.is_extern -> s
          [] old # <<>> -> [Check(s, old[1].extern) EXCEPT
                            !.globals = Replace(@, [old[1] EXCEPT !.extern = FALSE, !.ty = ty])]
          [] OTHER -> AddGlobal(Check(s, Find(s.funcs, name) = <<>>), GlobalRec(name, ty, s.is_static, s.is_extern))

GlobalList(s, base, ty0, name) ==
    LET open == ty0.kind = "array" /\ ty0.len < 0
        t == CASE open /\ ~Is(s, "=") /\ s.is_extern -> R(s, ty_array(ty0.base, 0))
               [] open  -> Parsed("Inferred", s, <<ty0>>)
               [] OTHER -> R(IF Is(s, "=") THEN Step(s) ELSE s, Whole(s, ty0))
        init == Is(s, "=")
        again == Find(s.globals, name) # <<>> /\ s.is_extern
        g == DeclareGlobal(t.s, name, t.n)
        b == Parsed("init_bytes", g, <<t.n, Zeros(t.n.size), 0>>)
        e == CASE again /\ ~open -> s
               [] again -> t.s
               [] init  -> IF s.is_extern THEN error_at(s) ELSE SetData(b.s, name, b.n)
               [] OTHER -> g
    IN  IF ~t.s.ok \/ (t.n.kind = "struct" /\ t.n.size = 0 /\ ~s.is_extern) THEN error_at(s)
        ELSE Parsed("MoreGlobals", e, <<base>>)
MoreGlobals(s, base) ==
    LET d == Parsed("declarator", Step(s), <<base>>)
    IN  CASE ~Is(s, ",") -> skip(s, ";")
          [] d.n.kind = "func" \/ d.name = <<>> -> error_at(s)
          [] OTHER -> Parsed("GlobalList", d.s, <<base, d.n, d.name[1]>>)

TopLevel(s) ==
    LET b == Parsed("declspec", s, <<>>)
        d == Parsed("declarator", b.s, <<b.n>>)
        ty == func_to_ptr(d.n)
        static == b.s.is_static
    IN  CASE AtEnd(s)   -> s
          [] ~AtType(s) -> error_at(s)
          [] Is(b.s, ";") -> Parsed("TopLevel", Step(b.s), <<>>)
          [] b.s.is_typedef -> Parsed("TopLevel", Parsed("TypedefList", b.s, <<b.n>>), <<>>)
          [] d.name = <<>> \/ ty.kind = "void" -> error_at(s)
          [] d.n.kind = "func" /\ Is(d.s, "{") -> Parsed("TopLevel", Parsed("funcdef", d.s, <<d.n, d.name[1], static>>), <<>>)
          [] d.n.kind = "func" -> Parsed("TopLevel", register_proto(skip(d.s, ";"), d.n, d.name[1], static), <<>>)
          [] OTHER -> Parsed("TopLevel", Parsed("GlobalList", d.s, <<b.n, ty, d.name[1]>>), <<>>)

Parsed(f, s, a) ==
    CASE f = "stmt" -> stmt(s) [] f = "StmtList" -> StmtList(s, a[1])
      [] f = "ParenExpr" -> ParenExpr(s) [] f = "Optional" -> Optional(s, a[1])
      [] f = "decl_stmt" -> decl_stmt(s) [] f = "DeclList" -> DeclList(s, a[1], a[2])
      [] f = "DeclareOne" -> DeclareOne(s, a[1], a[2], a[3]) [] f = "Inferred" -> Inferred(s, a[1])
      [] f = "init_local" -> init_local(s, a[1], a[2])
      [] f = "InitElems" -> InitElems(s, a[1], a[2], a[3], a[4])
      [] f = "InitMembers" -> InitMembers(s, a[1], a[2], a[3], a[4])
      [] f = "count_init_elements" -> count_init_elements(s, a[1])
      [] f = "CountElements" -> CountElements(s, a[1]) [] f = "SkipElement" -> SkipElement(s, a[1])
      [] f = "init_bytes" -> init_bytes(s, a[1], a[2], a[3])
      [] f = "BytesElems" -> BytesElems(s, a[1], a[2], a[3], a[4])
      [] f = "BytesMembers" -> BytesMembers(s, a[1], a[2], a[3], a[4])
      [] f = "address_sum" -> address_sum(s, a[1], a[2]) [] f = "AddrPath" -> AddrPath(s, a[1], a[2])
      [] f = "SkipParens" -> SkipParens(s, a[1]) [] f = "SkipCasts" -> SkipCasts(s)
      [] f = "ChunkEnd" -> ChunkEnd(s, a[1]) [] f = "AddrTerm" -> AddrTerm(s)
      [] f = "TopLevel" -> TopLevel(s) [] f = "funcdef" -> funcdef(s, a[1], a[2], a[3])
      [] f = "TypedefList" -> TypedefList(s, a[1]) [] f = "GlobalList" -> GlobalList(s, a[1], a[2], a[3])
      [] f = "MoreGlobals" -> MoreGlobals(s, a[1])
      [] OTHER -> Rule(f, s, a)

Program(e) ==
    [ok |-> e.ok, funcs |-> e.funcs, strs |-> e.strs,
     globals |-> [i \in DOMAIN e.globals |-> [e.globals[i] EXCEPT !.ty = Whole(e, @)]]]
parse(toks) == Program(Parsed("TopLevel", [pre_scan_functions(Start(toks)) EXCEPT !.p = 1], <<>>))
=============================================================================
