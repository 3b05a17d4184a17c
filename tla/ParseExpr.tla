----------------------------- MODULE ParseExpr -----------------------------
(***************************************************************************)
(* The parser (src/symcc/src/parse.c), first half: types, constants and    *)
(* expressions, by recursive descent over the tokens, typing the trees as  *)
(* it builds them.                                                         *)
(*                                                                         *)
(* The file-level variables of the code are the fields of one record s     *)
(* that every operator takes and returns; s.p is the current token.  An    *)
(* error (exit(1) in the code) clears s.ok and moves to the end of the     *)
(* file, where every loop ends.  The lists of names are sequences with the *)
(* newest entry first, as the linked lists are, so that a lookup finds the *)
(* innermost one.  Limits on sizes and counts (64 parameters, 128 address  *)
(* initializers, 32 nested switches, 2^31 bytes) are left out.  The arms   *)
(* of a CASE are tried in order, as the code's chains of ifs are.          *)
(***************************************************************************)
EXTENDS Ast, ConstInt

Start(toks) ==
    [toks |-> toks, p |-> 1, ok |-> TRUE, uns |-> FALSE,
     vars |-> <<>>, frame |-> 0, tdefs |-> <<>>, enums |-> <<>>, tags |-> <<>>, structs |-> <<>>,
     globals |-> <<>>, funcs |-> <<>>, strs |-> <<>>, static_id |-> 0,
     is_typedef |-> FALSE, is_static |-> FALSE, is_extern |-> FALSE,
     lbls |-> <<>>, lbl_num |-> 0, breakable |-> 0, loops |-> 0, cases |-> <<>>]

R(s, n) == [s |-> s, n |-> n]
D(s, ty, name) == [s |-> s, n |-> ty, name |-> name]

Cur(s)  == s.toks[s.p]
Peek(s) == s.toks[IF s.p < Len(s.toks) THEN s.p + 1 ELSE s.p]
Step(s) == [s EXCEPT !.p = IF @ < Len(s.toks) THEN @ + 1 ELSE @]
error_at(s) == [s EXCEPT !.ok = FALSE, !.p = Len(s.toks)]
Reject(s)   == R(error_at(s), new_num(0))
Check(s, cond) == IF cond THEN s ELSE error_at(s)

TokIs(t, x) == t.k \in {"punct", "kw"} /\ t.s = x
Is(s, x)    == TokIs(Cur(s), x)
OneOf(s, xs) == Cur(s).k \in {"punct", "kw"} /\ Cur(s).s \in xs
AtEnd(s)    == Cur(s).k = "eof"
(* The next token, from the current one on, that satisfies Want.           *)
Seek(s, Want(_)) ==
    [s EXCEPT !.p = CHOOSE q \in s.p..Len(s.toks) :
        /\ s.toks[q].k = "eof" \/ Want(s.toks[q])
        /\ \A r \in s.p..(q - 1) : ~Want(s.toks[r])]
skip(s, x)  == IF Is(s, x) THEN Step(s) ELSE error_at(s)

(* find_tdef, find_enum, find_func, find_global, find_member and the walks *)
(* over vars: the first entry of that name, or none.                       *)
AtMostOne(list, i) == IF i = 0 THEN <<>> ELSE <<list[i]>>
Find(list, name) == AtMostOne(list, SelectInSeq(list, LAMBDA e : e.name = name))
Replace(list, e) ==
    [i \in 1..Len(list) |-> IF list[i].name = e.name THEN e ELSE list[i]]

(* A struct type as it is by now: the code's types are pointers.           *)
Whole(s, ty) == IF is_agg(ty) THEN [ty EXCEPT !.size = s.structs[ty.id].size] ELSE ty
Base(s, ty)  == Whole(s, ty.base)

TypeWords == {"int", "char", "long", "short", "signed", "void", "unsigned", "struct", "union", "enum",
              "typedef", "static", "extern", "const", "volatile", "register", "inline"}
is_typename(t) == t.k = "kw" /\ t.s \in TypeWords
is_declspec_start(s, t) == is_typename(t) \/ (t.k = "id" /\ Find(s.tdefs, t.s) # <<>>)
AtType(s) == is_declspec_start(s, Cur(s))
ParenType(s) == Is(s, "(") /\ is_declspec_start(s, Peek(s))

(* The functions below call one another in every direction.  A call goes   *)
(* through Rule, defined at the end: the function's name, the state and    *)
(* its other arguments.                                                    *)
RECURSIVE Rule(_, _, _)

--------------------------------------------------------------------------
(* Constant expressions: the functions eval_ternary ... eval_primary.  The *)
(* ten functions for binary operators (here and below) differ in their     *)
(* operators only: one operator with the level stands for them.  It goes   *)
(* straight to the level of the operator it meets; 0 is no operator.       *)
BinaryLevels == <<{"||"}, {"&&"}, {"|"}, {"^"}, {"&"}, {"==", "!="},
                  {"<", "<=", ">", ">="}, {"<<", ">>"}, {"+", "-"}, {"*", "/", "%"}>>
LevelOf == [op \in UNION {BinaryLevels[l] : l \in DOMAIN BinaryLevels} |->
               CHOOSE l \in DOMAIN BinaryLevels : op \in BinaryLevels[l]]
OpLevel(s) == IF OneOf(s, DOMAIN LevelOf) THEN LevelOf[Cur(s).s] ELSE 0

eval_const(s) == Rule("const_ternary", s, <<>>)

const_ternary(s) ==
    LET c == Rule("const_level", s, <<1>>)
        a == Rule("const_ternary", Step(c.s), <<>>)
        b == Rule("const_ternary", skip(a.s, ":"), <<>>)
        uns == a.s.uns \/ b.s.uns
        v == IF c.n # 0 THEN a.n ELSE b.n
    IN  IF ~Is(c.s, "?") THEN c
        ELSE R([b.s EXCEPT !.uns = uns], IF uns THEN v % WordSize ELSE v)

const_level(s, k) == Rule("const_rest", Rule("const_unary", s, <<>>), <<k>>)
ConstResult(s, v) == IF v = <<>> THEN R(error_at(s), 0) ELSE R([s EXCEPT !.uns = v[2]], v[1])
const_rest(l, k) ==
    LET r == Rule("const_level", Step(l.s), <<OpLevel(l.s) + 1>>)
    IN  IF OpLevel(l.s) < k THEN l
        ELSE Rule("const_rest", ConstResult(r.s, cc_binary(l.n, l.s.uns, r.n, r.s.uns, Cur(l.s).s)), <<k>>)

(* (type) in sizeof and casts: the type, and the state behind the ')'.     *)
TypeInParens(s) ==
    LET b == Rule("declspec", Step(s), <<>>)
        d == Rule("declarator", b.s, <<b.n>>)
    IN  R(skip(d.s, ")"), Whole(d.s, d.n))

Narrowed(v, bits, uns) == IF uns THEN v % 2 ^ bits ELSE SignedIn(v % 2 ^ bits, bits)

const_cast(s) ==
    LET t == Rule("TypeInParens", s, <<>>)
        v == Rule("const_unary", t.s, <<>>)
        uns == t.n.uns \/ t.n.kind = "ptr"
        bits == IF t.n.size \in {1, 2} THEN t.n.size * ByteBits ELSE WordBits
    IN  R([v.s EXCEPT !.uns = uns], Narrowed(v.n, bits, uns))

const_primary(s) ==
    LET t == Cur(s)
        inner == Rule("const_ternary", Step(s), <<>>)
        e == Find(s.enums, t.s)
    IN  CASE t.k = "num" -> R([Step(s) EXCEPT !.uns = t.u], t.v)
          [] Is(s, "(")  -> R(skip(inner.s, ")"), inner.n)
          [] t.k = "id"  -> IF e = <<>> THEN R(error_at(s), 0)
                            ELSE R([Step(s) EXCEPT !.uns = FALSE], e[1].val)
          [] OTHER       -> R(error_at(s), 0)

const_unary(s) ==
    LET v == Rule("const_unary", Step(s), <<>>)
        t == Rule("TypeInParens", Step(s), <<>>)
        e == Rule("unary", Step(s), <<>>)
        sized(r, size) == R([r.s EXCEPT !.uns = TRUE], size)
    IN  CASE Is(s, "+") -> v
          [] Is(s, "-") -> R(v.s, -v.n)
          [] Is(s, "!") -> R([v.s EXCEPT !.uns = FALSE], Truth(v.n = 0))
          [] Is(s, "~") -> R(v.s, -v.n - 1)
          [] Is(s, "sizeof") -> IF ParenType(Step(s)) THEN sized(t, t.n.size) ELSE sized(e, e.n.ty.size)
          [] ParenType(s)    -> const_cast(s)
          [] OTHER           -> const_primary(s)

--------------------------------------------------------------------------
(* Type specifiers.  SpecWord: what a type word makes of the type so far,  *)
(* <<>> when the combination is refused.                                   *)
SpecWord(w, base, uns) ==
    CASE w = "void"  -> IF base # <<>> \/ uns THEN <<>> ELSE <<ty_void>>
      [] w = "char"  -> IF base # <<>> THEN <<>> ELSE <<ty_char>>
      [] w = "int"   -> IF base = <<>> THEN <<ty_int>>
                        ELSE IF base[1].long \/ base[1].kind = "short" THEN base ELSE <<>>
      [] w = "long"  -> IF base = <<>> THEN <<ty_long>>
                        ELSE IF base[1].kind = "int" /\ base[1].long THEN base ELSE <<>>
      [] w = "short" -> IF base = <<>> THEN <<ty_short>>
                        ELSE IF base[1].kind = "int" /\ ~base[1].long THEN base ELSE <<>>

(* What struct_decl and enum_decl do to the flags is undone.               *)
KeepFlags(s, r) ==
    R([r.s EXCEPT !.is_typedef = s.is_typedef, !.is_static = s.is_static, !.is_extern = s.is_extern], r.n)

SpecEnd(s, base, uns) ==
    CASE base # <<>> /\ uns -> IF base[1].kind \in {"int", "char", "short"}
                               THEN R(s, [base[1] EXCEPT !.uns = TRUE]) ELSE R(error_at(s), ty_int)
      [] base # <<>>        -> R(s, base[1])
      [] uns                -> R(s, ty_uint)
      [] OTHER              -> R(Check(s, s.is_typedef \/ s.is_static \/ s.is_extern), ty_int)

SpecLoop(s, base, uns) ==
    LET t    == Cur(s)
        word == IF t.k = "kw" THEN t.s ELSE ""
        next == SpecWord(word, base, uns)
        tdef == Find(s.tdefs, t.s)
        agg  == KeepFlags(s, IF word = "enum" THEN Rule("enum_decl", s, <<>>) ELSE Rule("struct_decl", s, <<word>>))
        bad  == R(error_at(s), ty_int)
    IN  CASE word = "typedef" -> Rule("SpecLoop", [Step(s) EXCEPT !.is_typedef = TRUE], <<base, uns>>)
          [] word \in {"static", "inline"} -> Rule("SpecLoop", [Step(s) EXCEPT !.is_static = TRUE], <<base, uns>>)
          [] word = "extern"  -> Rule("SpecLoop", [Step(s) EXCEPT !.is_extern = TRUE], <<base, uns>>)
          [] word \in {"const", "volatile", "register", "signed"} -> Rule("SpecLoop", Step(s), <<base, uns>>)
          [] word = "unsigned" -> Rule("SpecLoop", Step(s), <<base, TRUE>>)
          [] word \in {"void", "char", "int", "long", "short"} ->
               IF next = <<>> THEN bad ELSE Rule("SpecLoop", Step(s), <<next, uns>>)
          [] word \in {"struct", "union", "enum"} ->
               IF base # <<>> THEN bad ELSE Rule("SpecLoop", agg.s, <<<<agg.n>>, uns>>)
          [] t.k = "id" /\ tdef # <<>> ->
               IF base # <<>> THEN bad ELSE Rule("SpecLoop", Step(s), <<<<Whole(s, tdef[1].ty)>>, uns>>)
          [] OTHER -> SpecEnd(s, base, uns)

declspec(s) ==
    Rule("SpecLoop", [s EXCEPT !.is_typedef = FALSE, !.is_static = FALSE, !.is_extern = FALSE], <<<<>>, FALSE>>)

(* Declarators: the type, and the name as a sequence of at most one.       *)
RECURSIVE Stars(_, _)
Stars(s, ty) == IF Is(s, "*") THEN Stars(Step(s), ty_ptr(ty)) ELSE R(s, ty)

declarator(s, base) ==
    LET inner == Rule("declarator", Step(s), <<base>>)
        p     == Stars(s, base)
    IN  IF Is(s, "(") THEN Rule("paren_suffix", skip(inner.s, ")"), <<inner.n, inner.name>>)
        ELSE IF Cur(p.s).k = "id" THEN Rule("suffix", Step(p.s), <<p.n, <<Cur(p.s).s>>>>)
        ELSE Rule("suffix", p.s, <<p.n, <<>>>>)

paren_suffix(s, ty, name) ==
    IF ty.kind = "ptr"
    THEN LET r == Rule("paren_suffix", s, <<ty.base, name>>) IN D(r.s, ty_ptr(r.n), r.name)
    ELSE Rule("suffix", s, <<ty, name>>)

(* Parameters: [name, ty]; arrays and functions become pointers.           *)
Adjusted(ty) ==
    CASE ty.kind = "array" -> ty_ptr(ty.base) [] ty.kind = "func" -> ty_ptr(ty) [] OTHER -> ty
Param(name, ty) == [name |-> name, ty |-> ty]

RECURSIVE KnrNames(_, _)
KnrNames(s, ps) ==
    IF Cur(s).k # "id" THEN R(s, ps)
    ELSE LET t == Step(s)
         IN KnrNames(IF Is(t, ",") THEN Step(t) ELSE t, Append(ps, Param(<<Cur(s).s>>, <<>>)))

AnsiParams(s, ps) ==
    LET b == Rule("declspec", s, <<>>)
        d == Rule("declarator", b.s, <<b.n>>)
        more == Append(ps, Param(d.name, <<Adjusted(d.n)>>))
    IN  CASE AtEnd(s)      -> D(error_at(s), ps, FALSE)
          [] Is(s, ")")    -> D(Step(s), ps, FALSE)
          [] Is(s, "...")  -> D(Step(Step(s)), ps, TRUE)
          [] Is(d.s, ",")  -> Rule("AnsiParams", Step(d.s), <<more>>)
          [] Is(d.s, ")")  -> D(Step(d.s), more, FALSE)
          [] OTHER         -> D(error_at(d.s), ps, FALSE)

suffix(s, base, name) ==
    LET t    == Step(s)
        len  == IF Is(t, "]") THEN R(t, -1) ELSE Rule("eval_const", t, <<>>)
        elem == Rule("suffix", skip(len.s, "]"), <<base, name>>)
        knr  == KnrNames(t, <<>>)
        ansi == Rule("AnsiParams", t, <<<<>>>>)
    IN  CASE Is(s, "[") ->
               D(Check(elem.s, elem.n.kind # "func"), ty_array(elem.n, len.n), elem.name)
          [] Is(s, "(") /\ Is(t, ")") -> D(Step(t), ty_func(base, <<>>, TRUE, FALSE), name)
          [] Is(s, "(") /\ Is(t, "void") /\ TokIs(Peek(t), ")") ->
               D(Step(Step(t)), ty_func(base, <<>>, FALSE, FALSE), name)
          [] Is(s, "(") /\ Cur(t).k = "id" /\ ~AtType(t) ->
               D(skip(knr.s, ")"), ty_func(base, knr.n, TRUE, FALSE), name)
          [] Is(s, "(") -> D(ansi.s, ty_func(base, ansi.n, FALSE, ansi.name), name)
          [] OTHER      -> D(s, base, name)

--------------------------------------------------------------------------
(* Structs and unions: members on their natural alignment, bit-fields      *)
(* packed from the top of a unit of one word.  lay is the layout so far.   *)
RECURSIVE skip_body(_, _)

Align(off, n) == ((off + n - 1) \div n) * n

Unit(lay, width) ==
    IF lay.in_bf /\ lay.bitpos + width <= WordBits THEN lay
    ELSE [lay EXCEPT !.off = Align(@ + (IF lay.in_bf THEN 4 ELSE 0), 4), !.bitpos = 0, !.in_bf = TRUE]
EndUnit(lay) == IF lay.in_bf THEN [lay EXCEPT !.off = @ + 4, !.in_bf = FALSE] ELSE lay
CloseUnit(lay) == [lay EXCEPT !.in_bf = FALSE, !.bitpos = WordBits]

Pack(lay, name, ty, width) ==
    LET u == Unit(lay, width)
    IN  [u EXCEPT !.bitpos = @ + width,
                  !.ms = Append(@, [name |-> name, ty |-> ty, off |-> u.off, bo |-> u.bitpos, bw |-> width])]

RECURSIVE Alignment(_)
Alignment(ty) ==
    CASE ty.kind = "array" -> Alignment(ty.base)
      [] ty.kind = "char"  -> 1
      [] ty.kind = "short" -> 2
      [] OTHER             -> 4

Place(lay, name, ty) ==
    LET e == EndUnit(lay)
        at == Align(e.off, Alignment(ty))
    IN  [e EXCEPT !.off = at + ty.size,
                  !.ms = Append(@, [name |-> name, ty |-> ty, off |-> at, bo |-> -1, bw |-> -1])]

BitWidth(s) ==
    LET w == Rule("eval_const", Step(s), <<>>) IN R(Check(w.s, w.n >= 0 /\ w.n <= WordBits), w.n)

member_list(s, base, lay) ==
    LET d == Rule("declarator", s, <<base>>)
        ty == Whole(d.s, func_to_ptr(d.n))
        w == IF Is(d.s, ":") THEN BitWidth(d.s) ELSE R(d.s, -1)
        next == CASE w.n < 0 -> Place(lay, d.name[1], ty)
                  [] w.n = 0 -> CloseUnit(lay)
                  [] OTHER   -> Pack(lay, d.name[1], ty, w.n)
    IN  CASE ~w.s.ok \/ d.name = <<>> \/ ty.kind = "void" -> R(error_at(s), lay)
          [] Is(w.s, ",") -> Rule("member_list", Step(w.s), <<base, next>>)
          [] OTHER        -> R(skip(w.s, ";"), next)

struct_members(s, lay) ==
    LET base == Rule("declspec", s, <<>>)
        w == BitWidth(base.s)
        ms == Rule("member_list", base.s, <<base.n, lay>>)
    IN  CASE AtEnd(s)        -> R(error_at(s), lay)
          [] Is(s, "}")      -> R(s, lay)
          [] ~Is(base.s, ":") -> Rule("struct_members", ms.s, <<ms.n>>)
          [] w.n = 0         -> Rule("struct_members", skip(w.s, ";"), <<CloseUnit(lay)>>)
          [] OTHER           -> LET u == Unit(lay, w.n)
                                IN Rule("struct_members", skip(w.s, ";"), <<[u EXCEPT !.bitpos = @ + w.n]>>)

skip_body(s, depth) ==
    CASE AtEnd(s) -> error_at(s)
      [] Is(s, "}") /\ depth = 0 -> Step(s)
      [] OTHER -> skip_body(Step(s), CASE Is(s, "{") -> depth + 1 [] Is(s, "}") -> depth - 1 [] OTHER -> depth)

add_tag(s, tag, ty, kind) ==
    IF tag = <<>> THEN s
    ELSE [s EXCEPT !.tags = <<[name |-> tag[1], ty |-> ty, kind |-> kind]>> \o @]

Tag(s) == IF Cur(s).k = "id" THEN <<Cur(s).s>> ELSE <<>>

(* A tag is known by name and kind; the body of a complete one is skipped. *)
StructBody(s, tag, ty) ==
    LET b == Rule("struct_members", add_tag(Step(s), tag, ty, ty.kind), <<[off |-> 0, in_bf |-> FALSE, bitpos |-> 0, ms |-> <<>>]>>)
        size == Align(EndUnit(b.n).off, 4)
        e == [b.s EXCEPT !.structs[ty.id] = [size |-> size, members |-> b.n.ms]]
    IN  R(skip(Check(e, size # 0), "}"), [ty EXCEPT !.size = size])

struct_decl(s, kind) ==
    LET tag == Tag(Step(s))
        s2  == IF tag = <<>> THEN Step(s) ELSE Step(Step(s))
        old == IF tag = <<>> THEN <<>> ELSE Find(s.tags, tag[1])
        ty  == IF old = <<>> THEN ty_agg(kind, Len(s.structs) + 1, 0) ELSE Whole(s, old[1].ty)
        s3  == IF old = <<>> THEN [s2 EXCEPT !.structs = Append(@, [size |-> 0, members |-> <<>>])] ELSE s2
    IN  CASE old # <<>> /\ old[1].kind # kind -> R(error_at(s), ty_int)
          [] Is(s2, "{") /\ ty.size # 0        -> R(skip_body(Step(s2), 0), ty)
          [] Is(s2, "{")                       -> StructBody(s3, tag, ty)
          [] old = <<>>                        -> R(add_tag(s3, tag, ty, kind), ty)
          [] OTHER                             -> R(s2, ty)

RECURSIVE EnumBody(_, _)
EnumBody(s, val) ==
    LET v == IF TokIs(Peek(s), "=") THEN Rule("eval_const", Step(Step(s)), <<>>) ELSE R(Step(s), val)
        s2 == [v.s EXCEPT !.enums = <<[name |-> Cur(s).s, val |-> v.n]>> \o @]
    IN  CASE Is(s, "}")       -> Step(s)
          [] Cur(s).k # "id"  -> error_at(s)
          [] OTHER            -> EnumBody(IF Is(s2, ",") THEN Step(s2) ELSE s2, v.n + 1)

enum_decl(s) ==
    LET tag  == Tag(Step(s))
        s2   == IF tag = <<>> THEN Step(s) ELSE Step(Step(s))
        body == EnumBody(Step(s2), 0)
        old  == IF tag = <<>> THEN <<>> ELSE Find(s2.tags, tag[1])
        good == old = <<>> \/ old[1].kind = "enum"
    IN  IF Is(s2, "{") THEN R(Check(IF old = <<>> THEN add_tag(body, tag, ty_int, "enum") ELSE body, good), ty_int)
        ELSE R(Check(s2, old # <<>> /\ good), ty_int)

--------------------------------------------------------------------------
(* Expressions.                                                            *)
is_lvalue(n) == n.kind \in {"var", "gvar", "deref", "member"}

(* A hidden local of one word; every copy of its node names the same slot. *)
hidden_lvar(s, ty) ==
    LET f == Align(s.frame, 4) + 4 IN R([s EXCEPT !.frame = f], VarNode(-f, ty))

scale_ptr(n, elem) ==
    IF elem.size = 1 THEN n ELSE new_binary("mul", n, new_num(elem.size), ty_int)

(* Pointer arithmetic and the type of the result.                          *)
PointerOp(s, kind, l, r) ==
    LET lk == l.ty.kind
        rk == r.ty.kind
        RightScaled(ty) == new_binary(kind, l, scale_ptr(r, Base(s, l.ty)), ty)
        LeftScaled(ty)  == new_binary(kind, scale_ptr(l, Base(s, r.ty)), r, ty)
        elem == Base(s, l.ty)
    IN  CASE kind = "add" /\ lk = "array" -> <<RightScaled(ty_ptr(l.ty.base))>>
          [] kind = "add" /\ rk = "array" -> <<LeftScaled(ty_ptr(r.ty.base))>>
          [] kind = "add" /\ lk = "ptr" /\ rk # "ptr" -> <<RightScaled(l.ty)>>
          [] kind = "add" /\ rk = "ptr" /\ lk # "ptr" -> <<LeftScaled(r.ty)>>
          [] kind = "sub" /\ lk = "array" -> <<RightScaled(ty_ptr(l.ty.base))>>
          [] kind = "sub" /\ lk = "ptr" /\ rk = "ptr" ->
               <<new_binary(kind, l, r, ty_int)
                 @@ [elem |-> IF elem.kind = "void" \/ elem.size = 0 THEN 1 ELSE elem.size]>>
          [] kind = "sub" /\ lk = "ptr"   -> <<RightScaled(l.ty)>>
          [] kind = "sub" /\ rk = "array" -> <<LeftScaled(ty_ptr(r.ty.base))>>
          [] OTHER -> <<>>

ArithType(kind, l, r) ==
    CASE kind \in {"lsl", "lsr"} -> l.ty
      [] kind \in {"eq", "ne", "logand", "logor"} -> ty_int
      [] OTHER -> IF l.ty.uns \/ r.ty.uns THEN ty_uint ELSE ty_int

new_binop(s, kind, l, r) ==
    Head(PointerOp(s, kind, l, r) \o <<new_binary(kind, l, r, ArithType(kind, l, r))>>)

RECURSIVE Arguments(_, _)
Arguments(s, args) ==
    LET a == Rule("assign", s, <<>>)
        more == Append(args, a.n)
    IN  IF Is(a.s, ",") THEN Arguments(Step(a.s), more) ELSE R(skip(a.s, ")"), more)
parse_call_args(s) ==
    LET t == skip(s, "(") IN IF Is(t, ")") THEN R(Step(t), <<>>) ELSE Arguments(t, <<>>)

CallNode(name, ty, args)   == Node("call", ty) @@ [name |-> name, args |-> args]
CallPtrNode(fn, ty, args)  == Node("callptr", ty) @@ [lhs |-> fn, args |-> args]

(* find_fp_var: a local of that name has been found before.                *)
IsFuncPtr(ty) == ty.kind = "ptr" /\ ty.base.kind = "func"

Implicit(name) ==
    [name |-> name, ret |-> ty_int, fty |-> <<>>, params |-> <<>>, variadic |-> FALSE, knr |-> TRUE,
     decl |-> TRUE, static |-> FALSE, frame |-> 0, body |-> <<>>]

va_start(s) ==
    LET a == Rule("parse_call_args", Step(s), <<>>)
    IN  IF Len(a.n) # 2 \/ ~is_lvalue(a.n[1]) THEN Reject(s)
        ELSE R(a.s, Node("vastart", ty_void) @@ [lhs |-> a.n[1]])

(* A call of a known function, of a function pointer, or of a function     *)
(* that is declared by being called.                                       *)
NamedCall(s) ==
    LET name == Cur(s).s
        f == Find(s.funcs, name)
        g == Find(s.globals, name)
        a == Rule("parse_call_args", Step(s), <<>>)
        ft == g[1].ty.base
        Fits(fn) == fn.knr \/ fn.variadic \/ Len(fn.params) = Len(a.n)
    IN  CASE f # <<>> -> R(Check(a.s, f[1].decl \/ Fits(f[1])), CallNode(name, Whole(a.s, f[1].ret), a.n))
          [] g # <<>> /\ IsFuncPtr(g[1].ty) ->
               R(Check(a.s, Fits(ft)), CallPtrNode(GVarNode(name, g[1].ty), Base(a.s, ft), a.n))
          [] OTHER    -> Rule("primary", [s EXCEPT !.funcs = <<Implicit(name)>> \o @], <<>>)

VarRef(s, v) ==
    IF v.gname = <<>> THEN VarNode(v.off, Whole(s, v.ty)) ELSE GVarNode(v.gname[1], Whole(s, v.ty))

(* A name that is not a local and is not called: function, global, enum.   *)
NameRef(s, name) ==
    LET f == Find(s.funcs, name)
        g == Find(s.globals, name)
        e == Find(s.enums, name)
    IN  CASE f # <<>> -> R(Step(s), Node("func", ty_ptr(IF f[1].fty = <<>> THEN ty_int ELSE f[1].fty[1]))
                                    @@ [name |-> name])
          [] g # <<>> -> R(Step(s), GVarNode(name, Whole(s, g[1].ty)))
          [] e # <<>> -> R(Step(s), new_num(e[1].val))
          [] OTHER    -> Reject(s)

primary(s) ==
    LET t == Cur(s)
        inner == Rule("expr", Step(s), <<>>)
        v == Find(s.vars, t.s)
    IN  CASE t.k = "num" -> R(Step(s), [new_num(t.v) EXCEPT !.ty = IF t.u THEN ty_uint ELSE ty_int])
          [] Is(s, "(")  -> R(skip(inner.s, ")"), inner.n)
          [] t.k = "str" -> R([Step(s) EXCEPT !.strs = Append(@, t.s)],
                              Node("str", ty_ptr(ty_char)) @@ [i |-> Len(s.strs)])
          [] t.k # "id"  -> Reject(s)
          [] v # <<>>    -> R(Step(s), VarRef(s, v[1]))
          [] TokIs(Peek(s), "(") -> IF t.s = "__builtin_va_start" THEN va_start(s) ELSE NamedCall(s)
          [] OTHER       -> NameRef(s, t.s)

new_dyncall(s, fn) ==
    LET a == Rule("parse_call_args", s, <<>>)
        ft == IF fn.ty.kind = "func" THEN fn.ty ELSE fn.ty.base
    IN  R(a.s, CallPtrNode(fn, Base(a.s, ft), a.n))

(* a[i] is *(a + i * size).                                                *)
Index(s, a, i) ==
    LET elem == Base(s, a.ty)
    IN  new_unary("deref", new_binary("add", a, scale_ptr(i, elem), ty_ptr(elem)), elem)

(* The member named by the current token; e is the struct.                 *)
MemberOf(s, e) ==
    LET m == Find(s.structs[e.ty.id].members, Cur(s).s)
    IN  IF ~is_agg(e.ty) \/ Cur(s).k # "id" THEN Reject(s)
        ELSE IF m = <<>> THEN Reject(s)
        ELSE R(Step(s), MemberNode(e, m[1]))

StepKind(s) == IF Is(s, "++") THEN "add" ELSE "sub"
Stepped(s, kind, x) == new_assign(x, new_binop(s, kind, x, new_num(1)))

(* x++: the old value waits in a hidden local.                             *)
PostStep(s, x) ==
    LET tmp == hidden_lvar(Step(s), x.ty)
        a2  == Stepped(s, StepKind(s), x)
        mid == new_binary("comma", new_assign(tmp.n, x), a2, a2.ty)
    IN  IF is_lvalue(x) THEN R(tmp.s, new_binary("comma", mid, tmp.n, x.ty)) ELSE Reject(s)

PostfixLoop(r) ==
    LET s == r.s
        n == r.n
        idx == Rule("expr", Step(s), <<>>)
        ptr == n.ty.kind = "ptr"
    IN  CASE Is(s, "[") ->
               Rule("PostfixLoop", IF ptr \/ n.ty.kind = "array" THEN R(skip(idx.s, "]"), Index(idx.s, n, idx.n))
                           ELSE Reject(s), <<>>)
          [] Is(s, ".")  -> Rule("PostfixLoop", MemberOf(Step(s), n), <<>>)
          [] Is(s, "->") -> Rule("PostfixLoop", IF ptr THEN MemberOf(Step(s), new_unary("deref", n, Base(s, n.ty)))
                                        ELSE Reject(s), <<>>)
          [] Is(s, "(")  -> Rule("PostfixLoop", IF IsFuncPtr(n.ty) \/ n.ty.kind = "func" THEN new_dyncall(s, n)
                                        ELSE Reject(s), <<>>)
          [] OneOf(s, {"++", "--"}) -> Rule("PostfixLoop", PostStep(s, n), <<>>)
          [] OTHER -> r
postfix(s) == Rule("PostfixLoop", Rule("primary", s, <<>>), <<>>)

AddressOf(r) ==
    CASE r.n.kind \in {"str", "func"} -> r
      [] is_lvalue(r.n)               -> R(r.s, new_unary("addr", r.n, ty_ptr(r.n.ty)))
      [] OTHER                        -> Reject(r.s)

unary(s) ==
    LET e == Rule("unary", Step(s), <<>>)
        t == Rule("TypeInParens", IF Is(s, "sizeof") THEN Step(s) ELSE s, <<>>)
        c == Rule("unary", t.s, <<>>)
        Prefix(kind) == R(e.s, new_unary(kind, e.n, ty_int))
    IN  CASE Is(s, "-") -> Prefix("neg")
          [] Is(s, "!") -> Prefix("not")
          [] Is(s, "~") -> Prefix("bitnot")
          [] Is(s, "+") -> e
          [] OneOf(s, {"++", "--"}) ->
               IF is_lvalue(e.n) THEN R(e.s, Stepped(e.s, StepKind(s), e.n)) ELSE Reject(s)
          [] Is(s, "&") -> AddressOf(e)
          [] Is(s, "*") -> IF e.n.ty.kind \in {"ptr", "array"}
                           THEN R(e.s, new_unary("deref", e.n, Base(e.s, e.n.ty))) ELSE Reject(s)
          [] Is(s, "sizeof") -> IF ParenType(Step(s)) THEN R(t.s, new_num(t.n.size))
                                ELSE R(e.s, new_num(e.n.ty.size))
          [] ParenType(s) -> R(c.s, new_unary("cast", c.n, t.n))
          [] OTHER        -> postfix(s)

(* mul ... logor.                                                          *)
OpKind == "||" :> "logor" @@ "&&" :> "logand" @@ "|" :> "bitor" @@ "^" :> "bitxor" @@ "&" :> "bitand"
          @@ "==" :> "eq" @@ "!=" :> "ne" @@ "<" :> "lt" @@ "<=" :> "le" @@ ">" :> "gt" @@ ">=" :> "ge"
          @@ "<<" :> "lsl" @@ ">>" :> "lsr" @@ "+" :> "add" @@ "-" :> "sub"
          @@ "*" :> "mul" @@ "/" :> "div" @@ "%" :> "mod"
CompoundKind == "+=" :> "add" @@ "-=" :> "sub" @@ "*=" :> "mul" @@ "/=" :> "div" @@ "%=" :> "mod"
          @@ "&=" :> "bitand" @@ "|=" :> "bitor" @@ "^=" :> "bitxor" @@ "<<=" :> "lsl" @@ ">>=" :> "lsr"

binary(s, k) == Rule("BinaryRest", Rule("unary", s, <<>>), <<k>>)
BinaryRest(l, k) ==
    IF OpLevel(l.s) < k THEN l
    ELSE LET r == Rule("binary", Step(l.s), <<OpLevel(l.s) + 1>>)
         IN  Rule("BinaryRest", R(r.s, new_binop(r.s, OpKind[Cur(l.s).s], l.n, r.n)), <<k>>)

ternary(s) ==
    LET c == Rule("binary", s, <<1>>)
        a == Rule("expr", Step(c.s), <<>>)
        b == Rule("ternary", skip(a.s, ":"), <<>>)
    IN  IF Is(c.s, "?") THEN R(b.s, Node("cond", a.n.ty) @@ [lhs |-> c.n, rhs |-> a.n, els |-> b.n]) ELSE c

(* l op= r is l = l op r, with l twice; a cast of an lvalue can be         *)
(* assigned to.                                                            *)
expand_compound(s, l, kind) ==
    LET r == Rule("assign", s, <<>>) IN R(r.s, new_assign(l, new_binop(r.s, kind, l, r.n)))

assign(s) ==
    LET l == Rule("ternary", s, <<>>)
        cast == l.n.kind = "cast" /\ is_lvalue(l.n.lhs)
        target == IF cast THEN l.n.lhs ELSE l.n
        r == Rule("assign", Step(l.s), <<>>)
    IN  CASE Is(l.s, "=") -> IF is_lvalue(target) THEN R(r.s, new_binary("assign", target, r.n, l.n.ty))
                             ELSE Reject(s)
          [] OneOf(l.s, DOMAIN CompoundKind) ->
               IF is_lvalue(l.n) THEN expand_compound(Step(l.s), l.n, CompoundKind[Cur(l.s).s]) ELSE Reject(s)
          [] OTHER -> l

CommaLoop(l) ==
    LET r == Rule("assign", Step(l.s), <<>>)
    IN  IF Is(l.s, ",") THEN Rule("CommaLoop", R(r.s, new_binary("comma", l.n, r.n, r.n.ty)), <<>>) ELSE l
expr(s) == Rule("CommaLoop", Rule("assign", s, <<>>), <<>>)
--------------------------------------------------------------------------
Rule(f, s, a) ==
    CASE f = "unary" -> unary(s) [] f = "primary" -> primary(s) [] f = "PostfixLoop" -> PostfixLoop(s)
      [] f = "binary" -> binary(s, a[1]) [] f = "BinaryRest" -> BinaryRest(s, a[1])
      [] f = "ternary" -> ternary(s) [] f = "assign" -> assign(s)
      [] f = "expr" -> expr(s) [] f = "CommaLoop" -> CommaLoop(s)
      [] f = "parse_call_args" -> parse_call_args(s) [] f = "TypeInParens" -> TypeInParens(s)
      [] f = "declspec" -> declspec(s) [] f = "SpecLoop" -> SpecLoop(s, a[1], a[2])
      [] f = "declarator" -> declarator(s, a[1]) [] f = "suffix" -> suffix(s, a[1], a[2])
      [] f = "paren_suffix" -> paren_suffix(s, a[1], a[2]) [] f = "AnsiParams" -> AnsiParams(s, a[1])
      [] f = "eval_const" -> eval_const(s) [] f = "const_ternary" -> const_ternary(s)
      [] f = "const_level" -> const_level(s, a[1]) [] f = "const_rest" -> const_rest(s, a[1])
      [] f = "const_unary" -> const_unary(s)
      [] f = "struct_decl" -> struct_decl(s, a[1]) [] f = "struct_members" -> struct_members(s, a[1])
      [] f = "member_list" -> member_list(s, a[1], a[2]) [] f = "enum_decl" -> enum_decl(s)
=============================================================================
