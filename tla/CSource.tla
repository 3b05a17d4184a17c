------------------------------ MODULE CSource ------------------------------
(***************************************************************************)
(* C programs as trees, and the tokens they are written with: the input of *)
(* the compiler.  Parentheses are written only where C's precedence asks   *)
(* for them, so that the parser has to find the tree again.                *)
(***************************************************************************)
EXTENDS Words, PpMacro, SequencesExt

(* Types.                                                                  *)
T(kind)      == [k |-> kind]
Ptr(of)      == [k |-> "ptr", of |-> of]
Arr(of, n)   == [k |-> "array", of |-> of, n |-> n]
Fn(of, ps)   == [k |-> "func", of |-> of, ps |-> ps]
StructT(name) == [k |-> "struct", name |-> name]
BitsT(w, uns) == [k |-> "bits", w |-> w, uns |-> uns]

(* Expressions.                                                            *)
Lit(v)           == [e |-> "lit", v |-> v, u |-> FALSE]
ULit(v)          == [e |-> "lit", v |-> v, u |-> TRUE]
V(name)          == [e |-> "name", name |-> name]
StrLit(bytes)    == [e |-> "str", s |-> bytes]
Un(op, a)        == [e |-> "un", op |-> op, a |-> a]
Bin(op, a, b)    == [e |-> "bin", op |-> op, a |-> a, b |-> b]
Asg(op, a, b)    == [e |-> "asg", op |-> op, a |-> a, b |-> b]
Post(op, a)      == [e |-> "post", op |-> op, a |-> a]
If3(c, a, b)     == [e |-> "cond", c |-> c, a |-> a, b |-> b]
Comma(a, b)      == [e |-> "comma", a |-> a, b |-> b]
Idx(a, i)        == [e |-> "idx", a |-> a, i |-> i]
Dot(a, m)        == [e |-> "dot", a |-> a, m |-> m]
Arrow(a, m)      == [e |-> "arrow", a |-> a, m |-> m]
Apply(f, args)   == [e |-> "call", f |-> f, args |-> args]
Conv(t, a)       == [e |-> "cast", t |-> t, a |-> a]
SizeofT(t)       == [e |-> "sizeof", t |-> t]
List(of)         == [e |-> "list", of |-> of]

(* Statements; a body is a sequence.                                       *)
Do(e)               == [s |-> "expr", e |-> e]
Var(name, t, init)  == [s |-> "decl", name |-> name, t |-> t, init |-> init, static |-> FALSE]
Static(name, t, init) == [Var(name, t, init) EXCEPT !.static = TRUE]
IfS(c, a, b)        == [s |-> "if", c |-> c, a |-> a, b |-> b]
While(c, b)         == [s |-> "while", c |-> c, b |-> b]
DoWhile(b, c)       == [s |-> "dowhile", c |-> c, b |-> b]
For(i, c, u, b)     == [s |-> "for", i |-> i, c |-> c, u |-> u, b |-> b]
Switch(c, b)        == [s |-> "switch", c |-> c, b |-> b]
CaseS(v)            == [s |-> "case", v |-> v]
Plain(kind)         == [s |-> kind]                   \* default, break, continue
Ret(e)              == [s |-> "return", e |-> e]
Goto(l)             == [s |-> "goto", l |-> l]
LabelS(l)           == [s |-> "label", l |-> l]
Block(b)            == [s |-> "block", b |-> b]

(* Top level: structs, globals, functions and prototypes.                  *)
Param2(name, t)     == [name |-> name, t |-> t]
StructD(name, ms)   == [d |-> "struct", name |-> name, ms |-> ms]
Global(name, t, init) == [d |-> "global", name |-> name, t |-> t, init |-> init, words |-> <<>>]
Storage(word, g)    == [g EXCEPT !.words = <<word>>]
Func(name, ret, ps, body) ==
    [d |-> "func", name |-> name, t |-> Fn(ret, ps), body |-> body, words |-> <<>>, dots |-> FALSE]
Proto(name, ret, ps) == [d |-> "proto", name |-> name, t |-> Fn(ret, ps), words |-> <<>>]

(* The same thing, written with other tokens than the ones below.          *)
Written(x, toks)    == x @@ [as |-> toks]
IsWritten(x)        == "as" \in DOMAIN x
Only(toks)          == Written([d |-> "nothing"], toks)     \* a declaration that means nothing by itself

--------------------------------------------------------------------------
(* Writing.                                                                *)
Kw(w)  == Token("kw", w, 0, FALSE)
P(x)   == Punct(x)
Paren(toks) == <<P("(")>> \o toks \o <<P(")")>>
RECURSIVE Separated(_, _)
Separated(parts, sep) ==
    IF parts = <<>> THEN <<>>
    ELSE IF Len(parts) = 1 THEN parts[1] ELSE parts[1] \o <<P(sep)>> \o Separated(Tail(parts), sep)

KeywordsOf(t) ==
    CASE t.k = "uint"   -> <<"unsigned">>
      [] t.k = "uchar"  -> <<"unsigned", "char">>
      [] t.k = "ushort" -> <<"unsigned", "short">>
      [] t.k = "bits"   -> IF t.uns THEN <<"unsigned">> ELSE <<"int">>
      [] OTHER          -> <<t.k>>
Keywords(words) == [i \in DOMAIN words |-> Kw(words[i])]
Specifier(t) ==
    IF IsWritten(t) THEN t.as
    ELSE Keywords(KeywordsOf(t)) \o (IF t.k = "struct" THEN <<Id(t.name)>> ELSE <<>>)

RECURSIVE Declared(_, _)
Declared(t, d) ==
    CASE t.k = "ptr"   -> Declared(t.of, IF t.of.k \in {"array", "func"} THEN Paren(<<P("*")>> \o d) ELSE <<P("*")>> \o d)
      [] t.k = "array" -> Declared(t.of, d \o <<P("["), Num(t.n), P("]")>>)
      [] t.k = "func"  -> Declared(t.of, d \o Paren(
                             IF t.ps = <<>> THEN <<Kw("void")>>
                             ELSE Separated([i \in DOMAIN t.ps |-> Declared(t.ps[i].t, <<Id(t.ps[i].name)>>)], ",")))
      [] OTHER         -> Specifier(t) \o d \o (IF t.k = "bits" THEN <<P(":"), Num(t.w)>> ELSE <<>>)

Prec(e) ==
    CASE e.e = "comma" -> 0 [] e.e = "asg" -> 1 [] e.e = "cond" -> 2
      [] e.e = "bin" ->
           CASE e.op = "||" -> 3 [] e.op = "&&" -> 4 [] e.op = "|" -> 5 [] e.op = "^" -> 6 [] e.op = "&" -> 7
             [] e.op \in {"==", "!="} -> 8 [] e.op \in {"<", "<=", ">", ">="} -> 9
             [] e.op \in {"<<", ">>"} -> 10 [] e.op \in {"+", "-"} -> 11 [] OTHER -> 12
      [] e.e \in {"un", "cast", "sizeof"} -> 13
      [] e.e \in {"post", "idx", "dot", "arrow", "call"} -> 14
      [] OTHER -> 15

RECURSIVE Show(_, _), ShowStmt(_), ShowBody(_)
ShowArgs(args) == Separated([i \in DOMAIN args |-> Show(args[i], 1)], ",")
ShowTree(e) ==
    CASE IsWritten(e)  -> e.as
      [] e.e = "lit"   -> <<IF e.u THEN UNum(e.v) ELSE Num(e.v)>>
      [] e.e = "name"  -> <<Id(e.name)>>
      [] e.e = "str"   -> <<Str(e.s)>>
      [] e.e = "un"    -> <<P(e.op)>> \o Show(e.a, 13)
      [] e.e = "cast"  -> Paren(Declared(e.t, <<>>)) \o Show(e.a, 13)
      [] e.e = "sizeof" -> <<Kw("sizeof")>> \o Paren(Declared(e.t, <<>>))
      [] e.e = "bin"   -> Show(e.a, Prec(e)) \o <<P(e.op)>> \o Show(e.b, Prec(e) + 1)
      [] e.e = "asg"   -> Show(e.a, 13) \o <<P(e.op)>> \o Show(e.b, 1)
      [] e.e = "cond"  -> Show(e.c, 3) \o <<P("?")>> \o Show(e.a, 0) \o <<P(":")>> \o Show(e.b, 2)
      [] e.e = "comma" -> Show(e.a, 0) \o <<P(",")>> \o Show(e.b, 1)
      [] e.e = "post"  -> Show(e.a, 14) \o <<P(e.op)>>
      [] e.e = "idx"   -> Show(e.a, 14) \o <<P("[")>> \o Show(e.i, 0) \o <<P("]")>>
      [] e.e = "dot"   -> Show(e.a, 14) \o <<P("."), Id(e.m)>>
      [] e.e = "arrow" -> Show(e.a, 14) \o <<P("->"), Id(e.m)>>
      [] e.e = "call"  -> Show(e.f, 14) \o Paren(ShowArgs(e.args))
      [] e.e = "list"  -> <<P("{")>> \o ShowArgs(e.of) \o <<P("}")>>
Show(e, min) ==
    LET open == IF Prec(e) < min THEN <<P("(")>> ELSE <<>>
    IN  open \o ShowTree(e) \o (IF open = <<>> THEN <<>> ELSE <<P(")")>>)

Semi(toks) == toks \o <<P(";")>>
ShowDecl(d, words) ==
    Semi(Keywords(words) \o Declared(d.t, <<Id(d.name)>>)
         \o (IF d.init = <<>> THEN <<>> ELSE <<P("=")>> \o Show(d.init[1], 1)))
ShowStmt(s) ==
    CASE IsWritten(s)   -> s.as
      [] s.s = "expr"   -> Semi(Show(s.e, 0))
      [] s.s = "decl"   -> ShowDecl(s, IF s.static THEN <<"static">> ELSE <<>>)
      [] s.s = "if"     -> <<Kw("if")>> \o Paren(Show(s.c, 0)) \o ShowBody(s.a)
                           \o (IF s.b = <<>> THEN <<>> ELSE <<Kw("else")>> \o ShowBody(s.b))
      [] s.s = "while"  -> <<Kw("while")>> \o Paren(Show(s.c, 0)) \o ShowBody(s.b)
      [] s.s = "dowhile" -> <<Kw("do")>> \o ShowBody(s.b) \o <<Kw("while")>> \o Semi(Paren(Show(s.c, 0)))
      [] s.s = "for"    -> <<Kw("for"), P("(")>> \o ShowStmt(s.i) \o Semi(Show(s.c, 0))
                           \o Show(s.u, 0) \o <<P(")")>> \o ShowBody(s.b)
      [] s.s = "switch" -> <<Kw("switch")>> \o Paren(Show(s.c, 0)) \o ShowBody(s.b)
      [] s.s = "case"   -> <<Kw("case"), Num(s.v), P(":")>>
      [] s.s = "default" -> <<Kw("default"), P(":")>>
      [] s.s = "return" -> <<Kw("return")>> \o Semi(Show(s.e, 0))
      [] s.s = "goto"   -> Semi(<<Kw("goto"), Id(s.l)>>)
      [] s.s = "label"  -> <<Id(s.l), P(":"), P(";")>>
      [] s.s = "block"  -> ShowBody(s.b)
      [] OTHER          -> Semi(<<Kw(s.s)>>)
ShowBody(b) == <<P("{")>> \o FlattenSeq([i \in DOMAIN b |-> ShowStmt(b[i])]) \o <<P("}")>>

ShowItem(d) ==
    CASE IsWritten(d)   -> d.as
      [] d.d = "struct" -> <<Kw("struct"), Id(d.name), P("{")>>
                           \o FlattenSeq([i \in DOMAIN d.ms |-> Semi(Declared(d.ms[i].t, <<Id(d.ms[i].name)>>))])
                           \o <<P("}"), P(";")>>
      [] d.d = "global" -> ShowDecl(d, d.words)
      [] d.d = "proto"  -> Semi(Declared(d.t, <<Id(d.name)>>))
      [] d.d = "func"   ->
           LET head == [i \in DOMAIN d.words |-> Kw(d.words[i])] \o Declared(d.t, <<Id(d.name)>>)
           IN  (IF d.dots THEN Front(head) \o <<P(","), P("..."), P(")")>> ELSE head) \o ShowBody(d.body)

(* The lines of a file: one for each item.                                 *)
Lines(items) == [i \in DOMAIN items |-> ShowItem(items[i])]
=============================================================================
