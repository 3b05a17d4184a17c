---------------------------- MODULE MCPreprocess ----------------------------
(* The programs the preprocessor is tried on. *)
EXTENDS PpReference

Seqs(S, n) == UNION {[1..k -> S] : k \in 1..n}
Hash(d, toks) == <<Punct("#"), Id(d)>> \o toks

(* Expressions: every sequence of a few tokens, and every pair of binary    *)
(* operators without parentheses.                                          *)
BinOps == UNION {Levels[l] : l \in DOMAIN Levels}
ShortExprs == Seqs({Num(2), UNum(1), Punct("-"), Punct("<"), Punct("("), Punct(")")}, 4)
PairExprs == {<<a, Punct(o1), Num(2), Punct(o2), Num(3)>> : a \in {Num(5), UNum(1)}, o1 \in BinOps, o2 \in BinOps}
Ternaries ==
    {<<Num(a), Punct("?")>> \o x \o <<Punct(":")>> \o y : a \in 0..1,
        x \in {<<Num(0)>>, <<Num(1), Punct("?"), Num(0), Punct(":"), Num(3)>>, <<Punct("("), Num(1), Punct(")")>>},
        y \in {<<Num(3)>>, <<Id("X"), Punct("?"), Num(1), Punct(":"), Num(0)>>, <<Punct("-"), Num(1)>>}}
IfPrograms == {<<Hash("if", e), <<Id("a")>>, Hash("endif", <<>>)>> :
                   e \in ShortExprs \cup PairExprs \cup Ternaries}

(* Groups: every file of a few lines. *)
GroupLines == {Hash("if", <<Num(0)>>), Hash("ifdef", <<Id("X")>>), Hash("ifndef", <<Id("X")>>),
               Hash("elif", <<Id("defined"), Id("X")>>), Hash("else", <<>>), Hash("endif", <<>>),
               Hash("define", <<Id("X"), Num(1)>>), Hash("undef", <<Id("X")>>),
               <<Id("X")>>, Hash("include", <<Str("h")>>)}
GroupPrograms == Seqs(GroupLines, 4)
(* Long chains of branches, live and inside a group that is skipped.        *)
Chain3(outer, a, b, c) ==
    <<Hash("if", <<Num(outer)>>), Hash("if", <<Num(a)>>), <<Id("a")>>, Hash("elif", <<Num(b)>>), <<Id("b")>>,
      Hash("elif", <<c>>), <<Id("c")>>, Hash("else", <<>>), <<Id("d")>>, Hash("endif", <<>>), <<Id("e")>>, Hash("endif", <<>>)>>
ChainPrograms == {Chain3(o, a, b, c) : o \in 0..1, a \in 0..1, b \in 0..1, c \in {Num(0), Num(1), Punct("(")}}

OtherPrograms == {<<Hash("if", <<Num(0)>>)>> \o <<l>> \o <<Hash("endif", <<>>), <<Id("a")>> >> :
                    l \in {Hash("error", <<>>), Hash("pragma", <<Id("x")>>), Hash("if", <<Punct("(")>>), <<Punct("#")>>}}
    \cup {<<l>> : l \in {<<Id("D")>>, Hash("error", <<>>), Hash("pragma", <<Id("x")>>), <<Punct("#")>>, Hash("if", <<>>),
                         Hash("include", <<Punct("<"), Id("s"), Punct(">")>>), Hash("include", <<Str("loop")>>),
                         Hash("include", <<Id("s")>>), Hash("include", <<Str("none")>>),
                         Hash("undef", <<Num(1)>>), Hash("define", <<Num(1)>>), Hash("ifdef", <<Num(1)>>)}}

(* Calls: every line of a few tokens with these macros. *)
MacroLines ==
    <<Hash("define", <<Id("A"), Id("B"), Num(1)>>), Hash("define", <<Id("B"), Num(2)>>),
      Hash("define", <<Id("S"), Id("T"), Id("A")>>), Hash("define", <<Id("T"), Id("S"), Num(3)>>),
      Hash("define", <<Id("f"), TouchingParen, Id("x"), Punct(")"), Id("x"), Id("A"), Punct("#"), Id("x")>>),
      Hash("define", <<Id("g"), TouchingParen, Id("x"), Punct(","), Id("y"), Punct(")"),
                       Id("x"), Punct("##"), Id("y"), Id("y")>>),
      Hash("define", <<Id("h"), TouchingParen, Id("x"), Punct(")"), Id("f"), Punct("("), Id("x"), Punct(")")>>)>>
CallTokens == {Id("A"), Id("f"), Id("g"), Punct("("), Punct(")"), Punct(",")}
Once(line, n) == Cardinality({i \in DOMAIN line : line[i] = Id(n)}) <= 1
SomeCalls == {<<Id("g"), Punct("("), a, Punct(","), b, Punct(")")>> : a \in {Id("A"), Id("f"), Id("c")}, b \in {Id("A"), Num(2), Id("c")}}
    \cup {<<Id("h"), Punct("("), Id("A"), Id("c"), Punct(")")>>}
    \cup {<<Id("f"), Punct("(")>> \o x \o <<Punct(")")>> : x \in {<<Id("g"), Punct("("), Id("A"), Punct(","), Id("c"), Punct(")")>>,
              <<Punct("("), Id("A"), Punct(","), Id("A"), Punct(")")>>, <<>>}}
PasteHasOperand(line) == \A i \in DOMAIN line : line[i] = Punct("(") => ~tok_is(line, i + 1, ",")
CallPrograms == {MacroLines \o <<l>> :
    l \in {x \in Seqs(CallTokens, 5) : Once(x, "f") /\ Once(x, "g") /\ PasteHasOperand(x)} \cup SomeCalls
                                                \cup {<<Id("S")>>, <<Id("T"), Id("S")>>}}

SomePrograms == IfPrograms \cup ChainPrograms \cup GroupPrograms \cup OtherPrograms \cup CallPrograms
SomeFiles == <<"", "h">> :> <<Hash("ifndef", <<Id("H")>>), Hash("define", <<Id("H")>>), <<Id("h")>>, Hash("endif", <<>>)>>
    @@ <<"inc", "s">> :> <<Hash("include", <<Str("t")>>), <<Id("s"), Str("u")>>, <<Str("v")>>>>
    @@ <<"inc", "t">> :> <<<<Id("inner")>>>> @@ <<"", "t">> :> <<<<Id("outer")>>>>
    @@ <<"", "k">> :> <<Hash("ifndef", <<Id("K2")>>), Hash("define", <<Id("K2"), Num(2)>>), Hash("endif", <<>>)>>
    @@ <<"", "loop">> :> <<Hash("include", <<Str("loop")>>)>>
SomeDirs == <<"inc">>
SomeDefines == <<<<"D", <<Id("d")>>>>>>
=============================================================================
