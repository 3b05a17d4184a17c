---------------------------- MODULE PpReference -----------------------------
(***************************************************************************)
(* What C says the preprocessor computes, stated independently of how      *)
(* preprocess.c does it: expansion with a hide set per token, expressions  *)
(* by splitting at the operator that binds last, groups by matching #if    *)
(* with #endif, inclusion by putting the text of the file in its place.    *)
(***************************************************************************)
EXTENDS Preprocess

-----------------------------------------------------------------------------
(* Expansion.  A hidden token is a token with the names it may not expand. *)

Hide(toks, hs) == [i \in DOMAIN toks |-> [t |-> toks[i], hs |-> hs]]
Bare(htoks) == [i \in DOMAIN htoks |-> htoks[i].t]
Bad == <<Token("failed", "C", 0, FALSE)>>

(* The position of the ')' that closes the '(' at position 2, or 0. *)
DepthAt(toks, i) == Cardinality({j \in 2..i : tok_is(toks, j, "(")})
                    - Cardinality({j \in 2..i : tok_is(toks, j, ")")})
Closing(toks) ==
    LET First(c) == IF c = {} THEN 0 ELSE CHOOSE i \in c : \A j \in c : i <= j
    IN First({i \in DOMAIN toks : i > 2 /\ tok_is(toks, i, ")") /\ DepthAt(toks, i) = 0})
(* The arguments between the parentheses of toks[2] and toks[close]. *)
Actuals(htoks, close) ==
    LET Nth(cuts, n) == CHOOSE i \in cuts : Cardinality({k \in cuts : k < i}) = n - 1
        Between(cuts) == [n \in 1..(Cardinality(cuts) - 1) |->
                             SubSeq(htoks, Nth(cuts, n) + 1, Nth(cuts, n + 1) - 1)]
        Commas(toks) == {i \in 3..(close - 1) : tok_is(toks, i, ",") /\ DepthAt(toks, i) = 1}
    IN IF close = 3 THEN <<>> ELSE Between({2, close} \cup Commas(Bare(htoks)))

RECURSIVE CExpand(_, _)
RECURSIVE CSubst(_, _, _, _)
(* The body with the arguments put in: # takes the spelling, the operands  *)
(* of ## are not expanded, any other argument is expanded by itself first. *)
CSubst(macros, m, args, i) ==
    LET body == m.body
        Arg(j) == args[param_index(m, body[j])]
        Operand(j) == IF is_param(m, body, j) THEN Bare(Arg(j)) ELSE <<body[j]>>
    IN IF i > Len(body) THEN <<>>
       ELSE IF tok_is(body, i, "#") /\ is_param(m, body, i + 1)
       THEN Hide(<<stringize(Bare(Arg(i + 1)))>>, {}) \o CSubst(macros, m, args, i + 2)
       ELSE IF tok_is(body, i + 1, "##")
       THEN Hide(RunTogether(<<>>, Operand(i) \o Operand(i + 2)), {})
            \o CSubst(macros, m, args, i + 3)
       ELSE (IF is_param(m, body, i) THEN CExpand(macros, Arg(i))
             ELSE Hide(<<body[i]>>, {})) \o CSubst(macros, m, args, i + 1)

CExpand(macros, ht) ==
    LET t == ht[1].t
        m == macros[t.s]
        Keep == <<ht[1]>> \o CExpand(macros, Tail(ht))
        (* the result of the call, hidden, in front of what follows it *)
        Put(r, hs, from) ==
            CExpand(macros, [i \in DOMAIN r |-> [r[i] EXCEPT !.hs = @ \cup hs]]
                            \o SubSeq(ht, from, Len(ht)))
        With(args, close) ==
            IF Len(args) # (IF close = 1 THEN 0 ELSE m.np) THEN Hide(Bad, {})
            ELSE Put(CSubst(macros, m, args, 1),
                     (ht[1].hs \cap ht[close].hs) \cup {t.s}, close + 1)
        (* the call ends at close: at the name itself without parameters *)
        Ending(close) ==
            IF close = 0 THEN Hide(Bad, {})
            ELSE With(IF close = 1 THEN <<>> ELSE Actuals(ht, close), close)
    IN IF ht = <<>> THEN <<>>
       ELSE IF \/ ~find_macro(macros, <<t>>, 1) \/ t.s \in ht[1].hs
               \/ m.np >= 0 /\ ~tok_is(Bare(ht), 2, "(")
       THEN Keep
       ELSE Ending(IF m.np < 0 THEN 1 ELSE Closing(Bare(ht)))

CLine(macros, line) == Bare(CExpand(macros, Hide(line, {})))

-----------------------------------------------------------------------------
(* Expressions: <<value, unsigned>>, or <<>> when C does not accept it.    *)

Norm(v, u) == <<IF u THEN v % WordSize ELSE v, u>>
CArith(op, a, b) ==
    LET u == a[2] \/ b[2]
        x == Norm(a[1], u)[1]
        y == Norm(b[1], u)[1]
    IN CASE op = "||" -> <<Truth(a[1] # 0 \/ b[1] # 0), FALSE>>
         [] op = "&&" -> <<Truth(a[1] # 0 /\ b[1] # 0), FALSE>>
         [] op \in {"==", "!=", "<", "<=", ">", ">="} -> <<Truth(Compares(op, x, y)), FALSE>>
         [] op \in {"<<", ">>"} /\ b[1] \notin 0..(WordBits - 1) -> <<>>
         [] op = "<<" -> Norm(a[1] * 2 ^ b[1], a[2])
         [] op = ">>" -> Norm(a[1] \div 2 ^ b[1], a[2])
         [] op = "+" -> Norm(x + y, u) [] op = "-" -> Norm(x - y, u)
         [] op = "*" -> Norm(x * y, u)
         [] op = "/" -> <<IF y = 0 THEN 0 ELSE CDiv(x, y), u>>
         [] op = "%" -> <<IF y = 0 THEN 0 ELSE CMod(x, y), u>>
         [] op = "&" -> Norm((x % WordSize) & (y % WordSize), u)
         [] op = "|" -> Norm((x % WordSize) | (y % WordSize), u)
         [] op = "^" -> Norm((x % WordSize) ^^ (y % WordSize), u)

Enclosed(toks, i) == Cardinality({j \in 1..i : tok_is(toks, j, "(")})
                   - Cardinality({j \in 1..(i - 1) : tok_is(toks, j, ")")})
(* Operators outside parentheses, with an operand before them. *)
Outer(toks, ops) ==
    {i \in DOMAIN toks :
        /\ IsOneOf(toks, i, ops) /\ Enclosed(toks, i) = 0
        /\ i > 1 /\ (toks[i - 1].k \in {"num", "id"} \/ tok_is(toks, i - 1, ")"))}
Largest(S) == CHOOSE i \in S : \A j \in S : j <= i
Smallest(S) == CHOOSE i \in S : \A j \in S : i <= j

RECURSIVE CValue(_)
CValue(toks) ==
    LET n == Len(toks)
        Part(i, j) == CValue(SubSeq(toks, i, j))
        marks == Outer(toks, {"?"})
        q == Smallest(marks)
        (* the ':' of the first '?' *)
        colons == {i \in Outer(toks, {":"}) :
                      Cardinality({j \in marks : j < i}) =
                      Cardinality({j \in Outer(toks, {":"}) : j <= i})}
        used == {l \in DOMAIN Levels : Outer(toks, Levels[l]) # {}}
        k == Largest(Outer(toks, Levels[Smallest(used)]))
        one == Part(2, n)
    IN IF n = 0 THEN <<>>
       ELSE IF marks # {}
       THEN IF colons = {} \/ Part(1, q - 1) = <<>> THEN <<>>
            ELSE IF Part(1, q - 1)[1] # 0 THEN Part(q + 1, Smallest(colons) - 1)
            ELSE Part(Smallest(colons) + 1, n)
       ELSE IF used # {}
       THEN IF Part(1, k - 1) = <<>> \/ Part(k + 1, n) = <<>> THEN <<>>
            ELSE CArith(toks[k].s, Part(1, k - 1), Part(k + 1, n))
       ELSE IF n = 1
       THEN IF toks[1].k = "num" THEN <<toks[1].v, toks[1].u>>
            ELSE IF toks[1].k = "id" THEN <<0, FALSE>> ELSE <<>>
       ELSE IF IsOneOf(toks, 1, UnaryOps)
       THEN IF one = <<>> THEN <<>>
            ELSE CASE toks[1].s = "+" -> one
                   [] toks[1].s = "-" -> Norm(-one[1], one[2])
                   [] toks[1].s = "~" -> Norm(-one[1] - 1, one[2])
                   [] toks[1].s = "!" -> <<Truth(one[1] = 0), FALSE>>
       ELSE IF tok_is(toks, 1, "(") /\ tok_is(toks, n, ")") THEN Part(2, n - 1)
       ELSE <<>>

-----------------------------------------------------------------------------
(* Groups and files.  CFile gives the macro table and the output of a list *)
(* of lines, ok = FALSE when C does not accept it.                         *)

Word2(line) == IF tok_is(line, 1, "#") THEN IF Len(line) > 1 THEN line[2].s ELSE "" ELSE "text"
Opens == {"if", "ifdef", "ifndef"}
Nesting(lines, i) == Cardinality({j \in 1..i : Word2(lines[j]) \in Opens})
                     - Cardinality({j \in 1..i : Word2(lines[j]) = "endif"})
(* The branches of the group that line 1 opens, and its end, by position. *)
Marks(lines) == {i \in DOMAIN lines :
                    /\ \A j \in 1..(i - 1) : Nesting(lines, j) > 0
                    /\ \/ i = 1
                       \/ Nesting(lines, i) = 1 /\ Word2(lines[i]) \in {"elif", "else"}
                       \/ Nesting(lines, i) = 0}

Nothing == [ok |-> FALSE, m |-> NoMacros, out |-> <<>>]
(* Does the branch that line opens hold?  <<>> when C rejects the line. *)
GroupIsLive(macros, line) ==
    LET Verdict(c) == IF c = <<>> THEN <<>> ELSE <<c[1] # 0>>
        ValueOf(e) == IF HasFailed(e) THEN <<>> ELSE CValue(e)
    IN CASE Word2(line) = "else" -> <<TRUE>>
         [] Word2(line) \in {"ifdef", "ifndef"} ->
              IF tok_ident(line, 3)
              THEN <<find_macro(macros, line, 3) <=> Word2(line) = "ifdef">> ELSE <<>>
         [] Word2(line) = "elif" /\ Len(line) = 2 -> <<TRUE>>
         [] OTHER -> Verdict(ValueOf(CLine(macros,
                                pre_defs(macros, SubSeq(line, 3, Len(line))))))

RECURSIVE CFile(_, _, _, _)
(* dir is the directory of the file, depth the number of files around it. *)
CFile(macros, lines, dir, depth) ==
    LET line == lines[1]
        rest == Tail(lines)
        w == Word2(line)
        (* the first part, and then the rest in the table it leaves *)
        Then(first, more) ==
            LET r == CFile(first.m, more, dir, depth)
            IN IF first.ok /\ r.ok THEN [r EXCEPT !.out = first.out \o @] ELSE Nothing
        Plain(m, out) == Then([ok |-> TRUE, m |-> m, out |-> out], rest)
        (* the group that line opens: v says of each branch whether it holds, *)
        (* C evaluates them up to the first that does                         *)
        Group(marks, v) ==
            LET holding == {i \in DOMAIN v : v[i] = <<TRUE>>}
                Chosen(taken) ==
                    IF \E i \in DOMAIN v : v[i] = <<>> /\ i < taken THEN Nothing
                    ELSE IF holding = {} THEN [ok |-> TRUE, m |-> macros, out |-> <<>>]
                    ELSE CFile(macros, SubSeq(lines, taken + 1,
                                              Smallest({j \in marks : j > taken}) - 1), dir, depth)
            IN Then(Chosen(IF holding = {} THEN Largest(marks) ELSE Smallest(holding)),
                    SubSeq(lines, Largest(marks) + 1, Len(lines)))
        Closed(marks) ==
            IF Nesting(lines, Largest(marks)) # 0 THEN Nothing
            ELSE Group(marks, [i \in marks \ {Largest(marks)} |-> GroupIsLive(macros, lines[i])])
        angle == tok_is(line, 3, "<")
        file == IF angle THEN line[4].s ELSE line[3].s
        at == {n \in DOMAIN IncDirs : <<IncDirs[n], file>> \in DOMAIN PpFiles}
        where == IF ~angle /\ dir # "" /\ <<dir, file>> \in DOMAIN PpFiles THEN dir
                 ELSE IF at # {} THEN IncDirs[Smallest(at)] ELSE IF angle THEN "?" ELSE ""
        Defined(def) == IF def.np = -2 THEN Nothing
                        ELSE Plain(add_macro(macros, line[3].s, def), <<>>)
        Expanded(e) == IF HasFailed(e) THEN Nothing ELSE Plain(macros, e)
    IN IF lines = <<>> THEN [ok |-> TRUE, m |-> macros, out |-> <<>>]
       ELSE IF w \in Opens
       THEN Closed(Marks(lines))
       ELSE CASE w \in {"elif", "else", "endif", "error"} -> Nothing
              [] w \in {"define", "undef"} /\ ~tok_ident(line, 3) -> Nothing
              [] w = "include" /\ ~angle /\ (Len(line) < 3 \/ line[3].k # "str") -> Nothing
              [] w = "define" -> Defined(do_define(tokenize(<<line>>), 3))
              [] w = "undef" -> Plain(del_macro(macros, line[3].s), <<>>)
              [] w = "" /\ rest = <<>> -> Nothing
              [] w \in {"pragma", ""} -> Plain(macros, <<>>)
              [] w = "include" ->
                   IF depth >= MaxInclude \/ <<where, file>> \notin DOMAIN PpFiles THEN Nothing
                   ELSE Then(CFile(macros, PpFiles[<<where, file>>], where, depth + 1), rest)
              [] OTHER -> Expanded(CLine(macros, line))

-----------------------------------------------------------------------------
NotBol(toks) == [i \in DOMAIN toks |-> [toks[i] EXCEPT !.b = FALSE]]
CResult == CFile(apply_defines(NoMacros, PpDefines), ppSource, "", 0)

Agrees(c) ==
    /\ ppStatus = "done" =>
         /\ c.ok
         /\ NotBol(UpToEof(Top.out)) = NotBol(merge_adjacent_strings(c.out))
    /\ ppStatus \notin {"idle", "run", "done"} => ~c.ok

(* TYPE: the calls are nested no deeper than the limits of the code, and    *)
(* positions stay inside their chains (pp_tokens never reads past the end   *)
(* of a file).                                                              *)
PpTypeOK ==
    /\ Len(ppCalls) \in 0..(MaxInclude + 1)
    /\ Len(ppCond) <= MaxCond
    /\ \A c \in DOMAIN ppCalls : ppCalls[c].i \in DOMAIN ppCalls[c].toks

(* preprocess.c, whole: when pp_tokens returns, the tokens it hands to the  *)
(* parser are the ones C prescribes (live groups only, each line expanded   *)
(* in the macro table of its place, files in the place of their #include),  *)
(* and it gives up on a program only when C does not accept it.             *)
OutputIsC == ppStatus \notin {"idle", "run"} => Agrees(CResult)
=============================================================================
