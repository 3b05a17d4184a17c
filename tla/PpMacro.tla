------------------------------ MODULE PpMacro -------------------------------
(***************************************************************************)
(* Macro expansion of the preprocessor: symcc/src/preprocess.c, lines      *)
(* 137-554.  A token carries its kind, its spelling (of a string literal:  *)
(* the bytes), the value of a number and whether it is the first of a      *)
(* source line.  A chain of tokens is a sequence; a NULL pointer is a      *)
(* position past its end.  exit(1) gives a chain that HasFailed.           *)
(* The expanding flag of a macro is the set of names under expansion.      *)
(***************************************************************************)
EXTENDS Integers, Sequences, FiniteSets, TLC

Token(kind, spell, value, bol) ==
    [k |-> kind, s |-> spell, v |-> value, u |-> FALSE, b |-> bol]
Id(name) == Token("id", name, 0, FALSE)
Punct(name) == Token("punct", name, 0, FALSE)
Num(n) == Token("num", ToString(n), n, FALSE)
UNum(n) == [Num(n) EXCEPT !.s = @ \o "u", !.u = TRUE]
Str(spell) == Token("str", spell, 0, FALSE)
Eof == Token("eof", "", 0, FALSE)

(* The tokens tokenize() makes of a line: the first has at_bol set. *)
AtBol(line) ==
    [i \in DOMAIN line |-> IF i = 1 THEN [line[i] EXCEPT !.b = TRUE] ELSE line[i]]

tok_is(toks, i, p) == i \in DOMAIN toks /\ toks[i].k = "punct" /\ toks[i].s = p
tok_ident(toks, i) == i \in DOMAIN toks /\ toks[i].k = "id"
tok_at_bol(toks, i) == i \in DOMAIN toks /\ toks[i].k # "eof" /\ toks[i].b

(* What exit(1) leaves: the compiler has stopped, and why. *)
Failed(why) == <<Token("failed", why, 0, FALSE)>>
HasFailed(toks) == \E i \in DOMAIN toks : toks[i].k = "failed"

(* The last position of the line that position i is on. *)
line_end(toks, i) ==
    CHOOSE j \in i..Len(toks) :
        /\ \A k \in (i + 1)..j : toks[k].k # "eof" /\ ~tok_at_bol(toks, k)
        /\ j + 1 \in DOMAIN toks =>
             toks[j + 1].k = "eof" \/ tok_at_bol(toks, j + 1)

-----------------------------------------------------------------------------
(* The macro table: a function from names to parameters and body.          *)
(* nparams = -1 marks an object-like macro.                                *)

NoMacros == [n \in {} |-> 0]
Macro(nparams, params, body) == [np |-> nparams, ps |-> params, body |-> body]

find_macro(macros, toks, i) == tok_ident(toks, i) /\ toks[i].s \in DOMAIN macros
add_macro(macros, name, m) ==
    [n \in DOMAIN macros \cup {name} |-> IF n = name THEN m ELSE macros[n]]
del_macro(macros, name) == [n \in DOMAIN macros \ {name} |-> macros[n]]

param_index(m, t) ==
    IF \E i \in DOMAIN m.ps : m.ps[i] = t.s
    THEN CHOOSE i \in DOMAIN m.ps :
             m.ps[i] = t.s /\ \A j \in 1..(i - 1) : m.ps[j] # t.s
    ELSE 0
is_param(m, toks, i) == m.np >= 0 /\ tok_ident(toks, i) /\ param_index(m, toks[i]) > 0

-----------------------------------------------------------------------------
(* collect_args: the arguments of a call as subsequences of the chain, or  *)
(* ok = FALSE where the code gives up (a line start, the end of the file). *)
(* `from' is the first token of the argument being read.                   *)
RECURSIVE CollectFrom(_, _, _, _, _)
CollectFrom(toks, i, from, depth, args) ==
    LET this == SubSeq(toks, from, i - 1)
        Next(d) == CollectFrom(toks, i + 1, from, d, args)
    IN IF i \notin DOMAIN toks \/ toks[i].k = "eof" \/ tok_at_bol(toks, i)
       THEN [ok |-> FALSE, args |-> <<>>, after |-> i]
       ELSE IF tok_is(toks, i, ")") /\ depth = 0
       THEN [ok |-> TRUE, after |-> i + 1,
             args |-> IF args = <<>> /\ this = <<>> THEN <<>> ELSE Append(args, this)]
       ELSE IF tok_is(toks, i, ",") /\ depth = 0
       THEN CollectFrom(toks, i + 1, i + 1, 0, Append(args, this))
       ELSE Next(IF tok_is(toks, i, "(") THEN depth + 1
                 ELSE IF tok_is(toks, i, ")") THEN depth - 1 ELSE depth)

collect_args(toks, i) == CollectFrom(toks, i, i, 0, <<>>)

(* # of an argument: a string token with one space between the tokens. *)
RECURSIVE Spaced(_)
Spaced(arg) == IF arg = <<>> THEN ""
               ELSE IF Len(arg) = 1 THEN arg[1].s
               ELSE arg[1].s \o " " \o Spaced(Tail(arg))
stringize(arg) == Str(Spaced(arg))

(* tokenize() of spellings run together without spaces, which is what ##   *)
(* makes of its left token and of every token of its right one: words and  *)
(* digits flow into the token before them, two punctuators may be one      *)
(* (longest match), a word after a number is "invalid number".             *)
Punct2 == {"==", "!=", "<=", ">=", "&&", "||", "##", "<<", ">>", "+=", "-=", "*=",
           "/=", "%=", "&=", "|=", "^=", "++", "--", "->"}
RECURSIVE RunTogether(_, _)
RunTogether(done, toks) ==
    IF toks = <<>> THEN AtBol(done)
    ELSE LET t == [Head(toks) EXCEPT !.b = FALSE]
             n == Len(done)
             last == done[n]
             Grow(kind, value) ==
                 RunTogether([done EXCEPT ![n] = Token(kind, last.s \o t.s, value, FALSE)],
                             Tail(toks))
         IN IF n = 0 THEN RunTogether(<<t>>, Tail(toks))
            ELSE IF last.k = "id" /\ t.k \in {"id", "num"} THEN Grow("id", 0)
            ELSE IF last.k = "num" /\ t.k = "num" THEN Grow("num", 10 * last.v + t.v)
            ELSE IF last.k = "num" /\ t.k = "id" THEN Failed("invalid number")
            ELSE IF last.k = "punct" /\ t.k = "punct" /\ last.s \o t.s \in Punct2
                 THEN Grow("punct", 0)
            ELSE RunTogether(Append(done, t), Tail(toks))

-----------------------------------------------------------------------------
(* substitute and expand_range call each other.  `active' holds the names  *)
(* whose expanding flag is set: a macro is marked before its body is       *)
(* substituted, so also while its own arguments are expanded.              *)
RECURSIVE SubstFrom(_, _, _, _, _, _)
RECURSIVE ExpandFrom(_, _, _, _, _, _)

WholeLine(macros, active, toks) ==
    IF HasFailed(toks) THEN toks ELSE ExpandFrom(macros, active, toks, 1, Len(toks) + 1, <<>>)
substitute(macros, active, m, args) == SubstFrom(macros, active, m, args, 1, <<>>)
expand_range(macros, active, toks, head, tail) ==
    ExpandFrom(macros, active, toks, head, tail + 1, <<>>)

SubstFrom(macros, active, m, args, i, out) ==
    LET body == m.body
        Arg(j) == args[param_index(m, body[j])]
        Go(j, add) == SubstFrom(macros, active, m, args, j, out \o add)
    IN IF HasFailed(out) THEN out
       ELSE IF i > Len(body) THEN out
       ELSE IF tok_is(body, i, "##")
       THEN IF out = <<>> THEN Failed("## at beginning")
            ELSE IF i = Len(body) THEN Failed("## at end")
            ELSE SubstFrom(macros, active, m, args, i + 2,
                     SubSeq(out, 1, Len(out) - 1) \o
                     RunTogether(<<out[Len(out)]>>,
                                 IF is_param(m, body, i + 1) THEN Arg(i + 1)
                                 ELSE <<body[i + 1]>>))
       ELSE IF m.np >= 0 /\ tok_is(body, i, "#") /\ is_param(m, body, i + 1)
       THEN Go(i + 2, <<stringize(Arg(i + 1))>>)
       ELSE IF is_param(m, body, i)
       THEN Go(i + 1, IF tok_is(body, i + 1, "##") \/ Arg(i) = <<>> THEN Arg(i)
                      ELSE WholeLine(macros, active, Arg(i)))
       ELSE Go(i + 1, <<body[i]>>)

(* `stop' is tail->next: the loop ends there or at the end of the chain, so *)
(* a call that reads past `stop' runs on to the end of the chain.           *)
ExpandFrom(macros, active, toks, i, stop, out) ==
    LET Go(j, add) == ExpandFrom(macros, active, toks, j, stop, out \o add)
        name == toks[i].s
        m == macros[name]
        plain == m.np < 0
        call == IF plain THEN [ok |-> TRUE, args |-> <<>>, after |-> i + 1] ELSE collect_args(toks, i + 2)
        inside == active \cup {name}
    IN IF HasFailed(out) \/ i = stop \/ i > Len(toks) THEN out
       ELSE IF ~find_macro(macros, toks, i) \/ name \in active THEN Go(i + 1, <<toks[i]>>)
       ELSE IF ~plain /\ ~tok_is(toks, i + 1, "(") THEN Go(i + 1, <<toks[i]>>)
       ELSE IF ~call.ok THEN Failed("unterminated macro argument list")
       ELSE IF ~plain /\ Len(call.args) # m.np THEN Failed("wrong number of arguments")
       ELSE Go(call.after, WholeLine(macros, inside, substitute(macros, inside, m, call.args)))

(* Neighbouring string literals become one. *)
RECURSIVE merge_adjacent_strings(_)
merge_adjacent_strings(toks) ==
    IF Len(toks) < 2 THEN toks
    ELSE IF toks[1].k = "str" /\ toks[2].k = "str"
         THEN merge_adjacent_strings(
                  <<[toks[1] EXCEPT !.s = toks[1].s \o toks[2].s]>> \o SubSeq(toks, 3, Len(toks)))
         ELSE <<toks[1]>> \o merge_adjacent_strings(Tail(toks))
=============================================================================
