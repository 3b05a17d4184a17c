------------------------------- MODULE PpExpr -------------------------------
(***************************************************************************)
(* The evaluator of #if and #elif: preprocess.c lines 557-892 (the         *)
(* recursive descent, with the skipping mode for the branch of ?: that is  *)
(* not taken); ConstInt says what an operator computes.  The ten           *)
(* functions eval_or ... eval_mul differ in their operators only: they are *)
(* the levels of one operator, and so are skip_or ... skip_mul.            *)
(***************************************************************************)
EXTENDS PpMacro, ConstInt

Levels == <<{"||"}, {"&&"}, {"|"}, {"^"}, {"&"}, {"==", "!="},
            {"<", "<=", ">", ">="}, {"<<", ">>"}, {"+", "-"}, {"*", "/", "%"}>>
UnaryOps == {"+", "-", "~", "!"}
IsOneOf(toks, i, ops) == \E p \in ops : tok_is(toks, i, p)

(* A value: the number, its unsignedness (cc_eval_unsigned after the call), *)
(* the position after it, and whether the evaluator has exited.             *)
Value(v, u, i) == [v |-> v, u |-> u, i |-> i, ok |-> TRUE]
Exited(i) == [v |-> 0, u |-> FALSE, i |-> i, ok |-> FALSE]

-----------------------------------------------------------------------------
(* The evaluating functions call one another through PpEval and the skipping *)
(* ones through PpSkip, defined after them: the function, the tokens, where   *)
(* to go on and the level.                                                 *)
RECURSIVE PpEval(_, _, _, _), PpSkip(_, _, _, _)

(* Taking one token of the list s; positions past the end are at_end. *)
expect(val, toks, p) ==
    IF ~val.ok THEN val
    ELSE IF tok_is(toks, val.i, p) THEN [val EXCEPT !.i = @ + 1] ELSE Exited(val.i)

eval_primary(toks, i) ==
    IF i > Len(toks) THEN Exited(i)
    ELSE IF toks[i].k = "num" THEN Value(toks[i].v, toks[i].u, i + 1)
    ELSE IF toks[i].k = "id" THEN Value(0, FALSE, i + 1)
    ELSE IF tok_is(toks, i, "(") THEN expect(PpEval("expr", toks, i + 1, 0), toks, ")")
    ELSE Exited(i)

UnaryOp(op, x) ==
    IF ~x.ok \/ op = "+" THEN x
    ELSE IF op = "-" THEN [x EXCEPT !.v = -@]
    ELSE IF op = "~" THEN [x EXCEPT !.v = -@ - 1]
    ELSE [x EXCEPT !.v = Truth(@ = 0), !.u = FALSE]
eval_unary(toks, i) ==
    IF IsOneOf(toks, i, UnaryOps) THEN UnaryOp(toks[i].s, PpEval("unary", toks, i + 1, 0))
    ELSE eval_primary(toks, i)

EvalLevel(toks, i, l) ==
    IF l > Len(Levels) THEN PpEval("unary", toks, i, 0)
    ELSE PpEval("rest", toks, PpEval("level", toks, i, l + 1), l)
(* The while loop of one level: left to right, as long as an operator of   *)
(* the level follows.                                                      *)
BinaryValue(i, r) == IF r = <<>> THEN Exited(i) ELSE Value(r[1], r[2], i)
EvalRest(toks, left, l) ==
    IF ~left.ok \/ ~IsOneOf(toks, left.i, Levels[l]) THEN left
    ELSE LET right == PpEval("level", toks, left.i + 1, l + 1)
         IN IF ~right.ok THEN right
            ELSE PpEval("rest", toks,
                      BinaryValue(right.i, cc_binary(left.v, left.u, right.v, right.u, toks[left.i].s)), l)

(* Skipping returns a position only and never fails.  An unclosed '(' ends *)
(* at a ':' one level deep.                                                *)
SkipGroup(toks, i, depth) ==
    IF i > Len(toks) THEN i
    ELSE IF tok_is(toks, i, "(") THEN PpSkip("group", toks, i + 1, depth + 1)
    ELSE IF tok_is(toks, i, ")")
         THEN IF depth = 1 THEN i + 1 ELSE PpSkip("group", toks, i + 1, depth - 1)
    ELSE IF tok_is(toks, i, ":") /\ depth = 1 THEN i
    ELSE PpSkip("group", toks, i + 1, depth)
skip_primary(toks, i) ==
    IF i > Len(toks) THEN i
    ELSE IF tok_is(toks, i, "(") THEN PpSkip("group", toks, i + 1, 1) ELSE i + 1
SkipLevel(toks, i, l) ==
    IF l <= Len(Levels) THEN PpSkip("rest", toks, PpSkip("level", toks, i, l + 1), l)
    ELSE IF IsOneOf(toks, i, UnaryOps) THEN PpSkip("level", toks, i + 1, l)
    ELSE skip_primary(toks, i)
SkipRest(toks, i, l) ==
    IF IsOneOf(toks, i, Levels[l]) THEN PpSkip("rest", toks, PpSkip("level", toks, i + 1, l + 1), l)
    ELSE i
skip_expr(toks, i) ==
    LET j == PpSkip("level", toks, i, 1)
        k == PpSkip("expr", toks, j + 1, 0)
    IN IF ~tok_is(toks, j, "?") THEN j
       ELSE IF tok_is(toks, k, ":") THEN PpSkip("expr", toks, k + 1, 0) ELSE k
PpSkip(f, toks, i, l) ==
    CASE f = "expr" -> skip_expr(toks, i) [] f = "level" -> SkipLevel(toks, i, l)
      [] f = "rest" -> SkipRest(toks, i, l) [] f = "group" -> SkipGroup(toks, i, l)

(* The two ends of ?: - the value of the branch taken, the other skipped.  *)
SkipBehind(toks, x) == IF x.ok THEN [x EXCEPT !.i = PpSkip("expr", toks, x.i, 0)] ELSE x
EvalBehind(toks, x) == IF x.ok THEN PpEval("expr", toks, x.i, 0) ELSE x
eval_expr(toks, i) ==
    LET c == PpEval("level", toks, i, 1)
    IN IF ~c.ok \/ ~tok_is(toks, c.i, "?") THEN c
       ELSE IF c.v # 0 THEN SkipBehind(toks, expect(PpEval("expr", toks, c.i + 1, 0), toks, ":"))
       ELSE EvalBehind(toks, expect(Value(0, FALSE, PpSkip("expr", toks, c.i + 1, 0)), toks, ":"))
PpEval(f, toks, i, l) ==
    CASE f = "expr" -> eval_expr(toks, i) [] f = "unary" -> eval_unary(toks, i)
      [] f = "level" -> EvalLevel(toks, i, l) [] f = "rest" -> EvalRest(toks, i, l)

(* The whole expression: a NULL chain is dereferenced (the program dies),  *)
(* and tokens left over are an error.                                      *)
AllRead(toks, x) == IF x.ok /\ x.i <= Len(toks) THEN Exited(x.i) ELSE x
eval_chain(toks) == IF toks = <<>> THEN Exited(1) ELSE AllRead(toks, PpEval("expr", toks, 1, 0))
=============================================================================
