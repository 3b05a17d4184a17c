----------------------------- MODULE Preprocess -----------------------------
(***************************************************************************)
(* The directives of the preprocessor, symcc/src/preprocess.c lines        *)
(* 896-1362: pp_tokens reads a chain line by line, one action per kind of  *)
(* line.  #include calls pp_tokens again, so the state is a stack of calls *)
(* (chain, position, directory of the file, output) that share the macro   *)
(* table and the stack of conditions.                                      *)
(***************************************************************************)
EXTENDS PpExpr

CONSTANTS
    PpFiles,      \* <<directory, name>> -> lines, the files that can be opened
    IncDirs,      \* the -I directories, in order
    PpDefines,    \* the -D options, in order: <<name, body>>
    MaxInclude,   \* 64 in the code
    MaxCond       \* 64 in the code

VARIABLES
    ppSource,     \* the main file being read
    ppCalls,      \* the calls of pp_tokens, innermost last
    ppMacros,     \* macros
    ppCond,       \* cond_skip and cond_taken up to cond_depth
    ppStatus      \* "idle", "run", "done", or what exit(1) said

ppVars == <<ppSource, ppCalls, ppMacros, ppCond, ppStatus>>

(* tokenize: the lines one after the other, and the end of file. *)
RECURSIVE tokenize(_)
tokenize(lines) ==
    IF lines = <<>> THEN <<Eof>> ELSE AtBol(Head(lines)) \o tokenize(Tail(lines))

Call(lines, dir) == [toks |-> tokenize(lines), i |-> 1, dir |-> dir, out |-> <<>>]

RECURSIVE apply_defines(_, _)
apply_defines(macros, defs) ==
    IF defs = <<>> THEN macros
    ELSE apply_defines(add_macro(macros, defs[1][1], Macro(-1, <<>>, AtBol(defs[1][2]))),
                       Tail(defs))

(* What preprocess_tokens starts from: the table and the conditions of the *)
(* file before are forgotten.                                              *)
PpStart(lines) ==
    /\ ppSource' = lines
    /\ ppCalls' = <<Call(lines, "")>>
    /\ ppMacros' = apply_defines(NoMacros, PpDefines)
    /\ ppCond' = <<>>
    /\ ppStatus' = "run"
PpIdle ==
    ppSource = <<>> /\ ppCalls = <<>> /\ ppMacros = NoMacros /\ ppCond = <<>> /\ ppStatus = "idle"

-----------------------------------------------------------------------------
Top == ppCalls[Len(ppCalls)]
Toks == Top.toks
Pos == Top.i
AtHash == Toks[Pos].k # "eof" /\ tok_at_bol(Toks, Pos) /\ tok_is(Toks, Pos, "#")
(* The line is the directive d (any word that follows the '#' on its line). *)
Directive(d) ==
    /\ ppStatus = "run" /\ AtHash
    /\ tok_ident(Toks, Pos + 1) /\ ~tok_at_bol(Toks, Pos + 1)
    /\ Toks[Pos + 1].s = d
Known == {"define", "undef", "include", "if", "ifdef", "ifndef", "elif", "else",
          "endif", "pragma", "error"}
(* The first token after the directive's name, and whether there is none. *)
Arg1 == Pos + 2
NoArg == Toks[Arg1].k = "eof" \/ tok_at_bol(Toks, Arg1)
NextLine == line_end(Toks, Pos + 1) + 1
Rest == SubSeq(Toks, Arg1, NextLine - 1)

Emit(toks) == [Top EXCEPT !.i = NextLine, !.out = @ \o toks]
SetTop(call) == ppCalls' = [ppCalls EXCEPT ![Len(ppCalls)] = call]
GoOn == SetTop(Emit(<<>>))
Exit(why) == ppStatus' = why /\ UNCHANGED <<ppSource, ppCalls, ppMacros, ppCond>>

skipping == \E l \in DOMAIN ppCond : ppCond[l].skip
skipping_below(level) == \E l \in 1..(level - 1) : ppCond[l].skip

(* A line in a group that is skipped: the directive has no effect. *)
Skipped == skipping /\ GoOn /\ UNCHANGED <<ppSource, ppMacros, ppCond, ppStatus>>

-----------------------------------------------------------------------------
(* #define: a '(' that touches the name starts a parameter list.  The       *)
(* value field, which a punctuator does not use, says that it touches.      *)
TouchingParen == [Punct("(") EXCEPT !.v = 1]
Touching(toks, i) == tok_is(toks, i, "(") /\ toks[i].v = 1
RECURSIVE Params(_, _, _)
Params(toks, i, ps) ==
    IF ~tok_ident(toks, i) THEN [ok |-> FALSE, ps |-> ps, i |-> i]
    ELSE LET more == Append(ps, toks[i].s)
         IN IF tok_is(toks, i + 1, ",") THEN Params(toks, i + 2, more)
            ELSE [ok |-> tok_is(toks, i + 1, ")"), ps |-> more, i |-> i + 2]
BadDefine == Macro(-2, <<>>, <<>>)
do_define(toks, i) ==
    LET list == IF tok_is(toks, i + 2, ")") THEN [ok |-> TRUE, ps |-> <<>>, i |-> i + 3]
                ELSE Params(toks, i + 2, <<>>)
        Body(j) == IF toks[j].k = "eof" \/ tok_at_bol(toks, j) THEN <<>>
                   ELSE SubSeq(toks, j, line_end(toks, j))
    IN IF Touching(toks, i + 1)
       THEN IF list.ok THEN Macro(Len(list.ps), list.ps, Body(list.i)) ELSE BadDefine
       ELSE Macro(-1, <<>>, Body(i + 1))

Define ==
    /\ Directive("define")
    /\ \/ Skipped
       \/ /\ ~skipping
          /\ \E m \in {IF tok_ident(Toks, Arg1) THEN do_define(Toks, Arg1) ELSE BadDefine} :
                IF m = BadDefine THEN Exit("bad #define")
                ELSE /\ ppMacros' = add_macro(ppMacros, Toks[Arg1].s, m)
                     /\ GoOn /\ UNCHANGED <<ppSource, ppCond, ppStatus>>

Undef ==
    /\ Directive("undef")
    /\ \/ Skipped
       \/ ~skipping /\ ~tok_ident(Toks, Arg1) /\ Exit("bad #undef")
       \/ /\ ~skipping /\ tok_ident(Toks, Arg1)
          /\ ppMacros' = del_macro(ppMacros, Toks[Arg1].s)
          /\ GoOn /\ UNCHANGED <<ppSource, ppCond, ppStatus>>

(* #include: where the file is looked for, in order; a quoted name starts in *)
(* the directory of the including file (when its path has one) and ends in   *)
(* the working directory, written "".                                        *)
Angle == tok_is(Toks, Arg1, "<")
IncName == IF Angle THEN Toks[Arg1 + 1].s ELSE Toks[Arg1].s
SearchPath == (IF ~Angle /\ Top.dir # "" THEN <<Top.dir>> ELSE <<>>) \o IncDirs
              \o (IF Angle THEN <<>> ELSE <<"">>)
Found == {n \in DOMAIN SearchPath : <<SearchPath[n], IncName>> \in DOMAIN PpFiles}
resolve_include == SearchPath[CHOOSE n \in Found : \A m \in Found : n <= m]
IncludeIsNamed == ~NoArg /\ (Toks[Arg1].k = "str" \/ (Angle /\ tok_is(Toks, Arg1 + 2, ">")))

Include ==
    /\ Directive("include")
    /\ \/ Skipped
       \/ ~skipping /\ ~IncludeIsNamed /\ Exit("bad #include")
       \/ ~skipping /\ IncludeIsNamed /\ Found = {} /\ Exit("cannot open include")
       \/ /\ ~skipping /\ IncludeIsNamed /\ Found # {} /\ Len(ppCalls) - 1 >= MaxInclude
          /\ Exit("#include nested too deeply")
       \/ /\ ~skipping /\ IncludeIsNamed /\ Found # {} /\ Len(ppCalls) - 1 < MaxInclude
          /\ ppCalls' = Append([ppCalls EXCEPT ![Len(ppCalls)] = Emit(<<>>)],
                               Call(PpFiles[<<resolve_include, IncName>>], resolve_include))
          /\ UNCHANGED <<ppSource, ppMacros, ppCond, ppStatus>>

-----------------------------------------------------------------------------
(* pre_defs: "defined X" and "defined(X)" become 1 or 0 before expansion.   *)
(* A "defined" that ends its line is malformed (or runs off the line).      *)
RECURSIVE pre_defs(_, _)
pre_defs(macros, toks) ==
    LET Is(j) == Num(Truth(find_macro(macros, toks, j)))
        After(j) == SubSeq(toks, j, Len(toks))
    IN IF toks = <<>> THEN <<>>
       ELSE IF ~(tok_ident(toks, 1) /\ toks[1].s = "defined")
       THEN <<toks[1]>> \o pre_defs(macros, Tail(toks))
       ELSE IF tok_is(toks, 2, "(")
       THEN IF tok_ident(toks, 3) /\ tok_is(toks, 4, ")")
            THEN <<Is(3)>> \o pre_defs(macros, After(5)) ELSE Failed("malformed defined")
       ELSE IF tok_ident(toks, 2) THEN <<Is(2)>> \o pre_defs(macros, After(3))
       ELSE Failed("malformed defined")

(* The value of the expression on the line of #if and #elif. *)
Conclude(toks) == IF HasFailed(toks) THEN Exited(1) ELSE eval_chain(toks)
Condition(macros, toks) == Conclude(WholeLine(macros, {}, pre_defs(macros, toks)))

cond_push(skip, taken) ==
    IF Len(ppCond) >= MaxCond THEN Exit("#if nesting too deep")
    ELSE /\ ppCond' = Append(ppCond, [skip |-> skip, taken |-> taken])
         /\ GoOn /\ UNCHANGED <<ppSource, ppMacros, ppStatus>>

(* do_cond_if: a group inside a skipped one is pushed dead, unevaluated. *)
IfDef ==
    \E d \in {"ifdef", "ifndef"} :
        /\ Directive(d)
        /\ \/ skipping /\ cond_push(TRUE, TRUE)
           \/ ~skipping /\ ~tok_ident(Toks, Arg1) /\ Exit("#ifdef expects a macro name")
           \/ /\ ~skipping /\ tok_ident(Toks, Arg1)
              /\ LET v == find_macro(ppMacros, Toks, Arg1) <=> d = "ifdef"
                 IN cond_push(~v, v)

If ==
    /\ Directive("if")
    /\ \/ skipping /\ cond_push(TRUE, TRUE)
       \/ ~skipping /\ NoArg /\ Exit("#if with no expression")
       \/ /\ ~skipping /\ ~NoArg
          /\ \E c \in {Condition(ppMacros, Rest)} :
                IF c.ok THEN cond_push(c.v = 0, c.v # 0) ELSE Exit("bad #if expression")

(* The innermost group goes on with another branch. *)
BranchAlone(skip, taken) ==   \* a bug: the branch forgets that one was taken
    /\ ppCond' = [ppCond EXCEPT ![Len(ppCond)] = [skip |-> skip, taken |-> ~skip]]
    /\ GoOn /\ UNCHANGED <<ppSource, ppMacros, ppStatus>>
Branch(skip, taken) ==
    /\ ppCond' = [ppCond EXCEPT ![Len(ppCond)] = [skip |-> skip, taken |-> taken]]
    /\ GoOn /\ UNCHANGED <<ppSource, ppMacros, ppStatus>>
InnerTaken == ppCond[Len(ppCond)].taken

Elif ==
    /\ Directive("elif")
    /\ \/ ppCond = <<>> /\ Exit("#elif without #if")
       \/ /\ ppCond # <<>> /\ (InnerTaken \/ skipping_below(Len(ppCond)))
          /\ Branch(TRUE, TRUE)
       \/ /\ ppCond # <<>> /\ ~InnerTaken /\ ~skipping_below(Len(ppCond))
          /\ \E c \in {IF NoArg THEN Value(1, FALSE, 1) ELSE Condition(ppMacros, Rest)} :
                IF c.ok THEN Branch(c.v = 0, c.v # 0) ELSE Exit("bad #if expression")

Else ==
    /\ Directive("else")
    /\ IF ppCond = <<>> THEN Exit("#else without #if") ELSE Branch(InnerTaken, TRUE)

Endif ==
    /\ Directive("endif")
    /\ \/ ppCond = <<>> /\ Exit("#endif without #if")
       \/ /\ ppCond # <<>> /\ ppCond' = SubSeq(ppCond, 1, Len(ppCond) - 1)
          /\ GoOn /\ UNCHANGED <<ppSource, ppMacros, ppStatus>>

(* #pragma is ignored; #error and an unknown word stop a live group. *)
Pragma ==
    Directive("pragma") /\ GoOn /\ UNCHANGED <<ppSource, ppMacros, ppCond, ppStatus>>
Error ==
    /\ ppStatus = "run" /\ AtHash /\ Toks[Pos + 1].k # "eof" /\ ~tok_at_bol(Toks, Pos + 1)
    /\ tok_ident(Toks, Pos + 1) => Toks[Pos + 1].s \notin Known \ {"error"}
    /\ Skipped \/ (~skipping /\ Exit("#error or unknown directive"))
EmptyDirective ==
    /\ ppStatus = "run" /\ AtHash
    /\ \/ Toks[Pos + 1].k = "eof" /\ Exit("unexpected end of file in directive")
       \/ /\ tok_at_bol(Toks, Pos + 1) /\ SetTop([Top EXCEPT !.i = Pos + 1])
          /\ UNCHANGED <<ppSource, ppMacros, ppCond, ppStatus>>

-----------------------------------------------------------------------------
(* Any other line is expanded as a whole and added to the output. *)
Text ==
    /\ ppStatus = "run" /\ Toks[Pos].k # "eof" /\ ~AtHash
    /\ \E tail \in {line_end(Toks, Pos)} :
         \E e \in {IF skipping THEN <<>> ELSE expand_range(ppMacros, {}, Toks, Pos, tail)} :
            IF HasFailed(e) THEN Exit(e[Len(e)].s)
            ELSE /\ SetTop([Top EXCEPT !.i = tail + 1, !.out = @ \o e])
                 /\ UNCHANGED <<ppSource, ppMacros, ppCond, ppStatus>>

(* The end of an included file: what do_include hands to its caller is the  *)
(* output up to the first end-of-file token in it.                          *)
UpToEof(toks) ==
    LET ends == {i \in DOMAIN toks : toks[i].k = "eof"}
    IN IF ends = {} THEN toks
       ELSE SubSeq(toks, 1, (CHOOSE i \in ends : \A j \in ends : i <= j) - 1)
EndInclude ==
    /\ ppStatus = "run" /\ Toks[Pos].k = "eof" /\ Len(ppCalls) > 1
    /\ LET n == Len(ppCalls) - 1
       IN ppCalls' = [SubSeq(ppCalls, 1, n) EXCEPT
                         ![n].out = @ \o UpToEof(merge_adjacent_strings(Top.out))]
    /\ UNCHANGED <<ppSource, ppMacros, ppCond, ppStatus>>
EndFile ==
    /\ ppStatus = "run" /\ Toks[Pos].k = "eof" /\ Len(ppCalls) = 1
    /\ \/ ppCond # <<>> /\ Exit("unterminated #if")
       \/ /\ ppCond = <<>> /\ ppStatus' = "done"
          /\ SetTop([Top EXCEPT !.out = merge_adjacent_strings(@) \o <<Eof>>])
          /\ UNCHANGED <<ppSource, ppMacros, ppCond>>

PpNext ==
    \/ Define \/ Undef \/ Include \/ IfDef \/ If \/ Elif \/ Else \/ Endif
    \/ Pragma \/ Error \/ EmptyDirective \/ Text \/ EndInclude \/ EndFile
=============================================================================
