---------------------------- MODULE MCCompiler ----------------------------
(* The jobs the compiler is tried on: small programs, one for each way its  *)
(* parts depend on each other.                                              *)
EXTENDS CompilerProperties, MCPreprocess

(* A raw job has the items of every file; Job writes them down.             *)
Raw(parts)   == [mode |-> "flat", parts |-> parts, d32 |-> FALSE, valid |-> TRUE, head |-> <<>>, cut |-> FALSE]
C(items)     == Raw(<<items>>)
Two(a, b)    == Raw(<<a, b>>)
D32(j)       == [j EXCEPT !.d32 = TRUE]
User(j)      == [j EXCEPT !.mode = "user", !.d32 = TRUE]
Invalid(j)   == [j EXCEPT !.valid = FALSE]
Headed(head, j) == [j EXCEPT !.head = head]
Cut(j)       == [j EXCEPT !.cut = TRUE]
WithDivision(items) == Two(items, divsi3_c)

(* A file that has a head abbreviates 2 to K2; a cut one lacks its last token. *)
Abbreviated(lines) == [i \in DOMAIN lines |-> [k \in DOMAIN lines[i] |-> IF lines[i][k] = Num(2) THEN Id("K2") ELSE lines[i][k]]]
Short(lines) == Append(Front(lines), Front(Last(lines)))
Written1(r, lines) ==
    r.head \o (IF r.head # <<>> THEN Abbreviated(lines) ELSE IF r.cut THEN Short(lines) ELSE lines)
Job(r) ==
    [mode |-> r.mode, d32 |-> r.d32, valid |-> r.valid,
     files |-> [f \in DOMAIN r.parts |-> Written1(r, Lines(r.parts[f]))],
     items |-> IF r.valid THEN FlattenSeq(r.parts) ELSE <<>>]

main(body) == Func("main", SInt, <<>>, body)
IntV(name, e) == Var(name, SInt, <<e>>)
Set(x, e)    == Do(Asg("=", V(x), e))
Add(a, b)    == Bin("+", a, b)
Sub(a, b)    == Bin("-", a, b)
Mul(a, b)    == Bin("*", a, b)
N(n)         == Lit(n)
Var0(name, t) == Var(name, t, <<>>)

(* Operators: two in a row, on operands of two types.  The values wrap, and *)
(* are negative when signed.                                                *)
ArithOps == {"+", "-", "*", "&", "|", "^", "<<", ">>", "<", "<=", ">", ">=", "==", "!=", "&&", "||"}
PairOps  == {"+", "*", "<<", "<", "==", "&", "||"}
Pair(ta, tb, o1, o2) ==
    C(<<main(<<Var("a", T(ta), <<N(65530)>>), Var("b", T(tb), <<N(5)>>),
               Ret(Bin(o2, Bin(o1, V("a"), V("b")), N(3)))>>)>>)
OpJobs ==
    {Pair(k[1], k[2], k[3], k[4])
     : k \in {"int", "uint"} \X {"int"} \X ArithOps \X PairOps}

Scalars  == {"int", "uint", "char", "short"}

(* Division: the signs, through the runtime, and unsigned by the machine.   *)
DivJobs ==
    {WithDivision(<<main(<<Var("a", T(k[4]), <<N(k[2])>>), IntV("b", N(k[3])), Ret(Bin(k[1], V("a"), V("b")))>>)>>)
     : k \in {"/", "%"} \X {7, 65529} \X {2, 65534} \X {"int", "uint"}}

(* Grouping to the right, and the unary operators.                          *)
RightJobs ==
    {C(<<main(<<IntV("a", N(9)), IntV("b", N(5)), Ret(Bin(k[1], V("a"), Bin(k[2], V("b"), N(3))))>>)>>)
     : k \in {"-", "<<", "<", "=="} \X {"-", "&", ">>", "!="}}
UnaryJobs ==
    {C(<<main(<<Var("a", T(k[3]), <<N(200)>>), Ret(Add(Un(k[1], Un(k[2], V("a"))), If3(V("a"), N(4), N(8))))>>)>>)
     : k \in {"-", "~", "!"} \X {"-", "~", "!"} \X {"int", "char", "short"}}
(* The right operands of && and || are evaluated when they should be.       *)
LazyJobs ==
    {C(<<main(<<IntV("a", N(k[2])), IntV("b", N(1)), IntV("r", N(0)),
               Set("r", Bin(k[1], V("a"), Asg("=", V("b"), N(k[3])))),
               Ret(Comma(Post("++", V("r")), Add(Mul(V("b"), N(8)), V("r"))))>>)>>)
     : k \in {"&&", "||"} \X {0, 1} \X {0, 2}}

(* Compound assignment, ++ and -- on every width, in memory reached in      *)
(* different ways.                                                          *)
CompoundJobs ==
    {C(<<Global("g", T(k[2]), <<N(9)>>),
        main(<<Var("a", Arr(T(k[2]), 3), <<List(<<N(1), N(250), N(3)>>)>>), Var("p", Ptr(T(k[2])), <<V("a")>>),
               Do(Asg(k[1], Idx(V("a"), N(1)), N(3))), Do(Asg(k[1], V("g"), N(2))),
               Do(Asg(k[1], Un("*", Add(V("p"), N(2))), N(2))),
               Ret(Add(V("g"), Add(Mul(Idx(V("a"), N(1)), N(3)), Idx(V("p"), N(2)))))>>)>>)
     : k \in (DOMAIN CompoundOp \ {"/=", "%="}) \X Scalars}
StepJobs ==
    {C(<<main(<<Var("a", Arr(T(k[2]), 3), <<List(<<N(1), N(255), N(0)>>)>>), Var("p", Ptr(T(k[2])), <<Add(V("a"), N(1))>>),
               IntV("x", Post(k[1], Un("*", V("p")))), IntV("y", Un("*", Post(k[1], V("p")))),
               Do(Un(k[1], Un("*", V("p")))),
               Ret(Add(V("x"), Add(Mul(V("y"), N(3)), Mul(Un("*", V("p")), N(5)))))>>)>>)
     : k \in {"++", "--"} \X Scalars}
BitStruct == StructD("S", <<Param2("a", BitsT(3, TRUE)), Param2("b", BitsT(2, FALSE)),
                            Param2("c", BitsT(5, TRUE)), Param2("d", SInt)>>)
Fd(m) == Dot(V("s"), m)
BitJobs ==
    {C(<<BitStruct,
        main(<<Var0("s", StructT("S")), Do(Asg("=", Fd("a"), N(6))), Do(Asg("=", Fd("b"), N(1))),
               Do(Asg("=", Fd("c"), N(21))), Do(Asg("=", Fd("d"), N(7))), Do(Asg(k[1], Fd(k[2]), N(3))),
               Do(Post("++", Fd("a"))),
               Ret(Add(Fd("a"), Add(Mul(Fd("b"), N(8)), Add(Mul(Fd("c"), N(32)), Mul(Fd("d"), N(1024))))))>>)>>)
     : k \in {"+=", "^=", "<<="} \X {"a", "b", "c"}}


(* Statements: every kind of loop, left and continued at every turn.        *)
Step1(x) == Do(Post("++", V(x)))
LoopBody(n, how) == <<IfS(Bin("==", V("i"), N(n)), <<Plain(how)>>, <<>>), Do(Asg("+=", V("r"), V("i")))>>
LoopProgram(kind, n, how) ==
    main(<<IntV("r", N(0)), Var0("i", SInt), Set("i", N(0)),
           CASE kind = "for"   -> For(Set("i", N(1)), Bin("<", V("i"), N(4)), Post("++", V("i")), LoopBody(n, how))
             [] kind = "decl"  -> For(IntV("i", N(1)), Bin("<", V("i"), N(4)), Post("++", V("i")), LoopBody(n, how))
             [] kind = "while" -> While(Bin("<", Post("++", V("i")), N(4)), LoopBody(n, how))
             [] kind = "do"    -> DoWhile(<<Step1("i")>> \o LoopBody(n, how), Bin("<", V("i"), N(4))),
           Ret(Add(Mul(V("r"), N(16)), V("i")))>>)
LoopJobs ==
    {C(<<LoopProgram(k[1], k[2], k[3])>>)
     : k \in {"for", "decl", "while", "do"} \X (1..4) \X {"break", "continue"}}

(* switch: the default in the middle, falling through, a loop inside.       *)
SwitchJobs ==
    {C(<<main(<<IntV("r", N(0)), IntV("v", N(v)),
               While(Bin("<", V("r"), N(60)),
                 <<Switch(V("v"), <<CaseS(1), Do(Asg("+=", V("r"), N(1))), Plain("default"),
                                    Do(Asg("+=", V("r"), N(10))), CaseS(2), Do(Asg("+=", V("r"), N(20))), Plain("break"),
                                    CaseS(3), Do(Asg("+=", V("r"), N(30))), Plain("continue")>>),
                   Do(Asg("+=", V("r"), N(3)))>>),
               Ret(V("r"))>>)>>)
     : v \in 0..4}
GotoJobs ==
    {C(<<main(<<IntV("r", N(0)), IntV("n", N(v)),
               LabelS("top"), IfS(Bin("==", V("n"), N(0)), <<Goto("out")>>, <<Do(Asg("+=", V("r"), V("n")))>>),
               Block(<<IntV("r", N(9)), Do(Asg("-=", V("n"), N(1))), Do(Asg("+=", V("r"), N(1)))>>), Goto("top"),
               LabelS("out"), Ret(V("r"))>>)>>)
     : v \in 0..2}
(* Loops in loops with variables of their own.                              *)
NestJobs ==
    {C(<<main(<<IntV("r", N(0)),
               For(IntV("i", N(0)), Bin("<", V("i"), N(n)), Post("++", V("i")),
                   <<IntV("j", V("i")), DoWhile(<<IntV("k", V("j")), Do(Asg("+=", V("r"), Add(V("k"), N(1)))), Do(Asg("-=", V("j"), N(1)))>>,
                                               Bin(">", V("j"), N(0)))>>),
               Ret(V("r"))>>)>>)
     : n \in 1..3}
StatementJobs == LoopJobs \cup SwitchJobs \cup GotoJobs \cup NestJobs


(* Functions: recursion, mutual recursion before the definition, narrow     *)
(* parameters, structs by value, pointers to functions, variable arguments, *)
(* static locals, a function that was never declared.                       *)
A(f, args) == Apply(V(f), args)
fib == Func("fib", SInt, <<Param2("n", SInt)>>,
            <<IfS(Bin("<", V("n"), N(2)), <<Ret(V("n"))>>, <<>>),
              Ret(Add(A("fib", <<Sub(V("n"), N(1))>>), A("fib", <<Sub(V("n"), N(2))>>)))>>)
Even(f, g, r) == Func(f, SInt, <<Param2("n", SInt)>>,
            <<IfS(Un("!", V("n")), <<Ret(N(r))>>, <<>>), Ret(A(g, <<Sub(V("n"), N(1))>>))>>)
PairT == StructD("P", <<Param2("x", SInt), Param2("c", T("char")), Param2("y", SInt)>>)
PT == StructT("P")
swap == Func("swap", PT, <<Param2("p", PT), Param2("k", SInt)>>,
             <<IntV("t", Dot(V("p"), "x")), Do(Asg("=", Dot(V("p"), "x"), Dot(V("p"), "y"))),
               Do(Asg("=", Dot(V("p"), "y"), Add(V("t"), V("k")))), Ret(V("p"))>>)
AddFn(name, op) == Func(name, SInt, <<Param2("a", SInt), Param2("b", SInt)>>, <<Ret(Bin(op, V("a"), V("b")))>>)
FnPtr == Ptr(Fn(SInt, <<Param2("a", SInt), Param2("b", SInt)>>))
sum == [Func("sum", SInt, <<Param2("n", SInt)>>,
          <<Var0("ap", Ptr(SInt)), IntV("r", N(0)), Do(A("__builtin_va_start", <<V("ap"), V("n")>>)),
            While(Bin(">", Post("--", V("n")), N(0)), <<Do(Asg("=", V("r"), Add(Mul(V("r"), N(3)), Un("*", V("ap"))))), Do(Asg("=", V("ap"), Add(V("ap"), N(1))))>>),
            Ret(V("r"))>>) EXCEPT !.dots = TRUE]
next == Func("next", SInt, <<>>, <<Static("c", SInt, <<N(5)>>), Ret(Asg("+=", V("c"), N(3)))>>)
narrow == Func("narrow", SInt, <<Param2("c", T("char")), Param2("s", T("short")), Param2("u", T("uchar"))>>,
               <<Ret(Add(V("c"), Add(V("s"), V("u"))))>>)
FunctionJobs ==
    <<C(<<fib, main(<<Ret(A("fib", <<N(5)>>))>>)>>),
      C(<<main(<<Ret(Add(A("even", <<N(5)>>), Mul(N(2), A("odd", <<N(3)>>))))>>), Even("even", "odd", 1), Even("odd", "even", 0)>>),
      C(<<PairT, swap,
          main(<<Var0("p", PT), Var0("q", PT), Do(Asg("=", Dot(V("p"), "x"), N(3))), Do(Asg("=", Dot(V("p"), "c"), N(1))), Do(Asg("=", Dot(V("p"), "y"), N(40))),
                 Do(Asg("=", V("q"), A("swap", <<V("p"), N(2)>>))), Do(Asg("=", V("p"), V("q"))),
                 Ret(Add(Add(Mul(Dot(V("p"), "x"), N(16)), Dot(V("q"), "y")), Mul(Dot(V("p"), "c"), N(1024))))>>)>>),
      C(<<AddFn("add", "+"), AddFn("sub", "-"), Global("fp", FnPtr, <<V("add")>>),
          Func("twice", SInt, <<Param2("f", FnPtr), Param2("v", SInt)>>, <<Ret(A("f", <<A("f", <<V("v"), N(7)>>), N(1)>>))>>),
          main(<<Var("f", FnPtr, <<V("sub")>>), Ret(Add(Mul(A("twice", <<V("f"), N(20)>>), N(16)), A("fp", <<N(4), N(5)>>)))>>)>>),
      C(<<sum, main(<<Ret(A("sum", <<N(3), N(1), N(2), N(4)>>))>>)>>),
      C(<<next, main(<<Do(A("next", <<>>)), IntV("r", A("next", <<>>)), Ret(Add(V("r"), Mul(N(16), A("next", <<>>))))>>)>>),
      C(<<narrow, main(<<Ret(A("narrow", <<N(9), N(130), N(17)>>))>>)>>),
      C(<<main(<<Ret(A("later", <<N(2), N(3)>>))>>), AddFn("later", "-")>>)>>

(* Globals: every kind of initializer, and what is left zero.               *)
Char == T("char")
Node2 == StructD("N", <<Param2("v", SInt), Param2("next", Ptr(StructT("N")))>>)
GlobalJobs ==
    <<C(<<Global("a", Arr(T("short"), 5), <<List(<<N(1), N(250), N(3)>>)>>), Global("z", Arr(SInt, 3), <<>>), Global("b", Char, <<N(7)>>),
          main(<<Do(Asg("=", Idx(V("z"), N(1)), N(2))),
                 Ret(Add(Add(Idx(V("a"), N(1)), Mul(N(2), Idx(V("a"), N(4)))), Add(Mul(V("b"), Idx(V("z"), N(1))), Idx(V("z"), N(2)))))>>)>>),
      C(<<Global("s", Ptr(Char), <<StrLit(<<3, 5>>)>>), Global("t", Arr(Char, 4), <<StrLit(<<6, 2>>)>>), Global("x", SInt, <<N(4)>>), Global("p", Ptr(SInt), <<Un("&", V("x"))>>),
          main(<<Var("u", Ptr(Char), <<StrLit(<<1, 7>>)>>), Do(Asg("+=", Un("*", V("p")), N(1))),
                 Ret(Add(Add(Idx(V("s"), N(1)), Mul(N(8), Idx(V("t"), N(0)))), Add(Mul(N(64), Idx(V("u"), N(1))), Mul(N(512), Add(V("x"), Idx(V("s"), N(2)))))))>>)>>),
      C(<<Node2, Global("n", StructT("N"), <<List(<<N(3), N(0)>>)>>), Global("m", StructT("N"), <<List(<<N(5), Un("&", V("n"))>>)>>),
          Global("q", Ptr(SInt), <<Un("&", Dot(V("m"), "v"))>>),
          main(<<Var("p", Ptr(StructT("N")), <<Un("&", V("m"))>>), Do(Asg("+=", Arrow(Arrow(V("p"), "next"), "v"), N(2))),
                 Ret(Add(Add(Dot(V("n"), "v"), Mul(N(16), Un("*", V("q")))), Mul(N(256), Bin("==", Arrow(V("p"), "next"), Un("&", V("n"))))))>>)>>)>>


(* The same programs as images for the kernel to run (polls, far jumps),    *)
(* and with --d32.                                                          *)
ProgramJobs(fs, gs) ==
    Range(fs) \cup Range(gs) \cup {User(fs[k]) : k \in {1, 3, 4, 6}} \cup {User(gs[k]) : k \in 1..3}
    \cup {D32(fs[k]) : k \in {3, 4}} \cup {D32(gs[2])}
    \cup {User(C(<<LoopProgram(k, 3, "continue")>>)) : k \in {"for", "while", "do"}}

(* Two files: what one defines the other declares, and what is static in    *)
(* both.                                                                    *)
Extern(name, t) == Storage("extern", Global(name, t, <<>>))
FileA == <<Extern("shared", SInt), Storage("static", Global("own", SInt, <<N(2)>>)), Proto("bump", SInt, <<Param2("by", SInt)>>),
           main(<<Do(Asg("+=", V("shared"), V("own"))), Do(A("bump", <<N(3)>>)), IntV("r", A("bump", <<V("own")>>)), Ret(Add(V("shared"), Mul(N(16), V("r"))))>>)>>
FileB == <<Global("shared", SInt, <<N(4)>>), Storage("static", Global("mine", SInt, <<>>)),
           [Func("help", SInt, <<Param2("x", SInt)>>, <<Ret(Add(V("x"), N(1)))>>) EXCEPT !.words = <<"static">>],
           Func("bump", SInt, <<Param2("by", SInt)>>,
                <<Do(Asg("+=", V("shared"), V("by"))), Do(Asg("+=", V("mine"), A("help", <<V("by")>>))), Ret(V("mine"))>>)>>
FilesJobs(a, b) ==
    {Two(a, b), Two(b, a), User(Two(a, b))} \cup {Invalid(Two(a, a)), Invalid(Two(b, b))}

(* The preprocessor in front: a macro for a constant, from the file or from *)
(* a header read twice, and a group that is skipped.                        *)
MacroJobs(fs, a, b) ==
    {Headed(<<Hash("define", <<Id("K2"), Num(2)>>)>>, fs[1]),
     Headed(<<Hash("include", <<Str("k")>>), Hash("include", <<Str("k")>>)>>, Two(a, b)),
     Headed(<<Hash("include", <<Str("k")>>), Hash("if", <<Id("K2"), Punct("!="), Num(2)>>), <<Kw("int"), Punct("{")>>,
              Hash("endif", <<>>)>>, fs[2])}

(* Types: typedef, enum, casts, sizeof, arrays in structs in arrays, steps  *)
(* and differences of pointers to elements of every size.                   *)
Semicolon(toks) == toks \o <<P(";")>>
num == Written(SInt, <<Id("num")>>)
pair == Written(PT, <<Id("pair")>>)
Typedefs == <<PairT, Only(Semicolon(<<Kw("typedef"), Kw("int"), Id("num")>>)), Only(Semicolon(<<Kw("typedef"), Kw("struct"), Id("P"), Id("pair")>>)),
              Only(Semicolon(<<Kw("enum"), Id("E"), P("{"), Id("E0"), P(","), Id("E5"), P("="), Num(3), P("+"), Num(2), P(","), Id("E6"), P("}")>>))>>
E0 == Written(N(0), <<Id("E0")>>)
E5 == Written(N(5), <<Id("E5")>>)
E6 == Written(N(6), <<Id("E6")>>)
Box == StructD("B", <<Param2("h", T("char")), Param2("v", Arr(T("short"), 3)), Param2("p", PT), Param2("t", T("char"))>>)
BoxT == StructT("B")
In(e, m, i) == Idx(Dot(e, m), N(i))
CastJobs == {C(<<main(<<IntV("a", N(k[1])), Ret(Bin(k[4], Conv(T(k[2]), V("a")), Conv(T(k[3]), N(7))))>>)>>)
             : k \in {5, 200, 65530} \X {"int", "uint", "char", "short", "uchar", "ushort"} \X {"int", "uint", "char"} \X {"<", "+"}}
DiffJobs == {WithDivision(<<PairT, main(<<Var0("a", Arr(t, 4)), Var("p", Ptr(t), <<Add(V("a"), N(1))>>), Var("q", Ptr(t), <<Un("&", Idx(V("a"), N(3)))>>),
                 Do(Post("++", V("p"))),
                 Ret(Add(Mul(Sub(V("q"), V("p")), N(16)), Add(Bin("<", V("p"), V("q")), Bin("==", Add(V("p"), N(1)), V("q")))))>>)>>)
             : t \in {SInt, Char, T("short"), PT, Ptr(Char)}}
TypeJobs ==
    {C(Typedefs \o <<Global("g", num, <<E6>>),
         main(<<Var0("p", pair), Var0("q", Ptr(pair)), Set("q", Un("&", V("p"))), Do(Asg("=", Arrow(V("q"), "x"), E5)), Do(Asg("=", Arrow(V("q"), "y"), V("g"))),
                Var("n", num, <<SizeofT(num)>>), IntV("z", Mul(SizeofT(Arr(Char, 3)), SizeofT(T("short")))),
                Switch(V("g"), <<Written(CaseS(5), <<Kw("case"), Id("E5"), P(":")>>), Ret(E0),
                                 Written(CaseS(6), <<Kw("case"), Id("E6"), P(":")>>),
                                 Ret(Add(Dot(V("p"), "x"), Add(Mul(Dot(V("p"), "y"), N(8)), Add(Mul(V("n"), N(64)), Mul(V("z"), N(512))))))>>)>>)>>),
     C(<<PairT, Box, Global("b", BoxT, <<List(<<N(1), List(<<N(2), N(3)>>), List(<<N(4), N(5), N(6)>>), N(7)>>)>>), Global("bs", Arr(BoxT, 2), <<>>),
         main(<<Var0("c", Arr(BoxT, 2)), Var("p", Ptr(BoxT), <<V("c")>>), Do(Asg("=", Idx(V("c"), N(1)), V("b"))), Do(Asg("+=", In(Idx(V("c"), N(1)), "v", 1), N(9))),
                Do(Post("++", V("p"))), Do(Asg("=", Idx(V("bs"), N(1)), Un("*", V("p")))), Do(Asg("=", Dot(Idx(V("bs"), N(0)), "h"), N(1))),
                Ret(Add(Add(In(Idx(V("bs"), N(1)), "v", 1), Mul(Dot(Dot(Idx(V("bs"), N(1)), "p"), "y"), N(16))),
                        Add(Mul(Arrow(V("p"), "t"), N(128)), Mul(Add(In(V("b"), "v", 2), Dot(Dot(V("b"), "p"), "c")), N(1024)))))>>)>>),
     C(<<PairT, swap, main(<<Var("p", PT, <<List(<<N(3), N(1), N(9)>>)>>), Var("q", PT, <<V("p")>>), Ret(Add(Dot(A("swap", <<V("q"), N(4)>>), "y"), Mul(Dot(A("swap", <<V("p"), N(1)>>), "x"), N(16))))>>)>>),
     C(<<main(<<Var0("m", Arr(Arr(SInt, 3), 2)),
                For(IntV("i", N(0)), Bin("<", V("i"), N(6)), Post("++", V("i")), <<Do(Asg("=", Idx(Un("*", V("m")), V("i")), V("i")))>>),
                Ret(Add(Idx(Idx(V("m"), N(1)), N(1)), Mul(N(8), Idx(Un("*", Add(V("m"), N(1))), N(2)))))>>)>>),
     C(<<BitStruct, Global("s", StructT("S"), <<List(<<N(5), N(1), N(19), N(7)>>)>>),
         Global("names", Arr(Ptr(Char), 2), <<List(<<StrLit(<<1, 2>>), StrLit(<<3>>)>>)>>),
         Written(Global("open", Arr(T("short"), 3), <<List(<<N(4), N(5), N(6)>>)>>),
                 Semicolon(<<Kw("short"), Id("open"), P("["), P("]"), P("="), P("{"), Num(4), P(","), Num(5), P(","), Num(6), P(","), P("}")>>)),
         Global("mid", Ptr(T("short")), <<Un("&", Idx(V("open"), Bin("-", N(3), N(1))))>>),
         main(<<Ret(Add(Add(Fd("a"), Mul(Fd("c"), N(8))), Add(Mul(Fd("b"), N(256)), Add(Mul(Idx(Idx(V("names"), N(1)), N(0)), N(1024)), Mul(Un("*", V("mid")), N(4096))))))>>)>>)}

(* Ways of writing: unnamed parts of for, void functions, old parameter     *)
(* lists, a prototype, a declaration after its use, inline assembly.        *)
Forever(b) == Written(While(N(1), b), <<Kw("for"), P("("), P(";"), P(";"), P(")")>> \o ShowBody(b))
Leave == Written(Ret(N(0)), <<Kw("return"), P(";")>>)
knr == [d |-> "func", name |-> "knr", t |-> Fn(SInt, <<Param2("a", SInt), Param2("b", SInt)>>), body |-> <<Ret(Sub(V("a"), V("b")))>>, words |-> <<>>, dots |-> FALSE]
WayJobs ==
    {C(<<Extern("late", SInt), Proto("fill", T("void"), <<Param2("p", Ptr(SInt))>>),
         main(<<IntV("r", N(0)), Do(A("fill", <<Un("&", V("r"))>>)), Ret(Add(V("r"), V("late")))>>),
         Func("fill", T("void"), <<Param2("p", Ptr(SInt))>>,
              <<Forever(<<Do(Asg("+=", Un("*", V("p")), N(7))), IfS(Bin(">", Un("*", V("p")), N(20)), <<Leave>>, <<>>),
                          Written(Block(<<>>), <<Kw("asm"), P("("), Str(<<1>>), P(")"), P(";")>>)>>)>>),
         Global("late", SInt, <<N(3)>>)>>),
     C(<<Written(knr, <<Kw("int"), Id("knr"), P("("), Id("a"), P(","), Id("b"), P(")")>> \o ShowBody(knr.body)), main(<<Ret(A("knr", <<N(9), N(2)>>))>>)>>),
     C(<<Global("cs", SInt, <<Bin("|", Bin("<<", N(3), N(4)), If3(Bin(">", N(2), N(1)), Conv(Char, N(9)), N(5)))>>),
         Written(Global("len", Arr(Char, 6), <<StrLit(<<1, 2>>)>>), Semicolon(<<Kw("char"), Id("len"), P("["), Kw("sizeof"), P("("), Kw("int"), P(")"), P("+"), Num(2), P("]"), P("="), Str(<<1, 2>>)>>)),
         main(<<Ret(Add(V("cs"), Idx(V("len"), N(1))))>>)>>)}
ConstJobs ==
    {C(<<Global("g", SInt, <<Bin(k[1], N(9), Bin(k[2], N(5), N(3)))>>), Global("u", UInt, <<Bin(k[2], Bin(k[1], ULit(9), N(5)), N(3))>>), main(<<Ret(Add(V("g"), V("u")))>>)>>)
     : k \in ((ArithOps \cup {"/", "%"}) \ {"<<"}) \X {"+", "*", "-", "&", "|"}}

(* What is not a program: no C, for the parser, a linker or the             *)
(* preprocessor to refuse, or too large for the machine, or with a global   *)
(* that takes the linker's own name for the end of the image.               *)
Wrong(items) == Invalid(C(items))
InvalidJobs ==
    {Wrong(<<main(b)>>) : b \in
        {<<Ret(V("x"))>>, <<Plain("break")>>, <<Plain("continue")>>, <<CaseS(1)>>, <<Plain("default")>>, <<Goto("nowhere")>>,
         <<LabelS("l"), LabelS("l")>>, <<Do(Asg("=", N(1), N(2)))>>, <<Do(Un("&", N(1)))>>, <<Do(Un("*", N(1)))>>,
         <<Do(Post("++", N(1)))>>, <<Switch(N(1), <<CaseS(1), CaseS(1)>>)>>, <<Switch(N(1), <<Plain("default"), Plain("default")>>)>>,
         <<IntV("x", N(1)), Ret(Dot(V("x"), "m"))>>, <<Ret(A("nowhere", <<>>))>>, <<Block(<<IntV("y", N(1))>>), Ret(V("y"))>>}}
    \cup {Wrong(<<fib, main(<<Ret(A("fib", <<N(1), N(2)>>))>>)>>), Wrong(<<fib, fib, main(<<Ret(N(1))>>)>>),
          Wrong(<<Global("end", SInt, <<N(1)>>), main(<<Ret(N(1))>>)>>),
          Wrong(<<Global("x", SInt, <<V("y")>>), main(<<Ret(N(1))>>)>>),
          Wrong(<<PairT, main(<<Var0("p", PT), Ret(Dot(V("p"), "z"))>>)>>),
          Wrong(<<Global("big", Arr(SInt, 1024), <<>>), main(<<Ret(N(1))>>)>>),
          User(Wrong(<<Global("big", Arr(SInt, 1024), <<>>), main(<<Ret(N(1))>>)>>)),
          User(Wrong(<<main(<<Ret(A("nowhere", <<>>))>>)>>)), Wrong(<<fib>>), Cut(Wrong(<<main(<<Ret(N(1))>>)>>)),
          Invalid(Two(<<main(<<Ret(N(1))>>)>>, <<main(<<Ret(N(2))>>)>>)),
          Headed(<<Hash("error", <<>>)>>, Wrong(<<main(<<Ret(N(1))>>)>>))}

(* Assembly programs: every mnemonic by what its name says.                 *)
AsmJob(lines, out) == [mode |-> "asm", asm |-> lines \o <<Label("halt"), I1("jmp", Sym("halt"))>>, valid |-> TRUE, out |-> out, files |-> <<>>]
Fails(lines)    == [AsmJob(lines, <<>>) EXCEPT !.valid = FALSE]
Reg1(v)         == IF v < ImmLimit THEN I2("mov", R1, Imm(v)) ELSE I2("neg", R1, Imm(WordSize - v))
Reg2(v)         == IF v < ImmLimit THEN I2("mov", R2, Imm(v)) ELSE I2("neg", R2, Imm(WordSize - v))
Says(op, x, y) ==
    CASE op = "and" -> x & y [] op = "or" -> x | y [] op = "xor" -> x ^^ y
      [] op = "nand" -> WordSize - 1 - (x & y) [] op = "nor" -> WordSize - 1 - (x | y)
      [] op = "add" -> (x + y) % WordSize [] op = "sub" -> (x - y) % WordSize [] op = "mul" -> Times(x, y)
      [] op = "lsl" -> (x * 2 ^ (y % WordBits)) % WordSize [] op = "lsr" -> x \div 2 ^ (y % WordBits)
      [] op = "asr" -> (Signed(x) \div 2 ^ (y % WordBits)) % WordSize
      [] op = "div" -> IF y = 0 THEN 0 ELSE x \div y [] op = "mod" -> IF y = 0 THEN 0 ELSE x % y
AluJobs ==
    {AsmJob(<<Reg1(k[2]), Reg2(k[3]), I3(k[1], R3, R1, R2), I1("out", R3), I3(k[1], R2, R1, Imm(k[3])), I1("out", R2),
           I3(k[1], Reg(zr), R1, R1), I1("out", Reg(zr)), I2("not", R3, R1), I1("out", R3)>>,
         <<Says(k[1], k[2], k[3]), Says(k[1], k[2], k[3]), 0, WordSize - 1 - k[2]>>)
     : k \in (Range(AluNames) \ {"cmp"}) \X {5, 65529} \X {0, 3, 18}}
Taken(op, x, y) ==
    CASE op = "je" -> x = y [] op = "jne" -> x # y [] op = "jb" -> x < y [] op = "jae" -> x >= y [] op = "jbe" -> x <= y [] op = "ja" -> x > y
      [] op = "jl" -> Signed(x) < Signed(y) [] op = "jge" -> Signed(x) >= Signed(y)
      [] op = "jle" -> Signed(x) <= Signed(y) [] op = "jg" -> Signed(x) > Signed(y)
JumpJobs ==
    {AsmJob(<<Reg1(k[2]), Reg2(k[3]), I2("cmp", R1, R2), I1(k[1], Sym("there")), I1("out", R2), Label("there"), I1("out", R1)>>,
         IF Taken(k[1], k[2], k[3]) THEN <<k[2]>> ELSE <<k[3], k[2]>>)
     : k \in CondJumps \X {5, 65529} \X {5, 7, 65520}}
MemoryJobs ==
    {AsmJob(<<Reg1(65529), Reg2(50), I2("store_32", R2, R1), I2("load_8", R3, Imm(53)), I1("out", R3), I2("load_16", R3, Imm(51)), I1("out", R3),
           I2("store_8", Imm(50), R1), I2("store_16", R2, R2), I2("load_32", R3, R2), I1("out", R3),
           I2("pstore", Imm(12), R1), I2("pload", R3, Imm(12)), I1("out", R3), I2("pload", R3, Imm(0)), I1("out", R3)>>,
         <<9, 255, 50 * 256 + 249, 65529, 0>>),
     AsmJob(<<I2("mov", SP, Imm(400)), I1("in", R1), I1("out", R1), I1("time_0", R1), I1("out", R1), I1("time_1", R2), I1("counter", R3), I1("out", R3), I1("keyboard", R3),
           I2("screen", Reg(zr), R1), I2("screen", R2, Imm(1)), I0("nop"), I1("push", R1), I1("pop", R2), I1("call", Sym("sub")), I1("jmp", Sym("halt")),
           Label("sub"), I1("out", R2), I0("ret")>>, <<0, 3 * NsPerInsn, 24, 3 * NsPerInsn>>)}

(* Assembly that no table defines, or that leaves the memory or the disk,   *)
(* or runs for ever.  "out" with an immediate is defined by the table but    *)
(* not by the emulator: it is in no job.                                     *)
FailingJobs ==
    {Fails(x) : x \in
        {<<I2("mov", R1, Imm(ImmLimit - 1)), I3("lsl", R1, R1, Imm(3)), I1("jmp", R1)>>, <<I2("neg", R1, Imm(1)), I1("jmp", R1)>>, <<I1("jmp", Sym("none"))>>, <<I2("mov", R1, Imm(ImmLimit))>>, <<I1("shift", R1)>>,
         <<I2("mov", R1, Imm(8)), I2("screen", R1, R1)>>, <<I2("neg", R1, Imm(1)), I2("load_8", R2, R1)>>,
         <<I2("neg", R1, Imm(1)), I2("store_8", R1, R2)>>, <<I2("pload", R1, Imm(13))>>, <<I2("pstore", Imm(13), R1)>>, <<U32(WordSize)>>, <<U32(9 * ByteSize ^ 3)>>,
         <<Label("loop"), I1("jmp", Sym("loop2")), Label("loop2"), I1("jmp", Sym("loop"))>>}}
RawJobs(fs, gs, a, b) ==
    UNION {OpJobs, DivJobs, RightJobs, UnaryJobs, LazyJobs, CompoundJobs, StepJobs, BitJobs, StatementJobs,
           ProgramJobs(fs, gs), FilesJobs(a, b), CastJobs, DiffJobs, TypeJobs, WayJobs, ConstJobs,
           MacroJobs(fs, a, b), InvalidJobs}
SomeJobs ==
    {Job(r) : r \in RawJobs(FunctionJobs, GlobalJobs, FileA, FileB)}
    \cup UNION {AluJobs, JumpJobs, MemoryJobs, FailingJobs}
=============================================================================
