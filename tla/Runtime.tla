------------------------------ MODULE Runtime ------------------------------
(***************************************************************************)
(* runtime/divsi3.c: signed division and remainder, which the compiler     *)
(* calls because the machine divides unsigned numbers only.  The file is   *)
(* compiled and linked like any other.                                     *)
(***************************************************************************)
EXTENDS CMeaning

Negative(x) == Bin("<", V(x), Lit(0))
Negated(x)  == Bin("-", Lit(0), V(x))
SignedBy(name, op, differ) ==
    Func(name, SInt, <<Param2("a", SInt), Param2("b", SInt)>>,
         <<Var("ua", UInt, <<>>), Var("ub", UInt, <<>>), Var("q", UInt, <<>>),
           Do(Asg("=", V("ua"), V("a"))), Do(Asg("=", V("ub"), V("b"))),
           IfS(Negative("a"), <<Do(Asg("=", V("ua"), Negated("ua")))>>, <<>>),
           IfS(Negative("b"), <<Do(Asg("=", V("ub"), Negated("ub")))>>, <<>>),
           Do(Asg("=", V("q"), Bin(op, V("ua"), V("ub")))),
           IfS(differ, <<Ret(Negated("q"))>>, <<>>), Ret(V("q"))>>)

__divsi3 == SignedBy("__divsi3", "/", Bin("!=", Negative("a"), Negative("b")))
__modsi3 == SignedBy("__modsi3", "%", Negative("a"))
divsi3_c == <<__divsi3, __modsi3>>
=============================================================================
