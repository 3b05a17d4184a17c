-------------------------------- MODULE Ast --------------------------------
(***************************************************************************)
(* What the parser hands to the code generator (src/symcc/src/symcc.h):    *)
(* types and trees.  A tree is a record with the kind, the type and the    *)
(* children its kind has; a statement list is a sequence.  Source          *)
(* positions, kept for messages only, are left out.                        *)
(***************************************************************************)
EXTENDS Words, Sequences, SequencesExt, FiniteSets, TLC

(* Types.  A struct or union is known by its number in the parser's table, *)
(* where its size and members are filled in when its body has been read.   *)
Ty(kind, size) == [kind |-> kind, uns |-> FALSE, long |-> FALSE, size |-> size]
ty_int   == Ty("int", 4)
ty_char  == Ty("char", 1)
ty_short == Ty("short", 2)
ty_void  == Ty("void", 1)
ty_uint  == [ty_int EXCEPT !.uns = TRUE]
ty_long  == [ty_int EXCEPT !.long = TRUE]
ty_ptr(base) == Ty("ptr", 4) @@ [base |-> base]
ty_array(base, len) ==
    Ty("array", IF len < 0 THEN 0 ELSE len * base.size) @@ [base |-> base, len |-> len]
ty_func(base, params, knr, variadic) ==
    Ty("func", 0) @@ [base |-> base, params |-> params, knr |-> knr, variadic |-> variadic]
ty_agg(kind, id, size) == Ty(kind, size) @@ [id |-> id]

func_to_ptr(ty) == IF ty.kind = "func" THEN ty_ptr(ty) ELSE ty

is_agg(t) == t.kind \in {"struct", "union"}
Decays(t) == t.kind = "array" \/ is_agg(t)

Round4(size) == ((size + 3) \div 4) * 4

(* Expressions.                                                            *)
Node(kind, ty)          == [kind |-> kind, ty |-> ty]
new_num(v)              == Node("num", ty_int) @@ [v |-> v]
new_unary(kind, e, ty)  == Node(kind, ty) @@ [lhs |-> e]
new_binary(kind, l, r, ty) == Node(kind, ty) @@ [lhs |-> l, rhs |-> r]
new_assign(l, r)        == new_binary("assign", l, r, l.ty)
VarNode(off, ty)        == Node("var", ty) @@ [off |-> off]
GVarNode(name, ty)      == Node("gvar", ty) @@ [name |-> name]
MemberNode(e, m)        == Node("member", m.ty) @@ [lhs |-> e, off |-> m.off, bo |-> m.bo, bw |-> m.bw]

(* Statements; `body' and `els' are sequences.                             *)
Stmt(kind)              == [kind |-> kind]
ExprStmt(e)             == Stmt("expr") @@ [e |-> e]
=============================================================================
