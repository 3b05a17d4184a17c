------------------------------ MODULE ConstInt ------------------------------
(***************************************************************************)
(* Constant arithmetic of the compiler (src/symcc/src/const_int.h), used   *)
(* by #if and by the parser.  Signed values are CcInt: wider than a word   *)
(* on the host.                                                            *)
(***************************************************************************)
EXTENDS Words

Compares(op, x, y) ==
    CASE op = "==" -> x = y [] op = "!=" -> x # y [] op = "<" -> x < y
      [] op = "<=" -> x <= y [] op = ">" -> x > y [] op = ">=" -> x >= y

(* One operator on (a, ua) and (b, ub): <<value, unsigned>>, or <<>> for   *)
(* "constant shift out of range".                                          *)
cc_binary(a, ua, b, ub, op) ==
    LET x == a % WordSize
        y == b % WordSize
        uns == ua \/ ub
        Both(n, m) == IF uns THEN n % WordSize ELSE m
        Bits(n) == IF uns THEN n ELSE Signed(n)
    IN CASE op = "&&" -> <<Truth(a # 0 /\ b # 0), FALSE>>
         [] op = "||" -> <<Truth(a # 0 \/ b # 0), FALSE>>
         [] op \in {"==", "!=", "<", "<=", ">", ">="} ->
              <<Truth(IF uns THEN Compares(op, x, y) ELSE Compares(op, a, b)), FALSE>>
         [] op \in {"<<", ">>"} ->
              IF b < 0 \/ b >= WordBits THEN <<>>
              ELSE IF op = "<<" THEN <<IF ua THEN ShiftUp(x, b) ELSE a * 2 ^ b, ua>>
              ELSE <<IF ua THEN x \div 2 ^ b ELSE a \div 2 ^ b, ua>>
         [] op = "+" -> <<Both(x + y, a + b), uns>>
         [] op = "-" -> <<Both(x - y, a - b), uns>>
         [] op = "*" -> <<IF uns THEN Times(x, y) ELSE a * b, uns>>
         [] op = "/" -> <<IF b = 0 THEN 0 ELSE IF uns THEN x \div y ELSE CDiv(a, b), uns>>
         [] op = "%" -> <<IF b = 0 THEN 0 ELSE IF uns THEN x % y ELSE CMod(a, b), uns>>
         [] op = "&" -> <<Bits(x & y), uns>>
         [] op = "^" -> <<Bits(x ^^ y), uns>>
         [] op = "|" -> <<Bits(x | y), uns>>
=============================================================================
