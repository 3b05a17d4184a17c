------------------------------- MODULE Words -------------------------------
(***************************************************************************)
(* The machine's bytes and words, shared by compiler, assembler and        *)
(* emulator.  A word is four bytes; ByteBits is 8 in the code and smaller  *)
(* here, so that every boundary of the arithmetic is reached by small      *)
(* numbers.                                                                *)
(***************************************************************************)
EXTENDS Integers, Bitwise

CONSTANT ByteBits

ByteSize == 2 ^ ByteBits
WordBits == 4 * ByteBits
WordSize == 2 ^ WordBits

(* An n-bit pattern as a two's complement number.                          *)
SignedIn(x, bits) == IF x >= 2 ^ (bits - 1) THEN x - 2 ^ bits ELSE x
Signed(x) == SignedIn(x, WordBits)

(* Products and shifts modulo WordSize, in steps that stay small.          *)
Times(x, y) == (x * (y % 256) + ((x * (y \div 256)) % 256) * 256) % WordSize
ShiftUp(x, n) == (x % 2 ^ (WordBits - n)) * 2 ^ n

Truth(b) == IF b THEN 1 ELSE 0
Abs(n)   == IF n < 0 THEN -n ELSE n
Sign(n)  == IF n < 0 THEN -1 ELSE 1

(* C division truncates towards zero, and the remainder has a's sign.      *)
CDiv(a, b) == Sign(a) * Sign(b) * (Abs(a) \div Abs(b))
CMod(a, b) == a - b * CDiv(a, b)
=============================================================================
