-------------------------------- MODULE Asm --------------------------------
(***************************************************************************)
(* The two passes of the assembler (src/emu/asm.c).  The first adds up     *)
(* line sizes and notes where labels stand, the second encodes.  The       *)
(* result is a partial map from addresses to instruction words and one to  *)
(* data bytes; ByteBits scales the machine's bytes (8 in the code), the    *)
(* words of instructions keep their 32 bits.                               *)
(***************************************************************************)
EXTENDS Isa, Words, FiniteSets, TLC

Label(n)      == [k |-> "label", n |-> n]
Insn(op, a)   == [k |-> "insn", op |-> op, args |-> a]
Datum(w, arg) == [k |-> "data", w |-> w, arg |-> arg]
Chars(s)      == [k |-> "str", s |-> s]
Fill(n)       == [k |-> "fill", n |-> n]     \* n bytes 0, as the linkers write them, a line each

I0(op)          == Insn(op, <<>>)
I1(op, a)       == Insn(op, <<a>>)
I2(op, a, b)    == Insn(op, <<a, b>>)
I3(op, a, b, c) == Insn(op, <<a, b, c>>)
U32(v)          == Datum(4, Imm(v))

(* Bytes of v in a field of w bytes, most significant first.               *)
BigEndian(v, w) ==
    [i \in 1..w |-> (v \div 2 ^ (ByteBits * (w - i))) % ByteSize]

(* process_line: the bytes a line takes, or -1 when it is refused.         *)
InsnBytes(rows) == IF rows = <<>> THEN -1 ELSE 4 * Len(rows[1].bits)
LineBytes(l) ==
    CASE l.k = "label" -> 0
      [] l.k = "data"  -> IF l.arg.k = "imm" /\ l.arg.v < 2 ^ (ByteBits * l.w) THEN l.w ELSE -1
      [] l.k = "str"   -> Len(l.s)
      [] l.k = "fill"  -> l.n
      [] l.k = "insn"  -> InsnBytes(RowsFor(l.op, l.args))

(* Sums, running sums and concatenation of what lines take, by halves, so  *)
(* that long programs need no deep recursion.                              *)
Mid(i, j) == (i + j) \div 2
RECURSIVE SumOf(_, _, _), BasesOf(_, _, _, _), Concat(_, _, _)
SumOf(sizes, i, j) ==
    IF i > j THEN 0 ELSE IF i = j THEN sizes[i]
    ELSE SumOf(sizes, i, Mid(i, j)) + SumOf(sizes, Mid(i, j) + 1, j)
Total(sizes) == SumOf(sizes, 1, Len(sizes))

BasesOf(sizes, i, j, at) ==
    IF i > j THEN <<>> ELSE IF i = j THEN <<at>>
    ELSE BasesOf(sizes, i, Mid(i, j), at)
         \o BasesOf(sizes, Mid(i, j) + 1, j, at + SumOf(sizes, i, Mid(i, j)))
Bases(sizes, at) == BasesOf(sizes, 1, Len(sizes), at)

Concat(seqs, i, j) ==
    IF i > j THEN <<>> ELSE IF i = j THEN seqs[i]
    ELSE Concat(seqs, i, Mid(i, j)) \o Concat(seqs, Mid(i, j) + 1, j)
Joined(seqs) == Concat(seqs, 1, Len(seqs))

(* First pass: where every label stands; the first definition wins.        *)
add_label(lines) ==
    LET marks == {i \in 1..Len(lines) : lines[i].k = "label"}
        first(n) == CHOOSE i \in marks : lines[i].n = n /\ \A j \in marks : lines[j].n = n => i <= j
        Table(offs) == [n \in {lines[i].n : i \in marks} |-> offs[first(n)]]
        Pass(sizes, offs) == [ok |-> \A i \in 1..Len(lines) : sizes[i] >= 0,
                              offs |-> offs, labels |-> Table(offs)]
        Sized(sizes) == Pass(sizes, Bases(sizes, 0))
    IN  Sized([i \in 1..Len(lines) |-> LineBytes(lines[i])])

(* parse_imm with resolve set: a number, or the address of a label; one    *)
(* that does not fit an immediate, and an unknown label, are refused.      *)
parse_imm(labels, a) ==
    CASE a.k # "sym"                  -> a.v
      [] a.k = "sym" /\ a.n \in DOMAIN labels -> labels[a.n]
      [] OTHER                        -> ImmLimit

Refused(labels, l) ==
    /\ l.k = "insn"
    /\ \E i \in 1..Len(l.args) : parse_imm(labels, l.args[i]) >= ImmLimit

emit_insn(labels, l) ==
    isa_encode(RowsFor(l.op, l.args)[1],
               [i \in 1..Len(l.args) |-> parse_imm(labels, l.args[i])])

(* Second pass: instruction words and data bytes by address.               *)
At(off, step, values) ==
    [a \in {off + step * (i - 1) : i \in 1..Len(values)} |-> values[(a - off) \div step + 1]]

RECURSIVE Encoded(_, _, _, _)
Encoded(lines, pass, i, j) ==
    LET l == lines[i]
        off == pass.offs[i]
        Both(code, bytes) == [code |-> code, bytes |-> bytes]
        Merge(left, right) == Both(left.code @@ right.code, left.bytes @@ right.bytes)
    IN  IF i < j THEN Merge(Encoded(lines, pass, i, Mid(i, j)), Encoded(lines, pass, Mid(i, j) + 1, j))
        ELSE CASE l.k = "insn" -> Both(At(off, 4, emit_insn(pass.labels, l)), <<>>)
               [] l.k = "data" -> Both(<<>>, At(off, 1, BigEndian(l.arg.v, l.w)))
               [] l.k = "str"  -> Both(<<>>, At(off, 1, l.s))
               [] OTHER        -> Both(<<>>, <<>>)

asm_assemble(lines) ==
    LET Second(pass) ==
            IF pass.ok /\ \A i \in 1..Len(lines) : ~Refused(pass.labels, lines[i])
            THEN [ok |-> TRUE] @@ Encoded(lines, pass, 1, Len(lines))
            ELSE [ok |-> FALSE, code |-> <<>>, bytes |-> <<>>]
    IN  Second(add_label(lines))
=============================================================================
