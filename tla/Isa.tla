-------------------------------- MODULE Isa --------------------------------
(***************************************************************************)
(* The instruction table of SymphonyPlus (src/emu/isa.c) and the           *)
(* assembler's use of it (src/emu/asm.c).  An instruction is one or more   *)
(* 32-bit words, each a fixed pattern with register and immediate fields.  *)
(* Every pattern is below 2^31, so words are TLC integers of their real    *)
(* width; the fields never overlap the fixed bits, so "or" is "+".         *)
(*                                                                         *)
(* An assembly line is a record: a label, an instruction with operands, a  *)
(* datum, or a string.  The text of a line (blanks, commas, comments, the  *)
(* spelling of numbers) is left out; what an operand is, is kept:          *)
(*   [k |-> "reg", v |-> 0..15]   [k |-> "imm", v |-> number]              *)
(*   [k |-> "sym", n |-> name]    a bare name, an immediate to the table   *)
(***************************************************************************)
EXTENDS Integers, Sequences, SequencesExt

CONSTANT ImmBits   \* width of an immediate: 16 in the code

ImmLimit == 2 ^ ImmBits

zr == 0
sp == 14
flags == 15

Reg(i)  == [k |-> "reg", v |-> i]
Imm(v)  == [k |-> "imm", v |-> v]
Sym(n)  == [k |-> "sym", n |-> n]

(* A field of a word: its kind and the positions its value is put at.      *)
REG(p) == [kind |-> "reg", pos |-> <<p>>]
IMM    == [kind |-> "imm", pos |-> <<0>>]

(* One row: name, the fixed bits of each word, the fields of each word.    *)
Row(name, bits, ops) == [name |-> name, bits |-> bits, ops |-> ops]
One(name, byte0, byte1, ops) ==
    Row(name, <<byte0 * 2 ^ 24 + byte1 * 2 ^ 16>>, <<ops>>)

AluNames == <<"nand", "or", "and", "nor", "add", "sub", "xor", "lsl", "lsr",
              "asr", "cmp", "mul", "div", "mod">>
CondNames == <<"je", "jb", "jbe", "jl", "jle">>
CondOpposites == <<"jne", "jae", "ja", "jge", "jg">>

AluRows ==
    FlattenSeq([i \in 1..Len(AluNames) |->
        IF AluNames[i] = "cmp"
        THEN <<One("cmp", 42, 240, <<REG(16), REG(8)>>),
               One("cmp", 58, 240, <<REG(16), IMM>>)>>
        ELSE <<One(AluNames[i], 31 + i, 0, <<REG(20), REG(16), REG(8)>>),
               One(AluNames[i], 47 + i, 0, <<REG(20), REG(16), IMM>>)>>])

JumpRows ==
    <<One("jmp", 72, 15, <<REG(8)>>), One("jmp", 88, 15, <<IMM>>)>>
    \o FlattenSeq([i \in 1..Len(CondNames) |->
         <<One(CondNames[i], 80 + i, 15, <<IMM>>),
           One(CondOpposites[i], 88 + i, 15, <<IMM>>)>>])

LoadNames  == <<"load_8", "load_16", "load_32", "pload">>
StoreNames == <<"store_8", "store_16", "store_32", "pstore">>

MemoryRows ==
    FlattenSeq([i \in 1..4 |->
        <<One(LoadNames[i], 95 + i, 0, <<REG(20), REG(8)>>),
          One(LoadNames[i], 111 + i, 0, <<REG(20), IMM>>),
          One(StoreNames[i], 99 + i, 0, <<REG(8), REG(16)>>),
          One(StoreNames[i], 115 + i, 0, <<IMM, REG(16)>>)>>])

IoRows ==
    <<One("nop", 0, 0, <<>>), One("in", 1, 0, <<REG(20)>>),
      One("out", 2, 0, <<REG(8)>>), One("out", 18, 0, <<IMM>>),
      One("keyboard", 3, 0, <<REG(20)>>),
      One("screen", 4, 0, <<REG(16), REG(8)>>), One("screen", 20, 0, <<REG(16), IMM>>),
      One("time_0", 5, 0, <<REG(20)>>), One("time_1", 6, 0, <<REG(20)>>),
      One("counter", 7, 0, <<REG(20)>>)>>

(* mov, neg and not are or, sub and nor with a register fixed.             *)
AliasRows ==
    <<One("mov", 33, 0, <<REG(20), REG(8)>>), One("mov", 49, 0, <<REG(20), IMM>>),
      One("neg", 37, 0, <<REG(20), REG(8)>>), One("neg", 53, 0, <<REG(20), IMM>>),
      One("not", 35, 0, <<REG(20), [kind |-> "reg", pos |-> <<16, 8>>]>>),
      One("not", 51, 0, <<REG(20), IMM>>)>>

(* The words of the pseudo instructions: sub sp,sp,4; store_32 [sp],r ...  *)
SubSp4   == 53 * 2 ^ 24 + 238 * 2 ^ 16 + 4
AddSp4   == 52 * 2 ^ 24 + 238 * 2 ^ 16 + 4
StoreAtSp(r) == 102 * 2 ^ 24 + r * 2 ^ 16 + sp * 2 ^ 8
LoadAtSp(r)  == 98 * 2 ^ 24 + r * 2 ^ 20 + sp * 2 ^ 8

PseudoRows ==
    <<Row("push", <<SubSp4, StoreAtSp(0)>>, <<<<>>, <<REG(16)>>>>),
      Row("pop", <<LoadAtSp(0), AddSp4>>, <<<<REG(20)>>, <<>>>>),
      Row("call", <<7 * 2 ^ 24 + flags * 2 ^ 20,
                    52 * 2 ^ 24 + 255 * 2 ^ 16 + 20,
                    SubSp4, StoreAtSp(flags), 88 * 2 ^ 24 + 15 * 2 ^ 16>>,
                  <<<<>>, <<>>, <<>>, <<>>, <<IMM>>>>),
      Row("ret", <<LoadAtSp(flags), AddSp4, 72 * 2 ^ 24 + 15 * 2 ^ 16 + flags * 2 ^ 8>>,
                 <<<<>>, <<>>, <<>>>>)>>

isa_table == IoRows \o AliasRows \o AluRows \o JumpRows \o MemoryRows \o PseudoRows

Fields(row) == FlattenSeq(row.ops)

(* parse_operands: a register matches a register field; anything else but  *)
(* a register name matches an immediate field.                             *)
Matches(row, args) ==
    /\ Len(args) = Len(Fields(row))
    /\ \A i \in 1..Len(args) : (Fields(row)[i].kind = "reg") = (args[i].k = "reg")

RowsFor(op, args) == SelectSeq(isa_table, LAMBDA r : r.name = op /\ Matches(r, args))

Placed(field, v) ==
    FoldLeft(LAMBDA acc, p : acc + v * 2 ^ p, 0, field.pos)

Before(row, w) == Len(FlattenSeq(SubSeq(row.ops, 1, w - 1)))

isa_encode(row, vals) ==
    [w \in 1..Len(row.bits) |->
        FoldLeft(LAMBDA acc, o : acc + Placed(row.ops[w][o], vals[Before(row, w) + o]),
                 row.bits[w], [o \in 1..Len(row.ops[w]) |-> o])]
=============================================================================
