------------------------------ MODULE Machine ------------------------------
(***************************************************************************)
(* The emulator of the machine (src/emu/emu.c): a loop that fetches a      *)
(* word, splits it into opcode byte and fields, and carries it out.        *)
(*                                                                         *)
(* Registers and memory hold words of WordBits bits (32 in the code) made  *)
(* of four bytes, most significant first.  Instruction words keep their    *)
(* real 32 bits and live in a map of their own: a program that reads or    *)
(* writes its own instructions, or jumps into the middle of one, is not    *)
(* modelled.                                                               *)
(***************************************************************************)
EXTENDS Asm

CONSTANTS
    RamSize,     \* ram_size, in bytes; a power of two here
    DiskSize,    \* r.disk_size, in bytes
    MaxInstr,    \* max_instr, the instructions a run may take
    NsPerInsn,   \* opt->ns_per_instruction
    KeyValues    \* what opt->keyboard may answer

VARIABLES
    text,        \* instruction words by address
    ram,         \* bytes of memory that are not 0
    disk,        \* words of the disk that are not 0, by byte address
    regs, pc,
    last,        \* last_a and last_b, the operands of the last cmp
    settings,    \* the eight screen settings
    printed,     \* what out has printed
    time_high,
    count,       \* instructions carried out
    status       \* "run", "halt", or the error: 1 limit, 2 address, 3 opcode

mvars == <<text, ram, disk, regs, pc, last, settings, printed, time_high, count, status>>

Byte(a) == IF a \in DOMAIN ram THEN ram[a] ELSE 0
RECURSIVE ReadBytes(_, _)
ReadBytes(a, w) == IF w = 0 THEN 0 ELSE ReadBytes(a, w - 1) * ByteSize + Byte(a + w - 1)
WriteBytes(a, w, v) ==
    At(a, 1, BigEndian(v % 2 ^ (ByteBits * w), w)) @@ ram

(* The word at pc, and its fields: an instruction, or the bytes that data  *)
(* or nothing has left there.                                              *)
CanFetch ==
    \/ pc \in DOMAIN text
    \/ pc + 4 <= RamSize /\ (pc - 3..pc + 3) \cap DOMAIN text = {}
Fetched ==
    IF pc \in DOMAIN text THEN text[pc]
    ELSE Byte(pc) * 2 ^ 24 + Byte(pc + 1) * 2 ^ 16 + Byte(pc + 2) * 2 ^ 8 + Byte(pc + 3)
b0      == Fetched \div 2 ^ 24
fieldA  == (Fetched \div 2 ^ 20) % 16
fieldB  == (Fetched \div 2 ^ 16) % 16
fieldC  == (Fetched \div 2 ^ 8) % 16
imm16   == Fetched % 2 ^ 16

(* Opcodes 0x20..0x2D and 0x30..0x3D: the last operand is a register in    *)
(* the first group and the immediate in the second.                        *)
Operand == IF b0 < 48 THEN regs[fieldC] ELSE imm16

Alu(code, x, y) ==
    LET s == y % WordBits IN
    CASE code = 0  -> WordSize - 1 - (x & y)
      [] code = 1  -> x | y
      [] code = 2  -> x & y
      [] code = 3  -> WordSize - 1 - (x | y)
      [] code = 4  -> (x + y) % WordSize
      [] code = 5  -> (x - y) % WordSize
      [] code = 6  -> x ^^ y
      [] code = 7  -> ShiftUp(x, s)
      [] code = 8  -> x \div 2 ^ s
      [] code = 9  -> (Signed(x) \div 2 ^ s) % WordSize
      [] code = 11 -> Times(x, y)
      [] code = 12 -> IF y = 0 THEN 0 ELSE x \div y
      [] code = 13 -> IF y = 0 THEN 0 ELSE x % y

(* The conditions of the jumps 0x51..0x55 and their opposites.             *)
HoldsStrictly(code, a, b) ==   \* a bug: <= taken for <
    CASE code = 1 -> a = b
      [] code \in {2, 3} -> a < b
      [] code \in {4, 5} -> Signed(a) < Signed(b)

Holds(code, a, b) ==
    CASE code = 1 -> a = b
      [] code = 2 -> a < b
      [] code = 3 -> a <= b
      [] code = 4 -> Signed(a) < Signed(b)
      [] code = 5 -> Signed(a) <= Signed(b)

set_any_reg(r, v) == regs' = [regs EXCEPT ![r] = v]   \* a bug: zr can be written
set_reg(r, v) == regs' = IF r > 0 THEN [regs EXCEPT ![r] = v] ELSE regs

Advance == pc' = pc + 4
Fail(e) ==
    /\ status' = e
    /\ UNCHANGED <<text, ram, disk, regs, pc, last, settings, printed, time_high>>

(* A jump to itself is the machine's halt.                                 *)
Jump(t) ==
    /\ IF t = pc THEN status' = "halt" /\ UNCHANGED pc
                 ELSE pc' = t /\ UNCHANGED status
    /\ UNCHANGED <<text, ram, disk, regs, last, settings, printed, time_high>>

Running == status = "run" /\ count < MaxInstr /\ CanFetch
Counted == count' = count + 1

(* A fetch beyond ram_size.                                                *)
FetchFails ==
    /\ status = "run" /\ count < MaxInstr /\ ~CanFetch
    /\ Counted /\ Fail("2")

LimitReached ==
    /\ status = "run" /\ count = MaxInstr
    /\ Fail("1") /\ UNCHANGED count

(* in, keyboard, time_0, time_1, counter: a register gets a value.         *)
InputTo(v) ==
    /\ set_reg(fieldA, v) /\ Advance
    /\ UNCHANGED <<text, ram, disk, last, settings, printed, status>>

Input ==
    /\ Running /\ Counted
    /\ \/ b0 = 1 /\ InputTo(0) /\ UNCHANGED time_high
       \/ b0 = 3 /\ \E key \in KeyValues : InputTo(key) /\ UNCHANGED time_high
       \/ b0 = 5 /\ InputTo((count * NsPerInsn) % WordSize)
                 /\ time_high' = (count * NsPerInsn) \div WordSize
       \/ b0 = 6 /\ InputTo(time_high) /\ UNCHANGED time_high
       \/ b0 = 7 /\ InputTo(pc % WordSize) /\ UNCHANGED time_high

(* nop and out: 0x10 is what emu.c takes for out with an immediate.        *)
Output ==
    /\ Running /\ Counted /\ b0 \in {0, 2, 16}
    /\ printed' = CASE b0 = 0  -> printed
                    [] b0 = 2  -> Append(printed, regs[fieldC])
                    [] b0 = 16 -> Append(printed, imm16)
    /\ Advance
    /\ UNCHANGED <<text, ram, disk, regs, last, settings, time_high, status>>

Screen ==
    /\ Running /\ Counted /\ b0 \in {4, 20}
    /\ IF regs[fieldB] >= 8 THEN Fail("2")
       ELSE /\ settings' = [settings EXCEPT ![regs[fieldB]] = IF b0 = 4 THEN regs[fieldC] ELSE imm16]
            /\ Advance
            /\ UNCHANGED <<text, ram, disk, regs, last, printed, time_high, status>>

Compute ==
    /\ Running /\ Counted
    /\ b0 \in (32..45 \cup 48..61) \ {42, 58}
    /\ set_reg(fieldA, Alu(b0 % 16, regs[fieldB], Operand))
    /\ Advance
    /\ UNCHANGED <<text, ram, disk, last, settings, printed, time_high, status>>

Compare ==
    /\ Running /\ Counted /\ b0 \in {42, 58}
    /\ last' = <<regs[fieldB], Operand>>
    /\ Advance
    /\ UNCHANGED <<text, ram, disk, regs, settings, printed, time_high, status>>

JumpAlways ==
    /\ Running /\ Counted /\ b0 \in {72, 88}
    /\ Jump(IF b0 = 72 THEN regs[fieldC] ELSE imm16)

JumpIf ==
    /\ Running /\ Counted /\ b0 \in 81..85 \cup 89..93
    /\ IF Holds(b0 % 8, last[1], last[2]) = (b0 < 88)
       THEN Jump(imm16)
       ELSE /\ Advance
            /\ UNCHANGED <<text, ram, disk, regs, last, settings, printed, time_high, status>>

(* Loads and stores: bits 0 and 1 of the opcode are the width, the group   *)
(* 0x70 takes its address from the immediate, width 3 is the disk.         *)
Width   == 2 ^ (b0 % 4)
Address == IF b0 < 112 THEN regs[fieldC] ELSE imm16
InRange == IF b0 % 4 = 3 THEN Address + 4 <= DiskSize ELSE Address + Width <= RamSize

Load ==
    /\ Running /\ Counted /\ b0 \in 96..99 \cup 112..115
    /\ IF ~InRange THEN Fail("2")
       ELSE /\ set_reg(fieldA, IF b0 % 4 # 3 THEN ReadBytes(Address, Width)
                               ELSE IF Address \in DOMAIN disk THEN disk[Address] ELSE 0)
            /\ Advance
            /\ UNCHANGED <<text, ram, disk, last, settings, printed, time_high, status>>

Store ==
    /\ Running /\ Counted /\ b0 \in 100..103 \cup 116..119
    /\ IF ~InRange THEN Fail("2")
       ELSE /\ IF b0 % 4 # 3
               THEN ram' = WriteBytes(Address, Width, regs[fieldB]) /\ UNCHANGED disk
               ELSE disk' = (Address :> regs[fieldB]) @@ disk /\ UNCHANGED ram
            /\ Advance
            /\ UNCHANGED <<text, regs, last, settings, printed, time_high, status>>

Opcodes == (0..7) \cup {16, 20} \cup (32..45) \cup (48..61) \cup {72, 88}
           \cup (81..85) \cup (89..93) \cup (96..103) \cup (112..119)

UnknownOpcode ==
    /\ Running /\ Counted /\ b0 \notin Opcodes
    /\ Fail("3")

emu_run ==
    \/ FetchFails \/ LimitReached \/ Input \/ Output \/ Screen \/ Compute \/ Compare
    \/ JumpAlways \/ JumpIf \/ Load \/ Store \/ UnknownOpcode

(* The state emu_run_ex starts from: image loaded, everything else zero.   *)
Reset(code, bytes, start) ==
    /\ text' = code /\ ram' = bytes /\ pc' = start
    /\ disk' = <<>> /\ regs' = [r \in 0..15 |-> 0] /\ last' = <<0, 0>>
    /\ settings' = [i \in 0..7 |-> 0] /\ printed' = <<>>
    /\ time_high' = 0 /\ count' = 0 /\ status' = "run"

MachineOff ==
    /\ text = <<>> /\ ram = <<>> /\ disk = <<>> /\ regs = [r \in 0..15 |-> 0] /\ pc = 0
    /\ last = <<0, 0>> /\ settings = [i \in 0..7 |-> 0] /\ printed = <<>>
    /\ time_high = 0 /\ count = 0 /\ status = "off"
=============================================================================
