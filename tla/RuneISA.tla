------------------------------ MODULE RuneISA ------------------------------
(***************************************************************************)
(* What the assembler and the machine of RuneISA share: 24-bit words, the  *)
(* table of mnemonics and operand formats, the encoding of an instruction, *)
(* and what an arithmetic instruction computes.                            *)
(*                                                                         *)
(* A word has WordBytes bytes (3 in the code) and a stack cell, like an    *)
(* address, CellBytes bytes (8 in the code).  Bitwise operators of the     *)
(* code are written with \div and %, whose results TLA+ defines for        *)
(* negative dividends the way Python does.                                 *)
(***************************************************************************)
EXTENDS Integers, Sequences, FiniteSets, SequencesExt

CONSTANTS WordBytes, CellBytes

ASSUME WordBytesAssumption == WordBytes \in Nat \ {0}
ASSUME CellBytesAssumption == CellBytes \in Nat /\ CellBytes > WordBytes

\* b to the n, in a form that can be reasoned about for every n.
Exp(b, n) == LET power[k \in Nat] == IF k = 0 THEN 1 ELSE b * power[k - 1]
             IN power[n]

INSTRSZ == WordBytes + 3
Modulus == Exp(256, WordBytes)      \* 1 << WORDSZ
MAXVAL == Modulus \div 2 - 1
MINVAL == -(Modulus \div 2)
Word == MINVAL .. MAXVAL
Top == Exp(256, CellBytes)          \* one more than the mask of an address

\* Slip: the result keeps its low bits but loses its sign.
to24_Slip(v) == v % Modulus
to24(v) == ((v - MINVAL) % Modulus) + MINVAL

Addr(v) == v % Top                  \* v & 0xFFFFFFFFFFFFFFFF

\* The n low bytes of v, least significant first, and the number they spell.
Bytes(v, n) == [i \in 1 .. n |-> (v \div Exp(256, i - 1)) % 256]
LE(bs) == LET from[k \in 1 .. Len(bs) + 1] ==
                  IF k > Len(bs) THEN 0 ELSE bs[k] + 256 * from[k + 1]
          IN from[1]

----------------------------------------------------------------------------
(* Mnemonics and encodings *)

\* In the order of their opcodes, from 0x00 to 0x26.
Mnemonics ==
    << "HALT", "MOV", "MOVR", "ADD", "SUB", "ADDI", "SUBI", "MUL", "DIV",
       "MOD", "AND", "OR", "XOR", "NOT", "SHL", "SHR", "LOAD", "STORE",
       "LOADI", "STOREI", "JMP", "JEQ", "JNE", "JLT", "JGT", "JLE", "JGE",
       "MZERO", "INC", "DEC", "NEG", "SYSCALL", "PUSH", "POP", "CALL",
       "RET", "PUSHI", "PUSHA", "POPA" >>

None == ""      \* in place of a line's mnemonic or label, when it has none

Opcode(m) == SelectInSeq(Mnemonics, LAMBDA n : n = m) - 1
OPCODES == ToSet(Mnemonics)

ThreeRegs == {"ADD", "SUB", "MUL", "DIV", "MOD", "AND", "OR", "XOR"}
Branches == {"JEQ", "JNE", "JLT", "JGT", "JLE", "JGE"}
OneReg == {"NOT", "MZERO", "INC", "DEC", "NEG"}
RegImm == {"ADDI", "SUBI", "SHL", "SHR"}

\* The operands of a mnemonic: its number of registers, and whether an
\* immediate follows them.  SYSCALL takes one to three registers.
NumRegs(m) ==
    CASE m \in ThreeRegs \cup {"PUSHA", "POPA"} -> 3
      [] m \in Branches \cup {"MOVR", "LOAD", "STORE"} -> 2
      [] m \in {"HALT", "JMP", "RET", "PUSHI"} -> 0
      [] OTHER -> 1
TakesImm(m) == m \in Branches \cup RegImm
                    \cup {"MOV", "LOADI", "STOREI", "JMP", "PUSHI"}

\* A decoded instruction.  Registers are 0, 1, 2 for RA, RB, RC and -1 for
\* a field that is absent (00 in the encoding).
Instr(m, regs, imm) == [op |-> m, r |-> regs, imm |-> imm]

encInstr(i) ==
    Bytes(i.imm, WordBytes)
        \o << 64 * (i.r[1] + 1) + 16 * (i.r[2] + 1) + 4 * (i.r[3] + 1) >>
        \o Bytes(4 * Opcode(i.op), 2)

\* Bytes that are no instruction (an opcode that is not in the table, or
\* reserved bits that are set) decode to the mnemonic "?", which no rule of
\* the machine executes.
decodeInstr(bs) ==
    LET fields == bs[WordBytes + 1]
        op == LE(<<bs[WordBytes + 2], bs[WordBytes + 3]>>)
        reg(unit) == ((fields \div unit) % 4) - 1
        legal == op % 4 = 0 /\ (op \div 4) % 256 < Len(Mnemonics) /\ fields % 4 = 0
    IN Instr(IF legal THEN Mnemonics[((op \div 4) % 256) + 1] ELSE "?",
             << reg(64), reg(16), reg(4) >>,
             to24(LE(SubSeq(bs, 1, WordBytes))))

----------------------------------------------------------------------------
(* Arithmetic *)

\* A bitwise operator on words, from what it does to two bits.
AndBits == [x \in 0 .. 1 |-> [y \in 0 .. 1 |-> x * y]]
OrBits == [x \in 0 .. 1 |-> [y \in 0 .. 1 |-> x + y - x * y]]
XorBits == [x \in 0 .. 1 |-> [y \in 0 .. 1 |-> (x + y) % 2]]
Bit(v, k) == (v \div Exp(2, k)) % 2
Bitwise2(a, b, f) ==
    LET low[k \in 0 .. 8 * WordBytes] ==       \* the k low bits of the result
            IF k = 0 THEN 0
            ELSE low[k - 1] + Exp(2, k - 1) * f[Bit(a, k - 1)][Bit(b, k - 1)]
    IN low[8 * WordBytes]

Abs(v) == IF v < 0 THEN -v ELSE v

\* int(a / b): toward zero.
Quotient(a, b) == (IF (a < 0) # (b < 0) THEN -1 ELSE 1) * (Abs(a) \div Abs(b))
\* a % b: with the sign of the divisor.
Remainder(a, b) == IF b < 0 THEN -((-a) % (-b)) ELSE a % b

\* The shift amount of the code is imm & 0x1F; past the width of a word
\* every bit is gone.
ShiftBy(imm) == LET s == imm % 32 IN IF s > 8 * WordBytes THEN 8 * WordBytes ELSE s

\* What ADD .. XOR compute from two registers.
Binary(op, a, b) ==
    to24(CASE op = "ADD" -> a + b
           [] op = "SUB" -> a - b
           [] op = "MUL" -> a * b
           [] op = "DIV" -> Quotient(a, b)
           [] op = "MOD" -> Remainder(a, b)
           [] op = "AND" -> Bitwise2(a, b, AndBits)
           [] op = "OR"  -> Bitwise2(a, b, OrBits)
           [] op = "XOR" -> Bitwise2(a, b, XorBits))
DividesByZero(op, b) == op \in {"DIV", "MOD"} /\ b = 0

\* What an instruction on one register computes.  NOT and NEG are exchanged in
\* the machines of the two servers, and not in ISAspec.md (63, 80).
Unary(dialect, op, a, imm) ==
    to24(CASE op = "ADDI" -> a + imm
           [] op = "SUBI" -> a - imm
           [] op = "SHL"  -> (a % Exp(2, 8 * WordBytes - ShiftBy(imm))) * Exp(2, ShiftBy(imm))
           [] op = "SHR"  -> a \div Exp(2, ShiftBy(imm))
           [] op = "MZERO" -> 0
           [] op = "INC" -> a + 1
           [] op = "DEC" -> a - 1
           [] op = "NOT" -> IF dialect = "isa" THEN -a - 1 ELSE -a
           [] op = "NEG" -> IF dialect = "isa" THEN -a ELSE -a - 1)

Taken(op, a, b) ==
    CASE op = "JEQ" -> a = b
      [] op = "JNE" -> a # b
      [] op = "JLT" -> a < b
      [] op = "JGT" -> a > b
      [] op = "JLE" -> a <= b
      [] op = "JGE" -> a >= b

----------------------------------------------------------------------------
(* Bytes in memory.  A byte that was never written is 0. *)

ByteAt(m, a) == IF a \in DOMAIN m THEN m[a] ELSE 0
BytesAt(m, a, n) == [i \in 1 .. n |-> ByteAt(m, a + i - 1)]
Overlay(m, a, bs) ==
    [x \in DOMAIN m \cup (a .. a + Len(bs) - 1) |->
        IF x \in a .. a + Len(bs) - 1 THEN bs[x - a + 1] ELSE m[x]]

\* The text at a: the bytes before the first zero.
Text(m, a) ==
    LET longest == Cardinality(DOMAIN m)
        n == CHOOSE k \in 0 .. longest :
                ByteAt(m, a + k) = 0 /\ \A j \in 0 .. k - 1 : ByteAt(m, a + j) # 0
    IN BytesAt(m, a, n)

\* STRCMP: the order of the first bytes that differ, a text ending in a zero.
Compare(m, a, b) ==
    LET s == Append(Text(m, a), 0)
        t == Append(Text(m, b), 0)
        shorter == IF Len(s) < Len(t) THEN Len(s) ELSE Len(t)
        differ == {i \in 1 .. shorter : s[i] # t[i]}
        first == CHOOSE i \in differ : \A j \in differ : i <= j
    IN IF differ = {} THEN 0 ELSE IF s[first] < t[first] THEN -1 ELSE 1

Digits(v, base) == 1 + Cardinality({k \in 1 .. 7 : v >= Exp(base, k)})

\* READ_STR cuts the text to the buffer's length, in characters, but not in the
\* legacy machine.  It writes the low byte of each character, and no zero byte
\* after the last.
ReadLength(dialect, text, maxLen) ==
    IF dialect = "legacy" \/ Len(text) <= maxLen THEN Len(text) ELSE maxLen
LowBytes(text, n) == [k \in 1 .. n |-> text[k] % 256]
============================================================================
