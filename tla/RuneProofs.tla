----------------------------- MODULE RuneProofs -----------------------------
(***************************************************************************)
(* The toolchain, for every program and any sizes of memory and stack.     *)
(* First the two passes of the assembler: while no line is in error and no *)
(* empty text was met, the second pass is at each line where the first had *)
(* been; and the bytes it emits are the instructions and the data that     *)
(* RuneText reads in the text, each at its place.  Then the machine: where *)
(* the stack pointer stays, with three cells between memory and stack, and *)
(* the types of the assembler's and the machine's state.                   *)
(***************************************************************************)
EXTENDS RuneToolchain, RuneLemmas

\* Where the first pass finds each line of a text and, at last, its end.
Positions(text) ==
    LET place[i \in 1 .. Len(text) + 1] ==
            IF i = 1 THEN 0 ELSE place[i - 1] + lineSize(text[i - 1], place[i - 1])
    IN place

\* The labels of the first n lines stand for the positions of those lines, the
\* last one where several have the name.
LabelsOf(text, n) ==
    /\ DOMAIN labels = {text[i].lbl : i \in 1 .. n} \ {None}
    /\ \A i \in 1 .. n :
          (text[i].lbl # None /\ \A j \in i + 1 .. n : text[j].lbl # text[i].lbl)
          => labels[text[i].lbl] = Positions(text)[i]

AsmType ==
    /\ src \in DOMAIN Sources
    /\ phase \in {"pass1", "pass2", "done"} /\ cur \in 1 .. Len(lines) + 1 /\ pos \in Nat
    /\ \A name \in DOMAIN labels : labels[name] \in Int
    /\ phase = "done" => cur = Len(lines) + 1
    /\ code \in Seq(Byte) /\ (phase # "pass1" => pos = Len(code))
    /\ phase = "pass1" => errs = {}

NoEmptyText(n) == \A i \in 1 .. n : ~EmptyText(lines[i])
AsmInv ==
    /\ AsmType
    /\ phase = "pass1" => pos = Positions(lines)[cur] /\ LabelsOf(lines, cur - 1)
    /\ phase # "pass1" => LabelsOf(lines, Len(lines))
    /\ (phase # "pass1" /\ errs = {} /\ NoEmptyText(cur - 1)) => pos = Positions(lines)[cur]

----------------------------------------------------------------------------
(* The sizes of the lines and their positions *)

LEMMA PaddingType ==
    ASSUME NEW p \in Nat
    PROVE  Padding(p) \in Nat
<1>1. INSTRSZ \in Nat \ {0}
  BY WordBytesAssumption DEF INSTRSZ
<1>2. p % INSTRSZ \in 0 .. INSTRSZ - 1
  BY <1>1, DivMod
<1>3. (INSTRSZ - (p % INSTRSZ)) % INSTRSZ \in 0 .. INSTRSZ - 1
  BY <1>1, <1>2, DivMod
<1>. QED
  BY <1>1, <1>3 DEF Padding

LEMMA LineSizeType ==
    ASSUME NEW line \in SourceLine, NEW p \in Nat
    PROVE  lineSize(line, p) \in Nat
<1>1. Len(line.args) \in Nat /\ Len(line.lit) \in Nat
  BY DEF SourceLine
<1>2. WordBytes \in Nat /\ INSTRSZ \in Nat
  BY WordBytesAssumption DEF INSTRSZ
<1>3. Len(line.args) * WordBytes \in Nat
  BY <1>1, <1>2
<1>. QED
  BY <1>1, <1>2, <1>3, PaddingType DEF lineSize

LEMMA PositionsUnfold ==
    ASSUME NEW text \in Seq(SourceLine)
    PROVE  /\ Positions(text) \in [1 .. Len(text) + 1 -> Nat]
           /\ Positions(text)[1] = 0
           /\ \A i \in 1 .. Len(text) :
                 Positions(text)[i + 1] = Positions(text)[i] + lineSize(text[i], Positions(text)[i])
<1>. DEFINE n == Len(text)
            place == CHOOSE g : g = [i \in 1 .. n + 1 |->
                        IF i = 1 THEN 0 ELSE g[i - 1] + lineSize(text[i - 1], g[i - 1])]
            step == [k \in Nat |-> [x \in Nat |-> IF k < n THEN x + lineSize(text[k + 1], x) ELSE 0]]
<1>1. n \in Nat /\ \A i \in 1 .. n : text[i] \in SourceLine
  OBVIOUS
<1>2. Positions(text) = place
  BY DEF Positions
<1>. HIDE DEF n
<1>3. step \in [Nat -> [Nat -> Nat]]
  <2>1. ASSUME NEW k \in Nat, NEW x \in Nat
        PROVE  (IF k < n THEN x + lineSize(text[k + 1], x) ELSE 0) \in Nat
    <3>1. CASE k < n
      <4>1. k + 1 \in 1 .. n
        BY <1>1, <3>1
      <4>2. lineSize(text[k + 1], x) \in Nat
        BY <1>1, <4>1, LineSizeType
      <4>. QED
        BY <3>1, <4>2
    <3>. QED
      BY <3>1
  <2>. QED
    BY <2>1, Zenon
<1>4. \A k \in Nat, x \in Nat : k < n => step[k][x] = x + lineSize(text[k + 1], x)
  OBVIOUS
<1>5. PICK h \in [Nat -> Nat] : Follows(h, 0, step)
  <2>. HIDE DEF step
  <2>. DEFINE zero == 0
  <2>1. zero \in Nat
    OBVIOUS
  <2>. HIDE DEF zero
  <2>2. \E h \in [Nat -> Nat] : Follows(h, zero, step)
    BY <1>3, <2>1, Recursion
  <2>. QED
    BY <2>2 DEF zero
<1>. HIDE DEF step
<1>. DEFINE g == [i \in 1 .. n + 1 |-> h[i - 1]]
            again == [i \in 1 .. n + 1 |->
                        IF i = 1 THEN 0 ELSE g[i - 1] + lineSize(text[i - 1], g[i - 1])]
<1>6. g \in [1 .. n + 1 -> Nat] /\ g[1] = 0
  <2>1. \A i \in 1 .. n + 1 : i - 1 \in Nat
    BY <1>1
  <2>2. g \in [1 .. n + 1 -> Nat]
    BY <2>1
  <2>3. g[1] = h[0]
    BY <1>1
  <2>. QED
    BY <1>5, <2>2, <2>3 DEF Follows
<1>7. ASSUME NEW i \in 1 .. n PROVE g[i + 1] = g[i] + lineSize(text[i], g[i])
  <2>1. i - 1 \in Nat /\ (i - 1) + 1 = i /\ i - 1 < n /\ i \in 1 .. n + 1 /\ i + 1 \in 1 .. n + 1
        /\ (i + 1) - 1 = i
    BY <1>1
  <2>2. h[(i - 1) + 1] = step[i - 1][h[i - 1]] /\ h[i - 1] \in Nat
    BY <1>5, <2>1 DEF Follows
  <2>3. step[i - 1][h[i - 1]] = h[i - 1] + lineSize(text[(i - 1) + 1], h[i - 1])
    BY <1>4, <2>1, <2>2
  <2>4. g[i + 1] = h[i] /\ g[i] = h[i - 1]
    BY <2>1
  <2>. HIDE DEF g
  <2>. QED
    BY <2>1, <2>2, <2>3, <2>4
<1>8. g = again
  <2>1. ASSUME NEW i \in 1 .. n + 1 PROVE g[i] = again[i]
    <3>1. CASE i = 1
      <4>. HIDE DEF g
      <4>. QED
        BY <1>6, <3>1
    <3>2. CASE i # 1
      <4>1. i - 1 \in 1 .. n /\ (i - 1) + 1 = i
        BY <1>1, <3>2
      <4>2. again[i] = g[i - 1] + lineSize(text[i - 1], g[i - 1])
        <5>. HIDE DEF g
        <5>. QED
          BY <3>2
      <4>. HIDE DEF g, again
      <4>. QED
        BY <1>7, <4>1, <4>2
    <3>. QED
      BY <3>1, <3>2
  <2>2. g = [i \in 1 .. n + 1 |-> g[i]] /\ again = [i \in 1 .. n + 1 |-> again[i]]
    OBVIOUS
  <2>. HIDE DEF g, again
  <2>. QED
    BY <2>1, <2>2
<1>9. place = [i \in 1 .. n + 1 |->
                 IF i = 1 THEN 0 ELSE place[i - 1] + lineSize(text[i - 1], place[i - 1])]
  <2>1. \E x : x = [i \in 1 .. n + 1 |->
                      IF i = 1 THEN 0 ELSE x[i - 1] + lineSize(text[i - 1], x[i - 1])]
    <3>. HIDE DEF g
    <3>. QED
      BY <1>8
  <2>. QED
    BY <2>1
<1>. HIDE DEF place
<1>10. place[1] = 0
  BY <1>1, <1>9
<1>11. ASSUME NEW i \in 1 .. n PROVE place[i + 1] = place[i] + lineSize(text[i], place[i])
  <2>1. i + 1 \in 1 .. n + 1 /\ i + 1 # 1 /\ (i + 1) - 1 = i
    BY <1>1
  <2>. QED
    BY <1>9, <2>1
<1>. DEFINE T == {j \in 0 .. n : place[j + 1] \in Nat}
<1>12. 0 \in T
  BY <1>1, <1>10
<1>13. ASSUME NEW j \in 0 .. n - 1, j \in T PROVE j + 1 \in T
  <2>1. j + 1 \in 1 .. n /\ j + 1 \in 0 .. n
    BY <1>1
  <2>2. place[(j + 1) + 1] = place[j + 1] + lineSize(text[j + 1], place[j + 1])
    BY <1>11, <2>1
  <2>3. place[j + 1] \in Nat
    BY <1>13
  <2>4. lineSize(text[j + 1], place[j + 1]) \in Nat
    BY <1>1, <2>1, <2>3, LineSizeType
  <2>5. \A x, y \in Nat : x + y \in Nat
    OBVIOUS
  <2>6. place[(j + 1) + 1] \in Nat
    BY <2>2, <2>3, <2>4, <2>5, Zenon
  <2>. QED
    BY <2>1, <2>6
<1>14. 0 .. n \subseteq T
  <2>. HIDE DEF T
  <2>. QED
    BY <1>1, <1>12, <1>13, InductionTo
<1>15. \A i \in 1 .. n + 1 : place[i] \in Nat
  <2>. TAKE i \in 1 .. n + 1
  <2>1. i - 1 \in 0 .. n /\ (i - 1) + 1 = i
    BY <1>1
  <2>2. i - 1 \in T
    <3>. HIDE DEF T
    <3>. QED
      BY <1>14, <2>1
  <2>. QED
    BY <2>1, <2>2
<1>16. place \in [1 .. n + 1 -> Nat]
  <2>1. place = [i \in 1 .. n + 1 |-> place[i]]
    BY <1>9
  <2>. QED
    BY <1>15, <2>1
<1>. QED
  BY <1>2, <1>10, <1>11, <1>16 DEF n

----------------------------------------------------------------------------
(* The two counts of a line's bytes *)

LEMMA ParseRegType ==
    ASSUME NEW tok, NEW r \in parseReg(tok)
    PROVE  r \in 0 .. 2
BY DEF parseReg, Regs

LEMMA ParseImmType ==
    ASSUME AsmType, NEW tok, NEW v \in parseImm(tok)
    PROVE  v \in Int
BY TextsAssumption DEF parseImm, AsmType

LEMMA ValuesEmitted ==
    ASSUME AsmType, NEW args \in Seq(STRING), NEW n \in Nat, NEW bs,
           bs = FlattenSeq([k \in DOMAIN args |->
                   IF parseImm(args[k]) = {} THEN <<>>
                   ELSE Bytes(CHOOSE v \in parseImm(args[k]) : TRUE, n)])
    PROVE  /\ bs \in Seq(Byte)
           /\ (\A k \in DOMAIN args : parseImm(args[k]) # {}) => Len(bs) = Len(args) * n
<1>. DEFINE value(k) == CHOOSE v \in parseImm(args[k]) : TRUE
            part(k) == IF parseImm(args[k]) = {} THEN <<>> ELSE Bytes(value(k), n)
            parts == [k \in DOMAIN args |-> part(k)]
<1>1. Len(args) \in Nat /\ DOMAIN args = 1 .. Len(args)
  OBVIOUS
<1>2. ASSUME NEW k, parseImm(args[k]) # {}
      PROVE  part(k) \in Seq(Byte) /\ Len(part(k)) = n
  <2>1. value(k) \in parseImm(args[k])
    BY <1>2
  <2>2. value(k) \in Int
    BY <2>1, ParseImmType
  <2>. HIDE DEF value
  <2>3. part(k) = Bytes(value(k), n)
    BY <1>2
  <2>. HIDE DEF part
  <2>. QED
    BY <2>2, <2>3, BytesType
<1>3. \A k : part(k) \in Seq(Byte)
  <2>. TAKE k
  <2>1. CASE parseImm(args[k]) = {}
    BY <2>1
  <2>2. CASE parseImm(args[k]) # {}
    BY <1>2, <2>2
  <2>. QED
    BY <2>1, <2>2
<1>. HIDE DEF part
<1>4. parts \in Seq(Seq(Byte)) /\ Len(parts) = Len(args)
      /\ \A k \in 1 .. Len(args) : parts[k] = part(k)
  BY <1>1, <1>3
<1>5. bs = FlattenSeq(parts)
  BY DEF part
<1>. HIDE DEF parts
<1>6. bs \in Seq(Byte)
  BY <1>4, <1>5, FlattenType
<1>7. ASSUME \A k \in DOMAIN args : parseImm(args[k]) # {} PROVE Len(bs) = Len(args) * n
  <2>1. \A k \in 1 .. Len(parts) : Len(parts[k]) = n
    BY <1>1, <1>2, <1>4, <1>7
  <2>2. Len(FlattenSeq(parts)) = Len(parts) * n
    BY <1>4, <2>1, FlattenLength
  <2>. QED
    BY <1>4, <1>5, <2>2
<1>. QED
  BY <1>6, <1>7

\* An instruction takes its place, in error or not.
LEMMA OperandsType ==
    ASSUME NEW m \in OPCODES, NEW rs \in Seq(STRING), NEW imm \in Int,
           \A k \in DOMAIN rs : parseReg(rs[k]) # {}
    PROVE  Operands(m, rs, imm) \in Seq(Byte) /\ Len(Operands(m, rs, imm)) = INSTRSZ
<1>. DEFINE r == [k \in 1 .. 3 |-> IF k <= Len(rs) THEN CHOOSE v \in parseReg(rs[k]) : TRUE
                                   ELSE -1]
<1>1. r \in [1 .. 3 -> -1 .. 2]
  <2>1. ASSUME NEW k \in 1 .. 3
        PROVE  (IF k <= Len(rs) THEN CHOOSE v \in parseReg(rs[k]) : TRUE ELSE -1) \in -1 .. 2
    <3>1. CASE k <= Len(rs)
      <4>1. k \in DOMAIN rs
        BY <3>1
      <4>2. (CHOOSE v \in parseReg(rs[k]) : TRUE) \in parseReg(rs[k])
        BY <4>1
      <4>3. (CHOOSE v \in parseReg(rs[k]) : TRUE) \in 0 .. 2
        BY <4>2, ParseRegType
      <4>. QED
        BY <3>1, <4>3
    <3>2. CASE ~(k <= Len(rs))
      BY <3>2
    <3>. QED
      BY <3>1, <3>2
  <2>. QED
    BY <2>1
<1>2. Operands(m, rs, imm) = encInstr(Instr(m, r, imm))
  BY DEF Operands
<1>. HIDE DEF r
<1>3. Instr(m, r, imm) \in Encodable
  BY <1>1 DEF Instr, Encodable
<1>. QED
  BY <1>2, <1>3, EncodedType

LEMMA EmittedType ==
    ASSUME NEW m \in OPCODES, NEW ok \in BOOLEAN, NEW rs, NEW imm \in Int,
           ok => rs \in Seq(STRING) /\ \A k \in DOMAIN rs : parseReg(rs[k]) # {},
           Emitted(m, ok, rs, imm)
    PROVE  \E bs \in Seq(Byte) : Len(bs) = INSTRSZ /\ Emit(bs, ok)
<1>. DEFINE bs == IF ok THEN Operands(m, rs, imm) ELSE Operands(m, <<>>, 0)
<1>1. bs \in Seq(Byte) /\ Len(bs) = INSTRSZ
  <2>1. CASE ok
    BY <2>1, OperandsType
  <2>2. CASE ~ok
    <3>1. <<>> \in Seq(STRING) /\ 0 \in Int /\ DOMAIN <<>> = {}
      OBVIOUS
    <3>2. \A k \in DOMAIN <<>> : parseReg(<<>>[k]) # {}
      BY <3>1
    <3>. QED
      BY <2>2, <3>1, <3>2, OperandsType
  <2>. QED
    BY <2>1, <2>2
<1>2. Emit(bs, ok)
  BY DEF Emitted
<1>. HIDE DEF bs
<1>. QED
  BY <1>1, <1>2

LEMMA Kinds ==
    /\ None \notin DB \cup DW \cup DS \cup ALIGN \cup OPCODES
    /\ OPCODES \cap (DB \cup DW \cup DS \cup ALIGN) = {}
    /\ DB \cap DW = {} /\ DB \cap DS = {} /\ DW \cap DS = {}
    /\ ALIGN \cap (DB \cup DW \cup DS) = {}
<1>1. \A m \in {None, ".DB", ".BYTE", ".DW", ".WORD", ".DS", ".STRING", ".ALIGN"} :
         m \notin OpcodeNames
  BY Zenon DEF OpcodeNames, None
<1>2. None \notin {".DB", ".BYTE", ".DW", ".WORD", ".DS", ".STRING", ".ALIGN"}
  BY Zenon DEF None
<1>. QED
  BY <1>1, <1>2, OpcodesNamed DEF DB, DW, DS, ALIGN

\* A line of the second pass emits bytes, and as many as the first pass
\* counted, unless it is in error or an empty text.
Counted(bs, ok) ==
    (ok /\ ~EmptyText(lines[cur])) => Len(bs) = lineSize(lines[cur], pos)

LEMMA DataEmitted ==
    ASSUME AsmType, lines[cur] \in SourceLine,
           emitValues(DB, 1) \/ emitValues(DW, WordBytes) \/ emitText \/ emitPadding
           \/ skipBlank \/ unknownMnemonic
    PROVE  /\ phase = "pass2" /\ cur <= Len(lines)
           /\ \E bs \in Seq(Byte), ok \in BOOLEAN : Emit(bs, ok) /\ Counted(bs, ok)
<1>. DEFINE line == lines[cur]
<1>1. line.args \in Seq(STRING) /\ Len(line.args) \in Nat /\ line.lit \in Seq(Byte)
  BY DEF SourceLine, Byte
<1>2. <<>> \in Seq(Byte) /\ Len(<<>>) = 0 /\ 0 \in Byte
  BY DEF Byte
<1>3. ASSUME NEW kind, NEW n \in Nat, emitValues(kind, n),
             Mnemonic(line) \in kind => lineSize(line, pos) = Len(line.args) * n
      PROVE  /\ phase = "pass2" /\ cur <= Len(lines)
             /\ \E bs \in Seq(Byte), ok \in BOOLEAN : Emit(bs, ok) /\ Counted(bs, ok)
  <2>. DEFINE args == line.args
              bs == FlattenSeq([k \in DOMAIN args |->
                       IF parseImm(args[k]) = {} THEN <<>>
                       ELSE Bytes(CHOOSE v \in parseImm(args[k]) : TRUE, n)])
              ok == \A k \in DOMAIN args : parseImm(args[k]) # {}
  <2>1. phase = "pass2" /\ cur <= Len(lines) /\ Mnemonic(line) \in kind /\ Emit(bs, ok)
    BY <1>3 DEF emitValues, LineOf
  <2>2. bs \in Seq(Byte) /\ (ok => Len(bs) = Len(args) * n)
    BY <1>1, ValuesEmitted
  <2>3. ok \in BOOLEAN
    OBVIOUS
  <2>. HIDE DEF bs, ok
  <2>4. Counted(bs, ok)
    BY <1>3, <2>1, <2>2 DEF Counted
  <2>. QED
    BY <2>1, <2>2, <2>3, <2>4
<1>4. CASE emitValues(DB, 1)
  <2>1. Mnemonic(line) \in DB => lineSize(line, pos) = Len(line.args) * 1
    <3>1. Mnemonic(line) \in DB => lineSize(line, pos) = Len(line.args)
      BY Kinds DEF lineSize, IsInstr
    <3>2. Len(line.args) * 1 = Len(line.args)
      BY <1>1
    <3>. QED
      BY <3>1, <3>2
  <2>2. 1 \in Nat
    OBVIOUS
  <2>. QED
    BY <1>3, <1>4, <2>1, <2>2
<1>5. CASE emitValues(DW, WordBytes)
  <2>1. Mnemonic(line) \in DW => lineSize(line, pos) = Len(line.args) * WordBytes
    BY Kinds DEF lineSize, IsInstr
  <2>. QED
    BY <1>3, <1>5, <2>1, WordBytesAssumption
<1>6. CASE emitText
  <2>1. phase = "pass2" /\ cur <= Len(lines) /\ Mnemonic(line) \in DS
        /\ IF line.quoted THEN Emit(Append(line.lit, 0), TRUE) ELSE Emit(<<>>, FALSE)
    BY <1>6 DEF emitText, LineOf
  <2>2. Append(line.lit, 0) \in Seq(Byte) /\ Len(Append(line.lit, 0)) = Len(line.lit) + 1
    BY <1>1, <1>2
  <2>3. line.quoted => Counted(Append(line.lit, 0), TRUE)
    <3>1. line.lit # <<>> => lineSize(line, pos) = Len(line.lit) + 1
      BY <2>1, Kinds DEF lineSize, IsInstr
    <3>. QED
      BY <2>1, <2>2, <3>1 DEF Counted, EmptyText
  <2>4. Counted(<<>>, FALSE)
    BY DEF Counted
  <2>. QED
    BY <1>2, <2>1, <2>2, <2>3, <2>4
<1>7. CASE emitPadding
  <2>. DEFINE bs == [k \in 1 .. Padding(pos) |-> 0]
  <2>1. phase = "pass2" /\ cur <= Len(lines) /\ Mnemonic(line) \in ALIGN /\ Emit(bs, TRUE)
    BY <1>7 DEF emitPadding, LineOf
  <2>2. Padding(pos) \in Nat
    BY PaddingType DEF AsmType
  <2>3. bs \in Seq(Byte) /\ Len(bs) = Padding(pos)
    BY <1>2, <2>2
  <2>. HIDE DEF bs
  <2>4. lineSize(line, pos) = Padding(pos)
    BY <2>1, Kinds DEF lineSize, IsInstr
  <2>5. Counted(bs, TRUE)
    BY <2>3, <2>4 DEF Counted
  <2>. QED
    BY <2>1, <2>3, <2>5
<1>8. CASE skipBlank
  <2>1. phase = "pass2" /\ cur <= Len(lines) /\ Mnemonic(line) = None /\ Emit(<<>>, TRUE)
    BY <1>8 DEF skipBlank, LineOf
  <2>2. lineSize(line, pos) = 0
    BY <2>1, Kinds DEF lineSize, IsInstr
  <2>3. Counted(<<>>, TRUE)
    BY <1>2, <2>2 DEF Counted
  <2>. QED
    BY <1>2, <2>1, <2>3
<1>9. CASE unknownMnemonic
  <2>1. phase = "pass2" /\ cur <= Len(lines) /\ Emit(<<>>, FALSE)
    BY <1>9 DEF unknownMnemonic, LineOf
  <2>2. Counted(<<>>, FALSE)
    BY DEF Counted
  <2>. QED
    BY <1>2, <2>1, <2>2
<1>. QED
  BY <1>4, <1>5, <1>6, <1>7, <1>8, <1>9

LEMMA InstructionEmitted ==
    ASSUME AsmType, lines[cur] \in SourceLine, emitSyscall \/ emitInstr
    PROVE  /\ phase = "pass2" /\ cur <= Len(lines)
           /\ \E bs \in Seq(Byte), ok \in BOOLEAN : Emit(bs, ok) /\ Counted(bs, ok)
<1>. DEFINE line == lines[cur]
            m == Mnemonic(line)
            args == line.args
<1>1. args \in Seq(STRING) /\ Len(args) \in Nat
  BY DEF SourceLine
<1>2. ASSUME NEW ok \in BOOLEAN, m \in OPCODES, \E bs \in Seq(Byte) : Len(bs) = INSTRSZ /\ Emit(bs, ok)
      PROVE  \E bs \in Seq(Byte), o \in BOOLEAN : Emit(bs, o) /\ Counted(bs, o)
  <2>1. PICK bs \in Seq(Byte) : Len(bs) = INSTRSZ /\ Emit(bs, ok)
    BY <1>2
  <2>2. lineSize(line, pos) = INSTRSZ
    BY <1>2, Kinds DEF lineSize, IsInstr
  <2>3. Counted(bs, ok)
    BY <2>1, <2>2 DEF Counted
  <2>. QED
    BY <2>1, <2>3
<1>3. CASE emitSyscall
  <2>. DEFINE n == IF Len(args) > 3 THEN 3 ELSE Len(args)
              rs == SubSeq(args, 1, n)
              ok == rs # <<>> /\ \A k \in DOMAIN rs : parseReg(rs[k]) # {}
  <2>1. phase = "pass2" /\ cur <= Len(lines) /\ m = "SYSCALL" /\ Emitted("SYSCALL", ok, rs, 0)
    BY <1>3 DEF emitSyscall, LineOf
  <2>2. "SYSCALL" \in OPCODES
    BY DEF OPCODES, Mnemonics, ToSet
  <2>3. rs \in Seq(STRING)
    BY <1>1
  <2>4. ok \in BOOLEAN /\ (ok => \A k \in DOMAIN rs : parseReg(rs[k]) # {}) /\ 0 \in Int
    OBVIOUS
  <2>. HIDE DEF ok, rs, m
  <2>5. \E bs \in Seq(Byte) : Len(bs) = INSTRSZ /\ Emit(bs, ok)
    BY <2>1, <2>2, <2>3, <2>4, EmittedType
  <2>. QED
    BY <1>2, <2>1, <2>2, <2>4, <2>5
<1>4. CASE emitInstr
  <2>. DEFINE n == NumRegs(m)
              fits == Len(args) = n + (IF TakesImm(m) THEN 1 ELSE 0)
              imms == IF ~TakesImm(m) THEN {0} ELSE IF fits THEN parseImm(Last(args)) ELSE {}
              ok == fits /\ imms # {} /\ \A k \in 1 .. n : parseReg(args[k]) # {}
              rs == SubSeq(args, 1, n)
              imm == CHOOSE v \in imms \cup {0} : imms # {} => v \in imms
  <2>1. phase = "pass2" /\ cur <= Len(lines) /\ m \in OPCODES /\ Emitted(m, ok, rs, imm)
    BY <1>4 DEF emitInstr, LineOf, IsInstr
  <2>2. n \in 0 .. 3
    BY DEF NumRegs
  <2>3. imm \in Int
    <3>1. \A v \in imms \cup {0} : v \in Int
      BY ParseImmType
    <3>. HIDE DEF imms
    <3>2. \E v \in imms \cup {0} : imms # {} => v \in imms
      OBVIOUS
    <3>3. imm \in imms \cup {0}
      BY <3>2
    <3>. QED
      BY <3>1, <3>3
  <2>. HIDE DEF n, m, args
  <2>4. ok => /\ Len(args) >= n
              /\ \A k \in 1 .. n : parseReg(args[k]) # {}
    BY <1>1, <2>2
  <2>5. ok \in BOOLEAN
    OBVIOUS
  <2>. HIDE DEF ok, imm
  <2>6. ok => rs \in Seq(STRING)
    BY <1>1, <2>2, <2>4
  <2>7. ok => \A k \in DOMAIN rs : parseReg(rs[k]) # {}
    BY <1>1, <2>2, <2>4
  <2>. HIDE DEF rs
  <2>8. \E bs \in Seq(Byte) : Len(bs) = INSTRSZ /\ Emit(bs, ok)
    BY <2>1, <2>3, <2>5, <2>6, <2>7, EmittedType
  <2>. QED
    BY <1>2, <2>1, <2>5, <2>8
<1>. QED
  BY <1>3, <1>4

----------------------------------------------------------------------------
(* The passes *)

LEMMA LineEmitted ==
    ASSUME AsmType, lines[cur] \in SourceLine, pass2
    PROVE  /\ phase = "pass2" /\ cur <= Len(lines)
           /\ \E bs \in Seq(Byte), ok \in BOOLEAN : Emit(bs, ok) /\ Counted(bs, ok)
BY DataEmitted, InstructionEmitted DEF pass2

LEMMA TextLines ==
    ASSUME AsmType
    PROVE  /\ lines \in Seq(SourceLine) /\ Len(lines) \in Nat
           /\ \A i \in 1 .. Len(lines) : lines[i] \in SourceLine
BY TextsAssumption DEF AsmType, lines

LEMMA FirstPass ==
    ASSUME AsmInv, pass1
    PROVE  AsmInv'
<1>1. AsmType /\ phase = "pass1" /\ cur <= Len(lines)
  BY DEF AsmInv, pass1
<1>2. lines \in Seq(SourceLine) /\ Len(lines) \in Nat
      /\ cur \in 1 .. Len(lines) /\ lines[cur] \in SourceLine
  BY <1>1, TextLines DEF AsmType
<1>3. lines' = lines /\ Len(lines)' = Len(lines)
  BY DEF pass1, lines
<1>4. pos = Positions(lines)[cur] /\ LabelsOf(lines, cur - 1)
  BY <1>1 DEF AsmInv
<1>5. lineSize(lines[cur], pos) \in Nat /\ pos \in Nat
  BY <1>1, <1>2, LineSizeType DEF AsmType
<1>6. phase' = "pass1" /\ cur' = cur + 1 /\ pos' = pos + lineSize(lines[cur], pos)
      /\ src' = src /\ code' = code /\ errs' = errs
      /\ labels' = IF lines[cur].lbl = None THEN labels ELSE Put(labels, lines[cur].lbl, pos)
  BY <1>1 DEF pass1
<1>7. pos' = Positions(lines)[cur']
  BY <1>2, <1>4, <1>6, PositionsUnfold
<1>8. \A name \in DOMAIN labels' : labels'[name] \in Int
  <2>1. \A name \in DOMAIN labels : labels[name] \in Int
    BY <1>1 DEF AsmType
  <2>2. CASE lines[cur].lbl = None
    BY <1>6, <2>1, <2>2
  <2>3. CASE lines[cur].lbl # None
    <3>1. labels' = Put(labels, lines[cur].lbl, pos) /\ pos \in Int
      BY <1>5, <1>6, <2>3
    <3>. QED
      BY <2>1, <3>1 DEF Put
  <2>. QED
    BY <2>2, <2>3
<1>9. AsmType'
  BY <1>1, <1>2, <1>3, <1>5, <1>6, <1>8 DEF AsmType
<1>10. LabelsOf(lines, cur - 1)'
  <2>. DEFINE name == lines[cur].lbl
              named(n) == {lines[i].lbl : i \in 1 .. n}
              place == Positions(lines)
  <2>1. named(cur) = named(cur - 1) \cup {name}
    <3>1. 1 .. cur = (1 .. cur - 1) \cup {cur}
      BY <1>2
    <3>. QED
      BY <3>1
  <2>2. DOMAIN labels = named(cur - 1) \ {None}
    BY <1>4 DEF LabelsOf
  <2>3. DOMAIN labels' = named(cur) \ {None}
    BY <1>6, <2>1, <2>2 DEF Put
  <2>4. ASSUME NEW i \in 1 .. cur, lines[i].lbl # None,
               \A j \in i + 1 .. cur : lines[j].lbl # lines[i].lbl
        PROVE  labels'[lines[i].lbl] = place[i]
    <3>1. CASE i = cur
      BY <1>4, <1>6, <2>4, <3>1 DEF Put
    <3>2. CASE i # cur
      <4>1. i \in 1 .. cur - 1 /\ cur \in i + 1 .. cur
            /\ \A j \in i + 1 .. cur - 1 : j \in i + 1 .. cur
        BY <1>2, <3>2
      <4>2. labels[lines[i].lbl] = place[i]
        BY <1>4, <2>4, <4>1 DEF LabelsOf
      <4>3. name # lines[i].lbl /\ lines[i].lbl \in DOMAIN labels
        BY <2>2, <2>4, <4>1
      <4>. QED
        BY <1>6, <4>2, <4>3 DEF Put
    <3>. QED
      BY <3>1, <3>2
  <2>. HIDE DEF place, named
  <2>5. /\ DOMAIN labels' = named(cur) \ {None}
        /\ \A i \in 1 .. cur :
              (lines[i].lbl # None /\ \A j \in i + 1 .. cur : lines[j].lbl # lines[i].lbl)
              => labels'[lines[i].lbl] = place[i]
    BY <2>3, <2>4
  <2>6. cur' - 1 = cur
    BY <1>2, <1>6
  <2>. QED
    BY <1>3, <2>5, <2>6 DEF LabelsOf, named, place
<1>. QED
  BY <1>1, <1>3, <1>6, <1>7, <1>9, <1>10 DEF AsmInv

LEMMA EndOfFirstPass ==
    ASSUME AsmInv, endPass1
    PROVE  AsmInv'
<1>1. AsmType /\ phase = "pass1" /\ cur > Len(lines)
  BY DEF AsmInv, endPass1
<1>2. lines \in Seq(SourceLine) /\ Len(lines) \in Nat /\ cur = Len(lines) + 1
  BY <1>1, TextLines DEF AsmType
<1>3. lines' = lines
  BY DEF endPass1, lines
<1>4. /\ phase' = "pass2" /\ cur' = 1 /\ pos' = 0 /\ code' = <<>>
      /\ src' = src /\ labels' = labels /\ errs' = errs
  BY DEF endPass1
<1>5. LabelsOf(lines, Len(lines))'
  <2>1. LabelsOf(lines, cur - 1) /\ cur - 1 = Len(lines)
    BY <1>1, <1>2 DEF AsmInv
  <2>. QED
    BY <1>3, <1>4, <2>1 DEF LabelsOf
<1>6. pos' = Positions(lines)[cur']
  BY <1>2, <1>4, PositionsUnfold
<1>7. <<>> \in Seq(Byte) /\ Len(<<>>) = 0
  OBVIOUS
<1>8. AsmType'
  BY <1>1, <1>2, <1>3, <1>4, <1>7 DEF AsmType
<1>. QED
  BY <1>3, <1>4, <1>5, <1>6, <1>8 DEF AsmInv

LEMMA SecondPass ==
    ASSUME AsmInv, pass2
    PROVE  AsmInv'
<1>1. AsmType /\ lines \in Seq(SourceLine) /\ Len(lines) \in Nat /\ cur \in 1 .. Len(lines) + 1
  BY TextLines DEF AsmInv, AsmType
<1>2. phase = "pass2" /\ cur \in 1 .. Len(lines) /\ lines[cur] \in SourceLine
  <2>1. phase = "pass2" /\ cur <= Len(lines)
    BY DEF pass2, emitValues, emitText, emitPadding, skipBlank, unknownMnemonic, emitSyscall,
      emitInstr, LineOf
  <2>. QED
    BY <1>1, <2>1
<1>3. PICK bs \in Seq(Byte), ok \in BOOLEAN : Emit(bs, ok) /\ Counted(bs, ok)
  BY <1>1, <1>2, LineEmitted
<1>4. /\ code' = code \o bs /\ pos' = pos + Len(bs) /\ cur' = cur + 1
      /\ errs' = (IF ok THEN errs ELSE errs \cup {cur})
      /\ src' = src /\ phase' = phase /\ labels' = labels
  BY <1>3 DEF Emit
<1>5. lines' = lines
  BY <1>4 DEF lines
<1>6. AsmType'
  <2>1. code \in Seq(Byte) /\ pos = Len(code) /\ pos \in Nat /\ Len(bs) \in Nat
    BY <1>1, <1>2, <1>3 DEF AsmType
  <2>2. code' \in Seq(Byte) /\ Len(code') = pos' /\ pos' \in Nat
    BY <1>3, <1>4, <2>1
  <2>3. cur' \in 1 .. Len(lines) + 1
    BY <1>1, <1>2, <1>4
  <2>. QED
    BY <1>1, <1>2, <1>4, <1>5, <2>2, <2>3 DEF AsmType
<1>7. LabelsOf(lines, Len(lines))'
  <2>1. LabelsOf(lines, Len(lines))
    BY <1>2 DEF AsmInv
  <2>. QED
    BY <1>4, <1>5, <2>1 DEF LabelsOf
<1>8. ASSUME errs' = {}, NoEmptyText(cur - 1)'
      PROVE  pos' = Positions(lines)[cur']
  <2>1. ok /\ errs = {}
    BY <1>4, <1>8
  <2>2. cur' - 1 = cur
    BY <1>1, <1>4
  <2>3. \A i \in 1 .. cur : ~EmptyText(lines[i])
    BY <1>5, <1>8, <2>2 DEF NoEmptyText
  <2>4. pos = Positions(lines)[cur]
    BY <1>1, <1>2, <2>1, <2>3 DEF AsmInv, NoEmptyText
  <2>5. Len(bs) = lineSize(lines[cur], pos)
    BY <1>2, <1>3, <2>1, <2>3 DEF Counted
  <2>. QED
    BY <1>1, <1>2, <1>4, <2>4, <2>5, PositionsUnfold
<1>. QED
  BY <1>2, <1>4, <1>5, <1>6, <1>7, <1>8 DEF AsmInv

LEMMA EndOfSecondPass ==
    ASSUME AsmInv, endPass2
    PROVE  AsmInv'
<1>1. AsmType /\ Len(lines) \in Nat /\ cur \in 1 .. Len(lines) + 1
  BY TextLines DEF AsmInv, AsmType
<1>2. /\ phase = "pass2" /\ cur > Len(lines) /\ phase' = "done"
      /\ src' = src /\ cur' = cur /\ pos' = pos /\ labels' = labels /\ code' = code /\ errs' = errs
  BY DEF endPass2
<1>3. lines' = lines
  BY <1>2 DEF lines
<1>4. AsmType'
  BY <1>1, <1>2, <1>3 DEF AsmType
<1>. QED
  BY <1>2, <1>3, <1>4, ZenonT(60) DEF AsmInv, LabelsOf, NoEmptyText

LEMMA AsmStart ==
    ASSUME NEW names \in SUBSET DOMAIN Sources, AsmInit(names)
    PROVE  AsmInv
<1>1. /\ src \in DOMAIN Sources /\ phase = "pass1" /\ cur = 1 /\ pos = 0
      /\ labels = <<>> /\ code = <<>> /\ errs = {}
  BY DEF AsmInit
<1>2. lines \in Seq(SourceLine) /\ Len(lines) \in Nat
  BY <1>1, TextsAssumption DEF lines
<1>3. AsmType
  BY <1>1, <1>2 DEF AsmType
<1>4. Positions(lines)[1] = 0
  BY <1>2, PositionsUnfold
<1>5. LabelsOf(lines, cur - 1)
  <2>1. 1 .. cur - 1 = {} /\ DOMAIN labels = {}
    BY <1>1
  <2>. QED
    BY <2>1 DEF LabelsOf
<1>. QED
  BY <1>1, <1>3, <1>4, <1>5 DEF AsmInv

LEMMA AsmStep ==
    ASSUME AsmInv, assemble \/ UNCHANGED asmVars
    PROVE  AsmInv'
<1>1. CASE UNCHANGED asmVars
  <2>1. /\ src' = src /\ phase' = phase /\ cur' = cur /\ pos' = pos
        /\ labels' = labels /\ code' = code /\ errs' = errs
    BY <1>1 DEF asmVars
  <2>2. lines' = lines
    BY <2>1 DEF lines
  <2>. QED
    BY <2>1, <2>2 DEF AsmInv, AsmType, LabelsOf, NoEmptyText
<1>. QED
  BY <1>1, FirstPass, EndOfFirstPass, SecondPass, EndOfSecondPass DEF assemble

----------------------------------------------------------------------------
(* Labels *)

LEMMA AsmAlways == Spec => []AsmInv
<1>1. Init => AsmInv
  <2>. SUFFICES ASSUME Init PROVE AsmInv
    OBVIOUS
  <2>1. PICK p \in Programs : AsmInit({p.src})
    BY DEF Init
  <2>2. {p.src} \in SUBSET DOMAIN Sources
    BY ProgramsAssumption
  <2>. QED
    BY <2>1, <2>2, AsmStart
<1>2. AsmInv /\ [Next]_vars => AsmInv'
  <2>. SUFFICES ASSUME AsmInv, [Next]_vars PROVE AsmInv'
    OBVIOUS
  <2>1. assemble \/ UNCHANGED asmVars
    BY DEF Next, Assemble, Start, Execute, vars
  <2>. QED
    BY <2>1, AsmStep
<1>. QED
  BY <1>1, <1>2, PTL DEF Spec

\* For every text: up to its first empty string literal, the second pass of
\* an assembly without errors reaches each label's line where the first
\* pass had put it.
THEOREM LabelsCorrect == Spec => []LabelsAgree
<1>1. AsmInv => LabelsAgree
  <2>. SUFFICES ASSUME AsmInv, phase = "pass2", errs = {}, cur <= Len(lines),
                       \A i \in 1 .. cur - 1 : ~EmptyText(lines[i]),
                       lines[cur].lbl # None,
                       \A i \in cur + 1 .. Len(lines) : lines[i].lbl # lines[cur].lbl
                PROVE  labels[lines[cur].lbl] = pos
    BY DEF LabelsAgree
  <2>1. cur \in 1 .. Len(lines) /\ Len(lines) \in Nat
    BY TextLines DEF AsmInv, AsmType
  <2>2. LabelsOf(lines, Len(lines)) /\ pos = Positions(lines)[cur]
    BY DEF AsmInv, NoEmptyText
  <2>. QED
    BY <2>1, <2>2 DEF LabelsOf
<1>. QED
  BY <1>1, AsmAlways, PTL

----------------------------------------------------------------------------
(* The abstract specification has its own copies of the definitions of     *)
(* RuneISA; they are the same.                                             *)

LEMMA SameNumbers ==
    /\ Source!INSTRSZ = INSTRSZ /\ Source!Modulus = Modulus /\ Source!Top = Top
    /\ \A v : Source!to24(v) = to24(v) /\ Source!Addr(v) = Addr(v) /\ Source!Abs(v) = Abs(v)
    /\ \A v, n : Source!Bytes(v, n) = Bytes(v, n) /\ Source!Digits(v, n) = Digits(v, n)
    /\ \A bs : Source!LE(bs) = LE(bs)
<1>1. Source!INSTRSZ = INSTRSZ /\ Source!Modulus = Modulus /\ Source!Top = Top
  BY Zenon DEF Source!INSTRSZ, INSTRSZ, Source!Modulus, Modulus, Source!Top, Top, Source!Exp, Exp
<1>2. \A v : Source!to24(v) = to24(v) /\ Source!Addr(v) = Addr(v) /\ Source!Abs(v) = Abs(v)
  BY Zenon DEF Source!to24, to24, Source!MINVAL, MINVAL, Source!Modulus, Modulus,
               Source!Addr, Addr, Source!Top, Top, Source!Exp, Exp, Source!Abs, Abs
<1>3. \A v, n : Source!Bytes(v, n) = Bytes(v, n)
  BY Zenon DEF Source!Bytes, Bytes, Source!Exp, Exp
<1>4. \A v, n : Source!Digits(v, n) = Digits(v, n)
  BY Zenon DEF Source!Digits, Digits, Source!Exp, Exp, Source!Cardinality, Cardinality
<1>5. \A bs : Source!LE(bs) = LE(bs)
  BY Zenon DEF Source!LE, LE
<1>. QED
  BY <1>1, <1>2, <1>3, <1>4, <1>5

LEMMA SameResults ==
    /\ \A op, a, b : /\ Source!Binary(op, a, b) = Binary(op, a, b)
                     /\ Source!Taken(op, a, b) = Taken(op, a, b)
    /\ \A op, b : Source!DividesByZero(op, b) = DividesByZero(op, b)
    /\ \A d, op, a, imm : Source!Unary(d, op, a, imm) = Unary(d, op, a, imm)
<1>1. ASSUME NEW op, NEW a, NEW b PROVE Source!Binary(op, a, b) = Binary(op, a, b)
  BY Zenon DEF Source!Binary, Binary, Source!to24, to24, Source!MINVAL, MINVAL,
        Source!Modulus, Modulus, Source!Exp, Exp, Source!Quotient, Quotient,
        Source!Remainder, Remainder, Source!Abs, Abs, Source!Bitwise2, Bitwise2,
        Source!Bit, Bit, Source!AndBits, AndBits, Source!OrBits, OrBits, Source!XorBits, XorBits
<1>2. \A op, a, b : Source!Taken(op, a, b) = Taken(op, a, b)
  BY Zenon DEF Source!Taken, Taken
<1>3. \A op, b : Source!DividesByZero(op, b) = DividesByZero(op, b)
  BY Zenon DEF Source!DividesByZero, DividesByZero
<1>4. ASSUME NEW d, NEW op, NEW a, NEW imm
      PROVE  Source!Unary(d, op, a, imm) = Unary(d, op, a, imm)
  BY Zenon DEF Source!Unary, Unary, Source!to24, to24, Source!MINVAL, MINVAL,
        Source!Modulus, Modulus, Source!Exp, Exp, Source!ShiftBy, ShiftBy
<1>. QED
  BY <1>1, <1>2, <1>3, <1>4

LEMMA SameMemory ==
    /\ \A m, a : Source!ByteAt(m, a) = ByteAt(m, a) /\ Source!Text(m, a) = Text(m, a)
    /\ \A m, a, n : Source!BytesAt(m, a, n) = BytesAt(m, a, n)
    /\ \A m, a, bs : Source!Overlay(m, a, bs) = Overlay(m, a, bs)
    /\ \A m, a, b : Source!Compare(m, a, b) = Compare(m, a, b)
    /\ \A d, text, n : /\ Source!ReadLength(d, text, n) = ReadLength(d, text, n)
                       /\ Source!LowBytes(text, n) = LowBytes(text, n)
    /\ \A m : Source!NonZero(m) = Reading!NonZero(m)
    /\ \A m, a, bs : Reading!Overlay(m, a, bs) = Overlay(m, a, bs)
<1>1. \A m, a : Source!ByteAt(m, a) = ByteAt(m, a) /\ Source!Text(m, a) = Text(m, a)
  BY Zenon DEF Source!ByteAt, ByteAt, Source!Text, Text, Source!BytesAt, BytesAt,
        Source!Cardinality, Cardinality
<1>2. \A m, a, n : Source!BytesAt(m, a, n) = BytesAt(m, a, n)
  BY Zenon DEF Source!BytesAt, BytesAt, Source!ByteAt, ByteAt
<1>3. \A m, a, bs : Source!Overlay(m, a, bs) = Overlay(m, a, bs)
  BY Zenon DEF Source!Overlay, Overlay
<1>4. ASSUME NEW m, NEW a, NEW b PROVE Source!Compare(m, a, b) = Compare(m, a, b)
  BY Zenon DEF Source!Compare, Compare, Source!ByteAt, ByteAt, Source!Text, Text,
        Source!BytesAt, BytesAt, Source!Cardinality, Cardinality
<1>5. \A d, text, n : /\ Source!ReadLength(d, text, n) = ReadLength(d, text, n)
                     /\ Source!LowBytes(text, n) = LowBytes(text, n)
  BY Zenon DEF Source!ReadLength, ReadLength, Source!LowBytes, LowBytes
<1>6. \A m : Source!NonZero(m) = Reading!NonZero(m)
  BY Zenon DEF Source!NonZero, Reading!NonZero
<1>7. \A m, a, bs : Reading!Overlay(m, a, bs) = Overlay(m, a, bs)
  BY Zenon DEF Reading!Overlay, Overlay
<1>. QED
  BY <1>1, <1>2, <1>3, <1>4, <1>5, <1>6, <1>7

LEMMA SameNames ==
    /\ Source!ThreeRegs = ThreeRegs /\ Source!Branches = Branches
    /\ Source!OneReg = OneReg /\ Source!RegImm = RegImm
    /\ Source!RegNames = <<"RA", "RB", "RC">>
    /\ \A op : Source!TakesImm(op) = TakesImm(op)
    /\ \A line : Source!Op(line) = Mnemonic(line) /\ Reading!Op(line) = Mnemonic(line)
    /\ \A line : Reading!IsInstr(line) = IsInstr(line)
    /\ \A tok : Source!Up(tok) = Up(tok) /\ Source!Field(tok) = Reading!Field(tok)
    /\ \A s : Source!Last(s) = Last(s) /\ Reading!Last(s) = Last(s)
    /\ \A s : Reading!ToSet(s) = ToSet(s)
    /\ \A tok : Reading!Up(tok) = Up(tok)
    /\ Reading!None = None
<1>1. /\ Source!ThreeRegs = ThreeRegs /\ Source!Branches = Branches
      /\ Source!OneReg = OneReg /\ Source!RegImm = RegImm
      /\ \A op : Source!TakesImm(op) = TakesImm(op)
  BY Zenon DEF Source!ThreeRegs, ThreeRegs, Source!Branches, Branches, Source!OneReg, OneReg,
        Source!RegImm, RegImm, Source!TakesImm, TakesImm
<1>2. \A line : Source!Op(line) = Mnemonic(line) /\ Reading!Op(line) = Mnemonic(line)
  BY Zenon DEF Source!Op, Reading!Op, Mnemonic, Source!Up, Reading!Up, Up
<1>3. \A line : Reading!IsInstr(line) = IsInstr(line)
  BY Zenon DEF Reading!IsInstr, IsInstr, Reading!Op, Mnemonic, Reading!Up, Up,
        Reading!OPCODES, OPCODES, Reading!Mnemonics, Mnemonics, Reading!ToSet, ToSet
<1>4. \A tok : Source!Up(tok) = Up(tok) /\ Source!Field(tok) = Reading!Field(tok)
  BY Zenon DEF Source!Up, Up, Source!Field, Reading!Field, Reading!Up,
        Source!RegNames, Reading!RegNames
<1>5. \A s : Source!Last(s) = Last(s) /\ Reading!Last(s) = Last(s)
  BY Zenon DEF Source!Last, Last, Reading!Last
<1>6. Source!RegNames = <<"RA", "RB", "RC">>
  BY DEF Source!RegNames
<1>7. /\ \A s : Reading!ToSet(s) = ToSet(s)
      /\ \A tok : Reading!Up(tok) = Up(tok)
      /\ Reading!None = None
  BY Zenon DEF Reading!ToSet, ToSet, Reading!Up, Up, Reading!None, None
<1>. QED
  BY <1>1, <1>2, <1>3, <1>4, <1>5, <1>6, <1>7

----------------------------------------------------------------------------
(* Where the lines of a text are *)

LEMMA GreatestNumber ==
    ASSUME NEW n \in Nat, NEW S \in SUBSET (1 .. n), S # {}
    PROVE  \E i \in S : \A j \in S : j <= i
<1>. DEFINE T == {n - i : i \in S}
<1>1. T \in SUBSET Nat /\ T # {}
  <2>1. \A i \in S : i \in 1 .. n /\ n - i \in Nat
    OBVIOUS
  <2>2. PICK i \in S : TRUE
    OBVIOUS
  <2>3. n - i \in T
    OBVIOUS
  <2>. QED
    BY <2>1, <2>3
<1>2. PICK x \in T : \A y \in T : x <= y
  <2>. HIDE DEF T
  <2>. QED
    BY <1>1, LeastNumber
<1>3. PICK i \in S : x = n - i
  BY <1>2
<1>4. ASSUME NEW j \in S PROVE j <= i
  <2>1. n - j \in T
    OBVIOUS
  <2>2. n - i <= n - j
    BY <1>2, <1>3, <2>1
  <2>. QED
    BY <2>2
<1>. QED
  BY <1>4

\* A line whose literal is not empty takes the bytes that were counted.
PlainLine == {line \in SourceLine : (line.quoted \/ line.lit = <<>>) /\ ~EmptyText(line)}

LEMMA PaddingIsLeast ==
    ASSUME NEW p \in Nat
    PROVE  Padding(p) = CHOOSE k \in 0 .. INSTRSZ - 1 : (p + k) % INSTRSZ = 0
<1>. DEFINE n == INSTRSZ
            q == p \div n
            r == p % n
<1>1. n \in Nat \ {0}
  BY WordBytesAssumption DEF INSTRSZ
<1>. HIDE DEF n
<1>2. q \in Int /\ r \in 0 .. n - 1 /\ p = q * n + r
  BY <1>1, DivMod
<1>. HIDE DEF q, r
<1>3. ASSUME NEW k \in 0 .. n - 1, (p + k) % n = 0 PROVE k = IF r = 0 THEN 0 ELSE n - r
  <2>1. CASE r + k < n
    <3>1. p + k = q * n + (r + k) /\ r + k \in 0 .. n - 1
      BY <1>1, <1>2, <2>1
    <3>2. (p + k) % n = r + k
      BY <1>1, <1>2, <3>1, DivModUnique
    <3>. QED
      BY <1>1, <1>2, <1>3, <3>2
  <2>2. CASE r + k >= n
    <3>1. p + k = (q + 1) * n + (r + k - n) /\ r + k - n \in 0 .. n - 1 /\ q + 1 \in Int
      BY <1>1, <1>2, <2>2
    <3>2. (p + k) % n = r + k - n
      BY <1>1, <3>1, DivModUnique, ZenonT(60)
    <3>. QED
      BY <1>1, <1>2, <1>3, <3>2
  <2>. QED
    BY <1>1, <1>2, <2>1, <2>2
<1>4. Padding(p) = IF r = 0 THEN 0 ELSE n - r
  <2>1. Padding(p) = (n - r) % n
    BY DEF Padding, n, r
  <2>2. CASE r = 0
    <3>1. n - r = 1 * n + 0
      BY <1>1, <2>2
    <3>2. (1 * n + 0) % n = 0
      BY <1>1, DivModUnique
    <3>. QED
      BY <2>1, <2>2, <3>1, <3>2
  <2>3. CASE r # 0
    <3>1. n - r \in 0 .. n - 1
      BY <1>1, <1>2, <2>3
    <3>. QED
      BY <1>1, <2>1, <2>3, <3>1, ModSmall
  <2>. QED
    BY <2>2, <2>3
<1>5. \E k \in 0 .. n - 1 : (p + k) % n = 0
  <2>1. CASE r = 0
    <3>1. p + 0 = q * n + 0 /\ 0 \in 0 .. n - 1
      BY <1>1, <1>2, <2>1
    <3>2. (q * n + 0) % n = 0
      BY <1>1, <1>2, <3>1, DivModUnique
    <3>. QED
      BY <3>1, <3>2
  <2>2. CASE r # 0
    <3>1. p + (n - r) = (q + 1) * n + 0 /\ n - r \in 0 .. n - 1 /\ q + 1 \in Int
          /\ 0 \in 0 .. n - 1
      BY <1>1, <1>2, <2>2
    <3>2. ((q + 1) * n + 0) % n = 0
      BY <1>1, <3>1, DivModUnique
    <3>. QED
      BY <3>1, <3>2
  <2>. QED
    BY <2>1, <2>2
<1>6. Padding(p) = CHOOSE k \in 0 .. n - 1 : (p + k) % n = 0
  <2>. DEFINE c == CHOOSE k \in 0 .. n - 1 : (p + k) % n = 0
  <2>1. c \in 0 .. n - 1 /\ (p + c) % n = 0
    BY <1>5
  <2>. HIDE DEF c
  <2>. QED
    BY <1>3, <1>4, <2>1
<1>. QED
  BY <1>6 DEF n

LEMMA ExtentIsSize ==
    ASSUME NEW line \in PlainLine, NEW p \in Nat
    PROVE  Reading!Extent(line, p) = lineSize(line, p)
<1>. DEFINE m == Mnemonic(line)
<1>1. line \in SourceLine /\ (m \in DS /\ line.quoted => line.lit # <<>>)
      /\ (line.quoted \/ line.lit = <<>>)
  BY DEF PlainLine, EmptyText
<1>2. Len(line.args) \in Nat /\ WordBytes \in Nat /\ Len(line.lit) \in Nat
      /\ Len(line.args) * WordBytes = WordBytes * Len(line.args)
  BY <1>1, WordBytesAssumption DEF SourceLine
<1>3. Reading!INSTRSZ = INSTRSZ /\ Reading!Op(line) = m /\ Reading!IsInstr(line) = IsInstr(line)
  BY SameNames DEF Reading!INSTRSZ, INSTRSZ
<1>4. IsInstr(line) = (m \in OPCODES)
  BY DEF IsInstr
<1>5. Reading!Extent(line, p) =
        CASE m \in DB -> Len(line.args)
          [] m \in DW -> WordBytes * Len(line.args)
          [] m \in DS -> IF line.quoted THEN Len(line.lit) + 1 ELSE 0
          [] m = ".ALIGN" -> CHOOSE k \in 0 .. INSTRSZ - 1 : (p + k) % INSTRSZ = 0
          [] m \in OPCODES -> INSTRSZ
          [] OTHER -> 0
  BY <1>3, <1>4 DEF Reading!Extent, DB, DW, DS
<1>6. lineSize(line, p) =
        CASE m \in DB -> Len(line.args)
          [] m \in DW -> Len(line.args) * WordBytes
          [] m \in DS -> IF line.lit = <<>> THEN 0 ELSE Len(line.lit) + 1
          [] m \in ALIGN -> Padding(p)
          [] m \in OPCODES -> INSTRSZ
          [] OTHER -> 0
  BY DEF lineSize, IsInstr
<1>. HIDE DEF m
<1>7. CASE m \in DB \cup DW
  BY <1>2, <1>5, <1>6, <1>7, Kinds
<1>8. CASE m \in DS
  BY <1>1, <1>2, <1>5, <1>6, <1>8, Kinds
<1>9. CASE m \in ALIGN
  BY <1>5, <1>6, <1>9, Kinds, PaddingIsLeast DEF ALIGN
<1>10. CASE m \in OPCODES
  BY <1>5, <1>6, <1>10, Kinds DEF ALIGN
<1>11. CASE m \notin DB \cup DW \cup DS \cup ALIGN \cup OPCODES
  BY <1>5, <1>6, <1>11 DEF ALIGN
<1>. QED
  BY <1>7, <1>8, <1>9, <1>10, <1>11

LEMMA PlacesArePositions ==
    ASSUME NEW text \in Seq(PlainLine)
    PROVE  Reading!Places(text) = Positions(text)
<1>. DEFINE n == Len(text)
            P == Positions(text)
            R(g) == [i \in 1 .. n + 1 |->
                       IF i = 1 THEN 0 ELSE LET p == g[i - 1] IN p + Reading!Extent(text[i - 1], p)]
            next == CHOOSE g : g = R(g)
<1>1. n \in Nat /\ text \in Seq(SourceLine) /\ \A i \in 1 .. n : text[i] \in PlainLine
  BY DEF PlainLine
<1>2. /\ P \in [1 .. n + 1 -> Nat] /\ P[1] = 0
      /\ \A i \in 1 .. n : P[i + 1] = P[i] + lineSize(text[i], P[i])
  BY <1>1, PositionsUnfold
<1>3. Reading!Places(text) = next
  BY DEF Reading!Places
<1>. HIDE DEF n, P
<1>4. ASSUME NEW g, NEW i \in 1 .. n + 1
      PROVE  R(g)[i] = IF i = 1 THEN 0 ELSE g[i - 1] + Reading!Extent(text[i - 1], g[i - 1])
  OBVIOUS
<1>5. ASSUME NEW i \in 2 .. n + 1 PROVE P[i] = P[i - 1] + Reading!Extent(text[i - 1], P[i - 1])
  <2>1. i - 1 \in 1 .. n /\ (i - 1) + 1 = i /\ i - 1 \in 1 .. n + 1
    BY <1>1
  <2>2. P[i - 1] \in Nat /\ text[i - 1] \in PlainLine
    BY <1>1, <1>2, <2>1
  <2>3. P[(i - 1) + 1] = P[i - 1] + lineSize(text[i - 1], P[i - 1])
    BY <1>2, <2>1
  <2>. QED
    BY <2>1, <2>2, <2>3, ExtentIsSize
<1>6. P = R(P)
  <2>1. ASSUME NEW i \in 1 .. n + 1 PROVE P[i] = R(P)[i]
    <3>. HIDE DEF R
    <3>1. CASE i = 1
      BY <1>2, <1>4, <3>1
    <3>2. CASE i # 1
      <4>1. i \in 2 .. n + 1
        BY <1>1, <3>2
      <4>. QED
        BY <1>4, <1>5, <3>2, <4>1
    <3>. QED
      BY <3>1, <3>2
  <2>2. P = [i \in 1 .. n + 1 |-> P[i]] /\ R(P) = [i \in 1 .. n + 1 |-> R(P)[i]]
    BY <1>2
  <2>. HIDE DEF R
  <2>. QED
    BY <2>1, <2>2
<1>7. next = R(next)
  <2>. HIDE DEF R
  <2>. QED
    BY <1>6
<1>. HIDE DEF next
<1>8. next = [i \in 1 .. n + 1 |-> next[i]]
  BY <1>7
<1>9. \A i \in 1 .. n + 1 :
         next[i] = IF i = 1 THEN 0 ELSE next[i - 1] + Reading!Extent(text[i - 1], next[i - 1])
  <2>. HIDE DEF R
  <2>. QED
    BY <1>4, <1>7
<1>. DEFINE T == {j \in 0 .. n : next[j + 1] = P[j + 1]}
<1>10. 0 \in T
  BY <1>1, <1>2, <1>9
<1>11. ASSUME NEW j \in 0 .. n - 1, j \in T PROVE j + 1 \in T
  <2>1. j + 2 \in 2 .. n + 1 /\ j + 2 \in 1 .. n + 1 /\ j + 2 # 1 /\ (j + 2) - 1 = j + 1
        /\ j + 1 \in 0 .. n /\ (j + 1) + 1 = j + 2
    BY <1>1
  <2>2. next[j + 2] = next[j + 1] + Reading!Extent(text[j + 1], next[j + 1])
    BY <1>9, <2>1
  <2>3. P[j + 2] = P[j + 1] + Reading!Extent(text[j + 1], P[j + 1])
    BY <1>5, <2>1
  <2>4. next[j + 1] = P[j + 1]
    BY <1>11
  <2>. QED
    BY <2>1, <2>2, <2>3, <2>4
<1>12. 0 .. n \subseteq T
  <2>. HIDE DEF T
  <2>. QED
    BY <1>1, <1>10, <1>11, InductionTo
<1>13. \A i \in 1 .. n + 1 : next[i] = P[i]
  <2>. TAKE i \in 1 .. n + 1
  <2>1. i - 1 \in 0 .. n /\ (i - 1) + 1 = i
    BY <1>1
  <2>2. i - 1 \in T
    <3>. HIDE DEF T
    <3>. QED
      BY <1>12, <2>1
  <2>. QED
    BY <2>1, <2>2
<1>. QED
  BY <1>2, <1>3, <1>8, <1>13 DEF P

----------------------------------------------------------------------------
(* What the operands of a text stand for *)

Places == Reading!Places(lines)
Means == Reading!Meanings(lines, Places)

Operand(tok) == \E i \in DOMAIN lines : tok \in ToSet(lines[i].args)
Labelled(name) == {i \in DOMAIN lines : lines[i].lbl = name /\ name # None}
LastOf(S) == CHOOSE i \in S : \A j \in S : j <= i

LEMMA LastOfIs ==
    ASSUME NEW n \in Nat, NEW S \in SUBSET (1 .. n), S # {}
    PROVE  LastOf(S) \in S /\ \A j \in S : j <= LastOf(S)
BY GreatestNumber DEF LastOf

LEMMA MeansUnfold ==
    ASSUME NEW tok, Operand(tok)
    PROVE  Means[tok] = LET found == IF Labelled(tok) # {} THEN Labelled(tok) ELSE Labelled(Up(tok))
                        IN IF found # {} THEN {Places[LastOf(found)]}
                           ELSE IF tok \in DOMAIN Numeral THEN {Numeral[tok]} ELSE {}
<1>. DEFINE operands == UNION {ToSet(lines[i].args) : i \in DOMAIN lines}
            found(t) == IF Labelled(t) # {} THEN Labelled(t) ELSE Labelled(Up(t))
            value(t) == IF found(t) # {} THEN {Places[LastOf(found(t))]}
                        ELSE IF t \in DOMAIN Numeral THEN {Numeral[t]} ELSE {}
<1>1. Means = [t \in operands |-> value(t)]
  BY SameNames, ZenonT(60) DEF Means, Reading!Meanings, Labelled, LastOf
<1>2. tok \in operands
  BY DEF Operand
<1>. QED
  BY <1>1, <1>2

\* Both read an operand alike.
LEMMA Resolved ==
    ASSUME lines \in Seq(PlainLine), LabelsOf(lines, Len(lines)), NEW tok, Operand(tok)
    PROVE  parseImm(tok) = Means[tok]
<1>. DEFINE n == Len(lines)
<1>1. n \in Nat /\ DOMAIN lines = 1 .. n
  OBVIOUS
<1>2. Places = Positions(lines)
  BY PlacesArePositions DEF Places
<1>3. ASSUME NEW name
      PROVE  /\ name \in DOMAIN labels <=> Labelled(name) # {}
             /\ name \in DOMAIN labels => labels[name] = Places[LastOf(Labelled(name))]
  <2>1. name \in DOMAIN labels <=> \E i \in 1 .. n : lines[i].lbl = name /\ name # None
    BY <1>1 DEF LabelsOf
  <2>2. name \in DOMAIN labels <=> Labelled(name) # {}
    BY <1>1, <2>1 DEF Labelled
  <2>3. ASSUME Labelled(name) # {} PROVE labels[name] = Places[LastOf(Labelled(name))]
    <3>. DEFINE i == LastOf(Labelled(name))
    <3>1. Labelled(name) \in SUBSET (1 .. n)
      BY <1>1 DEF Labelled
    <3>2. i \in Labelled(name) /\ \A j \in Labelled(name) : j <= i
      BY <1>1, <2>3, <3>1, LastOfIs
    <3>. HIDE DEF i
    <3>3. i \in 1 .. n /\ lines[i].lbl = name /\ name # None
      BY <1>1, <3>2 DEF Labelled
    <3>4. \A j \in i + 1 .. n : lines[j].lbl # name
      <4>1. \A j \in i + 1 .. n : j \in 1 .. n /\ ~(j <= i)
        BY <1>1, <3>3
      <4>. QED
        BY <1>1, <3>2, <3>3, <4>1 DEF Labelled
    <3>5. labels[lines[i].lbl] = Positions(lines)[i]
      BY <3>3, <3>4 DEF LabelsOf
    <3>. QED
      BY <1>2, <3>3, <3>5 DEF i
  <2>. QED
    BY <2>2, <2>3
<1>4. Means[tok] = LET found == IF Labelled(tok) # {} THEN Labelled(tok) ELSE Labelled(Up(tok))
                   IN IF found # {} THEN {Places[LastOf(found)]}
                      ELSE IF tok \in DOMAIN Numeral THEN {Numeral[tok]} ELSE {}
  BY MeansUnfold
<1>5. CASE tok \in DOMAIN labels
  BY <1>3, <1>4, <1>5 DEF parseImm
<1>6. CASE tok \notin DOMAIN labels /\ Up(tok) \in DOMAIN labels
  BY <1>3, <1>4, <1>6 DEF parseImm
<1>7. CASE tok \notin DOMAIN labels /\ Up(tok) \notin DOMAIN labels
  BY <1>3, <1>4, <1>7 DEF parseImm
<1>. QED
  BY <1>5, <1>6, <1>7

----------------------------------------------------------------------------
(* What a line emits *)

LEMMA SameLineParts ==
    /\ \A ss : Reading!FlattenSeq(ss) = FlattenSeq(ss)
    /\ \A v, n : Reading!Bytes(v, n) = Bytes(v, n)
    /\ \A m : Reading!NumRegs(m) = NumRegs(m) /\ Reading!TakesImm(m) = TakesImm(m)
<1>1. \A ss : Reading!FlattenSeq(ss) = FlattenSeq(ss)
  BY Zenon DEF Reading!FlattenSeq, FlattenSeq
<1>2. \A v, n : Reading!Bytes(v, n) = Bytes(v, n)
  BY Zenon DEF Reading!Bytes, Bytes, Reading!Exp, Exp
<1>3. ASSUME NEW m PROVE Reading!TakesImm(m) = TakesImm(m)
  BY Zenon DEF Reading!TakesImm, TakesImm, Reading!Branches, Branches, Reading!RegImm, RegImm
<1>4. ASSUME NEW m PROVE Reading!NumRegs(m) = NumRegs(m)
  BY Zenon DEF Reading!NumRegs, NumRegs, Reading!ThreeRegs, ThreeRegs, Reading!Branches, Branches
<1>. QED
  BY <1>1, <1>2, <1>3, <1>4

LEMMA RegField ==
    ASSUME NEW tok
    PROVE  /\ Reading!IsReg(tok) <=> parseReg(tok) # {}
           /\ parseReg(tok) # {} => /\ Reading!Field(tok) \in 0 .. 2
                                    /\ (CHOOSE r \in parseReg(tok) : TRUE) = Reading!Field(tok)
           /\ \A k \in 0 .. 2 : Up(tok) = <<"RA", "RB", "RC">>[k + 1] => Reading!Field(tok) = k
           /\ parseReg(tok) # {} => Up(tok) = <<"RA", "RB", "RC">>[Reading!Field(tok) + 1]
<1>. DEFINE u == Up(tok)
            names == <<"RA", "RB", "RC">>
            c == CHOOSE k \in 0 .. 2 : names[k + 1] = u
<1>1. Reading!Field(tok) = c
  BY SameNames DEF Reading!Field, Reading!RegNames
<1>2. Reading!IsReg(tok) <=> u \in {"RA", "RB", "RC"}
  <2>1. ToSet(names) = {"RA", "RB", "RC"}
    BY DEF ToSet
  <2>. QED
    BY <2>1, SameNames DEF Reading!IsReg, Reading!RegNames
<1>3. parseReg(tok) = IF u \in {"RA", "RB", "RC"} THEN {Regs[u]} ELSE {}
  BY DEF parseReg, Regs
<1>4. Regs["RA"] = 0 /\ Regs["RB"] = 1 /\ Regs["RC"] = 2
  BY DEF Regs
<1>. HIDE DEF u
<1>5. \A k, j \in 0 .. 2 : names[k + 1] = names[j + 1] => k = j
  OBVIOUS
<1>6. \A k \in 0 .. 2 : u = names[k + 1] => c = k
  <2>. TAKE k \in 0 .. 2
  <2>. HAVE u = names[k + 1]
  <2>1. c \in 0 .. 2 /\ names[c + 1] = u
    OBVIOUS
  <2>. HIDE DEF c
  <2>. QED
    BY <1>5, <2>1
<1>. HIDE DEF c
<1>7. CASE u = "RA"
  BY <1>1, <1>2, <1>3, <1>4, <1>6, <1>7 DEF u
<1>8. CASE u = "RB"
  BY <1>1, <1>2, <1>3, <1>4, <1>6, <1>8 DEF u
<1>9. CASE u = "RC"
  BY <1>1, <1>2, <1>3, <1>4, <1>6, <1>9 DEF u
<1>10. CASE u \notin {"RA", "RB", "RC"}
  BY <1>1, <1>2, <1>3, <1>6, <1>10 DEF u
<1>. QED
  BY <1>7, <1>8, <1>9, <1>10

\* When a line is well formed, by its kind.
LEMMA WellFormedIs ==
    ASSUME NEW line, NEW means, NEW m, m = Mnemonic(line)
    PROVE  LET args == line.args
               n == NumRegs(m)
           IN /\ m \in ALIGN \cup {None} => Reading!WellFormed(line, means)
              /\ m \in DS => (Reading!WellFormed(line, means) <=> line.quoted)
              /\ m \in DB \cup DW =>
                    (Reading!WellFormed(line, means) <=> \A k \in DOMAIN args : means[args[k]] # {})
              /\ m = "SYSCALL" =>
                    (Reading!WellFormed(line, means) <=>
                        args # <<>> /\ \A k \in DOMAIN args \cap 1 .. 3 : parseReg(args[k]) # {})
              /\ m \in OPCODES \ {"SYSCALL"} =>
                    (Reading!WellFormed(line, means) <=>
                        /\ Len(args) = n + (IF TakesImm(m) THEN 1 ELSE 0)
                        /\ \A k \in 1 .. n : parseReg(args[k]) # {}
                        /\ TakesImm(m) => means[Last(args)] # {})
              /\ m \notin DB \cup DW \cup DS \cup ALIGN \cup {None} \cup OPCODES =>
                    ~Reading!WellFormed(line, means)
<1>. DEFINE args == line.args
            n == NumRegs(m)
            data == \A k \in DOMAIN args : means[args[k]] # {}
            call == args # <<>> /\ \A k \in DOMAIN args \cap 1 .. 3 : parseReg(args[k]) # {}
            instr == /\ m \in OPCODES /\ Len(args) = n + (IF TakesImm(m) THEN 1 ELSE 0)
                     /\ \A k \in 1 .. n : parseReg(args[k]) # {}
                     /\ TakesImm(m) => means[Last(args)] # {}
<1>1. \A tok : Reading!IsReg(tok) <=> parseReg(tok) # {}
  BY RegField
<1>2. /\ Reading!Op(line) = m /\ Reading!None = None /\ Reading!NumRegs(m) = NumRegs(m)
      /\ Reading!TakesImm(m) = TakesImm(m) /\ Reading!Last(args) = Last(args)
      /\ (Reading!IsInstr(line) <=> m \in OPCODES)
  BY SameNames, SameLineParts DEF IsInstr
<1>3. Reading!WellFormed(line, means) <=>
        CASE m \in {None, ".ALIGN"} -> TRUE
          [] m \in {".DS", ".STRING"} -> line.quoted
          [] m \in {".DB", ".BYTE", ".DW", ".WORD"} -> data
          [] m = "SYSCALL" -> call
          [] OTHER -> instr
  BY <1>1, <1>2 DEF Reading!WellFormed
<1>4. "SYSCALL" \in OPCODES
  BY DEF OPCODES, Mnemonics, ToSet
<1>. DEFINE wf == Reading!WellFormed(line, means)
<1>5. /\ m \in ALIGN \cup {None} => wf
      /\ m \in DS => (wf <=> line.quoted)
      /\ m \in DB \cup DW => (wf <=> data)
      /\ m = "SYSCALL" => (wf <=> call)
      /\ m \in OPCODES \ {"SYSCALL"} => (wf <=> instr)
      /\ m \notin DB \cup DW \cup DS \cup ALIGN \cup {None} \cup OPCODES => ~wf
  <2>. HIDE DEF wf, data, call
  <2>0. wf <=> CASE m \in {None} \cup ALIGN -> TRUE
                 [] m \in DS -> line.quoted
                 [] m \in DB \cup DW -> data
                 [] m = "SYSCALL" -> call
                 [] OTHER -> instr
    BY <1>3 DEF DB, DW, DS, ALIGN, wf
  <2>1. CASE m \in ALIGN \cup {None}
    BY <1>4, <2>0, <2>1, Kinds
  <2>2. CASE m \in DS
    BY <1>4, <2>0, <2>2, Kinds
  <2>3. CASE m \in DB \cup DW
    BY <1>4, <2>0, <2>3, Kinds
  <2>4. CASE m = "SYSCALL"
    BY <1>4, <2>0, <2>4, Kinds
  <2>5. CASE m \in OPCODES \ {"SYSCALL"}
    BY <1>4, <2>0, <2>5, Kinds
  <2>6. CASE m \notin DB \cup DW \cup DS \cup ALIGN \cup {None} \cup OPCODES
    BY <1>4, <2>0, <2>6
  <2>. QED
    BY <2>1, <2>2, <2>3, <2>4, <2>5, <2>6
<1>. QED
  BY <1>5 DEF wf, data, call, instr

\* The bytes of data of a line, by its kind.
ValuesOf(line, means, n) ==
    FlattenSeq([k \in DOMAIN line.args |-> Bytes(CHOOSE v \in means[line.args[k]] : TRUE, n)])

LEMMA LineBytesIs ==
    ASSUME NEW line, NEW means, NEW m, m = Mnemonic(line)
    PROVE  /\ m \in DS => Reading!LineBytes(line, means) = line.lit
           /\ m \in DB => Reading!LineBytes(line, means) = ValuesOf(line, means, 1)
           /\ m \in DW => Reading!LineBytes(line, means) = ValuesOf(line, means, WordBytes)
           /\ m \notin DB \cup DW \cup DS => Reading!LineBytes(line, means) = <<>>
<1>1. Reading!Op(line) = m
  BY SameNames
<1>2. Reading!LineBytes(line, means) =
        CASE m \in {".DS", ".STRING"} -> line.lit
          [] m \in {".DB", ".BYTE"} -> ValuesOf(line, means, 1)
          [] m \in {".DW", ".WORD"} -> ValuesOf(line, means, WordBytes)
          [] OTHER -> <<>>
  BY <1>1, SameLineParts DEF Reading!LineBytes, ValuesOf
<1>3. Reading!LineBytes(line, means) =
        CASE m \in DS -> line.lit
          [] m \in DB -> ValuesOf(line, means, 1)
          [] m \in DW -> ValuesOf(line, means, WordBytes)
          [] OTHER -> <<>>
  BY <1>2 DEF DB, DW, DS
<1>. QED
  BY <1>3, Kinds

\* The instruction that a line means: the registers it names, and -1 for a
\* field it leaves out.
NumFields(line) == IF Mnemonic(line) # "SYSCALL" THEN NumRegs(Mnemonic(line))
                 ELSE IF Len(line.args) > 3 THEN 3 ELSE Len(line.args)
Immediate(line) == IF TakesImm(Mnemonic(line)) THEN CHOOSE v \in Means[Last(line.args)] : TRUE ELSE 0
FieldsOf(line) == [k \in 1 .. 3 |-> IF k <= NumFields(line) THEN Reading!Field(line.args[k]) ELSE -1]
Written(line) == Instr(Mnemonic(line), FieldsOf(line), Immediate(line))

\* The bytes bs are the instruction that a line is, or its data.
Says(line, bs) ==
    IF IsInstr(line) THEN bs = encInstr(Written(line))
    ELSE LET data == Reading!LineBytes(line, Means)
         IN /\ Len(data) \in 0 .. Len(bs)
            /\ \A k \in 1 .. Len(bs) : bs[k] = IF k <= Len(data) THEN data[k] ELSE 0

\* A line emits what it says, or is in error when it is not well formed.
EmitsItsMeaning(line) ==
    \E bs \in Seq(Byte), ok \in BOOLEAN :
       /\ Emit(bs, ok)
       /\ ok <=> Reading!WellFormed(line, Means)
       /\ ok => Says(line, bs)

TextKnown == AsmInv /\ lines \in Seq(PlainLine) /\ phase = "pass2" /\ cur <= Len(lines)

LEMMA LineKnown ==
    ASSUME TextKnown
    PROVE  /\ AsmType /\ cur \in 1 .. Len(lines) /\ lines[cur] \in PlainLine
           /\ lines[cur] \in SourceLine /\ lines[cur].args \in Seq(STRING)
           /\ lines[cur].lit \in Seq(Byte) /\ pos \in Nat
           /\ \A k \in DOMAIN lines[cur].args :
                 parseImm(lines[cur].args[k]) = Means[lines[cur].args[k]]
<1>1. AsmType /\ cur \in 1 .. Len(lines) + 1 /\ LabelsOf(lines, Len(lines))
  BY DEF TextKnown, AsmInv, AsmType
<1>2. lines \in Seq(PlainLine) /\ cur \in 1 .. Len(lines)
  BY <1>1 DEF TextKnown
<1>3. lines[cur] \in PlainLine /\ cur \in DOMAIN lines
  BY <1>2
<1>4. lines[cur] \in SourceLine /\ lines[cur].args \in Seq(STRING) /\ lines[cur].lit \in Seq(Byte)
  BY <1>3 DEF PlainLine, SourceLine, Byte
<1>5. ASSUME NEW k \in DOMAIN lines[cur].args
      PROVE  parseImm(lines[cur].args[k]) = Means[lines[cur].args[k]]
  <2>1. lines[cur].args[k] \in ToSet(lines[cur].args)
    BY DEF ToSet
  <2>2. Operand(lines[cur].args[k])
    BY <1>3, <2>1 DEF Operand
  <2>. QED
    BY <1>1, <1>2, <2>2, Resolved
<1>. QED
  BY <1>1, <1>2, <1>3, <1>4, <1>5 DEF AsmType

LEMMA ValuesMeaning ==
    ASSUME TextKnown, emitValues(DB, 1) \/ emitValues(DW, WordBytes)
    PROVE  EmitsItsMeaning(lines[cur])
<1>. DEFINE line == lines[cur]
            args == line.args
            m == Mnemonic(line)
            ok == \A k \in DOMAIN args : parseImm(args[k]) # {}
            emitted(n) == FlattenSeq([k \in DOMAIN args |->
                             IF parseImm(args[k]) = {} THEN <<>>
                             ELSE Bytes(CHOOSE v \in parseImm(args[k]) : TRUE, n)])
<1>1. AsmType /\ args \in Seq(STRING) /\ \A k \in DOMAIN args : parseImm(args[k]) = Means[args[k]]
  BY LineKnown
<1>2. ok <=> \A k \in DOMAIN args : Means[args[k]] # {}
  BY <1>1
<1>3. ASSUME NEW n, ok
      PROVE  emitted(n) = ValuesOf(line, Means, n)
  <2>1. \A k \in DOMAIN args :
          (IF parseImm(args[k]) = {} THEN <<>> ELSE Bytes(CHOOSE v \in parseImm(args[k]) : TRUE, n))
          = Bytes(CHOOSE v \in Means[args[k]] : TRUE, n)
    BY <1>1, <1>3
  <2>. QED
    BY <2>1 DEF ValuesOf
<1>4. ASSUME NEW n \in Nat, Emit(emitted(n), ok), m \in DB \cup DW,
             Reading!LineBytes(line, Means) = ValuesOf(line, Means, n)
      PROVE  EmitsItsMeaning(line)
  <2>1. emitted(n) \in Seq(Byte)
    BY <1>1, ValuesEmitted
  <2>. HIDE DEF emitted
  <2>2. Reading!WellFormed(line, Means) <=> ok
    BY <1>2, <1>4, WellFormedIs
  <2>3. ~IsInstr(line)
    BY <1>4, Kinds DEF IsInstr
  <2>4. ok \in BOOLEAN
    OBVIOUS
  <2>. DEFINE bs == emitted(n)
  <2>5. ok => Reading!LineBytes(line, Means) = bs
    BY <1>3, <1>4
  <2>6. bs \in Seq(Byte) /\ Emit(bs, ok)
    BY <1>4, <2>1
  <2>. HIDE DEF bs, ok
  <2>7. ok => Says(line, bs)
    BY <2>3, <2>5, <2>6 DEF Says
  <2>. QED
    BY <2>2, <2>4, <2>6, <2>7 DEF EmitsItsMeaning
<1>5. CASE emitValues(DB, 1)
  <2>1. m \in DB /\ Emit(emitted(1), ok)
    BY <1>5 DEF emitValues, LineOf
  <2>2. Reading!LineBytes(line, Means) = ValuesOf(line, Means, 1)
    BY <2>1, LineBytesIs
  <2>. HIDE DEF emitted, ok, m
  <2>. QED
    BY <1>4, <2>1, <2>2
<1>6. CASE emitValues(DW, WordBytes)
  <2>1. m \in DW /\ Emit(emitted(WordBytes), ok)
    BY <1>6 DEF emitValues, LineOf
  <2>2. Reading!LineBytes(line, Means) = ValuesOf(line, Means, WordBytes)
    BY <2>1, LineBytesIs
  <2>. HIDE DEF emitted, ok, m
  <2>. QED
    BY <1>4, <2>1, <2>2, WordBytesAssumption
<1>. QED
  BY <1>5, <1>6

LEMMA OtherDataMeaning ==
    ASSUME TextKnown, emitText \/ emitPadding \/ skipBlank \/ unknownMnemonic
    PROVE  EmitsItsMeaning(lines[cur])
<1>. DEFINE line == lines[cur]
            m == Mnemonic(line)
            data == Reading!LineBytes(line, Means)
<1>1. AsmType /\ line.lit \in Seq(Byte) /\ pos \in Nat
  BY LineKnown
<1>2. <<>> \in Seq(Byte) /\ Len(<<>>) = 0 /\ 0 \in Byte
  BY DEF Byte
<1>3. ASSUME NEW bs \in Seq(Byte), NEW ok \in BOOLEAN, Emit(bs, ok), m \notin OPCODES,
             ok <=> Reading!WellFormed(line, Means),
             ok => /\ Len(data) \in 0 .. Len(bs)
                   /\ \A k \in 1 .. Len(bs) : bs[k] = IF k <= Len(data) THEN data[k] ELSE 0
      PROVE  EmitsItsMeaning(line)
  BY <1>3 DEF EmitsItsMeaning, Says, IsInstr
<1>4. CASE emitText
  <2>1. m \in DS /\ IF line.quoted THEN Emit(Append(line.lit, 0), TRUE) ELSE Emit(<<>>, FALSE)
    BY <1>4 DEF emitText, LineOf
  <2>2. m \notin OPCODES /\ (Reading!WellFormed(line, Means) <=> line.quoted) /\ data = line.lit
    BY <2>1, Kinds, WellFormedIs, LineBytesIs
  <2>3. CASE line.quoted
    <3>. DEFINE bs == Append(line.lit, 0)
    <3>1. bs \in Seq(Byte) /\ Len(bs) = Len(line.lit) + 1
          /\ \A k \in 1 .. Len(bs) : bs[k] = IF k <= Len(line.lit) THEN line.lit[k] ELSE 0
      BY <1>1, <1>2
    <3>2. Emit(bs, TRUE)
      BY <2>1, <2>3
    <3>3. Len(line.lit) \in 0 .. Len(bs)
      BY <1>1, <3>1
    <3>. HIDE DEF bs
    <3>. QED
      BY <1>3, <2>2, <2>3, <3>1, <3>2, <3>3
  <2>4. CASE ~line.quoted
    BY <1>2, <1>3, <2>1, <2>2, <2>4
  <2>. QED
    BY <2>3, <2>4
<1>5. CASE emitPadding
  <2>. DEFINE bs == [k \in 1 .. Padding(pos) |-> 0]
  <2>1. m \in ALIGN /\ Emit(bs, TRUE)
    BY <1>5 DEF emitPadding, LineOf
  <2>2. Padding(pos) \in Nat
    BY <1>1, PaddingType
  <2>3. bs \in Seq(Byte) /\ \A k \in 1 .. Len(bs) : bs[k] = 0
    BY <1>2, <2>2
  <2>4. m \notin OPCODES /\ Reading!WellFormed(line, Means) /\ data = <<>>
    BY <2>1, Kinds, WellFormedIs, LineBytesIs
  <2>. HIDE DEF bs, data
  <2>5. Len(data) \in 0 .. Len(bs) /\ \A k \in 1 .. Len(bs) : bs[k] = IF k <= Len(data) THEN data[k] ELSE 0
    BY <1>2, <2>3, <2>4
  <2>. QED
    BY <1>3, <2>1, <2>3, <2>4, <2>5
<1>6. CASE skipBlank
  <2>1. m = None /\ Emit(<<>>, TRUE)
    BY <1>6 DEF skipBlank, LineOf
  <2>2. m \notin OPCODES /\ Reading!WellFormed(line, Means) /\ data = <<>>
    BY <2>1, Kinds, WellFormedIs, LineBytesIs
  <2>. HIDE DEF data, m
  <2>3. \A k \in 1 .. Len(<<>>) : <<>>[k] = IF k <= Len(data) THEN data[k] ELSE 0
    BY <1>2
  <2>4. Len(data) \in 0 .. Len(<<>>)
    BY <1>2, <2>2
  <2>. QED
    BY <1>2, <1>3, <2>1, <2>2, <2>3, <2>4
<1>7. CASE unknownMnemonic
  <2>1. m \notin DB \cup DW \cup DS \cup ALIGN \cup {None} \cup OPCODES /\ Emit(<<>>, FALSE)
    BY <1>7 DEF unknownMnemonic, LineOf, IsInstr
  <2>2. ~Reading!WellFormed(line, Means)
    BY <2>1, WellFormedIs
  <2>. QED
    BY <1>2, <1>3, <2>1, <2>2
<1>. QED
  BY <1>4, <1>5, <1>6, <1>7

\* The operands that were encoded are those that were written.
LEMMA OperandsMeaning ==
    ASSUME NEW line, NEW named \in Seq(STRING), NEW imm,
           Len(named) = NumFields(line), Len(named) <= 3,
           \A k \in 1 .. Len(named) : named[k] = line.args[k] /\ parseReg(named[k]) # {},
           imm = Immediate(line)
    PROVE  Operands(Mnemonic(line), named, imm) = encInstr(Written(line))
<1>1. ASSUME NEW k \in 1 .. 3
      PROVE  (IF k <= Len(named) THEN CHOOSE r \in parseReg(named[k]) : TRUE ELSE -1)
             = (IF k <= NumFields(line) THEN Reading!Field(line.args[k]) ELSE -1)
  <2>1. CASE k <= Len(named)
    <3>1. k \in 1 .. Len(named)
      BY <2>1
    <3>2. (CHOOSE r \in parseReg(named[k]) : TRUE) = Reading!Field(named[k])
      BY <3>1, RegField
    <3>. QED
      BY <2>1, <3>1, <3>2
  <2>2. CASE ~(k <= Len(named))
    BY <2>2
  <2>. QED
    BY <2>1, <2>2
<1>2. [k \in 1 .. 3 |-> IF k <= Len(named) THEN CHOOSE r \in parseReg(named[k]) : TRUE ELSE -1]
      = FieldsOf(line)
  BY <1>1 DEF FieldsOf
<1>. QED
  BY <1>2, Zenon DEF Operands, Written

LEMMA EmittedMeaning ==
    ASSUME NEW line, NEW ok \in BOOLEAN, NEW named, NEW imm \in Int,
           Mnemonic(line) \in OPCODES, Emitted(Mnemonic(line), ok, named, imm),
           ok => /\ named \in Seq(STRING) /\ Len(named) = NumFields(line) /\ Len(named) <= 3
                 /\ \A k \in 1 .. Len(named) : named[k] = line.args[k] /\ parseReg(named[k]) # {}
                 /\ imm = Immediate(line),
           ok <=> Reading!WellFormed(line, Means)
    PROVE  EmitsItsMeaning(line)
<1>. DEFINE m == Mnemonic(line)
            bs == IF ok THEN Operands(m, named, imm) ELSE Operands(m, <<>>, 0)
<1>1. Emit(bs, ok)
  BY DEF Emitted
<1>2. bs \in Seq(Byte)
  <2>1. CASE ok
    <3>1. named \in Seq(STRING) /\ \A k \in 1 .. Len(named) : parseReg(named[k]) # {}
      BY <2>1
    <3>2. \A k \in DOMAIN named : parseReg(named[k]) # {}
      BY <3>1
    <3>. QED
      BY <2>1, <3>1, <3>2, OperandsType
  <2>2. CASE ~ok
    <3>1. <<>> \in Seq(STRING) /\ 0 \in Int /\ DOMAIN <<>> = {}
      OBVIOUS
    <3>2. \A k \in DOMAIN <<>> : parseReg(<<>>[k]) # {}
      BY <3>1
    <3>. QED
      BY <2>2, <3>1, <3>2, OperandsType
  <2>. QED
    BY <2>1, <2>2
<1>3. ok => bs = encInstr(Written(line))
  BY OperandsMeaning
<1>. HIDE DEF bs
<1>4. ok => Says(line, bs)
  BY <1>3 DEF Says, IsInstr
<1>. QED
  BY <1>1, <1>2, <1>4 DEF EmitsItsMeaning

LEMMA SyscallMeaning ==
    ASSUME TextKnown, emitSyscall
    PROVE  EmitsItsMeaning(lines[cur])
<1>. DEFINE line == lines[cur]
            m == Mnemonic(line)
            args == line.args
            n == IF Len(args) > 3 THEN 3 ELSE Len(args)
            named == SubSeq(args, 1, n)
            ok == named # <<>> /\ \A k \in DOMAIN named : parseReg(named[k]) # {}
<1>1. args \in Seq(STRING) /\ Len(args) \in Nat
  BY LineKnown
<1>2. m = "SYSCALL" /\ Emitted(m, ok, named, 0)
  BY DEF emitSyscall, LineOf
<1>3. m \in OPCODES
  BY <1>2 DEF OPCODES, Mnemonics, ToSet
<1>4. named \in Seq(STRING) /\ Len(named) = n /\ n <= 3 /\ n \in Nat
      /\ \A k \in 1 .. n : named[k] = args[k]
  BY <1>1
<1>5. 0 = Immediate(line)
  BY <1>2 DEF Immediate, TakesImm, Branches, RegImm
<1>6. n = NumFields(line)
  BY <1>2 DEF NumFields
<1>7. /\ (named # <<>> <=> args # <<>>) /\ DOMAIN named = 1 .. n
      /\ 1 .. n = DOMAIN args \cap 1 .. 3
  <2>1. DOMAIN named = 1 .. n /\ DOMAIN args = 1 .. Len(args)
    BY <1>1, <1>4
  <2>2. 1 .. n = DOMAIN args \cap 1 .. 3
    BY <1>1, <2>1
  <2>3. (named # <<>> <=> n # 0) /\ (args # <<>> <=> n # 0)
    BY <1>1, <1>4, SMTT(40)
  <2>. QED
    BY <2>1, <2>2, <2>3
<1>8. ok <=> args # <<>> /\ \A k \in DOMAIN args \cap 1 .. 3 : parseReg(args[k]) # {}
  BY <1>4, <1>7
<1>9. ok <=> Reading!WellFormed(line, Means)
  BY <1>2, <1>8, WellFormedIs
<1>10. ok \in BOOLEAN /\ 0 \in Int
       /\ (ok => \A k \in 1 .. Len(named) : named[k] = args[k] /\ parseReg(named[k]) # {})
  <2>1. \A k \in 1 .. Len(named) : k \in DOMAIN named /\ named[k] = args[k]
    BY <1>4, <1>7
  <2>2. ASSUME ok, NEW k \in 1 .. Len(named) PROVE parseReg(named[k]) # {}
    BY <2>1, <2>2
  <2>3. ok \in BOOLEAN
    OBVIOUS
  <2>. HIDE DEF ok, named
  <2>. QED
    BY <2>1, <2>2, <2>3
<1>. HIDE DEF named, ok, n
<1>. QED
  BY <1>2, <1>3, <1>4, <1>5, <1>6, <1>9, <1>10, EmittedMeaning

LEMMA InstructionMeaning ==
    ASSUME TextKnown, emitInstr
    PROVE  EmitsItsMeaning(lines[cur])
<1>. DEFINE line == lines[cur]
            m == Mnemonic(line)
            args == line.args
            n == NumRegs(m)
            fits == Len(args) = n + (IF TakesImm(m) THEN 1 ELSE 0)
            imms == IF ~TakesImm(m) THEN {0} ELSE IF fits THEN parseImm(Last(args)) ELSE {}
            ok == fits /\ imms # {} /\ \A k \in 1 .. n : parseReg(args[k]) # {}
            named == SubSeq(args, 1, n)
            imm == CHOOSE v \in imms \cup {0} : imms # {} => v \in imms
<1>1. AsmType /\ args \in Seq(STRING) /\ Len(args) \in Nat
      /\ \A k \in DOMAIN args : parseImm(args[k]) = Means[args[k]]
  BY LineKnown
<1>2. m \in OPCODES /\ m # "SYSCALL" /\ Emitted(m, ok, named, imm)
  BY DEF emitInstr, LineOf, IsInstr
<1>3. n \in 0 .. 3 /\ NumFields(line) = n
  BY <1>2 DEF NumRegs, NumFields
<1>4. TakesImm(m) /\ fits => parseImm(Last(args)) = Means[Last(args)]
  <2>1. Last(args) = args[Len(args)]
    BY DEF Last
  <2>2. TakesImm(m) /\ fits => Len(args) \in DOMAIN args
    BY <1>1, <1>3
  <2>. QED
    BY <1>1, <2>1, <2>2
<1>5. \A tok : parseImm(tok) = {} \/ \E v : parseImm(tok) = {v}
  BY DEF parseImm
<1>6. imms = {} \/ \E v : imms = {v}
  BY <1>5
<1>7. imm \in Int
  <2>1. \A v \in imms \cup {0} : v \in Int
    BY <1>1, ParseImmType
  <2>. HIDE DEF imms
  <2>2. \E v \in imms \cup {0} : imms # {} => v \in imms
    OBVIOUS
  <2>3. imm \in imms \cup {0}
    BY <2>2
  <2>. QED
    BY <2>1, <2>3
<1>8. ok => imm = Immediate(line)
  <2>. SUFFICES ASSUME ok PROVE imm = Immediate(line)
    OBVIOUS
  <2>1. PICK v : imms = {v}
    BY <1>6
  <2>2. imm = v
    <3>. HIDE DEF imms
    <3>. QED
      BY <2>1
  <2>3. CASE TakesImm(m)
    <3>1. Means[Last(args)] = {v}
      BY <1>4, <2>1, <2>3
    <3>. QED
      BY <2>2, <2>3, <3>1 DEF Immediate
  <2>4. CASE ~TakesImm(m)
    BY <2>1, <2>2, <2>4 DEF Immediate
  <2>. QED
    BY <2>3, <2>4
<1>9. ok <=> /\ Len(args) = n + (IF TakesImm(m) THEN 1 ELSE 0)
             /\ \A k \in 1 .. n : parseReg(args[k]) # {}
             /\ TakesImm(m) => Means[Last(args)] # {}
  BY <1>4
<1>10. ok <=> Reading!WellFormed(line, Means)
  BY <1>2, <1>9, WellFormedIs
<1>. HIDE DEF n, m, args, line
<1>11. fits => Len(args) >= n
  BY <1>1, <1>3
<1>12. ok => named \in Seq(STRING)
  BY <1>1, <1>3, <1>11
<1>13. ok => Len(named) = n /\ \A k \in 1 .. n : named[k] = args[k] /\ parseReg(named[k]) # {}
  BY <1>1, <1>3, <1>11
<1>14. ok \in BOOLEAN
  OBVIOUS
<1>. HIDE DEF ok, imm, named
<1>15. n <= 3 /\ args = line.args /\ m = Mnemonic(line)
  BY <1>3 DEF args, m
<1>16. EmitsItsMeaning(line)
  BY <1>2, <1>3, <1>7, <1>8, <1>10, <1>12, <1>13, <1>14, <1>15, EmittedMeaning
<1>. QED
  BY <1>16 DEF line

LEMMA LineMeaning ==
    ASSUME TextKnown, pass2
    PROVE  EmitsItsMeaning(lines[cur])
BY ValuesMeaning, OtherDataMeaning, SyscallMeaning, InstructionMeaning DEF pass2

----------------------------------------------------------------------------
(* The lines have their places, one after the other *)

InstrLines == {i \in DOMAIN lines : IsInstr(lines[i])}
CodeBytes == UNION {Places[i] .. Places[i] + INSTRSZ - 1 : i \in InstrLines}

LEMMA PlacesUnfold ==
    ASSUME lines \in Seq(PlainLine)
    PROVE  /\ Len(lines) \in Nat /\ DOMAIN lines = 1 .. Len(lines)
           /\ Places \in [1 .. Len(lines) + 1 -> Nat] /\ Places[1] = 0
           /\ \A i \in 1 .. Len(lines) : Places[i] <= Places[i + 1]
           /\ \A i \in InstrLines : Places[i + 1] = Places[i] + INSTRSZ
<1>1. Len(lines) \in Nat /\ DOMAIN lines = 1 .. Len(lines) /\ lines \in Seq(SourceLine)
  BY DEF PlainLine
<1>2. Places = Positions(lines)
  BY PlacesArePositions DEF Places
<1>3. /\ Places \in [1 .. Len(lines) + 1 -> Nat] /\ Places[1] = 0
      /\ \A i \in 1 .. Len(lines) : Places[i + 1] = Places[i] + lineSize(lines[i], Places[i])
  BY <1>1, <1>2, PositionsUnfold
<1>4. ASSUME NEW i \in 1 .. Len(lines)
      PROVE  Places[i] \in Nat /\ lineSize(lines[i], Places[i]) \in Nat
  <2>1. lines[i] \in SourceLine /\ Places[i] \in Nat
    BY <1>1, <1>3
  <2>. QED
    BY <2>1, LineSizeType
<1>5. \A i \in 1 .. Len(lines) : Places[i] <= Places[i + 1]
  BY <1>3, <1>4
<1>6. ASSUME NEW i \in InstrLines PROVE Places[i + 1] = Places[i] + INSTRSZ
  <2>1. i \in 1 .. Len(lines) /\ Mnemonic(lines[i]) \in OPCODES
    BY <1>1 DEF InstrLines, IsInstr
  <2>2. lineSize(lines[i], Places[i]) = INSTRSZ
    BY <2>1, Kinds DEF lineSize, IsInstr
  <2>. QED
    BY <1>3, <2>1, <2>2
<1>. QED
  BY <1>1, <1>3, <1>5, <1>6

LEMMA PlacesGrow ==
    ASSUME lines \in Seq(PlainLine), NEW i \in 1 .. Len(lines) + 1, NEW j \in i .. Len(lines) + 1
    PROVE  Places[i] <= Places[j]
<1>. DEFINE n == Len(lines) + 1 - i
            T == {k \in 0 .. n : Places[i] <= Places[i + k]}
<1>1. /\ Len(lines) \in Nat /\ Places \in [1 .. Len(lines) + 1 -> Nat]
      /\ \A k \in 1 .. Len(lines) : Places[k] <= Places[k + 1]
  BY PlacesUnfold
<1>2. n \in Nat
  BY <1>1
<1>3. 0 \in T
  BY <1>1
<1>4. ASSUME NEW k \in 0 .. n - 1, k \in T PROVE k + 1 \in T
  <2>1. i + k \in 1 .. Len(lines) /\ (i + k) + 1 = i + (k + 1) /\ k + 1 \in 0 .. n
        /\ i + k \in 1 .. Len(lines) + 1 /\ i + (k + 1) \in 1 .. Len(lines) + 1
    BY <1>1
  <2>2. Places[i + k] <= Places[i + (k + 1)]
    BY <1>1, <2>1
  <2>3. Places[i] \in Nat /\ Places[i + k] \in Nat /\ Places[i + (k + 1)] \in Nat
    BY <1>1, <2>1
  <2>. QED
    BY <1>4, <2>1, <2>2, <2>3
<1>5. 0 .. n \subseteq T
  <2>. HIDE DEF T, n
  <2>. QED
    BY <1>2, <1>3, <1>4, InductionTo
<1>6. j - i \in 0 .. n /\ i + (j - i) = j
  BY <1>1
<1>7. j - i \in T
  <2>. HIDE DEF T, n
  <2>. QED
    BY <1>5, <1>6
<1>. QED
  BY <1>6, <1>7

\* No byte of an instruction is a byte of another line.
LEMMA LinesApart ==
    ASSUME lines \in Seq(PlainLine), NEW i \in InstrLines, NEW j \in 1 .. Len(lines), i # j,
           NEW a \in Places[i] .. Places[i] + INSTRSZ - 1
    PROVE  a \notin Places[j] .. Places[j + 1] - 1
<1>1. /\ Len(lines) \in Nat /\ DOMAIN lines = 1 .. Len(lines)
      /\ Places \in [1 .. Len(lines) + 1 -> Nat]
      /\ Places[i + 1] = Places[i] + INSTRSZ
  BY PlacesUnfold
<1>2. i \in 1 .. Len(lines) /\ INSTRSZ \in Nat
  BY <1>1, WordSize DEF InstrLines
<1>3. /\ Places[i] \in Nat /\ Places[i + 1] \in Nat /\ Places[j] \in Nat /\ Places[j + 1] \in Nat
  <2>1. i + 1 \in 1 .. Len(lines) + 1 /\ j + 1 \in 1 .. Len(lines) + 1
        /\ i \in 1 .. Len(lines) + 1 /\ j \in 1 .. Len(lines) + 1
    BY <1>1, <1>2
  <2>. QED
    BY <1>1, <2>1
<1>4. CASE i < j
  <2>1. i + 1 \in 1 .. Len(lines) + 1 /\ j \in i + 1 .. Len(lines) + 1
    BY <1>1, <1>2, <1>4
  <2>2. Places[i + 1] <= Places[j]
    BY <2>1, PlacesGrow
  <2>. QED
    BY <1>1, <1>2, <1>3, <2>2, SMTT(40)
<1>5. CASE j < i
  <2>1. j + 1 \in 1 .. Len(lines) + 1 /\ i \in j + 1 .. Len(lines) + 1
    BY <1>1, <1>2, <1>5
  <2>2. Places[j + 1] <= Places[i]
    BY <2>1, PlacesGrow
  <2>. QED
    BY <1>1, <1>2, <1>3, <2>2
<1>. QED
  BY <1>1, <1>2, <1>4, <1>5

----------------------------------------------------------------------------
(* The data of a text *)

LEMMA ByteAtOverlay ==
    ASSUME NEW m, NEW a \in Int, NEW bs, Len(bs) \in Nat, NEW x
    PROVE  ByteAt(Overlay(m, a, bs), x) =
              IF x \in a .. a + Len(bs) - 1 THEN bs[x - a + 1] ELSE ByteAt(m, x)
BY DEF ByteAt, Overlay

DataSoFar == Reading!DataOf(lines, Places, Means)

LEMMA DataUnfold ==
    ASSUME Len(lines) \in Nat
    PROVE  /\ DataSoFar[0] = <<>>
           /\ \A i \in 1 .. Len(lines) :
                 DataSoFar[i] = Overlay(DataSoFar[i - 1], Places[i], Reading!LineBytes(lines[i], Means))
<1>. DEFINE n == Len(lines)
            next(d, i) == Overlay(d, Places[i], Reading!LineBytes(lines[i], Means))
            R(g, k) == [i \in 0 .. k |-> IF i = 0 THEN <<>> ELSE next(g[i - 1], i)]
            data == CHOOSE g : g = R(g, n)
            T == {k \in 0 .. n : \E g : g = R(g, k)}
<1>1. DataSoFar = data
  BY SameMemory DEF DataSoFar, Reading!DataOf
<1>. HIDE DEF n, next
<1>2. n \in Nat
  BY DEF n
<1>3. 0 \in T
  <2>. DEFINE g == [i \in 0 .. 0 |-> <<>>]
  <2>1. \A i \in 0 .. 0 : i = 0
    OBVIOUS
  <2>2. g = R(g, 0)
    BY <2>1
  <2>3. 0 \in 0 .. n
    BY <1>2
  <2>. HIDE DEF g, R
  <2>. QED
    BY <2>2, <2>3
<1>4. ASSUME NEW k \in 0 .. n - 1, k \in T PROVE k + 1 \in T
  <2>1. PICK g : g = R(g, k)
    BY <1>4
  <2>. DEFINE h == [i \in 0 .. k + 1 |-> IF i <= k THEN g[i] ELSE next(g[k], k + 1)]
  <2>2. ASSUME NEW i \in 0 .. k + 1 PROVE h[i] = IF i = 0 THEN <<>> ELSE next(h[i - 1], i)
    <3>1. CASE i = 0
      <4>1. 0 \in 0 .. k /\ h[0] = g[0] /\ g[0] = R(g, k)[0]
        BY <2>1
      <4>. QED
        BY <3>1, <4>1
    <3>2. CASE i \in 1 .. k
      <4>1. i \in 0 .. k /\ i # 0 /\ i - 1 \in 0 .. k /\ i - 1 \in 0 .. k + 1 /\ i <= k /\ i - 1 <= k
        BY <3>2
      <4>2. h[i] = g[i] /\ h[i - 1] = g[i - 1] /\ g[i] = R(g, k)[i]
        BY <2>1, <4>1
      <4>3. R(g, k)[i] = next(g[i - 1], i)
        BY <4>1
      <4>. QED
        BY <4>1, <4>2, <4>3
    <3>3. CASE i = k + 1
      <4>1. ~(k + 1 <= k) /\ k + 1 # 0 /\ (k + 1) - 1 = k /\ k \in 0 .. k + 1 /\ k <= k
        OBVIOUS
      <4>2. h[k + 1] = next(g[k], k + 1) /\ h[k] = g[k]
        BY <4>1
      <4>. QED
        BY <3>3, <4>1, <4>2
    <3>. QED
      BY <3>1, <3>2, <3>3
  <2>3. h = R(h, k + 1)
    <3>. DEFINE r == R(h, k + 1)
    <3>1. r = [i \in 0 .. k + 1 |-> IF i = 0 THEN <<>> ELSE next(h[i - 1], i)]
      OBVIOUS
    <3>2. h = [i \in 0 .. k + 1 |-> h[i]]
      OBVIOUS
    <3>. HIDE DEF h
    <3>. QED
      BY <2>2, <3>2
  <2>4. k + 1 \in 0 .. n
    BY <1>2
  <2>. HIDE DEF h, R
  <2>. QED
    BY <2>3, <2>4
<1>5. n \in T
  <2>. HIDE DEF T
  <2>1. 0 .. n \subseteq T
    BY <1>2, <1>3, <1>4, InductionTo
  <2>. QED
    BY <1>2, <2>1
<1>6. data = R(data, n)
  <2>. HIDE DEF R
  <2>. QED
    BY <1>5
<1>. HIDE DEF data
<1>7. data[0] = <<>> /\ \A i \in 1 .. n : data[i] = next(data[i - 1], i)
  <2>1. \A i \in 0 .. n : R(data, n)[i] = IF i = 0 THEN <<>> ELSE next(data[i - 1], i)
    OBVIOUS
  <2>. HIDE DEF R
  <2>2. 0 \in 0 .. n /\ \A i \in 1 .. n : i \in 0 .. n /\ i # 0
    BY <1>2
  <2>. QED
    BY <1>6, <2>1, <2>2
<1>. QED
  BY <1>1, <1>7 DEF n, next

----------------------------------------------------------------------------
(* What has been assembled is what the text says *)

CodeSays ==
    \A i \in InstrLines :
       i < cur => \A k \in 1 .. INSTRSZ : code[Places[i] + k] = encInstr(Written(lines[i]))[k]
DataSays ==
    \A a : ByteAt(DataSoFar[cur - 1], a) =
              IF a \in 0 .. Len(code) - 1 /\ a \notin CodeBytes THEN code[a + 1] ELSE 0

\* So far no line is in error exactly when all are well formed, and then the
\* bytes of code and of data are those of the text.
TextInv ==
    phase # "pass1" =>
       /\ errs = {} <=> \A i \in 1 .. cur - 1 : Reading!WellFormed(lines[i], Means)
       /\ errs = {} => CodeSays /\ DataSays

LEMMA SameText ==
    ASSUME src' = src
    PROVE  /\ lines' = lines /\ Places' = Places /\ Means' = Means /\ InstrLines' = InstrLines
           /\ CodeBytes' = CodeBytes /\ DataSoFar' = DataSoFar
           /\ \A line : Written(line)' = Written(line)
<1>1. lines' = lines
  BY DEF lines
<1>2. Places' = Places
  BY <1>1 DEF Places
<1>3. Means' = Means
  BY <1>1, <1>2 DEF Means
<1>4. InstrLines' = InstrLines
  BY <1>1 DEF InstrLines
<1>5. CodeBytes' = CodeBytes
  BY <1>2, <1>4 DEF CodeBytes
<1>6. DataSoFar' = DataSoFar
  BY <1>1, <1>2, <1>3 DEF DataSoFar
<1>7. ASSUME NEW line PROVE Written(line)' = Written(line)
  <2>1. Immediate(line)' = Immediate(line)
    BY <1>3 DEF Immediate
  <2>. QED
    BY <2>1 DEF Written
<1>. QED
  BY <1>1, <1>2, <1>3, <1>4, <1>5, <1>6, <1>7

LEMMA TextStep ==
    ASSUME AsmInv, AsmInv', TextInv, lines \in Seq(PlainLine), pass2
    PROVE  TextInv'
<1>1. AsmType /\ phase = "pass2" /\ cur <= Len(lines)
  BY DEF AsmInv, pass2, emitValues, emitText, emitPadding, skipBlank, unknownMnemonic,
    emitSyscall, emitInstr, LineOf
<1>2. TextKnown
  BY <1>1 DEF TextKnown
<1>. DEFINE line == lines[cur]
            wf(i) == Reading!WellFormed(lines[i], Means)
<1>3. PICK bs \in Seq(Byte), ok \in BOOLEAN :
         Emit(bs, ok) /\ (ok <=> wf(cur)) /\ (ok => Says(line, bs))
  BY <1>2, LineMeaning DEF EmitsItsMeaning
<1>4. /\ code' = code \o bs /\ pos' = pos + Len(bs) /\ cur' = cur + 1
      /\ errs' = (IF ok THEN errs ELSE errs \cup {cur})
      /\ src' = src /\ phase' = phase
  BY <1>3 DEF Emit
<1>5. cur \in 1 .. Len(lines) /\ Len(lines) \in Nat /\ cur' - 1 = cur
  BY <1>2, <1>4, LineKnown
<1>6. /\ lines' = lines /\ Places' = Places /\ Means' = Means /\ InstrLines' = InstrLines
      /\ CodeBytes' = CodeBytes /\ DataSoFar' = DataSoFar
      /\ \A l : Written(l)' = Written(l)
  BY <1>4, SameText
<1>7. errs' = {} <=> \A i \in 1 .. cur : wf(i)
  <2>. HIDE DEF wf
  <2>1. errs = {} <=> \A i \in 1 .. cur - 1 : wf(i)
    BY <1>1 DEF TextInv, wf
  <2>2. errs' = {} <=> ok /\ errs = {}
    BY <1>4
  <2>3. \A i \in 1 .. cur : i \in 1 .. cur - 1 \/ i = cur
    BY <1>5
  <2>. QED
    BY <1>3, <1>5, <2>1, <2>2, <2>3
<1>8. ASSUME errs' = {}
      PROVE  CodeSays' /\ DataSays'
  <2>1. ok /\ errs = {} /\ CodeSays /\ DataSays /\ Says(line, bs)
    BY <1>1, <1>3, <1>4, <1>8 DEF TextInv
  <2>2. \A i \in 1 .. Len(lines) : ~EmptyText(lines[i])
    BY <1>5 DEF PlainLine
  <2>3. Places = Positions(lines)
    BY PlacesArePositions DEF Places
  <2>4. code \in Seq(Byte) /\ Len(code) = Places[cur] /\ Len(code) \in Nat /\ Len(bs) \in Nat
    <3>1. pos = Positions(lines)[cur] /\ code \in Seq(Byte) /\ pos = Len(code)
      BY <1>1, <1>5, <2>1, <2>2 DEF AsmInv, AsmType, NoEmptyText
    <3>. QED
      BY <1>3, <2>3, <3>1
  <2>5. code' \in Seq(Byte) /\ Len(code') = Len(code) + Len(bs)
        /\ (\A k \in 1 .. Len(code) : code'[k] = code[k])
        /\ \A k \in 1 .. Len(bs) : code'[Len(code) + k] = bs[k]
    <3>1. code \o bs \in Seq(Byte) /\ Len(code \o bs) = Len(code) + Len(bs)
      BY <1>3, <2>4, SMTT(40)
    <3>2. \A k \in 1 .. Len(code) : (code \o bs)[k] = code[k]
      BY <1>3, <2>4
    <3>3. \A k \in 1 .. Len(bs) : (code \o bs)[Len(code) + k] = bs[k]
      BY <1>3, <2>4
    <3>. QED
      BY <1>4, <3>1, <3>2, <3>3
  <2>6. Len(code') = Places[cur + 1]
    <3>1. pos' = Len(code')
      BY <1>1, <1>4 DEF AsmInv, AsmType
    <3>2. NoEmptyText(cur - 1)'
      BY <1>5, <1>6, <2>2 DEF NoEmptyText
    <3>3. pos' = Positions(lines')[cur']
      BY <1>1, <1>4, <1>8, <3>2 DEF AsmInv
    <3>. QED
      BY <1>4, <1>6, <2>3, <3>1, <3>3
  <2>7. /\ Places \in [1 .. Len(lines) + 1 -> Nat]
        /\ \A i \in InstrLines : Places[i + 1] = Places[i] + INSTRSZ
        /\ DOMAIN lines = 1 .. Len(lines) /\ INSTRSZ \in Nat
    BY PlacesUnfold, WordSize
  <2>8. ASSUME NEW i \in InstrLines, i < cur + 1, NEW k \in 1 .. INSTRSZ
        PROVE  code'[Places[i] + k] = encInstr(Written(lines[i]))[k]
    <3>1. i \in 1 .. Len(lines) /\ IsInstr(lines[i])
      BY <2>7 DEF InstrLines
    <3>2. CASE i = cur
      <4>1. bs = encInstr(Written(line))
        BY <2>1, <3>1, <3>2 DEF Says
      <4>2. Len(bs) = INSTRSZ
        BY SMTT(30), <2>4, <2>5, <2>6, <2>7, <3>2
      <4>. QED
        BY <2>4, <2>5, <3>2, <4>1, <4>2
    <3>3. CASE i < cur
      <4>1. i + 1 \in 1 .. Len(lines) + 1 /\ cur \in i + 1 .. Len(lines) + 1
            /\ i \in 1 .. Len(lines) + 1
        BY <1>5, <3>1, <3>3
      <4>2. Places[i + 1] <= Places[cur]
        BY <4>1, PlacesGrow
      <4>3. Places[i] + INSTRSZ <= Len(code) /\ Places[i] \in Nat
        BY <2>4, <2>7, <4>1, <4>2
      <4>4. Places[i] + k \in 1 .. Len(code)
        BY <2>4, <2>7, <4>3, SMTT(40)
      <4>5. code[Places[i] + k] = encInstr(Written(lines[i]))[k]
        BY <2>1, <3>3 DEF CodeSays
      <4>. QED
        BY <2>5, <4>4, <4>5
    <3>. QED
      BY <1>5, <2>8, <3>1, <3>2, <3>3
  <2>9. CodeSays'
    <3>1. \A i \in InstrLines : i < cur' =>
             \A k \in 1 .. INSTRSZ : code'[Places[i] + k] = encInstr(Written(lines[i]))[k]
      BY <1>4, <2>8
    <3>. QED
      BY <1>6, <3>1 DEF CodeSays
  <2>. DEFINE data == Reading!LineBytes(line, Means)
              p == Places[cur]
  <2>10. DataSoFar[cur] = Overlay(DataSoFar[cur - 1], p, data)
    BY <1>5, DataUnfold
  <2>11. Len(data) \in Nat /\ Len(data) <= Len(bs)
         /\ \A a \in p .. Places[cur + 1] - 1 :
               (IF a \in CodeBytes THEN 0 ELSE code'[a + 1])
               = (IF a <= p + Len(data) - 1 THEN data[a - p + 1] ELSE 0)
    <3>1. CASE IsInstr(line)
      <4>1. data = <<>>
        <5>1. Mnemonic(line) \notin DB \cup DW \cup DS
          BY <3>1, Kinds DEF IsInstr
        <5>. QED
          BY <5>1, LineBytesIs
      <4>2. Len(data) = 0
        BY <4>1
      <4>3. \A a \in p .. Places[cur + 1] - 1 : a \in CodeBytes /\ ~(a <= p + 0 - 1)
        <5>1. cur \in InstrLines
          BY <1>5, <2>7, <3>1 DEF InstrLines
        <5>2. Places[cur + 1] = p + INSTRSZ /\ p \in Nat
          BY <2>4, <2>7, <5>1
        <5>3. \A a \in p .. p + INSTRSZ - 1 : a \in CodeBytes
          BY <5>1 DEF CodeBytes
        <5>. HIDE DEF p
        <5>. QED
          BY <2>7, <5>2, <5>3
      <4>. QED
        BY <2>4, <4>2, <4>3
    <3>2. CASE ~IsInstr(line)
      <4>1. Len(data) \in 0 .. Len(bs) /\ \A k \in 1 .. Len(bs) : bs[k] = IF k <= Len(data) THEN data[k] ELSE 0
        BY <2>1, <3>2 DEF Says
      <4>2. Len(data) \in Nat
        BY <2>4, <4>1
      <4>3. ASSUME NEW a \in p .. Places[cur + 1] - 1
            PROVE  a \notin CodeBytes
        <5>. SUFFICES ASSUME NEW i \in InstrLines, a \in Places[i] .. Places[i] + INSTRSZ - 1
                      PROVE FALSE
          BY DEF CodeBytes
        <5>1. i # cur
          BY <3>2 DEF InstrLines
        <5>. QED
          BY <1>5, <5>1, LinesApart
      <4>4. ASSUME NEW a \in p .. Places[cur + 1] - 1
            PROVE  code'[a + 1] = IF a <= p + Len(data) - 1 THEN data[a - p + 1] ELSE 0
        <5>. DEFINE k == a - p + 1
        <5>1. k \in 1 .. Len(bs) /\ Len(code) + k = a + 1 /\ (k <= Len(data) <=> a <= p + Len(data) - 1)
          <6>1. p = Len(code) /\ Places[cur + 1] = Len(code) + Len(bs)
            BY <2>4, <2>5, <2>6
          <6>2. a \in Len(code) .. Len(code) + Len(bs) - 1
            BY <6>1
          <6>. HIDE DEF data
          <6>3. a - Len(code) + 1 \in 1 .. Len(bs) /\ Len(code) + (a - Len(code) + 1) = a + 1
                /\ (a - Len(code) + 1 <= Len(data) <=> a <= Len(code) + Len(data) - 1)
            BY <2>4, <4>2, <6>2, SMTT(40)
          <6>. QED
            BY <6>1, <6>3
        <5>2. code'[Len(code) + k] = bs[k] /\ bs[k] = IF k <= Len(data) THEN data[k] ELSE 0
          BY <2>5, <4>1, <5>1
        <5>. QED
          BY <5>1, <5>2
      <4>. HIDE DEF data, p
      <4>. QED
        BY <4>1, <4>2, <4>3, <4>4
    <3>. QED
      BY <3>1, <3>2
  <2>. HIDE DEF data
  <2>12. ASSUME NEW a
         PROVE  ByteAt(DataSoFar[cur], a) =
                   IF a \in 0 .. Len(code') - 1 /\ a \notin CodeBytes THEN code'[a + 1] ELSE 0
    <3>1. ByteAt(DataSoFar[cur], a) =
             IF a \in p .. p + Len(data) - 1 THEN data[a - p + 1] ELSE ByteAt(DataSoFar[cur - 1], a)
      <4>1. p \in Int
        BY <2>4
      <4>. HIDE DEF p
      <4>. QED
        BY <2>10, <2>11, <4>1, ByteAtOverlay
    <3>2. ByteAt(DataSoFar[cur - 1], a) =
             IF a \in 0 .. Len(code) - 1 /\ a \notin CodeBytes THEN code[a + 1] ELSE 0
      BY <2>1 DEF DataSays
    <3>3. CASE a \in p .. Places[cur + 1] - 1
      <4>1. a \notin 0 .. Len(code) - 1 /\ a \in 0 .. Len(code') - 1 /\ a \in Int
            /\ (a \in p .. p + Len(data) - 1 <=> a <= p + Len(data) - 1)
        BY <2>4, <2>6, <2>11, <3>3
      <4>. QED
        BY <2>11, <3>1, <3>2, <3>3, <4>1
    <3>4. CASE a \in 0 .. Len(code) - 1
      <4>1. a \notin p .. p + Len(data) - 1 /\ a \in 0 .. Len(code') - 1 /\ a + 1 \in 1 .. Len(code)
        BY <2>4, <2>5, <2>11, <3>4
      <4>. QED
        BY <2>5, <3>1, <3>2, <3>4, <4>1
    <3>5. CASE a \notin p .. Places[cur + 1] - 1 /\ a \notin 0 .. Len(code) - 1
      <4>1. a \notin p .. p + Len(data) - 1 /\ a \notin 0 .. Len(code') - 1
        BY <2>4, <2>5, <2>6, <2>11, <3>5, SMTT(40)
      <4>. QED
        BY <3>1, <3>2, <3>5, <4>1
    <3>. QED
      BY <3>3, <3>4, <3>5
  <2>13. DataSays'
    BY <1>5, <1>6, <2>12 DEF DataSays
  <2>. QED
    BY <2>9, <2>13
<1>. QED
  BY <1>1, <1>4, <1>5, <1>6, <1>7, <1>8 DEF TextInv

LEMMA PlainText ==
    ASSUME NoEmptyTexts, AsmType
    PROVE  lines \in Seq(PlainLine)
<1>1. lines \in Seq(SourceLine) /\ src \in DOMAIN Sources
  BY TextLines DEF AsmType
<1>2. \A i \in DOMAIN lines : ~EmptyText(lines[i]) /\ (lines[i].quoted \/ lines[i].lit = <<>>)
  BY <1>1, TextsAssumption DEF NoEmptyTexts, lines
<1>3. \A i \in 1 .. Len(lines) : lines[i] \in PlainLine
  BY <1>1, <1>2 DEF PlainLine
<1>4. lines = [i \in 1 .. Len(lines) |-> lines[i]] /\ Len(lines) \in Nat
  BY <1>1
<1>. QED
  BY <1>3, <1>4

LEMMA TextSteps ==
    ASSUME NoEmptyTexts, AsmInv, AsmInv', TextInv, assemble \/ UNCHANGED asmVars
    PROVE  TextInv'
<1>1. AsmType /\ lines \in Seq(PlainLine)
  BY PlainText DEF AsmInv
<1>2. ASSUME src' = src, phase' = phase, cur' = cur, code' = code, errs' = errs
      PROVE  TextInv'
  BY <1>2, SameText DEF TextInv, CodeSays, DataSays
<1>3. CASE pass1
  BY <1>3 DEF pass1, TextInv
<1>4. CASE endPass1
  <2>1. /\ src' = src /\ phase = "pass1" /\ phase' = "pass2" /\ cur' = 1 /\ code' = <<>> /\ errs' = {}
    BY <1>1, <1>4 DEF endPass1, AsmType
  <2>2. cur' - 1 = 0 /\ Len(code') = 0
    BY <2>1
  <2>3. CodeSays'
    <3>1. DOMAIN lines = 1 .. Len(lines)
      BY <1>1
    <3>2. InstrLines' = InstrLines
      BY <2>1, SameText
    <3>3. \A i \in InstrLines : ~(i < cur')
      BY <2>1, <3>1 DEF InstrLines
    <3>. QED
      BY <3>2, <3>3 DEF CodeSays
  <2>4. DataSays'
    <3>1. DataSoFar' = DataSoFar /\ DataSoFar[0] = <<>>
      BY <1>1, <2>1, SameText, DataUnfold
    <3>2. \A a : ByteAt(<<>>, a) = 0
      BY DEF ByteAt
    <3>3. \A a : a \notin 0 .. Len(code') - 1
      BY <2>2
    <3>. QED
      BY <2>2, <3>1, <3>2, <3>3 DEF DataSays
  <2>5. 1 .. cur' - 1 = {}
    BY <2>2
  <2>. QED
    BY <2>1, <2>3, <2>4, <2>5 DEF TextInv
<1>5. CASE pass2
  BY <1>1, <1>5, TextStep
<1>6. CASE endPass2
  <2>1. /\ src' = src /\ phase = "pass2" /\ cur' = cur /\ code' = code /\ errs' = errs
    BY <1>6 DEF endPass2
  <2>. QED
    BY <2>1, SameText DEF TextInv, CodeSays, DataSays
<1>7. CASE UNCHANGED asmVars
  BY <1>2, <1>7 DEF asmVars
<1>. QED
  BY <1>3, <1>4, <1>5, <1>6, <1>7 DEF assemble

\* The second pass emits the text: line after line, the bytes of its
\* instructions at their places, those of its data at theirs, and nothing
\* else; and it finds in error the texts that are not well formed.
THEOREM AssemblesTheText ==
    ASSUME NoEmptyTexts
    PROVE  Spec => []TextInv
<1>1. Init => TextInv
  BY DEF Init, AsmInit, TextInv
<1>2. AsmInv /\ AsmInv' /\ TextInv /\ [Next]_vars => TextInv'
  <2>. SUFFICES ASSUME AsmInv, AsmInv', TextInv, [Next]_vars PROVE TextInv'
    OBVIOUS
  <2>1. assemble \/ UNCHANGED asmVars
    BY DEF Next, vars, Assemble, Start, Execute
  <2>. QED
    BY <2>1, TextSteps
<1>. QED
  BY <1>1, <1>2, AsmAlways, PTL DEF Spec

----------------------------------------------------------------------------
(* The stack and the types of the state *)

Live == {"empty", "running"}
StackInv ==
    /\ dialect \in Dialects
    /\ state \in Live => sp \in StackLoOf(dialect) .. StackBase + CellBytes
    /\ state = "empty" => sp = StackBase

LEMMA Sizes ==
    ASSUME NEW d \in Dialects
    PROVE  /\ CellBytes \in Nat /\ CellBytes > 0 /\ StackBase \in Nat /\ MemSz \in Nat
           /\ StackLoOf(d) \in Int /\ StackLoOf(d) <= StackBase
           /\ StackLoOf(d) >= MemSz + 3 * CellBytes
BY SizesAssumption, CellBytesAssumption, WordBytesAssumption

\* No instruction changes the dialect, and none but those of the stack sp.
LEMMA OtherInstructions ==
    ASSUME NEW i, Instructions(i) \/ handleSyscall(i)
    PROVE  /\ dialect' = dialect
           /\ \/ sp' = sp
              \/ i.op \in {"PUSH", "PUSHI", "PUSHA", "CALL"} /\ sp' = Pushed(i.op)
              \/ i.op \in {"POP", "POPA", "RET"} /\ sp' = sp + CellBytes * Depth(i.op)

<1>1. CASE Push(i)
  BY <1>1 DEF Push, Onward
<1>2. CASE Pop(i)
  BY <1>2 DEF Pop, Onward
<1>3. CASE Call(i)
  BY <1>3 DEF Call
<1>4. CASE Ret(i)
  <2>1. CellBytes * 1 = CellBytes
    BY CellBytesAssumption, WordBytesAssumption
  <2>. QED
    BY <1>4, <2>1 DEF Ret, Depth
<1>5. CASE Halt(i) \/ Move(i) \/ Compute2(i) \/ Compute1(i) \/ Load(i) \/ Store(i) \/ Jump(i)
  BY <1>5 DEF Halt, Move, Compute2, Compute1, Load, Store, Jump, Onward
<1>6. CASE handleSyscall(i)
  BY <1>6 DEF handleSyscall, SysExit, SysPrintInt, SysPrintHex, SysPrintStr, SysReadInt,
      SysReadStr, SysStrlen, SysStrcmp, SysRandom, SysInfo, SysOS, Result, Onward
<1>. QED
  BY <1>1, <1>2, <1>3, <1>4, <1>5, <1>6 DEF Instructions

\* Every cell an instruction moves is checked, and none lies in memory: a
\* push ends within the stack, a pop at most one cell past its base.
LEMMA StackMoves ==
    ASSUME StackInv, NEW i, ~Faults(i), state = "running",
           Instructions(i) \/ handleSyscall(i)
    PROVE  sp' \in StackLoOf(dialect) .. StackBase + CellBytes
<1>1. /\ CellBytes \in Nat /\ CellBytes > 0 /\ StackBase \in Nat /\ MemSz \in Nat
      /\ StackLoOf(dialect) \in Int /\ StackLoOf(dialect) <= StackBase
      /\ StackLoOf(dialect) >= MemSz + 3 * CellBytes
  BY Sizes DEF StackInv
<1>2. sp \in Int /\ sp >= StackLoOf(dialect) /\ sp <= StackBase + CellBytes
  BY <1>1 DEF StackInv, Live
<1>. DEFINE n == Depth(i.op)
<1>3. n \in {1, 3}
  BY DEF Depth
<1>4. \A a \in Checked(i) : InBounds(a)
  BY DEF Faults
<1>5. ASSUME i.op \in {"PUSH", "PUSHI", "PUSHA", "CALL"}, sp' = Pushed(i.op)
      PROVE  sp' \in StackLoOf(dialect) .. StackBase + CellBytes
  <2>1. Checked(i) = {Pushed(i.op) + CellBytes * k : k \in 0 .. n - 1}
    BY <1>5 DEF Checked, Cells, Pushes, Pops
  <2>2. 0 \in 0 .. n - 1 /\ CellBytes * 0 = 0 /\ Pushed(i.op) \in Int
    BY <1>1, <1>2, <1>3 DEF Pushed
  <2>3. Pushed(i.op) + CellBytes * 0 \in Checked(i)
    BY <2>1, <2>2
  <2>4. InBounds(Pushed(i.op))
    BY <1>4, <2>2, <2>3
  <2>5. Pushed(i.op) >= MemSz /\ Pushed(i.op) <= StackBase + CellBytes
    BY <1>1, <1>2, <1>3 DEF Pushed
  <2>. QED
    BY <1>1, <1>5, <2>2, <2>4, <2>5 DEF InBounds
<1>6. ASSUME i.op \in {"POP", "POPA", "RET"}, sp' = sp + CellBytes * n
      PROVE  sp' \in StackLoOf(dialect) .. StackBase + CellBytes
  <2>1. Checked(i) = {sp + CellBytes * k : k \in 0 .. n - 1}
    BY <1>6 DEF Checked, Cells, Pushes, Pops
  <2>2. n - 1 \in 0 .. n - 1 /\ sp + CellBytes * (n - 1) \in Int
    BY <1>1, <1>2, <1>3
  <2>3. sp + CellBytes * (n - 1) \in Checked(i)
    BY <2>1, <2>2
  <2>4. InBounds(sp + CellBytes * (n - 1))
    BY <1>4, <2>3
  <2>5. sp + CellBytes * (n - 1) >= sp /\ CellBytes * n = CellBytes * (n - 1) + CellBytes
    BY <1>1, <1>2, <1>3
  <2>6. sp + CellBytes * (n - 1) <= StackBase
    BY <1>1, <1>2, <2>2, <2>4, <2>5 DEF InBounds
  <2>. QED
    BY <1>1, <1>2, <1>6, <2>2, <2>5, <2>6
<1>7. CASE sp' = sp
  BY <1>1, <1>2, <1>7
<1>. QED
  BY <1>5, <1>6, <1>7, OtherInstructions

LEMMA StackStep == StackInv /\ [Next]_vars => StackInv'
<1>. SUFFICES ASSUME StackInv, [Next]_vars PROVE StackInv'
  OBVIOUS
<1>1. CASE UNCHANGED vmVars
  BY <1>1 DEF vmVars, StackInv, Live
<1>2. CASE execInstr
  <2>1. PICK i : ~Faults(i) /\ (Instructions(i) \/ handleSyscall(i))
    BY <1>2 DEF execInstr
  <2>2. state = "running"
    BY <1>2 DEF execInstr
  <2>3. dialect' = dialect /\ sp' \in StackLoOf(dialect) .. StackBase + CellBytes
    BY <2>1, <2>2, StackMoves, OtherInstructions
  <2>4. state' # "empty"
    BY <2>1, <2>2 DEF Instructions, handleSyscall, Push, Pop, Call, Ret, Halt, Move, Compute2,
      Compute1, Load, Store, Jump, SysExit, SysPrintInt, SysPrintHex, SysPrintStr, SysReadInt,
      SysReadStr, SysStrlen, SysStrcmp, SysRandom, SysInfo, SysOS, Result, Onward
  <2>. QED
    BY <2>3, <2>4 DEF StackInv
<1>3. CASE Crash \/ Limit
  BY <1>3 DEF Crash, Limit, StackInv, Live
<1>4. CASE Start
  BY <1>4 DEF Start, loadProg, StackInv, Live
<1>. QED
  BY <1>1, <1>2, <1>3, <1>4 DEF Next, Assemble, Execute, run, vars

LEMMA StackAlways == Spec => []StackInv
<1>1. Init => StackInv
  <2>. SUFFICES ASSUME Init PROVE StackInv
    OBVIOUS
  <2>1. dialect \in Dialects /\ sp = StackBase /\ state = "empty"
    BY ProgramsAssumption DEF Init, VMInit
  <2>. QED
    BY <2>1, Sizes DEF StackInv
<1>. QED
  BY <1>1, StackStep, PTL DEF Spec

\* The stack pointer of a running machine stays within the stack or one cell
\* past its base, whatever the program and its input.
THEOREM StackCorrect == Spec => []StackStaysInRegion
<1>1. StackInv => StackStaysInRegion
  BY DEF StackInv, StackStaysInRegion, Live
<1>. QED
  BY <1>1, StackAlways, PTL

----------------------------------------------------------------------------
(* Types *)

\* What READ_STR writes is bytes, whatever characters are typed.
LEMMA LowBytesType ==
    ASSUME NEW text \in Seq(Nat), NEW n \in Int, n <= Len(text)
    PROVE  LowBytes(text, n) \in Seq(Byte)
<1>1. ASSUME NEW k \in 1 .. n PROVE text[k] % 256 \in Byte
  <2>1. PICK c \in Nat : c = text[k]
    OBVIOUS
  <2>2. c % 256 \in 0 .. 255
    OBVIOUS
  <2>. QED
    BY <2>1, <2>2 DEF Byte
<1>2. CASE n >= 0
  BY <1>1, <1>2 DEF LowBytes
<1>3. CASE n < 0
  <2>1. 1 .. n = 1 .. 0
    BY <1>3
  <2>2. LowBytes(text, n) = [k \in 1 .. 0 |-> text[k] % 256]
    BY <2>1 DEF LowBytes
  <2>. QED
    BY <2>2
<1>. QED
  BY <1>2, <1>3

InputLine == [text : Seq(Nat), int : Int]
MachineType ==
    /\ dialect \in Dialects
    /\ state \in {"empty", "running", "halted", "exited", "crashed", "limit"}
    /\ regs \in [RA .. RC -> Word]
    /\ Memory(mem)
    /\ pc \in 0 .. Top - 1 /\ sp \in Nat /\ instrCnt \in 0 .. MaxInstrs
    /\ input \in Seq(InputLine)

LEMMA RegType ==
    ASSUME MachineType, NEW i \in Decoded, NEW k \in 1 .. 3
    PROVE  Reg(i, k) \in Word /\ Reg(i, k) \in Int
<1>1. i.r[k] \in -1 .. 2
  BY DEF Decoded
<1>2. Reg(i, k) \in Word
  BY <1>1 DEF Reg, MachineType, RA, RC
<1>. QED
  BY <1>2, WordsAreInts

LEMMA AssignType ==
    ASSUME MachineType, NEW i, NEW v \in Word, Assign(i, v)
    PROVE  regs' \in [RA .. RC -> Word]
BY DEF MachineType, Assign

LEMMA ResultType ==
    ASSUME MachineType, NEW i, NEW v \in Int, Result(i, v)
    PROVE  regs' \in [RA .. RC -> Word] /\ pc' = pc + INSTRSZ
BY To24Word, AssignType DEF Result, Onward

LEMMA FetchedType ==
    ASSUME MachineType
    PROVE  fetchInstr \in Decoded
<1>1. INSTRSZ \in Nat
  BY WordSize
<1>2. BytesAt(mem, pc, INSTRSZ) \in Seq(Byte) /\ Len(BytesAt(mem, pc, INSTRSZ)) = INSTRSZ
  BY <1>1, BytesAtType DEF MachineType
<1>. QED
  BY <1>2, DecodedType DEF fetchInstr

LEMMA CellType ==
    ASSUME MachineType, NEW k
    PROVE  Cell(k) \in 0 .. Top - 1
<1>. DEFINE a == sp + CellBytes * (k - 1)
            bs == BytesAt(mem, a, CellBytes)
<1>1. CellBytes \in Nat
  BY CellBytesAssumption
<1>2. bs \in Seq(Byte) /\ Len(bs) = CellBytes
  BY <1>1, BytesAtType DEF MachineType
<1>. HIDE DEF bs
<1>3. LE(bs) \in 0 .. Top - 1
  BY <1>2, LEBound DEF Top
<1>. QED
  BY <1>3 DEF Cell, bs

\* The instruction after the one that runs lies in memory.
LEMMA NextInstruction ==
    ASSUME MachineType, NEW i, ~Faults(i)
    PROVE  pc + INSTRSZ \in 0 .. Top - 1
<1>1. pc \in Nat /\ INSTRSZ \in Nat /\ Top \in Nat \ {0}
  BY WordSize DEF MachineType
<1>2. MemSz \in Nat /\ MemSz <= StackBase
  BY Sizes DEF MachineType
<1>3. ~(pc + INSTRSZ > MemSz)
  BY DEF Faults
<1>. QED
  BY <1>1, <1>2, <1>3 DEF StackBase

LEMMA LineType ==
    ASSUME MachineType
    PROVE  /\ Line \in InputLine
           /\ ReadLine => input' \in Seq(InputLine)
<1>1. input \in Seq(InputLine)
  BY DEF MachineType
<1>2. CASE input = <<>>
  <2>1. <<>> \in Seq(Byte) /\ 0 \in Int
    OBVIOUS
  <2>2. EndOfInput \in InputLine
    BY <2>1 DEF EndOfInput, InputLine
  <2>. QED
    BY <1>1, <1>2, <2>2 DEF Line, ReadLine
<1>3. CASE input # <<>>
  <2>1. Head(input) \in InputLine /\ Tail(input) \in Seq(InputLine)
    BY <1>1, <1>3
  <2>. QED
    BY <1>3, <2>1 DEF Line, ReadLine
<1>. QED
  BY <1>2, <1>3

\* What the instructions of the stack, of memory and of control leave.
LEMMA InstructionTypes ==
    ASSUME MachineType, StackInv, state = "running", NEW i \in Decoded, ~Faults(i),
           Instructions(i)
    PROVE  /\ regs' \in [RA .. RC -> Word] /\ Memory(mem') /\ pc' \in 0 .. Top - 1
           /\ input' = input
<1>1. pc + INSTRSZ \in 0 .. Top - 1
  BY NextInstruction
<1>2. regs \in [RA .. RC -> Word] /\ Memory(mem) /\ pc \in 0 .. Top - 1
  BY DEF MachineType
<1>3. i.imm \in Word /\ i.imm \in Int /\ i.op \in OPCODES \cup {"?"}
  BY WordsAreInts DEF Decoded
<1>4. \A k \in 1 .. 3 : Reg(i, k) \in Word /\ Reg(i, k) \in Int
  BY RegType
<1>5. \A v \in Int : Addr(v) \in 0 .. Top - 1
  BY AddrRange
<1>6. WordBytes \in Nat /\ CellBytes \in Nat
  BY WordBytesAssumption, CellBytesAssumption
<1>7. CASE Halt(i)
  BY <1>1, <1>2, <1>7 DEF Halt
<1>8. CASE Move(i)
  <2>1. to24(i.imm) \in Word /\ Reg(i, 2) \in Word
    BY <1>3, <1>4, To24Word
  <2>. QED
    BY <1>1, <1>2, <1>8, <2>1, AssignType DEF Move, Onward
<1>9. CASE Compute2(i)
  <2>1. i.op \in ThreeRegs /\ ~DividesByZero(i.op, Reg(i, 3))
    BY <1>9 DEF Compute2, Faults
  <2>2. Binary(i.op, Reg(i, 2), Reg(i, 3)) \in Word
    BY <1>4, <2>1, BinaryWord
  <2>. QED
    BY <1>1, <1>2, <1>9, <2>2, AssignType DEF Compute2, Onward
<1>10. CASE Compute1(i)
  <2>1. Unary(dialect, i.op, Reg(i, 1), i.imm) \in Word
    BY <1>3, <1>4, <1>10, UnaryWord DEF Compute1
  <2>. QED
    BY <1>1, <1>2, <1>10, <2>1, AssignType DEF Compute1, Onward
<1>11. CASE Load(i)
  <2>1. PICK a \in Checked(i) : Assign(i, to24(LE(BytesAt(mem, a, WordBytes))))
    BY <1>11 DEF Load
  <2>2. BytesAt(mem, a, WordBytes) \in Seq(Byte)
    BY <1>2, <1>6, BytesAtType
  <2>3. to24(LE(BytesAt(mem, a, WordBytes))) \in Word
    BY <2>2, BytesAreInts, LEInt, To24Word
  <2>. QED
    BY <1>1, <1>2, <1>11, <2>1, <2>3, AssignType DEF Load, Onward
<1>12. CASE Store(i)
  <2>. DEFINE v == IF i.op = "STORE" THEN Reg(i, 2) ELSE Reg(i, 1)
  <2>1. PICK a \in Checked(i) : mem' = Overlay(mem, a, Bytes(v, WordBytes))
    BY <1>12 DEF Store
  <2>2. Checked(i) \subseteq {Addr(Reg(i, 1)), Addr(i.imm)}
    BY <1>12 DEF Store, Checked, Pushes, Pops
  <2>3. a \in Nat
    BY <1>3, <1>4, <1>5, <2>2, WordSize
  <2>4. v \in Int
    BY <1>4
  <2>. HIDE DEF v
  <2>5. Bytes(v, WordBytes) \in Seq(Byte)
    BY <1>6, <2>4, BytesType
  <2>6. Memory(mem')
    BY <1>2, <2>1, <2>3, <2>5, OverlayType
  <2>. QED
    BY <1>1, <1>2, <1>12, <2>6 DEF Store, Onward
<1>13. CASE Jump(i)
  BY <1>1, <1>2, <1>3, <1>5, <1>13 DEF Jump
<1>14. CASE Push(i)
  <2>. DEFINE n == Depth(i.op)
              values == IF i.op = "PUSHI" THEN <<i.imm>> ELSE [k \in 1 .. n |-> Reg(i, k)]
              parts == [k \in 1 .. n |-> Bytes(values[k], CellBytes)]
  <2>1. mem' = Overlay(mem, Pushed(i.op), FlattenSeq(parts)) /\ sp' = Pushed(i.op)
        /\ i.op \in {"PUSH", "PUSHI", "PUSHA"} /\ Onward /\ regs' = regs /\ input' = input
    BY <1>14 DEF Push
  <2>2. n \in 1 .. 3 /\ (i.op = "PUSHI" => n = 1)
    BY DEF Depth
  <2>3. \A k \in 1 .. n : values[k] \in Int
    BY <1>3, <1>4, <2>2
  <2>. HIDE DEF values, n
  <2>4. \A k \in 1 .. n : Bytes(values[k], CellBytes) \in Seq(Byte)
    BY <1>6, <2>3, BytesType, ZenonT(60)
  <2>5. parts \in Seq(Seq(Byte))
    BY <2>2, <2>4
  <2>. HIDE DEF parts
  <2>6. FlattenSeq(parts) \in Seq(Byte)
    BY <2>5, FlattenType
  <2>7. Pushed(i.op) \in Nat
    <3>1. sp' \in StackLoOf(dialect) .. StackBase + CellBytes
      BY StackMoves
    <3>2. StackLoOf(dialect) \in Nat
      BY Sizes DEF StackInv
    <3>. QED
      BY <2>1, <3>1, <3>2
  <2>8. Memory(mem')
    BY <1>2, <2>1, <2>6, <2>7, OverlayType
  <2>. QED
    BY <1>1, <1>2, <2>1, <2>8 DEF Onward
<1>15. CASE Pop(i)
  <2>. DEFINE n == Depth(i.op)
              ks(r) == {k \in 1 .. n : i.r[k] = r}
              popped(r) == to24(Cell(CHOOSE k \in ks(r) : \A j \in ks(r) : j <= k))
              f == [r \in RA .. RC |-> IF ks(r) = {} THEN regs[r] ELSE popped(r)]
  <2>1. regs' = f /\ Onward /\ mem' = mem /\ input' = input
    BY <1>15 DEF Pop
  <2>2. \A r : popped(r) \in Word
    <3>1. \A k : Cell(k) \in Int
      BY CellType
    <3>. QED
      BY <3>1, To24Word
  <2>. HIDE DEF popped, ks
  <2>3. f \in [RA .. RC -> Word]
    BY <1>2, <2>2
  <2>. QED
    BY <1>1, <1>2, <2>1, <2>3 DEF Onward
<1>16. CASE Call(i)
  <2>1. mem' = Overlay(mem, Pushed("CALL"), Bytes(pc + INSTRSZ, CellBytes))
        /\ sp' = Pushed("CALL") /\ pc' = Addr(Reg(i, 1)) /\ regs' = regs /\ input' = input
    BY <1>16 DEF Call
  <2>2. Pushed("CALL") \in Nat
    <3>1. sp' \in StackLoOf(dialect) .. StackBase + CellBytes
      BY StackMoves
    <3>2. StackLoOf(dialect) \in Nat
      BY Sizes DEF StackInv
    <3>. QED
      BY <2>1, <3>1, <3>2
  <2>3. Bytes(pc + INSTRSZ, CellBytes) \in Seq(Byte)
    BY <1>1, <1>6, BytesType
  <2>4. Memory(mem')
    BY <1>2, <2>1, <2>2, <2>3, OverlayType
  <2>. QED
    BY <1>2, <1>4, <1>5, <2>1, <2>4
<1>17. CASE Ret(i)
  BY <1>2, <1>17, CellType DEF Ret
<1>. QED
  BY <1>7, <1>8, <1>9, <1>10, <1>11, <1>12, <1>13, <1>14, <1>15, <1>16, <1>17 DEF Instructions

\* What a system call leaves.
LEMMA SyscallTypes ==
    ASSUME MachineType, state = "running", NEW i \in Decoded, ~Faults(i), handleSyscall(i)
    PROVE  /\ regs' \in [RA .. RC -> Word] /\ Memory(mem') /\ pc' \in 0 .. Top - 1
           /\ input' \in Seq(InputLine)
<1>1. pc + INSTRSZ \in 0 .. Top - 1
  BY NextInstruction
<1>2. /\ regs \in [RA .. RC -> Word] /\ Memory(mem) /\ pc \in 0 .. Top - 1
      /\ input \in Seq(InputLine)
  BY DEF MachineType
<1>3. \A k \in 1 .. 3 : Reg(i, k) \in Int /\ Addr(Reg(i, k)) \in Nat
  <2>. TAKE k \in 1 .. 3
  <2>1. Reg(i, k) \in Int
    BY RegType
  <2>. QED
    BY <2>1, AddrRange, WordSize
<1>4. \A v \in Int : Result(i, v) => regs' \in [RA .. RC -> Word] /\ pc' = pc + INSTRSZ
  BY ResultType
<1>5. CASE SysExit(i)
  BY <1>2, <1>5 DEF SysExit
<1>6. CASE SysPrintInt(i)
  <2>1. Digits(Abs(Reg(i, 2)), 10) + (IF Reg(i, 2) < 0 THEN 1 ELSE 0) \in Int
    BY DigitsType
  <2>. QED
    BY <1>1, <1>2, <1>4, <1>6, <2>1 DEF SysPrintInt
<1>7. CASE SysPrintHex(i)
  <2>1. 2 + Digits(Reg(i, 2) % Modulus, 16) \in Int
    BY DigitsType
  <2>. QED
    BY <1>1, <1>2, <1>4, <1>7, <2>1 DEF SysPrintHex
<1>8. CASE SysPrintStr(i)
  <2>. DEFINE a == Addr(Reg(i, 2))
              text == IF Reg(i, 3) = 0 THEN Text(mem, a) ELSE BytesAt(mem, a, Reg(i, 3))
  <2>1. text \in Seq(Byte)
    BY <1>2, <1>3, TextType, BytesAtType
  <2>2. Len(text) \in Int
    BY <2>1
  <2>3. Result(i, Len(text)) /\ mem' = mem /\ input' = input
    BY <1>8 DEF SysPrintStr
  <2>. HIDE DEF text
  <2>. QED
    BY <1>1, <1>2, <1>4, <2>2, <2>3
<1>9. CASE SysReadInt(i)
  <2>1. Line.int \in Int /\ input' \in Seq(InputLine)
    BY <1>9, LineType DEF SysReadInt, InputLine
  <2>. QED
    BY <1>1, <1>2, <1>4, <1>9, <2>1 DEF SysReadInt
<1>10. CASE SysReadStr(i)
  <2>. DEFINE n == ReadLength(dialect, Line.text, Reg(i, 3))
              a == Addr(Reg(i, 2))
  <2>1. /\ mem' = Overlay(mem, a, LowBytes(Line.text, n)) /\ Result(i, n)
        /\ input' \in Seq(InputLine)
    BY <1>10, LineType DEF SysReadStr
  <2>2. Line.text \in Seq(Nat) /\ Len(Line.text) \in Nat
    BY LineType DEF InputLine
  <2>3. n \in Int /\ n <= Len(Line.text)
    BY <1>3, <2>2 DEF ReadLength
  <2>. HIDE DEF n
  <2>4. LowBytes(Line.text, n) \in Seq(Byte)
    BY <2>2, <2>3, LowBytesType
  <2>5. Memory(mem')
    <3>1. a \in Nat
      BY <1>3
    <3>. HIDE DEF a
    <3>. QED
      BY <1>2, <2>1, <2>4, <3>1, OverlayType
  <2>. QED
    BY <1>1, <1>4, <2>1, <2>3, <2>5
<1>11. CASE SysStrlen(i)
  <2>1. Len(Text(mem, Addr(Reg(i, 2)))) \in Int
    BY <1>2, <1>3, TextType
  <2>. QED
    BY <1>1, <1>2, <1>4, <1>11, <2>1 DEF SysStrlen
<1>12. CASE SysStrcmp(i)
  BY <1>1, <1>2, <1>4, <1>12, CompareType DEF SysStrcmp
<1>13. CASE SysRandom(i)
  <2>1. PICK v \in RandomValues : Result(i, v)
    BY <1>13 DEF SysRandom
  <2>2. v \in Int
    BY ResultsAssumption, WordsAreInts
  <2>. QED
    BY <1>1, <1>2, <1>4, <1>13, <2>1, <2>2 DEF SysRandom
<1>14. CASE SysInfo(i)
  BY <1>2, <1>14 DEF SysInfo
<1>15. CASE SysOS(i)
  <2>1. PICK code1 \in ShellCodes \cup {-1} : Result(i, code1 % Modulus)
    BY <1>15 DEF SysOS
  <2>2. code1 \in Int
    BY ResultsAssumption
  <2>3. code1 % Modulus \in Int
    BY <2>2, WordSize, DivMod
  <2>. QED
    BY <1>1, <1>2, <1>4, <1>15, <2>1, <2>3 DEF SysOS
<1>. QED
  BY <1>5, <1>6, <1>7, <1>8, <1>9, <1>10, <1>11, <1>12, <1>13, <1>14, <1>15 DEF handleSyscall

LEMMA StatesReached ==
    ASSUME state = "running", NEW i, Instructions(i) \/ handleSyscall(i)
    PROVE  state' \in {"running", "halted", "exited", "crashed"}
BY DEF Instructions, handleSyscall, Push, Pop, Call, Ret, Halt, Move, Compute2,
  Compute1, Load, Store, Jump, SysExit, SysPrintInt, SysPrintHex, SysPrintStr, SysReadInt,
  SysReadStr, SysStrlen, SysStrcmp, SysRandom, SysInfo, SysOS, Result, Onward

LEMMA MachineStep == MachineType /\ StackInv /\ AsmInv /\ [Next]_vars => MachineType'
<1>. SUFFICES ASSUME MachineType, StackInv, AsmInv, [Next]_vars PROVE MachineType'
  OBVIOUS
<1>1. CASE UNCHANGED vmVars
  BY <1>1 DEF vmVars, MachineType
<1>2. CASE execInstr
  <2>. DEFINE i == fetchInstr
  <2>1. /\ ~Faults(i) /\ (Instructions(i) \/ handleSyscall(i))
        /\ state = "running" /\ instrCnt < MaxInstrs
        /\ instrCnt' \in {instrCnt, instrCnt + 1}
    BY <1>2 DEF execInstr, CountAfter
  <2>2. i \in Decoded
    BY FetchedType
  <2>. HIDE DEF i
  <2>3. /\ regs' \in [RA .. RC -> Word] /\ Memory(mem') /\ pc' \in 0 .. Top - 1
        /\ input' \in Seq(InputLine)
    <3>1. input \in Seq(InputLine)
      BY DEF MachineType
    <3>. QED
      BY <2>1, <2>2, <3>1, InstructionTypes, SyscallTypes
  <2>4. dialect' = dialect /\ sp' \in Nat
    <3>1. dialect' = dialect /\ sp' \in StackLoOf(dialect) .. StackBase + CellBytes
      BY <2>1, StackMoves, OtherInstructions
    <3>. QED
      BY <3>1, Sizes DEF StackInv
  <2>5. state' \in {"running", "halted", "exited", "crashed"}
    BY <2>1, StatesReached
  <2>6. instrCnt' \in 0 .. MaxInstrs
    BY <2>1, SizesAssumption DEF MachineType
  <2>. QED
    BY <2>3, <2>4, <2>5, <2>6 DEF MachineType
<1>3. CASE Crash \/ Limit
  BY <1>3 DEF Crash, Limit, MachineType
<1>4. CASE Start
  <2>1. /\ dialect' = dialect /\ regs' = regs /\ pc' = pc /\ sp' = sp
        /\ instrCnt' = instrCnt /\ input' = input /\ state' \in {"running", "crashed"}
        /\ mem' = mem \/ mem' = [a \in 0 .. Len(code) - 1 |-> code[a + 1]]
    BY <1>4 DEF Start, loadProg
  <2>2. ASSUME mem' = [a \in 0 .. Len(code) - 1 |-> code[a + 1]] PROVE Memory(mem')
    <3>1. code \in Seq(Byte) /\ Len(code) \in Nat
      BY DEF AsmInv, AsmType
    <3>2. IsFiniteSet(0 .. Len(code) - 1)
      BY <3>1, FS_Interval
    <3>3. \A a \in 0 .. Len(code) - 1 : a \in Nat /\ code[a + 1] \in Byte
      <4>. TAKE a \in 0 .. Len(code) - 1
      <4>1. a + 1 \in 1 .. Len(code)
        BY <3>1
      <4>. QED
        BY <3>1, <4>1
    <3>. QED
      BY <2>2, <3>2, <3>3 DEF Memory
  <2>. QED
    BY <2>1, <2>2 DEF MachineType
<1>. QED
  BY <1>1, <1>2, <1>3, <1>4 DEF Next, Assemble, Execute, run, vars

LEMMA MachineStart ==
    ASSUME Init
    PROVE  MachineType
<1>1. PICK p \in Programs : VMInit(p.dialects, p.inputs)
  BY DEF Init
<1>2. dialect \in Dialects /\ input \in Seq(InputLine)
  BY <1>1, ProgramsAssumption DEF VMInit, InputLine
<1>3. regs \in [RA .. RC -> Word]
  <2>1. 0 \in Word
    BY WordSize DEF Word, MINVAL
  <2>. QED
    BY <1>1, <2>1 DEF VMInit
<1>4. Memory(mem)
  <2>1. mem = <<>> /\ DOMAIN mem = {}
    BY <1>1 DEF VMInit
  <2>. QED
    BY <2>1, FS_EmptySet DEF Memory
<1>5. pc \in 0 .. Top - 1 /\ sp \in Nat /\ instrCnt \in 0 .. MaxInstrs /\ state = "empty"
  BY <1>1, WordSize, SizesAssumption DEF VMInit, StackBase
<1>. QED
  BY <1>2, <1>3, <1>4, <1>5 DEF MachineType

LEMMA MachineAlways == Spec => []MachineType
<1>1. Init => MachineType
  BY MachineStart
<1>. QED
  BY <1>1, MachineStep, StackAlways, AsmAlways, PTL DEF Spec

\* The types of the assembler's and the machine's state, for any program:
\* registers hold words, memory finitely many bytes, and the program counter
\* is an address.
THEOREM TypeCorrect == Spec => []TypeOK
<1>1. MachineType /\ AsmInv => TypeOK
  BY TextLines DEF MachineType, AsmInv, AsmType, TypeOK, Memory, Byte
<1>. QED
  BY <1>1, MachineAlways, AsmAlways, PTL
=============================================================================
