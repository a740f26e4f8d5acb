------------------------ MODULE RuneRefinementProofs ------------------------
(***************************************************************************)
(* What a program does on the machine is what its text says (RuneSource),  *)
(* for every text without an empty string literal and until it does what   *)
(* the language leaves undefined.  What the assembler emits is the text's  *)
(* (RuneAsmProofs); here the machine runs it, an instruction at a time.    *)
(***************************************************************************)
EXTENDS RuneProofs

----------------------------------------------------------------------------
(* The layout of the program's text *)

LEMMA LayoutIs ==
    ASSUME src \in DOMAIN Sources, lines \in Seq(PlainLine)
    PROVE  /\ Layout[src].place = Places /\ Layout[src].means = Means
           /\ Layout[src].code = CodeBytes
           /\ Layout[src].accepted <=> /\ \A i \in 1 .. Len(lines) : Reading!WellFormed(lines[i], Means)
                                       /\ Places[Len(lines) + 1] <= CodeSz
           /\ Layout[src].accepted =>
                 Layout[src].data = Reading!NonZero(DataSoFar[Len(lines)])
           /\ DOMAIN Layout[src].lineAt = {Places[i] : i \in InstrLines}
           /\ \A i \in InstrLines : Layout[src].lineAt[Places[i]] = i
<1>1. \A f : Reading!Tabled(f) = f
  BY DEF Reading!Tabled
<1>2. Layout[src] = Reading!LayoutOf(lines)
  BY <1>1 DEF Layout, lines
<1>. DEFINE at == [a \in {Places[i] : i \in InstrLines} |-> CHOOSE i \in InstrLines : Places[i] = a]
            accepted == /\ \A i \in DOMAIN lines : Reading!WellFormed(lines[i], Means)
                        /\ Places[Len(lines) + 1] <= CodeSz
            data == Reading!NonZero(DataSoFar[Len(lines)])
<1>3. Reading!Instrs(lines) = InstrLines
  BY SameNames DEF Reading!Instrs, InstrLines
<1>4. Reading!INSTRSZ = INSTRSZ
  BY DEF Reading!INSTRSZ, INSTRSZ
<1>5. /\ Reading!LayoutOf(lines).place = Places
      /\ Reading!LayoutOf(lines).lineAt = at
      /\ Reading!LayoutOf(lines).means = Means
      /\ Reading!LayoutOf(lines).accepted = accepted
      /\ Reading!LayoutOf(lines).code = CodeBytes
      /\ Reading!LayoutOf(lines).data = IF accepted THEN data ELSE <<>>
  <2>. DEFINE place == Reading!Tabled(Reading!Places(lines))
              means == Reading!Tabled(Reading!Meanings(lines, place))
              instrs == Reading!Instrs(lines)
              lineAt == [b \in {place[i] : i \in instrs} |-> CHOOSE i \in instrs : place[i] = b]
              ok == /\ \A i \in DOMAIN lines : Reading!WellFormed(lines[i], means)
                    /\ place[Len(lines) + 1] <= CodeSz
              bytes == Reading!NonZero(Reading!DataOf(lines, place, means)[Len(lines)])
              coded == UNION {place[i] .. place[i] + Reading!INSTRSZ - 1 : i \in instrs}
  <2>1. Reading!LayoutOf(lines) =
          [place |-> place, lineAt |-> Reading!Tabled(lineAt), means |-> means, accepted |-> ok,
           code |-> coded, data |-> IF ok THEN Reading!Tabled(bytes) ELSE <<>>]
    BY Zenon DEF Reading!LayoutOf
  <2>2. place = Places /\ instrs = InstrLines
    BY <1>1, <1>3 DEF Places
  <2>3. means = Means
    BY <1>1, <2>2 DEF Means
  <2>4. Reading!Tabled(lineAt) = lineAt /\ Reading!Tabled(bytes) = bytes
    BY <1>1, Zenon
  <2>. HIDE DEF place, means, instrs
  <2>5. lineAt = at /\ ok = accepted
    BY <2>2, <2>3
  <2>6. bytes = data
    BY <2>2, <2>3 DEF DataSoFar
  <2>7. coded = CodeBytes
    BY <2>2, <1>4 DEF CodeBytes
  <2>. HIDE DEF accepted, data, at, ok, bytes, lineAt, coded
  <2>. QED
    BY <2>1, <2>2, <2>3, <2>4, <2>5, <2>6, <2>7
<1>6. /\ Len(lines) \in Nat /\ DOMAIN lines = 1 .. Len(lines)
      /\ Places \in [1 .. Len(lines) + 1 -> Nat]
      /\ \A i \in InstrLines : Places[i + 1] = Places[i] + INSTRSZ
  BY PlacesUnfold
<1>7. ASSUME NEW i \in InstrLines PROVE at[Places[i]] = i
  <2>1. ASSUME NEW j \in InstrLines, Places[j] = Places[i] PROVE j = i
    <3>1. i \in 1 .. Len(lines) /\ j \in 1 .. Len(lines) /\ INSTRSZ \in Nat /\ INSTRSZ > 0
      BY <1>6, WordBytesAssumption DEF InstrLines, INSTRSZ
    <3>2. Places[i] \in Nat /\ Places[i] \in Places[i] .. Places[i] + INSTRSZ - 1
      BY <1>6, <3>1, SMTT(40)
    <3>3. Places[i] \in Places[j] .. Places[j + 1] - 1
      <4>1. Places[j + 1] = Places[j] + INSTRSZ
        BY <1>6
      <4>2. Places[j] = Places[i]
        BY <2>1
      <4>. QED
        BY <3>1, <3>2, <4>1, <4>2
    <3>. QED
      BY <3>1, <3>2, <3>3, LinesApart
  <2>. QED
    BY <2>1
<1>. HIDE DEF at, accepted, data
<1>8. /\ Layout[src].place = Places /\ Layout[src].means = Means /\ Layout[src].code = CodeBytes
      /\ Layout[src].lineAt = at /\ Layout[src].accepted = accepted
      /\ Layout[src].data = IF accepted THEN data ELSE <<>>
  BY <1>2, <1>5
<1>. QED
  BY <1>6, <1>7, <1>8 DEF at, accepted, data

----------------------------------------------------------------------------
(* The bytes that are data, and what instructions do to them *)

DataIn(m) == Reading!NonZero([a \in {x \in DOMAIN m : x < StackLoOf(dialect)} \ CodeBytes |-> m[a]])
IsData(a) == a < StackLoOf(dialect) /\ a \notin CodeBytes

LEMMA SameBytes ==
    ASSUME NEW f, NEW g, \A a : ByteAt(f, a) = ByteAt(g, a)
    PROVE  Reading!NonZero(f) = Reading!NonZero(g)
<1>. DEFINE S(h) == {x \in DOMAIN h : h[x] # 0}
<1>1. ASSUME NEW h PROVE S(h) = {x \in S(h) : ByteAt(h, x) # 0} /\ \A x : ByteAt(h, x) # 0 => x \in S(h)
  BY DEF ByteAt
<1>2. \A x : x \in S(f) <=> x \in S(g)
  BY <1>1
<1>3. \A x \in S(f) : f[x] = g[x]
  BY <1>1 DEF ByteAt
<1>4. S(f) = S(g)
  BY <1>2
<1>. QED
  BY <1>3, <1>4, Zenon DEF Reading!NonZero

LEMMA NonZeroByte ==
    ASSUME NEW f, NEW a
    PROVE  ByteAt(Reading!NonZero(f), a) = ByteAt(f, a)
BY DEF ByteAt, Reading!NonZero

LEMMA DataByte ==
    ASSUME NEW m, NEW a
    PROVE  ByteAt(DataIn(m), a) = IF IsData(a) THEN ByteAt(m, a) ELSE 0
<1>. DEFINE S == {x \in DOMAIN m : x < StackLoOf(dialect)} \ CodeBytes
<1>1. ByteAt(DataIn(m), a) = ByteAt([x \in S |-> m[x]], a)
  BY NonZeroByte DEF DataIn
<1>. QED
  BY <1>1 DEF ByteAt, IsData

LEMMA DataMemory ==
    ASSUME NEW m, Memory(m)
    PROVE  Memory(DataIn(m))
<1>1. DOMAIN DataIn(m) \subseteq DOMAIN m /\ \A a \in DOMAIN DataIn(m) : DataIn(m)[a] = m[a]
  BY DEF DataIn, Reading!NonZero
<1>2. IsFiniteSet(DOMAIN DataIn(m))
  BY <1>1, FS_Subset DEF Memory
<1>. QED
  BY <1>1, <1>2 DEF Memory

LEMMA DataWritten ==
    ASSUME NEW m, NEW a \in Int, NEW bs, Len(bs) \in Nat,
           \A x \in a .. a + Len(bs) - 1 : IsData(x)
    PROVE  DataIn(Overlay(m, a, bs)) = Reading!NonZero(Overlay(DataIn(m), a, bs))
<1>. DEFINE f == DataIn(Overlay(m, a, bs))
            g == Overlay(DataIn(m), a, bs)
<1>1. ASSUME NEW x PROVE ByteAt(f, x) = ByteAt(g, x)
  <2>1. ByteAt(f, x) = IF IsData(x) THEN ByteAt(Overlay(m, a, bs), x) ELSE 0
    BY DataByte
  <2>2. ByteAt(g, x) = IF x \in a .. a + Len(bs) - 1 THEN bs[x - a + 1] ELSE ByteAt(DataIn(m), x)
    BY ByteAtOverlay
  <2>3. ByteAt(DataIn(m), x) = IF IsData(x) THEN ByteAt(m, x) ELSE 0
    BY DataByte
  <2>4. ByteAt(Overlay(m, a, bs), x) = IF x \in a .. a + Len(bs) - 1 THEN bs[x - a + 1] ELSE ByteAt(m, x)
    BY ByteAtOverlay
  <2>. QED
    BY <2>1, <2>2, <2>3, <2>4
<1>2. Reading!NonZero(f) = f
  BY Zenon DEF DataIn, Reading!NonZero
<1>. HIDE DEF f, g
<1>3. Reading!NonZero(f) = Reading!NonZero(g)
  BY <1>1, SameBytes
<1>. QED
  BY <1>2, <1>3 DEF f, g

LEMMA DataKept ==
    ASSUME NEW m, NEW n, \A x : IsData(x) => ByteAt(m, x) = ByteAt(n, x)
    PROVE  DataIn(m) = DataIn(n)
<1>1. \A x : ByteAt(DataIn(m), x) = ByteAt(DataIn(n), x)
  BY DataByte
<1>2. Reading!NonZero(DataIn(m)) = DataIn(m) /\ Reading!NonZero(DataIn(n)) = DataIn(n)
  BY Zenon DEF DataIn, Reading!NonZero
<1>. QED
  BY <1>1, <1>2, SameBytes

LEMMA DataRead ==
    ASSUME NEW m, NEW a \in Int, NEW n \in Int, \A x \in a .. a + n - 1 : IsData(x)
    PROVE  BytesAt(DataIn(m), a, n) = BytesAt(m, a, n)
<1>1. ASSUME NEW i \in 1 .. n PROVE ByteAt(DataIn(m), a + i - 1) = ByteAt(m, a + i - 1)
  <2>1. a + i - 1 \in a .. a + n - 1
    OBVIOUS
  <2>. QED
    BY <2>1, DataByte
<1>. QED
  BY <1>1 DEF BytesAt

LEMMA TextRead ==
    ASSUME NEW m, Memory(m), NEW a \in Nat,
           \A x \in a .. a + Len(Text(DataIn(m), a)) : IsData(x)
    PROVE  Text(m, a) = Text(DataIn(m), a)
<1>. DEFINE d == DataIn(m)
<1>1. Memory(d)
  BY DataMemory
<1>. HIDE DEF d
<1>2. PICK n \in Nat : /\ Text(d, a) = BytesAt(d, a, n) /\ ByteAt(d, a + n) = 0
                       /\ \A j \in 0 .. n - 1 : ByteAt(d, a + j) # 0
  BY <1>1, TextEnds
<1>3. PICK k \in Nat : /\ Text(m, a) = BytesAt(m, a, k) /\ ByteAt(m, a + k) = 0
                       /\ \A j \in 0 .. k - 1 : ByteAt(m, a + j) # 0
  BY TextEnds
<1>4. Len(Text(d, a)) = n
  <2>1. Len(BytesAt(d, a, n)) = IF n < 0 THEN 0 ELSE n
    BY <1>1, BytesAtType
  <2>. QED
    BY <1>2, <2>1
<1>5. \A j \in 0 .. n : ByteAt(m, a + j) = ByteAt(d, a + j)
  <2>1. ASSUME NEW j \in 0 .. n PROVE ByteAt(m, a + j) = ByteAt(d, a + j)
    <3>1. a + j \in a .. a + n
      OBVIOUS
    <3>2. IsData(a + j)
      BY <1>4, <3>1 DEF d
    <3>. QED
      BY <3>2, DataByte DEF d
  <2>. QED
    BY <2>1
<1>6. k = n
  <2>1. CASE k < n
    BY <1>2, <1>3, <1>5, <2>1
  <2>2. CASE n < k
    BY <1>2, <1>3, <1>5, <2>2
  <2>. QED
    BY <2>1, <2>2
<1>7. BytesAt(d, a, n) = BytesAt(m, a, n)
  <2>1. \A x \in a .. a + n - 1 : IsData(x)
    BY <1>4 DEF d
  <2>. QED
    BY <2>1, DataRead DEF d
<1>. QED
  BY <1>2, <1>3, <1>6, <1>7 DEF d

LEMMA CompareRead ==
    ASSUME NEW m, NEW d, NEW a, NEW b, Text(m, a) = Text(d, a), Text(m, b) = Text(d, b)
    PROVE  Compare(m, a, b) = Compare(d, a, b)
BY Zenon DEF Compare

----------------------------------------------------------------------------
(* A program that runs and has kept to what its text defines *)

\* The code is as it was loaded, and the stack has whole cells.
SimInv ==
    /\ state = "empty" => pc = 0
    /\ state = "running" => Assembled /\ Len(code) <= CodeSz
    /\ (state = "running" /\ ~strayed) =>
          /\ \A a \in CodeBytes : ByteAt(mem, a) = code[a + 1]
          /\ \E n \in Nat : sp + n * CellBytes = StackBase
    /\ \E S : out \in Seq(S)

Going == /\ AsmInv /\ TextInv /\ MachineType /\ StackInv /\ SimInv
         /\ lines \in Seq(PlainLine) /\ state = "running" /\ ~strayed /\ ~Source!Undefined

LEMMA TextRuns ==
    ASSUME Going
    PROVE  /\ AtLine \in InstrLines /\ Places[AtLine] = pc /\ src \in DOMAIN Sources
           /\ \A i \in 1 .. Len(lines) : Reading!WellFormed(lines[i], Means)
           /\ Places[Len(lines) + 1] = Len(code) /\ Len(code) <= CodeSz
           /\ \A i \in InstrLines : \A k \in 1 .. INSTRSZ :
                 code[Places[i] + k] = encInstr(Written(lines[i]))[k]
<1>1. /\ AsmType /\ src \in DOMAIN Sources /\ lines \in Seq(PlainLine)
      /\ phase = "done" /\ errs = {} /\ cur = Len(lines) + 1 /\ Len(lines) \in Nat
  BY TextLines DEF Going, SimInv, Assembled, AsmInv, AsmType
<1>2. cur - 1 = Len(lines)
  BY <1>1
<1>3. \A i \in 1 .. Len(lines) : Reading!WellFormed(lines[i], Means)
  BY <1>1, <1>2 DEF Going, TextInv
<1>4. CodeSays
  BY <1>1 DEF Going, TextInv
<1>5. \A i \in InstrLines : i < cur
  BY <1>1 DEF InstrLines
<1>6. Places[Len(lines) + 1] = Len(code)
  <2>1. \A i \in 1 .. Len(lines) : ~EmptyText(lines[i])
    BY <1>1 DEF PlainLine
  <2>2. Places = Positions(lines)
    BY <1>1, PlacesArePositions DEF Places
  <2>. QED
    BY <1>1, <1>2, <2>1, <2>2 DEF Going, AsmInv, AsmType, NoEmptyText
<1>7. AtLine # 0 /\ state = "running"
  BY DEF Going, Source!Undefined
<1>8. pc \in DOMAIN Layout[src].lineAt /\ AtLine = Layout[src].lineAt[pc]
  BY <1>7 DEF AtLine
<1>9. PICK i \in InstrLines : Places[i] = pc
  BY <1>1, <1>8, LayoutIs
<1>10. AtLine = i
  BY <1>1, <1>8, <1>9, LayoutIs
<1>11. Len(code) <= CodeSz
  BY <1>7 DEF Going, SimInv
<1>. QED
  BY <1>1, <1>3, <1>4, <1>5, <1>6, <1>9, <1>10, <1>11 DEF CodeSays

LEMMA CodeWithin ==
    ASSUME lines \in Seq(PlainLine), code \in Seq(Byte), Places[Len(lines) + 1] = Len(code)
    PROVE  /\ \A i \in InstrLines : Places[i] \in Nat /\ Places[i] + INSTRSZ <= Len(code)
           /\ \A a \in CodeBytes : a \in 0 .. Len(code) - 1
<1>1. /\ Len(lines) \in Nat /\ DOMAIN lines = 1 .. Len(lines) /\ INSTRSZ \in Nat
      /\ Places \in [1 .. Len(lines) + 1 -> Nat] /\ Len(code) \in Nat
      /\ \A i \in InstrLines : Places[i + 1] = Places[i] + INSTRSZ
  BY PlacesUnfold, WordSize
<1>2. ASSUME NEW i \in InstrLines
      PROVE  Places[i] \in Nat /\ Places[i] + INSTRSZ <= Len(code)
  <2>1. i \in 1 .. Len(lines) + 1 /\ i + 1 \in 1 .. Len(lines) + 1
        /\ Len(lines) + 1 \in i + 1 .. Len(lines) + 1
    BY <1>1 DEF InstrLines
  <2>2. Places[i + 1] <= Places[Len(lines) + 1]
    BY <2>1, PlacesGrow
  <2>. QED
    BY <1>1, <2>1, <2>2
<1>3. ASSUME NEW a \in CodeBytes PROVE a \in 0 .. Len(code) - 1
  <2>1. PICK i \in InstrLines : a \in Places[i] .. Places[i] + INSTRSZ - 1
    BY DEF CodeBytes
  <2>. QED
    BY <1>1, <1>2, <2>1
<1>. QED
  BY <1>2, <1>3

\* Every instruction of the text lies within the code, which is below the
\* stack.
LEMMA CodeIsLow ==
    ASSUME Going
    PROVE  /\ pc \in Nat /\ pc + INSTRSZ <= Len(code) /\ Len(code) <= CodeSz
           /\ CodeSz <= MemSz /\ CodeSz \in Nat /\ Len(code) \in Nat
           /\ \A a \in CodeBytes : a \in 0 .. Len(code) - 1
           /\ \A k \in 1 .. INSTRSZ : pc + k - 1 \in CodeBytes
<1>1. /\ AtLine \in InstrLines /\ Places[AtLine] = pc
      /\ Places[Len(lines) + 1] = Len(code) /\ Len(code) <= CodeSz
  BY TextRuns
<1>2. lines \in Seq(PlainLine) /\ pc \in Nat /\ code \in Seq(Byte)
  BY WordSize DEF Going, MachineType, AsmInv, AsmType
<1>3. /\ Len(lines) \in Nat /\ DOMAIN lines = 1 .. Len(lines) /\ INSTRSZ \in Nat
      /\ Places \in [1 .. Len(lines) + 1 -> Nat]
      /\ \A i \in InstrLines : Places[i + 1] = Places[i] + INSTRSZ
  BY <1>2, PlacesUnfold, WordSize
<1>4. /\ \A i \in InstrLines : Places[i] \in Nat /\ Places[i] + INSTRSZ <= Len(code)
      /\ \A a \in CodeBytes : a \in 0 .. Len(code) - 1
  BY <1>1, <1>2, CodeWithin
<1>5. CodeSz <= MemSz /\ CodeSz \in Nat /\ Len(code) \in Nat
  BY <1>2, SizesAssumption
<1>7. ASSUME NEW k \in 1 .. INSTRSZ PROVE pc + k - 1 \in CodeBytes
  <2>1. pc + k - 1 \in Places[AtLine] .. Places[AtLine] + INSTRSZ - 1
    BY <1>1, <1>2, <1>3
  <2>. QED
    BY <1>1, <2>1 DEF CodeBytes
<1>8. pc + INSTRSZ <= Len(code)
  BY <1>1, <1>4
<1>. QED
  BY <1>1, <1>2, <1>4, <1>5, <1>7, <1>8

----------------------------------------------------------------------------
(* The instruction that is fetched is the one that was written *)

Now == lines[AtLine]

LEMMA NowFits ==
    ASSUME Going
    PROVE  /\ Mnemonic(Now) \in OPCODES /\ Now.args \in Seq(STRING)
           /\ NumFields(Now) \in 0 .. 3 /\ NumFields(Now) <= Len(Now.args)
           /\ \A k \in 1 .. NumFields(Now) : parseReg(Now.args[k]) # {}
           /\ Mnemonic(Now) # "SYSCALL" => NumFields(Now) = NumRegs(Mnemonic(Now))
           /\ Mnemonic(Now) = "SYSCALL" => NumFields(Now) > 0
           /\ Immediate(Now) \in Int
<1>. DEFINE m == Mnemonic(Now)
            args == Now.args
            n == NumRegs(m)
<1>1. /\ AtLine \in InstrLines /\ Reading!WellFormed(Now, Means) /\ lines \in Seq(PlainLine)
      /\ AtLine \in 1 .. Len(lines) /\ AtLine \in DOMAIN lines
      /\ LabelsOf(lines, Len(lines)) /\ AsmType
  <2>1. AtLine \in InstrLines /\ lines \in Seq(PlainLine) /\ AsmInv /\ phase = "done"
    BY TextRuns DEF Going, SimInv, Assembled
  <2>2. AtLine \in 1 .. Len(lines) /\ AtLine \in DOMAIN lines
    BY <2>1 DEF InstrLines
  <2>. QED
    BY <2>1, <2>2, TextRuns DEF Now, AsmInv
<1>2. Now \in SourceLine /\ args \in Seq(STRING) /\ Len(args) \in Nat /\ DOMAIN args = 1 .. Len(args)
  BY <1>1 DEF Now, PlainLine, SourceLine
<1>3. m \in OPCODES
  BY <1>1 DEF InstrLines, IsInstr, Now
<1>4. n \in 0 .. 3 /\ (m = "SYSCALL" => n = 1 /\ ~TakesImm(m))
  BY DEF NumRegs, TakesImm, Branches, RegImm, ThreeRegs
<1>5. ASSUME NEW k \in DOMAIN args PROVE parseImm(args[k]) = Means[args[k]]
  <2>1. Operand(args[k])
    BY <1>1, <1>5 DEF Operand, ToSet, Now
  <2>. QED
    BY <1>1, <2>1, Resolved
<1>6. m = "SYSCALL" => args # <<>> /\ \A k \in DOMAIN args \cap 1 .. 3 : parseReg(args[k]) # {}
  BY <1>1, WellFormedIs
<1>7. m # "SYSCALL" => /\ Len(args) = n + (IF TakesImm(m) THEN 1 ELSE 0)
                       /\ \A k \in 1 .. n : parseReg(args[k]) # {}
                       /\ TakesImm(m) => Means[Last(args)] # {}
  BY <1>1, <1>3, WellFormedIs
<1>8. NumFields(Now) = IF m # "SYSCALL" THEN n ELSE IF Len(args) > 3 THEN 3 ELSE Len(args)
  BY DEF NumFields
<1>9. Immediate(Now) \in Int
  <2>1. CASE TakesImm(m)
    <3>1. Len(args) \in DOMAIN args /\ Last(args) = args[Len(args)] /\ Means[Last(args)] # {}
      BY <1>2, <1>4, <1>7, <2>1 DEF Last
    <3>2. parseImm(Last(args)) = Means[Last(args)]
      BY <1>5, <3>1
    <3>3. \A v \in Means[Last(args)] : v \in Int
      BY <1>1, <3>2, ParseImmType
    <3>. QED
      BY <2>1, <3>1, <3>3 DEF Immediate
  <2>2. CASE ~TakesImm(m)
    BY <2>2 DEF Immediate
  <2>. QED
    BY <2>1, <2>2
<1>. HIDE DEF m, args, n
<1>10. NumFields(Now) \in 0 .. 3 /\ NumFields(Now) <= Len(args)
  <2>1. CASE m = "SYSCALL"
    BY <1>2, <1>8, <2>1
  <2>2. CASE m # "SYSCALL"
    <3>1. Len(args) = n + (IF TakesImm(m) THEN 1 ELSE 0) /\ NumFields(Now) = n
      BY <1>7, <1>8, <2>2
    <3>. QED
      BY <1>2, <1>4, <3>1
  <2>. QED
    BY <2>1, <2>2
<1>11. m = "SYSCALL" => NumFields(Now) > 0
  BY <1>2, <1>6, <1>8
<1>12. ASSUME NEW k \in 1 .. NumFields(Now) PROVE parseReg(args[k]) # {}
  <2>1. CASE m = "SYSCALL"
    <3>1. k \in DOMAIN args \cap 1 .. 3
      BY <1>2, <1>8, <2>1
    <3>. QED
      BY <1>6, <2>1, <3>1
  <2>2. CASE m # "SYSCALL"
    <3>1. NumFields(Now) = n /\ \A j \in 1 .. n : parseReg(args[j]) # {}
      BY <1>7, <1>8, <2>2
    <3>. QED
      BY <3>1
  <2>. QED
    BY <2>1, <2>2
<1>. QED
  BY <1>2, <1>3, <1>8, <1>9, <1>10, <1>11, <1>12 DEF m, args, n

LEMMA Fetched ==
    ASSUME Going
    PROVE  fetchInstr = Instr(Mnemonic(Now), FieldsOf(Now), to24(Immediate(Now)))
<1>. DEFINE i == Written(Now)
            bs == encInstr(i)
            f == FieldsOf(Now)
<1>1. Mnemonic(Now) \in OPCODES /\ Immediate(Now) \in Int
  BY NowFits
<1>2. f \in [1 .. 3 -> -1 .. 2]
  <2>1. \A k \in 1 .. 3 : k <= NumFields(Now) => Reading!Field(Now.args[k]) \in 0 .. 2
    BY NowFits, RegField
  <2>. QED
    BY <2>1 DEF FieldsOf
<1>. HIDE DEF f
<1>3. i = [op |-> Mnemonic(Now), r |-> f, imm |-> Immediate(Now)]
  BY DEF Written, Instr, f
<1>4. i \in Encodable
  BY <1>1, <1>2, <1>3 DEF Encodable
<1>. HIDE DEF i
<1>5. bs \in Seq(Byte) /\ Len(bs) = INSTRSZ /\ INSTRSZ \in Nat
  BY <1>4, EncodedType, WordSize
<1>6. ASSUME NEW k \in 1 .. INSTRSZ PROVE ByteAt(mem, pc + k - 1) = bs[k]
  <2>1. pc + k - 1 \in CodeBytes /\ pc \in Nat /\ k \in Int
    BY <1>5, CodeIsLow
  <2>2. ByteAt(mem, pc + k - 1) = code[(pc + k - 1) + 1]
    BY <2>1 DEF Going, SimInv
  <2>3. (pc + k - 1) + 1 = pc + k
    BY <2>1
  <2>4. code[Places[AtLine] + k] = bs[k] /\ Places[AtLine] = pc
    BY TextRuns DEF Now, i
  <2>. QED
    BY <2>2, <2>3, <2>4
<1>7. BytesAt(mem, pc, INSTRSZ) = bs
  <2>1. BytesAt(mem, pc, INSTRSZ) = [k \in 1 .. INSTRSZ |-> bs[k]]
    BY <1>6 DEF BytesAt
  <2>2. bs = [k \in 1 .. INSTRSZ |-> bs[k]]
    BY <1>5
  <2>. QED
    BY <2>1, <2>2
<1>8. decodeInstr(bs) = Instr(i.op, i.r, to24(i.imm))
  BY <1>4, DecodesWhatWasEncoded
<1>. QED
  BY <1>3, <1>7, <1>8 DEF fetchInstr, f

LEMMA PlainDataIs ==
    ASSUME src \in DOMAIN Sources, lines \in Seq(PlainLine)
    PROVE  PlainData = DataIn(mem)
<1>1. Layout[src].code = CodeBytes
  BY LayoutIs
<1>. QED
  BY <1>1 DEF PlainData, DataIn

\* What the text and the machine call the same.
LEMMA Operands1 ==
    ASSUME Going
    PROVE  /\ Source!Line = Now /\ Source!Code = fetchInstr.op /\ Source!Args = Now.args
           /\ fetchInstr.op = Mnemonic(Now) /\ fetchInstr.r = FieldsOf(Now)
           /\ fetchInstr.op \in OPCODES /\ fetchInstr \in Decoded
           /\ TakesImm(fetchInstr.op) => fetchInstr.imm = Source!Imm
<1>1. /\ Mnemonic(Now) \in OPCODES
      /\ fetchInstr = [op |-> Mnemonic(Now), r |-> FieldsOf(Now), imm |-> to24(Immediate(Now))]
  BY NowFits, Fetched DEF Instr
<1>2. fetchInstr \in Decoded
  BY FetchedType DEF Going
<1>3. Source!Line = Now /\ Source!Args = Now.args /\ Source!Code = Mnemonic(Now)
  <2>1. Source!Line = Now
    BY DEF Source!Line, Now, lines
  <2>2. \A line : Source!Op(line) = Mnemonic(line)
    BY SameNames
  <2>. QED
    BY <2>1, <2>2 DEF Source!Args, Source!Code
<1>4. Layout[src].means = Means
  BY TextRuns, LayoutIs DEF Going
<1>5. TakesImm(Mnemonic(Now)) => to24(Immediate(Now)) = Source!Imm
  <2>1. Source!Last(Now.args) = Last(Now.args) /\ \A v : Source!to24(v) = to24(v)
    BY SameNames, SameNumbers
  <2>. QED
    BY <1>3, <1>4, <2>1, Zenon DEF Source!Imm, Immediate
<1>. QED
  BY <1>1, <1>2, <1>3, <1>5

LEMMA Registers ==
    ASSUME Going, NEW k \in 1 .. 3
    PROVE  /\ k <= NumFields(Now) => /\ fetchInstr.r[k] = Source!Field(Source!Args[k])
                                     /\ fetchInstr.r[k] \in 0 .. 2
                                     /\ Up(Source!Args[k]) = <<"RA", "RB", "RC">>[fetchInstr.r[k] + 1]
                                     /\ \A j \in 0 .. 2 : Up(Source!Args[k]) = <<"RA", "RB", "RC">>[j + 1]
                                                           => fetchInstr.r[k] = j
           /\ k <= NumFields(Now) => Reg(fetchInstr, k) = Source!Reg(k)
           /\ k > NumFields(Now) => fetchInstr.r[k] = -1
           /\ fetchInstr.op = "SYSCALL" =>
                 /\ Reg(fetchInstr, k) = Source!Reg(k)
                 /\ Source!Has(k) <=> k <= NumFields(Now)
           /\ Reg(fetchInstr, k) \in Int /\ Reg(fetchInstr, k) \in Word
<1>1. fetchInstr.r = FieldsOf(Now) /\ Source!Args = Now.args /\ fetchInstr.op = Mnemonic(Now)
      /\ fetchInstr \in Decoded
  BY Operands1
<1>2. NumFields(Now) \in 0 .. 3 /\ NumFields(Now) <= Len(Now.args) /\ Len(Now.args) \in Nat
      /\ \A j \in 1 .. NumFields(Now) : parseReg(Now.args[j]) # {}
  BY NowFits
<1>3. fetchInstr.r[k] = IF k <= NumFields(Now) THEN Reading!Field(Now.args[k]) ELSE -1
  BY <1>1 DEF FieldsOf
<1>4. \A tok : Source!Field(tok) = Reading!Field(tok)
  BY SameNames
<1>5. ASSUME k <= NumFields(Now)
      PROVE  /\ fetchInstr.r[k] = Source!Field(Source!Args[k]) /\ fetchInstr.r[k] \in 0 .. 2
             /\ Up(Source!Args[k]) = <<"RA", "RB", "RC">>[fetchInstr.r[k] + 1]
             /\ \A j \in 0 .. 2 : Up(Source!Args[k]) = <<"RA", "RB", "RC">>[j + 1] => fetchInstr.r[k] = j
  <2>. DEFINE tok == Now.args[k]
              names == <<"RA", "RB", "RC">>
  <2>1. parseReg(tok) # {}
    BY <1>2, <1>5
  <2>. HIDE DEF names
  <2>2. /\ Reading!Field(tok) \in 0 .. 2 /\ Up(tok) = names[Reading!Field(tok) + 1]
        /\ \A j \in 0 .. 2 : Up(tok) = names[j + 1] => Reading!Field(tok) = j
    BY <2>1, RegField DEF names
  <2>. QED
    BY <1>1, <1>3, <1>4, <1>5, <2>2 DEF names
<1>6. ASSUME k <= NumFields(Now) PROVE Reg(fetchInstr, k) = Source!Reg(k) /\ Source!Has(k)
  <2>1. Source!Has(k)
    BY <1>1, <1>2, <1>6 DEF Source!Has
  <2>2. fetchInstr.r[k] # -1
    BY <1>5, <1>6
  <2>. QED
    BY <1>5, <1>6, <2>1, <2>2 DEF Reg, Source!Reg
<1>7. ASSUME k > NumFields(Now), fetchInstr.op = "SYSCALL"
      PROVE  Reg(fetchInstr, k) = Source!Reg(k) /\ ~Source!Has(k)
  <2>1. NumFields(Now) = IF Len(Now.args) > 3 THEN 3 ELSE Len(Now.args)
    BY <1>1, <1>7 DEF NumFields
  <2>2. ~Source!Has(k)
    BY <1>1, <1>2, <1>7, <2>1 DEF Source!Has
  <2>3. fetchInstr.r[k] = -1
    BY <1>2, <1>3, <1>7
  <2>. QED
    BY <2>2, <2>3 DEF Reg, Source!Reg, RC
<1>8. k > NumFields(Now) => fetchInstr.r[k] = -1
  BY <1>2, <1>3
<1>9. Reg(fetchInstr, k) \in Int /\ Reg(fetchInstr, k) \in Word
  BY <1>1, RegType DEF Going
<1>. QED
  BY <1>2, <1>5, <1>6, <1>7, <1>8, <1>9

----------------------------------------------------------------------------
(* The bytes of the stack, read as cells *)

CellIn(m, a) == LE(BytesAt(m, a, CellBytes))
CellsOf(m, s) == [k \in 1 .. (StackBase - s) \div CellBytes |-> CellIn(m, s + CellBytes * (k - 1))]

LEMMA CellStackIs == CellStack = CellsOf(mem, sp)
BY DEF CellStack, CellsOf, CellIn, Cell

LEMMA CellsAre ==
    ASSUME NEW m, NEW s \in Int, NEW n \in Nat, s + n * CellBytes = StackBase
    PROVE  /\ (StackBase - s) \div CellBytes = n
           /\ CellsOf(m, s) = [k \in 1 .. n |-> CellIn(m, s + CellBytes * (k - 1))]
           /\ Len(CellsOf(m, s)) = n
           /\ Memory(m) => CellsOf(m, s) \in Seq(Int)
<1>1. CellBytes \in Nat \ {0}
  BY CellBytesAssumption, WordBytesAssumption
<1>2. StackBase - s = n * CellBytes + 0 /\ 0 \in 0 .. CellBytes - 1
  BY <1>1
<1>3. (StackBase - s) \div CellBytes = n
  BY <1>1, <1>2, DivModUnique
<1>4. CellsOf(m, s) = [k \in 1 .. n |-> CellIn(m, s + CellBytes * (k - 1))]
  BY <1>3 DEF CellsOf
<1>5. ASSUME Memory(m), NEW a PROVE CellIn(m, a) \in Int
  <2>1. BytesAt(m, a, CellBytes) \in Seq(Byte)
    BY <1>1, <1>5, BytesAtType
  <2>. QED
    BY <2>1, BytesAreInts, LEInt DEF CellIn
<1>. QED
  BY <1>3, <1>4, <1>5

LEMMA StackKept ==
    ASSUME NEW m, NEW o, NEW s \in Int, \A x \in Int : x >= s => ByteAt(m, x) = ByteAt(o, x)
    PROVE  CellsOf(m, s) = CellsOf(o, s)
<1>1. CellBytes \in Nat \ {0}
  BY CellBytesAssumption, WordBytesAssumption
<1>. DEFINE n == (StackBase - s) \div CellBytes
<1>2. ASSUME NEW k \in 1 .. n
      PROVE  CellIn(m, s + CellBytes * (k - 1)) = CellIn(o, s + CellBytes * (k - 1))
  <2>. DEFINE a == s + CellBytes * (k - 1)
  <2>1. CellBytes * (k - 1) \in Nat
    BY <1>1
  <2>2. a \in Int /\ a >= s
    BY <2>1
  <2>. HIDE DEF a
  <2>3. \A j \in 1 .. CellBytes : ByteAt(m, a + j - 1) = ByteAt(o, a + j - 1)
    BY <1>1, <2>2
  <2>4. BytesAt(m, a, CellBytes) = BytesAt(o, a, CellBytes)
    BY <2>3 DEF BytesAt
  <2>. QED
    BY <2>4 DEF CellIn, a
<1>. QED
  BY <1>2 DEF CellsOf

LEMMA StackPushed ==
    ASSUME NEW m, Memory(m), NEW s \in Int, NEW n \in Nat, s + n * CellBytes = StackBase,
           NEW d \in Nat, NEW bs \in Seq(Byte), Len(bs) = d * CellBytes,
           NEW cells \in Seq(Int), Len(cells) = d,
           \A k \in 1 .. d : cells[k] = LE([j \in 1 .. CellBytes |-> bs[(k - 1) * CellBytes + j]])
    PROVE  CellsOf(Overlay(m, s - CellBytes * d, bs), s - CellBytes * d) = cells \o CellsOf(m, s)
<1>. DEFINE C == CellBytes
            low == s - C * d
            over == Overlay(m, low, bs)
            old == CellsOf(m, s)
<1>1. C \in Nat \ {0}
  BY CellBytesAssumption, WordBytesAssumption
<1>2. low \in Int /\ C * d \in Nat /\ low + (d + n) * C = StackBase /\ d + n \in Nat
      /\ low + Len(bs) = s /\ Len(bs) \in Nat
  BY <1>1
<1>3. CellsOf(over, low) = [k \in 1 .. d + n |-> CellIn(over, low + C * (k - 1))]
  <2>. HIDE DEF low, over
  <2>. QED
    BY <1>2, CellsAre
<1>4. /\ old = [k \in 1 .. n |-> CellIn(m, s + C * (k - 1))]
      /\ old \in Seq(Int) /\ Len(old) = n
  BY CellsAre
<1>5. \A x : ByteAt(over, x) = IF x \in low .. s - 1 THEN bs[x - low + 1] ELSE ByteAt(m, x)
  <2>. HIDE DEF low
  <2>1. low + Len(bs) - 1 = s - 1
    <3>1. low + Len(bs) = s
      BY <1>2
    <3>2. \A x, y \in Int : x + y - 1 = (x + y) - 1
      OBVIOUS
    <3>3. low \in Int /\ Len(bs) \in Int
      BY <1>2
    <3>. QED
      BY <3>1, <3>2, <3>3, Zenon
  <2>. QED
    BY <1>2, <2>1, ByteAtOverlay, SMTT(40)
<1>6. ASSUME NEW k \in 1 .. d
      PROVE  CellIn(over, low + C * (k - 1)) = cells[k]
  <2>. DEFINE p == C * (k - 1)
              q == C * (d - k)
  <2>1. p \in Nat /\ q \in Nat /\ C * d = p + C + q /\ p = (k - 1) * CellBytes
    BY <1>1
  <2>2. s - 1 = low + p + C + q - 1
    BY <1>1, <2>1
  <2>. HIDE DEF p, q, low, over
  <2>3. ASSUME NEW j \in 1 .. C PROVE ByteAt(over, low + p + j - 1) = bs[p + j]
    <3>1. low + p + j - 1 \in low .. s - 1 /\ (low + p + j - 1) - low + 1 = p + j
      BY <1>1, <1>2, <2>1, <2>2
    <3>. QED
      BY <1>5, <3>1
  <2>4. BytesAt(over, low + p, C) = [j \in 1 .. CellBytes |-> bs[p + j]]
    BY <2>3 DEF BytesAt
  <2>5. cells[k] = LE([j \in 1 .. CellBytes |-> bs[p + j]])
    BY <2>1
  <2>. QED
    BY <2>4, <2>5 DEF CellIn, p
<1>7. ASSUME NEW k \in 1 .. n
      PROVE  CellIn(over, low + C * (d + k - 1)) = CellIn(m, s + C * (k - 1))
  <2>. DEFINE p == C * (k - 1)
  <2>1. p \in Nat /\ C * (d + k - 1) = C * d + p
    BY <1>1
  <2>2. low + C * (d + k - 1) = s + p
    BY <1>1, <1>2, <2>1
  <2>. HIDE DEF p, low, over
  <2>3. ASSUME NEW j \in 1 .. C PROVE ByteAt(over, s + p + j - 1) = ByteAt(m, s + p + j - 1)
    <3>1. s + p + j - 1 \notin low .. s - 1
      BY <1>1, <1>2, <2>1
    <3>. QED
      BY <1>5, <3>1
  <2>4. BytesAt(over, s + p, C) = BytesAt(m, s + p, C)
    BY <2>3 DEF BytesAt
  <2>. QED
    BY <2>2, <2>4 DEF CellIn, p
<1>. HIDE DEF old, over, low, C
<1>8. ASSUME NEW k \in 1 .. d + n
      PROVE  CellIn(over, low + C * (k - 1)) = (cells \o old)[k]
  <2>1. CASE k <= d
    <3>1. (cells \o old)[k] = cells[k] /\ k \in 1 .. d
      BY <1>4, <2>1
    <3>. QED
      BY <1>6, <3>1
  <2>2. CASE k > d
    <3>1. k - d \in 1 .. n /\ d + (k - d) - 1 = k - 1
      BY <2>2
    <3>2. (cells \o old)[k] = old[k - d]
      BY <1>4, <2>2
    <3>3. old[k - d] = CellIn(m, s + C * ((k - d) - 1))
      BY <1>4, <3>1
    <3>. QED
      BY <1>7, <3>1, <3>2, <3>3
  <2>3. k <= d \/ k > d
    OBVIOUS
  <2>. QED
    BY <2>1, <2>2, <2>3, Zenon
<1>9. cells \o old = [k \in 1 .. d + n |-> (cells \o old)[k]]
  <2>1. cells \o old \in Seq(Int)
    BY <1>4
  <2>2. Len(cells \o old) = d + n
    <3>1. \A x, y \in Seq(Int) : Len(x \o y) = Len(x) + Len(y)
      OBVIOUS
    <3>. QED
      BY <1>4, <3>1, Zenon
  <2>3. \A z \in Seq(Int) : z = [k \in 1 .. Len(z) |-> z[k]]
    OBVIOUS
  <2>. QED
    BY <2>1, <2>2, <2>3, Zenon
<1>10. [k \in 1 .. d + n |-> CellIn(over, low + C * (k - 1))] = [k \in 1 .. d + n |-> (cells \o old)[k]]
  BY <1>8
<1>. QED
  BY <1>3, <1>9, <1>10 DEF old, over, low, C

LEMMA StackPopped ==
    ASSUME NEW m, Memory(m), NEW s \in Int, NEW n \in Nat, s + n * CellBytes = StackBase,
           NEW d \in 0 .. n
    PROVE  /\ (s + CellBytes * d) + (n - d) * CellBytes = StackBase
           /\ CellsOf(m, s + CellBytes * d) = SubSeq(CellsOf(m, s), d + 1, n)
<1>. DEFINE C == CellBytes
            high == s + C * d
            old == CellsOf(m, s)
<1>1. C \in Nat \ {0} /\ n - d \in Nat
  BY CellBytesAssumption, WordBytesAssumption
<1>2. high \in Int /\ high + (n - d) * C = StackBase
  BY <1>1
<1>3. CellsOf(m, high) = [k \in 1 .. n - d |-> CellIn(m, high + C * (k - 1))]
  <2>. DEFINE r == n - d
  <2>1. r \in Nat /\ high + r * CellBytes = StackBase
    BY <1>1, <1>2
  <2>. HIDE DEF high, r
  <2>2. CellsOf(m, high) = [k \in 1 .. r |-> CellIn(m, high + CellBytes * (k - 1))]
    BY <1>2, <2>1, CellsAre
  <2>. QED
    BY <2>2 DEF r
<1>4. /\ old = [k \in 1 .. n |-> CellIn(m, s + C * (k - 1))]
      /\ old \in Seq(Int) /\ Len(old) = n
  BY CellsAre
<1>5. ASSUME NEW k \in 1 .. n - d
      PROVE  CellIn(m, high + C * (k - 1)) = old[d + k]
  <2>1. high + C * (k - 1) = s + C * ((d + k) - 1) /\ d + k \in 1 .. n
    BY <1>1
  <2>2. old[d + k] = CellIn(m, s + C * ((d + k) - 1))
    BY <1>4, <2>1
  <2>. QED
    BY <2>1, <2>2
<1>. HIDE DEF old, high, C
<1>6. SubSeq(old, d + 1, n) = [k \in 1 .. n - d |-> old[d + k]]
  BY <1>1, <1>4
<1>. QED
  BY <1>2, <1>3, <1>5, <1>6 DEF old, high, C

----------------------------------------------------------------------------
(* The machine faults exactly when the text's instruction fails *)

LEMMA StackNow ==
    ASSUME Going
    PROVE  /\ CellStack = CellsOf(mem, sp) /\ CellStack \in Seq(Int) /\ Len(CellStack) \in Nat
           /\ sp + Len(CellStack) * CellBytes = StackBase /\ sp \in Nat
           /\ sp >= StackLoOf(dialect) /\ StackLoOf(dialect) \in Int
           /\ StackLoOf(dialect) >= MemSz + 3 * CellBytes /\ MemSz \in Nat
           /\ StackBase \in Nat /\ StackLoOf(dialect) <= StackBase
<1>1. PICK n \in Nat : sp + n * CellBytes = StackBase
  BY DEF Going, SimInv
<1>2. sp \in Nat /\ sp \in Int /\ Memory(mem) /\ dialect \in Dialects /\ state = "running"
  BY DEF Going, MachineType
<1>3. /\ CellStack = CellsOf(mem, sp) /\ CellStack \in Seq(Int) /\ Len(CellStack) = n
  BY <1>1, <1>2, CellStackIs, CellsAre
<1>4. sp \in StackLoOf(dialect) .. StackBase + CellBytes
  BY <1>2 DEF Going, StackInv, Live
<1>5. /\ StackLoOf(dialect) \in Int /\ StackLoOf(dialect) >= MemSz + 3 * CellBytes
      /\ MemSz \in Nat /\ StackBase \in Nat /\ StackLoOf(dialect) <= StackBase
  BY <1>2, Sizes
<1>6. sp >= StackLoOf(dialect)
  BY <1>4, <1>5
<1>. QED
  BY <1>1, <1>2, <1>3, <1>5, <1>6

LEMMA TouchedIsData ==
    ASSUME Going, NEW e \in Source!Extents, NEW x \in e[1] .. e[1] + e[2] - 1
    PROVE  IsData(x)
<1>1. x \in Source!Touched
  BY DEF Source!Touched
<1>2. x \notin Layout[src].code /\ ~(x >= StackLoOf(dialect))
  BY <1>1 DEF Going, Source!Undefined
<1>3. Layout[src].code = CodeBytes
  BY TextRuns, LayoutIs DEF Going
<1>4. x < StackLoOf(dialect)
  BY <1>2, StackNow
<1>. QED
  BY <1>2, <1>3, <1>4 DEF IsData

LEMMA WordTouched ==
    ASSUME Going, fetchInstr.op \in {"LOAD", "STORE", "LOADI", "STOREI"}
    PROVE  \E a \in 0 .. Top - 1 :
              /\ Checked(fetchInstr) = {a}
              /\ Source!Extents = {<<a, WordBytes>>}
              /\ \A x \in a .. a + WordBytes - 1 : IsData(x)
              /\ (CHOOSE b \in Source!Touched : \A c \in Source!Touched : b <= c) = a
<1>. DEFINE i == fetchInstr
            R(k) == Addr(Reg(i, k))
<1>1. /\ Source!Code = i.op /\ i \in Decoded
      /\ TakesImm(i.op) => i.imm = Source!Imm
  BY Operands1
<1>2. /\ i.op \in {"LOAD", "STORE"} => /\ Reg(i, 1) = Source!Reg(1) /\ Reg(i, 2) = Source!Reg(2)
  <2>1. i.op \in {"LOAD", "STORE"} => NumFields(Now) = 2
    BY Operands1, NowFits DEF NumRegs, Branches, ThreeRegs
  <2>. QED
    BY <2>1, Registers
<1>3. i.op \in {"LOADI", "STOREI"} => i.imm = Source!Imm
  BY <1>1 DEF TakesImm
<1>4. \A v : Source!Addr(v) = Addr(v)
  BY SameNumbers
<1>5. i.imm \in Int /\ Reg(i, 1) \in Int /\ Reg(i, 2) \in Int
  BY <1>1, WordsAreInts, Registers DEF Decoded
<1>6. \A v \in Int : Addr(v) \in 0 .. Top - 1
  BY AddrRange
<1>7. ASSUME NEW a \in 0 .. Top - 1, Source!Extents = {<<a, WordBytes>>}
      PROVE  /\ \A x \in a .. a + WordBytes - 1 : IsData(x)
             /\ (CHOOSE b \in Source!Touched : \A c \in Source!Touched : b <= c) = a
  <2>1. Source!Touched = a .. a + WordBytes - 1
    BY <1>7 DEF Source!Touched
  <2>2. a \in Int /\ WordBytes \in Nat \ {0}
    BY WordSize, WordBytesAssumption
  <2>3. (CHOOSE b \in Source!Touched : \A c \in Source!Touched : b <= c) = a
    BY <2>1, <2>2
  <2>4. \A x \in a .. a + WordBytes - 1 : IsData(x)
    BY <1>7, TouchedIsData
  <2>. QED
    BY <2>3, <2>4
<1>8. CASE i.op = "LOAD"
  <2>1. Checked(i) = {R(2)}
    BY <1>8 DEF Checked, Pushes, Pops
  <2>2. Source!Extents = {<<R(2), WordBytes>>}
    BY <1>1, <1>2, <1>4, <1>8 DEF Source!Extents
  <2>3. R(2) \in 0 .. Top - 1
    BY <1>5, <1>6
  <2>. HIDE DEF R, i
  <2>. QED
    BY <1>7, <2>1, <2>2, <2>3 DEF i
<1>9. CASE i.op = "STORE"
  <2>1. Checked(i) = {R(1)}
    BY <1>9 DEF Checked, Pushes, Pops
  <2>2. Source!Extents = {<<R(1), WordBytes>>}
    BY <1>1, <1>2, <1>4, <1>9 DEF Source!Extents
  <2>3. R(1) \in 0 .. Top - 1
    BY <1>5, <1>6
  <2>. HIDE DEF R, i
  <2>. QED
    BY <1>7, <2>1, <2>2, <2>3 DEF i
<1>10. CASE i.op \in {"LOADI", "STOREI"}
  <2>1. Checked(i) = {Addr(i.imm)}
    BY <1>10 DEF Checked, Pushes, Pops
  <2>2. Source!Extents = {<<Addr(i.imm), WordBytes>>}
    BY <1>1, <1>3, <1>4, <1>10 DEF Source!Extents
  <2>3. Addr(i.imm) \in 0 .. Top - 1
    BY <1>5, <1>6
  <2>. HIDE DEF i
  <2>. QED
    BY <1>7, <2>1, <2>2, <2>3 DEF i
<1>. QED
  BY <1>8, <1>9, <1>10

LEMMA WordFaults ==
    ASSUME Going, fetchInstr.op \in {"LOAD", "STORE", "LOADI", "STOREI"}
    PROVE  (\E a \in Checked(fetchInstr) : ~InBounds(a)) <=> \E e \in Source!Extents : e[1] >= MemSz
<1>1. PICK a \in 0 .. Top - 1 :
         /\ Checked(fetchInstr) = {a}
         /\ Source!Extents = {<<a, WordBytes>>}
         /\ \A x \in a .. a + WordBytes - 1 : IsData(x)
  BY WordTouched
<1>2. a \in Nat /\ WordBytes \in Nat \ {0} /\ MemSz \in Nat
  BY WordSize, WordBytesAssumption, StackNow
<1>3. a < StackLoOf(dialect) /\ StackLoOf(dialect) \in Int
  <2>1. a \in a .. a + WordBytes - 1
    BY <1>2
  <2>. QED
    BY <1>1, <2>1, StackNow DEF IsData
<1>4. InBounds(a) <=> ~(a >= MemSz)
  BY <1>2, <1>3 DEF InBounds
<1>. QED
  BY <1>1, <1>4

\* Room for the cells pushed is what the bounds of the lowest check.
LEMMA PushFaults ==
    ASSUME Going, fetchInstr.op \in Pushes
    PROVE  /\ (\E a \in Checked(fetchInstr) : ~InBounds(a)) <=> ~Source!Room
           /\ Source!Depth = Depth(fetchInstr.op)
<1>. DEFINE op == fetchInstr.op
            d == Depth(op)
            n == Len(CellStack)
            lo == StackLoOf(dialect)
            low == Pushed(op)
<1>1. Source!Code = op
  BY Operands1
<1>2. Source!Depth = d /\ d \in {1, 3}
  BY <1>1 DEF Source!Depth, Depth
<1>3. /\ n \in Nat /\ sp + n * CellBytes = StackBase /\ sp \in Nat /\ sp >= lo /\ lo \in Int
      /\ lo >= MemSz + 3 * CellBytes /\ MemSz \in Nat /\ StackBase \in Nat
  BY StackNow
<1>4. CellBytes \in Nat \ {0}
  BY CellBytesAssumption, WordBytesAssumption
<1>5. Checked(fetchInstr) = {low + CellBytes * k : k \in 0 .. d - 1}
  BY DEF Checked, Cells, Pushes
<1>6. low = sp - CellBytes * d
  BY DEF Pushed
<1>7. Source!Room <=> d + n <= (StackBase - lo) \div CellBytes
  <2>1. Source!Top = Top
    BY SameNumbers
  <2>. QED
    BY <1>2, <2>1 DEF Source!Room, StackBase
<1>. HIDE DEF low, d, n, op, lo
<1>8. (d + n <= (StackBase - lo) \div CellBytes) <=> low >= lo
  <2>. DEFINE q == (StackBase - lo) \div CellBytes
              r == (StackBase - lo) % CellBytes
  <2>1. q \in Int /\ r \in 0 .. CellBytes - 1 /\ StackBase - lo = q * CellBytes + r
    BY <1>3, <1>4, DivMod
  <2>. HIDE DEF q, r
  <2>2. low - lo = (q - (d + n)) * CellBytes + r
    BY <1>2, <1>3, <1>4, <1>6, <2>1
  <2>3. CASE d + n <= q
    <3>1. (q - (d + n)) * CellBytes >= 0
      BY <1>2, <1>3, <1>4, <2>1, <2>3
    <3>. QED
      BY <1>2, <1>3, <1>4, <1>6, <2>1, <2>2, <2>3, <3>1 DEF q
  <2>4. CASE d + n > q
    <3>1. (q - (d + n)) * CellBytes <= 0 - CellBytes
      BY <1>2, <1>3, <1>4, <2>1, <2>4
    <3>. QED
      BY <1>2, <1>3, <1>4, <1>6, <2>1, <2>2, <2>4, <3>1 DEF q
  <2>5. d + n <= q \/ d + n > q
    BY <1>2, <1>3, <2>1
  <2>. QED
    BY <2>3, <2>4, <2>5
<1>9. low \in Int /\ low >= MemSz
  BY <1>2, <1>3, <1>4, <1>6
<1>10. CASE low >= lo
  <2>1. ASSUME NEW k \in 0 .. d - 1 PROVE InBounds(low + CellBytes * k)
    <3>1. CellBytes * k \in Nat /\ CellBytes * (d - k) \in Nat
          /\ CellBytes * d = CellBytes * k + CellBytes * (d - k) /\ n * CellBytes \in Nat
      BY <1>2, <1>3, <1>4
    <3>2. low + CellBytes * k <= sp /\ sp <= StackBase
      BY <1>3, <1>6, <1>9, <3>1
    <3>3. low + CellBytes * k \in lo .. StackBase
      BY <1>3, <1>9, <1>10, <3>1, <3>2
    <3>. QED
      BY <3>3 DEF InBounds, lo
  <2>. QED
    BY <1>2, <1>5, <1>7, <1>8, <1>10, <2>1 DEF d, op
<1>11. CASE low < lo
  <2>1. ~InBounds(low)
    BY <1>3, <1>9, <1>11 DEF InBounds, lo
  <2>2. low + CellBytes * 0 = low /\ 0 \in 0 .. d - 1
    BY <1>2, <1>4, <1>9
  <2>3. low \in Checked(fetchInstr)
    BY <1>5, <2>2
  <2>. QED
    BY <1>2, <1>3, <1>7, <1>8, <1>9, <1>11, <2>1, <2>3 DEF d, op
<1>. QED
  BY <1>3, <1>9, <1>10, <1>11

\* A program that pops no more than it pushed reads only cells of the stack.
LEMMA PopsFit ==
    ASSUME Going, fetchInstr.op \in Pops
    PROVE  /\ \A a \in Checked(fetchInstr) : InBounds(a)
           /\ Source!Depth = Depth(fetchInstr.op) /\ Depth(fetchInstr.op) \in 1 .. Len(CellStack)
<1>. DEFINE op == fetchInstr.op
            d == Depth(op)
            n == Len(CellStack)
            lo == StackLoOf(dialect)
<1>1. Source!Code = op
  BY Operands1
<1>2. Source!Depth = d /\ d \in {1, 3}
  BY <1>1 DEF Source!Depth, Depth
<1>3. /\ n \in Nat /\ sp + n * CellBytes = StackBase /\ sp \in Nat /\ sp >= lo /\ lo \in Int
  BY StackNow
<1>4. CellBytes \in Nat \ {0}
  BY CellBytesAssumption, WordBytesAssumption
<1>5. Checked(fetchInstr) = {sp + CellBytes * k : k \in 0 .. d - 1}
  BY DEF Checked, Cells, Pushes, Pops
<1>6. ~(d > n)
  BY <1>1, <1>2 DEF Going, Source!Undefined, Pops
<1>. HIDE DEF d, n, op, lo
<1>7. ASSUME NEW k \in 0 .. d - 1 PROVE InBounds(sp + CellBytes * k)
  <2>1. CellBytes * k \in Nat /\ CellBytes * (n - k) \in Nat
        /\ n * CellBytes = CellBytes * k + CellBytes * (n - k)
    BY <1>2, <1>3, <1>4, <1>6
  <2>2. sp + CellBytes * k \in lo .. StackBase
    BY <1>3, <2>1
  <2>. QED
    BY <2>2 DEF InBounds, lo
<1>. QED
  BY <1>2, <1>3, <1>5, <1>6, <1>7 DEF d, n, op

LEMMA SyscallFaults ==
    ASSUME Going, fetchInstr.op = "SYSCALL"
    PROVE  SyscallLegal(fetchInstr, Reg(fetchInstr, 1)) <=> ~Source!SyscallFails
<1>. DEFINE r == fetchInstr.r
            n == Reg(fetchInstr, 1)
            F == NumFields(Now)
            N == <<"RA", "RB", "RC">>
            args == Source!Args
            named == \A k \in 1 .. F : r[k] = k - 1
            highest == IF dialect = "runes" THEN 8 ELSE 10
<1>1. F \in 1 .. 3 /\ Source!Reg(1) = n /\ n \in Int
  <2>1. F \in 0 .. 3 /\ F > 0
    BY Operands1, NowFits
  <2>. QED
    BY <2>1, Registers
<1>2. ASSUME NEW k \in 1 .. 3
      PROVE  /\ Source!Has(k) <=> k <= F
             /\ k > F => r[k] = -1
             /\ k <= F => r[k] \in 0 .. 2
             /\ k <= F => (Source!Up(args[k]) = N[k] <=> r[k] = k - 1)
  <2>1. /\ Source!Has(k) <=> k <= F
        /\ k > F => r[k] = -1
        /\ k <= F => r[k] \in 0 .. 2
    BY Registers
  <2>2. ASSUME k <= F PROVE Source!Up(args[k]) = N[k] <=> r[k] = k - 1
    <3>. HIDE DEF N
    <3>1. Up(args[k]) = N[r[k] + 1] /\ \A j \in 0 .. 2 : Up(args[k]) = N[j + 1] => r[k] = j
      BY <2>2, Registers DEF N
    <3>2. k - 1 \in 0 .. 2 /\ (k - 1) + 1 = k
      OBVIOUS
    <3>3. Source!Up(args[k]) = Up(args[k])
      BY SameNames
    <3>. QED
      BY <3>1, <3>2, <3>3
  <2>. QED
    BY <2>1, <2>2
<1>. DEFINE names == SubSeq(Source!RegNames, 1, IF Source!Has(3) THEN 3 ELSE Len(args))
<1>3. DOMAIN names = 1 .. F /\ \A k \in 1 .. F : names[k] = N[k]
  <2>1. (IF Source!Has(3) THEN 3 ELSE Len(args)) = F
    <3>1. args = Now.args /\ Mnemonic(Now) = "SYSCALL" /\ Len(Now.args) \in Nat
      BY Operands1, NowFits
    <3>2. F = IF Len(args) > 3 THEN 3 ELSE Len(args)
      BY <3>1 DEF NumFields
    <3>. QED
      BY <3>1, <3>2 DEF Source!Has
  <2>2. Source!RegNames = N /\ N \in Seq({"RA", "RB", "RC"}) /\ Len(N) = 3
    <3>1. N \in Seq({"RA", "RB", "RC"}) /\ Len(N) = 3
      OBVIOUS
    <3>2. Source!RegNames = N
      BY Zenon DEF Source!RegNames
    <3>. QED
      BY <3>1, <3>2
  <2>3. names = SubSeq(N, 1, F)
    BY <2>1, <2>2, Zenon
  <2>. HIDE DEF N
  <2>. QED
    BY <1>1, <2>2, <2>3
<1>. HIDE DEF N, names
<1>4. (\E k \in DOMAIN names : Source!Up(args[k]) # names[k]) <=> ~named
  <2>1. \A k \in 1 .. F : k \in 1 .. 3 /\ k <= F
    BY <1>1
  <2>2. \A k \in 1 .. F : Source!Up(args[k]) = names[k] <=> r[k] = k - 1
    BY <1>2, <1>3, <2>1
  <2>. QED
    BY <1>3, <2>2
<1>. DEFINE needs == IF n \in {0, 1, 5, 7} THEN 2 ELSE IF n \in {2, 4, 6, 9, 10} THEN 3 ELSE 1
<1>5. Source!SyscallFails <=>
        \/ n \notin 0 .. highest
        \/ IF dialect = "isa" THEN ~named \/ (n = 9 /\ ~Source!Has(3)) ELSE ~Source!Has(needs)
  BY <1>1, <1>4 DEF Source!SyscallFails, names
<1>6. /\ Source!Has(1) /\ r[1] \in 0 .. 2
      /\ Source!Has(2) <=> F >= 2
      /\ Source!Has(3) <=> F >= 3
      /\ IF F >= 2 THEN r[2] \in 0 .. 2 ELSE r[2] = -1
      /\ IF F >= 3 THEN r[3] \in 0 .. 2 ELSE r[3] = -1
  BY <1>1, <1>2
<1>7. named <=> r[1] = RA /\ r[2] \in {-1, RB} /\ r[3] \in {-1, RC}
  <2>1. CASE F = 1
    BY <1>6, <2>1 DEF RA, RB, RC
  <2>2. CASE F = 2
    BY <1>6, <2>2 DEF RA, RB, RC
  <2>3. CASE F = 3
    BY <1>6, <2>3 DEF RA, RB, RC
  <2>. QED
    BY <1>1, <2>1, <2>2, <2>3
<1>8. Present(fetchInstr, {1}) /\ (Present(fetchInstr, {2, 3}) <=> Source!Has(3))
  BY <1>1, <1>6 DEF Present
<1>9. Present(fetchInstr, Fields(n)) <=> Source!Has(needs)
  <2>1. CASE n \in {0, 1, 5, 7}
    BY <1>1, <1>6, <2>1 DEF Present, Fields
  <2>2. CASE n \in {2, 4, 6, 9, 10}
    BY <1>1, <1>6, <2>2 DEF Present, Fields
  <2>3. CASE n \notin {0, 1, 5, 7} \cup {2, 4, 6, 9, 10}
    BY <1>1, <1>6, <2>3 DEF Present, Fields
  <2>. QED
    BY <2>1, <2>2, <2>3
<1>. HIDE DEF n, r, named, needs
<1>10. SyscallLegal(fetchInstr, n) <=>
         /\ n \in 0 .. highest
         /\ IF dialect = "isa" THEN named /\ (n = 9 => Source!Has(3)) ELSE Source!Has(needs)
  BY <1>7, <1>8, <1>9 DEF SyscallLegal, r
<1>. QED
  BY <1>5, <1>10 DEF n

LEMMA FaultsAreFailures ==
    ASSUME Going
    PROVE  Faults(fetchInstr) <=> Source!Fails
<1>. DEFINE i == fetchInstr
            op == i.op
            outside == \E a \in Checked(i) : ~InBounds(a)
<1>1. Source!Code = op /\ op \in OPCODES
  BY Operands1
<1>2. ~(pc + INSTRSZ > MemSz)
  <2>1. pc + INSTRSZ <= Len(code) /\ Len(code) <= CodeSz /\ CodeSz <= MemSz
        /\ pc \in Nat /\ Len(code) \in Nat /\ CodeSz \in Nat
    BY CodeIsLow
  <2>. QED
    BY <2>1, WordSize, SizesAssumption
<1>3. op # "?"
  <2>1. "?" \notin OpcodeNames
    BY Zenon DEF OpcodeNames
  <2>. QED
    BY <1>1, <2>1, OpcodesNamed
<1>4. op # "SYSCALL" => NumFields(Now) = NumRegs(op) /\ NumRegs(op) \in 0 .. 3
  BY Operands1, NowFits
<1>5. op # "SYSCALL" => Present(i, 1 .. NumRegs(op))
  <2>. SUFFICES ASSUME op # "SYSCALL", NEW k \in 1 .. NumRegs(op) PROVE i.r[k] # -1
    BY DEF Present
  <2>1. k \in 1 .. 3 /\ k <= NumFields(Now)
    BY <1>4
  <2>. QED
    BY <2>1, Registers
<1>6. DividesByZero(op, Reg(i, 3)) <=> Source!DividesByZero(op, Source!Reg(3))
  <2>1. \A b : Source!DividesByZero(op, b) = DividesByZero(op, b)
    BY SameResults
  <2>2. op \in {"DIV", "MOD"} => NumFields(Now) = 3
    <3>1. CASE op = "DIV"
      BY <1>4, <3>1 DEF NumRegs, ThreeRegs, Branches
    <3>2. CASE op = "MOD"
      BY <1>4, <3>2 DEF NumRegs, ThreeRegs, Branches
    <3>. QED
      BY <3>1, <3>2
  <2>3. op \in {"DIV", "MOD"} => Reg(i, 3) = Source!Reg(3)
    BY <2>2, Registers
  <2>. QED
    BY <2>1, <2>3 DEF DividesByZero
<1>7. op \in Pushes => (outside <=> ~Source!Room)
  BY PushFaults
<1>8. op \in Pops => ~outside
  BY PopsFit
<1>9. op \in {"LOAD", "LOADI", "STORE", "STOREI"} =>
        (outside <=> \E e \in Source!Extents : e[1] >= MemSz)
  BY WordFaults
<1>10. op \notin Pushes \cup Pops \cup {"LOAD", "LOADI", "STORE", "STOREI"} => ~outside
  BY DEF Checked
<1>11. op = "SYSCALL" => (SyscallLegal(i, Reg(i, 1)) <=> ~Source!SyscallFails)
  BY SyscallFaults
<1>. HIDE DEF i, outside
<1>12. Faults(i) <=> \/ DividesByZero(op, Reg(i, 3)) \/ outside
                     \/ op = "SYSCALL" /\ ~SyscallLegal(i, Reg(i, 1))
  BY <1>2, <1>3, <1>5 DEF Faults, outside
<1>13. Source!Fails <=>
         \/ Source!DividesByZero(op, Source!Reg(3))
         \/ op \in Pushes /\ ~Source!Room
         \/ op \in {"LOAD", "LOADI", "STORE", "STOREI"} /\ \E e \in Source!Extents : e[1] >= MemSz
         \/ op = "SYSCALL" /\ Source!SyscallFails
  BY <1>1 DEF Source!Fails, Pushes
<1>. HIDE DEF op
<1>14. op \notin Pushes \cap Pops /\ op \notin Pushes \cap {"LOAD", "LOADI", "STORE", "STOREI"}
       /\ op \notin Pops \cap {"LOAD", "LOADI", "STORE", "STOREI"}
  BY DEF Pushes, Pops
<1>. QED
  BY <1>6, <1>7, <1>8, <1>9, <1>10, <1>11, <1>12, <1>13, <1>14 DEF i

----------------------------------------------------------------------------
(* What a step changes, read in the text's terms *)

Doing == /\ Going /\ instrCnt < MaxInstrs /\ ~Faults(fetchInstr)
         /\ instrCnt' = CountAfter /\ src' = src /\ dialect' = dialect

CodeKept == \A a \in CodeBytes : ByteAt(mem', a) = ByteAt(mem, a)
WholeCells == \E n \in Nat : sp' + n * CellBytes = StackBase

LEMMA DataNext ==
    ASSUME src \in DOMAIN Sources, lines \in Seq(PlainLine), src' = src, dialect' = dialect
    PROVE  PlainData' = DataIn(mem')
<1>1. Layout[src].code = CodeBytes
  BY LayoutIs
<1>2. Layout' = Layout
  OBVIOUS
<1>. QED
  BY <1>1, <1>2 DEF PlainData, DataIn

LEMMA StackNext == CellStack' = CellsOf(mem', sp')
BY DEF CellStack, CellsOf, CellIn, Cell

LEMMA NothingMoved ==
    ASSUME Doing, mem' = mem, sp' = sp
    PROVE  CellStack' = CellStack /\ PlainData' = PlainData /\ CodeKept /\ WholeCells
<1>1. src \in DOMAIN Sources /\ lines \in Seq(PlainLine)
  BY TextRuns DEF Doing, Going
<1>2. PlainData' = PlainData
  BY <1>1, DataNext, PlainDataIs DEF Doing
<1>3. CellStack' = CellStack
  BY StackNext, CellStackIs
<1>4. CodeKept
  BY DEF CodeKept
<1>5. WholeCells
  BY DEF Doing, Going, SimInv, WholeCells
<1>. QED
  BY <1>2, <1>3, <1>4, <1>5

LEMMA DataMoved ==
    ASSUME Doing, sp' = sp, NEW a \in Int, NEW bs, Len(bs) \in Nat,
           \A x \in a .. a + Len(bs) - 1 : IsData(x), mem' = Overlay(mem, a, bs)
    PROVE  /\ CellStack' = CellStack /\ CodeKept /\ WholeCells
           /\ PlainData' = Source!NonZero(Source!Overlay(PlainData, a, bs))
<1>1. src \in DOMAIN Sources /\ lines \in Seq(PlainLine) /\ Going
  BY TextRuns DEF Doing, Going
<1>2. \A x : ByteAt(mem', x) = IF x \in a .. a + Len(bs) - 1 THEN bs[x - a + 1] ELSE ByteAt(mem, x)
  BY ByteAtOverlay
<1>3. PlainData' = DataIn(Overlay(mem, a, bs)) /\ PlainData = DataIn(mem)
  BY <1>1, DataNext, PlainDataIs DEF Doing
<1>4. DataIn(Overlay(mem, a, bs)) = Reading!NonZero(Overlay(DataIn(mem), a, bs))
  BY DataWritten
<1>5. PlainData' = Source!NonZero(Source!Overlay(PlainData, a, bs))
  BY <1>3, <1>4, SameMemory
<1>6. CellStack' = CellStack
  <2>1. sp \in Int /\ sp >= StackLoOf(dialect) /\ StackLoOf(dialect) \in Int
    BY <1>1, StackNow
  <2>2. ASSUME NEW x \in Int, x >= sp PROVE ByteAt(mem', x) = ByteAt(mem, x)
    <3>1. ~IsData(x)
      BY <2>1, <2>2 DEF IsData
    <3>. QED
      BY <1>2, <3>1
  <2>3. CellsOf(mem', sp) = CellsOf(mem, sp)
    BY <2>1, <2>2, StackKept
  <2>. QED
    BY <2>3, StackNext, CellStackIs
<1>7. CodeKept
  BY <1>2 DEF CodeKept, IsData
<1>8. WholeCells
  BY DEF Doing, Going, SimInv, WholeCells
<1>. QED
  BY <1>5, <1>6, <1>7, <1>8

LEMMA CellsPushed ==
    ASSUME Doing, NEW d \in Nat, sp' = sp - CellBytes * d, sp' >= StackLoOf(dialect),
           NEW bs \in Seq(Byte), Len(bs) = d * CellBytes, mem' = Overlay(mem, sp', bs),
           NEW cells \in Seq(Int), Len(cells) = d,
           \A k \in 1 .. d : cells[k] = LE([j \in 1 .. CellBytes |-> bs[(k - 1) * CellBytes + j]])
    PROVE  /\ CellStack' = cells \o CellStack /\ PlainData' = PlainData
           /\ CodeKept /\ WholeCells
<1>1. src \in DOMAIN Sources /\ lines \in Seq(PlainLine) /\ Going /\ Memory(mem)
  BY TextRuns DEF Doing, Going, MachineType
<1>2. /\ sp \in Int /\ StackLoOf(dialect) \in Int /\ CellBytes \in Nat
      /\ StackLoOf(dialect) >= MemSz + 3 * CellBytes /\ MemSz \in Nat
  BY <1>1, StackNow, CellBytesAssumption
<1>3. sp' \in Int /\ Len(bs) \in Nat
  BY <1>2
<1>4. \A x : ByteAt(mem', x) = IF x \in sp' .. sp' + Len(bs) - 1 THEN bs[x - sp' + 1] ELSE ByteAt(mem, x)
  BY <1>3, ByteAtOverlay
<1>5. PICK n \in Nat : sp + n * CellBytes = StackBase
  BY <1>1 DEF Going, SimInv
<1>6. CellStack' = cells \o CellStack
  <2>1. CellsOf(Overlay(mem, sp - CellBytes * d, bs), sp - CellBytes * d) = cells \o CellsOf(mem, sp)
    BY <1>1, <1>2, <1>5, StackPushed, ZenonT(60)
  <2>. QED
    BY <2>1, StackNext, CellStackIs
<1>7. ASSUME NEW x \in Int, x < StackLoOf(dialect) PROVE ByteAt(mem', x) = ByteAt(mem, x)
  <2>1. x \notin sp' .. sp' + Len(bs) - 1
    BY <1>2, <1>3, <1>7
  <2>. QED
    BY <1>4, <2>1
<1>8. PlainData' = PlainData
  <2>1. ASSUME NEW x, IsData(x) PROVE ByteAt(mem', x) = ByteAt(mem, x)
    <3>1. CASE x \in Int
      BY <1>7, <2>1, <3>1 DEF IsData
    <3>2. CASE x \notin Int
      BY <1>4, <3>2
    <3>. QED
      BY <3>1, <3>2
  <2>2. DataIn(mem') = DataIn(mem)
    BY <2>1, DataKept
  <2>. QED
    BY <1>1, <2>2, DataNext, PlainDataIs DEF Doing
<1>9. CodeKept
  <2>1. \A a \in CodeBytes : a \in Int /\ a < StackLoOf(dialect)
    <3>1. /\ \A a \in CodeBytes : a \in 0 .. Len(code) - 1
          /\ Len(code) <= CodeSz /\ CodeSz <= MemSz /\ CodeSz \in Nat /\ Len(code) \in Nat
      BY <1>1, CodeIsLow
    <3>. QED
      BY <1>2, <3>1
  <2>. QED
    BY <1>7, <2>1 DEF CodeKept
<1>10. WholeCells
  <2>1. d + n \in Nat /\ sp' + (d + n) * CellBytes = StackBase
    BY <1>2, <1>5
  <2>. QED
    BY <2>1 DEF WholeCells
<1>. QED
  BY <1>6, <1>8, <1>9, <1>10

LEMMA CellsPopped ==
    ASSUME Doing, mem' = mem, NEW d \in 0 .. Len(CellStack), sp' = sp + CellBytes * d
    PROVE  /\ CellStack' = SubSeq(CellStack, d + 1, Len(CellStack)) /\ PlainData' = PlainData
           /\ CodeKept /\ WholeCells
<1>1. src \in DOMAIN Sources /\ lines \in Seq(PlainLine) /\ Going /\ Memory(mem)
  BY TextRuns DEF Doing, Going, MachineType
<1>. DEFINE n == Len(CellStack)
<1>2. n \in Nat /\ sp + n * CellBytes = StackBase /\ sp \in Int /\ CellStack = CellsOf(mem, sp)
  BY <1>1, StackNow
<1>. HIDE DEF n
<1>3. d \in 0 .. n
  BY DEF n
<1>4. /\ (sp + CellBytes * d) + (n - d) * CellBytes = StackBase
      /\ CellsOf(mem, sp + CellBytes * d) = SubSeq(CellsOf(mem, sp), d + 1, n)
  BY <1>1, <1>2, <1>3, StackPopped
<1>5. CellStack' = SubSeq(CellStack, d + 1, n)
  BY <1>2, <1>4, StackNext
<1>6. WholeCells
  <2>1. n - d \in Nat
    BY <1>2, <1>3
  <2>. QED
    BY <1>4, <2>1 DEF WholeCells
<1>7. PlainData' = PlainData
  BY <1>1, DataNext, PlainDataIs DEF Doing
<1>8. CodeKept
  BY DEF CodeKept
<1>. QED
  BY <1>5, <1>6, <1>7, <1>8 DEF n

LEMMA NextPlace ==
    ASSUME Going
    PROVE  Layout[src].place[AtLine] = pc /\ Layout[src].place[AtLine + 1] = pc + INSTRSZ
<1>1. AtLine \in InstrLines /\ Places[AtLine] = pc /\ src \in DOMAIN Sources
      /\ lines \in Seq(PlainLine)
  BY TextRuns DEF Going
<1>2. Places[AtLine + 1] = Places[AtLine] + INSTRSZ
  BY <1>1, PlacesUnfold
<1>3. Layout[src].place = Places
  BY <1>1, LayoutIs
<1>. QED
  BY <1>1, <1>2, <1>3

\* A step to where the text goes next.
LEMMA Goes ==
    ASSUME Doing, state' = state, pc' = Source!Target, fetchInstr.op # "HALT", ~Source!Leaves
    PROVE  Source!Go
<1>1. Source!Code = fetchInstr.op /\ Going /\ state = "running" /\ src' = src
  BY Operands1 DEF Doing, Going
<1>2. Source!Target \in DOMAIN Layout[src].lineAt
  BY <1>1 DEF Going, Source!Undefined
<1>3. Layout' = Layout
  OBVIOUS
<1>4. AtLine' = Layout[src].lineAt[Source!Target]
  BY <1>1, <1>2, <1>3 DEF AtLine
<1>. QED
  BY <1>4 DEF Source!Go

LEMMA Stops ==
    ASSUME NEW how, state' = how, how # "running"
    PROVE  Source!Stop(how)
<1>1. AtLine' = 0
  BY DEF AtLine
<1>. QED
  BY <1>1 DEF Source!Stop

\* Where an instruction that neither jumps nor stops goes.
LEMMA Onwards ==
    ASSUME Doing, Onward, fetchInstr.op \in OPCODES \ (Branches \cup {"JMP", "CALL", "RET"})
    PROVE  state' = state /\ pc' = Source!Target
<1>1. Source!Code = fetchInstr.op /\ Layout[src].place[AtLine + 1] = pc + INSTRSZ
  BY Operands1, NextPlace DEF Doing
<1>2. Source!Target = pc + INSTRSZ
  BY <1>1, SameNames DEF Source!Target
<1>. QED
  BY <1>2 DEF Onward

\* The parts of what the text's instruction does.
LEMMA InstructionIs ==
    ASSUME Doing, input' = input, out' = out, fetchInstr.op # "SYSCALL",
           IF fetchInstr.op = "HALT" THEN state' = "halted" ELSE state' = state /\ pc' = Source!Target,
           fetchInstr.op \in Pushes => CellStack' = Source!Stacked \o CellStack,
           fetchInstr.op \in Pops =>
              CellStack' = SubSeq(CellStack, Source!Depth + 1, Len(CellStack)),
           fetchInstr.op \notin Pushes \cup Pops => CellStack' = CellStack,
           fetchInstr.op \in Source!ComputeOps => Source!Set(Source!Computed),
           fetchInstr.op \in {"POP", "POPA"} => regs' = Source!Popped,
           fetchInstr.op \notin Source!ComputeOps \cup {"POP", "POPA"} => regs' = regs,
           fetchInstr.op \in {"STORE", "STOREI"} =>
              PlainData' = Source!NonZero(Source!Overlay(PlainData,
                 CHOOSE a \in Source!Touched : \A b \in Source!Touched : a <= b,
                 Source!Bytes(IF fetchInstr.op = "STORE" THEN Source!Reg(2) ELSE Source!Reg(1), WordBytes))),
           fetchInstr.op \notin {"STORE", "STOREI"} => PlainData' = PlainData
    PROVE  Source!Instruction
<1>. DEFINE op == Source!Code
<1>1. fetchInstr.op = op /\ Going /\ state = "running" /\ src' = src /\ dialect' = dialect
  BY Operands1 DEF Doing, Going
<1>2. Source!Running /\ ~Source!Fails /\ ~Source!Undefined /\ instrCnt' = instrCnt + 1
  <2>1. AtLine # 0
    BY <1>1 DEF Going, Source!Undefined
  <2>2. instrCnt' = instrCnt + 1
    <3>1. state' \in {"running", "halted"} /\ instrCnt' = CountAfter
      BY <1>1 DEF Doing
    <3>. QED
      BY <3>1 DEF CountAfter
  <2>. QED
    BY <1>1, <2>1, <2>2, FaultsAreFailures DEF Doing, Going, Source!Running
<1>3. IF op = "HALT" THEN Source!Stop("halted") ELSE Source!Go
  <2>1. op # "SYSCALL" => ~Source!Leaves
    BY <1>1 DEF Source!Leaves, op
  <2>. QED
    BY <1>1, <2>1, Goes, Stops
<1>4. CellStack' = CASE op \in {"PUSH", "PUSHI", "PUSHA", "CALL"} -> Source!Stacked \o CellStack
                     [] op \in {"POP", "POPA", "RET"} -> SubSeq(CellStack, Source!Depth + 1, Len(CellStack))
                     [] OTHER -> CellStack
  BY <1>1 DEF Pushes, Pops
<1>5. (CASE op \in Source!ComputeOps -> Source!Set(Source!Computed)
         [] op \in {"POP", "POPA"} -> regs' = Source!Popped
         [] OTHER -> UNCHANGED regs)
  <2>1. Source!ComputeOps \cap {"POP", "POPA"} = {}
    BY DEF Source!ComputeOps, Source!ThreeRegs, Source!OneReg, Source!RegImm
  <2>2. CASE op \in Source!ComputeOps
    BY <1>1, <2>1, <2>2
  <2>3. CASE op \in {"POP", "POPA"}
    BY <1>1, <2>1, <2>3
  <2>4. CASE op \notin Source!ComputeOps \cup {"POP", "POPA"}
    BY <1>1, <2>4
  <2>. QED
    BY <2>2, <2>3, <2>4
<1>6. PlainData' = IF op \in {"STORE", "STOREI"}
                   THEN Source!NonZero(Source!Overlay(PlainData,
                           CHOOSE a \in Source!Touched : \A b \in Source!Touched : a <= b,
                           Source!Bytes(IF op = "STORE" THEN Source!Reg(2) ELSE Source!Reg(1), WordBytes)))
                   ELSE PlainData
  BY <1>1
<1>7. op # "SYSCALL" /\ UNCHANGED <<dialect, src, input, out>>
  BY <1>1
<1>. QED
  BY <1>2, <1>3, <1>4, <1>5, <1>6, <1>7, Zenon DEF Source!Instruction

----------------------------------------------------------------------------
(* Each instruction of the machine is the one of the text *)

LEMMA RegistersNamed ==
    ASSUME Going
    PROVE  LET op == fetchInstr.op
           IN /\ op \in ThreeRegs \cup {"PUSHA", "POPA"} => NumFields(Now) = 3
              /\ op \in Branches \cup {"MOVR", "LOAD", "STORE"} => NumFields(Now) = 2
              /\ op \in OneReg \cup RegImm \cup {"MOV", "LOADI", "STOREI", "CALL", "PUSH", "POP"}
                    => NumFields(Now) = 1
              /\ op = "SYSCALL" => NumFields(Now) \in 1 .. 3
<1>. DEFINE op == fetchInstr.op
<1>1. /\ op # "SYSCALL" => NumFields(Now) = NumRegs(op)
      /\ op = "SYSCALL" => NumFields(Now) \in 1 .. 3
  BY NowFits, Operands1
<1>. HIDE DEF op
<1>2. op \in ThreeRegs \cup {"PUSHA", "POPA"} => op # "SYSCALL" /\ NumRegs(op) = 3
  BY DEF NumRegs, ThreeRegs, Branches
<1>3. op \in Branches \cup {"MOVR", "LOAD", "STORE"} => op # "SYSCALL" /\ NumRegs(op) = 2
  BY DEF NumRegs, ThreeRegs, Branches
<1>4. op \in OneReg \cup RegImm \cup {"MOV", "LOADI", "STOREI", "CALL", "PUSH", "POP"}
         => op # "SYSCALL" /\ NumRegs(op) = 1
  BY DEF NumRegs, ThreeRegs, Branches, OneReg, RegImm
<1>. QED
  BY <1>1, <1>2, <1>3, <1>4 DEF op

LEMMA Sets ==
    ASSUME Going, NumFields(Now) \in 1 .. 3, NEW v, Assign(fetchInstr, to24(v))
    PROVE  Source!Set(v)
<1>1. fetchInstr.r[1] = Source!Field(Source!Args[1])
  BY Registers
<1>2. Source!to24(v) = to24(v)
  BY SameNumbers
<1>. QED
  BY <1>1, <1>2 DEF Assign, Source!Set

LEMMA Halts ==
    ASSUME Doing, Halt(fetchInstr)
    PROVE  Source!Instruction /\ CodeKept /\ WholeCells
<1>1. fetchInstr.op = "HALT" /\ state' = "halted" /\ input' = input /\ out' = out /\ regs' = regs
  BY DEF Halt
<1>2. CellStack' = CellStack /\ PlainData' = PlainData /\ CodeKept /\ WholeCells
  BY NothingMoved DEF Halt
<1>3. fetchInstr.op \notin Pushes \cup Pops \cup Source!ComputeOps \cup {"STORE", "STOREI", "SYSCALL"}
  BY <1>1 DEF Pushes, Pops, Source!ComputeOps, Source!ThreeRegs, Source!OneReg, Source!RegImm
<1>4. fetchInstr.op \notin {"POP", "POPA"}
  BY <1>1
<1>. HIDE DEF Doing
<1>. QED
  BY <1>1, <1>2, <1>3, <1>4, InstructionIs

\* The instructions that only compute, but for the loads.
LEMMA Computes ==
    ASSUME Doing, Onward, mem' = mem, sp' = sp, input' = input, out' = out,
           fetchInstr.op \in ThreeRegs \cup OneReg \cup RegImm \cup {"MOV", "MOVR", "LOAD", "LOADI"},
           Assign(fetchInstr, to24(Source!Computed))
    PROVE  Source!Instruction /\ CodeKept /\ WholeCells
<1>. DEFINE op == fetchInstr.op
<1>1. op \in OPCODES /\ NumFields(Now) \in 1 .. 3
  BY Operands1, RegistersNamed DEF Doing
<1>2. CellStack' = CellStack /\ PlainData' = PlainData /\ CodeKept /\ WholeCells
  BY NothingMoved
<1>3. op \notin Pushes \cup Pops \cup Branches \cup {"STORE", "STOREI", "SYSCALL", "HALT", "JMP", "POP", "POPA"}
  BY DEF Pushes, Pops, Branches, ThreeRegs, OneReg, RegImm
<1>4. op \in OPCODES \ (Branches \cup {"JMP", "CALL", "RET"})
  BY <1>1, <1>3 DEF Pushes, Pops
<1>5. state' = state /\ pc' = Source!Target
  BY <1>4, Onwards
<1>6. Source!Set(Source!Computed)
  BY <1>1, Sets DEF Doing
<1>7. op \in Source!ComputeOps
  BY SameNames DEF Source!ComputeOps
<1>. HIDE DEF op
<1>8. fetchInstr.op \notin Pushes \cup Pops \cup {"STORE", "STOREI", "SYSCALL", "HALT", "POP", "POPA"}
      /\ fetchInstr.op \in Source!ComputeOps
  BY <1>3, <1>7 DEF op
<1>. QED
  BY <1>2, <1>5, <1>6, <1>8, InstructionIs

LEMMA Moves ==
    ASSUME Doing, Move(fetchInstr)
    PROVE  Source!Instruction /\ CodeKept /\ WholeCells
<1>. DEFINE i == fetchInstr
<1>1. /\ i.op \in {"MOV", "MOVR"} /\ Onward /\ mem' = mem /\ sp' = sp /\ input' = input /\ out' = out
      /\ Assign(i, IF i.op = "MOV" THEN to24(i.imm) ELSE Reg(i, 2))
  BY DEF Move
<1>2. Going /\ MachineType /\ Source!Code = i.op /\ i \in Decoded
      /\ (TakesImm(i.op) => i.imm = Source!Imm)
  BY Operands1 DEF Doing, Going
<1>3. CASE i.op = "MOV"
  <2>1. Source!Computed = i.imm
    BY <1>2, <1>3 DEF Source!Computed, TakesImm, Source!ThreeRegs
  <2>. QED
    BY <1>1, <1>3, <2>1, Computes
<1>4. CASE i.op = "MOVR"
  <2>1. Reg(i, 2) = Source!Reg(2) /\ Reg(i, 2) \in Word /\ Reg(i, 2) \in Int
    BY <1>2, <1>4, RegistersNamed, Registers
  <2>2. Source!Computed = Reg(i, 2)
    BY <1>2, <1>4, <2>1 DEF Source!Computed, Source!ThreeRegs
  <2>3. to24(Reg(i, 2)) = Reg(i, 2)
    BY <2>1, To24Keeps
  <2>. QED
    BY <1>1, <1>4, <2>2, <2>3, Computes
<1>. QED
  BY <1>1, <1>3, <1>4

LEMMA ComputesOfTwo ==
    ASSUME Doing, Compute2(fetchInstr)
    PROVE  Source!Instruction /\ CodeKept /\ WholeCells
<1>. DEFINE i == fetchInstr
            a == Reg(i, 2)
            b == Reg(i, 3)
<1>1. /\ i.op \in ThreeRegs /\ Onward /\ mem' = mem /\ sp' = sp /\ input' = input /\ out' = out
      /\ Assign(i, Binary(i.op, a, b))
  BY DEF Compute2
<1>2. Going /\ Source!Code = i.op
  BY Operands1 DEF Doing
<1>3. a = Source!Reg(2) /\ a \in Int /\ b = Source!Reg(3) /\ b \in Int
  BY <1>1, <1>2, RegistersNamed, Registers
<1>4. ~DividesByZero(i.op, b)
  BY DEF Doing, Faults
<1>. HIDE DEF a, b
<1>5. Source!Computed = Binary(i.op, a, b)
  <2>1. Source!Code \in Source!ThreeRegs
           /\ Source!Code \notin {"MOV", "MOVR", "LOAD", "LOADI"}
    BY <1>1, <1>2, SameNames DEF ThreeRegs
  <2>2. Source!Computed = Source!Binary(Source!Code, Source!Reg(2), Source!Reg(3))
    BY <2>1 DEF Source!Computed
  <2>. QED
    BY <1>2, <1>3, <2>2, SameResults
<1>6. to24(Binary(i.op, a, b)) = Binary(i.op, a, b)
  <2>1. Binary(i.op, a, b) \in Word
    BY <1>1, <1>3, <1>4, BinaryWord
  <2>2. Binary(i.op, a, b) \in Int
    BY <2>1, WordsAreInts
  <2>. QED
    BY <2>1, <2>2, To24Keeps
<1>. QED
  BY <1>1, <1>5, <1>6, Computes

\* The challenges' machines exchange the two instructions and so does Meant.
LEMMA MeantIs ==
    ASSUME NEW op \in OneReg \cup RegImm, Source!Code = op, NEW a, NEW n
    PROVE  Unary("isa", Source!Meant, a, n) = Unary(dialect, op, a, n)
<1>1. CASE dialect = "isa"
  BY <1>1 DEF Source!Meant
<1>2. CASE dialect # "isa" /\ op = "NOT"
  <2>1. Source!Meant = "NEG"
    BY <1>2 DEF Source!Meant
  <2>. QED
    BY <1>2, <2>1 DEF Unary
<1>3. CASE dialect # "isa" /\ op = "NEG"
  <2>1. Source!Meant = "NOT"
    BY <1>3 DEF Source!Meant
  <2>. QED
    BY <1>3, <2>1 DEF Unary
<1>4. CASE dialect # "isa" /\ op \notin {"NOT", "NEG"}
  <2>1. Source!Meant = op
    BY <1>4 DEF Source!Meant
  <2>. QED
    BY <1>4, <2>1 DEF Unary, OneReg, RegImm
<1>. QED
  BY <1>1, <1>2, <1>3, <1>4

LEMMA ComputesOfOne ==
    ASSUME Doing, Compute1(fetchInstr)
    PROVE  Source!Instruction /\ CodeKept /\ WholeCells
<1>. DEFINE i == fetchInstr
            a == Reg(i, 1)
<1>1. /\ i.op \in OneReg \cup RegImm /\ Onward /\ mem' = mem /\ sp' = sp /\ input' = input /\ out' = out
      /\ Assign(i, Unary(dialect, i.op, a, i.imm))
  BY DEF Compute1
<1>2. /\ Going /\ Source!Code = i.op /\ i \in Decoded
      /\ TakesImm(i.op) => i.imm = Source!Imm
  BY Operands1 DEF Doing
<1>3. a = Source!Reg(1) /\ a \in Int /\ i.imm \in Int
  BY <1>1, <1>2, RegistersNamed, Registers, WordsAreInts DEF Decoded
<1>. HIDE DEF a
<1>4. Source!Computed = Unary(dialect, i.op, a, IF TakesImm(i.op) THEN i.imm ELSE 0)
  <2>1. Source!Code \notin Source!ThreeRegs \cup {"MOV", "MOVR", "LOAD", "LOADI"}
    BY <1>1, <1>2, SameNames DEF OneReg, RegImm, ThreeRegs
  <2>2. Source!Computed = Source!Unary("isa", Source!Meant, Source!Reg(1),
                                       IF Source!TakesImm(Source!Code) THEN Source!Imm ELSE 0)
    BY <2>1 DEF Source!Computed
  <2>3. (IF Source!TakesImm(Source!Code) THEN Source!Imm ELSE 0)
           = IF TakesImm(i.op) THEN i.imm ELSE 0
    BY <1>2, SameNames
  <2>4. Source!Computed = Unary("isa", Source!Meant, a, IF TakesImm(i.op) THEN i.imm ELSE 0)
    BY <1>3, <2>2, <2>3, SameResults
  <2>5. i.op \in OneReg \cup RegImm
    BY <1>1
  <2>. HIDE DEF i
  <2>6. \A n : Unary("isa", Source!Meant, a, n) = Unary(dialect, i.op, a, n)
    BY <1>2, <2>5, MeantIs
  <2>. QED
    BY <2>4, <2>6
<1>5. Unary(dialect, i.op, a, IF TakesImm(i.op) THEN i.imm ELSE 0) = Unary(dialect, i.op, a, i.imm)
  <2>1. CASE TakesImm(i.op)
    BY <2>1
  <2>2. CASE ~TakesImm(i.op)
    <3>1. i.op \in OneReg
      BY <1>1, <2>2 DEF TakesImm
    <3>. HIDE DEF i
    <3>2. ASSUME NEW m \in Int, NEW n \in Int PROVE Unary(dialect, i.op, a, m) = Unary(dialect, i.op, a, n)
      BY <3>1 DEF Unary, OneReg
    <3>. QED
      BY <1>3, <3>2
  <2>. QED
    BY <2>1, <2>2
<1>6. to24(Unary(dialect, i.op, a, i.imm)) = Unary(dialect, i.op, a, i.imm)
  <2>1. Unary(dialect, i.op, a, i.imm) \in Word
    BY <1>1, <1>3, UnaryWord
  <2>2. Unary(dialect, i.op, a, i.imm) \in Int
    BY <2>1, WordsAreInts
  <2>. QED
    BY <2>1, <2>2, To24Keeps
<1>. QED
  BY <1>1, <1>4, <1>5, <1>6, Computes

LEMMA Loads ==
    ASSUME Doing, Load(fetchInstr)
    PROVE  Source!Instruction /\ CodeKept /\ WholeCells
<1>. DEFINE i == fetchInstr
<1>1. /\ i.op \in {"LOAD", "LOADI"} /\ Onward /\ mem' = mem /\ sp' = sp /\ input' = input /\ out' = out
      /\ \E a \in Checked(i) : Assign(i, to24(LE(BytesAt(mem, a, WordBytes))))
  BY DEF Load
<1>2. Going /\ Source!Code = i.op /\ src \in DOMAIN Sources /\ lines \in Seq(PlainLine)
  BY Operands1, TextRuns DEF Doing, Going
<1>3. PICK a \in 0 .. Top - 1 :
         /\ Checked(i) = {a}
         /\ \A x \in a .. a + WordBytes - 1 : IsData(x)
         /\ (CHOOSE b \in Source!Touched : \A c \in Source!Touched : b <= c) = a
  BY <1>1, <1>2, WordTouched
<1>4. BytesAt(PlainData, a, WordBytes) = BytesAt(mem, a, WordBytes)
  BY <1>2, <1>3, DataRead, PlainDataIs, WordBytesAssumption
<1>5. Source!Computed = LE(BytesAt(mem, a, WordBytes))
  <2>. DEFINE low == CHOOSE b \in Source!Touched : \A c \in Source!Touched : b <= c
  <2>1. Source!Computed = Source!LE(Source!BytesAt(PlainData, low, WordBytes))
    BY <1>1, <1>2 DEF Source!Computed, Source!ThreeRegs
  <2>. HIDE DEF low
  <2>2. Source!Computed = Source!LE(Source!BytesAt(PlainData, a, WordBytes))
    BY <1>3, <2>1 DEF low
  <2>. QED
    BY <1>4, <2>2, SameMemory, SameNumbers
<1>. QED
  BY <1>1, <1>3, <1>5, Computes

LEMMA Stores ==
    ASSUME Doing, Store(fetchInstr)
    PROVE  Source!Instruction /\ CodeKept /\ WholeCells
<1>. DEFINE i == fetchInstr
            v == IF i.op = "STORE" THEN Reg(i, 2) ELSE Reg(i, 1)
            low == CHOOSE b \in Source!Touched : \A c \in Source!Touched : b <= c
<1>1. /\ i.op \in {"STORE", "STOREI"} /\ Onward /\ regs' = regs /\ sp' = sp /\ input' = input /\ out' = out
      /\ \E a \in Checked(i) : mem' = Overlay(mem, a, Bytes(v, WordBytes))
  BY DEF Store
<1>2. Going /\ Source!Code = i.op /\ src \in DOMAIN Sources /\ lines \in Seq(PlainLine)
      /\ i.op \in OPCODES
  BY Operands1, TextRuns DEF Doing, Going
<1>3. PICK a \in 0 .. Top - 1 :
         /\ Checked(i) = {a}
         /\ \A x \in a .. a + WordBytes - 1 : IsData(x)
         /\ low = a
  BY <1>1, <1>2, WordTouched
<1>4. v = (IF i.op = "STORE" THEN Source!Reg(2) ELSE Source!Reg(1)) /\ v \in Int
  BY <1>1, <1>2, RegistersNamed, Registers
<1>. HIDE DEF v, low
<1>5. Len(Bytes(v, WordBytes)) = WordBytes /\ WordBytes \in Nat /\ a \in Int
  <2>1. WordBytes \in Nat /\ Top \in Nat
    BY WordBytesAssumption, WordSize
  <2>2. a \in Int
    BY <1>3, <2>1
  <2>. QED
    BY <1>4, <2>1, <2>2, BytesType
<1>6. mem' = Overlay(mem, a, Bytes(v, WordBytes))
  BY <1>1, <1>3
<1>7. /\ CellStack' = CellStack /\ CodeKept /\ WholeCells
      /\ PlainData' = Source!NonZero(Source!Overlay(PlainData, a, Bytes(v, WordBytes)))
  <2>. DEFINE bs == Bytes(v, WordBytes)
  <2>1. Len(bs) \in Nat /\ (\A x \in a .. a + Len(bs) - 1 : IsData(x)) /\ mem' = Overlay(mem, a, bs)
    BY <1>3, <1>5, <1>6
  <2>. HIDE DEF bs
  <2>2. /\ CellStack' = CellStack /\ CodeKept /\ WholeCells
        /\ PlainData' = Source!NonZero(Source!Overlay(PlainData, a, bs))
    BY <1>1, <1>5, <2>1, DataMoved
  <2>. QED
    BY <2>2 DEF bs
<1>8. state' = state /\ pc' = Source!Target
  <2>1. i.op \in OPCODES \ (Branches \cup {"JMP", "CALL", "RET"})
    BY <1>1, <1>2 DEF Branches
  <2>. QED
    BY <1>1, <2>1, Onwards
<1>9. fetchInstr.op \notin Pushes \cup Pops \cup Source!ComputeOps \cup {"SYSCALL", "HALT", "POP", "POPA"}
  BY <1>1 DEF Pushes, Pops, Source!ComputeOps, Source!ThreeRegs, Source!OneReg, Source!RegImm
<1>10. PlainData' = Source!NonZero(Source!Overlay(PlainData,
          CHOOSE b \in Source!Touched : \A c \in Source!Touched : b <= c,
          Source!Bytes(IF fetchInstr.op = "STORE" THEN Source!Reg(2) ELSE Source!Reg(1), WordBytes)))
  <2>1. Source!Bytes(v, WordBytes) = Bytes(v, WordBytes)
    BY SameNumbers
  <2>2. PlainData' = Source!NonZero(Source!Overlay(PlainData, low, Source!Bytes(v, WordBytes)))
    BY <1>3, <1>7, <2>1
  <2>. QED
    BY <1>4, <2>2, Zenon DEF low
<1>. QED
  BY <1>1, <1>7, <1>8, <1>9, <1>10, InstructionIs

LEMMA Jumps ==
    ASSUME Doing, Jump(fetchInstr)
    PROVE  Source!Instruction /\ CodeKept /\ WholeCells
<1>. DEFINE i == fetchInstr
<1>1. /\ i.op \in Branches \cup {"JMP"} /\ state' = state /\ regs' = regs /\ mem' = mem /\ sp' = sp
      /\ input' = input /\ out' = out
      /\ pc' = IF i.op = "JMP" \/ Taken(i.op, Reg(i, 1), Reg(i, 2)) THEN Addr(i.imm) ELSE pc + INSTRSZ
  BY DEF Jump
<1>2. /\ Going /\ Source!Code = i.op /\ (TakesImm(i.op) => i.imm = Source!Imm)
      /\ Layout[src].place[AtLine + 1] = pc + INSTRSZ
  BY Operands1, NextPlace DEF Doing
<1>3. i.imm = Source!Imm
  BY <1>1, <1>2 DEF TakesImm
<1>4. CellStack' = CellStack /\ PlainData' = PlainData /\ CodeKept /\ WholeCells
  BY <1>1, NothingMoved
<1>5. pc' = Source!Target
  <2>1. CASE i.op = "JMP"
    <3>1. Source!Target = Source!Addr(Source!Imm)
      BY <1>2, <2>1 DEF Source!Target, Source!Branches
    <3>. QED
      BY <1>1, <1>3, <2>1, <3>1, SameNumbers
  <2>2. CASE i.op \in Branches
    <3>1. i.op \notin {"JMP", "CALL", "RET"} /\ i.op \in Source!Branches
      BY <2>2, SameNames DEF Branches
    <3>2. Source!Target = IF Source!Taken(i.op, Source!Reg(1), Source!Reg(2))
                          THEN Source!Addr(Source!Imm) ELSE pc + INSTRSZ
      BY <1>2, <3>1 DEF Source!Target
    <3>3. Reg(i, 1) = Source!Reg(1) /\ Reg(i, 2) = Source!Reg(2)
      BY <1>2, <2>2, RegistersNamed, Registers
    <3>4. Source!Taken(i.op, Source!Reg(1), Source!Reg(2)) = Taken(i.op, Reg(i, 1), Reg(i, 2))
      BY <3>3, SameResults
    <3>5. Source!Addr(Source!Imm) = Addr(i.imm)
      BY <1>3, SameNumbers
    <3>. QED
      BY <1>1, <3>1, <3>2, <3>4, <3>5
  <2>. QED
    BY <1>1, <2>1, <2>2
<1>6. fetchInstr.op \notin Pushes \cup Pops \cup Source!ComputeOps
                             \cup {"SYSCALL", "HALT", "POP", "POPA", "STORE", "STOREI"}
  BY <1>1 DEF Pushes, Pops, Branches, Source!ComputeOps, Source!ThreeRegs, Source!OneReg, Source!RegImm
<1>. QED
  BY <1>1, <1>4, <1>5, <1>6, InstructionIs

LEMMA CellOfBytes ==
    ASSUME NEW v \in Int
    PROVE  LE(Bytes(v, CellBytes)) = Addr(v)
BY LEOfBytes, CellBytesAssumption DEF Addr, Top

\* Pushing values leaves them on the stack, as addresses, the first on top.
LEMMA ValuesPushed ==
    ASSUME Doing, Instructions(fetchInstr), NEW d \in Nat \ {0}, NEW values,
           \A k \in 1 .. d : values[k] \in Int, fetchInstr.op \in Pushes, Depth(fetchInstr.op) = d,
           sp' = Pushed(fetchInstr.op),
           mem' = Overlay(mem, Pushed(fetchInstr.op),
                          FlattenSeq([k \in 1 .. d |-> Bytes(values[k], CellBytes)]))
    PROVE  /\ CellStack' = [k \in 1 .. d |-> Addr(values[k])] \o CellStack
           /\ PlainData' = PlainData /\ CodeKept /\ WholeCells
<1>. DEFINE ss == [k \in 1 .. d |-> Bytes(values[k], CellBytes)]
            bs == FlattenSeq(ss)
            cells == [k \in 1 .. d |-> Addr(values[k])]
<1>1. CellBytes \in Nat /\ Top \in Nat
  BY CellBytesAssumption, WordSize
<1>2. ss \in Seq(Seq(Byte)) /\ Len(ss) = d /\ \A k \in 1 .. Len(ss) : Len(ss[k]) = CellBytes
  <2>1. \A k \in 1 .. d : /\ Bytes(values[k], CellBytes) \in Seq(Byte)
                          /\ Len(Bytes(values[k], CellBytes)) = CellBytes
    BY ZenonT(60), <1>1, BytesType
  <2>. QED
    BY <2>1
<1>3. cells \in Seq(Int) /\ Len(cells) = d
  <2>1. ASSUME NEW k \in 1 .. d PROVE Addr(values[k]) \in Int
    <3>1. Addr(values[k]) \in 0 .. Top - 1
      BY AddrRange
    <3>. QED
      BY <1>1, <3>1
  <2>. QED
    BY <2>1
<1>4. sp' = sp - CellBytes * d /\ sp' >= StackLoOf(dialect) /\ mem' = Overlay(mem, sp', bs)
  <2>1. sp' \in StackLoOf(dialect) .. StackBase + CellBytes
    BY StackMoves DEF Doing, Going
  <2>2. StackLoOf(dialect) \in Int /\ StackBase \in Int
    BY StackNow DEF Doing
  <2>. QED
    BY <1>1, <2>1, <2>2 DEF Pushed
<1>5. ASSUME NEW k \in 1 .. d
      PROVE  cells[k] = LE([j \in 1 .. CellBytes |-> bs[(k - 1) * CellBytes + j]])
  <2>. DEFINE b == Bytes(values[k], CellBytes)
  <2>1. b \in Seq(Byte) /\ Len(b) = CellBytes /\ ss[k] = b
    BY <1>1, BytesType, ZenonT(60)
  <2>2. k \in 1 .. Len(ss)
    BY <1>2
  <2>. HIDE DEF ss, bs
  <2>3. \A j \in 1 .. CellBytes : FlattenSeq(ss)[(k - 1) * CellBytes + j] = ss[k][j]
    BY <1>1, <1>2, <2>2, FlattenAt
  <2>. HIDE DEF b
  <2>4. b = [j \in 1 .. CellBytes |-> b[j]]
    BY <2>1
  <2>5. [j \in 1 .. CellBytes |-> bs[(k - 1) * CellBytes + j]] = [j \in 1 .. CellBytes |-> b[j]]
    BY <2>1, <2>3 DEF bs
  <2>6. LE(b) = Addr(values[k])
    BY CellOfBytes DEF b
  <2>. QED
    BY <2>4, <2>5, <2>6
<1>. HIDE DEF ss
<1>6. bs \in Seq(Byte) /\ Len(bs) = d * CellBytes
  BY <1>1, <1>2, FlattenType, FlattenLength
<1>. HIDE DEF bs, cells
<1>7. /\ CellStack' = cells \o CellStack /\ PlainData' = PlainData /\ CodeKept /\ WholeCells
  BY <1>3, <1>4, <1>5, <1>6, CellsPushed
<1>. QED
  BY <1>7 DEF cells

LEMMA PushesCells ==
    ASSUME Doing, Push(fetchInstr)
    PROVE  Source!Instruction /\ CodeKept /\ WholeCells
<1>. DEFINE i == fetchInstr
            op == i.op
            d == Depth(op)
            values == IF op = "PUSHI" THEN <<i.imm>> ELSE [k \in 1 .. d |-> Reg(i, k)]
            cells == [k \in 1 .. d |-> Addr(values[k])]
<1>1. /\ op \in {"PUSH", "PUSHI", "PUSHA"} /\ Onward /\ sp' = Pushed(op)
      /\ mem' = Overlay(mem, Pushed(op), FlattenSeq([k \in 1 .. d |-> Bytes(values[k], CellBytes)]))
      /\ regs' = regs /\ input' = input /\ out' = out
  BY Zenon DEF Push
<1>2. /\ Going /\ Source!Code = op /\ i \in Decoded /\ op \in OPCODES
      /\ TakesImm(op) => i.imm = Source!Imm
  BY Operands1 DEF Doing
<1>3. d \in {1, 3} /\ (op = "PUSHA" => d = 3) /\ (op # "PUSHA" => d = 1)
  BY <1>1 DEF Depth
<1>4. i.imm \in Int
  BY <1>2, WordsAreInts DEF Decoded
<1>5. ASSUME NEW k \in 1 .. d
      PROVE  /\ values[k] \in Int
             /\ op # "PUSHI" => values[k] = Source!Reg(k)
             /\ op = "PUSHI" => values[k] = i.imm
  <2>1. k \in 1 .. 3
    BY <1>3
  <2>2. op # "PUSHI" => k <= NumFields(Now)
    BY <1>1, <1>2, <1>3, RegistersNamed
  <2>3. Reg(i, k) \in Int /\ (op # "PUSHI" => Reg(i, k) = Source!Reg(k))
    BY <1>2, <2>1, <2>2, Registers
  <2>. HIDE DEF i, d
  <2>4. CASE op = "PUSHI"
    <3>1. k = 1
      BY <1>3, <2>4
    <3>. QED
      BY <1>4, <2>4, <3>1
  <2>5. CASE op # "PUSHI"
    BY <2>3, <2>5
  <2>. QED
    BY <2>4, <2>5
<1>6. op \in Pushes
  BY <1>1 DEF Pushes
<1>7. Instructions(i)
  BY DEF Instructions
<1>. HIDE DEF values, d
<1>8. CellStack' = cells \o CellStack /\ PlainData' = PlainData /\ CodeKept /\ WholeCells
  <2>1. d \in Nat \ {0}
    BY <1>3
  <2>. QED
    BY <1>1, <1>5, <1>6, <1>7, <2>1, ValuesPushed DEF d
<1>9. Source!Stacked = cells
  <2>1. \A v : Source!Addr(v) = Addr(v)
    BY SameNumbers
  <2>2. CASE op = "PUSHI"
    <3>1. i.imm = Source!Imm
      BY <1>2, <2>2 DEF TakesImm
    <3>2. Source!Stacked = <<Source!Addr(Source!Imm)>>
      BY <1>2, <2>2 DEF Source!Stacked
    <3>3. d = 1 /\ \A k \in 1 .. d : values[k] = i.imm
      BY <1>3, <1>5, <2>2
    <3>4. cells = [k \in 1 .. 1 |-> Addr(i.imm)]
      BY <3>3
    <3>. QED
      BY <2>1, <3>1, <3>2, <3>4
  <2>3. CASE op # "PUSHI"
    <3>1. Source!Depth = d
      BY <1>2, <1>6, PushFaults DEF d
    <3>2. Source!Stacked = [k \in 1 .. Source!Depth |-> Source!Addr(Source!Reg(k))]
      BY <1>1, <1>2, <2>3 DEF Source!Stacked
    <3>3. \A k \in 1 .. d : values[k] = Source!Reg(k)
      BY <1>5, <2>3
    <3>. QED
      BY <2>1, <3>1, <3>2, <3>3
  <2>. QED
    BY <2>2, <2>3
<1>10. state' = state /\ pc' = Source!Target
  <2>1. op \in OPCODES \ (Branches \cup {"JMP", "CALL", "RET"})
    BY <1>1, <1>2 DEF Branches
  <2>. QED
    BY <1>1, <2>1, Onwards
<1>. HIDE DEF cells
<1>11. fetchInstr.op \notin Pops \cup Source!ComputeOps
                              \cup {"SYSCALL", "HALT", "POP", "POPA", "STORE", "STOREI"}
  BY <1>1 DEF Pops, Source!ComputeOps, Source!ThreeRegs, Source!OneReg, Source!RegImm
<1>. QED
  BY <1>1, <1>6, <1>8, <1>9, <1>10, <1>11, InstructionIs

LEMMA Calls ==
    ASSUME Doing, Call(fetchInstr)
    PROVE  Source!Instruction /\ CodeKept /\ WholeCells
<1>. DEFINE i == fetchInstr
            next == pc + INSTRSZ
            bs == Bytes(next, CellBytes)
<1>1. /\ i.op = "CALL" /\ sp' = Pushed("CALL") /\ mem' = Overlay(mem, Pushed("CALL"), bs)
      /\ pc' = Addr(Reg(i, 1)) /\ state' = state
      /\ regs' = regs /\ input' = input /\ out' = out
  BY DEF Call
<1>2. /\ Going /\ Source!Code = i.op /\ Layout[src].place[AtLine] = pc /\ MachineType /\ ~Faults(i)
  BY Operands1, NextPlace DEF Doing, Going
<1>3. CellBytes \in Nat /\ Top \in Nat \ {0} /\ next \in 0 .. Top - 1 /\ next \in Int
  <2>1. CellBytes \in Nat /\ Top \in Nat \ {0} /\ next \in 0 .. Top - 1
    BY <1>2, NextInstruction, WordSize, CellBytesAssumption
  <2>. QED
    BY <2>1
<1>4. Reg(i, 1) = Source!Reg(1)
  BY <1>1, <1>2, RegistersNamed, Registers
<1>. HIDE DEF next
<1>5. bs \in Seq(Byte) /\ Len(bs) = 1 * CellBytes
  BY <1>3, BytesType
<1>6. LE(bs) = next
  <2>1. LE(bs) = Addr(next)
    BY <1>3, CellOfBytes
  <2>2. Addr(next) = next
    BY <1>3, ModSmall DEF Addr
  <2>. QED
    BY <2>1, <2>2
<1>7. bs = [j \in 1 .. CellBytes |-> bs[(1 - 1) * CellBytes + j]]
  <2>. HIDE DEF bs
  <2>1. bs = [j \in 1 .. CellBytes |-> bs[j]]
    BY <1>3, <1>5
  <2>2. \A j \in 1 .. CellBytes : (1 - 1) * CellBytes + j = j
    BY <1>3
  <2>. QED
    BY <2>1, <2>2
<1>8. sp' = sp - CellBytes * 1 /\ sp' >= StackLoOf(dialect)
  <2>1. Instructions(i)
    BY DEF Instructions
  <2>2. sp' \in StackLoOf(dialect) .. StackBase + CellBytes
    BY <2>1, StackMoves DEF Doing, Going
  <2>3. StackLoOf(dialect) \in Int /\ StackBase \in Int
    BY <1>2, StackNow
  <2>. QED
    BY <1>1, <1>3, <2>2, <2>3 DEF Pushed, Depth
<1>. HIDE DEF bs
<1>9. CellStack' = <<next>> \o CellStack /\ PlainData' = PlainData /\ CodeKept /\ WholeCells
  <2>. DEFINE cells == <<next>>
  <2>1. cells \in Seq(Int) /\ Len(cells) = 1
    BY <1>3
  <2>2. mem' = Overlay(mem, sp', bs)
    BY <1>1
  <2>3. \A k \in 1 .. 1 : cells[k] = LE([j \in 1 .. CellBytes |-> bs[(k - 1) * CellBytes + j]])
    <3>1. cells[1] = LE([j \in 1 .. CellBytes |-> bs[(1 - 1) * CellBytes + j]])
      BY <1>6, <1>7
    <3>2. \A k \in 1 .. 1 : k = 1
      OBVIOUS
    <3>. QED
      BY <3>1, <3>2, Zenon
  <2>. HIDE DEF cells
  <2>4. CellStack' = cells \o CellStack /\ PlainData' = PlainData /\ CodeKept /\ WholeCells
    BY <1>5, <1>8, <2>1, <2>2, <2>3, CellsPushed
  <2>. QED
    BY <2>4 DEF cells
<1>10. Source!Stacked = <<next>>
  <2>1. Source!Stacked = <<Layout[src].place[AtLine] + Source!INSTRSZ>>
    BY <1>1, <1>2 DEF Source!Stacked
  <2>. QED
    BY <1>2, <2>1, SameNumbers DEF next
<1>11. pc' = Source!Target
  <2>1. Source!Target = Source!Addr(Source!Reg(1))
    BY <1>1, <1>2 DEF Source!Target, Source!Branches
  <2>. QED
    BY <1>1, <1>4, <2>1, SameNumbers
<1>12. fetchInstr.op \notin Pops \cup Source!ComputeOps
                              \cup {"SYSCALL", "HALT", "POP", "POPA", "STORE", "STOREI"}
       /\ fetchInstr.op \in Pushes
  BY <1>1 DEF Pushes, Pops, Source!ComputeOps, Source!ThreeRegs, Source!OneReg, Source!RegImm
<1>. QED
  BY <1>1, <1>9, <1>10, <1>11, <1>12, InstructionIs

LEMMA Returns ==
    ASSUME Doing, Ret(fetchInstr)
    PROVE  Source!Instruction /\ CodeKept /\ WholeCells
<1>. DEFINE i == fetchInstr
<1>1. /\ i.op = "RET" /\ pc' = Cell(1) /\ sp' = sp + CellBytes /\ mem' = mem
      /\ state' = state /\ regs' = regs /\ input' = input /\ out' = out
  BY DEF Ret
<1>2. Going /\ Source!Code = i.op
  BY Operands1 DEF Doing
<1>3. Source!Depth = 1 /\ 1 \in 1 .. Len(CellStack) /\ Len(CellStack) \in Nat /\ CellBytes \in Nat
  BY <1>1, <1>2, PopsFit, StackNow, CellBytesAssumption DEF Pops, Depth
<1>4. /\ CellStack' = SubSeq(CellStack, 1 + 1, Len(CellStack)) /\ PlainData' = PlainData
      /\ CodeKept /\ WholeCells
  <2>. DEFINE d == 1
  <2>1. d \in 0 .. Len(CellStack)
    BY <1>3
  <2>2. sp' = sp + CellBytes * d
    BY <1>1, <1>3
  <2>. HIDE DEF d
  <2>3. /\ CellStack' = SubSeq(CellStack, d + 1, Len(CellStack)) /\ PlainData' = PlainData
        /\ CodeKept /\ WholeCells
    BY <1>1, <2>1, <2>2, CellsPopped
  <2>. QED
    BY <2>3 DEF d
<1>5. pc' = Source!Target
  <2>1. Source!Target = Head(CellStack)
    BY <1>1, <1>2 DEF Source!Target, Source!Branches
  <2>2. CellStack \in Seq(Int) /\ CellStack # <<>>
    BY <1>2, <1>3, StackNow
  <2>3. Head(CellStack) = CellStack[1]
    BY <2>2
  <2>4. CellStack[1] = Cell(1)
    <3>1. DOMAIN CellStack = 1 .. Len(CellStack)
      BY <2>2
    <3>2. 1 \in DOMAIN CellStack
      BY <1>3, <3>1
    <3>. QED
      BY <3>2 DEF CellStack
  <2>. QED
    BY <1>1, <2>1, <2>3, <2>4
<1>6. fetchInstr.op \notin Pushes \cup Source!ComputeOps
                              \cup {"SYSCALL", "HALT", "POP", "POPA", "STORE", "STOREI"}
       /\ fetchInstr.op \in Pops
  BY <1>1 DEF Pushes, Pops, Source!ComputeOps, Source!ThreeRegs, Source!OneReg, Source!RegImm
<1>. QED
  BY <1>1, <1>3, <1>4, <1>5, <1>6, InstructionIs

LEMMA PopsCells ==
    ASSUME Doing, Pop(fetchInstr)
    PROVE  Source!Instruction /\ CodeKept /\ WholeCells
<1>. DEFINE i == fetchInstr
            d == Depth(i.op)
<1>1. /\ i.op \in {"POP", "POPA"} /\ Onward /\ sp' = sp + CellBytes * d /\ mem' = mem
      /\ input' = input /\ out' = out
      /\ regs' = [r \in RA .. RC |->
                    LET ks == {k \in 1 .. d : i.r[k] = r}
                    IN IF ks = {} THEN regs[r]
                       ELSE to24(Cell(CHOOSE k \in ks : \A j \in ks : j <= k))]
  BY Zenon DEF Pop
<1>2. Going /\ Source!Code = i.op /\ i.op \in OPCODES
  BY Operands1 DEF Doing
<1>3. Source!Depth = d /\ d \in 1 .. Len(CellStack) /\ Len(CellStack) \in Nat /\ d \in {1, 3}
      /\ CellStack \in Seq(Int)
  BY <1>1, <1>2, PopsFit, StackNow DEF Pops, Depth
<1>4. /\ CellStack' = SubSeq(CellStack, d + 1, Len(CellStack)) /\ PlainData' = PlainData
      /\ CodeKept /\ WholeCells
  <2>1. d \in 0 .. Len(CellStack)
    BY <1>3
  <2>. HIDE DEF d
  <2>. QED
    BY <1>1, <2>1, CellsPopped
<1>5. ASSUME NEW k \in 1 .. d
      PROVE  i.r[k] = Source!Field(Source!Args[k]) /\ CellStack[k] = Cell(k)
  <2>1. k \in 1 .. 3 /\ k <= NumFields(Now)
    BY <1>1, <1>2, <1>3, RegistersNamed DEF Depth
  <2>2. i.r[k] = Source!Field(Source!Args[k])
    BY <1>2, <2>1, Registers
  <2>3. DOMAIN CellStack = 1 .. Len(CellStack)
    BY <1>3
  <2>4. k \in DOMAIN CellStack
    BY <1>3, <2>3
  <2>. QED
    BY <2>2, <2>4 DEF CellStack
<1>6. regs' = Source!Popped
  <2>. DEFINE ks(r) == {k \in 1 .. d : i.r[k] = r}
              last(r) == CHOOSE k \in ks(r) : \A j \in ks(r) : j <= k
              named(r) == {k \in 1 .. Source!Depth : Source!Field(Source!Args[k]) = r}
              latest(r) == CHOOSE k \in named(r) : \A j \in named(r) : j <= k
  <2>1. ASSUME NEW r PROVE ks(r) = named(r)
    BY <1>3, <1>5
  <2>2. ASSUME NEW r, ks(r) # {} PROVE last(r) \in 1 .. d
    <3>1. ASSUME NEW K \in SUBSET (1 .. d), K # {} PROVE \E k \in K : \A j \in K : j <= k
      <4>1. K \subseteq 1 .. 3
        BY <1>3
      <4>2. CASE 3 \in K
        BY <4>1, <4>2
      <4>3. CASE 3 \notin K /\ 2 \in K
        BY <4>1, <4>3
      <4>4. CASE 3 \notin K /\ 2 \notin K
        <5>1. \A j \in K : j = 1
          BY <4>1, <4>4
        <5>2. PICK k \in K : TRUE
          BY <3>1
        <5>. QED
          BY <5>1, <5>2
      <4>. QED
        BY <4>2, <4>3, <4>4
    <3>2. \E k \in ks(r) : \A j \in ks(r) : j <= k
      BY <2>2, <3>1
    <3>. QED
      BY <3>2
  <2>3. ASSUME NEW r, ks(r) # {} PROVE Cell(last(r)) = CellStack[last(r)]
    BY <1>5, <2>2, <2>3
  <2>4. Source!Popped = [r \in 0 .. 2 |-> IF named(r) = {} THEN regs[r]
                            ELSE Source!to24(CellStack[latest(r)])]
    BY DEF Source!Popped
  <2>5. regs' = [r \in 0 .. 2 |-> IF ks(r) = {} THEN regs[r] ELSE to24(Cell(last(r)))]
    BY <1>1 DEF RA, RC
  <2>6. ASSUME NEW r
        PROVE  (IF named(r) = {} THEN regs[r]
                ELSE Source!to24(CellStack[latest(r)]))
               = IF ks(r) = {} THEN regs[r] ELSE to24(Cell(last(r)))
    <3>1. latest(r) = last(r)
      BY <2>1
    <3>2. ks(r) = named(r) /\ (ks(r) # {} => Cell(last(r)) = CellStack[last(r)])
      BY <2>1, <2>3
    <3>3. \A v : Source!to24(v) = to24(v)
      BY SameNumbers
    <3>. HIDE DEF ks, last, named, latest
    <3>4. CASE ks(r) = {}
      BY <3>2, <3>4
    <3>5. CASE ks(r) # {}
      <4>1. CellStack[latest(r)] = Cell(last(r))
        BY <3>1, <3>2, <3>5
      <4>2. Source!to24(CellStack[latest(r)]) = to24(Cell(last(r)))
        BY <3>3, <4>1
      <4>. QED
        BY <3>2, <3>5, <4>2
    <3>. QED
      BY <3>4, <3>5
  <2>. HIDE DEF ks, last, named, latest
  <2>. QED
    BY <2>4, <2>5, <2>6
<1>7. state' = state /\ pc' = Source!Target
  <2>1. i.op \in OPCODES \ (Branches \cup {"JMP", "CALL", "RET"})
    BY <1>1, <1>2 DEF Branches
  <2>. QED
    BY <1>1, <2>1, Onwards
<1>8. fetchInstr.op \notin Pushes \cup Source!ComputeOps \cup {"SYSCALL", "HALT", "STORE", "STOREI"}
       /\ fetchInstr.op \in Pops
  BY <1>1 DEF Pushes, Pops, Source!ComputeOps, Source!ThreeRegs, Source!OneReg, Source!RegImm
<1>. HIDE DEF d
<1>. QED
  BY <1>1, <1>3, <1>4, <1>6, <1>7, <1>8, InstructionIs

----------------------------------------------------------------------------
(* Each system call of the machine is the one of the text *)

LEMMA CallNow ==
    ASSUME Going, fetchInstr.op = "SYSCALL"
    PROVE  /\ Source!Code = "SYSCALL" /\ NumFields(Now) \in 1 .. 3
           /\ \A k \in 1 .. 3 : /\ Source!Reg(k) = Reg(fetchInstr, k) /\ Reg(fetchInstr, k) \in Int
                                /\ Reg(fetchInstr, k) \in Word
                                /\ Source!Addr(Source!Reg(k)) = Addr(Reg(fetchInstr, k))
                                /\ Addr(Reg(fetchInstr, k)) \in Nat
           /\ Source!Typed = Line
<1>1. Source!Code = "SYSCALL" /\ NumFields(Now) \in 1 .. 3
  BY Operands1, RegistersNamed
<1>2. ASSUME NEW k \in 1 .. 3
      PROVE  /\ Source!Reg(k) = Reg(fetchInstr, k) /\ Reg(fetchInstr, k) \in Int
             /\ Reg(fetchInstr, k) \in Word
             /\ Source!Addr(Source!Reg(k)) = Addr(Reg(fetchInstr, k))
             /\ Addr(Reg(fetchInstr, k)) \in Nat
  <2>1. /\ Source!Reg(k) = Reg(fetchInstr, k) /\ Reg(fetchInstr, k) \in Int
        /\ Reg(fetchInstr, k) \in Word
    BY Registers
  <2>2. Addr(Reg(fetchInstr, k)) \in 0 .. Top - 1 /\ Top \in Nat
    BY <2>1, AddrRange, WordSize
  <2>. QED
    BY <2>1, <2>2, SameNumbers
<1>3. Source!Typed = Line
  BY Zenon DEF Source!Typed, Line, EndOfInput
<1>. QED
  BY <1>1, <1>2, <1>3

LEMMA SyscallIs ==
    ASSUME Doing, fetchInstr.op = "SYSCALL", out' = out \o Source!Shown, CellStack' = CellStack,
           input' = IF Source!Reg(1) \in {3, 4} /\ input # <<>> THEN Tail(input) ELSE input,
           PlainData' = IF Source!Reg(1) = 4
                        THEN Source!NonZero(Source!Overlay(PlainData, Source!Addr(Source!Reg(2)),
                                Source!LowBytes(Source!Typed.text,
                                       Source!ReadLength(dialect, Source!Typed.text, Source!Reg(3)))))
                        ELSE PlainData,
           IF Source!Leaves
           THEN /\ Source!Stop(IF Source!Reg(1) = 9 /\ Source!Reg(3) = 4095 /\ Source!Reg(2) \in 0 .. 10
                               THEN "crashed" ELSE "exited")
                /\ regs' = regs
           ELSE Source!Go /\ \E v \in Source!Results : Source!Set(v)
    PROVE  Source!Syscall
<1>1. Source!Code = "SYSCALL" /\ Going /\ state = "running" /\ src' = src /\ dialect' = dialect
  BY Operands1 DEF Doing, Going
<1>2. Source!Running /\ ~Source!Fails /\ ~Source!Undefined
  <2>1. AtLine # 0
    BY <1>1 DEF Going, Source!Undefined
  <2>. QED
    BY <1>1, <2>1, FaultsAreFailures DEF Doing, Going, Source!Running
<1>3. instrCnt' = IF Source!Leaves THEN instrCnt ELSE instrCnt + 1
  <2>1. Source!Leaves => state' \in {"exited", "crashed"}
    BY DEF Source!Stop
  <2>2. ~Source!Leaves => state' = "running"
    BY <1>1 DEF Source!Go
  <2>3. instrCnt' = CountAfter
    BY DEF Doing
  <2>. QED
    BY <2>1, <2>2, <2>3 DEF CountAfter
<1>. QED
  BY <1>1, <1>2, <1>3, Zenon DEF Source!Syscall

\* A call that comes back with a result.
LEMMA Answered ==
    ASSUME Doing, fetchInstr.op = "SYSCALL", Reg(fetchInstr, 1) \notin {0, 9}, Onward,
           NEW v \in Source!Results, Assign(fetchInstr, to24(v))
    PROVE  Source!Go /\ Source!Set(v) /\ ~Source!Leaves
<1>1. Source!Code = "SYSCALL" /\ Source!Reg(1) \notin {0, 9} /\ NumFields(Now) \in 1 .. 3
      /\ fetchInstr.op \in OPCODES
  BY CallNow, Operands1 DEF Doing
<1>2. ~Source!Leaves
  BY <1>1 DEF Source!Leaves
<1>3. state' = state /\ pc' = Source!Target
  <2>1. fetchInstr.op \in OPCODES \ (Branches \cup {"JMP", "CALL", "RET"})
    BY <1>1 DEF Branches
  <2>. QED
    BY <2>1, Onwards
<1>4. Source!Go
  BY <1>2, <1>3, Goes
<1>5. Source!Set(v)
  BY <1>1, Sets DEF Doing
<1>. QED
  BY <1>2, <1>4, <1>5

\* A call that reads no input and comes back with a result.
LEMMA Answers ==
    ASSUME Doing, fetchInstr.op = "SYSCALL", Reg(fetchInstr, 1) \notin {0, 3, 4, 9}, Onward,
           mem' = mem, sp' = sp, input' = input, out' = out \o Source!Shown,
           NEW v \in Source!Results, Assign(fetchInstr, to24(v))
    PROVE  Source!Syscall /\ CodeKept /\ WholeCells
<1>1. Source!Reg(1) \notin {0, 3, 4, 9} /\ Source!Reg(1) = Reg(fetchInstr, 1)
  BY CallNow DEF Doing
<1>2. CellStack' = CellStack /\ PlainData' = PlainData /\ CodeKept /\ WholeCells
  BY NothingMoved
<1>3. Source!Go /\ Source!Set(v) /\ ~Source!Leaves
  BY Answered
<1>. QED
  BY <1>1, <1>2, <1>3, SyscallIs

\* The data that a call reads are the machine's bytes.
LEMMA TextOfData ==
    ASSUME Going, NEW a \in Nat, <<a, Len(Source!Text(PlainData, a)) + 1>> \in Source!Extents
    PROVE  Source!Text(PlainData, a) = Text(mem, a)
<1>1. Memory(mem) /\ src \in DOMAIN Sources /\ lines \in Seq(PlainLine)
  BY TextRuns DEF Going, MachineType
<1>2. PlainData = DataIn(mem) /\ Source!Text(PlainData, a) = Text(PlainData, a)
  BY <1>1, PlainDataIs, SameMemory
<1>. DEFINE n == Len(Text(DataIn(mem), a))
<1>3. n \in Nat
  BY <1>1, DataMemory, TextType
<1>4. ASSUME NEW x \in a .. a + n PROVE IsData(x)
  <2>. DEFINE e == <<a, n + 1>>
  <2>1. e \in Source!Extents
    BY <1>2
  <2>. HIDE DEF n
  <2>2. x \in e[1] .. e[1] + e[2] - 1
    BY <1>3
  <2>. QED
    BY <2>1, <2>2, TouchedIsData
<1>. QED
  BY <1>1, <1>2, <1>4, TextRead

LEMMA BytesOfData ==
    ASSUME Going, NEW a \in Nat, NEW n \in Int, <<a, n>> \in Source!Extents
    PROVE  /\ Source!BytesAt(PlainData, a, n) = BytesAt(mem, a, n)
           /\ \A x \in a .. a + n - 1 : IsData(x)
<1>1. src \in DOMAIN Sources /\ lines \in Seq(PlainLine)
  BY TextRuns DEF Going
<1>2. PlainData = DataIn(mem) /\ Source!BytesAt(PlainData, a, n) = BytesAt(PlainData, a, n)
  BY <1>1, PlainDataIs, SameMemory
<1>3. ASSUME NEW x \in a .. a + n - 1 PROVE IsData(x)
  <2>. DEFINE e == <<a, n>>
  <2>1. e \in Source!Extents /\ x \in e[1] .. e[1] + e[2] - 1
    OBVIOUS
  <2>. HIDE DEF e
  <2>. QED
    BY <2>1, TouchedIsData
<1>. QED
  BY <1>2, <1>3, DataRead

LEMMA Extended ==
    ASSUME Going, fetchInstr.op = "SYSCALL"
    PROVE  LET n == Source!Reg(1)
               A(k) == Source!Addr(Source!Reg(k))
               text(a) == <<a, Len(Source!Text(PlainData, a)) + 1>>
           IN /\ n = 2 /\ Source!Reg(3) = 0 => text(A(2)) \in Source!Extents
              /\ n = 2 /\ Source!Reg(3) # 0 => <<A(2), Source!Reg(3)>> \in Source!Extents
              /\ n = 4 => <<A(2), Source!ReadLength(dialect, Source!Typed.text, Source!Reg(3))>>
                             \in Source!Extents
              /\ n = 5 => text(A(2)) \in Source!Extents
              /\ n = 6 => text(A(2)) \in Source!Extents /\ text(A(3)) \in Source!Extents
              /\ n = 10 => <<A(2), Source!Reg(3)>> \in Source!Extents
<1>1. Source!Code = "SYSCALL"
  BY Operands1
<1>. QED
  BY <1>1 DEF Source!Extents

LEMMA Writes ==
    ASSUME Going
    PROVE  /\ out \o <<>> = out
           /\ \A how, v : Write(how, v) => out' = out \o << [how |-> how, val |-> v] >>
<1>1. PICK S : out \in Seq(S)
  BY DEF Going, SimInv
<1>2. ASSUME NEW e PROVE Append(out, e) = out \o <<e>>
  <2>. DEFINE T == S \cup {e}
  <2>1. out \in Seq(T) /\ e \in T
    BY <1>1
  <2>. HIDE DEF T
  <2>2. \A s \in Seq(T) : \A x \in T : Append(s, x) = s \o <<x>>
    OBVIOUS
  <2>. QED
    BY <2>1, <2>2
<1>3. out \o <<>> = out
  BY <1>1
<1>. QED
  BY <1>2, <1>3, Zenon DEF Write

LEMMA Prints ==
    ASSUME Doing, SysPrintInt(fetchInstr) \/ SysPrintHex(fetchInstr)
    PROVE  Source!Syscall /\ CodeKept /\ WholeCells
<1>. DEFINE i == fetchInstr
            w == Reg(i, 2)
<1>1. /\ i.op = "SYSCALL" /\ Onward /\ mem' = mem /\ sp' = sp /\ input' = input
      /\ \/ /\ Reg(i, 1) = 1 /\ Write("int", w)
            /\ Assign(i, to24(Digits(Abs(w), 10) + (IF w < 0 THEN 1 ELSE 0)))
         \/ /\ Reg(i, 1) = 7 /\ Write("hex", w % Modulus)
            /\ Assign(i, to24(2 + Digits(w % Modulus, 16)))
  BY Zenon DEF SysPrintInt, SysPrintHex, Syscall, Result
<1>2. Going /\ Source!Reg(1) = Reg(i, 1) /\ Source!Reg(2) = w
  BY <1>1, CallNow DEF Doing
<1>. HIDE DEF w
<1>3. CASE Reg(i, 1) = 1
  <2>. DEFINE v == Digits(Abs(w), 10) + (IF w < 0 THEN 1 ELSE 0)
  <2>1. Source!Results = {Source!Digits(Source!Abs(w), 10) + (IF w < 0 THEN 1 ELSE 0)}
    BY <1>2, <1>3 DEF Source!Results
  <2>2. v \in Source!Results
    BY <2>1, SameNumbers
  <2>3. Source!Shown = << [how |-> "int", val |-> w] >>
    BY <1>2, <1>3 DEF Source!Shown
  <2>4. out' = out \o Source!Shown /\ Assign(i, to24(v))
    BY <1>1, <1>2, <1>3, <2>3, Writes
  <2>. HIDE DEF v
  <2>. QED
    BY <1>1, <1>3, <2>2, <2>4, Answers
<1>4. CASE Reg(i, 1) = 7
  <2>. DEFINE v == 2 + Digits(w % Modulus, 16)
  <2>1. Source!Results = {2 + Source!Digits(w % Source!Modulus, 16)}
    BY <1>2, <1>4 DEF Source!Results
  <2>2. v \in Source!Results
    BY <2>1, SameNumbers
  <2>3. Source!Shown = << [how |-> "hex", val |-> w % Source!Modulus] >>
    BY <1>2, <1>4 DEF Source!Shown
  <2>4. out' = out \o Source!Shown /\ Assign(i, to24(v))
    BY <1>1, <1>2, <1>4, <2>3, Writes, SameNumbers
  <2>. HIDE DEF v
  <2>. QED
    BY <1>1, <1>4, <2>2, <2>4, Answers
<1>. QED
  BY <1>1, <1>3, <1>4

LEMMA PrintsText ==
    ASSUME Doing, SysPrintStr(fetchInstr)
    PROVE  Source!Syscall /\ CodeKept /\ WholeCells
<1>. DEFINE i == fetchInstr
            a == Addr(Reg(i, 2))
            n == Reg(i, 3)
            text == IF n = 0 THEN Text(mem, a) ELSE BytesAt(mem, a, n)
            v == Len(text)
<1>1. /\ i.op = "SYSCALL" /\ Reg(i, 1) = 2 /\ Onward /\ mem' = mem /\ sp' = sp /\ input' = input
      /\ Write("text", text) /\ Assign(i, to24(v))
  BY Zenon DEF SysPrintStr, Syscall, Result
<1>2. /\ Going /\ Source!Reg(1) = 2 /\ Source!Reg(3) = n /\ n \in Int
      /\ Source!Addr(Source!Reg(2)) = a /\ a \in Nat
  BY <1>1, CallNow DEF Doing
<1>. HIDE DEF a, n
<1>3. Source!Said = text
  <2>1. Source!Said = IF n = 0 THEN Source!Text(PlainData, a) ELSE Source!BytesAt(PlainData, a, n)
    BY <1>2, Zenon DEF Source!Said
  <2>2. CASE n = 0
    <3>1. <<a, Len(Source!Text(PlainData, a)) + 1>> \in Source!Extents
      BY <1>1, <1>2, <2>2, Extended
    <3>2. Source!Text(PlainData, a) = Text(mem, a)
      BY <1>2, <3>1, TextOfData
    <3>. QED
      BY <2>1, <2>2, <3>2
  <2>3. CASE n # 0
    <3>1. <<a, n>> \in Source!Extents
      BY <1>1, <1>2, <2>3, Extended
    <3>2. Source!BytesAt(PlainData, a, n) = BytesAt(mem, a, n)
      BY <1>2, <3>1, BytesOfData
    <3>. QED
      BY <2>1, <2>3, <3>2
  <2>. QED
    BY <2>2, <2>3
<1>. HIDE DEF text
<1>4. v \in Source!Results
  <2>1. Source!Results = {Len(Source!Said)}
    BY <1>2 DEF Source!Results
  <2>. QED
    BY <1>3, <2>1
<1>5. out' = out \o Source!Shown
  <2>1. Source!Shown = << [how |-> "text", val |-> Source!Said] >>
    BY <1>2 DEF Source!Shown
  <2>. QED
    BY <1>1, <1>2, <1>3, <2>1, Writes
<1>. HIDE DEF v
<1>. QED
  BY <1>1, <1>4, <1>5, Answers

LEMMA Measures ==
    ASSUME Doing, SysStrlen(fetchInstr) \/ SysStrcmp(fetchInstr)
    PROVE  Source!Syscall /\ CodeKept /\ WholeCells
<1>. DEFINE i == fetchInstr
            a == Addr(Reg(i, 2))
            b == Addr(Reg(i, 3))
<1>1. /\ i.op = "SYSCALL" /\ Onward /\ mem' = mem /\ sp' = sp /\ input' = input /\ out' = out
      /\ \/ Reg(i, 1) = 5 /\ Assign(i, to24(Len(Text(mem, a))))
         \/ Reg(i, 1) = 6 /\ Assign(i, to24(Compare(mem, a, b)))
  BY Zenon DEF SysStrlen, SysStrcmp, Syscall, Result
<1>2. /\ Going /\ Source!Reg(1) = Reg(i, 1)
      /\ Source!Addr(Source!Reg(2)) = a /\ a \in Nat
      /\ Source!Addr(Source!Reg(3)) = b /\ b \in Nat
  BY <1>1, CallNow DEF Doing
<1>. HIDE DEF a, b
<1>3. Source!Shown = <<>>
  BY <1>1, <1>2 DEF Source!Shown
<1>4. out' = out \o Source!Shown
  BY <1>1, <1>2, <1>3, Writes
<1>5. CASE Reg(i, 1) = 5
  <2>. DEFINE v == Len(Text(mem, a))
  <2>1. <<a, Len(Source!Text(PlainData, a)) + 1>> \in Source!Extents
    BY <1>1, <1>2, <1>5, Extended
  <2>2. Source!Text(PlainData, a) = Text(mem, a)
    BY <1>2, <2>1, TextOfData
  <2>3. Source!Results = {Len(Source!Text(PlainData, a))}
    BY <1>2, <1>5 DEF Source!Results
  <2>4. v \in Source!Results /\ Assign(i, to24(v))
    BY <1>1, <1>5, <2>2, <2>3
  <2>. HIDE DEF v
  <2>. QED
    BY <1>1, <1>4, <1>5, <2>4, Answers
<1>6. CASE Reg(i, 1) = 6
  <2>. DEFINE v == Compare(mem, a, b)
  <2>1. /\ <<a, Len(Source!Text(PlainData, a)) + 1>> \in Source!Extents
        /\ <<b, Len(Source!Text(PlainData, b)) + 1>> \in Source!Extents
    BY <1>1, <1>2, <1>6, Extended
  <2>2. Source!Text(PlainData, a) = Text(mem, a) /\ Source!Text(PlainData, b) = Text(mem, b)
    BY <1>2, <2>1, TextOfData
  <2>3. Source!Compare(PlainData, a, b) = v
    <3>1. Text(mem, a) = Text(PlainData, a) /\ Text(mem, b) = Text(PlainData, b)
      BY <2>2, SameMemory
    <3>. QED
      BY <3>1, CompareRead, SameMemory
  <2>4. Source!Results = {Source!Compare(PlainData, a, b)}
    BY <1>2, <1>6 DEF Source!Results
  <2>5. v \in Source!Results /\ Assign(i, to24(v))
    BY <1>1, <1>6, <2>3, <2>4
  <2>. HIDE DEF v
  <2>. QED
    BY <1>1, <1>4, <1>6, <2>5, Answers
<1>. QED
  BY <1>1, <1>5, <1>6

LEMMA Draws ==
    ASSUME Doing, SysRandom(fetchInstr)
    PROVE  Source!Syscall /\ CodeKept /\ WholeCells
<1>. DEFINE i == fetchInstr
<1>1. /\ i.op = "SYSCALL" /\ Reg(i, 1) = 8 /\ mem' = mem /\ sp' = sp /\ input' = input /\ out' = out
      /\ \E v \in RandomValues : Result(i, v)
  BY Zenon DEF SysRandom, Syscall
<1>2. PICK v \in RandomValues : Assign(i, to24(v)) /\ Onward
  BY <1>1 DEF Result
<1>3. Going /\ Source!Reg(1) = 8
  BY <1>1, CallNow DEF Doing
<1>4. Source!Shown = <<>> /\ Source!Results = RandomValues
  BY <1>3 DEF Source!Shown, Source!Results
<1>5. out' = out \o Source!Shown
  BY <1>1, <1>3, <1>4, Writes
<1>. QED
  BY <1>1, <1>2, <1>4, <1>5, Answers

LEMMA ReadsNumber ==
    ASSUME Doing, SysReadInt(fetchInstr)
    PROVE  Source!Syscall /\ CodeKept /\ WholeCells
<1>. DEFINE i == fetchInstr
            v == Line.int
<1>1. /\ i.op = "SYSCALL" /\ Reg(i, 1) = 3 /\ mem' = mem /\ sp' = sp /\ out' = out
      /\ ReadLine /\ Assign(i, to24(v)) /\ Onward
  BY Zenon DEF SysReadInt, Syscall, Result
<1>2. Going /\ Source!Reg(1) = 3 /\ Source!Typed = Line
  BY <1>1, CallNow DEF Doing
<1>3. Source!Shown = <<>> /\ Source!Results = {v}
  BY <1>2 DEF Source!Shown, Source!Results
<1>4. out' = out \o Source!Shown
  BY <1>1, <1>2, <1>3, Writes
<1>5. CellStack' = CellStack /\ PlainData' = PlainData /\ CodeKept /\ WholeCells
  BY <1>1, NothingMoved
<1>6. input' = IF Source!Reg(1) \in {3, 4} /\ input # <<>> THEN Tail(input) ELSE input
  BY <1>1, <1>2 DEF ReadLine
<1>. HIDE DEF v
<1>7. Source!Go /\ Source!Set(v) /\ ~Source!Leaves /\ v \in Source!Results
  BY <1>1, <1>3, Answered
<1>. QED
  BY <1>1, <1>2, <1>4, <1>5, <1>6, <1>7, SyscallIs

LEMMA ReadsText ==
    ASSUME Doing, SysReadStr(fetchInstr)
    PROVE  Source!Syscall /\ CodeKept /\ WholeCells
<1>. DEFINE i == fetchInstr
            text == Line.text
            a == Addr(Reg(i, 2))
            v == ReadLength(dialect, text, Reg(i, 3))
            bs == LowBytes(text, v)
<1>1. /\ i.op = "SYSCALL" /\ Reg(i, 1) = 4 /\ mem' = Overlay(mem, a, bs) /\ sp' = sp /\ out' = out
      /\ ReadLine /\ Assign(i, to24(v)) /\ Onward
  BY Zenon DEF SysReadStr, Syscall, Result
<1>2. /\ Going /\ Source!Reg(1) = 4 /\ Source!Typed = Line
      /\ Source!Addr(Source!Reg(2)) = a /\ a \in Nat /\ Reg(i, 3) \in Int
      /\ Source!Reg(3) = Reg(i, 3)
  BY <1>1, CallNow DEF Doing
<1>3. text \in Seq(Nat) /\ Len(text) \in Nat
  BY <1>2, LineType DEF Going, InputLine
<1>4. v \in Int /\ v <= Len(text)
  BY <1>2, <1>3 DEF ReadLength
<1>5. Source!ReadLength(dialect, Source!Typed.text, Source!Reg(3)) = v
  BY <1>2, SameMemory
<1>. HIDE DEF a, v, text
<1>6. Source!Shown = <<>> /\ Source!Results = {Source!ReadLength(dialect, Source!Typed.text, Source!Reg(3))}
  BY <1>2 DEF Source!Shown, Source!Results
<1>7. out' = out \o Source!Shown /\ v \in Source!Results
  BY <1>1, <1>2, <1>5, <1>6, Writes
<1>8. \A x \in a .. a + v - 1 : IsData(x)
  <2>1. <<a, v>> \in Source!Extents
    BY <1>1, <1>2, <1>5, Extended
  <2>. QED
    BY <1>2, <1>4, <2>1, BytesOfData
<1>9. Len(bs) \in Nat /\ (v >= 0 => Len(bs) = v) /\ (v < 0 => Len(bs) = 0)
  <2>1. bs \in Seq(Byte) /\ DOMAIN bs = 1 .. v
    BY <1>3, <1>4, LowBytesType DEF LowBytes
  <2>. HIDE DEF bs
  <2>2. Len(bs) \in Nat /\ 1 .. Len(bs) = 1 .. v
    BY <2>1
  <2>3. v >= 0 => Len(bs) = v
    BY <1>4, <2>2
  <2>4. v < 0 => Len(bs) = 0
    BY <1>4, <2>2
  <2>. QED
    BY <2>2, <2>3, <2>4
<1>. HIDE DEF bs
<1>10. \A x \in a .. a + Len(bs) - 1 : IsData(x)
  BY <1>2, <1>4, <1>8, <1>9
<1>11. /\ CellStack' = CellStack /\ CodeKept /\ WholeCells
       /\ PlainData' = Source!NonZero(Source!Overlay(PlainData, a, bs))
  BY <1>1, <1>2, <1>9, <1>10, DataMoved
<1>12. input' = IF Source!Reg(1) \in {3, 4} /\ input # <<>> THEN Tail(input) ELSE input
  BY <1>1, <1>2 DEF ReadLine
<1>13. Source!Go /\ Source!Set(v) /\ ~Source!Leaves
  BY <1>1, <1>7, Answered
<1>14. PlainData' = IF Source!Reg(1) = 4
                    THEN Source!NonZero(Source!Overlay(PlainData, Source!Addr(Source!Reg(2)),
                            Source!LowBytes(Source!Typed.text,
                                   Source!ReadLength(dialect, Source!Typed.text, Source!Reg(3)))))
                    ELSE PlainData
  BY <1>2, <1>5, <1>11, SameMemory DEF bs, text
<1>. QED
  BY <1>1, <1>7, <1>11, <1>12, <1>13, <1>14, SyscallIs

LEMMA Leavings ==
    ASSUME Doing, SysExit(fetchInstr) \/ SysInfo(fetchInstr)
    PROVE  Source!Syscall /\ CodeKept /\ WholeCells
<1>. DEFINE i == fetchInstr
            w == Reg(i, 2)
            how == IF Reg(i, 1) = 9 /\ Reg(i, 3) = 4095 /\ w \in 0 .. 10 THEN "crashed" ELSE "exited"
<1>1. /\ i.op = "SYSCALL" /\ mem' = mem /\ sp' = sp /\ input' = input /\ regs' = regs
      /\ \/ /\ Reg(i, 1) = 0 /\ state' = "exited"
            /\ IF dialect = "isa" /\ w < 0 THEN Write("exit", w) ELSE out' = out
         \/ Reg(i, 1) = 9 /\ Write("info", w) /\ state' = how
  BY DEF SysExit, SysInfo, Syscall
<1>2. /\ Going /\ Source!Reg(1) = Reg(i, 1) /\ Source!Reg(2) = w /\ Source!Reg(3) = Reg(i, 3)
      /\ Source!Code = "SYSCALL"
  BY <1>1, CallNow DEF Doing
<1>3. Source!Leaves /\ Source!Reg(1) \notin {3, 4}
  BY <1>1, <1>2 DEF Source!Leaves
<1>4. CellStack' = CellStack /\ PlainData' = PlainData /\ CodeKept /\ WholeCells
  BY <1>1, NothingMoved
<1>5. state' = how /\ how # "running"
  BY <1>1
<1>. HIDE DEF w
<1>6. out' = out \o Source!Shown
  <2>1. CASE Reg(i, 1) = 0 /\ dialect = "isa" /\ w < 0
    <3>1. Source!Shown = << [how |-> "exit", val |-> w] >>
      BY <1>2, <2>1 DEF Source!Shown
    <3>. QED
      BY <1>1, <1>2, <2>1, <3>1, Writes
  <2>2. CASE Reg(i, 1) = 0 /\ ~(dialect = "isa" /\ w < 0)
    <3>1. Source!Shown = <<>>
      BY <1>2, <2>2 DEF Source!Shown
    <3>. QED
      BY <1>1, <1>2, <2>2, <3>1, Writes
  <2>3. CASE Reg(i, 1) = 9
    <3>1. Source!Shown = << [how |-> "info", val |-> w] >>
      BY <1>2, <2>3 DEF Source!Shown
    <3>. QED
      BY <1>1, <1>2, <2>3, <3>1, Writes
  <2>. QED
    BY <1>1, <2>1, <2>2, <2>3
<1>7. Source!Stop(IF Source!Reg(1) = 9 /\ Source!Reg(3) = 4095 /\ Source!Reg(2) \in 0 .. 10
                  THEN "crashed" ELSE "exited")
  <2>1. how = IF Source!Reg(1) = 9 /\ Source!Reg(3) = 4095 /\ Source!Reg(2) \in 0 .. 10
              THEN "crashed" ELSE "exited"
    BY <1>2
  <2>. HIDE DEF how
  <2>2. Source!Stop(how)
    BY <1>5, Stops
  <2>. QED
    BY <2>1, <2>2
<1>. HIDE DEF how
<1>. QED
  BY <1>1, <1>3, <1>4, <1>6, <1>7, SyscallIs

LEMMA RunsCommand ==
    ASSUME Doing, SysOS(fetchInstr)
    PROVE  Source!Syscall /\ CodeKept /\ WholeCells
<1>. DEFINE i == fetchInstr
            a == Addr(Reg(i, 2))
            m == Reg(i, 3)
            zeros == {n \in 0 .. m - 1 : ByteAt(mem, a + n) = 0}
            ends == {n \in 0 .. m - 1 : Source!ByteAt(PlainData, a + n) = 0} \cup {m}
            n == IF zeros = {} THEN m ELSE CHOOSE k \in zeros : \A j \in zeros : k <= j
            end == CHOOSE k \in ends : \A j \in ends : k <= j
<1>1. /\ i.op = "SYSCALL" /\ Reg(i, 1) = 10 /\ mem' = mem /\ sp' = sp /\ input' = input
      /\ Write("os", BytesAt(mem, a, n))
      /\ \E c \in ShellCodes \cup {-1} : Result(i, c % Modulus)
  BY Zenon DEF SysOS, Syscall
<1>2. PICK c \in ShellCodes \cup {-1} : Assign(i, to24(c % Modulus)) /\ Onward
  BY <1>1 DEF Result
<1>3. Assign(i, to24(c))
  <2>1. c \in Int
    BY ResultsAssumption
  <2>. QED
    BY <1>2, <2>1, To24Keeps
<1>4. /\ Going /\ Source!Reg(1) = 10 /\ Source!Reg(3) = m /\ m \in Int
      /\ Source!Addr(Source!Reg(2)) = a /\ a \in Nat
  BY <1>1, CallNow DEF Doing
<1>. HIDE DEF a, m
<1>5. /\ \A x \in a .. a + m - 1 : IsData(x)
      /\ PlainData = DataIn(mem)
  <2>1. <<a, m>> \in Source!Extents
    BY <1>1, <1>4, Extended
  <2>2. src \in DOMAIN Sources /\ lines \in Seq(PlainLine)
    BY <1>4, TextRuns DEF Going
  <2>. QED
    BY <1>4, <2>1, <2>2, BytesOfData, PlainDataIs
<1>6. ends = zeros \cup {m}
  <2>1. ASSUME NEW k \in 0 .. m - 1 PROVE Source!ByteAt(PlainData, a + k) = ByteAt(mem, a + k)
    <3>1. a + k \in a .. a + m - 1
      BY <1>4
    <3>2. IsData(a + k)
      BY <1>5, <3>1
    <3>. QED
      BY <1>5, <3>2, DataByte, SameMemory
  <2>. QED
    BY <2>1
<1>7. end = n /\ n \in Int /\ n <= m
  <2>1. \A k \in zeros : k \in Nat /\ k < m
    BY <1>4
  <2>. HIDE DEF zeros, ends
  <2>2. CASE zeros = {}
    BY <1>4, <1>6, <2>2
  <2>3. CASE zeros # {}
    <3>1. PICK k \in zeros : \A j \in zeros : k <= j
      <4>1. zeros \subseteq Nat
        BY <2>1
      <4>. QED
        BY <2>3, <4>1, LeastNumber
    <3>2. n = k
      <4>1. \A l \in zeros : (\A j \in zeros : l <= j) => l = k
        BY <2>1, <3>1
      <4>. QED
        BY <2>3, <3>1, <4>1
    <3>3. end = k
      <4>1. k \in ends /\ \A j \in ends : k <= j
        BY <1>4, <1>6, <2>1, <3>1
      <4>2. \A l \in ends : (\A j \in ends : l <= j) => l = k
        BY <1>4, <1>6, <2>1, <4>1
      <4>. QED
        BY <4>1, <4>2
    <3>. QED
      <4>1. k \in Nat /\ k < m
        BY <2>1, <3>1
      <4>. QED
        <5>. HIDE DEF n, end
        <5>1. k \in Int /\ k <= m
          BY <1>4, <4>1
        <5>. QED
          BY <3>2, <3>3, <5>1
  <2>. QED
    BY <2>2, <2>3
<1>. HIDE DEF zeros, n
<1>8. Source!Command = BytesAt(mem, a, n)
  <2>1. Source!Command = Source!BytesAt(PlainData, a, end)
    BY <1>4 DEF Source!Command
  <2>2. \A x \in a .. a + n - 1 : IsData(x)
    BY <1>4, <1>5, <1>7
  <2>. HIDE DEF end
  <2>3. BytesAt(DataIn(mem), a, n) = BytesAt(mem, a, n)
    BY <1>4, <1>7, <2>2, DataRead
  <2>. QED
    BY <1>5, <1>7, <2>1, <2>3, SameMemory
<1>. HIDE DEF end, ends
<1>9. out' = out \o Source!Shown
  <2>1. Source!Shown = << [how |-> "os", val |-> Source!Command] >>
    BY <1>4 DEF Source!Shown
  <2>. QED
    BY <1>1, <1>4, <1>8, <2>1, Writes
<1>10. c \in Source!Results
  BY <1>4 DEF Source!Results
<1>. QED
  BY <1>1, <1>2, <1>3, <1>9, <1>10, Answers

----------------------------------------------------------------------------
(* Every step of the machine is one of the text *)

LEMMA Executes ==
    ASSUME Going, execInstr, src' = src
    PROVE  (Source!Instruction \/ Source!Syscall) /\ CodeKept /\ WholeCells
<1>. DEFINE i == fetchInstr
<1>1. /\ ~Faults(i) /\ (Instructions(i) \/ handleSyscall(i))
      /\ instrCnt < MaxInstrs /\ instrCnt' = CountAfter
  BY DEF execInstr
<1>2. dialect' = dialect
  BY <1>1, OtherInstructions
<1>3. Doing
  BY <1>1, <1>2 DEF Doing
<1>. HIDE DEF i
<1>4. CASE Instructions(i)
  BY <1>3, <1>4, Halts, Moves, ComputesOfTwo, ComputesOfOne, Loads, Stores, Jumps, PushesCells,
     PopsCells, Calls, Returns DEF Instructions, i
<1>5. CASE handleSyscall(i)
  BY <1>3, <1>5, Prints, PrintsText, Measures, Draws, ReadsNumber, ReadsText, Leavings, RunsCommand
     DEF handleSyscall, i
<1>. QED
  BY <1>1, <1>4, <1>5

LEMMA SameState ==
    ASSUME src' = src, dialect' = dialect, mem' = mem, sp' = sp
    PROVE  CellStack' = CellStack /\ PlainData' = PlainData
<1>1. CellStack' = CellStack
  BY StackNext, CellStackIs
<1>2. Layout' = Layout
  OBVIOUS
<1>. QED
  BY <1>1, <1>2 DEF PlainData

LEMMA StopsToo ==
    ASSUME AsmInv, TextInv, MachineType, StackInv, SimInv, lines \in Seq(PlainLine),
           src' = src, Crash \/ Limit, ~strayed, ~Source!Undefined
    PROVE  Source!Fail \/ Source!Expire
<1>1. Going
  BY DEF Going, Crash, Limit
<1>2. /\ dialect' = dialect /\ mem' = mem /\ sp' = sp /\ regs' = regs /\ instrCnt' = instrCnt
      /\ input' = input /\ out' = out
  BY DEF Crash, Limit
<1>3. CellStack' = CellStack /\ PlainData' = PlainData
  BY <1>2, SameState
<1>4. CASE Crash
  <2>1. Source!Running /\ Source!Fails
    <3>1. AtLine # 0
      BY <1>1 DEF Going, Source!Undefined
    <3>2. Faults(fetchInstr) /\ instrCnt < MaxInstrs /\ state = "running"
      BY <1>4 DEF Crash
    <3>. QED
      BY <1>1, <3>1, <3>2, FaultsAreFailures DEF Source!Running
  <2>2. Source!Stop("crashed")
    BY <1>4, Stops DEF Crash
  <2>. QED
    BY <1>2, <1>3, <2>1, <2>2 DEF Source!Fail
<1>5. CASE Limit
  <2>1. Source!Stop("limit") /\ state = "running" /\ instrCnt >= MaxInstrs
    BY <1>5, Stops DEF Limit
  <2>. QED
    BY <1>2, <1>3, <2>1 DEF Source!Expire
<1>. QED
  BY <1>4, <1>5

LEMMA TextDone ==
    ASSUME AsmInv, TextInv, lines \in Seq(PlainLine), phase = "done"
    PROVE  /\ src \in DOMAIN Sources /\ Len(lines) \in Nat /\ code \in Seq(Byte) /\ Len(code) \in Nat
           /\ errs = {} <=> \A i \in 1 .. Len(lines) : Reading!WellFormed(lines[i], Means)
           /\ errs = {} => /\ Places[Len(lines) + 1] = Len(code)
                           /\ \A a : ByteAt(DataSoFar[Len(lines)], a) =
                                 IF a \in 0 .. Len(code) - 1 /\ a \notin CodeBytes THEN code[a + 1] ELSE 0
<1>1. /\ AsmType /\ src \in DOMAIN Sources /\ cur = Len(lines) + 1 /\ Len(lines) \in Nat
      /\ code \in Seq(Byte) /\ Len(code) \in Nat
  BY TextLines DEF AsmInv, AsmType
<1>2. cur - 1 = Len(lines)
  BY <1>1
<1>3. /\ errs = {} <=> \A i \in 1 .. Len(lines) : Reading!WellFormed(lines[i], Means)
      /\ errs = {} => DataSays
  BY <1>2 DEF TextInv
<1>4. errs = {} => Places[Len(lines) + 1] = Len(code)
  <2>1. \A i \in 1 .. Len(lines) : ~EmptyText(lines[i])
    BY <1>1 DEF PlainLine
  <2>2. Places = Positions(lines)
    BY <1>1, PlacesArePositions DEF Places
  <2>. QED
    BY <1>1, <1>2, <2>1, <2>2 DEF AsmInv, AsmType, NoEmptyText
<1>. QED
  BY <1>1, <1>2, <1>3, <1>4 DEF DataSays

\* Loading the program gives the data of the text, and its code.
LEMMA Begins ==
    ASSUME AsmInv, TextInv, MachineType, StackInv, SimInv, lines \in Seq(PlainLine), Start
    PROVE  /\ Source!Begin
           /\ state' = "running" => /\ Assembled /\ Len(code) <= CodeSz
                                    /\ \A a \in CodeBytes : ByteAt(mem', a) = code[a + 1]
<1>1. /\ phase = "done" /\ state = "empty" /\ pc = 0 /\ sp = StackBase /\ dialect \in Dialects
      /\ src' = src /\ dialect' = dialect /\ regs' = regs /\ pc' = pc /\ sp' = sp
      /\ instrCnt' = instrCnt /\ input' = input /\ out' = out
  BY DEF Start, loadProg, SimInv, StackInv, MachineType, asmVars
<1>. DEFINE loaded == [a \in 0 .. Len(code) - 1 |-> code[a + 1]]
<1>2. /\ Assembled /\ Len(code) <= CodeSz => state' = "running" /\ mem' = loaded
      /\ ~(Assembled /\ Len(code) <= CodeSz) => state' = "crashed" /\ mem' = mem
  <2>1. code \in Seq(Byte) /\ Len(code) \in Nat /\ CodeSz \in Nat
    BY SizesAssumption DEF AsmInv, AsmType
  <2>. QED
    BY <2>1 DEF Start, loadProg
<1>3. /\ src \in DOMAIN Sources /\ Len(lines) \in Nat /\ code \in Seq(Byte) /\ Len(code) \in Nat
      /\ errs = {} <=> \A i \in 1 .. Len(lines) : Reading!WellFormed(lines[i], Means)
      /\ errs = {} => /\ Places[Len(lines) + 1] = Len(code)
                      /\ \A a : ByteAt(DataSoFar[Len(lines)], a) =
                            IF a \in 0 .. Len(code) - 1 /\ a \notin CodeBytes THEN code[a + 1] ELSE 0
  BY <1>1, TextDone
<1>4. Layout[src].accepted <=> Assembled /\ Len(code) <= CodeSz
  <2>1. Layout[src].accepted <=> /\ \A i \in 1 .. Len(lines) : Reading!WellFormed(lines[i], Means)
                                 /\ Places[Len(lines) + 1] <= CodeSz
    BY <1>3, LayoutIs
  <2>. QED
    BY <1>1, <1>3, <2>1 DEF Assembled
<1>5. \A a : ByteAt(loaded, a) = IF a \in 0 .. Len(code) - 1 THEN code[a + 1] ELSE 0
  BY DEF ByteAt
<1>. HIDE DEF loaded
<1>6. Assembled /\ Len(code) <= CodeSz => PlainData' = Layout[src].data
  <2>. SUFFICES ASSUME Assembled, Len(code) <= CodeSz PROVE PlainData' = Layout[src].data
    OBVIOUS
  <2>. DEFINE d == DataSoFar[Len(lines)]
  <2>1. Layout[src].data = Reading!NonZero(d)
    BY <1>3, <1>4, LayoutIs
  <2>2. \A a \in 0 .. Len(code) - 1 : a < StackLoOf(dialect)
    <3>1. /\ StackLoOf(dialect) \in Int /\ StackLoOf(dialect) >= MemSz + 3 * CellBytes
          /\ MemSz \in Nat /\ CellBytes \in Nat
      BY <1>1, Sizes
    <3>. QED
      BY <1>3, <3>1, SizesAssumption
  <2>3. \A a : ByteAt(d, a) =
                  IF a \in 0 .. Len(code) - 1 /\ a \notin CodeBytes THEN code[a + 1] ELSE 0
    BY <1>3 DEF Assembled
  <2>. HIDE DEF d
  <2>4. ASSUME NEW a PROVE ByteAt(DataIn(loaded), a) = ByteAt(d, a)
    BY <1>5, <2>2, <2>3, DataByte DEF IsData
  <2>5. Reading!NonZero(DataIn(loaded)) = Reading!NonZero(d)
    BY <2>4, SameBytes
  <2>6. Reading!NonZero(DataIn(loaded)) = DataIn(loaded)
    BY Zenon DEF DataIn, Reading!NonZero
  <2>7. PlainData' = DataIn(mem')
    BY <1>1, <1>3, DataNext
  <2>. QED
    BY <1>2, <2>1, <2>5, <2>6, <2>7
<1>7. ~(Assembled /\ Len(code) <= CodeSz) => PlainData' = PlainData
  BY <1>1, <1>2, SameState
<1>8. CellStack' = CellStack
  <2>1. CellsOf(mem', sp) = CellsOf(mem, sp)
    <3>1. StackBase \in Int /\ StackBase + 0 * CellBytes = StackBase
      BY Sizes, <1>1
    <3>2. \A m : CellsOf(m, StackBase) = [k \in 1 .. 0 |-> CellIn(m, StackBase + CellBytes * (k - 1))]
      BY <3>1, CellsAre
    <3>. QED
      BY <1>1, <3>2
  <2>. QED
    BY <1>1, <2>1, StackNext, CellStackIs
<1>9. AtLine' = IF state' = "running" /\ 0 \in DOMAIN Layout[src].lineAt
                THEN Layout[src].lineAt[0] ELSE 0
  <2>1. Layout' = Layout
    OBVIOUS
  <2>. QED
    BY <1>1, <2>1 DEF AtLine
<1>10. IF Layout[src].accepted THEN state' = "running" /\ PlainData' = Layout[src].data
       ELSE state' = "crashed" /\ PlainData' = PlainData
  BY <1>2, <1>4, <1>6, <1>7
<1>11. Source!Begin
  BY <1>1, <1>8, <1>9, <1>10 DEF Source!Begin
<1>12. ASSUME state' = "running", NEW a \in CodeBytes PROVE ByteAt(mem', a) = code[a + 1]
  <2>1. Assembled /\ Len(code) <= CodeSz /\ mem' = loaded
    BY <1>2, <1>12
  <2>2. a \in 0 .. Len(code) - 1
    BY <1>3, <2>1, CodeWithin DEF Assembled
  <2>. QED
    BY <1>5, <2>1, <2>2
<1>. QED
  BY <1>2, <1>11, <1>12

----------------------------------------------------------------------------
(* The invariant *)

LEMMA OutGrows ==
    ASSUME NEW i, Instructions(i) \/ handleSyscall(i)
    PROVE  out' = out \/ \E e : out' = Append(out, e)
BY Zenon DEF Instructions, handleSyscall, Push, Pop, Call, Ret, Halt, Move, Compute2,
  Compute1, Load, Store, Jump, SysExit, SysPrintInt, SysPrintHex, SysPrintStr, SysReadInt,
  SysReadStr, SysStrlen, SysStrcmp, SysRandom, SysInfo, SysOS, Write

LEMMA Grown ==
    ASSUME NEW S, NEW s \in Seq(S), NEW t, t = s \/ \E e : t = Append(s, e)
    PROVE  \E T : t \in Seq(T)
<1>1. CASE t = s
  BY <1>1
<1>2. CASE t # s
  <2>1. PICK e : t = Append(s, e)
    BY <1>2
  <2>. DEFINE T == S \cup {e}
  <2>2. s \in Seq(T) /\ e \in T
    OBVIOUS
  <2>. HIDE DEF T
  <2>3. t \in Seq(T)
    BY <2>1, <2>2
  <2>. QED
    BY <2>3
<1>. QED
  BY <1>1, <1>2

LEMMA SimStep ==
    ASSUME AsmInv, TextInv, MachineType, StackInv, SimInv, lines \in Seq(PlainLine), [Next]_vars
    PROVE  SimInv'
<1>1. PICK S : out \in Seq(S)
  BY DEF SimInv
<1>2. CASE UNCHANGED vars
  <2>1. /\ src' = src /\ phase' = phase /\ errs' = errs /\ code' = code /\ out' = out
        /\ state' = state /\ strayed' = strayed /\ pc' = pc /\ mem' = mem /\ sp' = sp
    BY <1>2 DEF vars, asmVars, vmVars
  <2>2. CodeBytes' = CodeBytes /\ Assembled' = Assembled
    BY <2>1, SameText DEF Assembled
  <2>. QED
    BY <2>1, <2>2 DEF SimInv
<1>3. CASE Assemble
  <2>1. /\ phase # "done" /\ out' = out
        /\ state' = state /\ strayed' = strayed /\ pc' = pc /\ mem' = mem /\ sp' = sp
    BY <1>3 DEF Assemble, vmVars, assemble, pass1, endPass1, pass2, endPass2, emitValues, emitText,
      emitPadding, skipBlank, unknownMnemonic, emitSyscall, emitInstr, LineOf
  <2>2. state # "running"
    BY <2>1 DEF SimInv, Assembled
  <2>. QED
    BY <2>1, <2>2 DEF SimInv
<1>4. CASE Start
  <2>1. /\ state' = "running" => /\ Assembled /\ Len(code) <= CodeSz
                                 /\ \A a \in CodeBytes : ByteAt(mem', a) = code[a + 1]
    BY <1>4, Begins
  <2>2. /\ src' = src /\ phase' = phase /\ errs' = errs /\ code' = code /\ out' = out
        /\ state' \in {"running", "crashed"} /\ sp' = sp /\ sp = StackBase
    BY <1>4 DEF Start, loadProg, asmVars, StackInv
  <2>3. CodeBytes' = CodeBytes /\ Assembled' = Assembled
    BY <2>2, SameText DEF Assembled
  <2>4. \E n \in Nat : sp' + n * CellBytes = StackBase
    <3>1. StackBase + 0 * CellBytes = StackBase
      BY Sizes DEF MachineType
    <3>. QED
      BY <2>2, <3>1
  <2>. QED
    BY <2>1, <2>2, <2>3, <2>4 DEF SimInv
<1>5. CASE Execute
  <2>1. /\ run /\ state = "running" /\ strayed' = (strayed \/ Source!Undefined)
        /\ src' = src /\ phase' = phase /\ errs' = errs /\ code' = code
    BY <1>5 DEF Execute, run, execInstr, Crash, Limit, asmVars
  <2>2. CodeBytes' = CodeBytes /\ Assembled' = Assembled
    BY <2>1, SameText DEF Assembled
  <2>3. CASE execInstr
    <3>1. Instructions(fetchInstr) \/ handleSyscall(fetchInstr)
      BY <2>3 DEF execInstr
    <3>2. \E T : out' \in Seq(T)
      BY <1>1, <3>1, OutGrows, Grown
    <3>3. state' # "empty"
      BY <2>1, <3>1, StatesReached
    <3>4. ASSUME ~strayed' PROVE CodeKept /\ WholeCells
      <4>1. Going
        BY <2>1, <3>4 DEF Going
      <4>. QED
        BY <2>1, <2>3, <4>1, Executes
    <3>5. ASSUME ~strayed'
          PROVE  /\ \A a \in CodeBytes : ByteAt(mem', a) = code[a + 1]
                 /\ \E n \in Nat : sp' + n * CellBytes = StackBase
      <4>1. ~strayed
        BY <2>1, <3>5
      <4>. QED
        BY <2>1, <3>4, <3>5, <4>1 DEF SimInv, CodeKept, WholeCells
    <3>6. Assembled /\ Len(code) <= CodeSz
      BY <2>1 DEF SimInv
    <3>. QED
      BY <2>1, <2>2, <3>2, <3>3, <3>5, <3>6 DEF SimInv
  <2>4. CASE Crash \/ Limit
    <3>1. state' \in {"crashed", "limit"} /\ out' = out
      BY <2>4 DEF Crash, Limit
    <3>. QED
      BY <1>1, <3>1 DEF SimInv
  <2>. QED
    BY <2>1, <2>3, <2>4 DEF run
<1>. QED
  BY <1>2, <1>3, <1>4, <1>5 DEF Next

LEMMA SourceStep ==
    ASSUME AsmInv, TextInv, MachineType, StackInv, SimInv, lines \in Seq(PlainLine), [Next]_vars
    PROVE  strayed' \/ Source!Next \/ UNCHANGED <<Source!srcVars>>
<1>1. ASSUME src' = src, UNCHANGED vmVars PROVE UNCHANGED <<Source!srcVars>>
  <2>1. /\ dialect' = dialect /\ mem' = mem /\ sp' = sp /\ regs' = regs /\ instrCnt' = instrCnt
        /\ input' = input /\ out' = out /\ state' = state /\ pc' = pc /\ src' = src
    BY <1>1 DEF vmVars
  <2>2. CellStack' = CellStack /\ PlainData' = PlainData
    BY <2>1, SameState
  <2>3. Layout' = Layout
    OBVIOUS
  <2>4. AtLine' = AtLine
    BY <2>1, <2>3 DEF AtLine
  <2>. QED
    BY <2>1, <2>2, <2>4 DEF Source!srcVars
<1>2. CASE UNCHANGED vars
  BY <1>1, <1>2 DEF vars, asmVars
<1>3. CASE Assemble
  <2>1. ASSUME pass2 PROVE \E bs, ok : Emit(bs, ok)
    BY <2>1, Zenon DEF pass2, emitValues, emitText, emitPadding, skipBlank, unknownMnemonic,
      emitSyscall, emitInstr, Emitted
  <2>2. src' = src /\ UNCHANGED vmVars
    BY <1>3, <2>1 DEF Assemble, assemble, pass1, endPass1, endPass2, Emit
  <2>. QED
    BY <1>1, <2>2
<1>4. CASE Start
  BY <1>4, Begins DEF Source!Next
<1>5. CASE Execute
  <2>1. /\ run /\ state = "running" /\ strayed' = (strayed \/ Source!Undefined) /\ src' = src
    BY <1>5 DEF Execute, run, execInstr, Crash, Limit, asmVars
  <2>2. CASE ~strayed /\ ~Source!Undefined
    <3>1. CASE execInstr
      <4>1. Going
        BY <2>1, <2>2 DEF Going
      <4>. QED
        BY <2>1, <3>1, <4>1, Executes DEF Source!Next
    <3>2. CASE Crash \/ Limit
      BY <2>1, <2>2, <3>2, StopsToo DEF Source!Next
    <3>. QED
      BY <2>1, <3>1, <3>2 DEF run
  <2>. QED
    BY <2>1, <2>2
<1>. QED
  BY <1>2, <1>3, <1>4, <1>5 DEF Next

LEMMA SourceInit ==
    ASSUME Init
    PROVE  Source!Init /\ SimInv
<1>1. /\ state = "empty" /\ sp = StackBase /\ mem = <<>> /\ pc = 0 /\ instrCnt = 0 /\ out = <<>>
      /\ regs = [r \in RA .. RC |-> 0]
  BY DEF Init, VMInit
<1>2. AtLine = 0
  BY <1>1 DEF AtLine
<1>3. regs = [r \in 0 .. 2 |-> 0]
  BY <1>1 DEF RA, RC
<1>4. CellStack = <<>>
  <2>1. (StackBase - sp) \div CellBytes = 0
    <3>1. StackBase \in Nat /\ CellBytes \in Nat \ {0}
      BY SizesAssumption, CellBytesAssumption, WordBytesAssumption
    <3>. QED
      BY <1>1, <3>1
  <2>2. CellStack = [k \in 1 .. 0 |-> Cell(k)]
    BY <2>1 DEF CellStack
  <2>. QED
    BY <2>2
<1>5. PlainData = <<>>
  <2>1. DOMAIN mem = {}
    BY <1>1
  <2>2. DOMAIN PlainData = {}
    BY <2>1 DEF PlainData, Reading!NonZero
  <2>3. PlainData = [a \in DOMAIN PlainData |-> PlainData[a]]
    BY DEF PlainData, Reading!NonZero
  <2>. QED
    BY <2>2, <2>3
<1>6. SimInv
  <2>1. \E S : out \in Seq(S)
    <3>1. <<>> \in Seq({})
      OBVIOUS
    <3>. QED
      BY <1>1, <3>1
  <2>. QED
    BY <1>1, <2>1 DEF SimInv
<1>. QED
  BY <1>1, <1>2, <1>3, <1>4, <1>5, <1>6 DEF Source!Init

\* The toolchain implements the language: a program that keeps to what its
\* text defines does, step by step, what the text says, for every text that
\* has no empty literal, every dialect and input, and any sizes of words,
\* cells, code, memory and stack (asmISA.py and customISA.py together).
THEOREM RunsItsText ==
    ASSUME NoEmptyTexts
    PROVE  Spec => ImplementsSource
<1>. DEFINE Inv == AsmInv /\ TextInv /\ MachineType /\ StackInv
<1>1. Spec => []Inv
  BY AsmAlways, AssemblesTheText, MachineAlways, StackAlways, PTL
<1>2. Inv => lines \in Seq(PlainLine)
  BY PlainText DEF AsmInv
<1>3. Init => Source!Init /\ SimInv
  BY SourceInit
<1>4. Inv /\ SimInv /\ [Next]_vars => SimInv'
  BY <1>2, SimStep
<1>5. Inv /\ SimInv /\ [Next]_vars => [strayed' \/ Source!Next]_<<Source!srcVars>>
  BY <1>2, SourceStep
<1>. QED
  BY <1>1, <1>3, <1>4, <1>5, PTL DEF Spec, ImplementsSource
=============================================================================
