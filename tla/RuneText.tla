------------------------------ MODULE RuneText ------------------------------
(***************************************************************************)
(* Reading an assembly text: where each line is, what its operands stand   *)
(* for, whether it is well formed and which data it lays down.  Stated     *)
(* over the whole text at once, with no pass over it.                      *)
(***************************************************************************)
EXTENDS RuneISA

CONSTANTS CodeSz, Upper, Numeral     \* as in RuneVM and RuneAsm

Up(tok) == IF tok \in DOMAIN Upper THEN Upper[tok] ELSE tok
Op(line) == Up(line.mnem)
IsInstr(line) == Op(line) \in OPCODES
\* The bytes of a line at p, where its operands are known to stand for values.
Extent(line, p) ==
    CASE Op(line) \in {".DB", ".BYTE"} -> Len(line.args)
      [] Op(line) \in {".DW", ".WORD"} -> WordBytes * Len(line.args)
      [] Op(line) \in {".DS", ".STRING"} -> IF line.quoted THEN Len(line.lit) + 1 ELSE 0
      [] Op(line) = ".ALIGN" -> CHOOSE k \in 0 .. INSTRSZ - 1 : (p + k) % INSTRSZ = 0
      [] IsInstr(line) -> INSTRSZ
      [] OTHER -> 0

RegNames == <<"RA", "RB", "RC">>
IsReg(tok) == Up(tok) \in ToSet(RegNames)
Field(tok) == CHOOSE k \in 0 .. 2 : RegNames[k + 1] = Up(tok)

\* A line whose operands are as its mnemonic asks; means[tok] is the set of
\* the values, one at most, that an operand stands for.
WellFormed(line, means) ==
    LET args == line.args
        n == NumRegs(Op(line))
        Regs(ks) == \A k \in ks : IsReg(args[k])
    IN CASE Op(line) \in {None, ".ALIGN"} -> TRUE
         [] Op(line) \in {".DS", ".STRING"} -> line.quoted
         [] Op(line) \in {".DB", ".BYTE", ".DW", ".WORD"} ->
               \A k \in DOMAIN args : means[args[k]] # {}
         [] Op(line) = "SYSCALL" -> args # <<>> /\ Regs(DOMAIN args \cap 1 .. 3)
         [] OTHER -> /\ IsInstr(line) /\ Len(args) = n + (IF TakesImm(Op(line)) THEN 1 ELSE 0)
                     /\ Regs(1 .. n)
                     /\ TakesImm(Op(line)) => means[Last(args)] # {}

\* The bytes of a line of data.
LineBytes(line, means) ==
    LET value(k) == CHOOSE v \in means[line.args[k]] : TRUE
        Values(n) == FlattenSeq([k \in DOMAIN line.args |-> Bytes(value(k), n)])
    IN CASE Op(line) \in {".DS", ".STRING"} -> line.lit
         [] Op(line) \in {".DB", ".BYTE"} -> Values(1)
         [] Op(line) \in {".DW", ".WORD"} -> Values(WordBytes)
         [] OTHER -> <<>>

NonZero(m) == [a \in {x \in DOMAIN m : m[x] # 0} |-> m[a]]

\* The same function, with its values worked out once by TLC.
Tabled(f) == CHOOSE g \in {f} : g = f

----------------------------------------------------------------------------
\* Where each line begins and, after the last, where the text ends.
Places(text) ==
    LET next[i \in 1 .. Len(text) + 1] ==
            IF i = 1 THEN 0 ELSE LET p == next[i - 1] IN p + Extent(text[i - 1], p)
    IN next

Instrs(text) == {i \in DOMAIN text : IsInstr(text[i])}

\* What each operand stands for: the place of the last line it labels, as it
\* is written or in capitals, or else its number.
Meanings(text, place) ==
    LET operands == UNION {ToSet(text[i].args) : i \in DOMAIN text}
        labelled(name) == {i \in DOMAIN text : text[i].lbl = name /\ name # None}
        found(tok) == IF labelled(tok) # {} THEN labelled(tok) ELSE labelled(Up(tok))
    IN [tok \in operands |->
           IF found(tok) # {}
           THEN {place[CHOOSE i \in found(tok) : \A j \in found(tok) : j <= i]}
           ELSE IF tok \in DOMAIN Numeral THEN {Numeral[tok]} ELSE {}]

\* The data of the first i lines, for each i.
DataOf(text, place, means) ==
    LET data[i \in 0 .. Len(text)] ==
            IF i = 0 THEN <<>> ELSE Overlay(data[i - 1], place[i], LineBytes(text[i], means))
    IN data

\* All there is to know of a text: the places of its lines, which line an
\* address is the instruction of, what the operands mean, whether it is
\* accepted, and its bytes of code and of data.
LayoutOf(text) ==
    LET place == Tabled(Places(text))
        means == Tabled(Meanings(text, place))
        instrs == Instrs(text)
        accepted == /\ \A i \in DOMAIN text : WellFormed(text[i], means)
                    /\ place[Len(text) + 1] <= CodeSz
    IN [place |-> place,
        lineAt |-> Tabled([a \in {place[i] : i \in instrs} |->
                              CHOOSE i \in instrs : place[i] = a]),
        means |-> means,
        accepted |-> accepted,
        code |-> UNION {place[i] .. place[i] + INSTRSZ - 1 : i \in instrs},
        data |-> IF accepted THEN Tabled(NonZero(DataOf(text, place, means)[Len(text)]))
                 ELSE <<>>]
============================================================================
