------------------------------ MODULE RuneAsm ------------------------------
(***************************************************************************)
(* The two-pass assembler of RuneISA/Source/asmISA.py.  The first pass     *)
(* adds up the sizes of the lines and records where each label falls; the  *)
(* second emits the bytes, with labels replaced by those positions.        *)
(*                                                                         *)
(* A source line is a record: its label and its mnemonic or directive (the *)
(* empty string when it has none), its operands as tokens, and the text of *)
(* its string literal as bytes, escapes resolved, with whether it has one. *)
(* Splitting a line into these parts is not modelled.                      *)
(***************************************************************************)
EXTENDS RuneISA

CONSTANTS Sources,     \* the texts: file name -> a sequence of lines
          Upper,       \* token -> the same in upper case, where they differ
          Numeral      \* the tokens that are numerals -> their value

SourceLine == [lbl : STRING, mnem : STRING, args : Seq(STRING),
               lit : Seq(0 .. 255), quoted : BOOLEAN]

ASSUME TextsAssumption ==
    /\ \A t \in DOMAIN Sources :
          /\ Sources[t] \in Seq(SourceLine)
          /\ \A i \in DOMAIN Sources[t] : Sources[t][i].quoted \/ Sources[t][i].lit = <<>>
    /\ \A tok \in DOMAIN Numeral : Numeral[tok] \in Int

VARIABLES src,         \* the name of the text
          phase,       \* "pass1", "pass2", "done"
          cur,         \* the number of the line to come
          pos,         \* bytes so far in this pass
          labels,      \* label -> its position, filled by the first pass
          code,        \* bytes emitted so far by the second pass
          errs         \* the numbers of the lines in error

asmVars == <<src, phase, cur, pos, labels, code, errs>>

lines == Sources[src]

Up(tok) == IF tok \in DOMAIN Upper THEN Upper[tok] ELSE tok

\* The directives, under either of their names.
DB == {".DB", ".BYTE"}
DW == {".DW", ".WORD"}
DS == {".DS", ".STRING"}
ALIGN == {".ALIGN"}
Mnemonic(line) == Up(line.mnem)
IsInstr(line) == Mnemonic(line) \in OPCODES

\* A table with one entry more, or with another value for it.
Put(f, x, v) == [y \in DOMAIN f \cup {x} |-> IF y = x THEN v ELSE f[y]]

Padding(p) == (INSTRSZ - (p % INSTRSZ)) % INSTRSZ

\* The bytes that the first pass counts for a line at position p.
\* Slip: the zero byte that ends a text is not counted.
lineSize_Slip(line, p) ==
    CASE Mnemonic(line) \in DB -> Len(line.args)
      [] Mnemonic(line) \in DW -> Len(line.args) * WordBytes
      [] Mnemonic(line) \in DS -> Len(line.lit)
      [] Mnemonic(line) \in ALIGN -> Padding(p)
      [] IsInstr(line) -> INSTRSZ
      [] OTHER -> 0
lineSize(line, p) ==
    CASE Mnemonic(line) \in DB -> Len(line.args)
      [] Mnemonic(line) \in DW -> Len(line.args) * WordBytes
      [] Mnemonic(line) \in DS -> IF line.lit = <<>> THEN 0 ELSE Len(line.lit) + 1
      [] Mnemonic(line) \in ALIGN -> Padding(p)
      [] IsInstr(line) -> INSTRSZ
      [] OTHER -> 0

\* A text without bytes, for which pass2 still emits a zero byte.
EmptyText(line) == Mnemonic(line) \in DS /\ line.quoted /\ line.lit = <<>>

Regs == [RA |-> 0, RB |-> 1, RC |-> 2]

\* What an operand stands for: at most one value.
parseReg(tok) == IF Up(tok) \in DOMAIN Regs THEN {Regs[Up(tok)]} ELSE {}
parseImm(tok) ==
    IF tok \in DOMAIN labels THEN {labels[tok]}
    ELSE IF Up(tok) \in DOMAIN labels THEN {labels[Up(tok)]}
    ELSE IF tok \in DOMAIN Numeral THEN {Numeral[tok]} ELSE {}

----------------------------------------------------------------------------
(* First pass *)

pass1 ==
    /\ phase = "pass1" /\ cur <= Len(lines)
    /\ labels' = IF lines[cur].lbl = None THEN labels
                 ELSE Put(labels, lines[cur].lbl, pos)
    /\ pos' = pos + lineSize(lines[cur], pos)
    /\ cur' = cur + 1
    /\ UNCHANGED <<src, phase, code, errs>>

endPass1 ==
    /\ phase = "pass1" /\ cur > Len(lines)
    /\ phase' = "pass2" /\ cur' = 1 /\ pos' = 0 /\ code' = <<>>
    /\ UNCHANGED <<src, labels, errs>>

----------------------------------------------------------------------------
(* Second pass *)

LineOf(kind(_)) == phase = "pass2" /\ cur <= Len(lines) /\ kind(lines[cur])
Emit(bytes, ok) ==
    /\ code' = code \o bytes
    /\ pos' = pos + Len(bytes)
    /\ errs' = IF ok THEN errs ELSE errs \cup {cur}
    /\ cur' = cur + 1
    /\ UNCHANGED <<src, phase, labels>>

\* .DB and .DW: an operand that cannot be resolved is an error and emits
\* nothing.
emitValues(kind, n) ==
    /\ LineOf(LAMBDA line : Mnemonic(line) \in kind)
    /\ LET args == lines[cur].args
           value(k) == CHOOSE v \in parseImm(args[k]) : TRUE
       IN Emit(FlattenSeq([k \in DOMAIN args |->
                              IF parseImm(args[k]) = {} THEN <<>> ELSE Bytes(value(k), n)]),
               \A k \in DOMAIN args : parseImm(args[k]) # {})

\* .DS: an empty text still emits its zero byte.
emitText ==
    /\ LineOf(LAMBDA line : Mnemonic(line) \in DS)
    /\ IF lines[cur].quoted THEN Emit(Append(lines[cur].lit, 0), TRUE) ELSE Emit(<<>>, FALSE)

emitPadding ==
    /\ LineOf(LAMBDA line : Mnemonic(line) \in ALIGN)
    /\ Emit([k \in 1 .. Padding(pos) |-> 0], TRUE)

skipBlank ==
    /\ LineOf(LAMBDA line : Mnemonic(line) = None)
    /\ Emit(<<>>, TRUE)
unknownMnemonic ==
    /\ LineOf(LAMBDA line : /\ Mnemonic(line) \notin DB \cup DW \cup DS \cup ALIGN \cup {None}
                            /\ ~IsInstr(line))
    /\ Emit(<<>>, FALSE)

\* The instruction of a line from its register operands and its immediate.
\* One with operands missing, in excess or of the wrong kind is in error but
\* takes its place all the same; its fields, which nobody will read, are
\* left out.
Operands(m, regs, imm) ==
    encInstr(Instr(m, [k \in 1 .. 3 |-> IF k <= Len(regs)
                                        THEN CHOOSE r \in parseReg(regs[k]) : TRUE ELSE -1],
                   imm))
Emitted(m, ok, regs, imm) ==
    \E bytes \in {IF ok THEN Operands(m, regs, imm) ELSE Operands(m, <<>>, 0)} : Emit(bytes, ok)

\* SYSCALL takes at least one register, and ignores a fourth operand.
emitSyscall ==
    /\ LineOf(LAMBDA line : Mnemonic(line) = "SYSCALL")
    /\ LET args == lines[cur].args
           regs == SubSeq(args, 1, IF Len(args) > 3 THEN 3 ELSE Len(args))
       IN Emitted("SYSCALL", regs # <<>> /\ \A k \in DOMAIN regs : parseReg(regs[k]) # {},
                  regs, 0)

emitInstr ==
    /\ LineOf(LAMBDA line : IsInstr(line) /\ Mnemonic(line) # "SYSCALL")
    /\ LET m == Mnemonic(lines[cur])
           args == lines[cur].args
           n == NumRegs(m)
           fits == Len(args) = n + (IF TakesImm(m) THEN 1 ELSE 0)
           imms == IF ~TakesImm(m) THEN {0} ELSE IF fits THEN parseImm(Last(args)) ELSE {}
           ok == fits /\ imms # {} /\ \A k \in 1 .. n : parseReg(args[k]) # {}
       IN Emitted(m, ok, SubSeq(args, 1, n), CHOOSE v \in imms \cup {0} : imms # {} => v \in imms)

endPass2 ==
    /\ phase = "pass2" /\ cur > Len(lines)
    /\ phase' = "done"
    /\ UNCHANGED <<src, cur, pos, labels, code, errs>>

----------------------------------------------------------------------------
AsmInit(names) ==
    /\ src \in names
    /\ phase = "pass1" /\ cur = 1 /\ pos = 0
    /\ labels = <<>> /\ code = <<>> /\ errs = {}

pass2 == \/ emitValues(DB, 1) \/ emitValues(DW, WordBytes) \/ emitText \/ emitPadding
         \/ skipBlank \/ unknownMnemonic \/ emitSyscall \/ emitInstr

assemble == pass1 \/ endPass1 \/ pass2 \/ endPass2

\* The program that assemble returns, when no line was in error.
Assembled == phase = "done" /\ errs = {}
============================================================================
