------------------------------- MODULE RuneVM -------------------------------
(***************************************************************************)
(* The machine that runs an assembled program: a fetch, decode and execute *)
(* loop over a sparse memory, three registers, a stack that grows down     *)
(* from the last address, and system calls on an input and an output.      *)
(*                                                                         *)
(* The repository has three copies of the machine, told apart by `dialect`:*)
(*   "isa"     RuneISA/Source/customISA.py                                 *)
(*   "legacy"  PWN/DarkLegacy/Server/util.py                               *)
(*   "runes"   REV/UnknownRunes/Server/customISA.py                        *)
(*                                                                         *)
(* An exception of the code ends the run; what a faulting instruction did  *)
(* to registers and memory before it raised is not kept.                   *)
(***************************************************************************)
EXTENDS RuneISA

CONSTANTS MemSz, CodeSz,     \* sizes of memory and of the code segment
          StackLoOf(_),      \* per dialect, the lowest address of the stack
          MaxInstrs,         \* the limit on executed instructions
          RandomValues,      \* the words RANDOM may return
          ShellCodes         \* the exit codes of the commands OS runs

Dialects == {"isa", "legacy", "runes"}
StackBase == Top - 1

\* The code segment is a part of memory.  Three cells, the most that one
\* instruction moves, lie between memory and the stack.
ASSUME SizesAssumption ==
    /\ MemSz \in Nat /\ CodeSz \in 0 .. MemSz /\ MaxInstrs \in Nat
    /\ StackBase \in Nat
    /\ \A d \in Dialects : StackLoOf(d) \in MemSz + 3 * CellBytes .. StackBase
ASSUME ResultsAssumption == RandomValues \subseteq Word /\ ShellCodes \subseteq Int

VARIABLES dialect,    \* which copy of the machine
          mem,        \* the bytes written so far; every other byte is 0
          regs,       \* RA, RB, RC
          pc, sp,
          state,      \* "empty", "running", "halted", "exited", "crashed", "limit"
          instrCnt,
          input,      \* the lines to come: [text |-> characters, int |-> the number it spells]
          out         \* what was written: [how |-> ..., val |-> ...]

vmVars == <<dialect, mem, regs, pc, sp, state, instrCnt, input, out>>

RA == 0
RB == 1
RC == 2

----------------------------------------------------------------------------
(* Memory *)

\* Slip: the stack's lowest address is not checked.
InBounds_Slip(a) == a \in 0 .. MemSz - 1 \/ a <= StackBase
InBounds(a) == a \in 0 .. MemSz - 1 \/ a \in StackLoOf(dialect) .. StackBase

----------------------------------------------------------------------------
(* The instruction at pc and the registers it names *)

fetchInstr == decodeInstr(BytesAt(mem, pc, INSTRSZ))
Reg(i, k) == regs[IF i.r[k] = -1 THEN RC ELSE i.r[k]]   \* regs[-1] is the last
Present(i, ks) == \A k \in ks : i.r[k] # -1

\* Stack cells an instruction reads or writes.  PUSHA moves three.
Pushes == {"PUSH", "PUSHI", "PUSHA", "CALL"}
Pops == {"POP", "POPA", "RET"}
Depth(op) == IF op \in {"PUSHA", "POPA"} THEN 3 ELSE 1
Pushed(op) == sp - CellBytes * Depth(op)
Cells(op) ==
    LET low == IF op \in Pushes THEN Pushed(op) ELSE sp
    IN {low + CellBytes * k : k \in 0 .. Depth(op) - 1}

\* The addresses whose bounds are checked.
Checked(i) ==
    CASE i.op \in Pushes \cup Pops -> Cells(i.op)
      [] i.op = "LOAD" -> {Addr(Reg(i, 2))}
      [] i.op = "STORE" -> {Addr(Reg(i, 1))}
      [] i.op \in {"LOADI", "STOREI"} -> {Addr(i.imm)}
      [] OTHER -> {}

\* The registers that the handler of a system call insists on.  The first
\* dialect names them in the instruction instead, and leaves the handlers
\* (but SYS) to read whatever register a missing field selects.
Fields(number) ==
    CASE number \in {0, 1, 5, 7} -> {2}
      [] number \in {2, 4, 6, 9, 10} -> {2, 3}
      [] OTHER -> {}

SyscallLegal(i, number) ==
    /\ number \in 0 .. (IF dialect = "runes" THEN 8 ELSE 10)
    /\ Present(i, {1})
    /\ IF dialect = "isa"
       THEN /\ i.r[1] = RA /\ i.r[2] \in {-1, RB} /\ i.r[3] \in {-1, RC}
            /\ number = 9 => Present(i, {2, 3})
       ELSE Present(i, Fields(number))

Faults(i) ==
    \/ pc + INSTRSZ > MemSz
    \/ i.op = "?"
    \/ i.op # "SYSCALL" /\ ~Present(i, 1 .. NumRegs(i.op))
    \/ DividesByZero(i.op, Reg(i, 3))
    \/ \E a \in Checked(i) : ~InBounds(a)
    \/ i.op = "SYSCALL" /\ ~SyscallLegal(i, Reg(i, 1))

----------------------------------------------------------------------------
(* What an instruction does; execInstr, below, counts it *)

Onward == pc' = pc + INSTRSZ /\ UNCHANGED <<dialect, state>>
Assign(i, v) == regs' = [regs EXCEPT ![i.r[1]] = v]

Halt(i) ==
    /\ i.op = "HALT"
    /\ state' = "halted" /\ pc' = pc + INSTRSZ
    /\ UNCHANGED <<dialect, mem, regs, sp, input, out>>

Move(i) ==
    /\ i.op \in {"MOV", "MOVR"} /\ Onward
    /\ Assign(i, IF i.op = "MOV" THEN to24(i.imm) ELSE Reg(i, 2))
    /\ UNCHANGED <<mem, sp, input, out>>

Compute2(i) ==
    /\ i.op \in ThreeRegs /\ Onward
    /\ Assign(i, Binary(i.op, Reg(i, 2), Reg(i, 3)))
    /\ UNCHANGED <<mem, sp, input, out>>

Compute1(i) ==
    /\ i.op \in OneReg \cup RegImm /\ Onward
    /\ Assign(i, Unary(dialect, i.op, Reg(i, 1), i.imm))
    /\ UNCHANGED <<mem, sp, input, out>>

Load(i) ==
    /\ i.op \in {"LOAD", "LOADI"} /\ Onward
    /\ \E a \in Checked(i) : Assign(i, to24(LE(BytesAt(mem, a, WordBytes))))
    /\ UNCHANGED <<mem, sp, input, out>>

Store(i) ==
    /\ i.op \in {"STORE", "STOREI"} /\ Onward
    /\ \E a \in Checked(i) :
          LET v == IF i.op = "STORE" THEN Reg(i, 2) ELSE Reg(i, 1)
          IN mem' = Overlay(mem, a, Bytes(v, WordBytes))
    /\ UNCHANGED <<regs, sp, input, out>>

Jump(i) ==
    /\ i.op \in Branches \cup {"JMP"}
    /\ pc' = IF i.op = "JMP" \/ Taken(i.op, Reg(i, 1), Reg(i, 2))
             THEN Addr(i.imm) ELSE pc + INSTRSZ
    /\ UNCHANGED <<dialect, state, mem, regs, sp, input, out>>

Push(i) ==
    /\ i.op \in {"PUSH", "PUSHI", "PUSHA"} /\ Onward
    /\ LET op == i.op
           values == IF op = "PUSHI" THEN <<i.imm>> ELSE [k \in 1 .. Depth(op) |-> Reg(i, k)]
       IN /\ sp' = Pushed(op)
          /\ mem' = Overlay(mem, Pushed(op),
                            FlattenSeq([k \in 1 .. Depth(op) |-> Bytes(values[k], CellBytes)]))
    /\ UNCHANGED <<regs, input, out>>

\* A register named twice by POPA keeps the later cell.
Cell(k) == LE(BytesAt(mem, sp + CellBytes * (k - 1), CellBytes))
Pop(i) ==
    /\ i.op \in {"POP", "POPA"} /\ Onward
    /\ LET n == Depth(i.op)
       IN /\ sp' = sp + CellBytes * n
          /\ regs' = [r \in RA .. RC |->
                        LET ks == {k \in 1 .. n : i.r[k] = r}
                        IN IF ks = {} THEN regs[r]
                           ELSE to24(Cell(CHOOSE k \in ks : \A j \in ks : j <= k))]
    /\ UNCHANGED <<mem, input, out>>

\* Slip: the address pushed is that of CALL itself.
Call_Slip(i) ==
    /\ i.op = "CALL"
    /\ sp' = Pushed("CALL")
    /\ mem' = Overlay(mem, Pushed("CALL"), Bytes(pc, CellBytes))
    /\ pc' = Addr(Reg(i, 1))
    /\ UNCHANGED <<dialect, state, regs, input, out>>
Call(i) ==
    /\ i.op = "CALL"
    /\ sp' = Pushed("CALL")
    /\ mem' = Overlay(mem, Pushed("CALL"), Bytes(pc + INSTRSZ, CellBytes))
    /\ pc' = Addr(Reg(i, 1))
    /\ UNCHANGED <<dialect, state, regs, input, out>>

Ret(i) ==
    /\ i.op = "RET"
    /\ pc' = Cell(1) /\ sp' = sp + CellBytes
    /\ UNCHANGED <<dialect, state, mem, regs, input, out>>

----------------------------------------------------------------------------
(* System calls.  RA (the first register named, in the servers) holds the  *)
(* number and receives the result.                                         *)

Syscall(i, number) == i.op = "SYSCALL" /\ Reg(i, 1) = number
Result(i, v) == Assign(i, to24(v)) /\ Onward
Write(how, v) == out' = Append(out, [how |-> how, val |-> v])

\* readline at the end of the input returns the empty text for ever.
EndOfInput == [text |-> <<>>, int |-> 0]
Line == IF input = <<>> THEN EndOfInput ELSE Head(input)
ReadLine == input' = IF input = <<>> THEN input ELSE Tail(input)

SysExit(i) ==
    /\ Syscall(i, 0)
    /\ state' = "exited"
    /\ IF dialect = "isa" /\ Reg(i, 2) < 0 THEN Write("exit", Reg(i, 2)) ELSE out' = out
    /\ UNCHANGED <<dialect, mem, regs, pc, sp, input>>

\* The result of a print is the number of characters written.
SysPrintInt(i) ==
    /\ Syscall(i, 1)
    /\ Write("int", Reg(i, 2))
    /\ Result(i, Digits(Abs(Reg(i, 2)), 10) + (IF Reg(i, 2) < 0 THEN 1 ELSE 0))
    /\ UNCHANGED <<mem, sp, input>>
SysPrintHex(i) ==
    /\ Syscall(i, 7)
    /\ Write("hex", Reg(i, 2) % Modulus)
    /\ Result(i, 2 + Digits(Reg(i, 2) % Modulus, 16))
    /\ UNCHANGED <<mem, sp, input>>

\* A length of 0 asks for the text up to its zero byte.
SysPrintStr(i) ==
    /\ Syscall(i, 2)
    /\ LET a == Addr(Reg(i, 2))
           text == IF Reg(i, 3) = 0 THEN Text(mem, a) ELSE BytesAt(mem, a, Reg(i, 3))
       IN Write("text", text) /\ Result(i, Len(text))
    /\ UNCHANGED <<mem, sp, input>>

SysReadInt(i) ==
    /\ Syscall(i, 3)
    /\ ReadLine /\ Result(i, Line.int)
    /\ UNCHANGED <<mem, sp, out>>

SysReadStr(i) ==
    /\ Syscall(i, 4)
    /\ LET n == ReadLength(dialect, Line.text, Reg(i, 3))
       IN /\ mem' = Overlay(mem, Addr(Reg(i, 2)), LowBytes(Line.text, n))
          /\ Result(i, n)
    /\ ReadLine
    /\ UNCHANGED <<sp, out>>

SysStrlen(i) ==
    /\ Syscall(i, 5)
    /\ Result(i, Len(Text(mem, Addr(Reg(i, 2)))))
    /\ UNCHANGED <<mem, sp, input, out>>

SysStrcmp(i) ==
    /\ Syscall(i, 6)
    /\ Result(i, Compare(mem, Addr(Reg(i, 2)), Addr(Reg(i, 3))))
    /\ UNCHANGED <<mem, sp, input, out>>

SysRandom(i) ==
    /\ Syscall(i, 8)
    /\ \E v \in RandomValues : Result(i, v)
    /\ UNCHANGED <<mem, sp, input, out>>

\* SYS names a system call, and then its handler returns nothing, which the
\* caller cannot convert to a word; for any other request it exits.
SysInfo(i) ==
    /\ Syscall(i, 9)
    /\ Write("info", Reg(i, 2))
    /\ state' = IF Reg(i, 3) = 4095 /\ Reg(i, 2) \in 0 .. 10 THEN "crashed" ELSE "exited"
    /\ UNCHANGED <<dialect, mem, regs, pc, sp, input>>

\* The command ends at the first zero byte within the given length.  Its
\* exit code is the result, or -1 when it could not be run to its end.
SysOS(i) ==
    /\ Syscall(i, 10)
    /\ LET a == Addr(Reg(i, 2))
           zeros == {n \in 0 .. Reg(i, 3) - 1 : ByteAt(mem, a + n) = 0}
           n == IF zeros = {} THEN Reg(i, 3) ELSE CHOOSE k \in zeros : \A j \in zeros : k <= j
       IN Write("os", BytesAt(mem, a, n))
    /\ \E code \in ShellCodes \cup {-1} : Result(i, code % Modulus)
    /\ UNCHANGED <<mem, sp, input>>

----------------------------------------------------------------------------
(* Starting and stopping *)

Crash == /\ state = "running" /\ instrCnt < MaxInstrs /\ Faults(fetchInstr)
         /\ state' = "crashed"
         /\ UNCHANGED <<dialect, mem, regs, pc, sp, instrCnt, input, out>>

Limit == /\ state = "running" /\ instrCnt >= MaxInstrs
         /\ state' = "limit"
         /\ UNCHANGED <<dialect, mem, regs, pc, sp, instrCnt, input, out>>

\* A program of more bytes than the code segment is refused.
loadProg(prog) ==
    /\ state = "empty"
    /\ IF Len(prog) > CodeSz
       THEN state' = "crashed" /\ mem' = mem
       ELSE state' = "running" /\ mem' = [a \in 0 .. Len(prog) - 1 |-> prog[a + 1]]
    /\ UNCHANGED <<dialect, regs, pc, sp, instrCnt, input, out>>

VMInit(dialects, inputs) ==
    /\ dialect \in dialects /\ input \in inputs
    /\ mem = <<>> /\ regs = [r \in RA .. RC |-> 0]
    /\ pc = 0 /\ sp = StackBase
    /\ state = "empty" /\ instrCnt = 0 /\ out = <<>>

Instructions(i) == \/ Halt(i) \/ Move(i) \/ Compute2(i) \/ Compute1(i) \/ Load(i) \/ Store(i)
                   \/ Jump(i) \/ Push(i) \/ Pop(i) \/ Call(i) \/ Ret(i)
handleSyscall(i) == \/ SysExit(i) \/ SysPrintInt(i) \/ SysPrintHex(i) \/ SysPrintStr(i)
                    \/ SysReadInt(i) \/ SysReadStr(i) \/ SysStrlen(i) \/ SysStrcmp(i)
                    \/ SysRandom(i) \/ SysInfo(i) \/ SysOS(i)
\* An instruction that ends the run by an exception, of EXIT or SYS, is not
\* counted any more; HALT is.
CountAfter == IF state' \in {"exited", "crashed"} THEN instrCnt ELSE instrCnt + 1

\* Slip: a jump is not counted.
execInstr_Slip ==
    /\ state = "running" /\ instrCnt < MaxInstrs
    /\ \E i \in {fetchInstr} :
          /\ ~Faults(i) /\ (Instructions(i) \/ handleSyscall(i))
          /\ instrCnt' = IF i.op = "JMP" THEN instrCnt ELSE CountAfter
execInstr ==
    /\ state = "running" /\ instrCnt < MaxInstrs
    /\ \E i \in {fetchInstr} : ~Faults(i) /\ (Instructions(i) \/ handleSyscall(i))
    /\ instrCnt' = CountAfter
run == execInstr \/ Crash \/ Limit
============================================================================
