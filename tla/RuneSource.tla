----------------------------- MODULE RuneSource -----------------------------
(***************************************************************************)
(* What an assembly program means, without encodings, code bytes or a byte *)
(* stack: it runs from line to line, a label is the place of its line, the *)
(* stack is a sequence of cells and data are bytes apart from the code.    *)
(* The language leaves the rest undefined (see Undefined); a program that  *)
(* keeps clear of it must run on the machine as it does here.              *)
(***************************************************************************)
EXTENDS RuneText

CONSTANTS MemSz, StackLoOf(_), MaxInstrs, RandomValues, ShellCodes,
          Sources,     \* the texts, by name
          Layout       \* what LayoutOf says of each

VARIABLES dialect, src,
          at,         \* the line to run next, 0 when there is none
          regs,
          stack,      \* cells, the top first
          data,       \* the bytes that are not 0, outside code and stack
          state, count, input, out

srcVars == <<dialect, src, at, regs, stack, data, state, count, input, out>>

----------------------------------------------------------------------------
(* The instruction of the line to run *)

Line == Sources[src][at]
Code == Op(Line)
Args == Line.args
Imm == to24(CHOOSE v \in Layout[src].means[Last(Args)] : TRUE)
Has(k) == k <= Len(Args)
Reg(k) == regs[IF Has(k) THEN Field(Args[k]) ELSE 2]
Depth == IF Code \in {"PUSHA", "POPA"} THEN 3 ELSE 1
Room == Depth + Len(stack) <= (Top - 1 - StackLoOf(dialect)) \div CellBytes
Typed == IF input = <<>> THEN [text |-> <<>>, int |-> 0] ELSE Head(input)

\* The data an instruction touches: from an address, so many bytes.
Extents ==
    LET text(a) == <<a, Len(Text(data, a)) + 1>>
        R(k) == Addr(Reg(k))
    IN CASE Code = "LOAD" -> {<<R(2), WordBytes>>}
         [] Code = "STORE" -> {<<R(1), WordBytes>>}
         [] Code \in {"LOADI", "STOREI"} -> {<<Addr(Imm), WordBytes>>}
         [] Code = "SYSCALL" ->
               (CASE Reg(1) = 2 -> {IF Reg(3) = 0 THEN text(R(2)) ELSE <<R(2), Reg(3)>>}
                  [] Reg(1) = 4 -> {<<R(2), ReadLength(dialect, Typed.text, Reg(3))>>}
                  [] Reg(1) = 5 -> {text(R(2))}
                  [] Reg(1) = 6 -> {text(R(2)), text(R(3))}
                  [] Reg(1) = 10 -> {<<R(2), Reg(3)>>}
                  [] OTHER -> {})
         [] OTHER -> {}
Touched == UNION {e[1] .. e[1] + e[2] - 1 : e \in Extents}

\* Where the program goes next, as an address.
Target ==
    CASE Code = "JMP" -> Addr(Imm)
      [] Code \in Branches -> IF Taken(Code, Reg(1), Reg(2)) THEN Addr(Imm) ELSE Layout[src].place[at + 1]
      [] Code = "CALL" -> Addr(Reg(1))
      [] Code = "RET" -> Head(stack)
      [] OTHER -> Layout[src].place[at + 1]

Leaves == Code = "SYSCALL" /\ Reg(1) \in {0, 9}

\* A text that does not begin with an instruction, popping more than was
\* pushed, using the bytes of the code or the stack as data, and going where
\* no instruction was written.
Undefined ==
    /\ state = "running"
    /\ \/ at = 0
       \/ Code \in {"POP", "POPA", "RET"} /\ Depth > Len(stack)
       \/ \E a \in Touched : a \in Layout[src].code \/ a >= StackLoOf(dialect)
       \/ Code # "HALT" /\ ~Leaves /\ Target \notin DOMAIN Layout[src].lineAt

SyscallFails ==
    LET n == Reg(1)
        needs == IF n \in {0, 1, 5, 7} THEN 2 ELSE IF n \in {2, 4, 6, 9, 10} THEN 3 ELSE 1
        names == SubSeq(RegNames, 1, IF Has(3) THEN 3 ELSE Len(Args))
    IN \/ n \notin 0 .. (IF dialect = "runes" THEN 8 ELSE 10)
       \/ IF dialect = "isa"
          THEN (\E k \in DOMAIN names : Up(Args[k]) # names[k]) \/ (n = 9 /\ ~Has(3))
          ELSE ~Has(needs)
Fails ==
    \/ DividesByZero(Code, Reg(3))
    \/ Code \in {"PUSH", "PUSHI", "PUSHA", "CALL"} /\ ~Room
    \/ Code \in {"LOAD", "LOADI", "STORE", "STOREI"} /\ \E e \in Extents : e[1] >= MemSz
    \/ Code = "SYSCALL" /\ SyscallFails

----------------------------------------------------------------------------
(* Steps *)

Begin ==
    /\ state = "empty"
    /\ IF Layout[src].accepted THEN state' = "running" /\ data' = Layout[src].data
       ELSE state' = "crashed" /\ UNCHANGED data
    /\ at' = IF state' = "running" /\ 0 \in DOMAIN Layout[src].lineAt
             THEN Layout[src].lineAt[0] ELSE 0
    /\ UNCHANGED <<dialect, src, regs, stack, count, input, out>>

Running == state = "running" /\ count < MaxInstrs /\ at # 0
Stop(how) == state' = how /\ at' = 0
Set(v) == regs' = [regs EXCEPT ![Field(Args[1])] = to24(v)]
Go == state' = state /\ at' = Layout[src].lineAt[Target]

Fail == /\ Running /\ Fails /\ Stop("crashed")
        /\ UNCHANGED <<dialect, src, regs, stack, data, count, input, out>>
Expire == /\ state = "running" /\ count >= MaxInstrs /\ Stop("limit")
          /\ UNCHANGED <<dialect, src, regs, stack, data, count, input, out>>

\* The instruction a line stands for.  ISAspec.md (63, 80) calls the complement
\* NOT and the negation NEG in the challenges' dialects too, but there each is
\* the other.
Meant ==
    IF dialect = "isa" THEN Code
    ELSE CASE Code = "NOT" -> "NEG" [] Code = "NEG" -> "NOT" [] OTHER -> Code

\* A line that only computes: its value goes to its first register.  Apart from
\* Meant, what is computed is the same in every dialect.
ComputeOps == ThreeRegs \cup OneReg \cup RegImm \cup {"MOV", "MOVR", "LOAD", "LOADI"}
Computed ==
    CASE Code = "MOV" -> Imm
      [] Code = "MOVR" -> Reg(2)
      [] Code \in {"LOAD", "LOADI"} -> LE(BytesAt(data, CHOOSE a \in Touched : \A b \in Touched : a <= b, WordBytes))
      [] Code \in ThreeRegs -> Binary(Code, Reg(2), Reg(3))
      [] OTHER -> Unary("isa", Meant, Reg(1), IF TakesImm(Code) THEN Imm ELSE 0)

Stacked ==
    CASE Code = "CALL" -> <<Layout[src].place[at] + INSTRSZ>>
      [] Code = "PUSHI" -> <<Addr(Imm)>>
      [] OTHER -> [k \in 1 .. Depth |-> Addr(Reg(k))]

\* A register that is named twice keeps the later cell.
Popped ==
    [r \in 0 .. 2 |->
        LET ks == {k \in 1 .. Depth : Field(Args[k]) = r}
        IN IF ks = {} THEN regs[r] ELSE to24(stack[CHOOSE k \in ks : \A j \in ks : j <= k])]

Instruction ==
    /\ Running /\ ~Fails /\ ~Undefined /\ Code # "SYSCALL"
    /\ count' = count + 1
    /\ IF Code = "HALT" THEN Stop("halted") ELSE Go
    /\ stack' = CASE Code \in {"PUSH", "PUSHI", "PUSHA", "CALL"} -> Stacked \o stack
                  [] Code \in {"POP", "POPA", "RET"} -> SubSeq(stack, Depth + 1, Len(stack))
                  [] OTHER -> stack
    /\ CASE Code \in ComputeOps -> Set(Computed)
         [] Code \in {"POP", "POPA"} -> regs' = Popped
         [] OTHER -> UNCHANGED regs
    /\ data' = IF Code \in {"STORE", "STOREI"}
               THEN NonZero(Overlay(data, CHOOSE a \in Touched : \A b \in Touched : a <= b,
                                    Bytes(IF Code = "STORE" THEN Reg(2) ELSE Reg(1), WordBytes)))
               ELSE data
    /\ UNCHANGED <<dialect, src, input, out>>

----------------------------------------------------------------------------
(* A system call: its result, what it writes and what it reads *)

Said ==
    LET a == Addr(Reg(2))
    IN IF Reg(3) = 0 THEN Text(data, a) ELSE BytesAt(data, a, Reg(3))
Command ==
    LET a == Addr(Reg(2))
        ends == {n \in 0 .. Reg(3) - 1 : ByteAt(data, a + n) = 0} \cup {Reg(3)}
    IN BytesAt(data, a, CHOOSE n \in ends : \A k \in ends : n <= k)
Shown ==
    LET n == Reg(1)
        Entry(how, val) == << [how |-> how, val |-> val] >>
    IN CASE n = 0 /\ dialect = "isa" /\ Reg(2) < 0 -> Entry("exit", Reg(2))
         [] n = 1 -> Entry("int", Reg(2))
         [] n = 2 -> Entry("text", Said)
         [] n = 7 -> Entry("hex", Reg(2) % Modulus)
         [] n = 9 -> Entry("info", Reg(2))
         [] n = 10 -> Entry("os", Command)
         [] OTHER -> <<>>
Results ==
    LET n == Reg(1)  a == Addr(Reg(2))
    IN CASE n = 1 -> {Digits(Abs(Reg(2)), 10) + (IF Reg(2) < 0 THEN 1 ELSE 0)}
         [] n = 2 -> {Len(Said)}
         [] n = 3 -> {Typed.int}
         [] n = 4 -> {ReadLength(dialect, Typed.text, Reg(3))}
         [] n = 5 -> {Len(Text(data, a))}
         [] n = 6 -> {Compare(data, a, Addr(Reg(3)))}
         [] n = 7 -> {2 + Digits(Reg(2) % Modulus, 16)}
         [] n = 8 -> RandomValues
         [] n = 10 -> ShellCodes \cup {-1}

Syscall ==
    /\ Running /\ ~Fails /\ ~Undefined /\ Code = "SYSCALL"
    /\ count' = IF Leaves THEN count ELSE count + 1
    /\ out' = out \o Shown
    /\ IF Leaves
       THEN /\ Stop(IF Reg(1) = 9 /\ Reg(3) = 4095 /\ Reg(2) \in 0 .. 10 THEN "crashed" ELSE "exited")
            /\ UNCHANGED regs
       ELSE Go /\ \E v \in Results : Set(v)
    /\ input' = IF Reg(1) \in {3, 4} /\ input # <<>> THEN Tail(input) ELSE input
    /\ data' = IF Reg(1) = 4
               THEN NonZero(Overlay(data, Addr(Reg(2)),
                                    LowBytes(Typed.text, ReadLength(dialect, Typed.text, Reg(3)))))
               ELSE data
    /\ UNCHANGED <<dialect, src, stack>>

Next == Begin \/ Instruction \/ Syscall \/ Fail \/ Expire

Init == /\ at = 0 /\ regs = [r \in 0 .. 2 |-> 0] /\ stack = <<>> /\ data = <<>>
        /\ state = "empty" /\ count = 0 /\ out = <<>>

Spec == Init /\ [][Next]_srcVars
============================================================================
