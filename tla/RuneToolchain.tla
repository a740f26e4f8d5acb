--------------------------- MODULE RuneToolchain ---------------------------
(***************************************************************************)
(* A program's whole way: assembled, loaded and run.  The text, the        *)
(* machine's dialect and the lines of input are chosen at the start.       *)
(***************************************************************************)
EXTENDS RuneAsm, RuneVM

CONSTANTS Programs      \* [src |-> the name of a text, dialects, inputs |-> what to run it with]

ASSUME ProgramsAssumption ==
    \A p \in Programs : /\ p.src \in DOMAIN Sources /\ p.dialects \subseteq Dialects
                         /\ p.inputs \subseteq Seq([text : Seq(Nat), int : Int])

VARIABLES strayed,      \* the program did what its language leaves undefined
          given         \* the input it was started with

vars == <<asmVars, vmVars, strayed, given>>

Reading == INSTANCE RuneText
Layout == Reading!Tabled([t \in DOMAIN Sources |-> Reading!LayoutOf(Sources[t])])

\* No text has a line that the passes count differently: pass1 counts a byte
\* for an empty string literal, and pass2 emits none.
NoEmptyTexts == \A t \in DOMAIN Sources : \A i \in DOMAIN Sources[t] : ~EmptyText(Sources[t][i])

----------------------------------------------------------------------------
(* The machine's state, read as the state of the program's text *)

AtLine == IF state = "running" /\ pc \in DOMAIN Layout[src].lineAt
          THEN Layout[src].lineAt[pc] ELSE 0
CellStack == [k \in 1 .. (StackBase - sp) \div CellBytes |-> Cell(k)]
PlainData == Reading!NonZero([a \in {x \in DOMAIN mem : x < StackLoOf(dialect)}
                                        \ Layout[src].code |-> mem[a]])

Source == INSTANCE RuneSource WITH
    at <- AtLine, stack <- CellStack, data <- PlainData, count <- instrCnt

----------------------------------------------------------------------------
Init == \E p \in Programs :
          /\ AsmInit({p.src}) /\ VMInit(p.dialects, p.inputs)
          /\ strayed = FALSE /\ given = input

Assemble == assemble /\ UNCHANGED <<vmVars, strayed, given>>

\* main of asmISA.py writes no program when a line was in error.
Start == /\ phase = "done"
         /\ IF Assembled THEN loadProg(code)
            ELSE /\ state = "empty" /\ state' = "crashed"
                 /\ UNCHANGED <<dialect, mem, regs, pc, sp, instrCnt, input, out>>
         /\ UNCHANGED <<asmVars, strayed, given>>

Execute == /\ run
           /\ strayed' = (strayed \/ Source!Undefined)
           /\ UNCHANGED <<asmVars, given>>

Over == state \notin {"empty", "running"}

Next == \/ Assemble
        \/ Start
        \/ Execute
        \/ Over /\ UNCHANGED vars

\* One thread does all the steps, so none that can be done waits for ever.
Spec == /\ Init /\ [][Next]_vars
        /\ WF_asmVars(assemble) /\ WF_state(Start) /\ WF_vmVars(run)

----------------------------------------------------------------------------
(* Properties *)

TypeOK ==
    /\ phase \in {"pass1", "pass2", "done"} /\ cur \in 1 .. Len(lines) + 1
    /\ state \in {"empty", "running", "halted", "exited", "crashed", "limit"}
    /\ \A r \in RA .. RC : regs[r] \in Word
    /\ \A a \in DOMAIN mem : a \in Nat /\ mem[a] \in 0 .. 255
    /\ pc \in 0 .. Top - 1 /\ sp \in Nat /\ instrCnt \in 0 .. MaxInstrs

\* A program that keeps to what its text defines does, step by step, what
\* the text says: the two passes agree on every address, each instruction
\* is decoded to what was written, calls come back to the line after them,
\* and words and cells are read as they were written.
ImplementsSource ==
    Source!Init /\ [][strayed' \/ Source!Next]_<<Source!srcVars>>

\* The second pass reaches a label's line where the first had put it: an
\* address taken from a label is the address of what the label stands
\* before (lineSize against the bytes that pass2 emits).  An empty text
\* puts an end to it: the passes count it differently.
LabelsAgree ==
    (/\ phase = "pass2" /\ errs = {} /\ cur <= Len(lines)
     /\ \A i \in 1 .. cur - 1 : ~EmptyText(lines[i])) =>
        LET name == lines[cur].lbl
        IN name # None /\ (\A i \in cur + 1 .. Len(lines) : lines[i].lbl # name)
             => labels[name] = pos

\* Whatever the program does, the stack pointer of a machine that goes on
\* stays within the stack, or one cell past its base: a single read beyond
\* the last cell is all that an empty stack allows.
StackStaysInRegion ==
    state = "running" => sp \in StackLoOf(dialect) .. StackBase + CellBytes

\* Every program is rejected or comes to an end, if only because the number
\* of its instructions is limited (the loop of run).
EveryRunEnds == <>Over
============================================================================
