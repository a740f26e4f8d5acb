-------------------------- MODULE MCRuneToolchain --------------------------
(* Programs, and a machine of 16-bit words and 24-bit addresses. *)
EXTENDS RuneToolchain, JourneyRoutines

MCRandom == {MINVAL, MAXVAL}
MCStackLo(d) == IF d = "isa" THEN Top - 65536 ELSE Top - 1 - 8 * CellBytes

\* Numerals: small numbers, and the names that stand for numbers of the code
\* scaled to this machine (a data segment at 1024 in place of 0x100000).
Plain == (-7 .. 255) \cup {300, 1024, 2000, 4095, 4096, 8191, 65537, -20000, 30000}
NumeralTable ==
    ("WORD" :> WordBytes) @@ ("KEY" :> 42405) @@ ("KEY_ANS" :> 4660) @@ ("60" :> 6)
    @@ ("0x100006" :> 1026) @@ ("0x10000C" :> 1028) @@ ("0x10000F" :> 1030)
    @@ ("0x100012" :> 1032) @@ ("0x100015" :> 1034) @@ ("0x100018" :> 1036)
    @@ ("0x10001B" :> 1038) @@ ("0x10001E" :> 1040)
    @@ ("0x100080" :> 1048) @@ ("0x1000C0" :> 1064)
    @@ [t \in {ToString(n) : n \in Plain} |-> CHOOSE n \in Plain : ToString(n) = t]
MCNumeral == NumeralTable
UpperTable == ("add" :> "ADD") @@ ("ra" :> "RA") @@ ("loop" :> "LOOP") @@ (".db" :> ".DB")
MCUpper == UpperTable

Line1(text) == [text |-> text, int |-> 0]
Number(n) == [text |-> <<49>>, int |-> n]

----------------------------------------------------------------------------
(* The language: arithmetic, memory, stack and branches *)

Load2(a, b) == << I("MOV", <<"RA", a>>), I("MOV", <<"RB", b>>) >>
AllThree(a, b) ==
    Load2(a, b) \o [k \in 1 .. 8 |->
        I(<<"ADD", "SUB", "MUL", "AND", "OR", "XOR", "DIV", "MOD">>[k], <<"RC", "RA", "RB">>)]
Arithmetic ==
    AllThree("-7", "2") \o AllThree("30000", "-3") \o AllThree("-20000", "30000")
    \o << I("NOT", <<"RC">>), I("NEG", <<"RB">>), I("INC", <<"RA">>), I("DEC", <<"RA">>),
          I("SHL", <<"RB", "3">>), I("SHR", <<"RC", "1">>), I("SHR", <<"RB", "-1">>),
          I("ADDI", <<"RA", "30000">>), I("SUBI", <<"RA", "-20000">>), I("HALT", <<>>) >>

\* A loop with every branch, a procedure that calls another, texts and
\* padding between them, a label that a later one hides, one that is named
\* like a numeral, and names in lower case.
Procedures ==
    << I("JMP", <<"main">>),
       Quote("text", <<72, 0, 105>>), L("words", ".DW", <<"-2", "twice", "65537">>),
       L("1", ".db", <<"1", "300">>), I(".ALIGN", <<>>),
       L("twice", "PUSHA", <<"RA", "RB", "RA">>), I("MOV", <<"RB", "once">>),
       I("CALL", <<"RB">>), I("CALL", <<"RB">>), I("POPA", <<"RC", "RB", "RC">>),
       I("RET", <<>>) >>
Branching ==
    << L("LOOP", "", <<>>), I("JLE", <<"RC", "RA", "next">>), I("HALT", <<>>),
       L("next", "JGE", <<"RA", "RC", "more">>), I("HALT", <<>>),
       L("more", "JLT", <<"RC", "RA", "inc">>), I("JNE", <<"RA", "RC", "begin">>),
       I("MOV", <<"RB", "1">>), I("HALT", <<>>),
       L("inc", "INC", <<"RC">>), I("JGT", <<"RC", "RA", "begin">>), I("JMP", <<"loop">>) >>
Calls ==
    Procedures
    \o << L("once", "LOADI", <<"RA", "words">>), I("add", <<"RC", "ra", "RC">>), I("RET", <<>>),
          L("main", "MOV", <<"RA", "twice">>), I("CALL", <<"RA">>), L("begin", "PUSHI", <<"-3">>),
          I("POP", <<"RB">>), L("begin", "MOV", <<"RA", "2">>), I("MZERO", <<"RC">>) >>
    \o Branching

\* What the language leaves undefined: an empty stack, a store into the code
\* of the next line, a jump into data, a negative address; and an unending
\* recursion, which the stack's size must stop.
EmptyStack == << I("POP", <<"RA">>), I("PUSHI", <<"2">>), I("POP", <<"RB">>), I("POP", <<"RC">>) >>
Restart == << I("INC", <<"RA">>), I("RET", <<>>) >>
WritesCode == << I("MOV", <<"RA", "1">>), I("STOREI", <<"RA", "here">>),
                 L("here", "MOV", <<"RB", "2">>), I("HALT", <<>>) >>
IntoData == << I("JMP", <<"data">>), L("data", ".DB", <<"1", "0", "64", "4", "0">>),
               I("JMP", <<"-3">>) >>
IntoStack == << I("PUSHI", <<"7">>), I("STOREI", <<"RA", "-3">>), I("POPA", <<"RA", "RB", "RC">>) >>
Endless == << L("f", "MOV", <<"RA", "f">>), I("CALL", <<"RA">>) >>
Spin == << L("f", "JMP", <<"f">>) >>

\* Texts that are refused, and instructions that fault.
Rejected ==
    << << I("FLY", <<"RA">>) >>, << I("MOV", <<"RA">>) >>, << I("MOV", <<"1", "RA">>) >>,
      << I("JMP", <<"nowhere">>), L("a", ".DB", <<"b", "1">>) >>, << I(".DS", <<"1">>) >>,
      << I("SYSCALL", <<>>) >>, << I("SYSCALL", <<"RA", "4">>) >>,
      << Quote("long", [k \in 1 .. CodeSz |-> 65]) >> >>
Faulty ==
    << AllThree("1", "0"), << I("MOV", <<"RA", "4096">>), I("LOAD", <<"RB", "RA">>) >>,
      << I("STOREI", <<"RA", "4095">>), I("MOV", <<"RA", "30000">>), I("STORE", <<"RA", "RB">>) >> >>

----------------------------------------------------------------------------
(* System calls *)

Call3(n, b, c) == << I("MOV", <<"RA", n>>), I("MOV", <<"RB", b>>), I("MOV", <<"RC", c>>),
                     I("SYSCALL", <<"RA", "RB", "RC">>) >>
Console ==
    Call3("1", "-20000", "0") \o Call3("7", "-3", "0") \o Call3("4", "1024", "2") \o Call3("2", "1024", "2") \o Call3("3", "0", "0")
    \o Call3("5", "1024", "0") \o Call3("6", "1024", "text") \o Call3("2", "text", "0")
    \o Call3("8", "0", "0") \o Call3("0", "-1", "0") \o << Quote("text", <<65, 66>>) >>
ConsoleInputs == { <<>>, << Line1(<<65, 66>>), Number(65537) >>, << Line1(<<65, 66, 67>>) >>,
                   << Line1(<<65>>), Number(-3) >> }
Numbers == <<"0", "9", "10", "11">>
Other(n) == Call3(n, IF n = "10" THEN "command" ELSE "3", IF n = "10" THEN "2" ELSE "4095")
            \o Call3(n, "command", "5") \o << I("HALT", <<>>), Quote("command", <<108, 115, 0, 9>>) >>
\* Fields that are missing or are not those the number asks for.
Odd ==
    [k \in 0 .. 15 |->
        << I("MOV", <<"RA", <<"0", "1", "2", "9">>[(k % 4) + 1]>>),
           I("SYSCALL", << <<"RA">>, <<"RA", "RB">>, <<"RA", "RC">>,
                           <<"RB", "RA", "RC", "RC">> >>[(k \div 4) + 1]),
           I("HALT", <<>>) >>]

----------------------------------------------------------------------------
(* The journey's routines *)

Xor(a, b) == Bytes(Binary("XOR", a, b), 1)[1]
Tokens(bytes) == FlattenSeq([k \in DOMAIN bytes |-> <<ToString(bytes[k])>>])
Secret == <<83, 101, 99>>
Shout == <<72, 105, 33>>
Encrypted(label, text, key, ends) ==
    L(label, ".DB", Tokens(xorEnc(text, Bytes(key, WordBytes), Xor) \o ends))
Routines == << I("JMP", <<"main">>) >> \o fn_print \o fn_read_str \o fn_check_answer
RoutineData == << Encrypted("s_shout", Shout, 42405, <<0>>), Encrypted("s_ans", Secret, 4660, <<>>) >>
PrintScene ==
    Routines \o << L("main", "MOV", <<"RA", "7">>) >> \o prt_save("s_shout", "4")
    \o print_int_ra \o game_over \o RoutineData
RiddleScene ==
    Routines \o << L("main", "", <<>>) >> \o riddle("s_ans", "4") \o game_over
    \o << L("correct", "PUSHI", <<"1">>), I("POP", <<"RB">>), I("MOV", <<"RA", "1">>),
          I("SYSCALL", <<"RA", "RB">>), I("HALT", <<>>) >> \o RoutineData
Answers == { Secret, <<83, 101>>, <<83, 101, 99, 99>>, <<>>, <<83, 101, 99, 0, 9>>,
             <<83, 101, 99, 9, 9, 9, 9, 9>>, <<84, 101, 99>>,
             <<339, 101, 99>>, <<83, 101, 99, 256, 9>>, <<83, 101, 355, 256>>, <<340, 101, 99>> }

\* The texts by number, and what each is run with.
ForAll == <<Arithmetic, Calls, EmptyStack, Restart, WritesCode, IntoData, IntoStack, Endless, Spin>>
          \o Rejected \o Faulty \o [k \in 1 .. 16 |-> Odd[k - 1]]
          \o [k \in 1 .. 4 |-> Other(Numbers[k])]
AllTexts == ForAll \o <<Console, PrintScene, RiddleScene>>
MCSources == AllTexts
ConsoleText == Len(ForAll) + 1
PrintText == Len(ForAll) + 2
RiddleText == Len(ForAll) + 3
Runs ==
    { [src |-> ConsoleText, dialects |-> Dialects, inputs |-> ConsoleInputs],
      [src |-> PrintText, dialects |-> {"runes"}, inputs |-> {<<>>}],
      [src |-> RiddleText, dialects |-> {"runes"}, inputs |-> {<<Line1(a)>> : a \in Answers}] }
    \cup {[src |-> t, dialects |-> Dialects, inputs |-> {<<>>}] : t \in DOMAIN ForAll}
MCPrograms == Runs

ASSUME TextsHaveBytes == NoEmptyTexts

----------------------------------------------------------------------------
(* What the routines promise *)

\* fn_print decrypts a text where it is, prints it and encrypts it again: the
\* text comes out in clear, and the next call finds it as it was.
TextIsRestored ==
    (src = PrintText /\ state = "exited") =>
        /\ out[1] = [how |-> "text", val |-> Shout]
        /\ BytesAt(mem, labels["s_shout"], 5) = SubSeq(code, labels["s_shout"] + 1, labels["s_shout"] + 5)

\* The riddle is solved by the characters whose low bytes, up to the first that
\* is zero, are the answer, and by nothing shorter, longer or otherwise
\* different, however long the line that is read.  READ_STR keeps the low byte of a
\* character only: the letter U+0153 (339) counts as an S (83).
Ended(text) == SubSeq(Append(text, 0), 1, IndexFirstSubSeq(<<0>>, Append(text, 0)) - 1)
AnswerCheckIsExact ==
    (src = RiddleText /\ Over) =>
        LET typed == Head(given).text
        IN state = "halted" <=> Ended([k \in DOMAIN typed |-> typed[k] % 256]) = Secret

\* NOT and NEG by ISAspec.md: the complement (line 63) and the negation (line 80).
NotAndNeg == [op \in {"NOT", "NEG"} |-> [a \in Word |-> to24(IF op = "NOT" THEN -a - 1 ELSE -a)]]

\* Every NOT and NEG that a machine executes does what ISAspec.md says of the
\* instruction set of both challenges.  Their machines exchange the two.
NegationAsSpecified ==
    [][\A op \in {"NOT", "NEG"} :
          LET r == fetchInstr.r[1]
          IN execInstr /\ fetchInstr.op = op => regs'[r] = NotAndNeg[op][regs[r]]]_vars
============================================================================
