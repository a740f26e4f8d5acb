-------------------------- MODULE JourneyRoutines --------------------------
(***************************************************************************)
(* The subroutines of the journey game as genJourney.py writes them, to be *)
(* assembled and run by RuneToolchain.  An operand is the token of the     *)
(* text; where the text depends on the word size or on a key it has a name *)
(* ("WORD" for 3, "KEY" for KEY_WORD), and Numeral gives it its value.     *)
(***************************************************************************)
EXTENDS Integers, Sequences, SequencesExt

\* Lines of a text: an instruction, one with a label, data with a label.
L(label, mnem, args) ==
    [lbl |-> label, mnem |-> mnem, args |-> args, lit |-> <<>>, quoted |-> FALSE]
I(mnem, args) == L("", mnem, args)
Quote(label, bytes) ==
    [lbl |-> label, mnem |-> ".DS", args |-> <<>>, lit |-> bytes, quoted |-> TRUE]

----------------------------------------------------------------------------
\* One pass of exclusive-or over the text: fn_print makes two, one that
\* decrypts it and one that encrypts it again.
\* Slip: the pass leaves out the last word.
XorPass_Slip(loop, done) ==
    << L(loop, "LOADI", <<"RA", "0x100012">>),
       I("ADDI", <<"RA", "WORD">>),
       I("LOADI", <<"RB", "0x10000F">>),
       I("JGE", <<"RA", "RB", done>>),
       I("SUBI", <<"RA", "WORD">>),
       I("LOADI", <<"RB", "0x10000C">>), I("ADD", <<"RB", "RB", "RA">>),
       I("LOAD", <<"RC", "RB">>), I("MOV", <<"RA", "KEY">>),
       I("XOR", <<"RC", "RC", "RA">>), I("STORE", <<"RB", "RC">>),
       I("LOADI", <<"RA", "0x100012">>), I("ADDI", <<"RA", "WORD">>),
       I("STOREI", <<"RA", "0x100012">>), I("JMP", <<loop>>) >>
XorPass(loop, done) ==
    << L(loop, "LOADI", <<"RA", "0x100012">>),
       I("LOADI", <<"RB", "0x10000F">>),
       I("JGE", <<"RA", "RB", done>>),
       I("LOADI", <<"RB", "0x10000C">>), I("ADD", <<"RB", "RB", "RA">>),
       I("LOAD", <<"RC", "RB">>), I("MOV", <<"RA", "KEY">>),
       I("XOR", <<"RC", "RC", "RA">>), I("STORE", <<"RB", "RC">>),
       I("LOADI", <<"RA", "0x100012">>), I("ADDI", <<"RA", "WORD">>),
       I("STOREI", <<"RA", "0x100012">>), I("JMP", <<loop>>) >>

fn_print ==
    << L("fn_print", "STOREI", <<"RA", "0x10000C">>),
       I("STOREI", <<"RB", "0x10000F">>),
       I("MZERO", <<"RC">>), I("STOREI", <<"RC", "0x100012">>) >>
    \o XorPass("fn_pr_dec", "fn_pr_print")
    \o << L("fn_pr_print", "MOV", <<"RA", "2">>),
          I("LOADI", <<"RB", "0x10000C">>), I("MZERO", <<"RC">>),
          I("SYSCALL", <<"RA", "RB", "RC">>),
          I("MZERO", <<"RA">>), I("STOREI", <<"RA", "0x100012">>) >>
    \o XorPass("fn_pr_enc", "fn_pr_ret")
    \o << L("fn_pr_ret", "RET", <<>>) >>

fn_read_str ==
    << L("fn_read_str", "MOV", <<"RA", "4">>),
       I("MOV", <<"RB", "0x100080">>), I("MOV", <<"RC", "60">>),
       I("SYSCALL", <<"RA", "RB", "RC">>), I("RET", <<>>) >>

\* Slip: the first word of the answer is skipped.
fn_check_answer_Slip ==
    << L("fn_check_answer", "STOREI", <<"RA", "0x100015">>),
       I("STOREI", <<"RB", "0x100018">>),
       I("MOV", <<"RC", "WORD">>), I("STOREI", <<"RC", "0x10001B">>),
       L("fn_ca_loop", "LOADI", <<"RA", "0x10001B">>),
       I("LOADI", <<"RB", "0x100018">>), I("JGE", <<"RA", "RB", "fn_ca_cmp">>),
       I("LOADI", <<"RB", "0x100015">>), I("ADD", <<"RB", "RB", "RA">>),
       I("LOAD", <<"RC", "RB">>), I("LOADI", <<"RA", "0x10001E">>),
       I("XOR", <<"RC", "RC", "RA">>), I("LOADI", <<"RA", "0x10001B">>),
       I("MOV", <<"RB", "0x1000C0">>), I("ADD", <<"RA", "RB", "RA">>),
       I("STORE", <<"RA", "RC">>), I("LOADI", <<"RA", "0x10001B">>),
       I("ADDI", <<"RA", "WORD">>), I("STOREI", <<"RA", "0x10001B">>),
       I("JMP", <<"fn_ca_loop">>),
       L("fn_ca_cmp", "MOV", <<"RA", "6">>), I("MOV", <<"RB", "0x100080">>),
       I("MOV", <<"RC", "0x1000C0">>), I("SYSCALL", <<"RA", "RB", "RC">>),
       I("RET", <<>>) >>
fn_check_answer ==
    << L("fn_check_answer", "STOREI", <<"RA", "0x100015">>),
       I("STOREI", <<"RB", "0x100018">>),
       I("MZERO", <<"RC">>), I("STOREI", <<"RC", "0x10001B">>),
       L("fn_ca_loop", "LOADI", <<"RA", "0x10001B">>),
       I("LOADI", <<"RB", "0x100018">>), I("JGE", <<"RA", "RB", "fn_ca_cmp">>),
       I("LOADI", <<"RB", "0x100015">>), I("ADD", <<"RB", "RB", "RA">>),
       I("LOAD", <<"RC", "RB">>), I("LOADI", <<"RA", "0x10001E">>),
       I("XOR", <<"RC", "RC", "RA">>), I("LOADI", <<"RA", "0x10001B">>),
       I("MOV", <<"RB", "0x1000C0">>), I("ADD", <<"RA", "RB", "RA">>),
       I("STORE", <<"RA", "RC">>), I("LOADI", <<"RA", "0x10001B">>),
       I("ADDI", <<"RA", "WORD">>), I("STOREI", <<"RA", "0x10001B">>),
       I("JMP", <<"fn_ca_loop">>),
       L("fn_ca_cmp", "MOV", <<"RA", "6">>), I("MOV", <<"RB", "0x100080">>),
       I("MOV", <<"RC", "0x1000C0">>), I("SYSCALL", <<"RA", "RB", "RC">>),
       I("RET", <<>>) >>

----------------------------------------------------------------------------
(* The fragments that the generator's helpers write into a scene *)

CallFn(fn) == << I("MOV", <<"RC", fn>>), I("CALL", <<"RC">>) >>
prt(label, padLen) == << I("MOV", <<"RA", label>>), I("MOV", <<"RB", padLen>>) >>
                          \o CallFn("fn_print")
prt_save(label, padLen) ==
    << I("PUSHA", <<"RA", "RB", "RC">>) >> \o prt(label, padLen)
        \o << I("POPA", <<"RA", "RB", "RC">>) >>
print_int_ra ==
    << I("PUSH", <<"RA">>), I("PUSH", <<"RB">>), I("MOVR", <<"RB", "RA">>),
       I("MOV", <<"RA", "1">>), I("SYSCALL", <<"RA", "RB">>),
       I("POP", <<"RB">>), I("POP", <<"RA">>) >>
game_over == << I("MZERO", <<"RB">>), I("MOV", <<"RA", "0">>), I("SYSCALL", <<"RA", "RB">>) >>

\* The riddle of mage_scroll_riddle: the answer read is ended with a zero
\* word, the key is stored for fn_check_answer, and RA = 0 is a match.
riddle(answer, padLen) ==
    CallFn("fn_read_str")
    \o << I("MOV", <<"RB", "0x100080">>), I("ADD", <<"RA", "RB", "RA">>),
          I("MZERO", <<"RC">>), I("STORE", <<"RA", "RC">>),
          I("MOV", <<"RA", "KEY_ANS">>), I("STOREI", <<"RA", "0x10001E">>),
          I("MOV", <<"RA", answer>>), I("MOV", <<"RB", padLen>>) >>
    \o CallFn("fn_check_answer")
    \o << I("MZERO", <<"RB">>), I("JEQ", <<"RA", "RB", "correct">>) >>

\* xorEnc and pad3: the text padded with zeros to whole words and encrypted
\* with the bytes of a key; xor is the exclusive-or of two bytes.
Padded(text, n) == text \o [k \in 1 .. (n - (Len(text) % n)) % n |-> 0]
xorEnc(text, key, xor(_, _)) ==
    [k \in DOMAIN Padded(text, Len(key)) |->
        xor(Padded(text, Len(key))[k], key[((k - 1) % Len(key)) + 1])]
============================================================================
