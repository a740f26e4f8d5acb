----------------------------- MODULE ChoirWords -----------------------------
(***************************************************************************)
(* The ritual of Choir with the words it mixes: what the selector draws    *)
(* and what the gates say is computed from the letters of the token, for   *)
(* choir.c and for the copy of it in solve.py.  The two differ in one sum: *)
(* the program's is a uint32_t and wraps, Python's keeps its carry and     *)
(* rotl32 brings the carry back as a bit of the word.                      *)
(*                                                                         *)
(* A word is the pair of its upper and its lower 16 bits.  s3 reaches only *)
(* what is printed and is left out.                                        *)
(***************************************************************************)
EXTENDS Choir, Bitwise

CONSTANT Carry          \* TRUE in solve.py, FALSE in choir.c

VARIABLES in,           \* the letters of the token
          s0, s1, s2, classAcc,
          trace         \* for each voice its lhs

words == <<in, s0, s1, s2, classAcc, trace>>

----------------------------------------------------------------------------
(* The tables, their two halves combined (loadSplitByte, loadSplitWord) *)

idxA == <<0, 5, 10, 15, 1, 6, 11, 16, 2, 7, 12, 17, 3, 8, 13, 18, 4, 9, 14, 19, 0, 6, 12, 18>>
idxB == <<4, 9, 14, 19, 3, 8, 13, 18, 2, 7, 12, 17, 1, 6, 11, 16, 0, 5, 10, 15, 4, 8, 11, 17>>
idxC == <<2, 7, 12, 17, 0, 5, 10, 15, 4, 9, 14, 19, 1, 6, 11, 16, 3, 8, 13, 18, 2, 9, 10, 19>>
rotBy == <<1, 2, 3, 4, 5, 6, 7, 1, 2, 3, 4, 5, 6, 7, 1, 2, 3, 4, 5, 6, 7, 2, 5, 3>>
mix == <<49, 167, 76, 146, 13, 110, 241, 85, 195, 120, 42, 155, 71, 189, 30, 100, 143, 210, 57,
         172, 83, 231, 20, 107>>
fold == <<18, 142, 33, 90, 199, 61, 144, 47, 177, 72, 221, 6, 115, 169, 52, 239, 89, 28, 130, 203,
          64, 151, 43, 245>>
hi0 == <<7, 12, 12, 4, 11, 10, 4, 15, 5, 6, 14, 3, 10, 13, 8, 13, 11, 12, 11, 9, 5, 10, 2, 1>>
hi1 == <<6, 12, 12, 7, 7, 10, 4, 0, 3, 6, 14, 3, 6, 13, 8, 3, 11, 12, 11, 8, 13, 10, 2, 10>>
core == <<203, 92, 176, 46, 51, 201, 167>>
realAdd == <<10196, 60205>>
realGoal == <<21210, 16547>>
fakeAdd == <<12761, 48879>>
fakeGoal == <<46195, 41226>>

\* The tokens of Solution.txt and solve.py, and the outcome each is for.
Ritual(first, last) ==     \* CHOR-ECHO-NITE between two words
    first \o <<67, 72, 79, 82, 69, 67, 72, 79, 78, 73, 84, 69>> \o last
SolutionToken == [real  |-> Ritual(<<65, 83, 72, 78>>, <<87, 65, 82, 68>>),    \* ASHN WARD
                  fakeA |-> Ritual(<<87, 73, 83, 80>>, <<86, 65, 76, 69>>),    \* WISP VALE
                  fakeB |-> Ritual(<<68, 85, 83, 75>>, <<87, 65, 73, 76>>),    \* DUSK WAIL
                  fakeC |-> Ritual(<<77, 73, 83, 84>>, <<71, 76, 69, 78>>)]    \* MIST GLEN

----------------------------------------------------------------------------
(* Words *)

Half == 65536
Wrapped(a) == <<a[1] % Half, a[2] % Half>>
XorWord(a, b) == <<a[1] ^^ b[1], a[2] ^^ b[2]>>
\* The sum with its carry as a seventeenth bit of the upper half.
Sum(a, b) == <<a[1] + b[1] + (a[2] + b[2]) \div Half, (a[2] + b[2]) % Half>>
Plus(a, b) == Wrapped(Sum(a, b))
Times(a, k) == Wrapped(<<a[1] * k + (a[2] * k) \div Half, a[2] * k>>)
Low(n) == <<0, n>>
ByteOf(a, i) == IF i < 2 THEN (a[2] \div 256^i) % 256 ELSE (a[1] \div 256^(i - 2)) % 256

rotl32(a, r) == <<((a[1] * 2^r) % Half) + (a[2] * 2^r) \div Half,
                  ((a[2] * 2^r) % Half) + ((a[1] % Half) * 2^r) \div Half>>
rotl8(b, r) == ((b * 2^r) % 256) + (b * 2^r) \div 256

\* The rotation by 5 of a sum: a carry that is kept comes down to bit 5.
RotatedSum(a) ==
    LET r == rotl32(a, 5)
    IN IF Carry /\ a[1] >= Half THEN <<r[1], r[2] | 32>> ELSE r

----------------------------------------------------------------------------
(* The voices.  Tables and letters start at 1 here. *)

LettersTotal(raw) == LET total[i \in 0 .. Len(raw)] == IF i = 0 THEN 0 ELSE total[i - 1] + raw[i]
                     IN total[Len(raw)]
taint == ((LettersTotal(in) % 256) ^^ \h5A) ^^ ((in[2] * 3 + in[19]) % 256)

Lhs(raw, v) ==
    LET a == rotl8(raw[idxA[v + 1] + 1] ^^ mix[v + 1], rotBy[v + 1])
        b == (raw[idxB[v + 1] + 1] + fold[v + 1]) % 256
        c == (raw[idxC[v + 1] + 1] + v * 7) % 256
    IN ((a + b) % 256) ^^ c
Passes(raw, v) == Lhs(raw, v) \div 16 \in {hi0[v + 1], hi1[v + 1]}
PassedBy(raw) == {v \in 0 .. 23 : Passes(raw, v)}

WInit ==
    /\ Init
    /\ in \in {SolutionToken[k] : k \in DOMAIN SolutionToken} /\ token = PassedBy(in)
    /\ s0 = <<\hA51C, \h39E7>> /\ s1 = <<\hB4D2, \h8A6C>> /\ s2 = <<\hC0DE, \hC0DE>>
    /\ classAcc = ((taint \div 2) ^^ 3) % 4
    /\ trace = [v \in 0 .. 23 |-> 0]

voiceCore(v) ==
    LET lhs == Lhs(in, v)
        pass == IF v \in token THEN 1 ELSE 0
        mixed == XorWord(s0, Low((lhs + v * 13) % 256))
        n0 == Plus(Plus(RotatedSum(Sum(mixed, <<\h9E37, \h79B9>>)), <<\h7F4A, \h7C15>>), Low(v))
        shown == (((lhs * 2) % 256) ^^ ((v * 29) % 256)) ^^ \hA6
        n1 == XorWord(Plus(s1, Low(shown)), rotl32(n0, (v % 7) + 3))
        n2 == Plus(Plus(Plus(s2, Low(lhs)), n1), <<\h1357, \h9BDF>>)
    IN /\ trace' = [trace EXCEPT ![v] = lhs]
       /\ s0' = n0 /\ s1' = n1
       /\ s2' = XorWord(rotl32(n2, 7), Low(pass * 2^(v % 13)))
       /\ classAcc' = (classAcc + ((lhs ^^ taint) % 4) + pass + ((v \div 4) % 2)) % 4

Seed ==
    ((classAcc ^^ step) ^^ ByteOf(s0, step % 4)) ^^ (IF step % 2 = 1 THEN taint ELSE \hA5)

\* The lower two bits of opaqueScramble.
ClassOf(seed) == LET y == Times(<<\h045D, \h9F3B>>, seed)
                 IN ((y[1] ^^ y[2]) * \h2D) % 4

dispatchWords ==
    /\ dispatchVoice(ClassOf(Seed))
    /\ voiceCore(VoiceOf(ClassOf(Seed)))
    /\ UNCHANGED in

----------------------------------------------------------------------------
(* The gates *)

edge ==
    LET Term(i) == ((((classHist[i] * 4) ^^ classHist[i + 1])
                       ^^ (IF voiceOrder[i] \in passMask THEN 1 ELSE 0))
                    * (17 + (i - 1) * 7))
        sum[i \in 0 .. 23] == IF i = 0 THEN 0 ELSE (sum[i - 1] + Term(i)) % 65521
    IN sum[23]
EdgeIs == IF edge = 14789 THEN "real" ELSE IF edge = 14031 THEN "early" ELSE "other"

coreOk ==
    LET eq == <<trace[2] + trace[17] + in[1], (trace[5] ^^ trace[12]) ^^ in[8],
                trace[8] + trace[9] + trace[10], trace[4] - trace[15] + in[12],
                (trace[1] ^^ trace[6]) ^^ trace[18], in[4] + in[15] + trace[22],
                trace[0] + in[20] - trace[23]>>
    IN \A i \in 1 .. 7 : eq[i] % 256 = core[i]
lateOk == ((trace[21] ^^ trace[7]) + in[20]) % 256 = 159

Prime(a) == Plus(Times(a, \h193), <<(a[2] % 256) * 256, 0>>)     \* a * 0x01000193
MixTrace(a, i) == Prime(XorWord(a, Low((trace[i] + i * 17) % 256)))
MixLetter(a, i) ==
    Plus(rotl32(XorWord(a, Low((in[i + 1] + i * 9) % 256)), 5),
         Plus(<<\h7F4A, \h7C15>>, Times(<<\h1F12, \h3BB5>>, i)))

\* Each word is evaluated before the next is mixed from it.
sigA ==
    LET after[i \in 0 .. 24] ==
            IF i = 0 THEN <<\h811C, \h9DC5>>
            ELSE CHOOSE w \in {MixTrace(a, i - 1) : a \in {after[i - 1]}} : TRUE
    IN XorWord(after[24], s1)
sigB ==
    LET after[i \in 0 .. 20] ==
            IF i = 0 THEN <<\h9E37, \h79B9>>
            ELSE CHOOSE w \in {MixLetter(a, i - 1) : a \in {after[i - 1]}} : TRUE
    IN XorWord(after[20], s2)
chord == ((ByteOf(sigA, 1) ^^ ByteOf(sigB, 2)) ^^ ((passCount * 8) % 256)) ^^ taint

sigReal == Plus(XorWord(sigA, rotl32(sigB, 9)), realAdd) = realGoal
sigDecoy == Plus(XorWord(sigB, rotl32(sigA, 7)), fakeAdd) = fakeGoal
chordOk == chord = \h8A /\ ByteOf(XorWord(sigA, sigB), 0) = \h37

judge ==
    /\ phase = "choir" /\ step = voiceCount
    /\ phase' = "judged"
    /\ outcome' = Outcome(EdgeIs, coreOk /\ sigReal, lateOk, sigDecoy, chordOk)
    /\ UNCHANGED <<token, cursor, used, voiceOrder, classHist, passMask, words>>

\* These tokens are well formed, so none is refused.
WNext ==
    \/ initState /\ UNCHANGED words
    \/ dispatchWords
    \/ judge
    \/ phase = "judged" /\ UNCHANGED <<vars, words>>

WSpec == WInit /\ [][WNext]_<<vars, words>>

----------------------------------------------------------------------------
(* Properties *)

\* The tokens of Solution.txt are judged as it says.
SolutionTokens ==
    phase = "judged" => \A k \in DOMAIN SolutionToken : in = SolutionToken[k] => outcome = k
============================================================================
