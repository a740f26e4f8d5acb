-------------------------- MODULE CauldronProofs --------------------------
(***************************************************************************)
(* Theorems about Cauldron, for any lines that may be typed and any number *)
(* of attempts: what the meters tell, when the cauldron explodes, and that *)
(* one code of all is rewarded and never refused.                          *)
(***************************************************************************)
EXTENDS Cauldron, TLAPS, FiniteSetTheorems, SequenceTheorems

(* The checks *)

\* Runes as the charset test leaves them.
Mixture(m) == m \in [1 .. ingredientCount -> Int] /\ \A i \in 1 .. ingredientCount : Allowed(m[i])

\* The seven checks without ^ have one solution among the runes.
LEMMA OneSolution ==
    ASSUME NEW ember \in 48 .. 122, NEW frost \in Int, NEW bile \in Int,
           NEW root \in Int, NEW mist \in Int, NEW ash \in Int,
           ember + frost = 150, frost + root = 149, bile - root = 11, root - mist = -13,
           (ember * 7 + mist) % 26 = 16, ash % 16 = 3, bile + ash = 207
    PROVE  ember = 98 /\ frost = 52 /\ bile = 108 /\ root = 97 /\ mist = 110 /\ ash = 99
<1>1. mist = ember + 12 /\ ash = 197 - ember
  OBVIOUS
<1>2. (8 * ember + 12) % 26 = 16 /\ (197 - ember) % 16 = 3
  <2>1. ember * 7 + mist = 8 * ember + 12
    BY <1>1
  <2>. QED
    BY <1>1, <2>1
<1>3. \E p \in Int : 197 - ember = 16 * p + 3
  BY <1>2
<1>4. ember \in {50, 66, 82, 98, 114}
  BY <1>3
<1>5. ember = 98
  BY <1>2, <1>4
<1>. QED
  BY <1>1, <1>5

LEMMA AllRight ==
    ASSUME NEW m, Mixture(m), \A c \in 1 .. totalChecks : Results(m)[c]
    PROVE  m = Recipe
<1>1. m[1] \in Int /\ m[2] \in Int /\ m[3] \in Int /\ m[4] \in Int /\ m[5] \in Int /\ m[6] \in Int
  BY DEF Mixture, ingredientCount
<1>2. m[1] \in 48 .. 122
  <2>1. Allowed(m[1])
    BY DEF Mixture, ingredientCount
  <2>. QED
    BY <1>1, <2>1 DEF Allowed
<1>3. /\ Results(m)[1] /\ Results(m)[3] /\ Results(m)[4] /\ Results(m)[5] /\ Results(m)[6]
      /\ Results(m)[8] /\ Results(m)[9]
  BY DEF totalChecks
<1>4. /\ m[1] + m[2] = 150 /\ m[2] + m[4] = 149 /\ m[3] - m[4] = 11 /\ m[4] - m[5] = -13
      /\ (m[1] * 7 + m[5]) % 26 = 16 /\ m[6] % 16 = 3 /\ m[3] + m[6] = 207
  BY <1>3 DEF Results
<1>5. m[1] = 98 /\ m[2] = 52 /\ m[3] = 108 /\ m[4] = 97 /\ m[5] = 110 /\ m[6] = 99
  BY <1>1, <1>2, <1>4, OneSolution
<1>6. m \in [1 .. 6 -> Int] /\ Recipe \in [1 .. 6 -> Int]
  BY DEF Mixture, ingredientCount, Recipe
<1>7. \A i \in 1 .. 6 : m[i] = Recipe[i]
  BY <1>5 DEF Recipe
<1>. QED
  BY <1>6, <1>7

\* What ^ makes of the two pairs of runes that the recipe puts to it.
LEMMA XorOfRecipe == Xor(108, 51) = 95 /\ Xor(110, 98) = 12
BY DEF Xor

LEMMA RecipeIsRight ==
    ASSUME NEW c \in 1 .. totalChecks
    PROVE  Results(Recipe)[c]
<1>1. /\ 98 + 52 = 150 /\ 52 + 97 = 149 /\ 108 - 97 = 11 /\ 97 - 110 = -13
      /\ (98 * 7 + 110) % 26 = 16 /\ 99 % 16 = 3 /\ 108 + 99 = 207 /\ (52 * 3 + 99) % 26 = 21
  OBVIOUS
<1>2. LET R == Results(Recipe)
      IN  R[1] /\ R[2] /\ R[3] /\ R[4] /\ R[5] /\ R[6] /\ R[7] /\ R[8] /\ R[9] /\ R[10]
  BY <1>1, XorOfRecipe, Zenon DEF Results, Recipe
<1>3. c \in {1, 2, 3, 4, 5, 6, 7, 8, 9, 10}
  BY DEF totalChecks
<1>. QED
  BY <1>2, <1>3

----------------------------------------------------------------------------
(* The count of the failures *)

Failed(m, n) == {c \in 1 .. n : ~ Results(m)[c]}

LEMMA FailedIsFinite ==
    ASSUME NEW m, NEW n \in 0 .. totalChecks
    PROVE  /\ IsFiniteSet(Failed(m, n)) /\ Cardinality(Failed(m, n)) \in 0 .. n
<1>1. n \in Nat /\ 1 \in Int
  BY DEF totalChecks
<1>2. IsFiniteSet(1 .. n) /\ Cardinality(1 .. n) = n
  BY <1>1, FS_Interval
<1>3. Failed(m, n) \in SUBSET (1 .. n)
  BY DEF Failed
<1>4. IsFiniteSet(Failed(m, n)) /\ Cardinality(Failed(m, n)) <= n
  BY <1>2, <1>3, FS_Subset
<1>. QED
  BY <1>1, <1>4, FS_CardinalityType

\* One more check.
LEMMA OneMore ==
    ASSUME NEW m, NEW n \in 1 .. totalChecks
    PROVE  Cardinality(Failed(m, n)) = IF Results(m)[n] THEN Cardinality(Failed(m, n - 1))
                                        ELSE Cardinality(Failed(m, n - 1)) + 1
<1>0. n \in Nat /\ n - 1 \in 0 .. totalChecks
  BY DEF totalChecks
<1>1. CASE Results(m)[n]
  <2>1. Failed(m, n) = Failed(m, n - 1)
    BY <1>0, <1>1 DEF Failed
  <2>. QED
    BY <1>1, <2>1
<1>2. CASE ~ Results(m)[n]
  <2>1. Failed(m, n) = Failed(m, n - 1) \cup {n} /\ n \notin Failed(m, n - 1)
    BY <1>0, <1>2 DEF Failed
  <2>2. IsFiniteSet(Failed(m, n - 1))
    BY <1>0, FailedIsFinite
  <2>. QED
    BY <1>2, <2>1, <2>2, FS_AddElement
<1>. QED
  BY <1>1, <1>2

LEMMA CountIsZero ==
    ASSUME NEW m
    PROVE  Cardinality(Failed(m, totalChecks)) = 0 <=> \A c \in 1 .. totalChecks : Results(m)[c]
<1>1. IsFiniteSet(Failed(m, totalChecks))
  BY FailedIsFinite DEF totalChecks
<1>2. Cardinality(Failed(m, totalChecks)) = 0 <=> Failed(m, totalChecks) = {}
  BY <1>1, FS_EmptySet
<1>. QED
  BY <1>2 DEF Failed

LEMMA CountIsAll ==
    ASSUME NEW m, Cardinality(Failed(m, totalChecks)) = totalChecks
    PROVE  \A c \in 1 .. totalChecks : ~ Results(m)[c]
<1>1. IsFiniteSet(1 .. totalChecks) /\ Cardinality(1 .. totalChecks) = totalChecks
  <2>1. 1 \in Int /\ totalChecks \in Nat
    BY DEF totalChecks
  <2>. QED
    BY <2>1, FS_Interval
<1>2. Failed(m, totalChecks) \in SUBSET (1 .. totalChecks)
  BY DEF Failed
<1>3. 1 .. totalChecks = Failed(m, totalChecks)
  BY <1>1, <1>2, FS_Subset
<1>. QED
  BY <1>3 DEF Failed


----------------------------------------------------------------------------
(* The invariant *)

\* The codes that were read and the attempt they belong to.
TriedInv ==
    /\ Len(tried) = IF phase \in {"brewing", "rewarded", "exploded"} THEN attempt ELSE attempt - 1
    /\ phase \notin {"sealed"} => attempt <= maxAttempts
    /\ phase = "sealed" => attempt = maxAttempts + 1
    /\ phase \in {"brewing", "rewarded", "exploded"} => Mixture(mix) /\ tried[Len(tried)] = mix

\* The verdict is right, and what it says has come.
VerdictInv ==
    /\ phase = "brewing" => Mixture(mix)
    /\ phase \in {"rewarded", "exploded"} => verdict = phase /\ Mixture(mix)
    /\ phase \in {"brewing", "rewarded", "exploded"} =>
          /\ verdict = "rewarded" => \A c \in 1 .. totalChecks : Results(mix)[c]
          /\ verdict = "exploded" => \A c \in 1 .. totalChecks : ~ Results(mix)[c]
          /\ verdict = "wobbles" => mix # Recipe

CauldronInv ==
    TypeOK /\ TriedInv /\ VerdictInv /\ MetersTellFailures /\ RecipeIsNotRefused

LEMMA AtTheStart == Init => CauldronInv
<1>. SUFFICES ASSUME Init PROVE CauldronInv
  OBVIOUS
<1>1. TypeOK
  <2>1. attempt \in 1 .. maxAttempts + 1
    BY AttemptsAssumption DEF Init
  <2>2. goal \in (0 .. totalChecks) \X (0 .. totalChecks)
    BY DEF Init, totalChecks
  <2>3. tried \in Seq(Seq(Int))
    BY DEF Init
  <2>. QED
    BY <2>1, <2>2, <2>3 DEF Init, TypeOK, Phases, totalChecks
<1>2. TriedInv
  BY AttemptsAssumption DEF Init, TriedInv
<1>3. VerdictInv /\ MetersTellFailures
  BY DEF Init, VerdictInv, MetersTellFailures
<1>4. RecipeIsNotRefused
  BY DEF Init, RecipeIsNotRefused
<1>. QED
  BY <1>1, <1>2, <1>3, <1>4 DEF CauldronInv

\* What is cut off a text leaves a text.
LEMMA CutTyped ==
    ASSUME NEW s \in Seq(Int)
    PROVE  Cut(s) \in Seq(Int)
<1>. DEFINE kept == {n \in DOMAIN s : \A m \in 1 .. n : s[m] \notin {0, 13}}
<1>1. Len(s) \in Nat /\ DOMAIN s = 1 .. Len(s) /\ \A i \in 1 .. Len(s) : s[i] \in Int
  OBVIOUS
<1>2. IsFiniteSet(1 .. Len(s)) /\ Cardinality(1 .. Len(s)) = Len(s)
  <2>1. /\ IsFiniteSet(1 .. Len(s))
        /\ Cardinality(1 .. Len(s)) = IF 1 > Len(s) THEN 0 ELSE Len(s) - 1 + 1
    BY <1>1, FS_Interval
  <2>. QED
    BY <1>1, <2>1
<1>3. Cardinality(kept) \in Nat /\ Cardinality(kept) <= Len(s)
  BY <1>1, <1>2, FS_Subset, FS_CardinalityType
<1>. HIDE DEF kept
<1>4. SubSeq(s, 1, Cardinality(kept)) \in Seq(Int)
  BY <1>1, <1>3, SubSeqProperties
<1>. QED
  BY <1>4 DEF Cut, kept

\* A code is read: what is left of its line, and what is tried with it.
LEMMA LineRead ==
    ASSUME NEW line \in Seq(Int)
    PROVE  LET long == Len(line) >= Room
               input == Cut(IF long THEN SubSeq(line, 1, Room) ELSE line)
           IN  /\ input \in Seq(Int)
               /\ long => SubSeq(line, Room + 1, Len(line)) \in Seq(Int)
<1>. DEFINE long == Len(line) >= Room
<1>1. Len(line) \in Nat /\ \A i \in 1 .. Len(line) : line[i] \in Int
  OBVIOUS
<1>2. CASE long
  <2>1. \A i \in 1 .. Room : line[i] \in Int
    BY <1>1, <1>2 DEF Room
  <2>2. \A i \in Room + 1 .. Len(line) : line[i] \in Int
    BY <1>1 DEF Room
  <2>3. Room \in Int /\ Room + 1 \in Int /\ 1 \in Int /\ Len(line) \in Int
    BY <1>1 DEF Room
  <2>4. SubSeq(line, 1, Room) \in Seq(Int) /\ SubSeq(line, Room + 1, Len(line)) \in Seq(Int)
    BY <2>1, <2>2, <2>3, SubSeqProperties
  <2>. QED
    BY <1>2, <2>4, CutTyped
<1>. QED
  BY <1>2, CutTyped

\* One more code in tried.
LEMMA TriedGrows ==
    ASSUME tried \in Seq(Seq(Int)), NEW input \in Seq(Int), tried' = Append(tried, input)
    PROVE  /\ tried' \in Seq(Seq(Int)) /\ Len(tried) \in Nat /\ Len(tried') = Len(tried) + 1
           /\ DOMAIN tried = 1 .. Len(tried) /\ DOMAIN tried' = 1 .. Len(tried) + 1
           /\ tried'[Len(tried')] = input
           /\ \A i \in 1 .. Len(tried) : tried'[i] = tried[i]
OBVIOUS

LEMMA InputIsMixture ==
    ASSUME NEW input \in Seq(Int), Len(input) = ingredientCount,
           \A i \in DOMAIN input : Allowed(input[i])
    PROVE  Mixture(input) /\ DOMAIN input = 1 .. ingredientCount /\ input # <<>>
<1>1. input \in [1 .. Len(input) -> Int] /\ DOMAIN input = 1 .. Len(input)
  BY LenProperties
<1>2. Mixture(input)
  BY <1>1 DEF Mixture
<1>3. input # <<>>
  <2>1. Len(<<>>) = 0
    OBVIOUS
  <2>2. Len(input) # 0
    BY DEF ingredientCount
  <2>. QED
    BY <2>1, <2>2, Zenon
<1>. QED
  BY <1>1, <1>2, <1>3

LEMMA RecipeIsMixture ==
    ASSUME NEW input \in Seq(Int), input = Recipe
    PROVE  Len(input) = ingredientCount /\ \A i \in DOMAIN input : Allowed(input[i])
<1>1. Len(Recipe) = 6 /\ DOMAIN Recipe = 1 .. 6
  BY DEF Recipe
<1>2. \A i \in {1, 2, 3, 4, 5, 6} : Allowed(Recipe[i])
  BY DEF Recipe, Allowed
<1>3. \A i \in 1 .. 6 : i \in {1, 2, 3, 4, 5, 6}
  OBVIOUS
<1>. QED
  BY <1>1, <1>2, <1>3 DEF ingredientCount

LEMMA ReadStep == CauldronInv /\ readLine => CauldronInv'
<1>. SUFFICES ASSUME CauldronInv, readLine PROVE CauldronInv'
  OBVIOUS
<1>. USE DEF CauldronInv
<1>1. PICK line \in (IF unread = <<>> THEN Lines ELSE {unread[1]}) :
          LET long == Len(line) >= Room
              input == Cut(IF long THEN SubSeq(line, 1, Room) ELSE line)
          IN /\ unread' = IF long THEN <<SubSeq(line, Room + 1, Len(line))>> ELSE <<>>
             /\ tried' = Append(tried, input)
             /\ IF Len(input) = ingredientCount /\ \A i \in DOMAIN input : Allowed(input[i])
                THEN brew(input)
                ELSE NextAttempt /\ UNCHANGED brewing
  BY DEF readLine
<1>2. line \in Seq(Int)
  BY LinesAssumption DEF TypeOK
<1>. DEFINE long == Len(line) >= Room
            input == Cut(IF long THEN SubSeq(line, 1, Room) ELSE line)
<1>3. input \in Seq(Int) /\ (long => SubSeq(line, Room + 1, Len(line)) \in Seq(Int))
  BY <1>2, LineRead
<1>4. unread' = <<>> \/ (Len(unread') = 1 /\ unread'[1] \in Seq(Int))
  BY <1>1, <1>3
<1>5. tried' = Append(tried, input)
  BY <1>1
<1>6. IF Len(input) = ingredientCount /\ \A i \in DOMAIN input : Allowed(input[i])
      THEN brew(input)
      ELSE NextAttempt /\ UNCHANGED brewing
  BY <1>1
<1>. HIDE DEF input, long
<1>7. phase = "asking"
  BY DEF readLine
<1>8. /\ tried' \in Seq(Seq(Int)) /\ Len(tried) \in Nat /\ Len(tried') = Len(tried) + 1
      /\ DOMAIN tried = 1 .. Len(tried) /\ DOMAIN tried' = 1 .. Len(tried) + 1
      /\ tried'[Len(tried')] = input
      /\ \A i \in 1 .. Len(tried) : tried'[i] = tried[i]
  BY <1>3, <1>5, TriedGrows DEF TypeOK
<1>9. Len(tried) = attempt - 1 /\ attempt \in Nat /\ attempt <= maxAttempts /\ maxAttempts \in Nat
  BY <1>7, AttemptsAssumption DEF TriedInv, TypeOK
<1>10. \A i \in 1 .. Len(tried) : tried[i] # Recipe
  BY <1>7, <1>8 DEF RecipeIsNotRefused
<1>11. CASE Len(input) = ingredientCount /\ \A i \in DOMAIN input : Allowed(input[i])
  <2>1. /\ phase' = "brewing" /\ mix' = input /\ check' = 1 /\ verdict' = "open" /\ attempt' = attempt
        /\ heat' = 0 /\ stability' = totalChecks /\ failCount' = 0 /\ goal' = <<0, totalChecks>>
    BY <1>6, <1>11 DEF brew
  <2>2. Mixture(mix')
    BY <1>3, <1>11, <2>1, InputIsMixture
  <2>3. TypeOK'
    <3>1. goal' \in (0 .. totalChecks) \X (0 .. totalChecks)
      BY <2>1 DEF totalChecks
    <3>2. mix' # <<>> /\ mix' \in [1 .. ingredientCount -> Int] /\ \A i \in DOMAIN mix' : Allowed(mix'[i])
      BY <1>3, <1>11, <2>1, InputIsMixture DEF Mixture
    <3>3. attempt' \in 1 .. maxAttempts + 1
      BY <2>1 DEF TypeOK
    <3>. QED
      BY <1>4, <1>8, <2>1, <3>1, <3>2, <3>3 DEF TypeOK, Phases, totalChecks
  <2>4. TriedInv'
    BY <1>8, <1>9, <2>1, <2>2 DEF TriedInv
  <2>5. VerdictInv'
    BY <2>1, <2>2 DEF VerdictInv
  <2>6. MetersTellFailures'
    <3>1. {c \in 1 .. check' - 1 : ~ Results(mix')[c]} = {}
      BY <2>1
    <3>2. Cardinality({}) = 0
      BY FS_EmptySet
    <3>3. goal'[1] = 0 /\ goal'[2] = totalChecks
      BY <2>1
    <3>. QED
      BY <2>1, <3>1, <3>2, <3>3 DEF MetersTellFailures, totalChecks
  <2>7. RecipeIsNotRefused'
    <3>1. \A i \in 1 .. Len(tried) + 1 : i \in 1 .. Len(tried) \/ i = Len(tried')
      BY <1>8
    <3>2. \A i \in DOMAIN tried' : tried'[i] = Recipe => i = Len(tried')
      BY <1>8, <1>10, <3>1
    <3>. QED
      BY <2>1, <3>2 DEF RecipeIsNotRefused
  <2>. QED
    BY <2>3, <2>4, <2>5, <2>6, <2>7
<1>12. CASE ~ (Len(input) = ingredientCount /\ \A i \in DOMAIN input : Allowed(input[i]))
  <2>1. /\ attempt' = attempt + 1 /\ phase' = (IF attempt' <= maxAttempts THEN "asking" ELSE "sealed")
        /\ UNCHANGED brewing
    BY <1>6, <1>12 DEF NextAttempt
  <2>2. phase' \in {"asking", "sealed"}
    BY <2>1
  <2>3. TypeOK'
    <3>1. attempt' \in 1 .. maxAttempts + 1
      BY <1>9, <2>1
    <3>. QED
      BY <1>4, <1>8, <2>1, <2>2, <3>1 DEF TypeOK, Phases, brewing
  <2>4. TriedInv'
    BY <1>8, <1>9, <2>1 DEF TriedInv
  <2>5. VerdictInv' /\ MetersTellFailures'
    BY <2>2 DEF VerdictInv, MetersTellFailures
  <2>6. input # Recipe
    BY <1>3, <1>12, RecipeIsMixture
  <2>7. RecipeIsNotRefused'
    <3>1. \A i \in 1 .. Len(tried) + 1 : i \in 1 .. Len(tried) \/ i = Len(tried')
      BY <1>8
    <3>2. \A i \in DOMAIN tried' : tried'[i] # Recipe
      BY <1>8, <1>10, <2>6, <3>1
    <3>. QED
      BY <3>2 DEF RecipeIsNotRefused
  <2>. QED
    BY <2>3, <2>4, <2>5, <2>7
<1>. QED
  BY <1>11, <1>12

LEMMA EndStep == CauldronInv /\ endOfInput => CauldronInv'
<1>. SUFFICES ASSUME CauldronInv, endOfInput PROVE CauldronInv'
  OBVIOUS
<1>. USE DEF CauldronInv
<1>1. phase = "asking" /\ phase' = "dead" /\ UNCHANGED <<attempt, unread, brewing, tried>>
  BY DEF endOfInput
<1>2. TypeOK'
  BY <1>1 DEF TypeOK, Phases, brewing
<1>3. TriedInv' /\ VerdictInv' /\ MetersTellFailures'
  BY <1>1 DEF TriedInv, VerdictInv, MetersTellFailures
<1>4. RecipeIsNotRefused'
  BY <1>1 DEF RecipeIsNotRefused
<1>. QED
  BY <1>2, <1>3, <1>4

\* What the codes and the attempt say when nothing but the brew goes on.
LEMMA SameAttempt ==
    ASSUME TriedInv, RecipeIsNotRefused, UNCHANGED <<phase, attempt, mix, tried>>
    PROVE  TriedInv' /\ RecipeIsNotRefused'
BY DEF TriedInv, RecipeIsNotRefused, Mixture

LEMMA FrameStep == CauldronInv /\ frame => CauldronInv'
<1>. SUFFICES ASSUME CauldronInv, frame PROVE CauldronInv'
  OBVIOUS
<1>. USE DEF CauldronInv
<1>1. /\ heat' = Moved(heat, goal[1]) /\ stability' = Moved(stability, goal[2])
      /\ UNCHANGED <<phase, attempt, unread, mix, check, failCount, goal, verdict, tried>>
  BY DEF frame
<1>2. heat' \in 0 .. totalChecks /\ stability' \in 0 .. totalChecks
  <2>1. goal[1] \in 0 .. totalChecks /\ goal[2] \in 0 .. totalChecks
        /\ heat \in 0 .. totalChecks /\ stability \in 0 .. totalChecks
    BY DEF TypeOK
  <2>. QED
    BY <1>1, <2>1 DEF Moved, totalChecks
<1>3. TypeOK'
  BY <1>1, <1>2 DEF TypeOK
<1>4. VerdictInv' /\ MetersTellFailures'
  BY <1>1 DEF VerdictInv, MetersTellFailures, Mixture
<1>. QED
  BY <1>1, <1>3, <1>4, SameAttempt

LEMMA Goals ==
    ASSUME NEW h \in Int, NEW s \in Int, animateMeters(h, s)
    PROVE  /\ goal' \in (0 .. totalChecks) \X (0 .. totalChecks)
           /\ goal'[1] = Clamped(h) /\ goal'[2] = Clamped(s)
<1>1. Clamped(h) \in 0 .. totalChecks /\ Clamped(s) \in 0 .. totalChecks
  BY DEF Clamped, totalChecks
<1>. QED
  BY <1>1 DEF animateMeters

\* A check: none of the targets is clamped.
LEMMA CheckStep == CauldronInv /\ applyCheckResult => CauldronInv'
<1>. SUFFICES ASSUME CauldronInv, applyCheckResult PROVE CauldronInv'
  OBVIOUS
<1>. USE DEF CauldronInv
<1>1. /\ phase = "brewing" /\ verdict = "open" /\ check \in 1 .. totalChecks /\ check' = check + 1
      /\ UNCHANGED <<phase, attempt, unread, mix, heat, stability, verdict, tried>>
  BY DEF applyCheckResult, Passed, TypeOK, totalChecks
<1>2. heat = goal[1] /\ stability = goal[2]
  BY DEF applyCheckResult, Passed, AtGoal
<1>. DEFINE n == Cardinality(Failed(mix, check - 1))
<1>3. failCount = n /\ stability = totalChecks - n /\ heat <= n /\ heat \in 0 .. totalChecks
  BY <1>1, <1>2 DEF MetersTellFailures, Failed, TypeOK
<1>4. n \in 0 .. check - 1
  <2>1. check - 1 \in 0 .. totalChecks
    BY <1>1 DEF totalChecks
  <2>. QED
    BY <2>1, FailedIsFinite
<1>5. Cardinality(Failed(mix, check)) = IF Results(mix)[check] THEN n ELSE n + 1
  BY <1>1, OneMore
<1>. HIDE DEF n
<1>6. /\ goal' \in (0 .. totalChecks) \X (0 .. totalChecks) /\ failCount' \in 0 .. totalChecks
      /\ failCount' = Cardinality(Failed(mix, check))
      /\ goal'[2] = totalChecks - failCount' /\ goal'[1] <= failCount'
  <2>1. CASE Results(mix)[check]
    <3>1. animateMeters(IF heat > 0 THEN heat - 1 ELSE heat, stability) /\ failCount' = failCount
      BY <2>1 DEF applyCheckResult, Passed
    <3>2. (IF heat > 0 THEN heat - 1 ELSE heat) \in Int /\ stability \in Int
      BY <1>3, <1>4 DEF totalChecks
    <3>3. /\ goal' \in (0 .. totalChecks) \X (0 .. totalChecks)
          /\ goal'[1] = Clamped(IF heat > 0 THEN heat - 1 ELSE heat) /\ goal'[2] = Clamped(stability)
      BY <3>1, <3>2, Goals
    <3>. QED
      BY <1>1, <1>3, <1>4, <1>5, <2>1, <3>1, <3>3 DEF Clamped, totalChecks
  <2>2. CASE ~ Results(mix)[check]
    <3>1. animateMeters(heat + 1, stability - 1) /\ failCount' = failCount + 1
      BY <2>2 DEF applyCheckResult, Passed
    <3>2. heat + 1 \in Int /\ stability - 1 \in Int
      BY <1>3, <1>4 DEF totalChecks
    <3>3. /\ goal' \in (0 .. totalChecks) \X (0 .. totalChecks)
          /\ goal'[1] = Clamped(heat + 1) /\ goal'[2] = Clamped(stability - 1)
      BY <3>1, <3>2, Goals
    <3>. QED
      BY <1>1, <1>3, <1>4, <1>5, <2>2, <3>1, <3>3 DEF Clamped, totalChecks
  <2>. QED
    BY <2>1, <2>2
<1>7. TypeOK'
  <2>1. check' \in 1 .. totalChecks + 1
    BY <1>1 DEF totalChecks
  <2>. QED
    BY <1>1, <1>6, <2>1 DEF TypeOK
<1>8. VerdictInv'
  BY <1>1 DEF VerdictInv, Mixture
<1>9. MetersTellFailures'
  <2>1. Failed(mix, check) = {c \in 1 .. check' - 1 : ~ Results(mix')[c]}
    BY <1>1 DEF Failed
  <2>. QED
    BY <1>6, <2>1 DEF MetersTellFailures
<1>. QED
  BY <1>1, <1>7, <1>8, <1>9, SameAttempt

LEMMA JudgeStep == CauldronInv /\ judge => CauldronInv'
<1>. SUFFICES ASSUME CauldronInv, judge PROVE CauldronInv'
  OBVIOUS
<1>. USE DEF CauldronInv
<1>1. /\ phase = "brewing" /\ verdict = "open" /\ check = totalChecks + 1
      /\ verdict' = (IF Stable THEN "rewarded" ELSE IF Spent THEN "exploded" ELSE "wobbles")
      /\ UNCHANGED <<phase, attempt, unread, mix, check, heat, stability, failCount, tried>>
  BY DEF judge, TypeOK, totalChecks
<1>2. stability = goal[2]
  BY DEF judge, AtGoal
<1>. DEFINE n == Cardinality(Failed(mix, totalChecks))
<1>3. failCount = n /\ stability = totalChecks - n
  <2>1. check - 1 = totalChecks
    BY <1>1 DEF totalChecks
  <2>. QED
    BY <1>1, <1>2, <2>1 DEF MetersTellFailures, Failed
<1>4. n \in 0 .. totalChecks
  BY FailedIsFinite DEF totalChecks
<1>5. Mixture(mix)
  BY <1>1 DEF VerdictInv
<1>6. n = 0 <=> \A c \in 1 .. totalChecks : Results(mix)[c]
  BY CountIsZero
<1>7. n = totalChecks => \A c \in 1 .. totalChecks : ~ Results(mix)[c]
  BY CountIsAll
<1>. HIDE DEF n
<1>8. /\ verdict' = "rewarded" => n = 0
      /\ verdict' = "exploded" => n = totalChecks
      /\ verdict' = "wobbles" => n # 0
      /\ verdict' \in {"rewarded", "exploded", "wobbles"}
  BY <1>1, <1>3, <1>4 DEF Stable, Spent, totalChecks
<1>9. mix = Recipe => n = 0
  BY <1>6, RecipeIsRight
<1>10. VerdictInv'
  BY <1>1, <1>5, <1>6, <1>7, <1>8, <1>9 DEF VerdictInv, Mixture
<1>11. TypeOK'
  <2>1. goal' \in (0 .. totalChecks) \X (0 .. totalChecks)
    <3>1. animateMeters(totalChecks, 0) \/ animateMeters(0, totalChecks)
      BY DEF judge
    <3>2. totalChecks \in Int /\ 0 \in Int
      BY DEF totalChecks
    <3>. QED
      BY <3>1, <3>2, Goals
  <2>. QED
    BY <1>1, <1>8, <2>1 DEF TypeOK
<1>12. MetersTellFailures'
  BY <1>8 DEF MetersTellFailures
<1>. QED
  BY <1>1, <1>10, <1>11, <1>12, SameAttempt

LEMMA FinishStep == CauldronInv /\ finish => CauldronInv'
<1>. SUFFICES ASSUME CauldronInv, finish PROVE CauldronInv'
  OBVIOUS
<1>. USE DEF CauldronInv
<1>1. /\ phase = "brewing" /\ verdict \in {"rewarded", "exploded", "wobbles"}
      /\ UNCHANGED <<unread, brewing, tried>>
  BY DEF finish, TypeOK
<1>2. /\ Len(tried) = attempt /\ attempt \in Nat /\ attempt <= maxAttempts /\ maxAttempts \in Nat
      /\ attempt \in 1 .. maxAttempts + 1
      /\ Mixture(mix) /\ tried[Len(tried)] = mix
  BY <1>1, AttemptsAssumption DEF TriedInv, TypeOK
<1>3. CASE verdict = "wobbles"
  <2>1. attempt' = attempt + 1 /\ phase' = (IF attempt' <= maxAttempts THEN "asking" ELSE "sealed")
    BY <1>3 DEF finish, NextAttempt
  <2>2. phase' \in {"asking", "sealed"} /\ attempt' \in 1 .. maxAttempts + 1
    BY <1>2, <2>1
  <2>3. TypeOK'
    BY <1>1, <2>2 DEF TypeOK, Phases, brewing
  <2>4. TriedInv'
    BY <1>1, <1>2, <2>1 DEF TriedInv
  <2>5. VerdictInv' /\ MetersTellFailures'
    BY <2>2 DEF VerdictInv, MetersTellFailures
  <2>6. mix # Recipe
    BY <1>1, <1>3 DEF VerdictInv
  <2>7. \A i \in DOMAIN tried : tried[i] # Recipe
    BY <1>2, <2>6 DEF RecipeIsNotRefused
  <2>8. RecipeIsNotRefused'
    BY <1>1, <2>7 DEF RecipeIsNotRefused
  <2>. QED
    BY <2>3, <2>4, <2>5, <2>8
<1>4. CASE verdict # "wobbles"
  <2>1. phase' = verdict /\ attempt' = attempt /\ phase' \in {"rewarded", "exploded"}
    BY <1>1, <1>4 DEF finish
  <2>2. mix' = mix /\ verdict' = verdict /\ tried' = tried
    BY <1>1 DEF brewing
  <2>3. TypeOK'
    BY <1>1, <2>1 DEF TypeOK, Phases, brewing
  <2>4. TriedInv'
    BY <1>2, <2>1, <2>2 DEF TriedInv, Mixture
  <2>5. VerdictInv'
    BY <1>1, <1>2, <2>1, <2>2 DEF VerdictInv, Mixture
  <2>6. MetersTellFailures'
    BY <2>1 DEF MetersTellFailures
  <2>7. RecipeIsNotRefused'
    <3>1. ASSUME NEW i \in DOMAIN tried, tried[i] = Recipe
          PROVE  i = Len(tried) /\ phase' = "rewarded"
      <4>1. i = Len(tried) /\ mix = Recipe
        BY <1>2, <3>1 DEF RecipeIsNotRefused
      <4>2. Results(mix)[1]
        BY <4>1, RecipeIsRight DEF totalChecks
      <4>3. verdict # "exploded"
        BY <1>1, <4>2 DEF VerdictInv, totalChecks
      <4>. QED
        BY <2>1, <4>1, <4>3
    <3>. QED
      BY <2>2, <3>1 DEF RecipeIsNotRefused
  <2>. QED
    BY <2>3, <2>4, <2>5, <2>6, <2>7
<1>. QED
  BY <1>3, <1>4

LEMMA EveryStep == CauldronInv /\ [Next]_vars => CauldronInv'
<1>. SUFFICES ASSUME CauldronInv, [Next]_vars PROVE CauldronInv'
  OBVIOUS
<1>1. ASSUME UNCHANGED vars PROVE CauldronInv'
  <2>1. UNCHANGED <<phase, attempt, unread, mix, check, heat, stability, failCount, goal, verdict, tried>>
    BY <1>1 DEF vars, brewing
  <2>2. TypeOK' /\ VerdictInv' /\ MetersTellFailures'
    BY <2>1 DEF CauldronInv, TypeOK, VerdictInv, MetersTellFailures, Mixture
  <2>3. TriedInv' /\ RecipeIsNotRefused'
    BY <2>1, SameAttempt DEF CauldronInv
  <2>. QED
    BY <2>2, <2>3 DEF CauldronInv
<1>. QED
  BY <1>1, ReadStep, EndStep, FrameStep, CheckStep, JudgeStep, FinishStep DEF Next, validateMixture

\* The invariant holds of every run of the program.
THEOREM CauldronInvariant == Spec => []CauldronInv
<1>1. Init => CauldronInv
  BY AtTheStart
<1>2. CauldronInv /\ [Next]_vars => CauldronInv'
  BY EveryStep
<1>. QED
  BY <1>1, <1>2, PTL DEF Spec

\* The state keeps its types: no frame moves a meter over its ends.
THEOREM TypesKept == Spec => []TypeOK
<1>1. CauldronInv => TypeOK
  BY DEF CauldronInv
<1>. QED
  BY <1>1, CauldronInvariant, PTL

\* The failures that were counted are those of the mixture in the cauldron,
\* and the meters are never held back at their ends.
THEOREM MetersCorrect == Spec => []MetersTellFailures
<1>1. CauldronInv => MetersTellFailures
  BY DEF CauldronInv
<1>. QED
  BY <1>1, CauldronInvariant, PTL

\* An explosion means that all ten checks failed.
THEOREM ExplosionMeansNothingRight == Spec => []ExplodesOnNothingRight
<1>1. CauldronInv => ExplodesOnNothingRight
  BY DEF CauldronInv, VerdictInv, ExplodesOnNothingRight
<1>. QED
  BY <1>1, CauldronInvariant, PTL

\* Of all the lines that can be typed one code is rewarded, and that one
\* whenever it is read, the last attempt included.
THEOREM TheRecipeAlone == Spec => []RecipeIsRewarded
<1>1. CauldronInv => OneRecipe
  BY AllRight DEF CauldronInv, VerdictInv, OneRecipe
<1>2. CauldronInv => RecipeIsNotRefused
  BY DEF CauldronInv
<1>3. CauldronInv => RecipeIsRewarded
  BY <1>1, <1>2 DEF RecipeIsRewarded
<1>. QED
  BY <1>3, CauldronInvariant, PTL

\* As many codes are read as there are attempts before the lockout, no more.
THEOREM AttemptsCountCodes == Spec => []AttemptsAreCodes
<1>1. CauldronInv => AttemptsAreCodes
  BY AttemptsAssumption DEF CauldronInv, TriedInv, TypeOK, Phases, AttemptsAreCodes
<1>. QED
  BY <1>1, CauldronInvariant, PTL
============================================================================
