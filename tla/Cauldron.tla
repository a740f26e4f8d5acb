----------------------------- MODULE Cauldron -----------------------------
(***************************************************************************)
(* The cauldron of REV/Cauldron of Balance/cauldron.c: at most maxAttempts *)
(* times it reads a code of six runes, puts it to ten checks that move its *)
(* two meters, and rewards it, explodes or asks again.                     *)
(*                                                                         *)
(* Characters are their codes.  A line is what comes before its \n; fgets  *)
(* has room for 63 of its characters, and a longer one is read in pieces,  *)
(* each as a code of its own.  A code ends at the first \r or NUL, too.    *)
(***************************************************************************)
EXTENDS Integers, Sequences, FiniteSets

CONSTANTS Lines,         \* what may be typed
          maxAttempts    \* 3 in the code

ASSUME LinesAssumption == Lines \subseteq Seq(Int)
ASSUME AttemptsAssumption == maxAttempts \in Nat \ {0}

ingredientCount == 6
totalChecks == 10
Room == 63      \* input[64] with its terminating NUL

Allowed(code) == code \in 97 .. 122 \/ code \in 48 .. 57

\* a ^ b for a, b below 128: the bit of weight p is set where one of a, b has it.
Xor(a, b) ==
    LET bit(p) == p * ((a \div p + b \div p) % 2)
    IN bit(1) + bit(2) + bit(4) + bit(8) + bit(16) + bit(32) + bit(64)

\* What the ten checks say of a mixture.
Results(mix) ==
    LET ember == mix[1]  frost == mix[2]  bile == mix[3]
        root == mix[4]   mist == mix[5]   ash == mix[6]
    IN << ember + frost = 150,  Xor(bile, 51) = 95,  frost + root = 149,
          bile - root = 11,  root - mist = -13,  (ember * 7 + mist) % 26 = 16,
          Xor(mist, ember) = 12,  ash % 16 = 3,  bile + ash = 207,
          (frost * 3 + ash) % 26 = 21 >>

VARIABLES phase,      \* "asking", "brewing", "rewarded", "exploded", "dead", "sealed"
          attempt,
          unread,     \* <<>>, or the one line that fgets has read a part of
          mix, check, \* the code that is brewed and the check it is at
          heat, stability, failCount,
          goal,       \* where animateMeters moves heat and stability
          verdict,    \* "open" before failCount is looked at, then what came of it
          tried       \* the codes read so far

brewing == <<mix, check, heat, stability, failCount, goal, verdict>>
vars == <<phase, attempt, unread, brewing, tried>>

Init ==
    /\ phase = "asking" /\ attempt = 1 /\ unread = <<>> /\ mix = <<>> /\ check = 1
    /\ heat = 0 /\ stability = totalChecks /\ failCount = 0
    /\ goal = <<0, totalChecks>> /\ verdict = "open" /\ tried = <<>>

----------------------------------------------------------------------------
(* The attempts *)

\* Slip: only codes that are brewed count.
NextAttempt_Brewed ==
    /\ attempt' = IF phase = "brewing" THEN attempt + 1 ELSE attempt
    /\ phase' = IF attempt' <= maxAttempts THEN "asking" ELSE "sealed"
NextAttempt ==
    /\ attempt' = attempt + 1
    /\ phase' = IF attempt' <= maxAttempts THEN "asking" ELSE "sealed"

\* validateMixture begins.
brew(input) ==
    /\ phase' = "brewing" /\ mix' = input /\ check' = 1 /\ verdict' = "open"
    /\ heat' = 0 /\ stability' = totalChecks /\ failCount' = 0 /\ goal' = <<0, totalChecks>>
    /\ UNCHANGED attempt

\* strcspn: what comes before the first \r, or the NUL that ends a string.
Cut(s) == SubSeq(s, 1, Cardinality({n \in DOMAIN s : \A m \in 1 .. n : s[m] \notin {0, 13}}))

readLine ==
    /\ phase = "asking"
    /\ \E line \in IF unread = <<>> THEN Lines ELSE {unread[1]} :
          LET long == Len(line) >= Room
              input == Cut(IF long THEN SubSeq(line, 1, Room) ELSE line)
          IN /\ unread' = IF long THEN <<SubSeq(line, Room + 1, Len(line))>> ELSE <<>>
             /\ tried' = Append(tried, input)
             /\ IF Len(input) = ingredientCount /\ \A i \in DOMAIN input : Allowed(input[i])
                THEN brew(input)
                ELSE NextAttempt /\ UNCHANGED brewing

\* The input has ended.
endOfInput ==
    /\ phase = "asking" /\ unread = <<>>
    /\ phase' = "dead"
    /\ UNCHANGED <<attempt, unread, brewing, tried>>

----------------------------------------------------------------------------
(* validateMixture *)

Clamped(n) == IF n < 0 THEN 0 ELSE IF n > totalChecks THEN totalChecks ELSE n
animateMeters(targetHeat, targetStability) ==
    goal' = <<Clamped(targetHeat), Clamped(targetStability)>>

\* Slip: a frame moves a meter by two.
Moved_Two(n, target) == IF n < target THEN n + 2 ELSE IF n > target THEN n - 2 ELSE n
Moved(n, target) == IF n < target THEN n + 1 ELSE IF n > target THEN n - 1 ELSE n

AtGoal == goal = <<heat, stability>>

\* One turn of animateMeters' loop.
frame ==
    /\ phase = "brewing" /\ ~ AtGoal
    /\ heat' = Moved(heat, goal[1]) /\ stability' = Moved(stability, goal[2])
    /\ UNCHANGED <<phase, attempt, unread, mix, check, failCount, goal, verdict, tried>>

\* Slip: a check that passes steadies the mixture as well.
Passed_Steadies == animateMeters(IF heat > 0 THEN heat - 1 ELSE heat, stability + 1) /\ UNCHANGED failCount
Passed == animateMeters(IF heat > 0 THEN heat - 1 ELSE heat, stability) /\ UNCHANGED failCount

applyCheckResult ==
    /\ phase = "brewing" /\ AtGoal /\ verdict = "open" /\ check <= totalChecks
    /\ IF Results(mix)[check]
       THEN Passed
       ELSE /\ failCount' = failCount + 1
            /\ animateMeters(heat + 1, stability - 1)
    /\ check' = check + 1
    /\ UNCHANGED <<phase, attempt, unread, mix, heat, stability, verdict, tried>>

\* Slip: the heat is taken for the count of the failures.
Stable_Cool == heat = 0
Stable == failCount = 0

\* Slip: the last of the stability is taken for none.
Spent_Last == stability <= 1
Spent == stability <= 0

\* After the last check, and what main makes of it when the meters have moved.
judge ==
    /\ phase = "brewing" /\ AtGoal /\ verdict = "open" /\ check > totalChecks
    /\ verdict' = (IF Stable THEN "rewarded" ELSE IF Spent THEN "exploded" ELSE "wobbles")
    /\ IF ~ Stable /\ Spent THEN animateMeters(totalChecks, 0) ELSE animateMeters(0, totalChecks)
    /\ UNCHANGED <<phase, attempt, unread, mix, check, heat, stability, failCount, tried>>

finish ==
    /\ phase = "brewing" /\ AtGoal /\ verdict # "open"
    /\ IF verdict = "wobbles" THEN NextAttempt ELSE phase' = verdict /\ UNCHANGED attempt
    /\ UNCHANGED <<unread, brewing, tried>>

Ended == phase \in {"rewarded", "exploded", "dead", "sealed"}

validateMixture == frame \/ applyCheckResult \/ judge \/ finish

Next == readLine \/ endOfInput \/ validateMixture \/ (Ended /\ UNCHANGED vars)

\* What is typed and when is the player's affair: only a brew goes on by itself.
Spec == Init /\ [][Next]_vars /\ WF_vars(validateMixture)

----------------------------------------------------------------------------
(* Properties *)

Phases == {"asking", "brewing", "rewarded", "exploded", "dead", "sealed"}

TypeOK ==
    /\ phase \in Phases /\ attempt \in 1 .. maxAttempts + 1
    /\ unread = <<>> \/ (Len(unread) = 1 /\ unread[1] \in Seq(Int))
    /\ mix = <<>> \/ (mix \in [1 .. ingredientCount -> Int] /\ \A i \in DOMAIN mix : Allowed(mix[i]))
    /\ phase = "brewing" => mix # <<>>
    /\ check \in 1 .. totalChecks + 1
    /\ heat \in 0 .. totalChecks /\ stability \in 0 .. totalChecks /\ failCount \in 0 .. totalChecks
    /\ goal \in (0 .. totalChecks) \X (0 .. totalChecks)
    /\ verdict \in {"open", "rewarded", "exploded", "wobbles"}
    /\ tried \in Seq(Seq(Int))

\* The meters tell the player the number of checks that failed: stability goes
\* to where it has lost one for each, heat rises no further than that loss, and
\* neither was ever held back at the end of its scale.
MetersTellFailures ==
    phase = "brewing" /\ verdict = "open" =>
        /\ failCount = Cardinality({c \in 1 .. check - 1 : ~ Results(mix)[c]})
        /\ goal[2] = totalChecks - failCount /\ goal[1] <= failCount

\* The cauldron explodes only over a mixture that passed no check at all.
ExplodesOnNothingRight ==
    phase = "exploded" => \A c \in 1 .. totalChecks : ~ Results(mix)[c]

\* "b4lanc"
Recipe == <<98, 52, 108, 97, 110, 99>>

\* One code of all that can be typed is rewarded: the checks leave no second.
OneRecipe == phase = "rewarded" => mix = Recipe

\* Where the recipe was read it was the last code that was, be it at the last
\* attempt or the end of a line too long, and nothing but its brewing stands
\* between it and the reward.
RecipeIsNotRefused ==
    \A i \in DOMAIN tried : tried[i] = Recipe => i = Len(tried) /\ phase \in {"brewing", "rewarded"}

\* The recipe is rewarded, always and alone.
RecipeIsRewarded == OneRecipe /\ RecipeIsNotRefused

\* No more codes are read than there are attempts, and the lockout comes when
\* all of them were.
AttemptsAreCodes ==
    /\ Len(tried) <= maxAttempts
    /\ phase = "sealed" => Len(tried) = maxAttempts

\* A brew comes to an end: the loop that moves the meters does.
EveryBrewIsJudged == phase = "brewing" ~> phase # "brewing"
============================================================================
