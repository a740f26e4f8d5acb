---------------------------- MODULE MCChoirWords ----------------------------
(* The ritual at its full size, over the tokens of Solution.txt. *)
EXTENDS ChoirWords

MCBuckets == [b \in 0 .. 3 |-> [k \in 0 .. 5 |-> b + 4 * k]]
MCTokens == {PassedBy(SolutionToken[k]) : k \in DOMAIN SolutionToken}
MCReal == [c \in 0 .. 3 |-> <<6, 7, 3, 8>>[c + 1]]
MCEarly == [c \in 0 .. 3 |-> <<8, 4, 8, 4>>[c + 1]]
============================================================================
