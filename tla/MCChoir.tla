------------------------------ MODULE MCChoir ------------------------------
(* Three buckets of three voices, dealt out as in the code. *)
EXTENDS Choir

MCBuckets == [b \in 0 .. 2 |-> [k \in 0 .. 2 |-> b + 3 * k]]
MCTokens == {0 .. 8, 1 .. 8}
MCReal == [c \in 0 .. 2 |-> <<4, 3, 2>>[c + 1]]
MCEarly == [c \in 0 .. 2 |-> <<5, 1, 3>>[c + 1]]
============================================================================
