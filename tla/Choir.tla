------------------------------- MODULE Choir -------------------------------
(***************************************************************************)
(* The ritual of REV/Ashen Choir/choir.c: a token is read, every voice     *)
(* sings over it in an order that the voices sung so far decide, and gates *)
(* over what they left behind decide the outcome.                          *)
(*                                                                         *)
(* The mixing of the 32-bit words is left out: the class that the selector *)
(* draws from them and what the signatures and constraints say is any      *)
(* value.  Of a token it is kept which voices pass over it, for that       *)
(* depends on nothing else.                                                *)
(***************************************************************************)
EXTENDS Integers, Sequences, FiniteSets

CONSTANTS Classes,        \* 4 in the code
          Width,          \* 6: how many voices a bucket has
          voiceCount,     \* 24
          bucketOrder,    \* for each class the voices of its bucket
          Tokens,         \* each the set of the voices that pass over it
          realCountExpected, earlyCountExpected,   \* how often each class is to be drawn
          EarlyEnough, ChordEnough   \* 18 and 14: the passes that decoys ask for

Voices == 0 .. voiceCount - 1

\* Every voice has one place in the buckets.
ASSUME BucketsAssumption ==
    /\ Classes \in Nat \ {0} /\ Width \in Nat /\ voiceCount \in Nat
    /\ bucketOrder \in [0 .. Classes - 1 -> [0 .. Width - 1 -> Voices]]
    /\ Tokens \subseteq SUBSET Voices
    /\ \A v \in Voices : \E b \in 0 .. Classes - 1, k \in 0 .. Width - 1 : bucketOrder[b][k] = v
    /\ \A b, c \in 0 .. Classes - 1 : \A k, m \in 0 .. Width - 1 :
          bucketOrder[b][k] = bucketOrder[c][m] => b = c /\ k = m

VARIABLES phase,        \* "offer", "choir", "silent", "judged"
          token,
          cursor,       \* for each bucket the place of the next voice
          used,         \* the voices with used[] set
          voiceOrder, classHist,   \* the voices and the classes of the steps so far
          passMask,     \* the voices that passed
          outcome       \* "", "deny", "real", "fakeA", "fakeB", "fakeC"

vars == <<phase, token, cursor, used, voiceOrder, classHist, passMask, outcome>>

step == Len(voiceOrder)

Init ==
    /\ phase = "offer" /\ outcome = "" /\ token \in Tokens
    /\ cursor = [b \in 0 .. Classes - 1 |-> 0]
    /\ used = {} /\ voiceOrder = <<>> /\ classHist = <<>> /\ passMask = {}

\* The end of the input, and a line that is no token.
refuse ==
    /\ phase = "offer"
    /\ phase' = "silent" /\ outcome' = "deny"
    /\ UNCHANGED <<token, cursor, used, voiceOrder, classHist, passMask>>

initState ==
    /\ phase = "offer"
    /\ phase' = "choir"
    /\ UNCHANGED <<token, cursor, used, voiceOrder, classHist, passMask, outcome>>

----------------------------------------------------------------------------
(* The dispatcher *)

Least(S) == CHOOSE x \in S : \A y \in S : x <= y

\* Slip: the buckets are tried in the other direction.
Bucket_Back(cls, off) == (cls - off) % Classes
Bucket(cls, off) == (cls + off) % Classes

\* Where the cursor of a bucket comes to when it passes over used voices.
Passed(b) == Least({k \in cursor[b] .. Width :
                       k < Width => bucketOrder[b][k] \notin used})

\* Slip: the bucket of the class alone is looked at.
Offs_OwnBucket(cls) == {off \in {0} : Passed(Bucket(cls, off)) < Width}
\* The buckets are tried from that of the class on; which of them has a
\* voice left, and the first that does.
Offs(cls) == {off \in 0 .. Classes - 1 : Passed(Bucket(cls, off)) < Width}
Chosen(cls) == Bucket(cls, Least(Offs(cls)))

\* The cursors of the buckets that were tried have passed over used voices,
\* and that of the chosen one goes past its voice.
CursorAfter(cls) ==
    LET last == IF Offs(cls) = {} THEN Classes - 1 ELSE Least(Offs(cls))
        tried == {Bucket(cls, off) : off \in 0 .. last}
    IN [b \in 0 .. Classes - 1 |->
           IF b \notin tried THEN cursor[b]
           ELSE IF Offs(cls) # {} /\ b = Chosen(cls) THEN Passed(b) + 1 ELSE Passed(b)]

\* Slip: the bucket of the class is read where the chosen one should be.
VoiceOf_OwnBucket(cls) == bucketOrder[cls][Passed(Chosen(cls))]

\* The voice to sing: with no bucket left, the first that was not used.
VoiceOf(cls) ==
    IF Offs(cls) # {} THEN bucketOrder[Chosen(cls)][Passed(Chosen(cls))]
    ELSE Least({v \in 0 .. voiceCount : v \notin used})

\* One turn of the loop, with the class drawn.
dispatchVoice(cls) ==
    /\ phase = "choir" /\ step < voiceCount
    /\ LET idx == VoiceOf(cls)
       IN /\ used' = used \cup {idx}
          /\ voiceOrder' = Append(voiceOrder, idx)
          /\ passMask' = IF idx \in token THEN passMask \cup {idx} ELSE passMask \ {idx}
    /\ cursor' = CursorAfter(cls)
    /\ classHist' = Append(classHist, cls)
    /\ UNCHANGED <<phase, token, outcome>>

----------------------------------------------------------------------------
(* The gates *)

passCount == Cardinality(passMask)

classCounts == [c \in 0 .. Classes - 1 |->
                   Cardinality({i \in DOMAIN classHist : classHist[i] = c})]

\* The two state gates want different values of edge.
stateMachineGate(edge) == edge = "real" /\ classCounts = realCountExpected
earlyStateGate(edge) == edge = "early" /\ classCounts = earlyCountExpected

\* realOk is coreOk with sigReal, chordOk the two conditions of the last decoy.
Outcome(edge, realOk, lateOk, sigDecoy, chordOk) ==
    IF passCount = voiceCount /\ stateMachineGate(edge) /\ realOk /\ lateOk THEN "real"
    ELSE IF passCount = voiceCount /\ sigDecoy THEN "fakeB"
    ELSE IF passCount >= EarlyEnough /\ earlyStateGate(edge) /\ ~lateOk THEN "fakeA"
    ELSE IF passCount >= ChordEnough /\ chordOk THEN "fakeC"
    ELSE "deny"

chooseOutcome ==
    /\ phase = "choir" /\ step = voiceCount
    /\ phase' = "judged"
    /\ \E edge \in {"real", "early", "other"} :
          \E realOk, lateOk, sigDecoy, chordOk \in BOOLEAN :
             outcome' = Outcome(edge, realOk, lateOk, sigDecoy, chordOk)
    /\ UNCHANGED <<token, cursor, used, voiceOrder, classHist, passMask>>

Next ==
    \/ refuse \/ initState
    \/ \E cls \in 0 .. Classes - 1 : dispatchVoice(cls)
    \/ chooseOutcome
    \/ phase \in {"silent", "judged"} /\ UNCHANGED vars

Spec == Init /\ [][Next]_vars

----------------------------------------------------------------------------
(* Properties *)

TypeOK ==
    /\ phase \in {"offer", "choir", "silent", "judged"} /\ token \in Tokens
    /\ cursor \in [0 .. Classes - 1 -> 0 .. Width]
    /\ used \subseteq Voices /\ passMask \subseteq Voices
    /\ voiceOrder \in Seq(Voices) /\ classHist \in Seq(0 .. Classes - 1)
    /\ outcome \in {"", "deny", "real", "fakeA", "fakeB", "fakeC"}

\* However the classes are drawn, no voice sings twice, and before the
\* outcome is chosen all have sung: the gates read traces of every voice.
EveryVoiceOnce ==
    /\ \A i, j \in DOMAIN voiceOrder : voiceOrder[i] = voiceOrder[j] => i = j
    /\ phase = "judged" => {voiceOrder[i] : i \in DOMAIN voiceOrder} = Voices

\* While a step is left some bucket has a voice, whatever class is drawn: the
\* search over used[] is never reached (idx is never 0xFF).
SearchNeverNeeded ==
    (phase = "choir" /\ step < voiceCount) => \A cls \in 0 .. Classes - 1 : Offs(cls) # {}

\* A voice sings after all that come before it in the table of its bucket.
BucketsInOrder ==
    \A i \in DOMAIN voiceOrder, b \in 0 .. Classes - 1, k \in 0 .. Width - 1 :
        voiceOrder[i] = bucketOrder[b][k] =>
            \A m \in 0 .. k - 1 : \E j \in 1 .. i - 1 : voiceOrder[j] = bucketOrder[b][m]

\* A voice of another bucket than that of the class drawn sings only when
\* that one and all between have sung out.
NearestBucket ==
    \A i \in DOMAIN voiceOrder : \E off \in 0 .. Classes - 1 :
        /\ \E k \in 0 .. Width - 1 : voiceOrder[i] = bucketOrder[(classHist[i] + off) % Classes][k]
        /\ \A o \in 0 .. off - 1 : \A k \in 0 .. Width - 1 :
              \E j \in 1 .. i - 1 : voiceOrder[j] = bucketOrder[(classHist[i] + o) % Classes][k]

\* The buckets decide which voice a step has: the first left of its bucket,
\* and of the nearest bucket with one left.
VoicesInTurn == BucketsInOrder /\ NearestBucket

\* The true outcome, and the decoy that is closest to it, take a token over
\* which every voice passed.
RealNeedsEveryVoice == outcome \in {"real", "fakeB"} => token = Voices
============================================================================
