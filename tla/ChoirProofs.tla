---------------------------- MODULE ChoirProofs ----------------------------
(***************************************************************************)
(* Theorems about Choir, for any number of classes and any buckets in      *)
(* which each voice has one place: what the cursors say of the voices that *)
(* have sung, and what that makes of the dispatcher and of its outcome.    *)
(***************************************************************************)
EXTENDS Choir, TLAPS, FiniteSetTheorems, WellFoundedInduction

Buckets == 0 .. Classes - 1
Places == 0 .. Width - 1

\* A voice is used if it has sung, and in each bucket those below the cursor
\* are used: the loop that passes over used voices never has any to pass.
SungInv ==
    /\ used = {voiceOrder[i] : i \in DOMAIN voiceOrder}
    /\ IsFiniteSet(used) /\ Cardinality(used) = step
    /\ Len(classHist) = step
    /\ \A b \in Buckets, k \in Places : bucketOrder[b][k] \in used <=> k < cursor[b]
    /\ passMask = used \cap token

OutcomeInv ==
    /\ phase = "judged" => step = voiceCount
    /\ phase # "judged" => outcome \in {"", "deny"}

NoneTwice == \A i, j \in DOMAIN voiceOrder : voiceOrder[i] = voiceOrder[j] => i = j

ChoirInv ==
    /\ TypeOK /\ SungInv /\ OutcomeInv /\ NoneTwice
    /\ BucketsInOrder /\ NearestBucket /\ RealNeedsEveryVoice

----------------------------------------------------------------------------
(* The selector *)

LEMMA LeastOf ==
    ASSUME NEW S \in SUBSET Nat, S # {}
    PROVE  Least(S) \in S /\ \A y \in S : Least(S) <= y
<1>. DEFINE R == OpToRel(<, Nat)
<1>1. IsWellFoundedOn(R, Nat)
  BY NatLessThanWellFounded
<1>. HIDE DEF R
<1>2. PICK x \in S : \A y \in S : ~ (<<y, x>> \in R)
  BY <1>1, WFMin
<1>3. \A y \in S : x <= y
  <2>. SUFFICES ASSUME NEW y \in S, ~ (x <= y) PROVE FALSE
    OBVIOUS
  <2>1. y < x /\ y \in Nat /\ x \in Nat
    OBVIOUS
  <2>. QED
    BY <1>2, <2>1 DEF R, OpToRel
<1>. QED
  BY <1>3 DEF Least

\* Every bucket comes, whatever the class.
LEMMA BucketTypes ==
    ASSUME NEW cls \in Buckets
    PROVE  /\ \A off \in Int : Bucket(cls, off) \in Buckets
           /\ \A b \in Buckets : \E off \in Buckets : Bucket(cls, off) = b
<1>. Classes \in Nat \ {0}
  BY BucketsAssumption
<1>1. ASSUME NEW off \in Int PROVE Bucket(cls, off) \in Buckets
  BY DEF Bucket, Buckets
<1>2. ASSUME NEW b \in Buckets PROVE \E off \in Buckets : Bucket(cls, off) = b
  <2>1. CASE cls <= b
    <3>1. b - cls \in Buckets /\ cls + (b - cls) = b
      BY <2>1 DEF Buckets
    <3>2. b % Classes = b
      BY DEF Buckets
    <3>. QED
      BY <3>1, <3>2 DEF Bucket
  <2>2. CASE b < cls
    <3>1. b - cls + Classes \in Buckets /\ cls + (b - cls + Classes) = b + Classes
      BY <2>2 DEF Buckets
    <3>2. (b + Classes) % Classes = b
      <4>1. \A n \in Nat \ {0} : \A r \in 0 .. n - 1 : (1 * n + r) % n = r
        OBVIOUS
      <4>. QED
        BY <4>1 DEF Buckets
    <3>. QED
      BY <3>1, <3>2 DEF Bucket
  <2>. QED
    BY <2>1, <2>2 DEF Buckets
<1>. QED
  BY <1>1, <1>2

LEMMA PassedIsCursor ==
    ASSUME TypeOK, SungInv, NEW b \in Buckets
    PROVE  Passed(b) = cursor[b] /\ cursor[b] \in 0 .. Width
<1>. Width \in Nat
  BY BucketsAssumption
<1>1. cursor[b] \in 0 .. Width
  BY DEF TypeOK, Buckets
<1>. DEFINE S == {k \in cursor[b] .. Width : k < Width => bucketOrder[b][k] \notin used}
<1>2. cursor[b] \in S
  <2>1. CASE cursor[b] < Width
    <3>1. cursor[b] \in Places
      BY <1>1, <2>1 DEF Places
    <3>. QED
      BY <1>1, <3>1 DEF SungInv
  <2>. QED
    BY <1>1, <2>1
<1>3. S \in SUBSET Nat /\ \A k \in S : cursor[b] <= k
  BY <1>1
<1>4. Least(S) \in S /\ Least(S) <= cursor[b]
  <2>. HIDE DEF S
  <2>. QED
    BY <1>2, <1>3, LeastOf
<1>. QED
  BY <1>1, <1>3, <1>4 DEF Passed

\* With a bucket left, a turn is of the voice at the cursor of the first such.
LEMMA SomeOff ==
    ASSUME TypeOK, SungInv, NEW cls \in Buckets, Offs(cls) # {}
    PROVE  \E off \in Buckets :
              /\ off = Least(Offs(cls)) /\ Chosen(cls) = Bucket(cls, off)
              /\ Bucket(cls, off) \in Buckets /\ cursor[Bucket(cls, off)] \in Places
              /\ \A o \in 0 .. off - 1 : cursor[Bucket(cls, o)] = Width
<1>. Width \in Nat
  BY BucketsAssumption
<1>1. Offs(cls) \in SUBSET Nat /\ Offs(cls) \subseteq Buckets
  BY BucketsAssumption DEF Offs, Buckets
<1>2. PICK off \in Buckets : off = Least(Offs(cls)) /\ off \in Offs(cls) /\ \A y \in Offs(cls) : off <= y
  BY <1>1, LeastOf
<1>3. /\ \A o \in Buckets : Bucket(cls, o) \in Buckets
      /\ \A o \in Buckets : Passed(Bucket(cls, o)) = cursor[Bucket(cls, o)]
      /\ \A o \in Buckets : cursor[Bucket(cls, o)] \in 0 .. Width
  <2>1. ASSUME NEW o \in Buckets PROVE Bucket(cls, o) \in Buckets
    <3>1. o \in Int
      BY BucketsAssumption DEF Buckets
    <3>. QED
      BY <3>1, BucketTypes
  <2>. QED
    BY <2>1, PassedIsCursor
<1>4. cursor[Bucket(cls, off)] \in Places
  BY <1>2, <1>3 DEF Offs, Places
<1>5. ASSUME NEW o \in 0 .. off - 1 PROVE cursor[Bucket(cls, o)] = Width
  <2>1. o \in Buckets /\ ~ (off <= o)
    BY <1>2, BucketsAssumption DEF Buckets
  <2>2. o \notin Offs(cls)
    BY <1>2, <2>1
  <2>3. ~ (Passed(Bucket(cls, o)) < Width)
    BY <2>1, <2>2 DEF Offs, Buckets
  <2>. QED
    BY <1>3, <2>1, <2>3
<1>. QED
  BY <1>2, <1>3, <1>4, <1>5 DEF Chosen

LEMMA VoicesFinite ==
    IsFiniteSet(Voices) /\ Cardinality(Voices) = voiceCount
<1>1. 0 \in Int /\ voiceCount - 1 \in Int /\ voiceCount \in Nat
  BY BucketsAssumption
<1>2. /\ IsFiniteSet(0 .. voiceCount - 1)
      /\ Cardinality(0 .. voiceCount - 1) = IF 0 > voiceCount - 1 THEN 0 ELSE voiceCount - 1 - 0 + 1
  BY <1>1, FS_Interval
<1>. QED
  BY <1>1, <1>2 DEF Voices

\* While a step is left some voice is unused, and its bucket has a place for
\* the cursor to be at.
LEMMA BucketLeft ==
    ASSUME TypeOK, SungInv, step < voiceCount, NEW cls \in Buckets
    PROVE  Offs(cls) # {}
<1>1. PICK v \in Voices : v \notin used
  <2>1. used # Voices
    BY VoicesFinite, BucketsAssumption DEF SungInv
  <2>. QED
    BY <2>1 DEF TypeOK
<1>2. PICK b \in Buckets, k \in Places : bucketOrder[b][k] = v
  BY BucketsAssumption DEF Buckets, Places
<1>3. PICK off \in Buckets : Bucket(cls, off) = b
  BY BucketTypes
<1>4. ~ (k < cursor[b])
  BY <1>1, <1>2 DEF SungInv
<1>5. Passed(b) < Width
  <2>1. Passed(b) = cursor[b] /\ cursor[b] \in 0 .. Width
    BY PassedIsCursor
  <2>2. k \in 0 .. Width - 1 /\ Width \in Nat
    BY BucketsAssumption DEF Places
  <2>. QED
    BY <1>4, <2>1, <2>2
<1>. QED
  BY <1>3, <1>5 DEF Offs, Buckets

LEMMA CursorMoves ==
    ASSUME TypeOK, SungInv, NEW cls \in Buckets, Offs(cls) # {}
    PROVE  CursorAfter(cls) = [b \in Buckets |->
                                  IF b = Chosen(cls) THEN cursor[b] + 1 ELSE cursor[b]]
<1>. DEFINE tried == {Bucket(cls, o) : o \in 0 .. Least(Offs(cls))}
<1>1. CursorAfter(cls) = [b \in Buckets |-> IF b \notin tried THEN cursor[b]
           ELSE IF b = Chosen(cls) THEN Passed(b) + 1 ELSE Passed(b)]
  BY DEF CursorAfter, Buckets
<1>2. Chosen(cls) \in tried
  BY SomeOff DEF Buckets
<1>. HIDE DEF tried
<1>3. ASSUME NEW b \in Buckets
      PROVE  (IF b \notin tried THEN cursor[b] ELSE IF b = Chosen(cls) THEN Passed(b) + 1 ELSE Passed(b))
             = IF b = Chosen(cls) THEN cursor[b] + 1 ELSE cursor[b]
  BY <1>2, PassedIsCursor
<1>. QED
  BY <1>1, <1>3

\* One place has one voice, and that of another is another.
LEMMA OnePlace ==
    ASSUME NEW b \in Buckets, NEW c \in Buckets, NEW k \in Places, NEW m \in Places
    PROVE  /\ bucketOrder[b][k] \in Voices
           /\ bucketOrder[b][k] = bucketOrder[c][m] => b = c /\ k = m
BY BucketsAssumption DEF Buckets, Places

\* What a turn does when voice v of bucket b sings, off places from that of cls.
Turned(cls, off, b, v) ==
    /\ b = Bucket(cls, off) /\ cursor[b] \in Places /\ v = bucketOrder[b][cursor[b]]
    /\ \A o \in 0 .. off - 1 : Bucket(cls, o) \in Buckets /\ cursor[Bucket(cls, o)] = Width
    /\ v \notin used
    /\ used' = used \cup {v} /\ voiceOrder' = Append(voiceOrder, v)
    /\ passMask' = IF v \in token THEN passMask \cup {v} ELSE passMask \ {v}
    /\ cursor' = [c \in Buckets |-> IF c = b THEN cursor[c] + 1 ELSE cursor[c]]
    /\ classHist' = Append(classHist, cls)
    /\ phase' = phase /\ token' = token /\ outcome' = outcome

LEMMA Turn ==
    ASSUME TypeOK, SungInv, NEW cls \in Buckets, dispatchVoice(cls)
    PROVE  \E off, b \in Buckets, v \in Voices : Turned(cls, off, b, v)
<1>1. Offs(cls) # {}
  BY BucketLeft DEF dispatchVoice
<1>2. PICK off \in Buckets :
              /\ off = Least(Offs(cls)) /\ Chosen(cls) = Bucket(cls, off)
              /\ Bucket(cls, off) \in Buckets /\ cursor[Bucket(cls, off)] \in Places
              /\ \A o \in 0 .. off - 1 : cursor[Bucket(cls, o)] = Width
  BY <1>1, SomeOff
<1>. DEFINE b == Bucket(cls, off)
            v == bucketOrder[b][cursor[b]]
<1>3. VoiceOf(cls) = v
  <2>1. Chosen(cls) \in Buckets /\ Passed(Chosen(cls)) = cursor[Chosen(cls)]
    BY <1>2, PassedIsCursor
  <2>2. VoiceOf(cls) = bucketOrder[Chosen(cls)][Passed(Chosen(cls))]
    BY <1>1 DEF VoiceOf
  <2>3. Chosen(cls) = b
    BY <1>2
  <2>. QED
    BY <2>1, <2>2, <2>3
<1>4. v \in Voices
  BY <1>2, OnePlace
<1>5. v \notin used
  <2>1. ~ (cursor[b] < cursor[b])
    BY <1>2 DEF Places
  <2>. QED
    BY <1>2, <2>1 DEF SungInv
<1>6. CursorAfter(cls) = [c \in Buckets |-> IF c = b THEN cursor[c] + 1 ELSE cursor[c]]
  BY <1>1, <1>2, CursorMoves
<1>7. \A o \in 0 .. off - 1 : Bucket(cls, o) \in Buckets
  BY BucketTypes
<1>8. b \in Buckets /\ cursor[b] \in Places
  BY <1>2
<1>. HIDE DEF v
<1>9. /\ used' = used \cup {v} /\ voiceOrder' = Append(voiceOrder, v)
      /\ passMask' = IF v \in token THEN passMask \cup {v} ELSE passMask \ {v}
      /\ cursor' = CursorAfter(cls) /\ classHist' = Append(classHist, cls)
      /\ phase' = phase /\ token' = token /\ outcome' = outcome
  BY <1>3 DEF dispatchVoice
<1>10. v = bucketOrder[b][cursor[b]]
  BY DEF v
<1>. HIDE DEF b
<1>. QED
  BY <1>2, <1>4, <1>5, <1>6, <1>7, <1>8, <1>9, <1>10, Zenon DEF Turned, b

----------------------------------------------------------------------------
(* What has sung stays sung *)

\* A voice appended to those that have sung.
LEMMA Appended ==
    ASSUME NEW S, NEW s \in Seq(S), NEW v \in S, NEW t, t = Append(s, v)
    PROVE  /\ t \in Seq(S) /\ Len(t) = Len(s) + 1 /\ Len(s) \in Nat
           /\ DOMAIN s = 1 .. Len(s) /\ DOMAIN t = 1 .. Len(s) + 1
           /\ t[Len(s) + 1] = v
           /\ \A i \in 1 .. Len(s) : t[i] = s[i]
OBVIOUS

LEMMA Bounds ==
    ASSUME TypeOK
    PROVE  /\ Width \in Nat /\ Classes \in Nat \ {0} /\ voiceCount \in Nat
           /\ cursor \in [Buckets -> 0 .. Width]
           /\ voiceOrder \in Seq(Voices) /\ classHist \in Seq(Buckets)
BY BucketsAssumption DEF TypeOK, Buckets

\* The two histories after a turn.
LEMMA TurnHistories ==
    ASSUME TypeOK, Len(classHist) = step, NEW cls \in Buckets, NEW off, NEW b, NEW v \in Voices,
           Turned(cls, off, b, v)
    PROVE  /\ step \in Nat /\ step' = step + 1 /\ Len(classHist') = step + 1
           /\ DOMAIN voiceOrder = 1 .. step /\ DOMAIN voiceOrder' = 1 .. step + 1
           /\ voiceOrder' \in Seq(Voices) /\ classHist' \in Seq(Buckets)
           /\ voiceOrder'[step + 1] = v /\ classHist'[step + 1] = cls
           /\ \A i \in 1 .. step : voiceOrder'[i] = voiceOrder[i] /\ classHist'[i] = classHist[i]
           /\ \A i \in 1 .. step + 1 : i \in 1 .. step \/ i = step + 1
           /\ \A i \in 1 .. step : i \in 1 .. step + 1
           /\ step + 1 \in 1 .. step + 1
<1>1. voiceOrder \in Seq(Voices) /\ classHist \in Seq(Buckets)
  BY Bounds
<1>2. voiceOrder' = Append(voiceOrder, v) /\ classHist' = Append(classHist, cls)
  BY DEF Turned
<1>3. /\ voiceOrder' \in Seq(Voices) /\ Len(voiceOrder') = Len(voiceOrder) + 1 /\ Len(voiceOrder) \in Nat
      /\ DOMAIN voiceOrder = 1 .. Len(voiceOrder) /\ DOMAIN voiceOrder' = 1 .. Len(voiceOrder) + 1
      /\ voiceOrder'[Len(voiceOrder) + 1] = v
      /\ \A i \in 1 .. Len(voiceOrder) : voiceOrder'[i] = voiceOrder[i]
  BY <1>1, <1>2, Appended
<1>4. /\ classHist' \in Seq(Buckets) /\ Len(classHist') = Len(classHist) + 1
      /\ classHist'[Len(classHist) + 1] = cls
      /\ \A i \in 1 .. Len(classHist) : classHist'[i] = classHist[i]
  BY <1>1, <1>2, Appended
<1>. QED
  BY <1>3, <1>4 DEF step

LEMMA TurnCursor ==
    ASSUME TypeOK, NEW cls, NEW off, NEW b \in Buckets, NEW v, Turned(cls, off, b, v)
    PROVE  /\ cursor' \in [Buckets -> 0 .. Width]
           /\ cursor'[b] = cursor[b] + 1 /\ \A c \in Buckets : c # b => cursor'[c] = cursor[c]
<1>1. cursor \in [Buckets -> 0 .. Width] /\ cursor[b] \in 0 .. Width - 1 /\ Width \in Nat
  BY Bounds DEF Turned, Places
<1>2. cursor' = [c \in Buckets |-> IF c = b THEN cursor[c] + 1 ELSE cursor[c]]
  BY DEF Turned
<1>3. ASSUME NEW c \in Buckets PROVE (IF c = b THEN cursor[c] + 1 ELSE cursor[c]) \in 0 .. Width
  BY <1>1
<1>. QED
  BY <1>2, <1>3

LEMMA TurnTypes ==
    ASSUME TypeOK, SungInv, NEW cls \in Buckets, dispatchVoice(cls)
    PROVE  TypeOK'
<1>1. PICK off, b \in Buckets, v \in Voices : Turned(cls, off, b, v)
  BY Turn
<1>2. cursor' \in [Buckets -> 0 .. Width]
  BY <1>1, TurnCursor
<1>3. voiceOrder' \in Seq(Voices) /\ classHist' \in Seq(Buckets)
  <2>1. Len(classHist) = step
    BY DEF SungInv
  <2>. QED
    BY <1>1, <2>1, TurnHistories
<1>4. used' \subseteq Voices /\ passMask' \subseteq Voices
  BY <1>1 DEF Turned, TypeOK
<1>5. phase' = phase /\ token' = token /\ outcome' = outcome
  BY <1>1 DEF Turned
<1>. QED
  BY <1>2, <1>3, <1>4, <1>5 DEF TypeOK, Buckets

LEMMA TurnSung ==
    ASSUME TypeOK, SungInv, NoneTwice, NEW cls \in Buckets, dispatchVoice(cls)
    PROVE  SungInv' /\ NoneTwice'
<1>1. PICK off, b \in Buckets, v \in Voices : Turned(cls, off, b, v)
  BY Turn
<1>. Len(classHist) = step
  BY DEF SungInv
<1>2. v \notin used /\ used' = used \cup {v} /\ v = bucketOrder[b][cursor[b]] /\ cursor[b] \in Places
  BY <1>1 DEF Turned
<1>3. /\ step \in Nat /\ step' = step + 1 /\ Len(classHist') = step + 1
      /\ DOMAIN voiceOrder = 1 .. step /\ DOMAIN voiceOrder' = 1 .. step + 1
      /\ voiceOrder'[step + 1] = v
      /\ \A i \in 1 .. step : voiceOrder'[i] = voiceOrder[i]
      /\ \A i \in 1 .. step + 1 : i \in 1 .. step \/ i = step + 1
      /\ \A i \in 1 .. step : i \in 1 .. step + 1
      /\ step + 1 \in 1 .. step + 1
  BY <1>1, TurnHistories
<1>4. used' = {voiceOrder'[i] : i \in DOMAIN voiceOrder'}
  <2>1. used = {voiceOrder[i] : i \in 1 .. step}
    BY <1>3 DEF SungInv
  <2>. QED
    BY <1>2, <1>3, <2>1
<1>5. IsFiniteSet(used') /\ Cardinality(used') = step + 1
  <2>1. IsFiniteSet(used) /\ Cardinality(used) = step
    BY DEF SungInv
  <2>. QED
    BY <1>2, <2>1, FS_AddElement
<1>6. ASSUME NEW c \in Buckets, NEW k \in Places
      PROVE  bucketOrder[c][k] \in used' <=> k < cursor'[c]
  <2>1. k \in Int /\ cursor[b] \in Int
    BY <1>2, Bounds DEF Places
  <2>2. bucketOrder[c][k] = v <=> c = b /\ k = cursor[b]
    BY <1>2, OnePlace
  <2>3. bucketOrder[c][k] \in used <=> k < cursor[c]
    BY DEF SungInv
  <2>4. cursor'[b] = cursor[b] + 1 /\ (c # b => cursor'[c] = cursor[c])
    BY <1>1, TurnCursor
  <2>5. CASE c = b
    BY <1>2, <2>1, <2>2, <2>3, <2>4, <2>5
  <2>6. CASE c # b
    BY <1>2, <2>2, <2>3, <2>4, <2>6
  <2>. QED
    BY <2>5, <2>6
<1>7. passMask' = used' \cap token'
  BY <1>1 DEF SungInv, Turned
<1>8. NoneTwice'
  <2>1. \A n \in 1 .. step : voiceOrder[n] # v
    BY <1>2, <1>3 DEF SungInv
  <2>2. \A i, j \in 1 .. step : voiceOrder[i] = voiceOrder[j] => i = j
    BY <1>3 DEF NoneTwice
  <2>3. ASSUME NEW i \in 1 .. step + 1, NEW j \in 1 .. step + 1, voiceOrder'[i] = voiceOrder'[j]
        PROVE  i = j
    BY <1>3, <2>1, <2>2, <2>3
  <2>. QED
    BY <1>3, <2>3 DEF NoneTwice
<1>. QED
  BY <1>3, <1>4, <1>5, <1>6, <1>7, <1>8 DEF SungInv

LEMMA TurnOrder ==
    ASSUME TypeOK, SungInv, BucketsInOrder, NEW cls \in Buckets, dispatchVoice(cls)
    PROVE  BucketsInOrder'
<1>1. PICK off, b \in Buckets, v \in Voices : Turned(cls, off, b, v)
  BY Turn
<1>. Len(classHist) = step
  BY DEF SungInv
<1>2. v = bucketOrder[b][cursor[b]] /\ cursor[b] \in Places
  BY <1>1 DEF Turned
<1>3. /\ step \in Nat
      /\ DOMAIN voiceOrder = 1 .. step /\ DOMAIN voiceOrder' = 1 .. step + 1
      /\ voiceOrder'[step + 1] = v
      /\ \A i \in 1 .. step : voiceOrder'[i] = voiceOrder[i]
      /\ \A i \in 1 .. step + 1 : i \in 1 .. step \/ i = step + 1
  BY <1>1, TurnHistories
<1>. HIDE DEF step
<1>4. ASSUME NEW i \in 1 .. step + 1, NEW c \in Buckets, NEW k \in Places,
             voiceOrder'[i] = bucketOrder[c][k], NEW m \in 0 .. k - 1
      PROVE  \E j \in 1 .. i - 1 : voiceOrder'[j] = bucketOrder[c][m]
  <2>1. CASE i \in 1 .. step
    <3>1. voiceOrder[i] = bucketOrder[c][k]
      BY <1>3, <1>4, <2>1
    <3>2. PICK j \in 1 .. i - 1 : voiceOrder[j] = bucketOrder[c][m]
      <4>1. i \in DOMAIN voiceOrder
        BY <1>3, <2>1
      <4>. QED
        BY <3>1, <4>1, Zenon DEF BucketsInOrder, Buckets, Places
    <3>3. j \in 1 .. step
      BY <1>3, <2>1
    <3>. QED
      BY <1>3, <3>2, <3>3
  <2>2. CASE i = step + 1
    <3>1. c = b /\ k = cursor[b]
      BY <1>2, <1>3, <1>4, <2>2, OnePlace
    <3>2. m \in Places /\ m < cursor[c]
      BY <3>1, Bounds DEF Places
    <3>3. bucketOrder[c][m] \in used
      BY <3>2 DEF SungInv
    <3>4. \E j \in 1 .. step : voiceOrder[j] = bucketOrder[c][m]
      BY <1>3, <3>3 DEF SungInv
    <3>5. i - 1 = step
      BY <1>3, <2>2
    <3>. QED
      BY <1>3, <3>4, <3>5
  <2>. QED
    BY <1>3, <2>1, <2>2
<1>5. \A i \in DOMAIN voiceOrder', c \in Buckets, k \in Places :
        voiceOrder'[i] = bucketOrder[c][k] =>
            \A m \in 0 .. k - 1 : \E j \in 1 .. i - 1 : voiceOrder'[j] = bucketOrder[c][m]
  BY <1>3, <1>4
<1>. QED
  BY <1>5, Zenon DEF BucketsInOrder, Buckets, Places

\* The i-th voice is of the bucket o places from that of its class, and all
\* buckets between have sung out before it.
Near(i, o, cs, vs) ==
    /\ \E k \in Places : vs[i] = bucketOrder[Bucket(cs[i], o)][k]
    /\ \A p \in 0 .. o - 1 : \A k \in Places :
          \E j \in 1 .. i - 1 : vs[j] = bucketOrder[Bucket(cs[i], p)][k]

LEMMA TurnNear ==
    ASSUME TypeOK, SungInv, NearestBucket, NEW cls \in Buckets, dispatchVoice(cls)
    PROVE  NearestBucket'
<1>1. PICK off, b \in Buckets, v \in Voices : Turned(cls, off, b, v)
  BY Turn
<1>. Len(classHist) = step
  BY DEF SungInv
<1>2. /\ b = Bucket(cls, off) /\ v = bucketOrder[b][cursor[b]] /\ cursor[b] \in Places
      /\ \A o \in 0 .. off - 1 : Bucket(cls, o) \in Buckets /\ cursor[Bucket(cls, o)] = Width
  BY <1>1 DEF Turned
<1>3. /\ step \in Nat
      /\ DOMAIN voiceOrder = 1 .. step /\ DOMAIN voiceOrder' = 1 .. step + 1
      /\ voiceOrder'[step + 1] = v /\ classHist'[step + 1] = cls
      /\ \A i \in 1 .. step : voiceOrder'[i] = voiceOrder[i] /\ classHist'[i] = classHist[i]
      /\ \A i \in 1 .. step + 1 : i \in 1 .. step \/ i = step + 1
  BY <1>1, TurnHistories
<1>. HIDE DEF step
<1>4. ASSUME NEW i \in 1 .. step
      PROVE  \E o \in Buckets : Near(i, o, classHist', voiceOrder')
  <2>1. PICK o \in Buckets : Near(i, o, classHist, voiceOrder)
    <3>1. i \in DOMAIN voiceOrder
      BY <1>3
    <3>. QED
      BY <3>1, Zenon DEF NearestBucket, Near, Bucket, Buckets, Places
  <2>2. \A j \in 1 .. i - 1 : j \in 1 .. step
    BY <1>3
  <2>3. \A j \in 1 .. i - 1 : voiceOrder'[j] = voiceOrder[j]
    BY <1>3, <2>2
  <2>4. voiceOrder'[i] = voiceOrder[i] /\ classHist'[i] = classHist[i]
    BY <1>3
  <2>5. \E k \in Places : voiceOrder'[i] = bucketOrder[Bucket(classHist'[i], o)][k]
    BY <2>1, <2>4 DEF Near
  <2>6. \A p \in 0 .. o - 1 : \A k \in Places :
           \E j \in 1 .. i - 1 : voiceOrder'[j] = bucketOrder[Bucket(classHist'[i], p)][k]
    BY <2>1, <2>3, <2>4 DEF Near
  <2>. QED
    BY <2>5, <2>6 DEF Near
<1>5. Near(step + 1, off, classHist', voiceOrder')
  <2>1. \E k \in Places : voiceOrder'[step + 1] = bucketOrder[Bucket(cls, off)][k]
    BY <1>2, <1>3
  <2>2. ASSUME NEW p \in 0 .. off - 1, NEW k \in Places
        PROVE  \E j \in 1 .. step : voiceOrder'[j] = bucketOrder[Bucket(cls, p)][k]
    <3>1. Bucket(cls, p) \in Buckets /\ cursor[Bucket(cls, p)] = Width
      BY <1>2
    <3>2. k < Width
      BY Bounds DEF Places
    <3>3. bucketOrder[Bucket(cls, p)][k] \in used
      BY <3>1, <3>2 DEF SungInv
    <3>4. \E j \in 1 .. step : voiceOrder[j] = bucketOrder[Bucket(cls, p)][k]
      BY <1>3, <3>3 DEF SungInv
    <3>. QED
      BY <1>3, <3>4
  <2>3. step + 1 - 1 = step
    BY <1>3
  <2>. QED
    BY <1>3, <2>1, <2>2, <2>3 DEF Near
<1>6. \A i \in 1 .. step + 1 : \E o \in Buckets : Near(i, o, classHist', voiceOrder')
  BY <1>3, <1>4, <1>5
<1>7. \A i \in DOMAIN voiceOrder' : \E o \in Buckets : Near(i, o, classHist', voiceOrder')
  BY <1>3, <1>6
<1>. QED
  BY <1>7, Zenon DEF NearestBucket, Near, Bucket, Buckets, Places


----------------------------------------------------------------------------
(* The invariant *)

LEMMA AtTheStart == Init => ChoirInv
<1>. SUFFICES ASSUME Init PROVE ChoirInv
  OBVIOUS
<1>. voiceOrder = <<>> /\ classHist = <<>> /\ used = {} /\ passMask = {} /\ step = 0
  BY DEF Init, step
<1>1. TypeOK
  <2>1. 0 \in 0 .. Width
    BY BucketsAssumption
  <2>2. cursor \in [0 .. Classes - 1 -> 0 .. Width]
    BY <2>1 DEF Init
  <2>3. <<>> \in Seq(Voices) /\ <<>> \in Seq(0 .. Classes - 1)
    OBVIOUS
  <2>. QED
    BY <2>2, <2>3 DEF Init, TypeOK
<1>2. SungInv
  <2>1. IsFiniteSet({}) /\ Cardinality({}) = 0
    BY FS_EmptySet
  <2>2. \A b \in Buckets : cursor[b] = 0
    BY DEF Init, Buckets
  <2>3. \A b \in Buckets, k \in Places : bucketOrder[b][k] \in used <=> k < cursor[b]
    BY <2>2, BucketsAssumption DEF Places
  <2>. QED
    BY <2>1, <2>3 DEF SungInv
<1>3. OutcomeInv /\ RealNeedsEveryVoice
  BY DEF Init, OutcomeInv, RealNeedsEveryVoice
<1>4. NoneTwice /\ BucketsInOrder /\ NearestBucket
  BY DEF NoneTwice, BucketsInOrder, NearestBucket
<1>. QED
  BY <1>1, <1>2, <1>3, <1>4 DEF ChoirInv

\* When the last step is done all voices have sung.
LEMMA AllSung ==
    ASSUME TypeOK, SungInv, step = voiceCount
    PROVE  used = Voices
BY VoicesFinite, FS_Subset DEF TypeOK, SungInv

\* A gate that counts every voice is passed by a token over which all passed.
LEMMA AllPassed ==
    ASSUME TypeOK, SungInv, step = voiceCount, passCount = voiceCount
    PROVE  token = Voices
<1>1. used = Voices
  BY AllSung
<1>2. passMask \in SUBSET Voices /\ passMask \subseteq token
  BY DEF TypeOK, SungInv
<1>3. Voices = passMask
  BY <1>2, VoicesFinite, FS_Subset DEF passCount
<1>4. token \subseteq Voices
  BY BucketsAssumption DEF TypeOK
<1>. QED
  BY <1>2, <1>3, <1>4

\* What the sequences and sets say does not depend on phase and outcome.
LEMMA StillSung ==
    ASSUME UNCHANGED <<token, cursor, used, voiceOrder, classHist, passMask>>,
           SungInv, NoneTwice, BucketsInOrder, NearestBucket
    PROVE  SungInv' /\ NoneTwice' /\ BucketsInOrder' /\ NearestBucket' /\ step' = step
<1>1. step' = step
  BY DEF step
<1>2. SungInv'
  BY <1>1 DEF SungInv
<1>3. NoneTwice'
  BY DEF NoneTwice
<1>4. BucketsInOrder'
  BY DEF BucketsInOrder
<1>5. NearestBucket'
  BY DEF NearestBucket
<1>. QED
  BY <1>1, <1>2, <1>3, <1>4, <1>5

LEMMA EveryStep == ChoirInv /\ [Next]_vars => ChoirInv'
<1>. SUFFICES ASSUME ChoirInv, [Next]_vars PROVE ChoirInv'
  OBVIOUS
<1>. USE DEF ChoirInv
<1>1. CASE refuse
  <2>1. TypeOK'
    BY <1>1 DEF refuse, TypeOK
  <2>2. OutcomeInv' /\ RealNeedsEveryVoice'
    BY <1>1 DEF refuse, OutcomeInv, RealNeedsEveryVoice
  <2>. QED
    BY <1>1, <2>1, <2>2, StillSung DEF refuse
<1>2. CASE initState
  <2>1. TypeOK'
    BY <1>2 DEF initState, TypeOK
  <2>2. OutcomeInv' /\ RealNeedsEveryVoice'
    BY <1>2 DEF initState, OutcomeInv, RealNeedsEveryVoice
  <2>. QED
    BY <1>2, <2>1, <2>2, StillSung DEF initState
<1>3. ASSUME NEW cls \in Buckets, dispatchVoice(cls) PROVE ChoirInv'
  <2>1. phase = "choir" /\ phase' = phase /\ token' = token /\ outcome' = outcome
    BY <1>3 DEF dispatchVoice
  <2>2. OutcomeInv' /\ RealNeedsEveryVoice'
    BY <2>1 DEF OutcomeInv, RealNeedsEveryVoice
  <2>. QED
    BY <1>3, <2>2, TurnTypes, TurnSung, TurnOrder, TurnNear
<1>4. CASE chooseOutcome
  <2>1. phase = "choir" /\ step = voiceCount /\ phase' = "judged"
        /\ UNCHANGED <<token, cursor, used, voiceOrder, classHist, passMask>>
    BY <1>4 DEF chooseOutcome
  <2>2. PICK edge \in {"real", "early", "other"},
             realOk, lateOk, sigDecoy, chordOk \in BOOLEAN :
                outcome' = Outcome(edge, realOk, lateOk, sigDecoy, chordOk)
    BY <1>4 DEF chooseOutcome
  <2>3. /\ outcome' \in {"real", "fakeA", "fakeB", "fakeC", "deny"}
        /\ outcome' \in {"real", "fakeB"} => passCount = voiceCount
    BY <2>2 DEF Outcome
  <2>4. SungInv' /\ NoneTwice' /\ BucketsInOrder' /\ NearestBucket' /\ step' = step
    BY <2>1, StillSung
  <2>5. TypeOK'
    BY <2>1, <2>3 DEF TypeOK
  <2>6. OutcomeInv'
    BY <2>1, <2>4 DEF OutcomeInv
  <2>7. RealNeedsEveryVoice'
    BY <2>1, <2>3, AllPassed DEF RealNeedsEveryVoice
  <2>. QED
    BY <2>4, <2>5, <2>6, <2>7
<1>5. CASE UNCHANGED vars
  <2>1. TypeOK' /\ OutcomeInv' /\ RealNeedsEveryVoice'
    BY <1>5 DEF vars, TypeOK, OutcomeInv, RealNeedsEveryVoice, step
  <2>. QED
    BY <1>5, <2>1, StillSung DEF vars
<1>. QED
  BY <1>1, <1>2, <1>3, <1>4, <1>5 DEF Next, Buckets

\* The invariant holds of every run of the program.
THEOREM ChoirInvariant == Spec => []ChoirInv
<1>1. Init => ChoirInv
  BY AtTheStart
<1>2. ChoirInv /\ [Next]_vars => ChoirInv'
  BY EveryStep
<1>. QED
  BY <1>1, <1>2, PTL DEF Spec

\* The state keeps its types: no cursor leaves its bucket.
THEOREM TypesKept == Spec => []TypeOK
<1>1. ChoirInv => TypeOK
  BY DEF ChoirInv
<1>. QED
  BY <1>1, ChoirInvariant, PTL

\* However the classes are drawn, no voice sings twice and all have sung
\* before the gates read their traces.
THEOREM EachVoiceSingsOnce == Spec => []EveryVoiceOnce
<1>1. ChoirInv => EveryVoiceOnce
  <2>. SUFFICES ASSUME ChoirInv PROVE EveryVoiceOnce
    OBVIOUS
  <2>1. NoneTwice
    BY DEF ChoirInv
  <2>2. phase = "judged" => {voiceOrder[i] : i \in DOMAIN voiceOrder} = Voices
    BY AllSung DEF ChoirInv, OutcomeInv, SungInv
  <2>. QED
    BY <2>1, <2>2 DEF NoneTwice, EveryVoiceOnce
<1>. QED
  BY <1>1, ChoirInvariant, PTL

\* The linear search for an unused voice, and the index 24 that it would end
\* with were all used, are never reached.
THEOREM NoSearch == Spec => []SearchNeverNeeded
<1>1. ChoirInv => SearchNeverNeeded
  BY BucketLeft DEF ChoirInv, SearchNeverNeeded, Buckets
<1>. QED
  BY <1>1, ChoirInvariant, PTL

\* A bucket is sung in the order of its table, whatever comes between, and the
\* voice of a step is of the first bucket from its class on that was not sung
\* out.
THEOREM TurnsKept == Spec => []VoicesInTurn
<1>1. ChoirInv => VoicesInTurn
  BY DEF ChoirInv, VoicesInTurn
<1>. QED
  BY <1>1, ChoirInvariant, PTL

\* The count that the gate reads is that of the voices that passed over this
\* token: the true outcome is for tokens over which all pass.
THEOREM RealTokens == Spec => []RealNeedsEveryVoice
<1>1. ChoirInv => RealNeedsEveryVoice
  BY DEF ChoirInv
<1>. QED
  BY <1>1, ChoirInvariant, PTL
============================================================================
