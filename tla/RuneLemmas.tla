----------------------------- MODULE RuneLemmas -----------------------------
(***************************************************************************)
(* What the operators of RuneISA compute, for every input: powers, bytes   *)
(* and the numbers they spell, sequences, instructions and their encoding. *)
(*                                                                         *)
(* Induction is on sets: a set of numbers that has 0 and with each number  *)
(* the next has them all (Induction), which follows from the least element *)
(* of a set (WFMin).  A recursive function exists when its step is a       *)
(* function (Recursion).                                                   *)
(***************************************************************************)
EXTENDS RuneISA, TLAPS, WellFoundedInduction, FiniteSetTheorems

LEMMA LeastNumber ==
    ASSUME NEW S \in SUBSET Nat, S # {}
    PROVE  \E n \in S : \A m \in S : n <= m
<1>. DEFINE Less == OpToRel(<, Nat)
<1>1. \A m, n \in Nat : m < n => <<m, n>> \in Less
  BY DEF OpToRel
<1>2. IsWellFoundedOn(Less, Nat)
  BY NatLessThanWellFounded
<1>. HIDE DEF Less
<1>3. \E n \in S : \A m \in S : ~ (<<m, n>> \in Less)
  BY <1>2, WFMin
<1>4. PICK n \in S : \A m \in S : ~ (<<m, n>> \in Less)
  BY <1>3
<1>5. ASSUME NEW m \in S PROVE n <= m
  <2>1. m \in Nat /\ n \in Nat /\ ~ (<<m, n>> \in Less)
    BY <1>4
  <2>. QED
    BY <1>1, <2>1
<1>. QED
  BY <1>5

LEMMA Induction ==
    ASSUME NEW S, 0 \in S, \A n \in Nat : n \in S => n + 1 \in S
    PROVE  Nat \subseteq S
<1>. SUFFICES ASSUME NEW k \in Nat, k \notin S PROVE FALSE
  OBVIOUS
<1>. DEFINE Rest == Nat \ S
<1>1. Rest \in SUBSET Nat /\ Rest # {}
  OBVIOUS
<1>2. PICK n \in Rest : \A m \in Rest : n <= m
  <2>. HIDE DEF Rest
  <2>. QED
    BY <1>1, LeastNumber
<1>3. n - 1 \in Nat /\ n - 1 \notin Rest
  BY <1>2
<1>. QED
  BY <1>2, <1>3

\* The same for the numbers up to n.
LEMMA InductionTo ==
    ASSUME NEW n \in Nat, NEW S, 0 \in S,
           \A k \in 0 .. n - 1 : k \in S => k + 1 \in S
    PROVE  0 .. n \subseteq S
<1>. DEFINE T == {k \in Nat : k <= n => k \in S}
<1>1. 0 \in T /\ \A k \in Nat : k \in T => k + 1 \in T
  OBVIOUS
<1>2. Nat \subseteq T
  <2>. HIDE DEF T
  <2>. QED
    BY <1>1, Induction
<1>. QED
  BY <1>2

\* A function on the numbers up to n is given by its first value and its step.
FollowsTo(n, f, c, step) == f[0] = c /\ \A k \in 0 .. n - 1 : f[k + 1] = step[k][f[k]]
Follows(f, c, step) == f[0] = c /\ \A k \in Nat : f[k + 1] = step[k][f[k]]

LEMMA RecursionTo ==
    ASSUME NEW n \in Nat, NEW S, NEW c \in S, NEW step \in [Nat -> [S -> S]]
    PROVE  \E f \in [0 .. n -> S] : FollowsTo(n, f, c, step)
<1>. DEFINE Has == {m \in 0 .. n : \E f \in [0 .. m -> S] : FollowsTo(m, f, c, step)}
<1>1. 0 \in Has
  <2>. DEFINE first == [k \in 0 .. 0 |-> c]
  <2>1. first \in [0 .. 0 -> S]
    OBVIOUS
  <2>2. FollowsTo(0, first, c, step)
    BY DEF FollowsTo
  <2>. HIDE DEF first
  <2>. QED
    BY <2>1, <2>2
<1>2. ASSUME NEW m \in 0 .. n - 1, m \in Has
      PROVE  m + 1 \in Has
  <2>1. PICK f \in [0 .. m -> S] : FollowsTo(m, f, c, step)
    BY <1>2
  <2>. DEFINE g == [k \in 0 .. m + 1 |-> IF k <= m THEN f[k] ELSE step[m][f[m]]]
  <2>2. f[m] \in S /\ step[m][f[m]] \in S
    OBVIOUS
  <2>3. g \in [0 .. m + 1 -> S]
    BY <2>2
  <2>4. FollowsTo(m + 1, g, c, step)
    BY <2>1 DEF FollowsTo
  <2>. HIDE DEF g
  <2>. QED
    BY <2>3, <2>4
<1>3. 0 .. n \subseteq Has
  <2>. HIDE DEF Has
  <2>. QED
    BY <1>1, <1>2, InductionTo
<1>4. n \in Has
  <2>. HIDE DEF Has
  <2>. QED
    BY <1>3
<1>. QED
  BY <1>4

LEMMA Recursion ==
    ASSUME NEW S, NEW c \in S, NEW step \in [Nat -> [S -> S]]
    PROVE  \E f \in [Nat -> S] : Follows(f, c, step)
<1>1. ASSUME NEW m \in Nat, NEW f \in [0 .. m + 1 -> S], NEW h \in [0 .. m -> S],
             FollowsTo(m + 1, f, c, step), FollowsTo(m, h, c, step)
      PROVE  f[m] = h[m]
  <2>. DEFINE T == {k \in 0 .. m : f[k] = h[k]}
  <2>1. 0 \in T /\ \A k \in 0 .. m - 1 : k \in T => k + 1 \in T
    BY <1>1 DEF FollowsTo
  <2>2. 0 .. m \subseteq T
    <3>. HIDE DEF T
    <3>. QED
      BY <2>1, InductionTo
  <2>. QED
    BY <2>2
<1>. DEFINE at(m) == CHOOSE f \in [0 .. m -> S] : FollowsTo(m, f, c, step)
            g == [m \in Nat |-> at(m)[m]]
<1>2. \A m \in Nat : at(m) \in [0 .. m -> S] /\ FollowsTo(m, at(m), c, step)
  BY RecursionTo
<1>. HIDE DEF at
<1>3. \A m \in Nat : at(m)[m] \in S
  BY <1>2
<1>4. g \in [Nat -> S]
  BY <1>3
<1>5. at(0)[0] = c
  BY <1>2 DEF FollowsTo
<1>6. ASSUME NEW m \in Nat PROVE at(m + 1)[m + 1] = step[m][at(m)[m]]
  <2>1. m + 1 \in Nat /\ m \in 0 .. (m + 1) - 1
    OBVIOUS
  <2>2. FollowsTo(m + 1, at(m + 1), c, step) /\ at(m + 1) \in [0 .. m + 1 -> S]
    BY <1>2, <2>1
  <2>3. at(m + 1)[m + 1] = step[m][at(m + 1)[m]]
    BY <2>1, <2>2 DEF FollowsTo
  <2>4. at(m) \in [0 .. m -> S] /\ FollowsTo(m, at(m), c, step)
    BY <1>2
  <2>5. at(m + 1)[m] = at(m)[m]
    BY <1>1, <2>2, <2>4
  <2>. QED
    BY <2>3, <2>5
<1>7. Follows(g, c, step)
  BY <1>5, <1>6 DEF Follows
<1>. HIDE DEF g
<1>. QED
  BY <1>4, <1>7

----------------------------------------------------------------------------
(* Powers *)

LEMMA ExpUnfold ==
    ASSUME NEW b \in Int, NEW n \in Nat
    PROVE  /\ Exp(b, 0) = 1
           /\ Exp(b, n + 1) = b * Exp(b, n)
           /\ Exp(b, n) \in Int
<1>. DEFINE power == CHOOSE g : g = [k \in Nat |-> IF k = 0 THEN 1 ELSE b * g[k - 1]]
            step == [k \in Nat |-> [x \in Int |-> b * x]]
<1>1. step \in [Nat -> [Int -> Int]] /\ \A k \in Nat, x \in Int : step[k][x] = b * x
  OBVIOUS
<1>2. PICK f \in [Nat -> Int] : Follows(f, 1, step)
  <2>. HIDE DEF step
  <2>1. 1 \in Int
    OBVIOUS
  <2>. QED
    BY <1>1, <2>1, Recursion
<1>3. f = [k \in Nat |-> IF k = 0 THEN 1 ELSE b * f[k - 1]]
  <2>. DEFINE h == [k \in Nat |-> IF k = 0 THEN 1 ELSE b * f[k - 1]]
  <2>1. ASSUME NEW k \in Nat, k # 0 PROVE f[k] = b * f[k - 1]
    <3>1. k - 1 \in Nat /\ (k - 1) + 1 = k
      BY <2>1
    <3>2. f[(k - 1) + 1] = step[k - 1][f[k - 1]] /\ f[k - 1] \in Int
      BY <1>2, <3>1 DEF Follows
    <3>. QED
      BY <1>1, <3>1, <3>2
  <2>2. \A k \in Nat : f[k] = h[k]
    BY <1>2, <2>1 DEF Follows
  <2>. QED
    BY <2>2
<1>4. power = [k \in Nat |-> IF k = 0 THEN 1 ELSE b * power[k - 1]]
  BY <1>3
<1>5. \A m \in Nat : Exp(b, m) = power[m]
  BY DEF Exp
<1>. HIDE DEF power
<1>6. power[0] = 1 /\ \A m \in Nat : power[m + 1] = b * power[m]
  BY <1>4
<1>. DEFINE T == {m \in Nat : power[m] \in Int}
<1>7. 0 \in T /\ \A m \in Nat : m \in T => m + 1 \in T
  BY <1>6
<1>8. Nat \subseteq T
  <2>. HIDE DEF T
  <2>. QED
    BY <1>7, Induction
<1>. QED
  BY <1>5, <1>6, <1>8

LEMMA ExpPositive ==
    ASSUME NEW b \in Nat \ {0}, NEW n \in Nat
    PROVE  Exp(b, n) \in Nat \ {0}
<1>. DEFINE T == {m \in Nat : Exp(b, m) >= 1}
<1>1. 0 \in T
  BY ExpUnfold
<1>2. ASSUME NEW m \in Nat, m \in T PROVE m + 1 \in T
  <2>1. Exp(b, m + 1) = b * Exp(b, m) /\ Exp(b, m) \in Int /\ Exp(b, m) >= 1
    BY <1>2, ExpUnfold
  <2>. QED
    BY <2>1
<1>3. Nat \subseteq T
  <2>. HIDE DEF T
  <2>. QED
    BY <1>1, <1>2, Induction
<1>. QED
  BY <1>3, ExpUnfold

LEMMA ExpAdd ==
    ASSUME NEW b \in Nat \ {0}, NEW m \in Nat, NEW n \in Nat
    PROVE  Exp(b, m + n) = Exp(b, m) * Exp(b, n)
<1>. DEFINE T == {k \in Nat : Exp(b, m + k) = Exp(b, m) * Exp(b, k)}
<1>1. 0 \in T
  BY ExpUnfold
<1>2. ASSUME NEW k \in Nat, k \in T PROVE k + 1 \in T
  <2>1. Exp(b, m + k) = Exp(b, m) * Exp(b, k)
    BY <1>2
  <2>2. Exp(b, (m + k) + 1) = b * Exp(b, m + k) /\ Exp(b, k + 1) = b * Exp(b, k)
    BY ExpUnfold
  <2>3. Exp(b, m) \in Int /\ Exp(b, k) \in Int
    BY ExpUnfold
  <2>4. b * (Exp(b, m) * Exp(b, k)) = Exp(b, m) * (b * Exp(b, k))
    BY <2>3
  <2>5. (m + k) + 1 = m + (k + 1)
    OBVIOUS
  <2>. QED
    BY <2>1, <2>2, <2>4, <2>5
<1>3. Nat \subseteq T
  <2>. HIDE DEF T
  <2>. QED
    BY <1>1, <1>2, Induction
<1>. QED
  BY <1>3

LEMMA ExpMonotone ==
    ASSUME NEW b \in Nat \ {0}, NEW n \in Nat, NEW m \in 0 .. n
    PROVE  Exp(b, m) <= Exp(b, n)
<1>1. Exp(b, n) = Exp(b, m) * Exp(b, n - m)
  <2>1. n - m \in Nat /\ m \in Nat /\ m + (n - m) = n
    OBVIOUS
  <2>. QED
    BY <2>1, ExpAdd
<1>2. Exp(b, m) \in Nat \ {0} /\ Exp(b, n - m) \in Nat \ {0}
  BY ExpPositive
<1>. QED
  BY <1>1, <1>2

\* Powers of 256 count the values of so many bytes.
LEMMA Exp256 ==
    /\ Exp(256, 0) = 1
    /\ \A n \in Nat : /\ Exp(256, n + 1) = 256 * Exp(256, n)
                      /\ Exp(256, n) \in Nat \ {0}
<1>1. 256 \in Int /\ 256 \in Nat \ {0} /\ 0 \in Nat
  OBVIOUS
<1>. QED
  BY <1>1, ExpUnfold, ExpPositive

LEMMA Exp256Positive == \A n \in Nat : Exp(256, n) \in Nat \ {0}
BY Exp256
LEMMA Exp256Zero == Exp(256, 0) = 1
BY Exp256

----------------------------------------------------------------------------
(* Quotients and remainders *)

LEMMA DivMod ==
    ASSUME NEW n \in Nat \ {0}, NEW a \in Int
    PROVE  /\ a \div n \in Int
           /\ a % n \in 0 .. n - 1
           /\ a = (a \div n) * n + (a % n)
OBVIOUS

LEMMA DivModUnique ==
    ASSUME NEW n \in Nat \ {0}, NEW q \in Int, NEW r \in 0 .. n - 1
    PROVE  (q * n + r) % n = r /\ (q * n + r) \div n = q
OBVIOUS

LEMMA ModSmall ==
    ASSUME NEW n \in Nat \ {0}, NEW r \in 0 .. n - 1
    PROVE  r % n = r
OBVIOUS

LEMMA ModMod ==
    ASSUME NEW n \in Nat \ {0}, NEW a \in Int, NEW k \in Int
    PROVE  (a + k * n) % n = a % n
<1>1. a = (a \div n) * n + (a % n) /\ a % n \in 0 .. n - 1 /\ a \div n \in Int
  BY DivMod
<1>2. a + k * n = ((a \div n) + k) * n + (a % n)
  BY <1>1
<1>3. (a \div n) + k \in Int
  BY <1>1
<1>. QED
  BY <1>1, <1>2, <1>3, DivModUnique

LEMMA DivDiv ==
    ASSUME NEW m \in Nat \ {0}, NEW n \in Nat \ {0}, NEW a \in Int
    PROVE  /\ (a \div m) \div n = a \div (m * n)
           /\ (a % m) + m * ((a \div m) % n) = a % (m * n)
<1>. DEFINE q == a \div m
            r == a % m
            s == q \div n
            t == q % n
<1>1. a = q * m + r /\ q \in Int /\ r \in 0 .. m - 1
  BY DivMod
<1>2. q = s * n + t /\ s \in Int /\ t \in 0 .. n - 1
  BY <1>1, DivMod
<1>. HIDE DEF q, r, s, t
<1>3. m * n \in Nat \ {0}
  OBVIOUS
<1>4. a = s * (m * n) + (r + m * t)
  <2>1. a = (s * n + t) * m + r
    BY <1>1, <1>2
  <2>. QED
    BY <1>1, <1>2, <2>1
<1>5. r + m * t \in 0 .. (m * n) - 1
  <2>1. t + 1 <= n /\ m * (t + 1) <= m * n /\ m * (t + 1) = m * t + m /\ m * t >= 0
    BY <1>2
  <2>2. m * t \in Int
    BY <1>2
  <2>. QED
    BY <1>1, <2>1, <2>2
<1>6. a % (m * n) = r + m * t /\ a \div (m * n) = s
  BY <1>2, <1>3, <1>4, <1>5, DivModUnique
<1>. QED
  BY <1>6 DEF q, r, s, t

----------------------------------------------------------------------------
(* Bytes *)

Byte == 0 .. 255

LEMMA BytesType ==
    ASSUME NEW v \in Int, NEW n \in Nat
    PROVE  /\ Bytes(v, n) \in Seq(Byte)
           /\ Len(Bytes(v, n)) = n
           /\ \A i \in 1 .. n : /\ Bytes(v, n)[i] = (v \div Exp(256, i - 1)) % 256
                               /\ Bytes(v, n)[i] \in Byte
<1>1. \A i \in 1 .. n : (v \div Exp(256, i - 1)) % 256 \in Byte
  <2>. TAKE i \in 1 .. n
  <2>1. i - 1 \in Nat
    OBVIOUS
  <2>. DEFINE e == Exp(256, i - 1)
  <2>2. e \in Nat \ {0}
    BY <2>1, Exp256Positive
  <2>. HIDE DEF e
  <2>3. v \div e \in Int
    BY <2>2, DivMod
  <2>. USE DEF e
  <2>. QED
    BY <2>3 DEF Byte
<1>. QED
  BY <1>1 DEF Bytes

LEMMA LEUnfold ==
    ASSUME NEW bs \in Seq(Int)
    PROVE  \E from \in [1 .. Len(bs) + 1 -> Int] :
              /\ from[Len(bs) + 1] = 0
              /\ \A k \in 1 .. Len(bs) : from[k] = bs[k] + 256 * from[k + 1]
              /\ LE(bs) = from[1]
<1>. DEFINE n == Len(bs)
            R(g) == [k \in 1 .. n + 1 |-> IF k > n THEN 0 ELSE bs[k] + 256 * g[k + 1]]
            from == CHOOSE g : g = R(g)
            step == [j \in Nat |-> [x \in Int |-> IF j < n THEN bs[n - j] + 256 * x ELSE 0]]
<1>1. n \in Nat /\ \A k \in 1 .. n : bs[k] \in Int
  OBVIOUS
<1>2. LE(bs) = from[1]
  BY DEF LE
<1>. HIDE DEF n
<1>3. step \in [Nat -> [Int -> Int]]
  BY <1>1
<1>4. \A j \in Nat, x \in Int : j < n => step[j][x] = bs[n - j] + 256 * x
  BY <1>1
<1>5. PICK f \in [Nat -> Int] : Follows(f, 0, step)
  <2>. HIDE DEF step
  <2>1. 0 \in Int
    OBVIOUS
  <2>. QED
    BY <1>3, <2>1, Recursion
<1>. HIDE DEF step
<1>. DEFINE g == [k \in 1 .. n + 1 |-> f[n + 1 - k]]
<1>6. g \in [1 .. n + 1 -> Int]
  BY <1>1
<1>7. g[n + 1] = 0
  BY <1>1, <1>5 DEF Follows
<1>8. ASSUME NEW k \in 1 .. n PROVE g[k] = bs[k] + 256 * g[k + 1]
  <2>. DEFINE j == n - k
  <2>1. j \in Nat /\ j < n /\ n - j = k /\ n + 1 - k = j + 1 /\ n + 1 - (k + 1) = j
        /\ k \in 1 .. n + 1 /\ k + 1 \in 1 .. n + 1
    BY <1>1
  <2>. HIDE DEF j
  <2>2. f[j + 1] = step[j][f[j]] /\ f[j] \in Int
    BY <1>5, <2>1 DEF Follows
  <2>3. step[j][f[j]] = bs[n - j] + 256 * f[j]
    BY <1>4, <2>1, <2>2, ZenonT(60)
  <2>4. g[k] = f[j + 1] /\ g[k + 1] = f[j]
    BY <2>1
  <2>. HIDE DEF g
  <2>. QED
    BY <2>1, <2>2, <2>3, <2>4
<1>9. g = R(g)
  <2>1. \A k \in 1 .. n + 1 : g[k] = R(g)[k]
    <3>. HIDE DEF g
    <3>. QED
      BY <1>1, <1>6, <1>7, <1>8
  <2>. QED
    BY <2>1
<1>. HIDE DEF g
<1>10. from = R(from)
  <2>. HIDE DEF R
  <2>. QED
    BY <1>9
<1>. HIDE DEF from
<1>11. from[n + 1] = 0 /\ \A k \in 1 .. n : from[k] = bs[k] + 256 * from[k + 1]
  BY <1>1, <1>10
<1>. DEFINE T == {j \in 0 .. n : from[n + 1 - j] = g[n + 1 - j]}
<1>12. 0 \in T
  BY <1>1, <1>7, <1>11
<1>13. ASSUME NEW j \in 0 .. n - 1, j \in T PROVE j + 1 \in T
  <2>1. n - j \in 1 .. n /\ (n - j) + 1 = n + 1 - j /\ n + 1 - (j + 1) = n - j
    BY <1>1
  <2>2. from[n - j] = bs[n - j] + 256 * from[(n - j) + 1]
    BY <1>11, <2>1
  <2>3. g[n - j] = bs[n - j] + 256 * g[(n - j) + 1]
    BY <1>8, <2>1
  <2>. QED
    BY <1>1, <1>13, <2>1, <2>2, <2>3
<1>14. 0 .. n \subseteq T
  <2>. HIDE DEF T
  <2>. QED
    BY <1>1, <1>12, <1>13, InductionTo
<1>15. from[1] = g[1]
  <2>1. n \in T
    <3>. HIDE DEF T
    <3>. QED
      BY <1>1, <1>14
  <2>. QED
    BY <1>1, <2>1
<1>. QED
  BY <1>2, <1>6, <1>7, <1>8, <1>15 DEF n

LEMMA LEInt ==
    ASSUME NEW bs \in Seq(Int)
    PROVE  LE(bs) \in Int
<1>1. PICK from \in [1 .. Len(bs) + 1 -> Int] : LE(bs) = from[1]
  BY LEUnfold
<1>2. 1 \in 1 .. Len(bs) + 1
  OBVIOUS
<1>. QED
  BY <1>1, <1>2

LEMMA BytesAreInts ==
    ASSUME NEW bs \in Seq(Byte)
    PROVE  bs \in Seq(Int)
<1>1. \A k \in 1 .. Len(bs) : bs[k] \in Int
  <2>1. \A x \in Byte : x \in Int
    BY DEF Byte
  <2>. QED
    BY <2>1
<1>2. Len(bs) \in Nat /\ bs = [k \in 1 .. Len(bs) |-> bs[k]]
  OBVIOUS
<1>. QED
  BY <1>1, <1>2

\* Bytes spell a number of so many bytes.
LEMMA LEBound ==
    ASSUME NEW bs \in Seq(Byte)
    PROVE  LE(bs) \in 0 .. Exp(256, Len(bs)) - 1
<1>. DEFINE n == Len(bs)
<1>1. n \in Nat /\ bs \in Seq(Int) /\ \A k \in 1 .. n : bs[k] \in 0 .. 255
  <2>1. \A k \in 1 .. n : bs[k] \in Byte
    OBVIOUS
  <2>. QED
    BY <2>1, BytesAreInts DEF Byte
<1>2. PICK from \in [1 .. n + 1 -> Int] :
         /\ from[n + 1] = 0
         /\ \A k \in 1 .. n : from[k] = bs[k] + 256 * from[k + 1]
         /\ LE(bs) = from[1]
  BY <1>1, LEUnfold
<1>. HIDE DEF n
<1>. DEFINE T == {j \in 0 .. n : from[n + 1 - j] \in 0 .. Exp(256, j) - 1}
<1>3. 0 \in T
  <2>1. n + 1 - 0 = n + 1 /\ 0 \in 0 .. n
    BY <1>1
  <2>2. from[n + 1 - 0] = 0 /\ Exp(256, 0) = 1
    BY <1>2, <2>1, Exp256
  <2>. QED
    BY <2>1, <2>2
<1>4. ASSUME NEW j \in 0 .. n - 1, j \in T PROVE j + 1 \in T
  <2>1. n - j \in 1 .. n /\ (n - j) + 1 = n + 1 - j /\ n + 1 - (j + 1) = n - j
    BY <1>1
  <2>2. from[n - j] = bs[n - j] + 256 * from[n + 1 - j]
    BY <1>2, <2>1
  <2>3. from[n + 1 - j] \in 0 .. Exp(256, j) - 1 /\ bs[n - j] \in 0 .. 255
    BY <1>1, <1>4, <2>1
  <2>4. Exp(256, j + 1) = 256 * Exp(256, j) /\ Exp(256, j) \in Int
    <3>1. j \in Nat
      BY <1>1
    <3>. QED
      BY <3>1, Exp256
  <2>5. from[n - j] \in 0 .. Exp(256, j + 1) - 1
    <3>1. Exp(256, j) \in Int /\ from[n + 1 - j] \in 0 .. Exp(256, j) - 1
          /\ bs[n - j] \in 0 .. 255
      BY <2>3, <2>4
    <3>. DEFINE x == Exp(256, j)
                y == from[n + 1 - j]
                b == bs[n - j]
    <3>2. x \in Int /\ y \in 0 .. x - 1 /\ b \in 0 .. 255
      BY <3>1
    <3>. HIDE DEF x, y, b
    <3>3. b + 256 * y \in 0 .. (256 * x) - 1
      BY <3>2
    <3>. USE DEF x, y, b
    <3>. QED
      BY <2>2, <2>4, <3>3
  <2>. QED
    BY <1>1, <2>1, <2>5
<1>5. 0 .. n \subseteq T
  <2>. HIDE DEF T
  <2>. QED
    BY <1>1, <1>3, <1>4, InductionTo
<1>6. n \in T
  BY <1>1, <1>5
<1>. QED
  BY <1>1, <1>2, <1>6 DEF n

\* The bytes of a number spell it, but for the part that does not fit.
LEMMA LEOfBytes ==
    ASSUME NEW v \in Int, NEW n \in Nat
    PROVE  LE(Bytes(v, n)) = v % Exp(256, n)
<1>. DEFINE bs == Bytes(v, n)
<1>1. Len(bs) = n /\ bs \in Seq(Int)
      /\ \A k \in 1 .. n : bs[k] = (v \div Exp(256, k - 1)) % 256
  BY BytesType, BytesAreInts
<1>. HIDE DEF bs
<1>2. PICK from \in [1 .. n + 1 -> Int] :
         /\ from[n + 1] = 0
         /\ \A k \in 1 .. n : from[k] = bs[k] + 256 * from[k + 1]
         /\ LE(bs) = from[1]
  <2>0. bs \in Seq(Int)
    BY <1>1
  <2>1. PICK from \in [1 .. Len(bs) + 1 -> Int] :
           /\ from[Len(bs) + 1] = 0
           /\ \A k \in 1 .. Len(bs) : from[k] = bs[k] + 256 * from[k + 1]
           /\ LE(bs) = from[1]
    BY <2>0, LEUnfold
  <2>. QED
    BY <1>1, <2>1
<1>. DEFINE T == {j \in 0 .. n : from[n + 1 - j] = (v \div Exp(256, n - j)) % Exp(256, j)}
<1>3. 0 \in T
  <2>1. Exp(256, 0) = 1 /\ Exp(256, n) \in Nat \ {0}
    BY Exp256Positive, Exp256Zero
  <2>2. v \div Exp(256, n) \in Int
    BY <2>1
  <2>3. (v \div Exp(256, n)) % 1 = 0
    BY <2>2
  <2>4. from[n + 1 - 0] = 0 /\ n - 0 = n /\ 0 \in 0 .. n
    BY <1>2
  <2>. QED
    BY <2>1, <2>3, <2>4
<1>4. ASSUME NEW j \in 0 .. n - 1, j \in T PROVE j + 1 \in T
  <2>. DEFINE e == Exp(256, n - j - 1)
              w == v \div e
  <2>1. n - j \in 1 .. n /\ (n - j) + 1 = n + 1 - j /\ n + 1 - (j + 1) = n - j
        /\ n - j - 1 \in Nat /\ (n - j - 1) + 1 = n - j /\ n - (j + 1) = n - j - 1
        /\ j \in Nat /\ j + 1 \in 0 .. n
    OBVIOUS
  <2>2. from[n - j] = bs[n - j] + 256 * from[n + 1 - j]
    BY <1>2, <2>1
  <2>3. e \in Nat \ {0} /\ Exp(256, n - j) = 256 * e /\ Exp(256, j) \in Nat \ {0}
        /\ Exp(256, j + 1) = 256 * Exp(256, j)
    <3>1. Exp(256, (n - j - 1) + 1) = 256 * e /\ e \in Nat \ {0}
      BY <2>1, Exp256
    <3>2. Exp(256, n - j) = 256 * e
      BY <2>1, <3>1
    <3>3. Exp(256, j) \in Nat \ {0} /\ Exp(256, j + 1) = 256 * Exp(256, j)
      <4>. DEFINE m == 256
      <4>1. j \in Nat /\ m \in Nat \ {0} /\ m \in Int
        BY <2>1
      <4>. HIDE DEF m
      <4>2. Exp(m, j) \in Nat \ {0}
        BY <4>1, ExpPositive
      <4>3. Exp(m, j + 1) = m * Exp(m, j)
        BY <4>1, ExpUnfold
      <4>. QED
        BY <4>2, <4>3 DEF m
    <3>. HIDE DEF e
    <3>. QED
      BY <3>1, <3>2, <3>3
  <2>4. bs[n - j] = w % 256
    BY <1>1, <2>1
  <2>5. w \in Int
    <3>1. e \in Nat \ {0}
      BY <2>3
    <3>. HIDE DEF e
    <3>. QED
      BY <3>1
  <2>6. from[n + 1 - j] = (v \div (256 * e)) % Exp(256, j)
    BY <1>4, <2>3
  <2>7. v \div (256 * e) = w \div 256
    <3>1. e \in Nat \ {0}
      BY <2>3
    <3>. HIDE DEF e
    <3>. QED
      BY <3>1
  <2>. HIDE DEF w, e
  <2>8. (w % 256) + 256 * ((w \div 256) % Exp(256, j)) = w % (256 * Exp(256, j))
    <3>. DEFINE m == 256
                x == Exp(m, j)
    <3>1. m \in Nat \ {0} /\ x \in Nat \ {0}
      BY <2>3
    <3>. HIDE DEF m, x
    <3>2. (w % m) + m * ((w \div m) % x) = w % (m * x)
      BY <2>5, <3>1, DivDiv, Zenon
    <3>. QED
      BY <3>2 DEF m, x
  <2>9. from[n - j] = w % Exp(256, j + 1)
    BY <2>2, <2>3, <2>4, <2>6, <2>7, <2>8
  <2>10. from[n + 1 - (j + 1)] = (v \div Exp(256, n - (j + 1))) % Exp(256, j + 1)
    BY <2>1, <2>9 DEF w, e
  <2>. QED
    BY <2>1, <2>10
<1>5. 0 .. n \subseteq T
  <2>. HIDE DEF T
  <2>. QED
    BY <1>3, <1>4, InductionTo
<1>6. n \in T
  BY <1>5
<1>7. from[n + 1 - n] = (v \div Exp(256, n - n)) % Exp(256, n)
  BY <1>6
<1>8. v \div 1 = v /\ n + 1 - n = 1 /\ n - n = 0 /\ Exp(256, 0) = 1
  BY Exp256
<1>. QED
  BY <1>2, <1>7, <1>8 DEF bs

----------------------------------------------------------------------------
(* Sequences of sequences *)

\* The lengths and the elements of sequences put one after the other: the
\* first k of them, and one more.
LEMMA FlattenUnfold ==
    ASSUME NEW S, NEW ss \in Seq(Seq(S)), ss # <<>>
    PROVE  \E f \in [1 .. Len(ss) -> Seq(S)] :
              /\ f[1] = ss[1]
              /\ \A k \in 1 .. Len(ss) - 1 : f[k + 1] = f[k] \o ss[k + 1]
              /\ FlattenSeq(ss) = f[Len(ss)]
<1>. DEFINE n == Len(ss)
            flatten == CHOOSE g : g = [i \in 1 .. n |-> IF i = 1 THEN ss[i] ELSE g[i - 1] \o ss[i]]
            step == [j \in Nat |-> [x \in Seq(S) |-> IF j + 2 <= n THEN x \o ss[j + 2] ELSE x]]
<1>1. n \in Nat /\ n >= 1 /\ \A k \in 1 .. n : ss[k] \in Seq(S)
  OBVIOUS
<1>2. FlattenSeq(ss) = flatten[n]
  BY <1>1 DEF FlattenSeq
<1>. HIDE DEF n
<1>3. step \in [Nat -> [Seq(S) -> Seq(S)]]
  <2>1. ASSUME NEW j \in Nat, NEW x \in Seq(S)
        PROVE  (IF j + 2 <= n THEN x \o ss[j + 2] ELSE x) \in Seq(S)
    <3>1. CASE j + 2 <= n
      <4>1. j + 2 \in 1 .. n
        BY <1>1, <3>1
      <4>2. ss[j + 2] \in Seq(S)
        BY <1>1, <4>1
      <4>. QED
        BY <3>1, <4>2
    <3>2. CASE ~(j + 2 <= n)
      BY <3>2
    <3>. QED
      BY <3>1, <3>2
  <2>. QED
    BY <2>1, Zenon
<1>4. \A j \in Nat, x \in Seq(S) : j + 2 <= n => step[j][x] = x \o ss[j + 2]
  OBVIOUS
<1>5. PICK h \in [Nat -> Seq(S)] : Follows(h, ss[1], step)
  <2>. HIDE DEF step
  <2>1. ss[1] \in Seq(S)
    BY <1>1
  <2>. QED
    BY <1>3, <2>1, Recursion
<1>. HIDE DEF step
<1>. DEFINE g == [k \in 1 .. n |-> h[k - 1]]
            again == [i \in 1 .. n |-> IF i = 1 THEN ss[i] ELSE g[i - 1] \o ss[i]]
<1>6. \A k \in 1 .. n : k - 1 \in Nat
  BY <1>1
<1>7. g \in [1 .. n -> Seq(S)]
  BY <1>6
<1>8. g[1] = ss[1]
  BY <1>1, <1>5 DEF Follows
<1>9. ASSUME NEW k \in 1 .. n - 1 PROVE g[k + 1] = g[k] \o ss[k + 1]
  <2>1. k - 1 \in Nat /\ (k - 1) + 2 = k + 1 /\ (k - 1) + 1 = k /\ k + 1 <= n /\ k + 1 \in 1 .. n
        /\ k \in 1 .. n /\ (k + 1) - 1 = k
    BY <1>1
  <2>2. h[(k - 1) + 1] = step[k - 1][h[k - 1]] /\ h[k - 1] \in Seq(S)
    BY <1>5, <2>1 DEF Follows
  <2>3. step[k - 1][h[k - 1]] = h[k - 1] \o ss[(k - 1) + 2]
    BY <1>4, <2>1, <2>2
  <2>4. g[k + 1] = h[k] /\ g[k] = h[k - 1]
    BY <2>1
  <2>. HIDE DEF g
  <2>. QED
    BY <2>1, <2>2, <2>3, <2>4
<1>10. g = again
  <2>1. ASSUME NEW i \in 1 .. n PROVE g[i] = again[i]
    <3>1. CASE i = 1
      <4>. HIDE DEF g
      <4>. QED
        BY <1>1, <1>8, <3>1
    <3>2. CASE i # 1
      <4>1. i - 1 \in 1 .. n - 1 /\ (i - 1) + 1 = i
        BY <1>1, <3>2
      <4>2. again[i] = g[i - 1] \o ss[i]
        <5>. HIDE DEF g
        <5>. QED
          BY <3>2
      <4>. HIDE DEF g, again
      <4>. QED
        BY <1>9, <4>1, <4>2
    <3>. QED
      BY <3>1, <3>2
  <2>2. DOMAIN g = 1 .. n /\ DOMAIN again = 1 .. n
    OBVIOUS
  <2>3. g = [i \in 1 .. n |-> g[i]] /\ again = [i \in 1 .. n |-> again[i]]
    OBVIOUS
  <2>. HIDE DEF g, again
  <2>. QED
    BY <2>1, <2>3
<1>11. flatten = [i \in 1 .. n |-> IF i = 1 THEN ss[i] ELSE flatten[i - 1] \o ss[i]]
  <2>1. \E x : x = [i \in 1 .. n |-> IF i = 1 THEN ss[i] ELSE x[i - 1] \o ss[i]]
    <3>. HIDE DEF g
    <3>. QED
      BY <1>10
  <2>. QED
    BY <2>1
<1>. HIDE DEF flatten
<1>12. flatten[1] = ss[1]
  BY <1>1, <1>11
<1>13. ASSUME NEW k \in 1 .. n - 1 PROVE flatten[k + 1] = flatten[k] \o ss[k + 1]
  <2>1. k + 1 \in 1 .. n /\ k + 1 # 1 /\ (k + 1) - 1 = k
    BY <1>1
  <2>. QED
    BY <1>11, <2>1
<1>. DEFINE T == {j \in 0 .. n - 1 : flatten[j + 1] = g[j + 1]}
<1>14. 0 \in T
  <2>. HIDE DEF g
  <2>. QED
    BY <1>1, <1>8, <1>12
<1>15. ASSUME NEW j \in 0 .. (n - 1) - 1, j \in T PROVE j + 1 \in T
  <2>1. j + 1 \in 1 .. n - 1 /\ j + 1 \in 0 .. n - 1
    BY <1>1
  <2>2. flatten[(j + 1) + 1] = flatten[j + 1] \o ss[(j + 1) + 1]
    BY <1>13, <2>1
  <2>3. g[(j + 1) + 1] = g[j + 1] \o ss[(j + 1) + 1]
    <3>. HIDE DEF g
    <3>. QED
      BY <1>9, <2>1
  <2>. HIDE DEF g
  <2>. QED
    BY <1>15, <2>1, <2>2, <2>3
<1>16. 0 .. n - 1 \subseteq T
  <2>1. n - 1 \in Nat
    BY <1>1
  <2>. HIDE DEF T
  <2>. QED
    BY <1>14, <1>15, <2>1, InductionTo
<1>17. flatten[n] = g[n]
  <2>1. n - 1 \in T /\ (n - 1) + 1 = n
    <3>. HIDE DEF T
    <3>. QED
      BY <1>1, <1>16
  <2>. HIDE DEF g
  <2>. QED
    BY <2>1
<1>. HIDE DEF g
<1>. QED
  BY <1>2, <1>7, <1>8, <1>9, <1>17 DEF n

\* Sequences of n elements each.
LEMMA FlattenType ==
    ASSUME NEW S, NEW ss \in Seq(Seq(S))
    PROVE  FlattenSeq(ss) \in Seq(S)
<1>1. CASE ss = <<>>
  BY <1>1 DEF FlattenSeq
<1>2. CASE ss # <<>>
  <2>1. PICK f \in [1 .. Len(ss) -> Seq(S)] : FlattenSeq(ss) = f[Len(ss)]
    BY <1>2, FlattenUnfold
  <2>2. Len(ss) \in 1 .. Len(ss)
    BY <1>2
  <2>. QED
    BY <2>1, <2>2
<1>. QED
  BY <1>1, <1>2

LEMMA FlattenLength ==
    ASSUME NEW S, NEW ss \in Seq(Seq(S)), NEW n \in Nat,
           \A k \in 1 .. Len(ss) : Len(ss[k]) = n
    PROVE  Len(FlattenSeq(ss)) = Len(ss) * n
<1>1. CASE ss = <<>>
  BY <1>1 DEF FlattenSeq
<1>2. CASE ss # <<>>
  <2>1. PICK f \in [1 .. Len(ss) -> Seq(S)] :
           /\ f[1] = ss[1]
           /\ \A k \in 1 .. Len(ss) - 1 : f[k + 1] = f[k] \o ss[k + 1]
           /\ FlattenSeq(ss) = f[Len(ss)]
    BY <1>2, FlattenUnfold
  <2>. DEFINE m == Len(ss) - 1
              T == {j \in 0 .. m : Len(f[j + 1]) = (j + 1) * n}
  <2>2. m \in Nat /\ \A j \in 0 .. m : j + 1 \in 1 .. Len(ss)
    BY <1>2
  <2>3. 0 \in T
    BY <2>1, <2>2
  <2>4. ASSUME NEW j \in 0 .. m - 1, j \in T PROVE j + 1 \in T
    <3>1. j + 1 \in 1 .. Len(ss) - 1 /\ (j + 1) + 1 \in 1 .. Len(ss) /\ j + 1 \in 0 .. m
      BY <2>2
    <3>2. f[(j + 1) + 1] = f[j + 1] \o ss[(j + 1) + 1]
      BY <2>1, <3>1
    <3>3. ss[(j + 1) + 1] \in Seq(S) /\ Len(ss[(j + 1) + 1]) = n
      BY <3>1
    <3>4. f[j + 1] \in Seq(S)
      <4>1. j + 1 \in 1 .. Len(ss)
        BY <2>2
      <4>. QED
        BY <4>1
    <3>5. Len(f[(j + 1) + 1]) = Len(f[j + 1]) + n
      <4>1. \A x, y \in Seq(S) : Len(x \o y) = Len(x) + Len(y)
        OBVIOUS
      <4>2. Len(f[j + 1] \o ss[(j + 1) + 1]) = Len(f[j + 1]) + Len(ss[(j + 1) + 1])
        BY <3>3, <3>4, <4>1, Zenon
      <4>. QED
        BY <3>2, <3>3, <4>2, Zenon
    <3>6. Len(f[j + 1]) = (j + 1) * n
      BY <2>4
    <3>7. (j + 1) * n + n = ((j + 1) + 1) * n
      OBVIOUS
    <3>. QED
      BY <3>1, <3>5, <3>6, <3>7
  <2>5. 0 .. m \subseteq T
    <3>. HIDE DEF T, m
    <3>. QED
      BY <2>2, <2>3, <2>4, InductionTo
  <2>6. m \in T
    <3>. HIDE DEF T, m
    <3>. QED
      BY <2>2, <2>5
  <2>. QED
    BY <2>1, <2>6
<1>. QED
  BY <1>1, <1>2

\* Where the parts are, when they have the same length.
LEMMA FlattenAt ==
    ASSUME NEW S, NEW ss \in Seq(Seq(S)), NEW n \in Nat,
           \A k \in 1 .. Len(ss) : Len(ss[k]) = n,
           NEW k \in 1 .. Len(ss), NEW j \in 1 .. n
    PROVE  FlattenSeq(ss)[(k - 1) * n + j] = ss[k][j]
<1>. DEFINE m == Len(ss)
<1>1. m \in Nat /\ ss # <<>> /\ k \in 1 .. m /\ m > 0
  OBVIOUS
<1>2. PICK f \in [1 .. m -> Seq(S)] :
         /\ f[1] = ss[1]
         /\ \A i \in 1 .. m - 1 : f[i + 1] = f[i] \o ss[i + 1]
         /\ FlattenSeq(ss) = f[m]
  BY <1>1, FlattenUnfold
<1>. DEFINE T == {i \in 0 .. m - 1 :
                     /\ Len(f[i + 1]) = (i + 1) * n
                     /\ \A a \in 1 .. i + 1 : \A b \in 1 .. n : f[i + 1][(a - 1) * n + b] = ss[a][b]}
<1>3. 0 \in T
  <2>1. \A a \in 1 .. 0 + 1 : a = 1 /\ (a - 1) * n = 0
    BY <1>1
  <2>2. Len(f[1]) = (0 + 1) * n /\ 0 \in 0 .. m - 1 /\ 0 + 1 = 1
    BY <1>1, <1>2
  <2>3. \A a \in 1 .. 0 + 1 : \A b \in 1 .. n : f[0 + 1][(a - 1) * n + b] = ss[a][b]
    BY <1>2, <2>1, <2>2
  <2>. QED
    BY <2>2, <2>3
<1>4. ASSUME NEW i \in 0 .. (m - 1) - 1, i \in T PROVE i + 1 \in T
  <2>. DEFINE s == f[i + 1]
              t == ss[i + 2]
  <2>1. /\ s \in Seq(S) /\ t \in Seq(S) /\ Len(t) = n /\ Len(s) = (i + 1) * n
        /\ f[(i + 1) + 1] = s \o t /\ i + 1 \in 0 .. m - 1 /\ (i + 1) + 1 = i + 2
        /\ (i + 1) * n \in Nat
    <3>1. i + 1 \in 1 .. m - 1 /\ (i + 1) + 1 = i + 2 /\ i + 2 \in 1 .. m /\ i + 1 \in 1 .. m
          /\ i + 1 \in 0 .. m - 1
      BY <1>1
    <3>2. f[(i + 1) + 1] = s \o t
      BY <1>2, <3>1
    <3>3. s \in Seq(S) /\ t \in Seq(S) /\ Len(t) = n
      <4>1. s \in Seq(S)
        BY <1>2, <3>1
      <4>2. t \in Seq(S) /\ Len(t) = n
        BY <3>1
      <4>. QED
        BY <4>1, <4>2
    <3>4. Len(s) = (i + 1) * n
      BY <1>4
    <3>5. Len(s) \in Nat
      BY <3>3
    <3>. QED
      BY <3>1, <3>2, <3>3, <3>4, <3>5
  <2>2. \A a \in 1 .. i + 1 : \A b \in 1 .. n : s[(a - 1) * n + b] = ss[a][b]
    BY <1>4
  <2>. HIDE DEF s, t
  <2>3. /\ Len(s \o t) = (i + 1) * n + n /\ (i + 2) * n = (i + 1) * n + n
        /\ \A b \in 1 .. Len(t) : (s \o t)[Len(s) + b] = t[b]
        /\ \A b \in 1 .. Len(s) : (s \o t)[b] = s[b]
    <3>1. s \in Seq(S) /\ t \in Seq(S)
      BY <2>1
    <3>2. Len(s \o t) = Len(s) + Len(t)
      BY <3>1
    <3>3. \A b \in 1 .. Len(t) : (s \o t)[Len(s) + b] = t[b]
      BY <3>1, SMTT(40)
    <3>4. \A b \in 1 .. Len(s) : (s \o t)[b] = s[b]
      BY <3>1
    <3>5. (i + 2) * n = (i + 1) * n + n
      OBVIOUS
    <3>6. Len(s \o t) = (i + 1) * n + n
      BY <2>1, <3>2, Zenon
    <3>. QED
      BY <3>3, <3>4, <3>5, <3>6
  <2>4. ASSUME NEW a \in 1 .. i + 2, NEW b \in 1 .. n
        PROVE  (s \o t)[(a - 1) * n + b] = ss[a][b]
    <3>1. CASE a = i + 2
      <4>1. a - 1 = i + 1 /\ b \in 1 .. Len(t)
        BY <2>1, <3>1
      <4>2. (s \o t)[Len(s) + b] = t[b]
        BY <2>3, <4>1
      <4>3. t[b] = ss[a][b]
        BY <3>1 DEF t
      <4>. QED
        BY <2>1, <4>1, <4>2, <4>3
    <3>2. CASE a # i + 2
      <4>1. a \in 1 .. i + 1 /\ a - 1 \in Nat /\ i + 1 - a \in Nat
        BY <3>2
      <4>. DEFINE p == (a - 1) * n
                  q == (i + 1 - a) * n
      <4>2. p \in Nat /\ q \in Nat
        BY <4>1
      <4>3. (i + 1) * n = p + n + q
        BY <4>1
      <4>. HIDE DEF p, q
      <4>4. Len(s) = p + n + q
        BY <2>1, <4>3
      <4>5. p + b \in 1 .. Len(s)
        BY <4>2, <4>4
      <4>6. (s \o t)[p + b] = s[p + b]
        BY <2>3, <4>5
      <4>. USE DEF p
      <4>. QED
        BY <2>2, <4>1, <4>6
    <3>. QED
      BY <3>1, <3>2
  <2>5. f[i + 2] = s \o t /\ i + 1 \in 0 .. m - 1 /\ (i + 1) + 1 = i + 2
    BY <2>1
  <2>6. Len(f[i + 2]) = (i + 2) * n
        /\ \A a \in 1 .. i + 2 : \A b \in 1 .. n : f[i + 2][(a - 1) * n + b] = ss[a][b]
    BY <2>3, <2>4, <2>5, ZenonT(60)
  <2>. QED
    BY <2>5, <2>6, ZenonT(60)
<1>5. 0 .. m - 1 \subseteq T
  <2>1. m - 1 \in Nat
    BY <1>1
  <2>. HIDE DEF T, m
  <2>. QED
    BY <1>3, <1>4, <2>1, InductionTo
<1>6. m - 1 \in T /\ (m - 1) + 1 = m
  <2>1. m - 1 \in 0 .. m - 1 /\ (m - 1) + 1 = m
    BY <1>1
  <2>. HIDE DEF T, m
  <2>. QED
    BY <1>5, <2>1
<1>. QED
  BY <1>1, <1>2, <1>6

----------------------------------------------------------------------------
(* Words *)

LEMMA WordSize ==
    /\ Modulus \in Nat \ {0} /\ Modulus = 2 * (Modulus \div 2)
    /\ MINVAL \in Int /\ MAXVAL \in Int /\ MAXVAL = MINVAL + Modulus - 1
    /\ Top \in Nat \ {0} /\ 256 <= Modulus /\ Modulus <= Top /\ INSTRSZ \in Nat
<1>1. WordBytes - 1 \in Nat /\ (WordBytes - 1) + 1 = WordBytes /\ WordBytes \in Nat
  BY WordBytesAssumption
<1>2. Exp(256, (WordBytes - 1) + 1) = 256 * Exp(256, WordBytes - 1)
      /\ Exp(256, WordBytes - 1) \in Nat \ {0}
  BY <1>1, Exp256
<1>3. Modulus = 256 * Exp(256, WordBytes - 1)
  BY <1>1, <1>2 DEF Modulus
<1>4. \A e \in Nat \ {0} : /\ 256 * e \in Nat \ {0} /\ 256 * e >= 256
                            /\ 256 * e = 2 * ((256 * e) \div 2)
                            /\ (256 * e) \div 2 \in Int
  OBVIOUS
<1>5. Modulus \in Nat \ {0} /\ Modulus = 2 * (Modulus \div 2) /\ 256 <= Modulus
      /\ Modulus \div 2 \in Int
  BY <1>2, <1>3, <1>4
<1>6. Modulus <= Top
  <2>1. 256 \in Nat \ {0} /\ CellBytes \in Nat /\ WordBytes \in 0 .. CellBytes
    BY <1>1, CellBytesAssumption
  <2>. QED
    BY <2>1, ExpMonotone DEF Modulus, Top
<1>7. Top \in Nat \ {0}
  BY CellBytesAssumption, Exp256Positive DEF Top
<1>. QED
  BY <1>1, <1>5, <1>6, <1>7 DEF MINVAL, MAXVAL, INSTRSZ

LEMMA To24Word ==
    ASSUME NEW v \in Int
    PROVE  to24(v) \in Word
BY WordSize DEF to24, Word

LEMMA WordsAreInts == \A v \in Word : v \in Int
BY WordSize DEF Word

\* A word is itself, and its low bits are all that a word keeps of a number.
LEMMA To24Keeps ==
    ASSUME NEW v \in Int
    PROVE  /\ v \in Word => to24(v) = v
           /\ to24(v % Modulus) = to24(v)
<1>1. Modulus \in Nat \ {0} /\ MINVAL \in Int /\ MAXVAL = MINVAL + Modulus - 1
  BY WordSize
<1>2. ASSUME v \in Word PROVE to24(v) = v
  <2>1. v - MINVAL \in 0 .. Modulus - 1
    BY <1>1, <1>2 DEF Word
  <2>2. (v - MINVAL) % Modulus = v - MINVAL
    BY <1>1, <2>1, ModSmall
  <2>. QED
    BY <1>1, <2>2 DEF to24
<1>3. to24(v % Modulus) = to24(v)
  <2>. DEFINE q == v \div Modulus
              r == v % Modulus
  <2>1. v = q * Modulus + r /\ q \in Int /\ r \in Int
    BY <1>1, DivMod
  <2>. HIDE DEF q, r
  <2>2. v - MINVAL = (r - MINVAL) + q * Modulus /\ r - MINVAL \in Int
    BY <1>1, <2>1
  <2>3. ((r - MINVAL) + q * Modulus) % Modulus = (r - MINVAL) % Modulus
    BY <1>1, <2>1, <2>2, ModMod
  <2>4. to24(r) = to24(v)
    BY <2>2, <2>3 DEF to24
  <2>. QED
    BY <2>4 DEF r
<1>. QED
  BY <1>2, <1>3

LEMMA AddrRange ==
    ASSUME NEW v \in Int
    PROVE  Addr(v) \in 0 .. Top - 1
BY WordSize DEF Addr

----------------------------------------------------------------------------
(* Instructions *)

Decoded == [op : OPCODES \cup {"?"}, r : [1 .. 3 -> -1 .. 2], imm : Word]

LEMMA MnemonicsSize == Len(Mnemonics) = 39 /\ OPCODES = {Mnemonics[k] : k \in 1 .. 39}
BY DEF Mnemonics, OPCODES, ToSet

OpcodeNames ==
    { "HALT", "MOV", "MOVR", "ADD", "SUB", "ADDI", "SUBI", "MUL", "DIV", "MOD", "AND", "OR",
      "XOR", "NOT", "SHL", "SHR", "LOAD", "STORE", "LOADI", "STOREI", "JMP", "JEQ", "JNE",
      "JLT", "JGT", "JLE", "JGE", "MZERO", "INC", "DEC", "NEG", "SYSCALL", "PUSH", "POP",
      "CALL", "RET", "PUSHI", "PUSHA", "POPA" }

LEMMA OpcodesNamed == \A m \in OPCODES : m \in OpcodeNames
<1>1. \A k \in 1 .. 39 : Mnemonics[k] \in OpcodeNames
  BY DEF Mnemonics, OpcodeNames
<1>. QED
  BY <1>1, MnemonicsSize

LEMMA OpcodeOf ==
    ASSUME NEW m \in OPCODES
    PROVE  Opcode(m) \in 0 .. 38 /\ Mnemonics[Opcode(m) + 1] = m
<1>. DEFINE I == {k \in 1 .. Len(Mnemonics) : Mnemonics[k] = m}
<1>1. I \in SUBSET Nat /\ I # {} /\ I \subseteq 1 .. 39
  BY MnemonicsSize
<1>2. Min(I) \in I
  <2>1. \E x \in I : \A y \in I : x <= y
    <3>. HIDE DEF I
    <3>. QED
      BY <1>1, LeastNumber
  <2>. HIDE DEF I
  <2>. QED
    BY <2>1 DEF Min
<1>3. Opcode(m) = Min(I) - 1
  BY <1>1 DEF Opcode, SelectInSeq
<1>. QED
  BY <1>1, <1>2, <1>3

LEMMA LETwo ==
    ASSUME NEW x \in Int, NEW y \in Int
    PROVE  LE(<<x, y>>) = x + 256 * y
<1>. DEFINE bs == <<x, y>>
<1>1. bs \in Seq(Int) /\ Len(bs) = 2 /\ bs[1] = x /\ bs[2] = y
  OBVIOUS
<1>. HIDE DEF bs
<1>2. PICK from \in [1 .. Len(bs) + 1 -> Int] :
         /\ from[Len(bs) + 1] = 0
         /\ \A k \in 1 .. Len(bs) : from[k] = bs[k] + 256 * from[k + 1]
         /\ LE(bs) = from[1]
  BY <1>1, LEUnfold
<1>3. from[3] = 0 /\ from[2] = y + 256 * from[3] /\ from[1] = x + 256 * from[2]
  BY <1>1, <1>2
<1>4. LE(bs) = x + 256 * y
  BY <1>2, <1>3
<1>. QED
  BY <1>4 DEF bs

\* Whatever the bytes, what is decoded has fields in range.
LEMMA DecodedType ==
    ASSUME NEW bs \in Seq(Byte), Len(bs) = INSTRSZ
    PROVE  decodeInstr(bs) \in Decoded
<1>. DEFINE fields == bs[WordBytes + 1]
            op == LE(<<bs[WordBytes + 2], bs[WordBytes + 3]>>)
            imm == LE(SubSeq(bs, 1, WordBytes))
            reg(unit) == ((fields \div unit) % 4) - 1
<1>1. WordBytes \in Nat /\ Len(bs) = WordBytes + 3 /\ \A x \in Byte : x \in Int
  BY WordBytesAssumption DEF INSTRSZ, Byte
<1>2. /\ WordBytes + 1 \in 1 .. Len(bs)
      /\ WordBytes + 2 \in 1 .. Len(bs)
      /\ WordBytes + 3 \in 1 .. Len(bs)
  BY <1>1
<1>3. fields \in Int /\ bs[WordBytes + 2] \in Int /\ bs[WordBytes + 3] \in Int
  BY <1>1, <1>2
<1>4. op \in Int
  BY <1>3, LETwo
<1>5. imm \in Int
  <2>1. SubSeq(bs, 1, WordBytes) \in Seq(Byte)
    BY <1>1
  <2>2. SubSeq(bs, 1, WordBytes) \in Seq(Int)
    BY <2>1, BytesAreInts
  <2>. QED
    BY <2>1, <2>2, LEInt
<1>. HIDE DEF op, imm, fields
<1>6. <<reg(64), reg(16), reg(4)>> \in [1 .. 3 -> -1 .. 2]
  <2>1. \A u \in {64, 16, 4} : reg(u) \in -1 .. 2
    BY <1>3
  <2>. HIDE DEF reg
  <2>. QED
    BY <2>1
<1>7. ASSUME op % 4 = 0 /\ (op \div 4) % 256 < Len(Mnemonics)
      PROVE  Mnemonics[((op \div 4) % 256) + 1] \in OPCODES
  <2>1. ((op \div 4) % 256) + 1 \in 1 .. 39
    BY <1>4, <1>7, MnemonicsSize
  <2>. QED
    BY <2>1, MnemonicsSize
<1>8. to24(imm) \in Word
  BY <1>5, To24Word
<1>9. decodeInstr(bs) =
        Instr(IF op % 4 = 0 /\ (op \div 4) % 256 < Len(Mnemonics) /\ fields % 4 = 0
              THEN Mnemonics[((op \div 4) % 256) + 1] ELSE "?",
              <<reg(64), reg(16), reg(4)>>, to24(imm))
  BY DEF decodeInstr, op, imm, fields
<1>. HIDE DEF reg
<1>. QED
  BY <1>6, <1>7, <1>8, <1>9 DEF Instr, Decoded

Encodable == [op : OPCODES, r : [1 .. 3 -> -1 .. 2], imm : Int]

FieldByte(i) == 64 * (i.r[1] + 1) + 16 * (i.r[2] + 1) + 4 * (i.r[3] + 1)

\* A sequence and three elements more.
LEMMA ThreeMore ==
    ASSUME NEW S, NEW s \in Seq(S), NEW x \in S, NEW y \in S, NEW z \in S, NEW bs,
           bs = s \o <<x>> \o <<y, z>>
    PROVE  /\ bs \in Seq(S) /\ Len(bs) = Len(s) + 3
           /\ bs[Len(s) + 1] = x /\ bs[Len(s) + 2] = y /\ bs[Len(s) + 3] = z
           /\ SubSeq(bs, 1, Len(s)) = s
<1>1. Len(s) \in Nat /\ <<x>> \in Seq(S) /\ <<y, z>> \in Seq(S)
  OBVIOUS
<1>2. bs \in Seq(S) /\ Len(bs) = Len(s) + 3
  BY <1>1
<1>3. bs[Len(s) + 1] = x /\ bs[Len(s) + 2] = y /\ bs[Len(s) + 3] = z
  BY <1>1
<1>4. \A k \in 1 .. Len(s) : bs[k] = s[k]
  BY <1>1
<1>5. SubSeq(bs, 1, Len(s)) = s
  <2>1. SubSeq(bs, 1, Len(s)) \in Seq(S) /\ Len(SubSeq(bs, 1, Len(s))) = Len(s)
        /\ \A k \in 1 .. Len(s) : SubSeq(bs, 1, Len(s))[k] = bs[k]
    BY <1>1, <1>2
  <2>2. \A t \in Seq(S) : t = [k \in 1 .. Len(t) |-> t[k]]
    OBVIOUS
  <2>. QED
    BY <1>4, <2>1, <2>2
<1>. QED
  BY <1>2, <1>3, <1>5

LEMMA TwoBytes ==
    ASSUME NEW v \in 0 .. 255
    PROVE  Bytes(v, 2) = <<v, 0>>
<1>1. Exp(256, 0) = 1 /\ Exp(256, 1) = 256
  <2>1. Exp(256, 0) = 1 /\ Exp(256, 0 + 1) = 256 * Exp(256, 0)
    BY Exp256
  <2>. QED
    BY <2>1
<1>2. (v \div 1) % 256 = v /\ (v \div 256) % 256 = 0
  OBVIOUS
<1>3. (v \div Exp(256, 1 - 1)) % 256 = v /\ (v \div Exp(256, 2 - 1)) % 256 = 0
  BY <1>1, <1>2
<1>. QED
  BY <1>3 DEF Bytes

\* The bytes of an instruction: its immediate, its fields and its opcode.
LEMMA EncodedParts ==
    ASSUME NEW i \in Encodable
    PROVE  /\ Bytes(i.imm, WordBytes) \in Seq(Byte) /\ Len(Bytes(i.imm, WordBytes)) = WordBytes
           /\ FieldByte(i) \in Byte /\ 4 * Opcode(i.op) \in Byte /\ 0 \in Byte
           /\ encInstr(i) = Bytes(i.imm, WordBytes) \o <<FieldByte(i)>> \o <<4 * Opcode(i.op), 0>>
<1>1. i.imm \in Int /\ i.op \in OPCODES /\ i.r \in [1 .. 3 -> -1 .. 2] /\ WordBytes \in Nat
  BY WordBytesAssumption DEF Encodable
<1>2. 4 * Opcode(i.op) \in 0 .. 255
  BY <1>1, OpcodeOf
<1>3. Bytes(4 * Opcode(i.op), 2) = <<4 * Opcode(i.op), 0>>
  BY <1>2, TwoBytes
<1>4. Bytes(i.imm, WordBytes) \in Seq(Byte) /\ Len(Bytes(i.imm, WordBytes)) = WordBytes
  <2>1. i.imm \in Int /\ WordBytes \in Nat
    BY <1>1
  <2>. QED
    BY <2>1, BytesType
<1>5. FieldByte(i) \in Byte /\ 4 * Opcode(i.op) \in Byte /\ 0 \in Byte
  BY <1>1, <1>2 DEF FieldByte, Byte
<1>6. encInstr(i) = Bytes(i.imm, WordBytes) \o <<FieldByte(i)>> \o <<4 * Opcode(i.op), 0>>
  BY <1>3 DEF encInstr, FieldByte
<1>. QED
  BY <1>4, <1>5, <1>6

LEMMA EncodedType ==
    ASSUME NEW i \in Encodable
    PROVE  encInstr(i) \in Seq(Byte) /\ Len(encInstr(i)) = INSTRSZ
<1>. DEFINE imm == Bytes(i.imm, WordBytes)
            op == 4 * Opcode(i.op)
<1>1. imm \in Seq(Byte) /\ Len(imm) = WordBytes
  BY EncodedParts
<1>2. FieldByte(i) \in Byte /\ op \in Byte /\ 0 \in Byte
  BY EncodedParts
<1>3. encInstr(i) = imm \o <<FieldByte(i)>> \o <<op, 0>>
  BY EncodedParts
<1>. HIDE DEF imm, op
<1>4. encInstr(i) \in Seq(Byte) /\ Len(encInstr(i)) = Len(imm) + 3
  BY <1>1, <1>2, <1>3, ThreeMore
<1>. QED
  BY <1>1, <1>4 DEF INSTRSZ

\* What a line says, the machine decodes, but for the bits of the immediate
\* that a word has no room for.
THEOREM DecodesWhatWasEncoded ==
    ASSUME NEW i \in Encodable
    PROVE  decodeInstr(encInstr(i)) = Instr(i.op, i.r, to24(i.imm))
<1>. DEFINE n == Opcode(i.op)
            imm == Bytes(i.imm, WordBytes)
            bs == encInstr(i)
            fields == bs[WordBytes + 1]
            reg(unit) == ((fields \div unit) % 4) - 1
<1>1. i.imm \in Int /\ i.op \in OPCODES /\ i.r \in [1 .. 3 -> -1 .. 2] /\ WordBytes \in Nat
  BY WordBytesAssumption DEF Encodable
<1>2. n \in 0 .. 38 /\ Mnemonics[n + 1] = i.op
  BY <1>1, OpcodeOf
<1>6. /\ bs[WordBytes + 1] = FieldByte(i) /\ bs[WordBytes + 2] = 4 * n /\ bs[WordBytes + 3] = 0
      /\ SubSeq(bs, 1, WordBytes) = imm
  <2>. DEFINE op == 4 * n
              nil == 0
  <2>1. imm \in Seq(Byte) /\ Len(imm) = WordBytes
    BY EncodedParts
  <2>2. FieldByte(i) \in Byte /\ op \in Byte /\ nil \in Byte
    BY EncodedParts
  <2>3. bs = imm \o <<FieldByte(i)>> \o <<op, nil>>
    BY EncodedParts
  <2>. HIDE DEF bs, op, imm, nil
  <2>4. SubSeq(bs, 1, Len(imm)) = imm
    BY <2>1, <2>2, <2>3, ThreeMore
  <2>5. bs[Len(imm) + 1] = FieldByte(i) /\ bs[Len(imm) + 2] = op /\ bs[Len(imm) + 3] = nil
    BY <2>1, <2>2, <2>3, ThreeMore, SMTT(40)
  <2>. QED
    BY <2>1, <2>4, <2>5 DEF op, nil
<1>. HIDE DEF n, bs
<1>8. reg(64) = i.r[1] /\ reg(16) = i.r[2] /\ reg(4) = i.r[3] /\ fields % 4 = 0
  <2>. DEFINE x == i.r[1]
              y == i.r[2]
              z == i.r[3]
  <2>1. x \in -1 .. 2 /\ y \in -1 .. 2 /\ z \in -1 .. 2
    BY <1>1
  <2>2. fields = 64 * (x + 1) + 16 * (y + 1) + 4 * (z + 1)
    BY <1>6 DEF FieldByte
  <2>. HIDE DEF fields, x, y, z
  <2>3. reg(64) = x /\ reg(16) = y /\ reg(4) = z /\ fields % 4 = 0
    BY <2>1, <2>2
  <2>. QED
    BY <2>3 DEF x, y, z
<1>9. LE(<<bs[WordBytes + 2], bs[WordBytes + 3]>>) = 4 * n
  <2>1. 4 * n \in Int /\ 0 \in Int /\ 4 * n + 256 * 0 = 4 * n
    BY <1>2
  <2>. DEFINE x == 4 * n
              z == 0
  <2>2. LE(<<x, z>>) = x + 256 * z
    <3>1. x \in Int /\ z \in Int
      BY <2>1
    <3>. HIDE DEF x, z
    <3>. QED
      BY <3>1, LETwo
  <2>. QED
    BY <1>6, <2>1, <2>2
<1>10. to24(LE(SubSeq(bs, 1, WordBytes))) = to24(i.imm)
  <2>1. LE(imm) = i.imm % Modulus
    BY <1>1, LEOfBytes DEF Modulus
  <2>. QED
    BY <1>1, <1>6, <2>1, To24Keeps
<1>11. (4 * n) % 4 = 0 /\ ((4 * n) \div 4) % 256 = n
  BY <1>2
<1>12. <<reg(64), reg(16), reg(4)>> = i.r
  <2>1. i.r = <<i.r[1], i.r[2], i.r[3]>>
    BY <1>1
  <2>. HIDE DEF reg
  <2>. QED
    BY <1>8, <2>1
<1>13. decodeInstr(bs) =
         Instr(IF (4 * n) % 4 = 0 /\ ((4 * n) \div 4) % 256 < Len(Mnemonics) /\ fields % 4 = 0
               THEN Mnemonics[(((4 * n) \div 4) % 256) + 1] ELSE "?",
               <<reg(64), reg(16), reg(4)>>, to24(i.imm))
  <2>. HIDE DEF bs
  <2>. QED
    BY <1>9, <1>10 DEF decodeInstr
<1>14. decodeInstr(bs) = Instr(i.op, i.r, to24(i.imm))
  <2>. HIDE DEF bs, reg, fields
  <2>. QED
    BY <1>2, <1>8, <1>11, <1>12, <1>13, MnemonicsSize
<1>. QED
  BY <1>14 DEF bs

----------------------------------------------------------------------------
(* Arithmetic *)

LEMMA Exp2Positive == \A n \in Nat : Exp(2, n) \in Nat \ {0}
<1>1. 2 \in Nat \ {0}
  OBVIOUS
<1>. QED
  BY <1>1, ExpPositive

LEMMA BitRange ==
    ASSUME NEW v \in Int, NEW k \in Nat
    PROVE  Bit(v, k) \in 0 .. 1
<1>1. v \div Exp(2, k) \in Int
  BY Exp2Positive, DivMod
<1>. QED
  BY <1>1 DEF Bit

BitTable == [0 .. 1 -> [0 .. 1 -> 0 .. 1]]

LEMMA Tables == AndBits \in BitTable /\ OrBits \in BitTable /\ XorBits \in BitTable
BY DEF BitTable, AndBits, OrBits, XorBits

LEMMA Bitwise2Int ==
    ASSUME NEW a \in Int, NEW b \in Int, NEW f \in BitTable
    PROVE  Bitwise2(a, b, f) \in Int
<1>. DEFINE n == 8 * WordBytes
            term(k) == Exp(2, k) * f[Bit(a, k)][Bit(b, k)]
            low == CHOOSE g : g = [k \in 0 .. n |-> IF k = 0 THEN 0 ELSE g[k - 1] + term(k - 1)]
            step == [k \in Nat |-> [x \in Int |-> x + term(k)]]
<1>1. n \in Nat
  BY WordBytesAssumption
<1>2. Bitwise2(a, b, f) = low[n]
  BY DEF Bitwise2
<1>3. \A k \in Nat : term(k) \in Int
  <2>. TAKE k \in Nat
  <2>1. Bit(a, k) \in 0 .. 1 /\ Bit(b, k) \in 0 .. 1 /\ Exp(2, k) \in Int
    BY BitRange, Exp2Positive
  <2>2. f[Bit(a, k)][Bit(b, k)] \in Int
    BY <2>1 DEF BitTable
  <2>. QED
    BY <2>1, <2>2
<1>. HIDE DEF n, term
<1>4. step \in [Nat -> [Int -> Int]] /\ \A k \in Nat, x \in Int : step[k][x] = x + term(k)
  BY <1>3
<1>5. PICK h \in [Nat -> Int] : Follows(h, 0, step)
  <2>. HIDE DEF step
  <2>1. 0 \in Int
    OBVIOUS
  <2>. QED
    BY <1>4, <2>1, Recursion
<1>. HIDE DEF step
<1>6. ASSUME NEW k \in Nat, k # 0 PROVE h[k] = h[k - 1] + term(k - 1)
  <2>1. k - 1 \in Nat /\ (k - 1) + 1 = k
    BY <1>6
  <2>2. h[(k - 1) + 1] = step[k - 1][h[k - 1]] /\ h[k - 1] \in Int
    BY <1>5, <2>1 DEF Follows
  <2>. QED
    BY <1>4, <2>1, <2>2
<1>. DEFINE g == [k \in 0 .. n |-> h[k]]
<1>7. g = [k \in 0 .. n |-> IF k = 0 THEN 0 ELSE g[k - 1] + term(k - 1)]
  <2>1. \A k \in 0 .. n : g[k] = IF k = 0 THEN 0 ELSE g[k - 1] + term(k - 1)
    BY <1>1, <1>5, <1>6 DEF Follows
  <2>2. g = [k \in 0 .. n |-> g[k]]
    OBVIOUS
  <2>. HIDE DEF g
  <2>. QED
    BY <2>1, <2>2
<1>8. low = [k \in 0 .. n |-> IF k = 0 THEN 0 ELSE low[k - 1] + term(k - 1)]
  <2>1. \E x : x = [k \in 0 .. n |-> IF k = 0 THEN 0 ELSE x[k - 1] + term(k - 1)]
    <3>. HIDE DEF g
    <3>. QED
      BY <1>7
  <2>. QED
    BY <2>1
<1>. HIDE DEF low
<1>. DEFINE T == {k \in 0 .. n : low[k] \in Int}
<1>9. 0 \in T
  BY <1>1, <1>8
<1>10. ASSUME NEW k \in 0 .. n - 1, k \in T PROVE k + 1 \in T
  <2>1. k \in Nat /\ k + 1 \in 0 .. n /\ (k + 1) - 1 = k /\ k + 1 # 0
    BY <1>1
  <2>2. low[k + 1] = low[k] + term(k)
    BY <1>8, <2>1
  <2>. QED
    BY <1>3, <1>10, <2>1, <2>2
<1>11. 0 .. n \subseteq T
  <2>. HIDE DEF T
  <2>. QED
    BY <1>1, <1>9, <1>10, InductionTo
<1>12. n \in T
  <2>. HIDE DEF T
  <2>. QED
    BY <1>1, <1>11
<1>. QED
  BY <1>2, <1>12

LEMMA BinaryWord ==
    ASSUME NEW op \in ThreeRegs, NEW a \in Int, NEW b \in Int, ~DividesByZero(op, b)
    PROVE  Binary(op, a, b) \in Word
<1>. DEFINE v == CASE op = "ADD" -> a + b
                   [] op = "SUB" -> a - b
                   [] op = "MUL" -> a * b
                   [] op = "DIV" -> Quotient(a, b)
                   [] op = "MOD" -> Remainder(a, b)
                   [] op = "AND" -> Bitwise2(a, b, AndBits)
                   [] op = "OR"  -> Bitwise2(a, b, OrBits)
                   [] op = "XOR" -> Bitwise2(a, b, XorBits)
<1>1. Binary(op, a, b) = to24(v)
  BY DEF Binary
<1>2. CASE op \in {"ADD", "SUB", "MUL"}
  <2>1. v \in Int
    BY <1>2
  <2>. HIDE DEF v
  <2>. QED
    BY <1>1, <2>1, To24Word
<1>3. CASE op = "DIV"
  <2>1. b # 0
    BY <1>3 DEF DividesByZero
  <2>2. Abs(a) \in Int /\ Abs(b) \in Nat \ {0}
    BY <2>1 DEF Abs
  <2>3. Abs(a) \div Abs(b) \in Int
    BY <2>2, DivMod
  <2>4. Quotient(a, b) \in Int
    BY <2>3 DEF Quotient
  <2>5. v = Quotient(a, b)
    BY <1>3
  <2>. HIDE DEF v
  <2>. QED
    BY <1>1, <2>4, <2>5, To24Word
<1>4. CASE op = "MOD"
  <2>1. b # 0
    BY <1>4 DEF DividesByZero
  <2>2. Remainder(a, b) \in Int
    BY <2>1 DEF Remainder
  <2>3. v = Remainder(a, b)
    BY <1>4
  <2>. HIDE DEF v
  <2>. QED
    BY <1>1, <2>2, <2>3, To24Word
<1>5. CASE op = "AND"
  <2>1. Bitwise2(a, b, AndBits) \in Int
    BY Tables, Bitwise2Int
  <2>2. v = Bitwise2(a, b, AndBits)
    BY <1>5
  <2>. HIDE DEF v
  <2>. QED
    BY <1>1, <2>1, <2>2, To24Word
<1>6. CASE op = "OR"
  <2>1. Bitwise2(a, b, OrBits) \in Int
    BY Tables, Bitwise2Int
  <2>2. v = Bitwise2(a, b, OrBits)
    BY <1>6
  <2>. HIDE DEF v
  <2>. QED
    BY <1>1, <2>1, <2>2, To24Word
<1>7. CASE op = "XOR"
  <2>1. Bitwise2(a, b, XorBits) \in Int
    BY Tables, Bitwise2Int
  <2>2. v = Bitwise2(a, b, XorBits)
    BY <1>7
  <2>. HIDE DEF v
  <2>. QED
    BY <1>1, <2>1, <2>2, To24Word
<1>. QED
  BY <1>2, <1>3, <1>4, <1>5, <1>6, <1>7 DEF ThreeRegs

LEMMA ShiftByRange ==
    ASSUME NEW imm \in Int
    PROVE  ShiftBy(imm) \in Nat /\ 8 * WordBytes - ShiftBy(imm) \in Nat
BY WordBytesAssumption DEF ShiftBy

LEMMA UnaryWord ==
    ASSUME NEW dialect, NEW op \in OneReg \cup RegImm, NEW a \in Int, NEW imm \in Int
    PROVE  Unary(dialect, op, a, imm) \in Word
<1>. DEFINE s == ShiftBy(imm)
            shl == (a % Exp(2, 8 * WordBytes - s)) * Exp(2, s)
            shr == a \div Exp(2, s)
            v == CASE op = "ADDI" -> a + imm
                   [] op = "SUBI" -> a - imm
                   [] op = "SHL"  -> shl
                   [] op = "SHR"  -> shr
                   [] op = "MZERO" -> 0
                   [] op = "INC" -> a + 1
                   [] op = "DEC" -> a - 1
                   [] op = "NOT" -> IF dialect = "isa" THEN -a - 1 ELSE -a
                   [] op = "NEG" -> IF dialect = "isa" THEN -a ELSE -a - 1
<1>1. Unary(dialect, op, a, imm) = to24(v)
  BY DEF Unary
<1>2. shl \in Int /\ shr \in Int
  <2>1. s \in Nat /\ 8 * WordBytes - s \in Nat
    BY ShiftByRange
  <2>2. Exp(2, s) \in Nat \ {0} /\ Exp(2, 8 * WordBytes - s) \in Nat \ {0}
    BY <2>1, Exp2Positive
  <2>. DEFINE d == Exp(2, s)
              e == Exp(2, 8 * WordBytes - s)
  <2>. HIDE DEF d, e, s
  <2>3. shr \in Int /\ a % e \in Int
    <3>1. d \in Nat \ {0} /\ e \in Nat \ {0} /\ shr = a \div d
      BY <2>2 DEF d, e
    <3>. HIDE DEF shr
    <3>. QED
      BY <3>1, DivMod
  <2>4. shl = (a % e) * d /\ d \in Int
    BY <2>2 DEF d, e
  <2>. QED
    BY <2>3, <2>4
<1>. HIDE DEF shl, shr
<1>3. v \in Int
  BY <1>2 DEF OneReg, RegImm
<1>. HIDE DEF v
<1>. QED
  BY <1>1, <1>3, To24Word

----------------------------------------------------------------------------
(* Memory *)

\* Finitely many bytes at addresses.
Memory(m) ==
    /\ IsFiniteSet(DOMAIN m)
    /\ \A a \in DOMAIN m : a \in Nat /\ m[a] \in Byte

LEMMA ByteAtType ==
    ASSUME NEW m, Memory(m), NEW a
    PROVE  ByteAt(m, a) \in Byte
BY DEF Memory, ByteAt, Byte

LEMMA BytesAtType ==
    ASSUME NEW m, Memory(m), NEW a, NEW n \in Int
    PROVE  /\ BytesAt(m, a, n) \in Seq(Byte)
           /\ Len(BytesAt(m, a, n)) = IF n < 0 THEN 0 ELSE n
<1>1. \A i \in 1 .. n : ByteAt(m, a + i - 1) \in Byte
  BY ByteAtType
<1>2. CASE n >= 0
  BY <1>1, <1>2 DEF BytesAt
<1>3. CASE n < 0
  <2>1. 1 .. n = {}
    BY <1>3
  <2>2. BytesAt(m, a, n) = <<>>
    BY <2>1 DEF BytesAt
  <2>. QED
    BY <1>3, <2>2
<1>. QED
  BY <1>2, <1>3

LEMMA OverlayType ==
    ASSUME NEW m, Memory(m), NEW a \in Nat, NEW bs \in Seq(Byte)
    PROVE  Memory(Overlay(m, a, bs))
<1>. DEFINE new == a .. a + Len(bs) - 1
            over == Overlay(m, a, bs)
<1>1. DOMAIN over = DOMAIN m \cup new
  BY DEF Overlay
<1>2. IsFiniteSet(DOMAIN over)
  <2>1. IsFiniteSet(new)
    BY FS_Interval
  <2>. QED
    BY <1>1, <2>1, FS_Union DEF Memory
<1>3. ASSUME NEW x \in new PROVE x \in Nat /\ over[x] \in Byte
  <2>1. x - a + 1 \in 1 .. Len(bs)
    OBVIOUS
  <2>2. over[x] = bs[x - a + 1]
    BY DEF Overlay
  <2>. QED
    BY <2>1, <2>2
<1>4. ASSUME NEW x \in DOMAIN m, x \notin new PROVE x \in Nat /\ over[x] \in Byte
  BY <1>4 DEF Overlay, Memory
<1>. HIDE DEF over, new
<1>5. Memory(over)
  BY <1>1, <1>2, <1>3, <1>4 DEF Memory
<1>. QED
  BY <1>5 DEF over

\* Every text ends: memory holds finitely many bytes that are not zero.
LEMMA TextEnds ==
    ASSUME NEW m, Memory(m), NEW a \in Nat
    PROVE  \E n \in Nat : /\ Text(m, a) = BytesAt(m, a, n)
                          /\ ByteAt(m, a + n) = 0
                          /\ \A j \in 0 .. n - 1 : ByteAt(m, a + j) # 0
<1>. DEFINE longest == Cardinality(DOMAIN m)
            ends == {k \in 0 .. longest : ByteAt(m, a + k) = 0}
            n == CHOOSE k \in 0 .. longest :
                    ByteAt(m, a + k) = 0 /\ \A j \in 0 .. k - 1 : ByteAt(m, a + j) # 0
<1>1. longest \in Nat /\ IsFiniteSet(DOMAIN m)
  BY FS_CardinalityType DEF Memory
<1>2. ends # {}
  <2>. SUFFICES ASSUME ends = {} PROVE FALSE
    OBVIOUS
  <2>. DEFINE all == a .. a + longest
  <2>1. all \subseteq DOMAIN m
    <3>. SUFFICES ASSUME NEW x \in all PROVE x \in DOMAIN m
      OBVIOUS
    <3>. HIDE DEF longest
    <3>1. x - a \in 0 .. longest /\ a + (x - a) = x
      BY <1>1
    <3>. QED
      BY <3>1 DEF ByteAt
  <2>2. Cardinality(all) = longest + 1
    <3>. HIDE DEF longest
    <3>. QED
      BY <1>1, FS_Interval
  <2>3. Cardinality(all) <= longest
    <3>. HIDE DEF all
    <3>. QED
      BY <1>1, <2>1, FS_Subset
  <2>. HIDE DEF longest, all
  <2>. QED
    BY <1>1, <2>2, <2>3
<1>. HIDE DEF longest
<1>3. \E k \in ends : \A j \in ends : k <= j
  <2>1. ends \in SUBSET Nat
    BY <1>1
  <2>. HIDE DEF ends
  <2>. QED
    BY <1>2, <2>1, LeastNumber
<1>4. \E k \in 0 .. longest : ByteAt(m, a + k) = 0 /\ \A j \in 0 .. k - 1 : ByteAt(m, a + j) # 0
  <2>1. PICK k \in ends : \A j \in ends : k <= j
    BY <1>3
  <2>2. \A j \in 0 .. k - 1 : j \in 0 .. longest /\ ~(k <= j)
    BY <1>1
  <2>. QED
    BY <2>1, <2>2
<1>5. /\ n \in 0 .. longest
      /\ ByteAt(m, a + n) = 0 /\ \A j \in 0 .. n - 1 : ByteAt(m, a + j) # 0
  BY <1>4
<1>6. Text(m, a) = BytesAt(m, a, n)
  BY DEF Text, longest
<1>. HIDE DEF n
<1>. QED
  BY <1>1, <1>5, <1>6

LEMMA TextType ==
    ASSUME NEW m, Memory(m), NEW a \in Nat
    PROVE  Text(m, a) \in Seq(Byte) /\ Len(Text(m, a)) \in Nat
<1>1. PICK n \in Nat : Text(m, a) = BytesAt(m, a, n)
  BY TextEnds
<1>. QED
  BY <1>1, BytesAtType

LEMMA CompareType ==
    ASSUME NEW m, NEW a, NEW b
    PROVE  Compare(m, a, b) \in Int
BY DEF Compare

LEMMA DigitsType ==
    ASSUME NEW v, NEW base
    PROVE  Digits(v, base) \in Int
<1>. DEFINE high == 7
            ks == {k \in 1 .. high : v >= Exp(base, k)}
<1>1. IsFiniteSet(1 .. high) /\ ks \subseteq 1 .. high
  <2>1. 1 \in Int /\ high \in Int
    OBVIOUS
  <2>2. ks \subseteq 1 .. high
    OBVIOUS
  <2>. HIDE DEF high
  <2>. QED
    BY <2>1, <2>2, FS_Interval
<1>2. Cardinality(ks) \in Nat
  <2>. HIDE DEF ks
  <2>. QED
    BY <1>1, FS_Subset, FS_CardinalityType
<1>. QED
  BY <1>2 DEF Digits
=============================================================================
