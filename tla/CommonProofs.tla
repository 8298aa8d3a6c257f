---------------------------- MODULE CommonProofs ----------------------------
(***************************************************************************)
(* Lemmas about numbers and sequences that the proofs share.               *)
(*                                                                         *)
(* Induction over numbers is stated with sets instead of operators as      *)
(* parameters, so that the lemmas can be cited: a set of numbers that is   *)
(* not empty has a least member.  From it, the functions that a recursive  *)
(* definition over 0 .. n stands for exist, and are what it says.          *)
(***************************************************************************)
EXTENDS Integers, WellFoundedInduction, SequenceTheorems, TLAPS

---------------------------------------------------------------------------
(***************************************************************************)
(* Induction.                                                              *)
(***************************************************************************)
\* A set of natural numbers that is not empty has a least member.
LEMMA Least ==
  ASSUME NEW S \in SUBSET Nat, S # {}
  PROVE  \E m \in S : \A k \in S : m <= k
<1> DEFINE R == OpToRel(<, Nat)
<1>1. PICK m \in S : \A k \in S : <<k, m>> \notin R
  BY NatLessThanWellFounded, WFMin
<1>2. \A k \in S : ~(k < m)
  BY <1>1 DEF OpToRel
<1> QED
  BY <1>2

\* A set with 0 in it, and with each number the next one, holds all up to n.
LEMMA Climb ==
  ASSUME NEW n \in Nat, NEW S, 0 \in S, \A k \in 0 .. n - 1 : k \in S => k + 1 \in S
  PROVE  0 .. n \subseteq S
<1> DEFINE bad == (0 .. n) \ S
<1>1. ASSUME bad # {} PROVE FALSE
  <2>1. bad \in SUBSET Nat
    OBVIOUS
  <2>2. PICK m \in bad : \A k \in bad : m <= k
    <3> HIDE DEF bad
    <3> QED
      BY <1>1, <2>1, Least
  <2>3. m # 0 /\ m \in 0 .. n
    OBVIOUS
  <2>4. m - 1 \in 0 .. n - 1 /\ m - 1 \in S
    BY <2>2, <2>3
  <2>5. (m - 1) + 1 \in S
    BY <2>4
  <2> QED
    BY <2>3, <2>5
<1> QED
  BY <1>1

\* The functions that start with a and take the steps up to n, where step[k][x] is
\* what comes at k after x.
Stepping(n, A, a, step) ==
  {f \in [0 .. n -> A] : f[0] = a /\ \A k \in 1 .. n : f[k] = step[k][f[k - 1]]}

\* There is one.
LEMMA StepsTaken ==
  ASSUME NEW n \in Nat, NEW A, NEW a \in A, NEW step \in [1 .. n -> [A -> A]]
  PROVE  Stepping(n, A, a, step) # {}
<1> DEFINE Taken(m) == \E f \in [0 .. m -> A] :
                         f[0] = a /\ \A k \in 1 .. m : f[k] = step[k][f[k - 1]]
           S == {m \in 0 .. n : Taken(m)}
<1>1. 0 \in S
  <2> DEFINE f == [k \in 0 .. 0 |-> a]
  <2>1. f \in [0 .. 0 -> A] /\ f[0] = a /\ 1 .. 0 = {} /\ 0 \in 0 .. n
    OBVIOUS
  <2> QED
    BY <2>1
<1>2. ASSUME NEW m \in 0 .. n - 1, m \in S
      PROVE  m + 1 \in S
  <2>1. PICK f \in [0 .. m -> A] : f[0] = a /\ \A k \in 1 .. m : f[k] = step[k][f[k - 1]]
    BY <1>2
  <2> DEFINE g == [k \in 0 .. m + 1 |-> IF k = m + 1 THEN step[m + 1][f[m]] ELSE f[k]]
  <2>2. m + 1 \in 1 .. n /\ m \in 0 .. m /\ m + 1 \in 0 .. n
    OBVIOUS
  <2>3. step[m + 1][f[m]] \in A
    BY <2>2
  <2>4. g \in [0 .. m + 1 -> A]
    BY <2>3
  <2>5. g[0] = a
    BY <2>1
  <2>6. ASSUME NEW k \in 1 .. m + 1
        PROVE  g[k] = step[k][g[k - 1]]
    <3>1. CASE k = m + 1
      <4>1. k - 1 = m /\ k \in 0 .. m + 1 /\ m \in 0 .. m + 1 /\ m # m + 1
        BY <3>1
      <4>2. g[k] = step[m + 1][f[m]] /\ g[m] = f[m]
        BY <3>1, <4>1
      <4> QED
        BY <3>1, <4>1, <4>2
    <3>2. CASE k # m + 1
      <4>1. k \in 1 .. m /\ k - 1 \in 0 .. m + 1 /\ k - 1 # m + 1 /\ k \in 0 .. m + 1
        BY <3>2
      <4>2. g[k] = f[k] /\ g[k - 1] = f[k - 1]
        BY <3>2, <4>1
      <4> QED
        BY <2>1, <4>1, <4>2
    <3> QED
      BY <3>1, <3>2
  <2> HIDE DEF g
  <2>7. Taken(m + 1)
    BY <2>4, <2>5, <2>6
  <2> QED
    BY <2>2, <2>7
<1> HIDE DEF S
<1>3. 0 .. n \subseteq S
  BY <1>1, <1>2, Climb
<1>4. n \in S
  BY <1>3
<1> QED
  BY <1>4 DEF S, Stepping

---------------------------------------------------------------------------
(***************************************************************************)
(* Remainders.                                                             *)
(***************************************************************************)
\* What is left of x after dividing by R, if it is the remainder of a division.
LEMMA Remainder ==
  ASSUME NEW q \in Nat, NEW r \in Nat, NEW R \in Nat \ {0}, r < R
  PROVE  (R * q + r) % R = r
OBVIOUS

\* Every number can be divided.
LEMMA Division ==
  ASSUME NEW n \in Nat, NEW R \in Nat \ {0}
  PROVE  \E q \in Nat, r \in 0 .. R - 1 : n = R * q + r
<1> DEFINE Divided(x) == \E q \in Nat, r \in 0 .. R - 1 : x = R * q + r
           S == {x \in 0 .. n : Divided(x)}
<1>1. 0 \in S
  <2>1. 0 = R * 0 + 0 /\ 0 \in 0 .. R - 1 /\ 0 \in 0 .. n
    OBVIOUS
  <2> QED
    BY <2>1
<1>2. ASSUME NEW x \in 0 .. n - 1, x \in S
      PROVE  x + 1 \in S
  <2>1. PICK q \in Nat, r \in 0 .. R - 1 : x = R * q + r
    BY <1>2
  <2>2. CASE r + 1 < R
    <3>1. x + 1 = R * q + (r + 1) /\ r + 1 \in 0 .. R - 1 /\ x + 1 \in 0 .. n
      BY <2>1, <2>2
    <3> QED
      BY <3>1
  <2>3. CASE r + 1 = R
    <3>1. R * (q + 1) = R * q + R
      OBVIOUS
    <3>2. x + 1 = R * (q + 1) + 0 /\ 0 \in 0 .. R - 1 /\ x + 1 \in 0 .. n /\ q + 1 \in Nat
      BY <2>1, <2>3, <3>1
    <3> QED
      BY <3>2
  <2> QED
    BY <2>2, <2>3
<1> HIDE DEF S
<1>3. 0 .. n \subseteq S
  BY <1>1, <1>2, Climb
<1>4. n \in S
  BY <1>3
<1> QED
  BY <1>4 DEF S

\* Counting on from a remainder is counting on from the number.
LEMMA RemainderStep ==
  ASSUME NEW n \in Nat, NEW R \in Nat \ {0}
  PROVE  ((n % R) + 1) % R = (n + 1) % R
<1>1. PICK q \in Nat, r \in 0 .. R - 1 : n = R * q + r
  BY Division
<1>2. n % R = r
  BY <1>1, Remainder
<1>3. CASE r + 1 < R
  <2>1. n + 1 = R * q + (r + 1) /\ r + 1 = R * 0 + (r + 1) /\ r + 1 \in Nat
    BY <1>1
  <2>2. (R * q + (r + 1)) % R = r + 1 /\ (R * 0 + (r + 1)) % R = r + 1
    BY <1>3, <2>1, Remainder
  <2> QED
    BY <1>2, <2>1, <2>2
<1>4. CASE r + 1 = R
  <2>1. R * (q + 1) = R * q + R
    OBVIOUS
  <2>2. n + 1 = R * (q + 1) + 0 /\ r + 1 = R * 1 + 0
    BY <1>1, <1>4, <2>1
  <2>3. (R * (q + 1) + 0) % R = 0 /\ (R * 1 + 0) % R = 0
    BY Remainder
  <2> QED
    BY <1>2, <2>2, <2>3
<1> QED
  BY <1>3, <1>4

\* Counting on by less than the modulus changes a remainder.
LEMMA RemainderMoves ==
  ASSUME NEW R \in Nat \ {0}, NEW r \in 0 .. R - 1, NEW k \in 1 .. R - 1
  PROVE  (r + k) % R # r
<1>1. CASE r + k < R
  <2>1. (R * 0 + (r + k)) % R = r + k
    BY <1>1, Remainder
  <2> QED
    BY <2>1
<1>2. CASE r + k >= R
  <2>1. r + k - R \in Nat /\ r + k - R < R
    BY <1>2
  <2>2. (R * 1 + (r + k - R)) % R = r + k - R
    BY <2>1, Remainder
  <2>3. R * 1 + (r + k - R) = r + k
    OBVIOUS
  <2> QED
    BY <2>2, <2>3
<1> QED
  BY <1>1, <1>2

---------------------------------------------------------------------------
(***************************************************************************)
(* Stretches of sequences.                                                 *)
(***************************************************************************)
\* An element of a sequence.
LEMMA ElementType ==
  ASSUME NEW S, NEW q \in Seq(S), NEW k \in 1 .. Len(q)
  PROVE  q[k] \in S
OBVIOUS

\* A stretch of a sequence.
LEMMA StretchType ==
  ASSUME NEW S, NEW q \in Seq(S), NEW m \in 1 .. Len(q) + 1, NEW n \in m - 1 .. Len(q)
  PROVE  SubSeq(q, m, n) \in Seq(S) /\ Len(SubSeq(q, m, n)) = n - m + 1
<1>1. Len(q) \in Nat
  OBVIOUS
<1>2. m \in Int /\ n \in Int /\ m .. n \subseteq 1 .. Len(q)
  BY <1>1
<1>3. \A i \in m .. n : q[i] \in S
  BY <1>2, ElementType
<1>4. /\ SubSeq(q, m, n) \in Seq(S)
      /\ Len(SubSeq(q, m, n)) = IF m <= n THEN n - m + 1 ELSE 0
  BY <1>2, <1>3, SubSeqProperties
<1> QED
  BY <1>1, <1>2, <1>4

\* A stretch of a sequence, longer by one.
LEMMA StretchLonger ==
  ASSUME NEW S, NEW q \in Seq(S), NEW m \in 1 .. Len(q), NEW n \in m .. Len(q)
  PROVE  Append(SubSeq(q, m, n - 1), q[n]) = SubSeq(q, m, n)
<1> DEFINE a == SubSeq(q, m, n - 1)
           b == SubSeq(q, m, n)
<1>1. Len(q) \in Nat /\ m \in 1 .. Len(q) + 1 /\ n - 1 \in m - 1 .. Len(q) /\ n \in m - 1 .. Len(q)
  OBVIOUS
<1>2. a \in Seq(S) /\ Len(a) = n - m
  <2>1. a \in Seq(S) /\ Len(a) = n - 1 - m + 1
    BY <1>1, StretchType
  <2> QED
    BY <1>1, <2>1
<1>3. b \in Seq(S) /\ Len(b) = n - m + 1
  BY <1>1, StretchType
<1>4. q[n] \in S
  BY <1>1, ElementOfSeq
<1>5. \A k \in 1 .. n - m : a[k] = q[m + k - 1]
  BY <1>1
<1>6. \A k \in 1 .. n - m + 1 : b[k] = q[m + k - 1]
  BY <1>1
<1> HIDE DEF a, b
<1>7. /\ Append(a, q[n]) \in Seq(S) /\ Len(Append(a, q[n])) = n - m + 1
      /\ \A k \in 1 .. n - m : Append(a, q[n])[k] = a[k]
      /\ Append(a, q[n])[n - m + 1] = q[n]
  BY <1>1, <1>2, <1>4, AppendProperties
<1>8. \A k \in 1 .. n - m + 1 : Append(a, q[n])[k] = b[k]
  <2> SUFFICES ASSUME NEW k \in 1 .. n - m + 1
               PROVE  Append(a, q[n])[k] = b[k]
    OBVIOUS
  <2>1. CASE k \in 1 .. n - m
    BY <1>5, <1>6, <1>7, <2>1
  <2>2. CASE k = n - m + 1
    BY <1>1, <1>6, <1>7, <2>2
  <2>3. n - m \in Nat
    BY <1>1
  <2>4. k \in 1 .. n - m \/ k = n - m + 1
    BY <2>3
  <2> QED
    BY <2>1, <2>2, <2>4
<1>9. Append(a, q[n]) = b
  <2>1. Len(Append(a, q[n])) = Len(b) /\ \A k \in 1 .. Len(Append(a, q[n])) : Append(a, q[n])[k] = b[k]
    BY <1>3, <1>7, <1>8
  <2> DEFINE c == Append(a, q[n])
  <2>2. c \in Seq(S) /\ b \in Seq(S) /\ Len(c) = Len(b) /\ \A k \in 1 .. Len(c) : c[k] = b[k]
    BY <1>3, <1>7, <2>1
  <2> HIDE DEF c
  <2>3. c = b
    BY <2>2, SeqEqual
  <2> QED
    BY <2>3 DEF c
<1> QED
  BY <1>9 DEF a, b

\* What stands behind a sequence leaves it in place.
LEMMA StandsInFront ==
  ASSUME NEW S, NEW q \in Seq(S), NEW r \in Seq(S)
  PROVE  Len(q) <= Len(q \o r) /\ SubSeq(q \o r, 1, Len(q)) = q
<1> DEFINE b == q \o r
           a == SubSeq(b, 1, Len(q))
<1>1. Len(q) \in Nat /\ Len(r) \in Nat
  OBVIOUS
<1>2. /\ b \in Seq(S) /\ Len(b) = Len(q) + Len(r)
      /\ \A i \in 1 .. Len(q) + Len(r) : b[i] = IF i <= Len(q) THEN q[i] ELSE r[i - Len(q)]
  BY ConcatProperties
<1> HIDE DEF b
<1>3. 1 \in 1 .. Len(b) + 1 /\ Len(q) \in 1 - 1 .. Len(b)
  BY <1>1, <1>2
<1>4. a \in Seq(S) /\ Len(a) = Len(q)
  <2>1. a \in Seq(S) /\ Len(a) = Len(q) - 1 + 1
    BY <1>2, <1>3, StretchType
  <2> QED
    BY <1>1, <2>1
<1>5. \A i \in 1 .. Len(a) : a[i] = q[i]
  BY <1>1, <1>2, <1>4
<1> HIDE DEF a
<1>6. a = q
  BY <1>4, <1>5, SeqEqual
<1> QED
  BY <1>1, <1>2, <1>6 DEF a, b
=============================================================================
