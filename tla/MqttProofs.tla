---------------------------- MODULE MqttProofs ----------------------------
(***************************************************************************)
(* Facts about the operators that the broker and the client share.         *)
(***************************************************************************)
EXTENDS Mqtt, FunctionTheorems, FiniteSetTheorems, SequenceTheorems, TLAPS

---------------------------------------------------------------------------
(***************************************************************************)
(* Searching tables from index 0.                                          *)
(***************************************************************************)

\* A rank within a finite set of integers is a position in it.
LEMMA RankRange ==
  ASSUME NEW S \in SUBSET Int, IsFiniteSet(S), NEW x \in S
  PROVE  Rank(S, x) \in 1 .. Cardinality(S)
<1> DEFINE below == {y \in S : y <= x}
<1>1. IsFiniteSet(below) /\ Cardinality(below) <= Cardinality(S) /\ Cardinality(below) \in Nat
  BY FS_Subset, FS_CardinalityType
<1>2. Cardinality(below) # 0
  BY <1>1, FS_EmptySet, x \in below
<1>3. Cardinality(S) \in Nat
  BY FS_CardinalityType
<1> QED
  BY <1>1, <1>2, <1>3 DEF Rank

\* Ranks tell the elements apart.
LEMMA RankInjective ==
  ASSUME NEW S \in SUBSET Int, IsFiniteSet(S), NEW x \in S, NEW y \in S,
         Rank(S, x) = Rank(S, y)
  PROVE  x = y
<1> DEFINE below(z) == {w \in S : w <= z}
<1>1. ASSUME NEW u \in S, NEW v \in S, u < v
      PROVE  Rank(S, u) # Rank(S, v)
  <2>1. IsFiniteSet(below(v))
    BY FS_Subset
  <2>2. below(u) \subseteq below(v) /\ v \in below(v) /\ v \notin below(u)
    <3>1. u \in Int /\ v \in Int /\ \A w \in S : w \in Int
      OBVIOUS
    <3>2. \A w \in S : w <= u => w <= v
      BY <1>1, <3>1
    <3>3. ~(v <= u) /\ v <= v
      BY <1>1, <3>1
    <3> QED
      BY <3>2, <3>3
  <2>3. Cardinality(below(u)) # Cardinality(below(v))
    BY <2>1, <2>2, FS_Subset
  <2> QED
    BY <2>3 DEF Rank
<1>2. x \in Int /\ y \in Int
  OBVIOUS
<1> QED
  BY <1>1, <1>2

\* Every position of a finite set of integers is taken.
LEMMA RankOnto ==
  ASSUME NEW S \in SUBSET Int, IsFiniteSet(S), NEW k \in 1 .. Cardinality(S)
  PROVE  \E x \in S : Rank(S, x) = k
<1> DEFINE n == Cardinality(S)
           f == [x \in S |-> Rank(S, x)]
<1>1. n \in Nat
  BY FS_CardinalityType
<1>2. f \in [S -> 1 .. n]
  BY RankRange
<1>3. f \in Injection(S, 1 .. n)
  BY <1>2, RankInjective DEF Injection, IsInjective
<1>4. IsFiniteSet(1 .. n) /\ Cardinality(1 .. n) = n
  BY <1>1, FS_Interval
<1>5. f \in Surjection(S, 1 .. n)
  BY <1>3, <1>4, FS_Injection
<1> QED
  BY <1>5 DEF Surjection

\* InOrder lists elements of the set, one for each position.
LEMMA InOrderElement ==
  ASSUME NEW S \in SUBSET Int, IsFiniteSet(S), NEW k \in 1 .. Cardinality(S)
  PROVE  InOrder(S)[k] \in S
BY RankOnto DEF InOrder

\* The first of a non-empty set of integers from 0 on exists.
LEMMA LowestElement ==
  ASSUME NEW n \in Int, NEW S \in SUBSET (0 .. n), S # {}
  PROVE  Lowest(S) \in S
<1>0. IsFiniteSet(0 .. n)
  BY 0 \in Int, FS_Interval
<1>1. IsFiniteSet(S) /\ S \in SUBSET Int
  <2>1. IsFiniteSet(S)
    BY <1>0, FS_Subset
  <2>2. S \subseteq Int
    OBVIOUS
  <2> QED
    BY <2>1, <2>2
<1>2. Cardinality(S) \in Nat \ {0}
  BY <1>1, FS_CardinalityType, FS_EmptySet
<1>3. PICK x \in S : Rank(S, x) = 1
  BY <1>1, <1>2, RankOnto
<1> DEFINE below == {y \in S : y <= x}
<1>4. IsFiniteSet(below) /\ Cardinality(below) = 1
  BY <1>1, <1>3, FS_Subset DEF Rank
<1>5. x \in below
  BY <1>1
<1>6. \A y \in S : y <= x => y = x
  BY <1>4, <1>5, FS_Singleton
<1>7. \A y \in S : x <= y
  BY <1>1, <1>6
<1> QED
  BY <1>7 DEF Lowest

\* Packet identifiers handed out are never 0.
LEMMA PidAfterType ==
  ASSUME NEW n \in Pids, NEW k \in Nat \ {0}
  PROVE  PidAfter(n, k) \in Pids \ {0}
BY PidMaxAssumption DEF PidAfter, Pids
===========================================================================
