-------------------------- MODULE TopicMatchProofs --------------------------
(***************************************************************************)
(* branch__match_topic decides by levels, but for "+" and an empty level   *)
(* at the end: proved for every valid filter and every topic of any length *)
(* over any characters.                                                    *)
(***************************************************************************)
EXTENDS TopicMatch, CommonProofs

---------------------------------------------------------------------------
(***************************************************************************)
(* The levels of a string are its stretches between the cuts C[1] .. C[n], *)
(* its separators and its two ends.                                        *)
(***************************************************************************)
\* ls are the levels of the first i characters of s, cut at C.
Cutting(s, i, ls, C) ==
  /\ C \in [1 .. Len(ls) + 1 -> 0 .. i + 1]
  /\ C[1] = 0 /\ C[Len(ls) + 1] = i + 1
  /\ \A a \in 1 .. Len(ls) : C[a] < C[a + 1]
  /\ \A a \in 2 .. Len(ls) : s[C[a]] = "/"
  /\ \A a \in 1 .. Len(ls) : \A j \in C[a] + 1 .. C[a + 1] - 1 : s[j] # "/"
  /\ \A a \in 1 .. Len(ls) : ls[a] = SubSeq(s, C[a] + 1, C[a + 1] - 1)

\* Lists of levels.
Split(S) == {ls \in Seq(Seq(S)) : Len(ls) \in Nat \ {0}}

\* A separator starts a level.
LEMMA CutAtSeparator ==
  ASSUME NEW S, NEW s \in Seq(S), NEW i \in 0 .. Len(s) - 1, s[i + 1] = "/",
         NEW ls \in Split(S), NEW C, Cutting(s, i, ls, C)
  PROVE  /\ Append(ls, <<>>) \in Split(S)
         /\ \E F : Cutting(s, i + 1, Append(ls, <<>>), F)
<1> DEFINE n  == Len(ls)
           ns == Append(ls, <<>>)
           F  == [a \in 1 .. n + 2 |-> IF a = n + 2 THEN i + 2 ELSE C[a]]
<1>1. n \in Nat \ {0} /\ ls \in Seq(Seq(S)) /\ <<>> \in Seq(S) /\ i \in Nat /\ Len(s) \in Nat
  BY DEF Split
<1>2. /\ ns \in Seq(Seq(S)) /\ Len(ns) = n + 1
      /\ \A a \in 1 .. n : ns[a] = ls[a]
      /\ ns[n + 1] = <<>>
  BY <1>1, AppendProperties
<1>3. /\ C \in [1 .. n + 1 -> 0 .. i + 1] /\ C[1] = 0 /\ C[n + 1] = i + 1
      /\ \A a \in 1 .. n : C[a] < C[a + 1]
      /\ \A a \in 2 .. n : s[C[a]] = "/"
  BY DEF Cutting
<1>4. /\ \A a \in 1 .. n : \A j \in C[a] + 1 .. C[a + 1] - 1 : s[j] # "/"
      /\ \A a \in 1 .. n : ls[a] = SubSeq(s, C[a] + 1, C[a + 1] - 1)
  BY DEF Cutting
<1> HIDE DEF n, ns
<1>5. \A a \in 1 .. n + 1 : C[a] \in 0 .. i + 1
  BY <1>1, <1>3
<1>6. /\ F \in [1 .. n + 2 -> 0 .. i + 2]
      /\ \A a \in 1 .. n + 1 : F[a] = C[a]
      /\ F[n + 2] = i + 2
  <2>1. \A a \in 1 .. n + 2 : a # n + 2 => a \in 1 .. n + 1
    BY <1>1
  <2>2. \A a \in 1 .. n + 2 : (IF a = n + 2 THEN i + 2 ELSE C[a]) \in 0 .. i + 2
    BY <1>1, <1>5, <2>1
  <2>3. \A a \in 1 .. n + 1 : a \in 1 .. n + 2 /\ a # n + 2
    BY <1>1
  <2>4. n + 2 \in 1 .. n + 2
    BY <1>1
  <2> QED
    BY <2>2, <2>3, <2>4
<1> HIDE DEF F
<1>7. 1 \in 1 .. n + 1 /\ n + 1 \in 1 .. n + 1 /\ \A a \in 1 .. n : a \in 1 .. n + 1 /\ a + 1 \in 1 .. n + 1
  BY <1>1
<1>8. F[1] = 0 /\ F[n + 1] = i + 1
  BY <1>3, <1>6, <1>7
<1>9. \A a \in 1 .. n + 1 : a \in 1 .. n \/ a = n + 1
  BY <1>1
<1>10. (n + 1) + 1 = n + 2 /\ (i + 1) + 1 = i + 2 /\ i + 1 < i + 2
  BY <1>1
<1>11. \A a \in 1 .. n + 1 : F[a] < F[a + 1]
  BY <1>3, <1>6, <1>7, <1>8, <1>9, <1>10
<1>12. \A a \in 2 .. n + 1 : s[F[a]] = "/"
  <2> SUFFICES ASSUME NEW a \in 2 .. n + 1 PROVE s[F[a]] = "/"
    OBVIOUS
  <2>1. CASE a \in 2 .. n
    <3>1. a \in 1 .. n + 1
      BY <1>1
    <3> QED
      BY <1>3, <1>6, <2>1, <3>1
  <2>2. CASE a = n + 1
    BY <1>8, <2>2
  <2> QED
    BY <1>1, <2>1, <2>2
<1>13. \A a \in 1 .. n + 1 : \A j \in F[a] + 1 .. F[a + 1] - 1 : s[j] # "/"
  <2> SUFFICES ASSUME NEW a \in 1 .. n + 1, NEW j \in F[a] + 1 .. F[a + 1] - 1 PROVE s[j] # "/"
    OBVIOUS
  <2>1. CASE a \in 1 .. n
    <3>1. F[a] = C[a] /\ F[a + 1] = C[a + 1]
      BY <1>6, <1>7, <2>1
    <3> QED
      BY <1>4, <2>1, <3>1
  <2>2. CASE a = n + 1
    <3>1. F[a] = i + 1 /\ F[a + 1] = i + 2
      BY <1>6, <1>8, <1>10, <2>2
    <3>2. (i + 1) + 1 .. (i + 2) - 1 = {}
      BY <1>1
    <3> QED
      BY <3>1, <3>2
  <2> QED
    BY <1>9, <2>1, <2>2
<1>14. \A a \in 1 .. n + 1 : ns[a] = SubSeq(s, F[a] + 1, F[a + 1] - 1)
  <2> SUFFICES ASSUME NEW a \in 1 .. n + 1 PROVE ns[a] = SubSeq(s, F[a] + 1, F[a + 1] - 1)
    OBVIOUS
  <2>1. CASE a \in 1 .. n
    <3>1. F[a] = C[a] /\ F[a + 1] = C[a + 1]
      BY <1>6, <1>7, <2>1
    <3>2. ns[a] = ls[a]
      BY <1>2, <2>1
    <3> QED
      BY <1>4, <2>1, <3>1, <3>2
  <2>2. CASE a = n + 1
    <3>1. F[a] + 1 = i + 2 /\ F[a + 1] - 1 = i + 1
      BY <1>1, <1>6, <1>8, <1>10, <2>2
    <3>2. SubSeq(s, i + 2, i + 1) = <<>>
      BY <1>1
    <3> QED
      BY <1>2, <2>2, <3>1, <3>2
  <2> QED
    BY <1>9, <2>1, <2>2
<1>15. Cutting(s, i + 1, ns, F)
  BY <1>2, <1>6, <1>8, <1>10, <1>11, <1>12, <1>13, <1>14 DEF Cutting
<1>16. ns \in Split(S)
  BY <1>1, <1>2 DEF Split
<1> QED
  BY <1>15, <1>16 DEF ns

\* Any other character is added to the last level.
LEMMA CutInLevel ==
  ASSUME NEW S, NEW s \in Seq(S), NEW i \in 0 .. Len(s) - 1, s[i + 1] # "/",
         NEW ls \in Split(S), NEW C, Cutting(s, i, ls, C)
  PROVE  \E F : Cutting(s, i + 1, [ls EXCEPT ![Len(ls)] = Append(@, s[i + 1])], F)
<1> DEFINE n  == Len(ls)
           ns == [ls EXCEPT ![Len(ls)] = Append(@, s[i + 1])]
           F  == [a \in 1 .. n + 1 |-> IF a = n + 1 THEN i + 2 ELSE C[a]]
<1>1. n \in Nat \ {0} /\ ls \in Seq(Seq(S)) /\ i \in Nat /\ Len(s) \in Nat /\ s[i + 1] \in S
  BY DEF Split
<1>2. /\ Len(ns) = n
      /\ \A a \in 1 .. n - 1 : ns[a] = ls[a]
      /\ ns[n] = Append(ls[n], s[i + 1])
  BY <1>1
<1>3. /\ C \in [1 .. n + 1 -> 0 .. i + 1] /\ C[1] = 0 /\ C[n + 1] = i + 1
      /\ \A a \in 1 .. n : C[a] < C[a + 1]
      /\ \A a \in 2 .. n : s[C[a]] = "/"
  BY DEF Cutting
<1>4. /\ \A a \in 1 .. n : \A j \in C[a] + 1 .. C[a + 1] - 1 : s[j] # "/"
      /\ \A a \in 1 .. n : ls[a] = SubSeq(s, C[a] + 1, C[a + 1] - 1)
  BY DEF Cutting
<1> HIDE DEF n, ns
<1>5. \A a \in 1 .. n : C[a] \in 0 .. i + 1
  BY <1>1, <1>3
<1>6. /\ F \in [1 .. n + 1 -> 0 .. i + 2]
      /\ \A a \in 1 .. n : F[a] = C[a]
      /\ F[n + 1] = i + 2
  <2>1. \A a \in 1 .. n + 1 : a # n + 1 => a \in 1 .. n
    BY <1>1
  <2>2. \A a \in 1 .. n + 1 : (IF a = n + 1 THEN i + 2 ELSE C[a]) \in 0 .. i + 2
    BY <1>1, <1>5, <2>1
  <2>3. \A a \in 1 .. n : a \in 1 .. n + 1 /\ a # n + 1
    BY <1>1
  <2>4. n + 1 \in 1 .. n + 1
    BY <1>1
  <2> QED
    BY <2>2, <2>3, <2>4
<1> HIDE DEF F
<1>7. 1 \in 1 .. n /\ n \in 1 .. n /\ (\A a \in 1 .. n : a # n => a + 1 \in 1 .. n /\ a \in 1 .. n - 1)
  BY <1>1
<1>8. F[1] = 0 /\ F[n] = C[n] /\ C[n] \in Nat /\ C[n] < i + 1
  BY <1>3, <1>5, <1>6, <1>7
<1>9. \A a \in 1 .. n : F[a] < F[a + 1]
  <2> SUFFICES ASSUME NEW a \in 1 .. n PROVE F[a] < F[a + 1]
    OBVIOUS
  <2>1. CASE a = n
    BY <1>1, <1>6, <1>8, <2>1
  <2>2. CASE a # n
    BY <1>3, <1>6, <1>7, <2>2
  <2> QED
    BY <2>1, <2>2
<1>10. \A a \in 2 .. n : s[F[a]] = "/"
  <2>1. \A a \in 2 .. n : a \in 1 .. n
    BY <1>1
  <2> QED
    BY <1>3, <1>6, <2>1
<1>11. \A a \in 1 .. n : \A j \in F[a] + 1 .. F[a + 1] - 1 : s[j] # "/"
  <2> SUFFICES ASSUME NEW a \in 1 .. n, NEW j \in F[a] + 1 .. F[a + 1] - 1 PROVE s[j] # "/"
    OBVIOUS
  <2>1. CASE a = n
    <3>1. j \in C[n] + 1 .. i + 1
      <4>1. F[a] = C[n] /\ F[a + 1] = i + 2
        BY <1>6, <1>8, <2>1
      <4>2. j \in C[n] + 1 .. (i + 2) - 1
        BY <4>1
      <4> QED
        BY <1>1, <4>2
    <3>2. j \in C[n] + 1 .. (i + 1) - 1 \/ j = i + 1
      BY <1>1, <1>8, <3>1
    <3> QED
      BY <1>3, <1>4, <1>7, <3>2
  <2>2. CASE a # n
    <3>1. F[a] = C[a] /\ F[a + 1] = C[a + 1]
      BY <1>6, <1>7, <2>2
    <3> QED
      BY <1>4, <3>1
  <2> QED
    BY <2>1, <2>2
<1>12. \A a \in 1 .. n : ns[a] = SubSeq(s, F[a] + 1, F[a + 1] - 1)
  <2> SUFFICES ASSUME NEW a \in 1 .. n PROVE ns[a] = SubSeq(s, F[a] + 1, F[a + 1] - 1)
    OBVIOUS
  <2>1. CASE a = n
    <3>1. ns[a] = Append(SubSeq(s, C[n] + 1, C[n + 1] - 1), s[i + 1])
      BY <1>2, <1>4, <1>7, <2>1
    <3>2. C[n] + 1 \in 1 .. Len(s) /\ i + 1 \in C[n] + 1 .. Len(s) /\ C[n + 1] - 1 = (i + 1) - 1
      BY <1>1, <1>3, <1>8
    <3>3. Append(SubSeq(s, C[n] + 1, (i + 1) - 1), s[i + 1]) = SubSeq(s, C[n] + 1, i + 1)
      BY <3>2, StretchLonger
    <3>4. F[a] = C[n] /\ F[a + 1] - 1 = i + 1
      BY <1>1, <1>6, <1>8, <2>1
    <3> QED
      BY <3>1, <3>2, <3>3, <3>4
  <2>2. CASE a # n
    <3>1. F[a] = C[a] /\ F[a + 1] = C[a + 1]
      BY <1>6, <1>7, <2>2
    <3> QED
      BY <1>2, <1>4, <1>7, <2>2, <3>1
  <2> QED
    BY <2>1, <2>2
<1>13. (i + 1) + 1 = i + 2
  BY <1>1
<1>14. Cutting(s, i + 1, ns, F)
  BY <1>2, <1>6, <1>8, <1>9, <1>10, <1>11, <1>12, <1>13 DEF Cutting
<1> QED
  BY <1>14 DEF ns

\* Every string is cut into levels.
LEMMA LevelsCut ==
  ASSUME NEW S, NEW s \in Seq(S)
  PROVE  Levels(s) \in Split(S) /\ \E C : Cutting(s, Len(s), Levels(s), C)
<1> DEFINE n == Len(s)
           More(ls, k) == IF s[k] = "/" THEN Append(ls, <<>>)
                          ELSE [ls EXCEPT ![Len(ls)] = Append(@, s[k])]
           step == [k \in 1 .. n |-> [ls \in Split(S) |-> More(ls, k)]]
           Splits(f) == f = [k \in 0 .. n |-> IF k = 0 THEN <<<<>>>> ELSE More(f[k - 1], k)]
<1>1. n \in Nat
  OBVIOUS
<1>2. ASSUME NEW k \in 1 .. n, NEW ls \in Split(S)
      PROVE  More(ls, k) \in Split(S)
  <2>1. ls \in Seq(Seq(S)) /\ Len(ls) \in Nat \ {0} /\ <<>> \in Seq(S) /\ s[k] \in S
    BY DEF Split
  <2>2. Append(ls, <<>>) \in Seq(Seq(S)) /\ Len(Append(ls, <<>>)) \in Nat \ {0}
    BY <2>1, AppendProperties
  <2>3. ls[Len(ls)] \in Seq(S)
    BY <2>1
  <2>4. Append(ls[Len(ls)], s[k]) \in Seq(S)
    BY <2>1, <2>3, AppendProperties
  <2>5. [ls EXCEPT ![Len(ls)] = Append(@, s[k])] \in Split(S)
    <3> DEFINE l == Append(ls[Len(ls)], s[k])
               r == [ls EXCEPT ![Len(ls)] = l]
    <3> HIDE DEF l
    <3>1. l \in Seq(S)
      BY <2>4 DEF l
    <3>2. r \in Seq(Seq(S)) /\ Len(r) = Len(ls)
      BY <2>1, <3>1
    <3> QED
      BY <2>1, <3>2 DEF Split, l
  <2> QED
    BY <2>2, <2>5 DEF Split
<1>3. step \in [1 .. n -> [Split(S) -> Split(S)]]
  <2> HIDE DEF More
  <2> QED
    BY <1>2
<1>4. <<<<>>>> \in Split(S)
  BY DEF Split
<1>5. PICK f \in Stepping(n, Split(S), <<<<>>>>, step) : TRUE
  <2> HIDE DEF step, n
  <2>1. Stepping(n, Split(S), <<<<>>>>, step) # {}
    BY <1>1, <1>3, <1>4, StepsTaken, Zenon
  <2> QED
    BY <2>1
<1> HIDE DEF n, More
<1>6. f \in [0 .. n -> Split(S)] /\ f[0] = <<<<>>>>
  BY DEF Stepping
<1>7. ASSUME NEW k \in 1 .. n
      PROVE  f[k] = More(f[k - 1], k)
  <2>1. f[k] = step[k][f[k - 1]]
    BY DEF Stepping
  <2>2. k - 1 \in 0 .. n
    BY <1>1
  <2> QED
    BY <1>6, <2>1, <2>2
<1>8. Splits(f)
  <2>1. \A k \in 0 .. n : f[k] = IF k = 0 THEN <<<<>>>> ELSE More(f[k - 1], k)
    <3>1. \A k \in 0 .. n : k # 0 => k \in 1 .. n
      BY <1>1
    <3> QED
      BY <1>6, <1>7, <3>1
  <2> QED
    BY <1>6, <2>1
<1> DEFINE e == CHOOSE g : Splits(g)
<1>9. Splits(e)
  <2> HIDE DEF Splits
  <2> QED
    BY <1>8
<1>10. Levels(s) = e[n]
  BY DEF Levels, More, n
<1> HIDE DEF e
<1>11. e[0] = <<<<>>>> /\ \A k \in 1 .. n : e[k] = More(e[k - 1], k)
  <2>1. 0 \in 0 .. n /\ \A k \in 1 .. n : k \in 0 .. n /\ k # 0
    BY <1>1
  <2> QED
    BY <1>9, <2>1
<1> DEFINE Cut(k) == e[k] \in Split(S) /\ \E C : Cutting(s, k, e[k], C)
           cut == {k \in 0 .. n : Cut(k)}
<1>12. 0 \in cut
  <2> DEFINE C == [a \in 1 .. 2 |-> a - 1]
             l == <<<<>>>>
  <2>1. /\ C \in [1 .. 2 -> 0 .. 1] /\ C[1] = 0 /\ C[2] = 1
    OBVIOUS
  <2>2. Len(l) = 1 /\ l[1] = <<>> /\ SubSeq(s, 0 + 1, 1 - 1) = <<>>
    OBVIOUS
  <2> HIDE DEF C, l
  <2>3. /\ C \in [1 .. Len(l) + 1 -> 0 .. 0 + 1]
        /\ C[1] = 0 /\ C[Len(l) + 1] = 0 + 1
    BY <2>1, <2>2
  <2>4. \A a \in 1 .. Len(l) : a = 1 /\ C[a] = 0 /\ C[a + 1] = 1
    BY <2>1, <2>2
  <2>5. /\ \A a \in 1 .. Len(l) : C[a] < C[a + 1]
        /\ \A a \in 2 .. Len(l) : s[C[a]] = "/"
        /\ \A a \in 1 .. Len(l) : \A j \in C[a] + 1 .. C[a + 1] - 1 : s[j] # "/"
    BY <2>2, <2>4
  <2>6. \A a \in 1 .. Len(l) : l[a] = SubSeq(s, C[a] + 1, C[a + 1] - 1)
    BY <2>2, <2>4
  <2>7. Cutting(s, 0, l, C)
    BY <2>3, <2>5, <2>6 DEF Cutting
  <2>8. e[0] = l /\ e[0] \in Split(S) /\ 0 \in 0 .. n
    BY <1>1, <1>4, <1>11 DEF l
  <2>9. Cutting(s, 0, e[0], C)
    BY <2>7, <2>8
  <2> QED
    BY <2>8, <2>9
<1>13. ASSUME NEW k \in 0 .. n - 1, k \in cut
       PROVE  k + 1 \in cut
  <2>1. k + 1 \in 1 .. n /\ k + 1 \in 0 .. n /\ (k + 1) - 1 = k /\ k \in 0 .. Len(s) - 1
    BY <1>1 DEF n
  <2>2. PICK C : Cutting(s, k, e[k], C)
    BY <1>13
  <2>3. e[k] \in Split(S) /\ e[k + 1] = More(e[k], k + 1)
    BY <1>11, <1>13, <2>1
  <2>4. CASE s[k + 1] = "/"
    <3>1. e[k + 1] = Append(e[k], <<>>)
      BY <2>3, <2>4 DEF More
    <3> DEFINE ls == e[k]
    <3>2. ls \in Split(S) /\ Cutting(s, k, ls, C)
      BY <2>2, <2>3
    <3>3. k \in 0 .. Len(s) - 1 /\ s[k + 1] = "/"
      BY <2>1, <2>4
    <3> HIDE DEF ls, cut
    <3>4. Append(ls, <<>>) \in Split(S) /\ \E F : Cutting(s, k + 1, Append(ls, <<>>), F)
      BY <3>2, <3>3, CutAtSeparator
    <3> QED
      BY <2>1, <3>1, <3>4 DEF ls, cut
  <2>5. CASE s[k + 1] # "/"
    <3>1. e[k + 1] = [e[k] EXCEPT ![Len(e[k])] = Append(@, s[k + 1])]
      BY <2>3, <2>5 DEF More
    <3>2. e[k + 1] \in Split(S)
      BY <1>2, <2>1, <2>3
    <3> DEFINE ls == e[k]
    <3>3. ls \in Split(S) /\ Cutting(s, k, ls, C)
      BY <2>2, <2>3
    <3>4. k \in 0 .. Len(s) - 1 /\ s[k + 1] # "/"
      BY <2>1, <2>5
    <3> HIDE DEF ls, cut
    <3>5. \E F : Cutting(s, k + 1, [ls EXCEPT ![Len(ls)] = Append(@, s[k + 1])], F)
      BY <3>3, <3>4, CutInLevel
    <3> QED
      BY <2>1, <3>1, <3>2, <3>5 DEF ls, cut
  <2> QED
    BY <2>4, <2>5
<1> HIDE DEF cut
<1>14. 0 .. n \subseteq cut
  BY <1>1, <1>12, <1>13, Climb
<1>15. n \in cut
  BY <1>1, <1>14
<1> QED
  BY <1>10, <1>15 DEF cut, n

\* Level a of s is what is between two cuts.
IsLevel(s, ls, C, a) ==
  /\ C[a] \in 0 .. Len(s) /\ C[a + 1] \in 1 .. Len(s) + 1 /\ C[a] < C[a + 1]
  /\ Len(ls[a]) = C[a + 1] - C[a] - 1
  /\ \A i \in 1 .. C[a + 1] - C[a] - 1 : ls[a][i] = s[C[a] + i]
  /\ At(s, C[a + 1]) = IF a = Len(ls) THEN End ELSE "/"
  /\ \A j \in C[a] + 1 .. C[a + 1] - 1 : At(s, j) = s[j] /\ s[j] \notin {"/", End}

LEMMA CutLevels ==
  ASSUME NEW S, End \notin S, NEW s \in Seq(S), NEW ls \in Split(S), NEW C,
         Cutting(s, Len(s), ls, C)
  PROVE  \A a \in 1 .. Len(ls) : IsLevel(s, ls, C, a)
<1> DEFINE n == Len(ls)
           l == Len(s)
<1>1. n \in Nat \ {0} /\ l \in Nat
  BY DEF Split
<1>2. /\ C \in [1 .. n + 1 -> 0 .. l + 1] /\ C[1] = 0 /\ C[n + 1] = l + 1
      /\ \A a \in 1 .. n : C[a] < C[a + 1]
      /\ \A a \in 2 .. n : s[C[a]] = "/"
  BY DEF Cutting
<1>3. /\ \A a \in 1 .. n : \A j \in C[a] + 1 .. C[a + 1] - 1 : s[j] # "/"
      /\ \A a \in 1 .. n : ls[a] = SubSeq(s, C[a] + 1, C[a + 1] - 1)
  BY DEF Cutting
<1> SUFFICES ASSUME NEW a \in 1 .. n PROVE IsLevel(s, ls, C, a)
  OBVIOUS
<1> HIDE DEF n
<1>4. a \in 1 .. n + 1 /\ a + 1 \in 1 .. n + 1
  BY <1>1
<1>5. C[a] \in 0 .. l /\ C[a + 1] \in 1 .. l + 1 /\ C[a] < C[a + 1]
  <2>1. C[a] \in 0 .. l + 1 /\ C[a + 1] \in 0 .. l + 1 /\ C[a] < C[a + 1]
    BY <1>2, <1>4
  <2> QED
    BY <1>1, <2>1
<1>6. ls[a] = SubSeq(s, C[a] + 1, C[a + 1] - 1)
  BY <1>3
<1>7. Len(ls[a]) = C[a + 1] - C[a] - 1
  <2> DEFINE x == C[a]
             y == C[a + 1]
  <2>1. x + 1 \in 1 .. Len(s) + 1 /\ y - 1 \in (x + 1) - 1 .. Len(s) /\ x \in Int /\ y \in Int
    BY <1>1, <1>5
  <2>2. ls[a] = SubSeq(s, x + 1, y - 1)
    BY <1>6
  <2> HIDE DEF x, y
  <2>3. Len(SubSeq(s, x + 1, y - 1)) = (y - 1) - (x + 1) + 1
    BY <2>1, StretchType
  <2>4. (y - 1) - (x + 1) + 1 = y - x - 1
    BY <2>1
  <2> QED
    BY <2>2, <2>3, <2>4 DEF x, y
<1>8. ASSUME NEW i \in 1 .. C[a + 1] - C[a] - 1
      PROVE  ls[a][i] = s[C[a] + i]
  <2> DEFINE x == C[a]
             y == C[a + 1]
  <2>1. x \in Nat /\ y \in Nat /\ i \in 1 .. y - x - 1
    BY <1>1, <1>5
  <2>2. ls[a] = SubSeq(s, x + 1, y - 1)
    BY <1>6
  <2> HIDE DEF x, y
  <2>3. SubSeq(s, x + 1, y - 1)[i] = s[x + i]
    BY <2>1
  <2> QED
    BY <2>2, <2>3 DEF x
<1>9. At(s, C[a + 1]) = IF a = Len(ls) THEN End ELSE "/"
  <2>1. CASE a = n
    BY <1>1, <1>2, <2>1 DEF At, n
  <2>2. CASE a # n
    <3>1. a + 1 \in 2 .. n /\ a + 1 \in 1 .. n
      BY <1>1, <2>2
    <3>2. s[C[a + 1]] = "/" /\ C[a + 1] < C[a + 2]
      <4>1. (a + 1) + 1 = a + 2
        OBVIOUS
      <4> QED
        BY <1>2, <3>1, <4>1
    <3>3. C[a + 2] \in 0 .. l + 1
      <4>1. a + 2 \in 1 .. n + 1
        BY <1>1, <2>2
      <4> QED
        BY <1>2, <4>1
    <3>4. C[a + 1] <= Len(s)
      BY <1>1, <1>5, <3>2, <3>3
    <3> QED
      BY <2>2, <3>2, <3>4 DEF At, n
  <2> QED
    BY <2>1, <2>2
<1>10. ASSUME NEW j \in C[a] + 1 .. C[a + 1] - 1
       PROVE  At(s, j) = s[j] /\ s[j] \notin {"/", End}
  <2>1. j \in 1 .. Len(s)
    BY <1>1, <1>5
  <2>2. s[j] \in S
    BY <2>1, ElementType
  <2>3. s[j] # "/"
    BY <1>3
  <2> QED
    BY <2>1, <2>2, <2>3 DEF At
<1> QED
  BY <1>5, <1>7, <1>8, <1>9, <1>10 DEF IsLevel

\* The loop that skips the rest of a level stops where the level is cut.
LEMMA LevelEndIsCut ==
  ASSUME NEW S, NEW s \in Seq(S), NEW ls, NEW D, NEW a, IsLevel(s, ls, D, a),
         NEW t \in D[a] + 1 .. D[a + 1]
  PROVE  LevelEnd(s, t) = D[a + 1]
<1> DEFINE e == D[a + 1]
           Stops(k) == /\ k \in t .. Len(s) + 1
                       /\ At(s, k) \in {"/", End}
                       /\ \A i \in t .. k - 1 : At(s, i) \notin {"/", End}
<1>1. D[a] \in Nat /\ e \in 1 .. Len(s) + 1 /\ Len(s) \in Nat /\ t \in D[a] + 1 .. e
  BY DEF IsLevel
<1>2. At(s, e) \in {"/", End}
  BY DEF IsLevel
<1>3. \A i \in D[a] + 1 .. e - 1 : At(s, i) \notin {"/", End}
  BY DEF IsLevel
<1>4. LevelEnd(s, t) = CHOOSE k : Stops(k)
  BY DEF LevelEnd
<1> HIDE DEF e
<1>5. Stops(e)
  <2>1. \A i \in t .. e - 1 : i \in D[a] + 1 .. e - 1
    BY <1>1
  <2>2. e \in t .. Len(s) + 1
    BY <1>1
  <2> QED
    BY <1>2, <1>3, <2>1, <2>2
<1>6. ASSUME NEW k, Stops(k)
      PROVE  k = e
  <2>1. k \in Nat /\ k \in t .. Len(s) + 1 /\ t \in Nat
    BY <1>1, <1>6
  <2>2. ~(k < e)
    <3> SUFFICES ASSUME k < e PROVE FALSE
      OBVIOUS
    <3>1. k \in D[a] + 1 .. e - 1
      BY <1>1, <2>1
    <3> QED
      BY <1>3, <1>6, <3>1
  <2>3. ~(e < k)
    <3> SUFFICES ASSUME e < k PROVE FALSE
      OBVIOUS
    <3>1. e \in t .. k - 1
      BY <1>1, <2>1
    <3> QED
      BY <1>2, <1>6, <3>1
  <2> QED
    BY <1>1, <2>1, <2>2, <2>3
<1> HIDE DEF Stops
<1> QED
  BY <1>4, <1>5, <1>6 DEF e

---------------------------------------------------------------------------
(***************************************************************************)
(* The function's loop, from the end of the filter backwards.              *)
(***************************************************************************)
\* The state of the specification: any filter and any topic.
Strings == filter \in Seq(FilterChars) /\ topic \in Seq(Chars)

\* Where the loop may be to return 1, for every place of the filter's pointer.
Walk(m) ==
  /\ \A f \in 1 .. Len(filter) : m[f] = Matching(filter, topic, f, m[f + 1])
  /\ m[Len(filter) + 1] = Matching(filter, topic, Len(filter) + 1, {})
  /\ MatchTopic(filter, topic) <=> 1 \in m[1]

\* At the end of the filter nothing that comes next matters.
LEMMA MatchingAtEnd ==
  ASSUME Strings, NEW x
  PROVE  Matching(filter, topic, Len(filter) + 1, x) = Matching(filter, topic, Len(filter) + 1, {})
<1> DEFINE e == Len(filter) + 1
<1>1. At(filter, e) = End
  BY DEF At, Strings
<1> HIDE DEF e
<1> QED
  BY <1>1 DEF Matching, e

\* The recursive function that the loop stands for exists.
LEMMA Walked ==
  ASSUME Strings
  PROVE  \E m : Walk(m)
<1> DEFINE n == Len(filter)
           A == SUBSET (1 .. Len(topic) + 1)
           M(f, x) == Matching(filter, topic, f, x)
           step == [k \in 1 .. n |-> [x \in A |-> M(n + 1 - k, x)]]
           last == M(n + 1, {})
           Walks(g) == g = [f \in 1 .. n + 1 |-> M(f, g[f + 1])]
<1>1. n \in Nat
  BY DEF Strings
<1>2. \A f, x : M(f, x) \in A
  BY DEF Matching
<1>3. \A x : M(n + 1, x) = last
  BY MatchingAtEnd
<1> HIDE DEF n, A, M
<1>4. step \in [1 .. n -> [A -> A]] /\ last \in A
  BY <1>2
<1>5. PICK h \in Stepping(n, A, last, step) : TRUE
  <2> HIDE DEF step, last
  <2>1. Stepping(n, A, last, step) # {}
    BY <1>1, <1>4, StepsTaken, Zenon
  <2> QED
    BY <2>1
<1>6. h \in [0 .. n -> A] /\ h[0] = last
  BY DEF Stepping
<1>7. ASSUME NEW k \in 1 .. n
      PROVE  h[k] = M(n + 1 - k, h[k - 1])
  <2>1. h[k] = step[k][h[k - 1]]
    BY DEF Stepping
  <2>2. k - 1 \in 0 .. n
    BY <1>1
  <2> QED
    BY <1>6, <2>1, <2>2
<1> DEFINE g == [f \in 1 .. n + 1 |-> h[n + 1 - f]]
<1>8. ASSUME NEW f \in 1 .. n + 1
      PROVE  g[f] = M(f, g[f + 1])
  <2>1. CASE f = n + 1
    <3>1. n + 1 - f = 0 /\ g[f] = h[n + 1 - f]
      BY <1>1, <2>1
    <3>2. g[f] = last
      BY <1>6, <3>1
    <3> QED
      BY <1>3, <2>1, <3>2
  <2>2. CASE f # n + 1
    <3>1. /\ n + 1 - f \in 1 .. n /\ f + 1 \in 1 .. n + 1
          /\ n + 1 - (n + 1 - f) = f /\ (n + 1 - f) - 1 = n + 1 - (f + 1)
      BY <1>1, <2>2
    <3>2. h[n + 1 - f] = M(f, h[n + 1 - (f + 1)])
      BY <1>7, <3>1
    <3> QED
      BY <3>1, <3>2
  <2> QED
    BY <2>1, <2>2
<1>9. Walks(g)
  <2> DEFINE G == g
  <2>1. G = [f \in 1 .. n + 1 |-> G[f]]
    OBVIOUS
  <2>2. \A f \in 1 .. n + 1 : G[f] = M(f, G[f + 1])
    BY <1>8
  <2> HIDE DEF G
  <2>3. Walks(G)
    BY <2>1, <2>2
  <2> QED
    BY <2>3 DEF G
<1> DEFINE m == CHOOSE x : Walks(x)
<1>10. Walks(m)
  <2> HIDE DEF Walks, g
  <2> QED
    BY <1>9
<1>11. MatchTopic(filter, topic) <=> 1 \in m[1]
  BY DEF MatchTopic, M, n
<1> HIDE DEF m
<1>12. \A f \in 1 .. n + 1 : m[f] = M(f, m[f + 1])
  BY <1>10
<1>13. \A f \in 1 .. n : m[f] = M(f, m[f + 1])
  <2>1. \A f \in 1 .. n : f \in 1 .. n + 1
    BY <1>1
  <2> QED
    BY <1>12, <2>1
<1>14. m[n + 1] = last
  <2>1. n + 1 \in 1 .. n + 1
    BY <1>1
  <2> QED
    BY <1>3, <1>12, <2>1
<1>15. Walk(m)
  BY <1>11, <1>13, <1>14 DEF Walk, M, n
<1> QED
  BY <1>15

---------------------------------------------------------------------------
(***************************************************************************)
(* The loop against the levels.                                            *)
(***************************************************************************)
\* The levels fs of the filter, which is valid, and ts of the topic, and their cuts.
Setting(fs, C, ts, D) ==
  /\ Strings
  /\ ValidFilter(filter) /\ fs = Levels(filter) /\ ts = Levels(topic)
  /\ fs \in Split(FilterChars) /\ ts \in Split(Chars)
  /\ C[1] = 0 /\ D[1] = 0 /\ C[Len(fs) + 1] = Len(filter) + 1
  /\ \A a \in 1 .. Len(fs) : IsLevel(filter, fs, C, a)
  /\ \A a \in 1 .. Len(ts) : IsLevel(topic, ts, D, a)

LEMMA Settings ==
  ASSUME Strings, ValidFilter(filter)
  PROVE  \E C, D : Setting(Levels(filter), C, Levels(topic), D)
<1> DEFINE fs == Levels(filter)
           ts == Levels(topic)
<1>1. End \notin FilterChars /\ End \notin Chars
  BY CharsAssumption DEF FilterChars
<1>2. filter \in Seq(FilterChars) /\ topic \in Seq(Chars)
  BY DEF Strings
<1>3. fs \in Split(FilterChars) /\ \E C : Cutting(filter, Len(filter), fs, C)
  BY <1>2, LevelsCut
<1>4. ts \in Split(Chars) /\ \E D : Cutting(topic, Len(topic), ts, D)
  BY <1>2, LevelsCut
<1> HIDE DEF fs, ts
<1>5. PICK C : Cutting(filter, Len(filter), fs, C)
  BY <1>3
<1>6. PICK D : Cutting(topic, Len(topic), ts, D)
  BY <1>4
<1>7. \A a \in 1 .. Len(fs) : IsLevel(filter, fs, C, a)
  BY <1>1, <1>2, <1>3, <1>5, CutLevels
<1>8. \A a \in 1 .. Len(ts) : IsLevel(topic, ts, D, a)
  BY <1>1, <1>2, <1>4, <1>6, CutLevels
<1>9. C[1] = 0 /\ D[1] = 0 /\ C[Len(fs) + 1] = Len(filter) + 1
  BY <1>5, <1>6 DEF Cutting
<1> QED
  BY <1>3, <1>4, <1>7, <1>8, <1>9 DEF Setting, fs, ts

\* How many levels of the filter stand for one level of the topic each.
Own(fs) == IF fs[Len(fs)] = <<"#">> THEN Len(fs) - 1 ELSE Len(fs)

\* The rule the loop follows for level k: LevelMatches, but not for an empty end.
LevelMeets(level, ts, k) == level = ts[k] \/ (level = <<"+">> /\ ~(k = Len(ts) /\ ts[k] = <<>>))

\* What is left of that rule from level a on.
Rest(fs, ts, a) ==
  /\ IF fs[Len(fs)] = <<"#">> THEN Own(fs) <= Len(ts) ELSE Own(fs) = Len(ts)
  /\ \A k \in a .. Own(fs) : LevelMeets(fs[k], ts, k)

\* What is left of level a matches, from f in the filter and t in the topic.
EndsAlike(C, ts, D, a, f, t) ==
  \/ /\ C[a + 1] - f = D[a + 1] - t
     /\ \A i \in 0 .. C[a + 1] - f - 1 : filter[f + i] = topic[t + i]
  \/ At(filter, f) = "+" /\ ~(a = Len(ts) /\ t = D[a + 1])

\* From f on in the filter, the loop decides by levels.
Agrees(m, fs, C, ts, D, f) ==
  \A a \in 1 .. Own(fs) : a <= Len(ts) =>
    \A t \in D[a] + 1 .. D[a + 1] : f \in C[a] + 1 .. C[a + 1] =>
      (t \in m[f] <=> EndsAlike(C, ts, D, a, f, t) /\ Rest(fs, ts, a + 1))

\* A wildcard fills its level, and only the last level is "#".
LEMMA Wildcards ==
  ASSUME NEW fs, NEW C, NEW ts, NEW D, Setting(fs, C, ts, D), NEW a \in 1 .. Len(fs),
         NEW f \in C[a] + 1 .. C[a + 1] - 1, filter[f] \in {"+", "#"}
  PROVE  /\ f = C[a] + 1 /\ C[a + 1] = f + 1 /\ fs[a] = <<filter[f]>>
         /\ filter[f] = "#" => a = Len(fs) /\ a \notin 1 .. Own(fs)
<1>1. IsLevel(filter, fs, C, a)
  BY DEF Setting
<1> DEFINE x == C[a]
           y == C[a + 1]
           i == f - x
<1>2. x \in Nat /\ y \in Nat
  BY <1>1 DEF IsLevel, Setting, Strings
<1>3. Len(fs[a]) = y - x - 1 /\ \A j \in 1 .. y - x - 1 : fs[a][j] = filter[x + j]
  BY <1>1 DEF IsLevel
<1>4. f \in x + 1 .. y - 1
  OBVIOUS
<1> HIDE DEF x, y
<1>5. i \in 1 .. y - x - 1 /\ x + i = f
  BY <1>2, <1>4
<1>6. /\ \A j \in 1 .. Len(fs[a]) : fs[a][j] \in {"+", "#"} => Len(fs[a]) = 1
      /\ fs[a] = <<"#">> => a = Len(fs)
  BY DEF Setting, ValidFilter
<1>7. fs[a][i] = filter[f]
  BY <1>3, <1>5
<1>8. Len(fs[a]) = 1
  BY <1>3, <1>5, <1>6, <1>7
<1>9. y = x + 2 /\ i = 1 /\ f = x + 1 /\ y = f + 1
  <2>1. y - x - 1 = 1
    BY <1>3, <1>8
  <2> QED
    BY <1>2, <1>4, <2>1
<1>10. fs[a] = <<filter[f]>>
  <2>1. fs[a] \in Seq(FilterChars)
    BY DEF Setting, Split
  <2>2. fs[a] = <<fs[a][1]>>
    BY <1>8, <2>1
  <2> QED
    BY <1>7, <1>9, <2>2
<1>11. filter[f] = "#" => a = Len(fs) /\ a \notin 1 .. Own(fs)
  <2>1. Len(fs) \in Nat
    BY DEF Setting, Split
  <2>2. filter[f] = "#" => a = Len(fs) /\ fs[Len(fs)] = <<"#">>
    BY <1>6, <1>10
  <2> QED
    BY <2>1, <2>2 DEF Own
<1> QED
  BY <1>9, <1>10, <1>11 DEF x, y

\* The start of level a: what is left of it is all of it.
LEMMA WholeLevel ==
  ASSUME NEW fs, NEW C, NEW ts, NEW D, Setting(fs, C, ts, D),
         NEW a \in 1 .. Own(fs), a \in 1 .. Len(fs), a \in 1 .. Len(ts)
  PROVE  EndsAlike(C, ts, D, a, C[a] + 1, D[a] + 1) <=> LevelMeets(fs[a], ts, a)
<1> DEFINE x == C[a]
           y == C[a + 1]
           v == D[a]
           w == D[a + 1]
           l == fs[a]
           r == ts[a]
<1>1. IsLevel(filter, fs, C, a) /\ IsLevel(topic, ts, D, a)
  BY DEF Setting
<1>2. /\ x \in Nat /\ y \in Nat /\ v \in Nat /\ w \in Nat /\ x < y /\ v < w
      /\ y <= Len(filter) + 1 /\ Len(filter) \in Nat
  <2>1. Len(filter) \in Nat /\ Len(topic) \in Nat
    BY DEF Setting, Strings
  <2>2. x \in 0 .. Len(filter) /\ y \in 1 .. Len(filter) + 1 /\ x < y
    BY <1>1 DEF IsLevel
  <2>3. v \in 0 .. Len(topic) /\ w \in 1 .. Len(topic) + 1 /\ v < w
    BY <1>1 DEF IsLevel
  <2> HIDE DEF x, y, v, w
  <2> QED
    BY <2>1, <2>2, <2>3
<1>3. /\ Len(l) = y - x - 1 /\ \A j \in 1 .. y - x - 1 : l[j] = filter[x + j]
      /\ Len(r) = w - v - 1 /\ \A j \in 1 .. w - v - 1 : r[j] = topic[v + j]
  BY <1>1 DEF IsLevel
<1>4. l \in Seq(FilterChars) /\ r \in Seq(FilterChars)
  <2>1. l \in Seq(FilterChars) /\ r \in Seq(Chars)
    BY DEF Setting, Split
  <2>2. Chars \subseteq FilterChars
    BY DEF FilterChars
  <2> QED
    BY <2>1, <2>2
<1>5. At(filter, y) \in {"/", End} /\ \A j \in x + 1 .. y - 1 : At(filter, j) = filter[j]
  BY <1>1 DEF IsLevel
<1>6. EndsAlike(C, ts, D, a, x + 1, v + 1) <=>
        \/ /\ y - (x + 1) = w - (v + 1)
           /\ \A i \in 0 .. y - (x + 1) - 1 : filter[(x + 1) + i] = topic[(v + 1) + i]
        \/ At(filter, x + 1) = "+" /\ ~(a = Len(ts) /\ v + 1 = w)
  BY DEF EndsAlike
<1>7. LevelMeets(l, ts, a) <=> l = r \/ (l = <<"+">> /\ ~(a = Len(ts) /\ r = <<>>))
  BY DEF LevelMeets
<1>8. ASSUME NEW f \in x + 1 .. y - 1, filter[f] = "+"
      PROVE  f = x + 1 /\ y = f + 1 /\ l = <<filter[f]>>
  BY <1>8, Wildcards
<1> HIDE DEF x, y, v, w, l, r
<1>9. (/\ y - (x + 1) = w - (v + 1)
       /\ \A i \in 0 .. y - (x + 1) - 1 : filter[(x + 1) + i] = topic[(v + 1) + i])
      <=> l = r
  <2>1. ASSUME l = r
        PROVE  /\ y - (x + 1) = w - (v + 1)
               /\ \A i \in 0 .. y - (x + 1) - 1 : filter[(x + 1) + i] = topic[(v + 1) + i]
    <3>1. y - x - 1 = w - v - 1
      BY <1>3, <2>1
    <3>2. y - (x + 1) = w - (v + 1)
      BY <1>2, <3>1
    <3>3. ASSUME NEW i \in 0 .. y - (x + 1) - 1
          PROVE  filter[(x + 1) + i] = topic[(v + 1) + i]
      <4>1. i + 1 \in 1 .. y - x - 1 /\ i + 1 \in 1 .. w - v - 1
        BY <1>2, <3>1
      <4>2. (x + 1) + i = x + (i + 1) /\ (v + 1) + i = v + (i + 1)
        BY <1>2
      <4>3. l[i + 1] = filter[x + (i + 1)] /\ r[i + 1] = topic[v + (i + 1)]
        BY <1>3, <4>1
      <4> QED
        BY <2>1, <4>2, <4>3
    <3> QED
      BY <3>2, <3>3
  <2>2. ASSUME /\ y - (x + 1) = w - (v + 1)
               /\ \A i \in 0 .. y - (x + 1) - 1 : filter[(x + 1) + i] = topic[(v + 1) + i]
        PROVE  l = r
    <3>1. y - x - 1 = w - v - 1
      BY <1>2, <2>2
    <3>2. ASSUME NEW j \in 1 .. y - x - 1
          PROVE  l[j] = r[j]
      <4>1. j - 1 \in 0 .. y - (x + 1) - 1 /\ j \in 1 .. w - v - 1
        BY <1>2, <3>1
      <4>2. (x + 1) + (j - 1) = x + j /\ (v + 1) + (j - 1) = v + j
        BY <1>2
      <4>3. filter[(x + 1) + (j - 1)] = topic[(v + 1) + (j - 1)]
        BY <2>2, <4>1
      <4> QED
        BY <1>3, <4>1, <4>2, <4>3
    <3>3. Len(l) = Len(r) /\ \A j \in 1 .. Len(l) : l[j] = r[j]
      BY <1>3, <3>1, <3>2
    <3> QED
      BY <1>4, <3>3, SeqEqual
  <2> QED
    BY <2>1, <2>2
<1>10. At(filter, x + 1) = "+" <=> l = <<"+">>
  <2>1. ASSUME At(filter, x + 1) = "+" PROVE l = <<"+">>
    <3>1. x + 1 # y
      <4>1. "+" \notin {"/", End}
        BY CharsAssumption DEF FilterChars
      <4> QED
        BY <1>5, <2>1, <4>1
    <3>2. x + 1 \in x + 1 .. y - 1
      BY <1>2, <3>1
    <3>3. filter[x + 1] = "+"
      BY <1>5, <2>1, <3>2
    <3> QED
      BY <1>8, <3>2, <3>3
  <2>2. ASSUME l = <<"+">> PROVE At(filter, x + 1) = "+"
    <3>1. Len(l) = 1 /\ l[1] = "+"
      BY <2>2
    <3>2. y - x - 1 = 1
      BY <1>3, <3>1
    <3>3. l[1] = filter[x + 1] /\ x + 1 \in x + 1 .. y - 1
      BY <1>2, <1>3, <3>2
    <3> QED
      BY <1>5, <3>1, <3>3
  <2> QED
    BY <2>1, <2>2
<1>11. v + 1 = w <=> r = <<>>
  <2>1. ASSUME v + 1 = w PROVE r = <<>>
    <3>1. Len(r) = 0
      BY <1>2, <1>3, <2>1
    <3> QED
      BY <1>4, <3>1
  <2>2. ASSUME r = <<>> PROVE v + 1 = w
    <3>1. w - v - 1 = 0
      BY <1>3, <2>2
    <3> QED
      BY <1>2, <3>1
  <2> QED
    BY <2>1, <2>2
<1>12. EndsAlike(C, ts, D, a, x + 1, v + 1) <=> LevelMeets(l, ts, a)
  BY <1>6, <1>7, <1>9, <1>10, <1>11
<1> QED
  BY <1>12 DEF x, v, l

\* Where both are at the end of level a, nothing is left of it.
LEMMA LevelDone ==
  ASSUME NEW fs, NEW C, NEW ts, NEW D, Setting(fs, C, ts, D),
         NEW a \in 1 .. Len(fs), a \in 1 .. Len(ts)
  PROVE  EndsAlike(C, ts, D, a, C[a + 1], D[a + 1])
<1> DEFINE y == C[a + 1]
           w == D[a + 1]
<1>1. IsLevel(filter, fs, C, a) /\ IsLevel(topic, ts, D, a)
  BY DEF Setting
<1>2. y \in Int /\ w \in Int
  <2>1. y \in 1 .. Len(filter) + 1
    BY <1>1 DEF IsLevel
  <2>2. w \in 1 .. Len(topic) + 1
    BY <1>1 DEF IsLevel
  <2> HIDE DEF y, w
  <2> QED
    BY <2>1, <2>2
<1>3. y - y = w - w /\ 0 .. y - y - 1 = {}
  BY <1>2
<1> QED
  BY <1>3 DEF EndsAlike

\* Where "#" stands if it is the last level.
LEMMA HashStands ==
  ASSUME NEW fs, NEW C, NEW ts, NEW D, Setting(fs, C, ts, D), fs[Len(fs)] = <<"#">>
  PROVE  /\ C[Len(fs)] + 1 \in 1 .. Len(filter)
         /\ filter[C[Len(fs)] + 1] = "#"
         /\ At(filter, C[Len(fs)] + 1) = "#" /\ At(filter, (C[Len(fs)] + 1) + 1) = End
<1> DEFINE a == Len(fs)
           x == C[a]
           y == C[a + 1]
<1>1. a \in 1 .. Len(fs) /\ Len(filter) \in Nat
  BY DEF Setting, Split, Strings
<1>2. IsLevel(filter, fs, C, a)
  BY <1>1 DEF Setting
<1>3. x \in 0 .. Len(filter) /\ y \in 1 .. Len(filter) + 1
  BY <1>2 DEF IsLevel
<1>4. Len(fs[a]) = y - x - 1 /\ \A j \in 1 .. y - x - 1 : fs[a][j] = filter[x + j]
  BY <1>2 DEF IsLevel
<1>5. \A j \in x + 1 .. y - 1 : At(filter, j) = filter[j]
  BY <1>2 DEF IsLevel
<1>6. At(filter, y) = End
  BY <1>2 DEF IsLevel
<1>7. Len(fs[a]) = 1 /\ fs[a][1] = "#"
  OBVIOUS
<1> HIDE DEF x, y
<1>8. y - x - 1 = 1
  BY <1>4, <1>7
<1>9. filter[x + 1] = "#" /\ x + 1 \in x + 1 .. y - 1 /\ (x + 1) + 1 = y /\ x + 1 \in 1 .. Len(filter)
  BY <1>1, <1>3, <1>4, <1>7, <1>8
<1>10. At(filter, x + 1) = "#" /\ At(filter, (x + 1) + 1) = End
  BY <1>5, <1>6, <1>9
<1> QED
  BY <1>9, <1>10 DEF x, a

\* What the rest of the levels is, one level on.
LEMMA RestNext ==
  ASSUME NEW fs, Len(fs) \in Nat, NEW ts, NEW a \in 1 .. Own(fs)
  PROVE  /\ a = Own(fs) => (Rest(fs, ts, a + 1) <=>
              IF fs[Len(fs)] = <<"#">> THEN Own(fs) <= Len(ts) ELSE Own(fs) = Len(ts))
         /\ a # Own(fs) => (Rest(fs, ts, a + 1) <=>
              LevelMeets(fs[a + 1], ts, a + 1) /\ Rest(fs, ts, (a + 1) + 1))
<1> DEFINE own == Own(fs)
           Count == IF fs[Len(fs)] = <<"#">> THEN own <= Len(ts) ELSE own = Len(ts)
           Level(k) == LevelMeets(fs[k], ts, k)
<1>1. own \in Int
  BY DEF Own
<1>2. \A b : Rest(fs, ts, b) <=> Count /\ \A k \in b .. own : Level(k)
  BY DEF Rest
<1> HIDE DEF own, Count, Level
<1>3. CASE a = own
  <2>1. a + 1 .. own = {}
    BY <1>1, <1>3
  <2> QED
    BY <1>2, <1>3, <2>1 DEF own, Count
<1>4. CASE a # own
  <2>1. a + 1 \in a + 1 .. own /\ \A k \in a + 1 .. own : k = a + 1 \/ k \in (a + 1) + 1 .. own
    BY <1>1, <1>4 DEF own
  <2>2. (a + 1) + 1 .. own \subseteq a + 1 .. own
    BY <1>1, <1>4 DEF own
  <2>3. (\A k \in a + 1 .. own : Level(k)) <=> Level(a + 1) /\ \A k \in (a + 1) + 1 .. own : Level(k)
    BY <2>1, <2>2
  <2>4. Rest(fs, ts, a + 1) <=> Level(a + 1) /\ Rest(fs, ts, (a + 1) + 1)
    BY <1>2, <2>3
  <2> QED
    BY <1>4, <2>4 DEF own, Level
<1> QED
  BY <1>3, <1>4

\* A last level "#" matches whatever the topic has left.
LEMMA HashLevel ==
  ASSUME NEW fs, NEW C, NEW ts, NEW D, Setting(fs, C, ts, D), NEW m, Walk(m),
         fs[Len(fs)] = <<"#">>, Len(fs) <= Len(ts)
  PROVE  D[Len(fs)] + 1 \in m[C[Len(fs)] + 1]
<1> DEFINE a == Len(fs)
           f == C[a] + 1
           t == D[a] + 1
           next == m[f + 1]
<1>1. a \in Nat \ {0} /\ a \in 1 .. Len(fs) /\ a \in 1 .. Len(ts)
  BY DEF Setting, Split
<1>2. IsLevel(filter, fs, C, a) /\ IsLevel(topic, ts, D, a)
  BY <1>1 DEF Setting
<1>3. Len(filter) \in Nat /\ Len(topic) \in Nat
  BY DEF Setting, Strings
<1>4. f \in 1 .. Len(filter) /\ filter[f] = "#" /\ At(filter, f) = "#" /\ At(filter, f + 1) = End
  BY HashStands
<1>5. t \in 1 .. Len(topic) + 1
  <2> DEFINE v == D[a]
             w == D[a + 1]
  <2>1. v \in 0 .. Len(topic) /\ w \in 1 .. Len(topic) + 1 /\ v < w
    BY <1>2 DEF IsLevel
  <2> HIDE DEF v, w
  <2>2. v + 1 \in 1 .. Len(topic) + 1
    BY <1>3, <2>1
  <2> QED
    BY <2>2 DEF v
<1>6. m[f] = Matching(filter, topic, f, next)
  BY <1>4 DEF Walk
<1> HIDE DEF f, t, next
<1>7. RestMatches(filter, topic, f, t)
  BY <1>4 DEF RestMatches
<1>8. t \in Matching(filter, topic, f, next)
  BY <1>4, <1>5, <1>7 DEF Matching
<1> QED
  BY <1>6, <1>8 DEF f, t, a

\* At the end of a level of both strings, the loop decides the other levels.
LEMMA AtLevelEnd ==
  ASSUME NEW fs, NEW C, NEW ts, NEW D, Setting(fs, C, ts, D), NEW m, Walk(m),
         NEW a \in 1 .. Own(fs), a <= Len(ts),
         C[a + 1] \in 1 .. Len(filter) => Agrees(m, fs, C, ts, D, C[a + 1] + 1)
  PROVE  D[a + 1] \in m[C[a + 1]] <=> Rest(fs, ts, a + 1)
<1> DEFINE f == C[a + 1]
           t == D[a + 1]
           n == Len(fs)
           own == Own(fs)
           next == m[f + 1]
<1>1. Len(filter) \in Nat /\ Len(topic) \in Nat /\ n \in Nat \ {0} /\ Len(ts) \in Nat \ {0}
  BY DEF Setting, Split, Strings
<1>2. own \in Nat /\ a \in 1 .. n /\ a \in 1 .. Len(ts)
      /\ (fs[n] = <<"#">> => own = n - 1) /\ (fs[n] # <<"#">> => own = n)
  BY <1>1 DEF Own
<1>3. IsLevel(filter, fs, C, a) /\ IsLevel(topic, ts, D, a)
  BY <1>2 DEF Setting
<1>4. f \in 1 .. Len(filter) + 1 /\ t \in 1 .. Len(topic) + 1
  BY <1>3 DEF IsLevel
<1>5. At(filter, f) = (IF a = n THEN End ELSE "/") /\ At(topic, t) = (IF a = Len(ts) THEN End ELSE "/")
  BY <1>3 DEF IsLevel
<1>6. End \notin {"/", "#", "+"}
  BY CharsAssumption DEF FilterChars
<1>7. a = own => (Rest(fs, ts, a + 1) <=> IF fs[n] = <<"#">> THEN own <= Len(ts) ELSE own = Len(ts))
  BY <1>1, RestNext
<1>8. a # own => (Rest(fs, ts, a + 1) <=>
          LevelMeets(fs[a + 1], ts, a + 1) /\ Rest(fs, ts, (a + 1) + 1))
  BY <1>1, RestNext
<1>9. CASE a = n
  <2>1. own = n /\ fs[n] # <<"#">>
    BY <1>1, <1>2, <1>9
  <2>2. f = Len(filter) + 1
    BY <1>9 DEF Setting
  <2>3. m[f] = Matching(filter, topic, f, {})
    BY <2>2 DEF Walk
  <2>4. At(filter, f) = End
    BY <1>5, <1>9
  <2> HIDE DEF f, t
  <2>5. t \in m[f] <=> RestMatches(filter, topic, f, t)
    BY <1>4, <2>3, <2>4 DEF Matching
  <2>6. t \in m[f] <=> At(topic, t) = End
    BY <1>6, <2>4, <2>5 DEF RestMatches
  <2>7. t \in m[f] <=> a = Len(ts)
    BY <1>5, <1>6, <2>6
  <2>8. Rest(fs, ts, a + 1) <=> own = Len(ts)
    BY <1>7, <1>9, <2>1
  <2> QED
    BY <1>9, <2>1, <2>7, <2>8 DEF f, t
<1>10. CASE a # n
  <2>1. a + 1 \in 1 .. n
    BY <1>1, <1>2, <1>10
  <2>2. IsLevel(filter, fs, C, a + 1)
    BY <2>1 DEF Setting
  <2>3. f \in 1 .. Len(filter)
    <3>1. f \in 0 .. Len(filter)
      BY <2>2 DEF IsLevel
    <3> HIDE DEF f
    <3> QED
      BY <1>1, <1>4, <3>1
  <2>4. At(filter, f) = "/" /\ filter[f] = "/"
    <3>1. At(filter, f) = "/"
      BY <1>5, <1>10
    <3>2. At(filter, f) = filter[f]
      BY <2>3 DEF At
    <3> QED
      BY <3>1, <3>2
  <2>5. m[f] = Matching(filter, topic, f, next)
    BY <2>3 DEF Walk
  <2>6. CASE a = Len(ts)
    <3>1. At(topic, t) = End
      BY <1>5, <2>6
    <3>2. t \in m[f] <=> At(filter, f + 1) = "#" /\ At(filter, f + 2) = End
      <4> HIDE DEF f, t, next
      <4>1. t \in m[f] <=> RestMatches(filter, topic, f, t)
        BY <1>4, <2>5, <3>1 DEF Matching
      <4> QED
        BY <1>6, <2>4, <3>1, <4>1 DEF RestMatches
    <3>3. ASSUME At(filter, f + 1) = "#" PROVE a + 1 = n /\ fs[n] = <<"#">>
      <4> DEFINE z == C[(a + 1) + 1]
      <4>1. /\ f < z /\ z \in Int /\ f \in Int
            /\ At(filter, z) \in {"/", End}
            /\ \A j \in f + 1 .. z - 1 : At(filter, j) = filter[j]
        BY <2>2 DEF IsLevel
      <4>2. z # f + 1
        BY <1>6, <3>3, <4>1
      <4>3. f + 1 \in f + 1 .. z - 1
        <5> HIDE DEF f, z
        <5> QED
          BY <4>1, <4>2
      <4>4. filter[f + 1] = "#"
        BY <3>3, <4>1, <4>3
      <4> QED
        BY <2>1, <4>3, <4>4, Wildcards
    <3>4. ASSUME a + 1 = n, fs[n] = <<"#">> PROVE At(filter, f + 1) = "#" /\ At(filter, f + 2) = End
      <4>1. At(filter, C[n] + 1) = "#" /\ At(filter, (C[n] + 1) + 1) = End
        BY <3>4, HashStands
      <4>2. f = C[n]
        BY <3>4
      <4> HIDE DEF f
      <4>3. (f + 1) + 1 = f + 2
        BY <2>3
      <4> QED
        BY <4>1, <4>2, <4>3
    <3>5. t \in m[f] <=> a + 1 = n /\ fs[n] = <<"#">>
      BY <3>2, <3>3, <3>4
    <3>6. Rest(fs, ts, a + 1) <=> a + 1 = n /\ fs[n] = <<"#">>
      <4>1. Rest(fs, ts, a + 1) => fs[n] = <<"#">> /\ own <= Len(ts)
        BY <1>1, <1>2, <1>10, <2>6 DEF Rest
      <4>2. fs[n] = <<"#">> /\ own <= Len(ts) => a + 1 = n
        BY <1>1, <1>2, <2>6
      <4>3. a + 1 = n /\ fs[n] = <<"#">> => a = own /\ own <= Len(ts)
        BY <1>1, <1>2, <2>6
      <4> HIDE DEF own, n
      <4> QED
        BY <1>7, <4>1, <4>2, <4>3
    <3> QED
      BY <3>5, <3>6
  <2>7. CASE a # Len(ts)
    <3>1. a + 1 \in 1 .. Len(ts)
      BY <1>1, <1>2, <2>7
    <3>2. At(topic, t) = "/"
      BY <1>5, <2>7
    <3>3. topic[t] = "/"
      BY <1>6, <3>2 DEF At
    <3>4. t \in m[f] <=> t + 1 \in next
      <4> HIDE DEF f, t, next
      <4> QED
        BY <1>4, <1>6, <2>4, <2>5, <3>2, <3>3 DEF Matching
    <3>5. CASE a = own
      <4>1. a + 1 = n /\ fs[n] = <<"#">>
        BY <1>1, <1>2, <1>10, <3>5
      <4>2. D[n] + 1 \in m[C[n] + 1]
        BY <1>1, <3>1, <4>1, HashLevel
      <4>3. t + 1 \in next
        BY <4>1, <4>2
      <4>4. Rest(fs, ts, a + 1)
        BY <1>1, <1>2, <1>7, <3>5, <4>1
      <4> QED
        BY <3>4, <4>3, <4>4
    <3>6. CASE a # own
      <4>1. a + 1 \in 1 .. own /\ a + 1 <= Len(ts)
        BY <1>1, <1>2, <3>1, <3>6
      <4>2. IsLevel(topic, ts, D, a + 1)
        BY <3>1 DEF Setting
      <4>3. t + 1 \in D[a + 1] + 1 .. D[(a + 1) + 1]
        <5> DEFINE w == D[(a + 1) + 1]
        <5>1. t < w /\ t \in Int /\ w \in Int
          BY <4>2 DEF IsLevel
        <5> HIDE DEF t, w
        <5>2. t + 1 \in t + 1 .. w
          BY <5>1
        <5> QED
          BY <5>2 DEF t, w
      <4>4. f + 1 \in C[a + 1] + 1 .. C[(a + 1) + 1]
        <5> DEFINE z == C[(a + 1) + 1]
        <5>1. f < z /\ f \in Int /\ z \in Int
          BY <2>2 DEF IsLevel
        <5> HIDE DEF f, z
        <5>2. f + 1 \in f + 1 .. z
          BY <5>1
        <5> QED
          BY <5>2 DEF f, z
      <4>5. Agrees(m, fs, C, ts, D, f + 1)
        BY <2>3
      <4>6. t + 1 \in next <=> EndsAlike(C, ts, D, a + 1, f + 1, t + 1) /\ Rest(fs, ts, (a + 1) + 1)
        <5> HIDE DEF t, f
        <5> QED
          BY <4>1, <4>3, <4>4, <4>5 DEF Agrees
      <4>7. EndsAlike(C, ts, D, a + 1, f + 1, t + 1) <=> LevelMeets(fs[a + 1], ts, a + 1)
        BY <2>1, <3>1, <4>1, WholeLevel
      <4> QED
        BY <1>8, <3>4, <3>6, <4>6, <4>7
    <3> QED
      BY <3>5, <3>6
  <2> QED
    BY <2>6, <2>7
<1> QED
  BY <1>9, <1>10

\* At the end of a level of the filter that the topic has more of.
LEMMA LevelTooShort ==
  ASSUME NEW fs, NEW C, NEW ts, NEW D, Setting(fs, C, ts, D), NEW m, Walk(m),
         NEW a \in 1 .. Own(fs), a <= Len(ts), NEW t \in D[a] + 1 .. D[a + 1] - 1
  PROVE  /\ t \notin m[C[a + 1]]
         /\ ~EndsAlike(C, ts, D, a, C[a + 1], t)
<1> DEFINE f == C[a + 1]
           w == D[a + 1]
           n == Len(fs)
           next == m[f + 1]
<1>1. Len(filter) \in Nat /\ Len(topic) \in Nat /\ n \in Nat \ {0} /\ Len(ts) \in Nat \ {0}
  BY DEF Setting, Split, Strings
<1>2. a \in 1 .. n /\ a \in 1 .. Len(ts)
  BY <1>1 DEF Own
<1>3. IsLevel(filter, fs, C, a) /\ IsLevel(topic, ts, D, a)
  BY <1>2 DEF Setting
<1>4. f \in 1 .. Len(filter) + 1 /\ w \in 1 .. Len(topic) + 1 /\ D[a] \in Nat
  BY <1>3 DEF IsLevel
<1>5. t \in 1 .. Len(topic) /\ t < w
  <2> HIDE DEF f
  <2> DEFINE v == D[a]
  <2>1. t \in v + 1 .. w - 1 /\ v \in Nat
    BY <1>4
  <2> HIDE DEF v, w
  <2> QED
    BY <1>1, <1>4, <2>1
<1>6. At(topic, t) = topic[t] /\ topic[t] \notin {"/", End}
  BY <1>3 DEF IsLevel
<1>7. At(filter, f) \in {"/", End}
  BY <1>3 DEF IsLevel
<1>8. End \notin {"/", "#", "+"}
  BY CharsAssumption DEF FilterChars
<1>9. t \notin m[f]
  <2>1. CASE At(filter, f) = End
    <3>1. ~RestMatches(filter, topic, f, t)
      BY <1>6, <1>8, <2>1 DEF RestMatches
    <3>2. \E x : m[f] = Matching(filter, topic, f, x)
      <4>1. CASE f = Len(filter) + 1
        BY <4>1 DEF Walk
      <4>2. CASE f # Len(filter) + 1
        <5>1. f \in 1 .. Len(filter)
          BY <1>1, <1>4, <4>2
        <5> QED
          BY <5>1 DEF Walk
      <4> QED
        BY <4>1, <4>2
    <3> HIDE DEF f
    <3> QED
      BY <2>1, <3>1, <3>2 DEF Matching
  <2>2. CASE At(filter, f) # End
    <3>1. At(filter, f) = "/"
      BY <1>7, <2>2
    <3>2. f \in 1 .. Len(filter) /\ filter[f] = "/"
      <4> HIDE DEF f
      <4> QED
        BY <1>1, <1>4, <2>2, <3>1 DEF At
    <3>3. m[f] = Matching(filter, topic, f, next)
      BY <3>2 DEF Walk
    <3> HIDE DEF f, next
    <3> QED
      BY <1>6, <1>8, <2>2, <3>2, <3>3 DEF Matching
  <2> QED
    BY <2>1, <2>2
<1>10. ~EndsAlike(C, ts, D, a, f, t)
  <2>1. f - f # w - t
    <3> HIDE DEF f, w
    <3> QED
      BY <1>4, <1>5
  <2>2. At(filter, f) # "+"
    BY <1>7, <1>8
  <2> QED
    BY <2>1, <2>2 DEF EndsAlike
<1> QED
  BY <1>9, <1>10

\* Within a level of the filter.
LEMMA WithinLevel ==
  ASSUME NEW fs, NEW C, NEW ts, NEW D, Setting(fs, C, ts, D), NEW m, Walk(m),
         NEW a \in 1 .. Own(fs), a <= Len(ts),
         NEW f \in C[a] + 1 .. C[a + 1] - 1, NEW t \in D[a] + 1 .. D[a + 1],
         Agrees(m, fs, C, ts, D, f + 1),
         D[a + 1] \in m[C[a + 1]] <=> Rest(fs, ts, a + 1)
  PROVE  t \in m[f] <=> EndsAlike(C, ts, D, a, f, t) /\ Rest(fs, ts, a + 1)
<1> DEFINE x == C[a]
           y == C[a + 1]
           v == D[a]
           w == D[a + 1]
           n == Len(fs)
           own == Own(fs)
           next == m[f + 1]
           R == Rest(fs, ts, a + 1)
<1>1. Len(filter) \in Nat /\ Len(topic) \in Nat /\ n \in Nat \ {0} /\ Len(ts) \in Nat \ {0}
  BY DEF Setting, Split, Strings
<1>2. own \in Nat /\ a \in 1 .. n /\ a \in 1 .. Len(ts)
      /\ (fs[n] = <<"#">> => own = n - 1) /\ (fs[n] # <<"#">> => own = n)
  BY <1>1 DEF Own
<1>3. IsLevel(filter, fs, C, a) /\ IsLevel(topic, ts, D, a)
  BY <1>2 DEF Setting
<1>4. x \in 0 .. Len(filter) /\ y \in 1 .. Len(filter) + 1 /\ v \in 0 .. Len(topic) /\ w \in 1 .. Len(topic) + 1
  BY <1>3 DEF IsLevel
<1>5. /\ f \in x + 1 .. y - 1 /\ t \in v + 1 .. w
      /\ f \in 1 .. Len(filter) /\ t \in 1 .. Len(topic) + 1
      /\ f + 1 \in x + 1 .. y
  <2>1. f \in x + 1 .. y - 1 /\ t \in v + 1 .. w
    OBVIOUS
  <2> DEFINE l == Len(filter)
             r == Len(topic)
  <2>2. x \in 0 .. l /\ y \in 1 .. l + 1 /\ l \in Nat
    BY <1>1, <1>4
  <2>3. v \in 0 .. r /\ w \in 1 .. r + 1 /\ r \in Nat
    BY <1>1, <1>4
  <2> HIDE DEF x, y, v, w, l, r
  <2>4. f \in 1 .. l /\ f + 1 \in x + 1 .. y
    BY <2>1, <2>2
  <2>5. t \in 1 .. r + 1
    BY <2>1, <2>3
  <2> QED
    BY <2>1, <2>4, <2>5 DEF l, r
<1>6. At(filter, f) = filter[f] /\ filter[f] \notin {"/", End}
  BY <1>3 DEF IsLevel
<1>7. /\ At(filter, y) = (IF a = n THEN End ELSE "/")
      /\ At(topic, w) = (IF a = Len(ts) THEN End ELSE "/")
  BY <1>3 DEF IsLevel
<1>8. End \notin {"/", "#", "+"} /\ Chars \cap {"+", "#"} = {}
  BY CharsAssumption DEF FilterChars
<1>9. m[f] = Matching(filter, topic, f, next)
  BY <1>5 DEF Walk
<1>10. filter[f] # "#"
  <2>1. filter[f] = "#" => a \notin 1 .. Own(fs)
    BY <1>2, Wildcards
  <2> QED
    BY <2>1
<1>11. EndsAlike(C, ts, D, a, f, t) <=>
         \/ /\ y - f = w - t
            /\ \A i \in 0 .. y - f - 1 : filter[f + i] = topic[t + i]
         \/ filter[f] = "+" /\ ~(a = Len(ts) /\ t = w)
  BY <1>6 DEF EndsAlike
<1>12. LevelEnd(topic, t) = w
  <2>1. topic \in Seq(Chars)
    BY DEF Setting, Strings
  <2> QED
    BY <1>3, <2>1, LevelEndIsCut
<1>13. CASE filter[f] = "+"
  <2>1. y = f + 1
    BY <1>2, <1>13, Wildcards
  <2>2. ~(y - f = w - t /\ \A i \in 0 .. y - f - 1 : filter[f + i] = topic[t + i])
    <3> HIDE DEF y, w, v
    <3> SUFFICES ASSUME y - f = w - t, \A i \in 0 .. y - f - 1 : filter[f + i] = topic[t + i]
                 PROVE  FALSE
      OBVIOUS
    <3>1. y - f = 1 /\ t + 1 = w
      BY <1>4, <1>5, <2>1
    <3>2. t \in 1 .. Len(topic) /\ 0 \in 0 .. y - f - 1 /\ f + 0 = f /\ t + 0 = t
      BY <1>1, <1>4, <1>5, <3>1
    <3>3. filter[f] = topic[t]
      BY <3>2
    <3>4. topic[t] \in Chars
      BY <3>2, ElementType DEF Setting, Strings
    <3> QED
      BY <1>8, <1>13, <3>3, <3>4
  <2>3. EndsAlike(C, ts, D, a, f, t) <=> ~(a = Len(ts) /\ t = w)
    BY <1>11, <1>13, <2>2
  <2>4. w \in next <=> R
    BY <2>1
  <2>5. CASE a = Len(ts) /\ t = w
    <3>1. At(topic, t) = End
      BY <1>7, <2>5
    <3>2. ~RestMatches(filter, topic, f, t)
      BY <1>6, <1>8, <1>13 DEF RestMatches
    <3>3. t \notin m[f]
      <4> HIDE DEF next
      <4> QED
        BY <1>9, <3>1, <3>2 DEF Matching
    <3> QED
      BY <2>3, <2>5, <3>3
  <2>6. CASE ~(a = Len(ts) /\ t = w)
    <3>1. At(topic, t) # End
      <4>1. CASE t = w
        BY <1>7, <1>8, <2>6, <4>1
      <4>2. CASE t # w
        <5>1. t \in v + 1 .. w - 1
          <6> HIDE DEF v, w
          <6> QED
            BY <1>4, <1>5, <4>2
        <5> QED
          BY <1>3, <5>1 DEF IsLevel
      <4> QED
        BY <4>1, <4>2
    <3>2. t \in m[f] <=> ~(At(topic, w) = "/" /\ At(filter, f + 1) = End) /\ w \in next
      <4> HIDE DEF w, next
      <4> QED
        BY <1>5, <1>6, <1>9, <1>12, <1>13, <3>1 DEF Matching
    <3>3. (At(topic, w) = "/" /\ At(filter, f + 1) = End) <=> a # Len(ts) /\ a = n
      BY <1>7, <1>8, <2>1
    <3>4. R /\ a = n => a = Len(ts)
      BY <1>1, <1>2 DEF Rest
    <3>5. t \in m[f] <=> R
      <4> HIDE DEF w, next, R
      <4> QED
        BY <2>4, <3>2, <3>3, <3>4
    <3> QED
      BY <2>3, <2>6, <3>5
  <2> QED
    BY <2>5, <2>6
<1>14. CASE filter[f] # "+"
  <2>1. EndsAlike(C, ts, D, a, f, t) <=>
          y - f = w - t /\ \A i \in 0 .. y - f - 1 : filter[f + i] = topic[t + i]
    BY <1>11, <1>14
  <2>2. CASE t = w
    <3>1. t \notin m[f]
      <4>1. CASE At(topic, t) = End
        <5>1. ~RestMatches(filter, topic, f, t)
          BY <1>6, <1>8, <1>10 DEF RestMatches
        <5> HIDE DEF next
        <5> QED
          BY <1>9, <4>1, <5>1 DEF Matching
      <4>2. CASE At(topic, t) # End
        <5>1. At(topic, t) = "/"
          BY <1>7, <2>2, <4>2
        <5>2. topic[t] = "/"
          BY <1>8, <5>1 DEF At
        <5> HIDE DEF next
        <5> QED
          BY <1>6, <1>9, <1>10, <1>14, <4>2, <5>2 DEF Matching
      <4> QED
        BY <4>1, <4>2
    <3>2. y - f # w - t
      <4> HIDE DEF x, y, v, w
      <4> QED
        BY <1>4, <1>5, <2>2
    <3> QED
      BY <2>1, <3>1, <3>2
  <2>3. CASE t # w
    <3>1. t \in v + 1 .. w - 1 /\ t + 1 \in v + 1 .. w
      <4>1. t \in v + 1 .. w /\ v \in Int /\ w \in Int
        BY <1>4, <1>5
      <4> HIDE DEF v, w
      <4>2. t \in v + 1 .. w - 1
        BY <2>3, <4>1
      <4>3. t + 1 \in v + 1 .. w
        BY <4>1, <4>2
      <4> QED
        BY <4>2, <4>3
    <3>2. At(topic, t) # End
      BY <1>3, <3>1 DEF IsLevel
    <3>3. t \in m[f] <=> filter[f] = topic[t] /\ t + 1 \in next
      <4> HIDE DEF next
      <4> QED
        BY <1>5, <1>6, <1>9, <1>10, <1>14, <3>2 DEF Matching
    <3>4. t + 1 \in next <=> EndsAlike(C, ts, D, a, f + 1, t + 1) /\ R
      BY <1>5, <3>1 DEF Agrees
    <3>5. At(filter, f + 1) # "+"
      <4>1. CASE f + 1 = y
        BY <1>7, <1>8, <4>1
      <4>2. CASE f + 1 # y
        <5>1. f + 1 \in x + 1 .. y - 1
          <6> HIDE DEF x, y
          <6> QED
            BY <1>4, <1>5, <4>2
        <5>2. At(filter, f + 1) = filter[f + 1]
          BY <1>3, <5>1 DEF IsLevel
        <5>3. filter[f + 1] = "+" => f + 1 = x + 1
          BY <1>2, <5>1, Wildcards
        <5>4. f + 1 # x + 1
          <6> HIDE DEF x, y
          <6> QED
            BY <1>4, <1>5
        <5> QED
          BY <5>2, <5>3, <5>4
      <4> QED
        BY <4>1, <4>2
    <3>6. EndsAlike(C, ts, D, a, f + 1, t + 1) <=>
            /\ y - (f + 1) = w - (t + 1)
            /\ \A i \in 0 .. y - (f + 1) - 1 : filter[(f + 1) + i] = topic[(t + 1) + i]
      BY <3>5 DEF EndsAlike
    <3>7. EndsAlike(C, ts, D, a, f, t) <=>
            filter[f] = topic[t] /\ EndsAlike(C, ts, D, a, f + 1, t + 1)
      <4>1. f \in Nat /\ t \in Nat /\ y \in Nat /\ w \in Nat /\ f < y
        <5> HIDE DEF x, y, v, w
        <5> QED
          BY <1>4, <1>5
      <4> HIDE DEF x, y, v, w
      <4>2. y - f = w - t <=> y - (f + 1) = w - (t + 1)
        BY <4>1
      <4>3. ASSUME \A i \in 0 .. y - f - 1 : filter[f + i] = topic[t + i]
            PROVE  /\ filter[f] = topic[t]
                   /\ \A i \in 0 .. y - (f + 1) - 1 : filter[(f + 1) + i] = topic[(t + 1) + i]
        <5>1. 0 \in 0 .. y - f - 1 /\ f + 0 = f /\ t + 0 = t
          BY <4>1
        <5>2. ASSUME NEW i \in 0 .. y - (f + 1) - 1
              PROVE  filter[(f + 1) + i] = topic[(t + 1) + i]
          <6>1. i + 1 \in 0 .. y - f - 1 /\ (f + 1) + i = f + (i + 1) /\ (t + 1) + i = t + (i + 1)
            BY <4>1
          <6> QED
            BY <4>3, <6>1
        <5> QED
          BY <4>3, <5>1, <5>2
      <4>4. ASSUME filter[f] = topic[t],
                   \A i \in 0 .. y - (f + 1) - 1 : filter[(f + 1) + i] = topic[(t + 1) + i],
                   NEW i \in 0 .. y - f - 1
            PROVE  filter[f + i] = topic[t + i]
        <5>1. CASE i = 0
          BY <4>1, <4>4, <5>1
        <5>2. CASE i # 0
          <6>1. i - 1 \in 0 .. y - (f + 1) - 1 /\ (f + 1) + (i - 1) = f + i /\ (t + 1) + (i - 1) = t + i
            BY <4>1, <5>2
          <6>2. filter[(f + 1) + (i - 1)] = topic[(t + 1) + (i - 1)]
            BY <4>4, <6>1
          <6> QED
            BY <6>1, <6>2
        <5> QED
          BY <5>1, <5>2
      <4> QED
        BY <2>1, <3>6, <4>2, <4>3, <4>4
    <3> QED
      BY <3>3, <3>4, <3>7
  <2> QED
    BY <2>2, <2>3
<1> QED
  BY <1>13, <1>14

\* One place back in the filter.
LEMMA OneBack ==
  ASSUME NEW fs, NEW C, NEW ts, NEW D, Setting(fs, C, ts, D), NEW m, Walk(m),
         NEW f \in 1 .. Len(filter) + 1,
         \A g \in f + 1 .. Len(filter) + 1 : Agrees(m, fs, C, ts, D, g)
  PROVE  Agrees(m, fs, C, ts, D, f)
<1> SUFFICES ASSUME NEW a \in 1 .. Own(fs), a <= Len(ts), NEW t \in D[a] + 1 .. D[a + 1],
                    f \in C[a] + 1 .. C[a + 1]
             PROVE  t \in m[f] <=> EndsAlike(C, ts, D, a, f, t) /\ Rest(fs, ts, a + 1)
  BY DEF Agrees
<1> DEFINE x == C[a]
           y == C[a + 1]
           v == D[a]
           w == D[a + 1]
<1>1. a \in 1 .. Len(fs) /\ a \in 1 .. Len(ts) /\ Len(filter) \in Nat
  <2>1. Len(fs) \in Nat /\ Len(ts) \in Nat /\ Len(filter) \in Nat
    BY DEF Setting, Split, Strings
  <2> QED
    BY <2>1 DEF Own
<1>2. IsLevel(filter, fs, C, a) /\ IsLevel(topic, ts, D, a)
  BY <1>1 DEF Setting
<1>3. x \in Int /\ y \in 1 .. Len(filter) + 1 /\ v \in Int /\ w \in Int
  <2>1. x \in 0 .. Len(filter) /\ y \in 1 .. Len(filter) + 1
    BY <1>2 DEF IsLevel
  <2>2. v \in 0 .. Len(topic) /\ w \in 1 .. Len(topic) + 1
    BY <1>2 DEF IsLevel
  <2> HIDE DEF x, y, v, w
  <2> QED
    BY <2>1, <2>2
<1>4. w \in m[y] <=> Rest(fs, ts, a + 1)
  <2>1. ASSUME y \in 1 .. Len(filter)
        PROVE  Agrees(m, fs, C, ts, D, y + 1)
    <3>1. f \in x + 1 .. y
      OBVIOUS
    <3>2. y + 1 \in f + 1 .. Len(filter) + 1
      <4> HIDE DEF x, y
      <4> QED
        BY <1>1, <1>3, <2>1, <3>1
    <3> QED
      BY <3>2
  <2> QED
    BY <2>1, AtLevelEnd
<1>5. CASE f = y
  <2>2. CASE t = w
    <3>1. EndsAlike(C, ts, D, a, y, w)
      BY <1>1, LevelDone
    <3> QED
      BY <1>4, <1>5, <2>2, <3>1
  <2>3. CASE t # w
    <3>1. t \in v + 1 .. w - 1
      <4> HIDE DEF v, w
      <4>1. t \in v + 1 .. w
        BY DEF v, w
      <4> QED
        BY <1>3, <2>3, <4>1
    <3> QED
      BY <1>5, <3>1, LevelTooShort
  <2> QED
    BY <2>2, <2>3
<1>6. CASE f # y
  <2>1. f \in x + 1 .. y - 1 /\ f \in 1 .. Len(filter)
    <3>1. f \in x + 1 .. y
      OBVIOUS
    <3> HIDE DEF x, y
    <3> QED
      BY <1>1, <1>3, <1>6, <3>1
  <2>2. Agrees(m, fs, C, ts, D, f + 1)
    <3>1. f + 1 \in f + 1 .. Len(filter) + 1
      BY <1>1, <2>1
    <3> QED
      BY <3>1
  <2> QED
    BY <1>4, <2>1, <2>2, WithinLevel
<1> QED
  BY <1>5, <1>6

\* All the way back to the start of the filter.
LEMMA AgreesThroughout ==
  ASSUME NEW fs, NEW C, NEW ts, NEW D, Setting(fs, C, ts, D), NEW m, Walk(m)
  PROVE  Agrees(m, fs, C, ts, D, 1)
<1> DEFINE n == Len(filter)
           Behind(k) == \A g \in n + 1 - k .. n + 1 : Agrees(m, fs, C, ts, D, g)
           S == {k \in 0 .. n : Behind(k)}
<1>1. n \in Nat
  BY DEF Setting, Strings
<1>2. 0 \in S
  <2>1. n + 1 \in 1 .. n + 1 /\ (n + 1) + 1 .. n + 1 = {}
    BY <1>1
  <2>2. Agrees(m, fs, C, ts, D, n + 1)
    BY <2>1, OneBack
  <2>3. \A g \in n + 1 - 0 .. n + 1 : g = n + 1
    BY <1>1
  <2> HIDE DEF n
  <2> QED
    BY <1>1, <2>2, <2>3
<1>3. ASSUME NEW k \in 0 .. n - 1, k \in S
      PROVE  k + 1 \in S
  <2> DEFINE f == n - k
  <2>1. /\ f \in 1 .. n + 1 /\ k + 1 \in 0 .. n
        /\ f + 1 = n + 1 - k /\ n + 1 - (k + 1) = f
    BY <1>1
  <2>2. Behind(k)
    BY <1>3
  <2> HIDE DEF f
  <2>3. \A g \in f + 1 .. n + 1 : Agrees(m, fs, C, ts, D, g)
    BY <2>1, <2>2
  <2>4. Agrees(m, fs, C, ts, D, f)
    BY <2>1, <2>3, OneBack
  <2>5. \A g \in f .. n + 1 : g = f \/ g \in f + 1 .. n + 1
    BY <1>1, <2>1
  <2>6. Behind(k + 1)
    <3> HIDE DEF n
    <3> QED
      BY <2>1, <2>3, <2>4, <2>5
  <2> QED
    BY <2>1, <2>6
<1> HIDE DEF S, n
<1>4. 0 .. n \subseteq S
  BY <1>1, <1>2, <1>3, Climb
<1>5. n \in S
  BY <1>1, <1>4
<1>6. 1 \in n + 1 - n .. n + 1
  BY <1>1
<1> QED
  BY <1>5, <1>6 DEF S

\* Where the filter's own levels meet the topic's, "+" stands for no empty end.
LEMMA MeetingIsMatching ==
  ASSUME NEW fs, NEW ts, Len(fs) \in Nat \ {0}, Len(ts) \in Nat \ {0}
  PROVE  Rest(fs, ts, 1) <=>
           /\ IF fs[Len(fs)] = <<"#">> THEN Own(fs) <= Len(ts) ELSE Own(fs) = Len(ts)
           /\ \A k \in 1 .. Own(fs) : LevelMatches(fs[k], ts[k])
           /\ ~(ts[Len(ts)] = <<>> /\ Len(ts) <= Len(fs) /\ fs[Len(ts)] = <<"+">>)
<1> DEFINE n == Len(ts)
           own == Own(fs)
           Count == IF fs[Len(fs)] = <<"#">> THEN own <= n ELSE own = n
           Matches == \A k \in 1 .. own : LevelMatches(fs[k], ts[k])
           AtEnd == ts[n] = <<>> /\ n <= Len(fs) /\ fs[n] = <<"+">>
<1>1. Rest(fs, ts, 1) <=> Count /\ \A k \in 1 .. own : LevelMeets(fs[k], ts, k)
  BY DEF Rest
<1>2. \A k : LevelMeets(fs[k], ts, k) <=>
                LevelMatches(fs[k], ts[k]) /\ (k = n /\ ts[k] = <<>> => fs[k] # <<"+">>)
  <2>1. <<>> # <<"+">>
    OBVIOUS
  <2> QED
    BY <2>1 DEF LevelMeets, LevelMatches
<1>3. AtEnd => n \in 1 .. own \/ ~Count
  <2>1. <<"+">> # <<"#">>
    OBVIOUS
  <2>2. AtEnd /\ fs[Len(fs)] = <<"#">> => n # Len(fs)
    BY <2>1
  <2>3. own = IF fs[Len(fs)] = <<"#">> THEN Len(fs) - 1 ELSE Len(fs)
    BY DEF Own
  <2> HIDE DEF own
  <2> QED
    BY <2>2, <2>3
<1>4. n \in 1 .. own => n <= Len(fs)
  <2>1. own <= Len(fs) /\ own \in Int
    BY DEF Own
  <2> HIDE DEF own
  <2> QED
    BY <2>1
<1>5. ASSUME Count, \A k \in 1 .. own : LevelMeets(fs[k], ts, k)
      PROVE  Matches /\ ~AtEnd
  <2> HIDE DEF own, n
  <2> QED
    BY <1>2, <1>3, <1>5
<1>6. ASSUME Count, Matches, ~AtEnd
      PROVE  \A k \in 1 .. own : LevelMeets(fs[k], ts, k)
  <2>1. SUFFICES ASSUME NEW k \in 1 .. own PROVE LevelMeets(fs[k], ts, k)
    OBVIOUS
  <2>2. LevelMatches(fs[k], ts[k])
    BY <1>6
  <2>3. k = n /\ ts[k] = <<>> => fs[k] # <<"+">>
    <3> HIDE DEF own, n
    <3> QED
      BY <1>4, <1>6
  <2> QED
    BY <1>2, <2>2, <2>3
<1> HIDE DEF Count, Matches, AtEnd
<1>7. Rest(fs, ts, 1) <=> Count /\ Matches /\ ~AtEnd
  BY <1>1, <1>5, <1>6
<1> QED
  BY <1>7 DEF Count, Matches, AtEnd

\* The function decides by levels.
LEMMA LoopDecidesByLevels ==
  ASSUME Strings, ValidFilter(filter)
  PROVE  MatchTopic(filter, topic)
           <=> MatchesByLevels(filter, topic) /\ ~PlusForEmptyEnd(filter, topic)
<1> DEFINE fs == Levels(filter)
           ts == Levels(topic)
           own == Own(fs)
<1>1. PICK C, D : Setting(fs, C, ts, D)
  BY Settings
<1>2. PICK m : Walk(m)
  BY Walked
<1>3. Agrees(m, fs, C, ts, D, 1)
  <2> HIDE DEF fs, ts
  <2> QED
    BY <1>1, <1>2, AgreesThroughout
<1>4. MatchTopic(filter, topic) <=> 1 \in m[1]
  BY <1>2 DEF Walk
<1>6. Len(fs) \in Nat \ {0} /\ Len(ts) \in Nat \ {0} /\ C[1] = 0 /\ D[1] = 0
  <2> HIDE DEF fs, ts
  <2> QED
    BY <1>1 DEF Setting, Split
<1>5. MatchesByLevels(filter, topic) /\ ~PlusForEmptyEnd(filter, topic) <=> Rest(fs, ts, 1)
  <2>1. MatchesByLevels(filter, topic) <=>
          /\ IF fs[Len(fs)] = <<"#">> THEN own <= Len(ts) ELSE own = Len(ts)
          /\ \A k \in 1 .. own : LevelMatches(fs[k], ts[k])
    BY DEF MatchesByLevels, Own
  <2>2. PlusForEmptyEnd(filter, topic) <=>
          ts[Len(ts)] = <<>> /\ Len(ts) <= Len(fs) /\ fs[Len(ts)] = <<"+">>
    BY DEF PlusForEmptyEnd
  <2> HIDE DEF fs, ts
  <2>3. Rest(fs, ts, 1) <=>
          /\ IF fs[Len(fs)] = <<"#">> THEN own <= Len(ts) ELSE own = Len(ts)
          /\ \A k \in 1 .. own : LevelMatches(fs[k], ts[k])
          /\ ~(ts[Len(ts)] = <<>> /\ Len(ts) <= Len(fs) /\ fs[Len(ts)] = <<"+">>)
    BY <1>6, MeetingIsMatching
  <2> QED
    BY <2>1, <2>2, <2>3
<1> HIDE DEF fs, ts
<1>7. CASE own >= 1
  <2>1. 1 \in 1 .. own /\ 1 \in 1 .. Len(fs) /\ 1 \in 1 .. Len(ts) /\ 1 <= Len(ts)
    BY <1>6, <1>7 DEF Own
  <2>2. IsLevel(filter, fs, C, 1) /\ IsLevel(topic, ts, D, 1)
    BY <1>1, <2>1 DEF Setting
  <2>3. 1 \in C[1] + 1 .. C[1 + 1] /\ 1 \in D[1] + 1 .. D[1 + 1]
    <3>1. C[1 + 1] \in 1 .. Len(filter) + 1 /\ D[1 + 1] \in 1 .. Len(topic) + 1
      BY <2>2 DEF IsLevel
    <3> QED
      BY <1>6, <3>1
  <2>4. 1 \in m[1] <=> EndsAlike(C, ts, D, 1, 1, 1) /\ Rest(fs, ts, 1 + 1)
    BY <1>3, <2>1, <2>3 DEF Agrees
  <2>5. EndsAlike(C, ts, D, 1, C[1] + 1, D[1] + 1) <=> LevelMeets(fs[1], ts, 1)
    BY <1>1, <2>1, WholeLevel
  <2>6. EndsAlike(C, ts, D, 1, 1, 1) <=> LevelMeets(fs[1], ts, 1)
    <3>1. C[1] + 1 = 1 /\ D[1] + 1 = 1
      BY <1>6
    <3> QED
      BY <2>5, <3>1
  <2>7. Rest(fs, ts, 1) <=> LevelMeets(fs[1], ts, 1) /\ Rest(fs, ts, 1 + 1)
    <3>1. \A k \in 1 .. own : k = 1 \/ k \in 1 + 1 .. own
      BY <1>6 DEF Own
    <3>2. 1 + 1 .. own \subseteq 1 .. own
      BY <1>6 DEF Own
    <3> QED
      BY <2>1, <3>1, <3>2 DEF Rest
  <2> QED
    BY <1>4, <1>5, <2>4, <2>6, <2>7
<1>8. CASE ~(own >= 1)
  <2>1. own = 0 /\ Len(fs) = 1 /\ fs[Len(fs)] = <<"#">>
    <3>1. fs[Len(fs)] = <<"#">>
      <4>1. fs[Len(fs)] # <<"#">> => own = Len(fs)
        BY DEF Own
      <4> QED
        BY <1>6, <1>8, <4>1
    <3>2. own = Len(fs) - 1
      BY <3>1 DEF Own
    <3> HIDE DEF own
    <3>3. own = 0 /\ Len(fs) = 1
      <4> DEFINE n == Len(fs)
      <4>1. n \in Nat \ {0} /\ own = n - 1
        BY <1>6, <3>2
      <4> HIDE DEF n
      <4>2. own = 0 /\ n = 1
        BY <1>8, <4>1
      <4> QED
        BY <4>2 DEF n
    <3> QED
      BY <3>1, <3>3
  <2>2. Rest(fs, ts, 1)
    <3>1. 1 .. own = {} /\ own <= Len(ts)
      BY <1>6, <2>1
    <3> QED
      BY <2>1, <3>1 DEF Rest
  <2>3. D[Len(fs)] + 1 \in m[C[Len(fs)] + 1]
    <3>1. fs[Len(fs)] = <<"#">> /\ Len(fs) <= Len(ts)
      BY <1>6, <2>1
    <3> QED
      BY <1>1, <1>2, <3>1, HashLevel
  <2>4. D[Len(fs)] + 1 = 1 /\ C[Len(fs)] + 1 = 1
    BY <1>6, <2>1
  <2> QED
    BY <1>4, <1>5, <2>2, <2>3, <2>4
<1> QED
  BY <1>7, <1>8

---------------------------------------------------------------------------
\* The two strings stay strings.
LEMMA StringsStay ==
  Spec => []Strings
<1>1. Init => Strings
  BY DEF Init, Strings
<1>2. ASSUME Strings, [Next]_<<filter, topic>>
      PROVE  Strings'
  <2>1. CASE GrowFilter
    <3>1. filter \in Seq(FilterChars)
      BY <1>2 DEF Strings
    <3>2. \A c \in FilterChars : Append(filter, c) \in Seq(FilterChars)
      BY <3>1, AppendProperties
    <3>3. filter' \in Seq(FilterChars)
      <4>1. filter' \in Grown(filter, FilterChars)
        BY <2>1 DEF GrowFilter
      <4>2. CASE filter' \in {Append(filter, c) : c \in FilterChars}
        <5>1. PICK c \in FilterChars : filter' = Append(filter, c)
          BY <4>2
        <5> QED
          BY <3>2, <5>1, Zenon
      <4>3. CASE filter' = <<>>
        BY <4>3
      <4> QED
        BY <4>1, <4>2, <4>3 DEF Grown
    <3> QED
      BY <1>2, <2>1, <3>3 DEF GrowFilter, Strings
  <2>2. CASE GrowTopic
    <3>1. topic \in Seq(Chars)
      BY <1>2 DEF Strings
    <3>2. \A c \in Chars : Append(topic, c) \in Seq(Chars)
      BY <3>1, AppendProperties
    <3>3. topic' \in Seq(Chars)
      <4>1. topic' \in Grown(topic, Chars)
        BY <2>2 DEF GrowTopic
      <4>2. CASE topic' \in {Append(topic, c) : c \in Chars}
        <5>1. PICK c \in Chars : topic' = Append(topic, c)
          BY <4>2
        <5> QED
          BY <3>2, <5>1, Zenon
      <4>3. CASE topic' = <<>>
        BY <4>3
      <4> QED
        BY <4>1, <4>2, <4>3 DEF Grown
    <3> QED
      BY <1>2, <2>2, <3>3 DEF GrowTopic, Strings
  <2>3. CASE UNCHANGED <<filter, topic>>
    BY <1>2, <2>3 DEF Strings
  <2> QED
    BY <1>2, <2>1, <2>2, <2>3 DEF Next
<1> QED
  BY <1>1, <1>2, PTL DEF Spec

\* branch__match_topic decides as MQTT's rule on levels does, for every filter that is
\* valid and every topic, of any length, except that "+" stands for no empty level at the
\* end of the topic; and it differs from the rule nowhere else.
THEOREM TopicsMatchByLevels ==
  Spec => []DecidesByLevels
<1>1. Strings => DecidesByLevels
  BY LoopDecidesByLevels DEF DecidesByLevels
<1> QED
  BY <1>1, StringsStay, PTL
=============================================================================
