--------------------------- MODULE FramingProofs ---------------------------
(***************************************************************************)
(* What the receive loops of both programs do to the byte stream, proved   *)
(* for every buffer size, base, number of length digits and set of         *)
(* packets: the buffer is never overrun, the stream stays the packets that *)
(* were sent, and a connection is given up only within a packet's header.  *)
(***************************************************************************)
EXTENDS Framing, CommonProofs

---------------------------------------------------------------------------
(***************************************************************************)
(* The two recursive functions.                                            *)
(***************************************************************************)
\* The ends of packets are the sums of their lengths.
LEMMA EndingSums ==
  ASSUME NEW S, NEW u \in Seq(Seq(S))
  PROVE  /\ Ending(u) \in [0 .. Len(u) -> Nat] /\ Ending(u)[0] = 0
         /\ \A k \in 1 .. Len(u) : Ending(u)[k] = Ending(u)[k - 1] + Len(u[k])
<1> DEFINE n == Len(u)
           step == [k \in 1 .. n |-> [x \in Nat |-> x + Len(u[k])]]
           Sums(f) == f = [k \in 0 .. n |-> IF k = 0 THEN 0 ELSE f[k - 1] + Len(u[k])]
<1>1. n \in Nat /\ \A k \in 1 .. n : Len(u[k]) \in Nat
  OBVIOUS
<1>2. step \in [1 .. n -> [Nat -> Nat]]
  BY <1>1
<1>3. PICK f \in Stepping(n, Nat, 0, step) : TRUE
  <2> HIDE DEF step, n
  <2>1. 0 \in Nat
    OBVIOUS
  <2>2. Stepping(n, Nat, 0, step) # {}
    BY <1>1, <1>2, <2>1, StepsTaken, Zenon
  <2> QED
    BY <2>2
<1> HIDE DEF n
<1>4. f \in [0 .. n -> Nat] /\ f[0] = 0
  BY DEF Stepping
<1>5. ASSUME NEW k \in 1 .. n
      PROVE  f[k] = f[k - 1] + Len(u[k])
  <2>1. f[k] = step[k][f[k - 1]]
    BY DEF Stepping
  <2>2. k - 1 \in 0 .. n
    BY <1>1
  <2> QED
    BY <1>4, <2>1, <2>2
<1>6. Sums(f)
  BY <1>1, <1>4, <1>5
<1>7. Ending(u) = CHOOSE g : Sums(g)
  BY DEF Ending, n
<1>8. Sums(Ending(u))
  <2> HIDE DEF Sums
  <2> QED
    BY <1>6, <1>7
<1> DEFINE e == Ending(u)
<1>9. e = [k \in 0 .. n |-> IF k = 0 THEN 0 ELSE e[k - 1] + Len(u[k])]
  BY <1>8
<1> HIDE DEF e
<1>10. e[0] = 0 /\ \A k \in 1 .. n : e[k] = e[k - 1] + Len(u[k])
  BY <1>1, <1>9
<1> DEFINE typed == {k \in 0 .. n : e[k] \in Nat}
<1>11. 0 \in typed
  BY <1>1, <1>10
<1>12. ASSUME NEW k \in 0 .. n - 1, k \in typed
       PROVE  k + 1 \in typed
  <2>1. k + 1 \in 1 .. n /\ k + 1 \in 0 .. n /\ (k + 1) - 1 = k
    BY <1>1
  <2>2. e[k + 1] = e[k] + Len(u[k + 1]) /\ Len(u[k + 1]) \in Nat
    BY <1>1, <1>10, <2>1
  <2>3. e[k] \in Nat
    BY <1>12
  <2>4. e[k + 1] \in Nat
    <3> HIDE DEF typed
    <3> QED
      BY <2>2, <2>3
  <2> QED
    BY <2>1, <2>4
<1> HIDE DEF typed
<1>13. 0 .. n \subseteq typed
  BY <1>1, <1>11, <1>12, Climb
<1>14. e \in [0 .. n -> Nat]
  BY <1>9, <1>13 DEF typed
<1> QED
  BY <1>10, <1>14 DEF e, n

\* They are the only numbers that are.
LEMMA EndingUnique ==
  ASSUME NEW S, NEW u \in Seq(Seq(S)), NEW f,
         f[0] = 0, \A k \in 1 .. Len(u) : f[k] = f[k - 1] + Len(u[k])
  PROVE  \A k \in 0 .. Len(u) : f[k] = Ending(u)[k]
<1> DEFINE n == Len(u)
           e == Ending(u)
           same == {k \in 0 .. n : f[k] = e[k]}
<1>1. n \in Nat
  OBVIOUS
<1>2. e[0] = 0 /\ \A k \in 1 .. n : e[k] = e[k - 1] + Len(u[k])
  BY EndingSums
<1> HIDE DEF e
<1>3. 0 \in same
  BY <1>1, <1>2
<1>4. ASSUME NEW k \in 0 .. n - 1, k \in same
      PROVE  k + 1 \in same
  <2>1. k + 1 \in 1 .. n /\ k + 1 \in 0 .. n /\ (k + 1) - 1 = k
    BY <1>1
  <2>2. f[k + 1] = f[k] + Len(u[k + 1]) /\ e[k + 1] = e[k] + Len(u[k + 1])
    BY <1>2, <2>1
  <2> QED
    BY <1>4, <2>1, <2>2
<1> HIDE DEF same
<1>5. 0 .. n \subseteq same
  BY <1>1, <1>3, <1>4, Climb
<1> QED
  BY <1>5 DEF same, e

\* What digits are worth is a natural number.
LEMMA ValueType ==
  ASSUME NEW k \in Nat, NEW d \in [1 .. k -> Nat]
  PROVE  Value(d, k) \in Nat
<1> DEFINE step == [i \in 1 .. k |-> [x \in Nat |-> d[k - i + 1] + Base * x]]
           Worth(f) == f = [i \in 0 .. k |-> IF i = 0 THEN 0 ELSE d[k - i + 1] + Base * f[i - 1]]
<1>1. \A i \in 1 .. k : k - i + 1 \in 1 .. k
  OBVIOUS
<1>2. \A x \in Nat : Base * x \in Nat
  BY SizeAssumption
<1>3. \A i \in 1 .. k : \A x \in Nat : d[k - i + 1] + Base * x \in Nat
  <2> SUFFICES ASSUME NEW i \in 1 .. k, NEW x \in Nat PROVE d[k - i + 1] + Base * x \in Nat
    OBVIOUS
  <2> DEFINE y == Base * x
  <2>1. d[k - i + 1] \in Nat
    BY <1>1
  <2>2. y \in Nat
    BY <1>2
  <2> HIDE DEF y
  <2>3. d[k - i + 1] + y \in Nat
    BY <2>1, <2>2
  <2> QED
    BY <2>3 DEF y
<1>4. step \in [1 .. k -> [Nat -> Nat]]
  BY <1>3
<1>5. PICK f \in Stepping(k, Nat, 0, step) : TRUE
  <2> HIDE DEF step
  <2>1. 0 \in Nat
    OBVIOUS
  <2>2. Stepping(k, Nat, 0, step) # {}
    BY <1>4, <2>1, StepsTaken, Zenon
  <2> QED
    BY <2>2
<1>6. /\ f \in [0 .. k -> Nat] /\ f[0] = 0
      /\ \A i \in 1 .. k : f[i] = d[k - i + 1] + Base * f[i - 1]
  <2>1. f \in [0 .. k -> Nat] /\ f[0] = 0
    BY DEF Stepping
  <2>2. ASSUME NEW i \in 1 .. k
        PROVE  f[i] = d[k - i + 1] + Base * f[i - 1]
    <3>1. f[i] = step[i][f[i - 1]]
      BY DEF Stepping
    <3>2. i - 1 \in 0 .. k
      OBVIOUS
    <3> QED
      BY <2>1, <3>1, <3>2
  <2> QED
    BY <2>1, <2>2
<1>7. Worth(f)
  BY <1>6
<1> DEFINE w == CHOOSE g : Worth(g)
<1>8. Worth(w)
  <2> HIDE DEF Worth
  <2> QED
    BY <1>7
<1>9. Value(d, k) = w[k]
  BY DEF Value
<1> HIDE DEF w
<1>10. w = [i \in 0 .. k |-> IF i = 0 THEN 0 ELSE d[k - i + 1] + Base * w[i - 1]]
  BY <1>8
<1> DEFINE typed == {i \in 0 .. k : w[i] \in Nat}
<1>11. 0 \in typed
  BY <1>10
<1>12. ASSUME NEW i \in 0 .. k - 1, i \in typed
       PROVE  i + 1 \in typed
  <2>1. i + 1 \in 1 .. k /\ i + 1 \in 0 .. k /\ (i + 1) - 1 = i /\ i + 1 # 0
    OBVIOUS
  <2>2. w[i + 1] = d[k - (i + 1) + 1] + Base * w[i]
    BY <1>10, <2>1
  <2>3. w[i + 1] \in Nat
    BY <1>3, <1>12, <2>1, <2>2
  <2> QED
    BY <2>1, <2>3
<1> HIDE DEF typed
<1>13. 0 .. k \subseteq typed
  BY <1>11, <1>12, Climb
<1> QED
  BY <1>9, <1>13 DEF typed

---------------------------------------------------------------------------
(***************************************************************************)
(* The header of a packet.                                                 *)
(***************************************************************************)
\* The length bytes end at the first one that can be the last.
LEMMA FirstEnd ==
  ASSUME NEW b, NEW n, Ends(b, n) # {}
  PROVE  /\ LengthBytes(b, n) \in Ends(b, n)
         /\ \A j \in Ends(b, n) : LengthBytes(b, n) <= j
<1> DEFINE First(i) == i \in Ends(b, n) /\ \A j \in Ends(b, n) : i <= j
<1>1. Ends(b, n) \in SUBSET Nat
  BY DEF Ends
<1>2. \E i : First(i)
  BY <1>1, Least
<1>3. LengthBytes(b, n) = CHOOSE i : First(i)
  BY DEF LengthBytes
<1> HIDE DEF First
<1>4. First(LengthBytes(b, n))
  BY <1>2, <1>3
<1> QED
  BY <1>4 DEF First

\* The length of a packet is more than its header.
LEMMA TotalType ==
  ASSUME NEW b \in [1 .. BufSize -> Byte], Ends(b, MaxDigits) # {}
  PROVE  Total(b, MaxDigits) \in Nat /\ Total(b, MaxDigits) >= 1 + LengthBytes(b, MaxDigits)
<1> DEFINE k == LengthBytes(b, MaxDigits)
           d == [i \in 1 .. k |-> b[i + 1] % Base]
<1>1. k \in 1 .. MaxDigits
  BY FirstEnd DEF Ends
<1> HIDE DEF k
<1>2. \A i \in 1 .. k : i + 1 \in 1 .. BufSize
  BY <1>1, SizeAssumption
<1>3. \A i \in 1 .. k : b[i + 1] % Base \in Nat
  BY <1>2, SizeAssumption DEF Byte
<1>4. d \in [1 .. k -> Nat] /\ k \in Nat
  BY <1>1, <1>3, SizeAssumption
<1> HIDE DEF d
<1>5. Value(d, k) \in Nat
  BY <1>4, ValueType
<1>6. Total(b, MaxDigits) = 1 + k + Value(d, k)
  BY DEF Total, Remaining, k, d
<1>7. 1 + k + Value(d, k) \in Nat /\ 1 + k + Value(d, k) >= 1 + k
  BY <1>4, <1>5
<1> QED
  BY <1>6, <1>7 DEF k

\* Once the header of a packet is received, its length is decoded from it, whatever
\* the buffer held before.
LEMMA HeaderReceived ==
  ASSUME NEW p \in Packets, NEW b \in [1 .. BufSize -> Byte], NEW r \in Nat,
         \A i \in 1 .. r : i <= Len(p) => b[i] = p[i],
         LengthBytes(p, Len(p) - 1) + 1 <= r
  PROVE  Ends(b, MaxDigits) # {} /\ Total(b, MaxDigits) = Len(p)
<1> DEFINE n == Len(p) - 1
           k == LengthBytes(p, n)
<1>1. p \in Seq(Byte) /\ Len(p) \in Nat /\ Ends(p, n) # {} /\ Total(p, n) = Len(p)
  BY PacketsAssumption
<1>2. k \in Ends(p, n) /\ \A j \in Ends(p, n) : k <= j
  BY <1>1, FirstEnd
<1> HIDE DEF k
<1>3. k \in 1 .. MaxDigits /\ k + 1 <= Len(p) /\ p[k + 1] < Base
  BY <1>1, <1>2, SizeAssumption DEF Ends
<1>4. \A i \in 1 .. k : b[i + 1] = p[i + 1]
  BY <1>1, <1>3, SizeAssumption DEF k
<1>5. k \in Ends(b, MaxDigits)
  BY <1>3, <1>4 DEF Ends
<1>6. \A j \in Ends(b, MaxDigits) : k <= j
  <2> SUFFICES ASSUME NEW j \in Ends(b, MaxDigits), ~(k <= j)
               PROVE  FALSE
    OBVIOUS
  <2>1. j \in 1 .. k /\ j <= MaxDigits /\ b[j + 1] < Base /\ j \in 1 .. n
    BY <1>1, <1>3, SizeAssumption DEF Ends
  <2>2. j \in Ends(p, n)
    BY <1>4, <2>1 DEF Ends
  <2> QED
    BY <1>2, <2>2
<1>7. LengthBytes(b, MaxDigits) = k
  <2>1. LengthBytes(b, MaxDigits) \in Ends(b, MaxDigits) /\ LengthBytes(b, MaxDigits) <= k
    BY <1>5, FirstEnd
  <2>2. LengthBytes(b, MaxDigits) \in Nat /\ k \in Nat
    BY <1>3, <2>1, SizeAssumption DEF Ends
  <2> QED
    BY <1>6, <2>1, <2>2
<1>8. [i \in 1 .. k |-> b[i + 1] % Base] = [i \in 1 .. k |-> p[i + 1] % Base]
  BY <1>4
<1>9. Total(b, MaxDigits) = Total(p, n)
  BY <1>7, <1>8 DEF Total, Remaining, k
<1> QED
  BY <1>1, <1>5, <1>9

\* Until then every byte received says that another one follows, and a length
\* decoded with bytes left over makes the packet longer than what was received.
LEMMA HeaderMissing ==
  ASSUME NEW p \in Packets, NEW b \in [1 .. BufSize -> Byte], NEW r \in Nat, r >= 2,
         \A i \in 1 .. r : i <= Len(p) => b[i] = p[i],
         r < LengthBytes(p, Len(p) - 1) + 1, Ends(b, MaxDigits) # {}
  PROVE  r < Total(b, MaxDigits)
<1> DEFINE n == Len(p) - 1
           k == LengthBytes(p, n)
           m == LengthBytes(b, MaxDigits)
<1>1. p \in Seq(Byte) /\ Len(p) \in Nat /\ Ends(p, n) # {}
  BY PacketsAssumption
<1>2. k \in Ends(p, n) /\ \A j \in Ends(p, n) : k <= j
  BY <1>1, FirstEnd
<1>3. m \in Ends(b, MaxDigits)
  BY FirstEnd
<1>4. Total(b, MaxDigits) \in Nat /\ Total(b, MaxDigits) >= 1 + m
  BY TotalType
<1>5. r < k + 1
  OBVIOUS
<1> HIDE DEF k, m
<1>6. k \in 1 .. MaxDigits /\ k <= n
  BY <1>1, <1>2, SizeAssumption DEF Ends
<1>7. m \in 1 .. MaxDigits /\ b[m + 1] < Base
  BY <1>3, SizeAssumption DEF Ends
<1>8. ASSUME m < r
      PROVE  FALSE
  <2>1. m + 1 \in 1 .. r /\ m + 1 <= Len(p) /\ m \in 1 .. n /\ m < k
    BY <1>1, <1>5, <1>6, <1>7, <1>8, SizeAssumption
  <2>2. p[m + 1] < Base
    BY <1>7, <2>1
  <2>3. m \in Ends(p, n)
    BY <1>7, <2>1, <2>2, SizeAssumption DEF Ends
  <2> QED
    BY <1>2, <1>6, <1>7, <2>1, <2>3, SizeAssumption
<1> QED
  BY <1>4, <1>7, <1>8, SizeAssumption

---------------------------------------------------------------------------
(***************************************************************************)
(* The stream, byte by byte.                                               *)
(***************************************************************************)
\* Byte i of what is received and not handled, followed by what is on the wire.
StreamByte(b, r, w, i) == IF i <= r THEN b[i] ELSE w[i - r]

\* The stream is the packets of u.
Aligned(b, r, w, u) ==
  /\ r + Len(w) = Ending(u)[Len(u)]
  /\ \A k \in 1 .. Len(u) : \A j \in 1 .. Len(u[k]) :
       StreamByte(b, r, w, Ending(u)[k - 1] + j) = u[k][j]

LEMMA PacketsAreBytes ==
  /\ \A p \in Packets : p \in Seq(Byte) /\ Len(p) \in Nat
  /\ Seq(Packets) \subseteq Seq(Seq(Byte))
  /\ \A u \in Seq(Packets) : \A k \in 1 .. Len(u) :
       u[k] \in Packets /\ u[k] \in Seq(Byte) /\ Len(u[k]) \in Nat
<1>1. \A p \in Packets : p \in Seq(Byte) /\ Len(p) \in Nat
  BY PacketsAssumption
<1>2. Packets \subseteq Seq(Byte)
  BY <1>1
<1> QED
  BY <1>1, <1>2

\* No packet ends behind the last one.
LEMMA EndingBound ==
  ASSUME NEW S, NEW u \in Seq(Seq(S))
  PROVE  \A k \in 0 .. Len(u) : Ending(u)[k] <= Ending(u)[Len(u)]
<1> DEFINE n == Len(u)
           e == Ending(u)
           low == {m \in 0 .. n : e[n - m] <= e[n]}
<1>1. n \in Nat /\ \A k \in 1 .. n : Len(u[k]) \in Nat
  OBVIOUS
<1>2. e \in [0 .. n -> Nat] /\ \A k \in 1 .. n : e[k] = e[k - 1] + Len(u[k])
  BY EndingSums
<1> HIDE DEF e, n
<1>3. 0 \in low
  BY <1>1, <1>2
<1>4. ASSUME NEW m \in 0 .. n - 1, m \in low
      PROVE  m + 1 \in low
  <2>1. n - m \in 1 .. n /\ (n - m) - 1 = n - (m + 1) /\ n - (m + 1) \in 0 .. n /\ m + 1 \in 0 .. n
        /\ n \in 0 .. n /\ n - m \in 0 .. n
    BY <1>1
  <2>2. e[n - m] = e[n - (m + 1)] + Len(u[n - m]) /\ Len(u[n - m]) \in Nat
    BY <1>1, <1>2, <2>1
  <2>3. e[n - (m + 1)] \in Nat /\ e[n - m] \in Nat /\ e[n] \in Nat /\ e[n - m] <= e[n]
    BY <1>2, <1>4, <2>1
  <2>4. e[n - (m + 1)] <= e[n]
    BY <2>2, <2>3
  <2> QED
    BY <2>1, <2>4
<1> HIDE DEF low
<1>5. 0 .. n \subseteq low
  BY <1>1, <1>3, <1>4, Climb
<1>6. ASSUME NEW k \in 0 .. n
      PROVE  e[k] <= e[n]
  <2>1. n - k \in low /\ n - (n - k) = k
    BY <1>1, <1>5
  <2> QED
    BY <2>1 DEF low
<1> QED
  BY <1>6 DEF e, n

\* Another packet sent.
LEMMA SentAligned ==
  ASSUME NEW b, NEW r \in Nat, NEW w \in Seq(Byte), NEW u \in Seq(Packets), NEW p \in Packets,
         Aligned(b, r, w, u)
  PROVE  Aligned(b, r, w \o p, Append(u, p))
<1> DEFINE n == Len(u)
           e == Ending(u)
           v == Append(u, p)
           f == [k \in 0 .. n + 1 |-> IF k = n + 1 THEN e[n] + Len(p) ELSE e[k]]
<1>1. /\ n \in Nat /\ Len(v) = n + 1 /\ v \in Seq(Packets)
      /\ \A k \in 1 .. n : v[k] = u[k]
      /\ v[n + 1] = p
  BY AppendProperties
<1>2. /\ u \in Seq(Seq(Byte)) /\ v \in Seq(Seq(Byte)) /\ p \in Seq(Byte) /\ Len(p) \in Nat
      /\ \A k \in 1 .. n : Len(u[k]) \in Nat
  BY <1>1, PacketsAreBytes
<1>3. /\ e \in [0 .. n -> Nat] /\ e[0] = 0
      /\ \A k \in 1 .. n : e[k] = e[k - 1] + Len(u[k])
      /\ \A k \in 0 .. n : e[k] <= e[n]
  BY <1>2, EndingSums, EndingBound
<1>4. r + Len(w) = e[n]
  BY DEF Aligned
<1>5. \A k \in 1 .. n : \A j \in 1 .. Len(u[k]) : StreamByte(b, r, w, e[k - 1] + j) = u[k][j]
  BY DEF Aligned
<1> HIDE DEF n, e, v
<1>6. \A k \in 0 .. n + 1 : f[k] = Ending(v)[k]
  <2>1. f[0] = 0
    BY <1>1, <1>3
  <2>2. ASSUME NEW k \in 1 .. n + 1
        PROVE  f[k] = f[k - 1] + Len(v[k])
    <3>1. k - 1 \in 0 .. n + 1 /\ k \in 0 .. n + 1 /\ k - 1 # n + 1
      BY <1>1
    <3>2. CASE k = n + 1
      BY <1>1, <3>1, <3>2
    <3>3. CASE k # n + 1
      <4>1. k \in 1 .. n
        BY <1>1, <3>3
      <4>2. f[k] = e[k] /\ f[k - 1] = e[k - 1]
        BY <3>1, <3>3
      <4> QED
        BY <1>1, <1>3, <4>1, <4>2
    <3> QED
      BY <3>2, <3>3
  <2> HIDE DEF f
  <2>3. Len(v) = n + 1 /\ v \in Seq(Seq(Byte))
    BY <1>1, <1>2
  <2>4. \A k \in 1 .. Len(v) : f[k] = f[k - 1] + Len(v[k])
    BY <2>2, <2>3
  <2>5. \A k \in 0 .. Len(v) : f[k] = Ending(v)[k]
    BY <2>1, <2>3, <2>4, EndingUnique
  <2> QED
    BY <2>3, <2>5
<1>7. /\ \A k \in 0 .. n : Ending(v)[k] = e[k]
      /\ Ending(v)[n + 1] = e[n] + Len(p)
  <2>1. \A k \in 0 .. n : k \in 0 .. n + 1 /\ k # n + 1
    BY <1>1
  <2>2. n + 1 \in 0 .. n + 1
    BY <1>1
  <2>3. \A k \in 0 .. n : f[k] = e[k]
    BY <2>1
  <2>4. f[n + 1] = e[n] + Len(p)
    BY <2>2
  <2> HIDE DEF f
  <2> QED
    BY <1>6, <2>1, <2>2, <2>3, <2>4
<1> HIDE DEF f
<1>8. /\ Len(w \o p) = Len(w) + Len(p) /\ Len(w) \in Nat
      /\ \A i \in 1 .. Len(w) : (w \o p)[i] = w[i]
      /\ \A i \in 1 .. Len(p) : (w \o p)[Len(w) + i] = p[i]
  BY <1>2
<1>9. e[n] \in Nat
  BY <1>1, <1>3
<1>10. r + Len(w \o p) = Ending(v)[Len(v)]
  BY <1>1, <1>2, <1>4, <1>7, <1>8, <1>9
<1>11. ASSUME NEW k \in 1 .. n + 1, NEW j \in 1 .. Len(v[k])
       PROVE  StreamByte(b, r, w \o p, Ending(v)[k - 1] + j) = v[k][j]
  <2>1. k - 1 \in 0 .. n
    BY <1>1
  <2>2. Ending(v)[k - 1] = e[k - 1] /\ e[k - 1] \in Nat
    BY <1>3, <1>7, <2>1
  <2>3. CASE k = n + 1
    <3>1. k - 1 = n /\ v[k] = p /\ j \in 1 .. Len(p)
      BY <1>1, <2>3
    <3>2. e[k - 1] + j = r + (Len(w) + j) /\ ~(r + (Len(w) + j) <= r)
          /\ (r + (Len(w) + j)) - r = Len(w) + j
      BY <1>2, <1>4, <1>8, <3>1
    <3>3. StreamByte(b, r, w \o p, r + (Len(w) + j)) = (w \o p)[Len(w) + j]
      BY <3>2 DEF StreamByte
    <3> QED
      BY <1>8, <2>2, <3>1, <3>2, <3>3
  <2>4. CASE k # n + 1
    <3>1. k \in 1 .. n /\ v[k] = u[k] /\ j \in 1 .. Len(u[k]) /\ k \in 0 .. n
      BY <1>1, <2>4
    <3> DEFINE i == e[k - 1] + j
    <3>2. i \in Nat /\ i <= e[n] /\ i >= 1
      <4> DEFINE before == e[k - 1]
                 l      == Len(u[k])
                 end    == e[n]
      <4>1. e[k] = before + l /\ e[k] <= end /\ l \in Nat
        BY <1>2, <1>3, <3>1
      <4>2. before \in Nat /\ end \in Nat /\ j \in 1 .. l
        BY <1>9, <2>2, <3>1
      <4> HIDE DEF before, l, end
      <4>3. before + j \in Nat /\ before + j <= end /\ before + j >= 1
        BY <4>1, <4>2
      <4> QED
        BY <4>3 DEF before, end
    <3>3. StreamByte(b, r, w, i) = u[k][j]
      BY <1>5, <3>1
    <3> HIDE DEF i
    <3>4. StreamByte(b, r, w \o p, i) = StreamByte(b, r, w, i)
      <4>1. CASE i <= r
        BY <4>1 DEF StreamByte
      <4>2. CASE ~(i <= r)
        <5>1. i - r \in 1 .. Len(w)
          BY <1>4, <1>8, <3>2, <4>2
        <5> QED
          BY <1>8, <4>2, <5>1 DEF StreamByte
      <4> QED
        BY <4>1, <4>2
    <3> QED
      BY <2>2, <3>1, <3>3, <3>4 DEF i
  <2> QED
    BY <2>3, <2>4
<1> QED
  BY <1>1, <1>10, <1>11 DEF Aligned, v

\* Bytes received: they move from the wire to the buffer.
LEMMA ReceivedAligned ==
  ASSUME NEW b \in [1 .. BufSize -> Byte], NEW r \in Nat, NEW w \in Seq(Byte),
         NEW u \in Seq(Packets), NEW n \in 1 .. Len(w), r + n <= BufSize, Aligned(b, r, w, u),
         NEW c, c = [i \in 1 .. BufSize |-> IF i \in r + 1 .. r + n THEN w[i - r] ELSE b[i]]
  PROVE  Aligned(c, r + n, SubSeq(w, n + 1, Len(w)), u)
<1> DEFINE x == SubSeq(w, n + 1, Len(w))
<1>1. Len(w) \in Nat /\ n \in Nat /\ BufSize \in Nat
  BY SizeAssumption
<1>2. Len(x) = Len(w) - n /\ \A i \in 1 .. Len(w) - n : x[i] = w[n + i]
  <2>1. n + 1 \in 1 .. Len(w) + 1 /\ Len(w) \in n + 1 - 1 .. Len(w)
    BY <1>1
  <2>2. Len(x) = IF n + 1 <= Len(w) THEN Len(w) - (n + 1) + 1 ELSE 0
    BY <1>1
  <2>3. Len(x) = Len(w) - n
    BY <1>1, <2>2
  <2>4. \A i \in 1 .. Len(w) - n : x[i] = w[n + i]
    BY <1>1, <2>3
  <2> QED
    BY <2>3, <2>4
<1> HIDE DEF x
<1> DEFINE e == Ending(u)
<1>3. /\ e \in [0 .. Len(u) -> Nat]
      /\ \A k \in 1 .. Len(u) : e[k] = e[k - 1] + Len(u[k])
      /\ \A k \in 0 .. Len(u) : e[k] <= e[Len(u)]
  BY PacketsAreBytes, EndingSums, EndingBound
<1>4. r + Len(w) = e[Len(u)]
  BY DEF Aligned
<1>5. \A k \in 1 .. Len(u) : \A j \in 1 .. Len(u[k]) : StreamByte(b, r, w, e[k - 1] + j) = u[k][j]
  BY DEF Aligned
<1> HIDE DEF e
<1>6. (r + n) + Len(x) = e[Len(u)]
  BY <1>1, <1>2, <1>4
<1>7. ASSUME NEW i \in 1 .. r + Len(w)
      PROVE  StreamByte(c, r + n, x, i) = StreamByte(b, r, w, i)
  <2>1. CASE i <= r
    <3>1. i <= r + n /\ i \in 1 .. BufSize /\ i \notin r + 1 .. r + n
      BY <1>1, <2>1
    <3> QED
      BY <2>1, <3>1 DEF StreamByte
  <2>2. CASE ~(i <= r) /\ i <= r + n
    <3>1. i \in 1 .. BufSize /\ i \in r + 1 .. r + n
      BY <1>1, <2>2
    <3> QED
      BY <2>2, <3>1 DEF StreamByte
  <2>3. CASE ~(i <= r + n)
    <3>1. ~(i <= r) /\ i - (r + n) \in 1 .. Len(w) - n /\ n + (i - (r + n)) = i - r
      BY <1>1, <2>3
    <3>2. x[i - (r + n)] = w[n + (i - (r + n))]
      BY <1>2, <3>1
    <3> QED
      BY <2>3, <3>1, <3>2 DEF StreamByte
  <2> QED
    BY <2>1, <2>2, <2>3
<1>8. ASSUME NEW k \in 1 .. Len(u), NEW j \in 1 .. Len(u[k])
      PROVE  StreamByte(c, r + n, x, e[k - 1] + j) = u[k][j]
  <2>1. Len(u) \in Nat /\ Len(u[k]) \in Nat
    BY PacketsAreBytes
  <2>2. e[k] = e[k - 1] + Len(u[k]) /\ e[k] <= e[Len(u)]
    <3>1. k \in 0 .. Len(u)
      BY <2>1
    <3> QED
      BY <1>3, <3>1
  <2>3. e[k - 1] \in Nat
    <3>1. k - 1 \in 0 .. Len(u)
      BY <2>1
    <3> QED
      BY <1>3, <3>1
  <2>4. e[k] <= r + Len(w)
    BY <1>4, <2>2, Zenon
  <2>5. e[k - 1] + j \in 1 .. r + Len(w)
    <3> DEFINE before == e[k - 1]
               l      == Len(u[k])
               all    == r + Len(w)
    <3>1. e[k] = before + l /\ e[k] <= all /\ before \in Nat /\ l \in Nat /\ all \in Nat /\ j \in 1 .. l
      BY <1>1, <2>1, <2>2, <2>3, <2>4
    <3> HIDE DEF before, l, all
    <3>2. before + j \in 1 .. all
      BY <3>1
    <3> QED
      BY <3>2 DEF before, all
  <2> QED
    BY <1>5, <1>7, <2>5
<1> QED
  BY <1>6, <1>8 DEF Aligned, x, e

\* A packet handled: its bytes leave the front of the buffer.
LEMMA HandledAligned ==
  ASSUME NEW b \in [1 .. BufSize -> Byte], NEW r \in 0 .. BufSize, NEW w \in Seq(Byte),
         NEW u \in Seq(Packets), u # <<>>, Len(u[1]) <= r, Aligned(b, r, w, u),
         NEW c, c = [i \in 1 .. BufSize |-> IF i + Len(u[1]) <= r THEN b[i + Len(u[1])] ELSE b[i]]
  PROVE  Aligned(c, r - Len(u[1]), w, SubSeq(u, 2, Len(u)))
<1> DEFINE n == Len(u)
           t == Len(u[1])
           e == Ending(u)
           v == SubSeq(u, 2, n)
           f == [k \in 0 .. n - 1 |-> e[k + 1] - t]
<1>1. n \in Nat /\ n >= 1 /\ Len(w) \in Nat /\ BufSize \in Nat /\ r \in Nat
  BY EmptySeq, SizeAssumption
<1>2. /\ u \in Seq(Seq(Byte)) /\ t \in Nat
      /\ \A k \in 1 .. n : u[k] \in Packets /\ Len(u[k]) \in Nat
  BY <1>1, PacketsAreBytes
<1>3. /\ e \in [0 .. n -> Nat] /\ e[0] = 0
      /\ \A k \in 1 .. n : e[k] = e[k - 1] + Len(u[k])
      /\ \A k \in 0 .. n : e[k] <= e[n]
  BY <1>2, EndingSums, EndingBound
<1>4. r + Len(w) = e[n]
  BY DEF Aligned
<1>5. \A k \in 1 .. n : \A j \in 1 .. Len(u[k]) : StreamByte(b, r, w, e[k - 1] + j) = u[k][j]
  BY DEF Aligned
<1>6. Len(v) = n - 1 /\ v \in Seq(Packets) /\ \A k \in 1 .. n - 1 : v[k] = u[k + 1]
  <2>1. v = Tail(u)
    BY <1>1, TailIsSubSeq
  <2> QED
    BY <1>1, <2>1, HeadTailProperties
<1>7. v \in Seq(Seq(Byte))
  BY <1>6, PacketsAreBytes
<1> HIDE DEF n, t, e, v
<1>8. e[1] = t /\ r >= t
  BY <1>1, <1>3 DEF t
<1>9. \A k \in 0 .. n - 1 : f[k] = Ending(v)[k]
  <2>1. f[0] = 0
    BY <1>1, <1>2, <1>8
  <2>2. ASSUME NEW k \in 1 .. n - 1
        PROVE  f[k] = f[k - 1] + Len(v[k])
    <3>1. /\ k \in 0 .. n - 1 /\ k - 1 \in 0 .. n - 1 /\ k + 1 \in 1 .. n
          /\ (k - 1) + 1 = k /\ (k + 1) - 1 = k /\ k \in 0 .. n
      BY <1>1
    <3>2. f[k] = e[k + 1] - t /\ f[k - 1] = e[k] - t
      BY <3>1
    <3>3. e[k + 1] = e[k] + Len(u[k + 1]) /\ e[k] \in Nat /\ Len(u[k + 1]) \in Nat
      BY <1>2, <1>3, <3>1
    <3>4. v[k] = u[k + 1]
      BY <1>6
    <3> HIDE DEF f
    <3> QED
      BY <1>2, <3>2, <3>3, <3>4
  <2> HIDE DEF f
  <2>3. \A k \in 1 .. Len(v) : f[k] = f[k - 1] + Len(v[k])
    BY <1>6, <2>2
  <2>4. \A k \in 0 .. Len(v) : f[k] = Ending(v)[k]
    BY <1>7, <2>1, <2>3, EndingUnique
  <2> QED
    BY <1>6, <2>4
<1>10. \A k \in 0 .. n - 1 : Ending(v)[k] = e[k + 1] - t
  BY <1>9
<1> HIDE DEF f
<1>11. (r - t) + Len(w) = Ending(v)[Len(v)]
  <2>1. n - 1 \in 0 .. n - 1 /\ (n - 1) + 1 = n /\ e[n] \in Nat
    BY <1>1, <1>3
  <2> QED
    BY <1>1, <1>2, <1>4, <1>6, <1>10, <2>1
<1>12. ASSUME NEW i \in Nat, i >= 1
       PROVE  StreamByte(c, r - t, w, i) = StreamByte(b, r, w, i + t)
  <2>1. CASE i + t <= r
    <3>1. i <= r - t /\ i \in 1 .. BufSize
      BY <1>1, <1>2, <1>12, <2>1
    <3> QED
      BY <2>1, <3>1 DEF StreamByte, t
  <2>2. CASE ~(i + t <= r)
    <3>1. ~(i <= r - t) /\ i - (r - t) = (i + t) - r
      BY <1>1, <1>2, <2>2
    <3> QED
      BY <2>2, <3>1 DEF StreamByte
  <2> QED
    BY <2>1, <2>2
<1>13. ASSUME NEW k \in 1 .. n - 1, NEW j \in 1 .. Len(v[k])
       PROVE  StreamByte(c, r - t, w, Ending(v)[k - 1] + j) = v[k][j]
  <2>1. /\ k + 1 \in 1 .. n /\ v[k] = u[k + 1] /\ k - 1 \in 0 .. n - 1
        /\ (k - 1) + 1 = k /\ (k + 1) - 1 = k /\ k \in 0 .. n /\ k \in 1 .. n /\ k - 1 \in 0 .. n
    BY <1>1, <1>6
  <2>2. Ending(v)[k - 1] = e[k] - t /\ e[k] \in Nat /\ e[k] >= t
    <3>1. Ending(v)[k - 1] = e[k] - t
      BY <1>10, <2>1
    <3>2. e[k] >= t
      <4> DEFINE low == {m \in 0 .. n - 1 : e[m + 1] >= t}
      <4>1. 0 \in low
        BY <1>1, <1>2, <1>8
      <4>2. ASSUME NEW m \in 0 .. (n - 1) - 1, m \in low
            PROVE  m + 1 \in low
        <5>1. m + 2 \in 1 .. n /\ m + 1 \in 0 .. n /\ (m + 2) - 1 = m + 1 /\ (m + 1) + 1 = m + 2
              /\ m + 1 \in 0 .. n - 1
          BY <1>1
        <5>2. e[m + 2] = e[m + 1] + Len(u[m + 2]) /\ Len(u[m + 2]) \in Nat /\ e[m + 1] \in Nat
          BY <1>2, <1>3, <5>1
        <5>3. e[m + 1] >= t
          BY <4>2
        <5>4. e[(m + 1) + 1] >= t
          <6> HIDE DEF low
          <6>1. t \in Nat
            BY <1>2
          <6>2. e[m + 2] >= t
            BY <5>2, <5>3, <6>1
          <6> QED
            BY <5>1, <6>2
        <5> QED
          BY <5>1, <5>4
      <4> HIDE DEF low
      <4>3. 0 .. n - 1 \subseteq low
        <5>1. n - 1 \in Nat
          BY <1>1
        <5> QED
          BY <4>1, <4>2, <5>1, Climb
      <4> QED
        BY <2>1, <4>3 DEF low
    <3> QED
      BY <1>3, <2>1, <3>1, <3>2
  <2>3. j \in Nat /\ j >= 1 /\ j \in 1 .. Len(u[k + 1])
    BY <1>2, <2>1
  <2> DEFINE i == Ending(v)[k - 1] + j
  <2>4. i \in Nat /\ i >= 1 /\ i + t = e[k] + j
    <3>1. t \in Nat /\ i = (e[k] - t) + j
      BY <1>2, <2>2
    <3>2. \A x, y \in Nat : x >= t /\ y >= 1 => /\ (x - t) + y \in Nat /\ (x - t) + y >= 1
                                                /\ ((x - t) + y) + t = x + y
      BY <3>1
    <3> HIDE DEF i
    <3> QED
      BY <2>2, <2>3, <3>1, <3>2
  <2>5. StreamByte(c, r - t, w, i) = StreamByte(b, r, w, e[k] + j)
    <3> HIDE DEF i
    <3> QED
      BY <1>12, <2>4
  <2>6. StreamByte(b, r, w, e[k] + j) = u[k + 1][j]
    BY <1>5, <2>1, <2>3
  <2> QED
    BY <2>1, <2>5, <2>6
<1> QED
  BY <1>6, <1>11, <1>13 DEF Aligned, n, t, v

---------------------------------------------------------------------------
(***************************************************************************)
(* The inductive invariant: a step finds the packets at the front of the   *)
(* buffer only if the whole stream is made of them.                        *)
(***************************************************************************)
IInv == TypeOK /\ Aligned(recv_buf, recv_len, wire, unread)

\* Nothing received, nothing sent.
LEMMA NothingAligned ==
  ASSUME NEW b
  PROVE  Aligned(b, 0, <<>>, <<>>)
<1>1. <<>> \in Seq(Seq(Byte)) /\ Len(<<>>) = 0 /\ 1 .. 0 = {}
  OBVIOUS
<1>2. Ending(<<>>)[0] = 0
  BY <1>1, EndingSums
<1> QED
  BY <1>1, <1>2 DEF Aligned

\* Byte by byte, the stream is the one of StreamIntact.
LEMMA AlignedIsIntact == IInv => StreamIntact
<1> SUFFICES ASSUME IInv
             PROVE  StreamIntact
  OBVIOUS
<1> DEFINE front == SubSeq(recv_buf, 1, recv_len)
           stream == front \o wire
           e == Ending(unread)
           n == Len(unread)
<1>1. /\ recv_buf \in [1 .. BufSize -> Byte] /\ recv_len \in 0 .. BufSize
      /\ wire \in Seq(Byte) /\ unread \in Seq(Packets) /\ BufSize \in Nat
  BY SizeAssumption DEF IInv, TypeOK
<1>2. front \in Seq(Byte) /\ Len(front) = recv_len
      /\ \A i \in 1 .. recv_len : front[i] = recv_buf[i]
  <2>1. recv_buf \in Seq(Byte) /\ Len(recv_buf) = BufSize
    BY <1>1
  <2>2. 1 \in 1 .. Len(recv_buf) + 1 /\ recv_len \in 1 - 1 .. Len(recv_buf)
    BY <1>1, <2>1
  <2>3. front \in Seq(Byte) /\ Len(front) = recv_len
    BY <1>1, <2>1, <2>2, SubSeqProperties
  <2>4. \A i \in 1 .. recv_len : front[i] = recv_buf[i]
    BY <1>1, <2>1, <2>3
  <2> QED
    BY <2>3, <2>4
<1> HIDE DEF front
<1>3. /\ stream \in Seq(Byte) /\ Len(stream) = recv_len + Len(wire)
      /\ \A i \in 1 .. recv_len + Len(wire) :
           stream[i] = StreamByte(recv_buf, recv_len, wire, i)
  <2>1. stream \in Seq(Byte) /\ Len(stream) = recv_len + Len(wire)
    BY <1>1, <1>2, ConcatProperties
  <2>2. ASSUME NEW i \in 1 .. recv_len + Len(wire)
        PROVE  stream[i] = StreamByte(recv_buf, recv_len, wire, i)
    <3>1. stream[i] = IF i <= Len(front) THEN front[i] ELSE wire[i - Len(front)]
      BY <1>1, <1>2, ConcatProperties
    <3>2. CASE i <= recv_len
      BY <1>2, <3>1, <3>2 DEF StreamByte
    <3>3. CASE ~(i <= recv_len)
      BY <1>2, <3>1, <3>3 DEF StreamByte
    <3> QED
      BY <3>2, <3>3
  <2> QED
    BY <2>1, <2>2
<1> HIDE DEF stream
<1>4. /\ e \in [0 .. n -> Nat]
      /\ \A k \in 1 .. n : e[k] = e[k - 1] + Len(unread[k])
      /\ \A k \in 0 .. n : e[k] <= e[n]
  BY <1>1, PacketsAreBytes, EndingSums, EndingBound
<1>5. recv_len + Len(wire) = e[n]
  BY DEF IInv, Aligned
<1>6. \A k \in 1 .. n : \A j \in 1 .. Len(unread[k]) :
        StreamByte(recv_buf, recv_len, wire, e[k - 1] + j) = unread[k][j]
  BY DEF IInv, Aligned
<1>7. n \in Nat /\ \A k \in 1 .. n : unread[k] \in Seq(Byte) /\ Len(unread[k]) \in Nat
  BY <1>1, PacketsAreBytes
<1> HIDE DEF e, n
<1>8. ASSUME NEW k \in 1 .. n
      PROVE  SubSeq(stream, e[k - 1] + 1, e[k]) = unread[k]
  <2> DEFINE q == SubSeq(stream, e[k - 1] + 1, e[k])
             a == e[k - 1]
             z == e[k]
  <2>1. /\ k \in 0 .. n /\ k - 1 \in 0 .. n /\ a \in Nat /\ z \in Nat
        /\ z = a + Len(unread[k]) /\ z <= Len(stream) /\ Len(unread[k]) \in Nat
    BY <1>3, <1>4, <1>5, <1>7
  <2>2. a + 1 \in 1 .. Len(stream) + 1 /\ z \in (a + 1) - 1 .. Len(stream)
    BY <1>3, <2>1
  <2> HIDE DEF a, z
  <2>3. /\ SubSeq(stream, a + 1, z) \in Seq(Byte)
        /\ Len(SubSeq(stream, a + 1, z)) = Len(unread[k])
        /\ \A j \in 1 .. z - (a + 1) + 1 : SubSeq(stream, a + 1, z)[j] = stream[(a + 1) + j - 1]
    BY <1>3, <2>1, <2>2, SubSeqProperties
  <2>4. ASSUME NEW j \in 1 .. Len(unread[k])
        PROVE  SubSeq(stream, a + 1, z)[j] = unread[k][j]
    <3>1. /\ j \in 1 .. z - (a + 1) + 1 /\ (a + 1) + j - 1 = a + j
          /\ a + j \in 1 .. recv_len + Len(wire)
      BY <1>3, <2>1
    <3>2. SubSeq(stream, a + 1, z)[j] = stream[a + j]
      BY <2>3, <3>1
    <3>3. stream[a + j] = StreamByte(recv_buf, recv_len, wire, a + j)
      BY <1>3, <3>1
    <3>4. StreamByte(recv_buf, recv_len, wire, a + j) = unread[k][j]
      BY <1>6 DEF a
    <3> QED
      BY <3>2, <3>3, <3>4
  <2>5. SubSeq(stream, a + 1, z) = unread[k]
    BY <1>7, <2>3, <2>4, SeqEqual
  <2> QED
    BY <2>5 DEF a, z
<1>9. Len(stream) = e[n]
  BY <1>3, <1>5
<1> QED
  BY <1>8, <1>9 DEF StreamIntact, stream, front, e, n

\* With at least two bytes received there is an unread packet, and what is received
\* of it stands at the front of the buffer.
LEMMA PacketInFront ==
  ASSUME IInv, recv_len >= 2
  PROVE  /\ unread # <<>> /\ unread[1] \in Packets
         /\ \A i \in 1 .. recv_len : i <= Len(unread[1]) => recv_buf[i] = unread[1][i]
<1>1. /\ recv_len \in 0 .. BufSize /\ BufSize \in Nat /\ wire \in Seq(Byte) /\ unread \in Seq(Packets)
  BY SizeAssumption DEF IInv, TypeOK
<1>2. /\ recv_len + Len(wire) = Ending(unread)[Len(unread)]
      /\ \A k \in 1 .. Len(unread) : \A j \in 1 .. Len(unread[k]) :
           StreamByte(recv_buf, recv_len, wire, Ending(unread)[k - 1] + j) = unread[k][j]
  BY DEF IInv, Aligned
<1>3. Ending(unread)[0] = 0
  BY <1>1, PacketsAreBytes, EndingSums
<1>4. unread # <<>>
  <2> SUFFICES ASSUME Len(unread) = 0
               PROVE  FALSE
    BY <1>1, EmptySeq
  <2>1. Len(wire) \in Nat /\ recv_len + Len(wire) = 0
    BY <1>1, <1>2, <1>3
  <2> QED
    BY <1>1, <2>1
<1>5. 1 \in 1 .. Len(unread) /\ unread[1] \in Packets /\ Len(unread[1]) \in Nat
  <2>1. Len(unread) \in Nat /\ Len(unread) # 0
    BY <1>1, <1>4, EmptySeq
  <2>2. 1 \in 1 .. Len(unread)
    BY <2>1
  <2> QED
    BY <1>1, <2>2, PacketsAreBytes
<1>6. ASSUME NEW i \in 1 .. recv_len, i <= Len(unread[1])
      PROVE  recv_buf[i] = unread[1][i]
  <2>1. i \in 1 .. Len(unread[1]) /\ Ending(unread)[1 - 1] + i = i /\ i <= recv_len
    BY <1>1, <1>3, <1>5, <1>6
  <2>2. StreamByte(recv_buf, recv_len, wire, Ending(unread)[1 - 1] + i) = unread[1][i]
    BY <1>2, <1>5, <2>1
  <2> QED
    BY <2>1, <2>2 DEF StreamByte
<1> QED
  BY <1>4, <1>5, <1>6

---------------------------------------------------------------------------
(***************************************************************************)
(* The steps.                                                              *)
(***************************************************************************)
\* A packet is handed over only when it is all there, and the length taken for it is
\* its own; the loop gives up only when part of the header is missing.
LEMMA LoopSees ==
  ASSUME IInv, recv_len >= 2
  PROVE  /\ Framed /\ ~Incomplete => Total(recv_buf, MaxDigits) = Len(unread[1])
         /\ ~Framed => recv_len < 1 + LengthBytes(unread[1], Len(unread[1]) - 1)
<1> DEFINE p == unread[1]
           k == LengthBytes(p, Len(p) - 1)
<1>1. recv_buf \in [1 .. BufSize -> Byte] /\ recv_len \in Nat
  BY SizeAssumption DEF IInv, TypeOK
<1>2. p \in Packets /\ \A i \in 1 .. recv_len : i <= Len(p) => recv_buf[i] = p[i]
  BY PacketInFront
<1>3. k \in Nat /\ Len(p) \in Nat /\ Len(p) <= BufSize
  <2>1. Ends(p, Len(p) - 1) # {}
    BY <1>2, PacketsAssumption
  <2>2. k \in Ends(p, Len(p) - 1)
    BY <2>1, FirstEnd
  <2> QED
    BY <1>2, <2>2, PacketsAssumption DEF Ends
<1> HIDE DEF p
<1>4. CASE k + 1 <= recv_len
  <2>1. Ends(recv_buf, MaxDigits) # {} /\ Total(recv_buf, MaxDigits) = Len(p)
    BY <1>1, <1>2, <1>4, HeaderReceived
  <2> QED
    BY <1>3, <2>1 DEF Framed, p
<1>5. CASE recv_len < k + 1
  <2>1. Ends(recv_buf, MaxDigits) # {} => recv_len < Total(recv_buf, MaxDigits)
    BY <1>1, <1>2, <1>5, HeaderMissing
  <2> QED
    BY <1>1, <1>3, <1>5, <2>1 DEF Framed, Incomplete, p
<1> QED
  BY <1>1, <1>3, <1>4, <1>5

\* Closing leaves an empty stream.
LEMMA CloseKeeps ==
  ASSUME IInv, Close
  PROVE  IInv'
<1>1. TypeOK'
  <2>1. /\ reader' \in Readers /\ open' \in BOOLEAN /\ pc' \in {"poll", "loop"}
        /\ recv_buf' \in [1 .. BufSize -> Byte]
    BY DEF IInv, TypeOK, Close
  <2>2. recv_len' \in 0 .. BufSize /\ wire' \in Seq(Byte) /\ unread' \in Seq(Packets)
    BY SizeAssumption DEF Close
  <2> QED
    BY <2>1, <2>2 DEF TypeOK
<1>2. Aligned(recv_buf', 0, <<>>, <<>>)
  BY NothingAligned
<1> QED
  BY <1>1, <1>2 DEF Close, IInv

LEMMA RecvKeeps ==
  ASSUME IInv, NEW n \in 1 .. BufSize, Recv(n)
  PROVE  IInv'
<1>1. /\ recv_buf \in [1 .. BufSize -> Byte] /\ recv_len \in 0 .. BufSize /\ recv_len \in Nat
      /\ wire \in Seq(Byte) /\ unread \in Seq(Packets) /\ BufSize \in Nat /\ Len(wire) \in Nat
      /\ Aligned(recv_buf, recv_len, wire, unread)
  BY SizeAssumption DEF IInv, TypeOK
<1>2. CASE Room < reader.minRoom
  BY <1>2, CloseKeeps DEF Recv
<1>3. CASE ~(Room < reader.minRoom)
  <2>1. /\ n \in 1 .. Len(wire) /\ recv_len + n <= BufSize
        /\ recv_buf' = [i \in 1 .. BufSize |->
                         IF i \in recv_len + 1 .. recv_len + n
                         THEN wire[i - recv_len] ELSE recv_buf[i]]
        /\ recv_len' = recv_len + n /\ wire' = SubSeq(wire, n + 1, Len(wire))
        /\ pc' = "loop" /\ UNCHANGED <<reader, open, unread>>
    BY <1>1, <1>3 DEF Recv, Room
  <2>2. Aligned(recv_buf', recv_len + n, SubSeq(wire, n + 1, Len(wire)), unread)
    BY <1>1, <2>1, ReceivedAligned
  <2>3. recv_buf' \in [1 .. BufSize -> Byte]
    <3>1. \A i \in recv_len + 1 .. recv_len + n : i - recv_len \in 1 .. Len(wire)
      BY <1>1, <2>1
    <3>2. \A i \in recv_len + 1 .. recv_len + n : wire[i - recv_len] \in Byte
      BY <1>1, <3>1, ElementOfSeq
    <3> QED
      BY <1>1, <2>1, <3>2
  <2>4. wire' \in Seq(Byte)
    <3>1. n + 1 \in 1 .. Len(wire) + 1 /\ Len(wire) \in (n + 1) - 1 .. Len(wire)
      BY <1>1, <2>1
    <3> QED
      BY <1>1, <2>1, <3>1, SubSeqProperties
  <2>5. recv_len' \in 0 .. BufSize
    BY <1>1, <2>1
  <2> QED
    BY <2>1, <2>2, <2>3, <2>4, <2>5 DEF IInv, TypeOK
<1> QED
  BY <1>2, <1>3

LEMMA LoopKeeps ==
  ASSUME IInv, Loop
  PROVE  IInv'
<1>1. /\ recv_buf \in [1 .. BufSize -> Byte] /\ recv_len \in 0 .. BufSize
      /\ wire \in Seq(Byte) /\ unread \in Seq(Packets) /\ BufSize \in Nat
      /\ Aligned(recv_buf, recv_len, wire, unread)
  BY SizeAssumption DEF IInv, TypeOK
<1>2. CASE Close
  BY <1>2, CloseKeeps
<1>3. CASE pc' = "poll" /\ UNCHANGED <<reader, open, recv_buf, recv_len, wire, unread>>
  BY <1>3 DEF IInv, TypeOK
<1>4. CASE /\ recv_len >= 2 /\ Framed /\ ~Incomplete
           /\ recv_buf' = Shifted(Total(recv_buf, MaxDigits))
           /\ recv_len' = recv_len - Total(recv_buf, MaxDigits)
           /\ unread' = SubSeq(unread, 2, Len(unread))
           /\ UNCHANGED <<reader, open, pc, wire>>
  <2> DEFINE t == Len(unread[1])
  <2>1. /\ Total(recv_buf, MaxDigits) = t /\ unread # <<>> /\ unread[1] \in Packets
        /\ t \in Nat
    BY <1>4, LoopSees, PacketInFront, PacketsAssumption
  <2>2. t <= recv_len
    BY <1>1, <1>4, <2>1 DEF Incomplete
  <2>3. recv_buf' = [i \in 1 .. BufSize |->
                      IF i + t <= recv_len THEN recv_buf[i + t] ELSE recv_buf[i]]
    BY <1>4, <2>1 DEF Shifted
  <2>4. Aligned(recv_buf', recv_len - t, wire, SubSeq(unread, 2, Len(unread)))
    BY <1>1, <2>1, <2>2, <2>3, HandledAligned
  <2> HIDE DEF t
  <2>5. recv_buf' \in [1 .. BufSize -> Byte]
    <3>1. \A i \in 1 .. BufSize : i + t <= recv_len => i + t \in 1 .. BufSize
      BY <1>1, <2>1
    <3> QED
      BY <1>1, <2>3, <3>1
  <2>6. unread' \in Seq(Packets)
    <3>1. Tail(unread) \in Seq(Packets) /\ Tail(unread) = SubSeq(unread, 2, Len(unread))
      BY <1>1, <2>1, TailIsSubSeq, HeadTailProperties
    <3> QED
      BY <1>4, <3>1
  <2>7. recv_len' \in 0 .. BufSize
    BY <1>1, <1>4, <2>1, <2>2
  <2> QED
    BY <1>4, <2>1, <2>4, <2>5, <2>6, <2>7 DEF IInv, TypeOK
<1> QED
  BY <1>2, <1>3, <1>4, Zenon DEF Loop

\* The inductive invariant holds of every reachable state.
THEOREM FramingInvariant == Spec => []IInv
<1>1. Init => IInv
  <2> SUFFICES ASSUME Init
               PROVE  IInv
    OBVIOUS
  <2>1. TypeOK
    <3>1. reader \in Readers /\ open \in BOOLEAN /\ pc \in {"poll", "loop"}
      BY DEF Init
    <3>2. /\ recv_buf \in [1 .. BufSize -> Byte] /\ recv_len \in 0 .. BufSize
          /\ wire \in Seq(Byte) /\ unread \in Seq(Packets)
      BY SizeAssumption DEF Init, Zeroed, Byte
    <3> QED
      BY <3>1, <3>2 DEF TypeOK
  <2> QED
    BY <2>1, NothingAligned DEF Init, IInv
<1>2. IInv /\ [Next]_vars => IInv'
  <2> SUFFICES ASSUME IInv, [Next]_vars
               PROVE  IInv'
    OBVIOUS
  <2>1. CASE Connect
    <3>1. TypeOK'
      BY <2>1, SizeAssumption DEF IInv, TypeOK, Connect, Zeroed, Byte
    <3> QED
      BY <2>1, <3>1, NothingAligned DEF Connect, IInv
  <2>2. ASSUME NEW p \in Packets, PeerSends(p)
        PROVE  IInv'
    <3>1. /\ wire \in Seq(Byte) /\ unread \in Seq(Packets) /\ recv_len \in Nat /\ p \in Seq(Byte)
          /\ Aligned(recv_buf, recv_len, wire, unread)
      BY SizeAssumption, PacketsAssumption DEF IInv, TypeOK
    <3>2. Aligned(recv_buf, recv_len, wire \o p, Append(unread, p))
      BY <3>1, SentAligned
    <3>3. wire \o p \in Seq(Byte) /\ Append(unread, p) \in Seq(Packets)
      BY <3>1, ConcatProperties, AppendProperties
    <3> QED
      BY <2>2, <3>2, <3>3 DEF PeerSends, IInv, TypeOK
  <2>3. CASE PeerGone
    BY <2>3, CloseKeeps DEF PeerGone
  <2>4. ASSUME NEW n \in 1 .. BufSize, Recv(n)
        PROVE  IInv'
    BY <2>4, RecvKeeps
  <2>5. CASE Loop
    BY <2>5, LoopKeeps
  <2>6. CASE UNCHANGED vars
    BY <2>6 DEF vars, IInv, TypeOK
  <2> QED
    BY <2>1, <2>2, <2>3, <2>4, <2>5, <2>6 DEF Next
<1> QED
  BY <1>1, <1>2, PTL DEF Spec

\* Every byte stored and every packet shifted stays within recv_buf.
THEOREM FramingTypeCorrect == Spec => []TypeOK
<1>1. IInv => TypeOK
  BY DEF IInv
<1> QED
  BY <1>1, FramingInvariant, PTL

\* The stream stays the packets that were sent, whatever chunks recv() returns and
\* whatever earlier packets and connections left in the buffer.
THEOREM StreamStaysIntact == Spec => []StreamIntact
BY AlignedIsIntact, FramingInvariant, PTL

\* The loop ends a connection only while part of a packet's header is missing.
THEOREM GivesUpInHeaderOnly == Spec => GivesUpOnlyInHeader
<1>1. ASSUME IInv, Loop, ~open'
      PROVE  unread # <<>> /\ recv_len < 1 + LengthBytes(Head(unread), Len(Head(unread)) - 1)
  <2>1. recv_len >= 2 /\ ~Framed
    BY <1>1 DEF Loop
  <2>2. unread # <<>> /\ recv_len < 1 + LengthBytes(unread[1], Len(unread[1]) - 1)
    BY <1>1, <2>1, LoopSees, PacketInFront
  <2>3. Head(unread) = unread[1]
    BY <1>1, <2>2, HeadTailProperties DEF IInv, TypeOK
  <2> QED
    BY <2>2, <2>3
<1>2. IInv => [Loop /\ ~open' =>
                 /\ unread # <<>>
                 /\ recv_len < 1 + LengthBytes(Head(unread), Len(Head(unread)) - 1)]_vars
  BY <1>1
<1> QED
  BY <1>2, FramingInvariant, PTL DEF GivesUpOnlyInHeader
===========================================================================
