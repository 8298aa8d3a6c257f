-------------------------- MODULE LeafClockProofs --------------------------
(***************************************************************************)
(* Proofs about the client in time, for all lengths of its intervals.      *)
(***************************************************************************)
EXTENDS LeafClock, TLAPS

\* What the types are built from.
LEMMA Sizes ==
  /\ Timeout \in Nat /\ LongTime \in Nat /\ LongTry \in Nat /\ RetryAfter \in Nat
  /\ MaxRetries \in Nat /\ Timeout <= LongTime
  /\ BackoffStart \in BackoffStart .. LongTry
BY ClockAssumption DEF LongTime, LongTry

\* A new entry, and the entry after retries.
LEMMA EntryTypes ==
  ASSUME TypeOK
  PROVE  /\ Free \in [used : BOOLEAN, retries : 0 .. MaxRetries, age : 0 .. RetryAfter]
         /\ Retried \in [used : BOOLEAN, retries : 0 .. MaxRetries, age : 0 .. RetryAfter]
<1>1. Free \in [used : BOOLEAN, retries : 0 .. MaxRetries, age : 0 .. RetryAfter]
  BY Sizes DEF Free
<1>2. entry \in [used : BOOLEAN, retries : 0 .. MaxRetries, age : 0 .. RetryAfter]
  BY DEF TypeOK
<1>3. CASE entry.retries >= MaxRetries \/ ~entry.used \/ entry.age < RetryAfter
  BY <1>1, <1>2, <1>3 DEF Retried
<1>4. CASE entry.retries < MaxRetries
  <2>1. entry.retries + 1 \in 0 .. MaxRetries /\ 0 \in 0 .. RetryAfter
    BY <1>2, <1>4, Sizes
  <2> QED
    BY <1>1, <1>2, <1>4, <2>1 DEF Retried
<1> QED
  BY <1>1, <1>2, <1>3, <1>4, Sizes

\* The backoff stays between the first one and twice the limit.
LEMMA BackoffType ==
  ASSUME backoff \in BackoffStart .. LongTry
  PROVE  NextBackoff \in BackoffStart .. LongTry
BY ClockAssumption DEF NextBackoff, LongTry

\* A new client satisfies the type invariant.
LEMMA InitType == Init => TypeOK
BY Sizes DEF Init, TypeOK, Free

\* Every step keeps the type invariant.
LEMMA NextType == TypeOK /\ [Next]_vars => TypeOK'
<1> SUFFICES ASSUME TypeOK, [Next]_vars PROVE TypeOK'
  OBVIOUS
<1> USE DEF Goes
<1> DEFINE Since == [send : 0 .. LongTime, recv : 0 .. LongTime, try : 0 .. LongTry,
                     now : 0 .. Timeout]
           Entry == [used : BOOLEAN, retries : 0 .. MaxRetries, age : 0 .. RetryAfter]
<1>0. /\ since \in Since /\ entry \in Entry /\ Free \in Entry /\ Retried \in Entry
      /\ backoff \in BackoffStart .. LongTry
      /\ 0 \in 0 .. LongTime /\ 0 \in 0 .. LongTry /\ 0 \in 0 .. Timeout
  BY EntryTypes, Sizes DEF TypeOK
<1>1. ASSUME NEW s \in Since, ConnectTcp(s)
      PROVE  since' \in Since /\ entry' = entry
                /\ state' \in {"DISCONNECTED", "TCP_CONNECTING", "TCP_CONNECTED"}
  BY <1>0, <1>1 DEF ConnectTcp
<1>2. CASE LeafConnect
  BY <1>0, <1>1, <1>2 DEF LeafConnect, TypeOK
<1>3. CASE LeafDisconnect \/ Recreate \/ PollFails
  BY <1>0, <1>3, Sizes DEF LeafDisconnect, Recreate, PollFails, Reset, TypeOK
<1>4. CASE LeafPublish
  BY <1>0, <1>4 DEF LeafPublish, Free, TypeOK
<1>5. CASE PollStart
  <2> DEFINE s == [since EXCEPT !.now = 0]
  <2>1. s \in Since /\ [s EXCEPT !.try = 0] \in Since
    BY <1>0
  <2>2. pc' \in {"program", "select"}
    BY <1>5 DEF PollStart
  <2>3. CASE ConnectTcp([s EXCEPT !.try = 0]) /\ backoff' = NextBackoff
    BY <1>0, <1>1, <2>1, <2>2, <2>3, BackoffType DEF TypeOK
  <2>4. CASE since' = s /\ UNCHANGED <<state, entry, backoff>>
    BY <1>0, <2>1, <2>2, <2>4 DEF TypeOK
  <2> QED
    BY <1>5, <2>3, <2>4 DEF PollStart
<1>6. CASE PollReturns
  BY <1>6 DEF PollReturns, TypeOK
<1>7. CASE Writable
  BY <1>0, <1>7 DEF Writable, TypeOK
<1>8. CASE Receive
  BY <1>0, <1>8, Sizes DEF Receive, TypeOK
<1>9. CASE Upkeep
  <2>1. since' \in Since
    BY <1>0, <1>9, Sizes DEF Upkeep
  <2>2. entry' \in Entry
    BY <1>0, <1>9 DEF Upkeep, Reset
  <2>3. state' \in {"DISCONNECTED", state}
    BY <1>9 DEF Upkeep, Reset
  <2> QED
    BY <1>9, <2>1, <2>2, <2>3 DEF Upkeep, TypeOK
<1>10. CASE Tick
  <2>1. \A most \in Nat : \A x \in 0 .. most : Later(x, most) \in 0 .. most
    BY DEF Later
  <2>2. since' \in Since /\ entry' \in Entry
    BY <1>0, <1>10, <2>1, Sizes DEF Tick
  <2> QED
    BY <1>10, <2>2 DEF Tick, TypeOK
<1>11. CASE UNCHANGED vars
  BY <1>11 DEF vars, TypeOK
<1> QED
  BY <1>2, <1>3, <1>4, <1>5, <1>6, <1>7, <1>8, <1>9, <1>10, <1>11 DEF Next

\* For all intervals: the backoff stays within twice its limit, so that the int that
\* holds it never overflows, and no retry is counted past the limit.
THEOREM ClockTypeCorrect == Spec => []TypeOK
<1> QED
  BY InitType, NextType, PTL DEF Spec
===========================================================================
