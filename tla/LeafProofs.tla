---------------------------- MODULE LeafProofs ----------------------------
(***************************************************************************)
(* Proofs about the client, for every size of its tables, whatever the     *)
(* program asks, the peer sends and the socket takes.                      *)
(***************************************************************************)
EXTENDS Leaf, MqttProofs

---------------------------------------------------------------------------
(***************************************************************************)
(* The building blocks of the actions.                                     *)
(***************************************************************************)
\* The first of a non-empty set of entries exists.
LEMMA LowestEntry ==
  ASSUME NEW S \in SUBSET Entries, S # {}
  PROVE  Lowest(S) \in S
<1>1. MaxPending - 1 \in Int
  BY LeafSizesAssumption
<1> QED
  BY <1>1, LowestElement DEF Entries

\* Identifiers that the client hands out are never 0.
LEMMA NextPidType ==
  ASSUME next_pid \in Pids
  PROVE  NextPid \in Pids \ {0}
BY PidAfterType, 1 \in Nat \ {0} DEF NextPid

\* What the socket takes of packets sent directly is a prefix of them.
LEMMA DirectType ==
  ASSUME NEW packets \in Seq(Inbound), Direct(packets)
  PROVE  sent' \in Seq(Inbound)
<1>1. PICK n \in Takes : sent' = SubSeq(packets, 1, Min2(n \div Parts, Len(packets)))
  BY DEF Direct
<1>2. n \in Nat /\ Parts \in Nat \ {0}
  BY LeafSizesAssumption
<1>3. n \div Parts \in Nat
  BY <1>2
<1> DEFINE m == Min2(n \div Parts, Len(packets))
<1>4. m \in Nat /\ m <= Len(packets)
  BY <1>3, LenProperties DEF Min2
<1>5. SubSeq(packets, 1, m) \in Seq(Inbound)
  BY <1>4, SubSeqProperties
<1> QED
  BY <1>1, <1>5

\* It holds nothing else.
LEMMA DirectTakes ==
  ASSUME NEW packets \in Seq(Inbound), Direct(packets)
  PROVE  /\ sent' \in Seq(Inbound) /\ Len(sent') <= Len(packets)
         /\ \A k \in 1 .. Len(sent') : sent'[k] = packets[k]
<1>1. PICK n \in Takes : sent' = SubSeq(packets, 1, Min2(n \div Parts, Len(packets)))
  BY DEF Direct
<1>2. n \in Nat /\ Parts \in Nat \ {0}
  BY LeafSizesAssumption
<1>3. n \div Parts \in Nat
  BY <1>2
<1> DEFINE m == Min2(n \div Parts, Len(packets))
<1>4. m \in Nat /\ m <= Len(packets)
  BY <1>3, LenProperties DEF Min2
<1>5. /\ SubSeq(packets, 1, m) \in Seq(Inbound) /\ Len(SubSeq(packets, 1, m)) = m
      /\ \A k \in 1 .. m : SubSeq(packets, 1, m)[k] = packets[k]
  <2> HIDE DEF m
  <2> QED
    BY <1>4, SubSeqProperties
<1> HIDE DEF m
<1>6. sent' = SubSeq(packets, 1, m)
  BY <1>1 DEF m
<1> QED
  BY <1>4, <1>5, <1>6

\* After a step of leaf__send_pending the buffer holds the rest of its packet.
LEMMA SendPendingType ==
  ASSUME NEW p \in Inbound, NEW off \in 0 .. Parts - 1, SendPending(p, off)
  PROVE  /\ sent' \in Seq(Inbound)
         /\ \/ buf' = NoPacket /\ sent' = <<p>>
            \/ \E o \in off .. Parts - 1 : buf' = [pkt |-> p, off |-> o]
<1>1. PICK n \in Takes :
        LET upto == off + Min2(n, Parts - off)
        IN  /\ buf'  = IF upto = Parts THEN NoPacket ELSE [pkt |-> p, off |-> upto]
            /\ sent' = IF upto = Parts THEN <<p>> ELSE <<>>
  BY DEF SendPending
<1> DEFINE upto == off + Min2(n, Parts - off)
<1>2. n \in Nat /\ Parts \in Nat \ {0} /\ off \in Nat /\ off < Parts
  BY LeafSizesAssumption
<1>3. upto \in off .. Parts
  BY <1>2 DEF Min2
<1>4. sent' \in Seq(Inbound)
  BY <1>1
<1>5. CASE upto = Parts
  BY <1>1, <1>4, <1>5
<1>6. CASE upto # Parts
  <2>1. upto \in off .. Parts - 1
    BY <1>2, <1>3, <1>6
  <2> QED
    BY <1>1, <1>4, <1>6, <2>1
<1> QED
  BY <1>5, <1>6

\* The snapshots sent again are packets.
LEMMA SnapshotsType ==
  ASSUME pending \in [Entries -> Pending], NEW due \in SUBSET Entries
  PROVE  Snapshots(due) \in Seq(Inbound)
<1> DEFINE again == {i \in due : pending[i].retries < MaxRetries /\ pending[i].snap # None}
<1>1. IsFiniteSet(again) /\ again \in SUBSET Int
  <2>1. 0 \in Int /\ MaxPending - 1 \in Int
    BY LeafSizesAssumption
  <2>2. IsFiniteSet(Entries)
    BY <2>1, FS_Interval DEF Entries
  <2>3. again \subseteq Entries
    OBVIOUS
  <2>4. Entries \subseteq Int
    BY <2>1 DEF Entries
  <2> QED
    BY <2>2, <2>3, <2>4, FS_Subset
<1>2. Cardinality(again) \in Nat
  BY <1>1, FS_CardinalityType
<1>3. ASSUME NEW k \in 1 .. Cardinality(again)
      PROVE  pending[InOrder(again)[k]].snap \in Inbound
  <2>1. InOrder(again)[k] \in again
    BY <1>1, InOrderElement
  <2> QED
    BY <2>1 DEF Pending
<1> QED
  BY <1>2, <1>3 DEF Snapshots

\* leaf__retry_pending leaves entries that a retry may find.
LEMMA RetriedEffect ==
  ASSUME pending \in [Entries -> Pending], NEW due \in SUBSET Entries
  PROVE  /\ Retried(due) \in [Entries -> Pending]
         /\ \A i \in Entries :
              \/ [Retried(due)[i] EXCEPT !.retries = pending[i].retries] = pending[i]
              \/ /\ Retried(due)[i] = [pending[i] EXCEPT !.pid = 0]
                 /\ pending[i].retries = MaxRetries
<1> SUFFICES ASSUME NEW i \in Entries
    PROVE  /\ Retried(due)[i] \in Pending
           /\ \/ [Retried(due)[i] EXCEPT !.retries = pending[i].retries] = pending[i]
              \/ /\ Retried(due)[i] = [pending[i] EXCEPT !.pid = 0]
                 /\ pending[i].retries = MaxRetries
  BY DEF Retried
<1>1. pending[i] \in Pending /\ pending[i].retries \in 0 .. MaxRetries /\ MaxRetries \in Nat
  BY LeafSizesAssumption DEF Pending
<1>2. CASE i \notin due
  BY <1>1, <1>2 DEF Retried, Pending
<1>3. CASE i \in due /\ pending[i].retries >= MaxRetries
  <2>1. Retried(due)[i] = [pending[i] EXCEPT !.pid = 0]
    BY <1>3 DEF Retried
  <2>2. 0 \in Pids
    BY PidMaxAssumption DEF Pids
  <2> QED
    BY <1>1, <1>3, <2>1, <2>2 DEF Pending
<1>4. CASE i \in due /\ ~(pending[i].retries >= MaxRetries)
  <2>1. Retried(due)[i] = [pending[i] EXCEPT !.retries = @ + 1]
    BY <1>4 DEF Retried
  <2>2. pending[i].retries + 1 \in 0 .. MaxRetries
    BY <1>1, <1>4
  <2> QED
    BY <1>1, <2>1, <2>2 DEF Pending
<1> QED
  BY <1>2, <1>3, <1>4

\* An entry that is taken was free, and keeps its snapshot.
LEMMA TakenEffect ==
  ASSUME pending \in [Entries -> Pending], FreeEntries # {}, NEW pid \in Pids,
         NEW type \in {"PUBLISH", "SUBSCRIBE", "UNSUBSCRIBE"}, NEW new,
         new = [pending EXCEPT ![Lowest(FreeEntries)].pid  = pid,
                               ![Lowest(FreeEntries)].type = type]
  PROVE  /\ new \in [Entries -> Pending]
         /\ \A i \in Entries : /\ pending[i].pid # 0 => new[i] = pending[i]
                               /\ new[i].snap = pending[i].snap
<1> DEFINE l == Lowest(FreeEntries)
<1>1. l \in Entries /\ pending[l].pid = 0
  BY LowestEntry DEF FreeEntries
<1>2. new = [pending EXCEPT ![l] = [pending[l] EXCEPT !.pid = pid, !.type = type]]
  BY <1>1
<1>3. /\ [pending[l] EXCEPT !.pid = pid, !.type = type] \in Pending
      /\ [pending[l] EXCEPT !.pid = pid, !.type = type].snap = pending[l].snap
  BY <1>1 DEF Pending
<1> QED
  BY <1>1, <1>2, <1>3

\* An entry that is freed changes in nothing else.
LEMMA FreedEffect ==
  ASSUME pending \in [Entries -> Pending], NEW entries \in SUBSET Entries
  PROVE  /\ Freed(entries) \in [Entries -> Pending]
         /\ \A i \in Entries :
              \/ Freed(entries)[i] = pending[i]
              \/ i \in entries /\ Freed(entries)[i] = [pending[i] EXCEPT !.pid = 0]
<1>1. CASE entries = {}
  BY <1>1 DEF Freed
<1>2. CASE entries # {}
  <2> DEFINE l == Lowest(entries)
  <2>1. l \in entries /\ l \in Entries
    BY <1>2, LowestEntry
  <2>2. Freed(entries) = [pending EXCEPT ![l] = [pending[l] EXCEPT !.pid = 0]]
    BY <1>2, <2>1 DEF Freed
  <2>3. 0 \in Pids
    BY PidMaxAssumption DEF Pids
  <2>4. [pending[l] EXCEPT !.pid = 0] \in Pending
    BY <2>1, <2>3 DEF Pending
  <2> QED
    BY <2>1, <2>2, <2>4
<1> QED
  BY <1>1, <1>2

\* What the client sends of its own accord are packets.
LEMMA OwnPackets ==
  /\ Pingreq \in Inbound /\ Disconnect \in Inbound
  /\ \A m \in Message, pid \in Pids : Publish(m, pid) \in Inbound
  /\ \A kind \in AckKinds, pid \in Pids : Ack(kind, pid) \in Inbound
  /\ \A w \in Wanted, pid \in Pids :
       Subscribe(pid, <<w>>) \in Inbound /\ Unsubscribe(pid, {w.filter}) \in Inbound
<1>1. Pingreq \in Inbound /\ Disconnect \in Inbound
  BY DEF Pingreq, Disconnect, Inbound
<1>2. \A m \in Message, pid \in Pids : Publish(m, pid) \in Inbound
  BY DEF Publish, Inbound
<1>3. \A kind \in AckKinds, pid \in Pids : Ack(kind, pid) \in Inbound
  BY DEF Ack, Inbound
<1>4. ASSUME NEW w \in Wanted, NEW pid \in Pids
      PROVE  Subscribe(pid, <<w>>) \in Inbound /\ Unsubscribe(pid, {w.filter}) \in Inbound
  <2>1. w \in [filter : Filters, qos : QoS]
    BY LeafInputsAssumption
  <2>2. <<w>> \in Seq([filter : Filters, qos : QoS]) /\ {w.filter} \in SUBSET Filters
    BY <2>1
  <2>3. Subscribe(pid, <<w>>) \in Inbound
    BY <2>2 DEF Subscribe, Inbound
  <2>4. Unsubscribe(pid, {w.filter}) \in Inbound
    BY <2>2 DEF Unsubscribe, Inbound
  <2> QED
    BY <2>3, <2>4
<1> QED
  BY <1>1, <1>2, <1>3, <1>4

\* The identifiers and return codes in the packets of the peer.
LEMMA PeerPacketType ==
  ASSUME NEW p \in PeerPackets
  PROVE  /\ p.type = "PUBLISH" => p.pid \in Pids /\ p.msg \in Message
         /\ p.type \in Answers \cup {"PUBREC"} => p.pid \in Pids
<1>1. p \in Outbound \cup [type : {"MALFORMED"}]
  BY LeafInputsAssumption
<1> QED
  BY <1>1 DEF Outbound, Answers, AckKinds

---------------------------------------------------------------------------
(***************************************************************************)
(* The type invariant.                                                     *)
(***************************************************************************)
\* The constant values of the variables have their types.
LEMMA InitialValues ==
  /\ 0 \in Pids /\ NoPacket \in [pkt : Inbound \cup {None}, off : 0 .. Parts - 1]
  /\ NoPending \in [Entries -> Pending] /\ NoReceived \in [Entries -> Pids]
  /\ <<>> \in Seq(Filters) /\ Len(<<>>) <= MaxSubs
  /\ OwnConnect \in Inbound
<1>1. 0 \in Pids /\ 0 \in 0 .. Parts - 1 /\ 0 \in 0 .. MaxRetries /\ 0 <= MaxSubs
  BY PidMaxAssumption, LeafSizesAssumption DEF Pids
<1>2. NoPacket \in [pkt : Inbound \cup {None}, off : 0 .. Parts - 1]
  BY <1>1 DEF NoPacket
<1>3. NoPending \in [Entries -> Pending] /\ NoReceived \in [Entries -> Pids]
  BY <1>1 DEF NoPending, NoReceived, Pending
<1>4. <<>> \in Seq(Filters) /\ Len(<<>>) = 0
  OBVIOUS
<1> QED
  BY <1>1, <1>2, <1>3, <1>4, LeafInputsAssumption

\* A connection that ends leaves the initial values.
LEMMA ResetType ==
  ASSUME Reset, pc' \in {"program", "crashed"}, sent' \in Seq(Inbound)
  PROVE  TypeOK'
BY InitialValues DEF Reset, TypeOK, States

\* Nothing but `pc', `state' and `sent' changes.
LEMMA CalmType ==
  ASSUME TypeOK, pc' \in {"program", "packets", "callback", "crashed"}, state' \in States,
         sent' \in Seq(Inbound),
         UNCHANGED <<buf, pending, received_ids, subs, next_pid, told>>
  PROVE  TypeOK'
BY DEF TypeOK

\* Removing a subscription leaves subscriptions.
LEMMA WithoutType ==
  ASSUME subs \in Seq(Filters), Len(subs) <= MaxSubs, NEW f
  PROVE  Without(f) \in Seq(Filters) /\ Len(Without(f)) <= MaxSubs
<1> DEFINE at == {i \in 1 .. Len(subs) : subs[i] = f}
           new == [subs EXCEPT ![Lowest(at)] = subs[Len(subs)]]
<1>1. Len(subs) \in Nat /\ MaxSubs \in Nat
  BY LeafSizesAssumption, LenProperties
<1>2. CASE at = {}
  BY <1>2 DEF Without
<1>3. CASE at # {}
  <2>1. at \in SUBSET (0 .. Len(subs))
    BY <1>1
  <2>2. Lowest(at) \in 1 .. Len(subs)
    <3>1. Len(subs) \in Int
      BY <1>1
    <3>2. Lowest(at) \in at
      <4> HIDE DEF at
      <4> QED
        BY <1>3, <2>1, <3>1, LowestElement
    <3> QED
      BY <3>2
  <2>3. Len(subs) \in 1 .. Len(subs)
    BY <1>1, <2>2
  <2>4. new \in Seq(Filters) /\ Len(new) = Len(subs)
    BY <2>2, <2>3, ExceptSeq
  <2>5. \A i \in 1 .. Len(subs) - 1 : new[i] \in Filters
    <3> SUFFICES ASSUME NEW i \in 1 .. Len(subs) - 1 PROVE new[i] \in Filters
      OBVIOUS
    <3>1. i \in 1 .. Len(new)
      BY <1>1, <2>4
    <3> HIDE DEF new
    <3> QED
      BY <2>4, <3>1, ElementOfSeq
  <2>6. /\ SubSeq(new, 1, Len(subs) - 1) \in Seq(Filters)
        /\ Len(SubSeq(new, 1, Len(subs) - 1)) <= Len(subs)
    <3>1. 1 \in Int /\ Len(subs) - 1 \in Int
      BY <1>1
    <3> HIDE DEF new
    <3> QED
      BY <1>1, <2>2, <2>5, <3>1, SubSeqProperties
  <2>7. Without(f) = SubSeq(new, 1, Len(subs) - 1)
    BY <1>3 DEF Without
  <2> QED
    BY <1>1, <2>6, <2>7, LenProperties
<1> QED
  BY <1>2, <1>3

\* Removing one filter loses no other.
LEMMA WithoutKeeps ==
  ASSUME subs \in Seq(Filters), NEW f, NEW i \in 1 .. Len(subs), subs[i] # f
  PROVE  \E j \in 1 .. Len(Without(f)) : Without(f)[j] = subs[i]
<1> DEFINE at == {k \in 1 .. Len(subs) : subs[k] = f}
           n == Len(subs)
           l == Lowest(at)
           new == [subs EXCEPT ![l] = subs[n]]
<1>1. n \in Nat \ {0}
  BY LenProperties
<1>2. CASE at = {}
  BY <1>2 DEF Without
<1>3. CASE at # {}
  <2>1. at \in SUBSET (0 .. n) /\ n \in Int
    BY <1>1
  <2>2. l \in at
    <3> HIDE DEF at, n
    <3> QED
      BY <1>3, <2>1, LowestElement
  <2>3. l \in 1 .. n /\ l # i
    BY <2>2
  <2>4. n \in 1 .. n
    BY <1>1
  <2>5. new \in Seq(Filters) /\ Len(new) = n
    <3> HIDE DEF l
    <3> QED
      BY <2>3, <2>4, ExceptSeq
  <2>6. new[i] = subs[i] /\ new[l] = subs[n]
    <3> HIDE DEF l
    <3> QED
      BY <2>3, LenProperties
  <2>7. Without(f) = SubSeq(new, 1, n - 1)
    BY <1>3 DEF Without
  <2> HIDE DEF new, l, n
  <2>8. \A k \in 1 .. n - 1 : new[k] \in Filters
    <3> SUFFICES ASSUME NEW k \in 1 .. n - 1 PROVE new[k] \in Filters
      OBVIOUS
    <3>1. k \in 1 .. Len(new)
      BY <1>1, <2>5
    <3> QED
      BY <2>5, <3>1, ElementOfSeq
  <2>9. /\ Len(SubSeq(new, 1, n - 1)) = n - 1
        /\ \A k \in 1 .. n - 1 : SubSeq(new, 1, n - 1)[k] = new[k]
    <3>1. 1 \in Int /\ n - 1 \in Int
      BY <1>1
    <3> QED
      BY <1>1, <2>5, <2>8, <3>1, SubSeqProperties
  <2>10. CASE i = n
    <3>1. l \in 1 .. n - 1
      BY <1>1, <2>3, <2>10
    <3> QED
      BY <2>6, <2>7, <2>9, <2>10, <3>1
  <2>11. CASE i # n
    <3>1. i \in 1 .. n - 1
      BY <1>1, <2>11 DEF n
    <3> QED
      BY <2>6, <2>7, <2>9, <3>1
  <2> QED
    BY <2>10, <2>11
<1> QED
  BY <1>2, <1>3

\* Recording an identifier leaves identifiers.
LEMMA RecordType ==
  ASSUME received_ids \in [Entries -> Pids], NEW pid \in Pids
  PROVE  Record(pid) \in [Entries -> Pids]
BY LowestEntry DEF Record

\* leaf__dispatch keeps the type invariant, whatever packet it is given.
LEMMA PacketType ==
  ASSUME TypeOK, NEW p \in PeerPackets, Packet(p)
  PROVE  TypeOK'
<1> USE DEF Goes
<1>0. /\ pending \in [Entries -> Pending] /\ received_ids \in [Entries -> Pids]
      /\ told \subseteq Pids \ {0} /\ <<>> \in Seq(Inbound) /\ pc \in {"packets"}
  BY DEF TypeOK, Packet
<1>1. CASE OnConnack(p)
  <2>1. state' \in States /\ pc' \in {"packets", "callback"} /\ sent' = <<>>
    BY <1>1, <1>0 DEF OnConnack, Quiet, TypeOK, States
  <2> QED
    BY <1>1, <2>1, CalmType DEF OnConnack
<1>2. CASE p.type = "PUBLISH" /\ OnPublish(p)
  <2>1. p.pid \in Pids /\ p.msg \in Message
    BY <1>2, PeerPacketType
  <2>2. received_ids' \in [Entries -> Pids]
    BY <1>0, <1>2, <2>1, RecordType DEF OnPublish
  <2>3. pending' \in [Entries -> Pending]
    <3>1. CASE p.msg.qos # 2 \/ FreeEntries = {}
      BY <1>0, <1>2, <3>1 DEF OnPublish
    <3>2. CASE p.msg.qos = 2 /\ FreeEntries # {}
      <4>1. pending' = [pending EXCEPT ![Lowest(FreeEntries)].pid  = p.pid,
                                       ![Lowest(FreeEntries)].type = "PUBLISH"]
        BY <1>2, <3>2 DEF OnPublish
      <4> QED
        BY <1>0, <2>1, <3>2, <4>1, TakenEffect
    <3> QED
      BY <3>1, <3>2
  <2>4. sent' \in Seq(Inbound)
    <3>1. /\ <<Ack("PUBACK", p.pid)>> \in Seq(Inbound)
          /\ <<Ack("PUBREC", p.pid)>> \in Seq(Inbound)
      BY <2>1, OwnPackets DEF AckKinds
    <3>2. \/ Direct(<<Ack("PUBACK", p.pid)>>) \/ Direct(<<Ack("PUBREC", p.pid)>>)
          \/ Quiet
      BY <1>2, Zenon DEF OnPublish
    <3>3. CASE Direct(<<Ack("PUBACK", p.pid)>>)
      BY <3>1, <3>3, DirectType
    <3>4. CASE Direct(<<Ack("PUBREC", p.pid)>>)
      BY <3>1, <3>4, DirectType
    <3> QED
      BY <1>0, <3>2, <3>3, <3>4 DEF Quiet
  <2>5. told' \subseteq Pids \ {0} /\ pc' \in {"packets", "callback"}
    BY <1>0, <1>2, <2>1 DEF OnPublish
  <2>6. UNCHANGED <<state, buf, subs, next_pid>>
    BY <1>2 DEF OnPublish
  <2> QED
    BY <2>2, <2>3, <2>4, <2>5, <2>6 DEF TypeOK
<1>3. CASE OnAck(p)
  <2>1. pending' \in [Entries -> Pending]
    BY <1>0, <1>3, FreedEffect DEF OnAck
  <2> QED
    BY <1>3, <2>1 DEF OnAck, Quiet, TypeOK
<1>4. CASE p.type = "PUBREC" /\ OnPubrec(p)
  <2>1. <<Ack("PUBREL", p.pid)>> \in Seq(Inbound)
    BY <1>4, PeerPacketType, OwnPackets DEF AckKinds
  <2>2. sent' \in Seq(Inbound)
    BY <1>4, <2>1, DirectType DEF OnPubrec
  <2> QED
    BY <1>4, <2>2 DEF OnPubrec, session, TypeOK
<1>5. CASE p.type = "PUBREL" /\ OnPubrel(p)
  <2>1. <<Ack("PUBCOMP", p.pid)>> \in Seq(Inbound)
    BY <1>5, PeerPacketType, OwnPackets DEF AckKinds, Answers
  <2>2. sent' \in Seq(Inbound)
    BY <1>5, <2>1, DirectType DEF OnPubrel
  <2>3. pending' \in [Entries -> Pending]
    BY <1>0, <1>5, FreedEffect DEF OnPubrel
  <2> QED
    BY <1>5, <2>2, <2>3 DEF OnPubrel, TypeOK
<1>6. CASE Quiet /\ UNCHANGED <<pc, session>>
  BY <1>6 DEF Quiet, session, TypeOK
<1>7. CASE FireDisconnect
  BY <1>0, <1>7, ResetType DEF FireDisconnect, Quiet
<1> QED
  BY <1>1, <1>2, <1>3, <1>4, <1>5, <1>6, <1>7 DEF Packet

\* The calls of the program keep the type invariant.
LEMMA CallType ==
  ASSUME TypeOK, Call
  PROVE  TypeOK'
<1>0. /\ pending \in [Entries -> Pending] /\ next_pid \in Pids /\ 0 \in 0 .. Parts - 1
      /\ subs \in Seq(Filters) /\ Len(subs) <= MaxSubs /\ Len(subs) \in Nat /\ MaxSubs \in Nat
  BY LeafSizesAssumption, LenProperties DEF TypeOK
<1>1. NextPid \in Pids \ {0} /\ 0 \in Pids
  BY <1>0, NextPidType, PidMaxAssumption DEF Pids
<1>2. ASSUME NEW p \in Inbound, Encode(p)
      PROVE  buf' \in [pkt : Inbound \cup {None}, off : 0 .. Parts - 1]
  BY <1>0, <1>2 DEF Encode
<1>3. ASSUME NEW type \in {"SUBSCRIBE", "UNSUBSCRIBE"}, Await(type)
      PROVE  pending' \in [Entries -> Pending]
  <2>1. CASE FreeEntries = {}
    BY <1>0, <1>3, <2>1 DEF Await
  <2>2. CASE FreeEntries # {}
    <3>1. pending' = [pending EXCEPT ![Lowest(FreeEntries)].pid  = NextPid,
                                     ![Lowest(FreeEntries)].type = type]
      BY <1>3, <2>2 DEF Await
    <3> QED
      BY <1>0, <1>1, <2>2, <3>1, TakenEffect
  <2> QED
    BY <2>1, <2>2
<1>4. ASSUME NEW w \in Wanted, LeafSubscribe(w)
      PROVE  TypeOK'
  <2>1. w.filter \in Filters
    BY LeafInputsAssumption
  <2>2. CASE w.filter \in TooLong
    BY <1>1, <1>4, <2>2 DEF LeafSubscribe, Quiet, TypeOK
  <2>3. CASE w.filter \notin TooLong
    <3>1. subs' = Append(subs, w.filter) /\ Len(subs) < MaxSubs
      BY <1>4, <2>3 DEF LeafSubscribe
    <3>2. subs' \in Seq(Filters) /\ Len(subs') <= MaxSubs
      BY <1>0, <2>1, <3>1
    <3>3. buf' \in [pkt : Inbound \cup {None}, off : 0 .. Parts - 1]
      BY <1>1, <1>2, <1>4, <2>3, OwnPackets DEF LeafSubscribe
    <3>4. pending' \in [Entries -> Pending]
      BY <1>3, <1>4, <2>3 DEF LeafSubscribe
    <3> QED
      BY <1>1, <1>4, <3>2, <3>3, <3>4 DEF LeafSubscribe, Quiet, TypeOK
  <2> QED
    BY <2>2, <2>3
<1>5. ASSUME NEW w \in Wanted, LeafUnsubscribe(w.filter)
      PROVE  TypeOK'
  <2>1. subs' \in Seq(Filters) /\ Len(subs') <= MaxSubs
    BY <1>0, <1>5, WithoutType DEF LeafUnsubscribe
  <2>2. buf' \in [pkt : Inbound \cup {None}, off : 0 .. Parts - 1]
    BY <1>1, <1>2, <1>5, OwnPackets DEF LeafUnsubscribe
  <2>3. pending' \in [Entries -> Pending]
    BY <1>3, <1>5 DEF LeafUnsubscribe
  <2> QED
    BY <1>1, <1>5, <2>1, <2>2, <2>3 DEF LeafUnsubscribe, Quiet, TypeOK
<1>6. ASSUME NEW m \in Messages, LeafPublish(m)
      PROVE  TypeOK'
  <2> DEFINE p == Publish(m, IF m.qos = 0 THEN 0 ELSE NextPid)
             e == [pid |-> NextPid, type |-> "PUBLISH", retries |-> 0, snap |-> p]
  <2>1. p \in Inbound
    BY <1>1, LeafInputsAssumption, OwnPackets
  <2>2. 0 \in 0 .. MaxRetries
    BY LeafSizesAssumption
  <2>3. e \in Pending
    <3> HIDE DEF p
    <3> QED
      BY <1>1, <2>1, <2>2 DEF Pending
  <2>4. CASE Encode(p) /\ UNCHANGED <<pending, next_pid>>
    <3>1. buf' \in [pkt : Inbound \cup {None}, off : 0 .. Parts - 1]
      BY <1>2, <2>1, <2>4
    <3> QED
      BY <1>6, <2>4, <3>1 DEF LeafPublish, Quiet, TypeOK
  <2>5. CASE /\ Encode(p) /\ next_pid' = NextPid
             /\ pending' = [pending EXCEPT ![Lowest(FreeEntries)] = e]
    <3>1. buf' \in [pkt : Inbound \cup {None}, off : 0 .. Parts - 1]
      BY <1>2, <2>1, <2>5
    <3>2. pending' \in [Entries -> Pending]
      <4> HIDE DEF e
      <4> QED
        BY <1>0, <2>3, <2>5
    <3> QED
      BY <1>1, <1>6, <2>5, <3>1, <3>2 DEF LeafPublish, Quiet, TypeOK
  <2>6. CASE next_pid' = NextPid /\ UNCHANGED <<buf, pending>>
    BY <1>1, <1>6, <2>6 DEF LeafPublish, Quiet, TypeOK
  <2> QED
    BY <1>6, <2>4, <2>5, <2>6 DEF LeafPublish
<1> QED
  BY <1>4, <1>5, <1>6 DEF Call

\* The type invariant is inductive by itself.
LEMMA TypeStep == TypeOK /\ [Next]_vars => TypeOK'
<1> SUFFICES ASSUME TypeOK, [Next]_vars PROVE TypeOK'
  OBVIOUS
<1> USE DEF Goes
<1>0. /\ <<>> \in Seq(Inbound) /\ pc \in {"program", "packets", "callback", "crashed"}
      /\ state \in States /\ sent \in Seq(Inbound) /\ pending \in [Entries -> Pending]
      /\ <<Disconnect>> \in Seq(Inbound) /\ <<Pingreq>> \in Seq(Inbound)
  BY OwnPackets DEF TypeOK
<1>1. ASSUME ConnectTcp PROVE TypeOK'
  BY <1>0, <1>1, CalmType DEF ConnectTcp, Quiet, States
<1>2. ASSUME LeafDisconnect PROVE TypeOK'
  BY <1>0, <1>2, DirectType, ResetType DEF LeafDisconnect, InProgram
<1>3. ASSUME Recreate PROVE TypeOK'
  <2>1. sent' \in Seq(Inbound)
    BY <1>0, <1>3, DirectType DEF Recreate, Quiet
  <2> QED
    BY <1>3, <2>1, ResetType DEF Recreate
<1>4. ASSUME PollFails PROVE TypeOK'
  BY <1>0, <1>4, ResetType DEF PollFails, FireDisconnect, Quiet
<1>5. ASSUME Writable PROVE TypeOK'
  <2>1. PICK p \in Inbound, off \in 0 .. Parts - 1 : SendPending(p, off)
    <3>1. buf \in [pkt : Inbound \cup {None}, off : 0 .. Parts - 1] /\ 0 \in 0 .. Parts - 1
      BY LeafSizesAssumption DEF TypeOK
    <3>2. CASE state = "TCP_CONNECTING"
      BY <1>5, <3>1, <3>2, InitialValues DEF Writable
    <3>3. CASE state # "TCP_CONNECTING"
      BY <1>5, <3>1, <3>3 DEF Writable
    <3> QED
      BY <3>2, <3>3
  <2>2. /\ sent' \in Seq(Inbound)
        /\ \/ buf' = NoPacket
           \/ \E o \in off .. Parts - 1 : buf' = [pkt |-> p, off |-> o]
    BY <2>1, SendPendingType
  <2>3. off .. Parts - 1 \subseteq 0 .. Parts - 1
    BY LeafSizesAssumption
  <2>4. buf' \in [pkt : Inbound \cup {None}, off : 0 .. Parts - 1]
    BY <2>2, <2>3, InitialValues
  <2>5. state' \in States
    BY <1>0, <1>5 DEF Writable, States
  <2> QED
    BY <1>5, <2>2, <2>4, <2>5 DEF Writable, TypeOK
<1>6. ASSUME Readable PROVE TypeOK'
  BY <1>0, <1>6, CalmType DEF Readable, Quiet, session
<1>7. ASSUME PollEnds PROVE TypeOK'
  <2>1. PICK ping \in {<<>>, <<Pingreq>>} :
          \/ Reset /\ Direct(ping)
          \/ \E due \in SUBSET (Entries \ FreeEntries) :
               /\ pending' = Retried(due) /\ Direct(ping \o Snapshots(due))
               /\ UNCHANGED <<state, buf, received_ids, subs, next_pid, told>>
    BY <1>7 DEF PollEnds
  <2>2. pc' = "program" /\ ping \in Seq(Inbound)
    BY <1>0, <1>7 DEF PollEnds
  <2>3. CASE Reset /\ Direct(ping)
    BY <2>2, <2>3, DirectType, ResetType
  <2>4. ASSUME NEW due \in SUBSET (Entries \ FreeEntries), pending' = Retried(due),
               Direct(ping \o Snapshots(due)),
               UNCHANGED <<state, buf, received_ids, subs, next_pid, told>>
        PROVE  TypeOK'
    <3>1. due \in SUBSET Entries
      OBVIOUS
    <3>2. ping \o Snapshots(due) \in Seq(Inbound)
      BY <1>0, <2>2, <3>1, SnapshotsType, ConcatProperties
    <3>3. sent' \in Seq(Inbound)
      BY <2>4, <3>2, DirectType
    <3>4. pending' \in [Entries -> Pending]
      BY <1>0, <2>4, <3>1, RetriedEffect
    <3> QED
      BY <2>2, <2>4, <3>3, <3>4 DEF TypeOK
  <2> QED
    BY <2>1, <2>3, <2>4
<1>8. ASSUME CallbackReturns PROVE TypeOK'
  BY <1>0, <1>8, CalmType DEF CallbackReturns, Quiet, session
<1>9. ASSUME UNCHANGED vars PROVE TypeOK'
  BY <1>0, <1>9, CalmType DEF vars, session
<1> QED
  BY <1>1, <1>2, <1>3, <1>4, <1>5, <1>6, <1>7, <1>8, <1>9, CallType, PacketType
     DEF Next, LeafConnect, PollConnects

---------------------------------------------------------------------------
(***************************************************************************)
(* What a step can do to the session, whichever action takes it.           *)
(***************************************************************************)
\* An acknowledgement frees an entry that waits for its identifier.
FreesFor(p) ==
  /\ p.type \in Answers
  /\ \E entries \in SUBSET {i \in Entries : pending[i].pid = p.pid} :
       pending' = Freed(entries)
  /\ told' \subseteq told
  /\ UNCHANGED <<pc, state, buf, received_ids, subs, next_pid>>

\* Retries are all that follows the packets of a poll.
OnlyRetries ==
  /\ pc = "packets" /\ pc' = "program"
  /\ \E due \in SUBSET Entries : (state = "READY" \/ due = {}) /\ pending' = Retried(due)
  /\ UNCHANGED <<state, buf, received_ids, subs, next_pid, told>>

\* The thread moves, if at all, on or to a connection that is established.
OnlyMoves ==
  /\ UNCHANGED session
  /\ \/ UNCHANGED pc
     \/ state \notin {"DISCONNECTED", "TCP_CONNECTING"} \/ pc \in {"packets", "callback"}

\* Every step is of one of nine kinds.
LEMMA Steps ==
  ASSUME [Next]_vars
  PROVE  \/ Reset /\ pc' \in {"program", "crashed"}
         \/ ConnectTcp
         \/ Call
         \/ \E p \in PeerPackets : pc = "packets" /\ OnConnack(p)
         \/ \E p \in PeerPackets : p.type = "PUBLISH" /\ pc = "packets" /\ OnPublish(p)
         \/ \E p \in PeerPackets : Packet(p) /\ FreesFor(p)
         \/ Writable
         \/ OnlyRetries
         \/ OnlyMoves
<1> USE DEF Goes
<1>1. CASE LeafDisconnect
  BY <1>1 DEF LeafDisconnect, InProgram
<1>2. CASE Recreate
  BY <1>2 DEF Recreate
<1>3. CASE PollFails
  BY <1>3 DEF PollFails, FireDisconnect
<1>4. CASE PollEnds
  <2>1. PICK ping \in {<<>>, <<Pingreq>>} :
          \/ Reset /\ Direct(ping)
          \/ \E due \in SUBSET (Entries \ FreeEntries) :
               /\ state = "READY" \/ due = {}
               /\ pending' = Retried(due) /\ Direct(ping \o Snapshots(due))
               /\ UNCHANGED <<state, buf, received_ids, subs, next_pid, told>>
    BY <1>4 DEF PollEnds
  <2>2. pc = "packets" /\ pc' = "program"
    BY <1>4 DEF PollEnds
  <2> QED
    BY <2>1, <2>2 DEF OnlyRetries
<1>5. CASE Readable
  BY <1>5 DEF Readable, OnlyMoves
<1>6. CASE CallbackReturns
  BY <1>6 DEF CallbackReturns, OnlyMoves
<1>7. CASE UNCHANGED vars
  BY <1>7 DEF vars, OnlyMoves
<1>8. ASSUME NEW p \in PeerPackets, Packet(p)
      PROVE  \/ Reset /\ pc' \in {"program", "crashed"}
             \/ pc = "packets" /\ OnConnack(p)
             \/ p.type = "PUBLISH" /\ pc = "packets" /\ OnPublish(p)
             \/ FreesFor(p)
             \/ OnlyMoves
  <2>1. CASE OnAck(p) /\ p.type \in Answers
    BY <2>1 DEF OnAck, FreesFor
  <2>2. CASE OnPubrel(p) /\ p.type = "PUBREL"
    <3>1. {i \in Entries : pending[i].pid = p.pid /\ pending[i].type = "PUBLISH"}
            \subseteq {i \in Entries : pending[i].pid = p.pid}
      OBVIOUS
    <3> QED
      BY <2>2, <3>1 DEF OnPubrel, FreesFor, Answers
  <2>3. CASE OnPubrec(p)
    BY <2>3 DEF OnPubrec, OnlyMoves
  <2>4. CASE UNCHANGED <<pc, session>>
    BY <2>4 DEF OnlyMoves
  <2>5. CASE FireDisconnect
    BY <2>5 DEF FireDisconnect
  <2> QED
    BY <1>8, <2>1, <2>2, <2>3, <2>4, <2>5 DEF Packet, Answers
<1> QED
  BY <1>1, <1>2, <1>3, <1>4, <1>5, <1>6, <1>7, <1>8
     DEF Next, LeafConnect, PollConnects

\* The entries that are not freed keep their snapshots, and so do those that are.
LEMMA SnapshotsKept ==
  ASSUME pending \in [Entries -> Pending], NEW i \in Entries
  PROVE  /\ \A due \in SUBSET Entries : Retried(due)[i].snap = pending[i].snap
         /\ \A entries \in SUBSET Entries : Freed(entries)[i].snap = pending[i].snap
<1>0. pending[i] \in Pending
  OBVIOUS
<1>1. ASSUME NEW due \in SUBSET Entries PROVE Retried(due)[i].snap = pending[i].snap
  <2>1. Retried(due)[i] \in {pending[i], [pending[i] EXCEPT !.pid = 0],
                             [pending[i] EXCEPT !.retries = @ + 1]}
    BY DEF Retried
  <2> QED
    BY <1>0, <2>1 DEF Pending
<1>2. ASSUME NEW entries \in SUBSET Entries PROVE Freed(entries)[i].snap = pending[i].snap
  <2>1. Freed(entries)[i] \in {pending[i], [pending[i] EXCEPT !.pid = 0]}
    BY FreedEffect
  <2> QED
    BY <1>0, <2>1 DEF Pending
<1> QED
  BY <1>1, <1>2

\* What retries may send again.
SnapshotsPublish == \A i \in Entries : pending[i].snap # None => pending[i].snap.type = "PUBLISH"

\* Only leaf_publish stores a snapshot.
LEMMA SnapshotsPublishStep ==
  ASSUME TypeOK, SnapshotsPublish, [Next]_vars
  PROVE  SnapshotsPublish'
<1>0. pending \in [Entries -> Pending] /\ next_pid \in Pids
  BY DEF TypeOK
<1>1. ASSUME \A i \in Entries : pending'[i].snap = pending[i].snap PROVE SnapshotsPublish'
  BY <1>1 DEF SnapshotsPublish
<1>2. ASSUME UNCHANGED pending PROVE SnapshotsPublish'
  BY <1>2 DEF SnapshotsPublish
<1>3. CASE Reset
  BY <1>3 DEF Reset, NoPending, SnapshotsPublish
<1>4. CASE Call
  <2>0. NextPid \in Pids
    BY <1>0, NextPidType
  <2>1. ASSUME NEW type \in {"SUBSCRIBE", "UNSUBSCRIBE"}, Await(type) PROVE SnapshotsPublish'
    <3>1. CASE FreeEntries = {}
      BY <1>2, <2>1, <3>1 DEF Await
    <3>2. CASE FreeEntries # {}
      BY <1>0, <1>1, <2>0, <2>1, <3>2, TakenEffect DEF Await
    <3> QED
      BY <3>1, <3>2
  <2>2. ASSUME NEW m \in Messages, LeafPublish(m) PROVE SnapshotsPublish'
    <3>1. CASE UNCHANGED pending
      BY <1>2, <3>1
    <3>2. CASE ~UNCHANGED pending
      <4> DEFINE p == Publish(m, IF m.qos = 0 THEN 0 ELSE NextPid)
                 e == [pid |-> NextPid, type |-> "PUBLISH", retries |-> 0, snap |-> p]
      <4>1. pending' = [pending EXCEPT ![Lowest(FreeEntries)] = e]
        BY <2>2, <3>2 DEF LeafPublish
      <4>2. e.snap.type = "PUBLISH"
        BY DEF Publish
      <4> HIDE DEF e
      <4> QED
        BY <1>0, <4>1, <4>2 DEF SnapshotsPublish
    <3> QED
      BY <3>1, <3>2
  <2> QED
    BY <1>2, <1>4, <2>1, <2>2 DEF Call, LeafSubscribe, LeafUnsubscribe
<1>5. ASSUME NEW p \in PeerPackets, p.type = "PUBLISH", OnPublish(p) PROVE SnapshotsPublish'
  <2>1. CASE p.msg.qos # 2 \/ FreeEntries = {}
    BY <1>2, <1>5, <2>1 DEF OnPublish
  <2>2. CASE p.msg.qos = 2 /\ FreeEntries # {}
    <3>1. pending' = [pending EXCEPT ![Lowest(FreeEntries)].pid  = p.pid,
                                     ![Lowest(FreeEntries)].type = "PUBLISH"]
      BY <1>5, <2>2 DEF OnPublish
    <3>2. p.pid \in Pids
      BY <1>5, PeerPacketType
    <3> QED
      BY <1>0, <1>1, <2>2, <3>1, <3>2, TakenEffect
  <2> QED
    BY <2>1, <2>2
<1>6. ASSUME NEW entries \in SUBSET Entries, pending' = Freed(entries) \/ pending' = Retried(entries)
      PROVE  SnapshotsPublish'
  BY <1>0, <1>1, <1>6, SnapshotsKept
<1>7. ASSUME NEW p \in PeerPackets, FreesFor(p) PROVE SnapshotsPublish'
  <2>1. PICK entries \in SUBSET {i \in Entries : pending[i].pid = p.pid} : pending' = Freed(entries)
    BY <1>7 DEF FreesFor
  <2>2. entries \in SUBSET Entries
    OBVIOUS
  <2> QED
    BY <1>6, <2>1, <2>2
<1>8. CASE OnlyRetries
  BY <1>6, <1>8 DEF OnlyRetries
<1>9. ConnectTcp \/ Writable \/ OnlyMoves \/ (\E p \in PeerPackets : OnConnack(p)) => UNCHANGED pending
  BY DEF ConnectTcp, Writable, OnlyMoves, OnConnack, session
<1> QED
  BY <1>2, <1>3, <1>4, <1>5, <1>7, <1>8, <1>9, Steps

---------------------------------------------------------------------------
(***************************************************************************)
(* The invariants.                                                         *)
(***************************************************************************)
\* The inductive invariant.
IInv == TypeOK /\ FreshUntilReady /\ Remembered

\* A new client satisfies the invariant.
LEMMA InitInv == Init => IInv
<1> SUFFICES ASSUME Init PROVE IInv
  OBVIOUS
<1>1. TypeOK
  BY InitialValues DEF Init, TypeOK, States
<1>2. FreshUntilReady
  BY DEF Init, FreshUntilReady, NoPacket, NoPending
<1>3. Remembered
  BY DEF Init, Remembered, NoReceived
<1> QED
  BY <1>1, <1>2, <1>3 DEF IInv

\* Whatever a step does to a connection that is not accepted, nothing of an earlier
\* one shows.
LEMMA FreshStep ==
  ASSUME TypeOK, FreshUntilReady, [Next]_vars
  PROVE  FreshUntilReady'
<1> USE DEF Goes
<1>0. /\ pending \in [Entries -> Pending] /\ buf \in [pkt : Inbound \cup {None}, off : 0 .. Parts - 1]
      /\ pc \in {"program", "packets", "callback", "crashed"}
  BY DEF TypeOK
<1>1. ASSUME Reset, pc' \in {"program", "crashed"} PROVE FreshUntilReady'
  BY <1>1 DEF Reset, FreshUntilReady, NoPacket, NoPending
<1>2. ASSUME ConnectTcp PROVE FreshUntilReady'
  BY <1>2 DEF ConnectTcp, FreshUntilReady
<1>3. ASSUME Call PROVE FreshUntilReady'
  <2>1. state' = "READY"
    BY <1>3 DEF Call, MayCall, LeafSubscribe, LeafUnsubscribe, LeafPublish
  <2> QED
    BY <2>1 DEF FreshUntilReady
<1>4. ASSUME NEW p \in PeerPackets, pc = "packets", OnConnack(p) PROVE FreshUntilReady'
  BY <1>4 DEF OnConnack, FreshUntilReady
<1>5. ASSUME NEW p \in PeerPackets, p.type = "PUBLISH", pc = "packets", OnPublish(p)
      PROVE  FreshUntilReady'
  <2>1. state \notin {"DISCONNECTED", "TCP_CONNECTING"} /\ UNCHANGED <<state, buf, subs, next_pid>>
    BY <1>5 DEF FreshUntilReady, OnPublish
  <2>2. \A i \in Entries : pending'[i].snap = pending[i].snap
    <3>1. CASE p.msg.qos # 2 \/ FreeEntries = {}
      BY <1>5, <3>1 DEF OnPublish
    <3>2. CASE p.msg.qos = 2 /\ FreeEntries # {}
      <4>1. pending' = [pending EXCEPT ![Lowest(FreeEntries)].pid  = p.pid,
                                       ![Lowest(FreeEntries)].type = "PUBLISH"]
        BY <1>5, <3>2 DEF OnPublish
      <4>2. p.pid \in Pids
        BY <1>5, PeerPacketType
      <4> QED
        BY <1>0, <3>2, <4>1, <4>2, TakenEffect
    <3> QED
      BY <3>1, <3>2
  <2> QED
    BY <2>1, <2>2 DEF FreshUntilReady
<1>6. ASSUME NEW p \in PeerPackets, Packet(p), FreesFor(p) PROVE FreshUntilReady'
  <2>1. /\ pc = "packets" /\ told' \subseteq told
        /\ UNCHANGED <<pc, state, buf, received_ids, subs, next_pid>>
    BY <1>6 DEF Packet, FreesFor
  <2>2. \A i \in Entries : pending'[i].snap = pending[i].snap
    BY <1>0, <1>6, SnapshotsKept DEF FreesFor
  <2> QED
    BY <2>1, <2>2 DEF FreshUntilReady
<1>7. ASSUME Writable PROVE FreshUntilReady'
  <2>1. CASE state = "TCP_CONNECTING"
    <3>1. SendPending(OwnConnect, 0) /\ state' = "CONNACK_WAIT" /\ 0 \in 0 .. Parts - 1
      BY <1>7, <2>1, LeafSizesAssumption DEF Writable
    <3>2. buf'.pkt \in {None, OwnConnect}
      BY <3>1, SendPendingType, InitialValues DEF NoPacket
    <3> QED
      BY <1>7, <2>1, <3>1, <3>2 DEF Writable, FreshUntilReady
  <2>2. CASE state # "TCP_CONNECTING"
    <3>1. /\ buf.pkt \in Inbound /\ buf.off \in 0 .. Parts - 1
          /\ SendPending(buf.pkt, buf.off) /\ state' = state
      BY <1>0, <1>7, <2>2 DEF Writable
    <3>2. buf'.pkt \in {None, buf.pkt}
      BY <3>1, SendPendingType DEF NoPacket
    <3>3. state \notin {"DISCONNECTED", "TCP_CONNECTING"}
      BY <1>7, <2>2 DEF Writable, FreshUntilReady, NoPacket
    <3> QED
      BY <1>7, <3>1, <3>2, <3>3 DEF Writable, FreshUntilReady
  <2> QED
    BY <2>1, <2>2
<1>8. ASSUME OnlyRetries PROVE FreshUntilReady'
  <2>1. \A i \in Entries : pending'[i].snap = pending[i].snap
    BY <1>0, <1>8, SnapshotsKept DEF OnlyRetries
  <2>2. state \notin {"DISCONNECTED", "TCP_CONNECTING"}
    BY <1>8 DEF OnlyRetries, FreshUntilReady
  <2> QED
    BY <1>8, <2>1, <2>2 DEF OnlyRetries, FreshUntilReady
<1>9. ASSUME OnlyMoves PROVE FreshUntilReady'
  BY <1>0, <1>9 DEF OnlyMoves, session, FreshUntilReady
<1> QED
  BY <1>1, <1>2, <1>3, <1>4, <1>5, <1>6, <1>7, <1>8, <1>9, Steps

\* A message that is told is recorded once, unless the memory is full of others.
LEMMA RememberedStep ==
  ASSUME TypeOK, FreshUntilReady, Remembered, [Next]_vars
  PROVE  Remembered'
<1>0. /\ received_ids \in [Entries -> Pids] /\ told \subseteq Pids \ {0}
      /\ buf \in [pkt : Inbound \cup {None}, off : 0 .. Parts - 1]
  BY DEF TypeOK
<1>1. ASSUME UNCHANGED received_ids, told' \subseteq told PROVE Remembered'
  BY <1>1 DEF Remembered, Seen
<1>2. ASSUME Reset PROVE Remembered'
  BY <1>2 DEF Reset, Remembered, NoReceived
<1>3. ASSUME NEW p \in PeerPackets, p.type = "PUBLISH", OnPublish(p) PROVE Remembered'
  <2>1. p.pid \in Pids
    BY <1>3, PeerPacketType
  <2>2. CASE Seen(p.pid)
    <3>1. UNCHANGED <<received_ids, told>>
      BY <1>3, <2>2 DEF OnPublish
    <3> QED
      BY <1>1, <3>1
  <2>3. CASE p.pid = 0
    <3>1. UNCHANGED <<received_ids, told>>
      BY <1>0, <1>3, <2>3 DEF OnPublish, Seen
    <3> QED
      BY <1>1, <3>1
  <2>4. CASE ~Seen(p.pid) /\ p.pid # 0
    <3> DEFINE free == {i \in Entries : received_ids[i] = 0}
    <3>1. received_ids' = Record(p.pid) /\ told' = told \cup {p.pid}
      BY <1>3, <2>4 DEF OnPublish
    <3>2. CASE free = {}
      <4>1. received_ids' = received_ids
        BY <3>1, <3>2 DEF Record
      <4> QED
        BY <3>2, <4>1 DEF Remembered
    <3>3. CASE free # {}
      <4> DEFINE l == Lowest(free)
      <4>1. l \in Entries /\ received_ids[l] = 0
        BY <3>3, LowestEntry
      <4>2. received_ids' = [received_ids EXCEPT ![l] = p.pid]
        BY <3>1, <3>3 DEF Record
      <4>3. \A i \in Entries : received_ids[i] # p.pid
        BY <2>4 DEF Seen
      <4>4. \A i, j \in Entries :
              received_ids'[i] = received_ids'[j] /\ received_ids'[i] # 0 => i = j
        <5> HIDE DEF l
        <5> QED
          BY <1>0, <4>1, <4>2, <4>3 DEF Remembered
      <4>5. \A pid \in told : Seen(pid)
        BY <4>1 DEF Remembered
      <4>6. ASSUME NEW pid \in told' PROVE Seen(pid)'
        <5> HIDE DEF l
        <5>1. CASE pid = p.pid
          BY <1>0, <2>4, <4>1, <4>2, <5>1 DEF Seen
        <5>2. CASE pid \in told
          <6>1. PICK i \in Entries : received_ids[i] = pid /\ pid # 0
            BY <4>5, <5>2 DEF Seen
          <6>2. i # l
            BY <4>1, <6>1
          <6> QED
            BY <1>0, <4>2, <6>1, <6>2 DEF Seen
        <5> QED
          BY <3>1, <5>1, <5>2
      <4> QED
        BY <4>4, <4>6 DEF Remembered
    <3> QED
      BY <3>2, <3>3
  <2> QED
    BY <2>2, <2>3, <2>4
<1>4. ASSUME Writable PROVE Remembered'
  BY <1>1, <1>4 DEF Writable
<1>5. ASSUME Call PROVE Remembered'
  BY <1>1, <1>5 DEF Call, LeafSubscribe, LeafUnsubscribe, LeafPublish
<1> QED
  BY <1>1, <1>2, <1>3, <1>4, <1>5, Steps
     DEF ConnectTcp, OnConnack, FreesFor, OnlyRetries, OnlyMoves, session

\* Every step keeps the invariant.
LEMMA NextInv == IInv /\ [Next]_vars => IInv'
BY TypeStep, FreshStep, RememberedStep DEF IInv

\* The inductive invariant holds.
THEOREM LeafInvariant == Spec => []IInv
<1> QED
  BY InitInv, NextInv, PTL DEF Spec

\* For every table size, program, peer and socket the variables have their types:
\* identifiers stay within 16 bits, and retries never pass their limit.
THEOREM LeafTypeCorrect == Spec => []TypeOK
<1>1. IInv => TypeOK
  BY DEF IInv
<1> QED
  BY <1>1, LeafInvariant, PTL

\* However a connection ended, the next one starts afresh, and nothing but CONNECT is
\* encoded or numbered on it before the broker has accepted it.
THEOREM ConnectionsStartFresh == Spec => []FreshUntilReady
<1>1. IInv => FreshUntilReady
  BY DEF IInv
<1> QED
  BY <1>1, LeafInvariant, PTL

\* The identifiers of the messages told to the program are remembered until their PUBREL,
\* once each, until the memory is full.
THEOREM ToldAreRemembered == Spec => []Remembered
<1>1. IInv => Remembered
  BY DEF IInv
<1> QED
  BY <1>1, LeafInvariant, PTL

---------------------------------------------------------------------------
(***************************************************************************)
(* What a step may never do.                                               *)
(***************************************************************************)
\* An entry, after a step that neither ends the connection nor answers it, waits for
\* what it waited for.
Kept(e, f) ==
  \/ [f EXCEPT !.retries = e.retries] = e
  \/ f = [e EXCEPT !.pid = 0] /\ e.retries = MaxRetries

\* An entry that a step leaves alone is kept.
LEMMA SameIsKept ==
  ASSUME NEW e \in Pending
  PROVE  Kept(e, e)
BY DEF Kept, Pending

\* No call takes an entry in use.
LEMMA CallKeeps ==
  ASSUME TypeOK, Call, NEW i \in Entries, pending[i].pid # 0
  PROVE  pending'[i] = pending[i]
<1>0. pending \in [Entries -> Pending] /\ next_pid \in Pids
  BY DEF TypeOK
<1>1. NextPid \in Pids
  BY <1>0, NextPidType
<1>2. ASSUME NEW type \in {"SUBSCRIBE", "UNSUBSCRIBE"}, Await(type)
      PROVE  pending'[i] = pending[i]
  <2>1. CASE FreeEntries = {}
    BY <1>2, <2>1 DEF Await
  <2>2. CASE FreeEntries # {}
    <3>1. pending' = [pending EXCEPT ![Lowest(FreeEntries)].pid  = NextPid,
                                     ![Lowest(FreeEntries)].type = type]
      BY <1>2, <2>2 DEF Await
    <3> QED
      BY <1>0, <1>1, <2>2, <3>1, TakenEffect
  <2> QED
    BY <2>1, <2>2
<1>3. ASSUME NEW m \in Messages, LeafPublish(m) PROVE pending'[i] = pending[i]
  <2>1. CASE UNCHANGED pending
    BY <2>1
  <2>2. CASE FreeEntries # {} /\ \E e : pending' = [pending EXCEPT ![Lowest(FreeEntries)] = e]
    <3>1. Lowest(FreeEntries) # i
      BY <2>2, LowestEntry DEF FreeEntries
    <3> QED
      BY <1>0, <2>2, <3>1
  <2> QED
    BY <1>3, <2>1, <2>2 DEF LeafPublish
<1> QED
  BY <1>2, <1>3 DEF Call, LeafSubscribe, LeafUnsubscribe

\* An entry in use is left only by an answer to it, by the end of its retries or by the
\* end of the connection.
THEOREM EntriesAreKept == Spec => EntriesKept
<1>1. ASSUME IInv, [Next]_vars, NEW i \in Entries, pending[i].pid # 0, state' # "DISCONNECTED"
      PROVE  LET e == pending[i]
             IN  \/ [pending'[i] EXCEPT !.retries = e.retries] = e
                 \/ /\ pending'[i] = [e EXCEPT !.pid = 0]
                    /\ \/ e.retries = MaxRetries
                       \/ \E p \in PeerPackets :
                            p.type \in Answers /\ p.pid = e.pid /\ Packet(p)
  <2> DEFINE e == pending[i]
  <2>0. TypeOK /\ pending \in [Entries -> Pending] /\ e \in Pending
    BY <1>1 DEF IInv, TypeOK
  <2>1. ASSUME pending'[i] = e PROVE Kept(e, pending'[i])
    BY <2>0, <2>1, SameIsKept
  <2>2. ASSUME Call PROVE Kept(e, pending'[i])
    BY <1>1, <2>0, <2>1, <2>2, CallKeeps
  <2>3. ASSUME NEW p \in PeerPackets, p.type = "PUBLISH", OnPublish(p)
        PROVE  Kept(e, pending'[i])
    <3>1. CASE p.msg.qos # 2 \/ FreeEntries = {}
      BY <2>1, <2>3, <3>1 DEF OnPublish
    <3>2. CASE p.msg.qos = 2 /\ FreeEntries # {}
      <4>1. pending' = [pending EXCEPT ![Lowest(FreeEntries)].pid  = p.pid,
                                       ![Lowest(FreeEntries)].type = "PUBLISH"]
        BY <2>3, <3>2 DEF OnPublish
      <4>2. p.pid \in Pids
        BY <2>3, PeerPacketType
      <4>3. pending'[i] = e
        BY <1>1, <2>0, <3>2, <4>1, <4>2, TakenEffect
      <4> QED
        BY <2>1, <4>3
    <3> QED
      BY <3>1, <3>2
  <2>4. ASSUME NEW p \in PeerPackets, Packet(p), FreesFor(p)
        PROVE  \/ Kept(e, pending'[i])
               \/ /\ pending'[i] = [e EXCEPT !.pid = 0]
                  /\ p.type \in Answers /\ p.pid = e.pid /\ Packet(p)
    <3>1. PICK entries \in SUBSET {j \in Entries : pending[j].pid = p.pid} :
            pending' = Freed(entries)
      BY <2>4 DEF FreesFor
    <3>2. \/ pending'[i] = e
          \/ i \in entries /\ pending'[i] = [e EXCEPT !.pid = 0]
      BY <2>0, <3>1, FreedEffect
    <3> QED
      BY <2>1, <2>4, <3>1, <3>2 DEF FreesFor
  <2>5. ASSUME OnlyRetries PROVE Kept(e, pending'[i])
    BY <2>0, <2>5, RetriedEffect DEF OnlyRetries, Kept
  <2>6. ASSUME UNCHANGED pending PROVE Kept(e, pending'[i])
    BY <2>1, <2>6
  <2>7. ~Reset
    BY <1>1 DEF Reset
  <2>8. \/ Kept(e, pending'[i])
        \/ \E p \in PeerPackets : /\ pending'[i] = [e EXCEPT !.pid = 0]
                                  /\ p.type \in Answers /\ p.pid = e.pid /\ Packet(p)
    BY <1>1, <2>1, <2>2, <2>3, <2>4, <2>5, <2>6, <2>7, Steps
       DEF ConnectTcp, OnConnack, Writable, OnlyMoves, session
  <2> QED
    BY <2>8 DEF Kept
<1>2. IInv /\ [Next]_vars =>
        [\A i \in Entries :
           LET e == pending[i]
           IN  e.pid # 0 /\ state' # "DISCONNECTED" =>
                 \/ [pending'[i] EXCEPT !.retries = e.retries] = e
                 \/ /\ pending'[i] = [e EXCEPT !.pid = 0]
                    /\ \/ e.retries = MaxRetries
                       \/ \E p \in PeerPackets :
                            p.type \in Answers /\ p.pid = e.pid /\ Packet(p)]_vars
  BY <1>1
<1> QED
  BY <1>2, LeafInvariant, PTL DEF Spec, EntriesKept

\* A packet leaves the send buffer sent to its end, with its connection, or because the
\* program puts another in its place.
THEOREM PacketsAreSentToTheEnd == Spec => SentToTheEnd
<1>1. ASSUME IInv, [Next]_vars, buf.pkt # None, buf' # buf, state' # "DISCONNECTED"
      PROVE  \/ buf' = NoPacket /\ sent' = <<buf.pkt>>
             \/ buf'.pkt = buf.pkt /\ buf'.off > buf.off
             \/ Call
  <2>0. buf \in [pkt : Inbound \cup {None}, off : 0 .. Parts - 1] /\ Parts \in Nat \ {0}
    BY <1>1, LeafSizesAssumption DEF IInv, TypeOK
  <2>1. CASE Writable
    <3>1. state # "TCP_CONNECTING"
      BY <1>1 DEF IInv, FreshUntilReady, NoPacket
    <3>2. SendPending(buf.pkt, buf.off) /\ buf.pkt \in Inbound /\ buf.off \in 0 .. Parts - 1
      BY <1>1, <2>0, <2>1, <3>1 DEF Writable
    <3>3. \/ buf' = NoPacket /\ sent' = <<buf.pkt>>
          \/ \E o \in buf.off .. Parts - 1 : buf' = [pkt |-> buf.pkt, off |-> o]
      BY <3>2, SendPendingType
    <3>4. ASSUME NEW o \in buf.off .. Parts - 1, buf' = [pkt |-> buf.pkt, off |-> o]
          PROVE  buf'.pkt = buf.pkt /\ buf'.off > buf.off
      <4>1. buf = [pkt |-> buf.pkt, off |-> buf.off]
        BY <2>0
      <4>2. o # buf.off
        BY <1>1, <3>4, <4>1
      <4>3. o \in Int /\ buf.off \in Int /\ o >= buf.off
        BY <2>0
      <4> QED
        BY <3>4, <4>2, <4>3
    <3> QED
      BY <3>3, <3>4
  <2>2. CASE Reset
    BY <1>1, <2>2 DEF Reset
  <2>3. CASE UNCHANGED buf
    BY <1>1, <2>3
  <2> QED
    BY <1>1, <2>1, <2>2, <2>3, Steps
       DEF ConnectTcp, OnConnack, OnPublish, FreesFor, OnlyRetries, OnlyMoves, session
<1>2. IInv /\ [Next]_vars =>
        [buf.pkt # None /\ buf' # buf /\ state' # "DISCONNECTED" =>
           \/ buf' = NoPacket /\ sent' = <<buf.pkt>>
           \/ buf'.pkt = buf.pkt /\ buf'.off > buf.off
           \/ Call]_vars
  BY <1>1
<1> QED
  BY <1>2, LeafInvariant, PTL DEF Spec, SentToTheEnd

---------------------------------------------------------------------------
(***************************************************************************)
(* The refinement.                                                         *)
(***************************************************************************)
\* The client implements LeafStatus: whatever the peer sends, it is ready only after it
\* was seen connected, and on that connection.
THEOREM LeafImplementsStatus == Spec => ImplementsStatus
<1> DEFINE up  == state \notin {"DISCONNECTED", "TCP_CONNECTING"}
           rdy == state = "READY"
<1>1. Init => Status!Init
  BY DEF Init, Status!Init
<1>2. ASSUME IInv, [Next]_vars
      PROVE  [Status!Next]_<<up, rdy>>
  <2>1. CASE Reset
    BY <2>1 DEF Reset, Status!Next, Status!End
  <2>2. CASE ConnectTcp
    BY <2>2 DEF ConnectTcp, Status!Next, Status!Establish
  <2>3. ASSUME NEW p \in PeerPackets, pc = "packets", OnConnack(p)
        PROVE  [Status!Next]_<<up, rdy>>
    <3>1. up
      BY <1>2, <2>3 DEF IInv, FreshUntilReady
    <3> QED
      BY <2>3, <3>1 DEF OnConnack, Status!Next, Status!Accepted
  <2>4. CASE Writable
    BY <2>4 DEF Writable, Status!Next, Status!Establish
  <2>5. CASE UNCHANGED state
    BY <2>5
  <2> QED
    BY <1>2, <2>1, <2>2, <2>3, <2>4, <2>5, Steps
       DEF Call, LeafSubscribe, LeafUnsubscribe, LeafPublish, OnPublish, FreesFor,
           OnlyRetries, OnlyMoves, session
<1>3. IInv /\ [Next]_vars => [Status!Next]_<<up, rdy>>
  BY <1>2
<1> QED
  BY <1>1, <1>3, LeafInvariant, PTL DEF Spec, ImplementsStatus, Status!Spec
===========================================================================
