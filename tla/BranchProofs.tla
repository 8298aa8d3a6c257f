--------------------------- MODULE BranchProofs ---------------------------
(***************************************************************************)
(* Proofs about the broker, for every size of its tables, every set of     *)
(* packets its clients send and every behaviour of its sockets.            *)
(***************************************************************************)
EXTENDS Branch, MqttProofs, CommonProofs

---------------------------------------------------------------------------
(***************************************************************************)
(* Searching the tables of the broker.                                     *)
(***************************************************************************)

\* The tables are finite.
LEMMA TablesFinite ==
  ASSUME NEW S, \/ S \subseteq Slots \/ S \subseteq SubSlots
                \/ S \subseteq RetSlots \/ S \subseteq FlowSlots
  PROVE  IsFiniteSet(S) /\ S \in SUBSET Int /\ Cardinality(S) \in Nat
<1>1. \A n \in Nat : IsFiniteSet(0 .. n - 1)
  <2> SUFFICES ASSUME NEW n \in Nat PROVE IsFiniteSet(0 .. n - 1)
    OBVIOUS
  <2> QED
    BY 0 \in Int, n - 1 \in Int, FS_Interval
<1>2. PICK n \in Nat : S \subseteq 0 .. n - 1
  BY SizesAssumption DEF Slots, SubSlots, RetSlots, FlowSlots
<1>3. IsFiniteSet(S)
  BY <1>1, <1>2, FS_Subset
<1>4. S \subseteq Int
  BY <1>2
<1> QED
  BY <1>3, <1>4, FS_CardinalityType

\* The first of a non-empty set of table indices exists.
LEMMA LowestIndex ==
  ASSUME NEW S, S # {}, \/ S \subseteq Slots \/ S \subseteq SubSlots
                        \/ S \subseteq RetSlots \/ S \subseteq FlowSlots
  PROVE  Lowest(S) \in S
<1>1. PICK n \in Int : S \in SUBSET (0 .. n)
  <2>1. MaxClients - 1 \in Int /\ MaxSubs - 1 \in Int /\ MaxRetained - 1 \in Int
        /\ MaxPending - 1 \in Int
    BY SizesAssumption
  <2> QED
    BY <2>1 DEF Slots, SubSlots, RetSlots, FlowSlots
<1> QED
  BY <1>1, LowestElement

---------------------------------------------------------------------------
(***************************************************************************)
(* The type of the tables a handler works on, and the step that each       *)
(* building block of the handlers makes.                                   *)
(***************************************************************************)
States == {"DISCONNECTED", "CONNACK_SENT", "READY"}

TablesType ==
  [state : [Slots -> States], session : [Slots -> Session],
   q2 : [Slots -> [FlowSlots -> Flow]], subs : [SubSlots -> Sub \cup {None}],
   retained : [RetSlots -> Retained \cup {None}], next_pid : Pids,
   emit : [Slots -> Seq(Outbound)], accepted : SUBSET Slots]

\* Queueing adds to what is queued for that client.
LEMMA QueueEffect ==
  ASSUME NEW T \in TablesType, NEW c \in Slots, NEW p \in Outbound
  PROVE  /\ Queue(T, c, p) \in TablesType
         /\ Queue(T, c, p) = [T EXCEPT !.emit = [T.emit EXCEPT ![c] = Append(T.emit[c], p)]]
<1>1. Queue(T, c, p) = [T EXCEPT !.emit = [T.emit EXCEPT ![c] = Append(T.emit[c], p)]]
  BY DEF Queue, TablesType
<1>2. [T.emit EXCEPT ![c] = Append(T.emit[c], p)] \in [Slots -> Seq(Outbound)]
  BY DEF TablesType
<1> QED
  BY <1>1, <1>2 DEF TablesType

\* Retaining a message changes the retained table only, and leaves at most one
\* message per topic in it if there was at most one before.
RetainedOK(T) ==
  \A r, t \in RetSlots :
    T.retained[r] # None /\ T.retained[t] # None /\ T.retained[r].topic = T.retained[t].topic
      => r = t

\* A message replaces the one retained on its topic, so there is never a second.
LEMMA RetainEffect ==
  ASSUME NEW T \in TablesType, NEW m \in Message
  PROVE  /\ Retain(T, m) \in TablesType
         /\ Retain(T, m) = [T EXCEPT !.retained = Retain(T, m).retained]
         /\ RetainedOK(T) => RetainedOK(Retain(T, m))
<1> DEFINE same  == RetainedOn(T, m.topic)
           free  == {r \in RetSlots : T.retained[r] = None}
           entry == IF same # {} THEN same ELSE free
           new   == [topic |-> m.topic, payload |-> m.payload, qos |-> m.qos]
<1>1. CASE m.retain /\ m.payload # EmptyPayload /\ entry # {}
  <2> DEFINE R == [T.retained EXCEPT ![Lowest(entry)] = new]
  <2>1. entry \subseteq RetSlots /\ Lowest(entry) \in entry
    BY <1>1, LowestIndex DEF RetainedOn
  <2>2. new \in Retained /\ None \notin Retained
    BY NoneAssumption DEF Message, Retained
  <2>3. Retain(T, m) = [T EXCEPT !.retained = R]
    BY <1>1 DEF Retain, TablesType
  <2>4. R \in [RetSlots -> Retained \cup {None}]
    BY <2>1, <2>2 DEF TablesType
  <2>5. Retain(T, m) \in TablesType /\ Retain(T, m).retained = R
    BY <2>3, <2>4 DEF TablesType
  <2>6. ASSUME RetainedOK(T), NEW r \in RetSlots, NEW t \in RetSlots,
               R[r] # None, R[t] # None, R[r].topic = R[t].topic
        PROVE  r = t
    <3>1. CASE r # Lowest(entry) /\ t # Lowest(entry)
      BY <2>1, <2>6, <3>1 DEF RetainedOK, TablesType
    <3>2. ASSUME NEW x \in RetSlots, NEW y \in RetSlots, x # y, x = Lowest(entry),
                 R[y] # None, R[y].topic = R[x].topic
          PROVE  FALSE
      <4>1. T.retained[y] # None /\ T.retained[y].topic = m.topic
        BY <2>1, <3>2 DEF TablesType
      <4>2. y \in same
        BY <4>1 DEF RetainedOn
      <4>3. x \in same
        BY <4>2, <2>1, <3>2
      <4> QED
        BY <2>6, <3>2, <4>2, <4>3 DEF RetainedOK, RetainedOn
    <3> QED
      BY <2>6, <3>1, <3>2
  <2> QED
    BY <2>3, <2>5, <2>6 DEF RetainedOK
<1>2. CASE m.retain /\ m.payload = EmptyPayload /\ same # {}
  <2> DEFINE R == [T.retained EXCEPT ![Lowest(same)] = None]
  <2>1. Retain(T, m) = [T EXCEPT !.retained = R]
    BY <1>2 DEF Retain, TablesType
  <2>2. R \in [RetSlots -> Retained \cup {None}]
    BY DEF TablesType
  <2>3. Retain(T, m) \in TablesType /\ Retain(T, m).retained = R
    BY <2>1, <2>2 DEF TablesType
  <2>4. RetainedOK(T) => RetainedOK(Retain(T, m))
    BY <2>3 DEF RetainedOK, TablesType
  <2> QED
    BY <2>1, <2>3, <2>4
<1>3. CASE /\ ~(m.retain /\ m.payload # EmptyPayload /\ entry # {})
           /\ ~(m.retain /\ m.payload = EmptyPayload /\ same # {})
  <2>1. Retain(T, m) = T
    BY <1>3 DEF Retain
  <2> QED
    BY <2>1 DEF TablesType
<1> QED
  BY <1>1, <1>2, <1>3

---------------------------------------------------------------------------
(***************************************************************************)
(* Forwarding a message.                                                   *)
(***************************************************************************)
Senders == Slots \cup {Api}

\* A receiver of a copy is a live subscription of an open slot.
LEMMA ReceiverFacts ==
  ASSUME NEW T \in TablesType, NEW from, NEW topic, NEW s \in Receivers(T, from, topic)
  PROVE  /\ s \in SubSlots /\ T.subs[s] \in Sub /\ T.subs[s].owner \in Slots
         /\ T.state[T.subs[s].owner] # "DISCONNECTED"
BY DEF Receivers, TablesType, Sub

\* The lower of two QoS is one.
LEMMA FwdQosType ==
  ASSUME NEW T \in TablesType, NEW m \in Message, NEW s \in SubSlots, T.subs[s] \in Sub
  PROVE  FwdQos(T, m, s) \in QoS
BY DEF FwdQos, Min2, QoS, Message, Sub

\* A copy's packet identifier fits 16 bits, and is not 0 above QoS 0.
LEMMA FwdPidType ==
  ASSUME NEW T \in TablesType, NEW from \in Senders, NEW m \in Message, NEW s
  PROVE  /\ FwdPid(T, from, m, s) \in Pids
         /\ s \in Numbered(T, from, m) => FwdPid(T, from, m, s) # 0
<1> DEFINE numbered == Numbered(T, from, m)
<1>1. CASE s \in numbered
  <2>1. numbered \subseteq SubSlots
    BY DEF Numbered, Receivers
  <2>2. Rank(numbered, s) \in 1 .. Cardinality(numbered) /\ Cardinality(numbered) \in Nat
    BY <1>1, <2>1, TablesFinite, RankRange
  <2>3. Rank(numbered, s) \in Nat \ {0}
    BY <2>2
  <2>4. T.next_pid \in Pids
    BY DEF TablesType
  <2>5. PidAfter(T.next_pid, Rank(numbered, s)) \in Pids \ {0}
    BY <2>3, <2>4, PidAfterType
  <2> QED
    BY <1>1, <2>5 DEF FwdPid
<1>2. CASE s \notin numbered
  BY <1>2, PidMaxAssumption DEF FwdPid, Pids
<1> QED
  BY <1>1, <1>2

\* A function on 1 .. n is a sequence.
LEMMA ListType ==
  ASSUME NEW S, NEW n \in Nat, NEW f \in [1 .. n -> S]
  PROVE  f \in Seq(S) /\ Len(f) = n
OBVIOUS

\* What branch__forward queues for a client are PUBLISH packets, and nothing is
\* queued for a slot without a socket.
LEMMA CopiesSentType ==
  ASSUME NEW T \in TablesType, NEW from \in Senders, NEW m \in Message, NEW c \in Slots
  PROVE  /\ CopiesSent(T, from, m, c) \in Seq(Outbound)
         /\ T.state[c] = "DISCONNECTED" => CopiesSent(T, from, m, c) = <<>>
<1> DEFINE copies == CopiesTo(T, from, m, c)
           Copy(s) == Publish([m EXCEPT !.qos = FwdQos(T, m, s)], FwdPid(T, from, m, s))
<1>1. copies \subseteq SubSlots
  BY DEF CopiesTo, Receivers
<1>2. copies \in SUBSET Int /\ IsFiniteSet(copies) /\ Cardinality(copies) \in Nat
  BY <1>1, TablesFinite
<1>3. ASSUME NEW s \in copies PROVE Copy(s) \in Outbound
  <2>1. FwdQos(T, m, s) \in QoS
    BY <1>1, <1>3, ReceiverFacts, FwdQosType DEF CopiesTo
  <2>2. [m EXCEPT !.qos = FwdQos(T, m, s)] \in Message
    BY <2>1 DEF Message
  <2>3. FwdPid(T, from, m, s) \in Pids
    BY FwdPidType
  <2> QED
    BY <2>2, <2>3 DEF Publish, Outbound
<1>4. \A k \in 1 .. Cardinality(copies) : Copy(InOrder(copies)[k]) \in Outbound
  BY <1>2, <1>3, InOrderElement
<1>5. CopiesSent(T, from, m, c) = [k \in 1 .. Cardinality(copies) |-> Copy(InOrder(copies)[k])]
  BY DEF CopiesSent
<1>6. CopiesSent(T, from, m, c) \in Seq(Outbound)
  <2>1. CopiesSent(T, from, m, c) \in [1 .. Cardinality(copies) -> Outbound]
    <3> HIDE DEF copies, Copy
    <3> QED
      BY <1>4, <1>5
  <2> QED
    BY <1>2, <2>1, ListType
<1>7. ASSUME T.state[c] = "DISCONNECTED" PROVE CopiesSent(T, from, m, c) = <<>>
  <2>1. copies = {}
    BY <1>7, ReceiverFacts DEF CopiesTo
  <2>2. Cardinality(copies) = 0
    BY <2>1, FS_EmptySet
  <2> QED
    BY <1>5, <2>2
<1> QED
  BY <1>6, <1>7

\* What forwarding does to the flows: some free ones of open clients start.
FlowsMayStart(T, F) ==
  \A c \in Slots : \A i \in FlowSlots :
    \/ F.q2[c][i] = T.q2[c][i]
    \/ /\ T.state[c] # "DISCONNECTED" /\ T.q2[c][i].state = "FREE"
       /\ F.q2[c][i].state = "OUT_PUBLISH_SENT" /\ F.q2[c][i].pid # 0

\* What forwarding leaves alone, and that nothing is queued for a closed slot.
ForwardStep(T, F) ==
  /\ F \in TablesType
  /\ F.state = T.state /\ F.session = T.session /\ F.subs = T.subs
  /\ F.accepted = T.accepted
  /\ FlowsMayStart(T, F)
  /\ \A c \in Slots : T.state[c] = "DISCONNECTED" => F.emit[c] = T.emit[c]
  /\ RetainedOK(T) => RetainedOK(F)

\* A flow that forwarding occupies was free, belongs to an open slot, and gets the
\* packet identifier of the copy it tracks, which is not 0.
LEMMA StartedFlow ==
  ASSUME NEW T \in TablesType, NEW from \in Senders, NEW m \in Message,
         NEW c \in Slots, NEW i \in FlowSlots, StartedBy(T, from, m, c, i) # {}
  PROVE  /\ T.state[c] # "DISCONNECTED" /\ T.q2[c][i].state = "FREE"
         /\ FwdPid(T, from, m, Lowest(StartedBy(T, from, m, c, i))) \in Pids \ {0}
<1> DEFINE started == StartedBy(T, from, m, c, i)
           s == Lowest(started)
<1>1. started \subseteq CopiesTo(T, from, m, c) /\ CopiesTo(T, from, m, c) \subseteq SubSlots
  BY DEF StartedBy, CopiesTo, Receivers
<1>2. s \in started
  BY <1>1, LowestIndex
<1>3. s \in Receivers(T, from, m.topic) /\ T.subs[s].owner = c /\ FwdQos(T, m, s) = 2
      /\ T.q2[c][i].state = "FREE"
  BY <1>2 DEF StartedBy, CopiesTo, FreeFlows
<1>4. s \in Numbered(T, from, m)
  BY <1>3 DEF Numbered
<1> QED
  BY <1>3, <1>4, ReceiverFacts, FwdPidType

\* branch__forward, the whole of it, makes such a step.
LEMMA ForwardEffect ==
  ASSUME NEW T \in TablesType, NEW from \in Senders, NEW m \in Message
  PROVE  ForwardStep(T, Forward(T, from, m))
<1> DEFINE started(c, i) == StartedBy(T, from, m, c, i)
           Q == [c \in Slots |-> [i \in FlowSlots |->
                  IF started(c, i) = {} THEN T.q2[c][i]
                  ELSE [state |-> "OUT_PUBLISH_SENT",
                        pid   |-> FwdPid(T, from, m, Lowest(started(c, i)))]]]
           numbered == Numbered(T, from, m)
           N == IF numbered = {} THEN T.next_pid
                ELSE PidAfter(T.next_pid, Cardinality(numbered))
           E == [c \in Slots |-> T.emit[c] \o CopiesSent(T, from, m, c)]
           G == [T EXCEPT !.q2 = Q, !.next_pid = N, !.emit = E]
<1>1. Q \in [Slots -> [FlowSlots -> Flow]]
  <2>1. ASSUME NEW c \in Slots, NEW i \in FlowSlots PROVE Q[c][i] \in Flow
    <3>1. CASE started(c, i) = {}
      BY <3>1 DEF TablesType
    <3>2. CASE started(c, i) # {}
      BY <3>2, StartedFlow DEF Flow, OutStates
    <3> QED
      BY <3>1, <3>2
  <2> QED
    BY <2>1
<1>2. N \in Pids
  <2>1. numbered \subseteq SubSlots
    BY DEF Numbered, Receivers
  <2>2. IsFiniteSet(numbered) /\ Cardinality(numbered) \in Nat
    BY <2>1, TablesFinite
  <2>3. numbered # {} => Cardinality(numbered) \in Nat \ {0}
    BY <2>2, FS_EmptySet
  <2> QED
    BY <2>3, PidAfterType DEF TablesType
<1>3. E \in [Slots -> Seq(Outbound)]
  <2>1. ASSUME NEW c \in Slots PROVE T.emit[c] \o CopiesSent(T, from, m, c) \in Seq(Outbound)
    <3>1. T.emit[c] \in Seq(Outbound)
      BY DEF TablesType
    <3>2. CopiesSent(T, from, m, c) \in Seq(Outbound)
      BY CopiesSentType
    <3> QED
      BY <3>1, <3>2
  <2> QED
    BY <2>1
<1>4. G \in TablesType
  BY <1>1, <1>2, <1>3 DEF TablesType
<1>5. /\ G.state = T.state /\ G.session = T.session /\ G.subs = T.subs
      /\ G.accepted = T.accepted /\ G.retained = T.retained /\ G.q2 = Q /\ G.emit = E
  BY DEF TablesType
<1>6. Forward(T, from, m) = Retain(G, m)
  BY DEF Forward
<1> DEFINE F == Retain(G, m)
<1>7. F \in TablesType /\ F = [G EXCEPT !.retained = F.retained]
      /\ (RetainedOK(G) => RetainedOK(F))
  BY <1>4, RetainEffect
<1> HIDE DEF Q, N, E, G, F
<1>8. /\ F.state = T.state /\ F.session = T.session /\ F.subs = T.subs
      /\ F.accepted = T.accepted /\ F.q2 = Q /\ F.emit = E
  BY <1>4, <1>5, <1>7 DEF TablesType
<1>9. RetainedOK(T) => RetainedOK(F)
  BY <1>5, <1>7 DEF RetainedOK
<1>10. FlowsMayStart(T, F)
  <2> SUFFICES ASSUME NEW c \in Slots, NEW i \in FlowSlots, started(c, i) # {}
               PROVE  /\ T.state[c] # "DISCONNECTED" /\ T.q2[c][i].state = "FREE"
                      /\ Q[c][i].state = "OUT_PUBLISH_SENT" /\ Q[c][i].pid # 0
    BY <1>8 DEF FlowsMayStart, Q
  <2> QED
    BY StartedFlow DEF Q
<1>11. ASSUME NEW c \in Slots, T.state[c] = "DISCONNECTED" PROVE F.emit[c] = T.emit[c]
  <2>1. F.emit[c] = T.emit[c] \o <<>>
    BY <1>8, <1>11, CopiesSentType DEF E
  <2> QED
    BY <2>1 DEF TablesType
<1> QED
  BY <1>6, <1>7, <1>8, <1>9, <1>10, <1>11 DEF ForwardStep, F

---------------------------------------------------------------------------
(***************************************************************************)
(* The invariants as they hold of the tables inside a handler: each of     *)
(* them is what the invariant of the same name says of the variables.      *)
(***************************************************************************)
HeldOK(T) ==
  \A c \in Slots : \A s \in T.session[c].held : T.subs[s] # None /\ T.subs[s].owner = c

Lasting(T, s) == T.subs[s] # None /\ T.subs[s].listed

ListedOK(T) ==
  \A s \in SubSlots : Lasting(T, s) => s \in T.session[T.subs[s].owner].held

InboundOK(T) ==
  \A c \in Slots : \A i, j \in FlowSlots :
    /\ T.q2[c][i].state \in InStates /\ T.q2[c][j].state \in InStates
    /\ T.q2[c][i].pid = T.q2[c][j].pid
    => i = j

PidsOK(T) ==
  \A c \in Slots : \A i \in FlowSlots :
    T.q2[c][i].state \in OutStates => T.q2[c][i].pid # 0

CleanOK(T) ==
  \A c \in Slots : T.state[c] = "DISCONNECTED" =>
    T.session[c] = NoSession /\ T.q2[c] = NoFlows /\ T.emit[c] = <<>> /\ c \notin T.accepted

Good(T) ==
  /\ T \in TablesType
  /\ HeldOK(T) /\ RetainedOK(T) /\ InboundOK(T) /\ PidsOK(T) /\ CleanOK(T)
  /\ ListedOK(T)

\* Starting flows breaks none of the invariants about flows.
LEMMA StartGood ==
  ASSUME NEW T \in TablesType, NEW F \in TablesType, FlowsMayStart(T, F)
  PROVE  /\ InboundOK(T) => InboundOK(F)
         /\ PidsOK(T) => PidsOK(F)
         /\ \A c \in Slots : T.state[c] = "DISCONNECTED" => F.q2[c] = T.q2[c]
<1>1. ASSUME InboundOK(T) PROVE InboundOK(F)
  <2>1. \A c \in Slots : \A i \in FlowSlots :
          F.q2[c][i].state \in InStates => F.q2[c][i] = T.q2[c][i]
    BY DEF FlowsMayStart, InStates
  <2> QED
    BY <1>1, <2>1 DEF InboundOK
<1>2. ASSUME PidsOK(T) PROVE PidsOK(F)
  BY <1>2 DEF PidsOK, FlowsMayStart
<1>3. ASSUME NEW c \in Slots, T.state[c] = "DISCONNECTED" PROVE F.q2[c] = T.q2[c]
  <2>1. \A i \in FlowSlots : F.q2[c][i] = T.q2[c][i]
    BY <1>3 DEF FlowsMayStart
  <2> QED
    BY <2>1 DEF TablesType
<1> QED
  BY <1>1, <1>2, <1>3

\* Forwarding a message preserves the invariants.
LEMMA ForwardGood ==
  ASSUME NEW T, Good(T), NEW from \in Senders, NEW m \in Message
  PROVE  Good(Forward(T, from, m))
<1> DEFINE F == Forward(T, from, m)
<1>1. ForwardStep(T, F)
  BY ForwardEffect DEF Good
<1> HIDE DEF F
<1>2. InboundOK(F) /\ PidsOK(F) /\ RetainedOK(F)
  BY <1>1, StartGood DEF Good, ForwardStep
<1>3. HeldOK(F) /\ ListedOK(F)
  BY <1>1 DEF Good, ForwardStep, HeldOK, ListedOK, Lasting
<1>4. CleanOK(F)
  BY <1>1, StartGood DEF Good, ForwardStep, CleanOK
<1> QED
  BY <1>1, <1>2, <1>3, <1>4 DEF Good, ForwardStep, F

\* Queueing a packet for an open slot preserves them.
LEMMA QueueGood ==
  ASSUME NEW T, Good(T), NEW c \in Slots, T.state[c] # "DISCONNECTED", NEW p \in Outbound
  PROVE  Good(Queue(T, c, p)) /\ Queue(T, c, p).state = T.state
<1> DEFINE F == Queue(T, c, p)
<1>1. F \in TablesType /\ F = [T EXCEPT !.emit = [T.emit EXCEPT ![c] = Append(T.emit[c], p)]]
  BY QueueEffect DEF Good
<1> HIDE DEF F
<1>2. /\ F.state = T.state /\ F.session = T.session /\ F.q2 = T.q2 /\ F.subs = T.subs
      /\ F.retained = T.retained /\ F.accepted = T.accepted
      /\ \A d \in Slots : d # c => F.emit[d] = T.emit[d]
  BY <1>1 DEF Good, TablesType
<1> QED
  BY <1>1, <1>2 DEF Good, HeldOK, RetainedOK, InboundOK, PidsOK, CleanOK, ListedOK, Lasting, F

\* Replacing what CONNECT leaves in an open slot, but not its subscriptions.
LEMMA SessionGood ==
  ASSUME NEW T, Good(T), NEW c \in Slots, T.state[c] # "DISCONNECTED",
         NEW new \in Session, new.held = T.session[c].held
  PROVE  /\ Good([T EXCEPT !.session = [T.session EXCEPT ![c] = new]])
         /\ [T EXCEPT !.session = [T.session EXCEPT ![c] = new]].state = T.state
<1> DEFINE F == [T EXCEPT !.session = [T.session EXCEPT ![c] = new]]
<1>1. [T.session EXCEPT ![c] = new] \in [Slots -> Session]
  BY DEF Good, TablesType
<1>2. F \in TablesType
  BY <1>1 DEF Good, TablesType
<1>3. /\ F.state = T.state /\ F.q2 = T.q2 /\ F.subs = T.subs /\ F.emit = T.emit
      /\ F.retained = T.retained /\ F.accepted = T.accepted
      /\ F.session = [T.session EXCEPT ![c] = new]
  BY DEF Good, TablesType
<1> HIDE DEF F
<1>4. \A d \in Slots : /\ F.session[d].held = T.session[d].held
                       /\ d # c => F.session[d] = T.session[d]
  BY <1>3 DEF Good, TablesType
<1>5. HeldOK(F) /\ RetainedOK(F) /\ InboundOK(F) /\ PidsOK(F)
  BY <1>3, <1>4 DEF Good, HeldOK, RetainedOK, InboundOK, PidsOK
<1>6. CleanOK(F)
  BY <1>3, <1>4 DEF Good, CleanOK
<1>7. ListedOK(F)
  BY <1>2, <1>3, <1>4 DEF Good, ListedOK, Lasting, TablesType, Sub
<1>8. F.state = T.state
  BY <1>3
<1> QED
  BY <1>2, <1>5, <1>6, <1>7, <1>8 DEF Good, F

\* Replacing one flow of an open slot.
LEMMA FlowGood ==
  ASSUME NEW T, Good(T), NEW c \in Slots, T.state[c] # "DISCONNECTED",
         NEW i \in FlowSlots, NEW new \in Flow,
         new.state \in OutStates => new.pid # 0,
         new.state \in InStates =>
           \A j \in FlowSlots : T.q2[c][j].state \in InStates => T.q2[c][j].pid # new.pid
  PROVE  /\ Good([T EXCEPT !.q2 = [T.q2 EXCEPT ![c] = [T.q2[c] EXCEPT ![i] = new]]])
         /\ [T EXCEPT !.q2 = [T.q2 EXCEPT ![c] = [T.q2[c] EXCEPT ![i] = new]]].state = T.state
<1> DEFINE Q == [T.q2 EXCEPT ![c] = [T.q2[c] EXCEPT ![i] = new]]
           F == [T EXCEPT !.q2 = Q]
<1>1. Q \in [Slots -> [FlowSlots -> Flow]]
  BY DEF Good, TablesType
<1>2. \A d \in Slots : \A j \in FlowSlots :
        Q[d][j] = IF d = c /\ j = i THEN new ELSE T.q2[d][j]
  BY DEF Good, TablesType
<1>3. \A d \in Slots : d # c => Q[d] = T.q2[d]
  BY DEF Good, TablesType
<1> HIDE DEF Q
<1>4. F \in TablesType
  BY <1>1 DEF Good, TablesType
<1>5. /\ F.state = T.state /\ F.session = T.session /\ F.subs = T.subs /\ F.emit = T.emit
      /\ F.retained = T.retained /\ F.accepted = T.accepted /\ F.q2 = Q
  BY DEF Good, TablesType
<1> HIDE DEF F
<1>6. HeldOK(F) /\ RetainedOK(F) /\ ListedOK(F)
  BY <1>5 DEF Good, HeldOK, RetainedOK, ListedOK, Lasting
<1>7. InboundOK(F)
  <2> SUFFICES ASSUME NEW d \in Slots, NEW j \in FlowSlots, NEW k \in FlowSlots,
                      Q[d][j].state \in InStates, Q[d][k].state \in InStates,
                      Q[d][j].pid = Q[d][k].pid
               PROVE  j = k
    BY <1>5 DEF InboundOK
  <2>1. CASE d = c /\ j = i
    BY <1>2, <2>1
  <2>2. CASE d = c /\ k = i
    BY <1>2, <2>2
  <2>3. CASE ~(d = c /\ j = i) /\ ~(d = c /\ k = i)
    BY <1>2, <2>3 DEF Good, InboundOK
  <2> QED
    BY <2>1, <2>2, <2>3
<1>8. PidsOK(F)
  BY <1>2, <1>5 DEF Good, PidsOK
<1>9. CleanOK(F)
  BY <1>3, <1>5 DEF Good, CleanOK
<1> QED
  BY <1>4, <1>5, <1>6, <1>7, <1>8, <1>9 DEF Good, F, Q

\* Closing a client: its subscriptions go, everybody else's stay.
LEMMA CloseGood ==
  ASSUME NEW T, Good(T), NEW c \in Slots, c \notin T.accepted
  PROVE  /\ Good(Close(T, c)) /\ Close(T, c).accepted = T.accepted
         /\ \A d \in Slots : d # c => /\ Close(T, c).state[d] = T.state[d]
                                      /\ Close(T, c).session[d] = T.session[d]
<1> DEFINE W == IF T.session[c].will = None THEN T
                ELSE Forward(T, Api, T.session[c].will)
           S == [s \in SubSlots |-> IF s \in W.session[c].held THEN None ELSE W.subs[s]]
           C == Close(T, c)
<1>1. Good(W) /\ W.state = T.state /\ W.session = T.session /\ W.subs = T.subs
      /\ W.accepted = T.accepted
  <2>1. CASE T.session[c].will = None
    BY <2>1
  <2>2. CASE T.session[c].will # None
    <3>1. T.session[c].will \in Message /\ Api \in Senders
      BY <2>2 DEF Good, TablesType, Session, Senders
    <3>2. ForwardStep(T, Forward(T, Api, T.session[c].will))
      BY <3>1, ForwardEffect DEF Good
    <3>3. Good(Forward(T, Api, T.session[c].will))
      BY <3>1, ForwardGood
    <3> QED
      BY <2>2, <3>2, <3>3 DEF ForwardStep
  <2> QED
    BY <2>1, <2>2
<1>2. C = [W EXCEPT !.subs = S,
                    !.session = [W.session EXCEPT ![c] = NoSession],
                    !.q2 = [W.q2 EXCEPT ![c] = NoFlows],
                    !.state = [W.state EXCEPT ![c] = "DISCONNECTED"],
                    !.emit = [W.emit EXCEPT ![c] = <<>>]]
  <2> HIDE DEF W
  <2>1. FreeSubs(W, c) = [W EXCEPT !.subs = S]
    BY <1>1 DEF FreeSubs, Good, TablesType
  <2>2. W \in TablesType
    BY <1>1 DEF Good
  <2> QED
    BY ZenonT(60), <2>1, <2>2 DEF Close, TablesType, W
<1> HIDE DEF W, C
<1>3. /\ S \in [SubSlots -> Sub \cup {None}]
      /\ [W.session EXCEPT ![c] = NoSession] \in [Slots -> Session]
      /\ [W.q2 EXCEPT ![c] = NoFlows] \in [Slots -> [FlowSlots -> Flow]]
      /\ [W.state EXCEPT ![c] = "DISCONNECTED"] \in [Slots -> States]
      /\ [W.emit EXCEPT ![c] = <<>>] \in [Slots -> Seq(Outbound)]
  <2>1. NoSession \in Session
    BY NoIdAssumption DEF NoSession, Session
  <2>2. NoFlows \in [FlowSlots -> Flow]
    BY PidMaxAssumption DEF NoFlows, Flow, Pids
  <2>3. S \in [SubSlots -> Sub \cup {None}]
    BY <1>1 DEF Good, TablesType
  <2>4. <<>> \in Seq(Outbound)
    OBVIOUS
  <2> QED
    BY <1>1, <2>1, <2>2, <2>3, <2>4 DEF Good, TablesType, States
<1>4. C \in TablesType
  BY <1>1, <1>2, <1>3 DEF Good, TablesType
<1>5. /\ C.subs = S /\ C.retained = W.retained /\ C.accepted = W.accepted
      /\ C.session = [W.session EXCEPT ![c] = NoSession]
      /\ C.q2 = [W.q2 EXCEPT ![c] = NoFlows]
      /\ C.state = [W.state EXCEPT ![c] = "DISCONNECTED"]
      /\ C.emit = [W.emit EXCEPT ![c] = <<>>]
  BY <1>1, <1>2 DEF Good, TablesType
<1>6. /\ C.session[c] = NoSession /\ C.q2[c] = NoFlows /\ C.emit[c] = <<>>
      /\ \A d \in Slots : d # c => /\ C.session[d] = T.session[d] /\ C.q2[d] = W.q2[d]
                                   /\ C.emit[d] = W.emit[d] /\ C.state[d] = T.state[d]
  BY <1>1, <1>5 DEF Good, TablesType
<1>7. HeldOK(C)
  <2> SUFFICES ASSUME NEW d \in Slots, NEW s \in C.session[d].held
               PROVE  C.subs[s] # None /\ C.subs[s].owner = d
    BY DEF HeldOK
  <2>1. d # c /\ s \in T.session[d].held /\ s \in SubSlots
    BY <1>6 DEF NoSession, Good, TablesType, Session
  <2>2. T.subs[s] # None /\ T.subs[s].owner = d
    BY <2>1 DEF Good, HeldOK
  <2>3. s \notin T.session[c].held
    BY <2>1, <2>2 DEF Good, HeldOK
  <2> QED
    BY <1>1, <1>5, <2>1, <2>2, <2>3
<1>8. RetainedOK(C)
  BY <1>1, <1>5 DEF Good, RetainedOK
<1>9. InboundOK(C) /\ PidsOK(C)
  <2>1. \A i \in FlowSlots : C.q2[c][i].state = "FREE"
    BY <1>6 DEF NoFlows
  <2>2. InboundOK(C)
    BY <1>1, <1>6, <2>1 DEF Good, InboundOK, InStates
  <2>3. PidsOK(C)
    BY <1>1, <1>6, <2>1 DEF Good, PidsOK, OutStates
  <2> QED
    BY <2>2, <2>3
<1>10. CleanOK(C)
  BY <1>1, <1>5, <1>6 DEF Good, CleanOK
<1>11. ASSUME NEW s \in SubSlots, Lasting(C, s)
       PROVE  s \in C.session[C.subs[s].owner].held
  <2>1. s \notin T.session[c].held /\ C.subs[s] = T.subs[s] /\ Lasting(T, s)
    BY <1>1, <1>5, <1>11 DEF Lasting
  <2>2. s \in T.session[T.subs[s].owner].held
    BY <1>11, <2>1 DEF Good, ListedOK
  <2>3. T.subs[s].owner \in Slots
    BY <2>1 DEF Lasting, Good, TablesType, Sub
  <2> QED
    BY <1>6, <2>1, <2>2, <2>3
<1> QED
  BY <1>1, <1>4, <1>5, <1>6, <1>7, <1>8, <1>9, <1>10, <1>11 DEF Good, ListedOK, C

---------------------------------------------------------------------------
(***************************************************************************)
(* The handlers.                                                           *)
(***************************************************************************)

\* The fields of a CONNECT packet, and that its answer is a CONNACK.
LEMMA ConnectFields ==
  ASSUME NEW p \in Inbound, p.type = "CONNECT"
  PROVE  /\ p.id \in ClientIds /\ p.will \in Message \cup {None} /\ p.ka \in BOOLEAN
         /\ p.clean \in BOOLEAN /\ Connack(ConnackCode(p)) \in Outbound
<1>1. /\ p.id \in ClientIds /\ p.will \in Message \cup {None} /\ p.ka \in BOOLEAN
      /\ p.clean \in BOOLEAN
  BY DEF Inbound, AckKinds
<1>2. ConnackCode(p) \in {0, 1, 2, 4}
  BY DEF ConnackCode
<1> QED
  BY <1>1, <1>2 DEF Connack, Outbound

\* Storing identifier and will.
LEMMA IdentifyGood ==
  ASSUME NEW T, Good(T), NEW c \in Slots, T.state[c] # "DISCONNECTED",
         NEW p \in Inbound, p.type = "CONNECT"
  PROVE  /\ Good(Identify(T, c, p)) /\ Identify(T, c, p).state = T.state
         /\ Identify(T, c, p).accepted = T.accepted
<1> DEFINE will == IF p.will = None THEN T.session[c].will ELSE p.will
           new  == [T.session[c] EXCEPT !.id = p.id, !.will = will]
           W    == [T EXCEPT !.session = [T.session EXCEPT ![c] = new]]
<1>1. T.session[c] \in Session
  BY DEF Good, TablesType
<1>2. will \in Message \cup {None}
  BY <1>1, ConnectFields DEF Session
<1>3. new \in Session /\ new.held = T.session[c].held
  <2> HIDE DEF will
  <2> QED
    BY <1>1, <1>2, ConnectFields DEF Session
<1>4. Identify(T, c, p) = W
  BY <1>1 DEF Identify, Good, TablesType, Session
<1>5. W.accepted = T.accepted
  BY DEF Good, TablesType
<1> HIDE DEF new
<1> QED
  BY <1>3, <1>4, <1>5, SessionGood

\* Evicting the older session: it is never the slot of the new one that is closed.
LEMMA EvictGood ==
  ASSUME NEW T, Good(T), T.accepted = {}, NEW c \in Slots, T.state[c] # "DISCONNECTED",
         NEW p, T.session[c].id = p.id
  PROVE  /\ Good(Evict(T, c, p)) /\ Evict(T, c, p).accepted = {}
         /\ Evict(T, c, p).state[c] = T.state[c]
<1> DEFINE old == Lowest(SlotsWithId(T, p.id))
<1>1. c \in SlotsWithId(T, p.id)
  BY DEF SlotsWithId
<1>2. old \in Slots
  BY <1>1, LowestIndex DEF SlotsWithId
<1>3. CASE p.clean /\ old # c
  <2>1. Evict(T, c, p) = Close(T, old)
    BY <1>3 DEF Evict
  <2> QED
    BY <1>2, <1>3, <2>1, CloseGood
<1>4. CASE ~(p.clean /\ old # c)
  BY <1>4 DEF Evict
<1> QED
  BY <1>3, <1>4

\* Storing what precedes the CONNACK.
LEMMA AnswerGood ==
  ASSUME NEW T, Good(T), NEW c \in Slots, T.state[c] # "DISCONNECTED",
         NEW p \in Inbound, p.type = "CONNECT", NEW rc
  PROVE  Good(Answer(T, c, p, rc)) /\ Answer(T, c, p, rc).state = T.state
<1> DEFINE on  == T.session[c].connected \/ rc = 0
           new == [T.session[c] EXCEPT !.ka = p.ka, !.clean = p.clean, !.connected = on]
           X   == [T EXCEPT !.session = [T.session EXCEPT ![c] = new]]
           A   == IF rc = 0 THEN {c} ELSE {}
           G   == [X EXCEPT !.accepted = A]
<1>1. T.session[c] \in Session
  BY DEF Good, TablesType
<1>2. on \in BOOLEAN
  OBVIOUS
<1>3. new \in Session /\ new.held = T.session[c].held
  <2> HIDE DEF on
  <2> QED
    BY <1>1, <1>2, ConnectFields DEF Session
<1>4. Answer(T, c, p, rc) = G
  <2> DEFINE step == [T.session EXCEPT ![c].ka = p.ka, ![c].clean = p.clean, ![c].connected = on]
  <2>1. T \in TablesType
    BY DEF Good
  <2> HIDE DEF A
  <2>2. Answer(T, c, p, rc) = [T EXCEPT !.session[c].ka = p.ka, !.session[c].clean = p.clean,
                                       !.session[c].connected = on, !.accepted = A]
    BY Zenon DEF Answer, A
  <2> HIDE DEF on
  <2>3. step = [T.session EXCEPT ![c] = new]
    BY <1>1, <2>1 DEF TablesType, Session
  <2>4. Answer(T, c, p, rc) = [T EXCEPT !.session = step, !.accepted = A]
    BY <2>1, <2>2 DEF TablesType
  <2> QED
    BY <2>1, <2>3, <2>4 DEF TablesType
<1> HIDE DEF new
<1>5. Good(X) /\ X.state = T.state
  BY <1>3, SessionGood
<1> HIDE DEF X
<1>6. G \in TablesType /\ G.accepted = A /\ G.state = X.state /\ G.session = X.session
      /\ G.q2 = X.q2 /\ G.subs = X.subs /\ G.retained = X.retained /\ G.emit = X.emit
  BY <1>5 DEF Good, TablesType
<1> HIDE DEF G
<1>7. HeldOK(G) /\ RetainedOK(G) /\ InboundOK(G) /\ PidsOK(G)
  BY <1>5, <1>6 DEF Good, HeldOK, RetainedOK, InboundOK, PidsOK
<1>8. CleanOK(G)
  BY <1>5, <1>6 DEF Good, CleanOK
<1>9. ListedOK(G)
  BY <1>5, <1>6 DEF Good, ListedOK, Lasting
<1> QED
  BY <1>4, <1>5, <1>6, <1>7, <1>8, <1>9 DEF Good

\* The handler of CONNECT preserves the invariants, on each of its ways out.
LEMMA ConnectGood ==
  ASSUME NEW T, Good(T), T.accepted = {}, NEW c \in Slots, T.state[c] # "DISCONNECTED",
         NEW p \in Inbound, p.type = "CONNECT"
  PROVE  Good(OnConnect(T, c, p))
<1> DEFINE W  == Identify(T, c, p)
           rc == ConnackCode(p)
           E  == IF rc = 0 THEN Evict(W, c, p) ELSE W
<1>1. Good(W) /\ W.state = T.state /\ W.accepted = {}
  BY IdentifyGood
<1>2. W.session[c].id = p.id
  BY DEF Identify, Good, TablesType, Session
<1> HIDE DEF W, rc
<1>3. Good(E) /\ E.state[c] # "DISCONNECTED"
  BY <1>1, <1>2, EvictGood
<1> HIDE DEF E
<1>4. Good(Answer(E, c, p, rc)) /\ Answer(E, c, p, rc).state[c] # "DISCONNECTED"
  BY <1>3, AnswerGood
<1>5. Good(Queue(Answer(E, c, p, rc), c, Connack(rc)))
  BY <1>4, ConnectFields, QueueGood DEF rc
<1>6. Good(Close(W, c))
  BY <1>1, CloseGood
<1> QED
  BY <1>5, <1>6 DEF OnConnect, W, E, rc

\* The handler of PUBLISH: a flow is recorded only for a packet identifier that no
\* incoming flow of this client has.
LEMMA PublishGood ==
  ASSUME NEW T, Good(T), NEW c \in Slots, T.state[c] # "DISCONNECTED",
         NEW p \in Inbound, p.type = "PUBLISH"
  PROVE  Good(OnPublish(T, c, p))
<1> DEFINE free == FreeFlows(T, c)
           new  == [state |-> "IN_PUBREC_SENT", pid |-> p.pid]
           i    == Lowest(free)
           R    == IF p.msg.qos = 2 /\ ~Known(T, c, p.pid) /\ free # {}
                   THEN [T EXCEPT !.q2[c][i] = new] ELSE T
           A    == CASE p.msg.qos = 1 -> Queue(R, c, Ack("PUBACK", p.pid))
                     [] p.msg.qos = 2 -> Queue(R, c, Ack("PUBREC", p.pid))
                     [] OTHER         -> R
<1>1. p.msg \in Message /\ p.pid \in Pids
  BY DEF Inbound, AckKinds
<1>2. Good(R) /\ R.state = T.state
  <2>1. CASE p.msg.qos = 2 /\ ~Known(T, c, p.pid) /\ free # {}
    <3>1. i \in FlowSlots
      BY <2>1, LowestIndex DEF FreeFlows
    <3>2. new \in Flow /\ new.state \notin OutStates
      BY <1>1 DEF Flow, InStates, OutStates
    <3>3. \A j \in FlowSlots : T.q2[c][j].state \in InStates => T.q2[c][j].pid # new.pid
      BY <2>1 DEF Known, FlowsOf
    <3>4. R = [T EXCEPT !.q2 = [T.q2 EXCEPT ![c] = [T.q2[c] EXCEPT ![i] = new]]]
      BY <2>1 DEF Good, TablesType
    <3> HIDE DEF new, i, R
    <3> QED
      BY <3>1, <3>2, <3>3, <3>4, FlowGood
  <2>2. CASE ~(p.msg.qos = 2 /\ ~Known(T, c, p.pid) /\ free # {})
    BY <2>2
  <2> QED
    BY <2>1, <2>2
<1> HIDE DEF R
<1>3. Ack("PUBACK", p.pid) \in Outbound /\ Ack("PUBREC", p.pid) \in Outbound
  BY <1>1 DEF Ack, Outbound, AckKinds
<1>4. Good(A)
  BY <1>2, <1>3, QueueGood
<1> HIDE DEF A
<1>5. Good(Forward(A, c, p.msg))
  BY <1>1, <1>4, ForwardGood DEF Senders
<1> QED
  BY <1>5 DEF OnPublish, A, R

\* Ending a flow.
LEMMA EndFlowGood ==
  ASSUME NEW T, Good(T), NEW c \in Slots, T.state[c] # "DISCONNECTED",
         NEW flows \in SUBSET FlowSlots
  PROVE  Good(EndFlow(T, c, flows)) /\ EndFlow(T, c, flows).state = T.state
<1>1. CASE flows = {}
  BY <1>1 DEF EndFlow
<1>2. CASE flows # {}
  <2> DEFINE new == [state |-> "FREE", pid |-> 0]
             i   == Lowest(flows)
  <2>1. i \in FlowSlots
    BY <1>2, LowestIndex
  <2>2. new \in Flow /\ new.state \notin InStates /\ new.state \notin OutStates
    BY PidMaxAssumption DEF Flow, Pids, InStates, OutStates
  <2>3. EndFlow(T, c, flows) = [T EXCEPT !.q2 = [T.q2 EXCEPT ![c] = [T.q2[c] EXCEPT ![i] = new]]]
    BY <1>2 DEF EndFlow, Good, TablesType
  <2> HIDE DEF new, i
  <2> QED
    BY <2>1, <2>2, <2>3, FlowGood
<1> QED
  BY <1>1, <1>2

\* The handlers of the four acknowledgements.
LEMMA AckGood ==
  ASSUME NEW T, Good(T), NEW c \in Slots, T.state[c] # "DISCONNECTED",
         NEW p \in Inbound, p.type \in AckKinds
  PROVE  /\ Good(OnPuback(T, c, p)) /\ Good(OnPubrec(T, c, p))
         /\ Good(OnPubrel(T, c, p)) /\ Good(OnPubcomp(T, c, p))
<1>1. p.pid \in Pids
  BY DEF Inbound, AckKinds
<1>2. \A states : FlowsOf(T, c, p.pid, states) \in SUBSET FlowSlots
  BY DEF FlowsOf
<1>3. Good(OnPuback(T, c, p)) /\ Good(OnPubcomp(T, c, p))
  BY <1>2, EndFlowGood DEF OnPuback, OnPubcomp
<1>4. Good(OnPubrel(T, c, p))
  <2>1. Ack("PUBCOMP", p.pid) \in Outbound
    BY <1>1 DEF Ack, Outbound, AckKinds
  <2> QED
    BY <1>2, <2>1, EndFlowGood, QueueGood DEF OnPubrel
<1>5. Good(OnPubrec(T, c, p))
  <2> DEFINE flows == FlowsOf(T, c, p.pid, {"OUT_PUBLISH_SENT"})
             i     == Lowest(flows)
             new   == [T.q2[c][i] EXCEPT !.state = "OUT_PUBREL_SENT"]
             R     == [T EXCEPT !.q2 = [T.q2 EXCEPT ![c] = [T.q2[c] EXCEPT ![i] = new]]]
  <2>1. CASE flows = {}
    BY <2>1 DEF OnPubrec
  <2>2. CASE flows # {}
    <3>1. i \in flows /\ i \in FlowSlots
      BY <2>2, <1>2, LowestIndex
    <3>2. T.q2[c][i] \in Flow /\ T.q2[c][i].state = "OUT_PUBLISH_SENT"
      BY <3>1 DEF FlowsOf, Good, TablesType
    <3>3. T.q2[c][i].pid # 0
      BY <3>1, <3>2 DEF Good, PidsOK, OutStates
    <3>4. new \in Flow /\ new.state \notin InStates /\ new.pid # 0
      BY <3>2, <3>3 DEF Flow, InStates, OutStates
    <3>5. [T EXCEPT !.q2[c][Lowest(flows)].state = "OUT_PUBREL_SENT"] = R
      BY <3>1 DEF Good, TablesType, Flow
    <3>6. Ack("PUBREL", p.pid) \in Outbound
      BY <1>1 DEF Ack, Outbound, AckKinds
    <3> HIDE DEF new, i, R
    <3>7. Good(R) /\ R.state = T.state
      BY <3>1, <3>4, FlowGood DEF R
    <3> QED
      BY <2>2, <3>5, <3>6, <3>7, QueueGood DEF OnPubrec
  <2> QED
    BY <2>1, <2>2
<1> QED
  BY <1>3, <1>4, <1>5

\* The retained messages sent to a new subscription are PUBLISH packets.
LEMMA RetainedForType ==
  ASSUME NEW T \in TablesType, NEW n \in Nat, NEW filters, Len(filters) = n
  PROVE  RetainedFor(T, filters) \in Seq(Outbound)
<1> DEFINE Entry(x) == T.retained[x % MaxRetained]
           hit == {x \in 0 .. Len(filters) * MaxRetained - 1 :
                     /\ Entry(x) # None
                     /\ <<filters[x \div MaxRetained + 1], Entry(x).topic>> \in Matching}
           Stored(r) == [topic |-> r.topic, payload |-> r.payload, qos |-> r.qos, retain |-> TRUE]
           last == n * MaxRetained - 1
<1>1. last \in Int
  BY SizesAssumption
<1>2. hit \subseteq 0 .. last
  OBVIOUS
<1>3. IsFiniteSet(hit) /\ hit \subseteq Int /\ Cardinality(hit) \in Nat
  <2> HIDE DEF hit, last
  <2>1. IsFiniteSet(0 .. last)
    BY <1>1, 0 \in Int, FS_Interval
  <2>2. IsFiniteSet(hit)
    BY <1>2, <2>1, FS_Subset
  <2> QED
    BY <1>2, <2>2, FS_CardinalityType
<1>4. ASSUME NEW x \in hit PROVE Publish(Stored(Entry(x)), 0) \in Outbound
  <2>1. x \in Nat /\ 0 <= last
    BY <1>1, <1>2
  <2>2. MaxRetained # 0
    BY <2>1
  <2>3. x % MaxRetained \in RetSlots
    BY <2>1, <2>2, SizesAssumption DEF RetSlots
  <2>4. Entry(x) \in Retained
    BY <2>3 DEF TablesType
  <2>5. Stored(Entry(x)) \in Message
    BY <2>4 DEF Retained, Message
  <2> QED
    BY <2>5, PidMaxAssumption DEF Publish, Outbound, Pids
<1>5. RetainedFor(T, filters) =
        [k \in 1 .. Cardinality(hit) |-> Publish(Stored(Entry(InOrder(hit)[k])), 0)]
  BY DEF RetainedFor
<1>6. RetainedFor(T, filters) \in [1 .. Cardinality(hit) -> Outbound]
  <2> HIDE DEF hit, Entry, Stored
  <2>1. \A k \in 1 .. Cardinality(hit) : InOrder(hit)[k] \in hit
    BY <1>3, InOrderElement
  <2> QED
    BY <1>4, <1>5, <2>1
<1> QED
  BY <1>3, <1>6, ListType

\* The handler of SUBSCRIBE.  It lists what it has room for: the subscriptions that the
\* client holds already keep their place, because it grants unused ones only.
LEMMA SubscribeGood ==
  ASSUME NEW T, Good(T), NEW c \in Slots, T.state[c] # "DISCONNECTED",
         NEW p \in Inbound, p.type = "SUBSCRIBE"
  PROVE  Good(OnSubscribe(T, c, p)) /\ OnSubscribe(T, c, p).state = T.state
<1> DEFINE asked   == Min2(Len(p.topics), MaxCodes)
           free    == UnusedSubs(T)
           granted == Min2(Min2(asked, MaxPending), Cardinality(free))
           new     == {s \in free : Rank(free, s) <= granted}
           Asked(s) == p.topics[Rank(free, s)]
           held    == T.session[c].held
           Fits(s) == Cardinality(held) + Rank(free, s) <= MaxPending
           filters == [k \in 1 .. granted |-> p.topics[k].filter]
           codes   == [k \in 1 .. asked |-> IF k <= granted THEN p.topics[k].qos ELSE 128]
           S == [s \in SubSlots |->
                  IF s \in new
                  THEN [filter |-> Asked(s).filter, owner |-> c, qos |-> Asked(s).qos,
                        listed |-> Fits(s)]
                  ELSE T.subs[s]]
           listed == held \cup {s \in new : Fits(s)}
           x == [T.session[c] EXCEPT !.held = listed]
           E == [T.emit EXCEPT ![c] = T.emit[c] \o RetainedFor(T, filters)]
           X == [T EXCEPT !.session = [T.session EXCEPT ![c] = x]]
           F == [T EXCEPT !.subs = S, !.session = [T.session EXCEPT ![c] = x], !.emit = E]
<1>0. T \in TablesType
  BY DEF Good
<1>1. /\ p.pid \in Pids
      /\ p.topics \in Seq([filter : Filters, qos : QoS])
  BY DEF Inbound, AckKinds
<1>2. free \subseteq SubSlots /\ IsFiniteSet(free) /\ free \in SUBSET Int
      /\ Cardinality(free) \in Nat
  BY TablesFinite DEF UnusedSubs
<1>3. /\ asked \in Nat /\ granted \in Nat /\ granted <= asked /\ asked <= Len(p.topics)
      /\ Len(p.topics) \in Nat
  <2>1. Len(p.topics) \in Nat
    BY <1>1
  <2> HIDE DEF free
  <2> QED
    BY <1>2, <2>1, SizesAssumption DEF Min2
<1>4. ASSUME NEW s \in new PROVE Rank(free, s) \in 1 .. granted
  <2>1. Rank(free, s) \in 1 .. Cardinality(free) /\ Rank(free, s) <= granted
    BY <1>2, RankRange
  <2> HIDE DEF free, granted
  <2> QED
    BY <1>2, <1>3, <2>1
<1>5. \A k \in 1 .. asked : p.topics[k].filter \in Filters /\ p.topics[k].qos \in QoS
  <2> HIDE DEF asked
  <2>1. ASSUME NEW k \in 1 .. asked PROVE p.topics[k] \in [filter : Filters, qos : QoS]
    <3>1. k \in 1 .. Len(p.topics)
      BY <1>3
    <3> QED
      BY <1>1, <3>1, ElementType
  <2> QED
    BY <2>1
<1>6. S \in [SubSlots -> Sub \cup {None}]
  <2>1. ASSUME NEW s \in new
        PROVE  [filter |-> Asked(s).filter, owner |-> c, qos |-> Asked(s).qos,
                listed |-> Fits(s)] \in Sub
    <3>1. Rank(free, s) \in 1 .. asked
      <4> HIDE DEF free, granted, asked
      <4> QED
        BY <1>3, <1>4
    <3>2. Fits(s) \in BOOLEAN
      OBVIOUS
    <3> HIDE DEF free, asked, new, Fits
    <3> QED
      BY <1>5, <3>1, <3>2 DEF Sub
  <2> HIDE DEF new, Asked, Fits
  <2> QED
    BY <1>0, <2>1 DEF TablesType
<1>7. x \in Session /\ x.held = listed
  <2>1. T.session[c] \in Session
    BY <1>0 DEF TablesType
  <2>2. listed \in SUBSET SubSlots
    BY <1>2, <2>1 DEF Session
  <2> HIDE DEF listed
  <2> QED
    BY <2>1, <2>2 DEF Session
<1>8. E \in [Slots -> Seq(Outbound)]
  <2>1. Len(filters) = granted
    <3> HIDE DEF granted
    <3> QED
      BY <1>3
  <2>2. RetainedFor(T, filters) \in Seq(Outbound)
    <3> HIDE DEF filters, granted
    <3> QED
      BY <1>0, <1>3, <2>1, RetainedForType
  <2>3. T.emit[c] \in Seq(Outbound)
    BY <1>0 DEF TablesType
  <2>4. T.emit[c] \o RetainedFor(T, filters) \in Seq(Outbound)
    <3> HIDE DEF filters
    <3> QED
      BY <2>2, <2>3
  <2> HIDE DEF filters
  <2> QED
    BY <1>0, <2>4 DEF TablesType
<1>9. Suback(p.pid, codes) \in Outbound
  <2>1. codes \in [1 .. asked -> QoS \cup {128}]
    <3> HIDE DEF asked, granted
    <3> QED
      BY <1>5
  <2>2. codes \in Seq(QoS \cup {128})
    <3> HIDE DEF asked, codes
    <3> QED
      BY <1>3, <2>1, ListType
  <2> HIDE DEF codes
  <2> QED
    BY <1>1, <2>2 DEF Suback, Outbound
<1>10. OnSubscribe(T, c, p) = Queue(F, c, Suback(p.pid, codes))
  <2>1. F = [T EXCEPT !.subs = S, !.session[c].held = listed,
                      !.emit[c] = @ \o RetainedFor(T, filters)]
    <3> HIDE DEF S, listed, filters
    <3> QED
      BY <1>0 DEF TablesType, Session
  <2>2. [s \in SubSlots |->
           IF s \in new
           THEN [filter |-> Asked(s).filter, owner |-> c, qos |-> Asked(s).qos,
                 listed |-> Fits(s)]
           ELSE T.subs[s]] = S
    OBVIOUS
  <2> HIDE DEF F
  <2> QED
    BY <2>1, Zenon DEF OnSubscribe
<1> HIDE DEF S, x, E, codes
<1>11. F \in TablesType
  BY <1>0, <1>6, <1>7, <1>8 DEF TablesType
<1>12. /\ F.state = T.state /\ F.q2 = T.q2 /\ F.retained = T.retained
       /\ F.accepted = T.accepted /\ F.subs = S /\ F.emit = E
       /\ F.session = [T.session EXCEPT ![c] = x]
  BY <1>0 DEF TablesType
<1> HIDE DEF F
<1>13. /\ F.session[c].held = listed
       /\ \A d \in Slots : d # c => F.session[d] = T.session[d] /\ F.emit[d] = T.emit[d]
  BY <1>0, <1>7, <1>12 DEF TablesType, E
<1>14. \A s \in SubSlots : /\ s \in new => /\ S[s] # None /\ S[s].owner = c /\ T.subs[s] = None
                                             /\ S[s].listed = Fits(s)
                           /\ s \notin new => S[s] = T.subs[s]
  <2>1. ASSUME NEW s \in new
        PROVE  /\ S[s].owner = c /\ T.subs[s] = None /\ S[s] # None
               /\ S[s].listed = Fits(s)
    <3>1. s \in SubSlots /\ T.subs[s] = None
      BY DEF UnusedSubs
    <3>2. S[s] = [filter |-> Asked(s).filter, owner |-> c, qos |-> Asked(s).qos,
                  listed |-> Fits(s)]
      <4> HIDE DEF Asked, new, Fits
      <4> QED
        BY <3>1 DEF S
    <3>3. S[s] \in Sub
      <4>1. Rank(free, s) \in 1 .. asked
        <5> HIDE DEF free, granted, asked
        <5> QED
          BY <1>3, <1>4
      <4>2. Fits(s) \in BOOLEAN
        OBVIOUS
      <4> HIDE DEF free, asked, new, Fits
      <4> QED
        BY <1>5, <3>2, <4>1, <4>2 DEF Sub
    <3> HIDE DEF Asked, Fits
    <3> QED
      BY <3>1, <3>2, <3>3, NoneAssumption
  <2> HIDE DEF new, Fits
  <2> QED
    BY <2>1 DEF S
<1>15. HeldOK(F)
  <2> SUFFICES ASSUME NEW d \in Slots, NEW s \in F.session[d].held
               PROVE  S[s] # None /\ S[s].owner = d
    BY <1>12 DEF HeldOK
  <2>1. s \in T.session[d].held \/ (d = c /\ s \in new)
    <3> HIDE DEF new
    <3> QED
      BY <1>13
  <2>2. s \in SubSlots
    BY <1>11 DEF TablesType, Session
  <2> HIDE DEF new, Fits
  <2> QED
    BY <1>14, <2>1, <2>2 DEF Good, HeldOK
<1>16. ASSUME NEW s \in SubSlots, Lasting(F, s)
       PROVE  s \in F.session[S[s].owner].held
  <2>0. S[s] # None /\ S[s].listed
    BY <1>12, <1>16 DEF Lasting
  <2>1. CASE s \notin new
    <3>1. S[s] = T.subs[s]
      BY <1>14, <2>1
    <3>2. T.subs[s] \in Sub /\ T.subs[s].owner \in Slots /\ Lasting(T, s)
      BY <1>0, <2>0, <3>1 DEF TablesType, Sub, Lasting
    <3>3. s \in T.session[T.subs[s].owner].held
      BY <3>2 DEF Good, ListedOK
    <3>4. held \subseteq listed
      OBVIOUS
    <3> QED
      BY <1>13, <3>1, <3>2, <3>3, <3>4
  <2>2. CASE s \in new
    <3>1. Fits(s)
      BY <1>14, <2>0, <2>2
    <3>2. s \in listed
      BY <2>2, <3>1
    <3> QED
      BY <1>13, <1>14, <2>2, <3>2
  <2> QED
    BY <2>1, <2>2
<1>17. RetainedOK(F) /\ InboundOK(F) /\ PidsOK(F)
  BY <1>12 DEF Good, RetainedOK, InboundOK, PidsOK
<1>18. CleanOK(F)
  BY <1>12, <1>13 DEF Good, CleanOK
<1>19. Good(F)
  BY <1>11, <1>12, <1>15, <1>16, <1>17, <1>18 DEF Good, ListedOK
<1> QED
  BY <1>9, <1>10, <1>12, <1>19, QueueGood

\* The handler of UNSUBSCRIBE frees what it takes off the client's list, and the
\* lists of the others do not name it.
LEMMA UnsubscribeGood ==
  ASSUME NEW T, Good(T), NEW c \in Slots, T.state[c] # "DISCONNECTED",
         NEW p \in Inbound, p.type = "UNSUBSCRIBE"
  PROVE  Good(OnUnsubscribe(T, c, p))
<1> DEFINE gone == {s \in T.session[c].held : T.subs[s] # None /\ T.subs[s].filter \in p.filters}
           S == [s \in SubSlots |-> IF s \in gone THEN None ELSE T.subs[s]]
           x == [T.session[c] EXCEPT !.held = T.session[c].held \ gone]
           F == [T EXCEPT !.subs = S, !.session = [T.session EXCEPT ![c] = x]]
<1>0. T \in TablesType
  BY DEF Good
<1>1. Ack("UNSUBACK", p.pid) \in Outbound
  BY DEF Inbound, AckKinds, Ack, Outbound
<1>2. x \in Session /\ x.held = T.session[c].held \ gone
  <2> HIDE DEF gone
  <2> QED
    BY ZenonT(60), <1>0 DEF TablesType, Session
<1>3. S \in [SubSlots -> Sub \cup {None}]
  BY <1>0 DEF TablesType
<1>4. OnUnsubscribe(T, c, p) = Queue(F, c, Ack("UNSUBACK", p.pid))
  <2>1. F = [T EXCEPT !.subs = S, !.session[c].held = @ \ gone]
    <3> HIDE DEF S, gone
    <3> QED
      BY <1>0 DEF TablesType, Session
  <2>2. S = [s \in SubSlots |-> IF s \in gone THEN None ELSE T.subs[s]]
    OBVIOUS
  <2> HIDE DEF F
  <2> QED
    BY <1>0, <2>1 DEF OnUnsubscribe, TablesType
<1> HIDE DEF x
<1>5. F \in TablesType
  BY <1>0, <1>2, <1>3 DEF TablesType
<1>6. /\ F.state = T.state /\ F.q2 = T.q2 /\ F.retained = T.retained /\ F.emit = T.emit
      /\ F.accepted = T.accepted /\ F.subs = S
      /\ F.session = [T.session EXCEPT ![c] = x]
  BY <1>0 DEF TablesType
<1> HIDE DEF F
<1>7. /\ F.session[c].held = T.session[c].held \ gone
      /\ \A d \in Slots : d # c => F.session[d] = T.session[d]
  BY <1>0, <1>2, <1>6 DEF TablesType
<1>8. HeldOK(F)
  <2> SUFFICES ASSUME NEW d \in Slots, NEW s \in F.session[d].held
               PROVE  S[s] # None /\ S[s].owner = d
    BY <1>6 DEF HeldOK
  <2>1. s \in T.session[d].held /\ s \notin gone /\ s \in SubSlots
    <3>1. s \in T.session[d].held
      BY <1>7
    <3>2. d # c => s \notin gone
      BY <3>1 DEF Good, HeldOK
    <3> HIDE DEF gone
    <3> QED
      BY <1>5, <1>7, <3>1, <3>2 DEF TablesType, Session
  <2> HIDE DEF gone
  <2> QED
    BY <2>1 DEF Good, HeldOK
<1>9. ASSUME NEW s \in SubSlots, Lasting(F, s)
      PROVE  s \in F.session[S[s].owner].held
  <2>0. S[s] # None
    BY <1>6, <1>9 DEF Lasting
  <2>1. s \notin gone /\ S[s] = T.subs[s] /\ Lasting(T, s)
    BY <1>6, <1>9, <2>0 DEF Lasting
  <2>2. s \in T.session[T.subs[s].owner].held /\ T.subs[s].owner \in Slots
    BY <1>0, <2>1 DEF Good, ListedOK, TablesType, Sub, Lasting
  <2> HIDE DEF gone
  <2> QED
    BY <1>7, <2>1, <2>2
<1>10. RetainedOK(F) /\ InboundOK(F) /\ PidsOK(F)
  BY <1>6 DEF Good, RetainedOK, InboundOK, PidsOK
<1>11. CleanOK(F)
  BY <1>6, <1>7 DEF Good, CleanOK
<1>12. Good(F)
  BY <1>5, <1>6, <1>8, <1>9, <1>10, <1>11 DEF Good, ListedOK
<1> QED
  BY <1>1, <1>4, <1>6, <1>12, QueueGood

\* The handler of DISCONNECT drops the will and closes.
LEMMA DisconnectGood ==
  ASSUME NEW T, Good(T), T.accepted = {}, NEW c \in Slots, T.state[c] # "DISCONNECTED"
  PROVE  /\ Good(OnDisconnect(T, c))
         /\ \A d \in Slots : d # c => OnDisconnect(T, c).state[d] = T.state[d]
<1> DEFINE new == [T.session[c] EXCEPT !.will = None]
           W   == [T EXCEPT !.session = [T.session EXCEPT ![c] = new]]
<1>1. new \in Session /\ new.held = T.session[c].held
  <2>1. T.session[c] \in Session
    BY DEF Good, TablesType
  <2> QED
    BY <2>1 DEF Session
<1>2. [T EXCEPT !.session[c].will = None] = W
  BY DEF Good, TablesType, Session
<1>3. W.accepted = {} /\ W.state = T.state
  BY DEF Good, TablesType
<1> HIDE DEF new
<1>4. Good(W)
  BY <1>1, SessionGood
<1> HIDE DEF W
<1> QED
  BY <1>2, <1>3, <1>4, CloseGood DEF OnDisconnect

\* Every packet's handler preserves the invariants.
LEMMA HandleGood ==
  ASSUME NEW T, Good(T), T.accepted = {}, NEW c \in Slots, T.state[c] # "DISCONNECTED",
         NEW p \in Inbound
  PROVE  Good(Handle(T, c, p))
<1>1. CASE p.type = "CONNECT"
  BY <1>1, ConnectGood DEF Handle
<1>2. CASE p.type = "PUBLISH"
  BY <1>2, PublishGood DEF Handle
<1>3. CASE p.type \in AckKinds
  BY <1>3, AckGood DEF Handle, AckKinds
<1>4. CASE p.type = "SUBSCRIBE"
  BY <1>4, SubscribeGood DEF Handle
<1>5. CASE p.type = "UNSUBSCRIBE"
  BY <1>5, UnsubscribeGood DEF Handle
<1>6. CASE p.type = "PINGREQ"
  <2>1. Pingresp \in Outbound
    BY DEF Pingresp, Outbound
  <2> QED
    BY <1>6, <2>1, QueueGood DEF Handle
<1>7. CASE p.type = "DISCONNECT"
  BY <1>7, DisconnectGood DEF Handle
<1>8. CASE p.type = "MALFORMED"
  BY <1>8, CloseGood DEF Handle
<1> QED
  BY <1>1, <1>2, <1>3, <1>4, <1>5, <1>6, <1>7, <1>8 DEF Inbound
---------------------------------------------------------------------------
(***************************************************************************)
(* The send buffers.                                                       *)
(***************************************************************************)
Buffer == [buf : Seq(Outbound), off : Nat, round : 0 .. Rounds - 1]

BufferOK(o) ==
  /\ Len(o.buf) <= BufSize
  /\ o.off < Len(o.buf) \/ (o.buf = <<>> /\ o.off = 0)

\* A buffer that nothing waits in is sound.
LEMMA EmptyBufSound == EmptyBuf \in Buffer /\ BufferOK(EmptyBuf)
BY SizesAssumption DEF EmptyBuf, Buffer, BufferOK

\* How many packets QueueAll appends behind what is queued, lets pass through an
\* emptied buffer, and keeps in it; and how the fills are counted.
LEMMA QueueAllNumbers ==
  ASSUME NEW len \in Nat \ {0}
  PROVE  /\ \A used \in 0 .. BufSize :
              /\ Min2(len, BufSize - used) \in 0 .. len
              /\ Min2(len, BufSize - used) <= BufSize - used
              /\ used < BufSize => Min2(len, BufSize - used) >= 1
         /\ \A k \in Nat \ {0} : Min2(len, k) \in 1 .. len
         /\ \A k \in 1 .. len : /\ Min2(len, k + BufSize) \in k .. len
                               /\ Min2(len, k + BufSize) - k <= BufSize
         /\ \A k \in Nat : k % Rounds \in 0 .. Rounds - 1
<1>1. BufSize \in Nat \ {0} /\ Rounds \in Nat \ {0}
  BY SizesAssumption
<1>2. \A k \in Nat : k % Rounds \in 0 .. Rounds - 1
  BY <1>1
<1> QED
  BY <1>1, <1>2 DEF Min2

\* Queueing any number of packets, with any room in the socket, neither overruns
\* a buffer nor lets its offset reach its length.
LEMMA QueueAllSound ==
  ASSUME NEW o \in Buffer, BufferOK(o), NEW e \in Seq(Outbound), NEW room \in Nat
  PROVE  QueueAll(o, e, room) \in Buffer /\ BufferOK(QueueAll(o, e, room))
<1> DEFINE passed == Min2(Len(e), 1 + room - Offered(o))
           behind == Min2(Len(e), BufSize - Len(o.buf))
           last   == Min2(Len(e), passed + BufSize)
<1>1. /\ o.buf \in Seq(Outbound) /\ o.off \in Nat /\ o.round \in 0 .. Rounds - 1
      /\ Len(o.buf) \in Nat /\ Len(e) \in Nat /\ BufSize \in Nat \ {0} /\ Rounds \in Nat \ {0}
      /\ Len(o.buf) <= BufSize
  BY SizesAssumption DEF Buffer, BufferOK
<1>2. /\ Offered(o) \in Nat
      /\ Offered(o) = Len(o.buf) - o.off + (IF Len(o.buf) < BufSize THEN 1 ELSE 0)
      /\ Offered(o) > 0
  <2> DEFINE b == Len(o.buf)
             w == o.off
  <2>1. w < b \/ (b = 0 /\ w = 0)
    BY DEF BufferOK
  <2>2. Offered(o) = b - w + (IF b < BufSize THEN 1 ELSE 0)
    BY DEF Offered
  <2>3. b \in Nat /\ w \in Nat /\ b <= BufSize /\ BufSize \in Nat \ {0}
    BY <1>1
  <2> QED
    <3> HIDE DEF b, w
    <3>1. b - w + (IF b < BufSize THEN 1 ELSE 0) \in Nat \ {0}
      BY <2>1, <2>3
    <3> QED
      BY <2>2, <3>1 DEF b, w
<1>3. CASE e = <<>>
  BY <1>3 DEF QueueAll
<1>4. CASE e # <<>> /\ room < Offered(o)
  <2> DEFINE more == SubSeq(e, 1, behind)
             Q == [o EXCEPT !.buf = o.buf \o more, !.off = o.off + room]
  <2>1. behind \in 0 .. Len(e) /\ behind <= BufSize - Len(o.buf)
        /\ (Len(o.buf) < BufSize => behind >= 1)
    <3>1. Len(e) \in Nat \ {0} /\ Len(o.buf) \in 0 .. BufSize
      BY <1>1, <1>4, EmptySeq
    <3> QED
      BY <3>1, QueueAllNumbers
  <2> HIDE DEF behind
  <2>2. more \in Seq(Outbound) /\ Len(more) = behind
    <3>1. 1 \in 1 .. Len(e) + 1 /\ behind \in 1 - 1 .. Len(e)
      BY <1>1, <2>1
    <3>2. more \in Seq(Outbound) /\ Len(more) = behind - 1 + 1
      BY <3>1, StretchType
    <3> QED
      BY <2>1, <3>2
  <2> HIDE DEF more
  <2>3. o.buf \o more \in Seq(Outbound) /\ Len(o.buf \o more) = Len(o.buf) + behind
    BY <1>1, <2>2, ConcatProperties
  <2>4. o.off + room \in Nat /\ o.off + room < Len(o.buf) + behind
        /\ Len(o.buf) + behind <= BufSize
    BY SMTT(30), <1>1, <1>2, <1>4, <2>1
  <2>5. Q \in Buffer /\ Q.buf = o.buf \o more /\ Q.off = o.off + room
    BY <2>3, <2>4 DEF Buffer
  <2>6. QueueAll(o, e, room) = Q
    BY <1>4 DEF QueueAll, more, behind
  <2> HIDE DEF Q
  <2> QED
    BY <2>3, <2>4, <2>5, <2>6 DEF BufferOK
<1>5. CASE e # <<>> /\ room >= Offered(o)
  <2> DEFINE rest == SubSeq(e, passed + 1, last)
             Q == [buf |-> rest, off |-> 0, round |-> (o.round + passed) % Rounds]
  <2>0. Len(e) \in Nat \ {0}
    BY <1>5, EmptySeq
  <2>1. passed \in 1 .. Len(e)
    <3>1. 1 + room - Offered(o) \in Nat \ {0}
      BY <1>2, <1>5
    <3> QED
      BY <2>0, <3>1, QueueAllNumbers
  <2> HIDE DEF passed
  <2>2. last \in passed .. Len(e) /\ last - passed <= BufSize
    BY <2>0, <2>1, QueueAllNumbers
  <2> HIDE DEF last
  <2>3. rest \in Seq(Outbound) /\ Len(rest) = last - passed
    <3>1. passed + 1 \in 1 .. Len(e) + 1 /\ last \in (passed + 1) - 1 .. Len(e)
      BY <2>0, <2>1, <2>2
    <3>2. rest \in Seq(Outbound) /\ Len(rest) = last - (passed + 1) + 1
      BY <3>1, StretchType
    <3> QED
      BY <2>1, <2>2, <3>2
  <2>4. (o.round + passed) % Rounds \in 0 .. Rounds - 1
    <3>1. o.round + passed \in Nat
      BY <1>1, <2>1
    <3> QED
      BY <2>0, <3>1, QueueAllNumbers
  <2> HIDE DEF rest
  <2>5. Len(rest) \in Nat /\ Len(rest) <= BufSize /\ (Len(rest) = 0 => rest = <<>>)
    BY <2>1, <2>2, <2>3, EmptySeq
  <2>6. Q \in Buffer /\ BufferOK(Q)
    BY <2>3, <2>4, <2>5 DEF Buffer, BufferOK
  <2>7. QueueAll(o, e, room) = Q
    BY <1>5, <1>2 DEF QueueAll, rest, passed, last
  <2> QED
    BY <2>6, <2>7
<1> QED
  BY <1>2, <1>3, <1>4, <1>5

\* What Queueing holds after k packets, in closed form.
Queued(o, e, room, k) ==
  LET passed == Min2(k, 1 + room - Offered(o))
  IN  IF k = 0
      THEN [buf |-> o.buf, off |-> o.off, round |-> o.round, room |-> room]
      ELSE IF room < Offered(o)
           THEN [buf   |-> o.buf \o SubSeq(e, 1, Min2(k, BufSize - Len(o.buf))),
                 off   |-> o.off + room,
                 round |-> o.round,
                 room  |-> 0]
           ELSE [buf   |-> SubSeq(e, passed + 1, Min2(k, passed + BufSize)),
                 off   |-> 0,
                 round |-> (o.round + passed) % Rounds,
                 room  |-> (1 + room - Offered(o)) - passed]

\* A buffer of packets of any kind, and packets to queue in it.
BufferOf(S) == [buf : Seq(S), off : Nat, round : 0 .. Rounds - 1]

\* The numbers in it.
LEMMA BufferNumbers ==
  ASSUME NEW S, NEW o \in BufferOf(S), BufferOK(o)
  PROVE  /\ o.buf \in Seq(S) /\ o.off \in Nat /\ o.round \in Nat /\ Len(o.buf) \in Nat
         /\ BufSize \in Nat \ {0} /\ Rounds \in Nat \ {0}
         /\ Len(o.buf) <= BufSize
         /\ o.off < Len(o.buf) \/ (o.buf = <<>> /\ Len(o.buf) = 0 /\ o.off = 0)
         /\ Offered(o) \in Nat \ {0}
         /\ Offered(o) = Len(o.buf) - o.off + (IF Len(o.buf) < BufSize THEN 1 ELSE 0)
<1>1. /\ o.buf \in Seq(S) /\ o.off \in Nat /\ o.round \in Nat /\ Len(o.buf) \in Nat
      /\ BufSize \in Nat \ {0} /\ Rounds \in Nat \ {0}
  BY SizesAssumption DEF BufferOf
<1>2. /\ Len(o.buf) <= BufSize
      /\ o.off < Len(o.buf) \/ (o.buf = <<>> /\ Len(o.buf) = 0 /\ o.off = 0)
  BY DEF BufferOK
<1>3. Offered(o) = Len(o.buf) - o.off + (IF Len(o.buf) < BufSize THEN 1 ELSE 0)
  BY DEF Offered
<1> DEFINE n == Len(o.buf)
           w == o.off
<1>4. n \in Nat /\ w \in Nat /\ n <= BufSize /\ (w < n \/ (n = 0 /\ w = 0))
  BY <1>1, <1>2
<1> HIDE DEF n, w
<1>5. n - w + (IF n < BufSize THEN 1 ELSE 0) \in Nat \ {0}
  BY <1>1, <1>4
<1> QED
  BY <1>1, <1>2, <1>3, <1>5 DEF n, w

\* A packet that fits goes behind what is queued, one that does not is dropped, and
\* whatever the socket takes of that is short of all of it.
LEMMA QueueAndFlushBehind ==
  ASSUME NEW b, NEW p, NEW buf, NEW taken \in Nat,
         b = [buf |-> b.buf, off |-> b.off, round |-> b.round, room |-> b.room],
         buf = IF Len(b.buf) + 1 <= BufSize THEN Append(b.buf, p) ELSE b.buf,
         taken = Min2(b.room, Len(buf) - b.off),
         b.off + taken # Len(buf)
  PROVE  QueueAndFlush(b, p) = [buf |-> buf, off |-> b.off + taken,
                                round |-> b.round, room |-> b.room - taken]
<1>1. QueueAndFlush(b, p) = [b EXCEPT !.buf = buf, !.off = @ + taken, !.room = @ - taken]
  BY DEF QueueAndFlush
<1> QED
  BY <1>1

\* If it takes all, the buffer is emptied.
LEMMA QueueAndFlushEmpties ==
  ASSUME NEW b, NEW p, NEW buf, NEW taken \in Nat,
         buf = IF Len(b.buf) + 1 <= BufSize THEN Append(b.buf, p) ELSE b.buf,
         taken = Min2(b.room, Len(buf) - b.off),
         b.off + taken = Len(buf)
  PROVE  QueueAndFlush(b, p) = [buf |-> <<>>, off |-> 0,
                                round |-> (b.round + 1) % Rounds, room |-> b.room - taken]
BY DEF QueueAndFlush, NextRound

\* Appending to what stands behind a sequence.
AppendsBehind(q, r, x) == Append(q \o r, x) = q \o Append(r, x)

LEMMA AppendBehind ==
  ASSUME NEW S, NEW q \in Seq(S), NEW r \in Seq(S), NEW x \in S
  PROVE  AppendsBehind(q, r, x)
<1> DEFINE one == <<x>>
<1>1. one \in Seq(S)
  OBVIOUS
<1>2. q \o r \in Seq(S)
  BY ConcatProperties
<1>3. Append(r, x) = r \o one /\ Append(q \o r, x) = (q \o r) \o one
  BY <1>2, AppendIsConcat
<1> HIDE DEF one
<1>4. (q \o r) \o one = q \o (r \o one)
  BY <1>1, ConcatAssociative
<1> QED
  BY <1>3, <1>4 DEF AppendsBehind

\* What is queued behind a sequence, of which only so much fits.
FillsUp(S, q, e, k, free, n, m) ==
  /\ q \o SubSeq(e, 1, n) \in Seq(S) /\ Len(q \o SubSeq(e, 1, n)) = Len(q) + n
  /\ q \o SubSeq(e, 1, m) \in Seq(S) /\ Len(q \o SubSeq(e, 1, m)) = Len(q) + m
  /\ k <= free => Append(q \o SubSeq(e, 1, m), e[k]) = q \o SubSeq(e, 1, n)
  /\ free < k => q \o SubSeq(e, 1, m) = q \o SubSeq(e, 1, n)

LEMMA FillsBehind ==
  ASSUME NEW S, NEW q \in Seq(S), NEW e \in Seq(S), NEW k \in 1 .. Len(e), NEW free \in Nat,
         NEW n \in 0 .. Len(e), NEW m \in 0 .. Len(e),
         n = Min2(k, free), m = Min2(k - 1, free)
  PROVE  FillsUp(S, q, e, k, free, n, m)
<1> DEFINE more  == SubSeq(e, 1, n)
           less  == SubSeq(e, 1, m)
<1>1. Len(e) \in Nat /\ (IF k <= free THEN n = k /\ m = k - 1 ELSE n = free /\ m = free)
  BY DEF Min2
<1>2. more \in Seq(S) /\ Len(more) = n /\ less \in Seq(S) /\ Len(less) = m
  <2>1. 1 \in 1 .. Len(e) + 1 /\ n \in 1 - 1 .. Len(e) /\ m \in 1 - 1 .. Len(e)
    BY <1>1
  <2>2. more \in Seq(S) /\ Len(more) = n - 1 + 1 /\ less \in Seq(S) /\ Len(less) = m - 1 + 1
    BY <2>1, StretchType
  <2> QED
    BY <2>2
<1>3. k <= free => Append(less, e[k]) = more /\ e[k] \in S
  BY <1>1, StretchLonger
<1>4. free < k => less = more
  BY <1>1
<1> HIDE DEF more, less
<1>5. /\ q \o more \in Seq(S) /\ Len(q \o more) = Len(q) + n
      /\ q \o less \in Seq(S) /\ Len(q \o less) = Len(q) + m
  BY <1>2, ConcatProperties
<1>6. k <= free => Append(q \o less, e[k]) = q \o more
  <2> SUFFICES ASSUME k <= free PROVE Append(q \o less, e[k]) = q \o more
    OBVIOUS
  <2> DEFINE x == e[k]
  <2>1. x \in S /\ Append(less, x) = more
    BY <1>3
  <2> HIDE DEF x
  <2>2. AppendsBehind(q, less, x)
    BY <1>2, <2>1, AppendBehind
  <2> QED
    BY <2>1, <2>2 DEF x, AppendsBehind
<1>7. free < k => q \o less = q \o more
  BY <1>4
<1> QED
  BY <1>5, <1>6, <1>7 DEF more, less, FillsUp

\* While the socket takes less than it is offered, what fits is appended.
LEMMA QueuedBehind ==
  ASSUME NEW S, NEW o \in BufferOf(S), BufferOK(o), NEW e \in Seq(S), NEW room \in Nat,
         NEW k \in 1 .. Len(e), room < Offered(o)
  PROVE  /\ Queued(o, e, room, k).off < Len(Queued(o, e, room, k).buf)
         /\ QueueAndFlush(Queued(o, e, room, k - 1), e[k]) = Queued(o, e, room, k)
<1> DEFINE q    == o.buf
           used == Len(q)
           w    == o.off
           free == BufSize - used
           n    == Min2(k, free)
           m    == Min2(k - 1, free)
           full == q \o SubSeq(e, 1, n)
           part == q \o SubSeq(e, 1, m)
           x    == e[k]
           b    == Queued(o, e, room, k)
           a    == Queued(o, e, room, k - 1)
<1>1. /\ q \in Seq(S) /\ w \in Nat /\ used \in Nat /\ BufSize \in Nat \ {0}
      /\ used <= BufSize
      /\ w < used \/ (used = 0 /\ w = 0)
      /\ Offered(o) = used - w + (IF used < BufSize THEN 1 ELSE 0)
      /\ Len(e) \in Nat
  BY BufferNumbers
<1>2. b = [buf |-> full, off |-> w + room, round |-> o.round, room |-> 0]
  BY <1>1 DEF Queued
<1>3. k # 1 => a = [buf |-> part, off |-> w + room, round |-> o.round, room |-> 0]
  BY <1>1 DEF Queued
<1>4. k = 1 => a = [buf |-> q, off |-> w, round |-> o.round, room |-> room]
  BY DEF Queued
<1>5. k = 1 => part = q
  <2> SUFFICES ASSUME k = 1 PROVE part = q
    OBVIOUS
  <2>1. m = 0
    BY <1>1 DEF Min2
  <2>2. SubSeq(e, 1, m) = <<>>
    BY <2>1
  <2>3. q \o <<>> = q
    BY <1>1, ConcatEmptySeq
  <2> QED
    BY <2>2, <2>3
<1>6. used = Len(q)
  OBVIOUS
<1> HIDE DEF q, w, used
<1>7. free \in Nat /\ free = BufSize - used
  BY <1>1
<1> HIDE DEF free
<1>8. /\ n \in 0 .. Len(e) /\ m \in 0 .. Len(e) /\ n <= free
      /\ n = Min2(k, free) /\ m = Min2(k - 1, free)
      /\ IF k <= free THEN n = k /\ m = k - 1 ELSE n = free /\ m = free
  BY <1>1, <1>7 DEF Min2
<1> HIDE DEF n, m
<1>9. /\ full \in Seq(S) /\ Len(full) = used + n
      /\ part \in Seq(S) /\ Len(part) = used + m
      /\ k <= free => Append(part, x) = full
      /\ free < k => part = full
  <2>1. /\ q \in Seq(S) /\ free \in Nat /\ n \in 0 .. Len(e) /\ m \in 0 .. Len(e)
        /\ n = Min2(k, free) /\ m = Min2(k - 1, free)
    BY <1>1, <1>7, <1>8
  <2>2. FillsUp(S, q, e, k, free, n, m)
    BY <2>1, FillsBehind
  <2> QED
    BY <1>6, <2>2 DEF FillsUp
<1> HIDE DEF full, part, x
<1>10. used + n <= BufSize /\ w + room < used + n /\ n \in Nat
  <2>1. used < BufSize => n >= 1
    BY <1>1, <1>7, <1>8
  <2>2. used + n <= BufSize /\ n \in Nat
    BY <1>1, <1>7, <1>8
  <2>3. CASE used < BufSize
    BY <1>1, <2>1, <2>2, <2>3
  <2>4. CASE used = BufSize
    BY <1>1, <2>2, <2>4
  <2> QED
    BY <1>1, <2>2, <2>3, <2>4
<1>11. full = IF Len(part) + 1 <= BufSize THEN Append(part, x) ELSE part
  <2>1. Len(part) + 1 <= BufSize <=> k <= free
    <3>1. used + m + 1 <= BufSize <=> k <= free
      BY <1>1, <1>7, <1>8
    <3> QED
      BY <1>9, <3>1
  <2>2. k <= free \/ free < k
    BY <1>7
  <2> QED
    BY <1>9, <2>1, <2>2
<1> HIDE DEF a, b
<1>12. CASE k = 1
  <2>1. /\ a.buf = part /\ a.off = w /\ a.round = o.round /\ a.room = room
        /\ a = [buf |-> a.buf, off |-> a.off, round |-> a.round, room |-> a.room]
    BY <1>4, <1>5, <1>12
  <2>2. room = Min2(room, (used + n) - w) /\ w + room # used + n
    BY <1>1, <1>10 DEF Min2
  <2>3. room = Min2(a.room, Len(full) - a.off) /\ a.off + room # Len(full)
    BY <1>9, <2>1, <2>2
  <2>4. full = IF Len(a.buf) + 1 <= BufSize THEN Append(a.buf, x) ELSE a.buf
    BY <1>11, <2>1
  <2>5. QueueAndFlush(a, x) = [buf |-> full, off |-> a.off + room,
                               round |-> a.round, room |-> a.room - room]
    BY <2>1, <2>3, <2>4, QueueAndFlushBehind
  <2>6. room - room = 0
    OBVIOUS
  <2> QED
    BY <1>2, <1>9, <1>10, <2>1, <2>5, <2>6 DEF a, b, x
<1>13. CASE k # 1
  <2>1. /\ a.buf = part /\ a.off = w + room /\ a.round = o.round /\ a.room = 0
        /\ a = [buf |-> a.buf, off |-> a.off, round |-> a.round, room |-> a.room]
    BY <1>3, <1>13
  <2>2. 0 = Min2(0, (used + n) - (w + room)) /\ (w + room) + 0 # used + n
    BY <1>1, <1>10 DEF Min2
  <2>3. 0 = Min2(a.room, Len(full) - a.off) /\ a.off + 0 # Len(full)
    BY <1>9, <2>1, <2>2
  <2>4. full = IF Len(a.buf) + 1 <= BufSize THEN Append(a.buf, x) ELSE a.buf
    BY <1>11, <2>1
  <2>5. QueueAndFlush(a, x) = [buf |-> full, off |-> a.off + 0,
                               round |-> a.round, room |-> a.room - 0]
    BY <2>1, <2>3, <2>4, QueueAndFlushBehind
  <2>6. (w + room) + 0 = w + room /\ 0 - 0 = 0
    BY <1>1
  <2> QED
    BY <1>2, <1>9, <1>10, <2>1, <2>5, <2>6 DEF a, b, x
<1> QED
  BY <1>12, <1>13

\* Once the socket took all that it was offered, packets pass as long as it has room
\* for them, and then fill the empty buffer.
LEMMA QueuedThrough ==
  ASSUME NEW S, NEW o \in BufferOf(S), BufferOK(o), NEW e \in Seq(S), NEW room \in Nat,
         NEW k \in 1 .. Len(e), room >= Offered(o)
  PROVE  QueueAndFlush(Queued(o, e, room, k - 1), e[k]) = Queued(o, e, room, k)
<1> DEFINE q    == o.buf
           used == Len(q)
           w    == o.off
           free == 1 + room - Offered(o)
           now  == Min2(k, free)
           then == Min2(k - 1, free)
           full == SubSeq(e, now + 1, Min2(k, now + BufSize))
           part == SubSeq(e, then + 1, Min2(k - 1, then + BufSize))
           x    == e[k]
           b    == Queued(o, e, room, k)
           a    == Queued(o, e, room, k - 1)
<1>1. /\ q \in Seq(S) /\ w \in Nat /\ used \in Nat /\ BufSize \in Nat \ {0}
      /\ used <= BufSize
      /\ Offered(o) = used - w + (IF used < BufSize THEN 1 ELSE 0)
      /\ Len(e) \in Nat /\ o.round \in Nat /\ Rounds \in Nat \ {0}
      /\ Offered(o) \in Nat \ {0}
  BY BufferNumbers
<1>2. b = [buf |-> full, off |-> 0, round |-> (o.round + now) % Rounds, room |-> free - now]
  <2>1. k # 0 /\ ~(room < Offered(o))
    BY <1>1
  <2> QED
    BY <2>1, Zenon DEF Queued
<1>3. k # 1 => a = [buf |-> part, off |-> 0, round |-> (o.round + then) % Rounds, room |-> free - then]
  <2>1. k # 1 => k - 1 # 0 /\ ~(room < Offered(o))
    BY <1>1
  <2> QED
    BY <2>1, Zenon DEF Queued
<1>4. k = 1 => a = [buf |-> q, off |-> w, round |-> o.round, room |-> room]
  BY DEF Queued
<1>5. free \in Nat \ {0} /\ free = 1 + room - Offered(o) /\ x \in S
  BY <1>1
<1>6. used = Len(q)
  OBVIOUS
<1> HIDE DEF a, b, x, q, used, w, free
<1>7. CASE k = 1
  <2> DEFINE buf   == IF Len(q) + 1 <= BufSize THEN Append(q, x) ELSE q
             taken == Offered(o)
  <2>1. now = 1 /\ full = <<>>
    <3>1. now = 1
      BY <1>5, <1>7 DEF Min2
    <3>2. Min2(k, now + BufSize) = 1
      BY <1>1, <1>7, <3>1 DEF Min2
    <3> QED
      BY <3>1, <3>2
  <2>2. Len(buf) = used + (IF used < BufSize THEN 1 ELSE 0)
    <3>1. CASE used < BufSize
      <4>1. Len(Append(q, x)) = used + 1
        BY <1>1, <1>5, <1>6, AppendProperties
      <4>2. Len(q) + 1 <= BufSize
        BY <1>1, <1>6, <3>1
      <4> QED
        BY <3>1, <4>1, <4>2
    <3>2. CASE used = BufSize
      <4>1. ~(Len(q) + 1 <= BufSize) /\ ~(used < BufSize)
        BY <1>1, <1>6, <3>2
      <4>2. buf = q
        BY <4>1
      <4>3. Len(buf) = used
        BY <1>6, <4>2
      <4> HIDE DEF buf
      <4> QED
        BY <1>1, <4>1, <4>3
    <3> QED
      BY <1>1, <3>1, <3>2
  <2> HIDE DEF now, full
  <2>3. taken = Min2(room, Len(buf) - w) /\ w + taken = Len(buf)
    <3>1. Len(buf) - w = Offered(o) /\ Len(buf) \in Nat
      BY <1>1, <2>2
    <3> HIDE DEF buf
    <3> QED
      BY <1>1, <3>1 DEF Min2
  <2>4. a.buf = q /\ a.off = w /\ a.round = o.round /\ a.room = room
    BY <1>4, <1>7
  <2>5. /\ buf = IF Len(a.buf) + 1 <= BufSize THEN Append(a.buf, x) ELSE a.buf
        /\ taken = Min2(a.room, Len(buf) - a.off) /\ a.off + taken = Len(buf)
        /\ taken \in Nat
    BY <1>1, <2>3, <2>4
  <2> HIDE DEF buf, taken
  <2>6. QueueAndFlush(a, x) = [buf |-> <<>>, off |-> 0,
                               round |-> (a.round + 1) % Rounds, room |-> a.room - taken]
    BY <2>5, QueueAndFlushEmpties
  <2>7. room - taken = free - now
    BY <1>1, <1>5, <2>1 DEF taken
  <2>8. QueueAndFlush(a, x) = b
    BY <1>2, <2>1, <2>4, <2>6, <2>7
  <2> QED
    BY <2>8 DEF a, b, x
<1>8. CASE k # 1 /\ k <= free
  <2> DEFINE buf   == Append(part, x)
  <2>1. /\ now = k /\ then = k - 1
        /\ Min2(k, now + BufSize) = k /\ Min2(k - 1, then + BufSize) = k - 1
    BY <1>1, <1>5, <1>8 DEF Min2
  <2>2. part = <<>> /\ full = <<>>
    BY <2>1
  <2> HIDE DEF now, then, full, part
  <2>3. Len(part) = 0 /\ Len(buf) = 1
    BY <2>2
  <2>4. /\ a.buf = part /\ a.off = 0 /\ a.round = (o.round + then) % Rounds
        /\ a.room = free - then
    BY <1>3, <1>8
  <2>5. buf = IF Len(a.buf) + 1 <= BufSize THEN Append(a.buf, x) ELSE a.buf
    BY <1>1, <2>3, <2>4
  <2>6. 1 = Min2(a.room, Len(buf) - a.off) /\ a.off + 1 = Len(buf)
    <3>1. a.room \in Nat \ {0}
      BY <1>5, <1>8, <2>1, <2>4
    <3> HIDE DEF buf
    <3> QED
      BY <2>3, <2>4, <3>1 DEF Min2
  <2> HIDE DEF buf
  <2>7. QueueAndFlush(a, x) = [buf |-> <<>>, off |-> 0,
                               round |-> (a.round + 1) % Rounds, room |-> a.room - 1]
    <3>1. 1 \in Nat
      OBVIOUS
    <3> QED
      BY <2>5, <2>6, <3>1, QueueAndFlushEmpties
  <2>8. (a.round + 1) % Rounds = (o.round + now) % Rounds
    <3> DEFINE r == o.round + then
    <3>1. r \in Nat /\ r + 1 = o.round + now
      BY <1>1, <2>1
    <3> HIDE DEF r
    <3>2. ((r % Rounds) + 1) % Rounds = (r + 1) % Rounds
      BY <1>1, <3>1, RemainderStep
    <3>3. a.round = r % Rounds
      BY <2>4 DEF r
    <3> QED
      BY <3>1, <3>2, <3>3
  <2>9. a.room - 1 = free - now
    BY <1>5, <1>8, <2>1, <2>4
  <2>10. QueueAndFlush(a, x) = b
    BY <1>2, <2>2, <2>7, <2>8, <2>9
  <2> QED
    BY <2>10 DEF a, b, x
<1>9. CASE free < k
  <2>1. now = free /\ then = free
    BY <1>1, <1>5, <1>9 DEF Min2
  <2> DEFINE n == Min2(k, free + BufSize)
             m == Min2(k - 1, free + BufSize)
  <2>2. full = SubSeq(e, free + 1, n) /\ part = SubSeq(e, free + 1, m)
    BY <2>1
  <2>3. /\ n \in free + 1 .. Len(e) /\ m \in free .. Len(e)
        /\ n - free <= BufSize
        /\ IF k <= free + BufSize THEN n = k /\ m = k - 1 ELSE n = m /\ m = free + BufSize
    BY <1>1, <1>5, <1>9 DEF Min2
  <2> HIDE DEF now, then, full, part, n, m
  <2>4. Len(full) = n - free /\ Len(part) = m - free
    <3>1. free + 1 \in 1 .. Len(e) + 1 /\ n \in (free + 1) - 1 .. Len(e) /\ m \in (free + 1) - 1 .. Len(e)
      BY <1>1, <1>5, <2>3
    <3>2. Len(full) = n - (free + 1) + 1 /\ Len(part) = m - (free + 1) + 1
      BY <2>2, <3>1, StretchType
    <3> QED
      BY <1>5, <2>3, <3>2
  <2>5. full = IF Len(part) + 1 <= BufSize THEN Append(part, x) ELSE part
    <3>1. CASE k <= free + BufSize
      <4>1. free + 1 \in 1 .. Len(e) /\ k \in free + 1 .. Len(e) /\ n = k /\ m = k - 1
        BY <1>1, <1>5, <1>9, <2>3, <3>1
      <4>2. Append(SubSeq(e, free + 1, k - 1), e[k]) = SubSeq(e, free + 1, k)
        BY <4>1, StretchLonger
      <4>3. Append(part, x) = full
        BY <2>2, <4>1, <4>2 DEF x
      <4>4. (m - free) + 1 <= BufSize
        BY <1>1, <1>5, <3>1, <4>1
      <4> QED
        BY <2>4, <4>3, <4>4
    <3>2. CASE ~(k <= free + BufSize)
      <4>1. full = part
        BY <2>2, <2>3, <3>2
      <4>2. ~((m - free) + 1 <= BufSize)
        BY <1>1, <1>5, <2>3, <3>2
      <4> QED
        BY <2>4, <4>1, <4>2
    <3> QED
      BY <3>1, <3>2
  <2>6. k # 1
    BY <1>5, <1>9
  <2>7. /\ a.buf = part /\ a.off = 0 /\ a.round = (o.round + then) % Rounds /\ a.room = free - then
        /\ a = [buf |-> a.buf, off |-> a.off, round |-> a.round, room |-> a.room]
    BY <1>3, <2>6
  <2>8. a.room = 0 /\ Len(full) \in Nat \ {0}
    BY <1>5, <2>1, <2>3, <2>4, <2>7
  <2>9. 0 = Min2(a.room, Len(full) - a.off) /\ a.off + 0 # Len(full)
    BY <2>7, <2>8 DEF Min2
  <2>10. full = IF Len(a.buf) + 1 <= BufSize THEN Append(a.buf, x) ELSE a.buf
    BY <2>5, <2>7
  <2>11. QueueAndFlush(a, x) = [buf |-> full, off |-> a.off + 0,
                                round |-> a.round, room |-> a.room - 0]
    <3>1. 0 \in Nat
      OBVIOUS
    <3> QED
      BY <2>7, <2>9, <2>10, <3>1, QueueAndFlushBehind
  <2>12. 0 + 0 = 0 /\ 0 - 0 = 0 /\ free - now = 0
    BY <1>5, <2>1
  <2>13. QueueAndFlush(a, x) = b
    BY <1>2, <2>1, <2>7, <2>8, <2>11, <2>12
  <2> QED
    BY <2>13 DEF a, b, x
<1> QED
  BY <1>5, <1>7, <1>8, <1>9

\* The steps of Queueing are what Queued says of them.
LEMMA QueueingIsQueued ==
  ASSUME NEW S, NEW o \in BufferOf(S), BufferOK(o), NEW e \in Seq(S), NEW room \in Nat
  PROVE  \A k \in 0 .. Len(e) : Queueing(o, e, room)[k] = Queued(o, e, room, k)
<1> DEFINE n == Len(e)
           start == [buf |-> o.buf, off |-> o.off, round |-> o.round, room |-> room]
           Steps(f) == f = [k \in 0 .. n |-> IF k = 0 THEN start
                                             ELSE QueueAndFlush(f[k - 1], e[k])]
           c == [k \in 0 .. n |-> Queued(o, e, room, k)]
           b == Queueing(o, e, room)
<1>1. n \in Nat
  OBVIOUS
<1>2. Queued(o, e, room, 0) = start
  BY DEF Queued
<1>3. ASSUME NEW k \in 1 .. n
      PROVE  QueueAndFlush(Queued(o, e, room, k - 1), e[k]) = Queued(o, e, room, k)
  <2>1. Offered(o) \in Nat
    BY BufferNumbers
  <2>2. CASE room < Offered(o)
    BY <2>2, QueuedBehind
  <2>3. CASE room >= Offered(o)
    BY <2>3, QueuedThrough
  <2> QED
    BY <2>1, <2>2, <2>3
<1>4. Steps(c)
  <2> SUFFICES ASSUME NEW k \in 0 .. n
               PROVE  c[k] = IF k = 0 THEN start ELSE QueueAndFlush(c[k - 1], e[k])
    OBVIOUS
  <2>1. CASE k = 0
    BY <1>2, <2>1
  <2>2. CASE k # 0
    <3>1. k \in 1 .. n /\ k - 1 \in 0 .. n
      BY <1>1, <2>2
    <3>2. c[k - 1] = Queued(o, e, room, k - 1) /\ c[k] = Queued(o, e, room, k)
      BY <3>1
    <3> HIDE DEF c
    <3> QED
      BY <1>3, <2>2, <3>1, <3>2
  <2> QED
    BY <2>1, <2>2
<1>5. b = CHOOSE f : Steps(f)
  BY DEF Queueing
<1>6. Steps(b)
  <2> HIDE DEF Steps, b
  <2> QED
    BY <1>4, <1>5
<1> HIDE DEF b
<1> DEFINE same == {k \in 0 .. n : b[k] = Queued(o, e, room, k)}
<1>7. 0 \in same
  <2>1. 0 \in 0 .. n
    BY <1>1
  <2>2. b[0] = start
    BY <1>6, <2>1
  <2> QED
    BY <1>2, <2>1, <2>2
<1>8. ASSUME NEW k \in 0 .. n - 1, k \in same
      PROVE  k + 1 \in same
  <2>1. k + 1 \in 1 .. n /\ k + 1 \in 0 .. n /\ (k + 1) - 1 = k /\ k + 1 # 0
    BY <1>1
  <2>2. b[k + 1] = QueueAndFlush(b[(k + 1) - 1], e[k + 1])
    BY <1>6, <2>1
  <2>3. b[(k + 1) - 1] = Queued(o, e, room, (k + 1) - 1)
    BY <1>8, <2>1
  <2>4. QueueAndFlush(Queued(o, e, room, (k + 1) - 1), e[k + 1]) = Queued(o, e, room, k + 1)
    BY <1>3, <2>1
  <2>5. b[k + 1] = Queued(o, e, room, k + 1)
    BY <2>2, <2>3, <2>4
  <2> QED
    BY <2>1, <2>5
<1> HIDE DEF same
<1>9. 0 .. n \subseteq same
  BY <1>1, <1>7, <1>8, Climb
<1> QED
  BY <1>9 DEF same, b, n

\* QueueAll is QueueAndFlush for packet after packet, and Drains tells when the buffer
\* runs empty on the way: for every buffer that is sound, every sequence of packets and
\* every room in the socket.
THEOREM QueueAllStepByStep ==
  ASSUME NEW S, NEW o \in BufferOf(S), BufferOK(o), NEW e \in Seq(S), NEW room \in Nat
  PROVE  QueuesStepByStep(o, e, room)
<1> DEFINE b == Queueing(o, e, room)
           n == Len(e)
           Q(k) == Queued(o, e, room, k)
<1>1. \A k \in 0 .. n : b[k] = Q(k)
  BY QueueingIsQueued
<1>2. /\ n \in Nat /\ Offered(o) \in Nat \ {0} /\ o.off \in Nat
      /\ BufSize \in Nat \ {0}
  BY BufferNumbers
<1>3. e = <<>> <=> n = 0
  BY EmptySeq
<1>4. QueueAll(o, e, room) = [buf |-> Q(n).buf, off |-> Q(n).off, round |-> Q(n).round]
  <2>1. CASE n = 0
    <3>1. QueueAll(o, e, room) = o
      BY <1>3, <2>1 DEF QueueAll
    <3>2. Q(n).buf = o.buf /\ Q(n).off = o.off /\ Q(n).round = o.round
      BY <2>1 DEF Queued
    <3>3. o = [buf |-> o.buf, off |-> o.off, round |-> o.round]
      BY DEF BufferOf
    <3> HIDE DEF Q
    <3> QED
      BY <3>1, <3>2, <3>3
  <2>2. CASE n # 0 /\ room < Offered(o)
    <3> DEFINE buf == o.buf \o SubSeq(e, 1, Min2(n, BufSize - Len(o.buf)))
    <3>1. QueueAll(o, e, room) = [o EXCEPT !.buf = buf, !.off = o.off + room]
      BY <1>3, <2>2, Zenon DEF QueueAll
    <3>2. Q(n) = [buf |-> buf, off |-> o.off + room, round |-> o.round, room |-> 0]
      BY <2>2, Zenon DEF Queued
    <3> HIDE DEF buf
    <3>3. [o EXCEPT !.buf = buf, !.off = o.off + room]
            = [buf |-> buf, off |-> o.off + room, round |-> o.round]
      <4> DEFINE x == o.buf
                 y == o.off
                 z == o.round
                 w == o.off + room
                 a == [o EXCEPT !.buf = buf]
      <4>1. o = [buf |-> x, off |-> y, round |-> z]
        BY DEF BufferOf
      <4> HIDE DEF w, x, y, z
      <4>2. a = [buf |-> buf, off |-> y, round |-> z]
        BY <4>1
      <4> HIDE DEF a
      <4>3. [a EXCEPT !.off = w] = [buf |-> buf, off |-> w, round |-> z]
        BY <4>2
      <4> QED
        BY <4>3 DEF w, z, a
    <3> HIDE DEF Q
    <3> QED
      BY <3>1, <3>2, <3>3
  <2>3. CASE n # 0 /\ ~(room < Offered(o))
    BY <1>3, <2>3 DEF QueueAll, Queued
  <2> QED
    BY <2>1, <2>2, <2>3
<1>5. Drains(o, e, room) => \E k \in 1 .. n : Q(k).buf = <<>>
  <2> SUFFICES ASSUME Drains(o, e, room) PROVE \E k \in 1 .. n : Q(k).buf = <<>>
    OBVIOUS
  <2>1. n # 0 /\ room >= Offered(o) /\ 1 \in 1 .. n /\ ~(room < Offered(o))
    BY <1>2, <1>3 DEF Drains
  <2>2. Min2(1, 1 + room - Offered(o)) = 1 /\ Min2(1, 1 + BufSize) = 1
    BY <1>2, <2>1 DEF Min2
  <2>3. Q(1).buf = SubSeq(e, 1 + 1, 1)
    BY <2>1, <2>2 DEF Queued
  <2>4. SubSeq(e, 1 + 1, 1) = <<>>
    OBVIOUS
  <2> HIDE DEF Q
  <2>5. Q(1).buf = <<>>
    BY <2>3, <2>4
  <2> QED
    BY <2>1, <2>5
<1>6. ~Drains(o, e, room) => \A k \in 1 .. n : Q(k).buf # <<>>
  <2> SUFFICES ASSUME ~Drains(o, e, room), NEW k \in 1 .. n
               PROVE  Q(k).buf # <<>>
    OBVIOUS
  <2>1. room < Offered(o)
    BY <1>2, <1>3 DEF Drains
  <2>2. Q(k).off < Len(Q(k).buf)
    BY <2>1, QueuedBehind
  <2>3. Q(k).off = o.off + room
    BY <1>2, <2>1 DEF Queued
  <2> HIDE DEF Q
  <2>4. Q(k).off \in Nat
    BY <1>2, <2>3
  <2>5. Q(k).buf = <<>> => Len(Q(k).buf) = 0
    OBVIOUS
  <2> QED
    BY <2>2, <2>4, <2>5
<1>7. n \in 0 .. n /\ \A k \in 1 .. n : k \in 0 .. n
  BY <1>2
<1> HIDE DEF b, Q
<1>8. /\ QueueAll(o, e, room) = [buf |-> b[n].buf, off |-> b[n].off, round |-> b[n].round]
      /\ Drains(o, e, room) <=> \E k \in 1 .. n : b[k].buf = <<>>
  BY <1>1, <1>4, <1>5, <1>6, <1>7
<1> QED
  BY <1>8 DEF QueuesStepByStep, b

---------------------------------------------------------------------------
(***************************************************************************)
(* The inductive invariant.  Ownership of the subscriptions is preserved   *)
(* only together with the cleanness of closed slots (the next client of a  *)
(* slot starts with an empty list), the flows only with the type of the    *)
(* packet identifier counter.                                              *)
(***************************************************************************)
IInv ==
  /\ TypeOK
  /\ HeldOwned /\ RetainedUnique /\ InboundUnique /\ OutPidsValid
  /\ ClosedSlotClean /\ SendBufferSound
  /\ ListedStayHeld

\* A handler starts from tables that satisfy the invariant.
LEMMA TablesGood ==
  ASSUME IInv
  PROVE  Good(Tables) /\ Tables.accepted = {} /\ Tables.state = state
<1>1. [c \in Slots |-> <<>>] \in [Slots -> Seq(Outbound)]
  OBVIOUS
<1>2. Tables \in TablesType
  BY <1>1 DEF IInv, TypeOK, Tables, TablesType, States
<1>3. HeldOK(Tables) /\ RetainedOK(Tables) /\ InboundOK(Tables) /\ PidsOK(Tables)
  BY DEF IInv, HeldOwned, RetainedUnique, InboundUnique, OutPidsValid, Tables,
         HeldOK, RetainedOK, InboundOK, PidsOK
<1>4. CleanOK(Tables)
  BY DEF IInv, ClosedSlotClean, CleanOK, Tables
<1>5. ListedOK(Tables)
  BY DEF IInv, ListedStayHeld, ListedOK, Lasting, Tables
<1>6. Tables.accepted = {} /\ Tables.state = state
  BY DEF Tables
<1> QED
  BY <1>2, <1>3, <1>4, <1>5, <1>6 DEF Good

\* The zeroed tables satisfy the invariants.
LEMMA BlankGood == Good(Blank)
<1>1. Blank \in TablesType
  <2>1. NoSession \in Session
    BY NoIdAssumption DEF NoSession, Session
  <2>2. NoFlows \in [FlowSlots -> Flow]
    BY PidMaxAssumption DEF NoFlows, Flow, Pids
  <2>3. <<>> \in Seq(Outbound) /\ 0 \in Pids
    BY PidMaxAssumption DEF Pids
  <2> QED
    BY <2>1, <2>2, <2>3 DEF Blank, TablesType, States
<1>2. HeldOK(Blank) /\ RetainedOK(Blank) /\ CleanOK(Blank) /\ ListedOK(Blank)
  BY DEF Blank, HeldOK, RetainedOK, CleanOK, ListedOK, Lasting, NoSession
<1>3. InboundOK(Blank) /\ PidsOK(Blank)
  BY DEF Blank, NoFlows, InboundOK, PidsOK, InStates, OutStates
<1> QED
  BY <1>1, <1>2, <1>3 DEF Good

\* Putting a handler's packets into the send buffers preserves the invariant.
LEMMA BecomeInv ==
  ASSUME IInv, NEW T, Good(T), Become(T), phase' \in {"up", "down", "crashed"}
  PROVE  IInv'
<1>0. T \in TablesType
  BY DEF Good
<1>1. PICK room \in [{c \in Slots : T.emit[c] # <<>>} -> KernelRoom] :
        /\ out' = [c \in Slots |->
                    IF (state[c] = "DISCONNECTED") # (T.state[c] = "DISCONNECTED") THEN EmptyBuf
                    ELSE IF T.emit[c] = <<>> THEN out[c]
                    ELSE QueueAll(out[c], T.emit[c], room[c])]
        /\ state' = [c \in Slots |->
                      IF c \in T.accepted THEN "CONNACK_SENT"
                      ELSE IF /\ T.state[c] = "CONNACK_SENT" /\ T.emit[c] # <<>>
                              /\ Drains(out[c], T.emit[c], room[c])
                           THEN "READY" ELSE T.state[c]]
  BY DEF Become
<1>2. /\ session' = T.session /\ q2' = T.q2 /\ subs' = T.subs
      /\ retained' = T.retained /\ next_pid' = T.next_pid
  BY DEF Become
<1>3. ASSUME NEW c \in Slots PROVE out[c] \in Buffer /\ BufferOK(out[c])
  BY DEF IInv, TypeOK, SendBufferSound, Buffer, BufferOK
<1>4. ASSUME NEW c \in Slots PROVE out'[c] \in Buffer /\ BufferOK(out'[c])
  <2>1. ASSUME T.emit[c] # <<>>
        PROVE  /\ QueueAll(out[c], T.emit[c], room[c]) \in Buffer
               /\ BufferOK(QueueAll(out[c], T.emit[c], room[c]))
    <3>1. room[c] \in Nat
      BY <1>1, <2>1, SizesAssumption
    <3>2. T.emit[c] \in Seq(Outbound)
      BY <1>0 DEF TablesType
    <3> QED
      BY <1>3, <3>1, <3>2, QueueAllSound
  <2> QED
    BY <1>1, <1>3, <2>1, EmptyBufSound
<1>5. out' \in [Slots -> Buffer]
  BY <1>1, <1>4
<1>6. state' \in [Slots -> States]
  BY <1>0, <1>1 DEF TablesType, States
<1>7. TypeOK'
  BY <1>0, <1>2, <1>5, <1>6 DEF TypeOK, TablesType, States, Buffer
<1>8. HeldOwned' /\ RetainedUnique' /\ InboundUnique' /\ OutPidsValid'
  BY <1>2 DEF Good, HeldOwned, RetainedUnique, InboundUnique, OutPidsValid,
              HeldOK, RetainedOK, InboundOK, PidsOK
<1>9. SendBufferSound'
  BY <1>4 DEF SendBufferSound, BufferOK
<1>10. ClosedSlotClean'
  <2> SUFFICES ASSUME NEW c \in Slots, state'[c] = "DISCONNECTED"
               PROVE  session'[c] = NoSession /\ q2'[c] = NoFlows /\ out'[c] = EmptyBuf
    BY DEF ClosedSlotClean
  <2>1. T.state[c] = "DISCONNECTED"
    BY <1>1
  <2>2. T.session[c] = NoSession /\ T.q2[c] = NoFlows /\ T.emit[c] = <<>>
    BY <2>1 DEF Good, CleanOK
  <2>3. out'[c] = EmptyBuf
    BY <1>1, <2>1, <2>2 DEF IInv, ClosedSlotClean
  <2> QED
    BY <1>2, <2>2, <2>3
<1>11. ListedStayHeld'
  BY <1>2 DEF Good, ListedOK, Lasting, ListedStayHeld
<1> QED
  BY <1>7, <1>8, <1>9, <1>10, <1>11 DEF IInv

\* A writable socket's step: the buffer moves on, or is empty again.
LEMMA ClientSendInv ==
  ASSUME IInv, NEW c \in Slots, ClientSend(c)
  PROVE  IInv'
<1>1. out[c] \in Buffer /\ BufferOK(out[c]) /\ out[c].off < Len(out[c].buf)
      /\ Len(out[c].buf) \in Nat /\ out[c].off \in Nat
  BY DEF IInv, TypeOK, SendBufferSound, Buffer, BufferOK, ClientSend, Waiting
<1>2. PICK room \in KernelRoom :
        LET taken == Min2(room, Len(out[c].buf) - out[c].off)
        IN  IF out[c].off + taken = Len(out[c].buf)
            THEN /\ out' = [out EXCEPT ![c] = [buf |-> <<>>, off |-> 0, round |-> NextRound(@)]]
                 /\ state' = [state EXCEPT ![c] = IF @ = "CONNACK_SENT" THEN "READY" ELSE @]
            ELSE /\ out' = [out EXCEPT ![c].off = @ + taken]
                 /\ UNCHANGED state
  BY DEF ClientSend
<1> DEFINE taken == Min2(room, Len(out[c].buf) - out[c].off)
<1>3. taken \in Nat /\ out[c].off + taken <= Len(out[c].buf)
  BY <1>1, SizesAssumption DEF Min2
<1>4. out'[c] \in Buffer /\ BufferOK(out'[c]) /\ out' = [out EXCEPT ![c] = out'[c]]
  <2>1. CASE out[c].off + taken = Len(out[c].buf)
    <3> DEFINE o == [buf |-> <<>>, off |-> 0, round |-> NextRound(out[c])]
    <3>1. out' = [out EXCEPT ![c] = o]
      BY <1>2, <2>1
    <3>2. NextRound(out[c]) \in 0 .. Rounds - 1
      BY <1>1, SizesAssumption DEF NextRound, Buffer
    <3>3. o \in Buffer /\ BufferOK(o)
      BY <3>2, SizesAssumption DEF Buffer, BufferOK
    <3> QED
      BY <3>1, <3>3 DEF IInv, TypeOK
  <2>2. CASE out[c].off + taken # Len(out[c].buf)
    <3> DEFINE o == [out[c] EXCEPT !.off = out[c].off + taken]
    <3>1. out' = [out EXCEPT ![c] = o]
      BY <1>2, <2>2
    <3>2. o \in Buffer /\ BufferOK(o)
      BY <1>1, <1>3, <2>2 DEF Buffer, BufferOK
    <3> QED
      BY <3>1, <3>2 DEF IInv, TypeOK
  <2> QED
    BY <2>1, <2>2
<1>5. /\ state' \in [Slots -> States]
      /\ \A d \in Slots : state'[d] = "DISCONNECTED" => state[d] = "DISCONNECTED" /\ d # c
  <2>1. state \in [Slots -> States] /\ state[c] # "DISCONNECTED"
    BY DEF IInv, TypeOK, States, ClientSend, Open
  <2> HIDE DEF taken
  <2>2. state' = state \/ state' = [state EXCEPT ![c] = IF @ = "CONNACK_SENT" THEN "READY" ELSE @]
    BY <1>2
  <2> QED
    BY <2>1, <2>2 DEF States
<1>6. UNCHANGED <<phase, session, q2, subs, retained, next_pid>>
  BY DEF ClientSend
<1>7. out' \in [Slots -> Buffer]
  BY <1>4 DEF IInv, TypeOK, Buffer
<1>8. TypeOK'
  BY <1>5, <1>6, <1>7 DEF IInv, TypeOK, Buffer, States
<1>9. SendBufferSound'
  BY <1>4 DEF IInv, TypeOK, SendBufferSound, BufferOK
<1>10. ClosedSlotClean'
  BY <1>4, <1>5, <1>6 DEF IInv, TypeOK, ClosedSlotClean
<1>11. HeldOwned' /\ RetainedUnique' /\ InboundUnique' /\ OutPidsValid'
       /\ ListedStayHeld'
  BY <1>6 DEF IInv, HeldOwned, RetainedUnique, InboundUnique, OutPidsValid, ListedStayHeld
<1> QED
  BY <1>8, <1>9, <1>10, <1>11 DEF IInv
\* Accepting a connection puts it into a slot that is clean.
LEMMA AcceptGood ==
  ASSUME IInv, Accept
  PROVE  \E T : Good(T) /\ Become(T)
<1> DEFINE c == Lowest(Slots \ Open)
           S == [state EXCEPT ![c] = "CONNACK_SENT"]
           T == [Tables EXCEPT !.state = S]
<1>1. c \in Slots \ Open
  BY LowestIndex DEF Accept
<1>2. Good(Tables) /\ Tables.state = state
  BY TablesGood
<1> HIDE DEF c
<1>3. [Tables EXCEPT !.state[c] = "CONNACK_SENT", !.session[c] = NoSession, !.q2[c] = NoFlows] = T
  <2>1. Tables.session[c] = NoSession /\ Tables.q2[c] = NoFlows
    BY <1>1, <1>2 DEF Good, CleanOK, Open
  <2>2. /\ [Tables.session EXCEPT ![c] = NoSession] = Tables.session
        /\ [Tables.q2 EXCEPT ![c] = NoFlows] = Tables.q2
    BY <1>1, <1>2, <2>1 DEF Good, TablesType
  <2> QED
    BY <1>2, <2>2 DEF Good, TablesType
<1>4. S \in [Slots -> States]
  BY <1>1 DEF IInv, TypeOK, States
<1>5. \A d \in Slots : S[d] = "DISCONNECTED" => state[d] = "DISCONNECTED"
  BY <1>1 DEF IInv, TypeOK
<1> HIDE DEF S
<1>6. T \in TablesType
  BY <1>2, <1>4 DEF Good, TablesType
<1>7. /\ T.state = S /\ T.session = Tables.session /\ T.q2 = Tables.q2
      /\ T.subs = Tables.subs /\ T.retained = Tables.retained
      /\ T.emit = Tables.emit /\ T.accepted = Tables.accepted
  BY <1>2 DEF Good, TablesType
<1> HIDE DEF T
<1>8. Good(T)
  BY <1>2, <1>5, <1>6, <1>7
  DEF Good, HeldOK, RetainedOK, InboundOK, PidsOK, CleanOK, ListedOK, Lasting
<1>9. Become(T)
  BY <1>3 DEF Accept, c
<1> QED
  BY <1>8, <1>9

LEMMA AcceptInv ==
  ASSUME IInv, Accept
  PROVE  IInv'
<1>1. phase' \in {"up", "down", "crashed"}
  BY DEF Accept, IInv, TypeOK
<1>2. PICK T : Good(T) /\ Become(T)
  BY AcceptGood
<1> QED
  BY <1>1, <1>2, BecomeInv

\* Every step ends with tables that satisfy the invariants, or sends what is queued.
LEMMA EveryStep ==
  ASSUME IInv, Next
  PROVE  \/ (\E T : Good(T) /\ Become(T)) /\ phase' \in {"up", "down", "crashed"}
         \/ \E c \in Slots : ClientSend(c)
<1>0. phase \in {"up", "down", "crashed"}
  BY DEF IInv, TypeOK
<1>1. CASE Accept
  BY <1>0, <1>1, AcceptGood DEF Accept
<1>2. ASSUME NEW c \in Slots, NEW p \in Inputs, Recv(c, p)
      PROVE  (\E T : Good(T) /\ Become(T)) /\ phase' \in {"up", "down", "crashed"}
  <2>1. p \in Inbound
    BY InputsAssumption
  <2>2. Good(Handle(Tables, c, p))
    BY <1>2, <2>1, TablesGood, HandleGood DEF Recv, Open
  <2> QED
    BY <1>0, <1>2, <2>2 DEF Recv
<1>3. ASSUME NEW c \in Slots, PeerGone(c) \/ KeepaliveTimeout(c)
      PROVE  (\E T : Good(T) /\ Become(T)) /\ phase' \in {"up", "down", "crashed"}
  <2>1. Good(Close(Tables, c))
    BY TablesGood, CloseGood
  <2> QED
    BY <1>0, <1>3, <2>1 DEF PeerGone, KeepaliveTimeout
<1>4. ASSUME NEW m \in ApiMessages, ApiPublish(m)
      PROVE  (\E T : Good(T) /\ Become(T)) /\ phase' \in {"up", "down", "crashed"}
  <2>1. m \in Message /\ Api \in Senders
    BY InputsAssumption DEF Senders
  <2>2. Good(Forward(Tables, Api, m))
    BY <2>1, TablesGood, ForwardGood
  <2> QED
    BY <1>0, <1>4, <2>2 DEF ApiPublish
<1>5. CASE Destroy \/ Create
  BY <1>5, BlankGood DEF Destroy, Create
<1> QED
  BY <1>1, <1>2, <1>3, <1>4, <1>5 DEF Next

\* The invariant holds initially.
LEMMA InitInv == Init => IInv
<1> SUFFICES ASSUME Init PROVE IInv
  OBVIOUS
<1>1. /\ state = Blank.state /\ session = Blank.session /\ q2 = Blank.q2 /\ subs = Blank.subs
      /\ retained = Blank.retained /\ next_pid = Blank.next_pid /\ phase = "up"
      /\ out = [c \in Slots |-> EmptyBuf]
  BY DEF Init
<1>2. TypeOK
  BY <1>1, BlankGood, EmptyBufSound DEF Good, TablesType, TypeOK, States, Buffer
<1>3. SendBufferSound
  BY <1>1, EmptyBufSound DEF SendBufferSound, BufferOK
<1>4. ClosedSlotClean
  BY <1>1, BlankGood DEF ClosedSlotClean, Good, CleanOK
<1>5. HeldOwned /\ RetainedUnique /\ InboundUnique /\ OutPidsValid
  BY <1>1, BlankGood DEF Good, HeldOwned, RetainedUnique, InboundUnique, OutPidsValid,
                         HeldOK, RetainedOK, InboundOK, PidsOK
<1>6. ListedStayHeld
  BY <1>1, BlankGood DEF Good, ListedOK, Lasting, ListedStayHeld
<1> QED
  BY <1>2, <1>3, <1>4, <1>5, <1>6 DEF IInv

\* Every step preserves the invariant.
LEMMA NextInv == IInv /\ [Next]_vars => IInv'
<1> SUFFICES ASSUME IInv, [Next]_vars PROVE IInv'
  OBVIOUS
<1>1. CASE Next
  BY <1>1, EveryStep, BecomeInv, ClientSendInv
<1>2. CASE UNCHANGED vars
  BY <1>2 DEF vars, IInv, TypeOK, HeldOwned, RetainedUnique, InboundUnique, OutPidsValid,
              ClosedSlotClean, SendBufferSound, ListedStayHeld
<1> QED
  BY <1>1, <1>2

\* The inductive invariant holds in every reachable state.
THEOREM Invariant == Spec => []IInv
BY InitInv, NextInv, PTL DEF Spec

---------------------------------------------------------------------------
(***************************************************************************)
(* What follows from it.                                                   *)
(***************************************************************************)

\* The broker's tables keep their type.
THEOREM TypeCorrect == Spec => []TypeOK
<1>1. IInv => TypeOK
  BY DEF IInv
<1> QED
  BY <1>1, Invariant, PTL

\* A client's own list only names its own live subscriptions, whatever the order
\* of subscriptions, evictions, wills and reconnections into the same slot: what
\* UNSUBSCRIBE and branch__close_client free is never another client's.
THEOREM HeldAreOwned == Spec => []HeldOwned
<1>1. IInv => HeldOwned
  BY DEF IInv
<1> QED
  BY <1>1, Invariant, PTL

\* What SUBSCRIBE lists stays in its owner's list for as long as it lives, whoever is
\* evicted, closed or gets an entry again, and with any limits: the subscriptions granted
\* over a full list are the only ones that can be orphaned (MCBranch_orphaned).
THEOREM ListedAreHeld == Spec => []ListedStayHeld
<1>1. IInv => ListedStayHeld
  BY DEF IInv
<1> QED
  BY <1>1, Invariant, PTL

\* The next client of a slot finds nothing that the former one left.
THEOREM ClosedSlotsAreClean == Spec => []ClosedSlotClean
<1>1. IInv => ClosedSlotClean
  BY DEF IInv
<1> QED
  BY <1>1, Invariant, PTL

\* A topic has at most one retained message.
THEOREM RetainedAreUnique == Spec => []RetainedUnique
<1>1. IInv => RetainedUnique
  BY DEF IInv
<1> QED
  BY <1>1, Invariant, PTL

\* An incoming packet identifier has at most one QoS 2 flow.
THEOREM InboundAreUnique == Spec => []InboundUnique
<1>1. IInv => InboundUnique
  BY DEF IInv
<1> QED
  BY <1>1, Invariant, PTL

\* No outgoing QoS 2 flow has packet identifier 0, also across the wrap.
THEOREM OutPidsAreValid == Spec => []OutPidsValid
<1>1. IInv => OutPidsValid
  BY DEF IInv
<1> QED
  BY <1>1, Invariant, PTL

\* No send buffer is overrun, and none waits fully sent.
THEOREM SendBuffersAreSound == Spec => []SendBufferSound
<1>1. IInv => SendBufferSound
  BY DEF IInv
<1> QED
  BY <1>1, Invariant, PTL

\* On every buffer that occurs the model's closed form is the code's loop: what the
\* broker holds for a client, and when it holds nothing, is what packet after packet
\* appended to the buffer and offered to the socket leaves.
THEOREM QueueAllAsInTheCode == Spec => []QueueAllIsQueueAndFlush
<1>1. IInv => QueueAllIsQueueAndFlush
  <2> SUFFICES ASSUME IInv, NEW c \in Slots, NEW n \in 0 .. BufSize + 1,
                      NEW room \in 0 .. 2 * BufSize
               PROVE  QueuesStepByStep(out[c], [k \in 1 .. n |-> Ack("PUBACK", k)], room)
    BY DEF QueueAllIsQueueAndFlush
  <2> DEFINE o == out[c]
             e == [k \in 1 .. n |-> Ack("PUBACK", k)]
             S == Outbound \cup {Ack("PUBACK", k) : k \in 1 .. n}
  <2>1. o \in Buffer /\ BufferOK(o)
    BY DEF IInv, TypeOK, SendBufferSound, Buffer, BufferOK
  <2>2. n \in Nat /\ room \in Nat
    BY SizesAssumption
  <2>3. o \in BufferOf(S)
    <3>1. o.buf \in Seq(Outbound) /\ Outbound \subseteq S
      BY <2>1 DEF Buffer
    <3> HIDE DEF S, o
    <3>2. o.buf \in Seq(S)
      BY <3>1
    <3> QED
      BY <2>1, <3>2 DEF Buffer, BufferOf
  <2>4. e \in Seq(S)
    <3>1. \A k \in 1 .. n : Ack("PUBACK", k) \in S
      OBVIOUS
    <3> HIDE DEF S
    <3>2. e \in [1 .. n -> S]
      BY <3>1
    <3> QED
      BY <2>2, <3>2
  <2> HIDE DEF o, e, S
  <2>5. QueuesStepByStep(o, e, room)
    BY <2>1, <2>2, <2>3, <2>4, QueueAllStepByStep
  <2> QED
    BY <2>5 DEF o, e
<1> QED
  BY <1>1, Invariant, PTL
---------------------------------------------------------------------------
(***************************************************************************)
(* The order of what is sent.                                              *)
(***************************************************************************)
\* Whether buffer n is buffer o, with more behind or more of it sent.
BufferKept(o, n) ==
  /\ Len(o.buf) <= Len(n.buf)
  /\ SubSeq(n.buf, 1, Len(o.buf)) = o.buf
  /\ o.off <= n.off

\* A buffer that stays as it is.
LEMMA StaysSame ==
  ASSUME NEW o \in Buffer, NEW n, n.buf = o.buf, n.off \in Nat, o.off <= n.off
  PROVE  BufferKept(o, n)
<1>1. o.buf \in Seq(Outbound) /\ <<>> \in Seq(Outbound)
  BY DEF Buffer
<1>2. o.buf \o <<>> = o.buf
  BY <1>1, ConcatEmptySeq
<1>3. Len(o.buf) <= Len(o.buf \o <<>>) /\ SubSeq(o.buf \o <<>>, 1, Len(o.buf)) = o.buf
  BY <1>1, StandsInFront
<1> QED
  BY <1>2, <1>3 DEF BufferKept

\* Queueing keeps what is in the buffer in place, unless the buffer was empty on the
\* way, which its count of rounds shows.
LEMMA QueueAllKeeps ==
  ASSUME NEW o \in Buffer, BufferOK(o), NEW e \in Seq(Outbound), NEW room \in 0 .. Rounds - 1,
         QueueAll(o, e, room).round = o.round
  PROVE  BufferKept(o, QueueAll(o, e, room))
<1> DEFINE Q == QueueAll(o, e, room)
<1>1. o \in BufferOf(Outbound)
  BY DEF Buffer, BufferOf
<1>2. /\ o.buf \in Seq(Outbound) /\ o.off \in Nat /\ Len(o.buf) \in Nat
      /\ BufSize \in Nat \ {0} /\ Rounds \in Nat \ {0}
      /\ Len(o.buf) <= BufSize /\ Offered(o) \in Nat \ {0}
      /\ o.round \in 0 .. Rounds - 1
  BY <1>1, BufferNumbers DEF Buffer
<1>3. CASE e = <<>>
  <2>1. Q = o
    BY <1>3 DEF QueueAll
  <2> HIDE DEF Q
  <2> QED
    BY <1>2, <2>1, StaysSame DEF Q
<1>4. CASE e # <<>> /\ room < Offered(o)
  <2> DEFINE behind == Min2(Len(e), BufSize - Len(o.buf))
             more   == SubSeq(e, 1, behind)
  <2>1. behind \in 0 .. Len(e)
    <3>1. Len(e) \in Nat \ {0} /\ Len(o.buf) \in 0 .. BufSize
      BY <1>2, <1>4, EmptySeq
    <3> QED
      BY <3>1, QueueAllNumbers
  <2>2. Q.buf = o.buf \o more /\ Q.off = o.off + room
    BY <1>4 DEF QueueAll, Buffer
  <2> HIDE DEF behind
  <2>3. more \in Seq(Outbound)
    <3>1. Len(e) \in Nat
      OBVIOUS
    <3>2. 1 \in 1 .. Len(e) + 1 /\ behind \in 1 - 1 .. Len(e)
      BY <2>1, <3>1
    <3> QED
      BY <3>2, StretchType
  <2> HIDE DEF Q, more
  <2>4. Len(o.buf) <= Len(o.buf \o more) /\ SubSeq(o.buf \o more, 1, Len(o.buf)) = o.buf
    BY <1>2, <2>3, StandsInFront
  <2>5. o.off <= o.off + room
    BY <1>2
  <2>6. BufferKept(o, Q)
    BY <2>2, <2>4, <2>5 DEF BufferKept
  <2> QED
    BY <2>6 DEF Q
<1>5. CASE e # <<>> /\ ~(room < Offered(o))
  <2> DEFINE passed == Min2(Len(e), 1 + room - Offered(o))
  <2>1. Len(e) \in Nat \ {0}
    BY <1>5, EmptySeq
  <2>2. passed \in 1 .. Rounds - 1
    BY <1>2, <1>5, <2>1 DEF Min2
  <2>3. Q.round = (o.round + passed) % Rounds
    BY <1>5 DEF QueueAll
  <2> HIDE DEF passed, Q
  <2>4. (o.round + passed) % Rounds # o.round
    BY <1>2, <2>2, RemainderMoves
  <2> QED
    BY <2>3, <2>4 DEF Q
<1> QED
  BY <1>3, <1>4, <1>5

\* What no step does, until the buffer runs empty: overwrite, move or drop what is
\* queued, or take the offset back.  It holds if `round' can count what a socket takes
\* in one step, so that a buffer that was emptied shows it.
THEOREM SentInOrder ==
  ASSUME KernelRoom \subseteq 0 .. Rounds - 1
  PROVE  Spec => SendOrder
<1> DEFINE Kept(c) == /\ state[c] # "DISCONNECTED" /\ state'[c] # "DISCONNECTED"
                      /\ out'[c].round = out[c].round
                      => BufferKept(out[c], out'[c])
<1>1. ASSUME IInv, NEW T, Good(T), Become(T), NEW c \in Slots,
             state[c] # "DISCONNECTED", state'[c] # "DISCONNECTED",
             out'[c].round = out[c].round
      PROVE  BufferKept(out[c], out'[c])
  <2>1. PICK room \in [{d \in Slots : T.emit[d] # <<>>} -> KernelRoom] :
          /\ out' = [d \in Slots |->
                      IF (state[d] = "DISCONNECTED") # (T.state[d] = "DISCONNECTED") THEN EmptyBuf
                      ELSE IF T.emit[d] = <<>> THEN out[d]
                      ELSE QueueAll(out[d], T.emit[d], room[d])]
          /\ state' = [d \in Slots |->
                        IF d \in T.accepted THEN "CONNACK_SENT"
                        ELSE IF /\ T.state[d] = "CONNACK_SENT" /\ T.emit[d] # <<>>
                                /\ Drains(out[d], T.emit[d], room[d])
                             THEN "READY" ELSE T.state[d]]
    BY <1>1 DEF Become
  <2>2. T.state[c] # "DISCONNECTED"
    <3>1. T.state[c] = "DISCONNECTED" => c \notin T.accepted
      BY <1>1 DEF Good, CleanOK
    <3> QED
      BY <1>1, <2>1, <3>1
  <2>3. out'[c] = IF T.emit[c] = <<>> THEN out[c] ELSE QueueAll(out[c], T.emit[c], room[c])
    BY <1>1, <2>1, <2>2
  <2>4. out[c] \in Buffer /\ BufferOK(out[c]) /\ out[c].off \in Nat
    BY <1>1 DEF IInv, TypeOK, SendBufferSound, Buffer, BufferOK
  <2>5. CASE T.emit[c] = <<>>
    <3>1. out'[c] = out[c]
      BY <2>3, <2>5
    <3> QED
      BY <2>4, <3>1, StaysSame
  <2>6. CASE T.emit[c] # <<>>
    <3>1. room[c] \in 0 .. Rounds - 1
      BY <2>1, <2>6
    <3>2. T.emit[c] \in Seq(Outbound)
      BY <1>1 DEF Good, TablesType
    <3>3. out'[c] = QueueAll(out[c], T.emit[c], room[c])
      BY <2>3, <2>6
    <3> QED
      BY <1>1, <2>4, <3>1, <3>2, <3>3, QueueAllKeeps
  <2> QED
    BY <2>5, <2>6
<1>2. ASSUME IInv, NEW d \in Slots, ClientSend(d), NEW c \in Slots,
             out'[c].round = out[c].round
      PROVE  BufferKept(out[c], out'[c])
  <2>1. /\ out[c] \in Buffer /\ out[c].off \in Nat /\ Len(out[c].buf) \in Nat
        /\ out \in [Slots -> Buffer] /\ out[c].round \in 0 .. Rounds - 1
    BY <1>2 DEF IInv, TypeOK, Buffer
  <2>2. PICK room \in KernelRoom :
          LET taken == Min2(room, Len(out[d].buf) - out[d].off)
          IN  IF out[d].off + taken = Len(out[d].buf)
              THEN /\ out' = [out EXCEPT ![d] = [buf |-> <<>>, off |-> 0, round |-> NextRound(@)]]
                   /\ state' = [state EXCEPT ![d] = IF @ = "CONNACK_SENT" THEN "READY" ELSE @]
              ELSE /\ out' = [out EXCEPT ![d].off = @ + taken]
                   /\ UNCHANGED state
    BY <1>2 DEF ClientSend
  <2> DEFINE taken == Min2(room, Len(out[d].buf) - out[d].off)
  <2>3. CASE c # d
    <3>1. out'[c] = out[c]
      <4> HIDE DEF taken
      <4> QED
        BY <2>1, <2>2, <2>3
    <3> QED
      BY <2>1, <3>1, StaysSame
  <2>4. CASE c = d
    <3>1. out[c].off < Len(out[c].buf) /\ room \in 0 .. Rounds - 1
      BY <1>2, <2>4 DEF ClientSend, Waiting
    <3>2. taken \in 0 .. room /\ Rounds \in Nat \ {0}
      BY <2>1, <2>4, <3>1, SizesAssumption DEF Min2
    <3>3. CASE out[c].off + taken = Len(out[c].buf)
      <4>1. out'[c].round = NextRound(out[c])
        BY <2>1, <2>2, <2>4, <3>3
      <4>2. 1 \in 1 .. Rounds - 1
        <5> HIDE DEF taken
        <5> QED
          BY <2>1, <3>1, <3>2, <3>3
      <4>3. (out[c].round + 1) % Rounds # out[c].round
        BY <2>1, <3>2, <4>2, RemainderMoves
      <4> QED
        BY <1>2, <4>1, <4>3 DEF NextRound
    <3>4. CASE out[c].off + taken # Len(out[c].buf)
      <4>1. out'[c] = [out[c] EXCEPT !.off = out[c].off + taken]
        BY <2>1, <2>2, <2>4, <3>4
      <4> HIDE DEF taken
      <4>2. out'[c].buf = out[c].buf /\ out'[c].off = out[c].off + taken
        BY <2>1, <4>1 DEF Buffer
      <4>3. out'[c].off \in Nat /\ out[c].off <= out'[c].off
        BY <2>1, <3>1, <3>2, <4>2
      <4> QED
        BY <2>1, <4>2, <4>3, StaysSame
    <3> QED
      BY <3>3, <3>4
  <2> QED
    BY <2>3, <2>4
<1>3. IInv /\ [Next]_vars =>
        [\A c \in Slots :
           /\ state[c] # "DISCONNECTED" /\ state'[c] # "DISCONNECTED"
           /\ out'[c].round = out[c].round
           => /\ Len(out[c].buf) <= Len(out'[c].buf)
              /\ SubSeq(out'[c].buf, 1, Len(out[c].buf)) = out[c].buf
              /\ out[c].off <= out'[c].off]_vars
  <2> SUFFICES ASSUME IInv, Next, NEW c \in Slots
               PROVE  Kept(c)
    BY DEF BufferKept
  <2> QED
    BY <1>1, <1>2, EveryStep
<1> QED
  BY <1>3, Invariant, PTL DEF Spec, SendOrder
---------------------------------------------------------------------------
(***************************************************************************)
(* Which connections a packet ends.                                        *)
(***************************************************************************)

\* Only CONNECT, DISCONNECT and a packet cut short change a slot's state while
\* they are handled.
LEMMA StatesKept ==
  ASSUME NEW T, Good(T), NEW c \in Slots, T.state[c] # "DISCONNECTED",
         NEW p \in Inbound, p.type \notin {"CONNECT", "DISCONNECT", "MALFORMED"}
  PROVE  Handle(T, c, p).state = T.state
<1>0. T \in TablesType
  BY DEF Good
<1>1. \A X, q : (Queue(X, c, q)).state = X.state
  BY DEF Queue
<1>2. \A flows : EndFlow(T, c, flows).state = T.state
  BY DEF EndFlow
<1>3. CASE p.type = "PUBLISH"
  <2> DEFINE free == FreeFlows(T, c)
             R == IF p.msg.qos = 2 /\ ~Known(T, c, p.pid) /\ free # {}
                  THEN [T EXCEPT !.q2[c][Lowest(free)] =
                          [state |-> "IN_PUBREC_SENT", pid |-> p.pid]]
                  ELSE T
             A == CASE p.msg.qos = 1 -> Queue(R, c, Ack("PUBACK", p.pid))
                    [] p.msg.qos = 2 -> Queue(R, c, Ack("PUBREC", p.pid))
                    [] OTHER         -> R
  <2>1. R.state = T.state
    OBVIOUS
  <2> HIDE DEF R
  <2>2. A.state = T.state
    BY <1>1, <2>1
  <2> HIDE DEF A
  <2>3. OnPublish(T, c, p) = Forward(A, c, p.msg)
    BY DEF OnPublish, A, R
  <2>4. \A X, from, m : Forward(X, from, m).state = X.state
    BY DEF Forward, Retain
  <2> QED
    BY <1>3, <2>2, <2>3, <2>4 DEF Handle
<1>4. CASE p.type \in AckKinds
  <2>1. OnPuback(T, c, p).state = T.state /\ OnPubcomp(T, c, p).state = T.state
    BY <1>2 DEF OnPuback, OnPubcomp
  <2>2. OnPubrel(T, c, p).state = T.state
    BY <1>1, <1>2 DEF OnPubrel
  <2>3. OnPubrec(T, c, p).state = T.state
    <3> DEFINE i == Lowest(FlowsOf(T, c, p.pid, {"OUT_PUBLISH_SENT"}))
               Q == [T.q2 EXCEPT ![c][i].state = "OUT_PUBREL_SENT"]
    <3>1. [T EXCEPT !.q2[c][i].state = "OUT_PUBREL_SENT"] = [T EXCEPT !.q2 = Q]
      OBVIOUS
    <3> HIDE DEF Q
    <3>2. [T EXCEPT !.q2 = Q].state = T.state
      BY <1>0 DEF TablesType
    <3> QED
      BY <1>1, <3>1, <3>2 DEF OnPubrec
  <2> QED
    BY <1>4, <2>1, <2>2, <2>3 DEF Handle, AckKinds
<1>5. CASE p.type = "SUBSCRIBE"
  BY <1>5, SubscribeGood DEF Handle
<1>6. CASE p.type = "UNSUBSCRIBE"
  <2>1. \A S, X, q : Queue([T EXCEPT !.subs = S, !.session = X], c, q).state = T.state
    BY <1>0 DEF TablesType, Queue
  <2>2. OnUnsubscribe(T, c, p).state = T.state
    BY ZenonT(60), <2>1 DEF OnUnsubscribe
  <2> QED
    BY <1>6, <2>2 DEF Handle
<1>7. CASE p.type = "PINGREQ"
  BY <1>1, <1>7 DEF Handle
<1> QED
  BY <1>3, <1>4, <1>5, <1>6, <1>7 DEF Inbound

\* A CONNECT packet closes another slot only by evicting it, which takes the
\* clean-session flag and the same identifier.
LEMMA ConnectCloses ==
  ASSUME NEW T, Good(T), T.accepted = {}, NEW c \in Slots, T.state[c] # "DISCONNECTED",
         NEW p \in Inbound, p.type = "CONNECT",
         NEW d \in Slots, d # c, OnConnect(T, c, p).state[d] # T.state[d]
  PROVE  p.clean /\ T.session[d].id = p.id
<1> DEFINE W  == Identify(T, c, p)
           rc == ConnackCode(p)
           E  == IF rc = 0 THEN Evict(W, c, p) ELSE W
           old == Lowest(SlotsWithId(W, p.id))
<1>1. Good(W) /\ W.state = T.state /\ W.accepted = {}
  BY IdentifyGood
<1>2. W.session[c].id = p.id /\ W.session[d] = T.session[d]
  BY DEF Identify, Good, TablesType, Session
<1>3. p.whole
  BY <1>1, CloseGood DEF OnConnect
<1>4. OnConnect(T, c, p).state = E.state
  BY <1>3 DEF OnConnect, Queue, Answer
<1> HIDE DEF W, rc
<1>5. rc = 0 /\ p.clean /\ old # c /\ E = Close(W, old)
  BY <1>1, <1>4 DEF Evict
<1>6. old \in SlotsWithId(W, p.id) /\ old \in Slots
  <2>1. c \in SlotsWithId(W, p.id) /\ SlotsWithId(W, p.id) \subseteq Slots
    BY <1>1, <1>2 DEF SlotsWithId
  <2> QED
    BY <2>1, LowestIndex
<1>7. d = old
  BY <1>1, <1>4, <1>5, <1>6, CloseGood
<1> QED
  BY <1>2, <1>5, <1>6, <1>7 DEF SlotsWithId

\* A packet of one client ends no other client's connection, except a clean
\* CONNECT that of a client with the same identifier, in every reachable state.
THEOREM ClosesSameIdOnly == Spec => ClosesOnlySameId
<1>1. ASSUME IInv, NEW c \in Slots, NEW d \in Slots, c # d, d \in Open,
             state'[d] = "DISCONNECTED", NEW p \in Inputs, Recv(c, p)
      PROVE  p.type = "CONNECT" /\ p.clean /\ session[d].id = p.id
  <2> DEFINE T == Handle(Tables, c, p)
  <2>1. Good(Tables) /\ Tables.accepted = {} /\ Tables.state = state /\ Tables.session = session
    BY <1>1, TablesGood DEF Tables
  <2>2. p \in Inbound /\ state[c] # "DISCONNECTED" /\ state[d] # "DISCONNECTED" /\ Become(T)
    BY <1>1, InputsAssumption DEF Recv, Open
  <2>3. T.state[d] # state[d]
    <3> HIDE DEF T
    <3> QED
      BY <1>1, <2>2 DEF Become
  <2>4. CASE p.type \in {"DISCONNECT", "MALFORMED"}
    <3>1. \A e \in Slots : e # c => T.state[e] = Tables.state[e]
      BY <1>1, <2>1, <2>2, <2>4, CloseGood, DisconnectGood DEF Handle
    <3> QED
      BY <1>1, <2>1, <2>3, <3>1
  <2>5. CASE p.type = "CONNECT"
    <3>1. OnConnect(Tables, c, p).state[d] # Tables.state[d]
      BY <2>1, <2>3, <2>5 DEF Handle
    <3> QED
      BY <1>1, <2>1, <2>2, <2>5, <3>1, ConnectCloses
  <2>6. CASE p.type \notin {"CONNECT", "DISCONNECT", "MALFORMED"}
    BY <2>1, <2>2, <2>3, <2>6, StatesKept
  <2> QED
    BY <2>4, <2>5, <2>6
<1>2. IInv /\ [Next]_vars =>
        [\A c, d \in Slots : c # d /\ d \in Open /\ state'[d] = "DISCONNECTED" =>
           \A p \in Inputs : Recv(c, p) =>
             p.type = "CONNECT" /\ p.clean /\ session[d].id = p.id]_vars
  BY <1>1
<1> QED
  BY <1>2, Invariant, PTL DEF Spec, ClosesOnlySameId

---------------------------------------------------------------------------
(***************************************************************************)
(* The broker implements PubSub.  A handler maps tables to tables, so the  *)
(* promise is first stated of two tables, and one lemma per handler shows  *)
(* that it is kept.                                                        *)
(***************************************************************************)
OpenIn(T) == {c \in Slots : T.state[c] # "DISCONNECTED"}

InterestIn(T) ==
  {<<T.subs[s].owner, T.subs[s].filter>> : s \in {t \in SubSlots : Lasting(T, t)}}

\* The clients in gone have left between T and W, with all their interest.
Left(T, W, gone) ==
  /\ gone \subseteq OpenIn(T) /\ OpenIn(W) = OpenIn(T) \ gone
  /\ InterestIn(W) = {i \in InterestIn(T) : i[1] \notin gone}

\* Client c has subscribed or unsubscribed between T and W.
Asked(T, W, c) ==
  /\ OpenIn(W) = OpenIn(T)
  /\ \E filters \in SUBSET Filters :
       \/ InterestIn(W) = InterestIn(T) \cup ({c} \X filters)
       \/ InterestIn(W) = InterestIn(T) \ ({c} \X filters)

\* What PubSub allows a handler.
Kept(T, W) ==
  \/ \E gone \in SUBSET Slots : Left(T, W, gone)
  \/ \E c \in OpenIn(T) : Asked(T, W, c)

---------------------------------------------------------------------------
\* A step that leaves the two tables alone is one in which nobody leaves.
LEMMA NothingLeft ==
  ASSUME NEW T, NEW W, W.subs = T.subs, W.state = T.state
  PROVE  Left(T, W, {})
BY DEF Left, OpenIn, InterestIn, Lasting

\* Of the subscriptions that were listed, a client's list names exactly its own.
LEMMA HeldIsOwned ==
  ASSUME NEW T, Good(T), NEW c \in Slots, NEW s \in SubSlots, Lasting(T, s)
  PROVE  s \in T.session[c].held <=> T.subs[s].owner = c
BY DEF Good, HeldOK, ListedOK

\* What closing a client does to the two tables.
LEMMA CloseEffect ==
  ASSUME NEW T, Good(T), NEW c \in Slots, c \notin T.accepted
  PROVE  /\ Close(T, c).subs =
              [s \in SubSlots |-> IF s \in T.session[c].held THEN None ELSE T.subs[s]]
         /\ OpenIn(Close(T, c)) = OpenIn(T) \ {c}
<1> DEFINE W == IF T.session[c].will = None THEN T ELSE Forward(T, Api, T.session[c].will)
<1>1. W.subs = T.subs /\ W.session = T.session
  BY DEF Forward, Retain
<1>2. FreeSubs(W, c).subs =
        [s \in SubSlots |-> IF s \in T.session[c].held THEN None ELSE T.subs[s]]
  BY <1>1 DEF FreeSubs
<1>3. Close(T, c).subs = FreeSubs(W, c).subs
  BY DEF Close
<1>4. Close(T, c).state[c] = "DISCONNECTED"
  <2>1. W.state = T.state
    <3>1. \A m : Forward(T, Api, m).state = T.state
      BY DEF Forward, Retain
    <3> QED
      BY <3>1
  <2>2. FreeSubs(W, c).state = W.state
    <3> HIDE DEF W
    <3> QED
      BY DEF FreeSubs
  <2>3. Close(T, c).state = [FreeSubs(W, c).state EXCEPT ![c] = "DISCONNECTED"]
    BY DEF Close
  <2> QED
    BY <2>1, <2>2, <2>3 DEF Good, TablesType
<1> HIDE DEF W
<1>5. OpenIn(Close(T, c)) = OpenIn(T) \ {c}
  BY <1>4, CloseGood DEF OpenIn
<1> QED
  BY <1>2, <1>3, <1>5

\* Closing an open client: it leaves, with all its interest and nobody else's.
LEMMA CloseLeaves ==
  ASSUME NEW T, Good(T), NEW c \in Slots, c \notin T.accepted,
         T.state[c] # "DISCONNECTED"
  PROVE  Left(T, Close(T, c), {c})
<1> DEFINE C == Close(T, c)
<1>0. C.subs = [s \in SubSlots |-> IF s \in T.session[c].held THEN None ELSE T.subs[s]]
  BY CloseEffect
<1>1. \A s \in SubSlots :
        /\ Lasting(C, s) <=> Lasting(T, s) /\ T.subs[s].owner # c
        /\ Lasting(C, s) => C.subs[s] = T.subs[s]
  <2> SUFFICES ASSUME NEW s \in SubSlots
               PROVE  /\ Lasting(C, s) <=> Lasting(T, s) /\ T.subs[s].owner # c
                      /\ Lasting(C, s) => C.subs[s] = T.subs[s]
    OBVIOUS
  <2> HIDE DEF C
  <2>1. C.subs[s] = IF s \in T.session[c].held THEN None ELSE T.subs[s]
    BY <1>0
  <2>2. CASE ~Lasting(T, s)
    BY <2>1, <2>2 DEF Lasting
  <2>3. CASE Lasting(T, s)
    <3>1. s \in T.session[c].held <=> T.subs[s].owner = c
      BY <2>3, HeldIsOwned
    <3> QED
      BY <2>1, <2>3, <3>1 DEF Lasting
  <2> QED
    BY <2>2, <2>3
<1>2. OpenIn(C) = OpenIn(T) \ {c}
  BY CloseEffect
<1> HIDE DEF C
<1>3. InterestIn(C) = {i \in InterestIn(T) : i[1] \notin {c}}
  BY <1>1 DEF InterestIn
<1> QED
  BY <1>2, <1>3 DEF Left, OpenIn, C

\* SUBSCRIBE adds subscriptions of its client in unused entries.
LEMMA SubscribeAsks ==
  ASSUME NEW T, Good(T), NEW c \in Slots, T.state[c] # "DISCONNECTED",
         NEW p \in Inbound, p.type = "SUBSCRIBE"
  PROVE  Asked(T, OnSubscribe(T, c, p), c)
<1> DEFINE asked   == Min2(Len(p.topics), MaxCodes)
           free    == UnusedSubs(T)
           granted == Min2(Min2(asked, MaxPending), Cardinality(free))
           new     == {s \in free : Rank(free, s) <= granted}
           topic(s) == p.topics[Rank(free, s)]
           fits(s) == Cardinality(T.session[c].held) + Rank(free, s) <= MaxPending
           F == OnSubscribe(T, c, p)
           filters == {F.subs[s].filter : s \in {n \in new : fits(n)}}
<1>0. \A s \in new : topic(s).filter \in Filters /\ topic(s).qos \in QoS
  <2>1. Len(p.topics) \in Nat /\ p.topics \in Seq([filter : Filters, qos : QoS])
    BY DEF Inbound, AckKinds
  <2>2. free \subseteq SubSlots /\ IsFiniteSet(free) /\ free \in SUBSET Int
        /\ Cardinality(free) \in Nat
    BY TablesFinite DEF UnusedSubs
  <2>3. granted <= Len(p.topics) /\ granted \in Nat
    <3> HIDE DEF free
    <3> QED
      BY <2>1, <2>2, SizesAssumption DEF Min2
  <2>4. ASSUME NEW s \in new PROVE Rank(free, s) \in 1 .. Len(p.topics)
    <3>1. Rank(free, s) \in 1 .. Cardinality(free) /\ Rank(free, s) <= granted
      BY <2>2, RankRange
    <3> HIDE DEF free, granted
    <3> QED
      BY <2>1, <2>2, <2>3, <3>1
  <2> HIDE DEF new, free
  <2>5. ASSUME NEW s \in new PROVE topic(s) \in [filter : Filters, qos : QoS]
    BY <2>1, <2>4, ElementType
  <2> QED
    BY <2>5
<1>1. F.subs = [s \in SubSlots |->
                 IF s \in new
                 THEN [filter |-> topic(s).filter, owner |-> c, qos |-> topic(s).qos,
                       listed |-> fits(s)]
                 ELSE T.subs[s]]
  BY DEF OnSubscribe, Queue
<1>2. new \subseteq SubSlots /\ \A s \in new : T.subs[s] = None
  BY DEF UnusedSubs
<1>3. Good(F) /\ F.state = T.state
  BY SubscribeGood
<1>8. \A s \in new : fits(s) \in BOOLEAN
  OBVIOUS
<1> HIDE DEF F, new, topic, fits
<1>4. \A s \in new : /\ F.subs[s] # None /\ F.subs[s].owner = c
                     /\ F.subs[s].filter \in Filters /\ F.subs[s].listed = fits(s)
  <2> SUFFICES ASSUME NEW s \in new
               PROVE  /\ F.subs[s] # None /\ F.subs[s].owner = c
                      /\ F.subs[s].filter \in Filters /\ F.subs[s].listed = fits(s)
    OBVIOUS
  <2>1. F.subs[s] = [filter |-> topic(s).filter, owner |-> c, qos |-> topic(s).qos,
                     listed |-> fits(s)]
    BY <1>1, <1>2
  <2>2. F.subs[s].owner = c /\ F.subs[s].listed = fits(s) /\ F.subs[s] \in Sub
    BY <1>0, <1>8, <2>1 DEF Sub
  <2> QED
    BY <2>2, NoneAssumption DEF Sub
<1>5. \A s \in SubSlots \ new : F.subs[s] = T.subs[s]
  BY <1>1
<1>6. InterestIn(F) = InterestIn(T) \cup ({c} \X filters)
  <2>1. \A s \in SubSlots : Lasting(F, s) <=> Lasting(T, s) \/ (s \in new /\ fits(s))
    BY <1>2, <1>4, <1>5 DEF Lasting
  <2>2. \A s \in SubSlots : Lasting(T, s) => F.subs[s] = T.subs[s]
    BY <1>2, <1>5 DEF Lasting
  <2> QED
    BY <1>2, <1>4, <2>1, <2>2 DEF InterestIn
<1>7. filters \subseteq Filters
  BY <1>4
<1> QED
  BY <1>3, <1>6, <1>7 DEF Asked, OpenIn, F

\* UNSUBSCRIBE removes those of its client's listed subscriptions that it names.
LEMMA UnsubscribeAsks ==
  ASSUME NEW T, Good(T), NEW c \in Slots,
         T.state[c] # "DISCONNECTED", NEW p \in Inbound, p.type = "UNSUBSCRIBE"
  PROVE  Asked(T, OnUnsubscribe(T, c, p), c)
<1> DEFINE gone == {s \in T.session[c].held : T.subs[s] # None /\ T.subs[s].filter \in p.filters}
           F == OnUnsubscribe(T, c, p)
           filters == p.filters \cap Filters
<1>1. F.subs = [s \in SubSlots |-> IF s \in gone THEN None ELSE T.subs[s]]
  BY DEF OnUnsubscribe, Queue
<1>2. F.state = T.state
  BY DEF OnUnsubscribe, Queue
<1>3. \A s \in SubSlots : Lasting(T, s) =>
        (s \in gone <=> T.subs[s].owner = c /\ T.subs[s].filter \in filters)
  <2> SUFFICES ASSUME NEW s \in SubSlots, Lasting(T, s)
               PROVE  s \in gone <=> T.subs[s].owner = c /\ T.subs[s].filter \in filters
    OBVIOUS
  <2>1. s \in T.session[c].held <=> T.subs[s].owner = c
    BY HeldIsOwned
  <2>2. T.subs[s].filter \in Filters /\ T.subs[s] # None
    BY DEF Good, TablesType, Sub, Lasting
  <2> QED
    BY <2>1, <2>2
<1> HIDE DEF F, gone, filters
<1>4. InterestIn(F) = InterestIn(T) \ ({c} \X filters)
  <2>1. \A s \in SubSlots : /\ Lasting(F, s) <=> Lasting(T, s) /\ s \notin gone
                            /\ Lasting(F, s) => F.subs[s] = T.subs[s]
    BY <1>1 DEF Lasting
  <2> QED
    BY <1>3, <2>1 DEF InterestIn
<1> QED
  BY <1>2, <1>4 DEF Asked, OpenIn, F, filters

\* CONNECT ends the connection of the client that it evicts, or its own.
LEMMA ConnectLeaves ==
  ASSUME NEW T, Good(T), T.accepted = {}, NEW c \in Slots,
         T.state[c] # "DISCONNECTED", NEW p \in Inbound, p.type = "CONNECT"
  PROVE  \E gone \in SUBSET Slots : Left(T, OnConnect(T, c, p), gone)
<1> DEFINE W  == Identify(T, c, p)
           rc == ConnackCode(p)
           E  == IF rc = 0 THEN Evict(W, c, p) ELSE W
           F  == OnConnect(T, c, p)
           old == Lowest(SlotsWithId(W, p.id))
<1>1. Good(W) /\ W.state = T.state /\ W.accepted = {}
  BY IdentifyGood
<1>2. W.subs = T.subs /\ W.session[c].id = p.id
  BY DEF Identify, Good, TablesType, Session
<1>3. \A X, gone : Left(W, X, gone) => Left(T, X, gone)
  <2> HIDE DEF W
  <2> QED
    BY <1>1, <1>2 DEF Left, OpenIn, InterestIn, Lasting
<1>4. ASSUME ~p.whole PROVE Left(T, F, {c})
  <2>1. F = Close(W, c)
    BY <1>4 DEF OnConnect
  <2> HIDE DEF W, F
  <2>2. Left(W, F, {c})
    BY <1>1, <2>1, CloseLeaves
  <2> QED
    BY <1>3, <2>2
<1>5. ASSUME p.whole PROVE \E gone \in SUBSET Slots : Left(T, F, gone)
  <2>1. F.state = E.state /\ F.subs = E.subs
    BY <1>5 DEF OnConnect, Queue, Answer
  <2>2. \A gone : Left(W, E, gone) => Left(W, F, gone)
    <3> HIDE DEF E, F, W
    <3> QED
      BY <2>1 DEF Left, OpenIn, InterestIn, Lasting
  <2> HIDE DEF W, rc, F
  <2>3. CASE E = W
    BY <1>3, <2>2, <2>3, NothingLeft
  <2>4. CASE E # W
    <3>1. E = Close(W, old)
      BY <2>4 DEF Evict
    <3>2. old \in SlotsWithId(W, p.id)
      <4>1. c \in SlotsWithId(W, p.id) /\ SlotsWithId(W, p.id) \subseteq Slots
        BY <1>1, <1>2 DEF SlotsWithId
      <4> QED
        BY <4>1, LowestIndex
    <3>3. Left(W, E, {old}) /\ {old} \in SUBSET Slots
      BY <1>1, <3>1, <3>2, CloseLeaves DEF SlotsWithId
    <3> QED
      BY <1>3, <2>2, <3>3
  <2> QED
    BY <2>3, <2>4
<1> QED
  BY <1>4, <1>5 DEF F

\* The handlers of messages, acknowledgements and PINGREQ leave the subscriptions alone.
LEMMA SubsKept ==
  ASSUME NEW T \in TablesType, NEW c \in Slots, NEW p \in Inbound,
         p.type \notin {"CONNECT", "SUBSCRIBE", "UNSUBSCRIBE", "DISCONNECT", "MALFORMED"}
  PROVE  Handle(T, c, p).subs = T.subs
<1>1. \A X, q : Queue(X, c, q).subs = X.subs
  BY DEF Queue
<1>2. \A flows : EndFlow(T, c, flows).subs = T.subs
  BY DEF EndFlow
<1>3. CASE p.type = "PUBLISH"
  <2> DEFINE free == FreeFlows(T, c)
             R == IF p.msg.qos = 2 /\ ~Known(T, c, p.pid) /\ free # {}
                  THEN [T EXCEPT !.q2[c][Lowest(free)] =
                          [state |-> "IN_PUBREC_SENT", pid |-> p.pid]]
                  ELSE T
             A == CASE p.msg.qos = 1 -> Queue(R, c, Ack("PUBACK", p.pid))
                    [] p.msg.qos = 2 -> Queue(R, c, Ack("PUBREC", p.pid))
                    [] OTHER         -> R
  <2>1. R.subs = T.subs
    OBVIOUS
  <2> HIDE DEF R
  <2>2. A.subs = T.subs
    BY <1>1, <2>1
  <2> HIDE DEF A
  <2>3. OnPublish(T, c, p) = Forward(A, c, p.msg)
    BY DEF OnPublish, A, R
  <2>4. \A X, from, m : Forward(X, from, m).subs = X.subs
    BY DEF Forward, Retain
  <2> QED
    BY <1>3, <2>2, <2>3, <2>4 DEF Handle
<1>4. CASE p.type \in AckKinds
  <2>1. OnPuback(T, c, p).subs = T.subs /\ OnPubcomp(T, c, p).subs = T.subs
    BY <1>2 DEF OnPuback, OnPubcomp
  <2>2. OnPubrel(T, c, p).subs = T.subs
    BY <1>1, <1>2 DEF OnPubrel
  <2>3. OnPubrec(T, c, p).subs = T.subs
    <3> DEFINE i == Lowest(FlowsOf(T, c, p.pid, {"OUT_PUBLISH_SENT"}))
               Q == [T.q2 EXCEPT ![c][i].state = "OUT_PUBREL_SENT"]
    <3>1. [T EXCEPT !.q2[c][i].state = "OUT_PUBREL_SENT"] = [T EXCEPT !.q2 = Q]
      OBVIOUS
    <3> HIDE DEF Q
    <3>2. [T EXCEPT !.q2 = Q].subs = T.subs
      BY DEF TablesType
    <3> QED
      BY <1>1, <3>1, <3>2 DEF OnPubrec
  <2> QED
    BY <1>4, <2>1, <2>2, <2>3 DEF Handle, AckKinds
<1>5. CASE p.type = "PINGREQ"
  BY <1>1, <1>5 DEF Handle
<1> QED
  BY <1>3, <1>4, <1>5 DEF Inbound

\* Every packet's handler keeps the promise.
LEMMA HandleKept ==
  ASSUME NEW T, Good(T), T.accepted = {}, NEW c \in Slots,
         T.state[c] # "DISCONNECTED", NEW p \in Inbound
  PROVE  Kept(T, Handle(T, c, p))
<1>0. c \in OpenIn(T)
  BY DEF OpenIn
<1>1. CASE p.type = "CONNECT"
  BY <1>1, ConnectLeaves DEF Handle, Kept
<1>2. CASE p.type = "SUBSCRIBE"
  BY <1>0, <1>2, SubscribeAsks DEF Handle, Kept
<1>3. CASE p.type = "UNSUBSCRIBE"
  BY <1>0, <1>3, UnsubscribeAsks DEF Handle, Kept
<1>4. CASE p.type = "MALFORMED"
  BY <1>4, CloseLeaves DEF Handle, Kept
<1>5. CASE p.type = "DISCONNECT"
  <2> DEFINE new == [T.session[c] EXCEPT !.will = None]
             W   == [T EXCEPT !.session = [T.session EXCEPT ![c] = new]]
  <2>1. new \in Session /\ new.held = T.session[c].held
    <3>1. T.session[c] \in Session
      BY DEF Good, TablesType
    <3> QED
      BY <3>1 DEF Session
  <2>2. [T EXCEPT !.session[c].will = None] = W
    BY DEF Good, TablesType, Session
  <2>3. W.accepted = {} /\ W.state = T.state /\ W.subs = T.subs
    BY DEF Good, TablesType
  <2> HIDE DEF new
  <2>4. Good(W)
    BY <2>1, SessionGood
  <2> HIDE DEF W
  <2>5. Left(W, Close(W, c), {c})
    BY <2>3, <2>4, CloseLeaves
  <2>6. Left(T, Close(W, c), {c})
    BY <2>3, <2>5 DEF Left, OpenIn, InterestIn, Lasting
  <2> QED
    BY <1>5, <2>2, <2>6 DEF Handle, OnDisconnect, Kept
<1>6. CASE p.type \notin {"CONNECT", "SUBSCRIBE", "UNSUBSCRIBE", "DISCONNECT", "MALFORMED"}
  <2> DEFINE W == Handle(T, c, p)
  <2>1. W.subs = T.subs /\ W.state = T.state
    BY <1>6, SubsKept, StatesKept DEF Good
  <2> HIDE DEF W
  <2>2. Left(T, W, {})
    BY <2>1, NothingLeft
  <2> QED
    BY <2>2 DEF Kept, W
<1> QED
  BY <1>1, <1>2, <1>3, <1>4, <1>5, <1>6

---------------------------------------------------------------------------
(***************************************************************************)
(* The steps.                                                              *)
(***************************************************************************)
Interest ==
  {<<subs[s].owner, subs[s].filter>> : s \in {t \in SubSlots : subs[t] # None /\ subs[t].listed}}

\* What the tables of a handler show is what a program sees of them afterwards.
LEMMA BecomeShows ==
  ASSUME NEW T, Become(T),
         \A c \in Slots : c \in T.accepted => T.state[c] # "DISCONNECTED"
  PROVE  Open' = OpenIn(T) /\ Interest' = InterestIn(T)
<1>1. PICK room : state' = [c \in Slots |->
                      IF c \in T.accepted THEN "CONNACK_SENT"
                      ELSE IF /\ T.state[c] = "CONNACK_SENT" /\ T.emit[c] # <<>>
                              /\ Drains(out[c], T.emit[c], room[c])
                           THEN "READY" ELSE T.state[c]]
  BY DEF Become
<1>2. \A c \in Slots : state'[c] = "DISCONNECTED" <=> T.state[c] = "DISCONNECTED"
  BY <1>1
<1>3. subs' = T.subs
  BY DEF Become
<1>4. Open' = OpenIn(T)
  BY <1>2 DEF Open, OpenIn
<1>5. Interest' = InterestIn(T)
  BY <1>3 DEF Interest, InterestIn, Lasting
<1> QED
  BY <1>4, <1>5

\* The step of a handler that keeps the promise is a step of PubSub.
LEMMA KeptIsPromised ==
  ASSUME IInv, NEW T, Good(T), Become(T), Kept(Tables, T)
  PROVE  Promise!Next
<1>1. Open = OpenIn(Tables) /\ Interest = InterestIn(Tables)
  BY DEF Open, OpenIn, Interest, InterestIn, Lasting, Tables
<1>2. Open' = OpenIn(T) /\ Interest' = InterestIn(T)
  BY BecomeShows DEF Good, CleanOK
<1>3. ASSUME NEW gone \in SUBSET Slots, Left(Tables, T, gone) PROVE Promise!Next
  BY <1>1, <1>2, <1>3 DEF Left, Promise!Next, Promise!Leave, Interest
<1>4. ASSUME NEW c \in OpenIn(Tables), Asked(Tables, T, c) PROVE Promise!Next
  BY <1>1, <1>2, <1>4
     DEF Asked, Promise!Next, Promise!Subscribe, Promise!Unsubscribe, Interest
<1> QED
  BY <1>3, <1>4 DEF Kept

\* Accepting a connection: the client arrives without any interest.
LEMMA AcceptPromised ==
  ASSUME IInv, Accept
  PROVE  Promise!Next
<1> DEFINE c == Lowest(Slots \ Open)
<1>1. c \in Slots \ Open
  BY LowestIndex DEF Accept
<1> HIDE DEF c
<1> DEFINE T == [Tables EXCEPT !.state[c] = "CONNACK_SENT", !.session[c] = NoSession,
                               !.q2[c] = NoFlows]
<1>2. Become(T)
  BY DEF Accept, c
<1>3. /\ T.accepted = {} /\ T.subs = subs
      /\ T.state = [state EXCEPT ![c] = "CONNACK_SENT"]
  BY DEF Tables
<1> HIDE DEF T
<1>4. Open' = OpenIn(T) /\ Interest' = InterestIn(T)
  BY <1>2, <1>3, BecomeShows
<1>5. Open' = Open \cup {c}
  BY <1>1, <1>3, <1>4 DEF IInv, TypeOK, Open, OpenIn
<1>6. Interest' = Interest
  BY <1>3, <1>4 DEF Interest, InterestIn, Lasting
<1> QED
  BY <1>1, <1>5, <1>6 DEF Promise!Next, Promise!Arrive, Interest

\* The end and the start of a broker: everybody leaves.
LEMMA BlankPromised ==
  ASSUME IInv, Become(Blank)
  PROVE  Promise!Next
<1>1. Left(Tables, Blank, OpenIn(Tables))
  <2>1. OpenIn(Blank) = {} /\ InterestIn(Blank) = {}
    BY DEF OpenIn, InterestIn, Lasting, Blank
  <2>2. \A s \in SubSlots : subs[s] # None /\ subs[s].listed => subs[s].owner \in OpenIn(Tables)
    BY DEF IInv, TypeOK, Sub, ListedStayHeld, ClosedSlotClean, NoSession, OpenIn, Tables
  <2>3. \A i \in InterestIn(Tables) : i[1] \in OpenIn(Tables)
    <3> SUFFICES ASSUME NEW s \in SubSlots, subs[s] # None, subs[s].listed
                 PROVE  <<subs[s].owner, subs[s].filter>>[1] \in OpenIn(Tables)
      BY DEF InterestIn, Lasting, Tables
    <3> QED
      BY <2>2
  <2> QED
    BY <2>1, <2>3 DEF Left
<1>2. Good(Blank)
  BY BlankGood
<1>3. Kept(Tables, Blank)
  BY <1>1 DEF Kept, OpenIn
<1> QED
  BY <1>2, <1>3, KeptIsPromised

\* Taking a packet.
LEMMA TakingPromised ==
  ASSUME IInv, NEW c \in Slots, NEW p \in Inbound, Recv(c, p)
  PROVE  Promise!Next
<1>1. Good(Tables) /\ Tables.accepted = {} /\ Tables.state[c] # "DISCONNECTED"
  BY TablesGood DEF Recv, Open
<1>2. Good(Handle(Tables, c, p)) /\ Kept(Tables, Handle(Tables, c, p))
  BY <1>1, HandleGood, HandleKept
<1>3. Become(Handle(Tables, c, p))
  BY DEF Recv
<1> QED
  BY <1>2, <1>3, KeptIsPromised

\* The end of one connection.
LEMMA EndPromised ==
  ASSUME IInv, NEW c \in Slots, PeerGone(c) \/ KeepaliveTimeout(c)
  PROVE  Promise!Next
<1>1. state[c] # "DISCONNECTED" /\ Become(Close(Tables, c))
  BY DEF PeerGone, KeepaliveTimeout, Open
<1>2. Good(Tables) /\ Tables.accepted = {} /\ Tables.state = state
  BY TablesGood
<1>3. Good(Close(Tables, c)) /\ Left(Tables, Close(Tables, c), {c})
  BY <1>1, <1>2, CloseGood, CloseLeaves
<1> QED
  BY <1>1, <1>3, KeptIsPromised DEF Kept

\* A message of the program.
LEMMA ApiPromised ==
  ASSUME IInv, NEW m \in ApiMessages, ApiPublish(m)
  PROVE  Promise!Next
<1> DEFINE F == Forward(Tables, Api, m)
<1>1. m \in Message /\ Api \in Senders
  BY InputsAssumption DEF Senders
<1>2. Good(F)
  BY <1>1, TablesGood, ForwardGood
<1>3. F.subs = Tables.subs /\ F.state = Tables.state
  BY DEF Forward, Retain
<1>4. Become(F)
  BY DEF ApiPublish
<1> HIDE DEF F
<1>5. Left(Tables, F, {})
  BY <1>3, NothingLeft
<1> QED
  BY <1>2, <1>4, <1>5, KeptIsPromised DEF Kept

LEMMA PromisedAtFirst == Init => Promise!Init
BY DEF Init, Blank, Open, Promise!Init

\* The broker implements PubSub for what SUBSCRIBE lists, for every number of clients and
\* subscriptions, every length of the clients' lists and whatever the clients send.
THEOREM BranchImplementsPubSub ==
  Spec => ImplementsPubSub
<1>1. ASSUME IInv, [Next]_vars
      PROVE  [Promise!Next]_<<Open, Interest>>
  <2>1. CASE Accept
    BY <1>1, <2>1, AcceptPromised
  <2>2. ASSUME NEW c \in Slots, NEW p \in Inputs, Recv(c, p)
        PROVE  Promise!Next
    BY <1>1, <2>2, InputsAssumption, TakingPromised
  <2>3. ASSUME NEW c \in Slots, ClientSend(c)
        PROVE  [Promise!Next]_<<Open, Interest>>
    <3>1. Open' = Open
      BY <1>1, <2>3 DEF ClientSend, Open, IInv, TypeOK
    <3>2. Interest' = Interest
      BY <2>3 DEF ClientSend, Interest
    <3> QED
      BY <3>1, <3>2
  <2>4. ASSUME NEW c \in Slots, PeerGone(c) \/ KeepaliveTimeout(c)
        PROVE  Promise!Next
    BY <1>1, <2>4, EndPromised
  <2>5. ASSUME NEW m \in ApiMessages, ApiPublish(m)
        PROVE  Promise!Next
    BY <1>1, <2>5, ApiPromised
  <2>6. CASE Destroy \/ Create
    BY <1>1, <2>6, BlankPromised DEF Destroy, Create
  <2>7. CASE UNCHANGED vars
    BY <2>7 DEF vars, Open, Interest
  <2> QED
    BY <1>1, <2>1, <2>2, <2>3, <2>4, <2>5, <2>6, <2>7 DEF Next
<1>2. IInv /\ [Next]_vars => [Promise!Next]_<<Open, Interest>>
  BY <1>1
<1> QED
  BY <1>2, PromisedAtFirst, Invariant, PTL DEF Spec, ImplementsPubSub, Promise!Spec, Interest
===========================================================================
