------------------------- MODULE LeafBranchProofs -------------------------
(***************************************************************************)
(* Proofs about the client and the broker together, for every size of      *)
(* their tables and of the way between them, whatever the other clients of *)
(* the broker send and whichever connections end.                          *)
(*                                                                         *)
(* The client's own invariants are those of LeafProofs, and the broker's   *)
(* those of BranchProofs: what is added relates the two and the packets on *)
(* their way.                                                              *)
(***************************************************************************)
EXTENDS LeafBranch, BranchProofs

\* The proofs about the client, for a peer that may send whatever a broker can.
P == INSTANCE LeafProofs WITH
  MaxPending <- LeafPending, MaxSubs <- LeafSubs, MaxRetries <- LeafRetries,
  Parts <- 1, Takes <- {1}, TooLong <- {}, PeerPackets <- Outbound,
  state <- l_state, subs <- l_subs, next_pid <- l_next_pid

---------------------------------------------------------------------------
(***************************************************************************)
(* The inductive invariant.                                                *)
(***************************************************************************)
\* What is on the way has its type, and belongs to a connection that both sides know.
WayOK ==
  /\ mine \subseteq Open /\ (mine # {} => phase = "up") /\ link \in mine \cup {None}
  /\ up \in [Slots -> Seq(Inbound)] /\ down \in Seq(Outbound)
  /\ \A c \in Slots \ mine : up[c] = <<>>
  /\ ~Established(l_state) => link = None /\ down = <<>>

\* A CONNACK that accepts is on its way, or was taken, only after the slot accepted.
AcceptedOK ==
  link # None =>
    /\ l_state = "READY" => session[link].connected
    /\ \A k \in 1 .. Len(down) :
         down[k].type = "CONNACK" /\ down[k].rc = 0 => session[link].connected

\* The send buffer holds what a call encoded, never CONNECT: the whole of it was sent.
QueuedOK ==
  buf.pkt # None => l_state = "READY" /\ buf.pkt.type \in {"PUBLISH", "SUBSCRIBE", "UNSUBSCRIBE"}

\* In what is on the way to a slot, CONNECT comes once, unless the slot has accepted it,
\* and only answers and DISCONNECT before it.
Ordered(q, accepted) ==
  \A k \in 1 .. Len(q) :
    IF q[k].type = "CONNECT"
    THEN ~accepted /\ \A j \in 1 .. k - 1 : q[j].type # "CONNECT"
    ELSE \/ accepted \/ q[k].type \in AckKinds \cup {"DISCONNECT"}
         \/ \E j \in 1 .. k - 1 : q[j].type = "CONNECT"

\* Once CONNECT has left the client, it is on its way or was accepted.
IntroducedOK ==
  /\ link # None /\ l_state = "CONNACK_WAIT" =>
       session[link].connected \/ \E k \in 1 .. Len(up[link]) : up[link][k].type = "CONNECT"
  /\ \A c \in mine : \A k \in 1 .. Len(up[c]) :
       up[c][k].type = "CONNECT" => up[c][k] = OwnConnect

Asks(p, f) ==
  p # None /\ p.type = "SUBSCRIBE" /\ \E i \in 1 .. Len(p.topics) : p.topics[i].filter = f

Ends(p, f) == p # None /\ p.type = "UNSUBSCRIBE" /\ f \in p.filters

Has(filters, f) == \E i \in 1 .. Len(filters) : filters[i] = f

\* After its first k packets, q ends f.
EndedAfter(q, k, f) == \E j \in k + 1 .. Len(q) : Ends(q[j], f)

\* After the first k packets on its way, f is a filter of the client or will be ended.
\* Or the UNSUBSCRIBE that ended it was lost before it was sent.
Settled(f, k) ==
  Has(l_subs, f) \/ Ends(buf.pkt, f) \/ EndedAfter(up[link], k, f) \/ f \in lost

\* Whatever the broker has listed for the client, or will after a SUBSCRIBE on its way, is
\* settled by what follows.
SubsOK ==
  /\ link # None =>
       /\ \A s \in SubSlots :
            subs[s] # None /\ subs[s].listed /\ subs[s].owner = link =>
              Settled(subs[s].filter, 0)
       /\ \A k \in 1 .. Len(up[link]) : \A f \in Filters :
            Asks(up[link][k], f) => Settled(f, k)
  /\ \A f \in Filters : Asks(buf.pkt, f) => Has(l_subs, f)
  /\ lost # {} => l_state = "READY"

ClientOK == P!IInv /\ P!SnapshotsPublish /\ QueuedOK

\* What the invariants of this module rest on.
LinkInv == IInv /\ ClientOK /\ WayOK /\ AcceptedOK

---------------------------------------------------------------------------
(***************************************************************************)
(* What a handler does to the other clients, and never does to its own.    *)
(***************************************************************************)
\* What is sent to slot c accepts a CONNECT only if the slot has accepted it.
AnswersOK(T, c) ==
  \A k \in 1 .. Len(T.emit[c]) :
    T.emit[c][k].type = "CONNACK" /\ T.emit[c][k].rc = 0 => T.session[c].connected

\* Between the tables T and W only client c was accepted, and only it was given
\* subscriptions.
Moved(T, W, c) ==
  /\ \A d \in Slots : T.state[d] # "DISCONNECTED" /\ W.state[d] # "DISCONNECTED" =>
       /\ T.session[d].connected => W.session[d].connected
       /\ AnswersOK(T, d) => AnswersOK(W, d)
       /\ d # c => W.session[d].connected = T.session[d].connected
  /\ \A s \in SubSlots : W.subs[s] # None => W.subs[s].owner = c \/ W.subs[s] = T.subs[s]

\* Nothing that Moved looks at has changed.
LEMMA MovedSame ==
  ASSUME NEW T, NEW W, NEW c, W.subs = T.subs, W.emit = T.emit,
         \A d \in Slots : W.session[d].connected = T.session[d].connected
  PROVE  Moved(T, W, c)
BY DEF Moved, AnswersOK

\* Two such steps in a row are one.
LEMMA MovedTwice ==
  ASSUME NEW T, NEW W, NEW X, NEW c, Moved(T, W, c), Moved(W, X, c),
         \A d \in Slots : X.state[d] # "DISCONNECTED" => W.state[d] # "DISCONNECTED"
  PROVE  Moved(T, X, c)
<1>1. \A s \in SubSlots : X.subs[s] # None => X.subs[s].owner = c \/ X.subs[s] = T.subs[s]
  BY DEF Moved
<1>2. ASSUME NEW d \in Slots, T.state[d] # "DISCONNECTED", X.state[d] # "DISCONNECTED"
      PROVE  /\ T.session[d].connected => X.session[d].connected
             /\ AnswersOK(T, d) => AnswersOK(X, d)
             /\ d # c => X.session[d].connected = T.session[d].connected
  <2>1. W.state[d] # "DISCONNECTED"
    BY <1>2
  <2> QED
    BY <1>2, <2>1 DEF Moved
<1> QED
  BY <1>1, <1>2 DEF Moved

\* What is queued for a client that others only forward to.
LEMMA MoreSent ==
  ASSUME NEW T, NEW W, NEW d, NEW more \in Seq(Outbound), T.emit[d] \in Seq(Outbound),
         W.emit[d] = T.emit[d] \o more, W.session[d].connected = T.session[d].connected,
         \A k \in 1 .. Len(more) :
           more[k].type = "CONNACK" /\ more[k].rc = 0 => W.session[d].connected
  PROVE  AnswersOK(T, d) => AnswersOK(W, d)
<1> SUFFICES ASSUME AnswersOK(T, d), NEW k \in 1 .. Len(W.emit[d]),
                    W.emit[d][k].type = "CONNACK", W.emit[d][k].rc = 0
             PROVE  W.session[d].connected
  BY DEF AnswersOK
<1> DEFINE before == T.emit[d]
<1>1. Len(before) \in Nat /\ Len(more) \in Nat
  OBVIOUS
<1>2. /\ Len(W.emit[d]) = Len(before) + Len(more)
      /\ W.emit[d][k] = IF k <= Len(before) THEN before[k] ELSE more[k - Len(before)]
  BY ConcatProperties
<1>3. CASE k <= Len(before)
  <2>1. k \in 1 .. Len(before)
    BY <1>1, <1>2, <1>3
  <2> QED
    BY <1>2, <1>3, <2>1 DEF AnswersOK
<1>4. CASE k > Len(before)
  <2>1. k - Len(before) \in 1 .. Len(more) /\ W.emit[d][k] = more[k - Len(before)]
    BY <1>1, <1>2, <1>4
  <2> QED
    BY <2>1
<1> QED
  BY <1>1, <1>3, <1>4

\* branch__forward sends PUBLISH packets.
LEMMA CopiesAreMessages ==
  ASSUME NEW T \in TablesType, NEW from \in Senders, NEW m \in Message, NEW d \in Slots
  PROVE  \A k \in 1 .. Len(CopiesSent(T, from, m, d)) :
           CopiesSent(T, from, m, d)[k].type = "PUBLISH"
<1> DEFINE copies == CopiesTo(T, from, m, d)
           Copy(s) == Publish([m EXCEPT !.qos = FwdQos(T, m, s)], FwdPid(T, from, m, s))
<1>1. CopiesSent(T, from, m, d) = [k \in 1 .. Cardinality(copies) |-> Copy(InOrder(copies)[k])]
  BY DEF CopiesSent
<1>2. \A s : Copy(s).type = "PUBLISH"
  BY DEF Publish
<1>3. copies \subseteq SubSlots
  BY DEF CopiesTo, Receivers
<1>4. Cardinality(copies) \in Nat
  BY <1>3, TablesFinite
<1> HIDE DEF copies, Copy
<1>5. Len(CopiesSent(T, from, m, d)) = Cardinality(copies)
  BY <1>1, <1>4
<1> QED
  BY <1>1, <1>2, <1>5

\* Forwarding a message.
LEMMA ForwardMoves ==
  ASSUME NEW T \in TablesType, NEW from \in Senders, NEW m \in Message, NEW c
  PROVE  Moved(T, Forward(T, from, m), c) /\ Forward(T, from, m).state = T.state
<1> DEFINE F == Forward(T, from, m)
<1>1. /\ F.subs = T.subs /\ F.session = T.session /\ F.state = T.state
      /\ F.emit = [d \in Slots |-> T.emit[d] \o CopiesSent(T, from, m, d)]
  BY DEF Forward, Retain
<1> HIDE DEF F
<1>2. ASSUME NEW d \in Slots
      PROVE  AnswersOK(T, d) => AnswersOK(F, d)
  <2> DEFINE more == CopiesSent(T, from, m, d)
  <2>1. T.emit[d] \in Seq(Outbound) /\ more \in Seq(Outbound)
    BY CopiesSentType DEF TablesType
  <2>2. F.emit[d] = T.emit[d] \o more /\ F.session[d].connected = T.session[d].connected
    BY <1>1
  <2>3. \A k \in 1 .. Len(more) : more[k].type # "CONNACK"
    BY CopiesAreMessages
  <2> HIDE DEF more
  <2> QED
    BY <2>1, <2>2, <2>3, MoreSent
<1> QED
  BY <1>1, <1>2 DEF Moved, F

\* Queueing a packet for the client whose handler runs.
LEMMA QueueMoves ==
  ASSUME NEW T \in TablesType, NEW c \in Slots, NEW p \in Outbound,
         p.type = "CONNACK" /\ p.rc = 0 => T.session[c].connected
  PROVE  Moved(T, Queue(T, c, p), c) /\ Queue(T, c, p).state = T.state
<1> DEFINE F == Queue(T, c, p)
<1>1. F = [T EXCEPT !.emit = [T.emit EXCEPT ![c] = Append(T.emit[c], p)]]
  BY QueueEffect
<1> HIDE DEF F
<1>2. /\ F.subs = T.subs /\ F.session = T.session /\ F.state = T.state
      /\ F.emit = [T.emit EXCEPT ![c] = Append(T.emit[c], p)]
  BY <1>1 DEF TablesType
<1>3. AnswersOK(T, c) => AnswersOK(F, c)
  <2>1. T.emit[c] \in Seq(Outbound)
    BY DEF TablesType
  <2>2. F.emit[c] = T.emit[c] \o <<p>> /\ <<p>> \in Seq(Outbound)
    BY <1>2, <2>1 DEF TablesType
  <2>3. F.session[c].connected = T.session[c].connected
    BY <1>2
  <2>4. \A k \in 1 .. Len(<<p>>) :
          <<p>>[k].type = "CONNACK" /\ <<p>>[k].rc = 0 => F.session[c].connected
    BY <1>2
  <2> QED
    BY <2>1, <2>2, <2>3, <2>4, MoreSent
<1>4. \A d \in Slots : d # c => F.emit[d] = T.emit[d]
  BY <1>2 DEF TablesType
<1> QED
  BY <1>2, <1>3, <1>4 DEF Moved, AnswersOK, F

\* Closing a client, whoever it is.
LEMMA CloseMoves ==
  ASSUME NEW T, Good(T), NEW d \in Slots, d \notin T.accepted, NEW c
  PROVE  /\ Moved(T, Close(T, d), c)
         /\ \A e \in Slots : Close(T, d).state[e] # "DISCONNECTED" => T.state[e] # "DISCONNECTED"
<1> DEFINE W == IF T.session[d].will = None THEN T ELSE Forward(T, Api, T.session[d].will)
           C == Close(T, d)
<1>0. T \in TablesType
  BY DEF Good
<1>1. Moved(T, W, c) /\ W.state = T.state /\ W.session = T.session /\ W.subs = T.subs
      /\ W.emit \in [Slots -> Seq(Outbound)]
  <2>1. CASE T.session[d].will = None
    BY <1>0, <2>1, MovedSame DEF TablesType
  <2>2. CASE T.session[d].will # None
    <3>1. T.session[d].will \in Message /\ Api \in Senders
      BY <1>0, <2>2 DEF TablesType, Session, Senders
    <3>2. Forward(T, Api, T.session[d].will) \in TablesType
      BY <1>0, <3>1, ForwardEffect DEF ForwardStep
    <3>3. Forward(T, Api, T.session[d].will).session = T.session
          /\ Forward(T, Api, T.session[d].will).subs = T.subs
      BY DEF Forward, Retain
    <3> QED
      BY <1>0, <2>2, <3>1, <3>2, <3>3, ForwardMoves DEF TablesType
  <2> QED
    BY <2>1, <2>2
<1>2. C.emit = [W.emit EXCEPT ![d] = <<>>] /\ C.state = [W.state EXCEPT ![d] = "DISCONNECTED"]
  <2> HIDE DEF W
  <2> QED
    BY DEF Close, FreeSubs, W
<1>3. /\ \A s \in SubSlots : C.subs[s] = None \/ C.subs[s] = T.subs[s]
      /\ \A e \in Slots : e # d => C.session[e] = T.session[e]
  <2>1. C.subs = [s \in SubSlots |-> IF s \in T.session[d].held THEN None ELSE T.subs[s]]
    BY CloseEffect
  <2>2. \A e \in Slots : e # d => C.session[e] = T.session[e]
    BY CloseGood
  <2> HIDE DEF C
  <2> QED
    BY <2>1, <2>2
<1> HIDE DEF C, W
<1>4. \A e \in Slots : C.state[e] # "DISCONNECTED" =>
        e # d /\ C.emit[e] = W.emit[e] /\ T.state[e] # "DISCONNECTED"
  BY <1>0, <1>1, <1>2 DEF TablesType
<1>5. Moved(W, C, c)
  <2>1. \A e \in Slots : C.state[e] # "DISCONNECTED" =>
          C.session[e] = W.session[e] /\ C.emit[e] = W.emit[e]
    BY <1>1, <1>3, <1>4
  <2> QED
    BY <1>1, <1>3, <2>1 DEF Moved, AnswersOK
<1>6. Moved(T, C, c)
  BY <1>1, <1>4, <1>5, MovedTwice
<1> QED
  BY <1>4, <1>6 DEF C

\* The handler of CONNECT: what it accepts it has recorded before it answers.
LEMMA ConnectMoves ==
  ASSUME NEW T, Good(T), T.accepted = {}, NEW c \in Slots, T.state[c] # "DISCONNECTED",
         NEW p \in Inbound, p.type = "CONNECT"
  PROVE  /\ Moved(T, OnConnect(T, c, p), c)
         /\ OnConnect(T, c, p).state[c] # "DISCONNECTED" /\ ConnackCode(p) = 0 =>
              OnConnect(T, c, p).session[c].connected
<1> DEFINE W  == Identify(T, c, p)
           rc == ConnackCode(p)
           E  == IF rc = 0 THEN Evict(W, c, p) ELSE W
           A  == Answer(E, c, p, rc)
           old == Lowest(SlotsWithId(W, p.id))
           F  == OnConnect(T, c, p)
<1>1. Good(W) /\ W.state = T.state /\ W.accepted = {} /\ W.session[c].id = p.id
  <2>1. Good(W) /\ W.state = T.state /\ W.accepted = {}
    BY IdentifyGood
  <2>2. W.session[c].id = p.id
    BY DEF Identify, Good, TablesType, Session
  <2> QED
    BY <2>1, <2>2
<1>2. W.subs = T.subs /\ W.emit = T.emit
      /\ \A d \in Slots : W.session[d].connected = T.session[d].connected
  BY DEF Identify, Good, TablesType, Session
<1>3. F = IF p.whole THEN Queue(A, c, Connack(rc)) ELSE Close(W, c)
  BY DEF OnConnect
<1>4. Connack(rc) \in Outbound /\ Connack(rc).rc = rc
  BY ConnectFields DEF Connack
<1> HIDE DEF W, rc
<1>5. Moved(T, W, c)
  BY <1>2, MovedSame
<1>6. /\ Good(E) /\ E.state[c] # "DISCONNECTED" /\ Moved(W, E, c)
      /\ \A d \in Slots : E.state[d] # "DISCONNECTED" => W.state[d] # "DISCONNECTED"
  <2>1. Good(E) /\ E.state[c] # "DISCONNECTED"
    BY <1>1, EvictGood
  <2>2. CASE E = W
    BY <2>1, <2>2, MovedSame
  <2>3. CASE E # W
    <3>1. E = Close(W, old)
      BY <2>3 DEF Evict
    <3>2. c \in SlotsWithId(W, p.id) /\ SlotsWithId(W, p.id) \subseteq Slots
      BY <1>1 DEF SlotsWithId
    <3>3. old \in Slots
      BY <3>2, LowestIndex
    <3> QED
      BY <1>1, <2>1, <3>1, <3>3, CloseMoves
  <2> QED
    BY <2>2, <2>3
<1> HIDE DEF E
<1>7. Good(A) /\ A.state = E.state
  BY <1>6, AnswerGood
<1>8. /\ A.subs = E.subs /\ A.emit = E.emit
      /\ A.session[c].connected = (E.session[c].connected \/ rc = 0)
      /\ \A d \in Slots : d # c => A.session[d] = E.session[d]
  BY <1>6 DEF Answer, Good, TablesType, Session
<1> HIDE DEF A
<1>9. Moved(E, A, c)
  BY <1>8 DEF Moved, AnswersOK
<1>10. Moved(A, Queue(A, c, Connack(rc)), c) /\ Queue(A, c, Connack(rc)).state = A.state
       /\ Queue(A, c, Connack(rc)).session = A.session
  <2>1. A \in TablesType /\ (Connack(rc).rc = 0 => A.session[c].connected)
    BY <1>4, <1>7, <1>8 DEF Good
  <2>2. Queue(A, c, Connack(rc)).session = A.session
    BY DEF Queue
  <2> QED
    BY <1>4, <2>1, <2>2, QueueMoves
<1>11. CASE p.whole
  <2>1. Moved(T, E, c)
    BY <1>5, <1>6, MovedTwice
  <2>2. Moved(T, A, c)
    BY <1>7, <1>9, <2>1, MovedTwice
  <2>3. Moved(T, F, c)
    BY <1>3, <1>10, <1>11, <2>2, MovedTwice
  <2> QED
    BY <1>3, <1>8, <1>10, <1>11, <2>3 DEF rc
<1>12. CASE ~p.whole
  <2>1. F = Close(W, c) /\ c \notin W.accepted
    BY <1>1, <1>3, <1>12
  <2>2. Moved(W, F, c) /\ \A e \in Slots : F.state[e] # "DISCONNECTED" => W.state[e] # "DISCONNECTED"
    BY <1>1, <2>1, CloseMoves
  <2>3. F.state[c] = "DISCONNECTED"
    <3>1. OpenIn(F) = OpenIn(W) \ {c}
      BY <1>1, <2>1, CloseEffect
    <3> QED
      BY <3>1 DEF OpenIn
  <2> QED
    BY <1>5, <2>2, <2>3, MovedTwice
<1> QED
  BY <1>11, <1>12

\* What SUBSCRIBE is sent of the retained messages.
LEMMA RetainedAreMessages ==
  ASSUME NEW T \in TablesType, NEW n \in Nat, NEW filters, Len(filters) = n
  PROVE  \A k \in 1 .. Len(RetainedFor(T, filters)) : RetainedFor(T, filters)[k].type = "PUBLISH"
<1> DEFINE Entry(x) == T.retained[x % MaxRetained]
           hit == {x \in 0 .. Len(filters) * MaxRetained - 1 :
                     /\ Entry(x) # None
                     /\ <<filters[x \div MaxRetained + 1], Entry(x).topic>> \in Matching}
           Stored(r) == [topic |-> r.topic, payload |-> r.payload, qos |-> r.qos, retain |-> TRUE]
           sends == RetainedFor(T, filters)
<1>1. sends = [k \in 1 .. Cardinality(hit) |-> Publish(Stored(Entry(InOrder(hit)[k])), 0)]
  BY DEF RetainedFor
<1>2. sends \in Seq(Outbound)
  BY RetainedForType
<1> HIDE DEF hit, Entry, Stored, sends
<1>3. 1 .. Len(sends) = DOMAIN sends
  BY <1>2
<1>4. DOMAIN sends = 1 .. Cardinality(hit)
  BY <1>1
<1>5. \A k \in 1 .. Cardinality(hit) : sends[k].type = "PUBLISH"
  BY <1>1 DEF Publish
<1> QED
  BY <1>3, <1>4, <1>5 DEF sends

\* The handler of PUBLISH.
LEMMA PublishMoves ==
  ASSUME NEW T, Good(T), NEW c \in Slots, T.state[c] # "DISCONNECTED",
         NEW p \in Inbound, p.type = "PUBLISH"
  PROVE  Moved(T, OnPublish(T, c, p), c)
<1> DEFINE free == FreeFlows(T, c)
           new  == [state |-> "IN_PUBREC_SENT", pid |-> p.pid]
           i    == Lowest(free)
           R    == IF p.msg.qos = 2 /\ ~Known(T, c, p.pid) /\ free # {}
                   THEN [T EXCEPT !.q2[c][i] = new] ELSE T
           A    == CASE p.msg.qos = 1 -> Queue(R, c, Ack("PUBACK", p.pid))
                     [] p.msg.qos = 2 -> Queue(R, c, Ack("PUBREC", p.pid))
                     [] OTHER         -> R
<1>0. T \in TablesType
  BY DEF Good
<1>1. p.msg \in Message /\ p.pid \in Pids
  BY DEF Inbound, AckKinds
<1>2. R \in TablesType
  <2>1. CASE p.msg.qos = 2 /\ ~Known(T, c, p.pid) /\ free # {}
    <3>1. i \in FlowSlots
      BY <2>1, LowestIndex DEF FreeFlows
    <3>2. new \in Flow
      BY <1>1 DEF Flow, InStates
    <3> DEFINE Q == [T.q2 EXCEPT ![c] = [T.q2[c] EXCEPT ![i] = new]]
    <3>3. R = [T EXCEPT !.q2 = Q]
      BY <2>1 DEF Good, TablesType
    <3> HIDE DEF new, i, R
    <3>4. Q \in [Slots -> [FlowSlots -> Flow]]
      BY <1>0, <3>1, <3>2 DEF TablesType
    <3> HIDE DEF Q
    <3> QED
      BY <1>0, <3>3, <3>4 DEF TablesType
  <2>2. CASE ~(p.msg.qos = 2 /\ ~Known(T, c, p.pid) /\ free # {})
    BY <1>0, <2>2
  <2> QED
    BY <2>1, <2>2
<1>3. R.state = T.state /\ R.session = T.session /\ R.subs = T.subs /\ R.emit = T.emit
  OBVIOUS
<1> HIDE DEF R
<1>4. /\ Ack("PUBACK", p.pid) \in Outbound /\ Ack("PUBACK", p.pid).type # "CONNACK"
      /\ Ack("PUBREC", p.pid) \in Outbound /\ Ack("PUBREC", p.pid).type # "CONNACK"
  BY <1>1 DEF Ack, Outbound, AckKinds
<1>5. Moved(T, R, c)
  BY <1>3, MovedSame
<1>6. A \in TablesType /\ Moved(R, A, c) /\ A.state = T.state
  BY <1>2, <1>3, <1>4, QueueMoves, QueueEffect, MovedSame
<1> HIDE DEF A
<1>7. Moved(A, Forward(A, c, p.msg), c) /\ Forward(A, c, p.msg).state = T.state
  BY <1>1, <1>6, ForwardMoves DEF Senders
<1>8. Moved(T, A, c)
  BY <1>3, <1>5, <1>6, MovedTwice
<1>9. OnPublish(T, c, p) = Forward(A, c, p.msg)
  BY DEF OnPublish, A, R
<1> QED
  BY <1>6, <1>7, <1>8, <1>9, MovedTwice

\* The handlers of acknowledgements.
LEMMA AckMoves ==
  ASSUME NEW T, Good(T), NEW c \in Slots, T.state[c] # "DISCONNECTED",
         NEW p \in Inbound, p.type \in AckKinds
  PROVE  Moved(T, Handle(T, c, p), c)
<1>0. T \in TablesType /\ p.pid \in Pids
  BY DEF Good, Inbound, AckKinds
<1>1. /\ Ack("PUBREL", p.pid) \in Outbound /\ Ack("PUBREL", p.pid).type # "CONNACK"
      /\ Ack("PUBCOMP", p.pid) \in Outbound /\ Ack("PUBCOMP", p.pid).type # "CONNACK"
  BY <1>0 DEF Ack, Outbound, AckKinds
<1>2. ASSUME NEW flows \in SUBSET FlowSlots
      PROVE  Moved(T, EndFlow(T, c, flows), c) /\ EndFlow(T, c, flows) \in TablesType
  <2>1. EndFlow(T, c, flows) \in TablesType
    BY EndFlowGood DEF Good
  <2>2. /\ EndFlow(T, c, flows).subs = T.subs /\ EndFlow(T, c, flows).emit = T.emit
        /\ EndFlow(T, c, flows).session = T.session
    BY DEF EndFlow
  <2> QED
    BY <2>1, <2>2, MovedSame
<1>3. \A states : FlowsOf(T, c, p.pid, states) \in SUBSET FlowSlots
  BY DEF FlowsOf
<1>4. CASE p.type \in {"PUBACK", "PUBCOMP"}
  BY <1>2, <1>3, <1>4 DEF Handle, OnPuback, OnPubcomp
<1>5. CASE p.type = "PUBREL"
  <2> DEFINE flows == FlowsOf(T, c, p.pid, {"IN_PUBREC_SENT"})
             E == EndFlow(T, c, flows)
  <2>1. Moved(T, E, c) /\ E \in TablesType
    BY <1>2, <1>3
  <2>2. Handle(T, c, p) = IF flows = {} THEN T ELSE Queue(E, c, Ack("PUBCOMP", p.pid))
    BY <1>5 DEF Handle, OnPubrel
  <2> HIDE DEF E, flows
  <2>3. /\ Moved(E, Queue(E, c, Ack("PUBCOMP", p.pid)), c)
        /\ Queue(E, c, Ack("PUBCOMP", p.pid)).state = E.state
    BY <1>1, <2>1, QueueMoves
  <2> QED
    BY <2>1, <2>2, <2>3, MovedTwice, MovedSame
<1>6. CASE p.type = "PUBREC"
  <2> DEFINE flows == FlowsOf(T, c, p.pid, {"OUT_PUBLISH_SENT"})
             i == Lowest(flows)
             Q == [T.q2 EXCEPT ![c] = [T.q2[c] EXCEPT ![i] = [T.q2[c][i] EXCEPT !.state = "OUT_PUBREL_SENT"]]]
             E == [T EXCEPT !.q2 = Q]
  <2>1. CASE flows = {}
    BY <1>6, <2>1, MovedSame DEF Handle, OnPubrec
  <2>2. CASE flows # {}
    <3>1. i \in FlowSlots
      BY <1>3, <2>2, LowestIndex
    <3>2. Handle(T, c, p) = Queue(E, c, Ack("PUBREL", p.pid))
      <4>1. [T EXCEPT !.q2[c][i].state = "OUT_PUBREL_SENT"] = E
        BY <1>0 DEF TablesType
      <4> HIDE DEF E, i
      <4>2. OnPubrec(T, c, p) = Queue(E, c, Ack("PUBREL", p.pid))
        BY <2>2, <4>1 DEF OnPubrec, i
      <4> QED
        BY <1>6, <4>2 DEF Handle
    <3>3. Q \in [Slots -> [FlowSlots -> Flow]]
      <4>1. T.q2[c][i] \in Flow
        BY <1>0, <3>1 DEF TablesType
      <4>2. [T.q2[c][i] EXCEPT !.state = "OUT_PUBREL_SENT"] \in Flow
        BY <4>1 DEF Flow, OutStates
      <4> HIDE DEF i
      <4> QED
        BY <1>0, <3>1, <4>2 DEF TablesType
    <3> HIDE DEF Q
    <3>4. E \in TablesType /\ E.subs = T.subs /\ E.emit = T.emit /\ E.session = T.session
      BY <1>0, <3>3 DEF TablesType
    <3> HIDE DEF E
    <3>5. Moved(T, E, c)
      BY <3>4, MovedSame
    <3>6. /\ Moved(E, Queue(E, c, Ack("PUBREL", p.pid)), c)
          /\ Queue(E, c, Ack("PUBREL", p.pid)).state = E.state
      BY <1>1, <3>4, QueueMoves
    <3> QED
      BY <3>2, <3>5, <3>6, MovedTwice
  <2> QED
    BY <2>1, <2>2
<1> QED
  BY <1>4, <1>5, <1>6 DEF AckKinds

\* The handler of SUBSCRIBE: it adds subscriptions of its client to filters of the packet.
LEMMA SubscribeMoves ==
  ASSUME NEW T, Good(T), NEW c \in Slots, T.state[c] # "DISCONNECTED",
         NEW p \in Inbound, p.type = "SUBSCRIBE"
  PROVE  /\ Moved(T, OnSubscribe(T, c, p), c)
         /\ \A s \in SubSlots : OnSubscribe(T, c, p).subs[s] = T.subs[s]
              \/ Asks(p, OnSubscribe(T, c, p).subs[s].filter)
<1> DEFINE asked   == Min2(Len(p.topics), MaxCodes)
           free    == UnusedSubs(T)
           granted == Min2(Min2(asked, MaxPending), Cardinality(free))
           new     == {s \in free : Rank(free, s) <= granted}
           topic(s) == p.topics[Rank(free, s)]
           filters == [k \in 1 .. granted |-> p.topics[k].filter]
           codes   == [k \in 1 .. asked |-> IF k <= granted THEN p.topics[k].qos ELSE 128]
           sends   == RetainedFor(T, filters)
           answer  == Suback(p.pid, codes)
           fits(s) == Cardinality(T.session[c].held) + Rank(free, s) <= MaxPending
           F == OnSubscribe(T, c, p)
<1>0. T \in TablesType /\ T.emit[c] \in Seq(Outbound)
  BY DEF Good, TablesType
<1>1. Len(p.topics) \in Nat /\ p.pid \in Pids /\ p.topics \in Seq([filter : Filters, qos : QoS])
  BY DEF Inbound, AckKinds
<1>2. free \subseteq SubSlots /\ IsFiniteSet(free) /\ free \in SUBSET Int
      /\ Cardinality(free) \in Nat
  BY TablesFinite DEF UnusedSubs
<1>3. asked \in Nat /\ granted \in Nat /\ granted <= asked /\ asked <= Len(p.topics)
  <2> HIDE DEF free
  <2> QED
    BY <1>1, <1>2, SizesAssumption DEF Min2
<1>4. F.subs = [s \in SubSlots |->
                 IF s \in new
                 THEN [filter |-> topic(s).filter, owner |-> c, qos |-> topic(s).qos,
                       listed |-> fits(s)]
                 ELSE T.subs[s]]
  BY DEF OnSubscribe, Queue
<1>5. /\ F.emit = [T.emit EXCEPT ![c] = Append(T.emit[c] \o sends, answer)]
      /\ \A d \in Slots : F.session[d].connected = T.session[d].connected
  <2> DEFINE listed == T.session[c].held \cup {s \in new : fits(s)}
             S == [s \in SubSlots |->
                    IF s \in new
                    THEN [filter |-> topic(s).filter, owner |-> c, qos |-> topic(s).qos,
                          listed |-> fits(s)]
                    ELSE T.subs[s]]
             X == [T EXCEPT !.subs = S, !.session[c].held = listed, !.emit[c] = @ \o sends]
  <2>1. F = Queue(X, c, answer)
    BY Zenon DEF OnSubscribe
  <2> HIDE DEF S, listed, sends, answer, F
  <2>2. /\ X.emit = [T.emit EXCEPT ![c] = T.emit[c] \o sends]
        /\ \A d \in Slots : X.session[d].connected = T.session[d].connected
    BY <1>0 DEF TablesType, Session
  <2>3. Queue(X, c, answer).session = X.session
        /\ Queue(X, c, answer).emit = [X.emit EXCEPT ![c] = Append(X.emit[c], answer)]
    <3> HIDE DEF X
    <3> QED
      BY DEF Queue
  <2> HIDE DEF X
  <2> QED
    BY <1>0, <2>1, <2>2, <2>3 DEF TablesType
<1>6. answer \in Outbound /\ answer.type = "SUBACK"
  <2>1. \A k \in 1 .. asked : p.topics[k].qos \in QoS
    <3> HIDE DEF asked
    <3>1. ASSUME NEW k \in 1 .. asked PROVE p.topics[k] \in [filter : Filters, qos : QoS]
      <4>1. k \in 1 .. Len(p.topics)
        BY <1>1, <1>3
      <4> QED
        BY <1>1, <4>1, ElementType
    <3> QED
      BY <3>1
  <2>2. codes \in [1 .. asked -> QoS \cup {128}]
    <3> HIDE DEF asked, granted
    <3> QED
      BY <2>1
  <2>3. codes \in Seq(QoS \cup {128})
    <3> HIDE DEF asked, codes
    <3> QED
      BY <1>3, <2>2, ListType
  <2> HIDE DEF codes
  <2> QED
    BY <1>1, <2>3 DEF Suback, Outbound
<1>7. sends \in Seq(Outbound) /\ \A k \in 1 .. Len(sends) : sends[k].type = "PUBLISH"
  <2>1. Len(filters) = granted
    <3> HIDE DEF granted
    <3> QED
      BY <1>3
  <2> HIDE DEF filters, granted
  <2> QED
    BY <1>0, <1>3, <2>1, RetainedForType, RetainedAreMessages
<1>8. \A s \in new : Asks(p, topic(s).filter)
  <2> SUFFICES ASSUME NEW s \in new PROVE Asks(p, topic(s).filter)
    OBVIOUS
  <2>1. Rank(free, s) \in 1 .. Cardinality(free) /\ Rank(free, s) <= granted
    BY <1>2, RankRange
  <2>2. Rank(free, s) \in 1 .. Len(p.topics)
    <3> HIDE DEF free, granted, asked
    <3> QED
      BY <1>1, <1>2, <1>3, <2>1
  <2>3. p # None
    BY NoneLinkAssumption
  <2> HIDE DEF free
  <2> QED
    BY <2>2, <2>3 DEF Asks
<1>9. \A s \in new : F.subs[s].owner = c /\ F.subs[s].filter = topic(s).filter
  <2>1. \A s \in new : F.subs[s] = [filter |-> topic(s).filter, owner |-> c, qos |-> topic(s).qos,
                            listed |-> fits(s)]
    <3>1. new \subseteq SubSlots
      BY <1>2
    <3> HIDE DEF F, new, topic, fits
    <3> QED
      BY <1>4, <3>1
  <2> HIDE DEF F, new, topic, fits
  <2> SUFFICES ASSUME NEW s \in new
               PROVE  F.subs[s].owner = c /\ F.subs[s].filter = topic(s).filter
    OBVIOUS
  <2>2. F.subs[s] = [filter |-> topic(s).filter, owner |-> c, qos |-> topic(s).qos,
                            listed |-> fits(s)]
    BY <2>1
  <2> QED
    BY <2>2
<1>10. \A s \in SubSlots \ new : F.subs[s] = T.subs[s]
  <2> HIDE DEF F, new, topic, fits
  <2> QED
    BY <1>4
<1> HIDE DEF F, new, topic, sends, answer, fits
<1>11. AnswersOK(T, c) => AnswersOK(F, c)
  <2> DEFINE more == sends \o <<answer>>
  <2>0. <<answer>> \in Seq(Outbound) /\ Len(<<answer>>) = 1 /\ <<answer>>[1] = answer
    BY <1>6
  <2>1. more \in Seq(Outbound)
    BY <1>7, <2>0
  <2>2. F.emit[c] = T.emit[c] \o more
    <3>1. F.emit[c] = Append(T.emit[c] \o sends, answer) /\ T.emit[c] \o sends \in Seq(Outbound)
      BY <1>0, <1>5, <1>7 DEF TablesType
    <3>2. F.emit[c] = (T.emit[c] \o sends) \o <<answer>>
      <4> DEFINE before == T.emit[c] \o sends
      <4>1. before \in Seq(Outbound) /\ F.emit[c] = Append(before, answer)
        BY <3>1
      <4> HIDE DEF before
      <4>2. Append(before, answer) = before \o <<answer>>
        BY <1>6, <4>1, AppendIsConcat
      <4> QED
        BY <4>1, <4>2 DEF before
    <3>3. (T.emit[c] \o sends) \o <<answer>> = T.emit[c] \o (sends \o <<answer>>)
      <4> DEFINE before == T.emit[c]
                 last   == <<answer>>
      <4>1. before \in Seq(Outbound) /\ sends \in Seq(Outbound) /\ last \in Seq(Outbound)
        BY <1>0, <1>7, <2>0
      <4> HIDE DEF before, last
      <4>2. (before \o sends) \o last = before \o (sends \o last)
        BY <4>1, ConcatAssociative
      <4> QED
        BY <4>2 DEF before, last
    <3> QED
      BY <3>2, <3>3
  <2>3. \A k \in 1 .. Len(more) : more[k].type # "CONNACK"
    <3>1. Len(sends) \in Nat
      BY <1>7
    <3>2. /\ Len(more) = Len(sends) + 1 /\ more[Len(sends) + 1] = answer
          /\ \A k \in 1 .. Len(sends) : more[k] = sends[k]
      <4>1. /\ Len(more) = Len(sends) + 1
            /\ \A i \in 1 .. Len(sends) + 1 : more[i] =
                  IF i <= Len(sends) THEN sends[i] ELSE <<answer>>[i - Len(sends)]
        BY <1>7, <2>0, ConcatProperties
      <4> HIDE DEF more
      <4> QED
        BY <2>0, <3>1, <4>1
    <3>3. \A k \in 1 .. Len(more) : k \in 1 .. Len(sends) \/ k = Len(sends) + 1
      BY <3>1, <3>2
    <3> HIDE DEF more
    <3> QED
      BY <1>6, <1>7, <3>2, <3>3
  <2> HIDE DEF more
  <2>4. F.session[c].connected = T.session[c].connected
    BY <1>5
  <2>5. \A k \in 1 .. Len(more) :
          more[k].type = "CONNACK" /\ more[k].rc = 0 => F.session[c].connected
    BY <2>3
  <2> QED
    BY <1>0, <2>1, <2>2, <2>4, <2>5, MoreSent
<1>12. \A d \in Slots : d # c => F.emit[d] = T.emit[d]
  BY <1>0, <1>5 DEF TablesType
<1>13. Moved(T, F, c)
  BY <1>5, <1>9, <1>10, <1>11, <1>12 DEF Moved, AnswersOK
<1>14. \A s \in SubSlots : F.subs[s] = T.subs[s] \/ Asks(p, F.subs[s].filter)
  BY <1>8, <1>9, <1>10
<1> QED
  BY <1>13, <1>14 DEF F

\* The handler of UNSUBSCRIBE: it leaves its client no listed subscription that the packet
\* names.
LEMMA UnsubscribeMoves ==
  ASSUME NEW T, Good(T), NEW c \in Slots, T.state[c] # "DISCONNECTED",
         NEW p \in Inbound, p.type = "UNSUBSCRIBE"
  PROVE  /\ Moved(T, OnUnsubscribe(T, c, p), c)
         /\ \A s \in SubSlots : OnUnsubscribe(T, c, p).subs[s] \in {None, T.subs[s]}
         /\ \A s \in SubSlots :
              OnUnsubscribe(T, c, p).subs[s] # None /\ T.subs[s].listed
                /\ T.subs[s].owner = c => T.subs[s].filter \notin p.filters
<1> DEFINE gone == {s \in T.session[c].held : T.subs[s] # None /\ T.subs[s].filter \in p.filters}
           F == OnUnsubscribe(T, c, p)
           answer == Ack("UNSUBACK", p.pid)
<1>0. T \in TablesType /\ T.emit[c] \in Seq(Outbound)
  BY DEF Good, TablesType
<1>1. F.subs = [s \in SubSlots |-> IF s \in gone THEN None ELSE T.subs[s]]
  BY DEF OnUnsubscribe, Queue
<1>2. /\ F.emit = [T.emit EXCEPT ![c] = Append(T.emit[c], answer)]
      /\ \A d \in Slots : F.session[d].connected = T.session[d].connected
  <2> DEFINE X == [T EXCEPT !.subs = F.subs, !.session[c].held = @ \ gone]
  <2>1. F = Queue(X, c, answer)
    <3> DEFINE S == [s \in SubSlots |-> IF s \in gone THEN None ELSE T.subs[s]]
    <3>1. F = Queue([T EXCEPT !.subs = S, !.session[c].held = @ \ gone], c, answer)
      BY Zenon, <1>0 DEF OnUnsubscribe, TablesType
    <3> HIDE DEF F, S, gone, answer
    <3> QED
      BY <1>1, <3>1 DEF S
  <2> HIDE DEF F, gone, answer
  <2>2. X.emit = T.emit /\ \A d \in Slots : X.session[d].connected = T.session[d].connected
    BY <1>0 DEF TablesType, Session
  <2> HIDE DEF X
  <2> QED
    BY <1>0, <2>1, <2>2 DEF Queue, TablesType
<1>3. answer \in Outbound /\ answer.type = "UNSUBACK"
  BY DEF Inbound, AckKinds, Ack, Outbound
<1>4. AnswersOK(T, c) => AnswersOK(F, c)
  <2> HIDE DEF F, answer
  <2>1. F.emit[c] = T.emit[c] \o <<answer>> /\ <<answer>> \in Seq(Outbound)
    BY <1>0, <1>2, <1>3 DEF TablesType
  <2>2. \A k \in 1 .. Len(<<answer>>) : <<answer>>[k].type # "CONNACK"
    BY <1>3
  <2>3. F.session[c].connected = T.session[c].connected
    BY <1>2
  <2>4. \A k \in 1 .. Len(<<answer>>) :
          <<answer>>[k].type = "CONNACK" /\ <<answer>>[k].rc = 0 => F.session[c].connected
    BY <2>2
  <2> QED
    BY <1>0, <2>1, <2>3, <2>4, MoreSent
<1> HIDE DEF F
<1>5. \A d \in Slots : d # c => F.emit[d] = T.emit[d]
  BY <1>0, <1>2 DEF TablesType
<1>6. \A s \in SubSlots : F.subs[s] \in {None, T.subs[s]}
  BY <1>1
<1>7. Moved(T, F, c)
  BY <1>2, <1>4, <1>5, <1>6 DEF Moved, AnswersOK
<1>8. ASSUME NEW s \in SubSlots, F.subs[s] # None, T.subs[s].listed, T.subs[s].owner = c
      PROVE  T.subs[s].filter \notin p.filters
  <2>1. s \notin gone /\ T.subs[s] # None
    <3> HIDE DEF gone
    <3> QED
      BY <1>1, <1>8
  <2>2. s \in T.session[c].held
    BY <1>8, <2>1 DEF Good, ListedOK, Lasting
  <2> QED
    BY <2>1, <2>2
<1> QED
  BY <1>6, <1>7, <1>8 DEF F

\* The handler of DISCONNECT.
LEMMA DisconnectMoves ==
  ASSUME NEW T, Good(T), T.accepted = {}, NEW c \in Slots, T.state[c] # "DISCONNECTED"
  PROVE  /\ Moved(T, OnDisconnect(T, c), c)
         /\ \A s \in SubSlots : OnDisconnect(T, c).subs[s] \in {None, T.subs[s]}
         /\ c \notin OpenIn(OnDisconnect(T, c))
<1> DEFINE new == [T.session[c] EXCEPT !.will = None]
           W   == [T EXCEPT !.session = [T.session EXCEPT ![c] = new]]
<1>1. new \in Session /\ new.held = T.session[c].held /\ new.connected = T.session[c].connected
  <2>1. T.session[c] \in Session
    BY DEF Good, TablesType
  <2> QED
    BY <2>1 DEF Session
<1>2. [T EXCEPT !.session[c].will = None] = W
  BY DEF Good, TablesType, Session
<1> HIDE DEF new
<1>3. /\ W.accepted = {} /\ W.state = T.state /\ W.subs = T.subs /\ W.emit = T.emit
      /\ \A d \in Slots : W.session[d].connected = T.session[d].connected
  BY <1>1 DEF Good, TablesType
<1>4. Good(W)
  BY <1>1, SessionGood
<1> HIDE DEF W
<1>5. Moved(T, W, c)
  BY <1>3, MovedSame
<1>6. /\ Moved(W, Close(W, c), c)
      /\ \A e \in Slots : Close(W, c).state[e] # "DISCONNECTED" => W.state[e] # "DISCONNECTED"
  BY <1>3, <1>4, CloseMoves
<1>7. /\ Close(W, c).subs = [s \in SubSlots |-> IF s \in W.session[c].held THEN None ELSE W.subs[s]]
      /\ OpenIn(Close(W, c)) = OpenIn(W) \ {c}
  BY <1>3, <1>4, CloseEffect
<1> QED
  BY <1>2, <1>3, <1>5, <1>6, <1>7, MovedTwice DEF OnDisconnect

\* CONNECT adds no subscription.
LEMMA ConnectSubs ==
  ASSUME NEW T, Good(T), T.accepted = {}, NEW c \in Slots, T.state[c] # "DISCONNECTED",
         NEW p \in Inbound, p.type = "CONNECT"
  PROVE  \A s \in SubSlots : OnConnect(T, c, p).subs[s] \in {None, T.subs[s]}
<1> DEFINE W  == Identify(T, c, p)
           rc == ConnackCode(p)
           E  == IF rc = 0 THEN Evict(W, c, p) ELSE W
           old == Lowest(SlotsWithId(W, p.id))
<1>1. Good(W) /\ W.state = T.state /\ W.accepted = {} /\ W.session[c].id = p.id /\ W.subs = T.subs
  <2>1. Good(W) /\ W.state = T.state /\ W.accepted = {}
    BY IdentifyGood
  <2>2. W.session[c].id = p.id /\ W.subs = T.subs
    BY DEF Identify, Good, TablesType, Session
  <2> QED
    BY <2>1, <2>2
<1>2. OnConnect(T, c, p) = IF p.whole THEN Queue(Answer(E, c, p, rc), c, Connack(rc)) ELSE Close(W, c)
  BY DEF OnConnect
<1>3. \A X, x, q : Queue(X, x, q).subs = X.subs
  BY DEF Queue
<1>4. \A X : Answer(X, c, p, rc).subs = X.subs
  BY DEF Answer
<1> HIDE DEF W
<1>5. \A d \in Slots : \A s \in SubSlots : Close(W, d).subs[s] \in {None, T.subs[s]}
  <2> SUFFICES ASSUME NEW d \in Slots, NEW s \in SubSlots
               PROVE  Close(W, d).subs[s] \in {None, T.subs[s]}
    OBVIOUS
  <2>1. Close(W, d).subs = [r \in SubSlots |-> IF r \in W.session[d].held THEN None ELSE W.subs[r]]
    BY <1>1, CloseEffect
  <2> QED
    BY <1>1, <2>1
<1>6. old \in Slots
  <2>1. c \in SlotsWithId(W, p.id) /\ SlotsWithId(W, p.id) \subseteq Slots
    BY <1>1 DEF SlotsWithId
  <2> QED
    BY <2>1, LowestIndex
<1>7. E = W \/ E = Close(W, old)
  BY DEF Evict
<1>8. \A s \in SubSlots : E.subs[s] \in {None, T.subs[s]}
  <2> HIDE DEF E, old
  <2> QED
    BY <1>1, <1>5, <1>6, <1>7
<1> HIDE DEF E, rc
<1>9. OnConnect(T, c, p).subs = E.subs \/ OnConnect(T, c, p) = Close(W, c)
  BY <1>2, <1>3, <1>4
<1> QED
  BY <1>5, <1>8, <1>9

\* The whole of branch__dispatch.
LEMMA HandleMoves ==
  ASSUME NEW T, Good(T), T.accepted = {}, NEW c \in Slots, T.state[c] # "DISCONNECTED",
         NEW p \in Inbound
  PROVE  Moved(T, Handle(T, c, p), c)
<1>0. T \in TablesType
  BY DEF Good
<1>1. CASE p.type = "CONNECT"
  BY <1>1, ConnectMoves DEF Handle
<1>2. CASE p.type = "PUBLISH"
  BY <1>2, PublishMoves DEF Handle
<1>3. CASE p.type \in AckKinds
  BY <1>3, AckMoves
<1>4. CASE p.type = "SUBSCRIBE"
  BY <1>4, SubscribeMoves DEF Handle
<1>5. CASE p.type = "UNSUBSCRIBE"
  BY <1>5, UnsubscribeMoves DEF Handle
<1>6. CASE p.type = "PINGREQ"
  <2>1. Pingresp \in Outbound /\ Pingresp.type # "CONNACK"
    BY DEF Pingresp, Outbound
  <2>2. Moved(T, Queue(T, c, Pingresp), c)
    BY <1>0, <2>1, QueueMoves
  <2> QED
    BY <1>6, <2>2 DEF Handle
<1>7. CASE p.type = "DISCONNECT"
  BY <1>7, DisconnectMoves DEF Handle
<1>8. CASE p.type = "MALFORMED"
  <2>1. Moved(T, Close(T, c), c)
    BY CloseMoves
  <2> QED
    BY <1>8, <2>1 DEF Handle
<1> QED
  BY <1>1, <1>2, <1>3, <1>4, <1>5, <1>6, <1>7, <1>8 DEF Inbound, AckKinds

\* A packet adds only the subscriptions that it asks for, and UNSUBSCRIBE ends all that it
\* names and the client's list holds.
LEMMA HandleSubs ==
  ASSUME NEW T, Good(T), T.accepted = {}, NEW c \in Slots, T.state[c] # "DISCONNECTED",
         NEW p \in Inbound, NEW s \in SubSlots, Handle(T, c, p).subs[s] # None
  PROVE  /\ Handle(T, c, p).subs[s] = T.subs[s] \/ Asks(p, Handle(T, c, p).subs[s].filter)
         /\ p.type = "UNSUBSCRIBE" /\ T.subs[s].listed /\ T.subs[s].owner = c =>
              T.subs[s].filter \notin p.filters
<1>0. T \in TablesType
  BY DEF Good
<1>1. CASE p.type = "CONNECT"
  BY <1>1, ConnectSubs DEF Handle
<1>2. CASE p.type = "SUBSCRIBE"
  BY <1>2, SubscribeMoves DEF Handle
<1>3. CASE p.type = "UNSUBSCRIBE"
  BY <1>3, UnsubscribeMoves DEF Handle
<1>4. CASE p.type = "DISCONNECT"
  BY <1>4, DisconnectMoves DEF Handle
<1>5. CASE p.type = "MALFORMED"
  <2>1. Close(T, c).subs = [r \in SubSlots |-> IF r \in T.session[c].held THEN None ELSE T.subs[r]]
    BY CloseEffect
  <2>2. Close(T, c).subs[s] \in {None, T.subs[s]}
    BY <2>1
  <2> QED
    BY <1>5, <2>2 DEF Handle
<1>6. CASE p.type \notin {"CONNECT", "SUBSCRIBE", "UNSUBSCRIBE", "DISCONNECT", "MALFORMED"}
  BY <1>0, <1>6, SubsKept
<1> QED
  BY <1>1, <1>2, <1>3, <1>4, <1>5, <1>6

---------------------------------------------------------------------------
(***************************************************************************)
(* The steps of the broker.                                                *)
(***************************************************************************)
\* A handler left the tables T, and sent what they hold: that of the packet at the head of
\* the way to slot c, or one that is not about a packet of the client.
BrokerStep(T, c, used) ==
  /\ T.emit \in [Slots -> Seq(Outbound)]
  /\ session' = T.session /\ subs' = T.subs /\ Open' = OpenIn(T)
  /\ Moved(Tables, T, c) /\ Carried(T, used)
  /\ \/ used = None /\ c \notin mine
     \/ /\ used \in mine /\ c = used /\ up[c] # <<>>
        /\ Head(up[c]) \in Inbound /\ T = Handle(Tables, c, Head(up[c]))

\* What accepting a connection changes of what the client can notice.
LEMMA AcceptEffect ==
  ASSUME IInv, Accept
  PROVE  LET c == Lowest(Slots \ Open)
         IN  /\ c \in Slots \ Open /\ Open' = Open \cup {c} /\ phase' = "up"
             /\ session' = session /\ subs' = subs /\ session[c] = NoSession
<1> DEFINE c == Lowest(Slots \ Open)
           T == [Tables EXCEPT !.state[c] = "CONNACK_SENT", !.session[c] = NoSession,
                               !.q2[c] = NoFlows]
<1>1. c \in Slots \ Open
  BY LowestIndex DEF Accept
<1>2. Become(T) /\ phase' = "up"
  BY DEF Accept
<1> HIDE DEF c
<1>3. /\ T.accepted = {} /\ T.subs = subs
      /\ T.state = [state EXCEPT ![c] = "CONNACK_SENT"]
      /\ T.session = [session EXCEPT ![c] = NoSession]
  BY DEF Tables
<1>4. session[c] = NoSession /\ session \in [Slots -> Session]
  BY <1>1 DEF IInv, TypeOK, ClosedSlotClean, Open
<1> HIDE DEF T
<1>5. Open' = OpenIn(T)
  BY <1>2, <1>3, BecomeShows
<1>6. OpenIn(T) = Open \cup {c}
  BY <1>1, <1>3 DEF IInv, TypeOK, Open, OpenIn
<1>7. session' = T.session /\ subs' = T.subs
  BY <1>2 DEF Become
<1>8. session' = session
  BY <1>1, <1>3, <1>4, <1>7
<1> QED
  BY <1>1, <1>2, <1>3, <1>4, <1>5, <1>6, <1>7, <1>8 DEF c

LEMMA AcceptedIsSlot ==
  ASSUME IInv, Accept
  PROVE  Lowest(Slots \ Open) # None
BY AcceptEffect, NoneLinkAssumption

\* Every step of the broker is one of these, and keeps the broker's own invariant.
LEMMA BrokerMakes ==
  ASSUME IInv, WayOK, Broker
  PROVE  IInv' /\ \E T, c, used : BrokerStep(T, c, used)
<1>0. phase \in {"up", "down", "crashed"} /\ None \notin mine
  BY NoneLinkAssumption DEF IInv, TypeOK, WayOK, Open
<1>1. Good(Tables) /\ Tables.accepted = {} /\ Tables.state = state
  BY TablesGood
<1>2. ASSUME NEW T, Good(T), Become(T), phase' \in {"up", "down", "crashed"},
             NEW c, NEW used, Moved(Tables, T, c), Carried(T, used),
             \/ used = None /\ c \notin mine
             \/ /\ used \in mine /\ c = used /\ up[c] # <<>>
                /\ Head(up[c]) \in Inbound /\ T = Handle(Tables, c, Head(up[c]))
      PROVE  IInv' /\ BrokerStep(T, c, used)
  <2>1. IInv'
    BY <1>2, BecomeInv
  <2>2. Open' = OpenIn(T)
    BY <1>2, BecomeShows DEF Good, CleanOK
  <2>3. session' = T.session /\ subs' = T.subs
    BY <1>2 DEF Become
  <2>4. T.emit \in [Slots -> Seq(Outbound)]
    BY <1>2 DEF Good, TablesType
  <2> QED
    BY <1>2, <2>1, <2>2, <2>3, <2>4 DEF BrokerStep
<1>3. ASSUME NEW c \in Slots, NEW p \in Inbound, Recv(c, p)
      PROVE  LET T == Handle(Tables, c, p)
             IN  /\ Good(T) /\ Become(T) /\ phase' \in {"up", "down", "crashed"}
                 /\ Moved(Tables, T, c)
  <2>1. Tables.state[c] # "DISCONNECTED"
    BY <1>1, <1>3 DEF Recv, Open
  <2>2. Good(Handle(Tables, c, p))
    BY <1>1, <2>1, HandleGood
  <2>3. Moved(Tables, Handle(Tables, c, p), c)
    BY <1>1, <2>1, HandleMoves
  <2> QED
    BY <1>0, <1>3, <2>2, <2>3 DEF Recv
<1>4. CASE \E c \in Slots : BrokerTakes(c)
  <2>1. PICK c \in Slots : BrokerTakes(c)
    BY <1>4
  <2>2. c \in mine /\ up[c] # <<>> /\ Head(up[c]) \in Inbound
    <3>1. up[c] \in Seq(Inbound) /\ up[c] # <<>> /\ c \in mine
      BY <2>1 DEF BrokerTakes, WayOK
    <3> QED
      BY <3>1, HeadTailProperties
  <2>3. Recv(c, Head(up[c])) /\ Carried(Handle(Tables, c, Head(up[c])), c)
    BY <2>1 DEF BrokerTakes
  <2> QED
    BY <1>2, <1>3, <2>2, <2>3
<1>5. CASE \E c \in Slots \ mine, p \in Inputs :
             Recv(c, p) /\ Carried(Handle(Tables, c, p), None)
  <2>1. PICK c \in Slots \ mine, p \in Inputs : Recv(c, p) /\ Carried(Handle(Tables, c, p), None)
    BY <1>5
  <2>2. p \in Inbound
    BY InputsAssumption
  <2> QED
    BY <1>2, <1>3, <2>1, <2>2
<1>6. CASE \E c \in Slots :
             (PeerGone(c) \/ KeepaliveTimeout(c)) /\ Carried(Close(Tables, c), None)
  <2>1. PICK c \in Slots : (PeerGone(c) \/ KeepaliveTimeout(c)) /\ Carried(Close(Tables, c), None)
    BY <1>6
  <2>2. Become(Close(Tables, c)) /\ phase' \in {"up", "down", "crashed"}
    BY <1>0, <2>1 DEF PeerGone, KeepaliveTimeout
  <2>3. Good(Close(Tables, c)) /\ Moved(Tables, Close(Tables, c), None)
    BY <1>1, CloseGood, CloseMoves
  <2> QED
    BY <1>0, <1>2, <2>1, <2>2, <2>3
<1>7. CASE \E m \in ApiMessages : ApiPublish(m) /\ Carried(Forward(Tables, Api, m), None)
  <2>1. PICK m \in ApiMessages : ApiPublish(m) /\ Carried(Forward(Tables, Api, m), None)
    BY <1>7
  <2>2. m \in Message /\ Api \in Senders /\ Tables \in TablesType
    BY <1>1, InputsAssumption DEF Senders, Good
  <2>3. Good(Forward(Tables, Api, m)) /\ Moved(Tables, Forward(Tables, Api, m), None)
    BY <1>1, <2>2, ForwardGood, ForwardMoves
  <2>4. Become(Forward(Tables, Api, m)) /\ phase' \in {"up", "down", "crashed"}
    BY <1>0, <2>1 DEF ApiPublish
  <2> QED
    BY <1>0, <1>2, <2>1, <2>3, <2>4
<1>8. CASE (Destroy \/ Create) /\ Carried(Blank, None)
  <2>1. Good(Blank) /\ Become(Blank) /\ phase' \in {"up", "down", "crashed"}
    BY <1>8, BlankGood DEF Destroy, Create
  <2>2. Moved(Tables, Blank, None)
    BY DEF Moved, Blank
  <2> QED
    BY <1>0, <1>2, <1>8, <2>1, <2>2
<1>9. CASE Accept /\ Carried(Blank, None)
  <2> DEFINE T == [Tables EXCEPT !.state = state']
  <2>1. IInv'
    BY <1>9, AcceptInv
  <2>2. session' = session /\ subs' = subs
    BY <1>9, AcceptEffect
  <2>3. /\ T.session = session /\ T.subs = subs /\ T.emit = Blank.emit /\ T.emit = Tables.emit
        /\ T.state = state' /\ Tables.session = session /\ Tables.subs = subs
    BY DEF Tables, Blank
  <2> HIDE DEF T
  <2>4. T.emit \in [Slots -> Seq(Outbound)]
    BY <1>1, <2>3 DEF Good, TablesType
  <2>5. Moved(Tables, T, None)
    BY <2>3, MovedSame
  <2>6. Carried(T, None)
    BY <1>9, <2>3 DEF Carried
  <2>7. Open' = OpenIn(T)
    BY <2>3 DEF Open, OpenIn
  <2>8. BrokerStep(T, None, None)
    BY <1>0, <2>2, <2>3, <2>4, <2>5, <2>6, <2>7 DEF BrokerStep
  <2> QED
    BY <2>1, <2>8
<1> QED
  BY <1>4, <1>5, <1>6, <1>7, <1>8, <1>9 DEF Broker

\* What the broker does keeps the way in order.
LEMMA BrokerKeepsWay ==
  ASSUME WayOK, AcceptedOK, UNCHANGED lvars, NEW T, NEW c, NEW used, BrokerStep(T, c, used)
  PROVE  WayOK' /\ AcceptedOK'
<1>0. l_state' = l_state
  BY DEF lvars
<1>1. /\ down' = IF link = None THEN down ELSE down \o T.emit[link]
      /\ mine' = {d \in mine : phase' = "up" /\ d \in Open'}
      /\ link' = IF link \in mine' THEN link ELSE None
      /\ up'   = [d \in Slots |-> IF d \notin mine' THEN <<>>
                                 ELSE IF d = used THEN Tail(up[d]) ELSE up[d]]
  BY DEF BrokerStep, Carried
<1>2. mine' \subseteq mine /\ mine' \subseteq Open' /\ mine \subseteq Slots /\ (mine' # {} => phase' = "up")
  BY <1>1 DEF WayOK, Open
<1>3. link # None => link \in Slots /\ T.emit[link] \in Seq(Outbound)
  BY <1>2 DEF WayOK, BrokerStep
<1>4. down' \in Seq(Outbound)
  BY <1>1, <1>3, ConcatProperties DEF WayOK
<1>5. up' \in [Slots -> Seq(Inbound)]
  <2>1. \A d \in Slots : up[d] \in Seq(Inbound) /\ (d = used => up[d] # <<>>)
    BY NoneLinkAssumption DEF WayOK, BrokerStep
  <2>2. \A d \in Slots : d = used => Tail(up[d]) \in Seq(Inbound)
    BY <2>1, HeadTailProperties
  <2>3. <<>> \in Seq(Inbound)
    OBVIOUS
  <2> QED
    BY <1>1, <2>1, <2>2, <2>3
<1>6. link' \in mine' \cup {None} /\ \A d \in Slots \ mine' : up'[d] = <<>>
  BY <1>1
<1>7. ~Established(l_state) => link' = None /\ down' = <<>>
  BY <1>1, <1>2, NoneLinkAssumption DEF WayOK
<1>8. WayOK'
  BY <1>0, <1>2, <1>4, <1>5, <1>6, <1>7 DEF WayOK, Established
<1>9. ASSUME link' # None
      PROVE  /\ link' = link /\ link # None /\ link \in Slots
             /\ session[link].connected => session'[link].connected
             /\ \A k \in 1 .. Len(T.emit[link]) :
                  T.emit[link][k].type = "CONNACK" /\ T.emit[link][k].rc = 0
                    => session'[link].connected
  <2>1. link' = link /\ link # None /\ link \in Slots /\ link \in Open /\ link \in Open'
    BY <1>1, <1>2, <1>9 DEF WayOK
  <2>2. Tables.state[link] # "DISCONNECTED" /\ T.state[link] # "DISCONNECTED"
    BY <2>1 DEF BrokerStep, OpenIn, Open, Tables
  <2>3. Tables.session = session /\ Tables.emit[link] = <<>>
    BY <2>1 DEF Tables
  <2>4. AnswersOK(Tables, link)
    BY <2>3 DEF AnswersOK
  <2>5. AnswersOK(T, link) /\ (session[link].connected => T.session[link].connected)
    BY <2>1, <2>2, <2>3, <2>4 DEF BrokerStep, Moved
  <2> QED
    BY <2>1, <2>5 DEF AnswersOK, BrokerStep
<1>10. AcceptedOK'
  <2> SUFFICES ASSUME link' # None
               PROVE  /\ l_state' = "READY" => session'[link'].connected
                      /\ \A k \in 1 .. Len(down') :
                           down'[k].type = "CONNACK" /\ down'[k].rc = 0
                             => session'[link'].connected
    BY DEF AcceptedOK
  <2> DEFINE more == T.emit[link]
  <2>1. l_state' = "READY" => session'[link'].connected
    BY <1>0, <1>9 DEF AcceptedOK
  <2>2. down' = down \o more /\ down \in Seq(Outbound) /\ more \in Seq(Outbound)
    BY <1>1, <1>3, <1>9 DEF WayOK
  <2>3. \A k \in 1 .. Len(more) :
          more[k].type = "CONNACK" /\ more[k].rc = 0 => session'[link].connected
    BY <1>9
  <2>4. \A k \in 1 .. Len(down) :
          down[k].type = "CONNACK" /\ down[k].rc = 0 => session'[link].connected
    BY <1>9 DEF AcceptedOK
  <2> HIDE DEF more
  <2>5. ASSUME NEW k \in 1 .. Len(down'), down'[k].type = "CONNACK", down'[k].rc = 0
        PROVE  session'[link].connected
    <3>1. /\ Len(down') = Len(down) + Len(more)
          /\ down'[k] = IF k <= Len(down) THEN down[k] ELSE more[k - Len(down)]
      BY <2>2, ConcatProperties
    <3>2. Len(down) \in Nat /\ Len(more) \in Nat
      BY <2>2
    <3>3. CASE k <= Len(down)
      <4>1. k \in 1 .. Len(down)
        BY <3>1, <3>2, <3>3
      <4> QED
        BY <2>4, <2>5, <3>1, <3>3, <4>1
    <3>4. CASE ~(k <= Len(down))
      <4>1. k - Len(down) \in 1 .. Len(more)
        BY <3>1, <3>2, <3>4
      <4> QED
        BY <2>3, <2>5, <3>1, <3>4, <4>1
    <3> QED
      BY <3>3, <3>4
  <2> QED
    BY <1>9, <2>1, <2>5
<1> QED
  BY <1>8, <1>10

---------------------------------------------------------------------------
(***************************************************************************)
(* The client's steps, to which the lemmas of LeafProofs apply.            *)
(***************************************************************************)
\* The client of the composition is the one of LeafProofs.
LEMMA SameLeaf ==
  /\ (L!LeafConnect <=> P!LeafConnect) /\ (L!PollConnects <=> P!PollConnects)
  /\ (L!LeafDisconnect <=> P!LeafDisconnect)
  /\ (L!Recreate <=> P!Recreate)
  /\ (L!PollFails <=> P!PollFails)
  /\ (L!Readable <=> P!Readable) /\ (L!CallbackReturns <=> P!CallbackReturns)
  /\ (L!Call <=> P!Call)
  /\ (L!Writable <=> P!Writable)
  /\ (L!PollEnds <=> P!PollEnds)
  /\ (\A p : L!Packet(p) <=> P!Packet(p))
  /\ (L!Init <=> P!Init)
<1>1. (L!LeafConnect <=> P!LeafConnect) /\ (L!PollConnects <=> P!PollConnects)
  BY DEF L!LeafConnect, P!LeafConnect, L!PollConnects, P!PollConnects, L!ConnectTcp,
         P!ConnectTcp, L!Quiet, P!Quiet
<1>2. L!LeafDisconnect <=> P!LeafDisconnect
  BY DEF L!LeafDisconnect, P!LeafDisconnect, L!InProgram, P!InProgram, L!Disconnect,
         P!Disconnect, L!Entries, P!Entries, L!NoPending, P!NoPending, L!NoReceived,
         P!NoReceived, L!NoPacket, P!NoPacket, L!Goes, P!Goes, L!Quiet, P!Quiet,
         L!Reset, P!Reset, L!Direct, P!Direct, L!Min2, P!Min2
<1>3. L!Recreate <=> P!Recreate
  BY DEF L!Recreate, P!Recreate, L!Disconnect, P!Disconnect, L!Entries, P!Entries,
         L!NoPending, P!NoPending, L!NoReceived, P!NoReceived, L!NoPacket,
         P!NoPacket, L!Goes, P!Goes, L!Quiet, P!Quiet, L!Reset, P!Reset, L!Direct,
         P!Direct, L!Min2, P!Min2
<1>4. L!PollFails <=> P!PollFails
  BY DEF L!PollFails, P!PollFails, L!FireDisconnect, P!FireDisconnect, L!Entries,
         P!Entries, L!NoPending, P!NoPending, L!NoReceived, P!NoReceived,
         L!NoPacket, P!NoPacket, L!Goes, P!Goes, L!Quiet, P!Quiet, L!Reset, P!Reset,
         L!Direct, P!Direct, L!Min2, P!Min2
<1>5. (L!Readable <=> P!Readable) /\ (L!CallbackReturns <=> P!CallbackReturns)
  BY DEF L!Readable, P!Readable, L!CallbackReturns, P!CallbackReturns, L!session,
         P!session, L!Goes, P!Goes, L!Quiet, P!Quiet
<1>6. L!Call <=> P!Call
  BY DEF L!Call, P!Call, L!LeafSubscribe, P!LeafSubscribe, L!LeafUnsubscribe,
         P!LeafUnsubscribe, L!LeafPublish, P!LeafPublish, L!MayCall, P!MayCall,
         L!InProgram, P!InProgram, L!FreeEntries, P!FreeEntries, L!NextPid,
         P!NextPid, L!Encode, P!Encode, L!Await, P!Await, L!Without, P!Without,
         L!PidAfter, P!PidAfter, L!Lowest, P!Lowest, L!Publish, P!Publish,
         L!Subscribe, P!Subscribe, L!Unsubscribe, P!Unsubscribe, L!Entries,
         P!Entries, L!Quiet, P!Quiet
<1>7. L!Writable <=> P!Writable
  BY DEF L!Writable, P!Writable, L!SendPending, P!SendPending, L!Goes, P!Goes,
         L!NoPacket, P!NoPacket, L!Min2, P!Min2
<1>8. L!PollEnds <=> P!PollEnds
  BY DEF L!PollEnds, P!PollEnds, L!FreeEntries, P!FreeEntries, L!Retried, P!Retried,
         L!Snapshots, P!Snapshots, L!Pingreq, P!Pingreq, L!InOrder, P!InOrder,
         L!Rank, P!Rank, L!Cardinality, P!Cardinality, L!Entries, P!Entries,
         L!NoPending, P!NoPending, L!NoReceived, P!NoReceived, L!NoPacket,
         P!NoPacket, L!Goes, P!Goes, L!Quiet, P!Quiet, L!Reset, P!Reset, L!Direct,
         P!Direct, L!Min2, P!Min2
<1>9. \A p : L!Packet(p) <=> P!Packet(p)
  BY DEF L!Packet, P!Packet, L!OnConnack, P!OnConnack, L!OnPublish, P!OnPublish,
         L!Seen, P!Seen, L!Record, P!Record, L!OnAck, P!OnAck, L!Freed, P!Freed,
         L!OnPubrec, P!OnPubrec, L!OnPubrel, P!OnPubrel, L!FireDisconnect,
         P!FireDisconnect, L!FreeEntries, P!FreeEntries, L!Lowest, P!Lowest, L!Ack,
         P!Ack, L!session, P!session, L!Entries, P!Entries, L!NoPending,
         P!NoPending, L!NoReceived, P!NoReceived, L!NoPacket, P!NoPacket, L!Goes,
         P!Goes, L!Quiet, P!Quiet, L!Reset, P!Reset, L!Direct, P!Direct, L!Min2,
         P!Min2
<1>10. L!Init <=> P!Init
  BY DEF L!Init, P!Init, L!NoPacket, P!NoPacket, L!NoPending, P!NoPending,
         L!NoReceived, P!NoReceived, L!Entries, P!Entries
<1> QED
  BY <1>1, <1>2, <1>3, <1>4, <1>5, <1>6, <1>7, <1>8, <1>9, <1>10

\* What LeafProofs assumes of its constants holds of those it is given here.
LEMMA Instance ==
  /\ None \notin P!Inbound /\ None \notin P!Message
  /\ OwnConnect \in P!Inbound /\ OwnConnect.type = "CONNECT" /\ {} \subseteq Filters
  /\ Wanted \subseteq [filter : Filters, qos : P!QoS] /\ Messages \subseteq P!Message
  /\ Outbound \subseteq P!Outbound \cup [type : {"MALFORMED"}]
  /\ P!Inbound = Inbound
<1>1. P!Inbound = Inbound /\ P!Message = Message /\ P!QoS = QoS /\ P!Outbound = Outbound
  BY DEF P!Inbound, Inbound, P!Outbound, Outbound, P!Message, Message, P!QoS, QoS,
         P!Pids, Pids, P!AckKinds, AckKinds
<1> QED
  BY <1>1, ClientAssumption, NoneLinkAssumption, NoneMessageAssumption

\* A step of the client is one of LeafProofs, with a packet of the broker if it takes one.
LEMMA ClientNext ==
  ASSUME WayOK, Client
  PROVE  P!Next
<1>1. CASE ClientTakes
  <2>1. Head(down) \in Outbound /\ L!Packet(Head(down))
    BY <1>1, HeadTailProperties DEF ClientTakes, WayOK
  <2> QED
    BY <2>1, SameLeaf DEF P!Next
<1>2. CASE ~ClientTakes
  BY <1>2, SameLeaf DEF Client, P!Next
<1> QED
  BY <1>1, <1>2

\* The client's own invariant does not depend on what else happens.
LEMMA ClientKeeps ==
  ASSUME P!IInv, P!SnapshotsPublish, [P!Next]_P!vars
  PROVE  P!IInv' /\ P!SnapshotsPublish'
<1>1. P!IInv'
  BY P!NextInv, Instance, ClientAssumption, MatchingAssumption, PayloadAssumption,
     NoIdAssumption, PidMaxAssumption
<1>2. P!SnapshotsPublish'
  <2>1. P!TypeOK
    BY DEF P!IInv
  <2> QED
    BY <2>1, P!SnapshotsPublishStep, Instance, ClientAssumption, MatchingAssumption,
       PayloadAssumption, NoIdAssumption, PidMaxAssumption
<1> QED
  BY <1>1, <1>2

---------------------------------------------------------------------------
(***************************************************************************)
(* What the client's steps do to its connection, its subscriptions, its    *)
(* send buffer and the way.                                                *)
(***************************************************************************)
\* Packets that introduce nobody and change no subscription.
Plain(q) ==
  /\ q \in Seq(Inbound)
  /\ \A k \in 1 .. Len(q) : q[k].type \notin {"CONNECT", "SUBSCRIBE", "UNSUBSCRIBE"}

\* Nothing but acknowledgements.
Acks(q) == q \in Seq(Inbound) /\ \A k \in 1 .. Len(q) : q[k].type \in AckKinds

\* Plain packets, which before CONNECT can only be DISCONNECT.
Small(q) ==
  /\ Plain(q)
  /\ l_state \in {"READY", "CONNACK_WAIT"} \/ \A k \in 1 .. Len(q) : q[k].type = "DISCONNECT"

Leaves == l_state' = "DISCONNECTED" /\ l_subs' = <<>> /\ buf'.pkt = None /\ Small(sent')

Tries ==
  /\ l_state = "DISCONNECTED" /\ l_state' \in {"DISCONNECTED", "TCP_CONNECTING", "TCP_CONNECTED"}
  /\ sent' = <<>> /\ UNCHANGED <<buf, l_subs>>

Opens ==
  /\ l_state = "TCP_CONNECTING" /\ l_state' = "CONNACK_WAIT"
  /\ sent' = <<OwnConnect>> /\ buf'.pkt = None /\ UNCHANGED l_subs

Calls ==
  /\ l_state = "READY" /\ l_state' = "READY" /\ sent' = <<>>
  /\ \A f : Has(l_subs, f) => Has(l_subs', f) \/ Ends(buf'.pkt, f)
  /\ UNCHANGED <<buf, l_subs>> \/ \A f : Asks(buf'.pkt, f) => Has(l_subs', f)
  /\ QueuedOK => QueuedOK'

Sends ==
  /\ l_state # "TCP_CONNECTING" /\ buf.pkt # None /\ sent' = <<buf.pkt>> /\ buf'.pkt = None
  /\ UNCHANGED <<l_state, l_subs>>

Rests ==
  /\ Plain(sent') /\ (sent' # <<>> => l_state \in {"READY", "CONNACK_WAIT"})
  /\ UNCHANGED <<l_state, buf, l_subs>>

\* The client takes packet p: a CONNACK makes it ready.
Answers(p) ==
  /\ Acks(sent') /\ UNCHANGED <<buf, l_subs>>
  /\ \/ UNCHANGED l_state
     \/ p.type = "CONNACK" /\ p.rc = 0 /\ l_state' = "READY" /\ sent' = <<>>

\* What is sent past the send buffer is a prefix of what the code passes to send().
LEMMA DirectPrefix ==
  ASSUME NEW q, q \in Seq(P!Inbound), P!Direct(q)
  PROVE  /\ sent' \in Seq(P!Inbound) /\ Len(sent') <= Len(q)
         /\ \A k \in 1 .. Len(sent') : sent'[k] = q[k]
BY P!DirectTakes, Instance, ClientAssumption, MatchingAssumption, PayloadAssumption,
   NoIdAssumption, PidMaxAssumption

LEMMA DirectNothing ==
  ASSUME NEW q, q \in Seq(P!Inbound), Len(q) = 0, P!Direct(q)
  PROVE  sent' = <<>>
<1>1. sent' \in Seq(P!Inbound) /\ Len(sent') <= Len(q)
  BY DirectPrefix
<1>2. Len(sent') = 0
  BY <1>1, LenProperties
<1> QED
  BY <1>1, <1>2, EmptySeq

LEMMA DirectElements ==
  ASSUME NEW q \in Seq(Inbound), P!Direct(q)
  PROVE  /\ sent' \in Seq(Inbound)
         /\ \A k \in 1 .. Len(sent') : k \in 1 .. Len(q) /\ sent'[k] = q[k]
<1>1. q \in Seq(P!Inbound)
  BY Instance
<1>2. /\ sent' \in Seq(P!Inbound) /\ Len(sent') <= Len(q)
      /\ \A k \in 1 .. Len(sent') : sent'[k] = q[k]
  BY <1>1, DirectPrefix
<1>3. sent' \in Seq(Inbound) /\ Len(sent') \in Nat /\ Len(q) \in Nat
  BY <1>1, <1>2, Instance
<1> QED
  BY <1>2, <1>3

LEMMA DirectSmall ==
  ASSUME NEW q, Small(q), P!Direct(q)
  PROVE  Small(sent')
<1>1. q \in Seq(Inbound)
  BY DEF Small, Plain
<1>2. /\ sent' \in Seq(Inbound)
      /\ \A k \in 1 .. Len(sent') : k \in 1 .. Len(q) /\ sent'[k] = q[k]
  BY <1>1, DirectElements
<1>3. Plain(sent')
  BY <1>2 DEF Small, Plain
<1> QED
  BY <1>2, <1>3 DEF Small

LEMMA DirectAcks ==
  ASSUME NEW q, Acks(q), P!Direct(q)
  PROVE  Acks(sent')
<1>1. q \in Seq(Inbound)
  BY DEF Acks
<1>2. /\ sent' \in Seq(Inbound)
      /\ \A k \in 1 .. Len(sent') : k \in 1 .. Len(q) /\ sent'[k] = q[k]
  BY <1>1, DirectElements
<1> QED
  BY <1>2 DEF Acks

\* Acknowledgements introduce nobody.
LEMMA AcksArePlain ==
  ASSUME NEW q, Acks(q)
  PROVE  Plain(q)
BY DEF Acks, Plain, AckKinds

\* One packet, or none.
LEMMA OneOrNone ==
  ASSUME NEW p \in Inbound
  PROVE  /\ p.type \notin {"CONNECT", "SUBSCRIBE", "UNSUBSCRIBE"} => Plain(<<p>>)
         /\ p.type = "DISCONNECT" => Small(<<p>>)
         /\ p.type = "PINGREQ" /\ l_state \in {"READY", "CONNACK_WAIT"} => Small(<<p>>)
         /\ Small(<<>>) /\ Plain(<<>>)
<1>1. <<p>> \in Seq(Inbound) /\ Len(<<p>>) = 1 /\ <<p>>[1] = p
  OBVIOUS
<1>2. <<>> \in Seq(Inbound) /\ Len(<<>>) = 0
  OBVIOUS
<1>3. p.type \notin {"CONNECT", "SUBSCRIBE", "UNSUBSCRIBE"} => Plain(<<p>>)
  BY <1>1 DEF Plain
<1>4. Plain(<<>>) /\ Small(<<>>)
  BY <1>2 DEF Plain, Small
<1>5. p.type = "DISCONNECT" => Small(<<p>>)
  BY <1>1, <1>3 DEF Small
<1> QED
  BY <1>3, <1>4, <1>5 DEF Small

\* leaf__dispatch.
LEMMA PacketShape ==
  ASSUME P!IInv, NEW p \in Outbound, P!Packet(p)
  PROVE  Answers(p) /\ Established(l_state)
<1>1. P!TypeOK /\ P!FreshUntilReady /\ l_state \notin {"DISCONNECTED", "TCP_CONNECTING"}
  BY DEF P!IInv, P!FreshUntilReady, P!Packet
<1>2. \A kind \in AckKinds : p.pid \in Pids => Acks(<<P!Ack(kind, p.pid)>>)
  <2> SUFFICES ASSUME NEW kind \in AckKinds, p.pid \in Pids PROVE Acks(<<P!Ack(kind, p.pid)>>)
    OBVIOUS
  <2> DEFINE a == P!Ack(kind, p.pid)
  <2>1. a \in Inbound /\ a.type \in AckKinds
    BY DEF P!Ack, Inbound
  <2> HIDE DEF a
  <2>2. <<a>> \in Seq(Inbound) /\ Len(<<a>>) = 1 /\ <<a>>[1] = a
    BY <2>1
  <2>3. Acks(<<a>>)
    BY <2>1, <2>2 DEF Acks
  <2> QED
    BY <2>3 DEF a
<1>4. Acks(<<>>)
  <2>1. <<>> \in Seq(Inbound) /\ Len(<<>>) = 0
    OBVIOUS
  <2> QED
    BY <2>1 DEF Acks
<1>5. CASE p.type = "CONNACK"
  BY <1>1, <1>4, <1>5 DEF P!Packet, P!OnConnack, P!Quiet, Answers, Established
<1>6. CASE p.type = "PUBLISH"
  <2>1. p.pid \in Pids
    BY <1>6 DEF Outbound, AckKinds
  <2>2. Acks(<<P!Ack("PUBACK", p.pid)>>) /\ Acks(<<P!Ack("PUBREC", p.pid)>>)
    BY <1>2, <2>1 DEF AckKinds
  <2>3. P!OnPublish(p)
    BY <1>6 DEF P!Packet
  <2>4. Acks(sent')
    BY <1>4, <2>2, <2>3, DirectAcks DEF P!OnPublish, P!Quiet
  <2> QED
    BY <1>1, <2>3, <2>4 DEF P!OnPublish, Answers, Established
<1>7. CASE p.type \in {"PUBACK", "PUBCOMP", "SUBACK", "UNSUBACK"}
  BY <1>4, <1>1, <1>7 DEF P!Packet, P!OnAck, P!Quiet, Answers, Established
<1>8. CASE p.type = "PUBREC"
  <2>1. p.pid \in Pids /\ P!OnPubrec(p)
    BY <1>8 DEF Outbound, AckKinds, P!Packet
  <2>2. Acks(sent')
    BY <1>2, <2>1, DirectAcks DEF P!OnPubrec, AckKinds
  <2> QED
    BY <1>1, <2>1, <2>2 DEF P!OnPubrec, P!session, Answers, Established
<1>9. CASE p.type = "PUBREL"
  <2>1. p.pid \in Pids /\ P!OnPubrel(p)
    BY <1>9 DEF Outbound, AckKinds, P!Packet
  <2>2. Acks(sent')
    BY <1>2, <2>1, DirectAcks DEF P!OnPubrel, AckKinds
  <2> QED
    BY <1>1, <2>1, <2>2 DEF P!OnPubrel, Answers, Established
<1>10. CASE p.type = "PINGRESP"
  BY <1>1, <1>4, <1>10 DEF P!Packet, P!Quiet, P!session, Answers, Established
<1> QED
  BY <1>1, <1>5, <1>6, <1>7, <1>8, <1>9, <1>10 DEF Outbound, AckKinds, Established

\* Retries send messages, and nothing if none is due.
LEMMA SnapshotsPlain ==
  ASSUME P!TypeOK, P!SnapshotsPublish, NEW due \in SUBSET P!Entries
  PROVE  Plain(P!Snapshots(due)) /\ (due = {} => P!Snapshots(due) = <<>>)
<1> DEFINE again == {i \in due : pending[i].retries < LeafRetries /\ pending[i].snap # None}
           q == P!Snapshots(due)
<1>1. q = [k \in 1 .. P!Cardinality(again) |-> pending[P!InOrder(again)[k]].snap]
  BY DEF P!Snapshots
<1>2. q \in Seq(Inbound)
  <2>1. pending \in [P!Entries -> P!Pending]
    BY DEF P!TypeOK
  <2> QED
    BY <2>1, P!SnapshotsType, Instance, ClientAssumption, MatchingAssumption,
       PayloadAssumption, NoIdAssumption, PidMaxAssumption
<1>3. IsFiniteSet(again) /\ again \in SUBSET Int /\ again \subseteq P!Entries
  <2>1. 0 \in Int /\ LeafPending - 1 \in Int
    BY ClientAssumption
  <2>2. IsFiniteSet(P!Entries) /\ P!Entries \subseteq Int
    BY <2>1, FS_Interval DEF P!Entries
  <2>3. again \subseteq P!Entries
    OBVIOUS
  <2> QED
    BY <2>2, <2>3, FS_Subset
<1>4. P!Cardinality(again) = Cardinality(again) /\ P!InOrder(again) = InOrder(again)
  BY DEF P!Cardinality, Cardinality, P!InOrder, InOrder, P!Rank, Rank
<1>5. Cardinality(again) \in Nat
  BY <1>3, FS_CardinalityType
<1>6. ASSUME NEW k \in 1 .. Cardinality(again) PROVE q[k].type = "PUBLISH"
  <2>1. InOrder(again)[k] \in again
    BY <1>3, InOrderElement
  <2>2. q[k] = pending[InOrder(again)[k]].snap
    BY <1>1, <1>4
  <2> QED
    BY <1>3, <2>1, <2>2 DEF P!SnapshotsPublish
<1>7. again = {} => q = <<>>
  <2>1. again = {} => Cardinality(again) = 0
    BY FS_EmptySet
  <2> HIDE DEF again, q
  <2> QED
    BY <1>1, <1>4, <2>1
<1>8. due = {} => again = {}
  OBVIOUS
<1>9. Len(q) = Cardinality(again)
  <2> HIDE DEF again, q
  <2> QED
    BY <1>1, <1>4, <1>5
<1> HIDE DEF again, q
<1>10. Plain(q)
  BY <1>2, <1>6, <1>9 DEF Plain
<1> QED
  BY <1>7, <1>8, <1>10 DEF q

\* An element of two sequences in a row is one of the first or one of the second.
LEMMA JoinedElement ==
  ASSUME NEW S, NEW q \in Seq(S), NEW r \in Seq(S), NEW k \in 1 .. Len(q \o r)
  PROVE  \/ k \in 1 .. Len(q) /\ (q \o r)[k] = q[k]
         \/ k - Len(q) \in 1 .. Len(r) /\ (q \o r)[k] = r[k - Len(q)]
<1> DEFINE m == Len(q)
           n == Len(r)
<1>1. /\ Len(q \o r) = m + n
      /\ \A i \in 1 .. m + n : (q \o r)[i] = IF i <= m THEN q[i] ELSE r[i - m]
  BY ConcatProperties
<1>2. m \in Nat /\ n \in Nat
  BY LenProperties
<1> HIDE DEF m, n
<1>3. k \in 1 .. m + n
  BY <1>1
<1>4. (q \o r)[k] = IF k <= m THEN q[k] ELSE r[k - m]
  BY <1>1, <1>3
<1>5. CASE k <= m
  BY <1>2, <1>3, <1>4, <1>5 DEF m
<1>6. CASE ~(k <= m)
  <2>1. k - m \in 1 .. n
    BY <1>2, <1>3, <1>6
  <2> QED
    BY <1>4, <1>6, <2>1 DEF m, n
<1> QED
  BY <1>5, <1>6

\* What is sent when it is small, and then messages if the client is ready.
LEMMA SmallPlain ==
  ASSUME NEW q, NEW r, Small(q), Plain(r), l_state = "READY" \/ r = <<>>
  PROVE  Small(q \o r)
<1>1. q \in Seq(Inbound) /\ r \in Seq(Inbound) /\ Len(q) \in Nat /\ Len(r) \in Nat
  BY DEF Small, Plain
<1>2. CASE r = <<>>
  <2>1. q \o r = q
    BY <1>1, <1>2
  <2> QED
    BY <2>1
<1>3. CASE l_state = "READY"
  <2>1. /\ q \o r \in Seq(Inbound) /\ Len(q \o r) = Len(q) + Len(r)
        /\ \A k \in 1 .. Len(q) + Len(r) :
             (q \o r)[k] = IF k <= Len(q) THEN q[k] ELSE r[k - Len(q)]
    BY <1>1, ConcatProperties
  <2>2. ASSUME NEW k \in 1 .. Len(q \o r)
        PROVE  (q \o r)[k].type \notin {"CONNECT", "SUBSCRIBE", "UNSUBSCRIBE"}
    BY <1>1, JoinedElement DEF Small, Plain
  <2> QED
    BY <1>3, <2>1, <2>2 DEF Small, Plain
<1> QED
  BY <1>2, <1>3

\* The calls that encode into the send buffer.
LEMMA CallShape ==
  ASSUME P!TypeOK, P!Call
  PROVE  Calls
<1>1. l_state = "READY" /\ l_state' = "READY" /\ sent' = <<>>
  BY DEF P!Call, P!LeafSubscribe, P!LeafUnsubscribe, P!LeafPublish, P!MayCall, P!Quiet
<1>2. l_subs \in Seq(Filters) /\ Len(l_subs) \in Nat
  BY DEF P!TypeOK
<1>3. ASSUME UNCHANGED l_subs, \A f : ~Asks(buf'.pkt, f), QueuedOK' PROVE Calls
  BY <1>1, <1>3 DEF Calls
<1>7. ASSUME UNCHANGED <<buf, l_subs>> PROVE Calls
  BY <1>1, <1>7 DEF Calls, QueuedOK
<1>4. ASSUME NEW w \in Wanted, P!LeafSubscribe(w) PROVE Calls
  <2> DEFINE p == P!Subscribe(P!NextPid, <<w>>)
  <2>1. l_subs' = Append(l_subs, w.filter) /\ buf'.pkt = p
    BY <1>4 DEF P!LeafSubscribe, P!Encode
  <2>2. p.type = "SUBSCRIBE" /\ p.topics = <<w>>
    BY DEF P!Subscribe
  <2> HIDE DEF p
  <2>3. w.filter \in Filters
    BY ClientAssumption
  <2>4. /\ Len(l_subs') = Len(l_subs) + 1 /\ l_subs'[Len(l_subs) + 1] = w.filter
        /\ \A i \in 1 .. Len(l_subs) : l_subs'[i] = l_subs[i]
    BY <1>2, <2>1, <2>3, AppendProperties
  <2>5. \A f : Has(l_subs, f) => Has(l_subs', f)
    BY <1>2, <2>4 DEF Has
  <2>6. Has(l_subs', w.filter)
    BY <1>2, <2>4 DEF Has
  <2>7. \A f : Asks(p, f) => f = w.filter
    BY <2>2 DEF Asks
  <2> QED
    BY <1>1, <2>1, <2>2, <2>5, <2>6, <2>7 DEF Calls, QueuedOK
<1>5. ASSUME NEW w \in Wanted, P!LeafUnsubscribe(w.filter) PROVE Calls
  <2> DEFINE p == P!Unsubscribe(P!NextPid, {w.filter})
  <2>1. l_subs' = P!Without(w.filter) /\ buf'.pkt = p
    BY <1>5 DEF P!LeafUnsubscribe, P!Encode
  <2>2. p.type = "UNSUBSCRIBE" /\ p.filters = {w.filter}
    BY DEF P!Unsubscribe
  <2>3. p # None
    <3>1. p \in Inbound
      <4>1. w.filter \in Filters
        BY ClientAssumption
      <4>2. P!NextPid \in Pids
        <5>1. l_next_pid \in P!Pids /\ P!Pids = Pids
          BY DEF P!TypeOK, P!Pids, Pids
        <5> QED
          BY <5>1, P!NextPidType, Instance, ClientAssumption, MatchingAssumption,
             PayloadAssumption, NoIdAssumption, PidMaxAssumption
      <4> QED
        BY <4>1, <4>2 DEF P!Unsubscribe, Inbound
    <3> QED
      BY <3>1, NoneLinkAssumption
  <2> HIDE DEF p
  <2>4. \A f : ~Asks(p, f)
    BY <2>2 DEF Asks
  <2>5. ASSUME NEW f, Has(l_subs, f) PROVE Has(l_subs', f) \/ Ends(p, f)
    <3>1. CASE f = w.filter
      BY <2>2, <2>3, <3>1 DEF Ends
    <3>2. CASE f # w.filter
      <4>1. PICK i \in 1 .. Len(l_subs) : l_subs[i] = f
        BY <2>5 DEF Has
      <4>2. \E j \in 1 .. Len(P!Without(w.filter)) : P!Without(w.filter)[j] = l_subs[i]
        BY <1>2, <3>2, <4>1, P!WithoutKeeps, Instance, ClientAssumption, MatchingAssumption,
           PayloadAssumption, NoIdAssumption, PidMaxAssumption
      <4> QED
        BY <2>1, <4>1, <4>2 DEF Has
    <3> QED
      BY <3>1, <3>2
  <2> QED
    BY <1>1, <2>1, <2>2, <2>4, <2>5 DEF Calls, QueuedOK
<1>6. ASSUME NEW m \in Messages, P!LeafPublish(m) PROVE Calls
  <2>1. UNCHANGED l_subs
    BY <1>6 DEF P!LeafPublish
  <2>2. UNCHANGED buf \/ \E q : buf'.pkt = P!Publish(m, q)
    BY <1>6 DEF P!LeafPublish, P!Encode
  <2>3. UNCHANGED buf \/ buf'.pkt.type = "PUBLISH"
    <3>1. \A q : P!Publish(m, q).type = "PUBLISH"
      BY DEF P!Publish
    <3> QED
      BY <2>2, <3>1
  <2> QED
    BY <1>1, <1>3, <1>7, <2>1, <2>3 DEF Asks, QueuedOK
<1> QED
  BY <1>4, <1>5, <1>6 DEF P!Call

\* The steps that take no packet, except a writable socket.
LEMMA OtherShape ==
  ASSUME P!IInv, P!SnapshotsPublish,
         \/ P!LeafConnect \/ P!LeafDisconnect \/ P!Recreate \/ P!Call
         \/ P!PollConnects \/ P!PollFails \/ P!Readable \/ P!PollEnds \/ P!CallbackReturns
  PROVE  Leaves \/ Tries \/ Calls \/ Rests
<1>0. P!TypeOK
  BY DEF P!IInv
<1>1. /\ P!Disconnect \in Inbound /\ P!Disconnect.type = "DISCONNECT"
      /\ P!Pingreq \in Inbound /\ P!Pingreq.type = "PINGREQ"
  BY DEF P!Disconnect, P!Pingreq, Inbound
<1>2. Small(<<>>) /\ Small(<<P!Disconnect>>) /\ (l_state \in {"READY", "CONNACK_WAIT"} => Small(<<P!Pingreq>>))
  BY <1>1, OneOrNone
<1>3. ASSUME P!Reset, Small(sent') PROVE Leaves
  BY <1>3 DEF P!Reset, P!NoPacket, Leaves
<1>4. \A q : Small(q) /\ P!Direct(q) => Small(sent')
  BY DirectSmall DEF Small
<1>5. CASE P!LeafConnect \/ P!PollConnects
  BY <1>5 DEF P!LeafConnect, P!PollConnects, P!ConnectTcp, P!Quiet, Tries
<1>6. CASE P!LeafDisconnect \/ P!Recreate \/ P!PollFails
  <2>1. P!Reset /\ (sent' = <<>> \/ P!Direct(<<P!Disconnect>>))
    BY <1>6 DEF P!LeafDisconnect, P!Recreate, P!PollFails, P!FireDisconnect, P!Quiet
  <2> QED
    BY <1>2, <1>3, <1>4, <2>1
<1>7. CASE P!Call
  BY <1>0, <1>7, CallShape
<1>8. CASE P!Readable \/ P!CallbackReturns
  <2>1. Plain(<<>>)
    BY <1>2 DEF Small
  <2> QED
    BY <1>8, <2>1 DEF P!Readable, P!CallbackReturns, P!Quiet, P!session, Rests
<1>9. CASE P!PollEnds
  <2>1. PICK ping \in {<<>>, <<P!Pingreq>>} :
          /\ ping = <<>> \/ l_state \in {"READY", "CONNACK_WAIT"}
          /\ \/ P!Reset /\ P!Direct(ping)
             \/ \E due \in SUBSET (P!Entries \ P!FreeEntries) :
                  /\ l_state = "READY" \/ due = {}
                  /\ P!Direct(ping \o P!Snapshots(due))
                  /\ UNCHANGED <<l_state, buf, received_ids, l_subs, l_next_pid, told>>
    BY <1>9 DEF P!PollEnds
  <2>2. Small(ping)
    BY <1>2, <2>1
  <2>3. CASE P!Reset /\ P!Direct(ping)
    BY <1>3, <1>4, <2>2, <2>3
  <2>4. ASSUME NEW due \in SUBSET (P!Entries \ P!FreeEntries), l_state = "READY" \/ due = {},
               P!Direct(ping \o P!Snapshots(due)),
               UNCHANGED <<l_state, buf, received_ids, l_subs, l_next_pid, told>>
        PROVE  Rests
    <3>1. Plain(P!Snapshots(due)) /\ (due = {} => P!Snapshots(due) = <<>>)
      BY <1>0, SnapshotsPlain
    <3>2. Small(ping \o P!Snapshots(due))
      BY <2>2, <2>4, <3>1, SmallPlain
    <3>3. Plain(sent')
      BY <1>4, <2>4, <3>2 DEF Small
    <3>4. CASE l_state \in {"READY", "CONNACK_WAIT"}
      BY <2>4, <3>3, <3>4 DEF Rests
    <3>5. CASE l_state \notin {"READY", "CONNACK_WAIT"}
      <4>1. ping = <<>> /\ P!Snapshots(due) = <<>>
        BY <2>1, <2>4, <3>1, <3>5
      <4>2. P!Direct(<<>>)
        BY <2>4, <4>1
      <4>3. <<>> \in Seq(P!Inbound) /\ Len(<<>>) = 0
        OBVIOUS
      <4>4. sent' = <<>>
        BY <4>2, <4>3, DirectNothing
      <4> QED
        BY <2>4, <3>3, <4>4 DEF Rests
    <3> QED
      BY <3>4, <3>5
  <2> QED
    BY <2>1, <2>3, <2>4
<1> QED
  BY <1>5, <1>6, <1>7, <1>8, <1>9

\* A writable socket takes CONNECT, or what is in the send buffer.
LEMMA WritableShape ==
  ASSUME P!TypeOK, P!Writable
  PROVE  Opens \/ Sends
<1>1. ASSUME NEW p, P!SendPending(p, 0) PROVE sent' = <<p>> /\ buf'.pkt = None
  <2>1. \A n \in {1} : 0 + P!Min2(n, 1 - 0) = 1
    BY DEF P!Min2
  <2> QED
    BY <1>1, <2>1 DEF P!SendPending, P!NoPacket
<1>2. buf.off = 0
  BY DEF P!TypeOK
<1>3. CASE l_state = "TCP_CONNECTING"
  BY <1>1, <1>3 DEF P!Writable, Opens
<1>4. CASE l_state # "TCP_CONNECTING"
  BY <1>1, <1>2, <1>4 DEF P!Writable, Sends
<1> QED
  BY <1>3, <1>4

\* A step that takes no packet.
Shape ==
  \/ Leaves \/ Tries \/ Opens \/ Calls \/ Rests
  \/ Sends /\ (link # None => Len(up[link]) < Way)

\* A step that takes one.
TakesOne ==
  /\ down # <<>> /\ Head(down) \in Outbound /\ Established(l_state) /\ Answers(Head(down))
  /\ GoesOn
  /\ down' = IF link' = None /\ ~Established(l_state') THEN <<>> ELSE Tail(down)

\* One that leaves the connection alone or ends it, whatever was on the way.
Stays == Shape /\ GoesOn /\ down' = (IF Established(l_state') THEN down ELSE <<>>)

\* Every step of the client is one of these, and keeps the client's own invariant.
LEMMA ClientMakes ==
  ASSUME ClientOK, WayOK, Client
  PROVE  /\ ClientOK' /\ sent' \in Seq(Inbound)
         /\ TakesOne \/ Stays \/ (Shape /\ Establishes)
<1>1. P!IInv' /\ P!SnapshotsPublish'
  BY ClientNext, ClientKeeps DEF ClientOK
<1>2. sent' \in Seq(Inbound)
  BY <1>1, Instance DEF P!IInv, P!TypeOK
<1>3. P!IInv /\ P!TypeOK /\ QueuedOK /\ P!SnapshotsPublish
  BY DEF ClientOK, P!IInv
<1>4. CASE ClientTakes
  <2>1. down # <<>> /\ Head(down) \in Outbound /\ GoesOn
        /\ down' = IF link' = None /\ ~Established(l_state') THEN <<>> ELSE Tail(down)
    BY <1>4, HeadTailProperties DEF ClientTakes, WayOK
  <2>2. P!Packet(Head(down))
    BY <1>4, SameLeaf DEF ClientTakes
  <2>3. Answers(Head(down)) /\ Established(l_state)
    BY <1>3, <2>1, <2>2, PacketShape
  <2>4. QueuedOK'
    BY <1>3, <2>3 DEF Answers, QueuedOK
  <2>5. TakesOne
    BY <2>1, <2>3 DEF TakesOne
  <2> QED
    BY <1>1, <1>2, <2>4, <2>5 DEF ClientOK
<1>5. CASE ~ClientTakes
  <2>1. /\ Establishes \/ (GoesOn /\ down' = IF Established(l_state') THEN down ELSE <<>>)
        /\ \/ L!LeafConnect \/ L!LeafDisconnect \/ L!Recreate \/ L!Call
           \/ L!PollConnects \/ L!PollFails \/ L!Readable \/ L!PollEnds \/ L!CallbackReturns
           \/ (link # None => Len(up[link]) < Way) /\ L!Writable
    BY <1>5 DEF Client
  <2>2. ASSUME P!Writable, link # None => Len(up[link]) < Way PROVE Shape
    <3>1. Opens \/ Sends
      BY <1>3, <2>2, WritableShape
    <3> QED
      BY <2>2, <3>1 DEF Shape
  <2>3. ASSUME \/ P!LeafConnect \/ P!LeafDisconnect \/ P!Recreate \/ P!Call
               \/ P!PollConnects \/ P!PollFails \/ P!Readable \/ P!PollEnds \/ P!CallbackReturns
        PROVE  Shape
    <3>1. Leaves \/ Tries \/ Calls \/ Rests
      BY <1>3, <2>3, OtherShape
    <3> QED
      BY <3>1 DEF Shape
  <2>4. Shape
    <3>1. \/ P!LeafConnect \/ P!LeafDisconnect \/ P!Recreate \/ P!Call
          \/ P!PollConnects \/ P!PollFails \/ P!Readable \/ P!PollEnds \/ P!CallbackReturns
          \/ (P!Writable /\ (link # None => Len(up[link]) < Way))
      BY <2>1, SameLeaf
    <3> QED
      BY <2>2, <2>3, <3>1
  <2>5. QueuedOK'
    BY <1>3, <2>4 DEF Shape, Leaves, Tries, Opens, Calls, Rests, Sends, QueuedOK
  <2>6. Stays \/ (Shape /\ Establishes)
    BY <2>1, <2>4 DEF Stays
  <2> QED
    BY <1>1, <1>2, <2>5, <2>6 DEF ClientOK
<1> QED
  BY <1>4, <1>5

\* A connection that is established has carried nothing but CONNECT.
LEMMA EstablishesShape ==
  ASSUME QueuedOK, Shape, Establishes
  PROVE  \/ l_state' = "TCP_CONNECTED" /\ sent' = <<>> /\ UNCHANGED <<buf, l_subs>>
         \/ l_state' = "CONNACK_WAIT" /\ sent' = <<OwnConnect>> /\ buf'.pkt = None
BY DEF Shape, Establishes, Established, Leaves, Tries, Opens, Calls, Rests, Sends, QueuedOK

\* What the client does keeps the way in order.
LEMMA ClientKeepsWay ==
  ASSUME IInv, ClientOK, WayOK, AcceptedOK, Client
  PROVE  IInv' /\ WayOK' /\ AcceptedOK'
<1>1. sent' \in Seq(Inbound) /\ (TakesOne \/ Stays \/ (Shape /\ Establishes))
  BY ClientMakes
<1>2. /\ mine \subseteq Slots /\ link \in mine \cup {None} /\ None \notin mine
      /\ up \in [Slots -> Seq(Inbound)] /\ down \in Seq(Outbound)
  BY NoneLinkAssumption DEF WayOK, Open
<1>3. ASSUME GoesOn
      PROVE  /\ IInv' /\ mine' \subseteq Open' /\ (mine' # {} => phase' = "up")
             /\ link' \in mine' \cup {None} /\ up' \in [Slots -> Seq(Inbound)]
             /\ (\A c \in Slots : c \notin mine' => up'[c] = <<>>)
             /\ session' = session /\ link' = IF Established(l_state') THEN link ELSE None
  <2>1. UNCHANGED vars /\ mine' = mine
    BY <1>3 DEF GoesOn
  <2>2. IInv'
    BY <2>1, NextInv
  <2>3. Open' = Open /\ phase' = phase /\ session' = session
    BY <2>1 DEF vars, Open
  <2>4. up' = IF link = None THEN up
              ELSE [up EXCEPT ![link] = IF Len(up[link] \o sent') <= Way
                                        THEN up[link] \o sent' ELSE up[link]]
    BY <1>3 DEF GoesOn
  <2>5. link # None => link \in Slots /\ up[link] \in Seq(Inbound)
                       /\ up[link] \o sent' \in Seq(Inbound)
    BY <1>1, <1>2, ConcatProperties
  <2>6. up' \in [Slots -> Seq(Inbound)]
    BY <1>2, <2>4, <2>5
  <2>7. \A c \in Slots : c \notin mine => up'[c] = <<>>
    BY <1>2, <2>4, <2>5 DEF WayOK
  <2>8. link' = IF Established(l_state') THEN link ELSE None
    BY <1>3 DEF GoesOn
  <2> QED
    BY <1>2, <2>1, <2>2, <2>3, <2>6, <2>7, <2>8 DEF WayOK
<1>4. CASE TakesOne
  <2> DEFINE p == Head(down)
  <2>1. GoesOn /\ Established(l_state') /\ down # <<>>
    BY <1>4 DEF TakesOne, Answers, Established
  <2>2. down' = Tail(down) /\ link' = link
    BY <1>3, <1>4, <2>1 DEF TakesOne
  <2>3. /\ Len(down) \in Nat \ {0} /\ down' \in Seq(Outbound) /\ Len(down') = Len(down) - 1
        /\ p = down[1] /\ \A k \in 1 .. Len(down') : down'[k] = down[k + 1]
    <3>1. down # <<>> /\ down \in Seq(Outbound) /\ down' = Tail(down)
      BY <1>2, <2>1, <2>2
    <3> QED
      BY <3>1, HeadTailProperties, LenProperties
  <2> HIDE DEF p
  <2>4. WayOK'
    BY <1>3, <2>1, <2>3 DEF WayOK, Established
  <2>5. link # None /\ p.type = "CONNACK" /\ p.rc = 0 => session[link].connected
    BY <2>3 DEF AcceptedOK
  <2>6. l_state' = "READY" => l_state = "READY" \/ (p.type = "CONNACK" /\ p.rc = 0)
    <3>1. Answers(p)
      BY <1>4 DEF TakesOne, p
    <3> QED
      BY <3>1 DEF Answers
  <2>7. \A k \in 1 .. Len(down') : k + 1 \in 1 .. Len(down)
    BY <2>3
  <2>8. ASSUME link # None, NEW k \in 1 .. Len(down'), down'[k].type = "CONNACK", down'[k].rc = 0
        PROVE  session[link].connected
    BY <2>3, <2>7, <2>8 DEF AcceptedOK
  <2>9. link # None /\ l_state' = "READY" => session[link].connected
    BY <2>5, <2>6 DEF AcceptedOK
  <2>10. session' = session /\ link' = link
    BY <1>3, <2>1, <2>2
  <2>11. AcceptedOK'
    BY <2>8, <2>9, <2>10 DEF AcceptedOK
  <2> QED
    BY <1>3, <2>1, <2>4, <2>11
<1>5. CASE Stays
  <2>1. GoesOn /\ down' = IF Established(l_state') THEN down ELSE <<>>
    BY <1>5 DEF Stays
  <2>2. down' \in Seq(Outbound)
    BY <1>2, <2>1
  <2>3. WayOK'
    BY <1>3, <2>1, <2>2 DEF WayOK, Established
  <2>4. l_state' = "READY" => l_state = "READY"
    BY <1>5 DEF Stays, Shape, Leaves, Tries, Opens, Calls, Rests, Sends
  <2>5. link' # None => link' = link /\ link # None /\ down' = down
    BY <1>3, <2>1
  <2>6. session' = session
    BY <1>3, <2>1
  <2>7. AcceptedOK'
    BY <2>4, <2>5, <2>6 DEF AcceptedOK
  <2> QED
    BY <1>3, <2>1, <2>3, <2>7
<1>6. CASE Shape /\ Establishes
  <2>1. ~Established(l_state) /\ Established(l_state') /\ phase = "up" /\ down' = down
    BY <1>6 DEF Establishes
  <2>2. link = None /\ down = <<>> /\ l_state' # "READY"
    BY <1>6, <2>1, EstablishesShape DEF WayOK, ClientOK
  <2>3. AcceptedOK'
    BY <2>1, <2>2 DEF AcceptedOK
  <2>4. CASE /\ Accept /\ link' = Lowest(Slots \ Open) /\ mine' = mine \cup {link'}
             /\ up' = [up EXCEPT ![link'] = sent']
    <3>1. link' \in Slots \ Open /\ Open' = Open \cup {link'} /\ phase' = "up" /\ IInv'
      BY <2>4, AcceptEffect, AcceptInv
    <3>2. up' \in [Slots -> Seq(Inbound)]
      BY <1>1, <1>2, <2>4, <3>1
    <3>3. \A c \in Slots \ mine' : up'[c] = <<>>
      BY <1>2, <2>4, <3>1 DEF WayOK
    <3>4. WayOK'
      BY <1>2, <2>1, <2>2, <2>4, <3>1, <3>2, <3>3 DEF WayOK, Established
    <3> QED
      BY <2>3, <3>1, <3>4
  <2>5. CASE UNCHANGED <<vars, mine, up>> /\ link' = None
    <3>1. Open' = Open /\ phase' = phase /\ UNCHANGED vars
      BY <2>5 DEF vars, Open
    <3>2. IInv'
      BY <3>1, NextInv
    <3>3. WayOK'
      BY <1>2, <2>1, <2>2, <2>5, <3>1 DEF WayOK, Established
    <3> QED
      BY <2>3, <3>2, <3>3
  <2> QED
    BY <1>6, <2>4, <2>5 DEF Establishes
<1> QED
  BY <1>1, <1>4, <1>5, <1>6

---------------------------------------------------------------------------
(***************************************************************************)
(* The invariant of both together.                                         *)
(***************************************************************************)
LEMMA LinkInvInit == ComposedInit => LinkInv
<1> SUFFICES ASSUME ComposedInit PROVE LinkInv
  OBVIOUS
<1>1. /\ Init /\ L!Init
      /\ mine = {} /\ link = None /\ up = [c \in Slots |-> <<>>] /\ down = <<>>
  BY DEF ComposedInit
<1>2. IInv
  BY <1>1, InitInv
<1>3. P!Init
  BY <1>1, SameLeaf
<1>4. P!IInv
  BY <1>3, P!InitInv, Instance, ClientAssumption, MatchingAssumption, PayloadAssumption,
     NoIdAssumption, PidMaxAssumption
<1>5. P!SnapshotsPublish /\ QueuedOK
  BY <1>3 DEF P!Init, P!NoPending, P!NoPacket, P!SnapshotsPublish, QueuedOK
<1>6. WayOK /\ AcceptedOK
  <2>1. <<>> \in Seq(Inbound) /\ <<>> \in Seq(Outbound)
    OBVIOUS
  <2> QED
    BY <1>1, <2>1 DEF WayOK, AcceptedOK, Established
<1> QED
  BY <1>2, <1>4, <1>5, <1>6 DEF LinkInv, ClientOK

\* The client has no part in a step of the broker.
LEMMA ClientWaits ==
  ASSUME ClientOK, UNCHANGED lvars
  PROVE  ClientOK'
<1>1. P!IInv /\ P!SnapshotsPublish /\ QueuedOK
  BY DEF ClientOK
<1>2. P!IInv' /\ P!SnapshotsPublish'
  BY <1>1, ClientKeeps DEF lvars, P!vars, P!session
<1>3. QueuedOK'
  BY <1>1 DEF lvars, QueuedOK
<1> QED
  BY <1>2, <1>3 DEF ClientOK

LEMMA LinkInvNext == LinkInv /\ [ComposedNext]_allvars => LinkInv'
<1> SUFFICES ASSUME LinkInv, [ComposedNext]_allvars PROVE LinkInv'
  OBVIOUS
<1>1. IInv /\ ClientOK /\ WayOK /\ AcceptedOK
  BY DEF LinkInv
<1>2. CASE Broker
  <2>1. UNCHANGED lvars
    BY <1>2 DEF Broker
  <2>2. IInv' /\ WayOK' /\ AcceptedOK'
    BY <1>1, <1>2, <2>1, BrokerMakes, BrokerKeepsWay
  <2>3. ClientOK'
    BY <1>1, <2>1, ClientWaits
  <2> QED
    BY <2>2, <2>3 DEF LinkInv
<1>3. CASE Client
  <2>1. ClientOK'
    BY <1>1, <1>3, ClientMakes
  <2>2. IInv' /\ WayOK' /\ AcceptedOK'
    BY <1>1, <1>3, ClientKeepsWay
  <2> QED
    BY <2>1, <2>2 DEF LinkInv
<1>4. CASE UNCHANGED allvars
  <2>1. UNCHANGED vars /\ UNCHANGED lvars /\ UNCHANGED way
    BY <1>4 DEF allvars
  <2>2. IInv'
    BY <1>1, <2>1, NextInv
  <2>3. ClientOK'
    BY <1>1, <2>1, ClientWaits
  <2>4. l_state' = l_state /\ Open' = Open /\ phase' = phase /\ session' = session
    BY <2>1 DEF vars, lvars, Open
  <2>5. WayOK' /\ AcceptedOK'
    BY <1>1, <2>1, <2>4 DEF way, WayOK, AcceptedOK, Established
  <2> QED
    BY <2>2, <2>3, <2>5 DEF LinkInv
<1> QED
  BY <1>2, <1>3, <1>4 DEF ComposedNext

\* The two programs' invariants hold beside each other, the client's connection is a slot
\* of the broker, and a CONNACK that accepts is on its way only from one that accepted.
THEOREM LinkInvariant == ComposedSpec => []LinkInv
BY LinkInvInit, LinkInvNext, PTL DEF ComposedSpec

\* A client that is told that it is ready talks to a slot that has accepted its CONNECT,
\* whatever the other clients, evictions, timeouts and lost connections do in between.
THEOREM ReadyIsAccepted == ComposedSpec => []ReadyMeansAccepted
<1>1. LinkInv => ReadyMeansAccepted
  BY DEF LinkInv, AcceptedOK, ReadyMeansAccepted
<1> QED
  BY <1>1, LinkInvariant, PTL

\* Both sides keep their types, and a slot's own list names its own subscriptions only.
THEOREM BothKeepTheirTypes == ComposedSpec => [](TypeOK /\ P!TypeOK /\ HeldOwned)
<1>1. LinkInv => TypeOK /\ P!TypeOK /\ HeldOwned
  BY DEF LinkInv, IInv, ClientOK, P!IInv
<1> QED
  BY <1>1, LinkInvariant, PTL

\* The broker still implements PubSub when one of its clients is a leaf, with all that is on
\* the way between them and whatever the sizes of the table and of the clients' lists are.
THEOREM ComposedImplementsPubSub == ComposedSpec => ImplementsPubSub
<1>1. ASSUME IInv, WayOK, Broker
      PROVE  Promise!Next
  <2>1. ASSUME NEW c \in Slots, NEW p \in Inbound, Recv(c, p) PROVE Promise!Next
    BY <1>1, <2>1, TakingPromised
  <2>2. ASSUME NEW c \in Slots, BrokerTakes(c) PROVE Promise!Next
    <3>1. up[c] \in Seq(Inbound) /\ up[c] # <<>> /\ Recv(c, Head(up[c]))
      BY <1>1, <2>2 DEF BrokerTakes, WayOK
    <3>2. Head(up[c]) \in Inbound
      BY <3>1, HeadTailProperties
    <3> QED
      BY <2>1, <3>1, <3>2
  <2>3. ASSUME NEW c \in Slots \ mine, NEW p \in Inputs, Recv(c, p) PROVE Promise!Next
    BY <2>1, <2>3, InputsAssumption
  <2>4. ASSUME NEW c \in Slots, PeerGone(c) \/ KeepaliveTimeout(c) PROVE Promise!Next
    BY <1>1, <2>4, EndPromised
  <2>5. ASSUME NEW m \in ApiMessages, ApiPublish(m) PROVE Promise!Next
    BY <1>1, <2>5, ApiPromised
  <2>6. CASE Accept
    BY <1>1, <2>6, AcceptPromised
  <2>7. CASE Destroy \/ Create
    BY <1>1, <2>7, BlankPromised DEF Destroy, Create
  <2> QED
    BY <1>1, <2>2, <2>3, <2>4, <2>5, <2>6, <2>7 DEF Broker
<1>2. UNCHANGED vars => UNCHANGED <<Open, Interest>>
  BY DEF vars, Open, Interest
<1>3. ASSUME IInv, Client
      PROVE  [Promise!Next]_<<Open, Interest>>
  <2>1. Accept \/ UNCHANGED vars
    BY <1>3 DEF Client, ClientTakes, Establishes, GoesOn
  <2> QED
    BY <1>2, <1>3, <2>1, AcceptPromised
<1>4. LinkInv /\ [ComposedNext]_allvars => [Promise!Next]_<<Open, Interest>>
  BY <1>1, <1>2, <1>3 DEF LinkInv, ComposedNext, allvars
<1>5. ComposedInit => Promise!Init
  BY PromisedAtFirst DEF ComposedInit
<1> QED
  BY <1>4, <1>5, LinkInvariant, PTL DEF ComposedSpec, ImplementsPubSub, Promise!Spec, Interest

---------------------------------------------------------------------------
(***************************************************************************)
(* The two tables of subscriptions.                                        *)
(***************************************************************************)
\* Once the first packet of q is taken.
LEMMA EndedInTail ==
  ASSUME NEW q \in Seq(Inbound), q # <<>>, NEW k \in Nat, NEW f, EndedAfter(q, k + 1, f)
  PROVE  EndedAfter(Tail(q), k, f)
<1>1. PICK j \in (k + 1) + 1 .. Len(q) : Ends(q[j], f)
  BY DEF EndedAfter
<1>2. Len(q) \in Nat \ {0} /\ Len(Tail(q)) = Len(q) - 1 /\ \A i \in 1 .. Len(Tail(q)) : Tail(q)[i] = q[i + 1]
  BY HeadTailProperties, LenProperties
<1>3. j - 1 \in k + 1 .. Len(Tail(q)) /\ j - 1 \in 1 .. Len(Tail(q)) /\ (j - 1) + 1 = j
  BY <1>2
<1>4. Tail(q)[j - 1] = q[j]
  BY <1>2, <1>3
<1> QED
  BY <1>1, <1>3, <1>4 DEF EndedAfter

\* What is sent later leaves the packets before it where they are.
LEMMA JoinedFirst ==
  ASSUME NEW q \in Seq(Inbound), NEW r \in Seq(Inbound)
  PROVE  /\ q \o r \in Seq(Inbound) /\ Len(q) \in Nat /\ Len(r) \in Nat
         /\ Len(q \o r) = Len(q) + Len(r)
         /\ \A i \in 1 .. Len(q) : i \in 1 .. Len(q \o r) /\ (q \o r)[i] = q[i]
<1>1. Len(q) \in Nat /\ Len(r) \in Nat
  OBVIOUS
<1>2. /\ q \o r \in Seq(Inbound) /\ Len(q \o r) = Len(q) + Len(r)
      /\ \A i \in 1 .. Len(q) + Len(r) : (q \o r)[i] = IF i <= Len(q) THEN q[i] ELSE r[i - Len(q)]
  BY ConcatProperties
<1> DEFINE m == Len(q)
           n == Len(r)
           w == q \o r
<1> HIDE DEF m, n, w
<1>3. m \in Nat /\ n \in Nat /\ Len(w) = m + n
      /\ \A i \in 1 .. m + n : w[i] = IF i <= m THEN q[i] ELSE r[i - m]
  BY <1>1, <1>2 DEF m, n, w
<1>4. \A i \in 1 .. m : i \in 1 .. Len(w) /\ i \in 1 .. m + n /\ i <= m
  BY <1>3
<1>5. \A i \in 1 .. m : i \in 1 .. Len(w) /\ w[i] = q[i]
  BY <1>3, <1>4
<1> QED
  BY <1>1, <1>2, <1>5 DEF m, w

LEMMA EndedInJoined ==
  ASSUME NEW q \in Seq(Inbound), NEW r \in Seq(Inbound), NEW k \in Nat, NEW f,
         EndedAfter(q, k, f)
  PROVE  EndedAfter(q \o r, k, f)
<1>1. PICK j \in k + 1 .. Len(q) : Ends(q[j], f)
  BY DEF EndedAfter
<1>2. Len(q) \in Nat
  OBVIOUS
<1>3. j \in 1 .. Len(q)
  BY <1>2
<1>4. j \in 1 .. Len(q \o r) /\ (q \o r)[j] = q[j] /\ Len(q \o r) \in Nat
  BY <1>3, JoinedFirst
<1>5. j \in k + 1 .. Len(q \o r)
  <2> HIDE DEF EndedAfter
  <2> QED
    BY <1>1, <1>2, <1>4
<1> QED
  BY <1>1, <1>4, <1>5 DEF EndedAfter

\* The broker subscribes the client to nothing else than what was asked, and what it
\* takes from the way is done.
LEMMA BrokerKeepsSubs ==
  ASSUME IInv, WayOK, WayOK', SubsOK, UNCHANGED <<lvars, lost>>,
         NEW T, NEW c, NEW used, BrokerStep(T, c, used)
  PROVE  SubsOK'
<1> DEFINE Later(f, k) == \/ Has(l_subs', f) \/ Ends(buf'.pkt, f) \/ EndedAfter(up'[link'], k, f)
                         \/ f \in lost'
<1>1. l_subs' = l_subs /\ buf' = buf /\ l_state' = l_state /\ lost' = lost
  BY DEF lvars
<1>2. subs' = T.subs /\ Tables.subs = subs
  BY DEF BrokerStep, Tables
<1>3. (\A f \in Filters : Asks(buf.pkt, f) => Has(l_subs, f)) /\ (lost # {} => l_state = "READY")
  BY DEF SubsOK
<1>4. CASE link' = None
  BY <1>1, <1>3, <1>4 DEF SubsOK
<1>5. CASE link' # None
  <2>1. /\ link' = link /\ link # None /\ link \in mine /\ link \in Slots /\ link \in Open
        /\ up[link] \in Seq(Inbound) /\ up'[link] = IF link = used THEN Tail(up[link]) ELSE up[link]
    BY <1>5 DEF BrokerStep, Carried, WayOK, Open
  <2>2. /\ \A s \in SubSlots : subs[s] # None /\ subs[s].listed /\ subs[s].owner = link => Settled(subs[s].filter, 0)
        /\ \A k \in 1 .. Len(up[link]) : \A f \in Filters : Asks(up[link][k], f) => Settled(f, k)
    BY <2>1 DEF SubsOK
  <2>3. CASE used = link
    <3> DEFINE q == up[link]
               p == Head(q)
    <3>1. q # <<>> /\ q \in Seq(Inbound) /\ p \in Inbound /\ T = Handle(Tables, link, p)
      BY <2>1, <2>3, NoneLinkAssumption DEF BrokerStep
    <3>2. /\ Good(Tables) /\ Tables.accepted = {} /\ Tables.state[link] # "DISCONNECTED"
      BY <2>1, TablesGood DEF Open
    <3>3. /\ p = q[1] /\ Len(q) \in Nat \ {0} /\ Len(Tail(q)) = Len(q) - 1
          /\ \A i \in 1 .. Len(Tail(q)) : Tail(q)[i] = q[i + 1]
      BY <3>1, HeadTailProperties, LenProperties
    <3>4. up'[link] = Tail(q)
      BY <2>1, <2>3
    <3> HIDE DEF p, q
    <3>5. ASSUME NEW f, NEW k \in Nat, Has(l_subs, f) \/ Ends(buf.pkt, f) \/ EndedAfter(q, k + 1, f) \/ f \in lost
          PROVE  Later(f, k)
      <4>1. EndedAfter(q, k + 1, f) => EndedAfter(Tail(q), k, f)
        BY <3>1, EndedInTail
      <4>2. Has(l_subs', f) \/ Ends(buf'.pkt, f) \/ EndedAfter(Tail(q), k, f) \/ f \in lost'
        BY <1>1, <3>5, <4>1
      <4> QED
        BY <2>1, <3>4, <4>2 DEF Settled
    <3>6. ASSUME NEW f \in Filters, Asks(p, f) PROVE Later(f, 0)
      <4>1. Asks(up[link][1], f) /\ 1 \in 1 .. Len(up[link])
        BY <3>3, <3>6 DEF q
      <4>2. Settled(f, 1)
        BY <2>2, <4>1
      <4>3. Has(l_subs, f) \/ Ends(buf.pkt, f) \/ EndedAfter(q, 0 + 1, f) \/ f \in lost
        BY <4>2 DEF Settled, q
      <4> QED
        BY <3>5, <4>3
    <3>7. ASSUME NEW s \in SubSlots, subs'[s] # None, subs'[s].listed, subs'[s].owner = link
          PROVE  Later(subs'[s].filter, 0)
      <4> DEFINE W == Handle(Tables, link, p)
      <4>1. W.subs = subs' /\ W.subs[s] # None
        BY <1>2, <3>1, <3>7
      <4>2. /\ W.subs[s] = Tables.subs[s] \/ Asks(p, W.subs[s].filter)
            /\ p.type = "UNSUBSCRIBE" /\ Tables.subs[s].listed /\ Tables.subs[s].owner = link
                 => Tables.subs[s].filter \notin p.filters
        BY <2>1, <3>1, <3>2, <4>1, HandleSubs
      <4> HIDE DEF W
      <4>3. subs'[s] = subs[s] \/ Asks(p, subs'[s].filter)
        BY <1>2, <4>1, <4>2
      <4>4. p.type = "UNSUBSCRIBE" /\ subs[s].listed /\ subs[s].owner = link
              => subs[s].filter \notin p.filters
        BY <1>2, <4>2
      <4>5. CASE Asks(p, subs'[s].filter)
        <5>1. W \in TablesType
          BY <2>1, <3>1, <3>2, HandleGood DEF Good, W
        <5>2. subs'[s].filter \in Filters
          BY <3>7, <4>1, <5>1 DEF TablesType, Sub
        <5> QED
          BY <3>6, <4>5, <5>2
      <4>6. CASE subs'[s] = subs[s]
        <5> DEFINE f == subs[s].filter
        <5>1. Settled(f, 0) /\ ~Ends(p, f)
          BY <2>2, <3>7, <4>4, <4>6 DEF Ends
        <5>2. EndedAfter(q, 0, f) => EndedAfter(q, 0 + 1, f)
          <6> SUFFICES ASSUME NEW j \in 0 + 1 .. Len(q), Ends(q[j], f)
                       PROVE  EndedAfter(q, 0 + 1, f)
            BY DEF EndedAfter
          <6>1. j # 1
            BY <3>3, <5>1
          <6>2. j \in (0 + 1) + 1 .. Len(q)
            BY <3>3, <6>1
          <6> QED
            BY <6>2 DEF EndedAfter
        <5>3. Has(l_subs, f) \/ Ends(buf.pkt, f) \/ EndedAfter(q, 0 + 1, f) \/ f \in lost
          BY <5>1, <5>2 DEF Settled, q
        <5>4. Later(f, 0)
          BY <3>5, <5>3
        <5> QED
          BY <4>6, <5>4
      <4> QED
        BY <4>3, <4>5, <4>6
    <3>8. ASSUME NEW k \in 1 .. Len(up'[link]), NEW f \in Filters, Asks(up'[link][k], f)
          PROVE  Later(f, k)
      <4>1. k + 1 \in 1 .. Len(q) /\ k \in Nat /\ up'[link][k] = q[k + 1]
        BY <3>3, <3>4
      <4>2. Settled(f, k + 1)
        BY <2>2, <3>8, <4>1 DEF q
      <4>3. Has(l_subs, f) \/ Ends(buf.pkt, f) \/ EndedAfter(q, k + 1, f) \/ f \in lost
        BY <4>2 DEF Settled, q
      <4> QED
        BY <3>5, <4>1, <4>3
    <3> QED
      BY <1>1, <1>3, <2>1, <3>7, <3>8 DEF SubsOK, Settled
  <2>4. CASE used # link
    <3>1. up'[link] = up[link]
      BY <2>1, <2>4
    <3>2. c # link
      BY <2>1, <2>4 DEF BrokerStep
    <3>3. \A s \in SubSlots : subs'[s] # None /\ subs'[s].owner = link => subs'[s] = subs[s]
      BY <1>2, <3>2 DEF BrokerStep, Moved
    <3>4. \A f, k : Settled(f, k) => Later(f, k)
      BY <1>1, <2>1, <3>1 DEF Settled
    <3> QED
      BY <1>1, <1>3, <2>1, <2>2, <3>1, <3>3, <3>4 DEF SubsOK, Settled
  <2> QED
    BY <2>3, <2>4
<1> QED
  BY <1>4, <1>5

\* A slot that is closed has no listed subscription.
LEMMA NothingOfClosed ==
  ASSUME IInv, NEW c \in Slots \ Open, NEW s \in SubSlots, subs[s] # None, subs[s].listed
  PROVE  subs[s].owner # c
<1>1. ListedStayHeld /\ ClosedSlotClean
  BY DEF IInv
<1> QED
  BY <1>1 DEF ListedStayHeld, ClosedSlotClean, NoSession, Open

\* What is lost stays lost until UNSUBSCRIBE is in the send buffer again, and what leaves
\* the send buffer unsent is lost.
LEMMA LosesShape ==
  ASSUME Loses
  PROVE  /\ lost' # {} => l_state' = "READY"
         /\ l_state' = "READY" => \A f : f \in lost => f \in lost' \/ Ends(buf'.pkt, f)
         /\ l_state' = "READY" /\ sent' = <<>> =>
              \A f : Ends(buf.pkt, f) => f \in lost' \/ Ends(buf'.pkt, f)
<1>1. \A p, f : f \in Unsubscribed(p) <=> Ends(p, f)
  BY DEF Unsubscribed, Ends
<1>2. lost' = IF l_state' # "READY" THEN {}
              ELSE (IF sent' = <<>> THEN lost \cup Unsubscribed(buf.pkt) ELSE lost)
                     \ Unsubscribed(buf'.pkt)
  BY DEF Loses
<1> QED
  BY <1>1, <1>2

\* What the program asks for is in its table before it is sent; what it gives up stays
\* there until UNSUBSCRIBE is in the send buffer, which goes on its way in one piece or is
\* lost to a later call.
LEMMA ClientKeepsSubs ==
  ASSUME IInv, ClientOK, WayOK, SubsOK, Client
  PROVE  SubsOK'
<1> DEFINE Later(f, k) == \/ Has(l_subs', f) \/ Ends(buf'.pkt, f) \/ EndedAfter(up'[link'], k, f)
                         \/ f \in lost'
<1>1. sent' \in Seq(Inbound) /\ (TakesOne \/ Stays \/ (Shape /\ Establishes))
  BY ClientMakes
<1>2. (\A f \in Filters : Asks(buf.pkt, f) => Has(l_subs, f)) /\ (lost # {} => l_state = "READY")
  BY DEF SubsOK
<1>3. Shape \/ Answers(Head(down))
  BY <1>1 DEF TakesOne, Stays
<1>4. (\A f \in Filters : Asks(buf'.pkt, f) => Has(l_subs', f)) /\ (lost' # {} => l_state' = "READY")
  <2>1. \A f : ~Asks(None, f)
    BY DEF Asks
  <2>2. \A f \in Filters : Asks(buf'.pkt, f) => Has(l_subs', f)
    BY <1>2, <1>3, <2>1 DEF Shape, Leaves, Tries, Opens, Calls, Sends, Rests, Answers
  <2>3. lost' # {} => l_state' = "READY"
    BY LosesShape DEF Client
  <2> QED
    BY <2>2, <2>3
<1>5. CASE link' = None
  BY <1>4, <1>5 DEF SubsOK
<1>6. CASE (TakesOne \/ Stays) /\ link' # None
  <2>1. /\ GoesOn /\ Established(l_state') /\ link' = link /\ link # None /\ link \in Slots
        /\ subs' = subs /\ up \in [Slots -> Seq(Inbound)] /\ Established(l_state)
    BY <1>6, NoneLinkAssumption DEF TakesOne, Stays, GoesOn, vars, WayOK, Open
  <2> DEFINE q == up[link]
             r == sent'
  <2>2. q \in Seq(Inbound) /\ r \in Seq(Inbound) /\ Len(q) \in Nat
    BY <1>1, <2>1
  <2>3. up'[link] = IF Len(q \o r) <= Way THEN q \o r ELSE q
    BY <2>1 DEF GoesOn
  <2>4. /\ \A s \in SubSlots : subs[s] # None /\ subs[s].listed /\ subs[s].owner = link => Settled(subs[s].filter, 0)
        /\ \A k \in 1 .. Len(q) : \A f \in Filters : Asks(q[k], f) => Settled(f, k)
    BY <2>1 DEF SubsOK
  <2> HIDE DEF q, r
  <2>5. ASSUME \A f, k : k \in 0 .. Len(q) /\ Settled(f, k) => Later(f, k),
               \A k \in 1 .. Len(up'[link]) : \A f \in Filters :
                 Asks(up'[link][k], f) => (k \in 1 .. Len(q) /\ Asks(q[k], f)) \/ Later(f, k)
        PROVE  SubsOK'
    <3>1. 0 \in 0 .. Len(q) /\ \A k \in 1 .. Len(q) : k \in 0 .. Len(q)
      BY <2>2
    <3>2. \A s \in SubSlots : subs'[s] # None /\ subs'[s].listed /\ subs'[s].owner = link'
                             => Later(subs'[s].filter, 0)
      BY <2>1, <2>4, <2>5, <3>1
    <3>3. \A k \in 1 .. Len(up'[link']) : \A f \in Filters : Asks(up'[link'][k], f) => Later(f, k)
      BY <2>1, <2>4, <2>5, <3>1
    <3> QED
      BY <1>4, <3>2, <3>3 DEF SubsOK, Settled
  <2>6. ASSUME NEW k, NEW f, k \in 0 .. Len(q), EndedAfter(q, k, f)
        PROVE  EndedAfter(up'[link'], k, f)
    <3>1. k \in Nat
      BY <2>2, <2>6
    <3>2. EndedAfter(q \o r, k, f)
      BY <2>2, <2>6, <3>1, EndedInJoined
    <3> QED
      BY <2>1, <2>3, <2>6, <3>2
  <2>10. ASSUME NEW f \in lost PROVE f \in lost' \/ Ends(buf'.pkt, f)
    <3>1. l_state = "READY"
      BY <1>2, <2>10
    <3>2. l_state' = "READY"
      BY <1>3, <2>1, <3>1 DEF Shape, Leaves, Tries, Opens, Calls, Sends, Rests, Answers, Established
    <3> QED
      BY <2>10, <3>2, LosesShape DEF Client
  <2>7. CASE Calls
    <3>1. up'[link] = q
      <4>1. q \o <<>> = q
        BY <2>2, ConcatEmptySeq
      <4> QED
        BY <2>3, <2>7, <4>1 DEF Calls, r
    <3>2. \A f, k : k \in 0 .. Len(q) /\ Settled(f, k) => Later(f, k)
      <4>1. \A f : Ends(buf.pkt, f) => f \in lost' \/ Ends(buf'.pkt, f)
        BY <2>7, LosesShape DEF Calls, Client
      <4> QED
        BY <2>1, <2>7, <2>10, <3>1, <4>1 DEF Calls, Settled, q
    <3> QED
      BY <2>5, <3>1, <3>2
  <2>8. CASE Plain(r) /\ UNCHANGED <<buf, l_subs>>
    <3>1. \A f, k : k \in 0 .. Len(q) /\ Settled(f, k) => Later(f, k)
      BY <2>6, <2>8, <2>10 DEF Settled, q
    <3>2. ASSUME NEW k \in 1 .. Len(up'[link]), NEW f \in Filters, Asks(up'[link][k], f)
          PROVE  k \in 1 .. Len(q) /\ Asks(q[k], f)
      <4>1. CASE up'[link] = q
        BY <3>2, <4>1
      <4>2. CASE up'[link] = q \o r
        <5>1. \/ k \in 1 .. Len(q) /\ (q \o r)[k] = q[k]
              \/ k - Len(q) \in 1 .. Len(r) /\ (q \o r)[k] = r[k - Len(q)]
          BY <2>2, <4>2, JoinedElement
        <5>2. \A i \in 1 .. Len(r) : ~Asks(r[i], f)
          BY <2>8 DEF Plain, Asks
        <5> QED
          BY <3>2, <4>2, <5>1, <5>2
      <4> QED
        BY <2>3, <4>1, <4>2
    <3> QED
      BY <2>5, <3>1, <3>2
  <2>9. CASE Sends /\ (link # None => Len(up[link]) < Way)
    <3> DEFINE p == buf.pkt
    <3>1. r = <<p>> /\ buf'.pkt = None /\ l_subs' = l_subs /\ Len(q) < Way
      BY <2>1, <2>9 DEF Sends, q, r
    <3>2. /\ Len(q \o r) = Len(q) + 1 /\ (q \o r)[Len(q) + 1] = p
          /\ \A i \in 1 .. Len(q) : i \in 1 .. Len(q \o r) /\ (q \o r)[i] = q[i]
      <4>1. Len(r) = 1 /\ r[1] = p
        BY <3>1
      <4>2. Len(q \o r) = Len(q) + 1 /\ \A i \in 1 .. Len(q) : i \in 1 .. Len(q \o r) /\ (q \o r)[i] = q[i]
        BY <2>2, <4>1, JoinedFirst
      <4>3. (q \o r)[Len(q) + 1] = r[1]
        BY <2>2, <4>1, ConcatProperties
      <4> QED
        BY <4>1, <4>2, <4>3
    <3>3. up'[link] = q \o r
      BY <2>2, <2>3, <3>1, <3>2, ClientAssumption
    <3> DEFINE w == q \o r
    <3> HIDE DEF w, p
    <3>4. \A f, k : k \in 0 .. Len(q) /\ Ends(p, f) => EndedAfter(w, k, f)
      <4> SUFFICES ASSUME NEW f, NEW k \in 0 .. Len(q), Ends(p, f) PROVE EndedAfter(w, k, f)
        OBVIOUS
      <4>1. Len(q) + 1 \in k + 1 .. Len(w) /\ w[Len(q) + 1] = p
        BY <2>2, <3>2 DEF w
      <4> QED
        BY <4>1 DEF EndedAfter
    <3>5. \A f, k : k \in 0 .. Len(q) /\ Settled(f, k) => Later(f, k)
      BY <2>1, <2>6, <2>10, <3>1, <3>3, <3>4 DEF Settled, q, w, p
    <3>6. ASSUME NEW k \in 1 .. Len(up'[link]), NEW f \in Filters, Asks(up'[link][k], f)
          PROVE  (k \in 1 .. Len(q) /\ Asks(q[k], f)) \/ Later(f, k)
      <4>1. k \in 1 .. Len(w) /\ Asks(w[k], f) /\ Len(w) = Len(q) + 1
        BY <3>2, <3>3, <3>6 DEF w
      <4>2. CASE k \in 1 .. Len(q)
        BY <3>2, <4>1, <4>2 DEF w
      <4>3. CASE k \notin 1 .. Len(q)
        <5>1. k = Len(q) + 1
          BY <2>2, <4>1, <4>3
        <5>2. Asks(p, f)
          BY <3>2, <4>1, <5>1 DEF w
        <5> QED
          BY <1>2, <3>1, <5>2 DEF p
      <4> QED
        BY <4>2, <4>3
    <3> QED
      BY <2>5, <3>5, <3>6
  <2> QED
    <3>1. Leaves \/ Tries \/ Opens => FALSE
      BY <2>1, <1>6 DEF Leaves, Tries, Opens, Established
    <3>2. Rests \/ Answers(Head(down)) => Plain(r) /\ UNCHANGED <<buf, l_subs>>
      BY AcksArePlain DEF Rests, Answers, Small, r
    <3> QED
      BY <1>3, <2>7, <2>8, <2>9, <3>1, <3>2 DEF Shape
<1>7. CASE Shape /\ Establishes /\ link' # None
  <2>1. /\ Accept /\ link' = Lowest(Slots \ Open) /\ up' = [up EXCEPT ![link'] = sent']
        /\ Slots \ Open # {}
    BY <1>7 DEF Establishes, Accept
  <2>2. link' \in Slots \ Open /\ subs' = subs
    BY <2>1, AcceptEffect
  <2>3. \A s \in SubSlots : subs'[s] # None /\ subs'[s].listed => subs'[s].owner # link'
    BY <2>2, NothingOfClosed
  <2>4. up'[link'] = sent'
    BY <1>1, <2>1, <2>2 DEF WayOK
  <2>5. sent' = <<>> \/ sent' = <<OwnConnect>>
    BY <1>7, EstablishesShape DEF ClientOK
  <2>6. \A k \in 1 .. Len(sent') : sent'[k].type = "CONNECT"
    BY <2>5, ClientAssumption
  <2>7. \A k \in 1 .. Len(up'[link']) : \A f : ~Asks(up'[link'][k], f)
    BY <2>4, <2>6 DEF Asks
  <2> QED
    BY <1>4, <2>3, <2>7 DEF SubsOK
<1> QED
  BY <1>1, <1>5, <1>6, <1>7

LEMMA SubsOKInit == ComposedInit => SubsOK
BY DEF ComposedInit, L!Init, L!NoPacket, SubsOK, Asks

LEMMA SubsOKNext == LinkInv /\ LinkInv' /\ SubsOK /\ [ComposedNext]_allvars => SubsOK'
<1> SUFFICES ASSUME LinkInv, LinkInv', SubsOK, [ComposedNext]_allvars PROVE SubsOK'
  OBVIOUS
<1>1. IInv /\ ClientOK /\ WayOK /\ WayOK'
  BY DEF LinkInv
<1>2. CASE Broker
  <2>1. UNCHANGED <<lvars, lost>> /\ \E T, c, used : BrokerStep(T, c, used)
    BY <1>1, <1>2, BrokerMakes DEF Broker
  <2> QED
    BY <1>1, <2>1, BrokerKeepsSubs
<1>3. CASE Client
  BY <1>1, <1>3, ClientKeepsSubs
<1>4. CASE UNCHANGED allvars
  BY <1>4 DEF allvars, vars, lvars, way, SubsOK, Settled
<1> QED
  BY <1>2, <1>3, <1>4 DEF ComposedNext

\* The broker never keeps a subscription it has listed for a client that has forgotten it
\* without an UNSUBSCRIBE on its way or lost to a later call, however the connection is lost
\* and made again while either table still holds what is old.
THEOREM NoUnaskedSubscriptions == ComposedSpec => []NoUnaskedSubs
<1>1. LinkInv /\ SubsOK => NoUnaskedSubs
  <2> SUFFICES ASSUME LinkInv, SubsOK, NEW s \in SubSlots, subs[s] # None, subs[s].listed,
                      subs[s].owner = link
               PROVE  \/ \E k \in 1 .. Len(l_subs) : l_subs[k] = subs[s].filter
                      \/ Ends(buf.pkt, subs[s].filter)
                      \/ \E k \in 1 .. Len(up[link]) : Ends(up[link][k], subs[s].filter)
                      \/ subs[s].filter \in lost
    BY DEF NoUnaskedSubs, Ends, Unsubscribed
  <2>1. link # None
    BY NoneLinkAssumption DEF LinkInv, IInv, TypeOK, Sub
  <2>2. Settled(subs[s].filter, 0)
    BY <2>1 DEF SubsOK
  <2> QED
    BY <2>2 DEF Settled, Has, EndedAfter
<1>2. ComposedSpec => []SubsOK
  BY SubsOKInit, SubsOKNext, LinkInvariant, PTL DEF ComposedSpec
<1> QED
  BY <1>1, <1>2, LinkInvariant, PTL

---------------------------------------------------------------------------
(***************************************************************************)
(* CONNECT first, and once.                                                *)
(***************************************************************************)
\* A slot that takes CONNECT, or has taken it, has no other CONNECT on its way; one that
\* has not may take answers first.
LEMMA OrderedTail ==
  ASSUME NEW q \in Seq(Inbound), q # <<>>, NEW accepted \in BOOLEAN, Ordered(q, accepted),
         Head(q).type # "DISCONNECT"
  PROVE  /\ Head(q).type = "CONNECT" \/ accepted = TRUE => Ordered(Tail(q), TRUE)
         /\ Head(q).type = "CONNECT" \/ accepted = TRUE \/ Head(q).type \in AckKinds
         /\ Head(q).type # "CONNECT" => Ordered(Tail(q), accepted)
<1>1. /\ Head(q) = q[1] /\ Len(q) \in Nat \ {0} /\ Len(Tail(q)) = Len(q) - 1
      /\ \A i \in 1 .. Len(Tail(q)) : Tail(q)[i] = q[i + 1]
  BY HeadTailProperties, LenProperties
<1>2. q[1].type = "CONNECT" \/ accepted = TRUE \/ q[1].type \in AckKinds
  <2>1. 1 \in 1 .. Len(q) /\ \A j \in 1 .. 1 - 1 : FALSE
    BY <1>1
  <2> QED
    BY <1>1, <2>1 DEF Ordered
<1>3. ASSUME q[1].type = "CONNECT" \/ accepted = TRUE,
             NEW k \in 1 .. Len(Tail(q)), Tail(q)[k].type = "CONNECT"
      PROVE  FALSE
  <2>1. k + 1 \in 1 .. Len(q) /\ 1 \in 1 .. (k + 1) - 1 /\ q[k + 1].type = "CONNECT"
    BY <1>1, <1>3
  <2>2. ~accepted /\ q[1].type # "CONNECT"
    BY <2>1 DEF Ordered
  <2> QED
    BY <1>3, <2>2
<1>4. ASSUME q[1].type # "CONNECT", NEW k \in 1 .. Len(Tail(q))
      PROVE  IF Tail(q)[k].type = "CONNECT"
             THEN ~accepted /\ \A j \in 1 .. k - 1 : Tail(q)[j].type # "CONNECT"
             ELSE \/ accepted \/ Tail(q)[k].type \in AckKinds \cup {"DISCONNECT"}
                  \/ \E j \in 1 .. k - 1 : Tail(q)[j].type = "CONNECT"
  <2>1. k + 1 \in 1 .. Len(q) /\ Tail(q)[k] = q[k + 1]
    BY <1>1, <1>4
  <2>2. \A j \in 1 .. k - 1 : j + 1 \in 1 .. (k + 1) - 1 /\ Tail(q)[j] = q[j + 1]
    BY <1>1
  <2>3. \A i \in 1 .. (k + 1) - 1 : i # 1 => i - 1 \in 1 .. k - 1 /\ (i - 1) + 1 = i
    BY <1>1
  <2>4. CASE Tail(q)[k].type = "CONNECT"
    <3>1. ~accepted /\ \A j \in 1 .. (k + 1) - 1 : q[j].type # "CONNECT"
      BY <2>1, <2>4 DEF Ordered
    <3> QED
      BY <2>2, <2>4, <3>1
  <2>5. CASE Tail(q)[k].type # "CONNECT"
    <3>1. \/ accepted \/ Tail(q)[k].type \in AckKinds \cup {"DISCONNECT"}
          \/ \E i \in 1 .. (k + 1) - 1 : q[i].type = "CONNECT"
      BY <2>1, <2>5 DEF Ordered
    <3>2. ASSUME NEW i \in 1 .. (k + 1) - 1, q[i].type = "CONNECT"
          PROVE  \E j \in 1 .. k - 1 : Tail(q)[j].type = "CONNECT"
      <4>1. i # 1
        BY <1>4, <3>2
      <4>2. i - 1 \in 1 .. k - 1 /\ (i - 1) + 1 = i
        BY <2>3, <4>1
      <4> QED
        BY <2>2, <3>2, <4>2
    <3> QED
      BY <2>5, <3>1, <3>2
  <2> QED
    BY <2>4, <2>5
<1>5. q[1].type = "CONNECT" \/ accepted = TRUE => Ordered(Tail(q), TRUE)
  BY <1>3 DEF Ordered
<1>6. q[1].type # "CONNECT" => Ordered(Tail(q), accepted)
  BY <1>4 DEF Ordered
<1> QED
  BY <1>1, <1>2, <1>5, <1>6

\* Packets that may follow.
LEMMA OrderedJoined ==
  ASSUME NEW q \in Seq(Inbound), NEW r \in Seq(Inbound), NEW accepted \in BOOLEAN,
         Ordered(q, accepted),
         \A i \in 1 .. Len(r) :
           /\ r[i].type # "CONNECT"
           /\ \/ accepted = TRUE \/ r[i].type \in AckKinds \cup {"DISCONNECT"}
              \/ \E j \in 1 .. Len(q) : q[j].type = "CONNECT"
  PROVE  Ordered(q \o r, accepted)
<1> DEFINE w == q \o r
<1>1. /\ Len(q) \in Nat /\ \A i \in 1 .. Len(q) : w[i] = q[i]
      /\ \A k \in 1 .. Len(w) : \/ k \in 1 .. Len(q) /\ w[k] = q[k]
                                \/ k - Len(q) \in 1 .. Len(r) /\ w[k] = r[k - Len(q)]
  BY JoinedFirst, JoinedElement
<1> HIDE DEF w
<1>2. ASSUME NEW k \in 1 .. Len(q), NEW j \in 1 .. k - 1 PROVE w[j] = q[j]
  <2>1. j \in 1 .. Len(q)
    BY <1>1
  <2> QED
    BY <1>1, <2>1
<1>3. ASSUME NEW k \in 1 .. Len(q), w[k] = q[k]
      PROVE  IF w[k].type = "CONNECT"
             THEN ~accepted /\ \A j \in 1 .. k - 1 : w[j].type # "CONNECT"
             ELSE \/ accepted \/ w[k].type \in AckKinds \cup {"DISCONNECT"}
                  \/ \E j \in 1 .. k - 1 : w[j].type = "CONNECT"
  BY <1>2, <1>3 DEF Ordered
<1>4. ASSUME NEW k \in 1 .. Len(w), k - Len(q) \in 1 .. Len(r), w[k] = r[k - Len(q)]
      PROVE  /\ w[k].type # "CONNECT"
             /\ \/ accepted \/ w[k].type \in AckKinds \cup {"DISCONNECT"}
                \/ \E j \in 1 .. k - 1 : w[j].type = "CONNECT"
  <2>1. \A j \in 1 .. Len(q) : j \in 1 .. k - 1 /\ w[j] = q[j]
    BY <1>1, <1>4
  <2> QED
    BY <1>4, <2>1
<1>5. Ordered(w, accepted)
  BY <1>1, <1>3, <1>4 DEF Ordered
<1> QED
  BY <1>5 DEF w

\* The broker accepts the client's CONNECT, ends a connection with DISCONNECT and accepts
\* nobody for an acknowledgement.
LEMMA TakenInOrder ==
  ASSUME ConnackCode(OwnConnect) = 0, NEW T, Good(T), T.accepted = {}, NEW c \in Slots,
         T.state[c] # "DISCONNECTED", NEW p \in Inbound,
         Handle(T, c, p).state[c] # "DISCONNECTED"
  PROVE  /\ p.type # "DISCONNECT"
         /\ p = OwnConnect \/ T.session[c].connected => Handle(T, c, p).session[c].connected
         /\ p.type \in AckKinds => Handle(T, c, p).session = T.session
<1>1. p.type # "DISCONNECT"
  <2> SUFFICES ASSUME p.type = "DISCONNECT" PROVE FALSE
    OBVIOUS
  <2>1. c \notin OpenIn(OnDisconnect(T, c))
    BY DisconnectMoves
  <2>2. Handle(T, c, p) = OnDisconnect(T, c)
    BY DEF Handle
  <2> QED
    BY <2>1, <2>2 DEF OpenIn
<1>2. T.session[c].connected => Handle(T, c, p).session[c].connected
  <2>1. Moved(T, Handle(T, c, p), c)
    BY HandleMoves
  <2> QED
    BY <2>1 DEF Moved
<1>3. CASE p = OwnConnect
  <2>1. p.type = "CONNECT" /\ ConnackCode(p) = 0
    BY <1>3, ClientAssumption
  <2>2. Handle(T, c, p) = OnConnect(T, c, p)
    BY <2>1 DEF Handle
  <2>3. OnConnect(T, c, p).state[c] # "DISCONNECTED"
    BY <2>2
  <2>4. OnConnect(T, c, p).session[c].connected
    BY <2>1, <2>3, ConnectMoves
  <2> QED
    BY <1>1, <2>1, <2>2, <2>4 DEF AckKinds
<1>4. ASSUME p.type \in AckKinds PROVE Handle(T, c, p).session = T.session
  <2>1. \A X, x, a : Queue(X, x, a).session = X.session
    BY DEF Queue
  <2>2. \A x, flows : EndFlow(T, x, flows).session = T.session
    BY DEF EndFlow
  <2>3. \A X, x, i : [X EXCEPT !.q2[x][i].state = "OUT_PUBREL_SENT"].session = X.session
    OBVIOUS
  <2>4. CASE p.type \in {"PUBACK", "PUBCOMP"}
    BY <2>2, <2>4 DEF Handle, OnPuback, OnPubcomp
  <2>5. CASE p.type = "PUBREL"
    BY <2>1, <2>2, <2>5 DEF Handle, OnPubrel
  <2>6. CASE p.type = "PUBREC"
    <3>1. Handle(T, c, p) = OnPubrec(T, c, p)
      BY <2>6 DEF Handle
    <3> DEFINE flows == FlowsOf(T, c, p.pid, {"OUT_PUBLISH_SENT"})
               i     == Lowest(flows)
               E     == [T EXCEPT !.q2[c][i].state = "OUT_PUBREL_SENT"]
               a     == Ack("PUBREL", p.pid)
    <3>2. OnPubrec(T, c, p) = IF flows = {} THEN T ELSE Queue(E, c, a)
      BY Zenon DEF OnPubrec
    <3>3. E.session = T.session
      BY <2>3
    <3> HIDE DEF flows, i, E, a
    <3>4. Queue(E, c, a).session = T.session
      BY <2>1, <3>3
    <3> QED
      BY <3>1, <3>2, <3>4
  <2> QED
    BY <1>4, <2>4, <2>5, <2>6 DEF AckKinds
<1> QED
  BY <1>1, <1>2, <1>3, <1>4

LEMMA BrokerKeepsOrder ==
  ASSUME ConnackCode(OwnConnect) = 0, IInv, WayOK, IntroducedOK, ConnectOnceAndFirst,
         UNCHANGED lvars, NEW T, NEW c, NEW used, BrokerStep(T, c, used)
  PROVE  IntroducedOK' /\ ConnectOnceAndFirst'
<1>1. /\ l_state' = l_state /\ session' = T.session /\ subs' = T.subs
      /\ Tables.session = session /\ Tables.subs = subs /\ Tables.state = state
      /\ \A d \in Slots : Tables.emit[d] = <<>>
      /\ Good(Tables) /\ Tables.accepted = {}
  BY TablesGood DEF BrokerStep, lvars, Tables
<1>2. ASSUME NEW d \in mine'
      PROVE  /\ d \in mine /\ d \in Slots /\ up[d] \in Seq(Inbound) /\ Ordered(up[d], session[d].connected)
             /\ Tables.state[d] # "DISCONNECTED" /\ T.state[d] # "DISCONNECTED"
             /\ up'[d] = IF d = used THEN Tail(up[d]) ELSE up[d]
             /\ session[d].connected => session'[d].connected
             /\ d # c => session'[d].connected = session[d].connected
  <2>1. d \in mine /\ d \in Slots /\ d \in Open /\ d \in Open' /\ up[d] \in Seq(Inbound)
        /\ up'[d] = IF d = used THEN Tail(up[d]) ELSE up[d]
    BY <1>2 DEF BrokerStep, Carried, WayOK, Open
  <2>2. Tables.state[d] # "DISCONNECTED" /\ T.state[d] # "DISCONNECTED"
    BY <1>1, <2>1 DEF BrokerStep, Open, OpenIn
  <2>3. Ordered(up[d], session[d].connected)
    BY <2>1 DEF ConnectOnceAndFirst, Ordered
  <2>4. /\ Tables.session[d].connected => T.session[d].connected
        /\ d # c => T.session[d].connected = Tables.session[d].connected
    BY <2>1, <2>2 DEF BrokerStep, Moved
  <2> QED
    BY <1>1, <2>1, <2>2, <2>3, <2>4
<1>3. \A d \in mine' : d # used => d # c
  BY <1>2 DEF BrokerStep
<1>4. ASSUME NEW d \in mine', d = used
      PROVE  LET q == up[d]
             IN  /\ q # <<>> /\ Ordered(Tail(q), session'[d].connected)
                 /\ session'[d].connected \/ q[1].type # "CONNECT"
                 /\ Head(q) = q[1] /\ Len(q) \in Nat \ {0} /\ Len(Tail(q)) = Len(q) - 1
                 /\ \A i \in 1 .. Len(Tail(q)) : Tail(q)[i] = q[i + 1]
  <2> DEFINE q == up[d]
             p == Head(q)
  <2>1. q # <<>> /\ q \in Seq(Inbound) /\ p \in Inbound /\ T = Handle(Tables, d, p)
    BY <1>2, <1>4, NoneLinkAssumption DEF BrokerStep, WayOK, Open
  <2>2. /\ p = q[1] /\ Len(q) \in Nat \ {0} /\ Len(Tail(q)) = Len(q) - 1
        /\ \A i \in 1 .. Len(Tail(q)) : Tail(q)[i] = q[i + 1]
    BY <2>1, HeadTailProperties, LenProperties
  <2>3. Ordered(q, session[d].connected)
    BY <1>2
  <2>4. p.type = "CONNECT" => p = OwnConnect
    <3>1. 1 \in 1 .. Len(q)
      BY <2>2
    <3> QED
      BY <1>2, <2>2, <3>1 DEF IntroducedOK
  <2> HIDE DEF q, p
  <2>5. /\ p.type # "DISCONNECT"
        /\ p = OwnConnect \/ Tables.session[d].connected
             => Handle(Tables, d, p).session[d].connected
        /\ p.type \in AckKinds => Handle(Tables, d, p).session = Tables.session
    <3>1. Handle(Tables, d, p).state[d] # "DISCONNECTED"
      BY <1>2, <2>1
    <3> QED
      BY <1>1, <1>2, <2>1, <3>1, TakenInOrder
  <2> DEFINE accepted == session[d].connected
  <2>6. accepted \in BOOLEAN
    BY <1>2 DEF IInv, TypeOK, Session
  <2>7. /\ p.type = "CONNECT" \/ accepted = TRUE => Ordered(Tail(q), TRUE)
        /\ p.type = "CONNECT" \/ accepted = TRUE \/ p.type \in AckKinds
        /\ p.type # "CONNECT" => Ordered(Tail(q), accepted)
    <3>1. q \in Seq(Inbound) /\ q # <<>> /\ Head(q).type # "DISCONNECT" /\ Ordered(q, accepted)
      BY <2>1, <2>3, <2>5 DEF p
    <3> HIDE DEF accepted
    <3>2. /\ Head(q).type = "CONNECT" \/ accepted = TRUE => Ordered(Tail(q), TRUE)
          /\ Head(q).type = "CONNECT" \/ accepted = TRUE \/ Head(q).type \in AckKinds
          /\ Head(q).type # "CONNECT" => Ordered(Tail(q), accepted)
      BY <2>6, <3>1, OrderedTail
    <3> QED
      BY <3>2 DEF p
  <2>8. CASE p.type = "CONNECT" \/ accepted = TRUE
    <3>1. session'[d].connected
      BY <1>1, <2>1, <2>4, <2>5, <2>8
    <3>2. Ordered(Tail(q), session'[d].connected)
      BY <2>7, <2>8, <3>1 DEF Ordered
    <3> QED
      BY <2>1, <2>2, <3>1, <3>2 DEF q, p
  <2>9. CASE ~(p.type = "CONNECT" \/ accepted = TRUE)
    <3>1. p.type \in AckKinds /\ p.type # "CONNECT" /\ Ordered(Tail(q), accepted)
      BY <2>7, <2>9
    <3>2. session'[d].connected = accepted
      BY <1>1, <2>1, <2>5, <3>1
    <3> HIDE DEF accepted
    <3> QED
      BY <2>1, <2>2, <3>1, <3>2 DEF q, p
  <2> QED
    BY <2>8, <2>9
<1>5. ASSUME NEW d \in mine' PROVE Ordered(up'[d], session'[d].connected)
  <2>1. CASE d = used
    <3>1. up'[d] = Tail(up[d]) /\ Ordered(Tail(up[d]), session'[d].connected)
      BY <1>2, <1>4, <2>1
    <3> QED
      BY <3>1
  <2>2. CASE d # used
    BY <1>2, <1>3, <2>2 DEF Ordered
  <2> QED
    BY <2>1, <2>2
<1>6. ConnectOnceAndFirst'
  BY <1>5 DEF ConnectOnceAndFirst, Ordered
<1>7. \A d \in mine' : \A k \in 1 .. Len(up'[d]) : up'[d][k].type = "CONNECT" => up'[d][k] = OwnConnect
  <2> SUFFICES ASSUME NEW d \in mine', NEW k \in 1 .. Len(up'[d])
               PROVE  \E i \in 1 .. Len(up[d]) : up'[d][k] = up[d][i]
    BY <1>2 DEF IntroducedOK
  <2>1. CASE d = used
    <3>1. up'[d] = Tail(up[d])
      BY <1>2, <2>1
    <3>2. k + 1 \in 1 .. Len(up[d]) /\ up'[d][k] = up[d][k + 1]
      BY <1>4, <2>1, <3>1
    <3> QED
      BY <3>2
  <2>2. CASE d # used
    BY <1>2, <2>2
  <2> QED
    BY <2>1, <2>2
<1>8. ASSUME link' # None
      PROVE  link' = link /\ link # None /\ link \in mine' /\ link \in mine
             /\ down' = down \o T.emit[link]
  BY <1>8 DEF BrokerStep, Carried
<1>10. ASSUME link' # None, l_state' = "CONNACK_WAIT"
       PROVE  \/ session'[link'].connected
              \/ \E k \in 1 .. Len(up'[link']) : up'[link'][k].type = "CONNECT"
  <2>1. \/ session[link].connected
        \/ \E k \in 1 .. Len(up[link]) : up[link][k].type = "CONNECT"
    BY <1>1, <1>8, <1>10 DEF IntroducedOK
  <2>2. CASE link = used
    <3> DEFINE q == up[link]
    <3>1. /\ session'[link].connected \/ q[1].type # "CONNECT"
          /\ Len(q) \in Nat \ {0} /\ Len(Tail(q)) = Len(q) - 1
          /\ \A i \in 1 .. Len(Tail(q)) : Tail(q)[i] = q[i + 1]
      BY <1>4, <1>8, <1>10, <2>2
    <3>2. up'[link'] = Tail(q) /\ link' = link /\ (session[link].connected => session'[link].connected)
      BY <1>2, <1>8, <1>10, <2>2
    <3>3. ASSUME NEW k \in 1 .. Len(q), q[k].type = "CONNECT", q[1].type # "CONNECT"
          PROVE  \E i \in 1 .. Len(Tail(q)) : Tail(q)[i].type = "CONNECT"
      <4>1. k - 1 \in 1 .. Len(Tail(q)) /\ (k - 1) + 1 = k
        BY <3>1, <3>3
      <4> QED
        BY <3>1, <3>3, <4>1
    <3> QED
      BY <2>1, <3>1, <3>2, <3>3
  <2>3. CASE link # used
    BY <1>2, <1>8, <1>10, <2>1, <2>3
  <2> QED
    BY <2>2, <2>3
<1>11. IntroducedOK'
  BY <1>7, <1>10 DEF IntroducedOK
<1> QED
  BY <1>6, <1>11

\* What the client adds to its present connection may follow what is on its way there.
LEMMA ClientAdds ==
  ASSUME ClientOK, WayOK, AcceptedOK, IntroducedOK, link # None, TakesOne \/ Stays,
         NEW i \in 1 .. Len(sent')
  PROVE  /\ sent'[i].type # "CONNECT"
         /\ \/ session[link].connected = TRUE \/ sent'[i].type \in AckKinds \cup {"DISCONNECT"}
            \/ \E j \in 1 .. Len(up[link]) : up[link][j].type = "CONNECT"
<1>1. Established(l_state) /\ l_state \in {"TCP_CONNECTED", "CONNACK_WAIT", "READY"}
  <2>1. l_state \in P!States
    BY DEF ClientOK, P!IInv, P!TypeOK
  <2> QED
    BY <2>1 DEF WayOK, Established, P!States
<1>2. ASSUME l_state \in {"CONNACK_WAIT", "READY"}
      PROVE  \/ session[link].connected = TRUE
             \/ \E j \in 1 .. Len(up[link]) : up[link][j].type = "CONNECT"
  BY <1>2 DEF AcceptedOK, IntroducedOK
<1>3. CASE TakesOne
  <2>1. sent'[i].type \in AckKinds
    BY <1>3 DEF TakesOne, Answers, Acks
  <2> QED
    BY <2>1 DEF AckKinds
<1>4. CASE Stays
  <2>1. CASE Sends
    <3>1. sent' = <<buf.pkt>> /\ l_state = "READY" /\ buf.pkt.type # "CONNECT"
      BY <2>1 DEF Sends, ClientOK, QueuedOK
    <3>2. sent'[i] = buf.pkt
      BY <3>1
    <3> QED
      BY <1>2, <3>1, <3>2
  <2>2. CASE Leaves \/ Rests
    <3>1. sent'[i].type # "CONNECT"
      BY <2>2 DEF Leaves, Rests, Small, Plain
    <3>2. l_state \in {"READY", "CONNACK_WAIT"} \/ sent'[i].type = "DISCONNECT"
      <4>1. sent' # <<>>
        OBVIOUS
      <4> QED
        BY <2>2, <4>1 DEF Leaves, Rests, Small
    <3> QED
      BY <1>2, <3>1, <3>2
  <2>3. CASE Tries \/ Calls
    <3>1. sent' = <<>>
      BY <2>3 DEF Tries, Calls
    <3> QED
      BY <3>1
  <2>4. ~Opens
    BY <1>1 DEF Opens
  <2> QED
    BY <1>4, <2>1, <2>2, <2>3, <2>4 DEF Stays, Shape
<1> QED
  BY <1>3, <1>4

\* While it goes on, the client waits for CONNACK only if it did before.
LEMMA ClientWaitsForConnack ==
  ASSUME ClientOK, link # None, TakesOne \/ Stays, Established(l_state),
         Established(l_state')
  PROVE  l_state' = "CONNACK_WAIT" => l_state = "CONNACK_WAIT"
<1>1. CASE TakesOne
  BY <1>1 DEF TakesOne, Answers
<1>2. CASE Stays
  <2>1. ~Leaves /\ ~Tries /\ ~Opens
    BY DEF Leaves, Tries, Opens, Established
  <2>2. CASE Calls
    BY <2>2 DEF Calls
  <2>3. CASE Sends
    BY <2>3 DEF Sends, ClientOK, QueuedOK
  <2>4. CASE Rests
    BY <1>2, <2>4 DEF Rests
  <2> QED
    BY <1>2, <2>1, <2>2, <2>3, <2>4 DEF Stays, Shape
<1> QED
  BY <1>1, <1>2

LEMMA ClientKeepsOrder ==
  ASSUME IInv, ClientOK, WayOK, AcceptedOK, IntroducedOK, ConnectOnceAndFirst, Client
  PROVE  IntroducedOK' /\ ConnectOnceAndFirst'
<1>1. sent' \in Seq(Inbound) /\ (TakesOne \/ Stays \/ (Shape /\ Establishes))
  BY ClientMakes
<1>2. /\ mine \subseteq Slots /\ mine \subseteq Open /\ link \in mine \cup {None} /\ None \notin mine
      /\ up \in [Slots -> Seq(Inbound)] /\ session \in [Slots -> Session]
  BY NoneLinkAssumption DEF WayOK, Open, IInv, TypeOK
<1>3. \A d \in mine : Ordered(up[d], session[d].connected)
  BY DEF ConnectOnceAndFirst, Ordered
<1>4. \A d \in mine : \A k \in 1 .. Len(up[d]) : up[d][k].type = "CONNECT" => up[d][k] = OwnConnect
  BY DEF IntroducedOK
<1>5. CASE TakesOne \/ Stays
  <2>1. /\ GoesOn /\ mine' = mine /\ session' = session /\ subs' = subs
        /\ link' = IF Established(l_state') THEN link ELSE None
        /\ Established(l_state') => Established(l_state)
    BY <1>5 DEF TakesOne, Stays, GoesOn, vars
  <2>2. CASE link = None
    <3>1. up' = up /\ link' = None
      BY <2>1, <2>2 DEF GoesOn
    <3>2. ConnectOnceAndFirst'
      BY <1>3, <2>1, <3>1 DEF ConnectOnceAndFirst, Ordered
    <3>3. IntroducedOK'
      BY <1>4, <2>1, <3>1 DEF IntroducedOK
    <3> QED
      BY <3>2, <3>3
  <2>3. CASE link # None
    <3> DEFINE q == up[link]
               r == sent'
               accepted == session[link].connected
    <3>1. /\ link \in mine /\ link \in Slots /\ q \in Seq(Inbound) /\ r \in Seq(Inbound)
          /\ accepted \in BOOLEAN /\ Ordered(q, accepted)
      BY <1>1, <1>2, <1>3, <2>3 DEF Session
    <3>2. up'[link] \in {q, q \o r} /\ (r = <<>> => up'[link] = q)
          /\ \A d \in Slots : d # link => up'[d] = up[d]
      <4>1. q \o <<>> = q
        BY <3>1, ConcatEmptySeq
      <4>2. up' = [up EXCEPT ![link] = IF Len(q \o r) <= Way THEN q \o r ELSE q]
        BY <2>1, <2>3 DEF GoesOn
      <4> HIDE DEF q, r
      <4>3. up'[link] = IF Len(q \o r) <= Way THEN q \o r ELSE q
        BY <1>2, <3>1, <4>2
      <4> QED
        BY <1>2, <4>1, <4>2, <4>3
    <3>3. \A i \in 1 .. Len(r) :
            /\ r[i].type # "CONNECT"
            /\ \/ accepted = TRUE \/ r[i].type \in AckKinds \cup {"DISCONNECT"}
               \/ \E j \in 1 .. Len(q) : q[j].type = "CONNECT"
      BY <1>5, <2>3, ClientAdds
    <3>4. Established(l_state') => link' = link /\ Established(l_state)
      BY <2>1
    <3> HIDE DEF q, r, accepted
    <3>5. Ordered(q \o r, accepted)
      BY <3>1, <3>3, OrderedJoined
    <3>6. Ordered(up'[link], accepted)
      BY <3>1, <3>2, <3>5
    <3>7. ConnectOnceAndFirst'
      <4>1. \A d \in mine' : Ordered(up'[d], session'[d].connected)
        BY <1>2, <1>3, <2>1, <3>2, <3>6 DEF accepted
      <4> QED
        BY <4>1 DEF ConnectOnceAndFirst, Ordered
    <3>8. \A i \in 1 .. Len(q) : i \in 1 .. Len(up'[link]) /\ up'[link][i] = q[i]
      BY <3>1, <3>2, JoinedFirst
    <3>9. \A k \in 1 .. Len(up'[link]) : up'[link][k].type = "CONNECT" => up'[link][k] = OwnConnect
      <4>1. \A k \in 1 .. Len(q) : q[k].type = "CONNECT" => q[k] = OwnConnect
        BY <1>4, <3>1 DEF q
      <4>2. ASSUME NEW k \in 1 .. Len(q \o r), (q \o r)[k].type = "CONNECT"
            PROVE  (q \o r)[k] = OwnConnect
        <5>1. \/ k \in 1 .. Len(q) /\ (q \o r)[k] = q[k]
              \/ k - Len(q) \in 1 .. Len(r) /\ (q \o r)[k] = r[k - Len(q)]
          BY <3>1, JoinedElement
        <5> QED
          BY <3>3, <4>1, <4>2, <5>1
      <4> QED
        BY <3>2, <4>1, <4>2
    <3>10. \A d \in mine' : \A k \in 1 .. Len(up'[d]) :
             up'[d][k].type = "CONNECT" => up'[d][k] = OwnConnect
      BY <1>2, <1>4, <2>1, <3>2, <3>9
    <3>11. ASSUME link' # None
           PROVE  /\ link' = link /\ Established(l_state) /\ Established(l_state')
                  /\ l_state' = "CONNACK_WAIT" => l_state = "CONNACK_WAIT"
      BY <1>5, <2>1, <2>3, <3>4, <3>11, ClientWaitsForConnack
    <3>12. ASSUME link' # None, l_state' = "CONNACK_WAIT"
           PROVE  \/ session'[link'].connected
                  \/ \E k \in 1 .. Len(up'[link']) : up'[link'][k].type = "CONNECT"
      <4>1. session[link].connected \/ \E k \in 1 .. Len(q) : q[k].type = "CONNECT"
        BY <2>3, <3>11, <3>12 DEF IntroducedOK, q
      <4> QED
        BY <2>1, <3>8, <3>11, <3>12, <4>1
    <3>14. IntroducedOK'
      BY <3>10, <3>12 DEF IntroducedOK
    <3> QED
      BY <3>7, <3>14
  <2> QED
    BY <2>2, <2>3
<1>6. CASE Shape /\ Establishes
  <2>1. \/ l_state' = "TCP_CONNECTED" /\ sent' = <<>>
        \/ l_state' = "CONNACK_WAIT" /\ sent' = <<OwnConnect>>
    BY <1>6, EstablishesShape DEF ClientOK
  <2>3. CASE link' = None
    <3>1. UNCHANGED <<vars, mine, up>>
      BY <1>2, <1>6, <2>3, AcceptedIsSlot DEF Establishes
    <3>2. session' = session
      BY <3>1 DEF vars
    <3> QED
      BY <1>3, <1>4, <2>3, <3>1, <3>2 DEF ConnectOnceAndFirst, Ordered, IntroducedOK
  <2>4. CASE link' # None
    <3>1. /\ link' \in Slots \ Open /\ mine' = mine \cup {link'} /\ up' = [up EXCEPT ![link'] = sent']
          /\ session' = session /\ subs' = subs /\ session[link'] = NoSession
      BY <1>6, <2>4, AcceptEffect DEF Establishes
    <3>2. up'[link'] = sent' /\ link' \notin mine /\ \A d \in mine : up'[d] = up[d]
      BY <1>2, <3>1
    <3>3. /\ Len(sent') \in 0 .. 1
          /\ \A k \in 1 .. Len(sent') : k = 1 /\ sent'[k] = OwnConnect
          /\ l_state' = "CONNACK_WAIT" => 1 \in 1 .. Len(sent')
      <4>1. CASE l_state' = "TCP_CONNECTED" /\ sent' = <<>>
        <5>1. Len(<<>>) = 0
          OBVIOUS
        <5> QED
          BY <4>1, <5>1
      <4>2. CASE sent' = <<OwnConnect>>
        <5>1. Len(<<OwnConnect>>) = 1 /\ <<OwnConnect>>[1] = OwnConnect
          OBVIOUS
        <5> QED
          BY <4>2, <5>1
      <4> QED
        BY <2>1, <4>1, <4>2
    <3>4. Ordered(sent', FALSE)
      BY <3>3, ClientAssumption DEF Ordered
    <3>5. ConnectOnceAndFirst'
      <4>1. session'[link'].connected = FALSE
        BY <3>1 DEF NoSession
      <4>2. Ordered(up'[link'], session'[link'].connected)
        BY <3>2, <3>4, <4>1
      <4>3. \A d \in mine' : Ordered(up'[d], session'[d].connected)
        BY <1>3, <3>1, <3>2, <4>2
      <4> QED
        BY <4>3 DEF ConnectOnceAndFirst, Ordered
    <3>7. \A d \in mine' : \A k \in 1 .. Len(up'[d]) :
            up'[d][k].type = "CONNECT" => up'[d][k] = OwnConnect
      BY <1>4, <3>1, <3>2, <3>3
    <3>9. l_state' = "CONNACK_WAIT" => \E k \in 1 .. Len(up'[link']) : up'[link'][k].type = "CONNECT"
      BY <3>2, <3>3, ClientAssumption
    <3>10. IntroducedOK'
      BY <3>7, <3>9 DEF IntroducedOK
    <3> QED
      BY <3>5, <3>10
  <2> QED
    BY <2>3, <2>4
<1> QED
  BY <1>1, <1>5, <1>6

OrderInv == LinkInv /\ IntroducedOK /\ ConnectOnceAndFirst

LEMMA OrderInvInit == ComposedInit => OrderInv
<1> SUFFICES ASSUME ComposedInit PROVE OrderInv
  OBVIOUS
<1>1. mine = {} /\ link = None
  BY DEF ComposedInit
<1> QED
  BY <1>1, LinkInvInit DEF OrderInv, IntroducedOK, ConnectOnceAndFirst

LEMMA OrderInvNext ==
  ASSUME ConnackCode(OwnConnect) = 0
  PROVE  OrderInv /\ [ComposedNext]_allvars => OrderInv'
<1> SUFFICES ASSUME OrderInv, [ComposedNext]_allvars PROVE OrderInv'
  OBVIOUS
<1>1. LinkInv'
  BY LinkInvNext DEF OrderInv
<1>2. IInv /\ ClientOK /\ WayOK /\ AcceptedOK /\ IntroducedOK /\ ConnectOnceAndFirst
  BY DEF OrderInv, LinkInv
<1>3. CASE Broker
  <2>1. UNCHANGED lvars /\ \E T, c, used : BrokerStep(T, c, used)
    BY <1>2, <1>3, BrokerMakes DEF Broker
  <2> QED
    BY <1>1, <1>2, <2>1, BrokerKeepsOrder DEF OrderInv
<1>4. CASE Client
  BY <1>1, <1>2, <1>4, ClientKeepsOrder DEF OrderInv
<1>5. CASE UNCHANGED allvars
  <2>1. ConnectOnceAndFirst'
    BY <1>2, <1>5 DEF allvars, vars, way, ConnectOnceAndFirst
  <2>2. IntroducedOK'
    BY <1>2, <1>5 DEF allvars, vars, lvars, way, IntroducedOK
  <2> QED
    BY <1>1, <2>1, <2>2 DEF OrderInv
<1> QED
  BY <1>3, <1>4, <1>5 DEF ComposedNext

\* A broker that accepts the client's CONNECT never gets a packet of it before CONNECT,
\* except a DISCONNECT and answers to what it delivered itself, nor a second CONNECT: it
\* checks neither.
THEOREM ConnectComesOnceAndFirst ==
  ASSUME ConnackCode(OwnConnect) = 0
  PROVE  ComposedSpec => []ConnectOnceAndFirst
<1>1. ComposedSpec => []OrderInv
  BY OrderInvInit, OrderInvNext, PTL DEF ComposedSpec
<1>2. OrderInv => ConnectOnceAndFirst
  BY DEF OrderInv
<1> QED
  BY <1>1, <1>2, PTL
===========================================================================
