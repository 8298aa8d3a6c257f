------------------------------ MODULE Branch ------------------------------
(***************************************************************************)
(* The MQTT broker `branch': its client table, subscription table,         *)
(* retained messages, QoS 2 flows and per-client send buffers.             *)
(*                                                                         *)
(* The broker is single threaded.  branch_poll() reads whatever the        *)
(* sockets hold and handles one packet after the other, so the unit of     *)
(* interleaving is one packet: Recv(c, p) is the whole of branch__dispatch *)
(* for packet p of the client in slot c, with everything it queues,        *)
(* closes and forwards.  The remaining steps of branch_poll (accept, send, *)
(* a socket error, the keep-alive check) and the calls of the embedding    *)
(* program are one action each.                                            *)
(*                                                                         *)
(* A handler is a function from the broker's tables to its tables.  What   *)
(* it hands to branch__queue_and_flush is collected per client in `emit',  *)
(* in order, and put into the send buffers when the handler ends: no       *)
(* handler reads a send buffer.                                            *)
(***************************************************************************)
EXTENDS Mqtt

CONSTANTS
  MaxClients,   \* BRANCH_MAX_CLIENTS
  MaxSubs,      \* BRANCH_MAX_SUBS
  MaxRetained,  \* BRANCH_MAX_RETAINED
  MaxPending,   \* BRANCH_MAX_PENDING
  MaxCodes,     \* 32, the return codes one SUBACK can hold
  BufSize,      \* BRANCH_BUF_SIZE, counted in packets
  KernelRoom,   \* how many packets a socket may take during one step
  Rounds,       \* how many fills of a send buffer are told apart
  Inputs,       \* packets that clients send
  ApiMessages   \* messages the embedding program passes to branch_publish

ASSUME SizesAssumption ==
  /\ MaxClients \in Nat /\ MaxSubs \in Nat /\ MaxRetained \in Nat
  /\ MaxPending \in Nat /\ MaxCodes \in Nat /\ BufSize \in Nat \ {0}
  /\ KernelRoom \subseteq Nat /\ Rounds \in Nat \ {0}

ASSUME InputsAssumption == Inputs \subseteq Inbound /\ ApiMessages \subseteq Message

Slots     == 0 .. MaxClients - 1
SubSlots  == 0 .. MaxSubs - 1
RetSlots  == 0 .. MaxRetained - 1
FlowSlots == 0 .. MaxPending - 1

\* The from_ci of messages no client sent: those of branch_publish.
Api == -1

VARIABLES
  phase,     \* whether a broker is serving: "up", "down" or "crashed"
  state,     \* state[c]: CS_*; the slot has a socket iff it is not DISCONNECTED
  session,   \* session[c]: what CONNECT and SUBSCRIBE leave in the slot
  q2,        \* q2[c][i]: the QoS 2 flows of the slot, both directions
  out,       \* out[c]: the send buffer and how much of it was sent
  subs,      \* the subscription table, in the order forward() walks it
  retained,  \* the retained messages
  next_pid   \* the last packet identifier handed out

vars == <<phase, state, session, q2, out, subs, retained, next_pid>>

\* `listed' is auxiliary: whether SUBSCRIBE found room for the subscription in its
\* owner's own list.  Nothing in the program reads it.
Sub      == [filter : Filters, owner : Slots, qos : QoS, listed : BOOLEAN]
Retained == [topic : Topics, payload : Payloads, qos : QoS]

ASSUME NoneAssumption == None \notin Sub /\ None \notin Retained

InStates  == {"IN_PUBREC_SENT", "IN_PUBREL_RCVD"}
OutStates == {"OUT_PUBLISH_SENT", "OUT_PUBREC_RCVD", "OUT_PUBREL_SENT"}
Flow      == [state : {"FREE"} \cup InStates \cup OutStates, pid : Pids]

Session == [id : ClientIds, clean : BOOLEAN, ka : BOOLEAN, connected : BOOLEAN,
            will : Message \cup {None}, held : SUBSET SubSlots]

NoSession == [id |-> NoId, clean |-> FALSE, ka |-> FALSE, connected |-> FALSE,
              will |-> None, held |-> {}]
NoFlows   == [i \in FlowSlots |-> [state |-> "FREE", pid |-> 0]]
EmptyBuf  == [buf |-> <<>>, off |-> 0, round |-> 0]

---------------------------------------------------------------------------
(***************************************************************************)
(* Send buffers.  A packet is appended if it fits behind everything        *)
(* queued since the buffer was last empty (sent bytes are not reclaimed),  *)
(* and dropped otherwise; then one send() offers the socket all that is    *)
(* unsent.  A socket that takes everything empties the buffer; `round'     *)
(* counts that, modulo Rounds, for the property BufferDrains.              *)
(***************************************************************************)
NextRound(o) == (o.round + 1) % Rounds

Unsent(o) == SubSeq(o.buf, o.off + 1, Len(o.buf))

\* Mutant: a packet that fills the buffer exactly is dropped.
QueueAndFlushOffByOne(b, p) ==
  LET buf   == IF Len(b.buf) + 1 < BufSize THEN Append(b.buf, p) ELSE b.buf
      taken == Min2(b.room, Len(buf) - b.off)
  IN  IF b.off + taken = Len(buf)
      THEN [buf |-> <<>>, off |-> 0, round |-> NextRound(b), room |-> b.room - taken]
      ELSE [b EXCEPT !.buf = buf, !.off = @ + taken, !.room = @ - taken]

\* b is a buffer and what its socket still takes during this step.
QueueAndFlush(b, p) ==
  LET buf   == IF Len(b.buf) + 1 <= BufSize THEN Append(b.buf, p) ELSE b.buf
      taken == Min2(b.room, Len(buf) - b.off)
  IN  IF b.off + taken = Len(buf)
      THEN [buf |-> <<>>, off |-> 0, round |-> NextRound(b), room |-> b.room - taken]
      ELSE [b EXCEPT !.buf = buf, !.off = @ + taken, !.room = @ - taken]

\* Mutant: a packet dropped for want of space is counted as offered.
OfferedAlways(o) == Len(o.buf) - o.off + 1

\* What the first send() of a step is offered, if packets are queued.
Offered(o) == Len(o.buf) - o.off + (IF Len(o.buf) < BufSize THEN 1 ELSE 0)

\* Mutant: sent bytes are reclaimed, but the offset is not moved back.
QueueAllReclaims(o, e, room) ==
  IF e = <<>> THEN o
  ELSE IF room < Offered(o)
       THEN [o EXCEPT !.buf = Unsent(o) \o SubSeq(e, 1, Min2(Len(e), BufSize - Len(o.buf)))]
       ELSE [buf |-> <<>>, off |-> 0, round |-> NextRound(o)]

\* QueueAndFlush for each packet of e in turn, in closed form.  Either the socket
\* never takes everything offered, and what fits stays behind the rest; or the
\* first send() empties the buffer, after which each packet is sent as it comes
\* until the room is used up, and the following ones fill the empty buffer.
QueueAll(o, e, room) ==
  LET passed == Min2(Len(e), 1 + room - Offered(o))
      behind == Min2(Len(e), BufSize - Len(o.buf))
  IN  IF e = <<>> THEN o
      ELSE IF room < Offered(o)
           THEN [o EXCEPT !.buf = @ \o SubSeq(e, 1, behind), !.off = @ + room]
           ELSE [buf   |-> SubSeq(e, passed + 1, Min2(Len(e), passed + BufSize)),
                 off   |-> 0,
                 round |-> (o.round + passed) % Rounds]

\* Whether the buffer runs empty while the packets of e are queued.
Drains(o, e, room) == e # <<>> /\ room >= Offered(o)

\* QueueAndFlush step by step: the buffer, and what its socket still takes, after
\* each packet of e.
Queueing(o, e, room) ==
  LET b[k \in 0 .. Len(e)] ==
        IF k = 0 THEN [buf |-> o.buf, off |-> o.off, round |-> o.round, room |-> room]
        ELSE QueueAndFlush(b[k - 1], e[k])
  IN  b

\* The closed form is right: whatever the socket takes, the buffer ends as after the
\* steps, and it ran empty on the way exactly when Drains says so.
QueuesStepByStep(o, e, room) ==
  LET b == Queueing(o, e, room)
      n == Len(e)
  IN  /\ QueueAll(o, e, room) = [buf |-> b[n].buf, off |-> b[n].off, round |-> b[n].round]
      /\ Drains(o, e, room) <=> \E k \in 1 .. n : b[k].buf = <<>>

---------------------------------------------------------------------------
(***************************************************************************)
(* The tables as a handler finds them.  `accepted' collects the slots      *)
(* whose CONNECT the handler accepts: their state is set after the         *)
(* CONNACK was flushed.                                                    *)
(***************************************************************************)
Tables == [state |-> state, session |-> session, q2 |-> q2, subs |-> subs,
           retained |-> retained, next_pid |-> next_pid,
           emit |-> [c \in Slots |-> <<>>], accepted |-> {}]

Queue(T, c, p) == [T EXCEPT !.emit[c] = Append(@, p)]

\* The handler ends with tables T: its packets go into the send buffers.  A slot
\* that it closed or opened is zeroed, its send buffer with it.
Become(T) ==
  /\ session'  = T.session
  /\ q2'       = T.q2
  /\ subs'     = T.subs
  /\ retained' = T.retained
  /\ next_pid' = T.next_pid
  /\ \E room \in [{c \in Slots : T.emit[c] # <<>>} -> KernelRoom] :
       /\ out' = [c \in Slots |->
                   IF (state[c] = "DISCONNECTED") # (T.state[c] = "DISCONNECTED") THEN EmptyBuf
                   ELSE IF T.emit[c] = <<>> THEN out[c]
                   ELSE QueueAll(out[c], T.emit[c], room[c])]
       /\ state' = [c \in Slots |->
                     IF c \in T.accepted THEN "CONNACK_SENT"
                     ELSE IF /\ T.state[c] = "CONNACK_SENT" /\ T.emit[c] # <<>>
                             /\ Drains(out[c], T.emit[c], room[c])
                          THEN "READY" ELSE T.state[c]]

---------------------------------------------------------------------------
(***************************************************************************)
(* Forwarding.  Every matching subscription of another open client gets a  *)
(* copy at the lower of the two QoS; copies above QoS 0 are numbered in    *)
(* table order; a copy at QoS 2 occupies the client's first free flow,     *)
(* and goes out untracked when there is none.                              *)
(***************************************************************************)
\* Mutant: the state of the receiving slot is not looked at.
ReceiversInAnyState(T, from, topic) ==
  {s \in SubSlots : /\ T.subs[s] # None
                    /\ <<T.subs[s].filter, topic>> \in Matching
                    /\ T.subs[s].owner # from}

Receivers(T, from, topic) ==
  {s \in SubSlots : /\ T.subs[s] # None
                    /\ <<T.subs[s].filter, topic>> \in Matching
                    /\ T.subs[s].owner # from
                    /\ T.state[T.subs[s].owner] # "DISCONNECTED"}

FreeFlows(T, c) == {i \in FlowSlots : T.q2[c][i].state = "FREE"}

\* Mutant: the search for a topic's retained message starts at entry 1.
RetainedOnAfterFirst(T, topic) ==
  {r \in RetSlots \ {0} : T.retained[r] # None /\ T.retained[r].topic = topic}

RetainedOn(T, topic) ==
  {r \in RetSlots : T.retained[r] # None /\ T.retained[r].topic = topic}

\* A message with retain set replaces the retained message of its topic, or
\* takes the first unused entry if there is one; an empty one deletes it.
Retain(T, m) ==
  LET same  == RetainedOn(T, m.topic)
      free  == {r \in RetSlots : T.retained[r] = None}
      entry == IF same # {} THEN same ELSE free
  IN  CASE m.retain /\ m.payload # EmptyPayload /\ entry # {} ->
             [T EXCEPT !.retained[Lowest(entry)] =
                [topic |-> m.topic, payload |-> m.payload, qos |-> m.qos]]
        [] m.retain /\ m.payload = EmptyPayload /\ same # {} ->
             [T EXCEPT !.retained[Lowest(same)] = None]
        [] OTHER -> T

FwdQos(T, m, s) == Min2(m.qos, T.subs[s].qos)

Numbered(T, from, m) == {s \in Receivers(T, from, m.topic) : FwdQos(T, m, s) > 0}

FwdPid(T, from, m, s) ==
  IF s \in Numbered(T, from, m)
  THEN PidAfter(T.next_pid, Rank(Numbered(T, from, m), s)) ELSE 0

CopiesTo(T, from, m, c) == {s \in Receivers(T, from, m.topic) : T.subs[s].owner = c}

CopiesSent(T, from, m, c) ==
  LET copies == CopiesTo(T, from, m, c)
      Copy(s) == Publish([m EXCEPT !.qos = FwdQos(T, m, s)], FwdPid(T, from, m, s))
  IN  [k \in 1 .. Cardinality(copies) |-> Copy(InOrder(copies)[k])]

\* The copy for c that takes flow i: the k-th one at QoS 2 takes the k-th free flow.
StartedBy(T, from, m, c, i) ==
  LET exactly == {s \in CopiesTo(T, from, m, c) : FwdQos(T, m, s) = 2}
      free    == FreeFlows(T, c)
  IN  {s \in exactly : i \in free /\ Rank(free, i) = Rank(exactly, s)}

Forward(T, from, m) ==
  LET numbered == Numbered(T, from, m)
      Started(c, i) == StartedBy(T, from, m, c, i)
  IN  Retain([T EXCEPT
        !.q2 = [c \in Slots |-> [i \in FlowSlots |->
                 IF Started(c, i) = {} THEN T.q2[c][i]
                 ELSE [state |-> "OUT_PUBLISH_SENT",
                       pid   |-> FwdPid(T, from, m, Lowest(Started(c, i)))]]],
        !.next_pid = IF numbered = {} THEN @ ELSE PidAfter(@, Cardinality(numbered)),
        !.emit = [c \in Slots |-> T.emit[c] \o CopiesSent(T, from, m, c)]], m)

\* What is retained for each filter in turn, in the order of the retained table:
\* comparison x is that of filter x \div MaxRetained with entry x % MaxRetained.
\* It goes out at the QoS it was published with, without a packet identifier.
RetainedFor(T, filters) ==
  LET Entry(x) == T.retained[x % MaxRetained]
      hit == {x \in 0 .. Len(filters) * MaxRetained - 1 :
                /\ Entry(x) # None
                /\ <<filters[x \div MaxRetained + 1], Entry(x).topic>> \in Matching}
      Stored(r) == [topic |-> r.topic, payload |-> r.payload, qos |-> r.qos, retain |-> TRUE]
  IN  [k \in 1 .. Cardinality(hit) |-> Publish(Stored(Entry(InOrder(hit)[k])), 0)]

\* Mutant: closing a client leaves its subscriptions in the table.
FreeNoSubs(T, c) == T

FreeSubs(T, c) ==
  [T EXCEPT !.subs = [s \in SubSlots |-> IF s \in T.session[c].held THEN None ELSE @[s]]]

\* branch__close_client: the will goes out first, to the client itself as well
\* (its socket is closed already: what is queued for it dies with the slot).
Close(T, c) ==
  LET W == IF T.session[c].will = None THEN T ELSE Forward(T, Api, T.session[c].will)
  IN  [FreeSubs(W, c) EXCEPT !.session[c] = NoSession,
                             !.q2[c]      = NoFlows,
                             !.state[c]   = "DISCONNECTED",
                             !.emit[c]    = <<>>]

---------------------------------------------------------------------------
(***************************************************************************)
(* branch__dispatch, one operator per packet type: the tables after the    *)
(* packet p of client c.                                                   *)
(***************************************************************************)

\* Mutant: any open slot passes for a session with this identifier.
SlotsOpen(T, id) == {d \in Slots : T.state[d] # "DISCONNECTED"}

SlotsWithId(T, id) == {d \in Slots : T.state[d] # "DISCONNECTED" /\ T.session[d].id = id}

\* The identifier and the will are stored while the packet is parsed, before
\* anything is validated; a CONNECT without a will leaves an earlier one alone.
Identify(T, c, p) ==
  [T EXCEPT !.session[c].id   = p.id,
            !.session[c].will = IF p.will = None THEN @ ELSE p.will]

ConnackCode(p) ==
  CASE ~p.valid                                          -> 1
    [] p.valid /\ p.id = NoId /\ ~p.clean                -> 2
    [] p.valid /\ ~(p.id = NoId /\ ~p.clean) /\ ~p.auth  -> 4
    [] OTHER                                             -> 0

\* The search for an older session starts at slot 0 and meets c itself too.
Evict(T, c, p) ==
  LET old == Lowest(SlotsWithId(T, p.id))
  IN  IF p.clean /\ old # c THEN Close(T, old) ELSE T

Answer(T, c, p, rc) ==
  [T EXCEPT !.session[c].ka        = p.ka,
            !.session[c].clean     = p.clean,
            !.session[c].connected = @ \/ rc = 0,
            !.accepted             = IF rc = 0 THEN {c} ELSE {}]

OnConnect(T, c, p) ==
  LET W  == Identify(T, c, p)
      rc == ConnackCode(p)
      E  == IF rc = 0 THEN Evict(W, c, p) ELSE W
  IN  IF p.whole THEN Queue(Answer(E, c, p, rc), c, Connack(rc)) ELSE Close(W, c)

FlowsOf(T, c, pid, states) ==
  {i \in FlowSlots : T.q2[c][i].pid = pid /\ T.q2[c][i].state \in states}

\* Marking a flow free is all the code does; the packet identifier of a free
\* flow is never looked at, and is 0 here.
EndFlow(T, c, flows) ==
  IF flows = {} THEN T
  ELSE [T EXCEPT !.q2[c][Lowest(flows)] = [state |-> "FREE", pid |-> 0]]

\* Mutant: a retransmission is not recognised.
KnownNever(T, c, pid) == FALSE

\* A QoS 2 PUBLISH with this packet identifier was received and not released.
Known(T, c, pid) == FlowsOf(T, c, pid, InStates) # {}

\* The acknowledgement goes out and the message is forwarded whether or not the
\* packet identifier is new and whether or not a flow is free to record it.
OnPublish(T, c, p) ==
  LET free  == FreeFlows(T, c)
      R     == IF p.msg.qos = 2 /\ ~Known(T, c, p.pid) /\ free # {}
               THEN [T EXCEPT !.q2[c][Lowest(free)] =
                       [state |-> "IN_PUBREC_SENT", pid |-> p.pid]]
               ELSE T
      A     == CASE p.msg.qos = 1 -> Queue(R, c, Ack("PUBACK", p.pid))
                 [] p.msg.qos = 2 -> Queue(R, c, Ack("PUBREC", p.pid))
                 [] OTHER         -> R
  IN  Forward(A, c, p.msg)

OnPuback(T, c, p) ==
  EndFlow(T, c, FlowsOf(T, c, p.pid, {"OUT_PUBLISH_SENT"}))

OnPubrec(T, c, p) ==
  LET flows == FlowsOf(T, c, p.pid, {"OUT_PUBLISH_SENT"})
  IN  IF flows = {} THEN T
      ELSE Queue([T EXCEPT !.q2[c][Lowest(flows)].state = "OUT_PUBREL_SENT"],
                 c, Ack("PUBREL", p.pid))

OnPubrel(T, c, p) ==
  LET flows == FlowsOf(T, c, p.pid, {"IN_PUBREC_SENT"})
  IN  IF flows = {} THEN T
      ELSE Queue(EndFlow(T, c, flows), c, Ack("PUBCOMP", p.pid))

OnPubcomp(T, c, p) ==
  EndFlow(T, c, FlowsOf(T, c, p.pid, {"OUT_PUBREL_SENT"}))

\* Mutant: the search for a free subscription ignores the used flag.
AllSubs(T) == SubSlots

UnusedSubs(T) == {s \in SubSlots : T.subs[s] = None}

\* Each filter takes the first unused subscription, as long as there is one and
\* at most MaxPending per packet; the client's own list of its subscriptions
\* stops growing at MaxPending.  The retained messages precede the SUBACK.
OnSubscribe(T, c, p) ==
  LET asked   == Min2(Len(p.topics), MaxCodes)
      free    == UnusedSubs(T)
      granted == Min2(Min2(asked, MaxPending), Cardinality(free))
      new     == {s \in free : Rank(free, s) <= granted}
      Asked(s) == p.topics[Rank(free, s)]
      held    == T.session[c].held
      Fits(s) == Cardinality(held) + Rank(free, s) <= MaxPending
  IN  Queue([T EXCEPT
        !.subs = [s \in SubSlots |->
                   IF s \in new
                   THEN [filter |-> Asked(s).filter, owner |-> c, qos |-> Asked(s).qos,
                         listed |-> Fits(s)]
                   ELSE @[s]],
        !.session[c].held = held \cup {s \in new : Fits(s)},
        !.emit[c] = @ \o RetainedFor(T, [k \in 1 .. granted |-> p.topics[k].filter])],
        c, Suback(p.pid, [k \in 1 .. asked |->
                           IF k <= granted THEN p.topics[k].qos ELSE 128]))

\* Mutant: the subscription is freed but stays in the client's own list.
OnUnsubscribeKeepsHeld(T, c, p) ==
  LET gone == {s \in T.session[c].held :
                 T.subs[s] # None /\ T.subs[s].filter \in p.filters}
  IN  Queue([T EXCEPT !.subs = [s \in SubSlots |-> IF s \in gone THEN None ELSE @[s]]],
            c, Ack("UNSUBACK", p.pid))

OnUnsubscribe(T, c, p) ==
  LET gone == {s \in T.session[c].held :
                 T.subs[s] # None /\ T.subs[s].filter \in p.filters}
  IN  Queue([T EXCEPT !.subs = [s \in SubSlots |-> IF s \in gone THEN None ELSE @[s]],
                      !.session[c].held = @ \ gone],
            c, Ack("UNSUBACK", p.pid))

OnDisconnect(T, c) == Close([T EXCEPT !.session[c].will = None], c)

Handle(T, c, p) ==
  CASE p.type = "CONNECT"     -> OnConnect(T, c, p)
    [] p.type = "PUBLISH"     -> OnPublish(T, c, p)
    [] p.type = "PUBACK"      -> OnPuback(T, c, p)
    [] p.type = "PUBREC"      -> OnPubrec(T, c, p)
    [] p.type = "PUBREL"      -> OnPubrel(T, c, p)
    [] p.type = "PUBCOMP"     -> OnPubcomp(T, c, p)
    [] p.type = "SUBSCRIBE"   -> OnSubscribe(T, c, p)
    [] p.type = "UNSUBSCRIBE" -> OnUnsubscribe(T, c, p)
    [] p.type = "PINGREQ"     -> Queue(T, c, Pingresp)
    [] p.type = "DISCONNECT"  -> OnDisconnect(T, c)
    [] p.type = "MALFORMED"   -> Close(T, c)

---------------------------------------------------------------------------
(***************************************************************************)
(* The steps of branch_poll.                                               *)
(***************************************************************************)
Open == {c \in Slots : state[c] # "DISCONNECTED"}

\* A new connection takes the first free slot; without one it is closed again.
Accept ==
  /\ phase = "up"
  /\ Slots \ Open # {}
  /\ LET c == Lowest(Slots \ Open)
     IN  Become([Tables EXCEPT !.state[c]   = "CONNACK_SENT",
                               !.session[c] = NoSession,
                               !.q2[c]      = NoFlows])
  /\ UNCHANGED phase

\* branch__client_recv hands one complete packet to branch__dispatch.  A handler
\* that wipes its own slot and returns 0 makes the caller subtract the packet's
\* length from a recv_len of 0 and move 2^32 - total bytes: the process dies.
Recv(c, p) ==
  /\ phase = "up" /\ c \in Open
  /\ Become(Handle(Tables, c, p))
  /\ phase' = IF p.type = "DISCONNECT" THEN "crashed" ELSE phase

\* Mutant: only a buffer of which nothing was sent yet is offered to select().
WaitingUntouched(c) == out[c].off = 0 /\ out[c].buf # <<>>

\* The socket of c is in the write set of select().
Waiting(c) == out[c].off < Len(out[c].buf)

\* A writable socket takes more of the send buffer.
ClientSend(c) ==
  /\ phase = "up" /\ c \in Open /\ Waiting(c)
  /\ \E room \in KernelRoom :
       LET taken == Min2(room, Len(out[c].buf) - out[c].off)
       IN  IF out[c].off + taken = Len(out[c].buf)
           THEN /\ out' = [out EXCEPT ![c] = [buf |-> <<>>, off |-> 0, round |-> NextRound(@)]]
                /\ state' = [state EXCEPT ![c] = IF @ = "CONNACK_SENT" THEN "READY" ELSE @]
           ELSE /\ out' = [out EXCEPT ![c].off = @ + taken]
                /\ UNCHANGED state
  /\ UNCHANGED <<phase, session, q2, subs, retained, next_pid>>

\* recv() or send() reports the end or a failure of the connection, or the bytes
\* received cannot be framed.
PeerGone(c) ==
  /\ phase = "up" /\ c \in Open
  /\ Become(Close(Tables, c))
  /\ UNCHANGED phase

\* branch__check_keepalive; how long the client was silent is not modelled.
KeepaliveTimeout(c) ==
  /\ phase = "up" /\ c \in Open /\ session[c].ka
  /\ Become(Close(Tables, c))
  /\ UNCHANGED phase

---------------------------------------------------------------------------
(***************************************************************************)
(* The calls of the embedding program.                                     *)
(***************************************************************************)
ApiPublish(m) ==
  /\ phase = "up"
  /\ Become(Forward(Tables, Api, m))
  /\ UNCHANGED phase

\* The zeroed tables branch_create starts from.
Blank == [state    |-> [c \in Slots |-> "DISCONNECTED"],
          session  |-> [c \in Slots |-> NoSession],
          q2       |-> [c \in Slots |-> NoFlows],
          subs     |-> [s \in SubSlots |-> None],
          retained |-> [r \in RetSlots |-> None],
          next_pid |-> 0,
          emit     |-> [c \in Slots |-> <<>>],
          accepted |-> {}]

\* branch_destroy closes every client.  The wills it publishes change nothing
\* that outlives it: the sockets are closed too, and branch_create zeroes the tables,
\* as the start of a new process does after a crash.
Destroy ==
  /\ phase = "up" /\ phase' = "down"
  /\ Become(Blank)

Create ==
  /\ phase # "up" /\ phase' = "up"
  /\ Become(Blank)

---------------------------------------------------------------------------
Init ==
  /\ phase    = "up"
  /\ state    = Blank.state
  /\ session  = Blank.session
  /\ q2       = Blank.q2
  /\ out      = [c \in Slots |-> EmptyBuf]
  /\ subs     = Blank.subs
  /\ retained = Blank.retained
  /\ next_pid = Blank.next_pid

Next ==
  \/ Accept
  \/ \E c \in Slots : \/ \E p \in Inputs : Recv(c, p)
                      \/ ClientSend(c)
                      \/ PeerGone(c)
                      \/ KeepaliveTimeout(c)
  \/ \E m \in ApiMessages : ApiPublish(m)
  \/ Destroy
  \/ Create

Spec == Init /\ [][Next]_vars

\* A socket that stays writable is served: branch_poll is called in a loop,
\* select() reports every socket with unsent bytes, and every one is sent to.
Fairness == \A c \in Slots : WF_vars(ClientSend(c))

FairSpec == Spec /\ Fairness

---------------------------------------------------------------------------
(***************************************************************************)
(* Properties.                                                             *)
(***************************************************************************)

\* The type invariant of the broker's tables.
TypeOK ==
  /\ phase \in {"up", "down", "crashed"}
  /\ state \in [Slots -> {"DISCONNECTED", "CONNACK_SENT", "READY"}]
  /\ session \in [Slots -> Session]
  /\ q2 \in [Slots -> [FlowSlots -> Flow]]
  /\ out \in [Slots -> [buf : Seq(Outbound), off : Nat, round : 0 .. Rounds - 1]]
  /\ subs \in [SubSlots -> Sub \cup {None}]
  /\ retained \in [RetSlots -> Retained \cup {None}]
  /\ next_pid \in Pids

\* sub_indices only ever names live subscriptions of that very client, so that
\* closing or unsubscribing one client never ends another one's subscription.
HeldOwned ==
  \A c \in Slots : \A s \in session[c].held : subs[s] # None /\ subs[s].owner = c

\* A subscription that its owner's list had room for stays in that list as long as it
\* lives: UNSUBSCRIBE finds it, and no end of a connection leaves it behind for the
\* slot's next client.  The only ones missing are those granted over a full list.
ListedStayHeld ==
  \A s \in SubSlots :
    subs[s] # None /\ subs[s].listed => s \in session[subs[s].owner].held

\* Whatever is forwarded, published as a will or evicted, a slot without a
\* socket has no identity, no will, no flow and no bytes for its next client.
ClosedSlotClean ==
  \A c \in Slots : state[c] = "DISCONNECTED" =>
    session[c] = NoSession /\ q2[c] = NoFlows /\ out[c] = EmptyBuf

\* No topic has two retained messages, of which a new subscriber would get both
\* and a deletion would remove one.
RetainedUnique ==
  \A r, t \in RetSlots :
    retained[r] # None /\ retained[t] # None /\ retained[r].topic = retained[t].topic
      => r = t

\* A client's packet identifier names at most one incoming QoS 2 flow, so that
\* PUBREL ends the flow that the retransmitted PUBLISH was recognised by.
InboundUnique ==
  \A c \in Slots : \A i, j \in FlowSlots :
    /\ q2[c][i].state \in InStates /\ q2[c][j].state \in InStates
    /\ q2[c][i].pid = q2[c][j].pid
    => i = j

\* Outgoing flows never use packet identifier 0, also after the 16-bit counter
\* wrapped in the middle of one message's copies.
OutPidsValid ==
  \A c \in Slots : \A i \in FlowSlots :
    q2[c][i].state \in OutStates => q2[c][i].pid # 0

\* The send buffer is never overrun, and never rests fully sent: a buffer whose
\* offset had caught up with its length would not be offered to select() again.
SendBufferSound ==
  \A c \in Slots : /\ Len(out[c].buf) <= BufSize
                   /\ out[c].off < Len(out[c].buf) \/ (out[c].buf = <<>> /\ out[c].off = 0)

\* The model queues the packets of a step with QueueAll: on every buffer that occurs
\* that is QueueAndFlush, the code's function, for packet after packet.
QueueAllIsQueueAndFlush ==
  \A c \in Slots : \A n \in 0 .. BufSize + 1 : \A room \in 0 .. 2 * BufSize :
    QueuesStepByStep(out[c], [k \in 1 .. n |-> Ack("PUBACK", k)], room)

\* Until a send buffer runs empty, no step overwrites, moves or drops what is in it
\* or takes the offset back, however much is queued and however little is sent: the
\* client gets every packet once and in order.  (A step that fills and empties the
\* buffer Rounds times would pass for one that did not empty it.)
SendOrder ==
  [][\A c \in Slots :
       /\ state[c] # "DISCONNECTED" /\ state'[c] # "DISCONNECTED"
       /\ out'[c].round = out[c].round
       => /\ Len(out[c].buf) <= Len(out'[c].buf)
          /\ SubSeq(out'[c].buf, 1, Len(out[c].buf)) = out[c].buf
          /\ out[c].off <= out'[c].off]_vars

\* A packet of one client ends no other client's connection, except a clean
\* CONNECT that of a client with the same identifier.
ClosesOnlySameId ==
  [][\A c, d \in Slots : c # d /\ d \in Open /\ state'[d] = "DISCONNECTED" =>
       \A p \in Inputs : Recv(c, p) =>
         p.type = "CONNECT" /\ p.clean /\ session[d].id = p.id]_vars

\* Bytes queued for a client are all sent or its connection ends, however much
\* more is queued meanwhile: the offset only moves forward, and what is queued
\* behind it is bounded because nothing is reclaimed before everything is sent.
BufferDrains ==
  \A c \in Slots : \A r \in 0 .. Rounds - 1 :
    out[c].buf # <<>> /\ out[c].round = r ~> out[c].buf = <<>> \/ out[c].round # r

\* What the broker promises about subscriptions, of its clients and its table.
Promise == INSTANCE PubSub WITH
  Clients  <- Slots,
  online   <- Open,
  interest <- {<<subs[s].owner, subs[s].filter>> :
                 s \in {t \in SubSlots : subs[t] # None /\ subs[t].listed}}

\* The broker implements PubSub, for what SUBSCRIBE finds room for in the client's own
\* list: whoever forwards, is evicted, times out or gets a slot again, a client's interest
\* is its own, from its SUBSCRIBE to its UNSUBSCRIBE or the end of its connection.
ImplementsPubSub == Promise!Spec

---------------------------------------------------------------------------
(***************************************************************************)
(* What comments and the README say of the program and the code does not   *)
(* do.                                                                     *)
(***************************************************************************)

\* branch_types.h: sub_indices are the subscriptions held by the client, all of them:
\* none is left behind for the next client of the slot.
NoOrphans ==
  \A s \in SubSlots : subs[s] # None => s \in session[subs[s].owner].held

\* README: a DISCONNECT packet is decoded and its session cleaned up; the
\* broker goes on serving.
DisconnectKeepsServing == phase # "crashed"

\* branch_codec.h: recognising a retransmitted QoS 2 PUBLISH prevents that its
\* message is delivered twice.
ForwardsOnce ==
  [][\A c \in Slots : \A p \in Inputs :
       /\ p.type = "PUBLISH" /\ p.msg.qos = 2
       /\ Known(Tables, c, p.pid)
       /\ Recv(c, p)
       => \A d \in Slots \ {c} : UNCHANGED <<out[d], q2[d]>>]_vars
===========================================================================
