------------------------------- MODULE Leaf -------------------------------
(***************************************************************************)
(* The MQTT client `leaf': its connection, its one send buffer, the        *)
(* acknowledgements it waits for and the identifiers it remembers.         *)
(*                                                                         *)
(* The client has one thread.  The program calls leaf_poll() in a loop and *)
(* the other functions in between or from a callback, so what interleaves  *)
(* are the calls of the program and the events of the socket.  One action  *)
(* is one call, or one part of leaf_poll(): a connection attempt, a        *)
(* writable socket, a readable one, one packet, and what follows the       *)
(* packets.  `pc' says where the thread is.                                *)
(*                                                                         *)
(* Time is left to module LeafClock: here a retry may be due, and a peer   *)
(* found silent, whenever the code looks.                                  *)
(***************************************************************************)
EXTENDS Mqtt

CONSTANTS
  MaxPending,   \* LEAF_MAX_PENDING, the length of pending and of received_ids
  MaxSubs,      \* LEAF_MAX_SUBS
  MaxRetries,   \* 5
  Parts,        \* in how many parts a packet can leave the send buffer
  Takes,        \* how many parts the socket may take at a time
  OwnConnect,   \* the CONNECT packet that the configuration makes
  TooLong,      \* filters of LEAF_MAX_TOPIC characters or more
  Wanted,       \* what the program subscribes to, as [filter |-> f, qos |-> q]
  Messages,     \* what the program publishes
  PeerPackets   \* what the peer sends

ASSUME LeafSizesAssumption ==
  /\ MaxPending \in Nat /\ MaxSubs \in Nat /\ MaxRetries \in Nat
  /\ Parts \in Nat \ {0} /\ Takes \subseteq Nat

ASSUME LeafInputsAssumption ==
  /\ OwnConnect \in Inbound /\ OwnConnect.type = "CONNECT"
  /\ TooLong \subseteq Filters
  /\ Wanted \subseteq [filter : Filters, qos : QoS] /\ Messages \subseteq Message
  /\ PeerPackets \subseteq Outbound \cup [type : {"MALFORMED"}]

ASSUME NonePacketAssumption == None \notin Inbound

Entries == 0 .. MaxPending - 1

VARIABLES
  pc,           \* "program" between calls, in leaf_poll() "packets" in the loop over
                \* the packets received, or "callback"; "crashed"
  state,        \* LEAF_S_*; there is a socket iff it is not DISCONNECTED
  buf,          \* the send buffer: one packet and how much of it was sent
  pending,      \* pending[i]: an acknowledgement waited for, or a free entry
  received_ids, \* identifiers of received messages, 0 for a free entry
  subs,         \* the filters subscribed to
  next_pid,     \* the last packet identifier handed out
  sent,         \* the packets the socket took in the last step
  told          \* identifiers of the messages on_message got on this connection, until
                \* their PUBREL

session == <<state, buf, pending, received_ids, subs, next_pid, told>>
vars    == <<pc, session, sent>>

States == {"DISCONNECTED", "TCP_CONNECTING", "TCP_CONNECTED", "CONNACK_WAIT", "READY"}

\* snap is the packet a retry sends.
Pending == [pid : Pids, type : {"PUBLISH", "SUBSCRIBE", "UNSUBSCRIBE"},
            retries : 0 .. MaxRetries, snap : Inbound \cup {None}]

NoPending  == [i \in Entries |-> [pid |-> 0, type |-> "PUBLISH", retries |-> 0, snap |-> None]]
NoReceived == [i \in Entries |-> 0]
NoPacket   == [pkt |-> None, off |-> 0]

---------------------------------------------------------------------------
\* Mutant: the identifiers received are kept for the next connection.
ResetKeepsReceived ==
  /\ state' = "DISCONNECTED" /\ buf' = NoPacket
  /\ pending' = NoPending /\ UNCHANGED received_ids
  /\ subs' = <<>> /\ next_pid' = 0 /\ told' = {}

\* leaf__reset.
Reset ==
  /\ state' = "DISCONNECTED" /\ buf' = NoPacket
  /\ pending' = NoPending /\ received_ids' = NoReceived
  /\ subs' = <<>> /\ next_pid' = 0 /\ told' = {}

Goes(next) == pc' = next

Quiet == sent' = <<>>

\* Packets that bypass the send buffer: the socket takes n parts, and what it does
\* not take of them is lost.
Direct(packets) ==
  \E n \in Takes : sent' = SubSeq(packets, 1, Min2(n \div Parts, Len(packets)))

\* leaf__connect_tcp: no address, no socket, or a connect() that fails leave the
\* client disconnected; connect() may also succeed at once.
ConnectTcp ==
  /\ state = "DISCONNECTED"
  /\ state' \in {"DISCONNECTED", "TCP_CONNECTING", "TCP_CONNECTED"}
  /\ Quiet
  /\ UNCHANGED <<pc, buf, pending, received_ids, subs, next_pid, told>>

---------------------------------------------------------------------------
(***************************************************************************)
(* The calls of the program, between polls and in callbacks.  The send     *)
(* buffer is encoded into from its start, whatever it holds.               *)
(***************************************************************************)
InProgram == pc \in {"program", "callback"}

\* Mutant: a connection will do.
MayCallConnected == InProgram /\ state \notin {"DISCONNECTED", "TCP_CONNECTING"}

MayCall == InProgram /\ state = "READY"

\* Mutant: an entry whose retries are used up passes for free.
FreeEntriesOrGivenUp ==
  {i \in Entries : pending[i].pid = 0 \/ pending[i].retries = MaxRetries}

FreeEntries == {i \in Entries : pending[i].pid = 0}

NextPid == PidAfter(next_pid, 1)

Encode(p) == buf' = [pkt |-> p, off |-> 0]

\* The entry keeps the snapshot and the retries of its last use; without a free
\* entry the acknowledgement is not waited for.
Await(type) ==
  pending' = IF FreeEntries = {} THEN pending
             ELSE [pending EXCEPT ![Lowest(FreeEntries)].pid  = NextPid,
                                  ![Lowest(FreeEntries)].type = type]

LeafConnect == pc = "program" /\ ConnectTcp

\* The identifier is used up before the length of the filter is checked.
LeafSubscribe(w) ==
  /\ MayCall /\ Len(subs) < MaxSubs
  /\ next_pid' = NextPid
  /\ IF w.filter \in TooLong THEN UNCHANGED <<subs, buf, pending>>
     ELSE /\ subs' = Append(subs, w.filter)
          /\ Encode(Subscribe(NextPid, <<w>>))
          /\ Await("SUBSCRIBE")
  /\ Quiet
  /\ UNCHANGED <<pc, state, received_ids, told>>

\* The last subscription takes the place of the first one with this filter.
Without(f) ==
  LET at == {i \in 1 .. Len(subs) : subs[i] = f}
  IN  IF at = {} THEN subs
      ELSE SubSeq([subs EXCEPT ![Lowest(at)] = subs[Len(subs)]], 1, Len(subs) - 1)

\* Mutant: without an entry for the answer the call returns in the middle.
LeafUnsubscribeUntracked(f) ==
  /\ MayCall
  /\ subs' = Without(f) /\ next_pid' = NextPid
  /\ IF FreeEntries = {} THEN UNCHANGED <<buf, pending>>
     ELSE Encode(Unsubscribe(NextPid, {f})) /\ Await("UNSUBSCRIBE")
  /\ Quiet
  /\ UNCHANGED <<pc, state, received_ids, told>>

LeafUnsubscribe(f) ==
  /\ MayCall
  /\ subs' = Without(f)
  /\ next_pid' = NextPid
  /\ Encode(Unsubscribe(NextPid, {f}))
  /\ Await("UNSUBSCRIBE")
  /\ Quiet
  /\ UNCHANGED <<pc, state, received_ids, told>>

\* Above QoS 0 the message needs a free entry, which keeps the encoded packet, and
\* uses up an identifier whether there is one or not.
LeafPublish(m) ==
  /\ MayCall
  /\ LET p == Publish(m, IF m.qos = 0 THEN 0 ELSE NextPid)
     IN  \/ /\ m.qos = 0
            /\ Encode(p)
            /\ UNCHANGED <<pending, next_pid>>
         \/ /\ m.qos > 0 /\ FreeEntries # {}
            /\ Encode(p)
            /\ pending' = [pending EXCEPT ![Lowest(FreeEntries)] =
                 [pid |-> NextPid, type |-> "PUBLISH", retries |-> 0, snap |-> p]]
            /\ next_pid' = NextPid
         \/ /\ m.qos > 0 /\ FreeEntries = {}
            /\ next_pid' = NextPid
            /\ UNCHANGED <<buf, pending>>
  /\ Quiet
  /\ UNCHANGED <<pc, state, received_ids, subs, told>>

\* In a callback leaf_disconnect zeroes recv_len under the loop that made the call,
\* which then moves 2^32 - total bytes: the process dies.
LeafDisconnect ==
  /\ InProgram /\ state # "DISCONNECTED"
  /\ Direct(<<Disconnect>>)
  /\ Reset
  /\ Goes(IF pc = "callback" THEN "crashed" ELSE pc)

\* leaf_destroy and leaf_create, in this process or, after a crash, in the next.
Recreate ==
  /\ pc \in {"program", "crashed"}
  /\ IF state = "READY" THEN Direct(<<Disconnect>>) ELSE Quiet
  /\ Reset
  /\ Goes("program")

---------------------------------------------------------------------------
(***************************************************************************)
(* leaf__dispatch, one operator per kind of packet.                        *)
(***************************************************************************)
\* Any CONNACK with return code 0 makes the client ready, any other is ignored.
OnConnack(p) ==
  /\ IF p.rc = 0 THEN state' = "READY" /\ Goes("callback") ELSE UNCHANGED <<state, pc>>
  /\ Quiet
  /\ UNCHANGED <<buf, pending, received_ids, subs, next_pid, told>>

Seen(pid) == pid # 0 /\ \E i \in Entries : received_ids[i] = pid

\* Mutant: the search does not get past the first entry.
RecordInFirst(pid) == [received_ids EXCEPT ![0] = pid]

\* The identifier takes the first free entry; without one it is not remembered.
Record(pid) ==
  LET free == {i \in Entries : received_ids[i] = 0}
  IN  IF free = {} THEN received_ids ELSE [received_ids EXCEPT ![Lowest(free)] = pid]

\* A message is told to the program unless its identifier is remembered, and
\* acknowledged either way.  At QoS 2 it takes an entry of pending each time.
OnPublish(p) ==
  /\ received_ids' = IF Seen(p.pid) \/ p.pid = 0 THEN received_ids ELSE Record(p.pid)
  /\ pending' = IF p.msg.qos # 2 \/ FreeEntries = {} THEN pending
                ELSE [pending EXCEPT ![Lowest(FreeEntries)].pid  = p.pid,
                                     ![Lowest(FreeEntries)].type = "PUBLISH"]
  /\ CASE p.msg.qos = 1 -> Direct(<<Ack("PUBACK", p.pid)>>)
       [] p.msg.qos = 2 -> Direct(<<Ack("PUBREC", p.pid)>>)
       [] OTHER         -> Quiet
  /\ IF Seen(p.pid) THEN UNCHANGED <<pc, told>>
     ELSE Goes("callback") /\ told' = told \cup ({p.pid} \ {0})
  /\ UNCHANGED <<state, buf, subs, next_pid>>

\* The first of the entries is freed; everything else in it stays.
Freed(entries) ==
  IF entries = {} THEN pending ELSE [pending EXCEPT ![Lowest(entries)].pid = 0]

\* PUBACK, PUBCOMP, SUBACK and UNSUBACK free whatever has their identifier.
OnAck(p) ==
  /\ pending' = Freed({i \in Entries : pending[i].pid = p.pid})
  /\ Quiet
  /\ UNCHANGED <<pc, state, buf, received_ids, subs, next_pid, told>>

\* The entry stays as it is: until PUBCOMP the PUBLISH may be sent again.
OnPubrec(p) ==
  /\ Direct(<<Ack("PUBREL", p.pid)>>)
  /\ UNCHANGED <<pc, session>>

\* The peer may use the identifier for another message from here on; the entry of
\* received_ids stays all the same.
OnPubrel(p) ==
  /\ pending' = Freed({i \in Entries : pending[i].pid = p.pid /\ pending[i].type = "PUBLISH"})
  /\ told' = told \ {p.pid}
  /\ Direct(<<Ack("PUBCOMP", p.pid)>>)
  /\ UNCHANGED <<pc, state, buf, received_ids, subs, next_pid>>

\* leaf__fire_disconnect, after which leaf_poll returns.
FireDisconnect == Reset /\ Goes("program") /\ Quiet

Packet(p) ==
  /\ pc = "packets"
  /\ \/ p.type = "CONNACK" /\ OnConnack(p)
     \/ p.type = "PUBLISH" /\ OnPublish(p)
     \/ p.type \in {"PUBACK", "PUBCOMP", "SUBACK", "UNSUBACK"} /\ OnAck(p)
     \/ p.type = "PUBREC" /\ OnPubrec(p)
     \/ p.type = "PUBREL" /\ OnPubrel(p)
     \/ p.type = "PINGRESP" /\ Quiet /\ UNCHANGED <<pc, session>>
     \/ p.type = "MALFORMED" /\ FireDisconnect

CallbackReturns ==
  /\ pc = "callback" /\ Goes("packets") /\ Quiet
  /\ UNCHANGED session

---------------------------------------------------------------------------
(***************************************************************************)
(* leaf_poll.                                                              *)
(***************************************************************************)
\* The part before select(), when it is time for an attempt.
PollConnects == pc = "program" /\ ConnectTcp

\* select(), connect(), send() or recv() fails, or the bytes cannot be framed.
PollFails ==
  /\ pc \in {"program", "packets"} /\ state # "DISCONNECTED"
  /\ FireDisconnect

\* Mutant: what the socket did not take of a packet is forgotten.
SendPendingOnce(p, off) ==
  \E n \in Takes :
    /\ buf'  = IF n > 0 THEN NoPacket ELSE [pkt |-> p, off |-> off]
    /\ sent' = IF off + n >= Parts THEN <<p>> ELSE <<>>

\* leaf__send_pending with packet p in the send buffer, sent up to off.
SendPending(p, off) ==
  \E n \in Takes :
    LET upto == off + Min2(n, Parts - off)
    IN  /\ buf'  = IF upto = Parts THEN NoPacket ELSE [pkt |-> p, off |-> upto]
        /\ sent' = IF upto = Parts THEN <<p>> ELSE <<>>

\* Mutant: the client is ready as soon as it has sent CONNECT.
WritableMakesReady ==
  /\ pc = "program" /\ state = "TCP_CONNECTING" /\ state' = "READY"
  /\ SendPending(OwnConnect, 0)
  /\ Goes("packets")
  /\ UNCHANGED <<pending, received_ids, subs, next_pid, told>>

\* The socket is writable: a connection is established, which sends CONNECT, or the
\* send buffer goes on being sent.
Writable ==
  /\ pc = "program"
  /\ \/ /\ state = "TCP_CONNECTING"
        /\ state' = "CONNACK_WAIT"
        /\ SendPending(OwnConnect, 0)
     \/ /\ state # "TCP_CONNECTING" /\ buf.pkt # None
        /\ SendPending(buf.pkt, buf.off)
        /\ UNCHANGED state
  /\ Goes("packets")
  /\ UNCHANGED <<pending, received_ids, subs, next_pid, told>>

\* Mutant: the read set is looked at while the connection is being established.
ReadableWhileConnecting ==
  /\ pc = "program" /\ state # "DISCONNECTED"
  /\ Goes("packets") /\ Quiet
  /\ UNCHANGED session

\* The socket is readable, with packets or without; the end of the stream passes
\* for the latter.
Readable ==
  /\ pc = "program" /\ state \notin {"DISCONNECTED", "TCP_CONNECTING"}
  /\ Goes("packets") /\ Quiet
  /\ UNCHANGED session

\* Mutant: the limit on retries is off by one.
RetriedOnceMore(due) ==
  [i \in Entries |->
    IF i \notin due THEN pending[i]
    ELSE IF pending[i].retries > MaxRetries THEN [pending[i] EXCEPT !.pid = 0]
    ELSE [pending[i] EXCEPT !.retries = @ + 1]]

\* leaf__retry_pending, when the entries in due were sent long ago: the entries
\* afterwards, and the snapshots sent, in the order of the table.
Retried(due) ==
  [i \in Entries |->
    IF i \notin due THEN pending[i]
    ELSE IF pending[i].retries >= MaxRetries THEN [pending[i] EXCEPT !.pid = 0]
    ELSE [pending[i] EXCEPT !.retries = @ + 1]]

Snapshots(due) ==
  LET again == {i \in due : pending[i].retries < MaxRetries /\ pending[i].snap # None}
  IN  [k \in 1 .. Cardinality(again) |-> pending[InOrder(again)[k]].snap]

\* What follows the packets: a PINGREQ if nothing was sent for long, the end of the
\* connection if the peer is taken to be silent, retries otherwise.
PollEnds ==
  /\ pc = "packets" /\ Goes("program")
  /\ \E idle \in BOOLEAN :
       LET ping == IF idle /\ state \in {"READY", "CONNACK_WAIT"} THEN <<Pingreq>> ELSE <<>>
       IN  \/ /\ state \in {"READY", "CONNACK_WAIT"}
              /\ Reset /\ Direct(ping)
           \/ \E due \in SUBSET (Entries \ FreeEntries) :
                /\ state = "READY" \/ due = {}
                /\ pending' = Retried(due)
                /\ Direct(ping \o Snapshots(due))
                /\ UNCHANGED <<state, buf, received_ids, subs, next_pid, told>>

---------------------------------------------------------------------------
Init ==
  /\ pc = "program" /\ state = "DISCONNECTED" /\ buf = NoPacket
  /\ pending = NoPending /\ received_ids = NoReceived
  /\ subs = <<>> /\ next_pid = 0 /\ told = {}
  /\ sent = <<>>

\* The calls that encode into the send buffer.
Call ==
  \/ \E w \in Wanted : LeafSubscribe(w)
  \/ \E w \in Wanted : LeafUnsubscribe(w.filter)
  \/ \E m \in Messages : LeafPublish(m)

Next ==
  \/ LeafConnect \/ LeafDisconnect \/ Recreate \/ Call
  \/ PollConnects \/ PollFails \/ Writable \/ Readable \/ PollEnds
  \/ \E p \in PeerPackets : Packet(p)
  \/ CallbackReturns

Spec == Init /\ [][Next]_vars

---------------------------------------------------------------------------
(***************************************************************************)
(* Properties.                                                             *)
(***************************************************************************)
\* The type invariant: identifiers stay within 16 bits and are 0 only in free
\* entries, retries are never counted past their limit, and the send buffer never
\* rests with all of its packet sent.
TypeOK ==
  /\ pc \in {"program", "packets", "callback", "crashed"} /\ state \in States
  /\ buf \in [pkt : Inbound \cup {None}, off : 0 .. Parts - 1]
  /\ pending \in [Entries -> Pending] /\ received_ids \in [Entries -> Pids]
  /\ subs \in Seq(Filters) /\ Len(subs) <= MaxSubs
  /\ next_pid \in Pids /\ sent \in Seq(Inbound) /\ told \subseteq Pids \ {0}

\* A connection starts with nothing of the one before it, and nothing but CONNECT is
\* encoded, numbered or waiting to be sent again before the broker has accepted it:
\* however the last connection ended, in whatever part of a call or a poll.
FreshUntilReady ==
  /\ state # "READY" =>
       /\ subs = <<>> /\ next_pid = 0 /\ buf.pkt \in {None, OwnConnect}
       /\ \A i \in Entries : pending[i].snap = None
  /\ state \in {"DISCONNECTED", "TCP_CONNECTING"} =>
       /\ buf = NoPacket /\ pending = NoPending /\ received_ids = NoReceived /\ told = {}
       /\ pc \in {"program", "crashed"}

\* Until its PUBREL, a message above QoS 0 that the program was told of is remembered, and
\* in one entry, so that no retransmission is told again: unless the memory was full of
\* others.  (At PUBREL the code forgets nothing, which the property leaves open.)
Remembered ==
  /\ \A i, j \in Entries : received_ids[i] = received_ids[j] /\ received_ids[i] # 0 => i = j
  /\ \/ \A pid \in told : Seen(pid)
     \/ \A i \in Entries : received_ids[i] # 0

Answers == {"PUBACK", "PUBREL", "PUBCOMP", "SUBACK", "UNSUBACK"}

\* An entry keeps what it waits for and what it would send again until an answer with
\* its identifier arrives, all retries are used up or the connection ends: calls and
\* messages that need an entry, also when there is none, never take one in use.
EntriesKept ==
  [][\A i \in Entries :
       LET e == pending[i]
       IN  e.pid # 0 /\ state' # "DISCONNECTED" =>
             \/ [pending'[i] EXCEPT !.retries = e.retries] = e
             \/ /\ pending'[i] = [e EXCEPT !.pid = 0]
                /\ \/ e.retries = MaxRetries
                   \/ \E p \in PeerPackets :
                        p.type \in Answers /\ p.pid = e.pid /\ Packet(p)]_vars

\* A packet in the send buffer leaves it only when the socket has taken its last part,
\* when the connection ends, or when a call of the program replaces it: no packet
\* received, no retry and no new connection does.
SentToTheEnd ==
  [][buf.pkt # None /\ buf' # buf /\ state' # "DISCONNECTED" =>
       \/ buf' = NoPacket /\ sent' = <<buf.pkt>>
       \/ buf'.pkt = buf.pkt /\ buf'.off > buf.off
       \/ Call]_vars

\* What a program learns of the connection from leaf_is_connected() and
\* leaf_is_ready().
Status == INSTANCE LeafStatus WITH
  connected <- state \notin {"DISCONNECTED", "TCP_CONNECTING"},
  ready     <- state = "READY"

\* The client implements LeafStatus: it gets ready only on a connection that it has
\* seen established before, and the two answers fall together.
ImplementsStatus == Status!Spec
===========================================================================
