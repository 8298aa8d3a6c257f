---------------------------- MODULE LeafBranch ----------------------------
(***************************************************************************)
(* A client `leaf' and a broker `branch' over TCP, composed of the modules *)
(* Leaf and Branch, among other clients of the broker.                     *)
(*                                                                         *)
(* A broker's slot with one of the client's sockets gets the packets that  *)
(* the client sent, in their order; the other slots get any packet of      *)
(* Inputs.  What either side sends is on the way until the other takes it, *)
(* and lost with the connection.  A connection is accepted when it is      *)
(* established.                                                            *)
(***************************************************************************)
EXTENDS Branch

CONSTANTS
  Way,          \* how many packets can be on their way in one direction
  LeafPending,  \* LEAF_MAX_PENDING
  LeafSubs,     \* LEAF_MAX_SUBS
  LeafRetries,  \* how often the client sends a packet again, 5
  OwnConnect,   \* the CONNECT packet of the client
  Wanted,       \* what its program subscribes to
  Messages      \* and publishes

\* The broker's sockets take all that it may have queued.
ASSUME RoomAssumption == \A n \in KernelRoom : n >= BufSize

ASSUME ClientAssumption ==
  /\ Way \in Nat /\ LeafPending \in Nat /\ LeafSubs \in Nat /\ LeafRetries \in Nat
  /\ OwnConnect \in Inbound /\ OwnConnect.type = "CONNECT"
  /\ Wanted \subseteq [filter : Filters, qos : QoS] /\ Messages \subseteq Message

ASSUME NoneLinkAssumption == None \notin Slots /\ None \notin Inbound

VARIABLES
  pc, l_state, buf, pending, received_ids, l_subs, l_next_pid, sent, told,  \* of Leaf
  mine,  \* the slots whose socket belongs to a connection of the client
  link,  \* the slot of its present connection, or None
  up,    \* up[c]: the packets on their way to slot c in mine
  down,  \* the packets on their way to the client
  lost   \* auxiliary: the filters whose last UNSUBSCRIBE a later call replaced
         \* in the send buffer before it was sent on this connection

L == INSTANCE Leaf WITH
  MaxPending <- LeafPending, MaxSubs <- LeafSubs, MaxRetries <- LeafRetries,
  Parts <- 1, Takes <- {1}, TooLong <- {}, PeerPackets <- {},
  state <- l_state, subs <- l_subs, next_pid <- l_next_pid

lvars   == <<pc, l_state, buf, pending, received_ids, l_subs, l_next_pid, sent, told>>
way     == <<mine, link, up, down>>
allvars == <<vars, lvars, way, lost>>

---------------------------------------------------------------------------
(***************************************************************************)
(* Steps of the broker.                                                    *)
(***************************************************************************)
\* With the tables T that a handler leaves: what it sends to the client's present
\* connection goes on its way, `used' has taken a packet, and what is on the way to a
\* slot that is closed is lost.
Carried(T, used) ==
  /\ down' = IF link = None THEN down ELSE down \o T.emit[link]
  /\ Len(down') <= Way
  /\ mine' = {c \in mine : phase' = "up" /\ c \in Open'}
  /\ link' = IF link \in mine' THEN link ELSE None
  /\ up'   = [c \in Slots |-> IF c \notin mine' THEN <<>>
                              ELSE IF c = used THEN Tail(up[c]) ELSE up[c]]

BrokerTakes(c) ==
  /\ c \in mine /\ up[c] # <<>>
  /\ Recv(c, Head(up[c]))
  /\ Carried(Handle(Tables, c, Head(up[c])), c)

Broker ==
  /\ \/ \E c \in Slots : BrokerTakes(c)
     \/ \E c \in Slots \ mine, p \in Inputs :
          Recv(c, p) /\ Carried(Handle(Tables, c, p), None)
     \/ \E c \in Slots :
          (PeerGone(c) \/ KeepaliveTimeout(c)) /\ Carried(Close(Tables, c), None)
     \/ \E m \in ApiMessages : ApiPublish(m) /\ Carried(Forward(Tables, Api, m), None)
     \/ (Accept \/ Destroy \/ Create) /\ Carried(Blank, None)
  /\ UNCHANGED <<lvars, lost>>

---------------------------------------------------------------------------
(***************************************************************************)
(* Steps of the client.                                                    *)
(***************************************************************************)
Established(s) == s \notin {"DISCONNECTED", "TCP_CONNECTING"}

\* The broker accepts the connection, and closes it at once if no slot is free.
Establishes ==
  /\ ~Established(l_state) /\ Established(l_state') /\ phase = "up"
  /\ \/ Accept /\ link' = Lowest(Slots \ Open) /\ mine' = mine \cup {link'}
        /\ up' = [up EXCEPT ![link'] = sent']
     \/ Slots = Open /\ UNCHANGED <<vars, mine, up>> /\ link' = None
  /\ UNCHANGED down

\* What the socket has no room for is lost; a connection takes what is on its way to
\* the client with it, while the broker may still get what is on the way to it.
GoesOn ==
  /\ Established(l_state') => Established(l_state)
  /\ up' = IF link = None THEN up
           ELSE [up EXCEPT ![link] = IF Len(@ \o sent') <= Way THEN @ \o sent' ELSE @]
  /\ link' = IF Established(l_state') THEN link ELSE None
  /\ UNCHANGED <<vars, mine>>

ClientTakes ==
  /\ down # <<>> /\ L!Packet(Head(down)) /\ GoesOn
  /\ down' = IF link' = None /\ ~Established(l_state') THEN <<>> ELSE Tail(down)

Unsubscribed(p) == IF p # None /\ p.type = "UNSUBSCRIBE" THEN p.filters ELSE {}

\* A packet that the client's step neither sent nor left in the send buffer was replaced.
Loses ==
  lost' = IF l_state' # "READY" THEN {}
          ELSE (IF sent' = <<>> THEN lost \cup Unsubscribed(buf.pkt) ELSE lost)
                 \ Unsubscribed(buf'.pkt)

Client ==
  /\ \/ ClientTakes
     \/ /\ \/ L!LeafConnect \/ L!LeafDisconnect \/ L!Recreate \/ L!Call
           \/ L!PollConnects \/ L!PollFails \/ L!Readable \/ L!PollEnds
           \/ L!CallbackReturns
           \/ (link # None => Len(up[link]) < Way) /\ L!Writable
        /\ \/ Establishes
           \/ GoesOn /\ down' = IF Established(l_state') THEN down ELSE <<>>
  /\ Loses

ComposedInit ==
  /\ Init /\ L!Init
  /\ mine = {} /\ link = None /\ up = [c \in Slots |-> <<>>] /\ down = <<>>
  /\ lost = {}

ComposedNext == Broker \/ Client

ComposedSpec == ComposedInit /\ [][ComposedNext]_allvars

---------------------------------------------------------------------------
(***************************************************************************)
(* Properties of both together.                                            *)
(***************************************************************************)
\* A program that is told that the client is ready talks to a slot that has accepted
\* its CONNECT, whatever became of earlier connections, evictions and full tables.
ReadyMeansAccepted ==
  l_state = "READY" /\ link # None => session[link].connected

\* A client whose CONNECT is acceptable sends it once on a connection, and first.
\* Only a DISCONNECT may precede it, and answers: to what the broker delivers because the
\* slot's former client was granted subscriptions over a full list (NoOrphans).  The
\* broker checks nothing of this.
ConnectOnceAndFirst ==
  \A c \in mine : \A k \in 1 .. Len(up[c]) :
    IF up[c][k].type = "CONNECT"
    THEN ~session[c].connected /\ \A j \in 1 .. k - 1 : up[c][j].type # "CONNECT"
    ELSE \/ session[c].connected \/ up[c][k].type \in AckKinds \cup {"DISCONNECT"}
         \/ \E j \in 1 .. k - 1 : up[c][j].type = "CONNECT"

\* A subscription that the broker has listed for the client is one the client keeps, or
\* the UNSUBSCRIBE for it is on its way or was lost to a later call: nothing else, no
\* other client, no connection that ends and no full table, parts the two tables.
NoUnaskedSubs ==
  \A s \in SubSlots :
    subs[s] # None /\ subs[s].listed /\ subs[s].owner = link =>
      LET Ends(p) == subs[s].filter \in Unsubscribed(p)
      IN  \/ \E k \in 1 .. Len(l_subs) : l_subs[k] = subs[s].filter
          \/ Ends(buf.pkt) \/ \E k \in 1 .. Len(up[link]) : Ends(up[link][k])
          \/ subs[s].filter \in lost
===========================================================================
