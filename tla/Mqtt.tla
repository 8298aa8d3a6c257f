------------------------------- MODULE Mqtt -------------------------------
(***************************************************************************)
(* The vocabulary of the two programs of this repository, the MQTT broker  *)
(* `branch' and the MQTT client `leaf': topics, application messages,      *)
(* packets and packet identifiers.                                         *)
(*                                                                         *)
(* A packet is a record tagged by its type.  Of a packet's bytes the       *)
(* records keep what the handlers branch on; strings are members of the    *)
(* constant sets, and the relation Matching stands for                     *)
(* branch__match_topic (module TopicMatch models that function itself).    *)
(***************************************************************************)
EXTENDS Integers, Sequences, FiniteSets

CONSTANTS
  Topics,        \* topic names that occur in PUBLISH packets and wills
  Filters,       \* topic filters that occur in SUBSCRIBE packets
  Matching,      \* pairs <<filter, topic>> that branch__match_topic accepts
  Payloads,      \* message bodies
  EmptyPayload,  \* the body of length zero
  ClientIds,     \* client identifiers
  NoId,          \* the identifier of length zero
  PidMax,        \* the largest packet identifier, 65535 in the code
  None           \* an unused table entry, an absent will

ASSUME MatchingAssumption == Matching \subseteq Filters \X Topics
ASSUME PayloadAssumption  == EmptyPayload \in Payloads
ASSUME NoIdAssumption     == NoId \in ClientIds
ASSUME PidMaxAssumption   == PidMax \in Nat \ {0}

\* The two QoS bits of a packet are never checked against 3.
QoS  == 0 .. 3
Pids == 0 .. PidMax

Message == [topic : Topics, payload : Payloads, qos : QoS, retain : BOOLEAN]

ASSUME NoneMessageAssumption == None \notin Message

Min2(a, b) == IF a <= b THEN a ELSE b

\* The position of x among the elements of S in increasing order, from 1.
Rank(S, x) == Cardinality({y \in S : y <= x})

\* The elements of S in increasing order.
InOrder(S) == [k \in 1 .. Cardinality(S) |-> CHOOSE x \in S : Rank(S, x) = k]

\* What a search that starts at entry 0 of a table finds among the entries in S.
Lowest(S) == CHOOSE x \in S : \A y \in S : x <= y

\* Mutant: the counter does not wrap.
PidAfterUnbounded(n, k) == n + k

\* Mutant: the counter wraps to 0.
PidAfterZero(n, k) == (n + k) % (PidMax + 1)

\* The k-th packet identifier handed out after the counter stood at n, k > 0:
\* a 16-bit counter incremented before use that skips 0.
PidAfter(n, k) == ((n + k - 1) % PidMax) + 1

---------------------------------------------------------------------------
(***************************************************************************)
(* Packets.  The acknowledgements share one constructor, as they share     *)
(* branch__enc_ack and leaf__enc_ack.                                      *)
(***************************************************************************)
Connack(rc)         == [type |-> "CONNACK", rc |-> rc]
Publish(m, pid)     == [type |-> "PUBLISH", msg |-> m, pid |-> pid]
Ack(kind, pid)      == [type |-> kind, pid |-> pid]
Suback(pid, rcs)    == [type |-> "SUBACK", pid |-> pid, rcs |-> rcs]
Pingresp            == [type |-> "PINGRESP"]

\* A CONNECT packet: `valid' says that protocol name and level are MQTT 3.1.1,
\* `auth' that the credentials satisfy auth_cb, `whole' that nothing is
\* missing after the will, `ka' that the keep-alive interval is not 0.
Connect(id, clean, ka, will) ==
  [type |-> "CONNECT", id |-> id, clean |-> clean, ka |-> ka, will |-> will,
   valid |-> TRUE, auth |-> TRUE, whole |-> TRUE]

\* topics is a sequence of [filter |-> f, qos |-> q]; the filters of an
\* UNSUBSCRIBE are a set, because their order does not matter.
Subscribe(pid, topics)    == [type |-> "SUBSCRIBE", pid |-> pid, topics |-> topics]
Unsubscribe(pid, filters) == [type |-> "UNSUBSCRIBE", pid |-> pid, filters |-> filters]
Pingreq                  == [type |-> "PINGREQ"]
Disconnect               == [type |-> "DISCONNECT"]
\* A packet cut short before its first field that changes anything.
Malformed                == [type |-> "MALFORMED"]

---------------------------------------------------------------------------
(***************************************************************************)
(* What the broker sends and what it can be sent.                          *)
(***************************************************************************)
AckKinds == {"PUBACK", "PUBREC", "PUBREL", "PUBCOMP"}

Outbound ==
       [type : {"CONNACK"}, rc : {0, 1, 2, 4}]
  \cup [type : {"PUBLISH"}, msg : Message, pid : Pids]
  \cup [type : AckKinds \cup {"UNSUBACK"}, pid : Pids]
  \cup [type : {"SUBACK"}, pid : Pids, rcs : Seq(QoS \cup {128})]
  \cup [type : {"PINGRESP"}]

Inbound ==
       [type : {"CONNECT"}, id : ClientIds, clean : BOOLEAN, ka : BOOLEAN,
        will : Message \cup {None}, valid : BOOLEAN, auth : BOOLEAN, whole : BOOLEAN]
  \cup [type : {"PUBLISH"}, msg : Message, pid : Pids]
  \cup [type : AckKinds, pid : Pids]
  \cup [type : {"SUBSCRIBE"}, pid : Pids, topics : Seq([filter : Filters, qos : QoS])]
  \cup [type : {"UNSUBSCRIBE"}, pid : Pids, filters : SUBSET Filters]
  \cup [type : {"PINGREQ", "DISCONNECT", "MALFORMED"}]
===========================================================================
