------------------------------ MODULE MCLeaf ------------------------------
(***************************************************************************)
(* Values for model checking the client.                                   *)
(***************************************************************************)
EXTENDS Leaf

Note(q) == [topic |-> "a", payload |-> "m", qos |-> q, retain |-> FALSE]

LeafConfig == Connect("x", TRUE, TRUE, None)

Wishes == {[filter |-> "a", qos |-> 0], [filter |-> "long", qos |-> 0]}
Notes  == {Note(0), Note(1)}

\* No action reads `sent', so states that differ in nothing else have the same
\* successors; the properties that mention it are about the step that sets it.
Unread == <<pc, session>>

\* Every kind of packet, expected or not, with identifiers that the client uses for
\* its own messages.
AnyPacket ==
  {Connack(0), Connack(1), [type |-> "MALFORMED"], Pingresp,
   Publish(Note(2), 1), Publish(Note(1), 2)}
  \cup {Ack(kind, 1) : kind \in {"PUBACK", "PUBREC", "PUBREL"}}
===========================================================================
