----------------------------- MODULE MCBranch -----------------------------
(***************************************************************************)
(* Values for model checking the broker.  Each configuration gives the     *)
(* broker the packets that exercise one part of it.                        *)
(***************************************************************************)
EXTENDS Branch

TwoTopics   == {"a/b", "a/c"}
ThreeTopics == {"a/b", "a/c", "b"}
TwoFilters  == {"a/b", "a/+"}
TwoMatching == {<<"a/b", "a/b">>, <<"a/+", "a/b">>, <<"a/+", "a/c">>}

Msg(t, body, q, r) == [topic |-> t, payload |-> body, qos |-> q, retain |-> r]
Sub1(f, q)         == [filter |-> f, qos |-> q]

\* More subscriptions than a client's own list holds, a will to reach them, and
\* QoS 2 in both directions, with every acknowledgement at any time: clients
\* acknowledge late, twice, or what they were never sent.
FlowInputs ==
  {Connect("", TRUE, FALSE, Msg("a/b", "m", 2, FALSE)),
   Subscribe(1, <<Sub1("a/b", 2)>>),
   Publish(Msg("a/b", "m", 2, FALSE), 1)}
  \cup {Ack(kind, 1) : kind \in AckKinds}

\* Retained messages and wills on more topics than are retained, published by clients
\* and by the embedding program, and connections that identify themselves late, twice,
\* with a taken identifier or with none, and that are refused for every reason.
SessionInputs ==
  {Connect("x", TRUE, FALSE, Msg("a/b", "m", 1, TRUE)),
   Connect("x", FALSE, TRUE, Msg("a/c", "", 0, TRUE)),
   Connect("", TRUE, FALSE, None), Connect("", FALSE, FALSE, None),
   [Connect("y", TRUE, FALSE, Msg("a/c", "m", 0, TRUE)) EXCEPT !.whole = FALSE],
   [Connect("y", TRUE, FALSE, None) EXCEPT !.auth = FALSE],
   [Connect("x", TRUE, FALSE, None) EXCEPT !.valid = FALSE],
   Publish(Msg("a/b", "m", 0, TRUE), 0),
   Publish(Msg("a/b", "", 0, TRUE), 0),
   Pingreq, Malformed, Disconnect}
RetainMessages == {Msg("a/b", "n", 3, TRUE), Msg("a/c", "m", 0, TRUE), Msg("b", "m", 0, TRUE)}

\* Traffic for the send buffers: copies, acknowledgements and several packets
\* of one step to one client.
BufferInputs ==
  {Connect("x", TRUE, TRUE, None),
   Subscribe(1, <<Sub1("a/b", 1), Sub1("a/+", 0)>>),
   Publish(Msg("a/b", "m", 1, FALSE), 1)}
===========================================================================
