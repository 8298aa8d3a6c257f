--------------------------- MODULE MCLeafBranch ---------------------------
(***************************************************************************)
(* Values for model checking the client and the broker together.           *)
(***************************************************************************)
EXTENDS LeafBranch, MCBranch

LeafConfig == Connect("x", TRUE, TRUE, None)

\* The other clients, with one packet identifier: overlapping filters, more subscriptions
\* than a list holds, the client's own identifier, and a message above QoS 0.
OtherInputs ==
  {Connect("x", TRUE, TRUE, None),
   Subscribe(1, <<Sub1("a/+", 1), Sub1("a/b", 0)>>),
   Unsubscribe(1, {"a/+"}),
   Publish(Msg("a/b", "m", 1, FALSE), 1)}

Wishes == {Sub1("a/+", 0)}

\* No action reads `sent'.
Unread == <<vars, pc, l_state, buf, pending, received_ids, l_subs, l_next_pid, told, way, lost>>
===========================================================================
