------------------------------ MODULE PubSub ------------------------------
(***************************************************************************)
(* What the broker promises about subscriptions: a client's interest in a  *)
(* filter begins with its own SUBSCRIBE and lasts until its own            *)
(* UNSUBSCRIBE or the end of its connection.  Nothing that another client  *)
(* does changes it, and a client that arrives has none.                    *)
(***************************************************************************)
CONSTANTS Clients, Filters

VARIABLES
  online,   \* the clients connected
  interest  \* pairs <<client, filter>>

Init == online = {} /\ interest = {}

Arrive(c) == online' = online \cup {c} /\ UNCHANGED interest

Subscribe(c) ==
  /\ \E wanted \in SUBSET Filters : interest' = interest \cup ({c} \X wanted)
  /\ UNCHANGED online

Unsubscribe(c) ==
  /\ \E unwanted \in SUBSET Filters : interest' = interest \ ({c} \X unwanted)
  /\ UNCHANGED online

\* Several at once when the broker ends.
Leave(gone) ==
  /\ online' = online \ gone
  /\ interest' = {i \in interest : i[1] \notin gone}

Next ==
  \/ \E c \in Clients \ online : Arrive(c)
  \/ \E c \in online : Subscribe(c) \/ Unsubscribe(c)
  \/ \E gone \in SUBSET online : Leave(gone)

Spec == Init /\ [][Next]_<<online, interest>>
===========================================================================
