----------------------------- MODULE MCTables -----------------------------
(***************************************************************************)
(* The broker's QoS 2 flows and its sessions in one run: a behaviour has   *)
(* the traffic of one of the two, since neither reads the other's tables.  *)
(* Sockets take everything at once, and so ClientSend has nothing to do.   *)
(***************************************************************************)
EXTENDS MCBranch

VARIABLE traffic

Traffic == [flows |-> FlowInputs, sessions |-> SessionInputs]

AllInputs == FlowInputs \cup SessionInputs

TablesInit == Init /\ traffic \in DOMAIN Traffic

TablesNext ==
  /\ \/ Accept \/ Destroy \/ Create
     \/ \E c \in Slots : \/ \E p \in Traffic[traffic] : Recv(c, p)
                         \/ PeerGone(c) \/ KeepaliveTimeout(c)
     \/ traffic = "sessions" /\ \E m \in ApiMessages : ApiPublish(m)
  /\ UNCHANGED traffic

TablesSpec == TablesInit /\ [][TablesNext]_<<vars, traffic>>
===========================================================================
