---------------------------- MODULE LeafStatus ----------------------------
(***************************************************************************)
(* What a program sees of a client's connection, through                   *)
(* leaf_is_connected() and leaf_is_ready(): the promise that the client    *)
(* (module Leaf) implements.                                               *)
(*                                                                         *)
(* A connection is first established and then accepted by the broker, in   *)
(* two steps; it ends at any moment, and the two answers end together.     *)
(* A program that waits for leaf_is_ready() can rely on it: the client is  *)
(* never ready on a connection that it has not just seen established.      *)
(***************************************************************************)
VARIABLES connected, ready

Init == connected = FALSE /\ ready = FALSE

Establish == ~connected /\ connected' = TRUE /\ UNCHANGED ready

Accepted == connected /\ ready' = TRUE /\ UNCHANGED connected

End == connected' = FALSE /\ ready' = FALSE

Next == Establish \/ Accepted \/ End

Spec == Init /\ [][Next]_<<connected, ready>>
===========================================================================
