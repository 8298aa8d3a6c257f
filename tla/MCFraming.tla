----------------------------- MODULE MCFraming -----------------------------
(***************************************************************************)
(* Values for model checking the receive loops.  To base 2 a length byte   *)
(* is 0 or 1, and 2 or 3 if another one follows; three length bytes at     *)
(* most make lengths up to 7, more than the buffers here can hold.         *)
(***************************************************************************)
EXTENDS Framing

\* Packets with nothing after the header, as long as the buffer, and with a body
\* whose bytes, once they are left over in the buffer, look like the end or the
\* middle of a length.
SomePackets == {<<1, 0>>, <<1, 1, 3>>, <<0, 3, 1, 0, 0, 3>>}
               \cup {<<1, 2, 1, x, 3>> : x \in {0, 3}}

\* branch, which gives up on a buffer that is nearly full, and leaf.
BranchAndLeaf == {[minRoom |-> 2, kept |-> FALSE], [minRoom |-> 0, kept |-> TRUE]}
===========================================================================
