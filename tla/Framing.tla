------------------------------ MODULE Framing ------------------------------
(***************************************************************************)
(* How `branch' and `leaf' cut the byte stream of a TCP connection into    *)
(* packets: branch__client_recv and leaf__recv_and_dispatch, which are the *)
(* same loop over the same kind of buffer.  They differ in two points: the *)
(* broker gives up when less than 64 bytes of its buffer are free, and the *)
(* client keeps the contents of its buffer (not their number) over a       *)
(* reconnection.  Readers describes the programs by these two.             *)
(*                                                                         *)
(* TCP delivers the stream in chunks of any size.  One action is one       *)
(* recv(), one action is one turn of the loop after it; nothing else       *)
(* touches the buffer in between, as both programs have a single thread.   *)
(* The handler that is called with a packet is the subject of other        *)
(* modules; here it takes the packet and succeeds.                         *)
(***************************************************************************)
EXTENDS Integers, Sequences, FiniteSets

CONSTANTS
  BufSize,    \* BRANCH_BUF_SIZE, LEAF_BUF_SIZE
  Base,       \* 128: a length byte is a digit to this base or that plus Base
  MaxDigits,  \* 4, the length bytes a header may have
  Readers,    \* the programs: minRoom is 64 in branch and 0 in leaf, kept says
              \* whether the bytes in the buffer outlive the connection
  Packets,    \* the packets the peer sends, as sequences of bytes
  MaxUnread   \* bound: how many packets are sent ahead of the reader

Byte == 0 .. 2 * Base - 1

ASSUME SizeAssumption ==
  /\ BufSize \in Nat /\ Base \in Nat \ {0, 1} /\ MaxUnread \in Nat
  /\ MaxDigits \in Nat \ {0} /\ MaxDigits < BufSize
  /\ Readers \subseteq [minRoom : Nat, kept : BOOLEAN]

---------------------------------------------------------------------------
(***************************************************************************)
(* The remaining length, least significant digit first, stands in the      *)
(* bytes after the first one.  b is anything indexed by position.          *)
(***************************************************************************)
\* Which of the first n length bytes could be the last one.
Ends(b, n) == {i \in 1 .. n : i <= MaxDigits /\ b[i + 1] < Base}

\* How many length bytes there are.
LengthBytes(b, n) == CHOOSE i \in Ends(b, n) : \A j \in Ends(b, n) : i <= j

\* What the k digits of d are worth.
Value(d, k) ==
  LET worth[i \in 0 .. k] == IF i = 0 THEN 0 ELSE d[k - i + 1] + Base * worth[i - 1]
  IN  worth[k]

Remaining(b, n) ==
  LET k == LengthBytes(b, n) IN Value([i \in 1 .. k |-> b[i + 1] % Base], k)

\* The length of the whole packet.
Total(b, n) == 1 + LengthBytes(b, n) + Remaining(b, n)

\* The peer sends whole packets that the buffer can hold.
ASSUME PacketsAssumption ==
  \A p \in Packets : /\ p \in Seq(Byte) /\ Len(p) >= 2 /\ Len(p) <= BufSize
                     /\ Ends(p, Len(p) - 1) # {} /\ Total(p, Len(p) - 1) = Len(p)

---------------------------------------------------------------------------
VARIABLES
  reader,   \* the program that reads the connection
  open,     \* whether there is a connection
  pc,       \* "poll" before recv(), "loop" in the loop after it
  recv_buf, \* the whole buffer, bytes left over from earlier packets included
  recv_len, \* how many of its bytes count
  wire,     \* bytes sent by the peer and not yet received
  unread    \* packets sent by the peer and not yet handed to the handler

vars == <<reader, open, pc, recv_buf, recv_len, wire, unread>>

Zeroed == [i \in 1 .. BufSize |-> 0]

Init ==
  /\ reader \in Readers
  /\ open = FALSE /\ pc = "poll"
  /\ recv_buf = Zeroed /\ recv_len = 0
  /\ wire = <<>> /\ unread = <<>>

\* A new connection.
Connect ==
  /\ ~open
  /\ open' = TRUE /\ pc' = "poll" /\ recv_len' = 0
  /\ recv_buf' = IF reader.kept THEN recv_buf ELSE Zeroed
  /\ wire' = <<>> /\ unread' = <<>>
  /\ UNCHANGED reader

\* The connection ends, from either side: what was not read is lost.
Close ==
  /\ open' = FALSE /\ pc' = "poll" /\ recv_len' = 0
  /\ wire' = <<>> /\ unread' = <<>>
  /\ UNCHANGED <<reader, recv_buf>>

PeerSends(p) ==
  /\ open /\ Len(unread) < MaxUnread
  /\ wire' = wire \o p
  /\ unread' = Append(unread, p)
  /\ UNCHANGED <<reader, open, pc, recv_buf, recv_len>>

PeerGone == open /\ pc = "poll" /\ Close

\* Mutant: the bytes that wait in the buffer are forgotten.
RoomOfAll == BufSize

Room == BufSize - recv_len

\* recv() stores the n bytes that TCP has ready behind those that count.
Recv(n) ==
  /\ open /\ pc = "poll" /\ n <= Len(wire)
  /\ IF Room < reader.minRoom THEN Close
     ELSE /\ n <= Room
          /\ recv_buf' = [i \in 1 .. BufSize |->
                           IF i \in recv_len + 1 .. recv_len + n
                           THEN wire[i - recv_len] ELSE recv_buf[i]]
          /\ recv_len' = recv_len + n
          /\ wire' = SubSeq(wire, n + 1, Len(wire))
          /\ pc' = "loop"
          /\ UNCHANGED <<reader, open, unread>>

\* Mutant: the packet is left at the front of the buffer.
ShiftedNot(total) == recv_buf

\* memmove() of what follows a packet to the front; the rest stays as it is.
Shifted(total) ==
  [i \in 1 .. BufSize |-> IF i + total <= recv_len THEN recv_buf[i + total] ELSE recv_buf[i]]

\* Mutant: a packet that fills the buffer is taken for too long.
FramedBelow ==
  Ends(recv_buf, MaxDigits) # {} /\ Total(recv_buf, MaxDigits) < BufSize

\* The length as decoded from the MaxDigits bytes after the first, whether or not
\* that many were received.
Framed == Ends(recv_buf, MaxDigits) # {} /\ Total(recv_buf, MaxDigits) <= BufSize

\* Mutant: a packet that is just complete is taken for incomplete.
IncompleteOffByOne == recv_len <= Total(recv_buf, MaxDigits)

Incomplete == recv_len < Total(recv_buf, MaxDigits)

\* One turn of the loop: stop for want of a header, give up on the length, wait for
\* the rest of the packet, or hand the packet to the handler.
Loop ==
  /\ open /\ pc = "loop"
  /\ \/ /\ recv_len >= 2 /\ ~Framed
        /\ Close
     \/ /\ recv_len >= 2 => Framed /\ Incomplete
        /\ pc' = "poll"
        /\ UNCHANGED <<reader, open, recv_buf, recv_len, wire, unread>>
     \/ /\ recv_len >= 2 /\ Framed /\ ~Incomplete
        /\ LET total == Total(recv_buf, MaxDigits)
           IN  /\ recv_buf' = Shifted(total)
               /\ recv_len' = recv_len - total
        /\ unread' = SubSeq(unread, 2, Len(unread))
        /\ UNCHANGED <<reader, open, pc, wire>>

Next ==
  \/ Connect
  \/ \E p \in Packets : PeerSends(p)
  \/ PeerGone
  \/ \E n \in 1 .. BufSize : Recv(n)
  \/ Loop

Spec == Init /\ [][Next]_vars

\* The poll loop reads a socket that has bytes, and the loop after recv() runs on.
FairSpec ==
  Spec /\ WF_vars(\E n \in 1 .. BufSize : Recv(n)) /\ WF_vars(Loop)

---------------------------------------------------------------------------
(***************************************************************************)
(* Properties.                                                             *)
(***************************************************************************)
\* The type invariant: what recv() stores and what a packet leaves behind stays
\* within the buffer, which the room computed before each recv() ensures.
TypeOK ==
  /\ reader \in Readers
  /\ open \in BOOLEAN /\ pc \in {"poll", "loop"}
  /\ recv_buf \in [1 .. BufSize -> Byte] /\ recv_len \in 0 .. BufSize
  /\ wire \in Seq(Byte) /\ unread \in Seq(Packets)

\* Where the packets of u end when they follow one another: the k-th at Ending(u)[k],
\* which is where the next one starts.
Ending(u) ==
  LET at[k \in 0 .. Len(u)] == IF k = 0 THEN 0 ELSE at[k - 1] + Len(u[k]) IN at

\* The bytes received and not handled, followed by those not received, are the
\* unread packets, from the first byte of the first: however TCP cuts the stream
\* and whatever the buffer held before, no packet is cut, merged or skipped.
StreamIntact ==
  LET stream == SubSeq(recv_buf, 1, recv_len) \o wire
      at     == Ending(unread)
  IN  /\ Len(stream) = at[Len(unread)]
      /\ \A k \in 1 .. Len(unread) : SubSeq(stream, at[k - 1] + 1, at[k]) = unread[k]

\* As long as the connection lasts, the packets sent are handled one after the
\* other: a complete packet never waits for bytes that do not follow.
Handled ==
  <>[](open /\ unread # <<>>) => []<><<Len(unread') < Len(unread)>>_vars

\* The connection is given up in the loop only over a packet whose length is not
\* all there yet, which leaf_client.h and branch_broker.h mean to wait for: the
\* length is read from four bytes however few were received, and the ones left
\* over from earlier packets can make it endless or too long.  Everything sent
\* here is framed and fits, so there is no other reason.
GivesUpOnlyInHeader ==
  [][Loop /\ ~open' =>
       /\ unread # <<>>
       /\ recv_len < 1 + LengthBytes(Head(unread), Len(Head(unread)) - 1)]_vars
===========================================================================
