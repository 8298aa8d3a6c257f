----------------------------- MODULE LeafClock -----------------------------
(***************************************************************************)
(* The client `leaf' in time: when leaf_poll() attempts a connection,      *)
(* sends PINGREQ, takes the peer for dead, and sends a message again.      *)
(*                                                                         *)
(* Module Leaf leaves open when these things happen; this module leaves    *)
(* out what is in the packets, and keeps one entry of pending.  A call of  *)
(* leaf_poll() reads the clock, waits in select(), and goes on with the    *)
(* time that it read before the wait.  Times are counted in ticks.         *)
(***************************************************************************)
EXTENDS Integers

CONSTANTS
  Timeout,       \* the timeout the program gives to leaf_poll
  KeepAlive,     \* keepalive_sec
  RetryAfter,    \* 10 s
  MaxRetries,    \* 5
  BackoffStart,  \* LEAF_RECONNECT_MS
  BackoffEnough  \* 60 s: a backoff this long is not doubled any more

ASSUME ClockAssumption ==
  /\ Timeout \in Nat /\ KeepAlive \in Nat \ {0}
  /\ RetryAfter \in Nat \ {0} /\ MaxRetries \in Nat
  /\ BackoffStart \in Nat \ {0} /\ BackoffEnough \in Nat

VARIABLES
  pc,      \* "program", or in leaf_poll() "select" or "packets" after it
  state,   \* LEAF_S_*
  backoff, \* reconnect_backoff_ms
  since,   \* the time since last_send_ms, last_recv_ms, last_attempt (try), and the
           \* `now' of the current poll
  entry    \* an entry of pending: in use or not, its retries, the time since sent_at_ms

vars == <<pc, state, backoff, since, entry>>

\* Longer times are not told apart: no limit is higher than these.
LongTime == (3 * KeepAlive) \div 2 + 1 + Timeout
LongTry  == BackoffStart + 2 * BackoffEnough

Later(x, most) == IF x < most THEN x + 1 ELSE x

Free == [used |-> FALSE, retries |-> 0, age |-> 0]

Goes(next) == pc' = next

---------------------------------------------------------------------------
\* leaf__connect_tcp, with s the times if it fails: a socket sets last_send_ms and
\* last_recv_ms.
ConnectTcp(s) ==
  /\ state' \in {"DISCONNECTED", "TCP_CONNECTING", "TCP_CONNECTED"}
  /\ since' = IF state' = "DISCONNECTED" THEN s ELSE [s EXCEPT !.send = 0, !.recv = 0]
  /\ UNCHANGED entry

\* leaf__reset.  The backoff and the time of the last attempt outlive it.
Reset == state' = "DISCONNECTED" /\ entry' = Free

LeafConnect ==
  /\ pc = "program" /\ state = "DISCONNECTED"
  /\ ConnectTcp(since)
  /\ UNCHANGED <<pc, backoff>>

LeafDisconnect ==
  /\ pc = "program" /\ state # "DISCONNECTED"
  /\ Reset
  /\ UNCHANGED <<pc, backoff, since>>

\* leaf_destroy and leaf_create; last_attempt is static and keeps its value.
Recreate ==
  /\ pc = "program"
  /\ Reset /\ backoff' = BackoffStart
  /\ UNCHANGED <<pc, since>>

\* leaf_publish above QoS 0, between polls or in a callback.
LeafPublish ==
  /\ pc \in {"program", "packets"} /\ state = "READY" /\ ~entry.used
  /\ entry' = [Free EXCEPT !.used = TRUE]
  /\ UNCHANGED <<pc, state, backoff, since>>

---------------------------------------------------------------------------
\* Mutant: doubled without the limit the int overflows, and as an unsigned time it is
\* never reached.
NextBackoffWraps == IF backoff < BackoffEnough THEN 2 * backoff ELSE LongTry + 1

NextBackoff == IF backoff < BackoffEnough THEN 2 * backoff ELSE backoff

\* leaf_poll() attempts a connection.
Attempt == pc = "program" /\ state = "DISCONNECTED" /\ since.try >= backoff

\* The part of leaf_poll() up to select(), which it enters only with a socket.
PollStart ==
  /\ pc = "program"
  /\ LET s == [since EXCEPT !.now = 0]
     IN  IF Attempt
         THEN ConnectTcp([s EXCEPT !.try = 0]) /\ backoff' = NextBackoff
         ELSE since' = s /\ UNCHANGED <<state, entry, backoff>>
  /\ Goes(IF state' = "DISCONNECTED" THEN "program" ELSE "select")

\* Nothing is ready before the timeout, or a signal interrupts select(): the rest of
\* leaf_poll() is skipped.
PollReturns ==
  /\ pc = "select" /\ Goes("program")
  /\ UNCHANGED <<state, backoff, since, entry>>

\* select(), connect(), send() or recv() fails, or a packet is malformed.
PollFails ==
  /\ pc \in {"select", "packets"} /\ Goes("program")
  /\ Reset
  /\ UNCHANGED <<backoff, since>>

\* The socket is writable, which ends the wait for a connection or takes a packet.
\* A client whose connect() succeeded at once has nothing to write.
Writable ==
  /\ pc = "select" /\ Goes("packets")
  /\ \/ state = "TCP_CONNECTING" /\ state' = "CONNACK_WAIT"
     \/ state \in {"CONNACK_WAIT", "READY"} /\ UNCHANGED state
  /\ since' = [since EXCEPT !.send = 0]
  /\ UNCHANGED <<backoff, entry>>

\* The socket is readable: bytes, the end of the stream, an acknowledgement for the
\* entry, or the CONNACK that makes the client ready.
Receive ==
  /\ pc \in {"select", "packets"} /\ Goes("packets")
  /\ state \notin {"DISCONNECTED", "TCP_CONNECTING"}
  /\ since' = [since EXCEPT !.recv = 0]
  /\ \/ UNCHANGED <<state, backoff, entry>>
     \/ entry' = [entry EXCEPT !.used = FALSE] /\ UNCHANGED <<state, backoff>>
     \/ state' = "READY" /\ backoff' = BackoffStart /\ UNCHANGED entry

\* Mutant: the time of the last packet sent passes for that of the last received.
SilentByOwnSending == 2 * (since.send - since.now) > 3 * KeepAlive

\* The unsigned difference of `now' and a time later than it is huge.
Exceeds(elapsed, halves) == elapsed < 0 \/ 2 * elapsed > halves * KeepAlive

\* The states in which leaf_poll() keeps the connection alive and watches it.
Live == state \in {"CONNACK_WAIT", "READY"}

Idle   == Exceeds(since.send - since.now, 2)
Silent == Exceeds(since.recv - since.now, 3)

\* Mutant: a retry is not counted.
RetriedUncounted ==
  IF ~entry.used \/ entry.age < RetryAfter THEN entry
  ELSE IF entry.retries >= MaxRetries THEN [entry EXCEPT !.used = FALSE]
  ELSE [entry EXCEPT !.age = 0]

\* leaf__retry_pending, which reads the clock itself.
Retried ==
  IF ~entry.used \/ entry.age < RetryAfter THEN entry
  ELSE IF entry.retries >= MaxRetries THEN [entry EXCEPT !.used = FALSE]
  ELSE [entry EXCEPT !.age = 0, !.retries = @ + 1]

\* The part of leaf_poll() after the packets: keep-alive, then retries.
Upkeep ==
  /\ pc = "packets" /\ Goes("program")
  /\ since' = IF Live /\ Idle THEN [since EXCEPT !.send = since.now] ELSE since
  /\ IF Live /\ Silent THEN Reset
     ELSE /\ entry' = IF state = "READY" THEN Retried ELSE entry
          /\ UNCHANGED state
  /\ UNCHANGED backoff

\* The clock ticks in the program, and in select() until its timeout.
Tick ==
  /\ pc = "program" \/ (pc = "select" /\ since.now < Timeout)
  /\ since' = [send |-> Later(since.send, LongTime), recv |-> Later(since.recv, LongTime),
               try  |-> Later(since.try, LongTry),   now  |-> Later(since.now, Timeout)]
  /\ entry' = [entry EXCEPT !.age = Later(@, RetryAfter)]
  /\ UNCHANGED <<pc, state, backoff>>

Init ==
  /\ pc = "program" /\ state = "DISCONNECTED"
  /\ backoff = BackoffStart
  /\ since = [send |-> LongTime, recv |-> LongTime, try |-> LongTry, now |-> 0]
  /\ entry = Free

Next ==
  \/ LeafConnect \/ LeafDisconnect \/ Recreate \/ LeafPublish
  \/ PollStart \/ PollReturns \/ PollFails \/ Writable \/ Receive \/ Upkeep
  \/ Tick

Spec == Init /\ [][Next]_vars

\* The program polls again and again, a poll comes to its end, and time goes on
\* however many polls there are.
Fairness ==
  /\ WF_vars(PollStart) /\ WF_vars(PollReturns \/ PollFails \/ Writable \/ Receive)
  /\ WF_vars(Upkeep) /\ SF_vars(Tick)

FairSpec == Spec /\ Fairness

---------------------------------------------------------------------------
(***************************************************************************)
(* Properties.                                                             *)
(***************************************************************************)
\* The type invariant: the backoff is doubled past 60 s at most once, so that the int
\* that holds it never overflows and the wait between attempts stays finite.
TypeOK ==
  /\ pc \in {"program", "select", "packets"}
  /\ state \in {"DISCONNECTED", "TCP_CONNECTING", "TCP_CONNECTED", "CONNACK_WAIT", "READY"}
  /\ backoff \in BackoffStart .. LongTry
  /\ since \in [send : 0 .. LongTime, recv : 0 .. LongTime, try : 0 .. LongTry,
                now : 0 .. Timeout]
  /\ entry \in [used : BOOLEAN, retries : 0 .. MaxRetries, age : 0 .. RetryAfter]

\* README, auto-reconnect: a client that stays disconnected, for whatever reason and
\* after however many failures, goes on attempting to connect.
Reconnects == <>[](state = "DISCONNECTED") => []<><<Attempt /\ PollStart>>_vars

\* A message sent again and again is acknowledged or given up, if polls get past
\* select(); a broker that never answers does not occupy an entry for ever.
EntryEnds == []<><<Upkeep>>_vars => []<>~entry.used

\* A peer from which nothing comes any more is noticed and the connection ended, if
\* polls get past select() for other reasons: the program has something to send.  (The
\* end of the stream is read as if something had come: of a peer that has closed its side
\* this says nothing.)
SilenceNoticed ==
  []<><<Upkeep>>_vars /\ <>[][~Receive]_vars
    => []<>~Live

\* leaf_client.h, "Check server alive: if no recv for 1.5x keepalive, disconnect": a
\* client that takes the peer for silent after the packets of a poll has received
\* nothing for that long.
DropsOnlySilent ==
  pc = "packets" /\ Live /\ Silent => 2 * since.recv > 3 * KeepAlive
===========================================================================
