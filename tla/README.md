# ArborMQ: a verification development

ArborMQ is an MQTT 3.1.1 broker, `branch`, and an MQTT client, `leaf`, two
single-header C libraries with one thread and no heap each. This directory
holds TLA+ modules translated from their source, TLC configurations that check
them on small instances, and proofs for every value of the constants.
Paths below are relative to `src/`.

## The system

| Component | State | Operations | Interacts by |
|---|---|---|---|
| **broker core** (`branch/branch/branch_broker.h`, `branch_codec.h`) | 32 client slots (identity, will, QoS 2 flows, list of own subscriptions, receive and send buffer), 128 subscriptions, 64 retained messages, one packet identifier counter | accept, one handler per packet type, send, close, keep-alive check, `branch_publish`, create, destroy | sockets with its clients; handlers call `forward`, `close_client`, `queue_and_flush` on *other* clients' slots |
| **topic matching** (`branch_match.h`) | none | `branch__match_topic` | called by forward and subscribe |
| **receive loops** (`branch__client_recv`, `leaf__recv_and_dispatch`) | receive buffer and its length | recv, decode length, dispatch, shift | TCP stream in; calls the handlers, which may close the connection under the loop |
| **byte-level codec** | none | readers and encoders | handlers |
| **client** (`leaf/leaf/leaf_client.h`, `leaf_codec.h`) | connection state, one send buffer, `pending[]`, `received_ids[]`, local subscriptions, reconnection backoff | connect, disconnect, subscribe, unsubscribe, publish, poll, handlers of the packets received | socket to the broker; callbacks into the program |
| **programs, platform helpers, tests** | none | `main`, clock, socket options | |

What is hard here:

* **Interleaving.** Both programs have one thread, but packets of up to 32
  clients interleave in any order, and the handler of one client's packet
  writes into other clients' slots: it forwards to them, evicts them, publishes
  the will of one in the middle of another's CONNECT.
* **Failure.** Connections end at any time, between any two packets, from
  either side; wills fire then. QoS 2 packets are lost and retransmitted with the
  connection, and acknowledgements come late, twice or unprompted.
* **Limits.** Every table and buffer is a fixed array, and what happens when one
  is full is a case of the code: an untracked flow, a dropped packet, a
  subscription not recorded, a retained message not kept. The packet identifier
  wraps at 16 bits.
* **Re-entrance.** A handler can close the slot whose loop called it.
  A callback of the client may call its API in the middle of the receive loop.
* **Byte streams.** TCP cuts packets anywhere, and the buffer keeps bytes of
  earlier packets behind the ones that count.
* **Time.** The client compares a clock read before it waits with times set
  after, doubles its backoff, and looks at its timers only when a poll gets past
  `select()`.
* **Two tables for one thing.** Client and broker each keep the subscriptions,
  with packets in flight between them and connections that end on one side first.

What makes each part correct: the subscription table and the clients' own lists
agree, and a closed slot leaves nothing to its successor; a topic has one
retained message; a packet identifier names one flow; send buffers are neither
overrun nor stuck nor reordered; only the client it concerns is closed; framing
gives back exactly the packets that were sent; matching follows MQTT's rule on
levels, with one exception. Of the client: a connection starts with nothing of the one before; it is
ready only when a broker has accepted it; what waits for an acknowledgement
waits until it comes or is given up; a message is told once; the client goes on
attempting to connect. Of both together: CONNECT comes once and first, and
what the broker lists for a client is what the client keeps, but for an UNSUBSCRIBE
that its program lost by a call before the next poll. Where the code does less than
this, *Findings* says so.

## Modules

| Module | Models | Used by |
|---|---|---|
| `Mqtt` | topics, messages, packets as records, the packet identifier counter, "the first of a table" | `Branch`, `Leaf` |
| `MqttProofs` | lemmas about the operators of `Mqtt` | `BranchProofs`, `LeafProofs` |
| `CommonProofs` | lemmas about induction, remainders and stretches of sequences | `BranchProofs`, `FramingProofs`, `TopicMatchProofs` |
| `Branch` | the broker: tables, handlers, poll steps, properties | `MCBranch`, `BranchProofs`, `LeafBranch` |
| `BranchProofs` | theorems about `Branch`, and that it implements `PubSub` | `LeafBranchProofs` |
| `PubSub` | abstract: what the broker promises about subscriptions | implemented by `Branch` |
| `LeafStatus` | abstract: what a program sees of the client's connection | implemented by `Leaf` |
| `Leaf` | the client: calls, handlers, parts of a poll, properties | `MCLeaf`, `LeafProofs`, `LeafBranch` |
| `LeafClock` | the client in time: polls, backoff, keep-alive, retries | `MCLeafClock*.cfg`, `LeafClockProofs` |
| `LeafProofs`, `LeafClockProofs` | theorems about the two | `LeafBranchProofs` |
| `LeafBranch` | a client and a broker over TCP, among other clients | `MCLeafBranch`, `LeafBranchProofs` |
| `LeafBranchProofs` | theorems about the two together | |
| `Framing` | the receive loops of both programs | `MCFraming`, `FramingProofs` |
| `FramingProofs` | theorems about them | |
| `TopicMatch` | `branch__match_topic` and MQTT's rule on levels | `MCTopicMatch`, `TopicMatchProofs` |
| `TopicMatchProofs` | the theorem where they agree | |
| `MC...` | values for TLC; `MCTables` is `Branch` with the traffic of one behaviour taken from one of two sets | |

`Framing` and `TopicMatch` are the layers below `Branch`: `Framing` shows that
the stream is cut back into the packets that were sent, so `Branch` takes a
whole packet as its unit; `TopicMatch` models the function behind the relation
`Matching` that `Branch` is parameterised by.

`Leaf` and `LeafClock` cut the client in two: `Leaf` has the data and leaves open
when a timer has run out, `LeafClock` has the timers and one entry of `pending`.
They share the five states and the order in which a poll goes through them, and
each takes both from the code. What a program sees of the states, through
`leaf_is_connected` and `leaf_is_ready`, is `LeafStatus`, which `Leaf` implements.

### Branch

**State.** `state[c]`, `session[c]`, `q2[c]` and `out[c]` are the parts of
`branch_client_t`; `subs`, `retained` and `next_pid` those of `branch_s`.
`session[c].held` is `sub_indices[0 .. sub_count - 1]` as a set: the code only
ever searches all of it. A slot has a socket iff its state is not
`DISCONNECTED`. `CS_WILL_TRIGGERED` exists only inside `close_client` and is not
a state between steps. `phase` says whether a broker serves at all. Three fields
are auxiliary: `connected` remembers that a CONNECT was accepted
(`connected_at_ms` is set then), `out[c].round` counts how often a send
buffer ran empty, for `BufferDrains`, and `listed`, of a subscription, remembers
that its owner's list had room for it when it was granted. No action reads `listed`:
the code treats a subscription alike whether its owner lists it or not, which is
why the other kind outlives its owner (run *orphaned*).

**Actions.**

| Action | Code |
|---|---|
| `Accept` | the accept branch of `branch_poll`; a connection refused for want of a slot changes nothing |
| `Recv(c, p)` | one turn of the loop in `branch__client_recv`: `branch__dispatch` of packet `p` with everything it calls |
| `ClientSend(c)` | `branch__client_send` |
| `PeerGone(c)` | recv or send failed, the peer closed, or the bytes could not be framed |
| `KeepaliveTimeout(c)` | `branch__check_keepalive` |
| `ApiPublish(m)` | `branch_publish` called by the program |
| `Destroy`, `Create` | `branch_destroy`, `branch_create`; also the start of a new process after a crash |

A handler is an operator from tables to tables (`OnConnect` ... `OnDisconnect`),
named for the packet, built from `Forward`, `Retain`, `RetainedFor` and `Close`,
which are the functions of those names. Loops over a table appear as sets and
ranks: "the k-th copy takes the k-th free flow" is the loop of `branch__forward`.
What a handler queues is collected in `emit` and put into the send buffers by
`Become`, since no handler reads a send buffer; `QueueAll` is a closed form of
calling `branch__queue_and_flush` for each packet. `Queueing` is the calls
themselves, one after the other, and `QueueAllIsQueueAndFlush` says that the two
agree.

**Abstractions, and why they lose nothing the properties need.**

* One packet is one unit of buffer space. A socket takes a number of packets from
  `KernelRoom` during one step, chosen anew in each step; packets half sent are
  not told apart from unsent ones.
* `branch_poll` serves slots in order within one call. The model lets actions
  interleave freely, which allows every order that happens and more.
* Strings are members of sets and truncation of long ones is left out.
  Credentials, protocol name and level are the two flags `auth` and `valid` of a
  CONNECT; a CONNECT cut after its will has `whole = FALSE`; a packet cut before
  anything that changes state is `Malformed`. A second CONNECT cut between
  will topic and will message (new topic, old message) is left out.
* Time is left out: a client with a keep-alive may time out at any moment.
* The packet identifier of a free flow, which the code never reads, is 0; unused
  table entries are `None`.
* Unknown packet types are ignored by the code and absent here; so are a failing
  `bind` (after which `branch_poll` only returns an error), event logging and
  the two query functions.
* The DISCONNECT handler zeroes the slot under the receive loop, which then moves
  2^32 - n bytes. That is undefined behaviour; builds at `-O0`, `-Os` and `-O2`
  crash on it, and the model has that one outcome, `phase = "crashed"`.

### Framing

`recv_buf` is the whole array, stale bytes included, `wire` what TCP has not
delivered, `unread` (auxiliary) the packets sent and not handled. `Recv(n)` is
one `recv()` of n bytes, `Loop` one turn of the loop. The two programs differ in
two points, kept in the constant `Readers`: `branch` closes when fewer than 64
bytes are free, and zeroes a slot's buffer for a new connection; `leaf` does
neither. The base of a length digit and the number of digits are constants, 128
and 4 in the code. What length digits are worth (`Value`) and where the unread
packets end (`Ending`) are recursive functions. Handlers take every packet here and succeed; a handler
that closes the connection is `PeerGone`.

### TopicMatch

Every round of the loop moves the filter's pointer on by one. `Matching` is one
round: the places of the topic's pointer from which the function returns 1, given
those of the next round; `MatchTopic` goes through the filter with it. The
three tests after the loop are `RestMatches`. The variables `filter` and `topic`
only enumerate inputs, starting again at the longest.

The reference is MQTT's rule: `Levels` cuts a string into levels, `LevelMatches` lets
`+` stand for one level, whatever it is, `MatchesByLevels` lets `#` stand for
the levels from its own on. The code differs from it in one case, `PlusForEmptyEnd`:
`+` in the filter where the topic ends with an empty level, as `sport/+` and `sport/`.
`DecidesByLevels` says that this is the only one; run *plus* has an instance of it.

### Leaf

**State.** `state`, `pending`, `received_ids`, `subs`, `next_pid` are the fields
of `leaf_s`; `buf` is `send_buf` with `send_len` and `send_off`, as one packet and
how many of its `Parts` were sent. `pending[i].snap` is the encoded packet of
`payload`, which a free entry keeps. A socket exists iff `state` is not
`DISCONNECTED`. `pc` is where the thread is: between calls, in the loop over
received packets, in a callback, or dead. Two variables are auxiliary: `sent`, the
packets the socket took completely in the last step (a name for the output, read by
no action), and `told`, the identifiers that `on_message` was called for.

**Actions.**

| Action | Code |
|---|---|
| `LeafConnect`, `LeafSubscribe`, `LeafUnsubscribe`, `LeafPublish`, `LeafDisconnect` | the function of that name, between polls or in a callback |
| `Recreate` | `leaf_destroy` and `leaf_create`; also the next process after a crash |
| `PollConnects` | `leaf_poll` before `select()` |
| `Writable` | the writable branch: CONNECT on an established connection, or the rest of the send buffer |
| `Readable` | `recv()` with any outcome but an error |
| `Packet(p)` | `leaf__dispatch` of one packet, up to the callback it makes, which comes last in each handler |
| `CallbackReturns` | back in the loop of `leaf__recv_and_dispatch` |
| `PollEnds` | what follows the packets: PINGREQ, the check of the server, retries |
| `PollFails` | `select()`, `connect()`, `send()` or `recv()` fails, or the bytes cannot be framed |

**Abstractions.**

* Whatever a timer decides is a choice: any entries in use may be due in
  `PollEnds`, the peer may be found silent. `LeafClock` says when.
* Packets fit the send buffer (`leaf` does not check), and of a packet only the fields
  that a handler reads are kept. QoS 3, which neither side gives a meaning, is
  left out.
* Acknowledgements, PINGREQ and retries go past the send buffer; what the socket
  does not take of them at once is lost (`Direct`).
* A callback that calls `leaf_poll` or `leaf_destroy` is left out, and so is a
  callback that is not set: one that is set and returns at once is the same.
  `on_disconnect` is called last, so its calls are calls after the poll.
* `leaf_disconnect` in a callback zeroes `recv_len` under the loop, which goes on
  with an unsigned subtraction, as in the broker: `pc = "crashed"`.
* `LEAF_S_DISCONNECTING` exists only inside `leaf_disconnect`.

### LeafClock

The variable `since` holds the time since `last_send_ms`, `last_recv_ms`,
`last_attempt` and since the `now` of the current poll; `entry` is one entry of
`pending`, since entries do not depend on each other in time. A poll reads the clock in
`PollStart`, waits in `select()` while `Tick` happens, and goes on with `Writable`,
`Receive` and `Upkeep`, or returns (`PollReturns`) without any of them: an idle
poll skips keep-alive and retries. `Exceeds` is the unsigned comparison
`now - then > limit`, in which a `then` later than `now` exceeds every limit.
Time is counted in ticks, up to a cap above every limit it is compared with.

### LeafBranch and PubSub

`LeafBranch` takes the steps of `Branch` and of `Leaf` (`L`) as they are and
adds the wire. `mine` are the slots of the client's connections, of which only
`link` is the present one: a broker may still hold the socket of a connection
that the client has given up, with packets on the way to it. `up` and `down` are
those packets. `Carried` moves what a handler of the broker `emit`s, `GoesOn` what
the client has `sent`; each loses what was in flight with its connection. Slots not in
`mine` are other clients that send anything from `Inputs`.

* A connection is accepted when it is established. In between, in reality, it waits
  in the kernel's queue and neither side can tell.
* The program calls `leaf_subscribe` and the like at any time, also twice without a poll
  between: the second call replaces what the first left in the send buffer. `lost`
  (auxiliary) has the filters whose UNSUBSCRIBE went that way. The client's packets are
  of one part and the socket takes them whole (`Parts` 1, `Takes` {1}), so that a packet
  replaced when half sent, which breaks the stream, does not occur here: see run
  *leaf* and `SentToTheEnd`.
* The sizes of the client are constants of their own (`LeafPending`, `LeafSubs`,
  `LeafRetries`).
* The broker's sockets take everything (`RoomAssumption`), so `ClientSend` never
  happens: run *buffers* is about sockets that do not.
* At most `Way` packets are on the way in each direction. The broker waits for room;
  what the client cannot send it loses, as `Direct` does.

`PubSub` is the promise behind the subscription table: interest in a filter
begins with the client's own SUBSCRIBE and lasts until its own UNSUBSCRIBE or the
end of its connection. Under the mapping `Promise` of `Branch` the interest of a
client are its subscriptions that are `listed`; the broker implements `PubSub` with
that, however short the lists are. With the subscriptions granted over a full list it
does not: run *orphaned* shows one that nobody can end.

## Runs

| Run | Instance | Shows |
|---|---|---|
| `subs` | client and broker: 2 slots, 2 subscriptions, lists of 1, one packet each way; 812 221 states | `TypeOK`, `HeldOwned`, `ListedStayHeld`, `ReadyMeansAccepted`, `ConnectOnceAndFirst`, `NoUnaskedSubs`, `ImplementsPubSub` |
| `leaf` | client alone: 2 entries, 1 retry, packets of 2 parts, identifiers 1..2, a peer that sends anything; 1 839 894 states | `TypeOK`, `FreshUntilReady`, `Remembered`, `EntriesKept`, `SentToTheEnd`, `ImplementsStatus` |
| `leaf_clock` | keep-alive and retry after 2 ticks, 2 retries, backoff from 1 up to 3; 10 976 states | `TypeOK`, `Reconnects`, `EntryEnds`, `SilenceNoticed` |
| `tables` | 2 slots, 3 subscriptions, lists and flows of 2, one identifier of packets, 2 retained messages for 3 topics, clients x, y and without identifier; 80 844 states | `HeldOwned`, `ClosedSlotClean`, `InboundUnique`, `OutPidsValid`, `RetainedUnique`, `ClosesOnlySameId` |
| `buffers` | 2 slots, buffers of 2 packets, sockets that take 0 or 1 | `SendBufferSound`, `QueueAllIsQueueAndFlush`, `SendOrder`, `BufferDrains` |
| `framing` | buffer of 6 bytes, lengths to base 2 with up to 3 digits, 2 packets ahead, both programs | `TypeOK`, `StreamIntact`, `Handled`, `GivesUpOnlyInHeader` |
| `topic_match` | strings up to 5 characters over `/ a b` and the wildcards | `DecidesByLevels` |
| `disconnect`, `orphaned`, `duplicate`, `leaf_alive`, `plus` | | the findings below |

**Why the bounds are enough.** Two slots make every pair of roles: publisher and
subscriber, evicted and evicting, closing and inheriting. As in the shipped limits
(8 of 128) a client is granted more than its own list holds: the list overflows
with the second subscription in `subs` and with the third in `tables`, and what
overflowed passes to the next client of the slot. `tables` is two runs in one:
a behaviour has either the traffic of QoS 2 flows or that of sessions, wills and
retained messages, since neither reads the other's tables. The third topic comes to a
retained table of two that is full. The one identifier 1 makes the counter wrap
within one message's copies as soon as two copies are numbered. A buffer of two packets
overflows within one step and leaves a rest when the socket takes one. Six bytes
hold a packet, the header of the next and left-over bytes that can be taken for
length digits; the longest packet fills the buffer exactly and the longest
length exceeds it. Five characters hold every combination of an empty level, a
wildcard and an end. Only `buffers` varies what sockets take; in the other runs
they take everything at once, which the tables never depend on. The bounds are
constants: `MaxUnread`, `MaxLen`, `PidMax` and `Rounds`,
the last being how many fills of a buffer `BufferDrains` tells apart; two
suffice to see that the current one ended, and for `SendOrder`, where sockets
take at most one packet a step and so empty a buffer at most once.

In `leaf` two entries make "the first free one", "none" and "one in use beside
it"; identifiers 1..2 wrap and are used by both directions; two parts make a packet
half sent; one retry makes an entry given up. In `subs` two slots are what an
eviction needs, and the client's old and new connection can hold both, or another
client's; two subscriptions fill the table, so that a filter of either side is refused. `pending` has no entries
there, since neither calls nor the broker depend on them. In `leaf_clock` the
limits differ from each other by a tick at least, a poll can wait for one, and the
backoff passes its limit from below (2 to 4). `leaf` and `subs` are explored under
a VIEW that leaves out `sent`, which no action reads; the properties that mention
it are about the step that sets it.

**Fairness.** `buffers`, `framing` and `leaf_clock` use it. `branch/main.c` calls
`branch_poll` in a loop; each call offers every socket with unsent bytes to
`select()` and sends to every one reported, so `ClientSend(c)`, if it stays
enabled, happens. `ClientSend` with room 0 changes nothing and
is no step, so its weak fairness says that a socket reported as writable takes
something; what handlers send themselves may still find no room every time. Nothing is assumed of clients, and an open
connection may close at any time. In `framing` a socket with bytes is read
and the loop after a `recv()` goes on. The liveness that needs time
(the broker's keep-alive) is not stated.
In `leaf_clock` the program polls again and again, as `leaf/main.c` does, a poll
that has begun comes to its end, and time goes on: strong fairness of `Tick`,
since the clock may tick only between the steps of a poll. Nothing is assumed of the
socket or the peer. Since idle polls skip the timers, `EntryEnds` and
`SilenceNoticed` are promised under the premise that polls get past `select()`
infinitely often, which traffic brings about and the code alone does not.
`SilenceNoticed` is about a peer from which nothing is read any more, not even the end
of the stream: `recv() = 0` sets `last_recv_ms` too (`leaf_client.h:93-94`), and a peer
that has closed its side is `Receive` again and again.

### Findings

* `disconnect`: a DISCONNECT packet makes the receive loop subtract from a length
  that its handler zeroed, and the process dies.
* `orphaned`: a client's list holds `BRANCH_MAX_PENDING` subscriptions, SUBSCRIBE
  grants more. The rest outlives the client, cannot be unsubscribed, and delivers
  to whoever gets the slot next. That these are the only ones is `ListedStayHeld`.
* `duplicate`: a retransmitted QoS 2 PUBLISH is recognised, acknowledged, and
  forwarded again.
* `leaf_alive`: the client reads the clock, waits, receives, and finds the time of
  receipt later than its clock; the unsigned difference is huge and it disconnects
  from a peer that has just answered. It takes a packet that arrives a millisecond
  or more after the poll began, in READY or, as in every connection to a broker that
  does not answer at once, in CONNACK_WAIT. A build of `leaf` against a peer
  that answers late does the same.
* `plus`: a filter that ends with the level `+` does not match a topic that ends with
  an empty level. The READMEs claim full MQTT 3.1.1, where `sport/+` matches `sport/`
  (4.7.1.3). The loop stops at the end of the topic with `+` left over; the comment at
  `branch_match.h:13` says that this is meant.

Seen in the model as well, with no run of their own. In the broker: a refused client is not
closed (`branch_codec.h:228` says it will be); a clean CONNECT looks for the
older session from slot 0 and stops at its own slot if that is lower, so that two
slots may hold one identifier; all clients that have sent no identifier share the
empty one, and a clean CONNECT with it closes one of them; `clean_session` has no
effect on what a closed client leaves (the READMEs list session persistence);
a packet that fits the buffer is given up when fewer than 64 bytes remain, or
when left-over bytes complete its unreceived length to one that is too long
(`GivesUpOnlyInHeader` says that this is the only case).

In the client: a call replaces a packet that is still in the send buffer, so that of two
calls without a poll between them, as a Quick Start that subscribes and publishes
makes, the first is lost, and if that was an UNSUBSCRIBE, the broker goes on serving
what the client has forgotten (the exception `lost` of `NoUnaskedSubs`); acknowledgements, PINGREQ and retries are sent into the
middle of a packet half sent; an entry
taken by SUBSCRIBE, UNSUBSCRIBE or an incoming message keeps the snapshot of the
message it had before, and a retry sends that; identifiers of the two directions
collide, so that a PUBREL for an incoming message can free an outgoing one; a
connection established at once stays in TCP_CONNECTED and never sends CONNECT;
a refused CONNACK leaves the client in CONNACK_WAIT; a closed peer (`recv() = 0`) counts as
one that has just sent something, so that the check for silence never finds it, and
it is noticed when PINGREQ or other sending to it makes a later `recv()` or `send()`
fail; a client that called `leaf_disconnect` reconnects at its
next poll; the same filter subscribed twice is one entry at the broker and two
at the client, of which UNSUBSCRIBE removes one.

One of these contradicts a comment: `leaf_codec.h:283` says that PUBREL releases the
entry of `received_ids`, and nothing there does. `OnPubrel` has it as in the code. A broker
that has finished a message may give its identifier to another, which the client then
takes for the old one: it acknowledges it and does not tell its program. After eight
identifiers nothing is remembered at all, and a retransmission is told again. `Remembered`
is about the time from a message to its PUBREL, for which code and comment agree.

## Proofs

`BranchProofs` proves, from the assumptions on the constants named in `Mqtt` and
`Branch` (sizes are naturals, inputs are well-typed, `None` is no entry) and
nothing else, for any number of slots, subscriptions, flows, retained messages,
any buffer size, any inputs and any behaviour of the sockets:

| Theorem | States |
|---|---|
| `Invariant` | `Spec => []IInv` |
| `TypeCorrect`, `HeldAreOwned`, `ClosedSlotsAreClean`, `RetainedAreUnique`, `InboundAreUnique`, `OutPidsAreValid`, `SendBuffersAreSound` | the invariant of that name in `Branch`, as `Spec => []Inv` |
| `ListedAreHeld` | `ListedStayHeld`, with any limits |
| `ClosesSameIdOnly` | the action property `ClosesOnlySameId` |
| `BranchImplementsPubSub` | `Branch` implements `PubSub`, with any limits |
| `QueueAllStepByStep`, `QueueAllAsInTheCode` | queueing packets at once is calling `branch__queue_and_flush` for each: for every sound buffer, and as the invariant `QueueAllIsQueueAndFlush` |
| `SentInOrder` | the action property `SendOrder`, if `KernelRoom` is within `0 .. Rounds - 1` |

`IInv` is the conjunction of these invariants. Most conjuncts are not inductive alone: `HeldOwned` after a close
needs that no two lists share an entry, which follows from ownership itself,
and needs `TypeOK`; `ClosedSlotClean` after a forward needs that receivers are
open; `OutPidsValid` needs the type of `next_pid`; `InboundUnique` after a
forward needs that outgoing flows take free slots only.

The argument follows the code. A handler maps tables to tables, so the
invariant is first stated of tables (without the send buffers), and one lemma
per function (`Forward`, `Retain`, `Close`, each `On...`) shows it is preserved;
`HandleGood` joins them. `BecomeInv` then carries it from the tables to the next
state, and the send buffers are handled apart, from `QueueAllSound`. `NextInv`
has a step per action. Lemmas on `Lowest`, `Rank` and `PidAfter` say what the
searches and the counter return. The refinement of `PubSub` goes the same way: a
relation `Kept` between the tables before and after a handler, one lemma per
handler, `BecomeShows` for the step; by `HeldOwned` and `ListedStayHeld` a list names
exactly the listed subscriptions of its client, which is why a close ends all of its
interest and an UNSUBSCRIBE all that it names.

`QueueAllStepByStep` compares a closed form with a recursive function, by
induction on the number of packets. What a socket still takes and what is left of the
buffer's room depend on each other in the code (a buffer that is emptied is started
anew); `Queued` states both after any number of packets, `QueuedThrough` and
`QueuedBehind` are the two cases, of a socket that takes everything and of one that leaves
something. `SendOrder` recognises a buffer that ran empty by its `round`, which counts
modulo `Rounds`: a socket that takes `Rounds` packets in one step might bring it
back to where it was. Under the hypothesis it cannot, and run *buffers* meets it. `Rounds`
is a bound of the model, not of the code, and any larger one will do.

`LeafProofs` and `LeafClockProofs` do the same for the client, for any number of
entries, parts, retries and packets, any behaviour of socket, peer and program, and
any times:

| Theorem | States |
|---|---|
| `LeafInvariant` | `Spec => []IInv` of `Leaf` |
| `LeafTypeCorrect`, `ConnectionsStartFresh`, `ToldAreRemembered` | `TypeOK`, `FreshUntilReady`, `Remembered` |
| `EntriesAreKept`, `PacketsAreSentToTheEnd` | the action properties `EntriesKept`, `SentToTheEnd` |
| `LeafImplementsStatus` | `Leaf` implements `LeafStatus` |
| `ClockTypeCorrect` | `TypeOK` of `LeafClock` |

`IInv` of `Leaf` joins the type invariant, `FreshUntilReady` and `Remembered`.
`FreshUntilReady` is what makes the refinement go through: a client that is in the
loop over packets has a connection, so that CONNACK, which is accepted in any state,
cannot make a disconnected client ready. `Remembered` is inductive because an
identifier is recorded in the step that tells of it, in a free entry, and only
if it is not there; PUBREL ends what is claimed of it, not the entry. The action
properties follow step by step, from `InOrderElement` and `LowestElement`: what `leaf__pending_slot` finds is free.
`LeafClock` needs for its type that one doubling beyond 60 s stays below the cap.

`LeafBranchProofs` is about client and broker together, for any number of other
clients and of packets on the way, any sizes and any inputs:

| Theorem | States |
|---|---|
| `LinkInvariant` | `ComposedSpec => []LinkInv` |
| `ReadyIsAccepted` | `ReadyMeansAccepted` |
| `BothKeepTheirTypes` | the type invariants of both modules, and `HeldOwned` |
| `ComposedImplementsPubSub` | the broker implements `PubSub` here too, with any limits |
| `NoUnaskedSubscriptions` | `NoUnaskedSubs`, with any limits |
| `ConnectComesOnceAndFirst` | `ConnectOnceAndFirst`, with any limits, if the client's CONNECT is acceptable |

`LinkInv` joins the inductive invariants of `Branch` and `Leaf`, carried over by
one lemma for the steps of each (`BrokerMakes`, `ClientMakes`), with `WayOK`, which
ties the slots, the link and what is on the way to each other, and `AcceptedOK`: a
CONNACK that accepts is on its way only from a slot that has accepted. The latter
needs that nothing a handler does for another client sends a CONNACK, which
is `Moved`, with one lemma per handler. `NoUnaskedSubs` is not inductive, since a SUBSCRIBE
on its way, or still in the client's send buffer, is a subscription to come: `SubsOK`
says of these too that the client remembers the filter, or has an UNSUBSCRIBE behind
them, or has lost one. `ConnectOnceAndFirst` needs `IntroducedOK`: while the client
waits for CONNACK its CONNECT is either on the way or was accepted.

None of the three assumes anything of the limits. What the shipped ones allow is in the
properties instead. A subscription granted over a full list can outlive its owner (run
*orphaned*) and deliver to the slot's next client, which never asked; so `NoUnaskedSubs`
and `PubSub` are about listed subscriptions, and `ConnectOnceAndFirst` allows the answer
to such a message before CONNECT. The one hypothesis left is needed: a client whose
CONNECT is refused stays in CONNACK_WAIT with its connection open and, with time, goes on
sending PINGREQ behind a CONNECT that was never accepted.

`FramingProofs`, for any buffer size, base, number of length digits and set of packets
that the assumptions of `Framing` allow:

| Theorem | States |
|---|---|
| `FramingInvariant`, `FramingTypeCorrect` | the inductive invariant; `TypeOK` |
| `StreamStaysIntact` | `StreamIntact` |
| `GivesUpInHeaderOnly` | the action property `GivesUpOnlyInHeader` |

The invariant is `TypeOK` with `Aligned`, which is `StreamIntact` byte by byte. Of
all unread packets, not of the first alone: the shift makes the second one the first.
The step that decodes a length needs that the digits are those of the packet, and
they are once its header has arrived. Before that, stale bytes behind the received ones
may complete it, which is why the loop may give up in the header and nowhere else.

`TopicMatchProofs`, for any characters and strings of any length:

| Theorem | States |
|---|---|
| `TopicsMatchByLevels` | `DecidesByLevels` |

Every string is cut into its levels (`LevelsCut`, by induction on its length),
and the loop is followed from the end of the filter backwards: `Agrees` says
that with the filter's pointer at `f`, and the topic's anywhere in the level of the same
number, the function returns 1 iff the rest of this level and all later levels
match and no `+` stands for an empty level at the end of the topic. `OneBack` is the
step, with a case for the end of both levels (`AtLevelEnd`, where `#` may stand for nothing), for a level of the topic that is longer (`LevelTooShort`),
and for a place within a level (`WithinLevel`, with `+` and plain characters).
It uses that the filter is valid: a wildcard elsewhere in a level would be matched by
the code and not by the rule.

**Induction.** The prover has no induction of its own, and its library states
induction for an operator as parameter, which cannot be instantiated here. `CommonProofs`
states it for sets: a set of numbers that is not empty has a least member
(`Least`, from the library's well-foundedness of `<`), so one with 0 and every successor
holds all up to n (`Climb`), and a function given step by step exists (`StepsTaken`).
With these, recursive functions over `0 .. n` can be reasoned about; the
models use such functions and no `RECURSIVE` operator.

**Only model-checked:** the liveness properties `BufferDrains`, `Handled`,
`Reconnects`, `EntryEnds` and `SilenceNoticed`: fairness and `ENABLED` are beyond the
prover. Every other property of a run that passes is a theorem, `ConnectOnceAndFirst`
for a client whose CONNECT is acceptable and `SendOrder` under its hypothesis on
`Rounds`. The five properties that runs refute are no theorems.

## Not modelled

The bytes of packets other than the length prefix, and packets that do not fit
`leaf`'s buffer; what `leaf` puts on the wire when it sends past a half sent packet
(that it does is in the model, what the broker then reads is not);
`branch_get_clients`, `branch_client_count`, event callbacks; `last_poll_ms` and
`clean_disconnect`, which nothing reads; more than one client of `leaf`'s code at a
broker (one process has one); socket set-up, the clock, argument parsing.

## What could come next

1. `LeafBranch` with QoS above 0: messages end to end. The client reuses identifiers
   from 1 on every connection and neither side keeps sessions, so the promise would
   be per connection.
2. What `leaf` puts on the wire past a half sent packet, as input to `Framing`.
3. The safety part of the liveness properties as theorems: what each needs to hold
   in every state so that the fair step is there to be taken.
