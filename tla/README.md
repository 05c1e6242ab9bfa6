# Verification of frost-federation

TLA+ modules for the networking core of frost-federation: the actors that carry
messages between nodes, the echo broadcast built on them, the way nodes join a
federation, and what is left of a connection after its stream has broken. TLC
checks the modules on small instances; TLAPS proves all safety properties of the
echo broadcast actor, of a link, of the federation and of the life of connections for
all instances, circular waits under a condition on the number of calls. `PROJECT.json` maps every definition to the lines it models and lists
runs, hazards, findings and theorems.

## 1. The system

A node is a handful of tokio tasks that talk over bounded channels.

| Component | State | Operations | Talks to |
|---|---|---|---|
| Node (`node.rs`) | seeds, bind address, delivery timeout, handles | `start`: `connect_to_seeds`, then `listen`, then `start_accept`, one connection at a time | all others |
| Event loop of a connection (`node.rs`) | its client channel | `respond_to_unicast_message` (with a timeout), `respond_to_broadcast_message` (without one) | protocol services, reliable sender, echo broadcast |
| Membership actor (`membership.rs`) | address -> reliable sender handle | add, remove, get | accept loop, event loops, services |
| Echo broadcast actor (`echo_broadcast/mod.rs`) | message id -> members; message id -> member -> echoed; message id -> waiting caller | `send` (to every member, then wait for their echos), `receive` (an echo) | reliable senders of the members |
| Reliable sender actor (`reliable_sender/mod.rs`) | sequence number, callers waiting for an ack | `send`, handle a received Send or Ack | connection actor, event loop |
| Connection actor (`connection.rs`) | the two halves of a TCP stream, the noise transport | write a frame, read a frame and pass it on | reliable sender, the network |
| Protocol services (`protocol.rs`, `protocol/*.rs`) | none | the reply to a message: handshake, ping, heartbeat, membership, round one package | membership actor, message id generator |
| Noise handler (`noise_handler.rs`) | handshake or transport state, which numbers its messages | three-message handshake, start of the transport, encrypt, decrypt; every error is a panic | connection actor, and before it the main task |
| Configuration and main (`config/mod.rs`, `main.rs`) | none after start | read and parse a file, fill in defaults | node |

What is hard here:

- *Shared message ids.* The accept loop and every event loop broadcast through one
  actor, and a package that is sent on keeps its id. Calls of `send` replace each
  other as the waiter, and share one echo map.
- *Actors that wait for each other.* A reliable sender waits for its connection
  actor to write; the connection actor waits for room in the reliable sender's
  channel; two connection actors wait for each other's streams.
- *Acks before delivery, timeouts before acks, streams that break in between.*
- *Waiting without a timeout.* `EchoBroadcastHandle::send` is called without one in
  two places, and nothing in the program calls `EchoBroadcastHandle::receive`, so
  that no echo is ever recorded.
- *Start order.* The event loop of a connection is spawned before its peer is a
  member.
- *One accept loop.* It runs each connection's noise handshake, greeting, broadcast
  and membership message to the end before it accepts another; a peer that stalls,
  leaves or dies at the wrong moment holds up the ones behind it.
- *Cleanup by ownership.* A task ends when the last sender of its channel is
  dropped, and the event loop and the reliable sender of a connection own each
  other's.
- *Ciphers with counters.* A frame written, lost or read out of turn is a panic.

What makes each component correct: an Ok of the broadcast means that every member
has the message and has echoed it; no caller is forgotten; a
link delivers once, in order, and confirms only what it delivered; the actors of
a link never wait in a circle; every joiner is greeted and then sent the
membership; rebroadcasts and replies come to an end; both ends of a stream stay in
step through the handshake and after; a node goes on serving when a peer is gone, or
for a reason that can be named does not.

## 2. The modules

| Module | Models | State and actions |
|---|---|---|
| `EchoBroadcast` | the echo broadcast actor and its handle | the three maps keep their names; `Requests` are the calls of `send`, `commands` the channel. `Send`, `SendClosed`, `Receive` are the handle; `TakeSend`, `SendToMember`, `SendToMemberFails`, `FinishSend`, `FinishSendPanics` are `send_message`, cut at its awaits; `HandleReceivedEcho` is the other command |
| `EchoBroadcastProofs` | - | its inductive invariant and theorems |
| `ReliableSender` | both ends of one link: reliable sender and connection actor | `receiver`, `waiting_for_ack`, `connection_receiver`, `client_rx` as in the code; `sent` is the sequence number with its history; `rs` and `ca` say at which await each actor is |
| `ReliableSenderProofs`, `ReliableSenderDeadlockProofs` | - | its inductive invariants and theorems: delivery and refinement; circular waits |
| `ReliableChannel` | abstract specification of a link | `Submit`, `Receive`, `Confirm` |
| `Protocol` | the reply of every protocol service | operators only |
| `Conversation` | two nodes that answer each other's unicast messages | `Open`, `Handle` |
| `ConversationProofs` | - | that every message handled leaves less to handle |
| `Node` | several nodes: main tasks, event loops, membership, echo broadcast actors, over links as `ReliableChannel` promises them | `main`, `loop`, `echo` say at which await each task is; `outbox`, `acks`, `inbox` are the links |
| `NodeProofs`, `NodeStormProofs` | - | its inductive invariants and theorems: broadcasts, greetings and panics; copies of a package |
| `Config` | what a node makes of its configuration file | operators only |
| `Noise` | the state of a noise handler and what each operation needs and does | operators only |
| `Lifecycle` | one node that others join, from its start to whatever ends it, over streams that break | `main`, `echo`, `loop[p]`, `conn[p]` say where each task is; `noise`, `peerNoise` the two ends of a cipher; `stream`, `toPeer`, `toNode` the TCP stream; `peer[p]` the joiner |
| `LifecycleProofs`, `LifecycleNoiseProofs` | - | its inductive invariants and theorems: tasks and members; noise |
| `MC...` | constants of the runs | |

`Node` composes the others: it uses `Protocol` for what is sent, stands on the
promises of `ReliableSender` for the links, and has the echo broadcast actor of
`EchoBroadcast` at every node, reduced to what can happen when no echo is ever
recorded: of the echo map only the presence of an entry matters.

`Lifecycle` asks what `Node` cannot: there the links last. It composes `Config` (with
what the node starts), `Noise` (what it and its peers make of each frame) and the
membership actor, with removal, and has the tasks of one accepting node: the main
task, the echo broadcast actor, and per connection the event loop and a task that
stands for the connection actor and the reliable sender together. Those two are
apart in `ReliableSender`; here they read, decrypt, acknowledge and pass on a frame
in one step. Of a peer there is what the node can see of it: its half of the
handshake, acks, the answer to a helo, the package it sends back. A peer connects
once, the backlog is served in any order, and a silent peer is one that says
nothing from the start. A stream breaks at any moment and leaves each end a prefix of what was in
flight; the death of a process is the break of its streams.

Every step is cut at the awaits of the code: what a task does between two awaits
is one action. The sends of one broadcast go out in any order, as the code
iterates over a `HashMap`.

Data left out: payloads, versions, times, serialisation and encryption. A message
is the call that sends it (`ReliableSender`), its id and sender (`EchoBroadcast`),
or its kind and the field the services look at (`Protocol`). A `oneshot` sender
that is dropped is the reply `"dropped"` (in the code an Err of its own). A node's
address at its peers is the node itself: in the code an accepting node knows its
joiner by an ephemeral port and the joiner's sender id is its bind address;
`EchoBroadcast` does not assume that the two spaces agree or differ.

A definition called `Mutant...` is a wrong form of the definition after it, used
to show that a property can fail. It is no part of any specification.

## 3. Runs

| Run | Instance | Result |
|---|---|---|
| `echo_shared_id` | 3 calls, 1 message id, 2 ids, channel of 1, any members and sender | type invariant, `OkMeansAllEchoed`, `NoLostCaller`, `DroppedOnlyIfReplaced`, `WaiterTracked`, `EchosMonotone` hold, and so does `EveryCallTaken` if the actor does not wait for a member's ack for ever |
| `echo_lost_wakeup` | 1 call | `WaiterMissesAnEcho` fails: a caller is registered when all echos are in, and is not told |
| `echo_foreign_member` | 2 calls, 1 message id | `WaitsOnlyForItsMembers` fails: a call that replaced another waits for the echo of a node that only the replaced call had named; no send has failed |
| `link_safety` | 2 calls at one end, 1 at the other, two of them timed, the stream may break | type invariant, `OkMeansDelivered`, `ReceivedInOrder`, `PendingIsTracked`, `NoCircularWait` hold, and the link implements `ReliableChannel`; `CallsAnswered` and `SentReachesClient` hold while the stream is up and the event loops' channels do not stay full |
| `link_failure` | 1 call at each end, no timeouts | `AckOrFailure` fails: after a break the caller waits for ever |
| `node_star` | 2 nodes join a seed, all timeouts free to fire | type invariant, `SeedNeverPanics`, `HeloBeforeMembership`, `NoEchoStorm`, `EveryJoinerWelcomed` hold |
| `node_chain` | `j` joins `s`, `k` joins `j`, timeouts at `j` | `BroadcastReachedMembers` holds |
| `node_panic` | one node joins a seed | `EchoActorsLive` fails: the joiner sends its seed's package on to nobody and the unwrap panics |
| `node_stuck_loop` | one node joins a seed | `EventLoopReturns` fails: the event loop waits for echos nobody records |
| `conversation` | both nodes open all four kinds | `FallsSilent` holds |
| `lifecycle` | 7 configuration files, 2 peers and a silent one, streams that break, an accept that may fail | type invariant, `NoiseInStep`, `EndsOnlyBeforeJoin`, `NoSpin`, `BacklogServed` hold |
| `lifecycle_dead_peer` | one peer joins, its stream breaks | `DeadPeerForgotten` fails: the cleanup of the connection is never reached |

The six runs that fail are findings: in each the property states what a comment or
an assertion of the source says, and `PROJECT.json` quotes the line.

What `EveryJoinerWelcomed` shows deserves a word. The accept loop waits for its
broadcast without a timeout and no echo is ever recorded, so nothing ought to
release it. It is released by accident: the joiner sends the package back, the
seed's event loop broadcasts it again under the same id, and that call replaces the
accept loop's, which gets an Err and goes on. The event loop is then the one that
waits for ever. That is also why there is no storm of copies: `NoEchoStorm` says that
a seed sends a package to a node at most twice and that a joiner passes on one package
at most, since after that its only event loop waits. In a chain of nodes event loops
release each other the same way, and there are more copies, so `NoEchoStorm` is about
a node that joins nobody and joiners that join only it and that nobody joins (`Hub`).

What the life-cycle runs show together: when a member's stream breaks, the connection
actor returns and nothing else does. The event loop waits for a channel whose other
end the reliable sender actor owns; that actor has no exit, and would spin if it lost
all its handles, which it never does, because the event loop holds one (`NoSpin`).
So no event loop ends (`LoopsRunForever` below), no member is removed, the next broadcast
waits for the dead member's ack without a timeout, and the accept loop behind it is
held. `BacklogServed` gives the complete list of what can hold it: the process has
ended, a silent peer is in its handshake, a member's stream has broken, or the package
is with a peer whose echo broadcast actor has panicked. The list is complete for peers
that either are silent from the start or go on until their stream breaks. A member
that stalls later and keeps its stream open holds the next broadcast as a dead one
does; the fairness below leaves it out.

`EndsOnlyBeforeJoin` gives the two things that end a process that is up: an `accept`
that fails (no descriptors left, say; peers are neither bounded nor removed), and a
stream that has ended, while it was queued or during the handshake, before the peer's
last noise message was read. Both `unwrap`s are in the main task. Whatever a peer does
once it is a member, the process stays up.

### Bounds

- *Echo broadcast.* Two calls are enough for a replacement, three for a call that
  replaces one that replaced another, or that fails between them; two ids give
  member sets that overlap, differ and are empty, and a sender inside or outside of
  them. A message id has no influence on another but through the channel and the
  actor's attention; the channel has one place, so that callers wait for room. The
  theorems below remove these bounds for all properties but `EveryCallTaken`.
- *Link.* Two calls in one direction show order, numbering and a wait behind another
  call, the third one traffic in the other direction, which is what circular waits
  need. The capacities (32 in the code) are 1 or 2 so that every channel fills.
  `NoCircularWait` depends on them: `ReliableSenderDeadlockProofs` shows that 3 calls
  cannot block a link with `ConnCap` and `WireCap` 2, and with one place less the run
  fails (that is its mutant). The code's 32 is ample for what `Node` sends, one message
  per task at a time, and not a guarantee for any number of callers.
- *Node.* Two joiners are the least for which the accept loop has to come back. In
  the star the timeout may fire at every node; in the chain at the node in the
  middle only, to keep the run short. Channels of links are unbounded in `Node`: no
  run puts more than a few messages on a link that holds 32.

- *Life cycle.* One peer can be a member, break and hold up a broadcast while the
  second is in its handshake and the silent third is queued, or any other way round;
  each file is the least that shows its case (no file, no TOML, no noise section, a
  noise section without a key, the default address taken, a seed that is not up, and
  a usable one).

No symmetry is used: nearly every run checks liveness. Deadlock checking is off everywhere:
all runs have a finite number of calls and end by having nothing left to do.
(Actors that block each other are the subject of `NoCircularWait` and of the
liveness properties.)

### Fairness

Weak fairness of each task's own steps: tokio polls every task that is ready, and a
task at an await whose condition holds is ready. What a task waits for from somebody
else is not assumed where the code does not guarantee it:

- *EchoBroadcast.* Only the actor's own steps are fair (`TaskStep`). A reliable send has
  no timeout here and may never return (`link_failure`), so `EveryCallTaken` has as its
  hypothesis that the actor is, again and again, not waiting for a member's ack.
- *ReliableSender.* The two actors of each end are fair. The event loop is not: it may
  stop for ever (`node_stuck_loop`). The liveness properties have as their hypothesis
  that its channel has room again and again (`ClientsHaveRoom`), and say of a message
  that it reaches that channel, not that somebody takes it from there.
- *Node.* The tasks are fair and the links deliver. An event loop that is held has no
  step to be fair to.
- *Lifecycle.* The tasks of the node are fair, and a peer that is not silent goes on
  until its stream breaks.

No fairness is assumed of timeouts, of new calls, of who connects, of a failing accept
or of a break of the stream.

## 4. Proofs

`EchoBroadcastProofs` proves, for every set of ids, message ids and calls and every
positive channel capacity:

- `TypeCorrect`: `Spec => []TypeOK`;
- `Invariance`: `Spec => []IInv`, the inductive invariant;
- `OkSound`, `CallersKept`, `WaitersTracked`, `DropsExplained`: the invariants
  `OkMeansAllEchoed`, `NoLostCaller`, `WaiterTracked`, `DroppedOnlyIfReplaced`;
- `EchosNeverForgotten`: the action property `EchosMonotone`.

The assumptions are `NoRequest \notin Requests` and `ChannelCap \in Nat \ {0}`.

Why a strengthening is needed: that an Ok is earned depends on what was true when
the caller was registered, and that on what the actor did while it held the call.
`IInv` says where a call can be and what is known of it there. In the channel
(`ChannelInv`) it is pending, there once and nowhere else; in the actor's hands
(`CurrentInv`) every member but the remaining ones has acknowledged; as a waiter
(`WaiterInv`) all members have. Every acknowledged member of a message id has an
entry in its echo map (`TrackedInv`), and an entry that says "echoed" was heard or
is a sender's (`EchoedInv`). An echo that leaves no entry "pending" thus answers a
waiter all of whose members are accounted for. One lemma per action shows that it
keeps `IInv`, one step per conjunct. `DropsExplained` is proved on top of it: the
witness of a dropped call is the call that replaced it, and what makes it one never
changes again (`CallsPersist`).

`LifecycleProofs` proves, for every set of peers, of silent ones, of configuration
files and of taken addresses:

- `TypeCorrect`: `Spec => []TypeOK`, among it that whenever the main task is about to
  add, greet or broadcast for somebody, there is somebody;
- `Invariance`: `Spec => []IInv`;
- `LoopsRunForever`, `SendersNeverSpin`: `LoopsNeverEnd` and `NoSpin` are invariants.

The assumption is `PeersAssumption`: silent peers are peers, and the names `NoPeer`,
`"none"` and `"main"` are not. That a loop does not end follows from its reliable
sender running, so `IInv` ties the two together: the tasks of a connection are there
for exactly the connections whose loop is (`TasksSpawned`). An Err from the echo
broadcast actor also sets a loop going again, and it must not be one that was never
spawned; hence the rest of `TasksSpawned`, that whoever waits for the actor, in its
channel, in its hands or as a waiter, is the loop of a spawned connection. Members
are included because a member's reliable sender is what a broadcast calls.

`LifecycleNoiseProofs` adds `NoiseInvariance` (`Spec => []NoiseInv`),
`NoiseNeverPanics` (`NoiseInStep`) and `EndsBeforeJoin` (`EndsOnlyBeforeJoin`; that
the deserted peer is not a member comes from `IInv` of `LifecycleProofs`). They
also use `FilesAssumption`: where a file gives an address, bind and port are each
there once or not at all (`Config!WellFormed`), which is what TOML allows. `NoiseInStep` only says that
nobody has panicked yet; why nobody will is a matter of counting. `NoiseInv` counts the
frames each end has written and read (`Wrote`, `HasRead`, the messages of the
handshake first), and says that what is in flight goes on exactly where its reader
is, frame by frame, and on an open stream reaches up to its writer (`StreamsInv`); a
break may cut the tail and nothing else. `StagesInv` ties the mode and the count of
each handler to the await at which its task is, `MainInv` the end of the main task to
its cause.

`ReliableSenderProofs` proves, for every set of links, of calls and of timed calls and
all positive capacities:

- `TypeCorrect`: `Spec => []TypeOK`, the bounds of all channels among it;
- `Invariance`: `Spec => []IInv`;
- `OkSound`, `InOrder`, `CallersTracked`: the invariants `OkMeansDelivered`,
  `ReceivedInOrder`, `PendingIsTracked`;
- `Refinement`: `Spec => Implements`, the link implements `ReliableChannel`.

The assumptions are `EndsAssumption` (there are ends, and every end has a peer, not
itself, whose peer it is), `CallsAssumption` (every call has an end, timed calls are calls) and
`CapAssumption`. No receiver looks at a sequence number, so that order can only come
from where the messages are: `IInv` says that what an end has accepted is the
beginning of what the other has handed over (`AcceptedInv`), that what is in flight
in stream and channels continues it (`FlightInv`), without a gap while the stream is
up and, until the reader has stopped, also after it has broken, and that the frame an
actor holds is the next one (`HeldInv`). An ack in flight is for a message that was
received (`AckInv`), and the number it carries belongs to one call (`CallsInv`,
`WaitingInv`), hence `OkMeansDelivered`. In the refinement, numbering a call is
`Submit`, accepting a message `Receive` and handling its ack `Confirm`; all other steps
stutter.

`ReliableSenderDeadlockProofs` is about the two circular waits of a link. The
connection actor of an end waits for room in the reliable sender's channel while the
reliable sender waits for its write; or the connection actors of both ends wait for
room in their streams. Neither can be excluded for every number of calls: with enough
of them in flight both happen. What is proved is how many that takes:

- `DeadlockNeedsBacklog`: in the first wait at least `ConnCap + 2` calls of the link are
  unacknowledged at once, in the second at least `2 * WireCap + 2`;
- `NoDeadlockWithFewCalls`: so `NoCircularWait` is an invariant of every link with at
  most `ConnCap + 1` and at most `2 * WireCap + 1` calls in all.

The argument counts: every frame in a full channel or in the hands of a blocked actor
belongs to a call that still waits for its ack, and no two of them to the same one. On
top of `IInv` this needs that an ack on its way finds its call still waiting, and is
there once (`OpenInv`): a call has its Send frame, or its Ack frame, or neither, in
flight, and never two. The numbers count calls on both ends together, and a call whose
Timeout layer has given up still counts. They are exact on the instance TLC was tried
on: with all capacities 1, both waits are reached with as many calls. In the code
`ConnCap` is 32, so 34 sends that nobody has acknowledged yet are the least that can
stop an end; a node sends one message per task at a time, and comes to that with as many
tasks on one link.

`NodeProofs` proves, for every set of nodes, whoever joins whom, and every set of
slow nodes:

- `TypeCorrect`: `Spec => []TypeOK`, among it that a task only deals with peers its
  node has a link to;
- `Invariance`: `Spec => []IInv`;
- `BroadcastDelivered`, `GreetedFirst`, `HubSafe`: the invariants
  `BroadcastReachedMembers`, `HeloBeforeMembership`, `SeedNeverPanics`.

The assumption is `SeedsAssumption`: a node's seeds are distinct nodes other than
itself, slow nodes are nodes, and `NoNode` and `"main"` are not. The parts of `IInv`:

- `LinksInv`: a link has two ends, and calls, waiters and traffic are all about
  peers with one. Without it an Err could set an event loop going that was never
  spawned.
- `SendsInv`: the main task and the echo broadcast actor wait for at most one ack of
  a link, and are where they wait for it; an ack for the actor says that its message
  has arrived. This is what a late ack after a timeout could break, and what renaming
  the waiter to `"gone"` keeps.
- `EchoInv`: what the actor has sent of a call has arrived, and its id has an entry
  in the echo map as soon as one send has returned.
- `BroadcastInv`: the call of a main task that waits is in one place, the channel,
  the actor or the waiters, with the members of now; as a waiter, the package is with
  all of them. As only a waiter can be replaced, the Err that releases the accept loop
  comes after all its sends: `BroadcastReachedMembers`.
- `HeloInv`: behind the main task's `SendHelo` the helo is in the outbox or has
  arrived, and in the outbox it is before every membership. With the order of the
  link this is `HeloBeforeMembership`.
- `JoinsInv` and `HubInv`: only a seed and its joiner have a link; all is quiet
  around a hub that has no member yet, and a hub never calls its actor without
  members, so that the unwrap finds an entry.

The proof attempt corrected one property. `SeedNeverPanics` was about any node without
seeds whose joiners nobody joins. That is not enough: a joiner with two seeds sends the
package of the first on to the second, which may have spawned the event loop and not
added the member yet, and so broadcasts it to nobody and panics. `Hub` now also asks
that the joiners have no other seed. On the instances of the runs the two
agree.

`NodeStormProofs` proves, for every hub, any number of joiners and wherever timeouts
fire:

- `FewCopies`: the invariant `NoEchoStorm`;
- `HubLoopsNeverReturn`: an event loop of a hub that has called
  `EchoBroadcastHandle::send` never comes back, and every joiner whose introduction is
  over has such a loop, so that nothing it sends later is read. (For a hub this
  settles in general what `node_stuck_loop` shows by example.)

`StormInvariance` is the invariant behind both, `StormInv` on top of `IInv`. Copies of a
package are in outboxes, inboxes, event loops, calls and actors; what makes them
countable is a history, `Said(n, p)`: all that `n` has ever handed to its reliable
sender for `p`, arrived or not. Only a send of the echo broadcast actor adds a package
to it (`StaysSilent`, `SpeaksUp`), so everything follows from when the actors send:

- *Joiners* (`LeafInv`). A joiner has one event loop, and that loop makes the one call:
  it is idle, calling, sending or waiting, and in the last three the loop is stuck. It
  has said no package before it sends, and one at most afterwards. An actor that panics
  does so before it has sent anything, and the joiner is idle again. It only says what
  it has been sent.
- *The hub* (`HubOK`). Its event loops for joiners it has greeted are stuck
  (`HubLoops`), and its waiters are theirs or the main task's (`HubWaiters`). So the only
  loop that can call is the one of the joiner being introduced, and what that loop gets
  is what the hub has said to the joiner and has come back: the joiner's own package
  (`ComesBack`, from `HubSpoke`). An introduction is thus silent, calling, sending,
  waiting or answering (`HubPhase`): in the first of the two sends each node gets its
  first copy, in the second its second, and the second ends it.

`ConversationProofs` proves, for any set of kinds, `ConversationsEnd`: the work on a link
(a question counts two, a message that no service answers one) is at most twice the
number of openings, and every `Handle` leaves less of it. That is the well-founded part
of `FallsSilent`; that messages are handled at all is fairness and stays with TLC. The
proof needs that a node's id is not the empty text, which `Heartbeat::call` takes for
"no sender yet": a node with such an id would answer heartbeats with heartbeats. A
node's id is the address it listens on.

Only model-checked:

- All liveness properties: `EveryCallTaken`, `CallsAnswered`, `SentReachesClient`,
  `EveryJoinerWelcomed`, `FallsSilent`, `BacklogServed` (fairness and ENABLED are out of
  the prover's reach).
- That the bounds of `DeadlockNeedsBacklog` are reached: this needs a run.
- The findings: a counterexample is a run, not a theorem.

## 5. Not modelled

- The command line option, logging and tracing: no state.
- The shared state (`state.rs`): a pair of handles without operations.
- Settings that are parsed and never read (`max_peer_count`, `max_pending_messages`,
  `max_pending_send_to_all`, `heartbeat_interval`). `delivery_timeout` is read, but a
  timeout may fire at any time here.
- Cryptography. `Noise` has the order and the numbers of the messages, on which the
  code relies, and not their content; a frame that was tampered with, or one that
  decrypts and does not parse, does not occur.
- The size of messages: noise messages and frames end at 64 KiB, and a longer message
  would panic the connection actor. None is near it.
- Streams that break between nodes that are both seeds and joiners: `Lifecycle` is a
  star around one node. Nodes that crash in the middle of a broadcast are streams
  that break; nothing is persisted, so a restarted node is a new one, and comes from a
  new address.
- Several seeds of one node. A node whose connect is refused ends, and its earlier
  links go down with it, so the runs of `Node` give every node at most one seed. The
  theorems about `Node` do cover several; there the links of a node that has ended stay
  up and its event loops go on, which the program would not do.
- The request and the answer of a membership operation are one step: each caller
  awaits the answer, and only the accept loop adds members.
- Cancellation of a waiting `EchoBroadcastHandle::send`: the program never puts it
  under a Timeout layer. The layer in `respond_to_broadcast_message` is around a
  service that has nothing to send.
- A message without an id given to the echo broadcast actor, whose `get_message_id` it
  unwraps (`echo_broadcast/mod.rs:102`, `157`): no caller has one.
- An Err of a reliable send is in `EchoBroadcast` (`SendToMemberFails`), because
  `send_message` handles one, and not in `Node` or `Lifecycle`: today's reliable sender
  actor answers with Ok or not at all. No finding rests on it.
- Members that stall with their stream open: see `BacklogServed` above.
- Encrypting a frame and writing it are one step, so that two writers that encrypt in
  one order and write in the other do not occur. Only the connection actor does either.
- Growth of the actor's maps: nothing removes an entry, and no property says so.

## 6. Plan

1. Message ids from colliding times, and `Node` in a triangle.
2. A bound on copies for a chain of nodes, where event loops release each other.
3. Streams that break in `Node`, with the cleanup of `Lifecycle` at every node.
