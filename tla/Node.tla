-------------------------------- MODULE Node --------------------------------
(***************************************************************************)
(* The nodes of a federation (src/node.rs): each node's main task, which   *)
(* connects to its seeds and then accepts connections one at a time, an    *)
(* event loop for every connection, the membership actor and the echo      *)
(* broadcast actor.                                                        *)
(*                                                                         *)
(* A link between two nodes is what module ReliableSender provides: each   *)
(* direction keeps order, and a send returns once the message is with the  *)
(* other end.  The channels of a link are not bounded here (the capacities *)
(* are the subject of ReliableSender; the runs send far fewer than the 32  *)
(* messages the code has room for) and links do not break.                 *)
(*                                                                         *)
(* Of the echo broadcast actor this module keeps the calls, the sends to   *)
(* the members and the waiters.  No part of the program calls              *)
(* EchoBroadcastHandle::receive, so no echo is ever recorded, and of the   *)
(* echo map it only matters for which message ids there is an entry.       *)
(*                                                                         *)
(* A definition whose name starts with Mutant is no part of the model: it  *)
(* is a wrong form of the definition after it, used to test the properties.*)
(***************************************************************************)
EXTENDS Naturals, Sequences, SequencesExt, Protocol

CONSTANTS
    Nodes,   \* the nodes, by their bind address
    Seeds,   \* Seeds[n]: the seeds n is configured with, in order
    Slow,    \* the nodes at which the delivery timeout may fire
    NoNode

ASSUME SeedsAssumption ==
    /\ Seeds \in [Nodes -> Seq(Nodes)]
    /\ \A n \in Nodes : IsInjective(Seeds[n]) /\ ~Contains(Seeds[n], n)
    /\ Slow \subseteq Nodes
    /\ Nodes \cap {NoNode, "main"} = {}

VARIABLES
    main,     \* main[n]: where the main task of n is
    loop,     \* loop[n][p]: where n's event loop for its link to p is
    members,  \* members[n]: the peers in n's membership
    outbox,   \* outbox[n][p]: messages given to n's reliable sender to p
    acks,     \* acks[n][p]: who waits for an ack on its way from p to n
    inbox,    \* inbox[n][p]: messages from p for n's event loop
    got,      \* history, got[n][p]: every message p has brought to n
    calls,    \* calls[n]: calls in the channel of n's echo broadcast actor
    echo,     \* echo[n]: what that actor is doing
    tracked,  \* tracked[n]: the message ids with an entry in message_echos
    waiters   \* waiters[n]: message_client_txs, as <<message id, caller>> pairs

linkVars == <<outbox, acks, inbox, got>>
echoVars == <<calls, echo, tracked, waiters>>
vars == <<main, loop, members, outbox, acks, inbox, got, calls, echo, tracked,
          waiters>>

(* Who is waiting, at a node: its main task, the event loop of a link, or  *)
(* the echo broadcast actor; "gone" once its Timeout layer has fired.      *)
Main == "main"
Loop == "loop"
Echo == "echo"
Gone == "gone"

At(pc, peer, next) == [pc |-> pc, peer |-> peer, next |-> next]
LoopAt(pc, msg, mem) == [pc |-> pc, msg |-> msg, members |-> mem]
NotStarted == LoopAt("none", NoMessage, {})
Receiving == LoopAt("recv", NoMessage, {})

(* Waiting for EchoBroadcastHandle::send to return, without a timeout.     *)
MutantAwaitingBroadcast == Receiving
AwaitingBroadcast == LoopAt("broadcast", NoMessage, {})

EchoIdle == [pc |-> "recv", call |-> NoMessage, left |-> {}, to |-> NoNode]
EchoPanicked == [EchoIdle EXCEPT !.pc = "panicked"]
EchoSending(c, left, to) ==
    [pc |-> "sending", call |-> c, left |-> left, to |-> to]

(* A node without seeds goes straight to listening and accepting.          *)
AfterSeeds(n, next) ==
    IF next > Len(Seeds[n]) THEN At("accept", NoNode, next)
                            ELSE At("connect", Seeds[n][next], next)

Init ==
    /\ main = [n \in Nodes |-> AfterSeeds(n, 1)]
    /\ loop = [n \in Nodes |-> [p \in Nodes |-> NotStarted]]
    /\ members = [n \in Nodes |-> {}]
    /\ outbox = [n \in Nodes |-> [p \in Nodes |-> <<>>]]
    /\ acks = [n \in Nodes |-> [p \in Nodes |-> <<>>]]
    /\ inbox = [n \in Nodes |-> [p \in Nodes |-> <<>>]]
    /\ got = [n \in Nodes |-> [p \in Nodes |-> <<>>]]
    /\ calls = [n \in Nodes |-> <<>>]
    /\ echo = [n \in Nodes |-> EchoIdle]
    /\ tracked = [n \in Nodes |-> {}]
    /\ waiters = [n \in Nodes |-> {}]

(* ReliableSenderHandle::send by a task of n: its message to p and itself. *)
SendReliably(n, p, msg, by) ==
    outbox' = [outbox EXCEPT ![n][p] = Append(@, [msg |-> msg, by |-> by])]

-----------------------------------------------------------------------------
(* connect_to_seeds and start_accept: the main task.                       *)

Listening(n) == main[n].pc \notin {"connect", "add_seed", "stopped"}

(* TcpStream::connect fails: start returns an error and the process ends.  *)
(* (No link of n is up yet when n has one seed, as in all runs; links that *)
(* go down with a process are not modelled.)                               *)
ConnectRefused(n) ==
    /\ main[n].pc = "connect"
    /\ ~Listening(main[n].peer)
    /\ main' = [main EXCEPT ![n] = At("stopped", NoNode, @.next)]
    /\ UNCHANGED <<loop, members, linkVars, echoVars>>

(* n connects and its seed s accepts: the noise handshake has both wait    *)
(* for each other.  Both spawn the event loop of the link.                 *)
Connect(n, s) ==
    /\ main[n].pc = "connect"
    /\ main[n].peer = s
    /\ main[s].pc = "accept"
    /\ main' = [main EXCEPT ![n] = At("add_seed", s, @.next),
                            ![s] = At("add_member", n, @.next)]
    /\ loop' = [loop EXCEPT ![n][s] = Receiving, ![s][n] = Receiving]
    /\ UNCHANGED <<members, linkVars, echoVars>>

(* connect_to_seeds: add_member, then the next seed, or listen.            *)
AddSeed(n) ==
    /\ main[n].pc = "add_seed"
    /\ members' = [members EXCEPT ![n] = @ \cup {main[n].peer}]
    /\ main' = [main EXCEPT ![n] = AfterSeeds(n, @.next + 1)]
    /\ UNCHANGED <<loop, linkVars, echoVars>>

(* start_accept: add_member.                                               *)
MutantAddMember(n) ==
    /\ main[n].pc = "add_member"
    /\ main' = [main EXCEPT ![n].pc = "send_helo"]
    /\ UNCHANGED <<loop, members, linkVars, echoVars>>

AddMember(n) ==
    /\ main[n].pc = "add_member"
    /\ members' = [members EXCEPT ![n] = @ \cup {main[n].peer}]
    /\ main' = [main EXCEPT ![n].pc = "send_helo"]
    /\ UNCHANGED <<loop, linkVars, echoVars>>

(* start_accept: the handshake service turns the default message into helo.*)
SendHelo(n) ==
    /\ main[n].pc = "send_helo"
    /\ SendReliably(n, main[n].peer, HandshakeReply(Handshake("")), Main)
    /\ main' = [main EXCEPT ![n].pc = "handshake"]
    /\ UNCHANGED <<loop, members, acks, inbox, got, echoVars>>

(* start_accept: the echo broadcast service gives the package an id and    *)
(* calls the actor with the members of now.  A closed channel is an error, *)
(* which is ignored.                                                       *)
BroadcastRoundOne(n) ==
    LET msg == RoundOneReply(RoundOne(NoMid, n), <<n, main[n].peer>>) IN
    /\ main[n].pc = "round_one"
    /\ IF echo[n].pc = "panicked"
         THEN /\ main' = [main EXCEPT ![n].pc = "send_membership"]
              /\ UNCHANGED calls
         ELSE /\ main' = [main EXCEPT ![n].pc = "broadcast"]
              /\ calls' = [calls EXCEPT ![n] = Append(@,
                   [msg |-> msg, members |-> members[n], by |-> Main])]
    /\ UNCHANGED <<loop, members, linkVars, echo, tracked, waiters>>

(* send_membership: the membership service fills in the members.           *)
SendMembership(n) ==
    /\ main[n].pc = "send_membership"
    /\ SendReliably(n, main[n].peer,
                    MembershipReply(Membership(NoMembers), members[n]), Main)
    /\ main' = [main EXCEPT ![n].pc = "membership"]
    /\ UNCHANGED <<loop, members, acks, inbox, got, echoVars>>

(* Where the main task goes when its reliable send returns, Ok or not.     *)
AfterSend(m) == IF m.pc = "handshake" THEN [m EXCEPT !.pc = "round_one"]
                                      ELSE At("accept", NoNode, m.next)

-----------------------------------------------------------------------------
(* start_connection_event_loop.                                            *)

(* respond_to_unicast_message: the response, if any, is sent reliably.     *)
TakeUnicast(n, p) ==
    LET msg == Head(inbox[n][p])
        response == Response(msg, n, members[n], NoMid)
    IN
    /\ loop[n][p].pc = "recv"
    /\ inbox[n][p] # <<>>
    /\ ~IsBroadcast(msg)
    /\ inbox' = [inbox EXCEPT ![n][p] = Tail(@)]
    /\ IF response = NoMessage
         THEN UNCHANGED <<loop, outbox>>
         ELSE /\ SendReliably(n, p, response, Loop)
              /\ loop' = [loop EXCEPT ![n][p] = LoopAt("unicast", NoMessage, {})]
    /\ UNCHANGED <<main, members, acks, got, echoVars>>

(* respond_to_broadcast_message: get_members.                              *)
TakeBroadcast(n, p) ==
    /\ loop[n][p].pc = "recv"
    /\ inbox[n][p] # <<>>
    /\ IsBroadcast(Head(inbox[n][p]))
    /\ inbox' = [inbox EXCEPT ![n][p] = Tail(@)]
    /\ loop' = [loop EXCEPT ![n][p] =
                  LoopAt("rebroadcast", Head(inbox[n][p]), members[n])]
    /\ UNCHANGED <<main, members, outbox, acks, got, echoVars>>

(* respond_to_broadcast_message: call the echo broadcast actor with the    *)
(* message as it came.  When the call returns, the service after it has    *)
(* nothing to send (RoundOneReply), and the loop takes the next message.   *)
Rebroadcast(n, p) ==
    /\ loop[n][p].pc = "rebroadcast"
    /\ IF echo[n].pc = "panicked"
         THEN /\ loop' = [loop EXCEPT ![n][p] = Receiving]
              /\ UNCHANGED calls
         ELSE /\ loop' = [loop EXCEPT ![n][p] = AwaitingBroadcast]
              /\ calls' = [calls EXCEPT ![n] = Append(@,
                   [msg |-> loop[n][p].msg, members |-> loop[n][p].members,
                    by |-> p])]
    /\ UNCHANGED <<main, members, linkVars, echo, tracked, waiters>>

-----------------------------------------------------------------------------
(* The links.                                                              *)

(* The next message from n reaches p; its ack is on the way back.          *)
Transfer(n, p) ==
    /\ outbox[n][p] # <<>>
    /\ LET o == Head(outbox[n][p]) IN
       /\ inbox' = [inbox EXCEPT ![p][n] = Append(@, o.msg)]
       /\ got' = [got EXCEPT ![p][n] = Append(@, o.msg)]
       /\ acks' = [acks EXCEPT ![n][p] = Append(@, o.by)]
    /\ outbox' = [outbox EXCEPT ![n][p] = Tail(@)]
    /\ UNCHANGED <<main, loop, members, echoVars>>

(* An ack from p reaches n and wakes the task that waits for it.           *)
Ack(n, p) ==
    /\ acks[n][p] # <<>>
    /\ acks' = [acks EXCEPT ![n][p] = Tail(@)]
    /\ LET by == Head(acks[n][p]) IN
       /\ main' = IF by = Main THEN [main EXCEPT ![n] = AfterSend(@)] ELSE main
       /\ loop' = IF by = Loop THEN [loop EXCEPT ![n][p] = Receiving] ELSE loop
       /\ IF by = Echo
            THEN /\ echo' = [echo EXCEPT ![n] =
                               EchoSending(@.call, @.left \ {p}, NoNode)]
                 /\ tracked' = [tracked EXCEPT ![n] =
                                  @ \cup {echo[n].call.msg.mid}]
            ELSE UNCHANGED <<echo, tracked>>
    /\ UNCHANGED <<members, outbox, inbox, got, calls, waiters>>

(* The messages and acks of a task that has stopped waiting for them.      *)
GoneFromOutbox(s, by) ==
    [i \in DOMAIN s |-> IF s[i].by = by THEN [s[i] EXCEPT !.by = Gone] ELSE s[i]]
GoneFromAcks(s, by) == [i \in DOMAIN s |-> IF s[i] = by THEN Gone ELSE s[i]]

MutantForget(n, p, by) ==
    /\ outbox' = [outbox EXCEPT ![n][p] = SelectSeq(@, LAMBDA o : o.by # by)]
    /\ acks' = [acks EXCEPT ![n][p] = GoneFromAcks(@, by)]

Forget(n, p, by) ==
    /\ outbox' = [outbox EXCEPT ![n][p] = GoneFromOutbox(@, by)]
    /\ acks' = [acks EXCEPT ![n][p] = GoneFromAcks(@, by)]

(* The Timeout layer around the main task's handshake or membership send.  *)
MainTimesOut(n) ==
    /\ n \in Slow
    /\ main[n].pc \in {"handshake", "membership"}
    /\ Forget(n, main[n].peer, Main)
    /\ main' = [main EXCEPT ![n] = AfterSend(@)]
    /\ UNCHANGED <<loop, members, inbox, got, echoVars>>

(* The Timeout layer around an event loop's unicast response.              *)
LoopTimesOut(n, p) ==
    /\ n \in Slow
    /\ loop[n][p].pc = "unicast"
    /\ Forget(n, p, Loop)
    /\ loop' = [loop EXCEPT ![n][p] = Receiving]
    /\ UNCHANGED <<main, members, inbox, got, echoVars>>

-----------------------------------------------------------------------------
(* The echo broadcast actor (see module EchoBroadcast).                    *)

TakeCall(n) ==
    /\ echo[n].pc = "recv"
    /\ calls[n] # <<>>
    /\ LET c == Head(calls[n]) IN
       echo' = [echo EXCEPT ![n] = EchoSending(c, c.members, NoNode)]
    /\ calls' = [calls EXCEPT ![n] = Tail(@)]
    /\ UNCHANGED <<main, loop, members, linkVars, tracked, waiters>>

SendToMember(n, p) ==
    /\ echo[n].pc = "sending"
    /\ echo[n].to = NoNode
    /\ p \in echo[n].left
    /\ SendReliably(n, p, echo[n].call.msg, Echo)
    /\ echo' = [echo EXCEPT ![n].to = p]
    /\ UNCHANGED <<main, loop, members, acks, inbox, got, calls, tracked, waiters>>

(* The callers in S at n get an Err from EchoBroadcastHandle::send.        *)
MutantReturnErr(n, S) ==
    /\ main' = IF Main \in S THEN [main EXCEPT ![n].pc = "send_membership"]
                             ELSE main
    /\ loop' = [loop EXCEPT ![n] = [p \in Nodes |->
                  IF p \in S THEN NotStarted ELSE @[p]]]

ReturnErr(n, S) ==
    /\ main' = IF Main \in S THEN [main EXCEPT ![n].pc = "send_membership"]
                             ELSE main
    /\ loop' = [loop EXCEPT ![n] = [p \in Nodes |->
                  IF p \in S THEN Receiving ELSE @[p]]]

MutantSentToAll(n) == echo[n].to = NoNode
SentToAll(n) == echo[n].left = {}

WaitersFor(n, mid) == {w \in waiters[n] : w[1] = mid}

(* The call becomes the waiter of its message id; a waiter it replaces is  *)
(* dropped, and its caller gets an Err.                                    *)
MutantFinishSend(n) ==
    LET c == echo[n].call IN
    /\ echo[n].pc = "sending"
    /\ SentToAll(n)
    /\ c.msg.mid \in tracked[n]
    /\ echo' = [echo EXCEPT ![n] = EchoIdle]
    /\ waiters' = [waiters EXCEPT ![n] = @ \cup {<<c.msg.mid, c.by>>}]
    /\ UNCHANGED <<main, loop, members, linkVars, calls, tracked>>

FinishSend(n) ==
    LET c == echo[n].call
        old == WaitersFor(n, c.msg.mid)
    IN
    /\ echo[n].pc = "sending"
    /\ SentToAll(n)
    /\ c.msg.mid \in tracked[n]
    /\ echo' = [echo EXCEPT ![n] = EchoIdle]
    /\ waiters' = [waiters EXCEPT ![n] = (@ \ old) \cup {<<c.msg.mid, c.by>>}]
    /\ ReturnErr(n, {w[2] : w \in old})
    /\ UNCHANGED <<members, linkVars, calls, tracked>>

(* No entry for the message id: the unwrap panics and the task is gone.    *)
FinishSendPanics(n) ==
    LET c == echo[n].call IN
    /\ echo[n].pc = "sending"
    /\ SentToAll(n)
    /\ c.msg.mid \notin tracked[n]
    /\ echo' = [echo EXCEPT ![n] = EchoPanicked]
    /\ calls' = [calls EXCEPT ![n] = <<>>]
    /\ waiters' = [waiters EXCEPT ![n] = {}]
    /\ ReturnErr(n, {c.by} \cup {w[2] : w \in waiters[n]}
                      \cup {calls[n][i].by : i \in DOMAIN calls[n]})
    /\ UNCHANGED <<members, linkVars, tracked>>

-----------------------------------------------------------------------------
MainStep(n) ==
    \/ ConnectRefused(n) \/ AddSeed(n) \/ AddMember(n) \/ SendHelo(n)
    \/ BroadcastRoundOne(n) \/ SendMembership(n)
    \/ \E s \in Nodes : Connect(n, s)
LoopStep(n, p) == TakeUnicast(n, p) \/ TakeBroadcast(n, p) \/ Rebroadcast(n, p)
LinkStep(n, p) == Transfer(n, p) \/ Ack(n, p)
EchoStep(n) ==
    \/ TakeCall(n) \/ FinishSend(n) \/ FinishSendPanics(n)
    \/ \E p \in Nodes : SendToMember(n, p)

Next ==
    \/ \E n \in Nodes : MainStep(n) \/ MainTimesOut(n) \/ EchoStep(n)
    \/ \E n, p \in Nodes : LoopStep(n, p) \/ LinkStep(n, p) \/ LoopTimesOut(n, p)

Spec == Init /\ [][Next]_vars

(* The runtime polls every task that can go on, and the links deliver      *)
(* (ReliableSender!SentReachesClient, ReliableSender!CallsAnswered; no run *)
(* fills the 32 places of a client channel).  An event loop that waits for *)
(* a broadcast has no step to take.  Nothing is assumed of the timeouts.   *)
Fairness ==
    /\ \A n \in Nodes : WF_vars(MainStep(n)) /\ WF_vars(EchoStep(n))
    /\ \A n, p \in Nodes : WF_vars(LoopStep(n, p)) /\ WF_vars(LinkStep(n, p))

FairSpec == Spec /\ Fairness

-----------------------------------------------------------------------------
(* Properties.                                                             *)

PcsOfMain == {"connect", "add_seed", "accept", "add_member", "send_helo",
              "handshake", "round_one", "broadcast", "send_membership",
              "membership", "stopped"}
PcsOfLoop == {"none", "recv", "unicast", "rebroadcast", "broadcast"}

Broadcasts == {RoundOne(<<n, p>>, n) : n, p \in Nodes}
Messages == {Handshake("helo"), Handshake("oleh")} \cup Broadcasts
              \cup {Membership(SomeMembers(m)) : m \in SUBSET Nodes}
Tasks == {Main, Loop, Echo, Gone}
MainStates == [pc : PcsOfMain, peer : Nodes \cup {NoNode}, next : Nat]
LoopStates == [pc : PcsOfLoop, msg : Messages \cup {NoMessage}, members : SUBSET Nodes]
CallsOfEcho == [msg : Broadcasts, members : SUBSET Nodes, by : Nodes \cup {Main}]
EchoStates == [pc : {"recv", "sending", "panicked"},
               call : CallsOfEcho \cup {NoMessage},
               left : SUBSET Nodes, to : Nodes \cup {NoNode}]

Shapes ==
    /\ main \in [Nodes -> MainStates]
    /\ loop \in [Nodes -> [Nodes -> LoopStates]]
    /\ members \in [Nodes -> SUBSET Nodes]
    /\ outbox \in [Nodes -> [Nodes -> Seq([msg : Messages, by : Tasks])]]
    /\ acks \in [Nodes -> [Nodes -> Seq(Tasks)]]
    /\ inbox \in [Nodes -> [Nodes -> Seq(Messages)]]
    /\ got \in [Nodes -> [Nodes -> Seq(Messages)]]
    /\ calls \in [Nodes -> Seq(CallsOfEcho)]
    /\ echo \in [Nodes -> EchoStates]
    /\ tracked \in [Nodes -> SUBSET (Nodes \X Nodes)]
    /\ waiters \in [Nodes -> SUBSET ((Nodes \X Nodes) \X (Nodes \cup {Main}))]

Linked(n) == {p \in Nodes : loop[n][p].pc # "none"}

(* Type invariant: where each task is, with what, and that a task only     *)
(* deals with peers it has a link to.                                      *)
TypeOK ==
    /\ Shapes
    /\ \A n \in Nodes :
         /\ main[n].pc = "connect" => main[n].peer \in Nodes
         /\ main[n].pc \notin {"connect", "accept", "stopped"} => main[n].peer \in Linked(n)
         /\ echo[n].pc = "sending" => echo[n].call \in CallsOfEcho
         /\ members[n] \subseteq Linked(n)
    /\ \A n, p \in Nodes :
         /\ loop[n][p].pc = "rebroadcast" => loop[n][p].msg \in Broadcasts
         /\ inbox[n][p] # <<>> => p \in Linked(n)

Panicked(n) == echo[n].pc = "panicked"

Joins(n, p) == Contains(Seeds[n], p)

(* The event loop of a link is spawned before the peer is added to the     *)
(* membership (node.rs:175-192), and a broadcast handled in between has no *)
(* members and kills the echo broadcast actor.  A node that joins nobody   *)
(* is safe from this if its joiners join only it and nobody joins them:    *)
(* they only speak when spoken to, and it adds them before it speaks to    *)
(* them.                                                                   *)
Hub(n) ==
    /\ Seeds[n] = <<>>
    /\ \A p \in Nodes : Joins(p, n) => /\ Seeds[p] = <<n>>
                                       /\ \A q \in Nodes : ~Joins(q, p)
SeedNeverPanics == \A n \in Nodes : Hub(n) => ~Panicked(n)

(* When the main task goes on after its broadcast, the package is with all *)
(* members, the new one included, although the call has returned an Err:   *)
(* the call is only replaced as a waiter after its own sends are done.     *)
BroadcastReachedMembers ==
    \A n \in Nodes :
        /\ main[n].pc \in {"send_membership", "membership"}
        /\ ~Panicked(n)
        => \A p \in members[n] :
              Contains(got[p][n], RoundOne(<<n, main[n].peer>>, n))

(* A joiner is greeted before it is sent the membership, also when the     *)
(* handshake has timed out at the sender.                                  *)
HeloBeforeMembership ==
    \A n, p \in Nodes : \A i \in DOMAIN got[n][p] :
        got[n][p][i].kind = "membership" =>
            \E j \in 1..i : got[n][p][j] = Handshake("helo")

PackagesFrom(n, p) == {i \in DOMAIN got[n][p] : IsBroadcast(got[n][p][i])}
CopiesOf(n, p, mid) == {i \in PackagesFrom(n, p) : got[n][p][i].mid = mid}

(* Every node that gets a broadcast sends it to all its members, also back *)
(* to where it came from, and nothing marks a message id as seen.  Between *)
(* a hub and its joiners there are still few copies, because an event loop *)
(* that has sent a broadcast on is not released to take another: the hub   *)
(* sends each package to a node at most twice, and a joiner passes on one  *)
(* package at most, whatever it is sent.  (In a chain of nodes there are   *)
(* more copies: event loops release each other.)                           *)
NoEchoStorm ==
    \A n \in Nodes : Hub(n) => \A p \in Nodes :
        /\ \A q, r \in Nodes : Cardinality(CopiesOf(p, n, <<q, r>>)) <= 2
        /\ Cardinality(PackagesFrom(n, p)) <= 1

(* Every joiner is eventually sent the membership, unless its start failed *)
(* or an echo broadcast actor has died: the accept loop, which waits for   *)
(* its broadcast without a timeout, is released when the package comes back*)
(* and its event loop's call replaces the accept loop's.                   *)
EveryJoinerWelcomed ==
    \A n \in Nodes : \A i \in DOMAIN Seeds[n] :
        <>(\/ \E k \in DOMAIN got[n][Seeds[n][i]] :
                got[n][Seeds[n][i]][k].kind = "membership"
           \/ main[n].pc = "stopped"
           \/ \E m \in Nodes : Panicked(m))

(* The unwrap of send_message (echo_broadcast/mod.rs:115-117) asserts that *)
(* the message id has an entry.                                            *)
EchoActorsLive == \A n \in Nodes : ~Panicked(n)

(* The doc of send_message (echo_broadcast/mod.rs:86-87): "wait for echo   *)
(* messages from all members. Timeout is handled by layer on top".  An     *)
(* event loop that waits for its broadcast comes back to its channel.      *)
EventLoopReturns ==
    \A n, p \in Nodes : loop[n][p].pc = "broadcast" ~> loop[n][p].pc = "recv"
=============================================================================
