----------------------------- MODULE Lifecycle ------------------------------
(***************************************************************************)
(* The life of one node that others join: it starts from its configuration *)
(* file (src/main.rs, src/node.rs), accepts connections one at a time,     *)
(* runs the noise handshake with each (src/node/noise_handler.rs), makes   *)
(* the peer a member (src/node/membership.rs), greets it, broadcasts, and  *)
(* sends it the membership.  Peers may fall silent and streams may break   *)
(* at any moment, which module Node leaves out; every peer connects at     *)
(* most once.  The question is who waits for whom after that, which tasks  *)
(* end, and who still holds what.                                          *)
(*                                                                         *)
(* A message is <<"send", what, joiner>> or <<"ack", what, joiner>>, where *)
(* what is "helo", "oleh", "package" or "membership", and the joiner is    *)
(* the peer whose connection it is about (the message id of a package).    *)
(*                                                                         *)
(* The connection actor and the reliable sender of a connection are one    *)
(* task here: they take a frame, answer it and pass it on in one step      *)
(* (ReliableSender has them apart, with their channels).  Of the echo      *)
(* broadcast actor the calls, sends and waiters are kept, as in Node: no   *)
(* echo is ever recorded, and the accept loop is released when the package *)
(* comes back and the call of an event loop replaces its own.              *)
(*                                                                         *)
(* Of a peer there is what the node can see: its half of the handshake,    *)
(* its acks, its oleh, and the package it sends back, unless its event loop*)
(* takes it before the node is among its own members, and its echo         *)
(* broadcast actor panics.  That loop does not come back from a broadcast  *)
(* (Node!EventLoopReturns); what reaches it afterwards is not kept here.   *)
(*                                                                         *)
(* A definition whose name starts with Mutant is no part of the model: it  *)
(* is a wrong form of the definition after it, used to test the properties.*)
(***************************************************************************)
EXTENDS Naturals, Sequences, Config, Noise

CONSTANTS
    Peers,   \* the peers that may connect
    Silent,  \* the ones that connect and then do nothing
    NoPeer,
    Files,   \* the configuration files the node may find
    Taken    \* the addresses it cannot bind

ASSUME PeersAssumption ==
    /\ Silent \subseteq Peers
    /\ Peers \cap {NoPeer, "none", "main"} = {}

ASSUME FilesAssumption == \A f \in Files : WellFormed(f)

VARIABLES
    file,     \* the configuration file
    main,     \* where the main task is, and with which peer
    members,  \* the membership
    echo,     \* what the echo broadcast actor is doing
    calls,    \* the calls in its channel
    waiter,   \* message_client_txs: joiner -> who waits for its package
    reliable_senders, \* joiner -> the members whose handles are kept
    loop,     \* loop[p]: where the event loop of the connection to p is
    inbox,    \* inbox[p]: messages for that event loop
    conn,     \* conn[p]: the connection actor
    noise,    \* noise[p]: its noise state
    stream,   \* stream[p]: the TCP stream to p
    toPeer,   \* toPeer[p]: frames the node wrote
    toNode,   \* toNode[p]: frames p wrote
    peer,     \* peer[p]: where p is
    peerNoise \* peerNoise[p]: its noise state

echoVars == <<echo, calls, waiter, reliable_senders>>
loopVars == <<loop, inbox>>
wireVars == <<stream, toPeer, toNode>>
peerVars == <<peer, peerNoise>>
vars == <<file, main, members, echo, calls, waiter, reliable_senders, loop,
          inbox, conn, noise, stream, toPeer, toNode, peer, peerNoise>>

At(pc, p) == [pc |-> pc, peer |-> p]

(* Why a process has ended: an error return of main or a panic in its task.*)
Causes == {"no_config", "no_seeds", "no_address", "accept_failed", "no_key",
           "deserted", "bad_frame"}
Dead == main.pc \in Causes
Listening == main.pc # "off" /\ ~Dead

Call(by, joiner, to) == [by |-> by, joiner |-> joiner, members |-> to]
NoCall == Call("none", NoPeer, {})
EchoIdle == [pc |-> "recv", call |-> NoCall, left |-> {}, to |-> NoPeer]

(* A peer that is not up yet: it has not added the node, its echo broadcast*)
(* actor lives, and its event loop has nothing to do.                      *)
NewPeer == [pc |-> "off", added |-> FALSE, mute |-> FALSE, loop |-> "recv",
            inbox |-> <<>>]

Init ==
    /\ file \in Files
    /\ main = At("off", NoPeer)
    /\ members = {}
    /\ echo = EchoIdle
    /\ calls = <<>>
    /\ waiter = [p \in Peers |-> "none"]
    /\ reliable_senders = [p \in Peers |-> {}]
    /\ loop = [p \in Peers |-> "none"]
    /\ inbox = [p \in Peers |-> <<>>]
    /\ conn = [p \in Peers |-> "none"]
    /\ noise = [p \in Peers |-> NewNoise(TRUE)]
    /\ stream = [p \in Peers |-> "none"]
    /\ toPeer = [p \in Peers |-> <<>>]
    /\ toNode = [p \in Peers |-> <<>>]
    /\ peer = [p \in Peers |-> NewPeer]
    /\ peerNoise = [p \in Peers |-> NewNoise(FALSE)]

(* What a stream holds after a frame is written: a broken one loses it.    *)
Written(p, frames, f) == IF stream[p] = "open" THEN Append(frames, f) ELSE frames

(* The reliable sender of p is given a message: the connection actor, if it*)
(* still runs, encrypts and writes it.                                     *)
SendReliably(p, what, joiner) ==
    LET f == TransportFrame(noise[p], <<"send", what, joiner>>) IN
    IF conn[p] = "running"
      THEN /\ toPeer' = [toPeer EXCEPT ![p] = Written(p, @, f)]
           /\ noise' = [noise EXCEPT ![p] = AfterTransportOut(@)]
      ELSE UNCHANGED <<toPeer, noise>>

-----------------------------------------------------------------------------
(* main and Node::start.                                                   *)

(* What becomes of a node that finds configuration c.  No seed is up.      *)
AfterStart(c) ==
    CASE c = <<>> -> "no_config"
      [] c # <<>> /\ c[1].seeds # <<>> -> "no_seeds"
      [] OTHER ->
           IF GetBindAddress(c[1].network) \in Taken THEN "no_address"
                                                     ELSE "accept"

Start ==
    /\ main.pc = "off"
    /\ main' = At(AfterStart(LoadConfig(file)), NoPeer)
    /\ UNCHANGED <<file, members, echoVars, loopVars, conn, noise, wireVars,
                   peerVars>>

(* The process ends: its streams are closed.  (What is in flight may still *)
(* be read; a peer that reads less is one whose stream broke before.)      *)
Die(cause, p) ==
    /\ main' = At(cause, p)
    /\ stream' = [q \in Peers |-> IF stream[q] = "none" THEN "none" ELSE "closed"]

-----------------------------------------------------------------------------
(* start_accept.                                                           *)

Queued(p) == stream[p] # "none" /\ conn[p] = "none"

(* accept, NoiseHandler::new, and the first message of the handshake.      *)
Accept(p) ==
    /\ main.pc = "accept"
    /\ Queued(p)
    /\ IF BuildsKeypair(LoadConfig(file)[1].key)
         THEN /\ main' = At("noise", p)
              /\ conn' = [conn EXCEPT ![p] = "handshake"]
              /\ toPeer' = [toPeer EXCEPT ![p] =
                              Written(p, @, HandshakeFrame(noise[p]))]
              /\ noise' = [noise EXCEPT ![p] = AfterHandshakeMessage(@)]
              /\ UNCHANGED stream
         ELSE /\ Die("no_key", p)
              /\ UNCHANGED <<conn, toPeer, noise>>
    /\ UNCHANGED <<file, members, echoVars, loopVars, toNode, peerVars>>

(* accept returns an error, as it does when the process has no descriptor  *)
(* left for a queued connection (nothing bounds the peers a node serves):  *)
(* the unwrap panics in the main task.                                     *)
AcceptFails ==
    /\ main.pc = "accept"
    /\ \E p \in Peers : Queued(p)
    /\ Die("accept_failed", NoPeer)
    /\ UNCHANGED <<file, members, echoVars, loopVars, conn, noise, toPeer,
                   toNode, peerVars>>

(* initiator_handshake from its await on: read the second message, write   *)
(* the third, start the transport.  Then the actors and the event loop of  *)
(* the connection are spawned.                                             *)
FinishHandshake(p) ==
    LET f == Head(toNode[p])
        read == AfterHandshakeMessage(noise[p])
        done == AfterHandshakeMessage(read)
    IN
    /\ main = At("noise", p)
    /\ toNode[p] # <<>>
    /\ toNode' = [toNode EXCEPT ![p] = Tail(@)]
    /\ IF /\ CanReadHandshake(noise[p], f)
          /\ CanBuildHandshake(read)
          /\ CanStartTransport(done)
         THEN /\ main' = At("add_member", p)
              /\ toPeer' = [toPeer EXCEPT ![p] =
                              Written(p, @, HandshakeFrame(read))]
              /\ noise' = [noise EXCEPT ![p] = StartTransport(done)]
              /\ conn' = [conn EXCEPT ![p] = "running"]
              /\ loop' = [loop EXCEPT ![p] = "recv"]
              /\ UNCHANGED stream
         ELSE /\ Die("bad_frame", p)
              /\ UNCHANGED <<toPeer, noise, conn, loop>>
    /\ UNCHANGED <<file, members, echoVars, inbox, peerVars>>

(* The stream has ended before the second message, in the handshake or     *)
(* already when the connection was queued (accept returns it all the same):*)
(* reader.next() is None, and its unwrap panics in the main task.          *)
Deserted(p) ==
    /\ main = At("noise", p)
    /\ stream[p] = "closed"
    /\ toNode[p] = <<>>
    /\ Die("deserted", p)
    /\ UNCHANGED <<file, members, echoVars, loopVars, conn, noise, toPeer,
                   toNode, peerVars>>

(* MembershipActor: the map, and its two operations that change it.        *)
MapAdd(map, p) == map \cup {p}
MapRemove(map, p) == map \ {p}

AddMember ==
    /\ main.pc = "add_member"
    /\ members' = MapAdd(members, main.peer)
    /\ main' = [main EXCEPT !.pc = "send_helo"]
    /\ UNCHANGED <<file, echoVars, loopVars, conn, noise, wireVars, peerVars>>

(* The two reliable sends of the accept loop, each under a Timeout layer.  *)
SendToJoiner ==
    /\ main.pc \in {"send_helo", "send_membership"}
    /\ LET what == IF main.pc = "send_helo" THEN "helo" ELSE "membership" IN
       /\ SendReliably(main.peer, what, main.peer)
       /\ main' = [main EXCEPT !.pc = what]
    /\ UNCHANGED <<file, members, echoVars, loopVars, conn, stream, toNode,
                   peerVars>>

MutantAfterSend(m) ==
    At(IF m.pc = "helo" THEN "round_one" ELSE "accept", NoPeer)

AfterSend(m) == IF m.pc = "helo" THEN [m EXCEPT !.pc = "round_one"]
                                 ELSE At("accept", NoPeer)

(* The Timeout layer gives up; its error is ignored.                       *)
MutantTimeoutUnwrapped ==
    /\ main.pc \in {"helo", "membership"}
    /\ Die("deserted", main.peer)
    /\ UNCHANGED <<file, members, echoVars, loopVars, conn, noise, toPeer,
                   toNode, peerVars>>

MainTimesOut ==
    /\ main.pc \in {"helo", "membership"}
    /\ main' = AfterSend(main)
    /\ UNCHANGED <<file, members, echoVars, loopVars, conn, noise, wireVars,
                   peerVars>>

(* The echo broadcast service: get_members, and the call of the actor; its *)
(* channel is closed when the actor is gone.                               *)
BroadcastRoundOne ==
    /\ main.pc = "round_one"
    /\ IF echo.pc = "panicked"
         THEN /\ main' = [main EXCEPT !.pc = "send_membership"]
              /\ UNCHANGED calls
         ELSE /\ main' = [main EXCEPT !.pc = "broadcast"]
              /\ calls' = Append(calls, Call("main", main.peer, members))
    /\ UNCHANGED <<file, members, echo, waiter, reliable_senders, loopVars,
                   conn, noise, wireVars, peerVars>>

-----------------------------------------------------------------------------
(* The echo broadcast actor.                                               *)

TakeCall ==
    /\ ~Dead
    /\ echo.pc = "recv"
    /\ calls # <<>>
    /\ echo' = [pc |-> "sending", call |-> Head(calls),
                left |-> Head(calls).members, to |-> NoPeer]
    /\ calls' = Tail(calls)
    /\ UNCHANGED <<file, main, members, waiter, reliable_senders, loopVars,
                   conn, noise, wireVars, peerVars>>

SendToMember(p) ==
    /\ ~Dead
    /\ echo.pc = "sending"
    /\ echo.to = NoPeer
    /\ p \in echo.left
    /\ SendReliably(p, "package", echo.call.joiner)
    /\ echo' = [echo EXCEPT !.to = p]
    /\ UNCHANGED <<file, main, members, calls, waiter, reliable_senders,
                   loopVars, conn, stream, toNode, peerVars>>

(* Those in S get an Err from EchoBroadcastHandle::send.                   *)
MutantReturnErr(S) == UNCHANGED <<main, loop>>
ReturnErr(S) ==
    /\ main' = IF "main" \in S THEN [main EXCEPT !.pc = "send_membership"]
                               ELSE main
    /\ loop' = [p \in Peers |-> IF p \in S THEN "recv" ELSE loop[p]]

HasEchos(c) == c.members # {} \/ reliable_senders[c.joiner] # {}

(* All members have acknowledged: the call becomes the waiter of its       *)
(* message id, and a waiter it replaces is dropped.  Without any member the*)
(* actor panics, and its maps and its channel are dropped.                 *)
FinishSend ==
    LET c == echo.call IN
    /\ ~Dead
    /\ echo.pc = "sending"
    /\ echo.left = {}
    /\ IF HasEchos(c)
         THEN /\ echo' = EchoIdle
              /\ waiter' = [waiter EXCEPT ![c.joiner] = c.by]
              /\ reliable_senders' =
                   [reliable_senders EXCEPT ![c.joiner] = c.members]
              /\ ReturnErr({waiter[c.joiner]})
              /\ UNCHANGED calls
         ELSE /\ echo' = [EchoIdle EXCEPT !.pc = "panicked"]
              /\ calls' = <<>>
              /\ waiter' = [p \in Peers |-> "none"]
              /\ reliable_senders' = [p \in Peers |-> {}]
              /\ ReturnErr({c.by} \cup {waiter[p] : p \in Peers}
                             \cup {calls[i].by : i \in DOMAIN calls})
    /\ UNCHANGED <<file, members, inbox, conn, noise, wireVars, peerVars>>

-----------------------------------------------------------------------------
(* The connections.                                                        *)

(* Whom an ack from p wakes, if anybody still waits for it.                *)
WakeMain(p, body) ==
    main' = IF body[1] = "ack" /\ main = At(body[2], p) THEN AfterSend(main)
                                                        ELSE main
WakeEcho(p, body) ==
    echo' = IF body[1] = "ack" /\ body[2] = "package" /\ echo.to = p
              THEN [echo EXCEPT !.left = @ \ {p}, !.to = NoPeer]
              ELSE echo

(* A frame from p: decrypted; a message is acknowledged and goes to the    *)
(* event loop, an ack wakes its caller.                                    *)
ConnReads(p) ==
    LET f == Head(toNode[p])
        ack == TransportFrame(noise[p], <<"ack", f.body[2], f.body[3]>>)
    IN
    /\ ~Dead
    /\ conn[p] = "running"
    /\ toNode[p] # <<>>
    /\ toNode' = [toNode EXCEPT ![p] = Tail(@)]
    /\ IF ~CanReadTransport(noise[p], f)
         THEN /\ conn' = [conn EXCEPT ![p] = "panicked"]
              /\ UNCHANGED <<main, echo, noise, toPeer, inbox>>
         ELSE /\ WakeMain(p, f.body)
              /\ WakeEcho(p, f.body)
              /\ IF f.body[1] = "send"
                   THEN /\ noise' = [noise EXCEPT ![p] =
                                       AfterTransportOut(AfterTransportIn(@))]
                        /\ toPeer' = [toPeer EXCEPT ![p] = Written(p, @, ack)]
                        /\ inbox' = [inbox EXCEPT ![p] = Append(@, f.body)]
                   ELSE /\ noise' = [noise EXCEPT ![p] = AfterTransportIn(@)]
                        /\ UNCHANGED <<toPeer, inbox>>
              /\ UNCHANGED conn
    /\ UNCHANGED <<file, members, calls, waiter, reliable_senders, loop,
                   stream, peerVars>>

(* The stream is closed: run_connection_actor returns.                     *)
ConnStops(p) ==
    /\ ~Dead
    /\ conn[p] = "running"
    /\ stream[p] = "closed"
    /\ toNode[p] = <<>>
    /\ conn' = [conn EXCEPT ![p] = "stopped"]
    /\ UNCHANGED <<file, main, members, echoVars, loopVars, noise, wireVars,
                   peerVars>>

(* start_reliable_sender has no exit: spawned with the event loop, it runs *)
(* as long as the process, and with it the client_tx it owns lives.        *)
SenderRuns(p) == conn[p] \notin {"none", "handshake"}
ClientClosed(p) == ~SenderRuns(p)

(* client_receiver.recv() is None.                                         *)
MutantLoopEnds(p) == inbox[p] = <<>> /\ conn[p] = "stopped"
LoopEnds(p) == inbox[p] = <<>> /\ ClientClosed(p)

(* start_connection_event_loop: an oleh is not answered, a package is sent *)
(* on to the members (they do not change between get_members and the call: *)
(* only the accept loop adds any, and it waits).  At its end the loop      *)
(* removes its peer.                                                       *)
EventLoop(p) ==
    /\ ~Dead
    /\ loop[p] = "recv"
    /\ inbox[p] # <<>> \/ LoopEnds(p)
    /\ IF inbox[p] # <<>>
         THEN /\ inbox' = [inbox EXCEPT ![p] = Tail(@)]
              /\ IF Head(inbox[p])[2] # "package" \/ echo.pc = "panicked"
                   THEN UNCHANGED <<loop, calls>>
                   ELSE /\ loop' = [loop EXCEPT ![p] = "broadcast"]
                        /\ calls' = Append(calls,
                             Call(p, Head(inbox[p])[3], members))
              /\ UNCHANGED members
         ELSE /\ loop' = [loop EXCEPT ![p] = "ended"]
              /\ members' = MapRemove(members, p)
              /\ UNCHANGED <<inbox, calls>>
    /\ UNCHANGED <<file, main, echo, waiter, reliable_senders, conn, noise,
                   wireVars, peerVars>>

-----------------------------------------------------------------------------
(* The peers (connect_to_seeds and what follows, at a joiner).             *)

PeerConnects(p) ==
    /\ Listening
    /\ peer[p].pc = "off"
    /\ peer' = [peer EXCEPT ![p].pc = "m1"]
    /\ stream' = [stream EXCEPT ![p] = "open"]
    /\ UNCHANGED <<file, main, members, echoVars, loopVars, conn, noise,
                   toPeer, toNode, peerNoise>>

(* What is left to read of a stream.  Frames that have arrived behind the  *)
(* last one of the handshake stay in the FramedRead, which is handed on.   *)
MutantUnread(frames) == <<>>
Unread(frames) == Tail(frames)

(* A panic in the task of a peer that runs the handshake ends its process. *)
PeerDies(p, cause) ==
    /\ peer' = [peer EXCEPT ![p].pc = cause]
    /\ stream' = [stream EXCEPT ![p] = "closed"]

(* responder_handshake up to its second await: read the first message,     *)
(* write the second.                                                       *)
PeerReadsFirst(p) ==
    LET read == AfterHandshakeMessage(peerNoise[p]) IN
    /\ p \notin Silent
    /\ peer[p].pc = "m1"
    /\ toPeer[p] # <<>>
    /\ toPeer' = [toPeer EXCEPT ![p] = Tail(@)]
    /\ IF CanReadHandshake(peerNoise[p], Head(toPeer[p])) /\ CanBuildHandshake(read)
         THEN /\ peer' = [peer EXCEPT ![p].pc = "m3"]
              /\ peerNoise' = [peerNoise EXCEPT ![p] = AfterHandshakeMessage(read)]
              /\ toNode' = [toNode EXCEPT ![p] =
                              Written(p, @, HandshakeFrame(read))]
              /\ UNCHANGED stream
         ELSE PeerDies(p, "panicked") /\ UNCHANGED <<peerNoise, toNode>>
    /\ UNCHANGED <<file, main, members, echoVars, loopVars, conn, noise>>

(* responder_handshake from there: read the third message; then the        *)
(* transport starts.                                                       *)
PeerReadsThird(p) ==
    LET read == AfterHandshakeMessage(peerNoise[p]) IN
    /\ p \notin Silent
    /\ peer[p].pc = "m3"
    /\ toPeer[p] # <<>>
    /\ toPeer' = [toPeer EXCEPT ![p] = Unread(@)]
    /\ IF CanReadHandshake(peerNoise[p], Head(toPeer[p])) /\ CanStartTransport(read)
         THEN /\ peer' = [peer EXCEPT ![p].pc = "up"]
              /\ peerNoise' = [peerNoise EXCEPT ![p] = StartTransport(read)]
              /\ UNCHANGED stream
         ELSE PeerDies(p, "panicked") /\ UNCHANGED peerNoise
    /\ UNCHANGED <<file, main, members, echoVars, loopVars, conn, noise, toNode>>

(* The stream ends while the peer waits for a message of the handshake.    *)
PeerDeserted(p) ==
    /\ p \notin Silent
    /\ peer[p].pc \in {"m1", "m3"}
    /\ stream[p] = "closed"
    /\ toPeer[p] = <<>>
    /\ PeerDies(p, "deserted")
    /\ UNCHANGED <<file, main, members, echoVars, loopVars, conn, noise,
                   toPeer, toNode, peerNoise>>

(* connect_to_seeds: add_member, after the event loop has been spawned.    *)
PeerAddsSeed(p) ==
    /\ peer[p].pc = "up"
    /\ ~peer[p].added
    /\ peer' = [peer EXCEPT ![p].added = TRUE]
    /\ UNCHANGED <<file, main, members, echoVars, loopVars, conn, noise,
                   wireVars, peerNoise>>

(* A frame reaches a peer's connection: a message is acknowledged and goes *)
(* to the event loop.                                                      *)
PeerReads(p) ==
    LET f == Head(toPeer[p])
        ack == TransportFrame(peerNoise[p], <<"ack", f.body[2], f.body[3]>>)
    IN
    /\ peer[p].pc = "up"
    /\ toPeer[p] # <<>>
    /\ toPeer' = [toPeer EXCEPT ![p] = Tail(@)]
    /\ IF ~CanReadTransport(peerNoise[p], f)
         THEN /\ peer' = [peer EXCEPT ![p].pc = "panicked"]
              /\ UNCHANGED <<peerNoise, toNode>>
         ELSE IF f.body[1] = "send"
         THEN /\ peerNoise' = [peerNoise EXCEPT ![p] =
                                 AfterTransportOut(AfterTransportIn(@))]
              /\ toNode' = [toNode EXCEPT ![p] = Written(p, @, ack)]
              /\ peer' = IF peer[p].loop = "recv"
                           THEN [peer EXCEPT ![p].inbox = Append(@, f.body)]
                           ELSE peer
         ELSE /\ peerNoise' = [peerNoise EXCEPT ![p] = AfterTransportIn(@)]
              /\ UNCHANGED <<toNode, peer>>
    /\ UNCHANGED <<file, main, members, echoVars, loopVars, conn, noise, stream>>

(* The peer's event loop answers a message with f: the answer to a helo,   *)
(* for whose ack it waits no longer than its timeout, or the package, sent *)
(* on to its only member.                                                  *)
PeerAnswers(p, what, joiner, next) ==
    LET f == TransportFrame(peerNoise[p], <<"send", what, joiner>>) IN
    /\ toNode' = [toNode EXCEPT ![p] = Written(p, @, f)]
    /\ peerNoise' = [peerNoise EXCEPT ![p] = AfterTransportOut(@)]
    /\ peer' = [peer EXCEPT ![p] = next]

PeerTakes(p) ==
    LET body == Head(peer[p].inbox)
        next == [peer[p] EXCEPT !.inbox = Tail(@)]
    IN
    /\ peer[p].pc = "up"
    /\ peer[p].inbox # <<>>
    /\ \/ /\ body[2] = "helo"
          /\ PeerAnswers(p, "oleh", p, next)
       \/ /\ body[2] = "package" /\ peer[p].added /\ ~peer[p].mute
          /\ PeerAnswers(p, "package", body[3],
                         [next EXCEPT !.loop = "broadcast", !.inbox = <<>>])
       \/ /\ body[2] = "package" /\ ~(peer[p].added /\ ~peer[p].mute)
          /\ peer' = [peer EXCEPT ![p] = [next EXCEPT !.mute = TRUE]]
          /\ UNCHANGED <<toNode, peerNoise>>
       \/ /\ body[2] = "membership"
          /\ peer' = [peer EXCEPT ![p] = next]
          /\ UNCHANGED <<toNode, peerNoise>>
    /\ UNCHANGED <<file, main, members, echoVars, loopVars, conn, noise,
                   stream, toPeer>>

(* The stream breaks: each end still reads a prefix of what is in flight.  *)
Break(p) ==
    /\ stream[p] = "open"
    /\ stream' = [stream EXCEPT ![p] = "closed"]
    /\ \E i \in 0..Len(toPeer[p]), j \in 0..Len(toNode[p]) :
         /\ toPeer' = [toPeer EXCEPT ![p] = SubSeq(@, 1, i)]
         /\ toNode' = [toNode EXCEPT ![p] = SubSeq(@, 1, j)]
    /\ UNCHANGED <<file, main, members, echoVars, loopVars, conn, noise,
                   peerVars>>

-----------------------------------------------------------------------------
MainStep ==
    \/ Start \/ AcceptFails \/ AddMember \/ SendToJoiner \/ BroadcastRoundOne
    \/ \E p \in Peers : Accept(p) \/ FinishHandshake(p) \/ Deserted(p)
EchoStep == TakeCall \/ FinishSend \/ \E p \in Peers : SendToMember(p)
ConnStep(p) == ConnReads(p) \/ ConnStops(p)
PeerStep(p) ==
    \/ PeerReadsFirst(p) \/ PeerReadsThird(p) \/ PeerDeserted(p)
    \/ PeerAddsSeed(p) \/ PeerReads(p) \/ PeerTakes(p)

Next ==
    \/ MainStep \/ MainTimesOut \/ EchoStep
    \/ \E p \in Peers : \/ ConnStep(p) \/ EventLoop(p) \/ PeerStep(p)
                        \/ PeerConnects(p) \/ Break(p)

Spec == Init /\ [][Next]_vars

(* The runtime polls every task that can go on, at the node and at every   *)
(* peer that is not silent: those go on until their stream breaks.  Nothing*)
(* is assumed of timeouts, of breaks and of who connects.                  *)
Fairness ==
    /\ WF_vars(MainStep)
    /\ WF_vars(EchoStep)
    /\ \A p \in Peers : /\ WF_vars(ConnStep(p))
                        /\ WF_vars(EventLoop(p))
                        /\ WF_vars(PeerStep(p))

FairSpec == Spec /\ Fairness

-----------------------------------------------------------------------------
(* Properties.                                                             *)

PcsOfMain == {"off", "accept", "noise", "add_member", "send_helo", "helo",
              "round_one", "broadcast", "send_membership", "membership"} \cup Causes
Joining == {"noise", "add_member", "send_helo", "helo", "round_one"}
Messages == {"send", "ack"} \X {"helo", "oleh", "package", "membership"} \X Peers
Frames == [kind : {"handshake"}, n : Nat, body : {<<>>}]
            \cup [kind : {"transport"}, n : Nat, body : Messages]
NoiseStates == [initiator : BOOLEAN, mode : {"handshake", "transport"},
                done : Nat, out : Nat, in : Nat]
CallsOfEcho == [by : Peers \cup {"main"}, joiner : Peers, members : SUBSET Peers]

(* Type invariant.                                                         *)
TypeOK ==
    /\ file \in Files
    /\ main \in [pc : PcsOfMain, peer : Peers \cup {NoPeer}]
    /\ main.pc \in Joining => main.peer \in Peers
    /\ members \in SUBSET Peers
    /\ echo \in [pc : {"recv", "sending", "panicked"},
                 call : CallsOfEcho \cup {NoCall},
                 left : SUBSET Peers, to : Peers \cup {NoPeer}]
    /\ echo.pc = "sending" => echo.call \in CallsOfEcho
    /\ calls \in Seq(CallsOfEcho)
    /\ waiter \in [Peers -> Peers \cup {"none", "main"}]
    /\ reliable_senders \in [Peers -> SUBSET Peers]
    /\ loop \in [Peers -> {"none", "recv", "broadcast", "ended"}]
    /\ inbox \in [Peers -> Seq(Messages)]
    /\ conn \in [Peers -> {"none", "handshake", "running", "stopped", "panicked"}]
    /\ noise \in [Peers -> NoiseStates]
    /\ stream \in [Peers -> {"none", "open", "closed"}]
    /\ toPeer \in [Peers -> Seq(Frames)]
    /\ toNode \in [Peers -> Seq(Frames)]
    /\ peer \in [Peers -> [pc : {"off", "m1", "m3", "up", "deserted", "panicked"},
                           added : BOOLEAN, mute : BOOLEAN,
                           loop : {"recv", "broadcast"}, inbox : Seq(Messages)]]
    /\ peerNoise \in [Peers -> NoiseStates]

(* Nobody ever panics in the noise handler: every frame is read in the mode*)
(* and under the number it was written for.  The accepting node goes over  *)
(* to the transport when it has written the third message, and its helo may*)
(* reach a peer that still waits for that message, in the same read; both  *)
(* ends write acks and messages of their own; streams break in between.    *)
NoiseInStep ==
    /\ main.pc # "bad_frame"
    /\ \A p \in Peers : conn[p] # "panicked" /\ peer[p].pc # "panicked"

(* A file with which a node can serve: it names a key, no seeds and an     *)
(* address that is free, given or default.                                 *)
GivesOrLeaves(section, entry, v, default) ==
    IF section = <<>> \/ section[1][entry] = <<>> THEN v = default
                                                  ELSE section[1][entry] = <<v>>
Usable ==
    /\ file.kind = "toml"
    /\ file.noise # <<>> /\ file.noise[1].key = <<PemKey>>
    /\ GivesOrLeaves(file.peer, "seeds", <<>>, <<>>)
    /\ \A address \in Taken :
         ~ /\ GivesOrLeaves(file.network, "bind", address[1], "localhost")
           /\ GivesOrLeaves(file.network, "port", address[2], 6680)

(* A node with a usable file ends in two ways only: accept fails, or the   *)
(* stream of the connection it has accepted last ended before the second   *)
(* message of its handshake, be it while it was queued.  That peer is not a*)
(* member.  After a peer has joined neither its break, nor its silence, nor*)
(* anything it sends, nor a timeout ends the process: the errors of helo,  *)
(* broadcast and membership are ignored, and no frame is out of step.      *)
EndsOnlyBeforeJoin ==
    Usable /\ Dead =>
        \/ main.pc = "accept_failed"
        \/ \E p \in Peers \ members : /\ main = At("deserted", p)
                                     /\ stream[p] = "closed"
                                     /\ conn[p] = "handshake"

(* Who holds a clone of the handle of p's reliable sender.                 *)
HandleHeld(p) ==
    \/ main.peer = p /\ main.pc \notin {"accept", "noise"}
    \/ p \in members
    \/ loop[p] \in {"recv", "broadcast"}
    \/ \E q \in Peers : p \in reliable_senders[q]
    \/ p \in echo.call.members
    \/ \E i \in DOMAIN calls : p \in calls[i].members

(* The else branch of start_reliable_sender does not return: with all      *)
(* handles gone and the connection actor stopped, both channels are closed *)
(* and the actor would spin.  That never happens, since the event loop     *)
(* keeps a handle, and waits for the very actor the handle keeps alive.    *)
NoSpin ==
    \A p \in Peers : SenderRuns(p) /\ conn[p] # "running" => HandleHeld(p)

(* What may keep the accept loop from a queued connection: the process has *)
(* ended; it waits for the noise message of a silent peer; a member's      *)
(* stream has broken, and the broadcast waits for its ack; the package is  *)
(* with a peer whose echo broadcast actor has panicked.                    *)
Held ==
    \/ Dead
    \/ main.pc = "noise" /\ main.peer \in Silent
    \/ \E p \in members : stream[p] = "closed" \/ peer[p].mute

(* Every connection is served unless one of these reasons holds, whatever  *)
(* else breaks, times out or comes late.  (A member that stalls with its   *)
(* stream open holds the accept loop like one whose stream is closed; by   *)
(* Fairness only the silent peers stall, and they do so from the start.)   *)
BacklogServed == \A p \in Peers : Queued(p) ~> (~Queued(p) \/ Held)

(* The loop of no connection ends, so that the cleanup after it is not     *)
(* reached: the event loop keeps a handle of the reliable sender, which    *)
(* keeps the other end of the event loop's channel.                        *)
LoopsNeverEnd == \A p \in Peers : loop[p] # "ended"

(* The comment in run_connection_actor (connection.rs:150): "Stream closed,*)
(* return to clear up connection", and the one thing there is to clear up, *)
(* "Connection clean up" (node.rs:341): the peer is removed from the       *)
(* membership.                                                             *)
DeadPeerForgotten ==
    \A p \in Peers : conn[p] = "stopped" ~> (p \notin members \/ Dead)
=============================================================================
