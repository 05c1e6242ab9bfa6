--------------------------- MODULE ReliableSender ---------------------------
(***************************************************************************)
(* One link between two nodes: at each end a reliable sender actor         *)
(* (src/node/reliable_sender/mod.rs) on top of a connection actor          *)
(* (src/node/connection.rs), joined by a TCP stream.                       *)
(*                                                                         *)
(*   callers -> receiver -> reliable sender -> connection -> wire          *)
(*   event loop <- client <- reliable sender <- connection_receiver <- ... *)
(*                                                                         *)
(* Every arrow is a bounded channel.  The reliable sender waits for the    *)
(* connection actor to have written each frame it hands over; the          *)
(* connection actor does one thing at a time, so that it reads nothing     *)
(* while it writes or waits for room in connection_receiver.               *)
(*                                                                         *)
(* Left out: the payload of a message (a message is the call that sends    *)
(* it), its serialisation and encryption.  The stream and the timer are    *)
(* external: the stream keeps order, may break, and then loses a suffix of *)
(* what is in flight; a call made under a Timeout layer may time out.      *)
(*                                                                         *)
(* A definition whose name starts with Mutant is no part of the model: it  *)
(* is a wrong form of the definition after it, used to test the properties.*)
(***************************************************************************)
EXTENDS Naturals, Sequences, SequencesExt

CONSTANTS
    Ends,       \* the two ends of the link
    Peer,       \* Peer[e]: the other end
    Calls,      \* calls of ReliableSenderHandle::send
    Caller,     \* Caller[c]: the end at which c is called
    Timed,      \* the calls made under a tower Timeout layer
    NoCall,
    RsCap,      \* capacity of receiver (32 in the code)
    ConnCap,    \* capacity of connection_receiver (32)
    ClientCap,  \* capacity of the client channel (32)
    WireCap     \* frames the stream buffers in one direction

ASSUME EndsAssumption ==
    /\ Ends # {} /\ Peer \in [Ends -> Ends]
    /\ \A e \in Ends : Peer[e] # e /\ Peer[Peer[e]] = e
ASSUME CallsAssumption ==
    /\ Caller \in [Calls -> Ends]
    /\ Timed \subseteq Calls
    /\ NoCall \notin Calls
ASSUME CapAssumption == {RsCap, ConnCap, ClientCap, WireCap} \subseteq Nat \ {0}

VARIABLES
    outcome,              \* outcome[c]: what call c has returned
    receiver,             \* calls waiting for the reliable sender
    rs,                   \* what the reliable sender is doing
    sent,                 \* the calls it has taken: c is number n if sent[n] = c
    waiting_for_ack,      \* the numbered calls waiting for their ack
    ca,                   \* what the connection actor is doing
    connection_receiver,  \* frames from the connection actor
    client_rx,            \* messages for the connection's event loop
    handled,              \* history: messages the event loop has taken
    wire,                 \* wire[e]: the stream from e to Peer[e]
    link                  \* whether the stream is up

rsVars == <<rs, sent, waiting_for_ack>>
vars == <<outcome, receiver, rs, sent, waiting_for_ack, ca,
          connection_receiver, client_rx, handled, wire, link>>

Outcomes == {"new", "pending", "ok", "timeout"}

(* ReliableNetworkMessage                                                  *)
SendFrame(c, n) == [type |-> "Send", call |-> c, seq |-> n]
AckFrame(n) == [type |-> "Ack", call |-> NoCall, seq |-> n]
NoFrame == [type |-> "None", call |-> NoCall, seq |-> 0]

(* The reliable sender: in its select; waiting for the connection actor to *)
(* write the frame of a call or the ack of a received frame; waiting for   *)
(* room in the client channel for that frame's message.                    *)
Select == [state |-> "select", frame |-> NoFrame]
Sending(f) == [state |-> "sending", frame |-> f]
Acking(f) == [state |-> "acking", frame |-> f]
Delivering(f) == [state |-> "delivering", frame |-> f]

(* The connection actor: in its select; writing what the reliable sender   *)
(* waits for; waiting for room for a frame it has read; returned.          *)
Idle == [state |-> "select", frame |-> NoFrame]
Writing == [state |-> "writing", frame |-> NoFrame]
Forwarding(f) == [state |-> "forwarding", frame |-> f]
Stopped == [state |-> "stopped", frame |-> NoFrame]

Init ==
    /\ outcome = [c \in Calls |-> "new"]
    /\ receiver = [e \in Ends |-> <<>>]
    /\ rs = [e \in Ends |-> Select]
    /\ sent = [e \in Ends |-> <<>>]
    /\ waiting_for_ack = [e \in Ends |-> {}]
    /\ ca = [e \in Ends |-> Idle]
    /\ connection_receiver = [e \in Ends |-> <<>>]
    /\ client_rx = [e \in Ends |-> <<>>]
    /\ handled = [e \in Ends |-> <<>>]
    /\ wire = [e \in Ends |-> <<>>]
    /\ link = "up"

-----------------------------------------------------------------------------
(* ReliableSenderHandle::send and the Timeout layer around it.             *)

MutantRsRoom(e) == Len(receiver[e]) <= RsCap
RsRoom(e) == Len(receiver[e]) < RsCap

Call(c) ==
    LET e == Caller[c] IN
    /\ outcome[c] = "new"
    /\ RsRoom(e)
    /\ outcome' = [outcome EXCEPT ![c] = "pending"]
    /\ receiver' = [receiver EXCEPT ![e] = Append(@, c)]
    /\ UNCHANGED <<rs, sent, waiting_for_ack, ca, connection_receiver,
                   client_rx, handled, wire, link>>

(* The caller stops waiting; its message stays wherever it is.             *)
CallTimesOut(c) ==
    /\ c \in Timed
    /\ outcome[c] = "pending"
    /\ outcome' = [outcome EXCEPT ![c] = "timeout"]
    /\ UNCHANGED <<receiver, rs, sent, waiting_for_ack, ca,
                   connection_receiver, client_rx, handled, wire, link>>

-----------------------------------------------------------------------------
(* ReliableSenderActor.                                                    *)

MutantNextSequenceNumber(e) == 1
NextSequenceNumber(e) == Len(sent[e]) + 1

(* handle_message: number the message, remember its caller, and hand the   *)
(* frame to the connection actor.  The result of that is ignored: with the *)
(* connection actor gone nothing is written, and the caller is not told.   *)
HandleMessage(e) ==
    /\ rs[e] = Select
    /\ receiver[e] # <<>>
    /\ LET c == Head(receiver[e])
           n == NextSequenceNumber(e)
       IN /\ sent' = [sent EXCEPT ![e] = Append(@, c)]
          /\ waiting_for_ack' =
               [waiting_for_ack EXCEPT ![e] =
                  {w \in @ : w.seq # n} \cup {[seq |-> n, call |-> c]}]
          /\ rs' = [rs EXCEPT ![e] = IF ca[e] = Stopped
                                       THEN Select ELSE Sending(SendFrame(c, n))]
    /\ receiver' = [receiver EXCEPT ![e] = Tail(@)]
    /\ UNCHANGED <<outcome, ca, connection_receiver, client_rx, handled, wire,
                   link>>

(* handle_connection_message, a Send: the ack comes first; when it cannot  *)
(* be sent the message is not delivered.                                   *)
MutantAfterSendFrame(e, f) == IF ca[e] = Stopped THEN Delivering(f) ELSE Acking(f)
AfterSendFrame(e, f) == IF ca[e] = Stopped THEN Select ELSE Acking(f)

HandleSendFrame(e) ==
    /\ rs[e] = Select
    /\ connection_receiver[e] # <<>>
    /\ LET f == Head(connection_receiver[e])
       IN /\ f.type = "Send"
          /\ rs' = [rs EXCEPT ![e] = AfterSendFrame(e, f)]
    /\ connection_receiver' = [connection_receiver EXCEPT ![e] = Tail(@)]
    /\ UNCHANGED <<outcome, receiver, sent, waiting_for_ack, ca, client_rx,
                   handled, wire, link>>

(* sender.send(Ok(())): no effect on a caller that has stopped waiting.    *)
Answer(o) == IF o = "pending" THEN "ok" ELSE o

(* handle_connection_message, an Ack: answer the call with that number.    *)
HandleAckFrame(e) ==
    /\ rs[e] = Select
    /\ connection_receiver[e] # <<>>
    /\ LET f == Head(connection_receiver[e])
           acked == {w \in waiting_for_ack[e] : w.seq = f.seq}
       IN /\ f.type = "Ack"
          /\ waiting_for_ack' = [waiting_for_ack EXCEPT ![e] = @ \ acked]
          /\ outcome' = [c \in Calls |->
               IF \E w \in acked : w.call = c THEN Answer(outcome[c])
                                              ELSE outcome[c]]
    /\ connection_receiver' = [connection_receiver EXCEPT ![e] = Tail(@)]
    /\ UNCHANGED <<receiver, rs, sent, ca, client_rx, handled, wire, link>>

(* client_tx.send(message), once there is room.                            *)
MutantTryDeliver(e) ==
    /\ rs[e].state = "delivering"
    /\ client_rx' = [client_rx EXCEPT ![e] =
                       IF Len(@) < ClientCap THEN Append(@, rs[e].frame.call)
                                             ELSE @]
    /\ rs' = [rs EXCEPT ![e] = Select]
    /\ UNCHANGED <<outcome, receiver, sent, waiting_for_ack, ca,
                   connection_receiver, handled, wire, link>>

Deliver(e) ==
    /\ rs[e].state = "delivering"
    /\ Len(client_rx[e]) < ClientCap
    /\ client_rx' = [client_rx EXCEPT ![e] = Append(@, rs[e].frame.call)]
    /\ rs' = [rs EXCEPT ![e] = Select]
    /\ UNCHANGED <<outcome, receiver, sent, waiting_for_ack, ca,
                   connection_receiver, handled, wire, link>>

-----------------------------------------------------------------------------
(* ConnectionActor.                                                        *)

WaitsForWrite(e) == rs[e].state \in {"sending", "acking"}

OutFrame(e) == IF rs[e].state = "sending" THEN rs[e].frame
                                          ELSE AckFrame(rs[e].frame.seq)

(* What the reliable sender does with the result of a write.               *)
MutantAfterWrite(e) == Select
AfterWrite(e) == IF rs[e].state = "sending" THEN Select
                                            ELSE Delivering(rs[e].frame)

AfterFailedWrite(e) == Select

(* handle_message: take the command of the reliable sender.                *)
TakeCommand(e) ==
    /\ ca[e] = Idle
    /\ WaitsForWrite(e)
    /\ ca' = [ca EXCEPT ![e] = Writing]
    /\ UNCHANGED <<outcome, receiver, rs, sent, waiting_for_ack,
                   connection_receiver, client_rx, handled, wire, link>>

(* handle_send: the stream takes the frame and the reliable sender goes on.*)
Write(e) ==
    /\ ca[e] = Writing
    /\ link = "up"
    /\ Len(wire[e]) < WireCap
    /\ wire' = [wire EXCEPT ![e] = Append(@, OutFrame(e))]
    /\ ca' = [ca EXCEPT ![e] = Idle]
    /\ rs' = [rs EXCEPT ![e] = AfterWrite(e)]
    /\ UNCHANGED <<outcome, receiver, sent, waiting_for_ack,
                   connection_receiver, client_rx, handled, link>>

(* handle_send on a broken stream that still accepts bytes: they are lost. *)
WriteLost(e) ==
    /\ ca[e] = Writing
    /\ link = "down"
    /\ ca' = [ca EXCEPT ![e] = Idle]
    /\ rs' = [rs EXCEPT ![e] = AfterWrite(e)]
    /\ UNCHANGED <<outcome, receiver, sent, waiting_for_ack,
                   connection_receiver, client_rx, handled, wire, link>>

(* handle_send on a broken stream, an error: the actor returns.            *)
WriteFails(e) ==
    /\ ca[e] = Writing
    /\ link = "down"
    /\ ca' = [ca EXCEPT ![e] = Stopped]
    /\ rs' = [rs EXCEPT ![e] = AfterFailedWrite(e)]
    /\ UNCHANGED <<outcome, receiver, sent, waiting_for_ack,
                   connection_receiver, client_rx, handled, wire, link>>

(* reader.next() yields a frame.                                           *)
Read(e) ==
    /\ ca[e] = Idle
    /\ wire[Peer[e]] # <<>>
    /\ ca' = [ca EXCEPT ![e] = Forwarding(Head(wire[Peer[e]]))]
    /\ wire' = [wire EXCEPT ![Peer[e]] = Tail(@)]
    /\ UNCHANGED <<outcome, receiver, rs, sent, waiting_for_ack,
                   connection_receiver, client_rx, handled, link>>

(* handle_received: subscriber.send(network_message), once there is room.  *)
MutantHasRoom(e) == Len(connection_receiver[e]) < 1
HasRoom(e) == Len(connection_receiver[e]) < ConnCap

Forward(e) ==
    /\ ca[e].state = "forwarding"
    /\ HasRoom(e)
    /\ connection_receiver' =
         [connection_receiver EXCEPT ![e] = Append(@, ca[e].frame)]
    /\ ca' = [ca EXCEPT ![e] = Idle]
    /\ UNCHANGED <<outcome, receiver, rs, sent, waiting_for_ack, client_rx,
                   handled, wire, link>>

(* reader.next() yields None or an error: the actor returns, and a command *)
(* of the reliable sender it has not taken is dropped with its channel.    *)
ReadClosed(e) ==
    /\ ca[e] = Idle
    /\ link = "down"
    /\ wire[Peer[e]] = <<>>
    /\ ca' = [ca EXCEPT ![e] = Stopped]
    /\ rs' = [rs EXCEPT ![e] = IF WaitsForWrite(e) THEN AfterFailedWrite(e)
                                                   ELSE @]
    /\ UNCHANGED <<outcome, receiver, sent, waiting_for_ack,
                   connection_receiver, client_rx, handled, wire, link>>

-----------------------------------------------------------------------------
(* The environment of the link.                                            *)

(* The connection's event loop takes the next message.                     *)
ClientTakes(e) ==
    /\ client_rx[e] # <<>>
    /\ handled' = [handled EXCEPT ![e] = Append(@, Head(client_rx[e]))]
    /\ client_rx' = [client_rx EXCEPT ![e] = Tail(@)]
    /\ UNCHANGED <<outcome, receiver, rs, sent, waiting_for_ack, ca,
                   connection_receiver, wire, link>>

(* The stream breaks: what each end will still read is a prefix of what is *)
(* in flight.                                                              *)
Break ==
    /\ link = "up"
    /\ link' = "down"
    /\ \E kept \in [Ends -> 0..WireCap] :
         /\ \A e \in Ends : kept[e] <= Len(wire[e])
         /\ wire' = [e \in Ends |-> SubSeq(wire[e], 1, kept[e])]
    /\ UNCHANGED <<outcome, receiver, rs, sent, waiting_for_ack, ca,
                   connection_receiver, client_rx, handled>>

-----------------------------------------------------------------------------
RsStep(e) == \/ HandleMessage(e) \/ HandleSendFrame(e)
             \/ HandleAckFrame(e) \/ Deliver(e)
CaStep(e) == \/ TakeCommand(e) \/ Write(e) \/ WriteLost(e) \/ WriteFails(e)
             \/ Read(e) \/ Forward(e) \/ ReadClosed(e)

Next ==
    \/ \E c \in Calls : Call(c) \/ CallTimesOut(c)
    \/ \E e \in Ends : RsStep(e) \/ CaStep(e) \/ ClientTakes(e)
    \/ Break

Spec == Init /\ [][Next]_vars

(* The runtime polls every task that can run.  Nothing is assumed of the   *)
(* event loops: they may stop taking messages for ever, and do so when they*)
(* wait for a broadcast (Node!EventLoopReturns fails).                     *)
Fairness == \A e \in Ends : WF_vars(RsStep(e)) /\ WF_vars(CaStep(e))

FairSpec == Spec /\ Fairness

-----------------------------------------------------------------------------
(* Properties.                                                             *)

Frames == [type : {"Send"}, call : Calls, seq : Nat]
            \cup [type : {"Ack"}, call : {NoCall}, seq : Nat]
RsStates ==
    {Select} \cup [state : {"sending", "acking", "delivering"}, frame : Frames]
CaStates ==
    {Idle, Writing, Stopped} \cup [state : {"forwarding"}, frame : Frames]

(* Type invariant of the link; no channel holds more than its capacity.    *)
TypeOK ==
    /\ outcome \in [Calls -> Outcomes]
    /\ receiver \in [Ends -> Seq(Calls)]
    /\ rs \in [Ends -> RsStates]
    /\ sent \in [Ends -> Seq(Calls)]
    /\ waiting_for_ack \in [Ends -> SUBSET [seq : Nat, call : Calls]]
    /\ ca \in [Ends -> CaStates]
    /\ connection_receiver \in [Ends -> Seq(Frames)]
    /\ client_rx \in [Ends -> Seq(Calls)]
    /\ handled \in [Ends -> Seq(Calls)]
    /\ wire \in [Ends -> Seq(Frames)]
    /\ link \in {"up", "down"}
    /\ \A e \in Ends : /\ Len(receiver[e]) <= RsCap
                       /\ Len(connection_receiver[e]) <= ConnCap
                       /\ Len(client_rx[e]) <= ClientCap
                       /\ Len(wire[e]) <= WireCap

(* What end e has received: taken by its event loop, in its client channel,*)
(* or in the hands of its reliable sender on the way there.                *)
Received(e) ==
    handled[e] \o client_rx[e] \o
      (IF rs[e].state = "delivering" THEN <<rs[e].frame.call>> ELSE <<>>)

(* ReliableSenderHandle::send returns Ok only when the message has reached *)
(* the other end's client channel for good.  The ack is sent before the    *)
(* message is delivered, so this rests on the order of the two and on what *)
(* happens to the message when the ack cannot be sent.                     *)
OkMeansDelivered ==
    \A c \in Calls : outcome[c] = "ok" =>
        Contains(Received(Peer[Caller[c]]), c)

(* Messages are received at most once, in the order they were numbered, and*)
(* without gaps, whatever the moment at which the stream breaks.           *)
ReceivedInOrder == \A e \in Ends : IsPrefix(Received(Peer[e]), sent[e])

(* A caller still waiting can still be answered: its call is in the        *)
(* receiver channel or in waiting_for_ack under the number it was sent     *)
(* with, and no other call has that number.                                *)
PendingIsTracked ==
    \A c \in Calls : outcome[c] = "pending" =>
        LET e == Caller[c] IN
        \/ Contains(receiver[e], c)
        \/ \E w \in waiting_for_ack[e] :
              /\ w.call = c
              /\ w.seq \in DOMAIN sent[e] /\ sent[e][w.seq] = c
              /\ \A v \in waiting_for_ack[e] : v.seq = w.seq => v = w

(* No deadlock between the actors.  Within an end: the connection actor    *)
(* waits for room that only the reliable sender makes, which waits for the *)
(* connection actor's write.  Across the link: both connection actors wait *)
(* for room in the stream that only the other one makes.                   *)
NoCircularWait ==
    /\ \A e \in Ends : ~(/\ ca[e].state = "forwarding"
                        /\ ~HasRoom(e)
                        /\ WaitsForWrite(e))
    /\ link = "up" =>
         \E e \in Ends : ~(ca[e] = Writing /\ Len(wire[e]) >= WireCap)

(* No event loop leaves its channel full for ever.  It may stop earlier:   *)
(* what is still in the channel then is never handled.                     *)
ClientsHaveRoom == \A e \in Ends : []<>(Len(client_rx[e]) < ClientCap)

(* While the stream is up and the client channels have room every call is  *)
(* answered, if only by its timeout, whether or not an event loop handles  *)
(* its message.                                                            *)
CallsAnswered ==
    ClientsHaveRoom =>
        \A c \in Calls : outcome[c] = "pending" ~>
                            (outcome[c] # "pending" \/ link = "down")

(* Under the same condition every message that was handed over gets into   *)
(* the client channel of the other end: none is forgotten between the two  *)
(* actors there, where it is acknowledged first and passed on afterwards.  *)
SentReachesClient ==
    ClientsHaveRoom =>
        \A c \in Calls : Contains(sent[Caller[c]], c) ~>
            LET e == Peer[Caller[c]] IN
            Contains(handled[e] \o client_rx[e], c) \/ link = "down"

(* The link keeps the promises of ReliableChannel.                         *)
Channel == INSTANCE ReliableChannel WITH
    received <- [e \in Ends |-> Received(e)],
    confirmed <- {c \in Calls : outcome[c] = "ok"}

Implements == Channel!Spec

(* The comment on respond_to (reliable_sender/mod.rs:37): "oneshot channel *)
(* to send ACK or Failure to".  A call made without a timeout is answered, *)
(* whatever becomes of the stream.                                         *)
AckOrFailure ==
    \A c \in Calls : outcome[c] = "pending" ~> outcome[c] # "pending"
=============================================================================
