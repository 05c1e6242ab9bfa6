-------------------- MODULE ReliableSenderDeadlockProofs --------------------
(* When the actors of a link can come to wait for each other, for every set*)
(* of calls and all positive capacities: not before more calls are         *)
(* unacknowledged at once than the channels have room for.                 *)
EXTENDS ReliableSenderProofs, FiniteSetTheorems

-----------------------------------------------------------------------------
(* The calls of a link that wait for an ack, at either end of it.          *)
Unacked(e) == waiting_for_ack[e] \cup waiting_for_ack[Peer[e]]

(* The connection actor of e waits for room that its reliable sender would *)
(* make, which waits for it to write.                                      *)
ReaderBlocked(e) ==
    ca[e].state = "forwarding" /\ ~HasRoom(e) /\ WaitsForWrite(e)

(* The connection actor of e waits for room in the stream.                 *)
WriterBlocked(e) == ca[e] = Writing /\ Len(wire[e]) >= WireCap

(* Every frame of a blocked link, in a channel or in the hands of an actor,*)
(* belongs to a call of its own that is still unacknowledged.              *)
CircularWaitHasBacklog ==
    \A e \in Ends :
        /\ ReaderBlocked(e) => Cardinality(Unacked(e)) >= ConnCap + 2
        /\ link = "up" /\ WriterBlocked(e) /\ WriterBlocked(Peer[e])
             => Cardinality(Unacked(e)) >= 2 * WireCap + 2

Entry(c, n) == [seq |-> n, call |-> c]

(* The Ack frames of q are for calls that still wait for their ack, in the *)
(* order of their numbers.                                                 *)
AcksOpen(q, calls, waiting) ==
    \A i \in 1..Len(q) : q[i].type = "Ack" =>
        /\ Entry(calls[q[i].seq], q[i].seq) \in waiting
        /\ \A j \in 1..(i - 1) : q[j].type = "Ack" => q[j].seq < q[i].seq

(* A call the other end has not received still waits for its ack.          *)
UnreceivedOpen(e) ==
    \A n \in 1..Len(sent[e]) :
        n > Len(Received(Peer[e])) => Entry(sent[e][n], n) \in waiting_for_ack[e]

OpenInv ==
    \A e \in Ends : /\ AcksOpen(InFlight(e), sent[e], waiting_for_ack[e])
                    /\ UnreceivedOpen(e)

-----------------------------------------------------------------------------
(* Queues of acks.                                                         *)

LEMMA TailAcks ==
    ASSUME NEW q \in Seq(Frames), NEW calls, NEW waiting,
           AcksOpen(q, calls, waiting), q # <<>>
    PROVE  AcksOpen(Tail(q), calls, waiting)
  <1> DEFINE t == Tail(q)
  <1>1. /\ Len(t) = Len(q) - 1 /\ Len(q) \in Nat \ {0}
        /\ \A i \in 1..Len(q) - 1 : t[i] = q[i + 1]
    BY TailType
  <1> HIDE DEF t
  <1>2. ASSUME NEW i \in 1..Len(t), t[i].type = "Ack"
        PROVE  /\ Entry(calls[t[i].seq], t[i].seq) \in waiting
               /\ \A j \in 1..(i - 1) : t[j].type = "Ack" => t[j].seq < t[i].seq
    <2>1. i + 1 \in 1..Len(q) /\ t[i] = q[i + 1] /\ i \in Nat
      BY <1>1
    <2>2. /\ Entry(calls[q[i + 1].seq], q[i + 1].seq) \in waiting
          /\ \A j \in 1..((i + 1) - 1) :
               q[j].type = "Ack" => q[j].seq < q[i + 1].seq
      BY <2>1, <1>2 DEF AcksOpen
    <2>3. ASSUME NEW j \in 1..(i - 1), t[j].type = "Ack"
          PROVE  t[j].seq < t[i].seq
      <3>1. j + 1 \in 1..((i + 1) - 1) /\ t[j] = q[j + 1]
        BY <1>1, <2>1
      <3> QED
        BY <3>1, <2>1, <2>2, <2>3
    <2> QED
      BY <2>1, <2>2, <2>3
  <1> QED
    BY <1>2 DEF AcksOpen, t

LEMMA PrefixAcks ==
    ASSUME NEW q \in Seq(Frames), NEW calls, NEW waiting,
           AcksOpen(q, calls, waiting), NEW n \in 0..Len(q)
    PROVE  AcksOpen(SubSeq(q, 1, n), calls, waiting)
  <1> DEFINE t == SubSeq(q, 1, n)
  <1>1. Len(t) = n /\ \A i \in 1..n : t[i] = q[i]
    BY PrefixType
  <1> HIDE DEF t
  <1>2. ASSUME NEW i \in 1..n
        PROVE  /\ i \in 1..Len(q) /\ t[i] = q[i]
               /\ \A j \in 1..(i - 1) : t[j] = q[j]
    BY <1>1
  <1> QED
    BY <1>1, <1>2 DEF AcksOpen, t

(* A Send frame, or the ack of a call that waits and has a number beyond   *)
(* those of the acks before it.                                            *)
LEMMA AppendAcks ==
    ASSUME NEW q \in Seq(Frames), NEW calls, NEW waiting,
           AcksOpen(q, calls, waiting), NEW f \in Frames,
           f.type = "Ack" =>
             /\ Entry(calls[f.seq], f.seq) \in waiting
             /\ \A j \in 1..Len(q) : q[j].type = "Ack" => q[j].seq < f.seq
    PROVE  AcksOpen(Append(q, f), calls, waiting)
  <1> DEFINE t == Append(q, f)
  <1>1. /\ Len(t) = Len(q) + 1 /\ Len(q) \in Nat /\ t[Len(q) + 1] = f
        /\ \A i \in 1..Len(q) : t[i] = q[i]
    BY AppendType
  <1> HIDE DEF t
  <1>2. ASSUME NEW i \in 1..Len(t), t[i].type = "Ack"
        PROVE  /\ Entry(calls[t[i].seq], t[i].seq) \in waiting
               /\ \A j \in 1..(i - 1) : t[j].type = "Ack" => t[j].seq < t[i].seq
    <2>1. CASE i \in 1..Len(q)
      <3>1. t[i] = q[i] /\ \A j \in 1..(i - 1) : t[j] = q[j]
        BY <2>1, <1>1
      <3> QED
        BY <3>1, <2>1, <1>2 DEF AcksOpen
    <2>2. CASE i = Len(q) + 1
      <3>1. t[i] = f /\ \A j \in 1..(i - 1) : j \in 1..Len(q) /\ t[j] = q[j]
        BY <2>2, <1>1
      <3> QED
        BY <3>1, <1>2
    <2> QED
      BY <2>1, <2>2, <1>1
  <1> QED
    BY <1>2 DEF AcksOpen, t

-----------------------------------------------------------------------------
(* What a step does to the frames in flight to an end.                     *)

LEMMA WriteFlight ==
    ASSUME TypeOK, TasksInv, FramesInv, NEW x \in Ends, Write(x), NEW e \in Ends
    PROVE  /\ Peer[e] # x => InFlight(e)' = InFlight(e)
           /\ Peer[e] = x => InFlight(e)' = Append(InFlight(e), OutFrame(x))
           /\ OutFrame(x) \in Frames
  <1> DEFINE f == OutFrame(x)
             fw == IF ca[e].state = "forwarding" THEN <<ca[e].frame>> ELSE <<>>
             u == connection_receiver[e] \o fw
  <1>0. /\ ca \in [Ends -> CaStates] /\ wire \in [Ends -> Seq(Frames)]
        /\ connection_receiver \in [Ends -> Seq(Frames)] /\ Peer[e] \in Ends
        /\ ca[e] \in CaStates
    BY EndsAssumption DEF TypeOK
  <1>1. /\ ca[x] = Writing /\ wire' = [wire EXCEPT ![x] = Append(wire[x], f)]
        /\ ca' = [ca EXCEPT ![x] = Idle]
        /\ connection_receiver' = connection_receiver
    BY DEF Write
  <1>2. f \in Frames
    <2>1. rs[x].state \in {"sending", "acking"}
      BY <1>1 DEF TasksInv, WaitsForWrite
    <2>2. rs[x].frame \in Frames
      BY <2>1, QueuesType
    <2> QED
      BY <2>2, FrameType DEF OutFrame
  <1>3. InFlight(e)' = u \o wire'[Peer[e]]
    <2>1. CASE e = x
      <3>1. ca[x].state # "forwarding" /\ ca'[x].state # "forwarding"
        BY <1>0, <1>1, CaType
      <3> QED
        BY <3>1, <2>1, <1>1 DEF InFlight
    <2>2. CASE e # x
      <3>1. ca'[e] = ca[e]
        BY <2>2, <1>0, <1>1
      <3> QED
        BY <3>1, <1>1 DEF InFlight
    <2> QED
      BY <2>1, <2>2
  <1>4. InFlight(e) = u \o wire[Peer[e]]
    BY DEF InFlight
  <1>5. u \in Seq(Frames)
    <2>1. fw \in Seq(Frames)
      BY <1>0, CaType, SmallType
    <2> HIDE DEF fw
    <2> QED
      BY <2>1, <1>0, ConcatType
  <1> HIDE DEF u, f
  <1>6. Peer[e] # x => wire'[Peer[e]] = wire[Peer[e]]
    BY <1>0, <1>1
  <1>7. Peer[e] = x => wire'[x] = Append(wire[x], f) /\ wire[x] \in Seq(Frames)
    BY <1>0, <1>1
  <1>8. ASSUME Peer[e] = x
        PROVE  u \o wire'[x] = Append(u \o wire[x], f)
    <2>1. wire'[x] = Append(wire[x], f) /\ wire[x] \in Seq(Frames)
      BY <1>7, <1>8
    <2>2. u \o Append(wire[x], f) = Append(u \o wire[x], f)
      BY <2>1, <1>2, <1>5, ConcatAppend
    <2> QED
      BY <2>1, <2>2
  <1> QED
    BY <1>2, <1>3, <1>4, <1>6, <1>8 DEF f

LEMMA BreakFlight ==
    ASSUME TypeOK, TasksInv, Break, NEW e \in Ends
    PROVE  \E n \in 0..Len(InFlight(e)) : InFlight(e)' = SubSeq(InFlight(e), 1, n)
  <1> DEFINE p == Peer[e]
             fw == IF ca[e].state = "forwarding" THEN <<ca[e].frame>> ELSE <<>>
             u == connection_receiver[e] \o fw
  <1>0. /\ p \in Ends /\ wire[p] \in Seq(Frames)
        /\ connection_receiver[e] \in Seq(Frames) /\ ca[e] \in CaStates
    BY EndsAssumption DEF TypeOK
  <1>1. PICK kept \in [Ends -> 0..WireCap] :
            /\ \A d \in Ends : kept[d] <= Len(wire[d])
            /\ wire' = [d \in Ends |-> SubSeq(wire[d], 1, kept[d])]
    BY DEF Break
  <1>2. wire'[p] = SubSeq(wire[p], 1, kept[p]) /\ kept[p] \in 0..Len(wire[p])
    <2>1. kept[p] \in Nat
      BY <1>0, <1>1, CapAssumption
    <2> QED
      BY <2>1, <1>0, <1>1
  <1>3. u \in Seq(Frames)
    <2>1. fw \in Seq(Frames)
      BY <1>0, CaType, SmallType
    <2> HIDE DEF fw
    <2> QED
      BY <2>1, <1>0, ConcatType
  <1>4. InFlight(e) = u \o wire[p] /\ InFlight(e)' = u \o wire'[p]
    BY DEF InFlight, Break
  <1> HIDE DEF u
  <1>5. /\ u \o SubSeq(wire[p], 1, kept[p]) = SubSeq(u \o wire[p], 1, Len(u) + kept[p])
        /\ Len(u) + kept[p] \in 0..Len(u \o wire[p])
    BY <1>0, <1>2, <1>3, ConcatPrefix
  <1> QED
    BY <1>2, <1>4, <1>5

LEMMA FlightMoves ==
    ASSUME TypeOK, TasksInv, FramesInv, [Next]_vars, NEW e \in Ends
    PROVE  \/ InFlight(e)' = InFlight(e)
           \/ InFlight(e) # <<>> /\ InFlight(e)' = Tail(InFlight(e))
           \/ \E n \in 0..Len(InFlight(e)) : InFlight(e)' = SubSeq(InFlight(e), 1, n)
           \/ Write(Peer[e]) /\ InFlight(e)' = Append(InFlight(e), OutFrame(Peer[e]))
  <1>1. CASE \/ UNCHANGED vars
             \/ \E c \in Calls : Call(c) \/ CallTimesOut(c)
             \/ \E x \in Ends : HandleMessage(x)
    <2>1. UNCHANGED <<ca, connection_receiver, wire>>
      BY <1>1 DEF vars, Call, CallTimesOut, HandleMessage
    <2> QED
      BY <2>1 DEF InFlight
  <1>2. CASE \E x \in Ends : \/ TakeCommand(x) \/ Read(x) \/ Forward(x)
                           \/ Deliver(x) \/ ClientTakes(x)
    BY <1>2, QuietQueues
  <1>3. CASE \E x \in Ends : HandleSendFrame(x) \/ HandleAckFrame(x)
    <2>1. PICK x \in Ends : HandleSendFrame(x) \/ HandleAckFrame(x)
      BY <1>3
    <2>2. /\ connection_receiver[x] # <<>>
          /\ connection_receiver' =
               [connection_receiver EXCEPT ![x] = Tail(connection_receiver[x])]
          /\ UNCHANGED <<ca, wire>>
      BY <2>1 DEF HandleSendFrame, HandleAckFrame
    <2> QED
      BY <2>2, TakeFrame
  <1>4. CASE \E x \in Ends : Write(x)
    <2>1. PICK x \in Ends : Write(x)
      BY <1>4
    <2> QED
      BY <2>1, WriteFlight
  <1>5. CASE \E x \in Ends : WriteLost(x) \/ WriteFails(x) \/ ReadClosed(x)
    <2>1. PICK x \in Ends : WriteLost(x) \/ WriteFails(x) \/ ReadClosed(x)
      BY <1>5
    <2>2. /\ ca \in [Ends -> CaStates]
          /\ ca[x] = Writing \/ ca[x] = Idle
          /\ ca' = [ca EXCEPT ![x] = Idle] \/ ca' = [ca EXCEPT ![x] = Stopped]
          /\ UNCHANGED <<connection_receiver, wire>>
      BY <2>1 DEF WriteLost, WriteFails, ReadClosed, TypeOK
    <2>3. CASE e = x
      <3>1. ca[x].state # "forwarding" /\ ca'[x].state # "forwarding"
        BY <2>2, CaType
      <3> QED
        BY <3>1, <2>2, <2>3 DEF InFlight
    <2>4. CASE e # x
      <3>1. ca'[e] = ca[e]
        BY <2>2, <2>4
      <3> QED
        BY <3>1, <2>2 DEF InFlight
    <2> QED
      BY <2>3, <2>4
  <1>6. CASE Break
    BY <1>6, BreakFlight
  <1> QED
    BY <1>1, <1>2, <1>3, <1>4, <1>5, <1>6 DEF Next, RsStep, CaStep

-----------------------------------------------------------------------------
(* OpenInv is inductive.                                                   *)

(* What an end has received never gets shorter, and what it has accepted   *)
(* and not received is the message whose ack it is about to write.         *)
LEMMA ReceivedLonger ==
    ASSUME TypeOK, TasksInv, FramesInv, [Next]_vars, NEW e \in Ends
    PROVE  /\ Len(Received(e)) \in Nat /\ Len(Received(e))' \in Nat
           /\ Len(Received(e))' >= Len(Received(e))
  <1>1. Len(Received(e)) \in Nat
    BY QueuesType
  <1>2. CASE Received(e)' = Received(e)
    BY <1>1, <1>2
  <1>3. CASE rs[e].state = "acking" /\ Received(e)' = Accepted(e)
    <2>1. /\ Received(e) \in Seq(Calls) /\ rs[e].frame.call \in Calls
          /\ Received(e)' = Append(Received(e), rs[e].frame.call)
      BY <1>3, QueuesType
    <2>2. Len(Received(e)') = Len(Received(e)) + 1
      BY <2>1, AppendType
    <2> QED
      BY <2>2, <1>1
  <1> QED
    BY <1>2, <1>3, ReceivedStep

(* How far the messages of end p have come at the other end, e.            *)
LEMMA Counts ==
    ASSUME TypeOK, TasksInv, FramesInv, NEW e \in Ends
    PROVE  /\ Peer[e] \in Ends /\ Peer[e] # e /\ Peer[Peer[e]] = e
           /\ Len(Received(e)) \in Nat /\ Len(Accepted(e)) \in Nat
           /\ Len(Received(e)) <= Len(Accepted(e))
           /\ rs[e].state = "acking" => Len(Accepted(e)) = Len(Received(e)) + 1
           /\ Len(Accepted(e)) <= Handed(Peer[e])
           /\ Handed(Peer[e]) \in Nat /\ Len(sent[Peer[e]]) \in Nat
           /\ Handed(Peer[e]) <= Len(sent[Peer[e]])
           /\ rs[Peer[e]].state = "sending" =>
                Handed(Peer[e]) + 1 = Len(sent[Peer[e]])
  <1>1. Peer[e] \in Ends /\ Peer[e] # e /\ Peer[Peer[e]] = e
    BY EndsAssumption
  <1>2. /\ Len(Received(e)) \in Nat /\ Len(Accepted(e)) \in Nat
        /\ Received(e) \in Seq(Calls)
        /\ rs[e].state # "acking" => Accepted(e) = Received(e)
        /\ rs[e].state = "acking" =>
             /\ rs[e].frame.call \in Calls
             /\ Accepted(e) = Append(Received(e), rs[e].frame.call)
    BY QueuesType
  <1>3. rs[e].state = "acking" => Len(Accepted(e)) = Len(Received(e)) + 1
    BY <1>2, AppendType
  <1>4. Len(Received(e)) <= Len(Accepted(e))
    BY <1>2, <1>3
  <1>5. Len(Accepted(e)) <= Handed(Peer[e])
    BY DEF FramesInv, AcceptedInv
  <1> QED
    BY <1>1, <1>2, <1>3, <1>4, <1>5, HandedType

(* The queue of an end whose calls and waiting_for_ack stay as they are.   *)
LEMMA AcksKept ==
    ASSUME TypeOK, TasksInv, FramesInv, OpenInv, [Next]_vars, NEW e \in Ends,
           sent'[e] = sent[e], waiting_for_ack'[e] = waiting_for_ack[e]
    PROVE  AcksOpen(InFlight(e)', sent'[e], waiting_for_ack'[e])
  <1> DEFINE q == InFlight(e)
             p == Peer[e]
             f == OutFrame(p)
  <1>1. AcksOpen(q, sent[e], waiting_for_ack[e]) /\ q \in Seq(Frames)
    BY QueuesType DEF OpenInv
  <1>2. CASE Write(p) /\ InFlight(e)' = Append(q, f)
    <2>0. p \in Ends
      BY EndsAssumption
    <2>1. f \in Frames /\ rs[p].state \in {"sending", "acking"}
      BY <2>0, <1>2, WriteFlight DEF Write, TasksInv, WaitsForWrite
    <2>2. ASSUME f.type = "Ack"
          PROVE  /\ Entry(sent[e][f.seq], f.seq) \in waiting_for_ack[e]
                 /\ \A j \in 1..Len(q) : q[j].type = "Ack" => q[j].seq < f.seq
      <3>1. rs[p].state = "acking" /\ f.seq = rs[p].frame.seq
        <4>1. CASE rs[p].state = "sending"
          BY <4>1, <2>0, <2>2 DEF OutFrame, TasksInv
        <4>2. CASE rs[p].state = "acking"
          <5>1. rs[p].frame.seq \in Nat
            BY <4>2, <2>0, QueuesType, FrameType
          <5> QED
            BY <5>1, <4>2, FrameType DEF OutFrame
        <4> QED
          BY <4>1, <4>2, <2>1
      <3>2. f.seq = Len(Accepted(p))
        BY <3>1, <2>0 DEF FramesInv, HeldInv
      <3>3. /\ Len(Received(p)) \in Nat /\ f.seq = Len(Received(p)) + 1
            /\ f.seq <= Len(sent[e]) /\ Len(sent[e]) \in Nat
        BY <3>1, <3>2, <2>0, Counts, EndsAssumption
      <3>4. Entry(sent[e][f.seq], f.seq) \in waiting_for_ack[e]
        BY <3>3 DEF OpenInv, UnreceivedOpen
      <3>5. \A j \in 1..Len(q) : q[j].type = "Ack" => q[j].seq \in 1..Len(Received(p))
        BY DEF FramesInv, AckInv
      <3> QED
        BY <3>3, <3>4, <3>5
    <2> HIDE DEF f, q
    <2>3. AcksOpen(Append(q, f), sent[e], waiting_for_ack[e])
      BY <2>1, <2>2, <1>1, AppendAcks
    <2> QED
      BY <2>3, <1>2
  <1> HIDE DEF q
  <1>3. CASE InFlight(e)' = q
    BY <1>1, <1>3
  <1>4. CASE q # <<>> /\ InFlight(e)' = Tail(q)
    BY <1>1, <1>4, TailAcks
  <1>5. CASE \E n \in 0..Len(q) : InFlight(e)' = SubSeq(q, 1, n)
    BY <1>1, <1>5, PrefixAcks
  <1> QED
    BY <1>2, <1>3, <1>4, <1>5, FlightMoves DEF q

(* handle_message: a call gets a number beyond those of the acks in flight.*)
LEMMA OpenMessage ==
    ASSUME TypeOK, TasksInv, FramesInv, OpenInv, NEW e \in Ends, HandleMessage(e)
    PROVE  /\ AcksOpen(InFlight(e)', sent'[e], waiting_for_ack'[e])
           /\ UnreceivedOpen(e)'
           /\ \A d \in Ends : d # e => /\ sent'[d] = sent[d]
                                      /\ waiting_for_ack'[d] = waiting_for_ack[d]
  <1> DEFINE q == InFlight(e)
             p == Peer[e]
             c == Head(receiver[e])
             n == Len(sent[e]) + 1
             W == {w \in waiting_for_ack[e] : w.seq # n} \cup {[seq |-> n, call |-> c]}
  <1>0. /\ sent \in [Ends -> Seq(Calls)] /\ receiver[e] \in Seq(Calls) /\ p \in Ends
        /\ waiting_for_ack \in [Ends -> SUBSET [seq : Nat, call : Calls]]
    BY EndsAssumption DEF TypeOK
  <1>1. /\ receiver[e] # <<>>
        /\ sent' = [sent EXCEPT ![e] = Append(sent[e], c)]
        /\ waiting_for_ack' = [waiting_for_ack EXCEPT ![e] = W]
        /\ UNCHANGED <<ca, connection_receiver, client_rx, handled, wire>>
    BY DEF HandleMessage, NextSequenceNumber
  <1>2. c \in Calls /\ Len(sent[e]) \in Nat
    BY <1>0, <1>1, TailType
  <1>3. /\ sent'[e] = Append(sent[e], c) /\ Len(sent'[e]) = n /\ sent'[e][n] = c
        /\ \A i \in 1..Len(sent[e]) : sent'[e][i] = sent[e][i]
    BY <1>0, <1>1, <1>2, AppendType
  <1>4. waiting_for_ack'[e] = W
    BY <1>0, <1>1
  <1>5. Entry(c, n) \in W
    BY DEF Entry
  <1>6. \A m \in Nat : \A x : m # n /\ Entry(x, m) \in waiting_for_ack[e] => Entry(x, m) \in W
    BY DEF Entry
  <1> HIDE DEF c, W
  <1>7. InFlight(e)' = q
    BY <1>1 DEF InFlight
  <1>8. /\ AcksOpen(q, sent[e], waiting_for_ack[e]) /\ q \in Seq(Frames)
        /\ UnreceivedOpen(e)
    BY QueuesType DEF OpenInv
  <1>9. /\ Len(Received(p)) \in Nat /\ Len(Received(p)) <= Len(sent[e])
        /\ \A j \in 1..Len(q) : q[j].type = "Ack" => q[j].seq \in 1..Len(Received(p))
    BY <1>0, Counts, EndsAssumption DEF FramesInv, AckInv
  <1>10. Len(Received(p))' \in Nat /\ Len(Received(p))' >= Len(Received(p))
    <2>1. [Next]_vars
      BY DEF Next, RsStep
    <2> QED
      BY <2>1, <1>0, ReceivedLonger
  <1> HIDE DEF q
  <1>11. AcksOpen(q, sent'[e], W)
    <2> SUFFICES ASSUME NEW i \in 1..Len(q), q[i].type = "Ack"
                 PROVE  /\ Entry(sent'[e][q[i].seq], q[i].seq) \in W
                        /\ \A j \in 1..(i - 1) : q[j].type = "Ack" => q[j].seq < q[i].seq
      BY DEF AcksOpen
    <2>1. q[i].seq \in 1..Len(Received(p))
      BY <1>9
    <2>2. q[i].seq \in 1..Len(sent[e]) /\ q[i].seq # n /\ q[i].seq \in Nat
      BY <2>1, <1>2, <1>9
    <2>3. /\ Entry(sent[e][q[i].seq], q[i].seq) \in waiting_for_ack[e]
          /\ \A j \in 1..(i - 1) : q[j].type = "Ack" => q[j].seq < q[i].seq
      BY <1>8 DEF AcksOpen
    <2> QED
      BY <2>2, <2>3, <1>3, <1>6
  <1>12. ASSUME NEW m \in 1..n, m > Len(Received(p))'
         PROVE  Entry(sent'[e][m], m) \in W
    <2>1. CASE m = n
      BY <2>1, <1>3, <1>5
    <2>2. CASE m \in 1..Len(sent[e])
      <3>1. Entry(sent[e][m], m) \in waiting_for_ack[e]
        BY <2>2, <1>8, <1>9, <1>10, <1>12 DEF UnreceivedOpen
      <3> QED
        BY <3>1, <2>2, <1>2, <1>3, <1>6
    <2> QED
      BY <2>1, <2>2, <1>2
  <1> QED
    BY <1>0, <1>1, <1>3, <1>4, <1>7, <1>11, <1>12 DEF UnreceivedOpen

(* handle_connection_message, an Ack: no other ack in flight has its number*)
(* and its message has been received.                                      *)
LEMMA OpenAck ==
    ASSUME TypeOK, TasksInv, FramesInv, OpenInv, NEW e \in Ends, HandleAckFrame(e)
    PROVE  /\ AcksOpen(InFlight(e)', sent'[e], waiting_for_ack'[e])
           /\ UnreceivedOpen(e)'
           /\ sent' = sent
           /\ \A d \in Ends : d # e => waiting_for_ack'[d] = waiting_for_ack[d]
  <1> DEFINE q == InFlight(e)
             p == Peer[e]
             f == Head(connection_receiver[e])
             W == waiting_for_ack[e] \ {w \in waiting_for_ack[e] : w.seq = f.seq}
  <1>0. /\ waiting_for_ack \in [Ends -> SUBSET [seq : Nat, call : Calls]]
        /\ p \in Ends
    BY EndsAssumption DEF TypeOK
  <1>1. /\ connection_receiver[e] # <<>> /\ f.type = "Ack"
        /\ connection_receiver' =
             [connection_receiver EXCEPT ![e] = Tail(connection_receiver[e])]
        /\ waiting_for_ack' = [waiting_for_ack EXCEPT ![e] = W]
        /\ UNCHANGED <<rs, sent, ca, client_rx, handled, wire>>
    BY DEF HandleAckFrame
  <1>2. q # <<>> /\ Head(q) = f /\ InFlight(e)' = Tail(q)
    BY <1>1, TakeFrame
  <1>3. waiting_for_ack'[e] = W
    BY <1>0, <1>1
  <1>4. \A m : \A x : m # f.seq /\ Entry(x, m) \in waiting_for_ack[e] => Entry(x, m) \in W
    BY DEF Entry
  <1>5. Received(p)' = Received(p)
    BY <1>1 DEF Received
  <1>6. /\ AcksOpen(q, sent[e], waiting_for_ack[e]) /\ q \in Seq(Frames)
        /\ UnreceivedOpen(e)
    BY QueuesType DEF OpenInv
  <1>7. \A j \in 1..Len(q) : q[j].type = "Ack" => q[j].seq \in 1..Len(Received(p))
    BY DEF FramesInv, AckInv
  <1> HIDE DEF q, f, W
  <1>8. /\ q[1] = f /\ Len(q) \in Nat \ {0} /\ Len(Tail(q)) = Len(q) - 1
        /\ \A i \in 1..Len(q) - 1 : Tail(q)[i] = q[i + 1]
    BY <1>2, <1>6, TailType
  <1>9. f.seq \in 1..Len(Received(p)) /\ Len(Received(p)) \in Nat
    <2>1. 1 \in 1..Len(q)
      BY <1>8
    <2> QED
      BY <2>1, <1>0, <1>1, <1>7, <1>8, QueuesType
  <1>10. AcksOpen(Tail(q), sent[e], waiting_for_ack[e])
    BY <1>2, <1>6, TailAcks
  <1>11. \A i \in 1..Len(Tail(q)) : Tail(q)[i].type = "Ack" => Tail(q)[i].seq # f.seq
    <2> SUFFICES ASSUME NEW i \in 1..Len(Tail(q)), Tail(q)[i].type = "Ack"
                 PROVE  Tail(q)[i].seq # f.seq
      OBVIOUS
    <2>1. i + 1 \in 1..Len(q) /\ Tail(q)[i] = q[i + 1] /\ 1 \in 1..((i + 1) - 1)
      BY <1>8
    <2>2. q[1].seq < q[i + 1].seq
      BY <2>1, <1>1, <1>6, <1>8 DEF AcksOpen
    <2>3. q[i + 1].seq \in Nat
      BY <2>1, <1>6, FrameType
    <2> QED
      BY <2>1, <2>2, <2>3, <1>8, <1>9
  <1>12. AcksOpen(Tail(q), sent[e], W)
    BY <1>4, <1>10, <1>11 DEF AcksOpen
  <1>13. \A m \in 1..Len(sent[e]) :
            m > Len(Received(p)) => Entry(sent[e][m], m) \in W
    BY <1>4, <1>6, <1>9 DEF UnreceivedOpen
  <1> QED
    BY <1>0, <1>1, <1>2, <1>3, <1>5, <1>12, <1>13 DEF UnreceivedOpen

(* Every step keeps OpenInv.                                               *)
LEMMA OpenStep ==
    TypeOK /\ TasksInv /\ FramesInv /\ OpenInv /\ [Next]_vars => OpenInv'
  <1> SUFFICES ASSUME TypeOK, TasksInv, FramesInv, OpenInv, [Next]_vars,
                      NEW e \in Ends
               PROVE  /\ AcksOpen(InFlight(e)', sent'[e], waiting_for_ack'[e])
                      /\ UnreceivedOpen(e)'
    BY DEF OpenInv
  <1>1. ASSUME sent'[e] = sent[e], waiting_for_ack'[e] = waiting_for_ack[e]
        PROVE  /\ AcksOpen(InFlight(e)', sent'[e], waiting_for_ack'[e])
               /\ UnreceivedOpen(e)'
    <2>1. UnreceivedOpen(e) /\ Peer[e] \in Ends
      BY EndsAssumption DEF OpenInv
    <2>2. /\ Len(Received(Peer[e])) \in Nat /\ Len(Received(Peer[e]))' \in Nat
          /\ Len(Received(Peer[e]))' >= Len(Received(Peer[e]))
      BY <2>1, ReceivedLonger
    <2>3. UnreceivedOpen(e)'
      BY <2>1, <2>2, <1>1 DEF UnreceivedOpen
    <2> QED
      BY <2>3, <1>1, AcksKept
  <1>2. CASE \E x \in Ends : HandleMessage(x)
    <2>1. PICK x \in Ends : HandleMessage(x)
      BY <1>2
    <2> QED
      BY <2>1, <1>1, OpenMessage
  <1>3. CASE \E x \in Ends : HandleAckFrame(x)
    <2>1. PICK x \in Ends : HandleAckFrame(x)
      BY <1>3
    <2> QED
      BY <2>1, <1>1, OpenAck
  <1>4. CASE UNCHANGED <<sent, waiting_for_ack>>
    BY <1>1, <1>4
  <1> QED
    BY <1>2, <1>3, <1>4 DEF Next, RsStep, CaStep, Call, CallTimesOut,
       HandleSendFrame, Deliver, TakeCommand, Write, WriteLost, WriteFails, Read,
       Forward, ReadClosed, ClientTakes, Break, vars

LEMMA OpenInit == Init => OpenInv
  <1> SUFFICES ASSUME Init, NEW e \in Ends
               PROVE  AcksOpen(InFlight(e), sent[e], waiting_for_ack[e]) /\ UnreceivedOpen(e)
    BY DEF OpenInv
  <1>1. ca[e].state = "select" /\ Peer[e] \in Ends
    BY EndsAssumption, CaType DEF Init
  <1>2. InFlight(e) = <<>> /\ sent[e] = <<>>
    BY <1>1 DEF Init, InFlight
  <1> QED
    BY <1>2 DEF AcksOpen, UnreceivedOpen

-----------------------------------------------------------------------------
(* Counting: a call is in one place.                                       *)

(* The call number n of end o, as the pair <<o, n>>, that a frame in flight*)
(* to e stands for, and the one that the reliable sender of e holds.       *)
CarriedBy(e, f) == <<IF f.type = "Send" THEN Peer[e] ELSE e, f.seq>>
HeldBy(e) == <<IF rs[e].state = "sending" THEN e ELSE Peer[e], rs[e].frame.seq>>
IsUnacked(k) == Entry(sent[k[1]][k[2]], k[2]) \in waiting_for_ack[k[1]]

(* The numbers of the calls of an end tell where they are: acknowledged, or*)
(* being acknowledged, by the other end, on the way to it, held back.      *)
LEMMA FlightNumbers ==
    ASSUME IInv, OpenInv, NEW e \in Ends, ca[e] # Stopped,
           NEW i \in 1..Len(InFlight(e))
    PROVE  LET f == InFlight(e)[i] IN
           /\ f.type \in {"Send", "Ack"} /\ f.seq \in Nat
           /\ f.type = "Send" => /\ f.seq > Len(Accepted(e))
                                 /\ f.seq <= Handed(Peer[e])
           /\ f.type = "Ack" => f.seq <= Len(Received(Peer[e]))
           /\ IsUnacked(CarriedBy(e, f))
           /\ \A j \in 1..Len(InFlight(e)) :
                CarriedBy(e, InFlight(e)[j]) = CarriedBy(e, f) => i = j
  <1> DEFINE q == InFlight(e)
             p == Peer[e]
             f == q[i]
  <1>0. /\ TypeOK /\ TasksInv /\ FramesInv
        /\ AcksOpen(q, sent[e], waiting_for_ack[e]) /\ UnreceivedOpen(p)
        /\ p \in Ends /\ p # e /\ Peer[p] = e
    BY EndsAssumption DEF IInv, OpenInv
  <1>1. q \in Seq(Frames) /\ Len(q) \in Nat
    BY <1>0, QueuesType
  <1>2. \A j \in 1..Len(q) : q[j].type \in {"Send", "Ack"} /\ q[j].seq \in Nat
    BY <1>1, FrameType
  <1>3. InSequence(q, Len(Accepted(e)), sent[p], Handed(p))
    BY <1>0 DEF FramesInv, FlightInv
  <1>4. /\ Len(Received(e)) \in Nat /\ Len(Accepted(e)) \in Nat
        /\ Len(Received(e)) <= Len(Accepted(e))
        /\ Handed(p) \in Nat /\ Len(sent[p]) \in Nat /\ Handed(p) <= Len(sent[p])
    BY <1>0, Counts
  <1>5. \A j \in 1..Len(q) : q[j].type = "Ack" => q[j].seq \in 1..Len(Received(p))
    BY <1>0 DEF FramesInv, AckInv
  <1>6. Len(Received(p)) \in Nat
    BY <1>0, Counts
  <1> HIDE DEF q, p
  <1>7. f.type = "Send" => f.seq \in (Len(Accepted(e)) + 1)..Handed(p)
    BY <1>3 DEF InSequence, q
  <1>8. IsUnacked(CarriedBy(e, f))
    <2>1. CASE f.type = "Send"
      <3>1. f.seq \in 1..Len(sent[p]) /\ f.seq > Len(Received(e))
        BY <2>1, <1>4, <1>7
      <3>2. Entry(sent[p][f.seq], f.seq) \in waiting_for_ack[p]
        BY <3>1, <1>0 DEF UnreceivedOpen
      <3> QED
        BY <3>2, <2>1 DEF IsUnacked, CarriedBy, p
    <2>2. CASE f.type = "Ack"
      <3>1. Entry(sent[e][f.seq], f.seq) \in waiting_for_ack[e]
        BY <2>2, <1>0 DEF AcksOpen, q
      <3> QED
        BY <3>1, <2>2 DEF IsUnacked, CarriedBy
    <2> QED
      BY <2>1, <2>2, <1>2 DEF q
  <1>9. ASSUME NEW j \in 1..Len(q), CarriedBy(e, q[j]) = CarriedBy(e, f)
        PROVE  i = j
    <2>1. q[j].seq = f.seq /\ (q[j].type = "Send" <=> f.type = "Send")
      BY <1>0, <1>9 DEF CarriedBy, p
    <2>2. q[j].type = f.type /\ f.seq \in Nat /\ i \in 1..Len(q)
      BY <2>1, <1>2 DEF q
    <2>3. \A a, b \in 1..Len(q) : a < b /\ q[a].type = q[b].type => q[a].seq < q[b].seq
      <3> SUFFICES ASSUME NEW a \in 1..Len(q), NEW b \in 1..Len(q), a < b,
                          q[a].type = q[b].type
                   PROVE  q[a].seq < q[b].seq
        OBVIOUS
      <3>1. a \in 1..(b - 1)
        OBVIOUS
      <3>2. CASE q[b].type = "Send"
        BY <3>1, <3>2, <1>3 DEF InSequence
      <3>3. CASE q[b].type = "Ack"
        BY <3>1, <3>3, <1>0 DEF AcksOpen
      <3> QED
        BY <3>2, <3>3, <1>2
    <2>4. ~(i < j) /\ ~(j < i)
      BY <2>1, <2>2, <2>3
    <2> QED
      BY <2>2, <2>4, <1>1
  <1> QED
    BY <1>2, <1>4, <1>5, <1>6, <1>7, <1>8, <1>9 DEF q, p

LEMMA HeldNumbers ==
    ASSUME IInv, OpenInv, NEW e \in Ends, WaitsForWrite(e)
    PROVE  /\ rs[e].frame.seq \in Nat /\ rs[e].state \in {"sending", "acking"}
           /\ rs[e].state = "sending" => rs[e].frame.seq > Handed(e)
           /\ rs[e].state = "acking" => /\ rs[e].frame.seq = Len(Accepted(e))
                                        /\ rs[e].frame.seq > Len(Received(e))
           /\ IsUnacked(HeldBy(e))
  <1> DEFINE p == Peer[e]
             n == rs[e].frame.seq
  <1>0. /\ TypeOK /\ TasksInv /\ FramesInv /\ UnreceivedOpen(e) /\ UnreceivedOpen(p)
        /\ p \in Ends /\ Peer[p] = e /\ HeldInv(e)
    BY EndsAssumption DEF IInv, OpenInv, FramesInv
  <1>1. rs[e].state \in {"sending", "acking"} /\ n \in Nat
    BY <1>0, QueuesType, FrameType DEF WaitsForWrite
  <1>2. CASE rs[e].state = "sending"
    <2>1. /\ n = Len(sent[e]) /\ Len(sent[e]) > 0
      BY <1>0, <1>2 DEF HeldInv
    <2>2. Handed(e) \in Nat /\ Handed(e) + 1 = Len(sent[e])
      BY <1>0, <1>2, HandedType
    <2>3. Len(Received(p)) \in Nat /\ Len(Received(p)) <= Handed(e)
      <3>1. /\ Len(Received(p)) \in Nat /\ Len(Accepted(p)) \in Nat
            /\ Len(Received(p)) <= Len(Accepted(p)) /\ Len(Accepted(p)) <= Handed(e)
        BY <1>0, Counts
      <3> QED
        BY <3>1, <2>2
    <2>4. n \in 1..Len(sent[e]) /\ n > Len(Received(p))
      BY <2>1, <2>2, <2>3
    <2>5. Entry(sent[e][n], n) \in waiting_for_ack[e]
      BY <2>4, <1>0 DEF UnreceivedOpen
    <2> QED
      BY <2>1, <2>2, <2>5, <1>1, <1>2 DEF HeldBy, IsUnacked
  <1>3. CASE rs[e].state = "acking"
    <2>1. n = Len(Accepted(e))
      BY <1>0, <1>3 DEF HeldInv
    <2>2. /\ Len(Received(e)) \in Nat /\ Len(Accepted(e)) = Len(Received(e)) + 1
          /\ Len(Accepted(e)) <= Handed(p) /\ Handed(p) \in Nat
          /\ Len(sent[p]) \in Nat /\ Handed(p) <= Len(sent[p])
      BY <1>0, <1>3, Counts
    <2>3. n \in 1..Len(sent[p]) /\ n > Len(Received(e))
      BY <2>1, <2>2
    <2>4. Entry(sent[p][n], n) \in waiting_for_ack[p]
      BY <2>3, <1>0 DEF UnreceivedOpen
    <2> QED
      BY <2>1, <2>3, <2>4, <1>1, <1>3 DEF HeldBy, IsUnacked
  <1> QED
    BY <1>1, <1>2, <1>3

(* A call belongs to one end and has one number there.                     *)
LEMMA OneNumber ==
    ASSUME TypeOK, CallsInv, NEW d \in Ends, NEW e \in Ends,
           NEW m \in 1..Len(sent[d]), NEW n \in 1..Len(sent[e]),
           sent[d][m] = sent[e][n]
    PROVE  d = e /\ m = n
  <1>1. ASSUME NEW o \in Ends, NEW i \in 1..Len(sent[o])
        PROVE  i \in 1..Len(CallsOf(o)) /\ CallsOf(o)[i] = sent[o][i]
    <2> DEFINE s == sent[o]
               t == receiver[o]
    <2>1. s \in Seq(Calls) /\ t \in Seq(Calls) /\ CallsOf(o) = s \o t
      BY DEF TypeOK, CallsOf
    <2>2. i \in 1..Len(s)
      BY <1>1
    <2> HIDE DEF s, t
    <2>3. /\ Len(s \o t) = Len(s) + Len(t) /\ Len(s) \in Nat /\ Len(t) \in Nat
          /\ (s \o t)[i] = s[i]
      BY <2>1, <2>2, ConcatType
    <2>4. i \in 1..Len(s \o t)
      BY <2>2, <2>3
    <2> QED
      BY <2>1, <2>3, <2>4 DEF s
  <1>2. /\ m \in 1..Len(CallsOf(d)) /\ CallsOf(d)[m] = sent[d][m]
        /\ n \in 1..Len(CallsOf(e)) /\ CallsOf(e)[n] = sent[e][n]
    BY <1>1
  <1>3. Caller[sent[d][m]] = d /\ Caller[sent[e][n]] = e
    BY <1>2 DEF CallsInv
  <1>4. d = e
    BY <1>3
  <1> QED
    BY <1>2, <1>4 DEF CallsInv

LEMMA UnackedFinite ==
    ASSUME TypeOK, WaitingInv, NEW e \in Ends
    PROVE  IsFiniteSet(waiting_for_ack[e])
  <1> DEFINE W == waiting_for_ack[e]
             N == Len(sent[e])
             g == [w \in W |-> w.seq]
  <1>1. /\ W \in SUBSET [seq : Nat, call : Calls] /\ N \in Nat
        /\ \A w \in W : w.seq \in 1..N /\ sent[e][w.seq] = w.call
    BY DEF TypeOK, WaitingInv
  <1> HIDE DEF W, N
  <1>2. g \in [W -> 1..N]
    BY <1>1
  <1>3. \A v, w \in W : g[v] = g[w] => v = w
    <2> SUFFICES ASSUME NEW v \in W, NEW w \in W, v.seq = w.seq PROVE v = w
      OBVIOUS
    <2>1. v \in [seq : Nat, call : Calls] /\ w \in [seq : Nat, call : Calls]
      BY <1>1
    <2>2. v.call = w.call
      BY <1>1
    <2> QED
      BY <2>1, <2>2
  <1> HIDE DEF g
  <1>4. g \in Injection(W, 1..N)
    BY <1>2, <1>3 DEF Injection, IsInjective
  <1>5. IsFiniteSet(1..N)
    BY <1>1, FS_Interval
  <1> QED
    BY <1>4, <1>5, FS_Injection DEF W

(* As many calls are unacknowledged as can be told apart.                  *)
LEMMA CountUnacked ==
    ASSUME IInv, NEW e \in Ends, NEW N \in Nat,
           NEW t \in [1..N -> {e, Peer[e]} \X Nat],
           \A i \in 1..N : IsUnacked(t[i]),
           \A i, j \in 1..N : t[i] = t[j] => i = j
    PROVE  /\ IsFiniteSet(Unacked(e)) /\ Cardinality(Unacked(e)) \in Nat
           /\ Cardinality(Unacked(e)) >= N
  <1> DEFINE g == [i \in 1..N |-> Entry(sent[t[i][1]][t[i][2]], t[i][2])]
  <1>0. TypeOK /\ WaitingInv /\ CallsInv /\ Peer[e] \in Ends
    BY EndsAssumption DEF IInv
  <1>1. IsFiniteSet(Unacked(e)) /\ Cardinality(Unacked(e)) \in Nat
    BY <1>0, UnackedFinite, FS_Union, FS_CardinalityType DEF Unacked
  <1>2. ASSUME NEW i \in 1..N
        PROVE  /\ t[i][1] \in {e, Peer[e]} /\ t[i][2] \in Nat
               /\ t[i] = <<t[i][1], t[i][2]>>
               /\ g[i] \in waiting_for_ack[t[i][1]]
               /\ g[i].seq = t[i][2] /\ g[i].call = sent[t[i][1]][t[i][2]]
               /\ t[i][2] \in 1..Len(sent[t[i][1]])
    <2>1. t[i] \in {e, Peer[e]} \X Nat
      OBVIOUS
    <2>2. /\ t[i][1] \in {e, Peer[e]} /\ t[i][2] \in Nat
          /\ t[i] = <<t[i][1], t[i][2]>>
      BY <2>1
    <2>3. g[i] \in waiting_for_ack[t[i][1]]
      BY DEF IsUnacked
    <2>4. g[i].seq = t[i][2] /\ g[i].call = sent[t[i][1]][t[i][2]]
      BY DEF Entry
    <2>5. t[i][1] \in Ends
      BY <2>2, <1>0
    <2> HIDE DEF g
    <2>6. t[i][2] \in 1..Len(sent[t[i][1]])
      BY <2>3, <2>4, <2>5, <1>0 DEF WaitingInv
    <2> QED
      BY <2>2, <2>3, <2>4, <2>6
  <1>3. g \in [1..N -> Unacked(e)]
    <2>1. \A i \in 1..N : g[i] \in Unacked(e)
      BY <1>2 DEF Unacked
    <2> QED
      BY <2>1
  <1> HIDE DEF g
  <1>4. \A i, j \in 1..N : g[i] = g[j] => i = j
    <2> SUFFICES ASSUME NEW i \in 1..N, NEW j \in 1..N, g[i] = g[j]
                 PROVE  i = j
      OBVIOUS
    <2>a. g[i].seq = t[i][2] /\ g[i].call = sent[t[i][1]][t[i][2]]
      BY <1>2
    <2>b. g[j].seq = t[j][2] /\ g[j].call = sent[t[j][1]][t[j][2]]
      BY <1>2
    <2>1. t[i][2] = t[j][2] /\ sent[t[i][1]][t[i][2]] = sent[t[j][1]][t[j][2]]
      BY ONLY <2>a, <2>b, g[i] = g[j]
    <2>2. t[i][1] \in Ends /\ t[j][1] \in Ends
      BY <1>0, <1>2
    <2>3. t[i][1] = t[j][1]
      BY <2>1, <2>2, <1>0, <1>2, OneNumber
    <2>4. t[i] = t[j]
      BY <2>1, <2>3, <1>2
    <2> QED
      BY <2>4
  <1>5. g \in Injection(1..N, Unacked(e))
    BY <1>3, <1>4 DEF Injection, IsInjective
  <1>6. Cardinality(1..N) = N
    BY FS_Interval
  <1> QED
    BY <1>1, <1>5, <1>6, FS_Injection

-----------------------------------------------------------------------------
(* The two circular waits.                                                 *)

(* Within an end: the frames of a full connection_receiver, the one the    *)
(* connection actor holds and the one the reliable sender holds.           *)
LEMMA ReaderBacklog ==
    ASSUME IInv, OpenInv, NEW e \in Ends, ReaderBlocked(e)
    PROVE  /\ IsFiniteSet(Unacked(e)) /\ Cardinality(Unacked(e)) \in Nat
           /\ Cardinality(Unacked(e)) >= ConnCap + 2
  <1> DEFINE q == InFlight(e)
             M == ConnCap + 1
             t == [i \in 1..(M + 1) |->
                     IF i = M + 1 THEN HeldBy(e) ELSE CarriedBy(e, q[i])]
  <1>0. /\ TypeOK /\ TasksInv /\ FramesInv /\ Peer[e] \in Ends /\ Peer[e] # e
        /\ ConnCap \in Nat
    BY EndsAssumption, CapAssumption DEF IInv
  <1>1. ca[e].state = "forwarding" /\ ~HasRoom(e) /\ WaitsForWrite(e)
    BY DEF ReaderBlocked
  <1>2. ca[e] # Stopped
    BY <1>1, CaType
  <1>3. q \in Seq(Frames) /\ Len(q) \in Nat /\ Len(q) >= M
    <2> DEFINE s == connection_receiver[e]
               u == s \o <<ca[e].frame>>
               w == wire[Peer[e]]
    <2>1. /\ s \in Seq(Frames) /\ w \in Seq(Frames) /\ ca[e] \in CaStates
          /\ Len(s) >= ConnCap
      BY <1>0, <1>1 DEF TypeOK, HasRoom
    <2>2. ca[e].frame \in Frames
      BY <2>1, <1>1, CaType
    <2>3. q = u \o w
      BY <1>1 DEF InFlight
    <2> HIDE DEF q, s, w
    <2>4. u = Append(s, ca[e].frame)
      BY <2>1, <2>2, ConcatOne
    <2>5. u \in Seq(Frames) /\ Len(u) = Len(s) + 1 /\ Len(s) \in Nat
      BY <2>1, <2>2, <2>4, AppendType
    <2> HIDE DEF u
    <2>6. u \o w \in Seq(Frames) /\ Len(u \o w) = Len(u) + Len(w)
      BY <2>1, <2>5, ConcatType
    <2>7. Len(w) \in Nat /\ Len(u) \in Nat
      BY <2>1, <2>5
    <2> QED
      BY <2>1, <2>3, <2>5, <2>6, <2>7, <1>0
  <1>4. \A i \in 1..M :
          /\ i \in 1..Len(q) /\ q[i].seq \in Nat /\ q[i].type \in {"Send", "Ack"}
          /\ q[i].type = "Send" => q[i].seq > Len(Accepted(e))
          /\ q[i].type = "Ack" => q[i].seq <= Len(Received(Peer[e]))
          /\ IsUnacked(CarriedBy(e, q[i]))
          /\ \A j \in 1..M : CarriedBy(e, q[j]) = CarriedBy(e, q[i]) => i = j
    <2> SUFFICES ASSUME NEW i \in 1..M
                 PROVE
          /\ i \in 1..Len(q) /\ q[i].seq \in Nat /\ q[i].type \in {"Send", "Ack"}
          /\ q[i].type = "Send" => q[i].seq > Len(Accepted(e))
          /\ q[i].type = "Ack" => q[i].seq <= Len(Received(Peer[e]))
          /\ IsUnacked(CarriedBy(e, q[i]))
          /\ \A j \in 1..M : CarriedBy(e, q[j]) = CarriedBy(e, q[i]) => i = j
      OBVIOUS
    <2>1. \A j \in 1..M : j \in 1..Len(q)
      BY <1>0, <1>3
    <2> QED
      BY <2>1, <1>2, FlightNumbers
  <1>5. /\ rs[e].frame.seq \in Nat /\ rs[e].state \in {"sending", "acking"}
        /\ rs[e].state = "sending" => rs[e].frame.seq > Handed(e)
        /\ rs[e].state = "acking" => rs[e].frame.seq = Len(Accepted(e))
        /\ IsUnacked(HeldBy(e))
    BY <1>1, HeldNumbers
  <1>6. /\ Len(Received(Peer[e])) \in Nat /\ Len(Received(Peer[e])) <= Handed(e)
        /\ Handed(e) \in Nat /\ Len(Accepted(e)) \in Nat
    <2>1. /\ Len(Received(Peer[e])) <= Len(Accepted(Peer[e]))
          /\ Len(Accepted(Peer[e])) <= Handed(Peer[Peer[e]])
          /\ Len(Received(Peer[e])) \in Nat /\ Len(Accepted(Peer[e])) \in Nat
          /\ Peer[Peer[e]] = e /\ Handed(Peer[Peer[e]]) \in Nat
      BY <1>0, Counts, EndsAssumption
    <2>2. Len(Accepted(e)) \in Nat
      BY <1>0, Counts
    <2> QED
      BY <2>1, <2>2
  <1> HIDE DEF q
  <1>7. \A i \in 1..M : CarriedBy(e, q[i]) # HeldBy(e)
    <2> SUFFICES ASSUME NEW i \in 1..M, CarriedBy(e, q[i]) = HeldBy(e) PROVE FALSE
      OBVIOUS
    <2>1. /\ q[i].seq = rs[e].frame.seq
          /\ q[i].type = "Send" <=> rs[e].state # "sending"
      BY <1>0 DEF CarriedBy, HeldBy
    <2> QED
      BY <2>1, <1>4, <1>5, <1>6
  <1>8. /\ M + 1 \in Nat /\ M \in Nat
        /\ \A i \in 1..(M + 1) : i \in 1..M \/ i = M + 1
        /\ \A i \in 1..M : i # M + 1 /\ i \in 1..(M + 1)
    BY <1>0
  <1>9. /\ HeldBy(e) \in {e, Peer[e]} \X Nat
        /\ \A i \in 1..M : CarriedBy(e, q[i]) \in {e, Peer[e]} \X Nat
    BY <1>4, <1>5 DEF CarriedBy, HeldBy
  <1>10. ConnCap + 2 = M + 1
    BY <1>0
  <1> HIDE DEF M
  <1>11. t \in [1..(M + 1) -> {e, Peer[e]} \X Nat]
    BY <1>8, <1>9
  <1>12. /\ t[M + 1] = HeldBy(e)
         /\ \A i \in 1..M : t[i] = CarriedBy(e, q[i])
    BY <1>8
  <1> HIDE DEF t
  <1>13. \A i \in 1..(M + 1) : IsUnacked(t[i])
    BY <1>4, <1>5, <1>8, <1>12
  <1>14. \A i, j \in 1..(M + 1) : t[i] = t[j] => i = j
    BY <1>4, <1>7, <1>8, <1>12
  <1> QED
    BY <1>8, <1>10, <1>11, <1>13, <1>14, CountUnacked

(* The frames of the stream to an end that is writing are in flight to it. *)
LEMMA WireInFlight ==
    ASSUME TypeOK, TasksInv, NEW e \in Ends, ca[e] = Writing
    PROVE  LET k == Len(connection_receiver[e]) IN
           /\ k \in Nat
           /\ Len(wire[Peer[e]]) \in Nat
           /\ \A i \in 1..Len(wire[Peer[e]]) :
                k + i \in 1..Len(InFlight(e)) /\ wire[Peer[e]][i] = InFlight(e)[k + i]
  <1> DEFINE s == connection_receiver[e]
             w == wire[Peer[e]]
  <1>1. s \in Seq(Frames) /\ w \in Seq(Frames)
    BY EndsAssumption DEF TypeOK
  <1>2. InFlight(e) = (s \o <<>>) \o w
    BY CaType DEF InFlight
  <1>3. InFlight(e) = s \o w
    BY <1>1, <1>2, ConcatNone
  <1> HIDE DEF s, w
  <1>4. /\ Len(s) \in Nat /\ Len(w) \in Nat /\ Len(s \o w) = Len(s) + Len(w)
        /\ \A i \in 1..Len(w) : (s \o w)[Len(s) + i] = w[i]
    BY <1>1, ConcatType
  <1>5. \A i \in 1..Len(w) : Len(s) + i \in 1..Len(s \o w)
    BY <1>4
  <1>6. \A i \in 1..Len(w) :
           Len(s) + i \in 1..Len(InFlight(e)) /\ w[i] = InFlight(e)[Len(s) + i]
    BY <1>3, <1>4, <1>5
  <1> QED
    BY <1>4, <1>6 DEF s, w

(* What an end that writes stands in the way of: the calls on the stream to*)
(* it, each in a place of its own, and the one it holds.                   *)
LEMMA WritingNumbers ==
    ASSUME IInv, OpenInv, NEW e \in Ends, NEW p \in Ends, p = Peer[e],
           ca[e] = Writing
    PROVE  /\ Len(wire[p]) \in Nat
           /\ \A i \in 1..Len(wire[p]) :
                /\ wire[p][i].seq \in Nat /\ wire[p][i].type \in {"Send", "Ack"}
                /\ wire[p][i].type = "Send" => /\ wire[p][i].seq > Len(Accepted(e))
                                         /\ wire[p][i].seq <= Handed(p)
                /\ wire[p][i].type = "Ack" => wire[p][i].seq <= Len(Received(p))
                /\ IsUnacked(CarriedBy(e, wire[p][i]))
                /\ CarriedBy(e, wire[p][i]) \in {e, p} \X Nat
                /\ \A j \in 1..Len(wire[p]) : 
                     CarriedBy(e, wire[p][j]) = CarriedBy(e, wire[p][i]) => i = j
           /\ rs[e].frame.seq \in Nat /\ rs[e].state \in {"sending", "acking"}
           /\ rs[e].state = "sending" => rs[e].frame.seq > Handed(e)
           /\ rs[e].state = "acking" => /\ rs[e].frame.seq = Len(Accepted(e))
                                        /\ rs[e].frame.seq > Len(Received(e))
           /\ IsUnacked(HeldBy(e)) /\ HeldBy(e) \in {e, p} \X Nat
  <1> DEFINE w == wire[p]
             k == Len(connection_receiver[e])
  <1>0. TypeOK /\ TasksInv /\ WaitsForWrite(e) /\ ca[e] # Stopped
    BY CaType DEF IInv, TasksInv
  <1>1. /\ k \in Nat /\ Len(w) \in Nat
        /\ \A i \in 1..Len(w) : k + i \in 1..Len(InFlight(e)) /\ w[i] = InFlight(e)[k + i]
    BY <1>0, WireInFlight
  <1>2. /\ rs[e].frame.seq \in Nat /\ rs[e].state \in {"sending", "acking"}
        /\ rs[e].state = "sending" => rs[e].frame.seq > Handed(e)
        /\ rs[e].state = "acking" => /\ rs[e].frame.seq = Len(Accepted(e))
                                     /\ rs[e].frame.seq > Len(Received(e))
        /\ IsUnacked(HeldBy(e))
    BY <1>0, HeldNumbers
  <1>3. HeldBy(e) \in {e, p} \X Nat
    BY <1>2 DEF HeldBy
  <1> HIDE DEF w, k
  <1>4. ASSUME NEW i \in 1..Len(w)
        PROVE   /\ w[i].seq \in Nat /\ w[i].type \in {"Send", "Ack"}
                /\ w[i].type = "Send" => /\ w[i].seq > Len(Accepted(e))
                                         /\ w[i].seq <= Handed(p)
                /\ w[i].type = "Ack" => w[i].seq <= Len(Received(p))
                /\ IsUnacked(CarriedBy(e, w[i]))
                /\ CarriedBy(e, w[i]) \in {e, p} \X Nat
                /\ \A j \in 1..Len(w) : CarriedBy(e, w[j]) = CarriedBy(e, w[i]) => i = j
    <2>1. /\ w[i].seq \in Nat /\ w[i].type \in {"Send", "Ack"}
          /\ w[i].type = "Send" => /\ w[i].seq > Len(Accepted(e))
                                   /\ w[i].seq <= Handed(p)
          /\ w[i].type = "Ack" => w[i].seq <= Len(Received(p))
          /\ IsUnacked(CarriedBy(e, w[i]))
          /\ \A j \in 1..Len(InFlight(e)) :
               CarriedBy(e, InFlight(e)[j]) = CarriedBy(e, w[i]) => k + i = j
      BY <1>0, <1>1, FlightNumbers
    <2>2. CarriedBy(e, w[i]) \in {e, p} \X Nat
      BY <2>1 DEF CarriedBy
    <2>3. ASSUME NEW j \in 1..Len(w), CarriedBy(e, w[j]) = CarriedBy(e, w[i])
          PROVE  i = j
      <3>1. k + i = k + j
        BY <2>1, <2>3, <1>1
      <3> QED
        BY <3>1, <1>1
    <2> QED
      BY <2>1, <2>2, <2>3
  <1> QED
    BY <1>1, <1>2, <1>3, <1>4 DEF w

(* When what two ends carry or hold is the same call.                      *)
LEMMA SameCall ==
    ASSUME NEW e \in Ends, NEW p \in Ends, p = Peer[e], e = Peer[p], p # e,
           NEW f, NEW g
    PROVE  /\ CarriedBy(e, f) = CarriedBy(p, g) =>
                f.seq = g.seq /\ (f.type = "Send" <=> g.type # "Send")
           /\ CarriedBy(e, f) = HeldBy(e) =>
                f.seq = rs[e].frame.seq /\ (f.type = "Send" <=> rs[e].state # "sending")
           /\ CarriedBy(e, f) = HeldBy(p) =>
                f.seq = rs[p].frame.seq /\ (f.type = "Send" <=> rs[p].state = "sending")
           /\ HeldBy(e) = HeldBy(p) =>
                /\ rs[e].frame.seq = rs[p].frame.seq
                /\ rs[e].state = "sending" <=> rs[p].state # "sending"
  BY DEF CarriedBy, HeldBy

(* Across the link: the frames of two full streams and the two that the    *)
(* reliable senders hold.                                                  *)
LEMMA WriterBacklog ==
    ASSUME IInv, OpenInv, NEW e \in Ends, NEW p \in Ends, p = Peer[e],
           WriterBlocked(e), WriterBlocked(p)
    PROVE  /\ IsFiniteSet(Unacked(e)) /\ Cardinality(Unacked(e)) \in Nat
           /\ Cardinality(Unacked(e)) >= 2 * WireCap + 2
  <1> DEFINE v == wire[p]
             w == wire[e]
             C == WireCap
             X == {e, p} \X Nat
             N == 2 * C + 2
             t == [i \in 1..N |->
                     IF i \in 1..C THEN CarriedBy(e, v[i])
                     ELSE IF i - C \in 1..C THEN CarriedBy(p, w[i - C])
                     ELSE IF i = 2 * C + 1 THEN HeldBy(e) ELSE HeldBy(p)]
  <1>0. /\ TypeOK /\ TasksInv /\ FramesInv /\ e = Peer[p] /\ p # e
        /\ C \in Nat
    BY EndsAssumption, CapAssumption DEF IInv
  <1>1. ca[e] = Writing /\ ca[p] = Writing /\ Len(w) >= C /\ Len(v) >= C
    BY DEF WriterBlocked
  <1>2. /\ Len(v) \in Nat
        /\ \A i \in 1..Len(v) :
             /\ v[i].seq \in Nat /\ v[i].type \in {"Send", "Ack"}
             /\ v[i].type = "Send" => v[i].seq > Len(Accepted(e)) /\ v[i].seq <= Handed(p)
             /\ v[i].type = "Ack" => v[i].seq <= Len(Received(p))
             /\ IsUnacked(CarriedBy(e, v[i])) /\ CarriedBy(e, v[i]) \in X
             /\ \A j \in 1..Len(v) : CarriedBy(e, v[j]) = CarriedBy(e, v[i]) => i = j
        /\ rs[e].frame.seq \in Nat /\ rs[e].state \in {"sending", "acking"}
        /\ rs[e].state = "sending" => rs[e].frame.seq > Handed(e)
        /\ rs[e].state = "acking" => /\ rs[e].frame.seq = Len(Accepted(e))
                                     /\ rs[e].frame.seq > Len(Received(e))
        /\ IsUnacked(HeldBy(e)) /\ HeldBy(e) \in X
    BY <1>1, WritingNumbers
  <1>3. /\ Len(w) \in Nat
        /\ \A i \in 1..Len(w) :
             /\ w[i].seq \in Nat /\ w[i].type \in {"Send", "Ack"}
             /\ w[i].type = "Send" => w[i].seq > Len(Accepted(p)) /\ w[i].seq <= Handed(e)
             /\ w[i].type = "Ack" => w[i].seq <= Len(Received(e))
             /\ IsUnacked(CarriedBy(p, w[i])) /\ CarriedBy(p, w[i]) \in X
             /\ \A j \in 1..Len(w) : CarriedBy(p, w[j]) = CarriedBy(p, w[i]) => i = j
        /\ rs[p].frame.seq \in Nat /\ rs[p].state \in {"sending", "acking"}
        /\ rs[p].state = "sending" => rs[p].frame.seq > Handed(p)
        /\ rs[p].state = "acking" => /\ rs[p].frame.seq = Len(Accepted(p))
                                     /\ rs[p].frame.seq > Len(Received(p))
        /\ IsUnacked(HeldBy(p)) /\ HeldBy(p) \in X
    <2>1. \A k : k \in {p, e} \X Nat => k \in X
      OBVIOUS
    <2>2. e = Peer[p]
      BY <1>0
    <2> HIDE DEF X
    <2>3. /\ Len(w) \in Nat
          /\ \A i \in 1..Len(w) :
               /\ w[i].seq \in Nat /\ w[i].type \in {"Send", "Ack"}
               /\ w[i].type = "Send" => w[i].seq > Len(Accepted(p)) /\ w[i].seq <= Handed(e)
               /\ w[i].type = "Ack" => w[i].seq <= Len(Received(e))
               /\ IsUnacked(CarriedBy(p, w[i]))
               /\ CarriedBy(p, w[i]) \in {p, e} \X Nat
               /\ \A j \in 1..Len(w) : CarriedBy(p, w[j]) = CarriedBy(p, w[i]) => i = j
          /\ rs[p].frame.seq \in Nat /\ rs[p].state \in {"sending", "acking"}
          /\ rs[p].state = "sending" => rs[p].frame.seq > Handed(p)
          /\ rs[p].state = "acking" => /\ rs[p].frame.seq = Len(Accepted(p))
                                       /\ rs[p].frame.seq > Len(Received(p))
          /\ IsUnacked(HeldBy(p)) /\ HeldBy(p) \in {p, e} \X Nat
      BY <2>2, <1>1, WritingNumbers
    <2> QED
      BY <2>1, <2>3
  <1>4. /\ Len(Received(e)) \in Nat /\ Len(Received(p)) \in Nat
        /\ Len(Accepted(e)) \in Nat /\ Len(Accepted(p)) \in Nat
        /\ Handed(e) \in Nat /\ Handed(p) \in Nat
        /\ Len(Received(e)) <= Len(Accepted(e)) /\ Len(Accepted(e)) <= Handed(p)
        /\ Len(Received(p)) <= Len(Accepted(p)) /\ Len(Accepted(p)) <= Handed(e)
    <2>1. /\ Len(Received(e)) \in Nat /\ Len(Accepted(e)) \in Nat /\ Handed(p) \in Nat
          /\ Len(Received(e)) <= Len(Accepted(e)) /\ Len(Accepted(e)) <= Handed(p)
      BY <1>0, Counts
    <2>2. /\ Len(Received(p)) \in Nat /\ Len(Accepted(p)) \in Nat /\ Handed(e) \in Nat
          /\ Len(Received(p)) <= Len(Accepted(p)) /\ Len(Accepted(p)) <= Handed(e)
      BY <1>0, Counts
    <2> QED
      BY <2>1, <2>2
  <1> HIDE DEF v, w, X
  <1>7. /\ \A i \in 1..Len(v), j \in 1..Len(w) : CarriedBy(e, v[i]) # CarriedBy(p, w[j])
        /\ \A i \in 1..Len(v) : CarriedBy(e, v[i]) # HeldBy(e) /\ CarriedBy(e, v[i]) # HeldBy(p)
        /\ \A i \in 1..Len(w) : CarriedBy(p, w[i]) # HeldBy(e) /\ CarriedBy(p, w[i]) # HeldBy(p)
        /\ HeldBy(e) # HeldBy(p)
    <2>1. ASSUME NEW i \in 1..Len(v), NEW j \in 1..Len(w)
          PROVE  CarriedBy(e, v[i]) # CarriedBy(p, w[j])
      <3>1. SUFFICES ASSUME CarriedBy(e, v[i]) = CarriedBy(p, w[j]) PROVE FALSE
        OBVIOUS
      <3>2. v[i].seq = w[j].seq /\ (v[i].type = "Send" <=> w[j].type # "Send")
        BY <3>1, <1>0, SameCall
      <3>3. /\ v[i].seq \in Nat /\ v[i].type \in {"Send", "Ack"}
            /\ v[i].type = "Send" => v[i].seq > Len(Accepted(e))
            /\ v[i].type = "Ack" => v[i].seq <= Len(Received(p))
        BY <1>2
      <3>4. /\ w[j].type \in {"Send", "Ack"}
            /\ w[j].type = "Send" => w[j].seq > Len(Accepted(p))
            /\ w[j].type = "Ack" => w[j].seq <= Len(Received(e))
        BY <1>3
      <3> QED
        BY <3>2, <3>3, <3>4, <1>4
    <2>2. ASSUME NEW i \in 1..Len(v)
          PROVE  CarriedBy(e, v[i]) # HeldBy(e) /\ CarriedBy(e, v[i]) # HeldBy(p)
      <3>1. /\ v[i].seq \in Nat /\ v[i].type \in {"Send", "Ack"}
            /\ v[i].type = "Send" => v[i].seq > Len(Accepted(e)) /\ v[i].seq <= Handed(p)
            /\ v[i].type = "Ack" => v[i].seq <= Len(Received(p))
        BY <1>2
      <3>2. ASSUME CarriedBy(e, v[i]) = HeldBy(e) PROVE FALSE
        <4>1. v[i].seq = rs[e].frame.seq /\ (v[i].type = "Send" <=> rs[e].state # "sending")
          BY <3>2, <1>0, SameCall
        <4>2. /\ rs[e].state = "sending" => rs[e].frame.seq > Handed(e)
              /\ rs[e].state # "sending" => rs[e].frame.seq = Len(Accepted(e))
          BY <1>2
        <4> QED
          BY <4>1, <4>2, <3>1, <1>4
      <3>3. ASSUME CarriedBy(e, v[i]) = HeldBy(p) PROVE FALSE
        <4>1. v[i].seq = rs[p].frame.seq /\ (v[i].type = "Send" <=> rs[p].state = "sending")
          BY <3>3, <1>0, SameCall
        <4>2. /\ rs[p].state = "sending" => rs[p].frame.seq > Handed(p)
              /\ rs[p].state # "sending" => rs[p].frame.seq > Len(Received(p))
          BY <1>3
        <4> QED
          BY <4>1, <4>2, <3>1, <1>4
      <3> QED
        BY <3>2, <3>3
    <2>3. ASSUME NEW i \in 1..Len(w)
          PROVE  CarriedBy(p, w[i]) # HeldBy(e) /\ CarriedBy(p, w[i]) # HeldBy(p)
      <3>1. /\ w[i].seq \in Nat /\ w[i].type \in {"Send", "Ack"}
            /\ w[i].type = "Send" => w[i].seq > Len(Accepted(p)) /\ w[i].seq <= Handed(e)
            /\ w[i].type = "Ack" => w[i].seq <= Len(Received(e))
        BY <1>3
      <3>2. ASSUME CarriedBy(p, w[i]) = HeldBy(p) PROVE FALSE
        <4>1. w[i].seq = rs[p].frame.seq /\ (w[i].type = "Send" <=> rs[p].state # "sending")
          BY <3>2, <1>0, SameCall
        <4>2. /\ rs[p].state = "sending" => rs[p].frame.seq > Handed(p)
              /\ rs[p].state # "sending" => rs[p].frame.seq = Len(Accepted(p))
          BY <1>3
        <4> QED
          BY <4>1, <4>2, <3>1, <1>4
      <3>3. ASSUME CarriedBy(p, w[i]) = HeldBy(e) PROVE FALSE
        <4>1. w[i].seq = rs[e].frame.seq /\ (w[i].type = "Send" <=> rs[e].state = "sending")
          BY <3>3, <1>0, SameCall
        <4>2. /\ rs[e].state = "sending" => rs[e].frame.seq > Handed(e)
              /\ rs[e].state # "sending" => rs[e].frame.seq > Len(Received(e))
          BY <1>2
        <4> QED
          BY <4>1, <4>2, <3>1, <1>4
      <3> QED
        BY <3>2, <3>3
    <2>4. HeldBy(e) # HeldBy(p)
      <3>1. SUFFICES ASSUME HeldBy(e) = HeldBy(p) PROVE FALSE
        OBVIOUS
      <3>2. /\ rs[e].frame.seq = rs[p].frame.seq
            /\ rs[e].state = "sending" <=> rs[p].state # "sending"
        BY <3>1, <1>0, SameCall
      <3> QED
        BY <3>2, <1>2, <1>3, <1>4
    <2> QED
      BY <2>1, <2>2, <2>3, <2>4
  <1> HIDE DEF C
  <1>8. /\ \A i \in 1..C : i \in 1..Len(v) /\ i \in 1..Len(w)
    BY <1>0, <1>1, <1>2, <1>3
  <1>9. /\ \A i \in 1..C : CarriedBy(e, v[i]) \in X /\ IsUnacked(CarriedBy(e, v[i]))
        /\ \A i \in 1..C : CarriedBy(p, w[i]) \in X /\ IsUnacked(CarriedBy(p, w[i]))
        /\ HeldBy(e) \in X /\ HeldBy(p) \in X
        /\ IsUnacked(HeldBy(e)) /\ IsUnacked(HeldBy(p))
        /\ \A i, j \in 1..C : CarriedBy(e, v[j]) = CarriedBy(e, v[i]) => i = j
        /\ \A i, j \in 1..C : CarriedBy(p, w[j]) = CarriedBy(p, w[i]) => i = j
        /\ \A i, j \in 1..C : CarriedBy(e, v[i]) # CarriedBy(p, w[j])
        /\ \A i \in 1..C : CarriedBy(e, v[i]) # HeldBy(e) /\ CarriedBy(e, v[i]) # HeldBy(p)
        /\ \A i \in 1..C : CarriedBy(p, w[i]) # HeldBy(e) /\ CarriedBy(p, w[i]) # HeldBy(p)
        /\ HeldBy(e) # HeldBy(p)
    BY <1>2, <1>3, <1>7, <1>8
  <1>10. N \in Nat
    BY <1>0
  <1>11. \A i \in 1..N :
           \/ i \in 1..C /\ t[i] = CarriedBy(e, v[i])
           \/ i \notin 1..C /\ i - C \in 1..C /\ t[i] = CarriedBy(p, w[i - C])
           \/ i = 2 * C + 1 /\ t[i] = HeldBy(e)
           \/ i = 2 * C + 2 /\ t[i] = HeldBy(p)
    <2> SUFFICES ASSUME NEW i \in 1..N
                 PROVE  \/ i \in 1..C /\ t[i] = CarriedBy(e, v[i])
                        \/ i \notin 1..C /\ i - C \in 1..C /\ t[i] = CarriedBy(p, w[i - C])
                        \/ i = 2 * C + 1 /\ t[i] = HeldBy(e)
                        \/ i = 2 * C + 2 /\ t[i] = HeldBy(p)
      OBVIOUS
    <2>1. t[i] = IF i \in 1..C THEN CarriedBy(e, v[i])
                 ELSE IF i - C \in 1..C THEN CarriedBy(p, w[i - C])
                 ELSE IF i = 2 * C + 1 THEN HeldBy(e) ELSE HeldBy(p)
      OBVIOUS
    <2> HIDE DEF t
    <2>2. i \in 1..C \/ (i \notin 1..C /\ i - C \in 1..C) \/ i = 2 * C + 1 \/ i = 2 * C + 2
      BY <1>0
    <2>3. i = 2 * C + 1 \/ i = 2 * C + 2 => i \notin 1..C /\ i - C \notin 1..C
      BY <1>0
    <2>4. 2 * C + 1 # 2 * C + 2
      BY <1>0
    <2> QED
      BY <2>1, <2>2, <2>3, <2>4
  <1>12. t = [i \in 1..N |-> t[i]]
    OBVIOUS
  <1> HIDE DEF t
  <1>13. t \in [1..N -> X]
    <2>1. \A i \in 1..N : t[i] \in X
      BY <1>9, <1>11
    <2> QED
      BY <2>1, <1>12
  <1>14. \A i \in 1..N : IsUnacked(t[i])
    BY <1>9, <1>11
  <1>15. \A i, j \in 1..N : t[i] = t[j] => i = j
    <2> SUFFICES ASSUME NEW i \in 1..N, NEW j \in 1..N, t[i] = t[j]
                 PROVE  i = j
      OBVIOUS
    <2>1. i - C = j - C => i = j
      BY <1>0
    <2> QED
      BY <2>1, <1>9, <1>11
  <1> QED
    BY <1>0, <1>10, <1>13, <1>14, <1>15, CountUnacked DEF X, C

-----------------------------------------------------------------------------
(* The invariant behind the theorems.                                      *)
LEMMA OpenInvariance == Spec => [](IInv /\ OpenInv)
  <1>1. IInv /\ OpenInv /\ [Next]_vars => OpenInv'
    BY OpenStep DEF IInv
  <1> QED
    BY <1>1, OpenInit, Invariance, PTL DEF Spec

(* Neither circular wait can come about before more calls are waiting for  *)
(* their acks at once than the channels involved hold frames: two more than*)
(* the capacity of connection_receiver (connection.rs, 32) for the wait    *)
(* between an end's two actors, two more than both directions of the stream*)
(* take for the wait across the link.  However many calls are made one     *)
(* after the other, whatever times out and whenever the stream breaks.     *)
THEOREM DeadlockNeedsBacklog == Spec => []CircularWaitHasBacklog
  <1>1. IInv /\ OpenInv => CircularWaitHasBacklog
    BY ReaderBacklog, WriterBacklog, EndsAssumption DEF CircularWaitHasBacklog
  <1> QED
    BY <1>1, OpenInvariance, PTL

(* The calls of a link that wait for an ack are calls.                     *)
LEMMA UnackedCalls ==
    ASSUME IInv, NEW e \in Ends, IsFiniteSet(Calls)
    PROVE  Cardinality(Unacked(e)) <= Cardinality(Calls)
  <1> DEFINE U == Unacked(e)
             g == [w \in U |-> w.call]
  <1>0. TypeOK /\ WaitingInv /\ CallsInv /\ Peer[e] \in Ends
    BY EndsAssumption DEF IInv
  <1>1. \A w \in U : /\ w \in [seq : Nat, call : Calls]
                    /\ \E d \in Ends : w.seq \in 1..Len(sent[d]) /\ sent[d][w.seq] = w.call
    BY <1>0 DEF Unacked, TypeOK, WaitingInv
  <1> HIDE DEF U
  <1>2. g \in [U -> Calls]
    BY <1>1
  <1>3. \A v, w \in U : g[v] = g[w] => v = w
    <2> SUFFICES ASSUME NEW v \in U, NEW w \in U, v.call = w.call PROVE v = w
      OBVIOUS
    <2>1. PICK c \in Ends : v.seq \in 1..Len(sent[c]) /\ sent[c][v.seq] = v.call
      BY <1>1
    <2>2. PICK d \in Ends : w.seq \in 1..Len(sent[d]) /\ sent[d][w.seq] = w.call
      BY <1>1
    <2>3. v.seq = w.seq
      BY <2>1, <2>2, <1>0, OneNumber
    <2>4. v \in [seq : Nat, call : Calls] /\ w \in [seq : Nat, call : Calls]
      BY <1>1
    <2> QED
      BY <2>3, <2>4
  <1> HIDE DEF g
  <1>4. g \in Injection(U, Calls)
    BY <1>2, <1>3 DEF Injection, IsInjective
  <1> QED
    BY <1>4, FS_Injection DEF U

(* NoCircularWait for every link over which no more calls are made than the*)
(* channels have room for: neither the actors of an end (connection and    *)
(* reliable sender, each awaiting a send to the other) nor the two ends can*)
(* then wait for each other.  The bound is on all calls together.          *)
THEOREM NoDeadlockWithFewCalls ==
    ASSUME IsFiniteSet(Calls),
           Cardinality(Calls) <= ConnCap + 1,
           Cardinality(Calls) <= 2 * WireCap + 1
    PROVE  Spec => []NoCircularWait
  <1>1. IInv /\ CircularWaitHasBacklog => NoCircularWait
    <2> SUFFICES ASSUME IInv, CircularWaitHasBacklog PROVE NoCircularWait
      OBVIOUS
    <2>1. /\ ConnCap \in Nat /\ WireCap \in Nat /\ Cardinality(Calls) \in Nat
      BY CapAssumption, FS_CardinalityType
    <2>2. ASSUME NEW e \in Ends
          PROVE  /\ ~ReaderBlocked(e)
                 /\ link = "up" => ~(WriterBlocked(e) /\ WriterBlocked(Peer[e]))
      <3>1. IsFiniteSet(Unacked(e))
        BY UnackedFinite, FS_Union, EndsAssumption DEF Unacked, IInv
      <3>2. Cardinality(Unacked(e)) \in Nat /\ Cardinality(Unacked(e)) <= Cardinality(Calls)
        BY <3>1, UnackedCalls, FS_CardinalityType
      <3> QED
        BY <2>1, <3>2 DEF CircularWaitHasBacklog
    <2>3. PICK e \in Ends : Peer[e] \in Ends
      BY EndsAssumption
    <2> QED
      BY <2>2, <2>3 DEF NoCircularWait, ReaderBlocked, WriterBlocked
  <1>2. Spec => []IInv
    BY Invariance
  <1>3. Spec => []CircularWaitHasBacklog
    BY DeadlockNeedsBacklog
  <1> QED
    BY <1>1, <1>2, <1>3, PTL
=============================================================================
