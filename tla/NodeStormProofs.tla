-------------------------- MODULE NodeStormProofs --------------------------
(* How many copies of a package there are between a hub and its joiners,   *)
(* for every set of nodes, any number of joiners and wherever timeouts fire*)
(* (Node!NoEchoStorm).                                                     *)
EXTENDS NodeProofs, FiniteSetTheorems

-----------------------------------------------------------------------------
(* Inductive invariants, on top of IInv.                                   *)

(* An event loop waits for the ack of its response, and for no other.      *)
LoopOK(n, p) == /\ WaitsOnce(n, p, Loop)
                /\ Waits(n, p, Loop) => loop[n][p].pc = "unicast"

(* What an event loop handles has come over its link.                      *)
HeardInv ==
    \A n, p \in Nodes :
        /\ got[n][p] # <<>> => p \in Linked(n)
        /\ \A i \in DOMAIN inbox[n][p] : Contains(got[n][p], inbox[n][p][i])
        /\ loop[n][p].pc = "rebroadcast" => Contains(got[n][p], loop[n][p].msg)

(* All that n has said to p, arrived or on its way, and the packages in it.*)
Said(n, p) ==
    [i \in 1..(Len(got[p][n]) + Len(outbox[n][p])) |->
        IF i <= Len(got[p][n]) THEN got[p][n][i]
                               ELSE outbox[n][p][i - Len(got[p][n])].msg]

Spoke(n, p) == {m \in Broadcasts : \E i \in DOMAIN Said(n, p) : Said(n, p)[i] = m}

(* A sequence holds no, at most one, at most two elements of S.            *)
NoneOf(s, S) == \A i \in DOMAIN s : s[i] \notin S
OneOf(s, S) == \A i, j \in DOMAIN s : s[i] \in S /\ s[j] \in S => i = j
TwoOf(s, S) == \A i, j, k \in DOMAIN s :
    s[i] \in S /\ s[j] \in S /\ s[k] \in S => i = j \/ j = k \/ i = k

(* A node that joins s alone and that nobody joins calls its echo broadcast*)
(* actor at most once with effect: its one event loop makes the call, and  *)
(* stays with it unless the actor dies, which it does before it sends.     *)
Leaf(p, s) == Seeds[p] = <<s>> /\ \A q \in Nodes : ~Joins(q, p)
LeafIdle(p, s) ==
    /\ loop[p][s].pc # "broadcast" /\ calls[p] = <<>> /\ echo[p].pc # "sending"
    /\ waiters[p] = {} /\ NoneOf(Said(p, s), Broadcasts)
LeafCalling(p, s) ==
    /\ loop[p][s].pc = "broadcast" /\ echo[p].pc = "recv" /\ waiters[p] = {}
    /\ Len(calls[p]) = 1 /\ Contains(got[p][s], calls[p][1].msg)
    /\ NoneOf(Said(p, s), Broadcasts)
LeafSending(p, s) ==
    /\ loop[p][s].pc = "broadcast" /\ echo[p].pc = "sending" /\ waiters[p] = {}
    /\ calls[p] = <<>> /\ Contains(got[p][s], echo[p].call.msg)
    /\ echo[p].left \subseteq echo[p].call.members
    /\ s \notin echo[p].call.members \/ (s \in echo[p].left /\ echo[p].to # s)
         => NoneOf(Said(p, s), Broadcasts)
    /\ OneOf(Said(p, s), Broadcasts)
LeafWaiting(p, s) ==
    /\ loop[p][s].pc = "broadcast" /\ echo[p].pc = "recv" /\ calls[p] = <<>>
    /\ OneOf(Said(p, s), Broadcasts)
LeafJoins(p, s) ==
    /\ main[p].pc \in {"connect", "add_seed"} => main[p].next = 1
    /\ main[p].pc = "connect" => s \notin Linked(p)
LeafRepeats(p, s) == \A m \in Spoke(p, s) : Contains(got[p][s], m)
LeafPhase(p, s) ==
    LeafIdle(p, s) \/ LeafCalling(p, s) \/ LeafSending(p, s) \/ LeafWaiting(p, s)
LeafInv ==
    \A p, s \in Nodes : Leaf(p, s) =>
        LoopOK(p, s) /\ LeafJoins(p, s) /\ LeafRepeats(p, s) /\ LeafPhase(p, s)

(* While a hub introduces a joiner its event loops for the others are stuck*)
(* in their calls.  A package is called for by the main task and, when it  *)
(* has come back from the joiner, once more by the joiner's event loop,    *)
(* which releases the main task and is itself stuck from then on.          *)
Introducing == {"add_member", "send_helo", "handshake", "round_one", "broadcast"}
Package(n, p) == RoundOne(<<n, p>>, n)
Mine(n) == Package(n, main[n].peer)
Greeted(n) == {p \in Linked(n) : ~(main[n].pc \in Introducing /\ main[n].peer = p)}
Released(n) == loop[n][main[n].peer].pc # "broadcast"

MainWaiter(n) == << <<n, main[n].peer>>, Main >>
MineWaiting(n) == WaitersFor(n, <<n, main[n].peer>>)
PeersCall(n, c) == c.by = main[n].peer /\ c.msg = Mine(n)
PeerBehind(n) ==
    \/ calls[n] = <<>> /\ Released(n)
    \/ Len(calls[n]) = 1 /\ PeersCall(n, calls[n][1]) /\ ~Released(n)

HubSilent(n) ==
    /\ main[n].pc # "broadcast" /\ echo[n].pc = "recv" /\ calls[n] = <<>>
    /\ main[n].pc \in Introducing => Released(n)
HubCalling(n) ==
    /\ main[n].pc = "broadcast" /\ echo[n].pc = "recv" /\ calls[n] = <<MainCall(n)>>
    /\ MineWaiting(n) = {} /\ Released(n)
    /\ \A q \in Nodes : NoneOf(Said(n, q), {Mine(n)})
HubSending(n) ==
    /\ main[n].pc = "broadcast" /\ echo[n].pc = "sending" /\ echo[n].call = MainCall(n)
    /\ MineWaiting(n) = {} /\ PeerBehind(n)
    /\ \A q \in Nodes : /\ q \in echo[n].left /\ echo[n].to # q
                            => NoneOf(Said(n, q), {Mine(n)})
                        /\ OneOf(Said(n, q), {Mine(n)})
HubWaiting(n) ==
    /\ main[n].pc = "broadcast" /\ echo[n].pc = "recv"
    /\ MineWaiting(n) = {MainWaiter(n)} /\ PeerBehind(n)
    /\ \A q \in Nodes : OneOf(Said(n, q), {Mine(n)})
HubAnswering(n) ==
    /\ main[n].pc = "broadcast" /\ echo[n].pc = "sending" /\ calls[n] = <<>>
    /\ PeersCall(n, echo[n].call) /\ ~Released(n)
    /\ MineWaiting(n) = {MainWaiter(n)}
    /\ \A q \in Nodes : q \in echo[n].left /\ echo[n].to # q
                        => OneOf(Said(n, q), {Mine(n)})
HubPhase(n) ==
    HubSilent(n) \/ HubCalling(n) \/ HubSending(n) \/ HubWaiting(n) \/ HubAnswering(n)

HubLoops(n) ==
    /\ \A p \in Nodes : LoopOK(n, p)
    /\ \A p \in Greeted(n) : loop[n][p].pc = "broadcast"
HubWaiters(n) ==
    \A w \in waiters[n] : \/ \E p \in Greeted(n) : w[1] = <<n, p>>
                          \/ w = MainWaiter(n) /\ main[n].pc = "broadcast"
HubSpoke(n) ==
    \A q \in Nodes : \A m \in Spoke(n, q) :
        \/ m = Mine(n) /\ main[n].pc = "broadcast" /\ q \in Linked(n)
        \/ q \in Greeted(n) /\ \E p \in Greeted(n) : m = Package(n, p)
HubTwice(n) == \A q \in Nodes : \A m \in Broadcasts : TwoOf(Said(n, q), {m})
HubOK(n) == HubPhase(n) /\ HubLoops(n) /\ HubWaiters(n) /\ HubSpoke(n) /\ HubTwice(n)

StormInv == HeardInv /\ LeafInv /\ \A n \in Nodes : Hub(n) => HubOK(n)

-----------------------------------------------------------------------------
(* Event loops.                                                            *)

LoopMover(m, q) ==
    \/ Connect(m, q) \/ Connect(q, m)
    \/ TakeUnicast(m, q) \/ TakeBroadcast(m, q) \/ Rebroadcast(m, q)
    \/ LoopTimesOut(m, q) \/ (Ack(m, q) /\ Woken(m, q) = Loop)
    \/ FinishSend(m) \/ FinishSendPanics(m)

LEMMA ErrFrame ==
    ASSUME Shapes, NEW n \in Nodes, NEW S, ReturnErr(n, S)
    PROVE  /\ \A m, q \in Nodes : m # n \/ q \notin S => loop'[m][q] = loop[m][q]
           /\ \A q \in Nodes : q \in S => loop'[n][q] = Receiving
           /\ \A m \in Nodes : m # n \/ Main \notin S => main'[m] = main[m]
<1> DEFINE row == [p \in Nodes |-> IF p \in S THEN Receiving ELSE loop[n][p]]
<1>1. loop \in [Nodes -> [Nodes -> LoopStates]] /\ loop' = [loop EXCEPT ![n] = row]
  BY DEF Shapes, ReturnErr
<1>2. \A q \in Nodes : row[q] = IF q \in S THEN Receiving ELSE loop[n][q]
  OBVIOUS
<1> HIDE DEF row
<1>3. \A m \in Nodes : loop'[m] = IF m = n THEN row ELSE loop[m]
  BY <1>1
<1>4. \A m \in Nodes : m # n \/ Main \notin S => main'[m] = main[m]
  BY DEF ReturnErr, Shapes
<1> QED
  BY <1>2, <1>3, <1>4

LEMMA LoopMovers ==
    ASSUME IInv, [Next]_vars, NEW m \in Nodes, NEW q \in Nodes
    PROVE  loop'[m][q] = loop[m][q] \/ LoopMover(m, q)
<1>0. Shapes
  BY DEF IInv, TypeOK
<1>1. ASSUME NEW n \in Nodes, MainStep(n) \/ MainTimesOut(n)
      PROVE  loop'[m][q] = loop[m][q] \/ LoopMover(m, q)
  <2>1. ASSUME NEW s \in Nodes, Connect(n, s)
        PROVE  loop'[m][q] = loop[m][q] \/ LoopMover(m, q)
    <3>1. ~(m = n /\ q = s) /\ ~(m = s /\ q = n) => loop'[m][q] = loop[m][q]
      BY <2>1, ConnectEffect
    <3> QED
      BY <2>1, <3>1 DEF LoopMover
  <2>2. CASE ~\E s \in Nodes : Connect(n, s)
    BY <1>1, <2>2 DEF MainStep, ConnectRefused, AddSeed, AddMember, SendHelo,
       BroadcastRoundOne, SendMembership, MainTimesOut
  <2> QED
    BY <2>1, <2>2
<1>2. ASSUME NEW n \in Nodes, EchoStep(n)
      PROVE  loop'[m][q] = loop[m][q] \/ LoopMover(m, q)
  <2>1. CASE FinishSend(n) \/ FinishSendPanics(n)
    <3>1. PICK S : ReturnErr(n, S)
      BY <2>1 DEF FinishSend, FinishSendPanics
    <3>2. m # n => loop'[m][q] = loop[m][q]
      BY <1>0, <3>1, ErrFrame
    <3> QED
      BY <2>1, <3>2 DEF LoopMover
  <2>2. CASE TakeCall(n) \/ \E p \in Nodes : SendToMember(n, p)
    BY <2>2 DEF TakeCall, SendToMember
  <2> QED
    BY <1>2, <2>1, <2>2 DEF EchoStep
<1>3. ASSUME NEW n \in Nodes, NEW p \in Nodes, LoopStep(n, p)
      PROVE  loop'[m][q] = loop[m][q] \/ LoopMover(m, q)
  <2>1. CASE TakeUnicast(n, p)
    <3>1. m # n \/ q # p => loop'[m][q] = loop[m][q]
      BY <2>1, TakeUnicastEffect
    <3> QED
      BY <2>1, <3>1 DEF LoopMover
  <2>2. CASE TakeBroadcast(n, p)
    <3>1. m # n \/ q # p => loop'[m][q] = loop[m][q]
      BY <2>2, TakeBroadcastEffect
    <3> QED
      BY <2>2, <3>1 DEF LoopMover
  <2>3. CASE Rebroadcast(n, p)
    <3>1. m # n \/ q # p => loop'[m][q] = loop[m][q]
      BY <2>3, RebroadcastEffect
    <3> QED
      BY <2>3, <3>1 DEF LoopMover
  <2> QED
    BY <1>3, <2>1, <2>2, <2>3 DEF LoopStep
<1>4. ASSUME NEW n \in Nodes, NEW p \in Nodes, LinkStep(n, p)
      PROVE  loop'[m][q] = loop[m][q] \/ LoopMover(m, q)
  <2>1. CASE Transfer(n, p)
    BY <2>1 DEF Transfer
  <2>2. CASE Ack(n, p)
    <3>1. m # n \/ q # p \/ Woken(n, p) # Loop => loop'[m][q] = loop[m][q]
      BY <2>2, AckLoopEffect
    <3> QED
      BY <2>2, <3>1 DEF LoopMover
  <2> QED
    BY <1>4, <2>1, <2>2 DEF LinkStep
<1>5. ASSUME NEW n \in Nodes, NEW p \in Nodes, LoopTimesOut(n, p)
      PROVE  loop'[m][q] = loop[m][q] \/ LoopMover(m, q)
  <2>1. m # n \/ q # p => loop'[m][q] = loop[m][q]
    BY <1>5, LoopTimesOutEffect
  <2> QED
    BY <1>5, <2>1 DEF LoopMover
<1>6. CASE UNCHANGED vars
  BY <1>6 DEF vars
<1> QED
  BY <1>1, <1>2, <1>3, <1>4, <1>5, <1>6 DEF Next

LEMMA LoopKept ==
    ASSUME NEW m \in Nodes, NEW q \in Nodes, LoopOK(m, q),
           InOutbox(m, q, Loop)' = InOutbox(m, q, Loop),
           InAcks(m, q, Loop)' = InAcks(m, q, Loop),
           Waits(m, q, Loop) => loop'[m][q] = loop[m][q]
    PROVE  LoopOK(m, q)'
  BY DEF LoopOK, WaitsOnce, Waits

LEMMA LoopForgotten ==
    ASSUME NEW m \in Nodes, NEW q \in Nodes,
           InOutbox(m, q, Loop)' = {}, InAcks(m, q, Loop)' = {}
    PROVE  LoopOK(m, q)'
  BY DEF LoopOK, WaitsOnce, Waits

LEMMA SameTraffic ==
    ASSUME NEW m \in Nodes, NEW q \in Nodes, NEW b,
           outbox'[m][q] = outbox[m][q], acks'[m][q] = acks[m][q]
    PROVE  /\ InOutbox(m, q, b)' = InOutbox(m, q, b)
           /\ InAcks(m, q, b)' = InAcks(m, q, b)
  BY DEF InOutbox, InAcks

(* A loop keeps its place while it waits, if its link is not set up anew   *)
(* and only the echo broadcast actor's caller gets an answer from it.      *)
LEMMA LoopOKStep ==
    ASSUME IInv, [Next]_vars, NEW m \in Nodes, NEW q \in Nodes, LoopOK(m, q),
           Connect(m, q) \/ Connect(q, m) => q \notin Linked(m),
           FinishSend(m) \/ FinishSendPanics(m) =>
             loop'[m][q] = loop[m][q] \/ loop[m][q].pc = "broadcast"
    PROVE  LoopOK(m, q)'
<1>0. /\ Shapes /\ Main \in Tasks /\ Loop \in Tasks /\ Echo \in Tasks
      /\ Main # Loop /\ Main # Echo /\ Loop # Echo
      /\ Main # Gone /\ Echo # Gone /\ Loop # Gone
  BY DEF IInv, TypeOK, Tasks, Main, Loop, Echo, Gone
<1>a. Waits(m, q, Loop) => q \in Linked(m)
  <2>1. Waits(m, q, Loop) => outbox[m][q] # <<>> \/ acks[m][q] # <<>>
    BY DEF Waits, InOutbox, InAcks
  <2> QED
    BY <2>1 DEF IInv, LinksInv
<1>b. Waits(m, q, Loop) => loop[m][q].pc = "unicast"
  BY DEF LoopOK
<1>c. /\ TakeUnicast(m, q) => loop[m][q].pc = "recv"
      /\ TakeBroadcast(m, q) => loop[m][q].pc = "recv"
      /\ Rebroadcast(m, q) => loop[m][q].pc = "rebroadcast"
  BY DEF TakeUnicast, TakeBroadcast, Rebroadcast
<1>d. /\ Waits(m, q, Loop) /\ ~LoopTimesOut(m, q) /\ ~(Ack(m, q) /\ Woken(m, q) = Loop)
      => loop'[m][q] = loop[m][q]
  BY <1>a, <1>b, <1>c, LoopMovers DEF LoopMover
<1>1. ASSUME NEW n \in Nodes, NEW p \in Nodes, NEW msg \in Messages, NEW b \in {Main, Echo},
             Sends(n, p, msg, b), loop' = loop
      PROVE  LoopOK(m, q)'
  <2>1. SendReliably(n, p, msg, b) /\ acks' = acks
    BY <1>1 DEF Sends
  <2>2. InAcks(m, q, Loop)' = InAcks(m, q, Loop)
    BY <2>1 DEF InAcks
  <2>3. InOutbox(m, q, Loop)' = InOutbox(m, q, Loop)
    <3>1. CASE m # n \/ q # p
      <4>1. outbox'[m][q] = outbox[m][q]
        BY <1>0, <2>1, <3>1, SendFrame
      <4> QED
        BY <4>1 DEF InOutbox
    <3>2. CASE m = n /\ q = p
      BY <1>0, <2>1, <3>2, SendWaits
    <3> QED
      BY <3>1, <3>2
  <2> QED
    BY <1>1, <2>2, <2>3, LoopKept
<1>2. ASSUME NEW n \in Nodes, NEW p \in Nodes, TakeUnicast(n, p),
             Sends(n, p, Handshake("oleh"), Loop)
      PROVE  LoopOK(m, q)'
  <2>1. /\ SendReliably(n, p, Handshake("oleh"), Loop) /\ Handshake("oleh") \in Messages
        /\ acks' = acks
    BY <1>2 DEF Sends
  <2>2. CASE m # n \/ q # p
    <3>1. outbox'[m][q] = outbox[m][q]
      BY <1>0, <2>1, <2>2, SendFrame
    <3>2. loop'[m][q] = loop[m][q]
      BY <1>2, <2>2, TakeUnicastEffect
    <3> QED
      BY <2>1, <3>1, <3>2, LoopKept, SameTraffic
  <2>3. CASE m = n /\ q = p
    <3> DEFINE k == Len(outbox[m][q]) + 1
    <3>1. InOutbox(m, q, Loop)' = InOutbox(m, q, Loop) \cup {k}
      BY <1>0, <2>1, <2>3, SendWaits
    <3> HIDE DEF k
    <3>2. InAcks(m, q, Loop)' = InAcks(m, q, Loop)
      BY <2>1 DEF InAcks
    <3>3. InOutbox(m, q, Loop) = {} /\ InAcks(m, q, Loop) = {}
      BY <1>2, <1>b, <1>c, <2>3 DEF Waits
    <3>4. loop'[m][q].pc = "unicast"
      <4>1. outbox' # outbox
        <5> DEFINE o == [msg |-> Handshake("oleh"), by |-> Loop]
        <5>1. /\ outbox'[n][p] = Append(outbox[n][p], o)
              /\ outbox[n][p] \in Seq(Outs) /\ o \in Outs
          BY <1>0, <2>1, SendEffect
        <5> HIDE DEF o
        <5>2. Len(outbox'[n][p]) = Len(outbox[n][p]) + 1 /\ Len(outbox[n][p]) \in Nat
          BY <5>1, AppendType
        <5> QED
          BY <5>2
      <4> QED
        BY <1>2, <2>3, <4>1, TakeUnicastEffect
    <3> QED
      BY <3>1, <3>2, <3>3, <3>4 DEF LoopOK, WaitsOnce, Waits
  <2> QED
    BY <2>2, <2>3
<1>3. ASSUME NEW n \in Nodes, NEW p \in Nodes, Transfer(n, p) PROVE LoopOK(m, q)'
  <2>1. loop' = loop
    BY <1>3 DEF Transfer
  <2>2. CASE m # n \/ q # p
    <3>1. outbox'[m][q] = outbox[m][q] /\ acks'[m][q] = acks[m][q]
      BY <1>0, <1>3, <2>2, TransferFrame
    <3> QED
      BY <2>1, <3>1, LoopKept, SameTraffic
  <2>3. CASE m = n /\ q = p
    <3> DEFINE k == Len(acks[n][p]) + 1
    <3>1. /\ \A i \in InOutbox(n, p, Loop)' :
               i + 1 \in InOutbox(n, p, Loop) /\ i + 1 # 1 /\ i \in Nat
          /\ First(n, p).by # Loop => InAcks(n, p, Loop)' = InAcks(n, p, Loop)
          /\ First(n, p).by = Loop => /\ 1 \in InOutbox(n, p, Loop)
                                      /\ InAcks(n, p, Loop)' = InAcks(n, p, Loop) \cup {k}
      BY <1>0, <1>3, TransferWaits
    <3> HIDE DEF k
    <3>2. WaitsOnce(n, p, Loop)
      BY <2>3 DEF LoopOK
    <3>3. \A i, j \in InOutbox(n, p, Loop)' : i = j
      <4>1. \A i, j \in InOutbox(n, p, Loop)' : i + 1 = j + 1 /\ i \in Nat /\ j \in Nat
        BY <3>1, <3>2 DEF WaitsOnce
      <4> QED
        BY <4>1
    <3>4. WaitsOnce(n, p, Loop)' /\ (Waits(n, p, Loop)' => Waits(n, p, Loop))
      BY <3>1, <3>2, <3>3 DEF WaitsOnce, Waits
    <3> QED
      BY <2>1, <2>3, <3>4 DEF LoopOK
  <2> QED
    BY <2>2, <2>3
<1>4. ASSUME NEW n \in Nodes, NEW p \in Nodes, Ack(n, p) PROVE LoopOK(m, q)'
  <2>1. m # n \/ q # p \/ Woken(n, p) # Loop => loop'[m][q] = loop[m][q]
    BY <1>4, AckLoopEffect
  <2>2. CASE m # n \/ q # p
    <3>1. outbox'[m][q] = outbox[m][q] /\ acks'[m][q] = acks[m][q]
      BY <1>4, <2>2, AckEffect
    <3> QED
      BY <2>1, <2>2, <3>1, LoopKept, SameTraffic
  <2>3. CASE m = n /\ q = p
    <3>1. /\ InOutbox(m, q, Loop)' = InOutbox(m, q, Loop)
          /\ \A i \in InAcks(m, q, Loop)' : i + 1 \in InAcks(m, q, Loop) /\ i + 1 # 1 /\ i \in Nat
          /\ Woken(m, q) = Loop => 1 \in InAcks(m, q, Loop)
      BY <1>4, <2>3, AckWaits
    <3>2. WaitsOnce(m, q, Loop)
      BY DEF LoopOK
    <3>3. \A i, j \in InAcks(m, q, Loop)' : i = j
      <4>1. \A i, j \in InAcks(m, q, Loop)' : i + 1 = j + 1 /\ i \in Nat /\ j \in Nat
        BY <3>1, <3>2 DEF WaitsOnce
      <4> QED
        BY <4>1
    <3>4. Woken(m, q) = Loop => InOutbox(m, q, Loop) = {} /\ InAcks(m, q, Loop)' = {}
      BY <3>1, <3>2 DEF WaitsOnce
    <3>5. WaitsOnce(m, q, Loop)' /\ (Waits(m, q, Loop)' => Waits(m, q, Loop))
      BY <3>1, <3>2, <3>3 DEF WaitsOnce, Waits
    <3>6. Waits(m, q, Loop)' => Woken(m, q) # Loop
      BY <3>1, <3>4 DEF Waits
    <3> QED
      BY <1>b, <2>1, <2>3, <3>5, <3>6 DEF LoopOK
  <2> QED
    BY <2>2, <2>3
<1>5. ASSUME NEW n \in Nodes, MainTimesOut(n) PROVE LoopOK(m, q)'
  <2>1. PICK p \in Nodes : p = main[n].peer /\ Forget(n, p, Main)
    BY <1>5, MainTimesOutEffect
  <2>2. loop' = loop
    BY <1>5, MainTimesOutEffect
  <2>3. CASE m # n \/ q # p
    <3>1. outbox'[m][q] = outbox[m][q] /\ acks'[m][q] = acks[m][q]
      BY <1>0, <2>1, <2>3, ForgetFrame
    <3> QED
      BY <2>2, <3>1, LoopKept, SameTraffic
  <2>4. CASE m = n /\ q = p
    <3>1. InOutbox(m, q, Loop)' = InOutbox(m, q, Loop) /\ InAcks(m, q, Loop)' = InAcks(m, q, Loop)
      BY <1>0, <2>1, <2>4, ForgetWaits
    <3> QED
      BY <2>2, <3>1, LoopKept
  <2> QED
    BY <2>3, <2>4
<1>6. ASSUME NEW n \in Nodes, NEW p \in Nodes, LoopTimesOut(n, p) PROVE LoopOK(m, q)'
  <2>1. Forget(n, p, Loop) /\ (m # n \/ q # p => loop'[m][q] = loop[m][q])
    BY <1>6, LoopTimesOutEffect
  <2>2. CASE m # n \/ q # p
    <3>1. outbox'[m][q] = outbox[m][q] /\ acks'[m][q] = acks[m][q]
      BY <1>0, <2>1, <2>2, ForgetFrame
    <3> QED
      BY <2>1, <2>2, <3>1, LoopKept, SameTraffic
  <2>3. CASE m = n /\ q = p
    <3>1. InOutbox(m, q, Loop)' = {} /\ InAcks(m, q, Loop)' = {}
      BY <1>0, <2>1, <2>3, ForgetWaits
    <3> QED
      BY <3>1, LoopForgotten
  <2> QED
    BY <2>2, <2>3
<1>7. ASSUME UNCHANGED <<outbox, acks, got>>, ~Ack(m, q), ~LoopTimesOut(m, q)
      PROVE  LoopOK(m, q)'
  BY <1>7, <1>d, LoopKept, SameTraffic
<1>8. \A n, p \in Nodes : SendToMember(n, p) => loop' = loop
  BY DEF SendToMember
<1>9. \A n \in Nodes : SendHelo(n) \/ SendMembership(n) => loop' = loop
  BY DEF SendHelo, SendMembership
<1>10. \A n, p \in Nodes : Sends(n, p, echo[n].call.msg, Echo) => echo[n].call.msg \in Messages
  BY DEF Sends
<1>11. LinkMoves
  BY LinkMovesStep
<1> QED
  BY <1>1, <1>2, <1>3, <1>4, <1>5, <1>6, <1>7, <1>8, <1>9, <1>10, <1>11 DEF LinkMoves

-----------------------------------------------------------------------------
(* What has been said.                                                     *)

LEMMA ListKept ==
    ASSUME NEW s, NEW S, NEW t, NEW L \in Nat, DOMAIN s = 1..L, DOMAIN t = 1..L + 1,
           \A i \in 1..L : t[i] = s[i], t[L + 1] \notin S
    PROVE  /\ NoneOf(s, S) => NoneOf(t, S)
           /\ OneOf(s, S) => OneOf(t, S)
           /\ TwoOf(s, S) => TwoOf(t, S)
<1>1. \A i \in DOMAIN t : t[i] \in S => i \in DOMAIN s /\ s[i] \in S
  OBVIOUS
<1> QED
  BY ONLY <1>1 DEF NoneOf, OneOf, TwoOf

LEMMA ListGrows ==
    ASSUME NEW s, NEW S, NEW t, NEW L \in Nat, DOMAIN s = 1..L, DOMAIN t = 1..L + 1,
           \A i \in 1..L : t[i] = s[i]
    PROVE  /\ NoneOf(s, S) => OneOf(t, S)
           /\ OneOf(s, S) => TwoOf(t, S)
<1>1. \A i \in DOMAIN t : t[i] \in S => i = L + 1 \/ (i \in DOMAIN s /\ s[i] \in S)
  OBVIOUS
<1> QED
  BY ONLY <1>1 DEF NoneOf, OneOf, TwoOf

LEMMA ListWeakens ==
    ASSUME NEW s, NEW S
    PROVE  /\ NoneOf(s, S) => OneOf(s, S)
           /\ OneOf(s, S) => TwoOf(s, S)
  BY DEF NoneOf, OneOf, TwoOf

(* Nothing that has been said is lost, and m is said after it.             *)
Adds(n, p, m) ==
    \E L \in Nat : /\ DOMAIN Said(n, p) = 1..L /\ DOMAIN Said(n, p)' = 1..L + 1
                   /\ \A i \in 1..L : Said(n, p)'[i] = Said(n, p)[i]
                   /\ Said(n, p)'[L + 1] = m

LEMMA SaidType ==
    ASSUME Shapes, NEW n \in Nodes, NEW p \in Nodes
    PROVE  /\ got[p][n] \in Seq(Messages) /\ outbox[n][p] \in Seq(Outs)
           /\ Len(got[p][n]) \in Nat /\ Len(outbox[n][p]) \in Nat
           /\ DOMAIN got[p][n] = 1..Len(got[p][n])
           /\ DOMAIN outbox[n][p] = 1..Len(outbox[n][p])
           /\ DOMAIN Said(n, p) = 1..(Len(got[p][n]) + Len(outbox[n][p]))
           /\ \A i \in 1..Len(got[p][n]) : Said(n, p)[i] = got[p][n][i]
           /\ \A i \in 1..Len(outbox[n][p]) :
                Said(n, p)[Len(got[p][n]) + i] = outbox[n][p][i].msg
<1>1. got[p][n] \in Seq(Messages) /\ outbox[n][p] \in Seq(Outs)
  BY DEF Shapes, Outs
<1>2. /\ Len(got[p][n]) \in Nat /\ Len(outbox[n][p]) \in Nat
      /\ DOMAIN got[p][n] = 1..Len(got[p][n])
      /\ DOMAIN outbox[n][p] = 1..Len(outbox[n][p])
  BY <1>1
<1> DEFINE G == Len(got[p][n])
           B == Len(outbox[n][p])
<1>3. Said(n, p) = [i \in 1..(G + B) |->
                      IF i <= G THEN got[p][n][i] ELSE outbox[n][p][i - G].msg]
  BY DEF Said
<1>4. G \in Nat /\ B \in Nat
  BY <1>2
<1> HIDE DEF G, B
<1>5. \A i \in 1..G : Said(n, p)[i] = got[p][n][i]
  BY <1>3, <1>4
<1>6. ASSUME NEW i \in 1..B PROVE Said(n, p)[G + i] = outbox[n][p][i].msg
  <2>1. G + i \in 1..(G + B) /\ ~(G + i <= G) /\ (G + i) - G = i
    BY <1>4
  <2> QED
    BY <1>3, <2>1
<1>7. DOMAIN Said(n, p) = 1..(G + B)
  BY <1>3
<1> QED
  BY <1>1, <1>2, <1>5, <1>6, <1>7 DEF G, B

LEMMA SaidSend ==
    ASSUME Shapes, NEW n \in Nodes, NEW p \in Nodes, NEW msg \in Messages,
           NEW by \in Tasks, SendReliably(n, p, msg, by), got' = got
    PROVE  Adds(n, p, msg)
<1> DEFINE o == [msg |-> msg, by |-> by]
           G == Len(got[p][n])
           B == Len(outbox[n][p])
<1>1. /\ outbox'[n][p] = Append(outbox[n][p], o)
      /\ outbox[n][p] \in Seq(Outs) /\ o \in Outs
  BY SendEffect
<1>2. o.msg = msg
  OBVIOUS
<1> HIDE DEF o
<1>3. /\ Len(outbox'[n][p]) = B + 1 /\ \A i \in 1..B : outbox'[n][p][i] = outbox[n][p][i]
      /\ outbox'[n][p][B + 1] = o /\ B \in Nat
  BY <1>1, AppendType
<1>4. G \in Nat
  BY SaidType
<1>5. /\ DOMAIN Said(n, p) = 1..(G + B)
      /\ DOMAIN Said(n, p)' = 1..(G + (B + 1))
  BY <1>3 DEF Said
<1>t. G \in Nat /\ B \in Nat
  BY <1>3, <1>4
<1> HIDE DEF G, B
<1>6. ASSUME NEW i \in 1..(G + B) PROVE Said(n, p)'[i] = Said(n, p)[i]
  <2>1. i \in 1..(G + (B + 1))
    BY <1>t
  <2>2. ~(i <= G) => i - G \in 1..B
    BY <1>t
  <2>3. Said(n, p)[i] = IF i <= G THEN got[p][n][i] ELSE outbox[n][p][i - G].msg
    BY DEF Said, G, B
  <2>4. Said(n, p)'[i] = IF i <= G THEN got[p][n][i] ELSE outbox'[n][p][i - G].msg
    BY <1>3, <2>1 DEF Said, G, B
  <2> QED
    BY <1>3, <2>2, <2>3, <2>4
<1>7. Said(n, p)'[(G + B) + 1] = msg
  <2>1. /\ (G + B) + 1 \in 1..(G + (B + 1)) /\ ~((G + B) + 1 <= G)
        /\ ((G + B) + 1) - G = B + 1
    BY <1>t
  <2>2. Said(n, p)'[(G + B) + 1] = outbox'[n][p][((G + B) + 1) - G].msg
    BY <1>3, <2>1 DEF Said, G
  <2> QED
    BY <1>2, <1>3, <2>1, <2>2
<1>8. G + B \in Nat /\ G + (B + 1) = (G + B) + 1
  BY <1>t
<1> QED
  BY <1>5, <1>6, <1>7, <1>8 DEF Adds

LEMMA SaidTransfer ==
    ASSUME Shapes, NEW n \in Nodes, NEW p \in Nodes, Transfer(n, p)
    PROVE  Said(n, p)' = Said(n, p)
<1> DEFINE G == Len(got[p][n])
           B == Len(outbox[n][p])
<1>1. /\ outbox'[n][p] = Tail(outbox[n][p]) /\ First(n, p) = outbox[n][p][1]
      /\ outbox[n][p] # <<>> /\ outbox[n][p] \in Seq(Outs)
  BY TransferEffect
<1>2. /\ got'[p][n] = Append(got[p][n], First(n, p).msg)
      /\ got[p][n] \in Seq(Messages) /\ First(n, p).msg \in Messages
  BY ArrivalEffect
<1>3. /\ B \in Nat \ {0} /\ Len(outbox'[n][p]) = B - 1
      /\ \A i \in 1..B - 1 : outbox'[n][p][i] = outbox[n][p][i + 1]
  BY <1>1, TailType
<1>4. /\ G \in Nat /\ Len(got'[p][n]) = G + 1
      /\ \A i \in 1..G : got'[p][n][i] = got[p][n][i]
      /\ got'[p][n][G + 1] = outbox[n][p][1].msg
  BY <1>1, <1>2, AppendType
<1> HIDE DEF G, B
<1>5. (G + 1) + (B - 1) = G + B
  BY <1>3, <1>4
<1>6. Said(n, p) = [i \in 1..(G + B) |->
                      IF i <= G THEN got[p][n][i] ELSE outbox[n][p][i - G].msg]
  BY DEF Said, G, B
<1>7. Said(n, p)' = [i \in 1..((G + 1) + (B - 1)) |->
                       IF i <= G + 1 THEN got'[p][n][i] ELSE outbox'[n][p][i - (G + 1)].msg]
  BY <1>3, <1>4 DEF Said
<1>8. ASSUME NEW i \in 1..(G + B)
      PROVE  (IF i <= G + 1 THEN got'[p][n][i] ELSE outbox'[n][p][i - (G + 1)].msg)
             = (IF i <= G THEN got[p][n][i] ELSE outbox[n][p][i - G].msg)
  <2>1. CASE i <= G
    BY <1>3, <1>4, <2>1
  <2>2. CASE i = G + 1
    <3>1. i <= G + 1 /\ ~(i <= G) /\ i - G = 1
      BY <1>3, <1>4, <2>2
    <3> QED
      BY <1>4, <2>2, <3>1
  <2>3. CASE i > G + 1
    <3>1. G \in Nat /\ B \in Nat
      BY <1>3, <1>4
    <3>2. /\ ~(i <= G + 1) /\ ~(i <= G) /\ i - (G + 1) \in 1..B - 1
          /\ (i - (G + 1)) + 1 = i - G
      BY <2>3, <3>1
    <3> QED
      BY <1>3, <3>2
  <2> QED
    BY <1>3, <1>4, <2>1, <2>2, <2>3
<1> QED
  BY <1>5, <1>6, <1>7, <1>8

LEMMA SaidKept ==
    ASSUME Shapes, NEW n \in Nodes, NEW p \in Nodes, got'[p][n] = got[p][n],
           outbox'[n][p] = outbox[n][p]
    PROVE  Said(n, p)' = Said(n, p)
  BY DEF Said

LEMMA SaidForget ==
    ASSUME Shapes, NEW n \in Nodes, NEW p \in Nodes, NEW by \in Tasks,
           Forget(n, p, by), got' = got, Shapes'
    PROVE  Said(n, p)' = Said(n, p)
<1> DEFINE G == Len(got[p][n])
           B == Len(outbox[n][p])
<1>1. /\ DOMAIN outbox'[n][p] = DOMAIN outbox[n][p]
      /\ \A i \in DOMAIN outbox[n][p] : outbox'[n][p][i].msg = outbox[n][p][i].msg
  BY ForgetMessages
<1>2. G \in Nat /\ B \in Nat /\ DOMAIN outbox[n][p] = 1..B
  BY SaidType
<1>3. outbox'[n][p] \in Seq(Outs)
  <2>1. outbox' \in [Nodes -> [Nodes -> Seq(Outs)]]
    BY DEF Shapes, Outs
  <2> QED
    BY <2>1
<1>4. Len(outbox'[n][p]) = B
  BY <1>1, <1>2, <1>3
<1> HIDE DEF G, B
<1>5. Said(n, p) = [i \in 1..(G + B) |->
                      IF i <= G THEN got[p][n][i] ELSE outbox[n][p][i - G].msg]
  BY DEF Said, G, B
<1>6. Said(n, p)' = [i \in 1..(G + B) |->
                       IF i <= G THEN got[p][n][i] ELSE outbox'[n][p][i - G].msg]
  BY <1>4 DEF Said, G
<1>7. ASSUME NEW i \in 1..(G + B), ~(i <= G)
      PROVE  outbox'[n][p][i - G].msg = outbox[n][p][i - G].msg
  BY <1>1, <1>2, <1>7
<1> QED
  BY <1>5, <1>6, <1>7

LEMMA OtherMessages ==
    /\ Helo \in Messages \ Broadcasts /\ Handshake("oleh") \in Messages \ Broadcasts
    /\ \A S \in SUBSET Nodes : Membership(SomeMembers(S)) \in Messages \ Broadcasts
<1>1. Helo.kind = "handshake" /\ Handshake("oleh").kind = "handshake"
  BY DEF Helo, Handshake
<1>2. \A S : Membership(SomeMembers(S)).kind = "membership"
  BY DEF Membership
<1> QED
  BY <1>1, <1>2, MessageKinds DEF Helo

(* What a step can add to what has been said.                              *)
LEMMA SaidStep ==
    ASSUME IInv, [Next]_vars, NEW n \in Nodes, NEW p \in Nodes
    PROVE  \/ Said(n, p)' = Said(n, p)
           \/ \E m \in Messages \ Broadcasts : Adds(n, p, m)
           \/ SendToMember(n, p) /\ Adds(n, p, echo[n].call.msg)
<1> DEFINE Goal == \/ Said(n, p)' = Said(n, p)
                   \/ \E m \in Messages \ Broadcasts : Adds(n, p, m)
                   \/ SendToMember(n, p) /\ Adds(n, p, echo[n].call.msg)
<1>0. /\ Shapes /\ Shapes' /\ Main \in Tasks /\ Loop \in Tasks /\ Echo \in Tasks
  BY ShapesStep DEF IInv, TypeOK, Tasks
<1>1. ASSUME NEW x \in Nodes, NEW y \in Nodes, NEW msg \in Messages \ Broadcasts,
             NEW b \in Tasks, SendReliably(x, y, msg, b), got' = got
      PROVE  Goal
  <2>1. CASE n # x \/ p # y
    <3>1. outbox'[n][p] = outbox[n][p]
      BY <1>0, <1>1, <2>1, SendFrame
    <3> QED
      BY <1>0, <1>1, <3>1, SaidKept
  <2>2. CASE n = x /\ p = y
    <3>1. Adds(n, p, msg)
      BY <1>0, <1>1, <2>2, SaidSend
    <3> QED
      BY <3>1
  <2> QED
    BY <2>1, <2>2
<1>2. ASSUME NEW x \in Nodes, NEW y \in Nodes, NEW b \in Tasks, Forget(x, y, b), got' = got
      PROVE  Goal
  <2>1. CASE n # x \/ p # y
    <3>1. outbox'[n][p] = outbox[n][p]
      BY <1>0, <1>2, <2>1, ForgetFrame
    <3> QED
      BY <1>0, <1>2, <3>1, SaidKept
  <2>2. CASE n = x /\ p = y
    BY <1>0, <1>2, <2>2, SaidForget
  <2> QED
    BY <2>1, <2>2
<1>3. ASSUME NEW x \in Nodes, SendHelo(x) \/ SendMembership(x) PROVE Goal
  <2>1. main[x].peer \in Nodes /\ members[x] \in SUBSET Nodes
    BY <1>0, <1>3, MainSendEffect DEF Shapes
  <2>2. CASE SendHelo(x)
    <3>1. SendReliably(x, main[x].peer, Helo, Main) /\ got' = got
      BY <2>2, FirstMessages DEF SendHelo, Helo
    <3> QED
      BY <1>0, <1>1, <2>1, <3>1, OtherMessages
  <2>3. CASE SendMembership(x)
    <3>1. SendReliably(x, main[x].peer, Membership(SomeMembers(members[x])), Main) /\ got' = got
      BY <2>3, FirstMessages DEF SendMembership
    <3> QED
      BY <1>0, <1>1, <2>1, <3>1, OtherMessages
  <2> QED
    BY <1>3, <2>2, <2>3
<1>4. ASSUME NEW x \in Nodes, NEW y \in Nodes, Sends(x, y, Handshake("oleh"), Loop)
      PROVE  Goal
  BY <1>0, <1>1, <1>4, OtherMessages DEF Sends
<1>5. ASSUME NEW x \in Nodes, NEW y \in Nodes, SendToMember(x, y),
             Sends(x, y, echo[x].call.msg, Echo)
      PROVE  Goal
  <2>1. SendReliably(x, y, echo[x].call.msg, Echo) /\ echo[x].call.msg \in Messages /\ got' = got
    BY <1>5 DEF Sends
  <2>2. CASE n # x \/ p # y
    <3>1. outbox'[n][p] = outbox[n][p]
      BY <1>0, <2>1, <2>2, SendFrame
    <3> QED
      BY <1>0, <2>1, <3>1, SaidKept
  <2>3. CASE n = x /\ p = y
    <3>1. Adds(x, y, echo[x].call.msg)
      BY <1>0, <2>1, SaidSend
    <3> QED
      BY <1>5, <2>3, <3>1
  <2> QED
    BY <2>2, <2>3
<1>6. ASSUME NEW x \in Nodes, NEW y \in Nodes, Transfer(x, y) PROVE Goal
  <2>1. CASE n # x \/ p # y
    <3>1. outbox'[n][p] = outbox[n][p]
      BY <1>0, <1>6, <2>1, TransferFrame
    <3>2. got'[p][n] = got[p][n]
      BY <1>0, <1>6, <2>1, ArrivalEffect
    <3> QED
      BY <1>0, <3>1, <3>2, SaidKept
  <2>2. CASE n = x /\ p = y
    BY <1>0, <1>6, <2>2, SaidTransfer
  <2> QED
    BY <2>1, <2>2
<1>7. ASSUME NEW x \in Nodes, NEW y \in Nodes, Ack(x, y) PROVE Goal
  <2>1. outbox' = outbox /\ got' = got
    BY <1>7 DEF Ack
  <2> QED
    BY <1>0, <2>1, SaidKept
<1>8. ASSUME NEW x \in Nodes, MainTimesOut(x), Forget(x, main[x].peer, Main), got' = got
      PROVE  Goal
  <2>1. main[x].peer \in Nodes
    BY <1>8, MainTimesOutEffect
  <2> QED
    BY <1>0, <1>2, <1>8, <2>1
<1>9. ASSUME NEW x \in Nodes, NEW y \in Nodes, Forget(x, y, Loop), got' = got PROVE Goal
  BY <1>0, <1>2, <1>9
<1>10. ASSUME UNCHANGED <<outbox, acks, got>> PROVE Goal
  BY <1>0, <1>10, SaidKept
<1>11. LinkMoves
  BY LinkMovesStep
<1> HIDE DEF Goal
<1>12. Goal
  BY <1>3, <1>4, <1>5, <1>6, <1>7, <1>8, <1>9, <1>10, <1>11 DEF LinkMoves
<1> QED
  BY <1>12 DEF Goal

LEMMA SpokeNone ==
    ASSUME NEW n \in Nodes, NEW p \in Nodes
    PROVE  /\ NoneOf(Said(n, p), Broadcasts) <=> Spoke(n, p) = {}
           /\ \A m \in Broadcasts : NoneOf(Said(n, p), {m}) <=> m \notin Spoke(n, p)
  BY DEF NoneOf, Spoke

(* A node adds no package but by a send of its echo broadcast actor.       *)
LEMMA StaysSilent ==
    ASSUME IInv, [Next]_vars, NEW n \in Nodes, NEW p \in Nodes, ~SendToMember(n, p)
    PROVE  /\ Spoke(n, p)' = Spoke(n, p)
           /\ \A S \in SUBSET Broadcasts :
                /\ NoneOf(Said(n, p), S) => NoneOf(Said(n, p), S)'
                /\ OneOf(Said(n, p), S) => OneOf(Said(n, p), S)'
                /\ TwoOf(Said(n, p), S) => TwoOf(Said(n, p), S)'
<1>1. CASE Said(n, p)' = Said(n, p)
  BY <1>1 DEF Spoke, NoneOf, OneOf, TwoOf, Broadcasts
<1>2. CASE \E m \in Messages \ Broadcasts : Adds(n, p, m)
  <2>1. PICK m \in Messages \ Broadcasts, L \in Nat :
           /\ DOMAIN Said(n, p) = 1..L /\ DOMAIN Said(n, p)' = 1..L + 1
           /\ \A i \in 1..L : Said(n, p)'[i] = Said(n, p)[i]
           /\ Said(n, p)'[L + 1] = m
    BY <1>2 DEF Adds
  <2>2. Spoke(n, p)' = Spoke(n, p)
    <3>1. \A i \in 1..L : i \in 1..L + 1
      OBVIOUS
    <3>2. \A i \in 1..L + 1 : i \in 1..L \/ i = L + 1
      OBVIOUS
    <3>3. Broadcasts' = Broadcasts
      BY DEF Broadcasts
    <3> QED
      BY <2>1, <3>1, <3>2, <3>3 DEF Spoke
  <2>3. ASSUME NEW S \in SUBSET Broadcasts
        PROVE  /\ NoneOf(Said(n, p), S) => NoneOf(Said(n, p)', S)
               /\ OneOf(Said(n, p), S) => OneOf(Said(n, p)', S)
               /\ TwoOf(Said(n, p), S) => TwoOf(Said(n, p)', S)
    BY <2>1, ListKept
  <2> QED
    BY <2>2, <2>3 DEF NoneOf, OneOf, TwoOf
<1> QED
  BY <1>1, <1>2, SaidStep

LEMMA SpeaksUp ==
    ASSUME IInv, [Next]_vars, NEW n \in Nodes, NEW p \in Nodes, SendToMember(n, p)
    PROVE  /\ Spoke(n, p)' = Spoke(n, p) \cup {echo[n].call.msg}
           /\ \A S : /\ NoneOf(Said(n, p), S) => OneOf(Said(n, p), S)'
                     /\ OneOf(Said(n, p), S) => TwoOf(Said(n, p), S)'
                     /\ echo[n].call.msg \notin S /\ TwoOf(Said(n, p), S)
                          => TwoOf(Said(n, p), S)'
<1>1. /\ echo[n].call.msg \in Broadcasts /\ SendReliably(n, p, echo[n].call.msg, Echo)
      /\ got' = got /\ echo[n].call.msg \in Messages
  BY SendToMemberEffect
<1>2. Adds(n, p, echo[n].call.msg)
  BY <1>1, SaidSend DEF IInv, TypeOK, Tasks
<1>3. PICK L \in Nat :
         /\ DOMAIN Said(n, p) = 1..L /\ DOMAIN Said(n, p)' = 1..L + 1
         /\ \A i \in 1..L : Said(n, p)'[i] = Said(n, p)[i]
         /\ Said(n, p)'[L + 1] = echo[n].call.msg
  BY <1>2 DEF Adds
<1>4. Spoke(n, p)' = Spoke(n, p) \cup {echo[n].call.msg}
  <2>1. \A i \in 1..L : i \in 1..L + 1
    OBVIOUS
  <2>2. \A i \in 1..L + 1 : i \in 1..L \/ i = L + 1
    OBVIOUS
  <2>3. L + 1 \in 1..L + 1
    OBVIOUS
  <2>4. Broadcasts' = Broadcasts
    BY DEF Broadcasts
  <2> QED
    BY <1>1, <1>3, <2>1, <2>2, <2>3, <2>4 DEF Spoke
<1>5. ASSUME NEW S
      PROVE  /\ NoneOf(Said(n, p), S) => OneOf(Said(n, p)', S)
             /\ OneOf(Said(n, p), S) => TwoOf(Said(n, p)', S)
  BY <1>3, ListGrows
<1>6. ASSUME NEW S, echo[n].call.msg \notin S
      PROVE  TwoOf(Said(n, p), S) => TwoOf(Said(n, p)', S)
  BY <1>3, <1>6, ListKept
<1> QED
  BY <1>4, <1>5, <1>6 DEF NoneOf, OneOf, TwoOf

LEMMA GotWasSaid ==
    ASSUME Shapes, NEW n \in Nodes, NEW p \in Nodes, NEW m \in Broadcasts,
           Contains(got[p][n], m)
    PROVE  m \in Spoke(n, p)
<1>1. /\ Len(got[p][n]) \in Nat /\ Len(outbox[n][p]) \in Nat
      /\ DOMAIN Said(n, p) = 1..(Len(got[p][n]) + Len(outbox[n][p]))
      /\ \A i \in 1..Len(got[p][n]) : Said(n, p)[i] = got[p][n][i]
  BY SaidType
<1>2. PICK i \in 1..Len(got[p][n]) : got[p][n][i] = m
  BY DEF Contains
<1>3. \A G, B \in Nat : \A k \in 1..G : k \in 1..(G + B)
  OBVIOUS
<1>4. i \in 1..(Len(got[p][n]) + Len(outbox[n][p]))
  BY <1>1, <1>3
<1> QED
  BY <1>1, <1>2, <1>4 DEF Spoke

-----------------------------------------------------------------------------
(* What has been heard.                                                    *)

LEMMA LoopTakes ==
    ASSUME IInv, [Next]_vars, NEW m \in Nodes, NEW q \in Nodes,
           loop'[m][q].pc = "rebroadcast"
    PROVE  loop'[m][q] = loop[m][q] \/ TakeBroadcast(m, q)
<1>0. Shapes
  BY DEF IInv, TypeOK
<1>1. CASE Connect(m, q) \/ Connect(q, m)
  BY <1>1, ConnectEffect, StateTypes
<1>2. CASE TakeUnicast(m, q)
  BY <1>2, TakeUnicastEffect
<1>3. CASE Rebroadcast(m, q)
  BY <1>3, RebroadcastEffect, StateTypes
<1>4. CASE LoopTimesOut(m, q)
  BY <1>4, LoopTimesOutEffect, StateTypes
<1>5. CASE Ack(m, q) /\ Woken(m, q) = Loop
  BY <1>5, AckLoopEffect, StateTypes
<1>6. CASE FinishSend(m) \/ FinishSendPanics(m)
  <2>1. PICK S : ReturnErr(m, S)
    BY <1>6 DEF FinishSend, FinishSendPanics
  <2>2. /\ q \notin S => loop'[m][q] = loop[m][q]
        /\ q \in S => loop'[m][q] = Receiving
    BY <1>0, <2>1, ErrFrame
  <2> QED
    BY <2>2, StateTypes
<1> QED
  BY <1>1, <1>2, <1>3, <1>4, <1>5, <1>6, LoopMovers DEF LoopMover

LEMMA TakesFirst ==
    ASSUME IInv, NEW m \in Nodes, NEW q \in Nodes, TakeBroadcast(m, q)
    PROVE  loop'[m][q].msg = Head(inbox[m][q])
<1> DEFINE l == LoopAt("rebroadcast", Head(inbox[m][q]), members[m])
<1>1. Head(inbox[m][q]) \in Messages /\ members[m] \in SUBSET Nodes
  BY TailType DEF TakeBroadcast, IInv, TypeOK, Shapes
<1>2. l \in LoopStates /\ l.msg = Head(inbox[m][q])
  BY <1>1 DEF LoopAt, LoopStates, PcsOfLoop
<1>3. loop' = [loop EXCEPT ![m][q] = l]
  BY DEF TakeBroadcast
<1> HIDE DEF l
<1>4. loop'[m][q] = l
  BY <1>2, <1>3, LoopEffect DEF IInv, TypeOK
<1> QED
  BY <1>2, <1>4

HeardOK(n, p) ==
    /\ got[n][p] # <<>> => p \in Linked(n)
    /\ \A i \in DOMAIN inbox[n][p] : Contains(got[n][p], inbox[n][p][i])
    /\ loop[n][p].pc = "rebroadcast" => Contains(got[n][p], loop[n][p].msg)

LEMMA ArrivalFrame ==
    ASSUME Shapes, NEW n \in Nodes, NEW p \in Nodes, Transfer(n, p),
           NEW m \in Nodes, NEW q \in Nodes, m # p \/ q # n
    PROVE  inbox'[m][q] = inbox[m][q] /\ got'[m][q] = got[m][q]
<1> DEFINE v == Append(inbox[p][n], Head(outbox[n][p]).msg)
           w == Append(got[p][n], Head(outbox[n][p]).msg)
<1>1. inbox \in [Nodes -> [Nodes -> Seq(Messages)]] /\ got \in [Nodes -> [Nodes -> Seq(Messages)]]
  BY DEF Shapes
<1>2. inbox' = [inbox EXCEPT ![p][n] = v] /\ got' = [got EXCEPT ![p][n] = w]
  BY DEF Transfer
<1> HIDE DEF v, w
<1> QED
  BY ONLY <1>1, <1>2, n \in Nodes, p \in Nodes, m \in Nodes, q \in Nodes, m # p \/ q # n

LEMMA InboxMoves ==
    ASSUME IInv, [Next]_vars, NEW m \in Nodes, NEW q \in Nodes
    PROVE  \/ inbox'[m][q] = inbox[m][q] /\ got'[m][q] = got[m][q]
           \/ /\ inbox[m][q] # <<>> /\ inbox'[m][q] = Tail(inbox[m][q])
              /\ got'[m][q] = got[m][q]
           \/ Transfer(q, m)
<1>0. Shapes
  BY DEF IInv, TypeOK
<1> DEFINE Goal == \/ inbox'[m][q] = inbox[m][q] /\ got'[m][q] = got[m][q]
                   \/ /\ inbox[m][q] # <<>> /\ inbox'[m][q] = Tail(inbox[m][q])
                      /\ got'[m][q] = got[m][q]
                   \/ Transfer(q, m)
<1>0a. ASSUME NEW n \in Nodes, MainStep(n) \/ MainTimesOut(n) PROVE Goal
  <2>1. inbox' = inbox /\ got' = got
    BY <1>0a DEF MainStep, ConnectRefused, Connect, AddSeed, AddMember, SendHelo,
       BroadcastRoundOne, SendMembership, MainTimesOut, linkVars
  <2> QED
    BY <2>1
<1>1. ASSUME NEW n \in Nodes, EchoStep(n) PROVE Goal
  <2>1. inbox' = inbox /\ got' = got
    BY <1>1 DEF EchoStep, TakeCall, SendToMember, FinishSend, FinishSendPanics, linkVars
  <2> QED
    BY <2>1
<1>2. ASSUME NEW n \in Nodes, NEW p \in Nodes, LoopStep(n, p) PROVE Goal
  <2>1. CASE TakeUnicast(n, p)
    <3>1. /\ inbox[n][p] # <<>> /\ inbox'[n][p] = Tail(inbox[n][p]) /\ got' = got
          /\ m # n \/ q # p => inbox'[m][q] = inbox[m][q]
      BY <2>1, TakeUnicastEffect
    <3> QED
      BY <3>1
  <2>2. CASE TakeBroadcast(n, p)
    <3>1. /\ inbox[n][p] # <<>> /\ inbox'[n][p] = Tail(inbox[n][p]) /\ got' = got
          /\ m # n \/ q # p => inbox'[m][q] = inbox[m][q]
      BY <2>2, TakeBroadcastEffect
    <3> QED
      BY <3>1
  <2>3. CASE Rebroadcast(n, p)
    BY <2>3 DEF Rebroadcast, linkVars
  <2> QED
    BY <1>2, <2>1, <2>2, <2>3 DEF LoopStep
<1>3. ASSUME NEW n \in Nodes, NEW p \in Nodes, LinkStep(n, p) PROVE Goal
  <2>1. CASE Transfer(n, p)
    <3>1. m # p \/ q # n => inbox'[m][q] = inbox[m][q] /\ got'[m][q] = got[m][q]
      BY <1>0, <2>1, ArrivalFrame
    <3> QED
      BY <2>1, <3>1
  <2>2. CASE Ack(n, p)
    BY <2>2 DEF Ack
  <2> QED
    BY <1>3, <2>1, <2>2 DEF LinkStep
<1>4. ASSUME NEW n \in Nodes, NEW p \in Nodes, LoopTimesOut(n, p) PROVE Goal
  BY <1>4 DEF LoopTimesOut
<1>5. ASSUME UNCHANGED vars PROVE Goal
  BY <1>5 DEF vars
<1> HIDE DEF Goal
<1>6. Goal
  BY <1>0a, <1>1, <1>2, <1>3, <1>4, <1>5 DEF Next
<1> QED
  BY <1>6 DEF Goal

LEMMA HeardStep ==
    ASSUME IInv, HeardInv, [Next]_vars
    PROVE  HeardInv'
<1> SUFFICES ASSUME NEW m \in Nodes, NEW q \in Nodes PROVE HeardOK(m, q)'
  BY DEF HeardInv, HeardOK
<1>0. Shapes /\ HeardOK(m, q)
  BY DEF IInv, TypeOK, HeardInv, HeardOK
<1>1. Linked(m) \subseteq Linked(m)'
  BY LinkedStep
<1>2. inbox[m][q] \in Seq(Messages) /\ got[m][q] \in Seq(Messages)
  BY <1>0 DEF Shapes
<1>3. /\ got'[m][q] # <<>> => q \in Linked(m)'
      /\ \A i \in DOMAIN inbox'[m][q] : Contains(got'[m][q], inbox'[m][q][i])
  <2>1. CASE inbox'[m][q] = inbox[m][q] /\ got'[m][q] = got[m][q]
    BY <1>0, <1>1, <2>1 DEF HeardOK
  <2>2. CASE /\ inbox[m][q] # <<>> /\ inbox'[m][q] = Tail(inbox[m][q])
             /\ got'[m][q] = got[m][q]
    <3>1. \A i \in DOMAIN Tail(inbox[m][q]) : \E k \in DOMAIN inbox[m][q] :
             Tail(inbox[m][q])[i] = inbox[m][q][k]
      <4>1. /\ Len(inbox[m][q]) \in Nat \ {0}
            /\ DOMAIN inbox[m][q] = 1..Len(inbox[m][q])
            /\ DOMAIN Tail(inbox[m][q]) = 1..Len(inbox[m][q]) - 1
            /\ \A i \in 1..Len(inbox[m][q]) - 1 : Tail(inbox[m][q])[i] = inbox[m][q][i + 1]
        BY <1>2, <2>2, TailType
      <4>2. \A L \in Nat \ {0} : \A i \in 1..L - 1 : i + 1 \in 1..L
        OBVIOUS
      <4> QED
        BY <4>1, <4>2
    <3> QED
      BY <1>0, <1>1, <2>2, <3>1 DEF HeardOK
  <2>3. CASE Transfer(q, m)
    <3> DEFINE x == First(q, m).msg
    <3>1. /\ inbox'[m][q] = Append(inbox[m][q], x) /\ got'[m][q] = Append(got[m][q], x)
          /\ x \in Messages
      BY <1>0, <2>3, ArrivalEffect
    <3>2. q \in Linked(m)
      BY <2>3 DEF Transfer, IInv, LinksInv
    <3> HIDE DEF x
    <3>3. /\ Contains(got'[m][q], x)
          /\ \A y : Contains(got[m][q], y) => Contains(got'[m][q], y)
      BY <1>2, <3>1, ContainsGrows
    <3>4. \A i \in DOMAIN inbox'[m][q] :
             inbox'[m][q][i] = x \/ (i \in DOMAIN inbox[m][q] /\ inbox'[m][q][i] = inbox[m][q][i])
      <4>1. /\ Len(inbox[m][q]) \in Nat /\ DOMAIN inbox[m][q] = 1..Len(inbox[m][q])
            /\ DOMAIN inbox'[m][q] = 1..Len(inbox[m][q]) + 1
            /\ \A i \in 1..Len(inbox[m][q]) : inbox'[m][q][i] = inbox[m][q][i]
            /\ inbox'[m][q][Len(inbox[m][q]) + 1] = x
        BY <1>2, <3>1, AppendType
      <4>2. \A L \in Nat : \A i \in 1..L + 1 : i \in 1..L \/ i = L + 1
        OBVIOUS
      <4> QED
        BY <4>1, <4>2
    <3> QED
      BY <1>0, <1>1, <3>2, <3>3, <3>4 DEF HeardOK
  <2> QED
    BY <2>1, <2>2, <2>3, InboxMoves
<1>4. ASSUME loop'[m][q].pc = "rebroadcast" PROVE Contains(got'[m][q], loop'[m][q].msg)
  <2>1. CASE loop'[m][q] = loop[m][q]
    BY <1>0, <1>4, <2>1, GotGrows DEF HeardOK
  <2>2. CASE TakeBroadcast(m, q)
    <3>1. loop'[m][q].msg = Head(inbox[m][q]) /\ inbox[m][q] # <<>>
      BY <2>2, TakesFirst DEF TakeBroadcast
    <3>2. Head(inbox[m][q]) = inbox[m][q][1] /\ 1 \in DOMAIN inbox[m][q]
      BY <1>2, <3>1
    <3>3. Contains(got[m][q], loop'[m][q].msg)
      BY <1>0, <3>1, <3>2 DEF HeardOK
    <3> QED
      BY <3>3, GotGrows
  <2> QED
    BY <1>4, <2>1, <2>2, LoopTakes
<1> QED
  BY <1>3, <1>4 DEF HeardOK

-----------------------------------------------------------------------------
(* Waiting for a broadcast.                                                *)

LEMMA LoopCalls ==
    ASSUME IInv, [Next]_vars, NEW m \in Nodes, NEW q \in Nodes,
           loop'[m][q].pc = "broadcast"
    PROVE  loop'[m][q] = loop[m][q] \/ Rebroadcast(m, q)
<1>0. Shapes
  BY DEF IInv, TypeOK
<1>1. CASE Connect(m, q) \/ Connect(q, m)
  BY <1>1, ConnectEffect, StateTypes
<1>2. CASE TakeUnicast(m, q)
  BY <1>2, TakeUnicastEffect
<1>3. CASE TakeBroadcast(m, q)
  BY <1>3, TakeBroadcastEffect
<1>4. CASE LoopTimesOut(m, q)
  BY <1>4, LoopTimesOutEffect, StateTypes
<1>5. CASE Ack(m, q) /\ Woken(m, q) = Loop
  BY <1>5, AckLoopEffect, StateTypes
<1>6. CASE FinishSend(m) \/ FinishSendPanics(m)
  <2>1. PICK S : ReturnErr(m, S)
    BY <1>6 DEF FinishSend, FinishSendPanics
  <2>2. /\ q \notin S => loop'[m][q] = loop[m][q]
        /\ q \in S => loop'[m][q] = Receiving
    BY <1>0, <2>1, ErrFrame
  <2> QED
    BY <2>2, StateTypes
<1> QED
  BY <1>1, <1>2, <1>3, <1>4, <1>5, <1>6, LoopMovers DEF LoopMover

LEMMA LoopStays ==
    ASSUME IInv, [Next]_vars, NEW m \in Nodes, NEW q \in Nodes, LoopOK(m, q),
           loop[m][q].pc = "broadcast", ~Connect(m, q), ~Connect(q, m),
           ~FinishSend(m), ~FinishSendPanics(m)
    PROVE  loop'[m][q] = loop[m][q]
<1>1. ~(Ack(m, q) /\ Woken(m, q) = Loop)
  <2>1. Ack(m, q) /\ Woken(m, q) = Loop => 1 \in InAcks(m, q, Loop)
    BY AckWaits
  <2> QED
    BY <2>1 DEF LoopOK, Waits
<1> QED
  BY <1>1, LoopMovers DEF LoopMover, TakeUnicast, TakeBroadcast, Rebroadcast, LoopTimesOut

-----------------------------------------------------------------------------
(* Main tasks.                                                             *)

LEMMA MainOfErr ==
    ASSUME IInv, NEW n \in Nodes, FinishSend(n) \/ FinishSendPanics(n), NEW m \in Nodes,
           m # n \/ main[m].pc # "broadcast"
    PROVE  main'[m] = main[m]
<1>0. Shapes
  BY DEF IInv, TypeOK
<1>1. PICK S : ReturnErr(n, S) /\ (Main \in S => main[n].pc = "broadcast")
  BY ErrEffect
<1> QED
  BY <1>0, <1>1, ErrFrame

LEMMA MainOf ==
    ASSUME IInv, [Next]_vars, NEW m \in Nodes
    PROVE  \/ main'[m] = main[m] \/ MainMover(m)
           \/ \E p \in Nodes : Connect(m, p) \/ Connect(p, m)
           \/ \E p \in Nodes : Ack(m, p) /\ Woken(m, p) = Main
<1>0. Shapes
  BY DEF IInv, TypeOK
<1>1. ASSUME NEW n \in Nodes, MainMover(n), n # m PROVE main'[m] = main[m]
  <2>1. CASE FinishSend(n) \/ FinishSendPanics(n)
    BY <1>1, <2>1, MainOfErr
  <2>2. CASE SendHelo(n) \/ SendMembership(n)
    BY <1>1, <2>2, MainSendEffect
  <2>3. CASE ConnectRefused(n) \/ AddSeed(n) \/ AddMember(n)
    BY <1>1, <2>3, ConnectRefusedEffect, AddSeedEffect, AddMemberEffect
  <2>4. CASE BroadcastRoundOne(n) \/ MainTimesOut(n)
    BY <1>1, <2>4, RoundOneEffect, MainTimesOutEffect
  <2> QED
    BY <1>1, <2>1, <2>2, <2>3, <2>4 DEF MainMover
<1>2. ASSUME NEW n \in Nodes, NEW p \in Nodes, Connect(n, p), n # m, p # m
      PROVE  main'[m] = main[m]
  BY <1>2, ConnectEffect
<1>3. ASSUME NEW n \in Nodes, NEW p \in Nodes, Ack(n, p), n # m \/ Woken(n, p) # Main
      PROVE  main'[m] = main[m]
  BY <1>0, <1>3, AckFrame
<1> QED
  BY <1>1, <1>2, <1>3, MainMovers

-----------------------------------------------------------------------------
(* Leaves.                                                                 *)

LEMMA LeafFacts ==
    ASSUME IInv, NEW p \in Nodes, NEW s \in Nodes, Leaf(p, s)
    PROVE  /\ s # p /\ \A q \in Nodes : Joins(p, q) <=> q = s
           /\ \A q \in Nodes : ~Joins(q, p)
           /\ Linked(p) \subseteq {s}
           /\ main[p].pc \in {"connect", "add_seed", "accept", "stopped"}
           /\ main[p].pc = "connect" => main[p].peer = s
           /\ \A i \in DOMAIN calls[p] : calls[p][i].by = s
           /\ echo[p].pc = "sending" => echo[p].call.by = s /\ echo[p].left \subseteq {s}
           /\ \A w \in waiters[p] : w[2] = s
<1>1. \A q \in Nodes : Joins(p, q) <=> q = s
  BY DEF Leaf, Joins, Contains
<1>2. \A q \in Nodes : ~Joins(q, p)
  BY DEF Leaf
<1>3. s # p
  BY <1>1, <1>2
<1>4. Linked(p) \subseteq {s}
  BY <1>1, <1>2 DEF IInv, JoinsInv, Linked
<1>5. /\ main[p].pc = "connect" => main[p].peer \in Nodes
      /\ main[p].pc \notin {"connect", "accept", "stopped"} => main[p].peer \in Nodes
  BY PeerLinked DEF IInv, TypeOK
<1>6. main[p].pc \in {"connect", "add_seed", "accept", "stopped"}
  BY <1>2, <1>5 DEF IInv, JoinsInv
<1>7. main[p].pc = "connect" => main[p].peer = s
  BY <1>1, <1>5 DEF IInv, JoinsInv
<1>8. MainCalls(p) = {} /\ ~MainSending(p) /\ MainWaiters(p) = {}
  BY <1>6, BroadcastParts DEF BroadcastOK
<1>9. /\ \A i \in DOMAIN calls[p] : calls[p][i].by \in Linked(p) \cup {Main}
      /\ echo[p].pc = "sending" => /\ echo[p].call.by \in Linked(p) \cup {Main}
                                   /\ echo[p].left \subseteq Linked(p)
      /\ \A w \in waiters[p] : w[2] \in Linked(p) \cup {Main}
  BY DEF IInv, LinksInv
<1>10. /\ \A i \in DOMAIN calls[p] : calls[p][i].by # Main
       /\ echo[p].pc = "sending" => echo[p].call.by # Main
       /\ \A w \in waiters[p] : w[2] # Main
  BY <1>8 DEF MainCalls, MainSending, MainWaiters
<1> QED
  BY <1>1, <1>2, <1>3, <1>4, <1>6, <1>7, <1>9, <1>10

LeafOK(p, s) == LoopOK(p, s) /\ LeafJoins(p, s) /\ LeafRepeats(p, s) /\ LeafPhase(p, s)

LEMMA LeafNotCalled ==
    ASSUME IInv, NEW p \in Nodes, NEW s \in Nodes, Leaf(p, s), LeafOK(p, s)
    PROVE  /\ Connect(p, s) \/ Connect(s, p) => s \notin Linked(p)
           /\ ~Connect(s, p)
           /\ \A q \in Nodes : ~Connect(q, p)
<1>1. ~Connect(s, p) /\ \A q \in Nodes : ~Connect(q, p)
  <2>1. ASSUME NEW q \in Nodes, Connect(q, p) PROVE FALSE
    <3>1. Joins(q, p)
      BY <2>1, ConnectEffect DEF IInv, JoinsInv
    <3> QED
      BY <3>1, LeafFacts
  <2> QED
    BY <2>1
<1>2. Connect(p, s) => s \notin Linked(p)
  BY DEF Connect, LeafOK, LeafJoins
<1> QED
  BY <1>1, <1>2

LEMMA LeafJoinsStep ==
    ASSUME IInv, [Next]_vars, NEW p \in Nodes, NEW s \in Nodes, Leaf(p, s), LeafOK(p, s)
    PROVE  LeafJoins(p, s)'
<1>0. Shapes /\ LeafJoins(p, s)
  BY DEF IInv, TypeOK, LeafOK
<1>a. main[p].pc \in {"connect", "add_seed", "accept", "stopped"}
  BY LeafFacts
<1>1. ASSUME NEW n \in Nodes, NEW x \in Nodes, Connect(n, x) PROVE LeafJoins(p, s)'
  <2>1. x # p
    BY <1>1, LeafNotCalled
  <2>2. CASE n = p
    <3>1. main[p].pc = "connect" /\ main'[p].pc = "add_seed"
      BY <1>1, <2>2, ConnectEffect
    <3>2. main'[p].next = main[p].next
      BY <1>0, <1>1, <2>1, <2>2 DEF Connect, Shapes, MainStates, At
    <3> QED
      BY <1>0, <3>1, <3>2 DEF LeafJoins
  <2>3. CASE n # p
    <3>1. main'[p] = main[p] /\ loop'[p][s] = loop[p][s]
      BY <1>1, <2>1, <2>3, ConnectEffect
    <3> QED
      BY <1>0, <3>1 DEF LeafJoins, Linked
  <2> QED
    BY <2>2, <2>3
<1>2. ASSUME \A n, x \in Nodes : ~Connect(n, x) PROVE LeafJoins(p, s)'
  <2>1. Linked(p)' = Linked(p)
    BY <1>2, LinkedStep
  <2>2. CASE main'[p] = main[p]
    BY <1>0, <2>1, <2>2 DEF LeafJoins
  <2>3. CASE AddSeed(p)
    <3>1. main[p].next = 1 /\ main' = [main EXCEPT ![p] = AfterSeeds(p, main[p].next + 1)]
      BY <1>0, <2>3 DEF AddSeed, LeafJoins
    <3>2. main'[p] = AfterSeeds(p, 1 + 1)
      BY <1>0, <3>1 DEF Shapes
    <3>3. 1 + 1 > Len(Seeds[p])
      BY DEF Leaf
    <3>4. main'[p].pc = "accept"
      BY <3>2, <3>3 DEF AfterSeeds, At
    <3> QED
      BY <3>4 DEF LeafJoins
  <2>4. CASE ConnectRefused(p)
    <3>1. main'[p].pc = "stopped"
      BY <2>4, ConnectRefusedEffect
    <3> QED
      BY <3>1 DEF LeafJoins
  <2>5. main'[p] = main[p] \/ AddSeed(p) \/ ConnectRefused(p)
    <3>1. ~FinishSend(p) \/ main'[p] = main[p]
      BY <1>0, <1>a, MainOfErr
    <3>2. ~FinishSendPanics(p) \/ main'[p] = main[p]
      BY <1>0, <1>a, MainOfErr
    <3>3. ~MainTimesOut(p) /\ ~AddMember(p) /\ ~SendHelo(p) /\ ~SendMembership(p)
          /\ ~BroadcastRoundOne(p)
      BY <1>a DEF MainTimesOut, AddMember, SendHelo, SendMembership, BroadcastRoundOne
    <3>4. ASSUME NEW q \in Nodes, Ack(p, q), Woken(p, q) = Main PROVE FALSE
      <4>1. 1 \in InAcks(p, q, Main)
        BY <3>4, AckWaits
      <4>2. SendsOK(p, q)
        BY SendsParts
      <4> QED
        BY <1>a, <4>1, <4>2 DEF SendsOK, Waits
    <3> QED
      BY <1>2, <3>1, <3>2, <3>3, <3>4, MainOf DEF MainMover
  <2> QED
    BY <2>2, <2>3, <2>4, <2>5
<1> QED
  BY <1>1, <1>2

LEMMA LastTaken ==
    ASSUME NEW S, NEW c \in Seq(S), Len(c) = 1
    PROVE  Tail(c) = <<>> /\ c # <<>> /\ DOMAIN c = {1}
<1>1. c # <<>> /\ DOMAIN c = {1}
  OBVIOUS
<1>2. Tail(c) \in Seq(S) /\ Len(Tail(c)) = 0
  BY <1>1
<1>3. \A t \in Seq(S) : Len(t) = 0 => t = <<>>
  OBVIOUS
<1> QED
  BY <1>1, <1>2, <1>3

LEMMA NotBoth ==
    ASSUME IInv, NEW n \in Nodes, FinishSend(n) \/ FinishSendPanics(n), NEW p \in Nodes
    PROVE  ~SendToMember(n, p)
<1>1. SendToMember(n, p) => echo'[n].pc = "sending"
  <2>1. SendToMember(n, p) => echo'[n] = EchoSending(echo[n].call, echo[n].left, p)
    BY SendToMemberEffect
  <2> QED
    BY <2>1 DEF EchoSending
<1>2. FinishSend(n) => echo'[n].pc = "recv"
  BY FinishSendEffect, StateTypes
<1>3. FinishSendPanics(n) => echo'[n].pc = "panicked"
  BY FinishSendPanicsEffect, StateTypes
<1> QED
  BY <1>1, <1>2, <1>3

LEMMA EchoOf ==
    ASSUME IInv, [Next]_vars, NEW m \in Nodes
    PROVE  \/ echo'[m] = echo[m]
           \/ TakeCall(m) \/ FinishSend(m) \/ FinishSendPanics(m)
           \/ \E p \in Nodes : SendToMember(m, p)
           \/ \E p \in Nodes : Ack(m, p) /\ Woken(m, p) = Echo
<1>1. \/ echo' = echo
      \/ \E n \in Nodes : TakeCall(n) \/ FinishSend(n) \/ FinishSendPanics(n)
      \/ \E n, p \in Nodes : SendToMember(n, p) \/ Ack(n, p)
  <2>1. \A n \in Nodes : MainStep(n) \/ MainTimesOut(n) => echo' = echo
    BY DEF MainStep, ConnectRefused, Connect, AddSeed, AddMember, SendHelo,
           BroadcastRoundOne, SendMembership, MainTimesOut, echoVars
  <2>2. \A n, p \in Nodes : LoopStep(n, p) \/ Transfer(n, p) \/ LoopTimesOut(n, p)
                              => echo' = echo
    BY DEF LoopStep, TakeUnicast, TakeBroadcast, Rebroadcast, LoopTimesOut,
           Transfer, echoVars
  <2> QED
    BY <2>1, <2>2 DEF Next, vars, EchoStep, LinkStep
<1>2. ASSUME NEW n \in Nodes, n # m, TakeCall(n) \/ FinishSend(n) \/ FinishSendPanics(n)
      PROVE  echo'[m] = echo[m]
  <2>1. TakeCall(n) => echo'[m] = echo[m]
    BY <1>2, TakeCallEffect
  <2> QED
    BY <1>2, <2>1, FinishSendEffect, FinishSendPanicsEffect
<1>3. ASSUME NEW n \in Nodes, NEW p \in Nodes, n # m, SendToMember(n, p)
      PROVE  echo'[m] = echo[m]
  BY <1>3, SendToMemberEffect
<1>4. ASSUME NEW n \in Nodes, NEW p \in Nodes, Ack(n, p), n # m \/ Woken(n, p) # Echo
      PROVE  echo'[m] = echo[m]
  BY <1>4, AckFrame DEF IInv, TypeOK
<1> QED
  BY <1>1, <1>2, <1>3, <1>4

(* The calls of a leaf, action by action.                                  *)
LEMMA LeafTakesCall ==
    ASSUME IInv, [Next]_vars, NEW p \in Nodes, NEW s \in Nodes, Leaf(p, s), LeafOK(p, s),
           TakeCall(p)
    PROVE  LeafSending(p, s)'
<1>1. /\ echo[p].pc = "recv" /\ calls[p] # <<>> /\ calls[p] \in Seq(CallsOfEcho)
      /\ echo'[p] = EchoSending(calls[p][1], calls[p][1].members, NoNode)
      /\ calls'[p] = Tail(calls[p]) /\ UNCHANGED <<loop, got, waiters>>
  BY TakeCallEffect
<1>2. LeafCalling(p, s)
  BY <1>1 DEF LeafOK, LeafPhase, LeafIdle, LeafSending, LeafWaiting
<1>3. Len(calls[p]) = 1
  BY <1>2 DEF LeafCalling
<1>4. calls'[p] = <<>>
  BY <1>1, <1>3, LastTaken
<1>5. /\ echo'[p].pc = "sending" /\ echo'[p].call = calls[p][1]
      /\ echo'[p].left = calls[p][1].members /\ echo'[p].to = NoNode
  BY <1>1 DEF EchoSending
<1>6. NoneOf(Said(p, s), Broadcasts)'
  <2>1. ~SendToMember(p, s)
    BY <1>1 DEF SendToMember
  <2>2. Broadcasts' = Broadcasts
    BY DEF Broadcasts
  <2>3. NoneOf(Said(p, s), Broadcasts)
    BY <1>2 DEF LeafCalling
  <2>4. Spoke(p, s)' = {}
    BY <2>1, <2>3, StaysSilent, SpokeNone
  <2> QED
    BY <2>2, <2>4 DEF Spoke, NoneOf
<1>7. OneOf(Said(p, s), Broadcasts)'
  BY <1>6 DEF OneOf, NoneOf
<1> QED
  BY <1>1, <1>2, <1>4, <1>5, <1>6, <1>7 DEF LeafCalling, LeafSending

LEMMA LeafFinishes ==
    ASSUME IInv, [Next]_vars, NEW p \in Nodes, NEW s \in Nodes, Leaf(p, s), LeafOK(p, s),
           FinishSend(p)
    PROVE  LeafWaiting(p, s)'
<1>0. Shapes
  BY DEF IInv, TypeOK
<1>1. echo[p].pc = "sending" /\ echo'[p] = EchoIdle /\ calls' = calls
  BY FinishSendEffect
<1>2. LeafSending(p, s)
  BY <1>1 DEF LeafOK, LeafPhase, LeafIdle, LeafCalling, LeafWaiting
<1>3. ReturnErr(p, {w[2] : w \in WaitersFor(p, echo[p].call.msg.mid)})
  BY DEF FinishSend
<1>4. WaitersFor(p, echo[p].call.msg.mid) = {}
  BY <1>2 DEF WaitersFor, LeafSending
<1>5. s \notin {w[2] : w \in WaitersFor(p, echo[p].call.msg.mid)}
  BY <1>4
<1>6. loop'[p][s] = loop[p][s]
  BY <1>0, <1>3, <1>5, ErrFrame
<1>7. OneOf(Said(p, s), Broadcasts)'
  <2>1. ~SendToMember(p, s)
    BY NotBoth
  <2>2. Broadcasts' = Broadcasts /\ OneOf(Said(p, s), Broadcasts)
    BY <1>2 DEF Broadcasts, LeafSending
  <2>3. OneOf(Said(p, s)', Broadcasts)
    BY <2>1, <2>2, StaysSilent DEF OneOf
  <2> QED
    BY <2>2, <2>3 DEF OneOf
<1> QED
  BY <1>1, <1>2, <1>6, <1>7, StateTypes DEF LeafSending, LeafWaiting

LEMMA LeafPanics ==
    ASSUME IInv, [Next]_vars, NEW p \in Nodes, NEW s \in Nodes, Leaf(p, s), LeafOK(p, s),
           FinishSendPanics(p)
    PROVE  LeafIdle(p, s)'
<1>0. Shapes
  BY DEF IInv, TypeOK
<1>1. /\ echo[p].pc = "sending" /\ echo[p].left = {}
      /\ echo[p].call.msg.mid \notin tracked[p]
      /\ echo'[p] = EchoPanicked /\ calls'[p] = <<>> /\ waiters'[p] = {}
  BY FinishSendPanicsEffect
<1>2. LeafSending(p, s)
  BY <1>1 DEF LeafOK, LeafPhase, LeafIdle, LeafCalling, LeafWaiting
<1>3. PICK S : ReturnErr(p, S) /\ echo[p].call.by \in S
  BY DEF FinishSendPanics
<1>4. s \in S
  BY <1>1, <1>3, LeafFacts
<1>5. loop'[p][s] = Receiving
  BY <1>0, <1>3, <1>4, ErrFrame
<1>6. echo[p].call.members = {}
  BY <1>1 DEF IInv, EchoInv
<1>7. NoneOf(Said(p, s), Broadcasts)
  BY <1>2, <1>6 DEF LeafSending
<1>8. NoneOf(Said(p, s), Broadcasts)'
  <2>1. ~SendToMember(p, s)
    BY NotBoth
  <2>2. Broadcasts' = Broadcasts
    BY DEF Broadcasts
  <2>3. Spoke(p, s)' = {}
    BY <1>7, <2>1, StaysSilent, SpokeNone
  <2> QED
    BY <2>2, <2>3 DEF Spoke, NoneOf
<1> QED
  BY <1>1, <1>5, <1>8, StateTypes DEF LeafIdle

LEMMA LeafRebroadcasts ==
    ASSUME IInv, HeardInv, [Next]_vars, NEW p \in Nodes, NEW s \in Nodes, Leaf(p, s),
           LeafOK(p, s), NEW q \in Nodes, Rebroadcast(p, q)
    PROVE  LeafPhase(p, s)'
<1>0. Shapes
  BY DEF IInv, TypeOK
<1>1. q = s
  <2>1. q \in Linked(p)
    BY DEF Rebroadcast, Linked
  <2> QED
    BY <2>1, LeafFacts
<1>2. loop[p][s].pc = "rebroadcast" /\ UNCHANGED <<echo, waiters, got, outbox>>
  BY <1>1, RebroadcastEffect
<1>3. LeafIdle(p, s)
  BY <1>2 DEF LeafOK, LeafPhase, LeafCalling, LeafSending, LeafWaiting
<1>4. NoneOf(Said(p, s), Broadcasts)'
  <2>1. Broadcasts' = Broadcasts
    BY DEF Broadcasts
  <2>2. Said(p, s)' = Said(p, s)
    BY <1>0, <1>2, SaidKept
  <2> QED
    BY <1>3, <2>1, <2>2 DEF LeafIdle, NoneOf
<1>5. CASE echo[p].pc = "panicked"
  <2>1. calls' = calls /\ loop' = [loop EXCEPT ![p][s] = Receiving]
    BY <1>1, <1>5 DEF Rebroadcast
  <2>2. loop'[p][s].pc = "recv"
    BY <1>0, <2>1, LoopEffect, StateTypes
  <2> QED
    BY <1>2, <1>3, <1>4, <1>5, <2>1, <2>2 DEF LeafIdle, LeafPhase
<1>6. CASE echo[p].pc # "panicked"
  <2> DEFINE c == LoopCall(p, s)
  <2>1. /\ loop' = [loop EXCEPT ![p][s] = AwaitingBroadcast]
        /\ calls' = [calls EXCEPT ![p] = Append(@, c)]
    BY <1>1, <1>6 DEF Rebroadcast, LoopCall
  <2>2. loop'[p][s].pc = "broadcast"
    BY <1>0, <2>1, LoopEffect, StateTypes
  <2>3. c \in CallsOfEcho /\ c.msg = loop[p][s].msg
    BY <1>1, RebroadcastEffect DEF LoopCall
  <2> HIDE DEF c
  <2>4. calls'[p] = Append(calls[p], c) /\ calls[p] \in Seq(CallsOfEcho)
    BY <1>0, <2>1, <2>3, CallEffect
  <2>5. Len(calls'[p]) = 1 /\ calls'[p][1] = c
    BY <1>3, <2>3, <2>4 DEF LeafIdle
  <2>6. Contains(got[p][s], loop[p][s].msg)
    BY <1>2 DEF HeardInv
  <2>7. echo[p].pc = "recv"
    BY <1>0, <1>3, <1>6 DEF LeafIdle, Shapes, EchoStates
  <2> QED
    BY <1>2, <1>3, <1>4, <2>2, <2>3, <2>5, <2>6, <2>7 DEF LeafIdle, LeafCalling, LeafPhase
<1> QED
  BY <1>5, <1>6

(* A step that neither makes a call, takes one nor ends one.               *)
LEMMA LeafRests ==
    ASSUME IInv, [Next]_vars, NEW p \in Nodes, NEW s \in Nodes, Leaf(p, s), LeafOK(p, s),
           ~CallMoves(p)
    PROVE  LeafPhase(p, s)'
<1>0. Shapes /\ NoNode \notin Nodes /\ Broadcasts' = Broadcasts
  BY SeedsAssumption DEF IInv, TypeOK, Broadcasts
<1>1. /\ calls'[p] = calls[p] /\ waiters'[p] = waiters[p]
      /\ \/ echo'[p] = echo[p]
         \/ /\ echo[p].pc = "sending" /\ echo'[p].pc = "sending"
            /\ echo'[p].call = echo[p].call
  BY CallMovesOrRests DEF CallRests
<1>2. ~FinishSend(p) /\ ~FinishSendPanics(p) /\ ~Rebroadcast(p, s)
  BY DEF CallMoves
<1>3. loop[p][s].pc = "broadcast" => loop'[p][s] = loop[p][s]
  <2>1. loop[p][s].pc = "broadcast" => s \in Linked(p)
    BY DEF Linked
  <2>2. LoopOK(p, s)
    BY DEF LeafOK
  <2> QED
    BY <1>2, <2>1, <2>2, LeafNotCalled, LoopStays
<1>4. loop[p][s].pc # "broadcast" => loop'[p][s].pc # "broadcast"
  BY <1>2, LoopCalls
<1>5. ASSUME ~SendToMember(p, s)
      PROVE  /\ NoneOf(Said(p, s), Broadcasts) => NoneOf(Said(p, s), Broadcasts)'
             /\ OneOf(Said(p, s), Broadcasts) => OneOf(Said(p, s), Broadcasts)'
  <2>1. /\ NoneOf(Said(p, s), Broadcasts) => NoneOf(Said(p, s)', Broadcasts)
        /\ OneOf(Said(p, s), Broadcasts) => OneOf(Said(p, s)', Broadcasts)
    BY <1>5, StaysSilent DEF NoneOf, OneOf
  <2> QED
    BY <1>0, <2>1 DEF NoneOf, OneOf
<1>6. echo[p].pc # "sending" => ~SendToMember(p, s)
  BY DEF SendToMember
<1>7. CASE LeafIdle(p, s)
  BY <1>1, <1>4, <1>5, <1>6, <1>7 DEF LeafIdle, LeafPhase
<1>8. CASE LeafCalling(p, s)
  <2>1. Contains(got'[p][s], calls[p][1].msg)
    BY <1>8, GotGrows DEF LeafCalling
  <2> QED
    BY <1>1, <1>3, <1>5, <1>6, <1>8, <2>1 DEF LeafCalling, LeafPhase
<1>9. CASE LeafWaiting(p, s)
  BY <1>1, <1>3, <1>5, <1>6, <1>9 DEF LeafWaiting, LeafPhase
<1>10. CASE LeafSending(p, s)
  <2>1. /\ loop'[p][s].pc = "broadcast" /\ waiters'[p] = {} /\ calls'[p] = <<>>
        /\ echo'[p].pc = "sending" /\ echo'[p].call = echo[p].call
    BY <1>1, <1>3, <1>10 DEF LeafSending
  <2>2. Contains(got'[p][s], echo'[p].call.msg)
    BY <1>10, <2>1, GotGrows DEF LeafSending
  <2>3. echo[p].pc = "sending" /\ echo[p].left \subseteq {s}
    BY <1>10, LeafFacts DEF LeafSending
  <2>4. CASE SendToMember(p, s)
    <3>1. /\ echo[p].to = NoNode /\ s \in echo[p].left
          /\ echo'[p] = EchoSending(echo[p].call, echo[p].left, s)
      BY <2>4, SendToMemberEffect
    <3>2. echo'[p].left = echo[p].left /\ echo'[p].to = s
      BY <3>1 DEF EchoSending
    <3>3. NoneOf(Said(p, s), Broadcasts)
      BY <1>0, <1>10, <3>1 DEF LeafSending
    <3>4. OneOf(Said(p, s)', Broadcasts)
      BY <2>4, <3>3, SpeaksUp DEF OneOf
    <3>5. OneOf(Said(p, s), Broadcasts)'
      BY <1>0, <3>4 DEF OneOf
    <3>6. s \in echo[p].call.members
      BY <1>10, <3>1 DEF LeafSending
    <3> QED
      BY <1>10, <2>1, <2>2, <3>1, <3>2, <3>5, <3>6 DEF LeafSending, LeafPhase
  <2>5. CASE ~SendToMember(p, s)
    <3>1. \/ echo'[p].left = echo[p].left /\ echo'[p].to = echo[p].to
          \/ echo'[p].left = {}
      <4>1. CASE echo'[p] = echo[p]
        BY <4>1
      <4>2. ASSUME NEW q \in Nodes, SendToMember(p, q) PROVE FALSE
        BY <2>3, <2>5, <4>2, SendToMemberEffect
      <4>3. ASSUME NEW q \in Nodes, Ack(p, q), Woken(p, q) = Echo
            PROVE  echo'[p].left = {}
        <5>1. echo'[p].left = echo[p].left \ {q} /\ echo[p].to = q
          <6>1. /\ echo'[p] = EchoSending(echo[p].call, echo[p].left \ {q}, NoNode)
                /\ echo[p].to = q
            BY <4>3, AckEchoEffect
          <6> QED
            BY <6>1 DEF EchoSending
        <5>2. q = s
          BY <1>0, <2>3, <5>1 DEF IInv, EchoInv
        <5> QED
          BY <2>3, <5>1, <5>2
      <4>4. echo'[p] = echo[p] \/ (\E q \in Nodes : SendToMember(p, q))
              \/ \E q \in Nodes : Ack(p, q) /\ Woken(p, q) = Echo
        BY <1>2, <2>3, EchoOf DEF CallMoves
      <4> QED
        BY <4>1, <4>2, <4>3, <4>4
    <3>2. echo'[p].left \subseteq echo[p].call.members
      BY <1>10, <3>1 DEF LeafSending
    <3> QED
      BY <1>5, <1>10, <2>1, <2>2, <2>5, <3>1, <3>2 DEF LeafSending, LeafPhase
  <2> QED
    BY <2>4, <2>5
<1> QED
  BY <1>7, <1>8, <1>9, <1>10 DEF LeafOK, LeafPhase

LEMMA LeafStep ==
    ASSUME IInv, HeardInv, LeafInv, [Next]_vars
    PROVE  LeafInv'
<1> SUFFICES ASSUME NEW p \in Nodes, NEW s \in Nodes, Leaf(p, s) PROVE LeafOK(p, s)'
  BY DEF LeafInv, LeafOK, Leaf, Joins
<1>1. LeafOK(p, s)
  BY DEF LeafInv, LeafOK
<1>2. LeafJoins(p, s)'
  BY <1>1, LeafJoinsStep
<1>3. LeafPhase(p, s)'
  <2>1. ~BroadcastRoundOne(p)
    BY LeafFacts DEF BroadcastRoundOne
  <2>2. CASE CallMoves(p)
    BY <1>1, <2>1, <2>2, LeafTakesCall, LeafFinishes, LeafPanics, LeafRebroadcasts
       DEF CallMoves, LeafPhase
  <2> QED
    BY <1>1, <2>2, LeafRests
<1>4. FinishSend(p) \/ FinishSendPanics(p) => loop[p][s].pc = "broadcast"
  BY <1>1 DEF FinishSend, FinishSendPanics, LeafOK, LeafPhase, LeafIdle, LeafCalling,
     LeafSending, LeafWaiting
<1>5. LoopOK(p, s)'
  BY <1>1, <1>4, LoopOKStep, LeafNotCalled DEF LeafOK
<1>6. LeafRepeats(p, s)'
  <2>1. ASSUME NEW m \in Spoke(p, s) PROVE Contains(got'[p][s], m)
    BY <1>1, GotGrows DEF LeafOK, LeafRepeats
  <2>2. CASE ~SendToMember(p, s)
    <3>1. Spoke(p, s)' = Spoke(p, s)
      BY <2>2, StaysSilent
    <3> QED
      BY <2>1, <3>1 DEF LeafRepeats
  <2>3. CASE SendToMember(p, s)
    <3>1. Spoke(p, s)' = Spoke(p, s) \cup {echo[p].call.msg}
      BY <2>3, SpeaksUp
    <3>2. Contains(got[p][s], echo[p].call.msg)
      BY <1>1, <2>3 DEF SendToMember, LeafOK, LeafPhase, LeafIdle, LeafCalling,
         LeafSending, LeafWaiting
    <3>3. Contains(got'[p][s], echo[p].call.msg)
      BY <3>2, GotGrows
    <3> QED
      BY <2>1, <3>1, <3>3 DEF LeafRepeats
  <2> QED
    BY <2>2, <2>3
<1> QED
  BY <1>2, <1>3, <1>5, <1>6 DEF LeafOK

-----------------------------------------------------------------------------
(* Hubs.                                                                   *)

LEMMA Packages ==
    ASSUME NEW n \in Nodes, NEW p \in Nodes
    PROVE  /\ Package(n, p) \in Broadcasts /\ Package(n, p).mid = <<n, p>>
           /\ \A q \in Nodes : Package(n, p) = Package(n, q) => p = q
<1>1. /\ Package(n, p).mid = <<n, p>> /\ \A q \in Nodes : Package(n, q).mid = <<n, q>>
  BY DEF Package, RoundOne
<1> QED
  BY <1>1, MessageKinds DEF Package

LEMMA HubFacts ==
    ASSUME IInv, NEW n \in Nodes, Hub(n)
    PROVE  /\ main[n].pc \notin {"connect", "add_seed"} /\ \A p \in Nodes : ~Connect(n, p)
           /\ \A p \in Nodes : Joins(p, n) => Leaf(p, n)
           /\ \A p \in Linked(n) : Leaf(p, n) /\ p \in Nodes
           /\ main[n].pc \in Introducing => main[n].peer \in Linked(n) /\ main[n].peer \in Nodes
           /\ ~Panicked(n)
<1>1. \A p \in Nodes : ~Joins(n, p)
  BY DEF Hub, Joins, Contains
<1>2. /\ main[n].pc = "connect" => main[n].peer \in Nodes
      /\ main[n].pc \notin {"connect", "accept", "stopped"}
           => main[n].peer \in Nodes /\ main[n].peer \in Linked(n)
  BY PeerLinked DEF IInv, TypeOK
<1>3. main[n].pc \notin {"connect", "add_seed"}
  BY <1>1, <1>2 DEF IInv, JoinsInv
<1>4. \A p \in Nodes : ~Connect(n, p)
  BY <1>3 DEF Connect
<1>5. \A p \in Nodes : Joins(p, n) => Leaf(p, n)
  BY DEF Hub, Leaf
<1>6. \A p \in Linked(n) : Leaf(p, n) /\ p \in Nodes
  BY <1>5, HubLinks DEF Linked
<1>7. ~Panicked(n)
  BY DEF IInv, HubInv
<1> QED
  BY <1>2, <1>3, <1>4, <1>5, <1>6, <1>7 DEF Introducing

LEMMA HubConnect ==
    ASSUME IInv, LeafInv, NEW n \in Nodes, Hub(n), NEW p \in Nodes, Connect(p, n)
    PROVE  /\ p \notin Linked(n) /\ main[n].pc = "accept"
           /\ main'[n].pc = "add_member" /\ main'[n].peer = p
<1>1. /\ main[p].pc = "connect" /\ main[p].peer = n /\ main[n].pc = "accept"
      /\ main'[n].pc = "add_member" /\ main'[n].peer = p
  BY ConnectEffect
<1>2. Joins(p, n)
  BY <1>1 DEF IInv, JoinsInv
<1>3. Leaf(p, n)
  BY <1>2, HubFacts
<1>4. n \notin Linked(p)
  BY <1>1, <1>3 DEF LeafInv, LeafJoins
<1> QED
  BY <1>1, <1>4 DEF IInv, LinksInv

(* What comes back from the joiner being introduced is its own package.    *)
LEMMA ComesBack ==
    ASSUME IInv, StormInv, NEW n \in Nodes, Hub(n), NEW q \in Nodes,
           loop[n][q].pc = "rebroadcast"
    PROVE  /\ main[n].pc = "broadcast" /\ q = main[n].peer
           /\ loop[n][q].msg = Mine(n) /\ Mine(n) \in Spoke(n, q) /\ Mine(n) \in Broadcasts
<1>0. Shapes /\ HubOK(n)
  BY DEF IInv, TypeOK, StormInv
<1>1. q \in Linked(n) /\ q \notin Greeted(n)
  BY <1>0 DEF Linked, HubOK, HubLoops
<1>2. main[n].pc \in Introducing /\ main[n].peer = q
  BY <1>1 DEF Greeted
<1> DEFINE m == loop[n][q].msg
<1>3. m \in Broadcasts /\ Contains(got[n][q], m)
  BY DEF IInv, TypeOK, StormInv, HeardInv
<1>4. m \in Spoke(q, n)
  BY <1>0, <1>3, GotWasSaid
<1>5. Leaf(q, n)
  BY <1>1, HubFacts
<1>6. Contains(got[q][n], m)
  BY <1>4, <1>5 DEF StormInv, LeafInv, LeafRepeats
<1>7. m \in Spoke(n, q)
  BY <1>0, <1>3, <1>6, GotWasSaid
<1>8. m = Mine(n) /\ main[n].pc = "broadcast"
  BY <1>0, <1>1, <1>7 DEF HubOK, HubSpoke
<1> QED
  BY <1>2, <1>3, <1>7, <1>8

(* A hub's echo broadcast actor only sends the package being introduced.   *)
LEMMA HubSends ==
    ASSUME IInv, NEW n \in Nodes, Hub(n), HubOK(n), NEW q \in Nodes, SendToMember(n, q)
    PROVE  /\ HubSending(n) \/ HubAnswering(n)
           /\ main[n].pc = "broadcast" /\ echo[n].call.msg = Mine(n) /\ q \in Linked(n)
           /\ echo[n].to = NoNode /\ q \in echo[n].left
           /\ echo'[n].pc = "sending" /\ echo'[n].call = echo[n].call
           /\ echo'[n].left = echo[n].left /\ echo'[n].to = q
<1>1. /\ echo[n].pc = "sending" /\ echo[n].to = NoNode /\ q \in echo[n].left
      /\ echo'[n] = EchoSending(echo[n].call, echo[n].left, q)
  BY SendToMemberEffect
<1>2. HubSending(n) \/ HubAnswering(n)
  BY <1>1 DEF HubOK, HubPhase, HubSilent, HubCalling, HubWaiting
<1>3. main[n].pc = "broadcast" /\ echo[n].call.msg = Mine(n)
  <2>1. MainCall(n).msg = Mine(n)
    BY DEF MainCall, Mine, Package
  <2> QED
    BY <1>2, <2>1 DEF HubSending, HubAnswering, PeersCall
<1>4. q \in Linked(n)
  BY <1>1 DEF IInv, LinksInv
<1>5. /\ echo'[n].pc = "sending" /\ echo'[n].call = echo[n].call
      /\ echo'[n].left = echo[n].left /\ echo'[n].to = q
  BY <1>1 DEF EchoSending
<1> QED
  BY <1>1, <1>2, <1>3, <1>4, <1>5

(* An introduction ends when the joiner's call has replaced the main task's*)
LEMMA HubAnswered ==
    ASSUME IInv, NEW n \in Nodes, Hub(n), HubOK(n), HubAnswering(n), FinishSend(n)
    PROVE  /\ main'[n].pc = "send_membership" /\ \A q \in Nodes : loop'[n][q] = loop[n][q]
           /\ echo'[n].pc = "recv" /\ calls'[n] = <<>>
           /\ waiters'[n] = (waiters[n] \ {MainWaiter(n)})
                              \cup {<< <<n, main[n].peer>>, main[n].peer >>}
<1>0. /\ Shapes /\ Main \notin Nodes
      /\ main[n].peer \in Nodes
  BY SeedsAssumption, HubFacts DEF IInv, TypeOK, HubAnswering, Introducing, Main
<1>1. /\ echo'[n] = EchoIdle /\ calls' = calls
      /\ waiters'[n] = (waiters[n] \ WaitersFor(n, echo[n].call.msg.mid))
                         \cup {<<echo[n].call.msg.mid, echo[n].call.by>>}
  BY FinishSendEffect
<1>2. echo[n].call.msg.mid = <<n, main[n].peer>> /\ echo[n].call.by = main[n].peer
  BY <1>0, Packages DEF HubAnswering, PeersCall, Mine
<1>3. WaitersFor(n, echo[n].call.msg.mid) = {MainWaiter(n)}
  BY <1>2 DEF HubAnswering, MineWaiting
<1> DEFINE S == {w[2] : w \in WaitersFor(n, echo[n].call.msg.mid)}
<1>4. ReturnErr(n, S)
  BY DEF FinishSend
<1>5. S = {Main}
  BY <1>3 DEF MainWaiter
<1> HIDE DEF S
<1>6. main'[n].pc = "send_membership"
  BY <1>0, <1>4, <1>5 DEF ReturnErr, Shapes, MainStates
<1>7. \A q \in Nodes : loop'[n][q] = loop[n][q]
  BY <1>0, <1>4, <1>5, ErrFrame
<1> QED
  BY <1>1, <1>2, <1>3, <1>6, <1>7, StateTypes DEF HubAnswering

LEMMA HubSent ==
    ASSUME IInv, NEW n \in Nodes, Hub(n), HubOK(n), HubSending(n), FinishSend(n)
    PROVE  /\ main'[n] = main[n] /\ \A q \in Nodes : loop'[n][q] = loop[n][q]
           /\ echo'[n].pc = "recv" /\ calls'[n] = calls[n]
           /\ waiters'[n] = waiters[n] \cup {MainWaiter(n)}
<1>0. Shapes /\ main[n].peer \in Nodes
  BY HubFacts DEF IInv, TypeOK, HubSending, Introducing
<1>1. /\ echo'[n] = EchoIdle /\ calls' = calls
      /\ waiters'[n] = (waiters[n] \ WaitersFor(n, echo[n].call.msg.mid))
                         \cup {<<echo[n].call.msg.mid, echo[n].call.by>>}
  BY FinishSendEffect
<1>2. echo[n].call.msg.mid = <<n, main[n].peer>> /\ echo[n].call.by = Main
  <2>1. MainCall(n).msg = Package(n, main[n].peer) /\ MainCall(n).by = Main
    BY DEF MainCall, Package
  <2> QED
    BY <1>0, <2>1, Packages DEF HubSending
<1>3. WaitersFor(n, echo[n].call.msg.mid) = {}
  BY <1>2 DEF HubSending, MineWaiting
<1> DEFINE S == {w[2] : w \in WaitersFor(n, echo[n].call.msg.mid)}
<1>4. ReturnErr(n, S)
  BY DEF FinishSend
<1>5. S = {}
  BY <1>3
<1> HIDE DEF S
<1>6. main'[n] = main[n] /\ \A q \in Nodes : loop'[n][q] = loop[n][q]
  BY <1>0, <1>4, <1>5, ErrFrame
<1> QED
  BY <1>1, <1>2, <1>3, <1>6, StateTypes DEF MainWaiter

LEMMA HubFinishes ==
    ASSUME IInv, NEW n \in Nodes, Hub(n), HubOK(n), FinishSend(n)
    PROVE  HubSending(n) \/ HubAnswering(n)
  BY DEF FinishSend, HubOK, HubPhase, HubSilent, HubCalling, HubWaiting

LEMMA HubNoPanic ==
    ASSUME IInv, IInv', NEW n \in Nodes, Hub(n)
    PROVE  ~FinishSendPanics(n)
<1>1. FinishSendPanics(n) => echo'[n].pc = "panicked"
  BY FinishSendPanicsEffect, StateTypes
<1>2. ~Panicked(n)'
  BY DEF IInv, HubInv, Hub, Joins
<1> QED
  BY <1>1, <1>2 DEF Panicked

(* How the main task of a hub moves.                                       *)
HubMoves(n) ==
    \/ main'[n] = main[n]
    \/ \E p \in Nodes : Connect(p, n)
    \/ /\ main[n].pc \in Introducing \ {"broadcast"} /\ main'[n].pc \in Introducing
       /\ main'[n].peer = main[n].peer
       /\ main'[n].pc = "broadcast" => BroadcastRoundOne(n)
    \/ /\ main[n].pc = "broadcast" /\ main'[n].pc = "send_membership"
       /\ FinishSend(n) /\ HubAnswering(n)
    \/ main[n].pc \notin Introducing /\ main'[n].pc \notin Introducing

LEMMA HubMovesStep ==
    ASSUME IInv, IInv', [Next]_vars, NEW n \in Nodes, Hub(n), HubOK(n)
    PROVE  HubMoves(n)
<1>0. main[n] \in MainStates /\ main[n].pc \notin {"connect", "add_seed"} /\ ~Panicked(n)
  BY HubFacts DEF IInv, TypeOK, Shapes
<1>1. CASE AddMember(n)
  BY <1>1, AddMemberEffect DEF HubMoves, Introducing
<1>2. CASE SendHelo(n) \/ SendMembership(n)
  <2>1. /\ main'[n].peer = main[n].peer
        /\ \/ main[n].pc = "send_helo" /\ main'[n].pc = "handshake"
           \/ main[n].pc = "send_membership" /\ main'[n].pc = "membership"
    BY <1>2, MainSendEffect
  <2> QED
    BY <2>1 DEF HubMoves, Introducing
<1>3. CASE BroadcastRoundOne(n)
  <2>1. /\ main[n].pc = "round_one" /\ main'[n].pc = "broadcast"
        /\ main'[n].peer = main[n].peer
    BY <1>0, <1>3, RoundOneEffect DEF Panicked
  <2> QED
    BY <1>3, <2>1 DEF HubMoves, Introducing
<1>4. ASSUME main[n].pc \in {"handshake", "membership"}, main'[n] = AfterSend(main[n])
      PROVE  HubMoves(n)
  <2>1. CASE main[n].pc = "handshake"
    <3>1. AfterSend(main[n]).pc = "round_one" /\ AfterSend(main[n]).peer = main[n].peer
      BY <1>0, <2>1 DEF AfterSend, MainStates
    <3> QED
      BY <1>4, <2>1, <3>1 DEF HubMoves, Introducing
  <2>2. CASE main[n].pc = "membership"
    <3>1. AfterSend(main[n]).pc = "accept"
      BY <2>2 DEF AfterSend, At
    <3> QED
      BY <1>4, <2>2, <3>1 DEF HubMoves, Introducing
  <2> QED
    BY <1>4, <2>1, <2>2
<1>5. CASE MainTimesOut(n)
  BY <1>4, <1>5, MainTimesOutEffect
<1>6. ASSUME NEW p \in Nodes, Ack(n, p), Woken(n, p) = Main PROVE HubMoves(n)
  <2>1. 1 \in InAcks(n, p, Main)
    BY <1>6, AckWaits
  <2>2. main[n].pc \in {"handshake", "membership"}
    BY <2>1, SendsParts DEF SendsOK, Waits
  <2>3. main'[n] = AfterSend(main[n])
    BY <1>6, AckMainEffect
  <2> QED
    BY <1>4, <2>2, <2>3
<1>7. CASE FinishSend(n)
  <2>1. CASE HubSending(n)
    BY <1>7, <2>1, HubSent DEF HubMoves
  <2>2. CASE HubAnswering(n)
    <3>1. main'[n].pc = "send_membership"
      BY <1>7, <2>2, HubAnswered
    <3>2. main[n].pc = "broadcast"
      BY <2>2 DEF HubAnswering
    <3> QED
      BY <1>7, <2>2, <3>1, <3>2 DEF HubMoves
  <2> QED
    BY <1>7, <2>1, <2>2, HubFinishes
<1>8. ~FinishSendPanics(n) /\ \A p \in Nodes : ~Connect(n, p)
  BY HubNoPanic, HubFacts
<1>9. ~ConnectRefused(n) /\ ~AddSeed(n)
  BY <1>0 DEF ConnectRefused, AddSeed
<1>10. CASE main'[n] = main[n] \/ \E p \in Nodes : Connect(p, n)
  BY <1>10 DEF HubMoves
<1> QED
  BY <1>1, <1>2, <1>3, <1>5, <1>6, <1>7, <1>8, <1>9, <1>10, MainOf DEF MainMover

LEMMA HubLinked ==
    ASSUME IInv, [Next]_vars, NEW n \in Nodes, Hub(n)
    PROVE  /\ \A p \in Nodes : Connect(p, n) => Linked(n)' \subseteq Linked(n) \cup {p}
           /\ (\A p \in Nodes : ~Connect(p, n)) => Linked(n)' = Linked(n)
<1>1. ASSUME NEW p \in Nodes, Connect(p, n)
      PROVE  Linked(n)' \subseteq Linked(n) \cup {p}
  <2>1. p # n /\ \A q \in Nodes : q # p => loop'[n][q] = loop[n][q]
    BY <1>1, ConnectEffect
  <2> QED
    BY <2>1 DEF Linked
<1>2. ASSUME NEW a \in Nodes, NEW b \in Nodes, Connect(a, b), b # n
      PROVE  Linked(n)' = Linked(n)
  <2>1. a # n
    BY <1>2, HubFacts
  <2>2. \A q \in Nodes : loop'[n][q] = loop[n][q]
    BY <1>2, <2>1, ConnectEffect
  <2> QED
    BY <2>2 DEF Linked
<1>3. ASSUME \A a, b \in Nodes : ~Connect(a, b) PROVE Linked(n)' = Linked(n)
  BY <1>3, LinkedStep
<1> QED
  BY <1>1, <1>2, <1>3

LEMMA GreetedStep ==
    ASSUME IInv, IInv', StormInv, [Next]_vars, NEW n \in Nodes, Hub(n)
    PROVE  /\ Greeted(n) \subseteq Greeted(n)'
           /\ \A p \in Greeted(n)' : \/ p \in Greeted(n)
                                     \/ p = main[n].peer /\ FinishSend(n) /\ HubAnswering(n)
           /\ main'[n].pc # "broadcast" /\ main[n].pc = "broadcast"
                => Linked(n) \subseteq Greeted(n)'
<1>0. HubOK(n)
  BY DEF StormInv
<1>1. CASE \E p \in Nodes : Connect(p, n)
  <2>1. PICK p \in Nodes : Connect(p, n)
    BY <1>1
  <2>2. /\ p \notin Linked(n) /\ main[n].pc = "accept"
        /\ main'[n].pc = "add_member" /\ main'[n].peer = p
    BY <2>1, HubConnect DEF StormInv
  <2>3. Linked(n)' \subseteq Linked(n) \cup {p} /\ Linked(n) \subseteq Linked(n)'
    BY <2>1, HubLinked, LinkedStep
  <2> QED
    BY <2>2, <2>3 DEF Greeted, Introducing
<1>2. CASE \A p \in Nodes : ~Connect(p, n)
  <2>1. Linked(n)' = Linked(n)
    BY <1>2, HubLinked
  <2>2. HubMoves(n)
    BY <1>0, HubMovesStep
  <2> QED
    BY <1>2, <2>1, <2>2 DEF Greeted, HubMoves, Introducing
<1> QED
  BY <1>1, <1>2

LEMMA HubLoopKept ==
    ASSUME IInv, IInv', StormInv, [Next]_vars, NEW n \in Nodes, Hub(n), NEW q \in Nodes,
           loop[n][q].pc = "broadcast"
    PROVE  loop'[n][q] = loop[n][q]
<1>0. HubOK(n) /\ LoopOK(n, q)
  BY DEF StormInv, HubOK, HubLoops
<1>1. CASE FinishSend(n)
  BY <1>0, <1>1, HubFinishes, HubSent, HubAnswered
<1>2. CASE ~FinishSend(n)
  <2>1. ~FinishSendPanics(n)
    BY HubNoPanic
  <2>2. ~Connect(n, q)
    BY HubFacts
  <2>3. ~Connect(q, n)
    <3>1. q \in Linked(n)
      BY DEF Linked
    <3> QED
      BY <3>1, HubConnect DEF StormInv
  <2> QED
    BY <1>0, <1>2, <2>1, <2>2, <2>3, LoopStays
<1> QED
  BY <1>1, <1>2

LEMMA HubLoopsStep ==
    ASSUME IInv, IInv', StormInv, [Next]_vars, NEW n \in Nodes, Hub(n)
    PROVE  HubLoops(n)'
<1>0. HubOK(n)
  BY DEF StormInv
<1>1. ASSUME NEW p \in Nodes PROVE LoopOK(n, p)'
  <2>1. LoopOK(n, p)
    BY <1>0 DEF HubOK, HubLoops
  <2>2. Connect(n, p) \/ Connect(p, n) => p \notin Linked(n)
    BY HubFacts, HubConnect DEF StormInv
  <2>3. FinishSend(n) \/ FinishSendPanics(n) => loop'[n][p] = loop[n][p]
    BY <1>0, HubNoPanic, HubFinishes, HubSent, HubAnswered
  <2> QED
    BY <2>1, <2>2, <2>3, LoopOKStep
<1>2. ASSUME NEW p \in Greeted(n)' PROVE loop'[n][p].pc = "broadcast"
  <2>0. p \in Nodes
    BY DEF Greeted, Linked
  <2>1. CASE p \in Greeted(n)
    BY <1>0, <2>0, <2>1, HubLoopKept DEF HubOK, HubLoops
  <2>2. CASE p = main[n].peer /\ HubAnswering(n)
    <3>1. loop[n][p].pc = "broadcast"
      BY <2>2 DEF HubAnswering, Released
    <3> QED
      BY <2>0, <3>1, HubLoopKept
  <2> QED
    BY <2>1, <2>2, GreetedStep
<1> QED
  BY <1>1, <1>2 DEF HubLoops

LEMMA BroadcastHolds ==
    ASSUME IInv, IInv', [Next]_vars, NEW n \in Nodes, Hub(n), main[n].pc = "broadcast",
           ~FinishSend(n)
    PROVE  /\ main'[n] = main[n] /\ members'[n] = members[n]
           /\ Mine(n)' = Mine(n) /\ MainCall(n)' = MainCall(n)
           /\ MainWaiter(n)' = MainWaiter(n)
<1>1. main'[n] = main[n] /\ members'[n] = members[n]
  BY BroadcastStays, HubNoPanic
<1> QED
  BY <1>1 DEF Mine, MainCall, MainWaiter, Package

LEMMA WaitersKept ==
    ASSUME IInv, IInv', [Next]_vars, NEW n \in Nodes, Hub(n), ~FinishSend(n)
    PROVE  waiters'[n] = waiters[n]
<1>1. CASE CallMoves(n)
  <2>1. ~FinishSendPanics(n)
    BY HubNoPanic
  <2>2. BroadcastRoundOne(n) => waiters' = waiters
    BY RoundOneEffect
  <2>3. TakeCall(n) => waiters' = waiters
    BY TakeCallEffect
  <2>4. \A p \in Nodes : Rebroadcast(n, p) => waiters' = waiters
    BY RebroadcastEffect
  <2> QED
    BY <1>1, <2>1, <2>2, <2>3, <2>4 DEF CallMoves
<1>2. CASE CallRests(n)
  BY <1>2 DEF CallRests
<1> QED
  BY <1>1, <1>2, CallMovesOrRests

LEMMA HubWaitersStep ==
    ASSUME IInv, IInv', StormInv, [Next]_vars, NEW n \in Nodes, Hub(n)
    PROVE  HubWaiters(n)'
<1>0. HubOK(n) /\ HubWaiters(n)
  BY DEF StormInv, HubOK
<1>a. Greeted(n) \subseteq Greeted(n)'
  BY GreetedStep
<1>1. CASE ~FinishSend(n)
  <2>1. waiters'[n] = waiters[n]
    BY <1>1, WaitersKept
  <2>2. main[n].pc = "broadcast" => main'[n] = main[n] /\ MainWaiter(n)' = MainWaiter(n)
    BY <1>1, BroadcastHolds
  <2> QED
    BY <1>0, <1>a, <2>1, <2>2 DEF HubWaiters
<1>2. CASE FinishSend(n) /\ HubSending(n)
  <2>1. main'[n] = main[n] /\ waiters'[n] = waiters[n] \cup {MainWaiter(n)}
    BY <1>0, <1>2, HubSent
  <2>2. main[n].pc = "broadcast" /\ MainWaiter(n)' = MainWaiter(n)
    BY <1>2, <2>1 DEF HubSending, MainWaiter
  <2> QED
    BY <1>0, <1>a, <2>1, <2>2 DEF HubWaiters
<1>3. CASE FinishSend(n) /\ HubAnswering(n)
  <2>1. /\ main'[n].pc = "send_membership"
        /\ waiters'[n] = (waiters[n] \ {MainWaiter(n)})
                           \cup {<< <<n, main[n].peer>>, main[n].peer >>}
    BY <1>0, <1>3, HubAnswered
  <2>2. main[n].pc = "broadcast"
    BY <1>3 DEF HubAnswering
  <2>3. main[n].peer \in Greeted(n)'
    BY <2>1, <2>2, HubFacts, GreetedStep DEF Introducing
  <2>4. ASSUME NEW w \in waiters'[n] PROVE \E p \in Greeted(n)' : w[1] = <<n, p>>
    <3>1. CASE w = << <<n, main[n].peer>>, main[n].peer >>
      BY <2>3, <3>1
    <3>2. CASE w \in waiters[n] /\ w # MainWaiter(n)
      BY <1>0, <1>a, <3>2 DEF HubWaiters
    <3> QED
      BY <2>1, <3>1, <3>2
  <2> QED
    BY <2>4 DEF HubWaiters
<1> QED
  BY <1>0, <1>1, <1>2, <1>3, HubFinishes

LEMMA HubSpokeStep ==
    ASSUME IInv, IInv', StormInv, [Next]_vars, NEW n \in Nodes, Hub(n)
    PROVE  HubSpoke(n)'
<1>0. HubOK(n) /\ HubSpoke(n)
  BY DEF StormInv, HubOK
<1>a. Greeted(n) \subseteq Greeted(n)' /\ Linked(n) \subseteq Linked(n)'
  BY GreetedStep, LinkedStep
<1> SUFFICES ASSUME NEW q \in Nodes, NEW m \in Spoke(n, q)'
             PROVE  \/ m = Mine(n)' /\ main'[n].pc = "broadcast" /\ q \in Linked(n)'
                    \/ q \in Greeted(n)' /\ \E p \in Greeted(n)' : m = Package(n, p)'
  BY DEF HubSpoke
<1>b. \A p : Package(n, p)' = Package(n, p)
  BY DEF Package, RoundOne
<1>1. ASSUME m = Mine(n), main[n].pc = "broadcast", q \in Linked(n)
      PROVE  \/ m = Mine(n)' /\ main'[n].pc = "broadcast" /\ q \in Linked(n)'
             \/ q \in Greeted(n)' /\ \E p \in Greeted(n)' : m = Package(n, p)'
  <2>1. CASE main'[n].pc = "broadcast"
    <3>1. main'[n].peer = main[n].peer
      BY <1>1, BroadcastStays
    <3>2. Mine(n)' = Mine(n)
      BY <3>1 DEF Mine, Package
    <3> QED
      BY <1>1, <1>a, <2>1, <3>2
  <2>2. CASE main'[n].pc # "broadcast"
    <3>1. Linked(n) \subseteq Greeted(n)'
      BY <1>1, <2>2, GreetedStep
    <3>2. main[n].peer \in Linked(n)
      BY <1>1, HubFacts DEF Introducing
    <3> QED
      BY <1>1, <1>b, <3>1, <3>2 DEF Mine
  <2> QED
    BY <2>1, <2>2
<1>2. CASE m \in Spoke(n, q)
  BY <1>0, <1>1, <1>2, <1>a, <1>b DEF HubSpoke
<1>3. CASE m \notin Spoke(n, q)
  <2>1. SendToMember(n, q)
    BY <1>3, StaysSilent
  <2>2. m = echo[n].call.msg
    BY <1>3, <2>1, SpeaksUp
  <2> QED
    BY <1>0, <1>1, <2>1, <2>2, HubSends
<1> QED
  BY <1>2, <1>3

LEMMA HubTwiceStep ==
    ASSUME IInv, IInv', StormInv, [Next]_vars, NEW n \in Nodes, Hub(n)
    PROVE  HubTwice(n)'
<1>0. HubOK(n) /\ HubTwice(n) /\ Broadcasts' = Broadcasts /\ NoNode \notin Nodes
  BY SeedsAssumption DEF StormInv, HubOK, Broadcasts
<1> SUFFICES ASSUME NEW q \in Nodes, NEW m \in Broadcasts PROVE TwoOf(Said(n, q), {m})'
  BY <1>0 DEF HubTwice
<1>1. TwoOf(Said(n, q), {m})
  BY <1>0 DEF HubTwice
<1>2. CASE ~SendToMember(n, q)
  BY <1>1, <1>2, StaysSilent
<1>3. CASE SendToMember(n, q) /\ m # echo[n].call.msg
  <2>1. echo[n].call.msg \notin {m}
    BY <1>3
  <2> QED
    BY <1>1, <1>3, <2>1, SpeaksUp
<1>4. CASE SendToMember(n, q) /\ m = echo[n].call.msg
  <2>1. /\ HubSending(n) \/ HubAnswering(n)
        /\ m = Mine(n) /\ q \in echo[n].left /\ echo[n].to # q
    BY <1>0, <1>4, HubSends
  <2>2. OneOf(Said(n, q), {m})
    BY <2>1 DEF HubSending, HubAnswering
  <2> QED
    BY <1>4, <2>2, SpeaksUp
<1> QED
  BY <1>2, <1>3, <1>4

(* The calls of a hub, action by action.                                   *)
LEMMA HubCalls ==
    ASSUME IInv, IInv', StormInv, [Next]_vars, NEW n \in Nodes, Hub(n), BroadcastRoundOne(n)
    PROVE  HubCalling(n)'
<1>0. Shapes /\ HubOK(n) /\ ~Panicked(n)
  BY HubFacts DEF IInv, TypeOK, StormInv
<1>1. /\ main[n].pc = "round_one" /\ main[n].peer \in Nodes
      /\ main'[n].pc = "broadcast" /\ main'[n].peer = main[n].peer
      /\ calls' = [calls EXCEPT ![n] = Append(@, MainCall(n))] /\ MainCall(n) \in CallsOfEcho
      /\ UNCHANGED <<loop, members, outbox, got, echo, waiters>>
  BY <1>0, RoundOneEffect DEF Panicked
<1>2. HubSilent(n)
  BY <1>0, <1>1 DEF HubOK, HubPhase, HubCalling, HubSending, HubWaiting, HubAnswering
<1>3. calls'[n] = Append(calls[n], MainCall(n))
  BY <1>0, <1>1, CallEffect
<1>4. Mine(n)' = Mine(n) /\ MainCall(n)' = MainCall(n)
  BY <1>1 DEF Mine, MainCall, Package
<1>5. calls'[n] = <<MainCall(n)'>>
  <2>1. calls[n] = <<>>
    BY <1>2 DEF HubSilent
  <2>2. \A c : Append(<<>>, c) = <<c>>
    OBVIOUS
  <2> QED
    BY <1>3, <1>4, <2>1, <2>2
<1>6. main[n].pc \in Introducing /\ main[n].peer \notin Greeted(n)
  BY <1>1 DEF Introducing, Greeted
<1>7. MineWaiting(n)' = {}
  <2>1. \A w \in waiters[n] : w[1] # <<n, main[n].peer>>
    <3>1. \A w \in waiters[n] : \E p \in Greeted(n) : w[1] = <<n, p>>
      BY <1>0, <1>1 DEF HubOK, HubWaiters
    <3> QED
      BY <1>6, <3>1
  <2> QED
    BY <1>1, <2>1 DEF MineWaiting, WaitersFor
<1>8. Released(n)'
  BY <1>1, <1>2, <1>6 DEF Released, HubSilent
<1>9. ASSUME NEW q \in Nodes PROVE NoneOf(Said(n, q), {Mine(n)})'
  <2>1. Mine(n) \notin Spoke(n, q)
    <3>1. \A m \in Spoke(n, q) : \E p \in Greeted(n) : m = Package(n, p)
      BY <1>0, <1>1 DEF HubOK, HubSpoke
    <3>2. \A p \in Greeted(n) : p \in Nodes
      BY DEF Greeted, Linked
    <3> QED
      BY <1>1, <1>6, <3>1, <3>2, Packages DEF Mine
  <2>2. NoneOf(Said(n, q), {Mine(n)})
    BY <1>1, <2>1, SpokeNone, Packages DEF Mine
  <2>3. Said(n, q)' = Said(n, q)
    BY <1>0, <1>1, SaidKept
  <2> QED
    BY <1>4, <2>2, <2>3 DEF NoneOf
<1> QED
  BY <1>1, <1>2, <1>5, <1>7, <1>8, <1>9 DEF HubCalling, HubSilent

LEMMA HubTakesCall ==
    ASSUME IInv, IInv', StormInv, [Next]_vars, NEW n \in Nodes, Hub(n), TakeCall(n)
    PROVE  HubSending(n)' \/ HubAnswering(n)'
<1>0. Shapes /\ HubOK(n)
  BY DEF IInv, TypeOK, StormInv
<1>1. /\ echo[n].pc = "recv" /\ calls[n] # <<>> /\ calls[n] \in Seq(CallsOfEcho)
      /\ echo'[n] = EchoSending(calls[n][1], calls[n][1].members, NoNode)
      /\ calls'[n] = Tail(calls[n])
      /\ UNCHANGED <<main, loop, members, outbox, got, waiters>>
  BY TakeCallEffect
<1>2. echo'[n].pc = "sending" /\ echo'[n].call = calls[n][1]
  BY <1>1 DEF EchoSending
<1>3. /\ Mine(n)' = Mine(n) /\ MainCall(n)' = MainCall(n) /\ MainWaiter(n)' = MainWaiter(n)
      /\ MineWaiting(n)' = MineWaiting(n) /\ Released(n)' = Released(n)
  BY <1>1 DEF Mine, MainCall, MainWaiter, MineWaiting, WaitersFor, Released, Package
<1>4. \A q \in Nodes : Said(n, q)' = Said(n, q)
  BY <1>0, <1>1, SaidKept
<1>5. CASE HubCalling(n)
  <2>1. calls[n] = <<MainCall(n)>>
    BY <1>5 DEF HubCalling
  <2>2. Len(calls[n]) = 1 /\ calls[n][1] = MainCall(n)
    BY <2>1
  <2>3. calls'[n] = <<>>
    BY <1>1, <2>2, LastTaken
  <2>4. PeerBehind(n)'
    BY <1>3, <1>5, <2>3 DEF PeerBehind, HubCalling
  <2>5. \A q \in Nodes : NoneOf(Said(n, q), {Mine(n)})' /\ OneOf(Said(n, q), {Mine(n)})'
    BY <1>3, <1>4, <1>5 DEF HubCalling, NoneOf, OneOf
  <2> QED
    BY <1>1, <1>2, <1>3, <1>5, <2>2, <2>4, <2>5 DEF HubCalling, HubSending
<1>6. CASE HubWaiting(n)
  <2>1. Len(calls[n]) = 1 /\ PeersCall(n, calls[n][1]) /\ ~Released(n)
    BY <1>1, <1>6 DEF HubWaiting, PeerBehind
  <2>2. calls'[n] = <<>>
    BY <1>1, <2>1, LastTaken
  <2>3. PeersCall(n, echo[n].call)'
    BY <1>1, <1>2, <1>3, <2>1 DEF PeersCall
  <2>4. \A q \in Nodes : OneOf(Said(n, q), {Mine(n)})'
    BY <1>3, <1>4, <1>6 DEF HubWaiting, OneOf
  <2> QED
    BY <1>1, <1>2, <1>3, <1>6, <2>1, <2>2, <2>3, <2>4 DEF HubWaiting, HubAnswering
<1> QED
  BY <1>0, <1>1, <1>5, <1>6 DEF HubOK, HubPhase, HubSilent, HubSending, HubAnswering

LEMMA HubFinishStep ==
    ASSUME IInv, IInv', StormInv, [Next]_vars, NEW n \in Nodes, Hub(n), FinishSend(n)
    PROVE  HubWaiting(n)' \/ HubSilent(n)'
<1>0. Shapes /\ HubOK(n)
  BY DEF IInv, TypeOK, StormInv
<1>1. CASE HubSending(n)
  <2>1. /\ main'[n] = main[n] /\ \A q \in Nodes : loop'[n][q] = loop[n][q]
        /\ echo'[n].pc = "recv" /\ calls'[n] = calls[n]
        /\ waiters'[n] = waiters[n] \cup {MainWaiter(n)}
    BY <1>0, <1>1, HubSent
  <2>2. main[n].pc = "broadcast" /\ main[n].peer \in Nodes
    BY <1>1, HubFacts DEF HubSending, Introducing
  <2>3. /\ Mine(n)' = Mine(n) /\ MainWaiter(n)' = MainWaiter(n)
        /\ Released(n)' = Released(n) /\ PeerBehind(n)' = PeerBehind(n)
    BY <2>1, <2>2 DEF Mine, MainWaiter, Released, PeerBehind, PeersCall, Package
  <2>4. MineWaiting(n)' = {MainWaiter(n)}
    BY <1>1, <2>1 DEF HubSending, MineWaiting, WaitersFor, MainWaiter
  <2>5. ASSUME NEW q \in Nodes PROVE OneOf(Said(n, q), {Mine(n)})'
    <3>1. ~SendToMember(n, q)
      BY NotBoth
    <3>2. {Mine(n)} \in SUBSET Broadcasts
      BY <2>2, Packages DEF Mine
    <3>3. OneOf(Said(n, q), {Mine(n)})
      BY <1>1 DEF HubSending
    <3>4. OneOf(Said(n, q)', {Mine(n)})
      BY <3>1, <3>2, <3>3, StaysSilent DEF OneOf
    <3> QED
      BY <2>3, <3>4 DEF OneOf
  <2> QED
    BY <1>1, <2>1, <2>2, <2>3, <2>4, <2>5 DEF HubSending, HubWaiting
<1>2. CASE HubAnswering(n)
  <2>1. main'[n].pc = "send_membership" /\ echo'[n].pc = "recv" /\ calls'[n] = <<>>
    BY <1>0, <1>2, HubAnswered
  <2> QED
    BY <2>1 DEF HubSilent, Introducing
<1> QED
  BY <1>0, <1>1, <1>2, HubFinishes

LEMMA HubRebroadcasts ==
    ASSUME IInv, IInv', StormInv, [Next]_vars, NEW n \in Nodes, Hub(n), NEW q \in Nodes,
           Rebroadcast(n, q)
    PROVE  HubSending(n)' \/ HubWaiting(n)'
<1>0. Shapes /\ HubOK(n) /\ ~Panicked(n)
  BY HubFacts DEF IInv, TypeOK, StormInv
<1>1. /\ loop[n][q].pc = "rebroadcast"
      /\ UNCHANGED <<main, members, outbox, got, echo, waiters>>
  BY RebroadcastEffect
<1>2. /\ main[n].pc = "broadcast" /\ q = main[n].peer /\ loop[n][q].msg = Mine(n)
      /\ Mine(n) \in Spoke(n, q) /\ Mine(n) \in Broadcasts
  BY <1>1, ComesBack
<1>3. Released(n)
  BY <1>1, <1>2 DEF Released
<1>4. ~HubCalling(n)
  <2>1. ~NoneOf(Said(n, q), {Mine(n)})
    BY <1>2, SpokeNone
  <2> QED
    BY <2>1 DEF HubCalling
<1>5. HubSending(n) \/ HubWaiting(n)
  BY <1>0, <1>2, <1>3, <1>4 DEF HubOK, HubPhase, HubSilent, HubAnswering
<1>6. calls[n] = <<>>
  BY <1>3, <1>5 DEF HubSending, HubWaiting, PeerBehind
<1> DEFINE c == LoopCall(n, q)
<1>7. /\ loop' = [loop EXCEPT ![n][q] = AwaitingBroadcast]
      /\ calls' = [calls EXCEPT ![n] = Append(@, c)]
  BY <1>0 DEF Rebroadcast, LoopCall, Panicked
<1>8. c \in CallsOfEcho /\ c.msg = loop[n][q].msg /\ c.by = q
  BY RebroadcastEffect DEF LoopCall
<1> HIDE DEF c
<1>9. calls'[n] = Append(calls[n], c) /\ calls[n] \in Seq(CallsOfEcho)
  BY <1>0, <1>7, <1>8, CallEffect
<1>10. Len(calls'[n]) = 1 /\ calls'[n][1] = c
  BY <1>6, <1>8, <1>9
<1>11. loop'[n][q].pc = "broadcast"
  BY <1>0, <1>7, LoopEffect, StateTypes
<1>12. /\ Mine(n)' = Mine(n) /\ MainCall(n)' = MainCall(n) /\ MainWaiter(n)' = MainWaiter(n)
       /\ MineWaiting(n)' = MineWaiting(n)
  BY <1>1 DEF Mine, MainCall, MainWaiter, MineWaiting, WaitersFor, Package
<1>13. PeerBehind(n)'
  <2>1. ~Released(n)'
    BY <1>1, <1>2, <1>11 DEF Released
  <2>2. PeersCall(n, calls[n][1])'
    BY <1>1, <1>2, <1>8, <1>10, <1>12 DEF PeersCall
  <2> QED
    BY <1>10, <2>1, <2>2 DEF PeerBehind
<1>14. \A x \in Nodes : Said(n, x)' = Said(n, x)
  BY <1>0, <1>1, SaidKept
<1>15. \A x \in Nodes :
          /\ NoneOf(Said(n, x), {Mine(n)}) => NoneOf(Said(n, x), {Mine(n)})'
          /\ OneOf(Said(n, x), {Mine(n)}) => OneOf(Said(n, x), {Mine(n)})'
  BY <1>12, <1>14 DEF NoneOf, OneOf
<1>16. CASE HubSending(n)
  BY <1>1, <1>12, <1>13, <1>15, <1>16 DEF HubSending
<1>17. CASE HubWaiting(n)
  BY <1>1, <1>12, <1>13, <1>15, <1>17 DEF HubWaiting
<1> QED
  BY <1>5, <1>16, <1>17

(* A step that neither makes a call, takes one nor ends one, while the     *)
(* package of the joiner is broadcast.                                     *)
LEMMA HubHolds ==
    ASSUME IInv, IInv', StormInv, [Next]_vars, NEW n \in Nodes, Hub(n), ~CallMoves(n),
           main[n].pc = "broadcast"
    PROVE  /\ main'[n] = main[n] /\ Mine(n)' = Mine(n) /\ MainCall(n)' = MainCall(n)
           /\ MainWaiter(n)' = MainWaiter(n) /\ MineWaiting(n)' = MineWaiting(n)
           /\ calls'[n] = calls[n] /\ Released(n)' = Released(n)
           /\ PeerBehind(n)' = PeerBehind(n)
<1>1. ~FinishSend(n) /\ \A q \in Nodes : ~Rebroadcast(n, q)
  BY DEF CallMoves
<1>2. /\ main'[n] = main[n] /\ Mine(n)' = Mine(n) /\ MainCall(n)' = MainCall(n)
      /\ MainWaiter(n)' = MainWaiter(n)
  BY <1>1, BroadcastHolds
<1>3. calls'[n] = calls[n] /\ waiters'[n] = waiters[n]
  BY CallMovesOrRests DEF CallRests
<1>4. MineWaiting(n)' = MineWaiting(n)
  BY <1>2, <1>3 DEF MineWaiting, WaitersFor
<1>5. main[n].peer \in Nodes
  BY HubFacts DEF Introducing
<1>6. Released(n)' = Released(n)
  BY <1>1, <1>2, <1>5, HubLoopKept, LoopCalls DEF Released
<1>7. PeerBehind(n)' = PeerBehind(n)
  BY <1>2, <1>3, <1>6 DEF PeerBehind, PeersCall
<1> QED
  BY <1>2, <1>3, <1>4, <1>6, <1>7

(* What the echo broadcast actor still has to send was to be sent before.  *)
LEMMA HubStillLeft ==
    ASSUME IInv, StormInv, [Next]_vars, NEW n \in Nodes, Hub(n), ~CallMoves(n),
           echo[n].pc = "sending", NEW q \in Nodes, q \in echo'[n].left, echo'[n].to # q
    PROVE  q \in echo[n].left /\ echo[n].to # q /\ ~SendToMember(n, q)
<1>0. NoNode \notin Nodes /\ HubOK(n)
  BY SeedsAssumption DEF StormInv
<1>1. ~SendToMember(n, q)
  BY <1>0, HubSends
<1>2. ASSUME NEW x \in Nodes, SendToMember(n, x)
      PROVE  q \in echo[n].left /\ echo[n].to # q
  BY <1>0, <1>2, HubSends
<1>3. ASSUME NEW x \in Nodes, Ack(n, x), Woken(n, x) = Echo
      PROVE  q \in echo[n].left /\ echo[n].to # q
  <2>1. /\ echo'[n] = EchoSending(echo[n].call, echo[n].left \ {x}, NoNode)
        /\ echo[n].to = x
    BY <1>3, AckEchoEffect
  <2>2. echo'[n].left = echo[n].left \ {x}
    BY <2>1 DEF EchoSending
  <2> QED
    BY <2>1, <2>2
<1>4. \/ echo'[n] = echo[n] \/ (\E x \in Nodes : SendToMember(n, x))
      \/ \E x \in Nodes : Ack(n, x) /\ Woken(n, x) = Echo
  BY EchoOf DEF CallMoves
<1> QED
  BY <1>1, <1>2, <1>3, <1>4

LEMMA HubRests ==
    ASSUME IInv, IInv', StormInv, [Next]_vars, NEW n \in Nodes, Hub(n), ~CallMoves(n)
    PROVE  HubPhase(n)'
<1>0. HubOK(n) /\ NoNode \notin Nodes
  BY SeedsAssumption DEF StormInv
<1>1. /\ calls'[n] = calls[n]
      /\ \/ echo'[n] = echo[n]
         \/ /\ echo[n].pc = "sending" /\ echo'[n].pc = "sending"
            /\ echo'[n].call = echo[n].call
  BY CallMovesOrRests DEF CallRests
<1>2. CASE main[n].pc # "broadcast"
  <2>1. HubSilent(n) /\ HubMoves(n)
    BY <1>0, <1>2, HubMovesStep
       DEF HubOK, HubPhase, HubCalling, HubSending, HubWaiting, HubAnswering
  <2>2. ASSUME NEW p \in Nodes, Connect(p, n) PROVE HubSilent(n)'
    <3>1. main'[n].pc = "add_member" /\ main'[n].peer = p /\ loop'[n][p] = Receiving
      BY <2>2, ConnectEffect
    <3>2. Released(n)'
      BY <3>1, StateTypes DEF Released
    <3> QED
      BY <1>1, <2>1, <3>1, <3>2 DEF HubSilent
  <2>3. CASE \A p \in Nodes : ~Connect(p, n)
    <3>1. main'[n].pc # "broadcast"
      BY <1>2, <2>1, <2>3 DEF HubMoves, CallMoves, Introducing
    <3>2. main'[n].pc \in Introducing =>
             main[n].pc \in Introducing /\ main'[n].peer = main[n].peer
      BY <1>2, <2>1, <2>3 DEF HubMoves, Introducing
    <3>3. main'[n].pc \in Introducing => Released(n)'
      <4>1. \A q \in Nodes : ~Rebroadcast(n, q)
        BY DEF CallMoves
      <4>2. main[n].pc \in Introducing => Released(n) /\ main[n].peer \in Nodes
        BY <2>1, HubFacts DEF HubSilent
      <4> QED
        BY <3>2, <4>1, <4>2, LoopCalls DEF Released
    <3> QED
      BY <1>1, <2>1, <3>1, <3>3 DEF HubSilent, HubPhase
  <2> QED
    BY <2>2, <2>3 DEF HubPhase
<1>3. CASE main[n].pc = "broadcast"
  <2>1. /\ main'[n] = main[n] /\ Mine(n)' = Mine(n) /\ MainCall(n)' = MainCall(n)
        /\ MainWaiter(n)' = MainWaiter(n) /\ MineWaiting(n)' = MineWaiting(n)
        /\ Released(n)' = Released(n) /\ PeerBehind(n)' = PeerBehind(n)
    BY <1>3, HubHolds
  <2>2. {Mine(n)} \in SUBSET Broadcasts
    BY <1>3, HubFacts, Packages DEF Mine, Introducing
  <2>3. ASSUME NEW q \in Nodes, ~SendToMember(n, q)
        PROVE  /\ NoneOf(Said(n, q), {Mine(n)}) => NoneOf(Said(n, q), {Mine(n)})'
               /\ OneOf(Said(n, q), {Mine(n)}) => OneOf(Said(n, q), {Mine(n)})'
    <3>1. /\ NoneOf(Said(n, q), {Mine(n)}) => NoneOf(Said(n, q)', {Mine(n)})
          /\ OneOf(Said(n, q), {Mine(n)}) => OneOf(Said(n, q)', {Mine(n)})
      BY <2>2, <2>3, StaysSilent DEF NoneOf, OneOf
    <3> QED
      BY <2>1, <3>1 DEF NoneOf, OneOf
  <2>4. ASSUME NEW q \in Nodes, SendToMember(n, q), NoneOf(Said(n, q), {Mine(n)})
        PROVE  OneOf(Said(n, q), {Mine(n)})'
    <3>1. OneOf(Said(n, q)', {Mine(n)})
      BY <2>4, SpeaksUp DEF OneOf
    <3> QED
      BY <2>1, <3>1 DEF OneOf
  <2>5. echo[n].pc # "sending" => echo'[n] = echo[n] /\ \A q \in Nodes : ~SendToMember(n, q)
    BY <1>1 DEF SendToMember
  <2>6. CASE HubCalling(n)
    BY <1>1, <2>1, <2>3, <2>5, <2>6 DEF HubCalling, HubPhase
  <2>7. CASE HubWaiting(n)
    BY <1>1, <2>1, <2>3, <2>5, <2>7 DEF HubWaiting, HubPhase
  <2>8. CASE HubSending(n)
    <3>1. echo[n].pc = "sending" /\ echo'[n].pc = "sending" /\ echo'[n].call = echo[n].call
      BY <1>1, <2>8 DEF HubSending
    <3>2. ASSUME NEW q \in Nodes, q \in echo'[n].left, echo'[n].to # q
          PROVE  NoneOf(Said(n, q), {Mine(n)})'
      <4>1. q \in echo[n].left /\ echo[n].to # q /\ ~SendToMember(n, q)
        BY <3>1, <3>2, HubStillLeft
      <4> QED
        BY <2>3, <2>8, <4>1 DEF HubSending
    <3>3. ASSUME NEW q \in Nodes PROVE OneOf(Said(n, q), {Mine(n)})'
      <4>1. CASE SendToMember(n, q)
        <5>1. q \in echo[n].left /\ echo[n].to # q
          BY <1>0, <4>1, HubSends
        <5> QED
          BY <2>4, <2>8, <4>1, <5>1 DEF HubSending
      <4>2. CASE ~SendToMember(n, q)
        BY <2>3, <2>8, <4>2 DEF HubSending
      <4> QED
        BY <4>1, <4>2
    <3> QED
      BY <2>1, <2>8, <3>1, <3>2, <3>3 DEF HubSending, HubPhase
  <2>9. CASE HubAnswering(n)
    <3>1. echo[n].pc = "sending" /\ echo'[n].pc = "sending" /\ echo'[n].call = echo[n].call
      BY <1>1, <2>9 DEF HubAnswering
    <3>2. ASSUME NEW q \in Nodes, q \in echo'[n].left, echo'[n].to # q
          PROVE  OneOf(Said(n, q), {Mine(n)})'
      <4>1. q \in echo[n].left /\ echo[n].to # q /\ ~SendToMember(n, q)
        BY <3>1, <3>2, HubStillLeft
      <4> QED
        BY <2>3, <2>9, <4>1 DEF HubAnswering
    <3>3. PeersCall(n, echo[n].call)'
      BY <2>1, <2>9, <3>1 DEF HubAnswering, PeersCall
    <3> QED
      BY <1>1, <2>1, <2>9, <3>1, <3>2, <3>3 DEF HubAnswering, HubPhase
  <2> QED
    BY <1>0, <1>3, <2>6, <2>7, <2>8, <2>9 DEF HubOK, HubPhase, HubSilent
<1> QED
  BY <1>2, <1>3

LEMMA HubPhaseStep ==
    ASSUME IInv, IInv', StormInv, [Next]_vars, NEW n \in Nodes, Hub(n)
    PROVE  HubPhase(n)'
<1>1. ~FinishSendPanics(n)
  BY HubNoPanic
<1>2. CASE CallMoves(n)
  BY <1>1, <1>2, HubCalls, HubTakesCall, HubFinishStep, HubRebroadcasts
     DEF CallMoves, HubPhase
<1> QED
  BY <1>2, HubRests

-----------------------------------------------------------------------------
(* The invariant.                                                          *)

LEMMA StormStep == IInv /\ IInv' /\ StormInv /\ [Next]_vars => StormInv'
<1> SUFFICES ASSUME IInv, IInv', StormInv, [Next]_vars PROVE StormInv'
  OBVIOUS
<1>1. HeardInv' /\ LeafInv'
  BY HeardStep, LeafStep DEF StormInv
<1>2. ASSUME NEW n \in Nodes, Hub(n) PROVE HubOK(n)'
  BY <1>2, HubPhaseStep, HubLoopsStep, HubWaitersStep, HubSpokeStep, HubTwiceStep
     DEF HubOK
<1>3. \A n \in Nodes : Hub(n)' <=> Hub(n)
  BY DEF Hub, Joins
<1> QED
  BY <1>1, <1>2, <1>3 DEF StormInv

LEMMA InitStorm == Init => StormInv
<1> SUFFICES ASSUME Init PROVE StormInv
  OBVIOUS
<1>0. IInv /\ Shapes
  BY InitIInv DEF IInv, TypeOK
<1>1. ASSUME NEW n \in Nodes
      PROVE  /\ calls[n] = <<>> /\ echo[n].pc = "recv" /\ waiters[n] = {}
             /\ main[n] = AfterSeeds(n, 1)
  BY StateTypes DEF Init
<1>2. ASSUME NEW n \in Nodes, NEW p \in Nodes
      PROVE  /\ loop[n][p].pc = "none" /\ outbox[n][p] = <<>> /\ acks[n][p] = <<>>
             /\ inbox[n][p] = <<>> /\ got[n][p] = <<>>
  BY StateTypes DEF Init
<1>3. ASSUME NEW n \in Nodes, NEW p \in Nodes PROVE DOMAIN Said(n, p) = {}
  <2>1. Len(got[p][n]) = 0 /\ Len(outbox[n][p]) = 0
    BY <1>2
  <2>2. DOMAIN Said(n, p) = 1..(Len(got[p][n]) + Len(outbox[n][p]))
    BY <1>0, SaidType
  <2> QED
    BY <2>1, <2>2
<1>4. \A n \in Nodes : Linked(n) = {}
  BY <1>2 DEF Linked
<1>5. \A n, p \in Nodes : LoopOK(n, p)
  <2>1. \A n, p \in Nodes : DOMAIN outbox[n][p] = {} /\ DOMAIN acks[n][p] = {}
    BY <1>2
  <2> QED
    BY <2>1 DEF LoopOK, WaitsOnce, Waits, InOutbox, InAcks
<1>6. HeardInv
  <2>1. \A n, p \in Nodes : DOMAIN inbox[n][p] = {}
    BY <1>2
  <2> QED
    BY <1>2, <2>1 DEF HeardInv
<1>7. \A n, p \in Nodes : Spoke(n, p) = {}
  BY <1>3 DEF Spoke
<1>8. LeafInv
  <2> SUFFICES ASSUME NEW p \in Nodes, NEW s \in Nodes
               PROVE  /\ LoopOK(p, s) /\ LeafJoins(p, s) /\ LeafRepeats(p, s)
                      /\ LeafPhase(p, s)
    BY DEF LeafInv
  <2>1. LeafJoins(p, s)
    <3>1. main[p].next = 1
      BY <1>1, AfterSeedsType
    <3> QED
      BY <1>4, <3>1 DEF LeafJoins
  <2>2. LeafRepeats(p, s)
    BY <1>7 DEF LeafRepeats
  <2>3. LeafIdle(p, s)
    BY <1>1, <1>2, <1>3 DEF LeafIdle, NoneOf
  <2> QED
    BY <1>5, <2>1, <2>2, <2>3 DEF LeafPhase
<1>9. ASSUME NEW n \in Nodes, Hub(n) PROVE HubOK(n)
  <2>1. main[n].pc = "accept"
    <3>1. 1 > Len(Seeds[n])
      BY <1>9 DEF Hub
    <3>2. AfterSeeds(n, 1).pc = "accept"
      BY <3>1 DEF AfterSeeds, At
    <3> QED
      BY <1>1, <3>2
  <2>2. HubSilent(n)
    BY <1>1, <2>1 DEF HubSilent, Introducing
  <2>3. HubLoops(n)
    BY <1>4, <1>5 DEF HubLoops, Greeted
  <2>4. HubWaiters(n) /\ HubSpoke(n)
    BY <1>1, <1>7 DEF HubWaiters, HubSpoke
  <2>5. HubTwice(n)
    BY <1>3 DEF HubTwice, TwoOf
  <2> QED
    BY <2>2, <2>3, <2>4, <2>5 DEF HubOK, HubPhase
<1> QED
  BY <1>6, <1>8, <1>9 DEF StormInv

-----------------------------------------------------------------------------
(* Counting.                                                               *)

LEMMA AtMostOne ==
    ASSUME NEW S, \A i, j \in S : i = j
    PROVE  Cardinality(S) \in {0, 1}
<1>1. CASE S = {}
  BY <1>1, FS_EmptySet
<1>2. CASE S # {}
  <2>1. PICK a \in S : S = {a}
    BY <1>2
  <2>2. Cardinality({a}) = 1
    BY FS_Singleton
  <2> QED
    BY <2>1, <2>2
<1> QED
  BY <1>1, <1>2

LEMMA AtMostTwo ==
    ASSUME NEW S, \A i, j, k \in S : i = j \/ j = k \/ i = k
    PROVE  Cardinality(S) \in {0, 1, 2}
<1>1. CASE \A i, j \in S : i = j
  BY <1>1, AtMostOne
<1>2. CASE \E i, j \in S : i # j
  <2>1. PICK a \in S, b \in S : a # b
    BY <1>2
  <2>2. S = {a} \cup {b}
    BY <2>1
  <2>3. IsFiniteSet({a}) /\ Cardinality({a}) = 1
    BY FS_Singleton
  <2>4. Cardinality({a} \cup {b}) = Cardinality({a}) + 1
    BY <2>1, <2>3, FS_AddElement
  <2> QED
    BY <2>2, <2>3, <2>4
<1> QED
  BY <1>1, <1>2

(* What has arrived has been said, in the same order.                      *)
LEMMA GotIsSaid ==
    ASSUME Shapes, NEW n \in Nodes, NEW p \in Nodes, NEW i \in DOMAIN got[p][n]
    PROVE  /\ i \in DOMAIN Said(n, p) /\ Said(n, p)[i] = got[p][n][i]
           /\ got[p][n][i] \in Messages
<1>1. /\ got[p][n] \in Seq(Messages)
      /\ Len(got[p][n]) \in Nat /\ Len(outbox[n][p]) \in Nat
      /\ DOMAIN Said(n, p) = 1..(Len(got[p][n]) + Len(outbox[n][p]))
      /\ \A k \in 1..Len(got[p][n]) : Said(n, p)[k] = got[p][n][k]
  BY SaidType
<1>2. i \in 1..Len(got[p][n]) /\ got[p][n][i] \in Messages
  BY <1>1
<1>3. \A G, B \in Nat : \A k \in 1..G : k \in 1..(G + B)
  OBVIOUS
<1> QED
  BY <1>1, <1>2, <1>3

LEMMA StormCount == IInv /\ StormInv => NoEchoStorm
<1> SUFFICES ASSUME IInv, StormInv, NEW n \in Nodes, Hub(n), NEW p \in Nodes
             PROVE  /\ \A q, r \in Nodes : Cardinality(CopiesOf(p, n, <<q, r>>)) <= 2
                    /\ Cardinality(PackagesFrom(n, p)) <= 1
  BY DEF NoEchoStorm
<1>0. Shapes /\ HubOK(n)
  BY DEF IInv, TypeOK, StormInv
<1>1. ASSUME NEW q \in Nodes, NEW r \in Nodes
      PROVE  Cardinality(CopiesOf(p, n, <<q, r>>)) <= 2
  <2>1. RoundOne(<<q, r>>, q) \in Broadcasts
    BY MessageKinds
  <2>2. TwoOf(Said(n, p), {RoundOne(<<q, r>>, q)})
    BY <1>0, <2>1 DEF HubOK, HubTwice
  <2>3. \A m \in Broadcasts : m.mid = <<q, r>> => m = RoundOne(<<q, r>>, q)
    BY DEF Broadcasts, RoundOne
  <2>4. ASSUME NEW i \in CopiesOf(p, n, <<q, r>>)
        PROVE  i \in DOMAIN Said(n, p) /\ Said(n, p)[i] = RoundOne(<<q, r>>, q)
    <3>1. i \in DOMAIN got[p][n] /\ IsBroadcast(got[p][n][i]) /\ got[p][n][i].mid = <<q, r>>
      BY DEF CopiesOf, PackagesFrom
    <3>2. /\ i \in DOMAIN Said(n, p) /\ Said(n, p)[i] = got[p][n][i]
          /\ got[p][n][i] \in Messages
      BY <1>0, <3>1, GotIsSaid
    <3>3. got[p][n][i] \in Broadcasts
      BY <3>1, <3>2, MessageKinds
    <3> QED
      BY <2>3, <3>1, <3>2, <3>3
  <2>5. \A i, j, k \in CopiesOf(p, n, <<q, r>>) : i = j \/ j = k \/ i = k
    BY <2>2, <2>4 DEF TwoOf
  <2>6. Cardinality(CopiesOf(p, n, <<q, r>>)) \in {0, 1, 2}
    BY <2>5, AtMostTwo
  <2> QED
    BY <2>6
<1>2. Cardinality(PackagesFrom(n, p)) <= 1
  <2>1. CASE p \notin Linked(n)
    <3>1. got[n][p] = <<>>
      BY <2>1 DEF StormInv, HeardInv
    <3>2. PackagesFrom(n, p) = {}
      BY <3>1 DEF PackagesFrom
    <3> QED
      BY <3>2, FS_EmptySet
  <2>2. CASE p \in Linked(n)
    <3>1. Leaf(p, n)
      BY <2>2, HubFacts
    <3>2. OneOf(Said(p, n), Broadcasts)
      BY <3>1, ListWeakens DEF StormInv, LeafInv, LeafPhase, LeafIdle, LeafCalling,
         LeafSending, LeafWaiting
    <3>3. ASSUME NEW i \in PackagesFrom(n, p)
          PROVE  i \in DOMAIN Said(p, n) /\ Said(p, n)[i] \in Broadcasts
      <4>1. i \in DOMAIN got[n][p] /\ IsBroadcast(got[n][p][i])
        BY DEF PackagesFrom
      <4> QED
        BY <1>0, <4>1, GotIsSaid, MessageKinds
    <3>4. \A i, j \in PackagesFrom(n, p) : i = j
      BY <3>2, <3>3 DEF OneOf
    <3>5. Cardinality(PackagesFrom(n, p)) \in {0, 1}
      BY <3>4, AtMostOne
    <3> QED
      BY <3>5
  <2> QED
    BY <2>1, <2>2
<1> QED
  BY <1>1, <1>2

(* The inductive invariant of a hub and its joiners, on top of IInv: what  *)
(* each has said to the other, and where the calls of a package are.       *)
THEOREM StormInvariance == Spec => [](IInv /\ StormInv)
<1>1. Init => StormInv
  BY InitStorm
<1>2. IInv /\ IInv' /\ StormInv /\ [Next]_vars => StormInv'
  BY StormStep
<1> QED
  BY <1>1, <1>2, Invariance, PTL DEF Spec

(* Every node that gets a package sends it to all its members, the one it  *)
(* came from included, and nothing marks it as seen (node.rs:363-391,      *)
(* EchoBroadcastHandle::send).  Between a hub and its joiners, however     *)
(* many there are and wherever timeouts fire, this does not become a storm:*)
(* the hub sends no node a package more than twice, and a joiner passes on *)
(* at most one package of all it is sent.                                  *)
THEOREM FewCopies == Spec => []NoEchoStorm
<1>1. IInv /\ StormInv => NoEchoStorm
  BY StormCount
<1> QED
  BY <1>1, StormInvariance, PTL

(* The price of it: the event loop of a hub that has called                *)
(* EchoBroadcastHandle::send (node.rs:377-379) never comes back, and a     *)
(* joiner whose introduction is over has such an event loop.  Whatever it  *)
(* sends from then on is not read.                                         *)
HubLoopHeld ==
    \A n, p \in Nodes : Hub(n) /\ loop[n][p].pc = "broadcast" => loop'[n][p] = loop[n][p]
GreetedUnheard ==
    \A n \in Nodes : Hub(n) => \A p \in Greeted(n) : loop[n][p].pc = "broadcast"

THEOREM HubLoopsNeverReturn == Spec => [][HubLoopHeld]_vars /\ []GreetedUnheard
<1>1. IInv /\ IInv' /\ StormInv /\ [Next]_vars => [HubLoopHeld]_vars
  BY HubLoopKept DEF HubLoopHeld
<1>2. StormInv => GreetedUnheard
  BY DEF StormInv, HubOK, HubLoops, GreetedUnheard
<1> QED
  BY <1>1, <1>2, StormInvariance, PTL DEF Spec
=============================================================================
