----------------------------- MODULE NodeProofs -----------------------------
(* Theorems about Node for every set of nodes, whoever joins whom and      *)
(* wherever timeouts fire.                                                 *)
EXTENDS Node, TLAPS

-----------------------------------------------------------------------------
(* Inductive invariants.  Everybody deals only with peers it has a link to,*)
(* and a link has two ends.                                                *)
LinksInv ==
    \A n \in Nodes :
        /\ \A i \in DOMAIN calls[n] : /\ calls[n][i].members \subseteq Linked(n)
                                      /\ calls[n][i].by \in Linked(n) \cup {Main}
        /\ echo[n].pc = "sending" => /\ echo[n].call.by \in Linked(n) \cup {Main}
                                     /\ echo[n].left \subseteq Linked(n)
        /\ \A w \in waiters[n] : w[2] \in Linked(n) \cup {Main}
        /\ \A p \in Nodes : /\ p \in Linked(n) <=> n \in Linked(p)
                            /\ loop[n][p].members \subseteq Linked(n)
                            /\ outbox[n][p] # <<>> \/ acks[n][p] # <<>> => p \in Linked(n)

(* A task waits for at most one ack of a link, and is where it waits.      *)
InOutbox(n, p, by) == {i \in DOMAIN outbox[n][p] : outbox[n][p][i].by = by}
InAcks(n, p, by) == {i \in DOMAIN acks[n][p] : acks[n][p][i] = by}
Waits(n, p, by) == InOutbox(n, p, by) # {} \/ InAcks(n, p, by) # {}
WaitsOnce(n, p, by) ==
    /\ \A i, j \in InOutbox(n, p, by) : i = j
    /\ \A i, j \in InAcks(n, p, by) : i = j
    /\ InOutbox(n, p, by) = {} \/ InAcks(n, p, by) = {}

SendsInv ==
    \A n, p \in Nodes :
        /\ WaitsOnce(n, p, Main) /\ WaitsOnce(n, p, Echo)
        /\ Waits(n, p, Main) =>
             main[n].pc \in {"handshake", "membership"} /\ main[n].peer = p
        /\ Waits(n, p, Echo) => echo[n].pc = "sending" /\ echo[n].to = p
        /\ \A i \in InOutbox(n, p, Echo) : outbox[n][p][i].msg = echo[n].call.msg
        /\ InAcks(n, p, Echo) # {} => Contains(got[p][n], echo[n].call.msg)

(* What the echo broadcast actor has sent of a call has arrived.           *)
EchoInv ==
    \A n \in Nodes : echo[n].pc = "sending" =>
        /\ echo[n].to \in echo[n].left \cup {NoNode}
        /\ \A p \in echo[n].call.members \ echo[n].left :
             Contains(got[p][n], echo[n].call.msg)
        /\ echo[n].left # echo[n].call.members => echo[n].call.msg.mid \in tracked[n]

(* While the main task waits for its broadcast, the call is in one place;  *)
(* anywhere else, there is none.                                           *)
MainCall(n) == [msg |-> RoundOne(<<n, main[n].peer>>, n), members |-> members[n],
                by |-> Main]
MainCalls(n) == {i \in DOMAIN calls[n] : calls[n][i].by = Main}
MainSending(n) == echo[n].pc = "sending" /\ echo[n].call.by = Main
MainWaiters(n) == {w \in waiters[n] : w[2] = Main}
Reached(n) == \A p \in members[n] :
                 Contains(got[p][n], RoundOne(<<n, main[n].peer>>, n))
BroadcastInv ==
    \A n \in Nodes :
        /\ MainCalls(n) # {} \/ MainSending(n) \/ MainWaiters(n) # {}
             => main[n].pc = "broadcast"
        /\ \A i, j \in MainCalls(n) : i = j
        /\ \A i \in MainCalls(n) : calls[n][i] = MainCall(n)
        /\ MainSending(n) => echo[n].call = MainCall(n) /\ MainCalls(n) = {}
        /\ MainWaiters(n) # {} => /\ MainCalls(n) = {} /\ ~MainSending(n)
                                  /\ MainWaiters(n) = {<< <<n, main[n].peer>>, Main>>}
                                  /\ Reached(n)

(* A helo is behind the main task that has sent it, and before every       *)
(* membership.                                                             *)
Helo == Handshake("helo")
HeloSent(n, p) == \E i \in DOMAIN outbox[n][p] : outbox[n][p][i].msg = Helo
HeloInv ==
    \A n, p \in Nodes :
        /\ /\ main[n].peer = p
           /\ main[n].pc \in {"handshake", "round_one", "broadcast",
                              "send_membership", "membership"}
           => Contains(got[p][n], Helo) \/ HeloSent(n, p)
        /\ \A i \in DOMAIN outbox[n][p] :
             outbox[n][p][i].msg.kind = "membership" =>
                \/ Contains(got[p][n], Helo)
                \/ \E j \in 1..i : outbox[n][p][j].msg = Helo

(* All is quiet around a hub that has no member yet, and a hub never calls *)
(* its echo broadcast actor without members.                               *)
Quiet(n) ==
    /\ main[n].pc \in {"accept", "add_member"}
    /\ calls[n] = <<>> /\ echo[n].pc = "recv"
    /\ \A p \in Nodes : loop[n][p].pc \in {"none", "recv"}
    /\ \A p \in Nodes : outbox[n][p] = <<>> /\ inbox[n][p] = <<>>
    /\ \A p \in Nodes : Joins(p, n) =>
         /\ main[p].pc \in {"connect", "add_seed", "accept", "stopped"}
         /\ calls[p] = <<>> /\ echo[p].pc = "recv"
         /\ loop[p][n].pc \in {"none", "recv"}
         /\ outbox[p][n] = <<>> /\ inbox[p][n] = <<>>
HubInv ==
    \A n \in Nodes : Hub(n) =>
        /\ members[n] = {} => Quiet(n)
        /\ \A p \in Nodes : loop[n][p].pc = "rebroadcast" => loop[n][p].members # {}
        /\ \A i \in DOMAIN calls[n] : calls[n][i].members # {}
        /\ echo[n].pc = "sending" => echo[n].call.members # {}
        /\ ~Panicked(n)

(* Only a seed and its joiners have a link.                                *)
JoinsInv ==
    \A n \in Nodes :
        /\ main[n].pc \in {"connect", "add_seed"} => Joins(n, main[n].peer)
        /\ main[n].pc \notin {"connect", "add_seed", "accept", "stopped"}
             => Joins(main[n].peer, n)
        /\ \A p \in Linked(n) : Joins(n, p) \/ Joins(p, n)

IInv ==
    /\ TypeOK /\ LinksInv /\ SendsInv /\ EchoInv /\ BroadcastInv
    /\ BroadcastReachedMembers /\ HeloInv /\ HeloBeforeMembership
    /\ JoinsInv /\ HubInv

-----------------------------------------------------------------------------
Outs == [msg : Messages, by : Tasks]

(* Sequences, and functions changed at one place.                          *)
LEMMA AppendType ==
    ASSUME NEW S, NEW s \in Seq(S), NEW x \in S
    PROVE  /\ Append(s, x) \in Seq(S) /\ Append(s, x) # <<>>
           /\ Len(Append(s, x)) = Len(s) + 1
           /\ DOMAIN s = 1..Len(s) /\ DOMAIN Append(s, x) = 1..Len(s) + 1
           /\ \A i \in 1..Len(s) : Append(s, x)[i] = s[i]
           /\ Append(s, x)[Len(s) + 1] = x
           /\ Len(s) \in Nat
  OBVIOUS

LEMMA TailType ==
    ASSUME NEW S, NEW s \in Seq(S), s # <<>>
    PROVE  /\ Head(s) \in S /\ Head(s) = s[1]
           /\ Tail(s) \in Seq(S)
           /\ Len(s) \in Nat \ {0} /\ Len(Tail(s)) = Len(s) - 1
           /\ DOMAIN s = 1..Len(s) /\ DOMAIN Tail(s) = 1..Len(s) - 1
           /\ \A i \in 1..Len(s) - 1 : Tail(s)[i] = s[i + 1]
  OBVIOUS

LEMMA Update1 ==
    ASSUME NEW S, NEW T, NEW f \in [S -> T], NEW n \in S, NEW v \in T
    PROVE  /\ [f EXCEPT ![n] = v] \in [S -> T]
           /\ [f EXCEPT ![n] = v][n] = v
           /\ \A m \in S : m # n => [f EXCEPT ![n] = v][m] = f[m]
  OBVIOUS

LEMMA Update2 ==
    ASSUME NEW S, NEW T, NEW f \in [S -> [S -> T]], NEW n \in S, NEW p \in S,
           NEW v \in T
    PROVE  /\ [f EXCEPT ![n][p] = v] \in [S -> [S -> T]]
           /\ [f EXCEPT ![n][p] = v][n][p] = v
           /\ \A m, q \in S : m # n \/ q # p => [f EXCEPT ![n][p] = v][m][q] = f[m][q]
  OBVIOUS

LEMMA ContainsGrows ==
    ASSUME NEW S, NEW s \in Seq(S), NEW x \in S
    PROVE  /\ Contains(Append(s, x), x)
           /\ \A y : Contains(s, y) => Contains(Append(s, x), y)
  BY AppendType DEF Contains

(* The messages, and how an event loop answers them.                       *)
LEMMA MessageKinds ==
    /\ Broadcasts \subseteq Messages
    /\ Handshake("helo") \in Messages /\ Handshake("oleh") \in Messages
    /\ \A m \in SUBSET Nodes : Membership(SomeMembers(m)) \in Messages
    /\ \A m \in Messages : IsBroadcast(m) <=> m \in Broadcasts
    /\ \A m \in Broadcasts : m.mid \in Nodes \X Nodes /\ m.kind = "round_one"
    /\ \A n, p \in Nodes : RoundOne(<<n, p>>, n) \in Broadcasts
    /\ Handshake("helo").kind # "membership" /\ Handshake("oleh").kind # "membership"
    /\ \A m \in Broadcasts : m.kind # "membership"
  BY DEF Messages, Broadcasts, Handshake, Membership, RoundOne, IsBroadcast

LEMMA Answers ==
    ASSUME NEW m \in Messages, ~IsBroadcast(m), NEW n \in Nodes, NEW S
    PROVE  Response(m, n, S, NoMid) \in {NoMessage, Handshake("oleh")}
<1>1. CASE m = Handshake("helo") \/ m = Handshake("oleh")
  <2>1. m.kind = "handshake" /\ m.text \in {"helo", "oleh"}
    BY <1>1 DEF Handshake
  <2> QED
    BY <2>1 DEF Response, HandshakeReply
<1>2. ASSUME NEW x \in SUBSET Nodes, m = Membership(SomeMembers(x))
      PROVE  Response(m, n, S, NoMid) = NoMessage
  <2>1. m.kind = "membership" /\ m.members # NoMembers
    BY <1>2 DEF Membership, SomeMembers, NoMembers
  <2> QED
    BY <2>1 DEF Response, MembershipReply
<1> QED
  BY <1>1, <1>2, MessageKinds DEF Messages

LEMMA FirstMessages ==
    /\ HandshakeReply(Handshake("")) = Handshake("helo")
    /\ \A S : MembershipReply(Membership(NoMembers), S) = Membership(SomeMembers(S))
    /\ \A n, p : RoundOneReply(RoundOne(NoMid, n), <<n, p>>) = RoundOne(<<n, p>>, n)
  BY DEF HandshakeReply, Handshake, MembershipReply, Membership, RoundOneReply, RoundOne

(* The states the tasks are put into.                                      *)
LEMMA StateTypes ==
    /\ Receiving \in LoopStates /\ NotStarted \in LoopStates
    /\ AwaitingBroadcast \in LoopStates /\ LoopAt("unicast", NoMessage, {}) \in LoopStates
    /\ Receiving.pc = "recv" /\ Receiving.members = {}
    /\ NotStarted.pc = "none" /\ NotStarted.members = {}
    /\ AwaitingBroadcast.pc = "broadcast" /\ AwaitingBroadcast.members = {}
    /\ EchoIdle \in EchoStates /\ EchoPanicked \in EchoStates
    /\ EchoIdle.pc = "recv" /\ EchoPanicked.pc = "panicked"
  BY DEF Receiving, NotStarted, AwaitingBroadcast, LoopAt, LoopStates, PcsOfLoop,
         EchoIdle, EchoPanicked, EchoStates

LEMMA AfterSeedsType ==
    ASSUME NEW n \in Nodes, NEW k \in Nat \ {0}
    PROVE  /\ AfterSeeds(n, k) \in MainStates
           /\ AfterSeeds(n, k).next = k
           /\ \/ AfterSeeds(n, k).pc = "accept"
              \/ /\ AfterSeeds(n, k).pc = "connect" /\ AfterSeeds(n, k).peer \in Nodes
                 /\ Joins(n, AfterSeeds(n, k).peer)
  BY SeedsAssumption DEF AfterSeeds, At, MainStates, PcsOfMain, Joins, Contains

-----------------------------------------------------------------------------
(* The shapes of the variables.                                            *)

LEMMA PeerLinked ==
    ASSUME TypeOK, NEW n \in Nodes,
           main[n].pc \notin {"connect", "accept", "stopped"}
    PROVE  main[n].peer \in Nodes /\ main[n].peer \in Linked(n)
  BY DEF TypeOK, Linked

(* A reliable send appends to one outbox.                                  *)
LEMMA SendEffect ==
    ASSUME Shapes, NEW n \in Nodes, NEW p \in Nodes, NEW msg \in Messages,
           NEW by \in Tasks, SendReliably(n, p, msg, by)
    PROVE  /\ outbox' \in [Nodes -> [Nodes -> Seq(Outs)]]
           /\ outbox'[n][p] = Append(outbox[n][p], [msg |-> msg, by |-> by])
           /\ \A m, q \in Nodes : m # n \/ q # p => outbox'[m][q] = outbox[m][q]
           /\ outbox[n][p] \in Seq(Outs) /\ [msg |-> msg, by |-> by] \in Outs
<1>1. outbox \in [Nodes -> [Nodes -> Seq(Outs)]] /\ outbox[n][p] \in Seq(Outs)
  BY DEF Shapes, Outs
<1>2. [msg |-> msg, by |-> by] \in Outs
  BY DEF Outs
<1>3. Append(outbox[n][p], [msg |-> msg, by |-> by]) \in Seq(Outs)
  BY <1>1, <1>2, AppendType
<1>4. outbox' = [outbox EXCEPT ![n][p] =
                   Append(outbox[n][p], [msg |-> msg, by |-> by])]
  BY <1>1 DEF SendReliably
<1> QED
  BY <1>1, <1>2, <1>3, <1>4, Update2

LEMMA SendFrame ==
    ASSUME Shapes, NEW n \in Nodes, NEW p \in Nodes, NEW msg, NEW by,
           SendReliably(n, p, msg, by)
    PROVE  \A m, q \in Nodes : m # n \/ q # p => outbox'[m][q] = outbox[m][q]
<1>1. outbox \in [Nodes -> [Nodes -> Seq(Outs)]]
  BY DEF Shapes, Outs
<1> DEFINE v == Append(outbox[n][p], [msg |-> msg, by |-> by])
<1>2. outbox' = [outbox EXCEPT ![n][p] = v]
  BY <1>1 DEF SendReliably
<1> HIDE DEF v
<1> QED
  BY ONLY <1>1, <1>2, n \in Nodes, p \in Nodes

(* Whoever gets an Err from the echo broadcast actor: the main task only   *)
(* while it waits, and event loops that are there.                         *)
LEMMA ErrEffect ==
    ASSUME IInv, NEW n \in Nodes, FinishSend(n) \/ FinishSendPanics(n)
    PROVE  \E S : /\ ReturnErr(n, S)
                  /\ S \subseteq Linked(n) \cup {Main}
                  /\ Main \in S => main[n].pc = "broadcast"
<1> DEFINE c == echo[n].call
<1>0. echo[n].pc = "sending"
  BY DEF FinishSend, FinishSendPanics
<1>1. /\ c.by \in Linked(n) \cup {Main}
      /\ c.by = Main => main[n].pc = "broadcast"
  BY <1>0 DEF IInv, LinksInv, BroadcastInv, MainSending
<1>2. \A w \in waiters[n] : /\ w[2] \in Linked(n) \cup {Main}
                            /\ w[2] = Main => main[n].pc = "broadcast"
  BY DEF IInv, LinksInv, BroadcastInv, MainWaiters
<1>3. \A i \in DOMAIN calls[n] : /\ calls[n][i].by \in Linked(n) \cup {Main}
                                 /\ calls[n][i].by = Main => main[n].pc = "broadcast"
  BY DEF IInv, LinksInv, BroadcastInv, MainCalls
<1>4. CASE FinishSend(n)
  <2> DEFINE S == {w[2] : w \in WaitersFor(n, c.msg.mid)}
  <2>1. ReturnErr(n, S)
    BY <1>4 DEF FinishSend
  <2>2. \A x \in S : x \in Linked(n) \cup {Main} /\ (x = Main => main[n].pc = "broadcast")
    BY <1>2 DEF WaitersFor
  <2> QED
    BY <2>1, <2>2
<1>5. CASE FinishSendPanics(n)
  <2> DEFINE S == {c.by} \cup {w[2] : w \in waiters[n]}
                    \cup {calls[n][i].by : i \in DOMAIN calls[n]}
  <2>1. ReturnErr(n, S)
    BY <1>5 DEF FinishSendPanics
  <2>2. \A x \in S : x \in Linked(n) \cup {Main} /\ (x = Main => main[n].pc = "broadcast")
    BY <1>1, <1>2, <1>3
  <2> QED
    BY <2>1, <2>2
<1> QED
  BY <1>4, <1>5

LEMMA ReturnEffect ==
    ASSUME Shapes, NEW n \in Nodes, NEW S, ReturnErr(n, S),
           S \subseteq Linked(n) \cup {Main}
    PROVE  /\ loop' \in [Nodes -> [Nodes -> LoopStates]]
           /\ \A m, q \in Nodes : \/ loop'[m][q] = loop[m][q]
                                  \/ m = n /\ q \in Linked(n) /\ loop'[m][q] = Receiving
           /\ main' \in [Nodes -> MainStates]
           /\ \A m \in Nodes : /\ main'[m].peer = main[m].peer
                               /\ \/ main'[m] = main[m] /\ (m = n => Main \notin S)
                                  \/ m = n /\ Main \in S /\ main'[m].pc = "send_membership"
<1>0. Main \notin Nodes
  BY SeedsAssumption DEF Main
<1>1. main' \in [Nodes -> MainStates]
  <2>1. main \in [Nodes -> MainStates]
    BY DEF Shapes
  <2>2. main' = main \/ main' = [main EXCEPT ![n].pc = "send_membership"]
    BY DEF ReturnErr
  <2> QED
    BY ONLY <2>1, <2>2, n \in Nodes DEF MainStates, PcsOfMain
<1>2. \A m \in Nodes : /\ main'[m].peer = main[m].peer
                       /\ \/ main'[m] = main[m] /\ (m = n => Main \notin S)
                          \/ m = n /\ Main \in S /\ main'[m].pc = "send_membership"
  <2>1. main \in [Nodes -> MainStates]
    BY DEF Shapes
  <2>2. \/ Main \notin S /\ main' = main
        \/ Main \in S /\ main' = [main EXCEPT ![n].pc = "send_membership"]
    BY DEF ReturnErr
  <2> QED
    BY ONLY <2>1, <2>2, n \in Nodes DEF MainStates
<1> DEFINE row == [p \in Nodes |-> IF p \in S THEN Receiving ELSE loop[n][p]]
<1>3. loop \in [Nodes -> [Nodes -> LoopStates]] /\ loop' = [loop EXCEPT ![n] = row]
  BY DEF Shapes, ReturnErr
<1>4. row \in [Nodes -> LoopStates]
  BY <1>3, StateTypes
<1>5. \A q \in Nodes : row[q] = IF q \in S THEN Receiving ELSE loop[n][q]
  OBVIOUS
<1> HIDE DEF row
<1>6. loop' \in [Nodes -> [Nodes -> LoopStates]]
  BY <1>3, <1>4
<1>7. \A m \in Nodes : loop'[m] = IF m = n THEN row ELSE loop[m]
  BY <1>3
<1>8. \A m, q \in Nodes : \/ loop'[m][q] = loop[m][q]
                          \/ m = n /\ q \in Linked(n) /\ loop'[m][q] = Receiving
  BY <1>0, <1>5, <1>7
<1> QED
  BY <1>1, <1>2, <1>6, <1>8

(* What a timeout leaves behind: the same messages and acks, nobody of that*)
(* name waiting for them.                                                  *)
LEMMA ForgetEffect ==
    ASSUME Shapes, NEW n \in Nodes, NEW p \in Nodes, NEW by \in Tasks, Forget(n, p, by)
    PROVE  /\ outbox' \in [Nodes -> [Nodes -> Seq(Outs)]]
           /\ acks' \in [Nodes -> [Nodes -> Seq(Tasks)]]
           /\ \A m, q \in Nodes : m # n \/ q # p => /\ outbox'[m][q] = outbox[m][q]
                                                    /\ acks'[m][q] = acks[m][q]
           /\ DOMAIN outbox'[n][p] = DOMAIN outbox[n][p]
           /\ outbox'[n][p] = <<>> <=> outbox[n][p] = <<>>
           /\ \A i \in DOMAIN outbox[n][p] :
                /\ outbox'[n][p][i].msg = outbox[n][p][i].msg
                /\ outbox'[n][p][i].by = IF outbox[n][p][i].by = by THEN Gone
                                         ELSE outbox[n][p][i].by
           /\ DOMAIN acks'[n][p] = DOMAIN acks[n][p]
           /\ acks'[n][p] = <<>> <=> acks[n][p] = <<>>
           /\ \A i \in DOMAIN acks[n][p] :
                acks'[n][p][i] = IF acks[n][p][i] = by THEN Gone ELSE acks[n][p][i]
<1> DEFINE s == outbox[n][p]
           a == acks[n][p]
           t == GoneFromOutbox(s, by)
           b == GoneFromAcks(a, by)
<1>1. /\ outbox \in [Nodes -> [Nodes -> Seq(Outs)]] /\ s \in Seq(Outs)
      /\ acks \in [Nodes -> [Nodes -> Seq(Tasks)]] /\ a \in Seq(Tasks)
  BY DEF Shapes, Outs
<1>2. outbox' = [outbox EXCEPT ![n][p] = t] /\ acks' = [acks EXCEPT ![n][p] = b]
  BY <1>1 DEF Forget
<1> HIDE DEF s, a
<1>3. /\ t \in Seq(Outs) /\ DOMAIN t = DOMAIN s /\ (t = <<>> <=> s = <<>>)
      /\ \A i \in DOMAIN s : /\ t[i].msg = s[i].msg
                             /\ t[i].by = IF s[i].by = by THEN Gone ELSE s[i].by
  <2>1. DOMAIN s = 1..Len(s) /\ Len(s) \in Nat
        /\ \A i \in DOMAIN s : s[i] \in Outs
    BY <1>1
  <2>2. \A i \in DOMAIN s : /\ t[i] \in Outs
                            /\ t[i].msg = s[i].msg
                            /\ t[i].by = IF s[i].by = by THEN Gone ELSE s[i].by
    BY <2>1 DEF GoneFromOutbox, Outs, Tasks
  <2>3. t = [i \in 1..Len(s) |-> t[i]]
    BY <2>1 DEF GoneFromOutbox
  <2>4. t \in Seq(Outs) /\ Len(t) = Len(s)
    BY <2>1, <2>2, <2>3
  <2>5. DOMAIN t = DOMAIN s
    BY <2>1 DEF GoneFromOutbox
  <2> QED
    BY <1>1, <2>2, <2>4, <2>5
<1>4. /\ b \in Seq(Tasks) /\ DOMAIN b = DOMAIN a /\ (b = <<>> <=> a = <<>>)
      /\ \A i \in DOMAIN a : b[i] = IF a[i] = by THEN Gone ELSE a[i]
  <2>1. DOMAIN a = 1..Len(a) /\ Len(a) \in Nat
        /\ \A i \in DOMAIN a : a[i] \in Tasks
    BY <1>1
  <2>2. \A i \in DOMAIN a : b[i] \in Tasks /\ b[i] = IF a[i] = by THEN Gone ELSE a[i]
    BY <2>1 DEF GoneFromAcks, Tasks
  <2>3. b = [i \in 1..Len(a) |-> b[i]]
    BY <2>1 DEF GoneFromAcks
  <2>4. b \in Seq(Tasks) /\ Len(b) = Len(a)
    BY <2>1, <2>2, <2>3
  <2>5. DOMAIN b = DOMAIN a
    BY <2>1 DEF GoneFromAcks
  <2> QED
    BY <1>1, <2>2, <2>4, <2>5
<1> HIDE DEF t, b
<1>5. /\ outbox' \in [Nodes -> [Nodes -> Seq(Outs)]]
      /\ acks' \in [Nodes -> [Nodes -> Seq(Tasks)]]
      /\ outbox'[n][p] = t /\ acks'[n][p] = b
      /\ \A m, q \in Nodes : m # n \/ q # p => /\ outbox'[m][q] = outbox[m][q]
                                               /\ acks'[m][q] = acks[m][q]
  <2>1. /\ outbox' \in [Nodes -> [Nodes -> Seq(Outs)]] /\ outbox'[n][p] = t
        /\ \A m, q \in Nodes : m # n \/ q # p => outbox'[m][q] = outbox[m][q]
    BY <1>1, <1>2, <1>3, Update2
  <2>2. /\ acks' \in [Nodes -> [Nodes -> Seq(Tasks)]] /\ acks'[n][p] = b
        /\ \A m, q \in Nodes : m # n \/ q # p => acks'[m][q] = acks[m][q]
    BY <1>1, <1>2, <1>4, Update2
  <2> QED
    BY <2>1, <2>2
<1> QED
  BY <1>3, <1>4, <1>5 DEF s, a

(* The next message of a link arrives.                                     *)
First(n, p) == Head(outbox[n][p])

LEMMA TransferEffect ==
    ASSUME Shapes, NEW n \in Nodes, NEW p \in Nodes, Transfer(n, p)
    PROVE  /\ outbox[n][p] # <<>> /\ outbox[n][p] \in Seq(Outs)
           /\ First(n, p) = outbox[n][p][1] /\ 1 \in DOMAIN outbox[n][p]
           /\ First(n, p).msg \in Messages /\ First(n, p).by \in Tasks
           /\ outbox' \in [Nodes -> [Nodes -> Seq(Outs)]]
           /\ outbox'[n][p] = Tail(outbox[n][p])
           /\ acks' \in [Nodes -> [Nodes -> Seq(Tasks)]]
           /\ acks'[n][p] = Append(acks[n][p], First(n, p).by)
           /\ acks[n][p] \in Seq(Tasks)
           /\ \A m, q \in Nodes : m # n \/ q # p => /\ outbox'[m][q] = outbox[m][q]
                                                    /\ acks'[m][q] = acks[m][q]
           /\ UNCHANGED <<main, loop, members, calls, echo, tracked, waiters>>
<1> DEFINE o == First(n, p)
<1>1. /\ outbox \in [Nodes -> [Nodes -> Seq(Outs)]] /\ acks \in [Nodes -> [Nodes -> Seq(Tasks)]]
      /\ outbox[n][p] \in Seq(Outs) /\ acks[n][p] \in Seq(Tasks)
  BY DEF Shapes, Outs
<1>2. outbox[n][p] # <<>>
  BY DEF Transfer
<1>3. /\ o \in Outs /\ Tail(outbox[n][p]) \in Seq(Outs)
      /\ o = outbox[n][p][1] /\ 1 \in DOMAIN outbox[n][p]
  BY <1>1, <1>2, TailType DEF First
<1>4. o.msg \in Messages /\ o.by \in Tasks
  BY <1>3 DEF Outs
<1>5. /\ outbox' = [outbox EXCEPT ![n][p] = Tail(outbox[n][p])]
      /\ acks' = [acks EXCEPT ![n][p] = Append(acks[n][p], o.by)]
      /\ UNCHANGED <<main, loop, members, calls, echo, tracked, waiters>>
  BY <1>1 DEF Transfer, First, echoVars
<1> HIDE DEF o
<1>6. /\ outbox' \in [Nodes -> [Nodes -> Seq(Outs)]]
      /\ outbox'[n][p] = Tail(outbox[n][p])
      /\ \A m, q \in Nodes : m # n \/ q # p => outbox'[m][q] = outbox[m][q]
  <2>1. outbox' = [outbox EXCEPT ![n][p] = Tail(outbox[n][p])]
    BY <1>5
  <2> QED
    BY ONLY <1>1, <1>3, <2>1, n \in Nodes, p \in Nodes, Update2
<1>7. /\ acks' \in [Nodes -> [Nodes -> Seq(Tasks)]]
      /\ acks'[n][p] = Append(acks[n][p], o.by)
      /\ \A m, q \in Nodes : m # n \/ q # p => acks'[m][q] = acks[m][q]
  <2> DEFINE v == Append(acks[n][p], o.by)
  <2>1. /\ acks' = [acks EXCEPT ![n][p] = v] /\ v \in Seq(Tasks)
        /\ acks \in [Nodes -> [Nodes -> Seq(Tasks)]]
    BY <1>1, <1>4, <1>5, AppendType
  <2> HIDE DEF v
  <2>2. /\ acks' \in [Nodes -> [Nodes -> Seq(Tasks)]] /\ acks'[n][p] = v
        /\ \A m, q \in Nodes : m # n \/ q # p => acks'[m][q] = acks[m][q]
    BY ONLY <2>1, n \in Nodes, p \in Nodes, Update2
  <2> QED
    BY <2>2 DEF v
<1> QED
  BY <1>1, <1>2, <1>3, <1>4, <1>5, <1>6, <1>7 DEF o

LEMMA ArrivalEffect ==
    ASSUME Shapes, NEW n \in Nodes, NEW p \in Nodes, Transfer(n, p)
    PROVE  /\ inbox' \in [Nodes -> [Nodes -> Seq(Messages)]]
           /\ inbox'[p][n] = Append(inbox[p][n], First(n, p).msg)
           /\ got' \in [Nodes -> [Nodes -> Seq(Messages)]]
           /\ got'[p][n] = Append(got[p][n], First(n, p).msg)
           /\ got[p][n] \in Seq(Messages) /\ First(n, p).msg \in Messages
           /\ \A m, q \in Nodes : m # p \/ q # n => /\ inbox'[m][q] = inbox[m][q]
                                                    /\ got'[m][q] = got[m][q]
<1> DEFINE x == First(n, p).msg
<1>1. /\ inbox \in [Nodes -> [Nodes -> Seq(Messages)]] /\ inbox[p][n] \in Seq(Messages)
      /\ got \in [Nodes -> [Nodes -> Seq(Messages)]] /\ got[p][n] \in Seq(Messages)
  BY DEF Shapes
<1>2. x \in Messages
  BY TransferEffect
<1>3. /\ inbox' = [inbox EXCEPT ![p][n] = Append(inbox[p][n], x)]
      /\ got' = [got EXCEPT ![p][n] = Append(got[p][n], x)]
  BY <1>1 DEF Transfer, First
<1> HIDE DEF x
<1>4. /\ Append(inbox[p][n], x) \in Seq(Messages)
      /\ Append(got[p][n], x) \in Seq(Messages)
  BY <1>1, <1>2, AppendType
<1>5. /\ inbox' \in [Nodes -> [Nodes -> Seq(Messages)]]
      /\ inbox'[p][n] = Append(inbox[p][n], x)
      /\ \A m, q \in Nodes : m # p \/ q # n => inbox'[m][q] = inbox[m][q]
  BY ONLY <1>1, <1>3, <1>4, n \in Nodes, p \in Nodes, Update2
<1>6. /\ got' \in [Nodes -> [Nodes -> Seq(Messages)]]
      /\ got'[p][n] = Append(got[p][n], x)
      /\ \A m, q \in Nodes : m # p \/ q # n => got'[m][q] = got[m][q]
  BY ONLY <1>1, <1>3, <1>4, n \in Nodes, p \in Nodes, Update2
<1> QED
  BY <1>1, <1>2, <1>5, <1>6 DEF x

(* An ack arrives and wakes one task.                                      *)
Woken(n, p) == Head(acks[n][p])

LEMMA AckEffect ==
    ASSUME IInv, NEW n \in Nodes, NEW p \in Nodes, Ack(n, p)
    PROVE  /\ Woken(n, p) \in Tasks /\ Woken(n, p) = acks[n][p][1]
           /\ 1 \in DOMAIN acks[n][p]
           /\ acks[n][p] # <<>> /\ acks[n][p] \in Seq(Tasks)
           /\ acks' \in [Nodes -> [Nodes -> Seq(Tasks)]]
           /\ acks'[n][p] = Tail(acks[n][p])
           /\ \A m, q \in Nodes : m # n \/ q # p => acks'[m][q] = acks[m][q]
           /\ UNCHANGED <<members, outbox, inbox, got, calls, waiters>>
<1>1. acks \in [Nodes -> [Nodes -> Seq(Tasks)]]
  BY DEF IInv, TypeOK, Shapes
<1>2. acks[n][p] \in Seq(Tasks) /\ acks[n][p] # <<>>
  BY <1>1 DEF Ack
<1>3. /\ Woken(n, p) \in Tasks /\ Woken(n, p) = acks[n][p][1] /\ 1 \in DOMAIN acks[n][p]
      /\ Tail(acks[n][p]) \in Seq(Tasks)
  BY <1>2, TailType DEF Woken
<1>4. /\ acks' \in [Nodes -> [Nodes -> Seq(Tasks)]]
      /\ acks'[n][p] = Tail(acks[n][p])
      /\ \A m, q \in Nodes : m # n \/ q # p => acks'[m][q] = acks[m][q]
  <2>1. acks' = [acks EXCEPT ![n][p] = Tail(acks[n][p])]
    BY <1>1 DEF Ack
  <2> QED
    BY <1>1, <1>3, <2>1, Update2
<1>5. UNCHANGED <<members, outbox, inbox, got, calls, waiters>>
  BY DEF Ack
<1> QED
  BY <1>2, <1>3, <1>4, <1>5

LEMMA AckMainEffect ==
    ASSUME IInv, NEW n \in Nodes, NEW p \in Nodes, Ack(n, p)
    PROVE  /\ main' \in [Nodes -> MainStates]
           /\ Woken(n, p) = Main => main'[n] = AfterSend(main[n])
           /\ \A m \in Nodes : m # n \/ Woken(n, p) # Main => main'[m] = main[m]
<1>1. main \in [Nodes -> MainStates] /\ main[n] \in MainStates
  BY DEF IInv, TypeOK, Shapes
<1> DEFINE a == AfterSend(main[n])
<1>2. a \in MainStates
  BY <1>1 DEF AfterSend, At, MainStates, PcsOfMain
<1>3. main' = IF Woken(n, p) = Main THEN [main EXCEPT ![n] = a] ELSE main
  BY <1>1 DEF Ack, Woken
<1> HIDE DEF a
<1>4. /\ main' \in [Nodes -> MainStates]
      /\ Woken(n, p) = Main => main'[n] = a
      /\ \A m \in Nodes : m # n \/ Woken(n, p) # Main => main'[m] = main[m]
  BY ONLY <1>1, <1>2, <1>3, n \in Nodes, Update1
<1> QED
  BY <1>4 DEF a

LEMMA AckLoopEffect ==
    ASSUME IInv, NEW n \in Nodes, NEW p \in Nodes, Ack(n, p)
    PROVE  /\ loop' \in [Nodes -> [Nodes -> LoopStates]]
           /\ Woken(n, p) = Loop => loop'[n][p] = Receiving
           /\ \A m, q \in Nodes : m # n \/ q # p \/ Woken(n, p) # Loop
                                   => loop'[m][q] = loop[m][q]
<1>1. loop \in [Nodes -> [Nodes -> LoopStates]] /\ Receiving \in LoopStates
  BY StateTypes DEF IInv, TypeOK, Shapes
<1>2. loop' = IF Woken(n, p) = Loop THEN [loop EXCEPT ![n][p] = Receiving] ELSE loop
  BY DEF Ack, Woken
<1> QED
  BY ONLY <1>1, <1>2, n \in Nodes, p \in Nodes, Update2

LEMMA AckEchoEffect ==
    ASSUME IInv, NEW n \in Nodes, NEW p \in Nodes, Ack(n, p)
    PROVE  /\ echo' \in [Nodes -> EchoStates]
           /\ Woken(n, p) = Echo =>
                /\ echo[n].pc = "sending" /\ echo[n].to = p
                /\ Contains(got[p][n], echo[n].call.msg)
                /\ echo'[n] = EchoSending(echo[n].call, echo[n].left \ {p}, NoNode)
                /\ tracked'[n] = tracked[n] \cup {echo[n].call.msg.mid}
           /\ \A m \in Nodes : m # n \/ Woken(n, p) # Echo =>
                /\ echo'[m] = echo[m] /\ tracked'[m] = tracked[m]
           /\ tracked' \in [Nodes -> SUBSET (Nodes \X Nodes)]
<1> DEFINE e == EchoSending(echo[n].call, echo[n].left \ {p}, NoNode)
           t == tracked[n] \cup {echo[n].call.msg.mid}
<1>1. /\ echo \in [Nodes -> EchoStates] /\ tracked \in [Nodes -> SUBSET (Nodes \X Nodes)]
      /\ echo[n] \in EchoStates /\ tracked[n] \in SUBSET (Nodes \X Nodes)
  BY DEF IInv, TypeOK, Shapes
<1>2. IF Woken(n, p) = Echo
        THEN echo' = [echo EXCEPT ![n] = e] /\ tracked' = [tracked EXCEPT ![n] = t]
        ELSE UNCHANGED <<echo, tracked>>
  BY <1>1 DEF Ack, Woken
<1>3. Woken(n, p) = Echo => /\ echo[n].pc = "sending" /\ echo[n].to = p
                            /\ Contains(got[p][n], echo[n].call.msg)
  <2>1. Woken(n, p) = acks[n][p][1] /\ 1 \in DOMAIN acks[n][p]
    BY AckEffect
  <2>2. Woken(n, p) = Echo => 1 \in InAcks(n, p, Echo)
    BY <2>1 DEF InAcks
  <2>3. /\ Waits(n, p, Echo) => echo[n].pc = "sending" /\ echo[n].to = p
        /\ InAcks(n, p, Echo) # {} => Contains(got[p][n], echo[n].call.msg)
    BY DEF IInv, SendsInv
  <2> QED
    BY <2>2, <2>3 DEF Waits
<1>4. Woken(n, p) = Echo => e \in EchoStates /\ t \in SUBSET (Nodes \X Nodes)
  <2> HAVE Woken(n, p) = Echo
  <2>1. echo[n].call \in CallsOfEcho
    BY <1>3 DEF IInv, TypeOK
  <2>2. echo[n].call.msg.mid \in Nodes \X Nodes
    BY <2>1, MessageKinds DEF CallsOfEcho
  <2> QED
    BY <1>1, <2>1, <2>2 DEF EchoSending, EchoStates
<1> HIDE DEF e, t
<1>5. /\ echo' \in [Nodes -> EchoStates] /\ (Woken(n, p) = Echo => echo'[n] = e)
      /\ \A m \in Nodes : m # n \/ Woken(n, p) # Echo => echo'[m] = echo[m]
  BY ONLY <1>1, <1>2, <1>4, n \in Nodes, Update1
<1>6. /\ tracked' \in [Nodes -> SUBSET (Nodes \X Nodes)]
      /\ Woken(n, p) = Echo => tracked'[n] = t
      /\ \A m \in Nodes : m # n \/ Woken(n, p) # Echo => tracked'[m] = tracked[m]
  BY ONLY <1>1, <1>2, <1>4, n \in Nodes, Update1
<1> QED
  BY <1>3, <1>5, <1>6 DEF e, t

(* The main task moves on with the same peer.                              *)
LEMMA PcEffect ==
    ASSUME Shapes, NEW n \in Nodes, NEW pc \in PcsOfMain,
           main' = [main EXCEPT ![n].pc = pc]
    PROVE  /\ main' \in [Nodes -> MainStates]
           /\ main'[n].pc = pc /\ main'[n].peer = main[n].peer
           /\ main'[n].next = main[n].next
           /\ \A m \in Nodes : m # n => main'[m] = main[m]
<1>1. main \in [Nodes -> MainStates]
  BY DEF Shapes
<1> QED
  BY ONLY <1>1, n \in Nodes, pc \in PcsOfMain, main' = [main EXCEPT ![n].pc = pc]
     DEF MainStates

(* A task calls the echo broadcast actor.                                  *)
LEMMA CallEffect ==
    ASSUME Shapes, NEW n \in Nodes, NEW c \in CallsOfEcho,
           calls' = [calls EXCEPT ![n] = Append(@, c)]
    PROVE  /\ calls' \in [Nodes -> Seq(CallsOfEcho)]
           /\ calls'[n] = Append(calls[n], c) /\ calls[n] \in Seq(CallsOfEcho)
           /\ \A m \in Nodes : m # n => calls'[m] = calls[m]
<1>1. calls \in [Nodes -> Seq(CallsOfEcho)] /\ calls[n] \in Seq(CallsOfEcho)
  BY DEF Shapes
<1> DEFINE v == Append(calls[n], c)
<1>2. v \in Seq(CallsOfEcho) /\ calls' = [calls EXCEPT ![n] = v]
  BY <1>1, AppendType
<1> HIDE DEF v
<1>3. /\ calls' \in [Nodes -> Seq(CallsOfEcho)] /\ calls'[n] = v
      /\ \A m \in Nodes : m # n => calls'[m] = calls[m]
  BY ONLY <1>1, <1>2, n \in Nodes, Update1
<1> QED
  BY <1>1, <1>3 DEF v

(* An event loop takes a message from its channel.                         *)
LEMMA InboxEffect ==
    ASSUME Shapes, NEW n \in Nodes, NEW p \in Nodes, inbox[n][p] # <<>>,
           inbox' = [inbox EXCEPT ![n][p] = Tail(@)]
    PROVE  /\ inbox' \in [Nodes -> [Nodes -> Seq(Messages)]]
           /\ Head(inbox[n][p]) \in Messages
           /\ inbox'[n][p] = Tail(inbox[n][p])
           /\ \A m, q \in Nodes : m # n \/ q # p => inbox'[m][q] = inbox[m][q]
<1>1. inbox \in [Nodes -> [Nodes -> Seq(Messages)]] /\ inbox[n][p] \in Seq(Messages)
  BY DEF Shapes
<1> DEFINE v == Tail(inbox[n][p])
<1>2. /\ v \in Seq(Messages) /\ inbox' = [inbox EXCEPT ![n][p] = v]
      /\ Head(inbox[n][p]) \in Messages
  BY <1>1, TailType
<1> HIDE DEF v
<1>3. /\ inbox' \in [Nodes -> [Nodes -> Seq(Messages)]] /\ inbox'[n][p] = v
      /\ \A m, q \in Nodes : m # n \/ q # p => inbox'[m][q] = inbox[m][q]
  BY ONLY <1>1, <1>2, n \in Nodes, p \in Nodes, Update2
<1> QED
  BY <1>2, <1>3 DEF v

(* An event loop goes to another state.                                    *)
LEMMA LoopEffect ==
    ASSUME Shapes, NEW n \in Nodes, NEW p \in Nodes, NEW l \in LoopStates,
           loop' = [loop EXCEPT ![n][p] = l]
    PROVE  /\ loop' \in [Nodes -> [Nodes -> LoopStates]]
           /\ loop'[n][p] = l
           /\ \A m, q \in Nodes : m # n \/ q # p => loop'[m][q] = loop[m][q]
<1>1. loop \in [Nodes -> [Nodes -> LoopStates]]
  BY DEF Shapes
<1> QED
  BY ONLY <1>1, n \in Nodes, p \in Nodes, l \in LoopStates,
          loop' = [loop EXCEPT ![n][p] = l], Update2

(* The echo broadcast actor goes to another state.                         *)
LEMMA EchoEffect ==
    ASSUME Shapes, NEW n \in Nodes, NEW e \in EchoStates,
           echo' = [echo EXCEPT ![n] = e]
    PROVE  /\ echo' \in [Nodes -> EchoStates]
           /\ echo'[n] = e
           /\ \A m \in Nodes : m # n => echo'[m] = echo[m]
<1>1. echo \in [Nodes -> EchoStates]
  BY DEF Shapes
<1> QED
  BY ONLY <1>1, n \in Nodes, e \in EchoStates, echo' = [echo EXCEPT ![n] = e], Update1

(* A node adds a peer.                                                     *)
LEMMA MembersEffect ==
    ASSUME Shapes, NEW n \in Nodes, NEW p \in Nodes,
           members' = [members EXCEPT ![n] = @ \cup {p}]
    PROVE  /\ members' \in [Nodes -> SUBSET Nodes]
           /\ members'[n] = members[n] \cup {p}
           /\ \A m \in Nodes : m # n => members'[m] = members[m]
  BY DEF Shapes

(* What each action of the main task does.                                 *)
LEMMA ConnectRefusedEffect ==
    ASSUME IInv, NEW n \in Nodes, ConnectRefused(n)
    PROVE  /\ main' \in [Nodes -> MainStates]
           /\ main[n].pc = "connect" /\ main'[n].pc = "stopped"
           /\ \A m \in Nodes : m # n => main'[m] = main[m]
           /\ UNCHANGED <<loop, members, outbox, acks, inbox, got, calls, echo,
                          tracked, waiters>>
<1>1. main \in [Nodes -> MainStates]
  BY DEF IInv, TypeOK, Shapes
<1>2. At("stopped", NoNode, main[n].next) \in MainStates
  BY <1>1 DEF At, MainStates, PcsOfMain
<1>3. main' = [main EXCEPT ![n] = At("stopped", NoNode, main[n].next)]
  BY <1>1 DEF ConnectRefused
<1>4. /\ main' \in [Nodes -> MainStates]
      /\ main'[n] = At("stopped", NoNode, main[n].next)
      /\ \A m \in Nodes : m # n => main'[m] = main[m]
  BY ONLY <1>1, <1>2, <1>3, n \in Nodes, Update1
<1> QED
  BY <1>4 DEF ConnectRefused, At, linkVars, echoVars

LEMMA ConnectEffect ==
    ASSUME IInv, NEW n \in Nodes, NEW s \in Nodes, Connect(n, s)
    PROVE  /\ main[n].pc = "connect" /\ main[n].peer = s /\ main[s].pc = "accept" /\ n # s
           /\ main' \in [Nodes -> MainStates]
           /\ main'[n].pc = "add_seed" /\ main'[n].peer = s
           /\ main'[s].pc = "add_member" /\ main'[s].peer = n
           /\ \A m \in Nodes : m # n /\ m # s => main'[m] = main[m]
           /\ loop' \in [Nodes -> [Nodes -> LoopStates]]
           /\ loop'[n][s] = Receiving /\ loop'[s][n] = Receiving
           /\ \A m, q \in Nodes : ~(m = n /\ q = s) /\ ~(m = s /\ q = n)
                                   => loop'[m][q] = loop[m][q]
           /\ UNCHANGED <<members, outbox, acks, inbox, got, calls, echo, tracked, waiters>>
<1>1. main \in [Nodes -> MainStates] /\ loop \in [Nodes -> [Nodes -> LoopStates]]
  BY DEF IInv, TypeOK, Shapes
<1>2. main[n].pc = "connect" /\ main[n].peer = s /\ main[s].pc = "accept" /\ n # s
  BY DEF Connect
<1>3. /\ At("add_seed", s, main[n].next) \in MainStates
      /\ At("add_member", n, main[s].next) \in MainStates
  BY <1>1 DEF At, MainStates, PcsOfMain
<1>4. main' = [main EXCEPT ![n] = At("add_seed", s, main[n].next),
                           ![s] = At("add_member", n, main[s].next)]
  BY <1>1, <1>2 DEF Connect
<1>5. /\ main' \in [Nodes -> MainStates]
      /\ main'[n] = At("add_seed", s, main[n].next)
      /\ main'[s] = At("add_member", n, main[s].next)
      /\ \A m \in Nodes : m # n /\ m # s => main'[m] = main[m]
  BY ONLY <1>1, <1>2, <1>3, <1>4, n \in Nodes, s \in Nodes
<1>6. loop' = [loop EXCEPT ![n][s] = Receiving, ![s][n] = Receiving]
  BY DEF Connect
<1>7. /\ loop' \in [Nodes -> [Nodes -> LoopStates]]
      /\ loop'[n][s] = Receiving /\ loop'[s][n] = Receiving
      /\ \A m, q \in Nodes : ~(m = n /\ q = s) /\ ~(m = s /\ q = n)
                              => loop'[m][q] = loop[m][q]
  <2>1. Receiving \in LoopStates
    BY StateTypes
  <2> QED
    BY ONLY <1>1, <1>2, <1>6, <2>1, n \in Nodes, s \in Nodes
<1> QED
  BY <1>2, <1>5, <1>7 DEF Connect, At, linkVars, echoVars

LEMMA AddSeedEffect ==
    ASSUME IInv, NEW n \in Nodes, AddSeed(n)
    PROVE  /\ main[n].pc = "add_seed"
           /\ main' \in [Nodes -> MainStates]
           /\ \/ main'[n].pc = "accept"
              \/ /\ main'[n].pc = "connect" /\ main'[n].peer \in Nodes
                 /\ Joins(n, main'[n].peer)
           /\ \A m \in Nodes : m # n => main'[m] = main[m]
           /\ members' \in [Nodes -> SUBSET Nodes]
           /\ members'[n] = members[n] \cup {main[n].peer}
           /\ \A m \in Nodes : m # n => members'[m] = members[m]
           /\ UNCHANGED <<loop, outbox, acks, inbox, got, calls, echo, tracked, waiters>>
<1>1. Shapes /\ TypeOK /\ main \in [Nodes -> MainStates] /\ main[n].next \in Nat
  BY DEF IInv, TypeOK, Shapes, MainStates
<1>2. main[n].pc = "add_seed" /\ main[n].peer \in Nodes
  BY <1>1, PeerLinked DEF AddSeed
<1> DEFINE a == AfterSeeds(n, main[n].next + 1)
<1>3. /\ a \in MainStates
      /\ \/ a.pc = "accept"
         \/ a.pc = "connect" /\ a.peer \in Nodes /\ Joins(n, a.peer)
  BY <1>1, AfterSeedsType
<1>4. main' = [main EXCEPT ![n] = a]
  BY <1>1 DEF AddSeed
<1> HIDE DEF a
<1>5. /\ main' \in [Nodes -> MainStates] /\ main'[n] = a
      /\ \A m \in Nodes : m # n => main'[m] = main[m]
  BY ONLY <1>1, <1>3, <1>4, n \in Nodes, Update1
<1>6. /\ members' \in [Nodes -> SUBSET Nodes]
      /\ members'[n] = members[n] \cup {main[n].peer}
      /\ \A m \in Nodes : m # n => members'[m] = members[m]
  BY <1>1, <1>2, MembersEffect DEF AddSeed
<1> QED
  BY <1>2, <1>3, <1>5, <1>6 DEF AddSeed, linkVars, echoVars

LEMMA AddMemberEffect ==
    ASSUME IInv, NEW n \in Nodes, AddMember(n)
    PROVE  /\ main[n].pc = "add_member"
           /\ main' \in [Nodes -> MainStates]
           /\ main'[n].pc = "send_helo" /\ main'[n].peer = main[n].peer
           /\ \A m \in Nodes : m # n => main'[m] = main[m]
           /\ members' \in [Nodes -> SUBSET Nodes]
           /\ members'[n] = members[n] \cup {main[n].peer}
           /\ \A m \in Nodes : m # n => members'[m] = members[m]
           /\ UNCHANGED <<loop, outbox, acks, inbox, got, calls, echo, tracked, waiters>>
<1>1. Shapes /\ TypeOK
  BY DEF IInv, TypeOK
<1>2. main[n].pc = "add_member" /\ main[n].peer \in Nodes
  BY <1>1, PeerLinked DEF AddMember
<1>3. "send_helo" \in PcsOfMain
  BY DEF PcsOfMain
<1>4. main' = [main EXCEPT ![n].pc = "send_helo"]
  BY DEF AddMember
<1>5. /\ main' \in [Nodes -> MainStates]
      /\ main'[n].pc = "send_helo" /\ main'[n].peer = main[n].peer
      /\ \A m \in Nodes : m # n => main'[m] = main[m]
  BY <1>1, <1>3, <1>4, PcEffect
<1>6. /\ members' \in [Nodes -> SUBSET Nodes]
      /\ members'[n] = members[n] \cup {main[n].peer}
      /\ \A m \in Nodes : m # n => members'[m] = members[m]
  BY <1>1, <1>2, MembersEffect DEF AddMember
<1> QED
  BY <1>2, <1>5, <1>6 DEF AddMember, linkVars, echoVars

LEMMA MainSendEffect ==
    ASSUME IInv, NEW n \in Nodes, SendHelo(n) \/ SendMembership(n)
    PROVE  \E msg \in Messages :
           /\ \/ /\ main[n].pc = "send_helo" /\ main'[n].pc = "handshake" /\ msg = Helo
              \/ /\ main[n].pc = "send_membership" /\ main'[n].pc = "membership"
                 /\ msg # Helo
           /\ main[n].peer \in Nodes
           /\ main' \in [Nodes -> MainStates] /\ main'[n].peer = main[n].peer
           /\ \A m \in Nodes : m # n => main'[m] = main[m]
           /\ SendReliably(n, main[n].peer, msg, Main)
           /\ UNCHANGED <<loop, members, acks, inbox, got, calls, echo, tracked, waiters>>
<1>1. Shapes /\ TypeOK
  BY DEF IInv, TypeOK
<1>2. "handshake" \in PcsOfMain /\ "membership" \in PcsOfMain
  BY DEF PcsOfMain
<1>3. CASE SendHelo(n)
  <2>1. /\ main[n].pc = "send_helo" /\ main' = [main EXCEPT ![n].pc = "handshake"]
        /\ SendReliably(n, main[n].peer, Helo, Main) /\ Helo \in Messages
        /\ UNCHANGED <<loop, members, acks, inbox, got, calls, echo, tracked, waiters>>
    BY <1>3, FirstMessages, MessageKinds DEF SendHelo, Helo, echoVars
  <2>2. main[n].peer \in Nodes
    BY <1>1, <2>1, PeerLinked
  <2>3. /\ main' \in [Nodes -> MainStates]
        /\ main'[n].pc = "handshake" /\ main'[n].peer = main[n].peer
        /\ \A m \in Nodes : m # n => main'[m] = main[m]
    BY <1>1, <1>2, <2>1, PcEffect
  <2> QED
    BY <2>1, <2>2, <2>3
<1>4. CASE SendMembership(n)
  <2> DEFINE msg == Membership(SomeMembers(members[n]))
  <2>0. msg \in Messages /\ msg # Helo
    BY <1>1, MessageKinds DEF Shapes, Membership, Helo
  <2>1. /\ main[n].pc = "send_membership" /\ main' = [main EXCEPT ![n].pc = "membership"]
        /\ SendReliably(n, main[n].peer, msg, Main)
        /\ UNCHANGED <<loop, members, acks, inbox, got, calls, echo, tracked, waiters>>
    BY <1>4, FirstMessages DEF SendMembership, echoVars
  <2>2. main[n].peer \in Nodes
    BY <1>1, <2>1, PeerLinked
  <2>3. /\ main' \in [Nodes -> MainStates]
        /\ main'[n].pc = "membership" /\ main'[n].peer = main[n].peer
        /\ \A m \in Nodes : m # n => main'[m] = main[m]
    BY <1>1, <1>2, <2>1, PcEffect
  <2> QED
    BY <2>0, <2>1, <2>2, <2>3
<1> QED
  BY <1>3, <1>4

LEMMA RoundOneEffect ==
    ASSUME IInv, NEW n \in Nodes, BroadcastRoundOne(n)
    PROVE  /\ main[n].pc = "round_one" /\ main[n].peer \in Nodes
           /\ MainCall(n) \in CallsOfEcho
           /\ main' \in [Nodes -> MainStates] /\ main'[n].peer = main[n].peer
           /\ \A m \in Nodes : m # n => main'[m] = main[m]
           /\ \/ echo[n].pc = "panicked" /\ calls' = calls /\ main'[n].pc = "send_membership"
              \/ /\ calls' = [calls EXCEPT ![n] = Append(@, MainCall(n))]
                 /\ main'[n].pc = "broadcast"
           /\ UNCHANGED <<loop, members, outbox, acks, inbox, got, echo, tracked, waiters>>
<1>1. Shapes /\ TypeOK
  BY DEF IInv, TypeOK
<1>2. "send_membership" \in PcsOfMain /\ "broadcast" \in PcsOfMain
  BY DEF PcsOfMain
<1>3. main[n].pc = "round_one" /\ main[n].peer \in Nodes
  BY <1>1, PeerLinked DEF BroadcastRoundOne
<1>4. MainCall(n) \in CallsOfEcho
  BY <1>1, <1>3, MessageKinds DEF MainCall, CallsOfEcho, Shapes
<1>5. \/ /\ echo[n].pc = "panicked" /\ calls' = calls
         /\ main' = [main EXCEPT ![n].pc = "send_membership"]
      \/ /\ calls' = [calls EXCEPT ![n] = Append(@, MainCall(n))]
         /\ main' = [main EXCEPT ![n].pc = "broadcast"]
  BY FirstMessages DEF BroadcastRoundOne, MainCall
<1>6. UNCHANGED <<loop, members, outbox, acks, inbox, got, echo, tracked, waiters>>
  BY DEF BroadcastRoundOne, linkVars
<1> QED
  BY <1>1, <1>2, <1>3, <1>4, <1>5, <1>6, PcEffect

LEMMA MainTimesOutEffect ==
    ASSUME IInv, NEW n \in Nodes, MainTimesOut(n)
    PROVE  /\ main[n].pc \in {"handshake", "membership"} /\ main[n].peer \in Nodes
           /\ Forget(n, main[n].peer, Main)
           /\ main' \in [Nodes -> MainStates] /\ main'[n] = AfterSend(main[n])
           /\ \A m \in Nodes : m # n => main'[m] = main[m]
           /\ UNCHANGED <<loop, members, inbox, got, calls, echo, tracked, waiters>>
<1>1. Shapes /\ TypeOK /\ main \in [Nodes -> MainStates]
  BY DEF IInv, TypeOK, Shapes
<1>2. main[n].pc \in {"handshake", "membership"} /\ main[n].peer \in Nodes
  BY <1>1, PeerLinked DEF MainTimesOut
<1>3. AfterSend(main[n]) \in MainStates
  BY <1>1 DEF AfterSend, At, MainStates, PcsOfMain
<1>4. main' = [main EXCEPT ![n] = AfterSend(main[n])]
  BY <1>1 DEF MainTimesOut
<1>5. /\ main' \in [Nodes -> MainStates] /\ main'[n] = AfterSend(main[n])
      /\ \A m \in Nodes : m # n => main'[m] = main[m]
  BY ONLY <1>1, <1>3, <1>4, n \in Nodes, Update1
<1> QED
  BY <1>2, <1>5 DEF MainTimesOut, echoVars

(* Where AfterSend leads.                                                  *)
LEMMA AfterSendPc ==
    ASSUME NEW m \in MainStates
    PROVE  \/ /\ m.pc = "handshake" /\ AfterSend(m).pc = "round_one"
              /\ AfterSend(m).peer = m.peer
           \/ AfterSend(m).pc = "accept"
  BY DEF MainStates, AfterSend, At

(* What each action of an event loop does.                                 *)
LEMMA TakeUnicastEffect ==
    ASSUME IInv, NEW n \in Nodes, NEW p \in Nodes, TakeUnicast(n, p)
    PROVE  /\ loop[n][p].pc = "recv" /\ inbox[n][p] # <<>>
           /\ inbox' \in [Nodes -> [Nodes -> Seq(Messages)]]
           /\ inbox'[n][p] = Tail(inbox[n][p])
           /\ \A m, q \in Nodes : m # n \/ q # p => inbox'[m][q] = inbox[m][q]
           /\ loop' \in [Nodes -> [Nodes -> LoopStates]]
           /\ \/ UNCHANGED <<loop, outbox>>
              \/ /\ SendReliably(n, p, Handshake("oleh"), Loop)
                 /\ loop'[n][p].pc = "unicast" /\ loop'[n][p].members = {}
           /\ \A m, q \in Nodes : m # n \/ q # p => loop'[m][q] = loop[m][q]
           /\ UNCHANGED <<main, members, acks, got, calls, echo, tracked, waiters>>
<1>1. Shapes /\ loop \in [Nodes -> [Nodes -> LoopStates]]
  BY DEF IInv, TypeOK, Shapes
<1>2. /\ loop[n][p].pc = "recv" /\ inbox[n][p] # <<>>
      /\ ~IsBroadcast(Head(inbox[n][p]))
      /\ inbox' = [inbox EXCEPT ![n][p] = Tail(@)]
      /\ UNCHANGED <<main, members, acks, got, calls, echo, tracked, waiters>>
  BY DEF TakeUnicast, echoVars
<1>3. /\ inbox' \in [Nodes -> [Nodes -> Seq(Messages)]]
      /\ Head(inbox[n][p]) \in Messages
      /\ inbox'[n][p] = Tail(inbox[n][p])
      /\ \A m, q \in Nodes : m # n \/ q # p => inbox'[m][q] = inbox[m][q]
  BY <1>1, <1>2, InboxEffect
<1> DEFINE r == Response(Head(inbox[n][p]), n, members[n], NoMid)
           l == LoopAt("unicast", NoMessage, {})
<1>4. r \in {NoMessage, Handshake("oleh")}
  BY <1>2, <1>3, Answers
<1>5. \/ UNCHANGED <<loop, outbox>>
      \/ SendReliably(n, p, r, Loop) /\ loop' = [loop EXCEPT ![n][p] = l] /\ r # NoMessage
  BY DEF TakeUnicast
<1>6. l \in LoopStates /\ l.pc = "unicast" /\ l.members = {}
  BY StateTypes DEF LoopAt
<1> HIDE DEF r, l
<1>7. CASE UNCHANGED <<loop, outbox>>
  BY <1>1, <1>2, <1>3, <1>7
<1>8. CASE SendReliably(n, p, r, Loop) /\ loop' = [loop EXCEPT ![n][p] = l]
           /\ r # NoMessage
  <2>1. r = Handshake("oleh")
    BY <1>4, <1>8
  <2>2. /\ loop' \in [Nodes -> [Nodes -> LoopStates]] /\ loop'[n][p] = l
        /\ \A m, q \in Nodes : m # n \/ q # p => loop'[m][q] = loop[m][q]
    BY <1>1, <1>6, <1>8, LoopEffect
  <2> QED
    BY <1>2, <1>3, <1>6, <1>8, <2>1, <2>2
<1> QED
  BY <1>5, <1>7, <1>8

LEMMA TakeBroadcastEffect ==
    ASSUME IInv, NEW n \in Nodes, NEW p \in Nodes, TakeBroadcast(n, p)
    PROVE  /\ loop[n][p].pc = "recv" /\ inbox[n][p] # <<>>
           /\ inbox' \in [Nodes -> [Nodes -> Seq(Messages)]]
           /\ inbox'[n][p] = Tail(inbox[n][p])
           /\ \A m, q \in Nodes : m # n \/ q # p => inbox'[m][q] = inbox[m][q]
           /\ loop' \in [Nodes -> [Nodes -> LoopStates]]
           /\ loop'[n][p].pc = "rebroadcast" /\ loop'[n][p].msg \in Broadcasts
           /\ loop'[n][p].members = members[n]
           /\ \A m, q \in Nodes : m # n \/ q # p => loop'[m][q] = loop[m][q]
           /\ UNCHANGED <<main, members, outbox, acks, got, calls, echo, tracked, waiters>>
<1>1. Shapes
  BY DEF IInv, TypeOK
<1>2. /\ loop[n][p].pc = "recv" /\ inbox[n][p] # <<>>
      /\ IsBroadcast(Head(inbox[n][p]))
      /\ inbox' = [inbox EXCEPT ![n][p] = Tail(@)]
      /\ loop' = [loop EXCEPT ![n][p] =
                    LoopAt("rebroadcast", Head(inbox[n][p]), members[n])]
      /\ UNCHANGED <<main, members, outbox, acks, got, calls, echo, tracked, waiters>>
  BY DEF TakeBroadcast, echoVars
<1>3. /\ inbox' \in [Nodes -> [Nodes -> Seq(Messages)]]
      /\ Head(inbox[n][p]) \in Messages
      /\ inbox'[n][p] = Tail(inbox[n][p])
      /\ \A m, q \in Nodes : m # n \/ q # p => inbox'[m][q] = inbox[m][q]
  BY <1>1, <1>2, InboxEffect
<1> DEFINE l == LoopAt("rebroadcast", Head(inbox[n][p]), members[n])
<1>4. Head(inbox[n][p]) \in Broadcasts /\ members[n] \in SUBSET Nodes
  BY <1>1, <1>2, <1>3, MessageKinds DEF Shapes
<1>5. /\ l \in LoopStates /\ l.pc = "rebroadcast" /\ l.msg \in Broadcasts
      /\ l.members = members[n]
  BY <1>3, <1>4 DEF LoopAt, LoopStates, PcsOfLoop
<1> HIDE DEF l
<1>6. /\ loop' \in [Nodes -> [Nodes -> LoopStates]] /\ loop'[n][p] = l
      /\ \A m, q \in Nodes : m # n \/ q # p => loop'[m][q] = loop[m][q]
  <2>1. l \in LoopStates /\ loop' = [loop EXCEPT ![n][p] = l]
    BY <1>2, <1>5 DEF l
  <2>2. loop \in [Nodes -> [Nodes -> LoopStates]]
    BY <1>1 DEF Shapes
  <2> QED
    BY ONLY <2>1, <2>2, n \in Nodes, p \in Nodes, Update2
<1> QED
  BY <1>2, <1>3, <1>5, <1>6

LoopCall(n, p) == [msg |-> loop[n][p].msg, members |-> loop[n][p].members, by |-> p]

LEMMA RebroadcastEffect ==
    ASSUME IInv, NEW n \in Nodes, NEW p \in Nodes, Rebroadcast(n, p)
    PROVE  /\ loop[n][p].pc = "rebroadcast" /\ LoopCall(n, p) \in CallsOfEcho
           /\ loop' \in [Nodes -> [Nodes -> LoopStates]]
           /\ loop'[n][p] \in {Receiving, AwaitingBroadcast}
           /\ \A m, q \in Nodes : m # n \/ q # p => loop'[m][q] = loop[m][q]
           /\ \/ calls' = calls
              \/ calls' = [calls EXCEPT ![n] = Append(@, LoopCall(n, p))]
           /\ UNCHANGED <<main, members, outbox, acks, inbox, got, echo, tracked, waiters>>
<1>1. Shapes
  BY DEF IInv, TypeOK
<1>2. loop[n][p].pc = "rebroadcast"
  BY DEF Rebroadcast
<1>3. loop[n][p] \in LoopStates /\ loop[n][p].msg \in Broadcasts
  BY <1>1, <1>2 DEF IInv, TypeOK, Shapes
<1>4. LoopCall(n, p) \in CallsOfEcho
  BY <1>3 DEF LoopCall, LoopStates, CallsOfEcho
<1>5. PICK l \in {Receiving, AwaitingBroadcast} : loop' = [loop EXCEPT ![n][p] = l]
  BY DEF Rebroadcast
<1>6. /\ loop' \in [Nodes -> [Nodes -> LoopStates]] /\ loop'[n][p] = l
      /\ \A m, q \in Nodes : m # n \/ q # p => loop'[m][q] = loop[m][q]
  <2>1. l \in LoopStates /\ loop' = [loop EXCEPT ![n][p] = l]
    BY <1>5, StateTypes
  <2>2. loop \in [Nodes -> [Nodes -> LoopStates]]
    BY <1>1 DEF Shapes
  <2> QED
    BY ONLY <2>1, <2>2, n \in Nodes, p \in Nodes, Update2
<1>7. /\ \/ calls' = calls
         \/ calls' = [calls EXCEPT ![n] = Append(@, LoopCall(n, p))]
      /\ UNCHANGED <<main, members, outbox, acks, inbox, got, echo, tracked, waiters>>
  BY DEF Rebroadcast, LoopCall, linkVars
<1> QED
  BY <1>2, <1>4, <1>5, <1>6, <1>7

LEMMA LoopTimesOutEffect ==
    ASSUME IInv, NEW n \in Nodes, NEW p \in Nodes, LoopTimesOut(n, p)
    PROVE  /\ loop[n][p].pc = "unicast"
           /\ Forget(n, p, Loop)
           /\ loop' \in [Nodes -> [Nodes -> LoopStates]] /\ loop'[n][p] = Receiving
           /\ \A m, q \in Nodes : m # n \/ q # p => loop'[m][q] = loop[m][q]
           /\ UNCHANGED <<main, members, inbox, got, calls, echo, tracked, waiters>>
<1>1. Shapes
  BY DEF IInv, TypeOK
<1> QED
  BY <1>1, StateTypes, LoopEffect DEF LoopTimesOut, echoVars

(* What each action of the echo broadcast actor does.                      *)
LEMMA TakeCallEffect ==
    ASSUME IInv, NEW n \in Nodes, TakeCall(n)
    PROVE  LET c == calls[n][1] IN
           /\ echo[n].pc = "recv" /\ calls[n] # <<>> /\ calls[n] \in Seq(CallsOfEcho)
           /\ 1 \in DOMAIN calls[n] /\ c \in CallsOfEcho
           /\ echo' \in [Nodes -> EchoStates]
           /\ echo'[n] = EchoSending(c, c.members, NoNode)
           /\ \A m \in Nodes : m # n => echo'[m] = echo[m]
           /\ calls' \in [Nodes -> Seq(CallsOfEcho)]
           /\ calls'[n] = Tail(calls[n])
           /\ \A m \in Nodes : m # n => calls'[m] = calls[m]
           /\ UNCHANGED <<main, loop, members, outbox, acks, inbox, got, tracked, waiters>>
<1>1. Shapes /\ calls \in [Nodes -> Seq(CallsOfEcho)] /\ calls[n] \in Seq(CallsOfEcho)
  BY DEF IInv, TypeOK, Shapes
<1>2. /\ echo[n].pc = "recv" /\ calls[n] # <<>>
      /\ echo' = [echo EXCEPT ![n] =
                    EchoSending(Head(calls[n]), Head(calls[n]).members, NoNode)]
      /\ calls' = [calls EXCEPT ![n] = Tail(calls[n])]
      /\ UNCHANGED <<main, loop, members, outbox, acks, inbox, got, tracked, waiters>>
  BY <1>1 DEF TakeCall, linkVars
<1>3. /\ Head(calls[n]) = calls[n][1] /\ calls[n][1] \in CallsOfEcho
      /\ 1 \in DOMAIN calls[n] /\ Tail(calls[n]) \in Seq(CallsOfEcho)
  BY <1>1, <1>2, TailType
<1> DEFINE e == EchoSending(calls[n][1], calls[n][1].members, NoNode)
<1>4. e \in EchoStates
  BY <1>3 DEF EchoSending, EchoStates, CallsOfEcho
<1>5. echo' = [echo EXCEPT ![n] = e]
  BY <1>2, <1>3
<1> HIDE DEF e
<1>6. /\ echo' \in [Nodes -> EchoStates] /\ echo'[n] = e
      /\ \A m \in Nodes : m # n => echo'[m] = echo[m]
  BY <1>1, <1>4, <1>5, EchoEffect
<1>7. /\ calls' \in [Nodes -> Seq(CallsOfEcho)] /\ calls'[n] = Tail(calls[n])
      /\ \A m \in Nodes : m # n => calls'[m] = calls[m]
  <2>1. calls' = [calls EXCEPT ![n] = Tail(calls[n])]
    BY <1>2
  <2> QED
    BY ONLY <1>1, <1>3, <2>1, n \in Nodes, Update1
<1> QED
  BY <1>1, <1>2, <1>3, <1>6, <1>7 DEF e

LEMMA SendToMemberEffect ==
    ASSUME IInv, NEW n \in Nodes, NEW p \in Nodes, SendToMember(n, p)
    PROVE  /\ echo[n].pc = "sending" /\ echo[n].to = NoNode /\ p \in echo[n].left
           /\ echo[n].call \in CallsOfEcho /\ echo[n].call.msg \in Messages
           /\ echo[n].call.msg \in Broadcasts
           /\ SendReliably(n, p, echo[n].call.msg, Echo)
           /\ echo' \in [Nodes -> EchoStates]
           /\ echo'[n] = EchoSending(echo[n].call, echo[n].left, p)
           /\ \A m \in Nodes : m # n => echo'[m] = echo[m]
           /\ UNCHANGED <<main, loop, members, acks, inbox, got, calls, tracked, waiters>>
<1>1. Shapes /\ echo \in [Nodes -> EchoStates]
  BY DEF IInv, TypeOK, Shapes
<1>2. /\ echo[n].pc = "sending" /\ echo[n].to = NoNode /\ p \in echo[n].left
      /\ SendReliably(n, p, echo[n].call.msg, Echo)
      /\ echo' = [echo EXCEPT ![n].to = p]
      /\ UNCHANGED <<main, loop, members, acks, inbox, got, calls, tracked, waiters>>
  BY DEF SendToMember
<1>3. echo[n].call \in CallsOfEcho
  BY <1>2 DEF IInv, TypeOK
<1>4. echo[n].call.msg \in Broadcasts /\ echo[n].call.msg \in Messages
  BY <1>3, MessageKinds DEF CallsOfEcho
<1> DEFINE e == EchoSending(echo[n].call, echo[n].left, p)
<1>5. e \in EchoStates /\ echo' = [echo EXCEPT ![n] = e]
  <2>1. echo[n] \in EchoStates
    BY <1>1
  <2>2. [echo[n] EXCEPT !.to = p] = e
    BY <1>2, <2>1 DEF EchoSending, EchoStates
  <2>3. e \in EchoStates
    BY <2>1 DEF EchoSending, EchoStates
  <2>4. echo' = [echo EXCEPT ![n] = [echo[n] EXCEPT !.to = p]]
    BY <1>1, <1>2
  <2> QED
    BY <2>2, <2>3, <2>4
<1> HIDE DEF e
<1>6. /\ echo' \in [Nodes -> EchoStates] /\ echo'[n] = e
      /\ \A m \in Nodes : m # n => echo'[m] = echo[m]
  BY <1>1, <1>5, EchoEffect
<1> QED
  BY <1>2, <1>3, <1>4, <1>6 DEF e

LEMMA FinishSendEffect ==
    ASSUME IInv, NEW n \in Nodes, FinishSend(n)
    PROVE  LET c == echo[n].call
               w == <<c.msg.mid, c.by>>
           IN
           /\ echo[n].pc = "sending" /\ echo[n].left = {} /\ c \in CallsOfEcho
           /\ echo' \in [Nodes -> EchoStates] /\ echo'[n] = EchoIdle
           /\ \A m \in Nodes : m # n => echo'[m] = echo[m]
           /\ waiters' \in [Nodes -> SUBSET ((Nodes \X Nodes) \X (Nodes \cup {Main}))]
           /\ waiters'[n] = (waiters[n] \ WaitersFor(n, c.msg.mid)) \cup {w}
           /\ \A m \in Nodes : m # n => waiters'[m] = waiters[m]
           /\ UNCHANGED <<members, outbox, acks, inbox, got, calls, tracked>>
<1> DEFINE c == echo[n].call
           new == (waiters[n] \ WaitersFor(n, c.msg.mid)) \cup {<<c.msg.mid, c.by>>}
           T == (Nodes \X Nodes) \X (Nodes \cup {Main})
<1>1. Shapes /\ waiters \in [Nodes -> SUBSET T]
  BY DEF IInv, TypeOK, Shapes
<1>2. /\ echo[n].pc = "sending" /\ echo[n].left = {}
      /\ echo' = [echo EXCEPT ![n] = EchoIdle]
      /\ waiters' = [waiters EXCEPT ![n] = new]
      /\ UNCHANGED <<members, outbox, acks, inbox, got, calls, tracked>>
  BY <1>1 DEF FinishSend, SentToAll, linkVars
<1>3. c \in CallsOfEcho
  BY <1>2 DEF IInv, TypeOK
<1>4. c.msg.mid \in Nodes \X Nodes /\ c.by \in Nodes \cup {Main}
  BY <1>3, MessageKinds DEF CallsOfEcho
<1>5. new \in SUBSET T
  BY <1>1, <1>4
<1>6. /\ echo' \in [Nodes -> EchoStates] /\ echo'[n] = EchoIdle
      /\ \A m \in Nodes : m # n => echo'[m] = echo[m]
  BY <1>1, <1>2, StateTypes, EchoEffect
<1> HIDE DEF new, T
<1>7. /\ waiters' \in [Nodes -> SUBSET T] /\ waiters'[n] = new
      /\ \A m \in Nodes : m # n => waiters'[m] = waiters[m]
  <2>1. waiters' = [waiters EXCEPT ![n] = new]
    BY <1>2
  <2> QED
    BY ONLY <1>1, <1>5, <2>1, n \in Nodes, Update1
<1> QED
  BY <1>2, <1>3, <1>6, <1>7 DEF new, T

LEMMA FinishSendPanicsEffect ==
    ASSUME IInv, NEW n \in Nodes, FinishSendPanics(n)
    PROVE  /\ echo[n].pc = "sending" /\ echo[n].left = {}
           /\ echo[n].call.msg.mid \notin tracked[n]
           /\ echo' \in [Nodes -> EchoStates] /\ echo'[n] = EchoPanicked
           /\ \A m \in Nodes : m # n => echo'[m] = echo[m]
           /\ waiters' \in [Nodes -> SUBSET ((Nodes \X Nodes) \X (Nodes \cup {Main}))]
           /\ waiters'[n] = {}
           /\ \A m \in Nodes : m # n => waiters'[m] = waiters[m]
           /\ calls' \in [Nodes -> Seq(CallsOfEcho)] /\ calls'[n] = <<>>
           /\ \A m \in Nodes : m # n => calls'[m] = calls[m]
           /\ UNCHANGED <<members, outbox, acks, inbox, got, tracked>>
<1> DEFINE T == (Nodes \X Nodes) \X (Nodes \cup {Main})
<1>1. /\ Shapes /\ waiters \in [Nodes -> SUBSET T]
      /\ calls \in [Nodes -> Seq(CallsOfEcho)]
  BY DEF IInv, TypeOK, Shapes
<1>2. /\ echo[n].pc = "sending" /\ echo[n].left = {}
      /\ echo[n].call.msg.mid \notin tracked[n]
      /\ echo' = [echo EXCEPT ![n] = EchoPanicked]
      /\ calls' = [calls EXCEPT ![n] = <<>>]
      /\ waiters' = [waiters EXCEPT ![n] = {}]
      /\ UNCHANGED <<members, outbox, acks, inbox, got, tracked>>
  BY DEF FinishSendPanics, SentToAll, linkVars
<1>3. /\ echo' \in [Nodes -> EchoStates] /\ echo'[n] = EchoPanicked
      /\ \A m \in Nodes : m # n => echo'[m] = echo[m]
  BY <1>1, <1>2, StateTypes, EchoEffect
<1> HIDE DEF T
<1>4. /\ waiters' \in [Nodes -> SUBSET T] /\ waiters'[n] = {}
      /\ \A m \in Nodes : m # n => waiters'[m] = waiters[m]
  <2>1. waiters' = [waiters EXCEPT ![n] = {}] /\ {} \in SUBSET T
    BY <1>2
  <2> QED
    BY ONLY <1>1, <2>1, n \in Nodes, Update1
<1>5. /\ calls' \in [Nodes -> Seq(CallsOfEcho)] /\ calls'[n] = <<>>
      /\ \A m \in Nodes : m # n => calls'[m] = calls[m]
  <2>1. calls' = [calls EXCEPT ![n] = <<>>] /\ <<>> \in Seq(CallsOfEcho)
    BY <1>2
  <2> QED
    BY ONLY <1>1, <2>1, n \in Nodes, Update1
<1> QED
  BY <1>2, <1>3, <1>4, <1>5 DEF T

-----------------------------------------------------------------------------
(* Types and links.                                                        *)

(* The variables keep their shapes.                                        *)
LEMMA ShapesStep == IInv /\ [Next]_vars => Shapes'
<1> SUFFICES ASSUME IInv, [Next]_vars PROVE Shapes'
  OBVIOUS
<1>0. Shapes
  BY DEF IInv, TypeOK
<1>1. CASE UNCHANGED vars
  BY <1>0, <1>1 DEF Shapes, vars
<1>2. ASSUME NEW n \in Nodes, ConnectRefused(n) PROVE Shapes'
  BY <1>0, <1>2, ConnectRefusedEffect DEF Shapes
<1>3. ASSUME NEW n \in Nodes, NEW s \in Nodes, Connect(n, s) PROVE Shapes'
  <2>1. /\ main' \in [Nodes -> MainStates] /\ loop' \in [Nodes -> [Nodes -> LoopStates]]
        /\ UNCHANGED <<members, outbox, acks, inbox, got, calls, echo, tracked, waiters>>
    BY <1>3, ConnectEffect
  <2> QED
    BY <1>0, <2>1 DEF Shapes
<1>4. ASSUME NEW n \in Nodes, AddSeed(n) PROVE Shapes'
  BY <1>0, <1>4, AddSeedEffect DEF Shapes
<1>5. ASSUME NEW n \in Nodes, AddMember(n) PROVE Shapes'
  BY <1>0, <1>5, AddMemberEffect DEF Shapes
<1>6. ASSUME NEW n \in Nodes, SendHelo(n) \/ SendMembership(n) PROVE Shapes'
  <2>1. PICK msg \in Messages :
           /\ main[n].peer \in Nodes /\ main' \in [Nodes -> MainStates]
           /\ SendReliably(n, main[n].peer, msg, Main)
           /\ UNCHANGED <<loop, members, acks, inbox, got, calls, echo, tracked, waiters>>
    BY <1>6, MainSendEffect
  <2>2. outbox' \in [Nodes -> [Nodes -> Seq(Outs)]]
    BY <1>0, <2>1, SendEffect DEF Tasks
  <2> QED
    BY <1>0, <2>1, <2>2 DEF Shapes, Outs
<1>7. ASSUME NEW n \in Nodes, BroadcastRoundOne(n) PROVE Shapes'
  <2>1. /\ MainCall(n) \in CallsOfEcho
        /\ calls' = calls \/ calls' = [calls EXCEPT ![n] = Append(@, MainCall(n))]
        /\ main' \in [Nodes -> MainStates]
        /\ UNCHANGED <<loop, members, outbox, acks, inbox, got, echo, tracked, waiters>>
    BY <1>7, RoundOneEffect
  <2>2. calls' \in [Nodes -> Seq(CallsOfEcho)]
    <3>1. CASE calls' = calls
      BY <1>0, <3>1 DEF Shapes
    <3>2. CASE calls' = [calls EXCEPT ![n] = Append(@, MainCall(n))]
      BY <1>0, <2>1, <3>2, CallEffect
    <3> QED
      BY <2>1, <3>1, <3>2
  <2> QED
    BY <1>0, <2>1, <2>2 DEF Shapes
<1>8. ASSUME NEW n \in Nodes, MainTimesOut(n) PROVE Shapes'
  <2>1. /\ outbox' \in [Nodes -> [Nodes -> Seq(Outs)]]
        /\ acks' \in [Nodes -> [Nodes -> Seq(Tasks)]]
    BY <1>0, <1>8, MainTimesOutEffect, ForgetEffect DEF Tasks
  <2> QED
    BY <1>0, <1>8, <2>1, MainTimesOutEffect DEF Shapes, Outs
<1>9. ASSUME NEW n \in Nodes, NEW p \in Nodes, TakeUnicast(n, p) PROVE Shapes'
  <2>1. outbox' \in [Nodes -> [Nodes -> Seq(Outs)]]
    <3>1. outbox \in [Nodes -> [Nodes -> Seq(Outs)]]
      BY <1>0 DEF Shapes, Outs
    <3>2. outbox' = outbox \/ SendReliably(n, p, Handshake("oleh"), Loop)
      BY <1>9, TakeUnicastEffect
    <3> QED
      BY <1>0, <3>1, <3>2, SendEffect, MessageKinds DEF Tasks
  <2>2. /\ inbox' \in [Nodes -> [Nodes -> Seq(Messages)]]
        /\ loop' \in [Nodes -> [Nodes -> LoopStates]]
        /\ UNCHANGED <<main, members, acks, got, calls, echo, tracked, waiters>>
    BY <1>9, TakeUnicastEffect
  <2> QED
    BY <1>0, <2>1, <2>2 DEF Shapes, Outs
<1>10. ASSUME NEW n \in Nodes, NEW p \in Nodes, TakeBroadcast(n, p) PROVE Shapes'
  <2>1. /\ inbox' \in [Nodes -> [Nodes -> Seq(Messages)]]
        /\ loop' \in [Nodes -> [Nodes -> LoopStates]]
        /\ UNCHANGED <<main, members, outbox, acks, got, calls, echo, tracked, waiters>>
    BY <1>10, TakeBroadcastEffect
  <2> QED
    BY <1>0, <2>1 DEF Shapes
<1>11. ASSUME NEW n \in Nodes, NEW p \in Nodes, Rebroadcast(n, p) PROVE Shapes'
  <2>1. calls' \in [Nodes -> Seq(CallsOfEcho)]
    BY <1>0, <1>11, RebroadcastEffect, CallEffect DEF Shapes
  <2> QED
    BY <1>0, <1>11, <2>1, RebroadcastEffect DEF Shapes
<1>12. ASSUME NEW n \in Nodes, NEW p \in Nodes, LoopTimesOut(n, p) PROVE Shapes'
  <2>1. /\ outbox' \in [Nodes -> [Nodes -> Seq(Outs)]]
        /\ acks' \in [Nodes -> [Nodes -> Seq(Tasks)]]
    BY <1>0, <1>12, LoopTimesOutEffect, ForgetEffect DEF Tasks
  <2> QED
    BY <1>0, <1>12, <2>1, LoopTimesOutEffect DEF Shapes, Outs
<1>13. ASSUME NEW n \in Nodes, NEW p \in Nodes, Transfer(n, p) PROVE Shapes'
  <2>1. /\ outbox' \in [Nodes -> [Nodes -> Seq(Outs)]]
        /\ acks' \in [Nodes -> [Nodes -> Seq(Tasks)]]
        /\ inbox' \in [Nodes -> [Nodes -> Seq(Messages)]]
        /\ got' \in [Nodes -> [Nodes -> Seq(Messages)]]
        /\ UNCHANGED <<main, loop, members, calls, echo, tracked, waiters>>
    BY <1>0, <1>13, TransferEffect, ArrivalEffect
  <2> QED
    BY <1>0, <2>1 DEF Shapes, Outs
<1>14. ASSUME NEW n \in Nodes, NEW p \in Nodes, Ack(n, p) PROVE Shapes'
  <2>1. /\ acks' \in [Nodes -> [Nodes -> Seq(Tasks)]]
        /\ UNCHANGED <<members, outbox, inbox, got, calls, waiters>>
    BY <1>14, AckEffect
  <2>2. main' \in [Nodes -> MainStates] /\ loop' \in [Nodes -> [Nodes -> LoopStates]]
    BY <1>14, AckMainEffect, AckLoopEffect
  <2>3. /\ echo' \in [Nodes -> EchoStates]
        /\ tracked' \in [Nodes -> SUBSET (Nodes \X Nodes)]
    BY <1>14, AckEchoEffect
  <2> QED
    BY <1>0, <2>1, <2>2, <2>3 DEF Shapes
<1>15. ASSUME NEW n \in Nodes, TakeCall(n) PROVE Shapes'
  BY <1>0, <1>15, TakeCallEffect DEF Shapes
<1>16. ASSUME NEW n \in Nodes, NEW p \in Nodes, SendToMember(n, p) PROVE Shapes'
  <2>1. outbox' \in [Nodes -> [Nodes -> Seq(Outs)]]
    BY <1>0, <1>16, SendToMemberEffect, SendEffect DEF Tasks
  <2> QED
    BY <1>0, <1>16, <2>1, SendToMemberEffect DEF Shapes, Outs
<1>17. ASSUME NEW n \in Nodes, FinishSend(n) \/ FinishSendPanics(n) PROVE Shapes'
  <2>1. PICK S : ReturnErr(n, S) /\ S \subseteq Linked(n) \cup {Main}
    BY <1>17, ErrEffect
  <2>2. loop' \in [Nodes -> [Nodes -> LoopStates]] /\ main' \in [Nodes -> MainStates]
    BY <1>0, <2>1, ReturnEffect
  <2> QED
    BY <1>0, <1>17, <2>2, FinishSendEffect, FinishSendPanicsEffect DEF Shapes
<1> QED
  BY <1>1, <1>2, <1>3, <1>4, <1>5, <1>6, <1>7, <1>8, <1>9, <1>10, <1>11, <1>12,
     <1>13, <1>14, <1>15, <1>16, <1>17
     DEF Next, MainStep, EchoStep, LoopStep, LinkStep

(* A link is there for good, and only Connect makes one.                   *)
LEMMA LinkedStep ==
    ASSUME IInv, [Next]_vars
    PROVE  /\ \A m \in Nodes : Linked(m) \subseteq Linked(m)'
           /\ (\A n, s \in Nodes : ~Connect(n, s)) =>
                \A m \in Nodes : Linked(m)' = Linked(m)
<1>0. Receiving.pc = "recv" /\ AwaitingBroadcast.pc = "broadcast"
  BY StateTypes
<1>1. SUFFICES /\ \A m, q \in Nodes : loop[m][q].pc # "none" => loop'[m][q].pc # "none"
               /\ (\A n, s \in Nodes : ~Connect(n, s)) =>
                    \A m, q \in Nodes : loop'[m][q].pc # "none" => loop[m][q].pc # "none"
  BY DEF Linked
<1>2. CASE UNCHANGED loop
  BY <1>2
<1>3. ASSUME NEW n \in Nodes, NEW s \in Nodes, Connect(n, s)
      PROVE  \A m, q \in Nodes : loop[m][q].pc # "none" => loop'[m][q].pc # "none"
  BY <1>0, <1>3, ConnectEffect
<1>4. ASSUME NEW n \in Nodes, NEW p \in Nodes, LoopStep(n, p) \/ LoopTimesOut(n, p)
      PROVE  \A m, q \in Nodes : loop[m][q].pc # "none" <=> loop'[m][q].pc # "none"
  <2>1. CASE TakeUnicast(n, p)
    <3>1. /\ \A m, q \in Nodes : m # n \/ q # p => loop'[m][q] = loop[m][q]
          /\ loop[n][p].pc = "recv" /\ (loop' = loop \/ loop'[n][p].pc = "unicast")
      BY <2>1, TakeUnicastEffect
    <3> QED
      BY <3>1
  <2>2. CASE TakeBroadcast(n, p)
    <3>1. /\ \A m, q \in Nodes : m # n \/ q # p => loop'[m][q] = loop[m][q]
          /\ loop[n][p].pc = "recv" /\ loop'[n][p].pc = "rebroadcast"
      BY <2>2, TakeBroadcastEffect
    <3> QED
      BY <3>1
  <2>3. CASE Rebroadcast(n, p)
    <3>1. /\ \A m, q \in Nodes : m # n \/ q # p => loop'[m][q] = loop[m][q]
          /\ loop[n][p].pc = "rebroadcast" /\ loop'[n][p] \in {Receiving, AwaitingBroadcast}
      BY <2>3, RebroadcastEffect
    <3> QED
      BY <1>0, <3>1
  <2>4. CASE LoopTimesOut(n, p)
    <3>1. /\ \A m, q \in Nodes : m # n \/ q # p => loop'[m][q] = loop[m][q]
          /\ loop[n][p].pc = "unicast" /\ loop'[n][p] = Receiving
      BY <2>4, LoopTimesOutEffect
    <3> QED
      BY <1>0, <3>1
  <2> QED
    BY <1>4, <2>1, <2>2, <2>3, <2>4 DEF LoopStep
<1>5. ASSUME NEW n \in Nodes, NEW p \in Nodes, Ack(n, p)
      PROVE  \A m, q \in Nodes : loop[m][q].pc # "none" <=> loop'[m][q].pc # "none"
  <2>1. acks[n][p] # <<>>
    BY <1>5 DEF Ack
  <2>2. loop[n][p].pc # "none"
    BY <2>1 DEF IInv, LinksInv, Linked
  <2>3. /\ \A m, q \in Nodes : m # n \/ q # p => loop'[m][q] = loop[m][q]
        /\ loop'[n][p] = loop[n][p] \/ loop'[n][p] = Receiving
    BY <1>5, AckLoopEffect
  <2> QED
    BY <1>0, <2>2, <2>3
<1>6. ASSUME NEW n \in Nodes, FinishSend(n) \/ FinishSendPanics(n)
      PROVE  \A m, q \in Nodes : loop[m][q].pc # "none" <=> loop'[m][q].pc # "none"
  <2>1. PICK S : ReturnErr(n, S) /\ S \subseteq Linked(n) \cup {Main}
    BY <1>6, ErrEffect
  <2>2. \A m, q \in Nodes : \/ loop'[m][q] = loop[m][q]
                            \/ m = n /\ q \in Linked(n) /\ loop'[m][q] = Receiving
    BY <2>1, ReturnEffect DEF IInv, TypeOK
  <2> QED
    BY <1>0, <2>2 DEF Linked
<1>7. \/ UNCHANGED loop
      \/ \E n, s \in Nodes : Connect(n, s)
      \/ \E n, p \in Nodes : LoopStep(n, p) \/ LoopTimesOut(n, p) \/ Ack(n, p)
      \/ \E n \in Nodes : FinishSend(n) \/ FinishSendPanics(n)
  BY DEF Next, vars, MainStep, LinkStep, EchoStep, ConnectRefused, AddSeed, AddMember,
         SendHelo, BroadcastRoundOne, SendMembership, MainTimesOut, Transfer, TakeCall,
         SendToMember
<1> QED
  BY <1>2, <1>3, <1>4, <1>5, <1>6, <1>7

(* The states of the main task between accept and accept.                  *)
Greeting == {"add_member", "send_helo", "handshake", "round_one", "broadcast",
             "send_membership", "membership"}

(* How the main tasks move.                                                *)
MainMoves(m) ==
    \/ main'[m] = main[m]
    \/ /\ main[m].pc \in Greeting /\ main'[m].pc \in Greeting
       /\ main'[m].peer = main[m].peer
    \/ main'[m].pc \in {"accept", "stopped"}
    \/ main'[m].pc = "connect" /\ main'[m].peer \in Nodes /\ Joins(m, main'[m].peer)
    \/ /\ main'[m].pc = "add_seed" /\ main'[m].peer \in Linked(m)'
       /\ Joins(m, main'[m].peer)
    \/ /\ main'[m].pc = "add_member" /\ main'[m].peer \in Linked(m)'
       /\ Joins(main'[m].peer, m)

MainMover(n) ==
    \/ ConnectRefused(n) \/ AddSeed(n) \/ AddMember(n) \/ SendHelo(n)
    \/ SendMembership(n) \/ BroadcastRoundOne(n) \/ MainTimesOut(n)
    \/ FinishSend(n) \/ FinishSendPanics(n)

LEMMA MainMovers ==
    ASSUME [Next]_vars
    PROVE  \/ UNCHANGED <<main, members>>
           \/ \E n \in Nodes : MainMover(n)
           \/ \E n, p \in Nodes : Connect(n, p) \/ Ack(n, p)
<1>1. \A n \in Nodes : MainStep(n) \/ MainTimesOut(n)
                        => MainMover(n) \/ \E p \in Nodes : Connect(n, p)
  BY DEF MainStep, MainMover
<1>2. \A n \in Nodes : EchoStep(n) => UNCHANGED <<main, members>> \/ MainMover(n)
  BY DEF EchoStep, TakeCall, SendToMember, MainMover
<1>3. \A n, p \in Nodes : LoopStep(n, p) \/ Transfer(n, p) \/ LoopTimesOut(n, p)
                           => UNCHANGED <<main, members>>
  BY DEF LoopStep, TakeUnicast, TakeBroadcast, Rebroadcast, LoopTimesOut, Transfer
<1> QED
  BY <1>1, <1>2, <1>3 DEF Next, vars, LinkStep

LEMMA MainMovesStep ==
    ASSUME IInv, [Next]_vars, NEW m \in Nodes
    PROVE  MainMoves(m)
<1>0. Shapes /\ main \in [Nodes -> MainStates]
  BY DEF IInv, TypeOK, Shapes
<1>1. CASE UNCHANGED main
  BY <1>1 DEF MainMoves
<1>2. ASSUME NEW n \in Nodes, ConnectRefused(n) PROVE MainMoves(m)
  <2>1. main'[n].pc = "stopped" /\ (m # n => main'[m] = main[m])
    BY <1>2, ConnectRefusedEffect
  <2> QED
    BY <2>1 DEF MainMoves
<1>3. ASSUME NEW n \in Nodes, NEW s \in Nodes, Connect(n, s) PROVE MainMoves(m)
  <2>1. /\ main[n].pc = "connect" /\ main[n].peer = s
        /\ main'[n].pc = "add_seed" /\ main'[n].peer = s
        /\ main'[s].pc = "add_member" /\ main'[s].peer = n
        /\ (m # n /\ m # s) => main'[m] = main[m]
        /\ loop'[n][s] = Receiving /\ loop'[s][n] = Receiving
    BY <1>3, ConnectEffect
  <2>2. Joins(n, s)
    BY <2>1 DEF IInv, JoinsInv
  <2>3. s \in Linked(n)' /\ n \in Linked(s)'
    BY <2>1, StateTypes DEF Linked
  <2> QED
    BY <2>1, <2>2, <2>3 DEF MainMoves
<1>4. ASSUME NEW n \in Nodes, AddSeed(n) PROVE MainMoves(m)
  <2>1. /\ \/ main'[n].pc = "accept"
           \/ /\ main'[n].pc = "connect" /\ main'[n].peer \in Nodes
              /\ Joins(n, main'[n].peer)
        /\ m # n => main'[m] = main[m]
    BY <1>4, AddSeedEffect
  <2> QED
    BY <2>1 DEF MainMoves
<1>5. ASSUME NEW n \in Nodes, AddMember(n) PROVE MainMoves(m)
  <2>1. /\ main[n].pc = "add_member" /\ main'[n].pc = "send_helo"
        /\ main'[n].peer = main[n].peer /\ (m # n => main'[m] = main[m])
    BY <1>5, AddMemberEffect
  <2> QED
    BY <2>1 DEF MainMoves, Greeting
<1>6. ASSUME NEW n \in Nodes, SendHelo(n) \/ SendMembership(n) PROVE MainMoves(m)
  <2>1. /\ \/ main[n].pc = "send_helo" /\ main'[n].pc = "handshake"
           \/ main[n].pc = "send_membership" /\ main'[n].pc = "membership"
        /\ main'[n].peer = main[n].peer /\ (m # n => main'[m] = main[m])
    BY <1>6, MainSendEffect
  <2> QED
    BY <2>1 DEF MainMoves, Greeting
<1>7. ASSUME NEW n \in Nodes, BroadcastRoundOne(n) PROVE MainMoves(m)
  <2>1. /\ main[n].pc = "round_one" /\ main'[n].pc \in {"send_membership", "broadcast"}
        /\ main'[n].peer = main[n].peer /\ (m # n => main'[m] = main[m])
    BY <1>7, RoundOneEffect
  <2> QED
    BY <2>1 DEF MainMoves, Greeting
<1>8. ASSUME NEW n \in Nodes, main'[n] = AfterSend(main[n]), m # n => main'[m] = main[m]
      PROVE  MainMoves(m)
  <2>1. main[n] \in MainStates
    BY <1>0
  <2>2. \/ /\ main[n].pc = "handshake" /\ main'[n].pc = "round_one"
           /\ main'[n].peer = main[n].peer
        \/ main'[n].pc = "accept"
    BY <1>8, <2>1, AfterSendPc
  <2> QED
    BY <1>8, <2>2 DEF MainMoves, Greeting
<1>9. ASSUME NEW n \in Nodes, MainTimesOut(n) PROVE MainMoves(m)
  BY <1>8, <1>9, MainTimesOutEffect
<1>10. ASSUME NEW n \in Nodes, NEW p \in Nodes, Ack(n, p) PROVE MainMoves(m)
  <2>1. /\ Woken(n, p) = Main => main'[n] = AfterSend(main[n])
        /\ m # n \/ Woken(n, p) # Main => main'[m] = main[m]
    BY <1>10, AckMainEffect
  <2>2. CASE Woken(n, p) = Main
    BY <1>8, <2>1, <2>2
  <2>3. CASE Woken(n, p) # Main
    BY <2>1, <2>3 DEF MainMoves
  <2> QED
    BY <2>2, <2>3
<1>11. ASSUME NEW n \in Nodes, FinishSend(n) \/ FinishSendPanics(n) PROVE MainMoves(m)
  <2>1. PICK S : /\ ReturnErr(n, S) /\ S \subseteq Linked(n) \cup {Main}
                 /\ Main \in S => main[n].pc = "broadcast"
    BY <1>11, ErrEffect
  <2>2. /\ main'[m].peer = main[m].peer
        /\ \/ main'[m] = main[m]
           \/ m = n /\ Main \in S /\ main'[m].pc = "send_membership"
    BY <1>0, <2>1, ReturnEffect
  <2> QED
    BY <2>1, <2>2 DEF MainMoves, Greeting
<1>12. \/ UNCHANGED main
       \/ \E n \in Nodes : MainMover(n)
       \/ \E n, p \in Nodes : Connect(n, p) \/ Ack(n, p)
  BY MainMovers
<1> QED
  BY <1>1, <1>2, <1>3, <1>4, <1>5, <1>6, <1>7, <1>9, <1>10, <1>11, <1>12
     DEF MainMover

(* Memberships only grow, by peers with a link.                            *)
LEMMA MembersStep ==
    ASSUME IInv, [Next]_vars, NEW m \in Nodes
    PROVE  members'[m] \subseteq Linked(m)'
<1>1. Linked(m) \subseteq Linked(m)' /\ members[m] \subseteq Linked(m) /\ TypeOK
  BY LinkedStep DEF IInv, TypeOK
<1>2. CASE UNCHANGED members
  BY <1>1, <1>2
<1>3. ASSUME NEW n \in Nodes, AddSeed(n) \/ AddMember(n)
      PROVE  members'[m] \subseteq Linked(m)'
  <2>1. /\ main[n].pc \in {"add_seed", "add_member"}
        /\ members'[n] = members[n] \cup {main[n].peer}
        /\ m # n => members'[m] = members[m]
    BY <1>3, AddSeedEffect, AddMemberEffect
  <2>2. main[n].peer \in Linked(n)
    BY <1>1, <2>1, PeerLinked
  <2> QED
    BY <1>1, <2>1, <2>2
<1>4. \/ members' = members
      \/ \E n \in Nodes : AddSeed(n) \/ AddMember(n)
  <2>1. \A n \in Nodes : MainStep(n) => AddSeed(n) \/ AddMember(n) \/ members' = members
    BY DEF MainStep, ConnectRefused, Connect, SendHelo, BroadcastRoundOne, SendMembership
  <2>2. \A n \in Nodes : EchoStep(n) \/ MainTimesOut(n) => members' = members
    BY DEF EchoStep, TakeCall, SendToMember, FinishSend, FinishSendPanics, MainTimesOut
  <2>3. \A n, p \in Nodes : LoopStep(n, p) \/ LinkStep(n, p) \/ LoopTimesOut(n, p)
                              => members' = members
    BY DEF LoopStep, LinkStep, TakeUnicast, TakeBroadcast, Rebroadcast, LoopTimesOut,
           Transfer, Ack
  <2> QED
    BY <2>1, <2>2, <2>3 DEF Next, vars
<1> QED
  BY <1>2, <1>3, <1>4

(* Links and tasks are between nodes of which one joins the other.         *)
LEMMA JoinsStep == IInv /\ [Next]_vars => JoinsInv'
<1> SUFFICES ASSUME IInv, [Next]_vars, NEW m \in Nodes
             PROVE  /\ main'[m].pc \in {"connect", "add_seed"} => Joins(m, main'[m].peer)
                    /\ main'[m].pc \notin {"connect", "add_seed", "accept", "stopped"}
                         => Joins(main'[m].peer, m)
                    /\ \A p \in Linked(m)' : Joins(m, p) \/ Joins(p, m)
  BY DEF JoinsInv, Joins
<1>1. /\ main[m].pc \in {"connect", "add_seed"} => Joins(m, main[m].peer)
      /\ main[m].pc \notin {"connect", "add_seed", "accept", "stopped"}
           => Joins(main[m].peer, m)
      /\ \A p \in Linked(m) : Joins(m, p) \/ Joins(p, m)
  BY DEF IInv, JoinsInv
<1>2. MainMoves(m)
  BY MainMovesStep
<1>3. /\ main'[m].pc \in {"connect", "add_seed"} => Joins(m, main'[m].peer)
      /\ main'[m].pc \notin {"connect", "add_seed", "accept", "stopped"}
           => Joins(main'[m].peer, m)
  BY ONLY <1>1, <1>2 DEF MainMoves, Greeting
<1>4. \A p \in Linked(m)' : Joins(m, p) \/ Joins(p, m)
  <2>1. CASE \A n, s \in Nodes : ~Connect(n, s)
    BY <1>1, <2>1, LinkedStep
  <2>2. ASSUME NEW n \in Nodes, NEW s \in Nodes, Connect(n, s)
        PROVE  \A p \in Linked(m)' : Joins(m, p) \/ Joins(p, m)
    <3>1. /\ main[n].pc = "connect" /\ main[n].peer = s
          /\ \A q \in Nodes : ~(m = n /\ q = s) /\ ~(m = s /\ q = n)
                                => loop'[m][q] = loop[m][q]
      BY <2>2, ConnectEffect
    <3>2. Joins(n, s)
      BY <3>1 DEF IInv, JoinsInv
    <3> QED
      BY <1>1, <3>1, <3>2 DEF Linked
  <2> QED
    BY <2>1, <2>2
<1> QED
  BY <1>3, <1>4

(* How the echo broadcast actor of a node moves.                           *)
EchoMoves(m) ==
    \/ echo'[m] = echo[m]
    \/ /\ echo[m].pc = "sending" /\ echo[m].left = {}
       /\ echo'[m].pc \in {"recv", "panicked"}
    \/ /\ echo[m].pc = "recv" /\ calls[m] # <<>> /\ 1 \in DOMAIN calls[m]
       /\ calls[m][1] \in CallsOfEcho
       /\ echo'[m] = EchoSending(calls[m][1], calls[m][1].members, NoNode)
    \/ /\ echo[m].pc = "sending" /\ echo[m].to = NoNode
       /\ \E p \in echo[m].left : echo'[m] = EchoSending(echo[m].call, echo[m].left, p)
    \/ /\ echo[m].pc = "sending" /\ echo[m].to \in Nodes
       /\ Ack(m, echo[m].to) /\ Woken(m, echo[m].to) = Echo
       /\ echo'[m] = EchoSending(echo[m].call, echo[m].left \ {echo[m].to}, NoNode)
       /\ Contains(got[echo[m].to][m], echo[m].call.msg)
       /\ tracked'[m] = tracked[m] \cup {echo[m].call.msg.mid}

LEMMA EchoMovesStep ==
    ASSUME IInv, [Next]_vars, NEW m \in Nodes
    PROVE  EchoMoves(m)
<1>1. CASE UNCHANGED echo
  BY <1>1 DEF EchoMoves
<1>2. ASSUME NEW n \in Nodes, TakeCall(n) PROVE EchoMoves(m)
  <2>1. /\ echo[n].pc = "recv" /\ calls[n] # <<>> /\ 1 \in DOMAIN calls[n]
        /\ calls[n][1] \in CallsOfEcho
        /\ echo'[n] = EchoSending(calls[n][1], calls[n][1].members, NoNode)
        /\ m # n => echo'[m] = echo[m]
    BY <1>2, TakeCallEffect
  <2> QED
    BY <2>1 DEF EchoMoves
<1>3. ASSUME NEW n \in Nodes, NEW p \in Nodes, SendToMember(n, p) PROVE EchoMoves(m)
  <2>1. /\ echo[n].pc = "sending" /\ echo[n].to = NoNode /\ p \in echo[n].left
        /\ echo'[n] = EchoSending(echo[n].call, echo[n].left, p)
        /\ m # n => echo'[m] = echo[m]
    BY <1>3, SendToMemberEffect
  <2> QED
    BY <2>1 DEF EchoMoves
<1>4. ASSUME NEW n \in Nodes, FinishSend(n) \/ FinishSendPanics(n) PROVE EchoMoves(m)
  <2>1. /\ echo'[n] \in {EchoIdle, EchoPanicked}
        /\ echo[n].pc = "sending" /\ echo[n].left = {}
        /\ m # n => echo'[m] = echo[m]
    BY <1>4, FinishSendEffect, FinishSendPanicsEffect
  <2> QED
    BY <2>1, StateTypes DEF EchoMoves
<1>5. ASSUME NEW n \in Nodes, NEW p \in Nodes, Ack(n, p) PROVE EchoMoves(m)
  <2>1. /\ Woken(n, p) = Echo =>
                /\ echo[n].pc = "sending" /\ echo[n].to = p
                /\ Contains(got[p][n], echo[n].call.msg)
                /\ echo'[n] = EchoSending(echo[n].call, echo[n].left \ {p}, NoNode)
                /\ tracked'[n] = tracked[n] \cup {echo[n].call.msg.mid}
        /\ m # n \/ Woken(n, p) # Echo => echo'[m] = echo[m]
    BY <1>5, AckEchoEffect
  <2> QED
    BY <1>5, <2>1 DEF EchoMoves
<1>6. \/ echo' = echo
      \/ \E n \in Nodes : TakeCall(n) \/ FinishSend(n) \/ FinishSendPanics(n)
      \/ \E n, p \in Nodes : SendToMember(n, p) \/ Ack(n, p)
  <2>1. \A n \in Nodes : MainStep(n) \/ MainTimesOut(n) => echo' = echo
    BY DEF MainStep, ConnectRefused, Connect, AddSeed, AddMember, SendHelo,
           BroadcastRoundOne, SendMembership, MainTimesOut, echoVars
  <2>2. \A n, p \in Nodes : LoopStep(n, p) \/ Transfer(n, p) \/ LoopTimesOut(n, p)
                              => echo' = echo
    BY DEF LoopStep, TakeUnicast, TakeBroadcast, Rebroadcast, LoopTimesOut,
           Transfer, echoVars
  <2> QED
    BY <2>1, <2>2 DEF Next, vars, EchoStep, LinkStep
<1> QED
  BY <1>1, <1>2, <1>3, <1>4, <1>5, <1>6

(* How an event loop moves.                                                *)
LoopMoves(m, q) ==
    \/ loop'[m][q] = loop[m][q]
    \/ /\ loop'[m][q].members = {}
       /\ \/ loop'[m][q].pc = "recv"
          \/ loop'[m][q].pc = "unicast" /\ inbox[m][q] # <<>>
          \/ loop'[m][q].pc = "broadcast" /\ loop[m][q].pc = "rebroadcast"
    \/ /\ loop[m][q].pc = "recv" /\ inbox[m][q] # <<>>
       /\ loop'[m][q].pc = "rebroadcast" /\ loop'[m][q].msg \in Broadcasts
       /\ loop'[m][q].members = members[m]

LEMMA LoopMovesStep ==
    ASSUME IInv, [Next]_vars, NEW m \in Nodes, NEW q \in Nodes
    PROVE  LoopMoves(m, q)
<1>0. /\ Receiving.pc = "recv" /\ Receiving.members = {}
      /\ AwaitingBroadcast.pc = "broadcast" /\ AwaitingBroadcast.members = {}
  BY StateTypes
<1>1. CASE UNCHANGED loop
  BY <1>1 DEF LoopMoves
<1>2. ASSUME NEW n \in Nodes, NEW s \in Nodes, Connect(n, s) PROVE LoopMoves(m, q)
  <2>1. \/ loop'[m][q] = loop[m][q]
        \/ loop'[m][q] = Receiving
    BY <1>2, ConnectEffect
  <2> QED
    BY <1>0, <2>1 DEF LoopMoves
<1>3. ASSUME NEW n \in Nodes, NEW p \in Nodes, TakeUnicast(n, p) PROVE LoopMoves(m, q)
  <2>1. /\ loop' = loop \/ (loop'[n][p].pc = "unicast" /\ loop'[n][p].members = {})
        /\ inbox[n][p] # <<>>
        /\ m # n \/ q # p => loop'[m][q] = loop[m][q]
    BY <1>3, TakeUnicastEffect
  <2> QED
    BY <2>1 DEF LoopMoves
<1>4. ASSUME NEW n \in Nodes, NEW p \in Nodes, TakeBroadcast(n, p) PROVE LoopMoves(m, q)
  <2>1. /\ loop[n][p].pc = "recv" /\ inbox[n][p] # <<>>
        /\ loop'[n][p].pc = "rebroadcast" /\ loop'[n][p].msg \in Broadcasts
        /\ loop'[n][p].members = members[n]
        /\ m # n \/ q # p => loop'[m][q] = loop[m][q]
    BY <1>4, TakeBroadcastEffect
  <2> QED
    BY <2>1 DEF LoopMoves
<1>5. ASSUME NEW n \in Nodes, NEW p \in Nodes, Rebroadcast(n, p) PROVE LoopMoves(m, q)
  <2>1. /\ loop'[n][p] \in {Receiving, AwaitingBroadcast}
        /\ loop[n][p].pc = "rebroadcast"
        /\ m # n \/ q # p => loop'[m][q] = loop[m][q]
    BY <1>5, RebroadcastEffect
  <2> QED
    BY <1>0, <2>1 DEF LoopMoves
<1>6. ASSUME NEW n \in Nodes, NEW p \in Nodes, LoopTimesOut(n, p) PROVE LoopMoves(m, q)
  <2>1. /\ loop'[n][p] = Receiving
        /\ m # n \/ q # p => loop'[m][q] = loop[m][q]
    BY <1>6, LoopTimesOutEffect
  <2> QED
    BY <1>0, <2>1 DEF LoopMoves
<1>7. ASSUME NEW n \in Nodes, NEW p \in Nodes, Ack(n, p) PROVE LoopMoves(m, q)
  <2>1. loop'[m][q] = loop[m][q] \/ loop'[m][q] = Receiving
    BY <1>7, AckLoopEffect
  <2> QED
    BY <1>0, <2>1 DEF LoopMoves
<1>8. ASSUME NEW n \in Nodes, FinishSend(n) \/ FinishSendPanics(n) PROVE LoopMoves(m, q)
  <2>1. PICK S : ReturnErr(n, S) /\ S \subseteq Linked(n) \cup {Main}
    BY <1>8, ErrEffect
  <2>2. loop'[m][q] = loop[m][q] \/ loop'[m][q] = Receiving
    BY <2>1, ReturnEffect DEF IInv, TypeOK
  <2> QED
    BY <1>0, <2>2 DEF LoopMoves
<1>9. \/ loop' = loop
      \/ \E n \in Nodes : FinishSend(n) \/ FinishSendPanics(n)
      \/ \E n, p \in Nodes : \/ Connect(n, p) \/ Ack(n, p) \/ TakeUnicast(n, p)
                             \/ TakeBroadcast(n, p) \/ Rebroadcast(n, p) \/ LoopTimesOut(n, p)
  <2>1. \A n \in Nodes : MainStep(n) \/ MainTimesOut(n)
                           => loop' = loop \/ \E p \in Nodes : Connect(n, p)
    BY DEF MainStep, ConnectRefused, AddSeed, AddMember, SendHelo,
           BroadcastRoundOne, SendMembership, MainTimesOut
  <2>2. \A n \in Nodes : EchoStep(n) => loop' = loop \/ FinishSend(n) \/ FinishSendPanics(n)
    BY DEF EchoStep, TakeCall, SendToMember
  <2>3. \A n, p \in Nodes : Transfer(n, p) => loop' = loop
    BY DEF Transfer
  <2> QED
    BY <2>1, <2>2, <2>3 DEF Next, vars, LoopStep, LinkStep
<1> QED
  BY <1>1, <1>2, <1>3, <1>4, <1>5, <1>6, <1>7, <1>8, <1>9

(* Where the calls of the echo broadcast actor of a node come from.        *)
CallsMoves(m) ==
    \A i \in DOMAIN calls'[m] :
        \/ \E j \in DOMAIN calls[m] : calls'[m][i] = calls[m][j]
        \/ /\ calls'[m][i] = MainCall(m) /\ MainCall(m) \in CallsOfEcho
           /\ main[m].pc = "round_one"
        \/ \E p \in Nodes : loop[m][p].pc = "rebroadcast" /\ calls'[m][i] = LoopCall(m, p)

LEMMA CallsMovesStep ==
    ASSUME IInv, [Next]_vars, NEW m \in Nodes
    PROVE  CallsMoves(m)
<1>0. Shapes
  BY DEF IInv, TypeOK
<1>1. ASSUME calls'[m] = calls[m] PROVE CallsMoves(m)
  BY <1>1 DEF CallsMoves
<1>2. ASSUME NEW c, NEW n \in Nodes, c \in CallsOfEcho,
             calls' = [calls EXCEPT ![n] = Append(@, c)],
             \/ c = MainCall(n) /\ main[n].pc = "round_one"
             \/ \E p \in Nodes : loop[n][p].pc = "rebroadcast" /\ c = LoopCall(n, p)
      PROVE  CallsMoves(m)
  <2>1. /\ calls'[n] = Append(calls[n], c) /\ calls[n] \in Seq(CallsOfEcho)
        /\ m # n => calls'[m] = calls[m]
    BY <1>0, <1>2, CallEffect
  <2>2. CASE m # n
    BY <1>1, <2>1, <2>2
  <2>3. CASE m = n
    <3>1. ASSUME NEW i \in DOMAIN calls'[n]
          PROVE  calls'[n][i] = c \/ \E j \in DOMAIN calls[n] : calls'[n][i] = calls[n][j]
      <4>1. /\ DOMAIN calls[n] = 1..Len(calls[n]) /\ DOMAIN calls'[n] = 1..Len(calls[n]) + 1
            /\ \A j \in 1..Len(calls[n]) : calls'[n][j] = calls[n][j]
            /\ calls'[n][Len(calls[n]) + 1] = c /\ Len(calls[n]) \in Nat
        BY <1>2, <2>1, AppendType
      <4>2. i \in 1..Len(calls[n]) \/ i = Len(calls[n]) + 1
        BY <4>1
      <4> QED
        BY <4>1, <4>2
    <3> QED
      BY <1>2, <2>3, <3>1 DEF CallsMoves
  <2> QED
    BY <2>2, <2>3
<1>3. ASSUME NEW n \in Nodes, BroadcastRoundOne(n) PROVE CallsMoves(m)
  <2>1. /\ MainCall(n) \in CallsOfEcho /\ main[n].pc = "round_one"
        /\ calls' = calls \/ calls' = [calls EXCEPT ![n] = Append(@, MainCall(n))]
    BY <1>3, RoundOneEffect
  <2> QED
    BY <1>1, <1>2, <2>1
<1>4. ASSUME NEW n \in Nodes, NEW p \in Nodes, Rebroadcast(n, p) PROVE CallsMoves(m)
  <2>1. /\ LoopCall(n, p) \in CallsOfEcho /\ loop[n][p].pc = "rebroadcast"
        /\ calls' = calls \/ calls' = [calls EXCEPT ![n] = Append(@, LoopCall(n, p))]
    BY <1>4, RebroadcastEffect
  <2> QED
    BY <1>1, <1>2, <2>1
<1>5. ASSUME NEW n \in Nodes, TakeCall(n) PROVE CallsMoves(m)
  <2>1. /\ calls[n] # <<>> /\ calls[n] \in Seq(CallsOfEcho)
        /\ calls'[n] = Tail(calls[n]) /\ (m # n => calls'[m] = calls[m])
    BY <1>5, TakeCallEffect
  <2>2. CASE m # n
    BY <1>1, <2>1, <2>2
  <2>3. CASE m = n
    <3>1. /\ Len(calls[n]) \in Nat \ {0} /\ DOMAIN calls[n] = 1..Len(calls[n])
          /\ DOMAIN calls'[n] = 1..Len(calls[n]) - 1
          /\ \A i \in 1..Len(calls[n]) - 1 : calls'[n][i] = calls[n][i + 1]
      BY <2>1, TailType
    <3>2. \A i \in DOMAIN calls'[n] : i + 1 \in DOMAIN calls[n] /\ calls'[n][i] = calls[n][i + 1]
      BY <3>1
    <3> QED
      BY <2>3, <3>2 DEF CallsMoves
  <2> QED
    BY <2>2, <2>3
<1>6. ASSUME NEW n \in Nodes, FinishSendPanics(n) PROVE CallsMoves(m)
  <2>1. calls'[n] = <<>> /\ (m # n => calls'[m] = calls[m])
    BY <1>6, FinishSendPanicsEffect
  <2>2. m = n => DOMAIN calls'[m] = {}
    BY <2>1
  <2> QED
    BY <1>1, <2>1, <2>2 DEF CallsMoves
<1>7. \/ calls' = calls
      \/ \E n \in Nodes : BroadcastRoundOne(n) \/ TakeCall(n) \/ FinishSendPanics(n)
      \/ \E n, p \in Nodes : Rebroadcast(n, p)
  <2>1. \A n \in Nodes : MainStep(n) \/ MainTimesOut(n) => calls' = calls \/ BroadcastRoundOne(n)
    BY DEF MainStep, ConnectRefused, Connect, AddSeed, AddMember, SendHelo,
           SendMembership, MainTimesOut, echoVars
  <2>2. \A n \in Nodes : EchoStep(n) => calls' = calls \/ TakeCall(n) \/ FinishSendPanics(n)
    BY DEF EchoStep, FinishSend, SendToMember
  <2>3. \A n, p \in Nodes : TakeUnicast(n, p) \/ TakeBroadcast(n, p) \/ LinkStep(n, p)
                              \/ LoopTimesOut(n, p) => calls' = calls
    BY DEF TakeUnicast, TakeBroadcast, LinkStep, LoopTimesOut, Transfer, Ack, echoVars
  <2> QED
    BY <2>1, <2>2, <2>3 DEF Next, vars, LoopStep
<1> QED
  BY <1>1, <1>3, <1>4, <1>5, <1>6, <1>7

(* Where its waiters come from.                                            *)
LEMMA WaitersStep ==
    ASSUME IInv, [Next]_vars, NEW m \in Nodes, NEW w \in waiters'[m]
    PROVE  \/ w \in waiters[m]
           \/ /\ echo[m].pc = "sending" /\ echo[m].call \in CallsOfEcho
              /\ w = <<echo[m].call.msg.mid, echo[m].call.by>>
<1>1. CASE waiters' = waiters
  BY <1>1
<1>2. ASSUME NEW n \in Nodes, FinishSend(n)
      PROVE  \/ w \in waiters[m]
             \/ /\ echo[m].pc = "sending" /\ echo[m].call \in CallsOfEcho
                /\ w = <<echo[m].call.msg.mid, echo[m].call.by>>
  <2>1. /\ echo[n].pc = "sending" /\ echo[n].call \in CallsOfEcho
        /\ waiters'[n] = (waiters[n] \ WaitersFor(n, echo[n].call.msg.mid))
                           \cup {<<echo[n].call.msg.mid, echo[n].call.by>>}
        /\ m # n => waiters'[m] = waiters[m]
    BY <1>2, FinishSendEffect
  <2> QED
    BY <2>1
<1>3. ASSUME NEW n \in Nodes, FinishSendPanics(n) PROVE w \in waiters[m]
  <2>1. waiters'[n] = {} /\ (m # n => waiters'[m] = waiters[m])
    BY <1>3, FinishSendPanicsEffect
  <2> QED
    BY <2>1
<1>4. \/ waiters' = waiters
      \/ \E n \in Nodes : FinishSend(n) \/ FinishSendPanics(n)
  <2>1. \A n \in Nodes : MainStep(n) \/ MainTimesOut(n) => waiters' = waiters
    BY DEF MainStep, ConnectRefused, Connect, AddSeed, AddMember, SendHelo,
           BroadcastRoundOne, SendMembership, MainTimesOut, echoVars
  <2>2. \A n \in Nodes : EchoStep(n) => waiters' = waiters \/ FinishSend(n) \/ FinishSendPanics(n)
    BY DEF EchoStep, TakeCall, SendToMember
  <2>3. \A n, p \in Nodes : LoopStep(n, p) \/ LinkStep(n, p)
                              \/ LoopTimesOut(n, p) => waiters' = waiters
    BY DEF TakeUnicast, TakeBroadcast, Rebroadcast, LoopStep, LinkStep, LoopTimesOut,
           Transfer, Ack, echoVars
  <2> QED
    BY <2>1, <2>2, <2>3 DEF Next, vars
<1> QED
  BY <1>1, <1>2, <1>3, <1>4

(* How a link moves in one direction: a send, the arrival of a message or  *)
(* of an ack, or a timeout.                                                *)
Sends(n, p, msg, by) ==
    /\ SendReliably(n, p, msg, by) /\ msg \in Messages /\ p \in Linked(n)
    /\ UNCHANGED <<acks, got>>

LinkMoves ==
    \/ UNCHANGED <<outbox, acks, got>>
    \/ \E n, p \in Nodes, msg \in Messages : Sends(n, p, msg, Main)
         /\ (SendHelo(n) \/ SendMembership(n)) /\ p = main[n].peer
    \/ \E n, p \in Nodes : Sends(n, p, Handshake("oleh"), Loop) /\ TakeUnicast(n, p)
    \/ \E n, p \in Nodes : Sends(n, p, echo[n].call.msg, Echo) /\ SendToMember(n, p)
    \/ \E n, p \in Nodes : Transfer(n, p)
    \/ \E n, p \in Nodes : Ack(n, p)
    \/ \E n \in Nodes : MainTimesOut(n) /\ Forget(n, main[n].peer, Main) /\ got' = got
    \/ \E n, p \in Nodes : LoopTimesOut(n, p) /\ Forget(n, p, Loop) /\ got' = got

LEMMA LinkMovesStep == IInv /\ [Next]_vars => LinkMoves
<1> SUFFICES ASSUME IInv, [Next]_vars PROVE LinkMoves
  OBVIOUS
<1>0. TypeOK
  BY DEF IInv
<1>1. CASE UNCHANGED <<outbox, acks, got>>
  BY <1>1 DEF LinkMoves
<1>2. ASSUME NEW n \in Nodes, SendHelo(n) \/ SendMembership(n) PROVE LinkMoves
  <2>1. PICK msg \in Messages : /\ SendReliably(n, main[n].peer, msg, Main)
                                /\ UNCHANGED <<acks, got>>
                                /\ main[n].pc \in {"send_helo", "send_membership"}
    BY <1>2, MainSendEffect
  <2>2. main[n].peer \in Nodes /\ main[n].peer \in Linked(n)
    BY <1>0, <2>1, PeerLinked
  <2>3. Sends(n, main[n].peer, msg, Main)
    BY <2>1, <2>2 DEF Sends
  <2> QED
    BY <1>2, <2>2, <2>3 DEF LinkMoves
<1>3. ASSUME NEW n \in Nodes, NEW p \in Nodes, TakeUnicast(n, p) PROVE LinkMoves
  <2>1. /\ loop[n][p].pc = "recv" /\ UNCHANGED <<acks, got>>
        /\ outbox' = outbox \/ SendReliably(n, p, Handshake("oleh"), Loop)
    BY <1>3, TakeUnicastEffect
  <2>2. outbox' # outbox => Sends(n, p, Handshake("oleh"), Loop)
    BY <2>1, MessageKinds DEF Sends, Linked
  <2> QED
    BY <1>1, <1>3, <2>1, <2>2 DEF LinkMoves
<1>4. ASSUME NEW n \in Nodes, NEW p \in Nodes, SendToMember(n, p) PROVE LinkMoves
  <2>1. /\ echo[n].pc = "sending" /\ p \in echo[n].left /\ echo[n].call.msg \in Messages
        /\ SendReliably(n, p, echo[n].call.msg, Echo) /\ UNCHANGED <<acks, got>>
    BY <1>4, SendToMemberEffect
  <2>2. p \in Linked(n)
    BY <2>1 DEF IInv, LinksInv
  <2> QED
    BY <1>4, <2>1, <2>2 DEF LinkMoves, Sends
<1>5. ASSUME NEW n \in Nodes, NEW p \in Nodes, LinkStep(n, p) PROVE LinkMoves
  BY <1>5 DEF LinkMoves, LinkStep
<1>6. ASSUME NEW n \in Nodes, MainTimesOut(n) PROVE LinkMoves
  BY <1>6 DEF LinkMoves, MainTimesOut
<1>7. ASSUME NEW n \in Nodes, NEW p \in Nodes, LoopTimesOut(n, p) PROVE LinkMoves
  BY <1>7 DEF LinkMoves, LoopTimesOut
<1>8. \/ UNCHANGED <<outbox, acks, got>>
      \/ \E n \in Nodes : SendHelo(n) \/ SendMembership(n) \/ MainTimesOut(n)
      \/ \E n, p \in Nodes : TakeUnicast(n, p) \/ SendToMember(n, p) \/ LinkStep(n, p)
                               \/ LoopTimesOut(n, p)
  <2>1. \A n \in Nodes : MainStep(n) => \/ UNCHANGED <<outbox, acks, got>>
                                        \/ SendHelo(n) \/ SendMembership(n)
    BY DEF MainStep, ConnectRefused, Connect, AddSeed, AddMember, BroadcastRoundOne, linkVars
  <2>2. \A n \in Nodes : EchoStep(n) => \/ UNCHANGED <<outbox, acks, got>>
                                        \/ \E p \in Nodes : SendToMember(n, p)
    BY DEF EchoStep, TakeCall, FinishSend, FinishSendPanics, linkVars
  <2>3. \A n, p \in Nodes : TakeBroadcast(n, p) \/ Rebroadcast(n, p)
                              => UNCHANGED <<outbox, acks, got>>
    BY DEF TakeBroadcast, Rebroadcast, linkVars
  <2> QED
    BY <2>1, <2>2, <2>3 DEF Next, vars, LoopStep
<1> QED
  BY <1>1, <1>2, <1>3, <1>4, <1>5, <1>6, <1>7, <1>8

(* What arrives at a node came over a link.                                *)
LEMMA TrafficStep ==
    ASSUME IInv, [Next]_vars, NEW m \in Nodes, NEW q \in Nodes
    PROVE  /\ outbox'[m][q] # <<>> => outbox[m][q] # <<>> \/ q \in Linked(m)
           /\ acks'[m][q] # <<>> => acks[m][q] # <<>> \/ outbox[m][q] # <<>>
<1>0. Shapes /\ LinkMoves
  BY LinkMovesStep DEF IInv, TypeOK
<1> DEFINE Goal == /\ outbox'[m][q] # <<>> => outbox[m][q] # <<>> \/ q \in Linked(m)
                   /\ acks'[m][q] # <<>> => acks[m][q] # <<>> \/ outbox[m][q] # <<>>
<1>1. ASSUME UNCHANGED <<outbox, acks, got>> PROVE Goal
  BY <1>1
<1>2. ASSUME NEW n \in Nodes, NEW p \in Nodes, NEW msg, NEW by \in Tasks,
             Sends(n, p, msg, by)
      PROVE  Goal
  <2>0. /\ acks' = acks /\ p \in Linked(n) /\ msg \in Messages
        /\ SendReliably(n, p, msg, by)
    BY <1>2 DEF Sends
  <2>1. m # n \/ q # p => outbox'[m][q] = outbox[m][q]
    BY <1>0, <2>0, SendFrame
  <2> QED
    BY <2>0, <2>1
<1>3. ASSUME NEW n \in Nodes, NEW p \in Nodes, Transfer(n, p) PROVE Goal
  <2>1. /\ outbox[n][p] # <<>>
        /\ m # n \/ q # p => outbox'[m][q] = outbox[m][q] /\ acks'[m][q] = acks[m][q]
    BY <1>0, <1>3, TransferEffect
  <2> QED
    BY <2>1
<1>4. ASSUME NEW n \in Nodes, NEW p \in Nodes, Ack(n, p) PROVE Goal
  <2>1. /\ outbox' = outbox /\ acks[n][p] # <<>>
        /\ m # n \/ q # p => acks'[m][q] = acks[m][q]
    BY <1>4, AckEffect
  <2> QED
    BY <2>1
<1>5. ASSUME NEW n \in Nodes, NEW p \in Nodes, NEW by \in Tasks, Forget(n, p, by)
      PROVE  Goal
  <2>1. /\ m # n \/ q # p => outbox'[m][q] = outbox[m][q] /\ acks'[m][q] = acks[m][q]
        /\ outbox'[n][p] = <<>> <=> outbox[n][p] = <<>>
        /\ acks'[n][p] = <<>> <=> acks[n][p] = <<>>
    BY <1>0, <1>5, ForgetEffect
  <2> QED
    BY <2>1
<1>6. ASSUME NEW n \in Nodes, MainTimesOut(n), Forget(n, main[n].peer, Main) PROVE Goal
  <2>1. main[n].peer \in Nodes
    BY <1>6, MainTimesOutEffect
  <2> QED
    BY <1>5, <1>6, <2>1 DEF Tasks
<1>7. Main \in Tasks /\ Loop \in Tasks /\ Echo \in Tasks
  BY DEF Tasks
<1>8. \/ UNCHANGED <<outbox, acks, got>>
      \/ \E n, p \in Nodes : \E by \in Tasks : \E msg : Sends(n, p, msg, by)
      \/ \E n, p \in Nodes : Transfer(n, p) \/ Ack(n, p) \/ Forget(n, p, Loop)
      \/ \E n \in Nodes : MainTimesOut(n) /\ Forget(n, main[n].peer, Main)
  BY <1>0, <1>7, Zenon DEF LinkMoves
<1> HIDE DEF Goal
<1>9. Goal
  BY <1>1, <1>2, <1>3, <1>4, <1>5, <1>6, <1>7, <1>8
<1> QED
  BY <1>9 DEF Goal

LEMMA InboxStep ==
    ASSUME IInv, [Next]_vars, NEW m \in Nodes, NEW q \in Nodes
    PROVE  inbox'[m][q] # <<>> => inbox[m][q] # <<>> \/ outbox[q][m] # <<>>
<1> DEFINE Goal == inbox'[m][q] # <<>> => inbox[m][q] # <<>> \/ outbox[q][m] # <<>>
<1>1. CASE inbox' = inbox
  BY <1>1
<1>2. ASSUME NEW n \in Nodes, NEW p \in Nodes, Transfer(n, p) PROVE Goal
  <2>1. /\ outbox[n][p] # <<>>
        /\ m # p \/ q # n => inbox'[m][q] = inbox[m][q]
    BY <1>2, TransferEffect, ArrivalEffect DEF IInv, TypeOK
  <2> QED
    BY <2>1
<1>3. ASSUME NEW n \in Nodes, NEW p \in Nodes, TakeUnicast(n, p) PROVE Goal
  <2>1. inbox[n][p] # <<>> /\ (m # n \/ q # p => inbox'[m][q] = inbox[m][q])
    BY <1>3, TakeUnicastEffect
  <2> QED
    BY <2>1
<1>4. ASSUME NEW n \in Nodes, NEW p \in Nodes, TakeBroadcast(n, p) PROVE Goal
  <2>1. inbox[n][p] # <<>> /\ (m # n \/ q # p => inbox'[m][q] = inbox[m][q])
    BY <1>4, TakeBroadcastEffect
  <2> QED
    BY <2>1
<1>5. \/ inbox' = inbox
      \/ \E n, p \in Nodes : TakeUnicast(n, p) \/ TakeBroadcast(n, p) \/ Transfer(n, p)
  <2>1. \A n \in Nodes : MainStep(n) \/ MainTimesOut(n) => inbox' = inbox
    BY DEF MainStep, ConnectRefused, Connect, AddSeed, AddMember, SendHelo,
           BroadcastRoundOne, SendMembership, MainTimesOut, linkVars
  <2>2. \A n \in Nodes : EchoStep(n) => inbox' = inbox
    BY DEF EchoStep, TakeCall, SendToMember, FinishSend, FinishSendPanics, linkVars
  <2>3. \A n, p \in Nodes : Rebroadcast(n, p) \/ Ack(n, p) \/ LoopTimesOut(n, p)
                              => inbox' = inbox
    BY DEF Rebroadcast, LoopTimesOut, Ack, linkVars
  <2> QED
    BY <2>1, <2>2, <2>3 DEF Next, vars, LoopStep, LinkStep
<1> QED
  BY <1>1, <1>2, <1>3, <1>4, <1>5

LEMMA TypeStep == IInv /\ [Next]_vars => TypeOK'
<1> SUFFICES ASSUME IInv, [Next]_vars PROVE TypeOK'
  OBVIOUS
<1>0. TypeOK
  BY DEF IInv
<1>1. Shapes'
  BY ShapesStep
<1>2. ASSUME NEW m \in Nodes
      PROVE  /\ main'[m].pc = "connect" => main'[m].peer \in Nodes
             /\ main'[m].pc \notin {"connect", "accept", "stopped"}
                  => main'[m].peer \in Linked(m)'
  <2>1. MainMoves(m) /\ Linked(m) \subseteq Linked(m)'
    BY MainMovesStep, LinkedStep
  <2>2. /\ main[m].pc = "connect" => main[m].peer \in Nodes
        /\ main[m].pc \notin {"connect", "accept", "stopped"} => main[m].peer \in Linked(m)
    BY <1>0 DEF TypeOK
  <2> QED
    BY <2>1, <2>2 DEF MainMoves, Greeting
<1>3. ASSUME NEW m \in Nodes, echo'[m].pc = "sending"
      PROVE  echo'[m].call \in CallsOfEcho
  <2>1. EchoMoves(m)
    BY EchoMovesStep
  <2>2. echo[m].pc = "sending" => echo[m].call \in CallsOfEcho
    BY <1>0 DEF TypeOK
  <2>3. \A c, l, t : EchoSending(c, l, t).call = c
    BY DEF EchoSending
  <2> QED
    BY <1>3, <2>1, <2>2, <2>3 DEF EchoMoves
<1>4. ASSUME NEW m \in Nodes, NEW q \in Nodes
      PROVE  /\ loop'[m][q].pc = "rebroadcast" => loop'[m][q].msg \in Broadcasts
             /\ inbox'[m][q] # <<>> => q \in Linked(m)'
  <2>1. loop'[m][q].pc = "rebroadcast" => loop'[m][q].msg \in Broadcasts
    <3>1. LoopMoves(m, q)
      BY LoopMovesStep
    <3>2. loop[m][q].pc = "rebroadcast" => loop[m][q].msg \in Broadcasts
      BY <1>0 DEF TypeOK
    <3> QED
      BY <3>1, <3>2 DEF LoopMoves
  <2>2. inbox[m][q] # <<>> \/ outbox[q][m] # <<>> => q \in Linked(m)
    <3>1. inbox[m][q] # <<>> => q \in Linked(m)
      BY <1>0 DEF TypeOK
    <3>2. outbox[q][m] # <<>> => m \in Linked(q)
      BY DEF IInv, LinksInv
    <3>3. m \in Linked(q) <=> q \in Linked(m)
      BY DEF IInv, LinksInv
    <3> QED
      BY <3>1, <3>2, <3>3
  <2> QED
    BY <2>1, <2>2, InboxStep, LinkedStep
<1>5. \A m \in Nodes : members'[m] \subseteq Linked(m)'
  BY MembersStep
<1> QED
  BY <1>1, <1>2, <1>3, <1>4, <1>5 DEF TypeOK

LEMMA LinksStep == IInv /\ [Next]_vars => LinksInv'
<1> SUFFICES ASSUME IInv, [Next]_vars PROVE LinksInv'
  OBVIOUS
<1>0. TypeOK /\ LinksInv
  BY DEF IInv
<1>1. \A m \in Nodes : Linked(m) \subseteq Linked(m)'
  BY LinkedStep
<1>2. ASSUME NEW m \in Nodes, NEW i \in DOMAIN calls'[m]
      PROVE  /\ calls'[m][i].members \subseteq Linked(m)'
             /\ calls'[m][i].by \in Linked(m)' \cup {Main}
  <2>1. CallsMoves(m) /\ Linked(m) \subseteq Linked(m)' /\ members[m] \subseteq Linked(m)
    BY <1>0, <1>1, CallsMovesStep DEF TypeOK
  <2>2. \A j \in DOMAIN calls[m] : /\ calls[m][j].members \subseteq Linked(m)
                                   /\ calls[m][j].by \in Linked(m) \cup {Main}
    BY <1>0 DEF LinksInv
  <2>3. MainCall(m).members = members[m] /\ MainCall(m).by = Main
    BY DEF MainCall
  <2>4. \A p \in Nodes : loop[m][p].pc = "rebroadcast" =>
                           /\ LoopCall(m, p).members \subseteq Linked(m)
                           /\ LoopCall(m, p).by \in Linked(m)
    BY <1>0 DEF LoopCall, LinksInv, Linked
  <2> QED
    BY <2>1, <2>2, <2>3, <2>4 DEF CallsMoves
<1>3. ASSUME NEW m \in Nodes, echo'[m].pc = "sending"
      PROVE  /\ echo'[m].call.by \in Linked(m)' \cup {Main}
             /\ echo'[m].left \subseteq Linked(m)'
  <2>1. EchoMoves(m) /\ Linked(m) \subseteq Linked(m)'
    BY <1>1, EchoMovesStep
  <2>2. echo[m].pc = "sending" => /\ echo[m].call.by \in Linked(m) \cup {Main}
                                  /\ echo[m].left \subseteq Linked(m)
    BY <1>0 DEF LinksInv
  <2>3. \A j \in DOMAIN calls[m] : /\ calls[m][j].members \subseteq Linked(m)
                                   /\ calls[m][j].by \in Linked(m) \cup {Main}
    BY <1>0 DEF LinksInv
  <2>4. \A c, l, t : EchoSending(c, l, t).call = c /\ EchoSending(c, l, t).left = l
    BY DEF EchoSending
  <2> QED
    BY <1>3, <2>1, <2>2, <2>3, <2>4 DEF EchoMoves
<1>4. ASSUME NEW m \in Nodes, NEW w \in waiters'[m]
      PROVE  w[2] \in Linked(m)' \cup {Main}
  <2>1. \/ w \in waiters[m]
        \/ echo[m].pc = "sending" /\ w = <<echo[m].call.msg.mid, echo[m].call.by>>
    BY WaitersStep
  <2>2. /\ w \in waiters[m] => w[2] \in Linked(m) \cup {Main}
        /\ echo[m].pc = "sending" => echo[m].call.by \in Linked(m) \cup {Main}
    BY <1>0 DEF LinksInv
  <2> QED
    BY <1>1, <2>1, <2>2
<1>5. ASSUME NEW m \in Nodes, NEW q \in Nodes PROVE q \in Linked(m)' <=> m \in Linked(q)'
  <2>1. q \in Linked(m) <=> m \in Linked(q)
    BY <1>0 DEF LinksInv
  <2>2. CASE \A n, s \in Nodes : ~Connect(n, s)
    BY <2>1, <2>2, LinkedStep
  <2>3. ASSUME NEW n \in Nodes, NEW s \in Nodes, Connect(n, s)
        PROVE  q \in Linked(m)' <=> m \in Linked(q)'
    <3>1. /\ loop'[n][s] = Receiving /\ loop'[s][n] = Receiving
          /\ ~(m = n /\ q = s) /\ ~(m = s /\ q = n)
               => loop'[m][q] = loop[m][q] /\ loop'[q][m] = loop[q][m]
      BY <2>3, ConnectEffect
    <3> QED
      BY <2>1, <3>1, StateTypes DEF Linked
  <2> QED
    BY <2>2, <2>3
<1>6. ASSUME NEW m \in Nodes, NEW q \in Nodes PROVE loop'[m][q].members \subseteq Linked(m)'
  <2>1. LoopMoves(m, q) /\ Linked(m) \subseteq Linked(m)'
    BY <1>1, LoopMovesStep
  <2>2. loop[m][q].members \subseteq Linked(m) /\ members[m] \subseteq Linked(m)
    BY <1>0 DEF LinksInv, TypeOK
  <2> QED
    BY <2>1, <2>2 DEF LoopMoves
<1>7. ASSUME NEW m \in Nodes, NEW q \in Nodes, outbox'[m][q] # <<>> \/ acks'[m][q] # <<>>
      PROVE  q \in Linked(m)'
  <2>1. outbox[m][q] # <<>> \/ acks[m][q] # <<>> => q \in Linked(m)
    BY <1>0 DEF LinksInv
  <2> QED
    BY <1>1, <1>7, <2>1, TrafficStep
<1> QED
  BY <1>2, <1>3, <1>4, <1>5, <1>6, <1>7 DEF LinksInv

-----------------------------------------------------------------------------
(* Who waits for what.                                                     *)

(* What a step of one link or of one task leaves alone.                    *)
LEMMA TransferFrame ==
    ASSUME Shapes, NEW n \in Nodes, NEW p \in Nodes, Transfer(n, p),
           NEW m \in Nodes, NEW q \in Nodes, m # n \/ q # p
    PROVE  outbox'[m][q] = outbox[m][q] /\ acks'[m][q] = acks[m][q]
<1> DEFINE v == Tail(outbox[n][p])
           w == Append(acks[n][p], Head(outbox[n][p]).by)
<1>1. /\ outbox \in [Nodes -> [Nodes -> Seq(Outs)]]
      /\ acks \in [Nodes -> [Nodes -> Seq(Tasks)]]
  BY DEF Shapes, Outs
<1>2. outbox' = [outbox EXCEPT ![n][p] = v] /\ acks' = [acks EXCEPT ![n][p] = w]
  BY <1>1 DEF Transfer
<1> HIDE DEF v, w
<1> QED
  BY <1>1, <1>2

LEMMA ForgetFrame ==
    ASSUME Shapes, NEW n \in Nodes, NEW p \in Nodes, NEW by \in Tasks, Forget(n, p, by),
           NEW m \in Nodes, NEW q \in Nodes, m # n \/ q # p
    PROVE  outbox'[m][q] = outbox[m][q] /\ acks'[m][q] = acks[m][q]
<1> DEFINE v == GoneFromOutbox(outbox[n][p], by)
           w == GoneFromAcks(acks[n][p], by)
<1>1. /\ outbox \in [Nodes -> [Nodes -> Seq(Outs)]]
      /\ acks \in [Nodes -> [Nodes -> Seq(Tasks)]]
  BY DEF Shapes, Outs
<1>2. outbox' = [outbox EXCEPT ![n][p] = v] /\ acks' = [acks EXCEPT ![n][p] = w]
  BY <1>1 DEF Forget
<1> HIDE DEF v, w
<1> QED
  BY <1>1, <1>2

LEMMA ForgetMessages ==
    ASSUME Shapes, NEW n \in Nodes, NEW p \in Nodes, NEW by \in Tasks, Forget(n, p, by)
    PROVE  /\ DOMAIN outbox'[n][p] = DOMAIN outbox[n][p]
           /\ \A i \in DOMAIN outbox[n][p] : outbox'[n][p][i].msg = outbox[n][p][i].msg
<1>1. /\ DOMAIN outbox'[n][p] = DOMAIN outbox[n][p]
      /\ \A i \in DOMAIN outbox[n][p] :
           /\ outbox'[n][p][i].msg = outbox[n][p][i].msg
           /\ outbox'[n][p][i].by = IF outbox[n][p][i].by = by THEN Gone
                                    ELSE outbox[n][p][i].by
  BY ForgetEffect
<1> QED
  BY <1>1

LEMMA AckFrame ==
    ASSUME Shapes, NEW n \in Nodes, NEW p \in Nodes, Ack(n, p), NEW m \in Nodes
    PROVE  /\ m # n \/ Woken(n, p) # Main => main'[m] = main[m]
           /\ m # n \/ Woken(n, p) # Echo => echo'[m] = echo[m] /\ tracked'[m] = tracked[m]
  BY DEF Shapes, Ack, Woken

(* Nothing that has arrived is taken back.                                 *)
LEMMA GotGrows ==
    ASSUME IInv, [Next]_vars, NEW m \in Nodes, NEW q \in Nodes, NEW x,
           Contains(got[m][q], x)
    PROVE  Contains(got'[m][q], x)
<1>1. CASE got' = got
  BY <1>1
<1>2. ASSUME NEW n \in Nodes, NEW p \in Nodes, Transfer(n, p)
      PROVE  Contains(got'[m][q], x)
  <2> DEFINE y == First(n, p).msg
  <2>0. Shapes
    BY DEF IInv, TypeOK
  <2>1. y \in Messages /\ got[p][n] \in Seq(Messages) /\ got'[p][n] = Append(got[p][n], y)
    BY <1>2, <2>0, ArrivalEffect
  <2>2. m # p \/ q # n => got'[m][q] = got[m][q]
    BY <1>2, <2>0, ArrivalEffect
  <2> HIDE DEF y
  <2>3. Contains(got[p][n], x) => Contains(got'[p][n], x)
    BY <2>1, ContainsGrows
  <2> QED
    BY <2>2, <2>3
<1>3. got' = got \/ \E n, p \in Nodes : Transfer(n, p)
  <2>1. LinkMoves
    BY LinkMovesStep
  <2> QED
    BY <2>1 DEF LinkMoves, Sends, Ack
<1> QED
  BY <1>1, <1>2, <1>3

(* The main task waits until its ack or its timeout comes, and the echo    *)
(* broadcast actor until its ack comes.                                    *)
LEMMA MainStays ==
    ASSUME IInv, [Next]_vars, NEW m \in Nodes,
           main[m].pc \in {"handshake", "membership"}
    PROVE  \/ main'[m] = main[m]
           \/ MainTimesOut(m)
           \/ \E p \in Nodes : Ack(m, p) /\ Woken(m, p) = Main
<1>1. CASE main' = main
  BY <1>1
<1>2. ASSUME NEW n \in Nodes, ConnectRefused(n) \/ AddSeed(n) \/ AddMember(n)
      PROVE  main'[m] = main[m]
  <2>1. /\ main[n].pc \in {"connect", "add_seed", "add_member"}
        /\ m # n => main'[m] = main[m]
    BY <1>2, ConnectRefusedEffect, AddSeedEffect, AddMemberEffect
  <2> QED
    BY <2>1
<1>3. ASSUME NEW n \in Nodes, NEW s \in Nodes, Connect(n, s) PROVE main'[m] = main[m]
  <2>1. /\ main[n].pc = "connect" /\ main[s].pc = "accept"
        /\ (m # n /\ m # s) => main'[m] = main[m]
    BY <1>3, ConnectEffect
  <2> QED
    BY <2>1
<1>4. ASSUME NEW n \in Nodes, SendHelo(n) \/ SendMembership(n) PROVE main'[m] = main[m]
  <2>1. /\ main[n].pc \in {"send_helo", "send_membership"}
        /\ m # n => main'[m] = main[m]
    BY <1>4, MainSendEffect
  <2> QED
    BY <2>1
<1>5. ASSUME NEW n \in Nodes, BroadcastRoundOne(n) PROVE main'[m] = main[m]
  <2>1. main[n].pc = "round_one" /\ (m # n => main'[m] = main[m])
    BY <1>5, RoundOneEffect
  <2> QED
    BY <2>1
<1>6. ASSUME NEW n \in Nodes, MainTimesOut(n) PROVE main'[m] = main[m] \/ MainTimesOut(m)
  BY <1>6, MainTimesOutEffect
<1>7. ASSUME NEW n \in Nodes, NEW p \in Nodes, Ack(n, p)
      PROVE  main'[m] = main[m] \/ (Ack(m, p) /\ Woken(m, p) = Main)
  <2>1. m # n \/ Woken(n, p) # Main => main'[m] = main[m]
    BY <1>7, AckMainEffect
  <2> QED
    BY <1>7, <2>1
<1>8. ASSUME NEW n \in Nodes, FinishSend(n) \/ FinishSendPanics(n)
      PROVE  main'[m] = main[m]
  <2>1. PICK S : /\ ReturnErr(n, S) /\ S \subseteq Linked(n) \cup {Main}
                 /\ Main \in S => main[n].pc = "broadcast"
    BY <1>8, ErrEffect
  <2>2. \/ main'[m] = main[m]
        \/ m = n /\ Main \in S
    BY <2>1, ReturnEffect DEF IInv, TypeOK
  <2> QED
    BY <2>1, <2>2
<1>9. \/ main' = main
      \/ \E n \in Nodes : MainMover(n)
      \/ \E n, p \in Nodes : Connect(n, p) \/ Ack(n, p)
  BY MainMovers
<1> QED
  BY <1>1, <1>2, <1>3, <1>4, <1>5, <1>6, <1>7, <1>8, <1>9 DEF MainMover

LEMMA EchoStays ==
    ASSUME IInv, [Next]_vars, NEW m \in Nodes,
           echo[m].pc = "sending", echo[m].to \in Nodes
    PROVE  \/ echo'[m] = echo[m]
           \/ Ack(m, echo[m].to) /\ Woken(m, echo[m].to) = Echo
<1>1. EchoMoves(m)
  BY EchoMovesStep
<1>2. echo[m].left # {} /\ echo[m].to # NoNode
  BY SeedsAssumption DEF IInv, EchoInv
<1> QED
  BY <1>1, <1>2 DEF EchoMoves

(* The part of SendsInv about one direction of a link.                     *)
SendsOK(n, p) ==
    /\ WaitsOnce(n, p, Main) /\ WaitsOnce(n, p, Echo)
    /\ Waits(n, p, Main) =>
         main[n].pc \in {"handshake", "membership"} /\ main[n].peer = p
    /\ Waits(n, p, Echo) => echo[n].pc = "sending" /\ echo[n].to = p
    /\ \A i \in InOutbox(n, p, Echo) : outbox[n][p][i].msg = echo[n].call.msg
    /\ InAcks(n, p, Echo) # {} => Contains(got[p][n], echo[n].call.msg)

LEMMA SendsParts == IInv => \A n, p \in Nodes : SendsOK(n, p)
  BY DEF IInv, SendsInv, SendsOK

LEMMA SendsKept ==
    ASSUME IInv, [Next]_vars, NEW m \in Nodes, NEW q \in Nodes,
           outbox'[m][q] = outbox[m][q], acks'[m][q] = acks[m][q],
           main[m].pc \in {"handshake", "membership"} /\ main[m].peer = q
             => main'[m] = main[m],
           echo[m].pc = "sending" /\ echo[m].to = q => echo'[m] = echo[m]
    PROVE  SendsOK(m, q)'
<1>1. SendsOK(m, q)
  BY SendsParts
<1>2. \A b : InOutbox(m, q, b)' = InOutbox(m, q, b) /\ InAcks(m, q, b)' = InAcks(m, q, b)
  BY DEF InOutbox, InAcks
<1>3. /\ WaitsOnce(m, q, Main)' /\ WaitsOnce(m, q, Echo)'
      /\ Waits(m, q, Main)' = Waits(m, q, Main) /\ Waits(m, q, Echo)' = Waits(m, q, Echo)
  BY <1>1, <1>2 DEF SendsOK, WaitsOnce, Waits
<1>4. Waits(m, q, Main)' => main'[m].pc \in {"handshake", "membership"} /\ main'[m].peer = q
  BY <1>1, <1>3 DEF SendsOK
<1>5. Waits(m, q, Echo) => echo'[m] = echo[m] /\ echo'[m].pc = "sending" /\ echo'[m].to = q
  BY <1>1 DEF SendsOK
<1>6. \A i \in InOutbox(m, q, Echo)' : outbox'[m][q][i].msg = echo'[m].call.msg
  BY <1>1, <1>2, <1>5 DEF SendsOK, Waits
<1>7. InAcks(m, q, Echo)' # {} => Contains(got'[q][m], echo'[m].call.msg)
  <2>1. InAcks(m, q, Echo) # {} => /\ Contains(got[q][m], echo[m].call.msg)
                                   /\ echo'[m] = echo[m]
    BY <1>1, <1>5 DEF SendsOK, Waits
  <2> QED
    BY <1>2, <2>1, GotGrows
<1> QED
  BY <1>3, <1>4, <1>5, <1>6, <1>7 DEF SendsOK

(* Who waits after a message has been sent: its sender, once more.         *)
LEMMA SendWaits ==
    ASSUME Shapes, NEW n \in Nodes, NEW p \in Nodes, NEW msg \in Messages,
           NEW by \in Tasks, SendReliably(n, p, msg, by)
    PROVE  /\ \A b : b # by => InOutbox(n, p, b)' = InOutbox(n, p, b)
           /\ \A i \in DOMAIN outbox[n][p] : outbox'[n][p][i] = outbox[n][p][i]
           /\ InOutbox(n, p, by)' = InOutbox(n, p, by) \cup {Len(outbox[n][p]) + 1}
           /\ outbox'[n][p][Len(outbox[n][p]) + 1].msg = msg
<1> DEFINE s == outbox[n][p]
           x == [msg |-> msg, by |-> by]
           k == Len(s) + 1
<1>1. outbox'[n][p] = Append(s, x) /\ s \in Seq(Outs) /\ x \in Outs
  BY SendEffect
<1>2. x.msg = msg /\ x.by = by
  OBVIOUS
<1> HIDE DEF s, x
<1>3. /\ DOMAIN s = 1..Len(s) /\ DOMAIN Append(s, x) = 1..Len(s) + 1
      /\ \A i \in 1..Len(s) : Append(s, x)[i] = s[i]
      /\ Append(s, x)[k] = x /\ Len(s) \in Nat
  BY <1>1, AppendType
<1>4. DOMAIN Append(s, x) = DOMAIN s \cup {k} /\ k \notin DOMAIN s
  BY <1>3
<1> DEFINE t == Append(s, x)
<1> HIDE DEF t, k
<1>5. /\ DOMAIN t = DOMAIN s \cup {k} /\ \A i \in DOMAIN s : t[i] = s[i]
      /\ t[k].by = by /\ t[k].msg = msg /\ outbox'[n][p] = t
  BY <1>1, <1>2, <1>3, <1>4 DEF t
<1>6. \A b : InOutbox(n, p, b)' = {i \in DOMAIN t : t[i].by = b}
  BY <1>5 DEF InOutbox
<1>7. \A b : InOutbox(n, p, b) = {i \in DOMAIN s : s[i].by = b}
  BY DEF InOutbox, s
<1>8. ASSUME NEW b, b # by PROVE InOutbox(n, p, b)' = InOutbox(n, p, b)
  <2>1. \A i : i \in DOMAIN t /\ t[i].by = b <=> i \in DOMAIN s /\ s[i].by = b
    BY ONLY <1>5, <1>8
  <2> QED
    BY ONLY <1>6, <1>7, <2>1
<1>9. InOutbox(n, p, by)' = InOutbox(n, p, by) \cup {k}
  BY ONLY <1>5, <1>6, <1>7
<1>10. \A i \in DOMAIN outbox[n][p] : outbox'[n][p][i] = outbox[n][p][i]
  BY <1>5 DEF s
<1> QED
  BY <1>5, <1>8, <1>9, <1>10 DEF k, s

(* Who waits after a message has arrived: the same, one place further.     *)
LEMMA TransferWaits ==
    ASSUME Shapes, NEW n \in Nodes, NEW p \in Nodes, Transfer(n, p), NEW b
    PROVE  /\ \A i \in InOutbox(n, p, b)' : /\ i + 1 \in InOutbox(n, p, b) /\ i + 1 # 1
                                            /\ i \in Nat
                                            /\ outbox'[n][p][i] = outbox[n][p][i + 1]
           /\ First(n, p).by # b => InAcks(n, p, b)' = InAcks(n, p, b)
           /\ First(n, p).by = b => /\ 1 \in InOutbox(n, p, b)
                                    /\ outbox[n][p][1].msg = First(n, p).msg
                                    /\ InAcks(n, p, b)' = InAcks(n, p, b)
                                                            \cup {Len(acks[n][p]) + 1}
<1> DEFINE s == outbox[n][p]
           a == acks[n][p]
           by == First(n, p).by
           k == Len(a) + 1
<1>1. /\ s # <<>> /\ s \in Seq(Outs) /\ First(n, p) = s[1] /\ 1 \in DOMAIN s
      /\ outbox'[n][p] = Tail(s) /\ by \in Tasks
      /\ acks'[n][p] = Append(a, by) /\ a \in Seq(Tasks)
  BY TransferEffect
<1>2. /\ \A i \in InOutbox(n, p, b)' : /\ i + 1 \in InOutbox(n, p, b) /\ i + 1 # 1
                                       /\ i \in Nat
                                       /\ outbox'[n][p][i] = outbox[n][p][i + 1]
  <2>0. outbox'[n][p] = Tail(s)
    BY <1>1
  <2>1. /\ Len(s) \in Nat \ {0} /\ DOMAIN s = 1..Len(s) /\ DOMAIN Tail(s) = 1..Len(s) - 1
        /\ \A i \in 1..Len(s) - 1 : Tail(s)[i] = s[i + 1]
    BY <1>1, TailType
  <2> DEFINE t == Tail(s)
  <2>2. \A i \in DOMAIN t : i + 1 \in DOMAIN s /\ i + 1 # 1 /\ i \in Nat /\ t[i] = s[i + 1]
    BY <2>1
  <2>3. outbox'[n][p] = t
    BY <2>0
  <2> HIDE DEF t
  <2> QED
    BY <2>2, <2>3 DEF InOutbox
<1>3. First(n, p).by = b => 1 \in InOutbox(n, p, b) /\ outbox[n][p][1].msg = First(n, p).msg
  BY <1>1 DEF InOutbox
<1> DEFINE t == Append(a, by)
<1>4. DOMAIN t = DOMAIN a \cup {k} /\ k \notin DOMAIN a /\ t[k] = by
      /\ \A i \in DOMAIN a : t[i] = a[i]
  <2>1. a \in Seq(Tasks) /\ by \in Tasks
    BY <1>1
  <2> HIDE DEF a, by
  <2>2. /\ DOMAIN a = 1..Len(a) /\ DOMAIN t = 1..Len(a) + 1
        /\ \A i \in 1..Len(a) : t[i] = a[i]
        /\ t[k] = by /\ Len(a) \in Nat
    BY <2>1, AppendType
  <2> QED
    BY <2>2
<1>5. acks'[n][p] = t
  BY <1>1
<1>6. InAcks(n, p, b) = {i \in DOMAIN a : a[i] = b}
  BY DEF InAcks
<1> HIDE DEF a, t, k, by
<1>7. InAcks(n, p, b)' = {i \in DOMAIN t : t[i] = b}
  BY <1>5 DEF InAcks
<1>8. by # b => InAcks(n, p, b)' = InAcks(n, p, b)
  BY ONLY <1>4, <1>6, <1>7
<1>9. by = b => InAcks(n, p, b)' = InAcks(n, p, b) \cup {k}
  BY ONLY <1>4, <1>6, <1>7
<1> QED
  BY <1>2, <1>3, <1>8, <1>9 DEF by, k, a

(* Who waits after an ack has arrived: one task less.                      *)
LEMMA AckWaits ==
    ASSUME IInv, NEW n \in Nodes, NEW p \in Nodes, Ack(n, p), NEW b
    PROVE  /\ InOutbox(n, p, b)' = InOutbox(n, p, b)
           /\ \A i \in InAcks(n, p, b)' : i + 1 \in InAcks(n, p, b) /\ i + 1 # 1 /\ i \in Nat
           /\ Woken(n, p) = b => 1 \in InAcks(n, p, b)
<1> DEFINE a == acks[n][p]
           t == Tail(a)
<1>1. /\ a # <<>> /\ a \in Seq(Tasks) /\ Woken(n, p) = a[1] /\ 1 \in DOMAIN a
      /\ acks'[n][p] = t /\ outbox' = outbox
  BY AckEffect
<1>2. InOutbox(n, p, b)' = InOutbox(n, p, b)
  BY <1>1 DEF InOutbox
<1>3. Woken(n, p) = b => 1 \in InAcks(n, p, b)
  BY <1>1 DEF InAcks
<1>4. InAcks(n, p, b) = {i \in DOMAIN a : a[i] = b}
  BY DEF InAcks
<1> HIDE DEF a
<1>5. \A i \in DOMAIN t : i + 1 \in DOMAIN a /\ i + 1 # 1 /\ i \in Nat /\ t[i] = a[i + 1]
  <2>1. /\ Len(a) \in Nat \ {0} /\ DOMAIN a = 1..Len(a) /\ DOMAIN t = 1..Len(a) - 1
        /\ \A i \in 1..Len(a) - 1 : t[i] = a[i + 1]
    BY <1>1, TailType
  <2> QED
    BY <2>1
<1> HIDE DEF t
<1>6. InAcks(n, p, b)' = {i \in DOMAIN t : t[i] = b}
  BY <1>1 DEF InAcks
<1> QED
  BY <1>2, <1>3, <1>4, <1>5, <1>6

(* Who waits after a timeout: everybody else.                              *)
LEMMA ForgetWaits ==
    ASSUME Shapes, NEW n \in Nodes, NEW p \in Nodes, NEW by \in Tasks,
           Forget(n, p, by), NEW b, b # Gone
    PROVE  /\ b = by => InOutbox(n, p, b)' = {} /\ InAcks(n, p, b)' = {}
           /\ b # by => /\ InOutbox(n, p, b)' = InOutbox(n, p, b)
                        /\ InAcks(n, p, b)' = InAcks(n, p, b)
           /\ \A i \in DOMAIN outbox[n][p] : outbox'[n][p][i].msg = outbox[n][p][i].msg
<1>1. /\ DOMAIN outbox'[n][p] = DOMAIN outbox[n][p]
      /\ \A i \in DOMAIN outbox[n][p] :
                /\ outbox'[n][p][i].msg = outbox[n][p][i].msg
                /\ outbox'[n][p][i].by = IF outbox[n][p][i].by = by THEN Gone
                                         ELSE outbox[n][p][i].by
      /\ DOMAIN acks'[n][p] = DOMAIN acks[n][p]
      /\ \A i \in DOMAIN acks[n][p] :
                acks'[n][p][i] = IF acks[n][p][i] = by THEN Gone ELSE acks[n][p][i]
  BY ForgetEffect
<1> QED
  BY ONLY <1>1, b # Gone DEF InOutbox, InAcks

LEMMA SendsStep == IInv /\ [Next]_vars => SendsInv'
<1> SUFFICES ASSUME IInv, [Next]_vars, NEW m \in Nodes, NEW q \in Nodes
             PROVE  SendsOK(m, q)'
  BY DEF SendsInv, SendsOK
<1>0. /\ Shapes /\ NoNode \notin Nodes /\ SendsOK(m, q)
      /\ Main \in Tasks /\ Loop \in Tasks /\ Echo \in Tasks
      /\ Main # Loop /\ Main # Echo /\ Loop # Echo
      /\ Main # Gone /\ Echo # Gone /\ Loop # Gone
  BY SeedsAssumption, SendsParts DEF IInv, TypeOK, Tasks, Main, Loop, Echo, Gone
<1>1. ASSUME NEW n \in Nodes, NEW p \in Nodes, NEW msg \in Messages,
             Sends(n, p, msg, Main), SendHelo(n) \/ SendMembership(n), p = main[n].peer
      PROVE  SendsOK(m, q)'
  <2>1. /\ main[n].pc \in {"send_helo", "send_membership"}
        /\ main'[n].pc \in {"handshake", "membership"} /\ main'[n].peer = p
        /\ \A k \in Nodes : k # n => main'[k] = main[k]
        /\ echo' = echo
    BY <1>1, MainSendEffect
  <2>2. SendReliably(n, p, msg, Main) /\ acks' = acks /\ got' = got
    BY <1>1 DEF Sends
  <2>3. CASE m # n \/ q # p
    <3>1. outbox'[m][q] = outbox[m][q]
      BY <1>0, <2>2, <2>3, SendFrame
    <3> QED
      BY <2>1, <2>2, <3>1, SendsKept
  <2>4. CASE m = n /\ q = p
    <3> DEFINE k == Len(outbox[n][p]) + 1
    <3>1. InOutbox(n, p, Main)' = InOutbox(n, p, Main) \cup {k}
      BY <1>0, <2>2, SendWaits
    <3> HIDE DEF k
    <3>2. /\ InOutbox(n, p, Echo)' = InOutbox(n, p, Echo)
          /\ \A i \in DOMAIN outbox[n][p] : outbox'[n][p][i] = outbox[n][p][i]
      BY <1>0, <2>2, SendWaits
    <3>3. /\ InAcks(n, p, Main)' = InAcks(n, p, Main) /\ InAcks(n, p, Echo)' = InAcks(n, p, Echo)
      BY <2>2 DEF InAcks
    <3>4. InOutbox(n, p, Main) = {} /\ InAcks(n, p, Main) = {}
      BY <1>0, <2>1, <2>4 DEF SendsOK, Waits
    <3>5. \A i \in InOutbox(n, p, Echo) : i \in DOMAIN outbox[n][p]
      BY DEF InOutbox
    <3> QED
      BY <1>0, <2>1, <2>2, <2>4, <3>1, <3>2, <3>3, <3>4, <3>5 DEF SendsOK, Waits, WaitsOnce
  <2> QED
    BY <2>3, <2>4
<1>2. ASSUME NEW n \in Nodes, NEW p \in Nodes, TakeUnicast(n, p),
             Sends(n, p, Handshake("oleh"), Loop)
      PROVE  SendsOK(m, q)'
  <2>1. UNCHANGED <<main, echo>>
    BY <1>2, TakeUnicastEffect
  <2>2. /\ SendReliably(n, p, Handshake("oleh"), Loop) /\ Handshake("oleh") \in Messages
        /\ acks' = acks /\ got' = got
    BY <1>2 DEF Sends
  <2>3. CASE m # n \/ q # p
    <3>1. outbox'[m][q] = outbox[m][q]
      BY <1>0, <2>2, <2>3, SendFrame
    <3> QED
      BY <2>1, <2>2, <3>1, SendsKept
  <2>4. CASE m = n /\ q = p
    <3>2. /\ InOutbox(n, p, Echo)' = InOutbox(n, p, Echo)
          /\ InOutbox(n, p, Main)' = InOutbox(n, p, Main)
          /\ \A i \in DOMAIN outbox[n][p] : outbox'[n][p][i] = outbox[n][p][i]
      BY <1>0, <2>2, SendWaits
    <3>3. InAcks(n, p, Main)' = InAcks(n, p, Main) /\ InAcks(n, p, Echo)' = InAcks(n, p, Echo)
      BY <2>2 DEF InAcks
    <3>5. \A i \in InOutbox(n, p, Echo) : i \in DOMAIN outbox[n][p]
      BY DEF InOutbox
    <3> QED
      BY <1>0, <2>1, <2>2, <2>4, <3>2, <3>3, <3>5 DEF SendsOK, Waits, WaitsOnce
  <2> QED
    BY <2>3, <2>4
<1>3. ASSUME NEW n \in Nodes, NEW p \in Nodes, SendToMember(n, p),
             Sends(n, p, echo[n].call.msg, Echo)
      PROVE  SendsOK(m, q)'
  <2>1. /\ main' = main /\ echo[n].to = NoNode
        /\ echo'[n] = EchoSending(echo[n].call, echo[n].left, p)
        /\ \A k \in Nodes : k # n => echo'[k] = echo[k]
    BY <1>3, SendToMemberEffect
  <2>2. /\ SendReliably(n, p, echo[n].call.msg, Echo) /\ echo[n].call.msg \in Messages
        /\ acks' = acks /\ got' = got
    BY <1>3 DEF Sends
  <2>3. CASE m # n \/ q # p
    <3>1. outbox'[m][q] = outbox[m][q]
      BY <1>0, <2>2, <2>3, SendFrame
    <3> QED
      BY <1>0, <2>1, <2>2, <3>1, SendsKept
  <2>4. CASE m = n /\ q = p
    <3> DEFINE k == Len(outbox[n][p]) + 1
    <3>1. /\ InOutbox(n, p, Echo)' = InOutbox(n, p, Echo) \cup {k}
          /\ outbox'[n][p][k].msg = echo[n].call.msg
      BY <1>0, <2>2, SendWaits
    <3> HIDE DEF k
    <3>2. InOutbox(n, p, Main)' = InOutbox(n, p, Main)
      BY <1>0, <2>2, SendWaits
    <3>3. InAcks(n, p, Main)' = InAcks(n, p, Main) /\ InAcks(n, p, Echo)' = InAcks(n, p, Echo)
      BY <2>2 DEF InAcks
    <3>4. InOutbox(n, p, Echo) = {} /\ InAcks(n, p, Echo) = {}
      BY <1>0, <2>1, <2>4 DEF SendsOK, Waits
    <3>5. echo'[n].pc = "sending" /\ echo'[n].to = p /\ echo'[n].call = echo[n].call
      BY <2>1 DEF EchoSending
    <3> QED
      BY <1>0, <2>1, <2>2, <2>4, <3>1, <3>2, <3>3, <3>4, <3>5 DEF SendsOK, Waits, WaitsOnce
  <2> QED
    BY <2>3, <2>4
<1>4. ASSUME NEW n \in Nodes, NEW p \in Nodes, Transfer(n, p) PROVE SendsOK(m, q)'
  <2>1. main' = main /\ echo' = echo
    BY <1>4 DEF Transfer, echoVars
  <2>2. CASE m # n \/ q # p
    <3>1. outbox'[m][q] = outbox[m][q] /\ acks'[m][q] = acks[m][q]
      BY <1>0, <1>4, <2>2, TransferFrame
    <3> QED
      BY <2>1, <3>1, SendsKept
  <2>3. CASE m = n /\ q = p
    <3>1. ASSUME NEW b, WaitsOnce(n, p, b)
          PROVE  WaitsOnce(n, p, b)' /\ (Waits(n, p, b)' => Waits(n, p, b))
      <4>1. /\ \A i \in InOutbox(n, p, b)' : i + 1 \in InOutbox(n, p, b) /\ i + 1 # 1 /\ i \in Nat
            /\ First(n, p).by # b => InAcks(n, p, b)' = InAcks(n, p, b)
            /\ First(n, p).by = b => 1 \in InOutbox(n, p, b)
        BY <1>0, <1>4, TransferWaits
      <4>2. CASE First(n, p).by # b
        <5>1. \A i, j \in InOutbox(n, p, b)' : i = j
          <6>1. \A i, j \in InOutbox(n, p, b)' : i + 1 = j + 1 /\ i \in Nat /\ j \in Nat
            BY <3>1, <4>1 DEF WaitsOnce
          <6> QED
            BY <6>1
        <5> QED
          BY <3>1, <4>1, <4>2, <5>1 DEF WaitsOnce, Waits
      <4>3. CASE First(n, p).by = b
        <5>1. InAcks(n, p, b) = {} /\ InOutbox(n, p, b)' = {}
          BY <3>1, <4>1, <4>3 DEF WaitsOnce
        <5> DEFINE k == Len(acks[n][p]) + 1
        <5>2. InAcks(n, p, b)' = InAcks(n, p, b) \cup {k}
          BY <1>0, <1>4, <4>3, TransferWaits
        <5> HIDE DEF k
        <5> QED
          BY <4>1, <4>3, <5>1, <5>2 DEF WaitsOnce, Waits
      <4> QED
        BY <4>2, <4>3
    <3>2. /\ WaitsOnce(n, p, Main)' /\ WaitsOnce(n, p, Echo)'
          /\ Waits(n, p, Main)' => Waits(n, p, Main)
          /\ Waits(n, p, Echo)' => Waits(n, p, Echo)
      BY <1>0, <2>3, <3>1 DEF SendsOK
    <3>3. \A i \in InOutbox(n, p, Echo)' : outbox'[n][p][i].msg = echo[n].call.msg
      <4>1. \A i \in InOutbox(n, p, Echo)' : /\ i + 1 \in InOutbox(n, p, Echo)
                                             /\ outbox'[n][p][i] = outbox[n][p][i + 1]
        BY <1>0, <1>4, TransferWaits
      <4> QED
        BY <1>0, <2>3, <4>1 DEF SendsOK
    <3>4. InAcks(n, p, Echo)' # {} => Contains(got'[p][n], echo[n].call.msg)
      <4>1. CASE First(n, p).by # Echo
        <5>1. InAcks(n, p, Echo)' = InAcks(n, p, Echo)
          BY <1>0, <1>4, <4>1, TransferWaits
        <5> QED
          BY <1>0, <2>3, <5>1, GotGrows DEF SendsOK
      <4>2. CASE First(n, p).by = Echo
        <5>1. 1 \in InOutbox(n, p, Echo) /\ outbox[n][p][1].msg = First(n, p).msg
          BY <1>0, <1>4, <4>2, TransferWaits
        <5>2. First(n, p).msg = echo[n].call.msg
          BY <1>0, <2>3, <5>1 DEF SendsOK
        <5>3. /\ got'[p][n] = Append(got[p][n], First(n, p).msg)
              /\ got[p][n] \in Seq(Messages) /\ First(n, p).msg \in Messages
          BY <1>0, <1>4, ArrivalEffect
        <5>4. Contains(got'[p][n], First(n, p).msg)
          BY <5>3, ContainsGrows
        <5> QED
          BY <5>2, <5>4
      <4> QED
        BY <4>1, <4>2
    <3> QED
      BY <1>0, <2>1, <2>3, <3>2, <3>3, <3>4 DEF SendsOK
  <2> QED
    BY <2>2, <2>3
<1>5. ASSUME NEW n \in Nodes, NEW p \in Nodes, Ack(n, p) PROVE SendsOK(m, q)'
  <2>0. \A b : Woken(n, p) = b => 1 \in InAcks(n, p, b)
    BY <1>5, AckWaits
  <2>1. /\ outbox' = outbox /\ got' = got
        /\ m # n \/ q # p => acks'[m][q] = acks[m][q]
    BY <1>5, AckEffect
  <2>2. /\ m # n \/ Woken(n, p) # Main => main'[m] = main[m]
        /\ m # n \/ Woken(n, p) # Echo => echo'[m] = echo[m]
    BY <1>0, <1>5, AckFrame
  <2>3. /\ Woken(n, p) = Main => main[n].peer = p
        /\ Woken(n, p) = Echo => echo[n].to = p
    <3>1. SendsOK(n, p)
      BY SendsParts
    <3> QED
      BY <2>0, <3>1 DEF SendsOK, Waits
  <2>4. CASE m # n \/ q # p
    <3>1. main[m].pc \in {"handshake", "membership"} /\ main[m].peer = q => main'[m] = main[m]
      BY <2>2, <2>3, <2>4
    <3>2. echo[m].pc = "sending" /\ echo[m].to = q => echo'[m] = echo[m]
      BY <2>2, <2>3, <2>4
    <3> QED
      BY <2>1, <2>4, <3>1, <3>2, SendsKept
  <2>5. CASE m = n /\ q = p
    <3>1. ASSUME NEW b, WaitsOnce(n, p, b)
          PROVE  /\ WaitsOnce(n, p, b)' /\ (Waits(n, p, b)' => Waits(n, p, b))
                 /\ Woken(n, p) = b => ~Waits(n, p, b)'
                 /\ InAcks(n, p, b)' # {} => InAcks(n, p, b) # {}
      <4>1. /\ InOutbox(n, p, b)' = InOutbox(n, p, b)
            /\ \A i \in InAcks(n, p, b)' : i + 1 \in InAcks(n, p, b) /\ i + 1 # 1 /\ i \in Nat
            /\ Woken(n, p) = b => 1 \in InAcks(n, p, b)
        BY <1>5, AckWaits
      <4>2. \A i, j \in InAcks(n, p, b)' : i = j
        <5>1. \A i, j \in InAcks(n, p, b)' : i + 1 = j + 1 /\ i \in Nat /\ j \in Nat
          BY <3>1, <4>1 DEF WaitsOnce
        <5> QED
          BY <5>1
      <4>3. Woken(n, p) = b => InOutbox(n, p, b) = {} /\ InAcks(n, p, b)' = {}
        BY <3>1, <4>1 DEF WaitsOnce
      <4> QED
        BY <3>1, <4>1, <4>2, <4>3 DEF WaitsOnce, Waits
    <3>2. /\ WaitsOnce(n, p, Main)' /\ WaitsOnce(n, p, Echo)'
          /\ Waits(n, p, Main)' => Waits(n, p, Main) /\ Woken(n, p) # Main
          /\ Waits(n, p, Echo)' => Waits(n, p, Echo) /\ Woken(n, p) # Echo
          /\ InAcks(n, p, Echo)' # {} => InAcks(n, p, Echo) # {}
      BY <1>0, <2>5, <3>1 DEF SendsOK
    <3>3. InOutbox(n, p, Echo)' = InOutbox(n, p, Echo)
      BY <1>5, AckWaits
    <3>4. /\ Waits(n, p, Main)' => main'[n].pc \in {"handshake", "membership"} /\ main'[n].peer = p
          /\ Waits(n, p, Echo)' => /\ echo'[n].pc = "sending" /\ echo'[n].to = p
                                   /\ echo'[n] = echo[n]
      BY <1>0, <2>2, <2>5, <3>2 DEF SendsOK
    <3>5. \A i \in InOutbox(n, p, Echo)' : outbox'[n][p][i].msg = echo'[n].call.msg
      <4>1. InOutbox(n, p, Echo)' # {} => Waits(n, p, Echo)'
        BY DEF Waits
      <4> QED
        BY <1>0, <2>1, <2>5, <3>3, <3>4, <4>1 DEF SendsOK
    <3>6. InAcks(n, p, Echo)' # {} => Contains(got'[p][n], echo'[n].call.msg)
      <4>1. InAcks(n, p, Echo)' # {} => Waits(n, p, Echo)'
        BY DEF Waits
      <4> QED
        BY <1>0, <2>1, <2>5, <3>2, <3>4, <4>1 DEF SendsOK
    <3> QED
      BY <2>5, <3>2, <3>4, <3>5, <3>6 DEF SendsOK
  <2> QED
    BY <2>4, <2>5
<1>6. ASSUME NEW n \in Nodes, MainTimesOut(n) PROVE SendsOK(m, q)'
  <2>1. PICK p \in Nodes : p = main[n].peer /\ Forget(n, p, Main)
    BY <1>6, MainTimesOutEffect
  <2>2. echo' = echo /\ got' = got /\ (m # n => main'[m] = main[m])
    BY <1>6, MainTimesOutEffect
  <2>3. CASE m # n \/ q # p
    <3>1. outbox'[m][q] = outbox[m][q] /\ acks'[m][q] = acks[m][q]
      BY <1>0, <2>1, <2>3, ForgetFrame
    <3> QED
      BY <2>1, <2>2, <2>3, <3>1, SendsKept
  <2>4. CASE m = n /\ q = p
    <3>1. InOutbox(n, p, Main)' = {} /\ InAcks(n, p, Main)' = {}
      BY <1>0, <2>1, ForgetWaits
    <3>2. InOutbox(n, p, Echo)' = InOutbox(n, p, Echo) /\ InAcks(n, p, Echo)' = InAcks(n, p, Echo)
      BY <1>0, <2>1, ForgetWaits
    <3>3. \A i \in DOMAIN outbox[n][p] : outbox'[n][p][i].msg = outbox[n][p][i].msg
      BY <1>0, <2>1, ForgetMessages
    <3>4. \A i \in InOutbox(n, p, Echo) : i \in DOMAIN outbox[n][p]
      BY DEF InOutbox
    <3> QED
      BY <1>0, <2>2, <2>4, <3>1, <3>2, <3>3, <3>4 DEF SendsOK, Waits, WaitsOnce
  <2> QED
    BY <2>3, <2>4
<1>7. ASSUME NEW n \in Nodes, NEW p \in Nodes, LoopTimesOut(n, p) PROVE SendsOK(m, q)'
  <2>1. Forget(n, p, Loop) /\ echo' = echo /\ got' = got /\ main' = main
    BY <1>7, LoopTimesOutEffect
  <2>2. CASE m # n \/ q # p
    <3>1. outbox'[m][q] = outbox[m][q] /\ acks'[m][q] = acks[m][q]
      BY <1>0, <2>1, <2>2, ForgetFrame
    <3> QED
      BY <2>1, <2>2, <3>1, SendsKept
  <2>3. CASE m = n /\ q = p
    <3>1. InOutbox(n, p, Main)' = InOutbox(n, p, Main) /\ InAcks(n, p, Main)' = InAcks(n, p, Main)
      BY <1>0, <2>1, ForgetWaits
    <3>2. /\ InOutbox(n, p, Echo)' = InOutbox(n, p, Echo) /\ InAcks(n, p, Echo)' = InAcks(n, p, Echo)
          /\ \A i \in DOMAIN outbox[n][p] : outbox'[n][p][i].msg = outbox[n][p][i].msg
      BY <1>0, <2>1, ForgetWaits
    <3>5. \A i \in InOutbox(n, p, Echo) : i \in DOMAIN outbox[n][p]
      BY DEF InOutbox
    <3> QED
      BY <1>0, <2>1, <2>3, <3>1, <3>2, <3>5 DEF SendsOK, Waits, WaitsOnce
  <2> QED
    BY <2>2, <2>3
<1>8. ASSUME UNCHANGED <<outbox, acks, got>>,
             ~MainTimesOut(m), \A p \in Nodes : ~Ack(m, p)
      PROVE  SendsOK(m, q)'
  <2>1. main[m].pc \in {"handshake", "membership"} => main'[m] = main[m]
    BY <1>8, MainStays
  <2>2. echo[m].pc = "sending" /\ echo[m].to = q => echo'[m] = echo[m]
    BY <1>8, EchoStays
  <2> QED
    BY <1>8, <2>1, <2>2, SendsKept
<1>9. LinkMoves
  BY LinkMovesStep
<1> QED
  BY <1>1, <1>2, <1>3, <1>4, <1>5, <1>6, <1>7, <1>8, <1>9 DEF LinkMoves

-----------------------------------------------------------------------------
(* Broadcasts.                                                             *)

LEMMA TrackedGrows ==
    ASSUME IInv, [Next]_vars, NEW m \in Nodes
    PROVE  tracked[m] \subseteq tracked'[m]
<1>1. CASE tracked' = tracked
  BY <1>1
<1>2. ASSUME NEW n \in Nodes, NEW p \in Nodes, Ack(n, p)
      PROVE  tracked[m] \subseteq tracked'[m]
  <2>1. Woken(n, p) = Echo => tracked'[n] = tracked[n] \cup {echo[n].call.msg.mid}
    BY <1>2, AckEchoEffect
  <2>2. m # n \/ Woken(n, p) # Echo => tracked'[m] = tracked[m]
    BY <1>2, AckFrame DEF IInv, TypeOK
  <2> QED
    BY <2>1, <2>2
<1>3. tracked' = tracked \/ \E n, p \in Nodes : Ack(n, p)
  <2>1. \A n \in Nodes : MainStep(n) \/ MainTimesOut(n) => tracked' = tracked
    BY DEF MainStep, ConnectRefused, Connect, AddSeed, AddMember, SendHelo,
           BroadcastRoundOne, SendMembership, MainTimesOut, echoVars
  <2>2. \A n \in Nodes : EchoStep(n) => tracked' = tracked
    BY DEF EchoStep, TakeCall, SendToMember, FinishSend, FinishSendPanics
  <2>3. \A n, p \in Nodes : LoopStep(n, p) \/ Transfer(n, p) \/ LoopTimesOut(n, p)
                              => tracked' = tracked
    BY DEF LoopStep, TakeUnicast, TakeBroadcast, Rebroadcast, LoopTimesOut, Transfer, echoVars
  <2> QED
    BY <2>1, <2>2, <2>3 DEF Next, vars, LinkStep
<1> QED
  BY <1>1, <1>2, <1>3

LEMMA EchoInvStep == IInv /\ [Next]_vars => EchoInv'
<1> SUFFICES ASSUME IInv, [Next]_vars, NEW m \in Nodes, echo'[m].pc = "sending"
             PROVE  /\ echo'[m].to \in echo'[m].left \cup {NoNode}
                    /\ \A p \in echo'[m].call.members \ echo'[m].left :
                         Contains(got'[p][m], echo'[m].call.msg)
                    /\ echo'[m].left # echo'[m].call.members
                         => echo'[m].call.msg.mid \in tracked'[m]
  BY DEF EchoInv
<1>0. echo[m].pc = "sending" =>
        /\ echo[m].to \in echo[m].left \cup {NoNode}
        /\ \A p \in echo[m].call.members \ echo[m].left :
             Contains(got[p][m], echo[m].call.msg)
        /\ echo[m].left # echo[m].call.members => echo[m].call.msg.mid \in tracked[m]
        /\ echo[m].call.members \subseteq Nodes
  <2>1. echo[m].pc = "sending" => echo[m].call.members \subseteq Nodes
    BY DEF IInv, TypeOK, CallsOfEcho
  <2> QED
    BY <2>1 DEF IInv, EchoInv
<1>1. EchoMoves(m) /\ tracked[m] \subseteq tracked'[m]
  BY EchoMovesStep, TrackedGrows
<1>2. \A c, l, t : /\ EchoSending(c, l, t).call = c /\ EchoSending(c, l, t).left = l
                   /\ EchoSending(c, l, t).to = t
  BY DEF EchoSending
<1>3. CASE echo'[m] = echo[m]
  <2>1. \A p \in echo[m].call.members \ echo[m].left : Contains(got'[p][m], echo[m].call.msg)
    BY <1>0, <1>3, GotGrows
  <2> QED
    BY <1>0, <1>1, <1>3, <2>1
<1>4. CASE echo'[m] = EchoSending(calls[m][1], calls[m][1].members, NoNode)
  BY <1>2, <1>4
<1>5. ASSUME NEW p \in echo[m].left, echo[m].pc = "sending",
             echo'[m] = EchoSending(echo[m].call, echo[m].left, p)
      PROVE  /\ echo'[m].to \in echo'[m].left \cup {NoNode}
             /\ \A r \in echo'[m].call.members \ echo'[m].left :
                         Contains(got'[r][m], echo'[m].call.msg)
             /\ echo'[m].left # echo'[m].call.members
                         => echo'[m].call.msg.mid \in tracked'[m]
  <2>1. \A r \in echo[m].call.members \ echo[m].left : Contains(got'[r][m], echo[m].call.msg)
    BY <1>0, <1>5, GotGrows
  <2>2. echo'[m].call = echo[m].call /\ echo'[m].left = echo[m].left /\ echo'[m].to = p
    BY <1>2, <1>5
  <2> QED
    BY <1>0, <1>1, <1>5, <2>1, <2>2
<1>6. CASE /\ echo[m].pc = "sending"
           /\ echo'[m] = EchoSending(echo[m].call, echo[m].left \ {echo[m].to}, NoNode)
           /\ Contains(got[echo[m].to][m], echo[m].call.msg)
           /\ tracked'[m] = tracked[m] \cup {echo[m].call.msg.mid}
  <2>1. \A r \in echo[m].call.members \ (echo[m].left \ {echo[m].to}) :
           Contains(got[r][m], echo[m].call.msg) /\ r \in Nodes
    BY <1>0, <1>6
  <2>2. \A r \in echo[m].call.members \ (echo[m].left \ {echo[m].to}) :
           Contains(got'[r][m], echo[m].call.msg)
    BY <2>1, GotGrows
  <2>3. /\ echo'[m].call = echo[m].call /\ echo'[m].left = echo[m].left \ {echo[m].to}
        /\ echo'[m].to = NoNode
    BY <1>2, <1>6
  <2> QED
    BY <1>6, <2>2, <2>3
<1> QED
  BY <1>1, <1>3, <1>4, <1>5, <1>6 DEF EchoMoves

(* The steps that put a call of m's tasks from one place to another.       *)
CallMoves(m) ==
    \/ BroadcastRoundOne(m) \/ TakeCall(m) \/ FinishSend(m) \/ FinishSendPanics(m)
    \/ \E p \in Nodes : Rebroadcast(m, p)

CallRests(m) ==
    /\ calls'[m] = calls[m] /\ waiters'[m] = waiters[m]
    /\ \/ echo'[m] = echo[m]
       \/ /\ echo[m].pc = "sending" /\ echo'[m].pc = "sending"
          /\ echo'[m].call = echo[m].call

LEMMA CallMovesOrRests ==
    ASSUME IInv, [Next]_vars, NEW m \in Nodes
    PROVE  CallMoves(m) \/ CallRests(m)
<1>0. Shapes
  BY DEF IInv, TypeOK
<1>1. \A c, l, t : EchoSending(c, l, t).call = c /\ EchoSending(c, l, t).pc = "sending"
  BY DEF EchoSending
<1>2. CASE UNCHANGED <<calls, echo, waiters>>
  BY <1>2 DEF CallRests
<1>3. ASSUME NEW n \in Nodes, BroadcastRoundOne(n), n # m PROVE CallRests(m)
  <2>1. /\ MainCall(n) \in CallsOfEcho
        /\ calls' = calls \/ calls' = [calls EXCEPT ![n] = Append(@, MainCall(n))]
        /\ UNCHANGED <<echo, waiters>>
    BY <1>3, RoundOneEffect
  <2>2. calls'[m] = calls[m]
    BY <1>0, <1>3, <2>1, CallEffect
  <2> QED
    BY <2>1, <2>2 DEF CallRests
<1>4. ASSUME NEW n \in Nodes, NEW p \in Nodes, Rebroadcast(n, p), n # m PROVE CallRests(m)
  <2>1. /\ LoopCall(n, p) \in CallsOfEcho
        /\ calls' = calls \/ calls' = [calls EXCEPT ![n] = Append(@, LoopCall(n, p))]
        /\ UNCHANGED <<echo, waiters>>
    BY <1>4, RebroadcastEffect
  <2>2. calls'[m] = calls[m]
    BY <1>0, <1>4, <2>1, CallEffect
  <2> QED
    BY <2>1, <2>2 DEF CallRests
<1>5. ASSUME NEW n \in Nodes, TakeCall(n), n # m PROVE CallRests(m)
  <2>1. echo'[m] = echo[m] /\ calls'[m] = calls[m] /\ waiters' = waiters
    BY <1>5, TakeCallEffect
  <2> QED
    BY <2>1 DEF CallRests
<1>6. ASSUME NEW n \in Nodes, FinishSend(n), n # m PROVE CallRests(m)
  <2>1. echo'[m] = echo[m] /\ waiters'[m] = waiters[m] /\ calls' = calls
    BY <1>6, FinishSendEffect
  <2> QED
    BY <2>1 DEF CallRests
<1>7. ASSUME NEW n \in Nodes, FinishSendPanics(n), n # m PROVE CallRests(m)
  <2>1. echo'[m] = echo[m] /\ waiters'[m] = waiters[m] /\ calls'[m] = calls[m]
    BY <1>7, FinishSendPanicsEffect
  <2> QED
    BY <2>1 DEF CallRests
<1>8. ASSUME NEW n \in Nodes, NEW p \in Nodes, SendToMember(n, p) PROVE CallRests(m)
  <2>1. /\ calls' = calls /\ waiters' = waiters /\ echo[n].pc = "sending"
        /\ echo'[n] = EchoSending(echo[n].call, echo[n].left, p)
        /\ m # n => echo'[m] = echo[m]
    BY <1>8, SendToMemberEffect
  <2> QED
    BY <1>1, <2>1 DEF CallRests
<1>9. ASSUME NEW n \in Nodes, NEW p \in Nodes, Ack(n, p) PROVE CallRests(m)
  <2>1. calls' = calls /\ waiters' = waiters
    BY <1>9, AckEffect
  <2>2. /\ Woken(n, p) = Echo =>
             /\ echo[n].pc = "sending"
             /\ echo'[n] = EchoSending(echo[n].call, echo[n].left \ {p}, NoNode)
        /\ m # n \/ Woken(n, p) # Echo => echo'[m] = echo[m]
    <3>1. m # n \/ Woken(n, p) # Echo => echo'[m] = echo[m]
      BY <1>0, <1>9, AckFrame
    <3> QED
      BY <1>9, <3>1, AckEchoEffect
  <2> QED
    BY <1>1, <2>1, <2>2 DEF CallRests
<1>10. \/ UNCHANGED <<calls, echo, waiters>>
       \/ \E n \in Nodes : CallMoves(n)
       \/ \E n, p \in Nodes : SendToMember(n, p) \/ Ack(n, p)
  <2>1. \A n \in Nodes : MainStep(n) \/ MainTimesOut(n)
                           => UNCHANGED <<calls, echo, waiters>> \/ CallMoves(n)
    BY DEF MainStep, ConnectRefused, Connect, AddSeed, AddMember, SendHelo,
           SendMembership, MainTimesOut, echoVars, CallMoves
  <2>2. \A n \in Nodes : EchoStep(n) => CallMoves(n) \/ \E p \in Nodes : SendToMember(n, p)
    BY DEF EchoStep, CallMoves
  <2>3. \A n, p \in Nodes : LoopStep(n, p) => UNCHANGED <<calls, echo, waiters>> \/ CallMoves(n)
    BY DEF LoopStep, TakeUnicast, TakeBroadcast, CallMoves, echoVars
  <2>4. \A n, p \in Nodes : Transfer(n, p) \/ LoopTimesOut(n, p)
                              => UNCHANGED <<calls, echo, waiters>>
    BY DEF LoopTimesOut, Transfer, echoVars
  <2> QED
    BY <2>1, <2>2, <2>3, <2>4 DEF Next, vars, LinkStep
<1> QED
  BY <1>2, <1>3, <1>4, <1>5, <1>6, <1>7, <1>8, <1>9, <1>10 DEF CallMoves

(* While the main task waits for its broadcast, only the echo broadcast    *)
(* actor moves it, and the membership stays as it is.                      *)
LEMMA BroadcastStays ==
    ASSUME IInv, [Next]_vars, NEW m \in Nodes, main[m].pc = "broadcast"
    PROVE  /\ main'[m] = main[m] \/ FinishSend(m) \/ FinishSendPanics(m)
           /\ members'[m] = members[m] /\ main'[m].peer = main[m].peer
<1>0. Shapes
  BY DEF IInv, TypeOK
<1> DEFINE Same == main'[m] = main[m] /\ members'[m] = members[m]
<1>1. ASSUME UNCHANGED <<main, members>> PROVE Same
  BY <1>1
<1>2. ASSUME NEW n \in Nodes, ConnectRefused(n) PROVE Same
  <2>1. main[n].pc = "connect" /\ (m # n => main'[m] = main[m]) /\ members' = members
    BY <1>2, ConnectRefusedEffect
  <2> QED
    BY <2>1
<1>3. ASSUME NEW n \in Nodes, NEW s \in Nodes, Connect(n, s) PROVE Same
  <2>1. /\ main[n].pc = "connect" /\ main[s].pc = "accept" /\ members' = members
        /\ (m # n /\ m # s) => main'[m] = main[m]
    BY <1>3, ConnectEffect
  <2> QED
    BY <2>1
<1>4. ASSUME NEW n \in Nodes, AddSeed(n) PROVE Same
  <2>1. main[n].pc = "add_seed" /\ (m # n => main'[m] = main[m] /\ members'[m] = members[m])
    BY <1>4, AddSeedEffect
  <2> QED
    BY <2>1
<1>5. ASSUME NEW n \in Nodes, AddMember(n) PROVE Same
  <2>1. main[n].pc = "add_member" /\ (m # n => main'[m] = main[m] /\ members'[m] = members[m])
    BY <1>5, AddMemberEffect
  <2> QED
    BY <2>1
<1>6. ASSUME NEW n \in Nodes, SendHelo(n) \/ SendMembership(n) PROVE Same
  <2>1. /\ main[n].pc \in {"send_helo", "send_membership"} /\ members' = members
        /\ m # n => main'[m] = main[m]
    BY <1>6, MainSendEffect
  <2> QED
    BY <2>1
<1>7. ASSUME NEW n \in Nodes, BroadcastRoundOne(n) PROVE Same
  <2>1. main[n].pc = "round_one" /\ members' = members /\ (m # n => main'[m] = main[m])
    BY <1>7, RoundOneEffect
  <2> QED
    BY <2>1
<1>8. ASSUME NEW n \in Nodes, MainTimesOut(n) PROVE Same
  <2>1. /\ main[n].pc \in {"handshake", "membership"} /\ members' = members
        /\ m # n => main'[m] = main[m]
    BY <1>8, MainTimesOutEffect
  <2> QED
    BY <2>1
<1>9. ASSUME NEW n \in Nodes, NEW p \in Nodes, Ack(n, p) PROVE Same
  <2>1. members' = members
    BY <1>9, AckEffect
  <2>2. Woken(n, p) = Main => main[n].pc \in {"handshake", "membership"}
    <3>1. SendsOK(n, p)
      BY SendsParts
    <3>2. Woken(n, p) = Main => 1 \in InAcks(n, p, Main)
      BY <1>9, AckWaits
    <3> QED
      BY <3>1, <3>2 DEF SendsOK, Waits
  <2>3. m # n \/ Woken(n, p) # Main => main'[m] = main[m]
    BY <1>0, <1>9, AckFrame
  <2> QED
    BY <2>1, <2>2, <2>3
<1>10. ASSUME NEW n \in Nodes, FinishSend(n) \/ FinishSendPanics(n)
       PROVE  /\ members' = members /\ main'[m].peer = main[m].peer
              /\ m # n => main'[m] = main[m]
  <2>1. PICK S : ReturnErr(n, S) /\ S \subseteq Linked(n) \cup {Main}
    BY <1>10, ErrEffect
  <2>2. main'[m].peer = main[m].peer /\ (m # n => main'[m] = main[m])
    BY <1>0, <2>1, ReturnEffect
  <2>3. members' = members
    BY <1>10 DEF FinishSend, FinishSendPanics
  <2> QED
    BY <2>2, <2>3
<1>11. \/ UNCHANGED <<main, members>>
       \/ \E n \in Nodes : MainMover(n)
       \/ \E n, p \in Nodes : Connect(n, p) \/ Ack(n, p)
  BY MainMovers
<1>12. Same \/ \E n \in Nodes : FinishSend(n) \/ FinishSendPanics(n)
  BY <1>1, <1>2, <1>3, <1>4, <1>5, <1>6, <1>7, <1>8, <1>9, <1>11 DEF MainMover
<1> QED
  BY <1>10, <1>12

(* The part of BroadcastInv about one node.                                *)
BroadcastOK(n) ==
    /\ MainCalls(n) # {} \/ MainSending(n) \/ MainWaiters(n) # {}
         => main[n].pc = "broadcast"
    /\ \A i, j \in MainCalls(n) : i = j
    /\ \A i \in MainCalls(n) : calls[n][i] = MainCall(n)
    /\ MainSending(n) => echo[n].call = MainCall(n) /\ MainCalls(n) = {}
    /\ MainWaiters(n) # {} => /\ MainCalls(n) = {} /\ ~MainSending(n)
                              /\ MainWaiters(n) = {<< <<n, main[n].peer>>, Main>>}
                              /\ Reached(n)

LEMMA BroadcastParts == IInv => \A n \in Nodes : BroadcastOK(n)
  BY DEF IInv, BroadcastInv, BroadcastOK

LEMMA ReachedGrows ==
    ASSUME IInv, [Next]_vars, NEW m \in Nodes, Reached(m), members'[m] = members[m],
           main'[m].peer = main[m].peer
    PROVE  Reached(m)'
<1>1. members[m] \subseteq Nodes
  BY DEF IInv, TypeOK, Shapes
<1>2. \A p \in members[m] : Contains(got'[p][m], RoundOne(<<m, main[m].peer>>, m))
  BY <1>1, GotGrows DEF Reached
<1> QED
  BY <1>2 DEF Reached

(* While the main task of m waits, its call goes from the channel to the   *)
(* actor to the waiters.                                                   *)
LEMMA BroadcastKept ==
    ASSUME IInv, [Next]_vars, NEW m \in Nodes, main'[m] = main[m],
           members'[m] = members[m], MainCalls(m)' \subseteq MainCalls(m),
           \A i \in MainCalls(m)' : calls'[m][i] = calls[m][i],
           MainSending(m)' => MainSending(m) /\ echo'[m].call = echo[m].call,
           MainWaiters(m)' = MainWaiters(m)
    PROVE  BroadcastOK(m)'
<1>1. BroadcastOK(m)
  BY BroadcastParts
<1>2. MainCall(m)' = MainCall(m)
  BY DEF MainCall
<1>3. Reached(m) => Reached(m)'
  BY ReachedGrows
<1> QED
  BY <1>1, <1>2, <1>3 DEF BroadcastOK

LEMMA BroadcastOutside ==
    ASSUME NEW m \in Nodes, MainCalls(m)' = {}, ~MainSending(m)', MainWaiters(m)' = {}
    PROVE  BroadcastOK(m)'
  BY DEF BroadcastOK

LEMMA BroadcastStep == IInv /\ [Next]_vars => BroadcastInv'
<1> SUFFICES ASSUME IInv, [Next]_vars, NEW m \in Nodes
             PROVE  BroadcastOK(m)'
  BY DEF BroadcastInv, BroadcastOK
<1>0. Shapes /\ BroadcastOK(m) /\ Main \notin Nodes
  BY BroadcastParts, SeedsAssumption DEF IInv, TypeOK, Main
<1>1. main[m].pc # "broadcast" => MainCalls(m) = {} /\ ~MainSending(m) /\ MainWaiters(m) = {}
  BY <1>0 DEF BroadcastOK
<1>2. ASSUME CallRests(m), ~FinishSend(m), ~FinishSendPanics(m) PROVE BroadcastOK(m)'
  <2>1. /\ MainCalls(m)' = MainCalls(m) /\ calls'[m] = calls[m]
        /\ MainWaiters(m)' = MainWaiters(m)
        /\ MainSending(m)' => MainSending(m) /\ echo'[m].call = echo[m].call
    BY <1>2 DEF CallRests, MainCalls, MainWaiters, MainSending
  <2>2. CASE main[m].pc = "broadcast"
    <3>1. main'[m] = main[m] /\ members'[m] = members[m]
      BY <1>2, <2>2, BroadcastStays
    <3> QED
      BY <2>1, <3>1, BroadcastKept
  <2>3. CASE main[m].pc # "broadcast"
    BY <1>1, <2>1, <2>3, BroadcastOutside
  <2> QED
    BY <2>2, <2>3
<1>3. ASSUME BroadcastRoundOne(m) PROVE BroadcastOK(m)'
  <2>1. /\ main[m].pc = "round_one" /\ MainCall(m) \in CallsOfEcho
        /\ main'[m].peer = main[m].peer /\ UNCHANGED <<members, echo, waiters>>
        /\ \/ calls' = calls
           \/ /\ calls' = [calls EXCEPT ![m] = Append(@, MainCall(m))]
              /\ main'[m].pc = "broadcast"
    BY <1>3, RoundOneEffect
  <2>2. MainCalls(m) = {} /\ ~MainSending(m)' /\ MainWaiters(m)' = {}
    BY <1>1, <2>1 DEF MainSending, MainWaiters
  <2>3. CASE calls' = calls
    <3>1. MainCalls(m)' = {}
      BY <2>2, <2>3 DEF MainCalls
    <3> QED
      BY <2>2, <3>1, BroadcastOutside
  <2>4. CASE /\ calls' = [calls EXCEPT ![m] = Append(@, MainCall(m))]
             /\ main'[m].pc = "broadcast"
    <3>1. calls'[m] = Append(calls[m], MainCall(m)) /\ calls[m] \in Seq(CallsOfEcho)
      BY <1>0, <2>1, <2>4, CallEffect
    <3>2. /\ DOMAIN calls[m] = 1..Len(calls[m]) /\ DOMAIN calls'[m] = 1..Len(calls[m]) + 1
          /\ \A i \in 1..Len(calls[m]) : calls'[m][i] = calls[m][i]
          /\ calls'[m][Len(calls[m]) + 1] = MainCall(m) /\ Len(calls[m]) \in Nat
      BY <2>1, <3>1, AppendType
    <3>3. \A i \in MainCalls(m)' : i = Len(calls[m]) + 1
      <4>1. \A i \in DOMAIN calls'[m] : i \in DOMAIN calls[m] \/ i = Len(calls[m]) + 1
        BY <3>2
      <4>2. \A i \in DOMAIN calls[m] : calls'[m][i].by # Main
        BY <2>2, <3>2 DEF MainCalls
      <4> QED
        BY <4>1, <4>2 DEF MainCalls
    <3>4. MainCall(m)' = MainCall(m)
      BY <2>1 DEF MainCall
    <3> QED
      BY <2>1, <2>2, <2>4, <3>2, <3>3, <3>4 DEF BroadcastOK
  <2> QED
    BY <2>1, <2>3, <2>4
<1>4. ASSUME NEW p \in Nodes, Rebroadcast(m, p) PROVE BroadcastOK(m)'
  <2>1. /\ LoopCall(m, p) \in CallsOfEcho
        /\ UNCHANGED <<main, members, echo, waiters>>
        /\ calls' = calls \/ calls' = [calls EXCEPT ![m] = Append(@, LoopCall(m, p))]
    BY <1>4, RebroadcastEffect
  <2>2. \A i \in MainCalls(m)' : i \in MainCalls(m) /\ calls'[m][i] = calls[m][i]
    <3>1. CASE calls' = calls
      BY <3>1 DEF MainCalls
    <3>2. CASE calls' = [calls EXCEPT ![m] = Append(@, LoopCall(m, p))]
      <4>1. calls'[m] = Append(calls[m], LoopCall(m, p)) /\ calls[m] \in Seq(CallsOfEcho)
        BY <1>0, <2>1, <3>2, CallEffect
      <4>2. /\ DOMAIN calls[m] = 1..Len(calls[m]) /\ DOMAIN calls'[m] = 1..Len(calls[m]) + 1
            /\ \A i \in 1..Len(calls[m]) : calls'[m][i] = calls[m][i]
            /\ calls'[m][Len(calls[m]) + 1] = LoopCall(m, p) /\ Len(calls[m]) \in Nat
        BY <2>1, <4>1, AppendType
      <4>3. LoopCall(m, p).by # Main
        BY <1>0 DEF LoopCall
      <4>4. \A i \in DOMAIN calls'[m] : \/ i \in DOMAIN calls[m] /\ calls'[m][i] = calls[m][i]
                                        \/ calls'[m][i].by # Main
        BY <4>2, <4>3
      <4> QED
        BY <4>4 DEF MainCalls
    <3> QED
      BY <2>1, <3>1, <3>2
  <2>3. /\ MainSending(m)' => MainSending(m) /\ echo'[m].call = echo[m].call
        /\ MainWaiters(m)' = MainWaiters(m) /\ main'[m] = main[m] /\ members'[m] = members[m]
    BY <2>1 DEF MainSending, MainWaiters
  <2> QED
    BY <2>2, <2>3, BroadcastKept
<1>5. ASSUME TakeCall(m) PROVE BroadcastOK(m)'
  <2>1. /\ echo[m].pc = "recv" /\ calls[m] # <<>> /\ calls[m] \in Seq(CallsOfEcho)
        /\ 1 \in DOMAIN calls[m] /\ calls'[m] = Tail(calls[m])
        /\ echo'[m] = EchoSending(calls[m][1], calls[m][1].members, NoNode)
        /\ UNCHANGED <<main, members, waiters>>
    BY <1>5, TakeCallEffect
  <2>2. \A i \in MainCalls(m)' : /\ i + 1 \in MainCalls(m) /\ i + 1 # 1 /\ i \in Nat
                                 /\ calls'[m][i] = calls[m][i + 1]
    <3>1. /\ Len(calls[m]) \in Nat \ {0} /\ DOMAIN calls[m] = 1..Len(calls[m])
          /\ DOMAIN calls'[m] = 1..Len(calls[m]) - 1
          /\ \A i \in 1..Len(calls[m]) - 1 : calls'[m][i] = calls[m][i + 1]
      BY <2>1, TailType
    <3>2. \A i \in DOMAIN calls'[m] : /\ i + 1 \in DOMAIN calls[m] /\ i + 1 # 1 /\ i \in Nat
                                      /\ calls'[m][i] = calls[m][i + 1]
      BY <3>1
    <3> QED
      BY <3>2 DEF MainCalls
  <2>3. \A i, j \in MainCalls(m)' : i = j
    <3>1. \A i, j \in MainCalls(m)' : i + 1 = j + 1 /\ i \in Nat /\ j \in Nat
      BY <1>0, <2>2 DEF BroadcastOK
    <3> QED
      BY <3>1
  <2>4. MainCall(m)' = MainCall(m) /\ MainWaiters(m)' = MainWaiters(m)
        /\ ~MainSending(m)
    BY <2>1 DEF MainCall, MainWaiters, MainSending
  <2>5. /\ MainSending(m)' => 1 \in MainCalls(m)
        /\ echo'[m].call = calls[m][1]
    BY <2>1 DEF MainSending, MainCalls, EchoSending
  <2>6. Reached(m) => Reached(m)'
    BY <2>1, ReachedGrows
  <2>7. MainSending(m)' => MainCalls(m)' = {}
    BY <1>0, <2>2, <2>5 DEF BroadcastOK
  <2> QED
    BY <1>0, <2>1, <2>2, <2>3, <2>4, <2>5, <2>6, <2>7 DEF BroadcastOK
<1>6. ASSUME FinishSend(m) PROVE BroadcastOK(m)'
  <2> DEFINE c == echo[m].call
             w == <<c.msg.mid, c.by>>
             old == WaitersFor(m, c.msg.mid)
             S == {v[2] : v \in old}
  <2>1. /\ echo[m].pc = "sending" /\ echo[m].left = {} /\ c \in CallsOfEcho
        /\ echo'[m] = EchoIdle /\ waiters'[m] = (waiters[m] \ old) \cup {w}
        /\ UNCHANGED <<members, calls>>
    BY <1>6, FinishSendEffect
  <2>2. ReturnErr(m, S)
    BY <1>6 DEF FinishSend
  <2>3. S \subseteq Linked(m) \cup {Main}
    BY DEF IInv, LinksInv, WaitersFor
  <2>4. /\ main'[m].peer = main[m].peer
        /\ Main \notin S => main'[m] = main[m]
    BY <1>0, <2>2, <2>3, ReturnEffect
  <2>5. /\ ~MainSending(m)' /\ MainCalls(m)' = MainCalls(m)
        /\ MainSending(m) <=> c.by = Main
    BY <2>1, StateTypes DEF MainSending, MainCalls
  <2>6. \A v \in MainWaiters(m)' : v \in MainWaiters(m) \/ (v = w /\ c.by = Main)
    BY <2>1 DEF MainWaiters
  <2>7. CASE c.by = Main
    <3>1. /\ c = MainCall(m) /\ MainCalls(m) = {} /\ MainWaiters(m) = {}
          /\ main[m].pc = "broadcast"
      BY <1>0, <2>5, <2>7 DEF BroadcastOK
    <3>2. Main \notin S
      BY <3>1 DEF MainWaiters, WaitersFor
    <3>3. Reached(m)
      <4>1. \A p \in c.members \ echo[m].left : Contains(got[p][m], c.msg)
        BY <2>1 DEF IInv, EchoInv
      <4>2. c.members = members[m] /\ c.msg = RoundOne(<<m, main[m].peer>>, m)
        BY <3>1 DEF MainCall
      <4> QED
        BY <2>1, <4>1, <4>2 DEF Reached
    <3>4. Reached(m)'
      BY <2>1, <2>4, <3>3, ReachedGrows
    <3>5. c.msg.mid = <<m, main[m].peer>>
      BY <3>1 DEF MainCall, RoundOne
    <3>6. MainWaiters(m)' = {<< <<m, main[m].peer>>, Main>>}
      <4>1. w \in waiters'[m] /\ w = << <<m, main[m].peer>>, Main>>
        BY <2>1, <2>7, <3>5
      <4> QED
        BY <2>6, <3>1, <4>1 DEF MainWaiters
    <3> QED
      BY <2>4, <2>5, <3>1, <3>2, <3>4, <3>6 DEF BroadcastOK
  <2>8. CASE c.by # Main /\ Main \in S
    <3>1. PICK v \in old : v[2] = Main
      BY <2>8
    <3>2. v \in MainWaiters(m)
      BY <3>1 DEF MainWaiters, WaitersFor
    <3>3. MainCalls(m) = {} /\ MainWaiters(m) = {v}
      BY <1>0, <3>2 DEF BroadcastOK
    <3>4. v \notin waiters'[m]
      BY <2>1, <2>8, <3>1
    <3>5. MainWaiters(m)' = {}
      BY <2>6, <2>8, <3>3, <3>4 DEF MainWaiters
    <3> QED
      BY <2>5, <3>3, <3>5, BroadcastOutside
  <2>9. CASE c.by # Main /\ Main \notin S
    <3>1. main'[m] = main[m] /\ members'[m] = members[m]
      BY <2>1, <2>4, <2>9
    <3>2. \A v \in MainWaiters(m) : v \in waiters[m] /\ v[2] = Main /\ v \notin old
      BY <2>9 DEF MainWaiters
    <3>3. MainWaiters(m)' = MainWaiters(m)
      <4>1. \A v \in MainWaiters(m) : v \in waiters'[m] /\ v[2] = Main
        BY <2>1, <3>2
      <4> QED
        BY <2>6, <2>9, <4>1 DEF MainWaiters
    <3>4. \A i \in MainCalls(m)' : calls'[m][i] = calls[m][i]
      BY <2>1
    <3> QED
      BY <2>5, <3>1, <3>3, <3>4, BroadcastKept
  <2> QED
    BY <2>7, <2>8, <2>9
<1>7. ASSUME FinishSendPanics(m) PROVE BroadcastOK(m)'
  <2>1. calls'[m] = <<>> /\ waiters'[m] = {} /\ echo'[m] = EchoPanicked
    BY <1>7, FinishSendPanicsEffect
  <2>2. MainCalls(m)' = {} /\ MainWaiters(m)' = {} /\ ~MainSending(m)'
    BY <2>1, StateTypes DEF MainCalls, MainWaiters, MainSending
  <2> QED
    BY <2>2, BroadcastOutside
<1> QED
  BY <1>2, <1>3, <1>4, <1>5, <1>6, <1>7, CallMovesOrRests DEF CallMoves

(* The way of a main task, with what it does to the membership.            *)
MainPath(m) ==
    \/ /\ members'[m] = members[m]
       /\ \/ main'[m] = main[m]
          \/ main[m].pc = "connect" /\ main'[m].pc \in {"stopped", "add_seed"}
          \/ main[m].pc = "accept" /\ main'[m].pc = "add_member"
          \/ main[m].pc = "membership" /\ main'[m].pc = "accept"
    \/ /\ members'[m] = members[m] \cup {main[m].peer}
       /\ \/ main[m].pc = "add_seed" /\ main'[m].pc \in {"accept", "connect"}
          \/ /\ main[m].pc = "add_member" /\ main'[m].pc = "send_helo"
             /\ main'[m].peer = main[m].peer
    \/ /\ members'[m] = members[m] /\ main'[m].peer = main[m].peer
       /\ \/ main[m].pc = "send_helo" /\ main'[m].pc = "handshake" /\ SendHelo(m)
          \/ main[m].pc = "handshake" /\ main'[m].pc = "round_one"
          \/ main[m].pc = "round_one" /\ main'[m].pc = "broadcast"
          \/ main[m].pc = "round_one" /\ main'[m].pc = "send_membership" /\ Panicked(m)'
          \/ /\ main[m].pc = "broadcast" /\ main'[m].pc = "send_membership"
             /\ Panicked(m)' \/ Reached(m)
          \/ main[m].pc = "send_membership" /\ main'[m].pc = "membership"

LEMMA MainPathStep ==
    ASSUME IInv, [Next]_vars, NEW m \in Nodes
    PROVE  MainPath(m)
<1>0. Shapes /\ main \in [Nodes -> MainStates] /\ main[m] \in MainStates
  BY DEF IInv, TypeOK, Shapes
<1>1. ASSUME main'[m] = main[m], members'[m] = members[m] PROVE MainPath(m)
  BY <1>1 DEF MainPath
<1>2. ASSUME NEW n \in Nodes, ConnectRefused(n) PROVE MainPath(m)
  <2>1. /\ main[n].pc = "connect" /\ main'[n].pc = "stopped" /\ members' = members
        /\ m # n => main'[m] = main[m]
    BY <1>2, ConnectRefusedEffect
  <2> QED
    BY <2>1 DEF MainPath
<1>3. ASSUME NEW n \in Nodes, NEW s \in Nodes, Connect(n, s) PROVE MainPath(m)
  <2>1. /\ main[n].pc = "connect" /\ main[s].pc = "accept" /\ members' = members
        /\ main'[n].pc = "add_seed" /\ main'[s].pc = "add_member"
        /\ (m # n /\ m # s) => main'[m] = main[m]
    BY <1>3, ConnectEffect
  <2> QED
    BY <2>1 DEF MainPath
<1>4. ASSUME NEW n \in Nodes, AddSeed(n) PROVE MainPath(m)
  <2>1. /\ main[n].pc = "add_seed" /\ main'[n].pc \in {"accept", "connect"}
        /\ members'[n] = members[n] \cup {main[n].peer}
        /\ m # n => main'[m] = main[m] /\ members'[m] = members[m]
    BY <1>4, AddSeedEffect
  <2> QED
    BY <2>1 DEF MainPath
<1>5. ASSUME NEW n \in Nodes, AddMember(n) PROVE MainPath(m)
  <2>1. /\ main[n].pc = "add_member" /\ main'[n].pc = "send_helo"
        /\ main'[n].peer = main[n].peer
        /\ members'[n] = members[n] \cup {main[n].peer}
        /\ m # n => main'[m] = main[m] /\ members'[m] = members[m]
    BY <1>5, AddMemberEffect
  <2> QED
    BY <2>1 DEF MainPath
<1>6. ASSUME NEW n \in Nodes, SendHelo(n) \/ SendMembership(n) PROVE MainPath(m)
  <2>1. /\ \/ main[n].pc = "send_helo" /\ main'[n].pc = "handshake"
           \/ main[n].pc = "send_membership" /\ main'[n].pc = "membership"
        /\ main'[n].peer = main[n].peer /\ members' = members
        /\ m # n => main'[m] = main[m]
    BY <1>6, MainSendEffect
  <2>2. main[n].pc = "send_helo" => SendHelo(n)
    BY <1>6 DEF SendMembership
  <2> QED
    BY <2>1, <2>2 DEF MainPath
<1>7. ASSUME NEW n \in Nodes, BroadcastRoundOne(n) PROVE MainPath(m)
  <2>1. /\ main[n].pc = "round_one" /\ main'[n].peer = main[n].peer /\ members' = members
        /\ \/ echo[n].pc = "panicked" /\ main'[n].pc = "send_membership"
           \/ main'[n].pc = "broadcast"
        /\ m # n => main'[m] = main[m]
        /\ echo' = echo
    BY <1>7, RoundOneEffect
  <2>2. echo[n].pc = "panicked" => Panicked(n)'
    BY <2>1 DEF Panicked
  <2> QED
    BY <2>1, <2>2 DEF MainPath
<1>8. ASSUME NEW n \in Nodes, main'[n] = AfterSend(main[n]), m # n => main'[m] = main[m],
             main[n].pc \in {"handshake", "membership"}, members' = members
      PROVE  MainPath(m)
  <2>1. \/ /\ main[n].pc = "handshake" /\ main'[n].pc = "round_one"
           /\ main'[n].peer = main[n].peer
        \/ main[n].pc = "membership" /\ main'[n].pc = "accept"
    BY <1>0, <1>8 DEF MainStates, AfterSend, At
  <2> QED
    BY <1>8, <2>1 DEF MainPath
<1>9. ASSUME NEW n \in Nodes, MainTimesOut(n) PROVE MainPath(m)
  BY <1>8, <1>9, MainTimesOutEffect
<1>10. ASSUME NEW n \in Nodes, NEW p \in Nodes, Ack(n, p) PROVE MainPath(m)
  <2>1. members' = members
    BY <1>10, AckEffect
  <2>2. CASE Woken(n, p) = Main
    <3>1. SendsOK(n, p) /\ 1 \in InAcks(n, p, Main)
      BY <1>10, <2>2, SendsParts, AckWaits
    <3>2. main[n].pc \in {"handshake", "membership"}
      BY <3>1 DEF SendsOK, Waits
    <3>3. main'[n] = AfterSend(main[n]) /\ (m # n => main'[m] = main[m])
      BY <1>10, <2>2, AckMainEffect
    <3> QED
      BY <1>8, <2>1, <3>2, <3>3
  <2>3. CASE Woken(n, p) # Main
    <3>1. main'[m] = main[m]
      BY <1>0, <1>10, <2>3, AckFrame
    <3> QED
      BY <1>1, <2>1, <3>1
  <2> QED
    BY <2>2, <2>3
<1>11. ASSUME NEW n \in Nodes, FinishSendPanics(n) PROVE MainPath(m)
  <2>1. PICK S : /\ ReturnErr(n, S) /\ S \subseteq Linked(n) \cup {Main}
                 /\ Main \in S => main[n].pc = "broadcast"
    BY <1>11, ErrEffect
  <2>2. /\ main'[m].peer = main[m].peer
        /\ \/ main'[m] = main[m]
           \/ m = n /\ Main \in S /\ main'[m].pc = "send_membership"
    BY <1>0, <2>1, ReturnEffect
  <2>3. Panicked(n)' /\ members' = members
    <3>1. echo'[n] = EchoPanicked
      BY <1>11, FinishSendPanicsEffect
    <3> QED
      BY <1>11, <3>1, StateTypes DEF Panicked, FinishSendPanics
  <2> QED
    BY <2>1, <2>2, <2>3 DEF MainPath
<1>12. ASSUME NEW n \in Nodes, FinishSend(n) PROVE MainPath(m)
  <2> DEFINE S == {w[2] : w \in WaitersFor(n, echo[n].call.msg.mid)}
  <2>1. ReturnErr(n, S) /\ members' = members
    BY <1>12 DEF FinishSend
  <2>2. S \subseteq Linked(n) \cup {Main}
    BY DEF IInv, LinksInv, WaitersFor
  <2>3. Main \in S => MainWaiters(n) # {}
    BY DEF MainWaiters, WaitersFor
  <2> HIDE DEF S
  <2>4. /\ main'[m].peer = main[m].peer
        /\ \/ main'[m] = main[m]
           \/ m = n /\ Main \in S /\ main'[m].pc = "send_membership"
    BY <1>0, <2>1, <2>2, ReturnEffect
  <2>5. Main \in S => main[n].pc = "broadcast" /\ Reached(n)
    <3>1. BroadcastOK(n)
      BY BroadcastParts
    <3> QED
      BY <2>3, <3>1 DEF BroadcastOK
  <2> QED
    BY <2>1, <2>4, <2>5 DEF MainPath
<1>13. \/ UNCHANGED <<main, members>>
       \/ \E n \in Nodes : MainMover(n)
       \/ \E n, p \in Nodes : Connect(n, p) \/ Ack(n, p)
  BY MainMovers
<1> QED
  BY <1>1, <1>2, <1>3, <1>4, <1>5, <1>6, <1>7, <1>9, <1>10, <1>11, <1>12, <1>13
     DEF MainMover

(* What the main task has broadcast is with all members when it goes on.   *)
LEMMA ReachedStep == IInv /\ [Next]_vars => BroadcastReachedMembers'
<1> SUFFICES ASSUME IInv, [Next]_vars, NEW m \in Nodes,
                    main'[m].pc \in {"send_membership", "membership"}, ~Panicked(m)'
             PROVE  Reached(m)'
  BY DEF BroadcastReachedMembers, Reached
<1>1. ~Panicked(m)
  BY EchoMovesStep DEF EchoMoves, Panicked
<1>2. main[m].pc \in {"send_membership", "membership"} => Reached(m)
  BY <1>1 DEF IInv, BroadcastReachedMembers, Reached
<1>3. /\ members'[m] = members[m] /\ main'[m].peer = main[m].peer
      /\ \/ main[m].pc \in {"send_membership", "membership"}
         \/ Reached(m)
  BY MainPathStep DEF MainPath
<1> QED
  BY <1>2, <1>3, ReachedGrows

(* Helo is before a membership: in the outbox, and in what has arrived.    *)
HeloOut(n, p) == Contains(got[p][n], Helo) \/ HeloSent(n, p)
HeloFirst(n, p) ==
    \A i \in DOMAIN outbox[n][p] :
        outbox[n][p][i].msg.kind = "membership" =>
            \/ Contains(got[p][n], Helo)
            \/ \E j \in 1..i : outbox[n][p][j].msg = Helo
HeloGot(n, p) ==
    \A i \in DOMAIN got[p][n] :
        got[p][n][i].kind = "membership" => \E j \in 1..i : got[p][n][j] = Helo

LEMMA HeloParts ==
    ASSUME IInv, NEW n \in Nodes, NEW p \in Nodes
    PROVE  HeloFirst(n, p) /\ HeloGot(n, p)
  BY DEF IInv, HeloInv, HeloBeforeMembership, HeloFirst, HeloGot, Helo

LEMMA HeloSends ==
    ASSUME Shapes, NEW n \in Nodes, NEW p \in Nodes, NEW msg \in Messages,
           NEW by \in Tasks, SendReliably(n, p, msg, by), got' = got,
           msg.kind = "membership" => HeloOut(n, p), HeloFirst(n, p)
    PROVE  /\ HeloFirst(n, p)' /\ (HeloOut(n, p) => HeloOut(n, p)')
           /\ msg = Helo => HeloOut(n, p)'
<1> DEFINE s == outbox[n][p]
           t == outbox'[n][p]
           x == [msg |-> msg, by |-> by]
<1>1. s \in Seq(Outs) /\ x \in Outs /\ t = Append(s, x)
  BY SendEffect
<1>2. x.msg = msg
  OBVIOUS
<1> HIDE DEF x
<1>3. /\ DOMAIN s = 1..Len(s) /\ DOMAIN t = 1..Len(s) + 1 /\ Len(s) \in Nat
      /\ \A i \in 1..Len(s) : t[i] = s[i]
      /\ t[Len(s) + 1].msg = msg
  BY <1>1, <1>2, AppendType
<1>4. HeloSent(n, p) => \E j \in 1..Len(s) : s[j].msg = Helo
  BY <1>3 DEF HeloSent
<1>5. \A i \in DOMAIN s : s[i].msg.kind = "membership" =>
            \/ Contains(got[p][n], Helo)
            \/ \E j \in 1..i : s[j].msg = Helo
  BY DEF HeloFirst
<1>6. msg.kind = "membership" => Contains(got[p][n], Helo) \/ \E j \in 1..Len(s) : s[j].msg = Helo
  BY <1>4 DEF HeloOut
<1> HIDE DEF s, t
<1>7. \A i \in DOMAIN t : t[i].msg.kind = "membership" =>
            \/ Contains(got[p][n], Helo)
            \/ \E j \in 1..i : t[j].msg = Helo
  <2> SUFFICES ASSUME NEW i \in DOMAIN t, t[i].msg.kind = "membership",
                      ~Contains(got[p][n], Helo)
               PROVE  \E j \in 1..i : t[j].msg = Helo
    OBVIOUS
  <2>1. CASE i \in 1..Len(s)
    <3>1. PICK j \in 1..i : s[j].msg = Helo
      BY <1>3, <1>5, <2>1
    <3> QED
      BY <1>3, <2>1, <3>1
  <2>2. CASE i = Len(s) + 1
    <3>1. PICK j \in 1..Len(s) : s[j].msg = Helo
      BY <1>3, <1>6, <2>2
    <3>2. j \in 1..i /\ t[j].msg = Helo
      BY <1>3, <2>2, <3>1
    <3> QED
      BY <3>2
  <2> QED
    BY <1>3, <2>1, <2>2
<1>8. HeloFirst(n, p)'
  BY <1>7 DEF HeloFirst, t
<1>9. HeloOut(n, p) => HeloOut(n, p)'
  <2>1. \A j \in 1..Len(s) : j \in DOMAIN t /\ t[j] = s[j]
    BY <1>3
  <2>2. HeloSent(n, p) => HeloSent(n, p)'
    BY <1>4, <2>1 DEF HeloSent, t
  <2> QED
    BY <2>2 DEF HeloOut
<1>10. msg = Helo => HeloOut(n, p)'
  <2>1. Len(s) + 1 \in DOMAIN t /\ t[Len(s) + 1].msg = msg
    BY <1>3
  <2> QED
    BY <2>1 DEF HeloOut, HeloSent, t
<1> QED
  BY <1>8, <1>9, <1>10

LEMMA HeloArrives ==
    ASSUME Shapes, NEW n \in Nodes, NEW p \in Nodes, Transfer(n, p),
           HeloFirst(n, p), HeloGot(n, p)
    PROVE  HeloFirst(n, p)' /\ HeloGot(n, p)' /\ (HeloOut(n, p) => HeloOut(n, p)')
<1> DEFINE s == outbox[n][p]
           t == outbox'[n][p]
           g == got[p][n]
           h == got'[p][n]
           x == First(n, p).msg
<1>1. /\ s \in Seq(Outs) /\ s # <<>> /\ t = Tail(s) /\ x = s[1].msg
  BY TransferEffect
<1>2. g \in Seq(Messages) /\ x \in Messages /\ h = Append(g, x)
  BY ArrivalEffect
<1> HIDE DEF x
<1>3. /\ Len(s) \in Nat \ {0} /\ DOMAIN s = 1..Len(s) /\ DOMAIN t = 1..Len(s) - 1
      /\ \A i \in 1..Len(s) - 1 : t[i] = s[i + 1]
  BY <1>1, TailType
<1>4. /\ DOMAIN g = 1..Len(g) /\ DOMAIN h = 1..Len(g) + 1 /\ Len(g) \in Nat
      /\ \A i \in 1..Len(g) : h[i] = g[i]
      /\ h[Len(g) + 1] = x
  BY <1>2, AppendType
<1>5. \A i \in DOMAIN s : s[i].msg.kind = "membership" =>
            \/ Contains(g, Helo)
            \/ \E j \in 1..i : s[j].msg = Helo
  BY DEF HeloFirst
<1>6. \A i \in DOMAIN g : g[i].kind = "membership" => \E j \in 1..i : g[j] = Helo
  BY DEF HeloGot
<1>7. Contains(g, Helo) => Contains(h, Helo)
  BY <1>2, ContainsGrows
<1>8. x = Helo => Contains(h, Helo)
  BY <1>2, ContainsGrows
<1>9. HeloOut(n, p) => HeloOut(n, p)'
  <2>1. ASSUME NEW i \in DOMAIN s, s[i].msg = Helo
        PROVE  Contains(h, Helo) \/ \E j \in DOMAIN t : t[j].msg = Helo
    <3>1. CASE i = 1
      BY <1>1, <1>8, <2>1, <3>1
    <3>2. CASE i # 1
      <4>1. i - 1 \in 1..Len(s) - 1 /\ (i - 1) + 1 = i
        BY <1>3, <3>2
      <4>2. t[i - 1] = s[i]
        BY <1>3, <4>1
      <4> QED
        BY <1>3, <2>1, <4>1, <4>2
    <3> QED
      BY <3>1, <3>2
  <2> QED
    BY <1>7, <2>1 DEF HeloOut, HeloSent
<1> HIDE DEF s, t, g, h
<1>10. \A i \in DOMAIN t : t[i].msg.kind = "membership" =>
            \/ Contains(h, Helo)
            \/ \E j \in 1..i : t[j].msg = Helo
  <2> SUFFICES ASSUME NEW i \in DOMAIN t, t[i].msg.kind = "membership", ~Contains(h, Helo)
               PROVE  \E j \in 1..i : t[j].msg = Helo
    OBVIOUS
  <2>1. i + 1 \in DOMAIN s /\ t[i] = s[i + 1] /\ i \in Nat
    BY <1>3
  <2>2. PICK j \in 1..i + 1 : s[j].msg = Helo
    BY <1>5, <1>7, <2>1
  <2>3. j # 1
    BY <1>1, <1>8, <2>2
  <2>4. j - 1 \in 1..i /\ j - 1 \in 1..Len(s) - 1 /\ (j - 1) + 1 = j
    BY <1>3, <2>1, <2>3
  <2>5. t[j - 1] = s[j]
    BY <1>3, <2>4
  <2> QED
    BY <2>2, <2>4, <2>5
<1>11. \A i \in DOMAIN h : h[i].kind = "membership" => \E j \in 1..i : h[j] = Helo
  <2> SUFFICES ASSUME NEW i \in DOMAIN h, h[i].kind = "membership"
               PROVE  \E j \in 1..i : h[j] = Helo
    OBVIOUS
  <2>1. CASE i \in 1..Len(g)
    <3>1. PICK j \in 1..i : g[j] = Helo
      BY <1>4, <1>6, <2>1
    <3> QED
      BY <1>4, <2>1, <3>1
  <2>2. CASE i = Len(g) + 1
    <3>1. 1 \in DOMAIN s /\ s[1].msg.kind = "membership"
      BY <1>1, <1>3, <1>4, <2>2
    <3>2. s[1].msg # Helo
      BY <3>1, MessageKinds DEF Helo
    <3>3. \A j \in 1..1 : s[j].msg # Helo
      BY <3>2
    <3>4. Contains(g, Helo)
      BY <1>5, <3>1, <3>3
    <3>5. PICK j \in 1..Len(g) : g[j] = Helo
      BY <1>2, <3>4 DEF Contains
    <3>6. j \in 1..i /\ h[j] = Helo
      BY <1>4, <2>2, <3>5
    <3> QED
      BY <3>6
  <2> QED
    BY <1>4, <2>1, <2>2
<1> QED
  BY <1>9, <1>10, <1>11 DEF HeloFirst, HeloGot, s, t, g, h

LEMMA HeloStays ==
    ASSUME NEW n \in Nodes, NEW p \in Nodes, HeloFirst(n, p), HeloGot(n, p),
           got'[p][n] = got[p][n], DOMAIN outbox'[n][p] = DOMAIN outbox[n][p],
           \A i \in DOMAIN outbox[n][p] : outbox'[n][p][i].msg = outbox[n][p][i].msg,
           DOMAIN outbox[n][p] = 1..Len(outbox[n][p])
    PROVE  HeloFirst(n, p)' /\ HeloGot(n, p)' /\ (HeloOut(n, p) => HeloOut(n, p)')
<1>1. HeloGot(n, p)'
  BY DEF HeloGot
<1>2. HeloOut(n, p) => HeloOut(n, p)'
  BY DEF HeloOut, HeloSent
<1>3. HeloFirst(n, p)'
  <2> SUFFICES ASSUME NEW i \in DOMAIN outbox[n][p],
                      outbox[n][p][i].msg.kind = "membership", ~Contains(got[p][n], Helo)
               PROVE  \E j \in 1..i : outbox'[n][p][j].msg = Helo
    BY DEF HeloFirst
  <2>1. PICK j \in 1..i : outbox[n][p][j].msg = Helo
    BY DEF HeloFirst
  <2>2. j \in DOMAIN outbox[n][p]
    <3>1. 1..i \subseteq 1..Len(outbox[n][p])
      OBVIOUS
    <3> QED
      BY <3>1
  <2> QED
    BY <2>1, <2>2
<1> QED
  BY <1>1, <1>2, <1>3

(* A membership is only sent by a main task that has sent a helo before it.*)
LEMMA HeloMoves ==
    ASSUME IInv, [Next]_vars, NEW m \in Nodes, NEW q \in Nodes
    PROVE  /\ HeloFirst(m, q)' /\ HeloGot(m, q)' /\ (HeloOut(m, q) => HeloOut(m, q)')
           /\ SendHelo(m) /\ main[m].peer = q => HeloOut(m, q)'
<1>0. Shapes /\ LinkMoves
  BY LinkMovesStep DEF IInv, TypeOK
<1> DEFINE Goal == HeloFirst(m, q)' /\ HeloGot(m, q)' /\ (HeloOut(m, q) => HeloOut(m, q)')
           Sent == SendHelo(m) /\ main[m].peer = q => HeloOut(m, q)'
<1>1. HeloFirst(m, q) /\ HeloGot(m, q) /\ DOMAIN outbox[m][q] = 1..Len(outbox[m][q])
  <2>1. outbox[m][q] \in Seq([msg : Messages, by : Tasks])
    BY <1>0 DEF Shapes
  <2> QED
    BY <2>1, HeloParts
<1>2. ASSUME got'[q][m] = got[q][m], outbox'[m][q] = outbox[m][q] PROVE Goal
  BY <1>1, <1>2, HeloStays
<1>3. ASSUME NEW n \in Nodes, NEW p \in Nodes, NEW msg \in Messages, NEW by \in Tasks,
             Sends(n, p, msg, by), msg.kind = "membership" => HeloOut(n, p)
      PROVE  Goal /\ (m = n /\ q = p /\ msg = Helo => HeloOut(m, q)')
  <2>1. SendReliably(n, p, msg, by) /\ got' = got
    BY <1>3 DEF Sends
  <2>2. CASE m = n /\ q = p
    <3>1. /\ HeloFirst(n, p)' /\ (HeloOut(n, p) => HeloOut(n, p)')
          /\ msg = Helo => HeloOut(n, p)'
      BY <1>0, <1>1, <1>3, <2>1, <2>2, HeloSends
    <3>2. HeloGot(m, q)'
      BY <1>1, <2>1 DEF HeloGot
    <3> QED
      BY <2>2, <3>1, <3>2
  <2>3. CASE m # n \/ q # p
    <3>1. outbox'[m][q] = outbox[m][q]
      BY <1>0, <2>1, <2>3, SendFrame
    <3> QED
      BY <1>2, <2>1, <2>3, <3>1
  <2> QED
    BY <2>2, <2>3
<1>4. ASSUME NEW n \in Nodes, NEW p \in Nodes, Transfer(n, p) PROVE Goal
  <2>1. CASE m = n /\ q = p
    BY <1>0, <1>1, <1>4, <2>1, HeloArrives
  <2>2. CASE m # n \/ q # p
    <3>1. outbox'[m][q] = outbox[m][q]
      BY <1>0, <1>4, <2>2, TransferFrame
    <3>2. got'[q][m] = got[q][m]
      BY <1>0, <1>4, <2>2, ArrivalEffect
    <3> QED
      BY <1>2, <3>1, <3>2
  <2> QED
    BY <2>1, <2>2
<1>5. ASSUME NEW n \in Nodes, NEW p \in Nodes, Ack(n, p) PROVE Goal
  <2>1. outbox' = outbox /\ got' = got
    BY <1>5 DEF Ack
  <2> QED
    BY <1>2, <2>1
<1>6. ASSUME NEW n \in Nodes, NEW p \in Nodes, NEW by \in Tasks, Forget(n, p, by),
             got' = got
      PROVE  Goal
  <2>1. CASE m = n /\ q = p
    <3>1. /\ DOMAIN outbox'[m][q] = DOMAIN outbox[m][q]
          /\ \A i \in DOMAIN outbox[m][q] : outbox'[m][q][i].msg = outbox[m][q][i].msg
      BY <1>0, <1>6, <2>1, ForgetMessages
    <3> QED
      BY <1>1, <1>6, <3>1, HeloStays
  <2>2. CASE m # n \/ q # p
    <3>1. outbox'[m][q] = outbox[m][q]
      BY <1>0, <1>6, <2>2, ForgetFrame
    <3> QED
      BY <1>2, <1>6, <3>1
  <2> QED
    BY <2>1, <2>2
<1>7. Main \in Tasks /\ Loop \in Tasks /\ Echo \in Tasks
  BY DEF Tasks
<1>8. ASSUME NEW n \in Nodes, SendHelo(n) \/ SendMembership(n)
      PROVE  Goal /\ Sent
  <2>1. PICK msg \in Messages :
           /\ \/ main[n].pc = "send_helo" /\ msg = Helo
              \/ main[n].pc = "send_membership"
           /\ main[n].peer \in Nodes /\ UNCHANGED <<acks, got>>
           /\ SendReliably(n, main[n].peer, msg, Main)
           /\ main'[n] # main[n] /\ (m # n => main'[m] = main[m])
    <3>1. PICK msg \in Messages :
           /\ \/ /\ main[n].pc = "send_helo" /\ main'[n].pc = "handshake" /\ msg = Helo
              \/ /\ main[n].pc = "send_membership" /\ main'[n].pc = "membership"
                 /\ msg # Helo
           /\ main[n].peer \in Nodes
           /\ main' \in [Nodes -> MainStates] /\ main'[n].peer = main[n].peer
           /\ \A r \in Nodes : r # n => main'[r] = main[r]
           /\ SendReliably(n, main[n].peer, msg, Main)
           /\ UNCHANGED <<loop, members, acks, inbox, got, calls, echo, tracked, waiters>>
      BY <1>8, MainSendEffect
    <3> QED
      BY <3>1
  <2>2. main[n].pc = "send_membership" => HeloOut(n, main[n].peer)
    BY <2>1 DEF IInv, HeloInv, HeloOut
  <2>3. msg.kind = "membership" => HeloOut(n, main[n].peer)
    BY <2>1, <2>2, MessageKinds DEF Helo
  <2>4. main[n].peer \in Linked(n)
    BY <2>1, PeerLinked DEF IInv
  <2>5. Sends(n, main[n].peer, msg, Main)
    BY <2>1, <2>4 DEF Sends
  <2>6. Goal /\ (m = n /\ q = main[n].peer /\ msg = Helo => HeloOut(m, q)')
    BY <1>3, <1>7, <2>1, <2>3, <2>5
  <2>7. SendHelo(m) => m = n /\ msg = Helo
    <3>1. SendHelo(m) => main[m].pc = "send_helo" /\ main'[m] # main[m]
      <4>1. SendHelo(m) => main'[m].pc = "handshake" /\ main[m].pc = "send_helo"
        BY <1>0 DEF SendHelo, Shapes, MainStates
      <4> QED
        BY <4>1
    <3> QED
      BY <2>1, <3>1
  <2> QED
    BY <2>6, <2>7
<1>9. ASSUME NEW n \in Nodes, NEW p \in Nodes, Sends(n, p, Handshake("oleh"), Loop)
      PROVE  Goal
  BY <1>3, <1>7, <1>9, MessageKinds
<1>10. ASSUME NEW n \in Nodes, NEW p \in Nodes, Sends(n, p, echo[n].call.msg, Echo),
              SendToMember(n, p)
       PROVE  Goal
  <2>1. echo[n].call.msg \in Broadcasts
    <3>1. echo[n].call \in CallsOfEcho
      BY <1>10 DEF SendToMember, IInv, TypeOK
    <3> QED
      BY <3>1 DEF CallsOfEcho
  <2>2. echo[n].call.msg \in Messages /\ echo[n].call.msg.kind # "membership"
    BY <2>1, MessageKinds
  <2> QED
    BY <1>3, <1>7, <1>10, <2>2
<1>11. ASSUME NEW n \in Nodes, MainTimesOut(n), Forget(n, main[n].peer, Main), got' = got
       PROVE  Goal
  <2>1. main[n].peer \in Nodes
    BY <1>11, MainTimesOutEffect
  <2> QED
    BY <1>6, <1>7, <1>11, <2>1
<1>12. SendHelo(m) => Goal /\ Sent
  BY <1>8
<1> HIDE DEF Goal, Sent
<1>13. Goal
  BY <1>0, <1>2, <1>4, <1>5, <1>6, <1>7, <1>8, <1>9, <1>10, <1>11 DEF LinkMoves
<1> QED
  BY <1>12, <1>13 DEF Goal, Sent

LEMMA HeloStep == IInv /\ [Next]_vars => HeloInv' /\ HeloBeforeMembership'
<1> SUFFICES ASSUME IInv, [Next]_vars PROVE HeloInv' /\ HeloBeforeMembership'
  OBVIOUS
<1> DEFINE Later == {"handshake", "round_one", "broadcast", "send_membership", "membership"}
<1>1. ASSUME NEW n \in Nodes, NEW p \in Nodes, main'[n].peer = p, main'[n].pc \in Later
      PROVE  HeloOut(n, p)'
  <2>1. main[n].peer = p /\ (main[n].pc \in Later \/ SendHelo(n))
    BY <1>1, MainPathStep DEF MainPath
  <2>2. main[n].pc \in Later => HeloOut(n, p)
    BY <2>1 DEF IInv, HeloInv, HeloOut
  <2> QED
    BY <2>1, <2>2, HeloMoves
<1>2. \A n, p \in Nodes : HeloFirst(n, p)' /\ HeloGot(n, p)'
  BY HeloMoves
<1>3. HeloInv'
  BY <1>1, <1>2 DEF HeloInv, HeloOut, HeloFirst
<1>4. HeloBeforeMembership'
  BY <1>2 DEF HeloBeforeMembership, HeloGot, Helo
<1> QED
  BY <1>3, <1>4

(* What makes a node send.                                                 *)
LEMMA OutboxStep ==
    ASSUME IInv, [Next]_vars, NEW m \in Nodes, NEW q \in Nodes, outbox'[m][q] # <<>>,
           outbox[m][q] = <<>>
    PROVE  \/ main[m].pc \in {"send_helo", "send_membership"}
           \/ inbox[m][q] # <<>>
           \/ echo[m].pc = "sending"
<1>0. Shapes /\ LinkMoves
  BY LinkMovesStep DEF IInv, TypeOK
<1> DEFINE Goal == \/ main[m].pc \in {"send_helo", "send_membership"}
                   \/ inbox[m][q] # <<>>
                   \/ echo[m].pc = "sending"
<1>1. ASSUME outbox'[m][q] = outbox[m][q] PROVE Goal
  BY <1>1
<1>2. ASSUME NEW n \in Nodes, NEW p \in Nodes, NEW msg, NEW by, Sends(n, p, msg, by)
      PROVE  m = n /\ q = p
  <2>1. SendReliably(n, p, msg, by)
    BY <1>2 DEF Sends
  <2>2. m # n \/ q # p => outbox'[m][q] = outbox[m][q]
    BY <1>0, <2>1, SendFrame
  <2> QED
    BY <2>2
<1>3. ASSUME NEW n \in Nodes, NEW p \in Nodes, NEW msg, Sends(n, p, msg, Main),
             SendHelo(n) \/ SendMembership(n)
      PROVE  Goal
  BY <1>2, <1>3 DEF SendHelo, SendMembership
<1>4. ASSUME NEW n \in Nodes, NEW p \in Nodes, Sends(n, p, Handshake("oleh"), Loop),
             TakeUnicast(n, p)
      PROVE  Goal
  BY <1>2, <1>4 DEF TakeUnicast
<1>5. ASSUME NEW n \in Nodes, NEW p \in Nodes, Sends(n, p, echo[n].call.msg, Echo),
             SendToMember(n, p)
      PROVE  Goal
  BY <1>2, <1>5 DEF SendToMember
<1>6. ASSUME NEW n \in Nodes, NEW p \in Nodes, Transfer(n, p) PROVE Goal
  <2>1. outbox[n][p] # <<>> /\ (m # n \/ q # p => outbox'[m][q] = outbox[m][q])
    BY <1>0, <1>6, TransferFrame DEF Transfer
  <2> QED
    BY <2>1
<1>7. ASSUME NEW n \in Nodes, NEW p \in Nodes, Ack(n, p) PROVE Goal
  BY <1>1, <1>7 DEF Ack
<1>8. ASSUME NEW n \in Nodes, NEW p \in Nodes, NEW by \in Tasks, Forget(n, p, by)
      PROVE  Goal
  <2>1. m # n \/ q # p => outbox'[m][q] = outbox[m][q]
    BY <1>0, <1>8, ForgetFrame
  <2>2. outbox'[n][p] = <<>> <=> outbox[n][p] = <<>>
    BY <1>0, <1>8, ForgetEffect
  <2> QED
    BY <2>1, <2>2
<1>9. ASSUME NEW n \in Nodes, MainTimesOut(n), Forget(n, main[n].peer, Main) PROVE Goal
  <2>1. main[n].peer \in Nodes
    BY <1>9, MainTimesOutEffect
  <2> QED
    BY <1>8, <1>9, <2>1 DEF Tasks
<1>10. Loop \in Tasks
  BY DEF Tasks
<1>11. UNCHANGED <<outbox, acks, got>> => Goal
  BY <1>1
<1> HIDE DEF Goal
<1>12. Goal
  BY <1>0, <1>3, <1>4, <1>5, <1>6, <1>7, <1>8, <1>9, <1>10, <1>11 DEF LinkMoves
<1> QED
  BY <1>12 DEF Goal

(* Who panics.                                                             *)
LEMMA PanicStep ==
    ASSUME IInv, [Next]_vars, NEW m \in Nodes, Panicked(m)', ~Panicked(m)
    PROVE  FinishSendPanics(m)
<1>1. echo'[m].pc = "panicked" /\ echo[m].pc # "panicked" /\ echo'[m] # echo[m]
  BY DEF Panicked
<1>2. CallMoves(m)
  BY <1>1, CallMovesOrRests DEF CallRests
<1>3. ~BroadcastRoundOne(m) /\ \A p \in Nodes : ~Rebroadcast(m, p)
  BY <1>1 DEF BroadcastRoundOne, Rebroadcast
<1>4. ~TakeCall(m)
  <2>1. TakeCall(m) => echo'[m] = EchoSending(calls[m][1], calls[m][1].members, NoNode)
    BY TakeCallEffect
  <2> QED
    BY <1>1, <2>1 DEF EchoSending
<1>5. ~FinishSend(m)
  <2>1. FinishSend(m) => echo'[m] = EchoIdle
    BY FinishSendEffect
  <2> QED
    BY <1>1, <2>1, StateTypes
<1> QED
  BY <1>2, <1>3, <1>4, <1>5 DEF CallMoves

(* A node at rest stays at rest until its main task or a peer wakes it.    *)
Resting(m) ==
    /\ main[m].pc \notin {"send_helo", "round_one", "send_membership"}
    /\ calls[m] = <<>> /\ echo[m].pc = "recv"
    /\ \A q \in Linked(m) : loop[m][q].pc = "recv"

LEMMA RestingStep ==
    ASSUME IInv, [Next]_vars, NEW m \in Nodes, Resting(m)
    PROVE  /\ calls'[m] = <<>> /\ echo'[m].pc = "recv"
           /\ \A q \in Nodes : inbox[m][q] = <<>> =>
                /\ loop'[m][q].pc \in {"none", "recv"}
                /\ outbox[m][q] = <<>> => outbox'[m][q] = <<>>
<1>0. /\ calls[m] = <<>> /\ echo[m].pc = "recv"
      /\ main[m].pc \notin {"send_helo", "round_one", "send_membership"}
      /\ \A q \in Nodes : loop[m][q].pc \in {"none", "recv"}
  BY DEF Resting, Linked
<1>1. calls'[m] = <<>>
  <2>1. DOMAIN calls[m] = {}
    BY <1>0
  <2>2. DOMAIN calls'[m] = {}
    BY <1>0, <2>1, CallsMovesStep DEF CallsMoves
  <2>3. calls'[m] \in Seq(CallsOfEcho)
    BY ShapesStep DEF Shapes
  <2>4. DOMAIN calls'[m] = 1..Len(calls'[m]) /\ Len(calls'[m]) \in Nat
    BY <2>3
  <2>5. Len(calls'[m]) # 0 => 1 \in 1..Len(calls'[m])
    BY <2>4
  <2>6. Len(calls'[m]) = 0
    BY <2>2, <2>4, <2>5
  <2> QED
    BY <2>3, <2>6
<1>2. echo'[m].pc = "recv"
  BY <1>0, EchoMovesStep DEF EchoMoves
<1>3. ASSUME NEW q \in Nodes, inbox[m][q] = <<>>
      PROVE  loop'[m][q].pc \in {"none", "recv"}
  <2>1. LoopMoves(m, q)
    BY LoopMovesStep
  <2> QED
    BY <1>0, <1>3, <2>1 DEF LoopMoves
<1>4. ASSUME NEW q \in Nodes, inbox[m][q] = <<>>, outbox[m][q] = <<>>
      PROVE  outbox'[m][q] = <<>>
  BY <1>0, <1>4, OutboxStep
<1> QED
  BY <1>1, <1>2, <1>3, <1>4

(* Around a hub: it only has links to its joiners, and they only to it.    *)
LEMMA HubLinks ==
    ASSUME IInv, NEW n \in Nodes, Hub(n)
    PROVE  /\ \A p \in Linked(n) : Joins(p, n)
           /\ \A p \in Nodes : Joins(p, n) => Linked(p) \subseteq {n}
<1>1. \A m \in Nodes : \A p \in Linked(m) : p \in Nodes /\ (Joins(m, p) \/ Joins(p, m))
  BY DEF IInv, JoinsInv, Linked
<1>2. \A p : ~Joins(n, p)
  BY DEF Hub, Joins, Contains
<1>3. ASSUME NEW p \in Nodes, Joins(p, n), NEW q \in Linked(p)
      PROVE  q = n
  <2>1. Seeds[p] = <<n>> /\ ~Joins(q, p)
    BY <1>1, <1>3 DEF Hub
  <2>2. Joins(p, q)
    BY <1>1, <1>3, <2>1
  <2> QED
    BY <2>1, <2>2 DEF Joins, Contains
<1> QED
  BY <1>1, <1>2, <1>3

LEMMA QuietStep ==
    ASSUME IInv, [Next]_vars, TypeOK', JoinsInv', NEW n \in Nodes, Hub(n),
           members'[n] = {}, members[n] = {} => Quiet(n)
    PROVE  Quiet(n)'
<1>1. MainPath(n)
  BY MainPathStep
<1>2. /\ Quiet(n) /\ main'[n].pc \in {"accept", "add_member"}
  <2>1. members'[n] = members[n]
    BY <1>1 DEF MainPath
  <2>2. Quiet(n) /\ main[n].pc \in {"accept", "add_member"}
    BY <2>1 DEF Quiet
  <2>3. {main[n].peer} # {}
    OBVIOUS
  <2> QED
    BY <1>1, <2>2, <2>3 DEF MainPath
<1>3. Resting(n) /\ \A p \in Nodes : outbox[n][p] = <<>> /\ inbox[n][p] = <<>>
  BY <1>2 DEF Quiet, Resting, Linked
<1>4. /\ calls'[n] = <<>> /\ echo'[n].pc = "recv"
      /\ \A p \in Nodes : loop'[n][p].pc \in {"none", "recv"} /\ outbox'[n][p] = <<>>
  BY <1>3, RestingStep
<1>5. ASSUME NEW p \in Nodes PROVE inbox'[n][p] = <<>>
  <2>1. CASE Joins(p, n)
    <3>1. outbox[p][n] = <<>>
      BY <1>2, <2>1 DEF Quiet
    <3> QED
      BY <1>3, <3>1, InboxStep
  <2>2. CASE ~Joins(p, n)
    <3>1. p \notin Linked(n)
      BY <2>2, HubLinks
    <3>2. outbox[p][n] = <<>>
      BY <3>1 DEF IInv, LinksInv
    <3> QED
      BY <1>3, <3>2, InboxStep
  <2> QED
    BY <2>1, <2>2
<1>6. ASSUME NEW p \in Nodes, Joins(p, n)
      PROVE  /\ main'[p].pc \in {"connect", "add_seed", "accept", "stopped"}
             /\ calls'[p] = <<>> /\ echo'[p].pc = "recv"
             /\ loop'[p][n].pc \in {"none", "recv"}
             /\ outbox'[p][n] = <<>> /\ inbox'[p][n] = <<>>
  <2>1. /\ main[p].pc \in {"connect", "add_seed", "accept", "stopped"}
        /\ calls[p] = <<>> /\ echo[p].pc = "recv"
        /\ loop[p][n].pc \in {"none", "recv"}
        /\ outbox[p][n] = <<>> /\ inbox[p][n] = <<>>
    BY <1>2, <1>6 DEF Quiet
  <2>2. Resting(p)
    <3>1. Linked(p) \subseteq {n}
      BY <1>6, HubLinks
    <3> QED
      BY <2>1, <3>1 DEF Resting, Linked
  <2>3. /\ calls'[p] = <<>> /\ echo'[p].pc = "recv"
        /\ loop'[p][n].pc \in {"none", "recv"} /\ outbox'[p][n] = <<>>
    BY <2>1, <2>2, RestingStep
  <2>4. inbox'[p][n] = <<>>
    BY <1>3, <2>1, InboxStep
  <2>5. main'[p].pc \in {"connect", "add_seed", "accept", "stopped"}
    <3> SUFFICES ASSUME main'[p].pc \notin {"connect", "add_seed", "accept", "stopped"}
                 PROVE  FALSE
      OBVIOUS
    <3>1. main'[p].peer \in Nodes
      BY DEF TypeOK, Linked
    <3>2. Joins(main'[p].peer, p)
      BY DEF JoinsInv, Joins
    <3> QED
      BY <1>6, <3>1, <3>2 DEF Hub
  <2> QED
    BY <2>3, <2>4, <2>5
<1> QED
  BY <1>2, <1>4, <1>5, <1>6 DEF Quiet, Joins

LEMMA HubStep == IInv /\ [Next]_vars => HubInv'
<1> SUFFICES ASSUME IInv, [Next]_vars, NEW n \in Nodes, Hub(n)
             PROVE  /\ members'[n] = {} => Quiet(n)'
                    /\ \A p \in Nodes : loop'[n][p].pc = "rebroadcast"
                                          => loop'[n][p].members # {}
                    /\ \A i \in DOMAIN calls'[n] : calls'[n][i].members # {}
                    /\ echo'[n].pc = "sending" => echo'[n].call.members # {}
                    /\ ~Panicked(n)'
  BY DEF HubInv, Hub, Joins
<1>1. /\ members[n] = {} => Quiet(n)
      /\ \A p \in Nodes : loop[n][p].pc = "rebroadcast" => loop[n][p].members # {}
      /\ \A i \in DOMAIN calls[n] : calls[n][i].members # {}
      /\ echo[n].pc = "sending" => echo[n].call.members # {}
      /\ ~Panicked(n)
  BY DEF IInv, HubInv
<1>2. members'[n] = {} => Quiet(n)'
  BY <1>1, QuietStep, TypeStep, JoinsStep
<1>3. ASSUME NEW p \in Nodes, loop'[n][p].pc = "rebroadcast"
      PROVE  loop'[n][p].members # {}
  <2>1. LoopMoves(n, p)
    BY LoopMovesStep
  <2>2. inbox[n][p] # <<>> => members[n] # {}
    BY <1>1 DEF Quiet
  <2> QED
    BY <1>1, <1>3, <2>1, <2>2 DEF LoopMoves
<1>4. ASSUME NEW i \in DOMAIN calls'[n] PROVE calls'[n][i].members # {}
  <2>1. CallsMoves(n)
    BY CallsMovesStep
  <2>2. main[n].pc = "round_one" => MainCall(n).members # {}
    BY <1>1 DEF Quiet, MainCall
  <2>3. \A p \in Nodes : loop[n][p].pc = "rebroadcast" => LoopCall(n, p).members # {}
    BY <1>1 DEF LoopCall
  <2> QED
    BY <1>1, <2>1, <2>2, <2>3 DEF CallsMoves
<1>5. ASSUME echo'[n].pc = "sending" PROVE echo'[n].call.members # {}
  <2>1. EchoMoves(n)
    BY EchoMovesStep
  <2>2. \A c, l, t : EchoSending(c, l, t).call = c
    BY DEF EchoSending
  <2> QED
    BY <1>1, <1>5, <2>1, <2>2 DEF EchoMoves
<1>6. ~Panicked(n)'
  <2> SUFFICES ASSUME Panicked(n)' PROVE FALSE
    OBVIOUS
  <2>1. FinishSendPanics(n)
    BY <1>1, PanicStep
  <2>2. /\ echo[n].pc = "sending" /\ echo[n].left = {}
        /\ echo[n].call.msg.mid \notin tracked[n]
    BY <2>1 DEF FinishSendPanics, SentToAll
  <2> QED
    BY <1>1, <2>2 DEF IInv, EchoInv
<1> QED
  BY <1>2, <1>3, <1>4, <1>5, <1>6

-----------------------------------------------------------------------------
(* The theorems.                                                           *)

LEMMA InitIInv == Init => IInv
<1> SUFFICES ASSUME Init PROVE IInv
  OBVIOUS
<1>0. NoNode \notin Nodes /\ Main \notin Nodes
  BY SeedsAssumption DEF Main
<1>1. ASSUME NEW n \in Nodes
      PROVE  /\ main[n] \in MainStates
             /\ \/ main[n].pc = "accept"
                \/ main[n].pc = "connect" /\ main[n].peer \in Nodes /\ Joins(n, main[n].peer)
             /\ Seeds[n] = <<>> => main[n].pc = "accept"
  <2>1. main[n] = AfterSeeds(n, 1)
    BY DEF Init
  <2>2. Seeds[n] = <<>> => AfterSeeds(n, 1).pc = "accept"
    BY DEF AfterSeeds, At
  <2> QED
    BY <2>1, <2>2, AfterSeedsType
<1>2. ASSUME NEW n \in Nodes
      PROVE  /\ members[n] = {} /\ calls[n] = <<>> /\ echo[n] = EchoIdle
             /\ tracked[n] = {} /\ waiters[n] = {}
  BY DEF Init
<1>3. ASSUME NEW n \in Nodes, NEW p \in Nodes
      PROVE  /\ loop[n][p] = NotStarted /\ outbox[n][p] = <<>> /\ acks[n][p] = <<>>
             /\ inbox[n][p] = <<>> /\ got[n][p] = <<>>
  BY DEF Init
<1>4. Shapes
  <2>1. main \in [Nodes -> MainStates]
    <3>1. main = [n \in Nodes |-> AfterSeeds(n, 1)]
      BY DEF Init
    <3>2. \A n \in Nodes : AfterSeeds(n, 1) \in MainStates
      BY AfterSeedsType
    <3> QED
      BY <3>1, <3>2
  <2>2. loop \in [Nodes -> [Nodes -> LoopStates]] /\ echo \in [Nodes -> EchoStates]
    BY StateTypes DEF Init
  <2>3. /\ members \in [Nodes -> SUBSET Nodes]
        /\ tracked \in [Nodes -> SUBSET (Nodes \X Nodes)]
        /\ waiters \in [Nodes -> SUBSET ((Nodes \X Nodes) \X (Nodes \cup {Main}))]
    BY DEF Init
  <2>4. /\ outbox \in [Nodes -> [Nodes -> Seq([msg : Messages, by : Tasks])]]
        /\ acks \in [Nodes -> [Nodes -> Seq(Tasks)]]
    BY DEF Init
  <2>5. /\ inbox \in [Nodes -> [Nodes -> Seq(Messages)]]
        /\ got \in [Nodes -> [Nodes -> Seq(Messages)]]
        /\ calls \in [Nodes -> Seq(CallsOfEcho)]
    BY DEF Init
  <2> QED
    BY <2>1, <2>2, <2>3, <2>4, <2>5 DEF Shapes
<1>5. \A n \in Nodes : Linked(n) = {} /\ echo[n].pc = "recv"
  BY <1>2, <1>3, StateTypes DEF Linked
<1>6. \A n, p \in Nodes : loop[n][p].pc = "none" /\ loop[n][p].members = {}
  BY <1>3, StateTypes
<1>7. \A n, p \in Nodes : DOMAIN outbox[n][p] = {} /\ DOMAIN acks[n][p] = {}
                          /\ DOMAIN got[n][p] = {}
  BY <1>3
<1>8. \A n \in Nodes : DOMAIN calls[n] = {}
  BY <1>2
<1>9. TypeOK
  BY <1>1, <1>2, <1>3, <1>4, <1>5, <1>6 DEF TypeOK
<1>10. LinksInv
  BY <1>2, <1>3, <1>5, <1>6, <1>8 DEF LinksInv
<1>11. SendsInv
  BY <1>7 DEF SendsInv, WaitsOnce, Waits, InOutbox, InAcks
<1>12. EchoInv
  BY <1>5 DEF EchoInv
<1>13. BroadcastInv
  <2>1. \A n \in Nodes : MainCalls(n) = {} /\ MainWaiters(n) = {} /\ ~MainSending(n)
    BY <1>2, <1>5, <1>8 DEF MainCalls, MainWaiters, MainSending
  <2> QED
    BY <2>1 DEF BroadcastInv
<1>14. BroadcastReachedMembers
  BY <1>2 DEF BroadcastReachedMembers
<1>15. HeloInv
  BY <1>1, <1>7 DEF HeloInv
<1>16. HeloBeforeMembership
  BY <1>7 DEF HeloBeforeMembership
<1>17. JoinsInv
  BY <1>1, <1>5 DEF JoinsInv
<1>18. HubInv
  <2>1. ASSUME NEW n \in Nodes, Hub(n) PROVE Quiet(n)
    <3>1. main[n].pc = "accept"
      BY <1>1, <2>1 DEF Hub
    <3>2. \A p \in Nodes : main[p].pc \in {"connect", "add_seed", "accept", "stopped"}
      BY <1>1
    <3> QED
      BY <1>2, <1>3, <1>5, <1>6, <3>1, <3>2 DEF Quiet
  <2> QED
    BY <1>5, <1>6, <1>8, <2>1 DEF HubInv, Panicked
<1> QED
  BY <1>9, <1>10, <1>11, <1>12, <1>13, <1>14, <1>15, <1>16, <1>17, <1>18 DEF IInv

LEMMA StepIInv == IInv /\ [Next]_vars => IInv'
  BY TypeStep, LinksStep, SendsStep, EchoInvStep, BroadcastStep, ReachedStep, HeloStep,
     JoinsStep, HubStep
  DEF IInv

(* The inductive invariant of the federation: links have two ends, a task  *)
(* waits for one ack, a call of the main task is in one place, a helo is   *)
(* before a membership, and a hub without members is left alone.           *)
THEOREM Invariance == Spec => []IInv
<1>1. Init => IInv
  BY InitIInv
<1>2. IInv /\ [Next]_vars => IInv'
  BY StepIInv
<1> QED
  BY <1>1, <1>2, PTL DEF Spec

(* The tasks of a node, its links and its echo broadcast actor keep their  *)
(* types, and a task only deals with peers its node has a link to.         *)
THEOREM TypeCorrect == Spec => []TypeOK
<1>1. IInv => TypeOK
  BY DEF IInv
<1> QED
  BY <1>1, Invariance, PTL

(* start_accept: when the main task goes on after its broadcast, although  *)
(* the call has returned an Err, every member has the package, unless the  *)
(* echo broadcast actor has died.                                          *)
THEOREM BroadcastDelivered == Spec => []BroadcastReachedMembers
<1>1. IInv => BroadcastReachedMembers
  BY DEF IInv
<1> QED
  BY <1>1, Invariance, PTL

(* start_accept: no joiner gets the membership before a helo, also when    *)
(* the Timeout layer has given up on the handshake.                        *)
THEOREM GreetedFirst == Spec => []HeloBeforeMembership
<1>1. IInv => HeloBeforeMembership
  BY DEF IInv
<1> QED
  BY <1>1, Invariance, PTL

(* echo_broadcast: the unwrap of send_message never fails at a node that   *)
(* joins nobody and whose joiners join only it and are joined by nobody.   *)
THEOREM HubSafe == Spec => []SeedNeverPanics
<1>1. IInv => SeedNeverPanics
  BY DEF IInv, HubInv, SeedNeverPanics
<1> QED
  BY <1>1, Invariance, PTL
=============================================================================
