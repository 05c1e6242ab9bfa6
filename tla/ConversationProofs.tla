------------------------- MODULE ConversationProofs -------------------------
(* That conversations end, as far as it can be proved: every message that  *)
(* is handled uses up work, and an opening brings at most two units of it. *)
EXTENDS Conversation, Integers, FiniteSetTheorems, TLAPS

Questions == {Handshake("helo"), Ping("ping")}
Finals == {Handshake("oleh"), Ping("pong")}
            \cup {Heartbeat(n) : n \in Nodes}
            \cup {Membership(SomeMembers({n})) : n \in Nodes}
Messages == Questions \cup Finals

(* The work in an inbox: a question is handled here, and its answer there. *)
Asked(s) == {i \in DOMAIN s : s[i] \in Questions}
Worth(m) == IF m \in Questions THEN 2 ELSE 1
Work(s) == Len(s) + Cardinality(Asked(s))

(* What is on its way is a message that some service sends, and the work   *)
(* left is no more than what has been opened brought.                      *)
TypeOK == /\ opened \in [Nodes -> SUBSET Kinds]
          /\ inbox \in [Nodes -> Seq(Messages)]
WorkBounded ==
    Work(inbox[A]) + Work(inbox[B]) <= 2 * (Cardinality(opened[A]) + Cardinality(opened[B]))
IInv == TypeOK /\ WorkBounded

(* To handle a message leaves less to handle.                              *)
HandlingEnds ==
    \A n \in Nodes : Handle(n) =>
        Work(inbox'[A]) + Work(inbox'[B]) < Work(inbox[A]) + Work(inbox[B])

-----------------------------------------------------------------------------
(* What the services send.                                                 *)

LEMMA TwoNodes ==
    /\ Other(A) = B /\ Other(B) = A
    /\ A \in Nodes /\ B \in Nodes /\ A # B
<1>1. A \in Nodes /\ B \in Nodes /\ A # B
  BY ConversationAssumption DEF Nodes
<1>2. Other(A) \in Nodes /\ Other(A) # A
  BY <1>1 DEF Other
<1>3. Other(B) \in Nodes /\ Other(B) # B
  BY <1>1 DEF Other
<1> QED
  BY <1>1, <1>2, <1>3 DEF Nodes

(* A question is answered with a message that ends the conversation, and   *)
(* such a message is not answered.                                         *)
LEMMA Replies ==
    ASSUME NEW n \in Nodes
    PROVE  /\ \A m \in Questions : Reply(n, m) \in Finals
           /\ \A m \in Finals : Reply(n, m) = NoMessage
           /\ Finals \cap Questions = {} /\ NoMessage \notin Messages
<1>1. Reply(n, Handshake("helo")) = Handshake("oleh")
  BY DEF Reply, Response, HandshakeReply, Handshake
<1>2. Reply(n, Ping("ping")) = Ping("pong")
  BY DEF Reply, Response, PingReply, Ping
<1>3. Reply(n, Handshake("oleh")) = NoMessage
  BY DEF Reply, Response, HandshakeReply, Handshake
<1>4. Reply(n, Ping("pong")) = NoMessage
  BY DEF Reply, Response, PingReply, Ping
<1>5. ASSUME NEW m \in Nodes PROVE Reply(n, Heartbeat(m)) = NoMessage
  <2>1. m # NoSender
    BY ConversationAssumption DEF Nodes
  <2> QED
    BY <2>1 DEF Reply, Response, HeartbeatReply, Heartbeat
<1>6. ASSUME NEW m \in Nodes PROVE Reply(n, Membership(SomeMembers({m}))) = NoMessage
  BY DEF Reply, Response, MembershipReply, Membership, SomeMembers, NoMembers
<1>7. Finals \cap Questions = {} /\ NoMessage \notin Messages
  <2>1. \A m \in Questions : /\ m.kind \in {"handshake", "ping"}
                              /\ m.text \in {"helo", "ping"}
    BY DEF Questions, Handshake, Ping
  <2>2. \A m \in Finals :
           \/ m.kind \in {"heartbeat", "membership"}
           \/ m.kind \in {"handshake", "ping"} /\ m.text \in {"oleh", "pong"}
    <3>1. /\ Handshake("oleh").kind = "handshake" /\ Handshake("oleh").text = "oleh"
          /\ Ping("pong").kind = "ping" /\ Ping("pong").text = "pong"
      BY DEF Handshake, Ping
    <3>2. \A x : Heartbeat(x).kind = "heartbeat" /\ Membership(x).kind = "membership"
      BY DEF Heartbeat, Membership
    <3> QED
      BY <3>1, <3>2 DEF Finals
  <2>3. NoMessage.kind = "none"
    BY DEF NoMessage
  <2> QED
    BY <2>1, <2>2, <2>3 DEF Messages
<1> QED
  BY <1>1, <1>2, <1>3, <1>4, <1>5, <1>6, <1>7 DEF Questions, Finals

LEMMA Openings ==
    ASSUME NEW n \in Nodes, NEW kind \in Kinds
    PROVE  Reply(n, Opening(kind)) \in Messages
<1>1. CASE kind = "handshake"
  <2>1. Reply(n, Opening(kind)) = Handshake("helo")
    BY <1>1 DEF Opening, Reply, Response, HandshakeReply, Handshake
  <2> QED
    BY <2>1 DEF Messages, Questions
<1>2. CASE kind = "ping"
  <2>1. Reply(n, Opening(kind)) = Ping("ping")
    BY <1>2 DEF Opening, Reply, Response, PingReply, Ping
  <2> QED
    BY <2>1 DEF Messages, Questions
<1>3. CASE kind = "heartbeat"
  <2>1. Reply(n, Opening(kind)) = Heartbeat(n)
    BY <1>3 DEF Opening, Reply, Response, HeartbeatReply, Heartbeat
  <2> QED
    BY <2>1 DEF Messages, Finals
<1>4. CASE kind = "membership"
  <2>1. Reply(n, Opening(kind)) = Membership(SomeMembers({Other(n)}))
    BY <1>4 DEF Opening, Reply, Response, MembershipReply, Membership
  <2>2. Other(n) \in Nodes
    BY TwoNodes DEF Nodes
  <2> QED
    BY <2>1, <2>2 DEF Messages, Finals
<1> QED
  BY <1>1, <1>2, <1>3, <1>4, ConversationAssumption

-----------------------------------------------------------------------------
(* Work.                                                                   *)

LEMMA WorkType ==
    ASSUME NEW s \in Seq(Messages)
    PROVE  IsFiniteSet(Asked(s)) /\ Cardinality(Asked(s)) \in Nat /\ Work(s) \in Nat
<1>1. IsFiniteSet(1..Len(s)) /\ Asked(s) \subseteq 1..Len(s) /\ Len(s) \in Nat
  BY FS_Interval DEF Asked
<1>2. IsFiniteSet(Asked(s)) /\ Cardinality(Asked(s)) \in Nat
  BY <1>1, FS_Subset, FS_CardinalityType
<1> QED
  BY <1>1, <1>2 DEF Work

LEMMA WorkAdded ==
    ASSUME NEW s \in Seq(Messages), NEW m \in Messages
    PROVE  Append(s, m) \in Seq(Messages) /\ Work(Append(s, m)) = Work(s) + Worth(m)
<1> DEFINE t == Append(s, m)
           L == Len(s) + 1
<1>1. /\ Len(s) \in Nat /\ DOMAIN s = 1..Len(s) /\ t \in Seq(Messages)
      /\ Len(t) = L /\ DOMAIN t = 1..L /\ t[L] = m
      /\ \A i \in 1..Len(s) : t[i] = s[i]
  OBVIOUS
<1>2. IsFiniteSet(Asked(s)) /\ Cardinality(Asked(s)) \in Nat
  BY WorkType
<1>3. L \notin Asked(s) /\ L \in DOMAIN t /\ L \in Nat
  BY <1>1 DEF Asked
<1>4. \A i \in DOMAIN t : i = L \/ i \in DOMAIN s
  BY <1>1
<1>5. \A i \in DOMAIN s : i \in DOMAIN t /\ t[i] = s[i]
  BY <1>1
<1>6. t \in Seq(Messages) /\ Len(t) = Len(s) + 1 /\ Len(s) \in Nat /\ t[L] = m
  BY <1>1
<1> HIDE DEF t, L
<1>7. CASE m \in Questions
  <2>1. Asked(t) = Asked(s) \cup {L}
    BY <1>3, <1>4, <1>5, <1>6, <1>7 DEF Asked
  <2>2. Cardinality(Asked(t)) = Cardinality(Asked(s)) + 1
    BY <1>2, <1>3, <2>1, FS_AddElement
  <2> QED
    BY <1>2, <1>6, <1>7, <2>2 DEF Work, Worth, t
<1>8. CASE m \notin Questions
  <2>1. Asked(t) = Asked(s)
    BY <1>3, <1>4, <1>5, <1>6, <1>8 DEF Asked
  <2> QED
    BY <1>2, <1>6, <1>8, <2>1 DEF Work, Worth, t
<1> QED
  BY <1>7, <1>8

LEMMA WorkTaken ==
    ASSUME NEW s \in Seq(Messages), s # <<>>
    PROVE  /\ Head(s) \in Messages /\ Tail(s) \in Seq(Messages)
           /\ Work(s) = Work(Tail(s)) + Worth(Head(s))
<1> DEFINE t == Tail(s)
           g == [i \in Asked(t) |-> i + 1]
           T == Asked(s) \ {1}
<1>1. /\ Len(s) \in Nat /\ Len(s) >= 1 /\ DOMAIN s = 1..Len(s)
      /\ t \in Seq(Messages) /\ Len(t) = Len(s) - 1 /\ Head(s) = s[1]
      /\ s[1] \in Messages
  OBVIOUS
<1>2. \A i \in 1..Len(t) : t[i] = s[i + 1]
  BY <1>1
<1>3. DOMAIN t = 1..Len(t)
  BY <1>1
<1>a. /\ IsFiniteSet(Asked(s)) /\ Cardinality(Asked(s)) \in Nat
      /\ IsFiniteSet(Asked(t)) /\ Cardinality(Asked(t)) \in Nat
  BY <1>1, WorkType
<1> HIDE DEF t
<1>4. \A i \in Asked(t) : i \in Nat /\ i >= 1 /\ i + 1 \in T
  BY <1>1, <1>2, <1>3 DEF Asked
<1>5. \A k \in T : k - 1 \in Asked(t) /\ k \in Nat
  <2> SUFFICES ASSUME NEW k \in T PROVE k - 1 \in Asked(t) /\ k \in Nat
    OBVIOUS
  <2>1. k \in 1..Len(s) /\ k # 1 /\ s[k] \in Questions
    BY <1>1 DEF Asked
  <2>2. k - 1 \in 1..Len(t) /\ (k - 1) + 1 = k
    BY <1>1, <2>1
  <2>3. t[k - 1] = s[k]
    BY <1>2, <2>2
  <2> QED
    BY <1>3, <2>1, <2>2, <2>3 DEF Asked
<1>6. Cardinality(T) = Cardinality(Asked(t))
  <2>1. g \in [Asked(t) -> T]
    BY <1>4
  <2>2. \A i, j \in Asked(t) : g[i] = g[j] => i = j
    BY <1>4
  <2>3. \A k \in T : \E i \in Asked(t) : g[i] = k
    <3>1. \A k \in T : g[k - 1] = k
      BY <1>5
    <3> QED
      BY <1>5, <3>1
  <2> HIDE DEF g, T
  <2>4. g \in Bijection(Asked(t), T)
    BY <2>1, <2>2, <2>3 DEF Bijection, Injection, Surjection, IsInjective
  <2> QED
    BY <1>a, <2>4, FS_Bijection DEF ExistsBijection
<1>7. CASE Head(s) \in Questions
  <2>1. 1 \in Asked(s)
    BY <1>1, <1>7 DEF Asked
  <2>2. Cardinality(T) = Cardinality(Asked(s)) - 1
    BY <1>a, <2>1, FS_RemoveElement
  <2> HIDE DEF T
  <2> QED
    BY <1>1, <1>6, <1>7, <1>a, <2>2 DEF Work, Worth, t
<1>8. CASE Head(s) \notin Questions
  <2>1. T = Asked(s)
    BY <1>1, <1>8 DEF Asked
  <2> HIDE DEF T
  <2> QED
    BY <1>1, <1>6, <1>8, <1>a, <2>1 DEF Work, Worth, t
<1> QED
  BY <1>1, <1>7, <1>8 DEF t

-----------------------------------------------------------------------------
(* Steps.                                                                  *)

Total == Work(inbox[A]) + Work(inbox[B])
Brought == Cardinality(opened[A]) + Cardinality(opened[B])

LEMMA TotalType ==
    ASSUME TypeOK
    PROVE  /\ Work(inbox[A]) \in Nat /\ Work(inbox[B]) \in Nat /\ Total \in Nat
           /\ \A n \in Nodes : IsFiniteSet(opened[n]) /\ Cardinality(opened[n]) \in Nat
<1>1. Work(inbox[A]) \in Nat /\ Work(inbox[B]) \in Nat
  BY WorkType, TwoNodes DEF TypeOK
<1>2. IsFiniteSet({"handshake", "ping", "heartbeat", "membership"})
  <2>1. IsFiniteSet({"handshake"})
    BY FS_Singleton
  <2>2. IsFiniteSet({"handshake"} \cup {"ping"})
    BY <2>1, FS_AddElement
  <2>3. IsFiniteSet(({"handshake"} \cup {"ping"}) \cup {"heartbeat"})
    BY <2>2, FS_AddElement
  <2>4. IsFiniteSet((({"handshake"} \cup {"ping"}) \cup {"heartbeat"}) \cup {"membership"})
    BY <2>3, FS_AddElement
  <2>5. {"handshake", "ping", "heartbeat", "membership"}
          = (({"handshake"} \cup {"ping"}) \cup {"heartbeat"}) \cup {"membership"}
    OBVIOUS
  <2> QED
    BY <2>4, <2>5
<1>3. \A n \in Nodes : opened[n] \subseteq {"handshake", "ping", "heartbeat", "membership"}
  BY ConversationAssumption DEF TypeOK
<1>4. \A n \in Nodes : IsFiniteSet(opened[n])
  BY <1>2, <1>3, FS_Subset
<1> QED
  BY <1>1, <1>4, FS_CardinalityType DEF Total

LEMMA HandleStep ==
    ASSUME TypeOK, NEW n \in Nodes, Handle(n)
    PROVE  TypeOK' /\ Total' \in Nat /\ Total' < Total /\ opened' = opened
<1> DEFINE o == Other(n)
           r == Reply(n, Head(inbox[n]))
           in == Tail(inbox[n])
           out == IF r = NoMessage THEN inbox[o] ELSE Append(inbox[o], r)
<1>1. /\ o \in Nodes /\ o # n /\ Nodes = {n, o} /\ {n, o} = {A, B}
  BY TwoNodes DEF Nodes
<1>2. /\ inbox[n] # <<>> /\ opened' = opened
      /\ inbox' = [inbox EXCEPT ![n] = in, ![o] = out]
  BY <1>1 DEF Handle, TypeOK
<1>3. inbox[n] \in Seq(Messages) /\ inbox[o] \in Seq(Messages)
  BY <1>1 DEF TypeOK
<1>4. /\ Head(inbox[n]) \in Messages /\ in \in Seq(Messages)
      /\ Work(inbox[n]) = Work(in) + Worth(Head(inbox[n]))
  BY <1>2, <1>3, WorkTaken
<1>5. /\ out \in Seq(Messages) /\ Work(out) \in Nat
      /\ Work(out) < Work(inbox[o]) + Worth(Head(inbox[n]))
  <2>1. CASE Head(inbox[n]) \in Questions
    <3>1. r \in Finals
      BY <2>1, Replies
    <3>2. r \in Messages /\ r \notin Questions /\ r # NoMessage
      BY <3>1, Replies DEF Messages
    <3>3. out = Append(inbox[o], r)
      BY <3>2
    <3> HIDE DEF out, r
    <3>4. out \in Seq(Messages) /\ Work(out) = Work(inbox[o]) + 1
      BY <1>3, <3>2, <3>3, WorkAdded DEF Worth
    <3>5. Work(inbox[o]) \in Nat
      BY <1>3, WorkType
    <3> QED
      BY <2>1, <3>4, <3>5 DEF Worth
  <2>2. CASE Head(inbox[n]) \notin Questions
    <3>1. Head(inbox[n]) \in Finals
      BY <1>4, <2>2 DEF Messages
    <3>2. out = inbox[o]
      BY <3>1, Replies
    <3> HIDE DEF out, r
    <3>3. Work(inbox[o]) \in Nat
      BY <1>3, WorkType
    <3> QED
      BY <1>3, <2>2, <3>2, <3>3 DEF Worth
  <2> QED
    BY <2>1, <2>2
<1>6. Work(in) \in Nat /\ Work(inbox[n]) \in Nat /\ Work(inbox[o]) \in Nat
  BY <1>3, <1>4, WorkType
<1> HIDE DEF in, out, o, r
<1>7. inbox'[n] = in /\ inbox'[o] = out /\ inbox' \in [Nodes -> Seq(Messages)]
  BY <1>1, <1>2, <1>4, <1>5 DEF TypeOK
<1>8. Worth(Head(inbox[n])) \in Nat
  BY DEF Worth
<1>9. /\ Work(inbox'[n]) + Work(inbox'[o]) \in Nat
      /\ Work(inbox'[n]) + Work(inbox'[o]) < Work(inbox[n]) + Work(inbox[o])
  <2>1. \A a, b, c, d, w \in Nat : b < d + w => a + b < (a + w) + d
    OBVIOUS
  <2> QED
    BY <1>4, <1>5, <1>6, <1>7, <1>8, <2>1
<1>10. (n = A /\ o = B) \/ (n = B /\ o = A)
  BY <1>1
<1>11. Total' \in Nat /\ Total' < Total
  BY <1>5, <1>6, <1>7, <1>9, <1>10 DEF Total
<1> QED
  BY <1>2, <1>7, <1>11 DEF TypeOK

LEMMA OpenStep ==
    ASSUME TypeOK, NEW n \in Nodes, NEW kind \in Kinds, Open(n, kind)
    PROVE  /\ TypeOK' /\ Total' \in Nat /\ Total' <= Total + 2
           /\ Brought \in Nat /\ Brought' = Brought + 1
<1> DEFINE o == Other(n)
           r == Reply(n, Opening(kind))
           out == Append(inbox[o], r)
           k == opened[n] \cup {kind}
<1>1. /\ o \in Nodes /\ o # n /\ Nodes = {n, o} /\ {n, o} = {A, B}
  BY TwoNodes DEF Nodes
<1>2. /\ kind \notin opened[n] /\ opened' = [opened EXCEPT ![n] = k]
      /\ inbox' = [inbox EXCEPT ![o] = out]
  BY DEF Open
<1>3. r \in Messages /\ inbox[o] \in Seq(Messages)
  BY <1>1, Openings DEF TypeOK
<1> HIDE DEF r
<1>4. out \in Seq(Messages) /\ Work(out) = Work(inbox[o]) + Worth(r)
  BY <1>3, WorkAdded
<1>5. /\ IsFiniteSet(opened[n]) /\ Cardinality(opened[n]) \in Nat
      /\ Cardinality(opened[o]) \in Nat
  BY <1>1, TotalType
<1>6. Cardinality(k) = Cardinality(opened[n]) + 1
  BY <1>2, <1>5, FS_AddElement
<1>7. k \in SUBSET Kinds
  BY DEF TypeOK
<1> HIDE DEF out, k, o
<1>8. /\ inbox'[o] = out /\ inbox'[n] = inbox[n] /\ inbox' \in [Nodes -> Seq(Messages)]
      /\ opened'[n] = k /\ opened'[o] = opened[o] /\ opened' \in [Nodes -> SUBSET Kinds]
  BY <1>1, <1>2, <1>4, <1>7 DEF TypeOK
<1>9. (n = A /\ o = B) \/ (n = B /\ o = A)
  BY <1>1
<1>10. Work(inbox[A]) \in Nat /\ Work(inbox[B]) \in Nat /\ Worth(r) \in {1, 2}
  BY TotalType DEF Worth
<1>11. Total' \in Nat /\ Total' <= Total + 2
  BY <1>4, <1>8, <1>9, <1>10 DEF Total
<1>12. Brought \in Nat /\ Brought' = Brought + 1
  <2>1. Cardinality(opened'[n]) = Cardinality(opened[n]) + 1
    BY <1>6, <1>8
  <2>2. Cardinality(opened'[o]) = Cardinality(opened[o])
    BY <1>8
  <2> QED
    BY <1>5, <1>9, <2>1, <2>2 DEF Brought
<1> QED
  BY <1>8, <1>11, <1>12 DEF TypeOK

LEMMA InitWork == Init => IInv
<1> SUFFICES ASSUME Init PROVE IInv
  OBVIOUS
<1>1. TypeOK /\ inbox[A] = <<>> /\ inbox[B] = <<>> /\ opened[A] = {} /\ opened[B] = {}
  BY TwoNodes DEF Init, TypeOK
<1>2. Asked(<<>>) = {}
  BY DEF Asked
<1>3. Work(<<>>) = 0
  BY <1>2, FS_EmptySet DEF Work
<1> QED
  BY <1>1, <1>3, FS_EmptySet DEF IInv, WorkBounded

LEMMA StepWork == IInv /\ [Next]_vars => IInv' /\ HandlingEnds
<1> SUFFICES ASSUME IInv, [Next]_vars PROVE IInv' /\ HandlingEnds
  OBVIOUS
<1>0. /\ TypeOK /\ Total \in Nat /\ Brought \in Nat /\ Total <= 2 * Brought
  BY TotalType, TwoNodes DEF IInv, WorkBounded, Total, Brought
<1>1. HandlingEnds
  BY <1>0, HandleStep DEF HandlingEnds, Total
<1>2. ASSUME NEW n \in Nodes, Handle(n) PROVE IInv'
  <2>1. TypeOK' /\ Total' \in Nat /\ Total' < Total /\ opened' = opened
    BY <1>0, <1>2, HandleStep
  <2>2. Brought' = Brought
    BY <2>1 DEF Brought
  <2>3. Total' <= 2 * Brought'
    BY <1>0, <2>1, <2>2
  <2> QED
    BY <2>1, <2>3 DEF IInv, WorkBounded, Total, Brought
<1>3. ASSUME NEW n \in Nodes, NEW kind \in Kinds, Open(n, kind) PROVE IInv'
  <2>1. /\ TypeOK' /\ Total' \in Nat /\ Total' <= Total + 2 /\ Brought' = Brought + 1
    BY <1>0, <1>3, OpenStep
  <2>2. Total' <= 2 * Brought'
    BY <1>0, <2>1
  <2> QED
    BY <2>1, <2>2 DEF IInv, WorkBounded, Total, Brought
<1>4. CASE UNCHANGED vars
  <2>1. opened' = opened /\ inbox' = inbox
    BY <1>4 DEF vars
  <2>2. TypeOK'
    BY <1>0, <2>1 DEF TypeOK
  <2>3. WorkBounded'
    BY <2>1 DEF IInv, WorkBounded
  <2> QED
    BY <1>1, <2>2, <2>3 DEF IInv
<1> QED
  BY <1>1, <1>2, <1>3, <1>4 DEF Next

(* Conversations are finite whatever is opened and however messages cross: *)
(* the work on the link is at most twice the openings, and every message an*)
(* event loop handles (node.rs respond_to_unicast_message) takes some of it*)
(* away.  With the fairness of the event loops this is FallsSilent.        *)
THEOREM ConversationsEnd == Spec => []IInv /\ [][HandlingEnds]_vars
<1>1. Init => IInv
  BY InitWork
<1>2. IInv /\ [Next]_vars => IInv' /\ HandlingEnds
  BY StepWork
<1> QED
  BY <1>1, <1>2, PTL DEF Spec
=============================================================================
