---------------------------- MODULE Conversation ----------------------------
(***************************************************************************)
(* Two nodes that exchange unicast messages over a link that keeps order.  *)
(* Each node may open one conversation of every kind, as node.rs does for  *)
(* the handshake and the membership: it passes a default message through   *)
(* its own Protocol service and sends the result.  Its event loop answers  *)
(* every message it receives with its service's response, if there is one  *)
(* (respond_to_unicast_message).                                           *)
(***************************************************************************)
EXTENDS Sequences, Protocol

CONSTANTS
    A, B,  \* the two nodes
    Kinds  \* kinds of conversations

ASSUME ConversationAssumption ==
    /\ A # B /\ NoSender \notin {A, B}
    /\ Kinds \subseteq {"handshake", "ping", "heartbeat", "membership"}

VARIABLES
    opened,  \* opened[n]: the kinds n has opened a conversation of
    inbox    \* inbox[n]: the messages n has still to handle

vars == <<opened, inbox>>

Nodes == {A, B}
Other(n) == CHOOSE m \in Nodes : m # n

(* What the code passes to its own service to start: the default messages, *)
(* and a membership message without members.                               *)
Opening(kind) ==
    CASE kind = "handshake" -> Handshake("")
      [] kind = "ping" -> Ping("")
      [] kind = "heartbeat" -> Heartbeat(NoSender)
      [] kind = "membership" -> Membership(NoMembers)

Reply(n, msg) == Response(msg, n, {Other(n)}, NoMid)

Init ==
    /\ opened = [n \in Nodes |-> {}]
    /\ inbox = [n \in Nodes |-> <<>>]

Open(n, kind) ==
    /\ kind \notin opened[n]
    /\ opened' = [opened EXCEPT ![n] = @ \cup {kind}]
    /\ inbox' = [inbox EXCEPT ![Other(n)] = Append(@, Reply(n, Opening(kind)))]

(* respond_to_unicast_message                                              *)
Handle(n) ==
    /\ inbox[n] # <<>>
    /\ LET response == Reply(n, Head(inbox[n])) IN
       inbox' = [inbox EXCEPT
         ![n] = Tail(@),
         ![Other(n)] = IF response = NoMessage THEN @ ELSE Append(@, response)]
    /\ UNCHANGED opened

Next == \E n \in Nodes : Handle(n) \/ \E kind \in Kinds : Open(n, kind)

(* The event loops keep taking messages.                                   *)
Spec == Init /\ [][Next]_vars /\ \A n \in Nodes : WF_vars(Handle(n))

-----------------------------------------------------------------------------
(* Every conversation comes to an end: whatever the two nodes open and     *)
(* however their messages cross, no service answers the answer of another, *)
(* and the link falls silent for good.                                     *)
FallsSilent == <>[](\A n \in Nodes : inbox[n] = <<>>)
=============================================================================
