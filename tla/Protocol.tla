------------------------------ MODULE Protocol ------------------------------
(***************************************************************************)
(* The messages of the protocols and how a node's Protocol service answers *)
(* each of them (src/node/protocol.rs and src/node/protocol/*.rs).         *)
(*                                                                         *)
(* A text, a sender id or an option that the services look at is kept; the *)
(* version, the time of a heartbeat and the package itself are left out.   *)
(***************************************************************************)

NoMessage == [kind |-> "none"]

Handshake(text) == [kind |-> "handshake", text |-> text]
Ping(text) == [kind |-> "ping", text |-> text]
Heartbeat(sender) == [kind |-> "heartbeat", sender |-> sender]
Membership(members) == [kind |-> "membership", members |-> members]
RoundOne(mid, sender) == [kind |-> "round_one", mid |-> mid, sender |-> sender]

(* Option::None of a member list and of a message id, Some member list, and*)
(* the empty sender id.                                                    *)
NoMembers == <<>>
SomeMembers(members) == <<members>>
NoMid == <<>>
NoSender == ""

IsBroadcast(msg) == msg.kind = "round_one"

-----------------------------------------------------------------------------
(* Handshake::call: helo is answered, oleh ends the handshake, and anything*)
(* else, like the default message of the side that starts, becomes a helo. *)
HandshakeReply(msg) ==
    CASE msg.text = "helo" -> Handshake("oleh")
      [] msg.text = "oleh" -> NoMessage
      [] OTHER -> Handshake("helo")

(* Ping::call                                                              *)
MutantPingReply(msg) ==
    CASE msg.text = "ping" -> Ping("pong")
      [] OTHER -> Ping("ping")

PingReply(msg) ==
    CASE msg.text = "" -> Ping("ping")
      [] msg.text = "ping" -> Ping("pong")
      [] OTHER -> NoMessage

(* Heartbeat::call at node: only a heartbeat without a sender is sent on.  *)
HeartbeatReply(msg, node) ==
    IF msg.sender = NoSender THEN Heartbeat(node) ELSE NoMessage

(* Membership::call: a request is answered with the members of this node,  *)
(* a member list is not answered.                                          *)
MembershipReply(msg, members) ==
    IF msg.members = NoMembers THEN Membership(SomeMembers(members))
                               ELSE NoMessage

(* RoundOnePackage::call: the first instance gets a message id, a received *)
(* one is not answered.                                                    *)
RoundOneReply(msg, mid) ==
    IF msg.mid = NoMid THEN RoundOne(mid, msg.sender) ELSE NoMessage

(* Protocol::call at node, with the members the node has and the id its    *)
(* generator gives next.                                                   *)
Response(msg, node, members, mid) ==
    CASE msg.kind = "handshake" -> HandshakeReply(msg)
      [] msg.kind = "ping" -> PingReply(msg)
      [] msg.kind = "heartbeat" -> HeartbeatReply(msg, node)
      [] msg.kind = "membership" -> MembershipReply(msg, members)
      [] msg.kind = "round_one" -> RoundOneReply(msg, mid)
=============================================================================
