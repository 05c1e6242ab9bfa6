-------------------------- MODULE ReliableChannel --------------------------
(***************************************************************************)
(* What a link between two nodes promises, in both directions: a message   *)
(* is received at most once and in the order of sending, and a call is     *)
(* confirmed only when its message has been received.  A message that was  *)
(* sent may stay unreceived, and a received one unconfirmed: the link may  *)
(* break at any time.                                                      *)
(*                                                                         *)
(* This is the assumption "All point to point connections are reliable" of *)
(* the repository's README.adoc, as far as the code keeps it.              *)
(***************************************************************************)
EXTENDS Naturals, Sequences, SequencesExt

CONSTANTS Ends, Peer, Calls, Caller

VARIABLES
    sent,      \* sent[e]: what e has sent, in order
    received,  \* received[e]: what e has received, in order
    confirmed  \* the calls that have returned Ok

vars == <<sent, received, confirmed>>

Init ==
    /\ sent = [e \in Ends |-> <<>>]
    /\ received = [e \in Ends |-> <<>>]
    /\ confirmed = {}

Submit(c) ==
    /\ ~Contains(sent[Caller[c]], c)
    /\ sent' = [sent EXCEPT ![Caller[c]] = Append(@, c)]
    /\ UNCHANGED <<received, confirmed>>

(* The next message of e reaches the other end.                            *)
Receive(e) ==
    LET p == Peer[e] IN
    /\ Len(received[p]) < Len(sent[e])
    /\ received' =
         [received EXCEPT ![p] = Append(@, sent[e][Len(received[p]) + 1])]
    /\ UNCHANGED <<sent, confirmed>>

Confirm(c) ==
    /\ c \notin confirmed
    /\ Contains(received[Peer[Caller[c]]], c)
    /\ confirmed' = confirmed \cup {c}
    /\ UNCHANGED <<sent, received>>

Next ==
    \/ \E c \in Calls : Submit(c) \/ Confirm(c)
    \/ \E e \in Ends : Receive(e)

Spec == Init /\ [][Next]_vars
=============================================================================
