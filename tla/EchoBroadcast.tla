--------------------------- MODULE EchoBroadcast ---------------------------
(***************************************************************************)
(* The echo broadcast actor of one node and the handles its callers hold   *)
(* (src/node/echo_broadcast/mod.rs).                                       *)
(*                                                                         *)
(* A caller of EchoBroadcastHandle::send is a member of Requests: it puts  *)
(* one Send command on the actor's channel and waits on a oneshot channel  *)
(* (respond_to) for the reply.  The actor takes the commands one at a time;*)
(* while it sends a message to the members it takes no other command.      *)
(*                                                                         *)
(* Left out: the payload of a message.  What the actor reads of a message  *)
(* is its id and the id of its sender.  The reliable sender of a member is *)
(* external here (module ReliableSender models it): a send to a member     *)
(* returns Ok, returns Err, or does not return.  Err is what its type and  *)
(* the tests of the actor allow for; the reliable sender of today never    *)
(* gives it, as it neither ends nor drops a call it has taken.             *)
(*                                                                         *)
(* Left out too: the unwrap of get_message_id on a message without an id.  *)
(* Every caller sends a broadcast message, and the services give it an id. *)
(*                                                                         *)
(* A definition whose name starts with Mutant is no part of the model: it  *)
(* is a wrong form of the definition after it, used to test the properties.*)
(***************************************************************************)
EXTENDS Naturals, Sequences

CONSTANTS
    Ids,        \* ids of nodes: keys of the member map and sender ids
    Mids,       \* message ids
    Requests,   \* calls of EchoBroadcastHandle::send
    NoRequest,  \* no call: a vacant map entry, nothing in the actor's hands
    ChannelCap  \* capacity of the actor's command channel (512 in the code)

ASSUME NoRequestAssumption == NoRequest \notin Requests
ASSUME ChannelCapAssumption == ChannelCap \in Nat \ {0}

VARIABLES
    request,            \* request[r]: the data and the members of call r
    reply,              \* reply[r]: what call r has returned
    commands,           \* the command channel
    actor,              \* what the actor's task is doing
    current,            \* the call whose members are being sent to
    remaining,          \* the members it has still to be sent to
    reliable_senders,   \* message id -> the members it was sent to
    message_echos,      \* message id -> id -> absent, false or true
    message_client_txs, \* message id -> the call waiting for its echos
    acked,              \* history: members whose reliable send for r was Ok
    heard               \* history: the echos the actor has handled

callerVars == <<request, reply>>
mapVars    == <<reliable_senders, message_echos, message_client_txs>>
taskVars   == <<actor, current, remaining>>
vars == <<request, reply, commands, actor, current, remaining,
          reliable_senders, message_echos, message_client_txs, acked, heard>>

(***************************************************************************)
(* "none": not called yet.  "dropped": the actor let go of respond_to      *)
(* without using it, which the handle also turns into an Err.              *)
(***************************************************************************)
Replies == {"none", "pending", "ok", "err", "dropped"}

Broadcast == [message_id : Mids, sender_id : Ids, members : SUBSET Ids]
NoBroadcast == [message_id |-> "none", sender_id |-> "none", members |-> {}]

SendCommand(r) == [type |-> "Send", respond_to |-> r]
EchoCommand(mid, id) == [type |-> "Echo", message_id |-> mid, sender_id |-> id]
Command == {SendCommand(r) : r \in Requests}
             \cup {EchoCommand(mid, id) : mid \in Mids, id \in Ids}

(***************************************************************************)
(* The maps of the actor.  An inner map of message_echos is a total        *)
(* function in which "absent" is a missing key, "pending" false and        *)
(* "echoed" true; the outer key is missing exactly when every inner key is.*)
(***************************************************************************)
EchoStatus == {"absent", "pending", "echoed"}

(* Bounded channel: mpsc::Sender::send waits for room.                     *)
MutantHasRoomForOneMore == Len(commands) <= ChannelCap
HasRoom == Len(commands) < ChannelCap

HasEchos(mid) == \E id \in Ids : message_echos[mid][id] # "absent"

Init ==
    /\ request = [r \in Requests |-> NoBroadcast]
    /\ reply = [r \in Requests |-> "none"]
    /\ commands = <<>>
    /\ actor = "recv"
    /\ current = NoRequest
    /\ remaining = {}
    /\ reliable_senders = [mid \in Mids |-> {}]
    /\ message_echos = [mid \in Mids |-> [id \in Ids |-> "absent"]]
    /\ message_client_txs = [mid \in Mids |-> NoRequest]
    /\ acked = [r \in Requests |-> {}]
    /\ heard = {}

-----------------------------------------------------------------------------
(* EchoBroadcastHandle: the callers.                                       *)

(* send: enqueue the command, waiting for room, and wait for the reply.    *)
Send(r, b) ==
    /\ actor # "panicked"
    /\ reply[r] = "none"
    /\ HasRoom
    /\ request' = [request EXCEPT ![r] = b]
    /\ reply' = [reply EXCEPT ![r] = "pending"]
    /\ commands' = Append(commands, SendCommand(r))
    /\ UNCHANGED <<actor, current, remaining, reliable_senders, message_echos,
                   message_client_txs, acked, heard>>

(* send when the actor's task is gone: the channel is closed.              *)
SendClosed(r, b) ==
    /\ actor = "panicked"
    /\ reply[r] = "none"
    /\ request' = [request EXCEPT ![r] = b]
    /\ reply' = [reply EXCEPT ![r] = "err"]
    /\ UNCHANGED <<commands, actor, current, remaining, reliable_senders,
                   message_echos, message_client_txs, acked, heard>>

(* receive: enqueue an echo; nothing is waited for.                        *)
Receive(mid, id) ==
    /\ actor # "panicked"
    /\ HasRoom
    /\ commands' = Append(commands, EchoCommand(mid, id))
    /\ UNCHANGED <<request, reply, actor, current, remaining, reliable_senders,
                   message_echos, message_client_txs, acked, heard>>

-----------------------------------------------------------------------------
(* EchoBroadcastActor.                                                     *)

(* Take a Send command: send_message up to its loop over the members.      *)
TakeSend(r) ==
    /\ actor = "recv"
    /\ commands # <<>>
    /\ Head(commands) = SendCommand(r)
    /\ commands' = Tail(commands)
    /\ actor' = "sending"
    /\ current' = r
    /\ remaining' = request[r].members
    /\ UNCHANGED <<request, reply, reliable_senders, message_echos,
                   message_client_txs, acked, heard>>

(* message_echos.entry(member).or_insert(false)                            *)
MutantInsertFalse(status) == "pending"
MutantKeepStatus(status) == status
OrInsertFalse(status) == IF status = "absent" THEN "pending" ELSE status

(* One turn of the loop, in the map's arbitrary order: the member's        *)
(* reliable sender returns Ok.                                             *)
SendToMember(m) ==
    /\ actor = "sending"
    /\ m \in remaining
    /\ remaining' = remaining \ {m}
    /\ message_echos' =
         [message_echos EXCEPT ![request[current].message_id][m] =
             OrInsertFalse(@)]
    /\ acked' = [acked EXCEPT ![current] = @ \cup {m}]
    /\ UNCHANGED <<request, reply, commands, actor, current, reliable_senders,
                   message_client_txs, heard>>

(* One turn of the loop: the reliable sender returns Err.  The caller gets *)
(* Err; members already sent to keep the message and their map entry.      *)
MutantSendToMemberFailsAndForgets(m) ==
    LET mid == request[current].message_id IN
    /\ actor = "sending"
    /\ m \in remaining
    /\ reply' = [r \in Requests |->
                   CASE r = current -> "err"
                     [] r = message_client_txs[mid] -> "dropped"
                     [] OTHER -> reply[r]]
    /\ actor' = "recv"
    /\ current' = NoRequest
    /\ remaining' = {}
    /\ message_client_txs' = [message_client_txs EXCEPT ![mid] = NoRequest]
    /\ UNCHANGED <<request, commands, reliable_senders, message_echos, acked,
                   heard>>

SendToMemberFails(m) ==
    /\ actor = "sending"
    /\ m \in remaining
    /\ reply' = [reply EXCEPT ![current] = "err"]
    /\ actor' = "recv"
    /\ current' = NoRequest
    /\ remaining' = {}
    /\ UNCHANGED <<request, commands, reliable_senders, message_echos,
                   message_client_txs, acked, heard>>

(* message_client_txs.insert: a waiter that was there is dropped.          *)
MutantReplaceWaiterSilently(mid, r) ==
    /\ message_client_txs' = [message_client_txs EXCEPT ![mid] = r]
    /\ UNCHANGED reply

MutantAwaitEchos(mid, r) ==
    /\ \A id \in Ids : message_echos'[mid][id] # "pending"
    /\ message_client_txs' = [message_client_txs EXCEPT ![mid] = r]
    /\ reply' = [w \in Requests |->
                   IF w = message_client_txs[mid] THEN "dropped" ELSE reply[w]]

RegisterWaiter(mid, r) ==
    /\ message_client_txs' = [message_client_txs EXCEPT ![mid] = r]
    /\ reply' = [w \in Requests |->
                   IF w = message_client_txs[mid] THEN "dropped" ELSE reply[w]]

(* send_message after its loop: the sender's own echo counts as received.  *)
FinishSend ==
    LET b == request[current] IN
    /\ actor = "sending"
    /\ remaining = {}
    /\ HasEchos(b.message_id)
    /\ reliable_senders' = [reliable_senders EXCEPT ![b.message_id] = b.members]
    /\ message_echos' =
         [message_echos EXCEPT ![b.message_id][b.sender_id] = "echoed"]
    /\ RegisterWaiter(b.message_id, current)
    /\ actor' = "recv"
    /\ current' = NoRequest
    /\ UNCHANGED <<request, commands, remaining, acked, heard>>

(* send_message after its loop when the message id has no map entry: the   *)
(* unwrap panics, the task ends, and everything it owns is dropped: the    *)
(* commands still queued and every waiter.  (Nothing reads the other maps  *)
(* again; they are left as they were.)                                     *)
FinishSendPanics ==
    /\ actor = "sending"
    /\ remaining = {}
    /\ ~HasEchos(request[current].message_id)
    /\ actor' = "panicked"
    /\ current' = NoRequest
    /\ commands' = <<>>
    /\ reply' = [r \in Requests |->
                   IF reply[r] = "pending" THEN "dropped" ELSE reply[r]]
    /\ message_client_txs' = [mid \in Mids |-> NoRequest]
    /\ UNCHANGED <<request, remaining, reliable_senders, message_echos,
                   acked, heard>>

(* echo_received_for_all, of the inner map echos.                          *)
MutantEchoReceivedForOne(echos) == \E id \in Ids : echos[id] = "echoed"

EchoReceivedForAll(echos) == \A id \in Ids : echos[id] # "pending"

(* Take an Echo command: handle_received_echo.  When all echos are there   *)
(* the waiter is taken out of the map and answered.                        *)
HandleReceivedEcho(mid, id) ==
    LET echos == [message_echos[mid] EXCEPT ![id] = "echoed"]
        done  == EchoReceivedForAll(echos)
    IN
    /\ actor = "recv"
    /\ commands # <<>>
    /\ Head(commands) = EchoCommand(mid, id)
    /\ commands' = Tail(commands)
    /\ message_echos' = [message_echos EXCEPT ![mid] = echos]
    /\ heard' = heard \cup {<<mid, id>>}
    /\ message_client_txs' =
         [message_client_txs EXCEPT ![mid] = IF done THEN NoRequest ELSE @]
    /\ reply' = [r \in Requests |->
                   IF done /\ r = message_client_txs[mid] THEN "ok"
                                                          ELSE reply[r]]
    /\ UNCHANGED <<request, actor, current, remaining, reliable_senders, acked>>

-----------------------------------------------------------------------------
(* What the actor's task does by itself.                                   *)
TaskStep ==
    \/ \E r \in Requests : TakeSend(r)
    \/ FinishSend
    \/ FinishSendPanics
    \/ \E mid \in Mids, id \in Ids : HandleReceivedEcho(mid, id)

(* And what it does when the reliable sender of a member returns.          *)
ActorStep ==
    \/ TaskStep
    \/ \E m \in Ids : SendToMember(m)
    \/ \E m \in Ids : SendToMemberFails(m)

Next ==
    \/ \E r \in Requests, b \in Broadcast : Send(r, b)
    \/ \E r \in Requests, b \in Broadcast : SendClosed(r, b)
    \/ \E mid \in Mids, id \in Ids : Receive(mid, id)
    \/ ActorStep

Spec == Init /\ [][Next]_vars

(* The runtime keeps polling the actor's task.  A reliable send need not   *)
(* return: it is awaited without a timeout, and after the stream to the    *)
(* member has broken it never does (ReliableSender!AckOrFailure fails).    *)
FairSpec == Spec /\ WF_vars(TaskStep)

-----------------------------------------------------------------------------
(* Properties.                                                             *)

(* Type invariant of the actor's state and of its callers' state.          *)
TypeOK ==
    /\ request \in [Requests -> Broadcast \cup {NoBroadcast}]
    /\ reply \in [Requests -> Replies]
    /\ commands \in Seq(Command)
    /\ Len(commands) <= ChannelCap
    /\ actor \in {"recv", "sending", "panicked"}
    /\ current \in Requests \cup {NoRequest}
    /\ actor = "sending" => current \in Requests
    /\ remaining \in SUBSET Ids
    /\ reliable_senders \in [Mids -> SUBSET Ids]
    /\ message_echos \in [Mids -> [Ids -> EchoStatus]]
    /\ message_client_txs \in [Mids -> Requests \cup {NoRequest}]
    /\ acked \in [Requests -> SUBSET Ids]
    /\ heard \in SUBSET (Mids \X Ids)

(* id is named as the sender of a broadcast of mid some call has asked for *)
SenderOf(mid, id) ==
    \E q \in Requests : /\ reply[q] # "none"
                        /\ request[q].message_id = mid
                        /\ request[q].sender_id = id

(* What EchoBroadcastHandle::send promises with Ok: the message has been   *)
(* delivered to every member the caller named, and each of them has echoed *)
(* it or is itself the sender of a broadcast of that message id.  Several  *)
(* calls may share a message id, fail half way and be replaced; an Ok must *)
(* never rest on the echos of another call's members.                      *)
OkMeansAllEchoed ==
    \A r \in Requests : reply[r] = "ok" =>
        \A m \in request[r].members :
            /\ m \in acked[r]
            /\ \/ <<request[r].message_id, m>> \in heard
               \/ SenderOf(request[r].message_id, m)

InChannel(r) == \E i \in 1..Len(commands) : commands[i] = SendCommand(r)

(* No caller is forgotten: a call that has not returned is in the channel, *)
(* in the actor's hands, or the waiter of its message id.  The respond_to  *)
(* of a call moves through three places and none of the steps, errors,     *)
(* replacements and the panic included, may leave it in none of them.      *)
NoLostCaller ==
    \A r \in Requests : reply[r] = "pending" =>
        \/ InChannel(r)
        \/ current = r
        \/ message_client_txs[request[r].message_id] = r

(* A call returns Err without an error in its own sends only because the   *)
(* actor's task is gone or because there is another call with the same     *)
(* message id, and that one has been sent to all of its members: neither a *)
(* call still in its loop nor one that failed there replaces a waiter.     *)
DroppedOnlyIfReplaced ==
    \A r \in Requests : reply[r] = "dropped" =>
        \/ actor = "panicked"
        \/ \E q \in Requests \ {r} :
              /\ reply[q] # "none"
              /\ request[q].message_id = request[r].message_id
              /\ request[q].members \subseteq acked[q]

(* Broadcasting a message id again never forgets an echo: in the map of a  *)
(* message id a key only goes from absent to false to true.                *)
EchosMonotone ==
    [][\A mid \in Mids, id \in Ids :
         /\ message_echos[mid][id] # "absent" => message_echos'[mid][id] # "absent"
         /\ message_echos[mid][id] = "echoed" => message_echos'[mid][id] = "echoed"
      ]_vars

(* Every member a waiter named is tracked in the echo map of its message   *)
(* id, so that the actor cannot reply before that member's echo; and the   *)
(* members recorded for the message id are those of the waiter.            *)
WaiterTracked ==
    \A mid \in Mids : message_client_txs[mid] # NoRequest =>
        LET b == request[message_client_txs[mid]] IN
        /\ b.message_id = mid
        /\ reliable_senders[mid] = b.members
        /\ \A m \in b.members : message_echos[mid][m] # "absent"

(* The actor waits for a member's reliable send to return.                 *)
AwaitsMember == actor = "sending" /\ remaining # {}

(* Nothing but a member can hold the actor up: provided that no reliable   *)
(* send is awaited for ever, every call that got into the channel gets     *)
(* through the actor, which takes the echos and the calls from one channel:*)
(* it is answered or becomes the waiter of its message id, whatever waits  *)
(* for echos there.                                                        *)
EveryCallTaken ==
    []<>~AwaitsMember =>
        \A r \in Requests :
            InChannel(r) ~> \/ reply[r] # "pending"
                            \/ message_client_txs[request[r].message_id] = r

-----------------------------------------------------------------------------
(* What the documentation says and the code does not do.                   *)

(* The doc of send_message (mod.rs:86-91): "On receiving echos from all    *)
(* members, return Ok() to waiting receiver".  A waiter is left only while *)
(* an echo is missing.                                                     *)
WaiterMissesAnEcho ==
    \A mid \in Mids : message_client_txs[mid] # NoRequest =>
        ~EchoReceivedForAll(message_echos[mid])

(* The doc of EchoBroadcastHandle (mod.rs:179-181): "Members list is copied*)
(* into this struct so that we are only waiting for echos from the parties *)
(* that were members when the broadcast was originally sent".  An echo that*)
(* a waiter misses is one of a member its own call named.  That is asked   *)
(* only of a registered call that named a member, while the actor is idle, *)
(* and if no reliable send has ever failed.                                *)
WaitsOnlyForItsMembers ==
    actor = "recv" /\ (\A r \in Requests : reply[r] # "err") =>
        \A mid \in Mids : message_client_txs[mid] # NoRequest =>
            LET named == request[message_client_txs[mid]].members IN
            named # {} =>
                \A id \in Ids : message_echos[mid][id] = "pending" => id \in named
=============================================================================
