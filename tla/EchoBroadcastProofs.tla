------------------------ MODULE EchoBroadcastProofs ------------------------
(* Theorems about EchoBroadcast for every set of ids, message ids and      *)
(* calls and every channel capacity.                                       *)
EXTENDS EchoBroadcast, TLAPS

-----------------------------------------------------------------------------
(* The inductive invariant behind the safety properties: TypeOK, the parts *)
(* below, and the properties themselves.                                   *)

(* A call that has been made carries a message and members.                *)
IssuedInv == \A r \in Requests : reply[r] # "none" => request[r] \in Broadcast

(* A call in the channel waits, is there once, and is nowhere else.        *)
ChannelInv ==
    \A i \in 1..Len(commands) : \A r \in Requests :
        commands[i] = SendCommand(r) =>
            /\ reply[r] = "pending"
            /\ current # r
            /\ \A mid \in Mids : message_client_txs[mid] # r
            /\ \A j \in 1..Len(commands) : commands[j] = SendCommand(r) => i = j

(* The call in the actor's hands waits, is not registered yet, and every   *)
(* member but the remaining ones has its message.                          *)
CurrentInv ==
    current \in Requests =>
        /\ actor = "sending"
        /\ reply[current] = "pending"
        /\ \A mid \in Mids : message_client_txs[mid] # current
        /\ request[current].members \subseteq acked[current] \cup remaining

(* A registered waiter waits, for its own message id, with its message     *)
(* delivered to all its members.                                           *)
WaiterInv ==
    \A mid \in Mids : \A r \in Requests : message_client_txs[mid] = r =>
        /\ reply[r] = "pending"
        /\ request[r].message_id = mid
        /\ request[r].members \subseteq acked[r]
        /\ reliable_senders[mid] = request[r].members

(* A member that has got the message of a call is tracked from then on.    *)
TrackedInv ==
    \A r \in Requests : \A m \in acked[r] :
        /\ reply[r] # "none"
        /\ message_echos[request[r].message_id][m] # "absent"

(* A true entry of the echo map comes from an echo or from a broadcast.    *)
EchoedInv ==
    \A mid \in Mids, id \in Ids : message_echos[mid][id] = "echoed" =>
        <<mid, id>> \in heard \/ SenderOf(mid, id)

IInv == /\ TypeOK /\ IssuedInv /\ ChannelInv /\ CurrentInv /\ WaiterInv
        /\ TrackedInv /\ EchoedInv /\ OkMeansAllEchoed /\ NoLostCaller

-----------------------------------------------------------------------------
(* What the channel holds after a command is put in: the old commands, in  *)
(* place, and the new one last.                                            *)
LEMMA AppendCommand ==
    ASSUME NEW s \in Seq(Command), NEW c \in Command
    PROVE  /\ Append(s, c) \in Seq(Command)
           /\ Len(Append(s, c)) = Len(s) + 1
           /\ \A i \in 1..Len(s) + 1 :
                Append(s, c)[i] = IF i <= Len(s) THEN s[i] ELSE c
  OBVIOUS

(* What the channel holds after its head is taken: every other command, one*)
(* place further to the front.                                             *)
LEMMA TailCommands ==
    ASSUME NEW s \in Seq(Command), s # <<>>
    PROVE  /\ Head(s) \in Command
           /\ Head(s) = s[1]
           /\ Tail(s) \in Seq(Command)
           /\ Len(s) \in Nat \ {0}
           /\ Len(Tail(s)) = Len(s) - 1
           /\ \A i \in 1..Len(s) - 1 : Tail(s)[i] = s[i + 1]
  OBVIOUS

(* Every step keeps the type invariant. *)
LEMMA TypeStep == TypeOK /\ [Next]_vars => TypeOK'
<1> SUFFICES ASSUME TypeOK, [Next]_vars PROVE TypeOK'
  OBVIOUS
<1> USE ChannelCapAssumption
<1>1. ASSUME NEW r \in Requests, NEW b \in Broadcast, Send(r, b)
      PROVE  TypeOK'
  <2>1. SendCommand(r) \in Command
    BY DEF Command
  <2>2. commands' \in Seq(Command) /\ Len(commands') <= ChannelCap
    BY <1>1, <2>1, AppendCommand DEF Send, HasRoom, TypeOK
  <2> QED
    BY <1>1, <2>2 DEF Send, TypeOK, Replies
<1>2. ASSUME NEW r \in Requests, NEW b \in Broadcast, SendClosed(r, b)
      PROVE  TypeOK'
  BY <1>2 DEF SendClosed, TypeOK, Replies
<1>3. ASSUME NEW mid \in Mids, NEW id \in Ids, Receive(mid, id)
      PROVE  TypeOK'
  <2>1. EchoCommand(mid, id) \in Command
    BY DEF Command
  <2>2. commands' \in Seq(Command) /\ Len(commands') <= ChannelCap
    BY <1>3, <2>1, AppendCommand DEF Receive, HasRoom, TypeOK
  <2> QED
    BY <1>3, <2>2 DEF Receive, TypeOK
<1>4. ASSUME NEW r \in Requests, TakeSend(r)
      PROVE  TypeOK'
  <2>1. commands' \in Seq(Command) /\ Len(commands') <= ChannelCap
    BY <1>4, TailCommands DEF TakeSend, TypeOK
  <2>2. request[r].members \in SUBSET Ids
    BY DEF TypeOK, Broadcast, NoBroadcast
  <2> QED
    BY <1>4, <2>1, <2>2 DEF TakeSend, TypeOK
<1>5. ASSUME NEW m \in Ids, SendToMember(m)
      PROVE  TypeOK'
  <2>1. message_echos' \in [Mids -> [Ids -> EchoStatus]]
    BY <1>5 DEF SendToMember, TypeOK, OrInsertFalse, EchoStatus
  <2> QED
    BY <1>5, <2>1 DEF SendToMember, TypeOK
<1>6. ASSUME NEW m \in Ids, SendToMemberFails(m)
      PROVE  TypeOK'
  BY <1>6 DEF SendToMemberFails, TypeOK, Replies
<1>7. ASSUME FinishSend
      PROVE  TypeOK'
  <2>1. request[current].members \in SUBSET Ids
    BY <1>7 DEF FinishSend, TypeOK, Broadcast, NoBroadcast
  <2>2. message_echos' \in [Mids -> [Ids -> EchoStatus]]
    BY <1>7 DEF FinishSend, TypeOK, EchoStatus
  <2>3. /\ message_client_txs' \in [Mids -> Requests \cup {NoRequest}]
        /\ reply' \in [Requests -> Replies]
    BY <1>7 DEF FinishSend, RegisterWaiter, TypeOK, Replies
  <2> QED
    BY <1>7, <2>1, <2>2, <2>3 DEF FinishSend, TypeOK
<1>8. ASSUME FinishSendPanics
      PROVE  TypeOK'
  BY <1>8 DEF FinishSendPanics, TypeOK, Replies
<1>9. ASSUME NEW mid \in Mids, NEW id \in Ids, HandleReceivedEcho(mid, id)
      PROVE  TypeOK'
  <2>1. commands' \in Seq(Command) /\ Len(commands') <= ChannelCap
    BY <1>9, TailCommands DEF HandleReceivedEcho, TypeOK
  <2>2. message_echos' \in [Mids -> [Ids -> EchoStatus]]
    BY <1>9 DEF HandleReceivedEcho, TypeOK, EchoStatus
  <2>3. /\ message_client_txs' \in [Mids -> Requests \cup {NoRequest}]
        /\ reply' \in [Requests -> Replies]
    BY <1>9 DEF HandleReceivedEcho, TypeOK, Replies
  <2>4. heard' \in SUBSET (Mids \X Ids)
    BY <1>9 DEF HandleReceivedEcho, TypeOK
  <2> QED
    BY <1>9, <2>1, <2>2, <2>3, <2>4 DEF HandleReceivedEcho, TypeOK
<1>10. CASE UNCHANGED vars
  BY <1>10 DEF vars, TypeOK
<1> QED
  BY <1>1, <1>2, <1>3, <1>4, <1>5, <1>6, <1>7, <1>8, <1>9, <1>10
     DEF Next, ActorStep, TaskStep

(* The state of the actor and its callers is well typed, and the channel   *)
(* never holds more than ChannelCap commands.                              *)
THEOREM TypeCorrect == Spec => []TypeOK
<1>1. Init => TypeOK
  BY ChannelCapAssumption DEF Init, TypeOK, Replies, EchoStatus
<1> QED
  BY <1>1, TypeStep, PTL DEF Spec

-----------------------------------------------------------------------------
(* A call put in the channel keeps the inductive invariant.                *)
LEMMA SendKeeps ==
    ASSUME IInv, TypeOK', NEW r \in Requests, NEW b \in Broadcast, Send(r, b)
    PROVE  IInv'
<1>1. IssuedInv'
  BY DEF IInv, TypeOK, IssuedInv, Send
<1>2. ChannelInv'
  <2>1. SendCommand(r) \in Command
    BY DEF Command
  <2>2. /\ Len(commands') = Len(commands) + 1
        /\ \A i \in 1..Len(commands') :
             commands'[i] = IF i <= Len(commands) THEN commands[i]
                                                  ELSE SendCommand(r)
    BY <2>1, AppendCommand DEF IInv, TypeOK, Send
  <2>3. ASSUME NEW i \in 1..Len(commands'), NEW q \in Requests,
               commands'[i] = SendCommand(q)
        PROVE  IF i <= Len(commands)
               THEN i \in 1..Len(commands) /\ commands[i] = SendCommand(q) /\ q # r
               ELSE q = r
    <3>1. Len(commands) \in Nat
      BY DEF IInv, TypeOK
    <3>2. CASE i <= Len(commands)
      <4>1. i \in 1..Len(commands) /\ commands[i] = SendCommand(q)
        BY <2>2, <2>3, <3>1, <3>2
      <4>2. reply[q] = "pending"
        BY <4>1 DEF IInv, ChannelInv
      <4> QED
        BY <3>2, <4>1, <4>2 DEF Send
    <3>3. CASE ~(i <= Len(commands))
      BY <2>2, <2>3, <3>3 DEF SendCommand
    <3> QED
      BY <3>2, <3>3
  <2>4. current # r /\ \A mid \in Mids : message_client_txs[mid] # r
    BY DEF IInv, TypeOK, CurrentInv, WaiterInv, Send
  <2> QED
    BY <2>2, <2>3, <2>4 DEF IInv, TypeOK, ChannelInv, Send
<1>3. CurrentInv'
  BY DEF IInv, TypeOK, CurrentInv, Send
<1>4. WaiterInv'
  BY DEF IInv, TypeOK, WaiterInv, Send
<1>5. TrackedInv'
  BY DEF IInv, TypeOK, TrackedInv, Send
<1>6. EchoedInv'
  BY DEF IInv, TypeOK, EchoedInv, Send, SenderOf
<1>7. OkMeansAllEchoed'
  <2>1. \A mid, x : SenderOf(mid, x) => SenderOf(mid, x)'
    BY DEF IInv, TypeOK, SenderOf, Send
  <2> QED
    BY <2>1 DEF IInv, TypeOK, OkMeansAllEchoed, Send
<1>8. NoLostCaller'
  BY DEF IInv, TypeOK, NoLostCaller, Send, InChannel
<1> QED
  BY <1>1, <1>2, <1>3, <1>4, <1>5, <1>6, <1>7, <1>8 DEF IInv

(* A call on the closed channel keeps the inductive invariant.             *)
LEMMA SendClosedKeeps ==
    ASSUME IInv, TypeOK', NEW r \in Requests, NEW b \in Broadcast, SendClosed(r, b)
    PROVE  IInv'
<1>1. IssuedInv'
  BY DEF IInv, TypeOK, IssuedInv, SendClosed
<1>2. ChannelInv'
  <2>1. \A q \in Requests : reply[q] = "pending" => reply'[q] = "pending"
    BY DEF IInv, TypeOK, SendClosed
  <2>2. UNCHANGED <<commands, current, message_client_txs>>
    BY DEF SendClosed
  <2> QED
    BY <2>1, <2>2 DEF IInv, ChannelInv
<1>3. CurrentInv'
  BY DEF IInv, TypeOK, CurrentInv, SendClosed
<1>4. WaiterInv'
  BY DEF IInv, TypeOK, WaiterInv, SendClosed
<1>5. TrackedInv'
  BY DEF IInv, TypeOK, TrackedInv, SendClosed
<1>6. EchoedInv'
  BY DEF IInv, TypeOK, EchoedInv, SendClosed, SenderOf
<1>7. OkMeansAllEchoed'
  BY DEF IInv, TypeOK, OkMeansAllEchoed, SendClosed, SenderOf
<1>8. NoLostCaller'
  BY DEF IInv, TypeOK, NoLostCaller, SendClosed, InChannel
<1> QED
  BY <1>1, <1>2, <1>3, <1>4, <1>5, <1>6, <1>7, <1>8 DEF IInv

(* An echo put in the channel keeps the inductive invariant.               *)
LEMMA ReceiveKeeps ==
    ASSUME IInv, TypeOK', NEW mid \in Mids, NEW id \in Ids, Receive(mid, id)
    PROVE  IInv'
<1>1. IssuedInv'
  BY DEF IInv, TypeOK, IssuedInv, Receive
<1>2. ChannelInv'
  <2>1. EchoCommand(mid, id) \in Command
    BY DEF Command
  <2>2. /\ Len(commands') = Len(commands) + 1
        /\ \A i \in 1..Len(commands') :
             commands'[i] = IF i <= Len(commands) THEN commands[i]
                                                  ELSE EchoCommand(mid, id)
    BY <2>1, AppendCommand DEF IInv, TypeOK, Receive
  <2>3. ASSUME NEW i \in 1..Len(commands'), NEW q \in Requests,
               commands'[i] = SendCommand(q)
        PROVE  i \in 1..Len(commands) /\ commands[i] = SendCommand(q)
    BY <2>2, <2>3 DEF IInv, TypeOK, Receive, SendCommand, EchoCommand
  <2> QED
    BY <2>2, <2>3 DEF IInv, TypeOK, ChannelInv, Receive
<1>3. CurrentInv'
  BY DEF IInv, TypeOK, CurrentInv, Receive
<1>4. WaiterInv'
  BY DEF IInv, TypeOK, WaiterInv, Receive
<1>5. TrackedInv'
  BY DEF IInv, TypeOK, TrackedInv, Receive
<1>6. EchoedInv'
  BY DEF IInv, TypeOK, EchoedInv, Receive, SenderOf
<1>7. OkMeansAllEchoed'
  BY DEF IInv, TypeOK, OkMeansAllEchoed, Receive, SenderOf
<1>8. NoLostCaller'
  BY DEF IInv, TypeOK, NoLostCaller, Receive, InChannel
<1> QED
  BY <1>1, <1>2, <1>3, <1>4, <1>5, <1>6, <1>7, <1>8 DEF IInv

(* Taking a call from the channel keeps the inductive invariant.           *)
LEMMA TakeSendKeeps ==
    ASSUME IInv, TypeOK', NEW r \in Requests, TakeSend(r)
    PROVE  IInv'
<1>1. IssuedInv'
  BY DEF IInv, TypeOK, IssuedInv, TakeSend
<1>2. ChannelInv'
  BY DEF IInv, TypeOK, ChannelInv, TakeSend
<1>3. CurrentInv'
  <2>1. /\ 1 \in 1..Len(commands)
        /\ commands[1] = SendCommand(r)
    BY TailCommands DEF IInv, TypeOK, TakeSend
  <2>2. reply[r] = "pending" /\ \A mid \in Mids : message_client_txs[mid] # r
    BY <2>1 DEF IInv, ChannelInv
  <2> QED
    BY <2>2 DEF IInv, TypeOK, CurrentInv, TakeSend
<1>4. WaiterInv'
  BY DEF IInv, TypeOK, WaiterInv, TakeSend
<1>5. TrackedInv'
  BY DEF IInv, TypeOK, TrackedInv, TakeSend
<1>6. EchoedInv'
  BY DEF IInv, TypeOK, EchoedInv, TakeSend, SenderOf
<1>7. OkMeansAllEchoed'
  BY DEF IInv, TypeOK, OkMeansAllEchoed, TakeSend, SenderOf
<1>8. NoLostCaller'
  <2>1. ASSUME NEW q \in Requests, InChannel(q)
        PROVE  q = r \/ InChannel(q)'
    <3>1. PICK i \in 1..Len(commands) : commands[i] = SendCommand(q)
      BY <2>1 DEF InChannel
    <3>2. CASE i = 1
      BY <3>1, <3>2, TailCommands DEF IInv, TypeOK, TakeSend, SendCommand
    <3>3. CASE i # 1
      <4>1. /\ i - 1 \in 1..Len(commands')
            /\ commands'[i - 1] = SendCommand(q)
        BY <3>1, <3>3, TailCommands DEF IInv, TypeOK, TakeSend
      <4> QED
        BY <4>1 DEF InChannel
    <3> QED
      BY <3>2, <3>3
  <2>2. current \notin Requests
    BY DEF IInv, CurrentInv, TakeSend
  <2> QED
    BY <2>1, <2>2 DEF IInv, NoLostCaller, TakeSend
<1> QED
  BY <1>1, <1>2, <1>3, <1>4, <1>5, <1>6, <1>7, <1>8 DEF IInv

(* A member sent to keeps the inductive invariant.                         *)
LEMMA SendToMemberKeeps ==
    ASSUME IInv, TypeOK', NEW m \in Ids, SendToMember(m)
    PROVE  IInv'
<1>1. IssuedInv'
  BY DEF IInv, TypeOK, IssuedInv, SendToMember, OrInsertFalse
<1>2. ChannelInv'
  BY DEF IInv, TypeOK, ChannelInv, SendToMember, OrInsertFalse
<1>3. CurrentInv'
  BY DEF IInv, TypeOK, CurrentInv, SendToMember, OrInsertFalse
<1>4. WaiterInv'
  BY DEF IInv, TypeOK, WaiterInv, SendToMember, OrInsertFalse
<1>5. TrackedInv'
  <2>1. \A mid \in Mids, x \in Ids :
           message_echos[mid][x] # "absent" => message_echos'[mid][x] # "absent"
    BY DEF IInv, TypeOK, SendToMember, OrInsertFalse
  <2>2. /\ request[current] \in Broadcast
        /\ request[current].message_id \in Mids
        /\ reply[current] = "pending"
    BY DEF IInv, TypeOK, IssuedInv, CurrentInv, SendToMember, Broadcast
  <2>3. message_echos'[request[current].message_id][m] # "absent"
    BY <2>2 DEF IInv, TypeOK, SendToMember, OrInsertFalse
  <2>4. ASSUME NEW r \in Requests, NEW x \in acked'[r]
        PROVE  /\ reply[r] # "none"
               /\ message_echos'[request[r].message_id][x] # "absent"
    <3>1. CASE x \in acked[r]
      <4>1. reply[r] # "none" /\ message_echos[request[r].message_id][x] # "absent"
        BY <3>1 DEF IInv, TrackedInv
      <4>2. request[r].message_id \in Mids /\ x \in Ids
        BY <3>1, <4>1 DEF IInv, TypeOK, IssuedInv, Broadcast
      <4> QED
        BY <2>1, <4>1, <4>2
    <3>2. CASE x \notin acked[r]
      <4>1. r = current /\ x = m
        BY <3>2, <2>4 DEF IInv, TypeOK, SendToMember
      <4> QED
        BY <4>1, <2>2, <2>3
    <3> QED
      BY <3>1, <3>2
  <2> QED
    BY <2>4 DEF TrackedInv, SendToMember
<1>6. EchoedInv'
  BY DEF IInv, TypeOK, EchoedInv, SendToMember, SenderOf, OrInsertFalse
<1>7. OkMeansAllEchoed'
  BY DEF IInv, TypeOK, OkMeansAllEchoed, SendToMember, SenderOf, OrInsertFalse
<1>8. NoLostCaller'
  BY DEF IInv, TypeOK, NoLostCaller, SendToMember, InChannel, OrInsertFalse
<1> QED
  BY <1>1, <1>2, <1>3, <1>4, <1>5, <1>6, <1>7, <1>8 DEF IInv

(* A failed send to a member keeps the inductive invariant.                *)
LEMMA SendToMemberFailsKeeps ==
    ASSUME IInv, TypeOK', NEW m \in Ids, SendToMemberFails(m)
    PROVE  IInv'
<1>1. IssuedInv'
  BY DEF IInv, TypeOK, IssuedInv, SendToMemberFails, CurrentInv
<1>2. ChannelInv'
  <2>1. commands' = commands /\ current' = NoRequest
    BY DEF SendToMemberFails
  <2>2. UNCHANGED message_client_txs
    BY DEF SendToMemberFails
  <2>3. \A q \in Requests : current # q => reply'[q] = reply[q]
    BY DEF IInv, TypeOK, SendToMemberFails
  <2> QED
    BY <2>1, <2>2, <2>3, NoRequestAssumption DEF IInv, ChannelInv
<1>3. CurrentInv'
  BY NoRequestAssumption DEF IInv, TypeOK, CurrentInv, SendToMemberFails
<1>4. WaiterInv'
  BY NoRequestAssumption DEF IInv, TypeOK, WaiterInv, SendToMemberFails, CurrentInv
<1>5. TrackedInv'
  BY DEF IInv, TypeOK, TrackedInv, SendToMemberFails
<1>6. EchoedInv'
  BY DEF IInv, TypeOK, EchoedInv, SendToMemberFails, SenderOf
<1>7. OkMeansAllEchoed'
  BY DEF IInv, TypeOK, OkMeansAllEchoed, SendToMemberFails, SenderOf
<1>8. NoLostCaller'
  BY DEF IInv, TypeOK, NoLostCaller, SendToMemberFails, InChannel
<1> QED
  BY <1>1, <1>2, <1>3, <1>4, <1>5, <1>6, <1>7, <1>8 DEF IInv

(* Registering a waiter keeps the inductive invariant.                     *)
LEMMA FinishSendKeeps ==
    ASSUME IInv, TypeOK', FinishSend
    PROVE  IInv'
<1>1. IssuedInv'
  BY DEF IInv, TypeOK, IssuedInv, FinishSend, RegisterWaiter, WaiterInv
<1>2. ChannelInv'
  <2>1. commands' = commands /\ current' = NoRequest
    BY DEF FinishSend
  <2>2. ASSUME NEW i \in 1..Len(commands), NEW r \in Requests,
               commands[i] = SendCommand(r)
        PROVE  /\ reply'[r] = "pending"
               /\ \A mid \in Mids : message_client_txs'[mid] # r
    <3>1. /\ reply[r] = "pending"
          /\ current # r
          /\ \A mid \in Mids : message_client_txs[mid] # r
      BY <2>2 DEF IInv, ChannelInv
    <3>2. request[current].message_id \in Mids
      BY DEF IInv, TypeOK, IssuedInv, CurrentInv, FinishSend, Broadcast
    <3> QED
      BY <3>1, <3>2 DEF IInv, TypeOK, FinishSend, RegisterWaiter
  <2> QED
    BY <2>1, <2>2, NoRequestAssumption DEF IInv, ChannelInv
<1>3. CurrentInv'
  BY NoRequestAssumption DEF IInv, TypeOK, CurrentInv, FinishSend, RegisterWaiter
<1>4. WaiterInv'
  <2>1. /\ request[current].message_id \in Mids
        /\ reply[current] = "pending"
        /\ request[current].members \subseteq acked[current]
        /\ \A mid \in Mids : message_client_txs[mid] # current
    BY DEF IInv, TypeOK, IssuedInv, CurrentInv, FinishSend, Broadcast
  <2> SUFFICES ASSUME NEW mid \in Mids, NEW r \in Requests,
                      message_client_txs'[mid] = r
               PROVE  /\ reply'[r] = "pending"
                      /\ request[r].message_id = mid
                      /\ request[r].members \subseteq acked[r]
                      /\ reliable_senders'[mid] = request[r].members
    BY DEF WaiterInv, FinishSend
  <2>2. CASE mid = request[current].message_id
    <3>1. r = current
      BY <2>2 DEF IInv, TypeOK, FinishSend, RegisterWaiter
    <3> QED
      BY <2>1, <2>2, <3>1 DEF IInv, TypeOK, FinishSend, RegisterWaiter
  <2>3. CASE mid # request[current].message_id
    <3>1. message_client_txs[mid] = r
      BY <2>3 DEF IInv, TypeOK, FinishSend, RegisterWaiter
    <3>2. r # message_client_txs[request[current].message_id]
      BY <2>1, <2>3, <3>1 DEF IInv, WaiterInv
    <3> QED
      BY <2>1, <2>3, <3>1, <3>2
         DEF IInv, TypeOK, WaiterInv, FinishSend, RegisterWaiter
  <2> QED
    BY <2>2, <2>3
<1>5. TrackedInv'
  BY DEF IInv, TypeOK, TrackedInv, FinishSend, RegisterWaiter
<1>6. EchoedInv'
  <2>1. /\ current \in Requests
        /\ reply[current] = "pending"
        /\ request[current].message_id \in Mids
        /\ message_client_txs[request[current].message_id] # current
    BY DEF IInv, TypeOK, IssuedInv, CurrentInv, FinishSend, Broadcast
  <2>2. ASSUME NEW mid, NEW id,
               mid = request[current].message_id, id = request[current].sender_id
        PROVE  SenderOf(mid, id)'
    BY <2>1, <2>2 DEF IInv, TypeOK, SenderOf, FinishSend, RegisterWaiter
  <2>3. \A mid, id : SenderOf(mid, id) => SenderOf(mid, id)'
    BY DEF IInv, TypeOK, SenderOf, FinishSend, RegisterWaiter
  <2>4. ASSUME NEW mid \in Mids, NEW id \in Ids,
               message_echos'[mid][id] = "echoed"
        PROVE  \/ message_echos[mid][id] = "echoed"
               \/ /\ mid = request[current].message_id
                  /\ id = request[current].sender_id
    BY <2>4 DEF IInv, TypeOK, FinishSend
  <2> QED
    BY <2>2, <2>3, <2>4 DEF IInv, EchoedInv, FinishSend
<1>7. OkMeansAllEchoed'
  BY DEF IInv, TypeOK, OkMeansAllEchoed, FinishSend, SenderOf, RegisterWaiter
<1>8. NoLostCaller'
  BY DEF IInv, TypeOK, NoLostCaller, FinishSend, InChannel, RegisterWaiter
<1> QED
  BY <1>1, <1>2, <1>3, <1>4, <1>5, <1>6, <1>7, <1>8 DEF IInv

(* The panic of the actor's task keeps the inductive invariant.            *)
LEMMA FinishSendPanicsKeeps ==
    ASSUME IInv, TypeOK', FinishSendPanics
    PROVE  IInv'
<1>1. IssuedInv'
  BY DEF IInv, TypeOK, IssuedInv, FinishSendPanics
<1>2. ChannelInv'
  BY DEF IInv, TypeOK, ChannelInv, FinishSendPanics
<1>3. CurrentInv'
  BY NoRequestAssumption DEF IInv, TypeOK, CurrentInv, FinishSendPanics
<1>4. WaiterInv'
  BY NoRequestAssumption DEF IInv, TypeOK, WaiterInv, FinishSendPanics
<1>5. TrackedInv'
  BY DEF IInv, TypeOK, TrackedInv, FinishSendPanics
<1>6. EchoedInv'
  BY DEF IInv, TypeOK, EchoedInv, FinishSendPanics, SenderOf
<1>7. OkMeansAllEchoed'
  BY DEF IInv, TypeOK, OkMeansAllEchoed, FinishSendPanics, SenderOf
<1>8. NoLostCaller'
  BY DEF IInv, TypeOK, NoLostCaller, FinishSendPanics, InChannel
<1> QED
  BY <1>1, <1>2, <1>3, <1>4, <1>5, <1>6, <1>7, <1>8 DEF IInv

(* Handling an echo keeps the inductive invariant.                         *)
LEMMA HandleReceivedEchoKeeps ==
    ASSUME IInv, TypeOK', NEW mid \in Mids, NEW id \in Ids, HandleReceivedEcho(mid, id)
    PROVE  IInv'
<1>1. IssuedInv'
  BY DEF IInv, TypeOK, IssuedInv, HandleReceivedEcho, EchoReceivedForAll, WaiterInv
<1>2. ChannelInv'
  <2>1. /\ Len(commands') = Len(commands) - 1
        /\ Len(commands) \in Nat
        /\ \A i \in 1..Len(commands') :
             i + 1 \in 1..Len(commands) /\ commands'[i] = commands[i + 1]
    BY TailCommands DEF IInv, TypeOK, HandleReceivedEcho
  <2> SUFFICES ASSUME NEW i \in 1..Len(commands'), NEW r \in Requests,
                      commands'[i] = SendCommand(r)
               PROVE  /\ reply'[r] = "pending"
                      /\ current # r
                      /\ \A x \in Mids : message_client_txs'[x] # r
                      /\ \A j \in 1..Len(commands') :
                           commands'[j] = SendCommand(r) => i = j
    BY DEF ChannelInv, HandleReceivedEcho
  <2>2. /\ i + 1 \in 1..Len(commands)
        /\ commands[i + 1] = SendCommand(r)
    BY <2>1
  <2>3. /\ reply[r] = "pending"
        /\ current # r
        /\ \A x \in Mids : message_client_txs[x] # r
        /\ \A j \in 1..Len(commands) : commands[j] = SendCommand(r) => i + 1 = j
    BY <2>2 DEF IInv, ChannelInv
  <2>4. \A j \in 1..Len(commands') : commands'[j] = SendCommand(r) => i = j
    BY <2>1, <2>3
  <2>5. reply'[r] = "pending" /\ \A x \in Mids : message_client_txs'[x] # r
    BY <2>3, NoRequestAssumption
       DEF IInv, TypeOK, HandleReceivedEcho
  <2> QED
    BY <2>3, <2>4, <2>5
<1>3. CurrentInv'
  BY DEF IInv, TypeOK, CurrentInv, HandleReceivedEcho, EchoReceivedForAll
<1>4. WaiterInv'
  <2>1. ASSUME NEW x \in Mids, NEW r \in Requests, message_client_txs'[x] = r
        PROVE  message_client_txs[x] = r /\ reply'[r] = reply[r]
    <3>1. message_client_txs[x] = r
      BY <2>1, NoRequestAssumption
         DEF IInv, TypeOK, HandleReceivedEcho
    <3>2. CASE x = mid
      BY <2>1, <3>1, <3>2, NoRequestAssumption
         DEF IInv, TypeOK, HandleReceivedEcho
    <3>3. CASE x # mid
      <4>1. message_client_txs[mid] # r
        BY <3>1, <3>3 DEF IInv, WaiterInv
      <4> QED
        BY <3>1, <4>1 DEF HandleReceivedEcho
    <3> QED
      BY <3>1, <3>2, <3>3
  <2>2. UNCHANGED <<request, acked, reliable_senders>>
    BY DEF HandleReceivedEcho
  <2> QED
    BY <2>1, <2>2 DEF IInv, WaiterInv
<1>5. TrackedInv'
  BY DEF IInv, TypeOK, TrackedInv, HandleReceivedEcho, EchoReceivedForAll
<1>6. EchoedInv'
  <2>1. \A x, y : SenderOf(x, y) => SenderOf(x, y)'
    BY DEF IInv, TypeOK, SenderOf, HandleReceivedEcho
  <2>2. ASSUME NEW x \in Mids, NEW y \in Ids,
               message_echos'[x][y] = "echoed"
        PROVE  message_echos[x][y] = "echoed" \/ (x = mid /\ y = id)
    BY <2>2 DEF IInv, TypeOK, HandleReceivedEcho
  <2> QED
    BY <2>1, <2>2 DEF IInv, EchoedInv, HandleReceivedEcho
<1>7. OkMeansAllEchoed'
  <2>1. \A x, y : SenderOf(x, y) => SenderOf(x, y)'
    BY DEF IInv, TypeOK, SenderOf, HandleReceivedEcho
  <2>2. EchoedInv'
    BY <1>6
  <2>3. TrackedInv'
    BY <1>5
  <2> SUFFICES ASSUME NEW r \in Requests, reply'[r] = "ok",
                      NEW m \in request[r].members
               PROVE  /\ m \in acked[r]
                      /\ \/ <<request[r].message_id, m>> \in heard'
                         \/ SenderOf(request[r].message_id, m)'
    BY DEF OkMeansAllEchoed, HandleReceivedEcho
  <2>4. CASE reply[r] = "ok"
    BY <2>1, <2>4 DEF IInv, OkMeansAllEchoed, HandleReceivedEcho
  <2>5. CASE reply[r] # "ok"
    <3>1. /\ message_client_txs[mid] = r
          /\ EchoReceivedForAll(message_echos'[mid])
      BY <2>5 DEF IInv, TypeOK, HandleReceivedEcho
    <3>2. /\ reply[r] = "pending"
          /\ request[r].message_id = mid
          /\ request[r].members \subseteq acked[r]
      BY <3>1 DEF IInv, WaiterInv
    <3>3. m \in acked[r] /\ m \in Ids
      BY <3>2 DEF IInv, TypeOK
    <3>4. message_echos'[mid][m] # "absent"
      BY <2>3, <3>2, <3>3 DEF TrackedInv, HandleReceivedEcho
    <3>5. message_echos'[mid][m] = "echoed"
      BY <3>1, <3>3, <3>4 DEF TypeOK, EchoStatus, EchoReceivedForAll
    <3> QED
      BY <2>2, <3>2, <3>3, <3>5 DEF IInv, TypeOK, EchoedInv, HandleReceivedEcho
  <2> QED
    BY <2>4, <2>5
<1>8. NoLostCaller'
  <2>1. ASSUME NEW q \in Requests, InChannel(q)
        PROVE  InChannel(q)'
    <3>1. PICK i \in 1..Len(commands) : commands[i] = SendCommand(q)
      BY <2>1 DEF InChannel
    <3>2. i # 1
      BY <3>1, TailCommands
         DEF IInv, TypeOK, HandleReceivedEcho, SendCommand, EchoCommand
    <3>3. /\ i - 1 \in 1..Len(commands')
          /\ commands'[i - 1] = SendCommand(q)
      BY <3>1, <3>2, TailCommands DEF IInv, TypeOK, HandleReceivedEcho
    <3> QED
      BY <3>3 DEF InChannel
  <2>2. ASSUME NEW q \in Requests, NEW x \in Mids, message_client_txs[x] = q
        PROVE  reply'[q] # "pending" \/ message_client_txs'[x] = q
    BY <2>2 DEF IInv, TypeOK, HandleReceivedEcho
  <2>3. \A q \in Requests : reply'[q] = "pending" =>
           reply[q] = "pending" /\ request[q].message_id \in Mids
    BY DEF IInv, TypeOK, IssuedInv, HandleReceivedEcho, Broadcast
  <2> QED
    BY <2>1, <2>2, <2>3 DEF IInv, NoLostCaller, HandleReceivedEcho
<1> QED
  BY <1>1, <1>2, <1>3, <1>4, <1>5, <1>6, <1>7, <1>8 DEF IInv

(* Every step keeps the inductive invariant. *)
LEMMA InductiveStep == IInv /\ [Next]_vars => IInv'
<1> SUFFICES ASSUME IInv, [Next]_vars PROVE IInv'
  OBVIOUS
<1>1. TypeOK'
  BY TypeStep DEF IInv
<1>2. CASE UNCHANGED vars
  <2>1. /\ UNCHANGED <<request, reply, commands, actor, current, remaining>>
        /\ UNCHANGED <<reliable_senders, message_echos, message_client_txs>>
        /\ UNCHANGED <<acked, heard>>
    BY <1>2 DEF vars
  <2>2. IssuedInv' /\ ChannelInv' /\ CurrentInv' /\ WaiterInv'
    BY <2>1 DEF IInv, IssuedInv, ChannelInv, CurrentInv, WaiterInv, InChannel
  <2>3. TrackedInv' /\ EchoedInv' /\ OkMeansAllEchoed'
    BY <2>1 DEF IInv, TrackedInv, EchoedInv, OkMeansAllEchoed, SenderOf
  <2>4. NoLostCaller'
    BY <2>1 DEF IInv, NoLostCaller, InChannel
  <2> QED
    BY <1>1, <2>2, <2>3, <2>4 DEF IInv
<1> QED
  BY <1>1, <1>2, SendKeeps, SendClosedKeeps, ReceiveKeeps, TakeSendKeeps,
     SendToMemberKeeps, SendToMemberFailsKeeps, FinishSendKeeps,
     FinishSendPanicsKeeps, HandleReceivedEchoKeeps
     DEF Next, ActorStep, TaskStep

(* The inductive invariant holds throughout. *)
THEOREM Invariance == Spec => []IInv
<1>1. Init => IInv
  BY NoRequestAssumption, ChannelCapAssumption
     DEF Init, IInv, TypeOK, Replies, EchoStatus, IssuedInv, ChannelInv,
         CurrentInv, WaiterInv, TrackedInv, EchoedInv, OkMeansAllEchoed,
         NoLostCaller
<1> QED
  BY <1>1, InductiveStep, PTL DEF Spec

(* EchoBroadcastHandle::send returns Ok only when the message has reached  *)
(* every member of the call and each has echoed it (or broadcast it).      *)
THEOREM OkSound == Spec => []OkMeansAllEchoed
<1>1. IInv => OkMeansAllEchoed
  BY DEF IInv
<1> QED
  BY <1>1, Invariance, PTL

(* The actor never loses the respond_to of a call that has not returned.   *)
THEOREM CallersKept == Spec => []NoLostCaller
<1>1. IInv => NoLostCaller
  BY DEF IInv
<1> QED
  BY <1>1, Invariance, PTL

(* The members a waiter waits for are those recorded for its message id,   *)
(* and the echo map tracks each of them.                                   *)
THEOREM WaitersTracked == Spec => []WaiterTracked
<1>1. IInv => WaiterTracked
  <2> SUFFICES ASSUME IInv, NEW mid \in Mids,
                      message_client_txs[mid] # NoRequest
               PROVE  LET b == request[message_client_txs[mid]] IN
                      /\ b.message_id = mid
                      /\ reliable_senders[mid] = b.members
                      /\ \A m \in b.members : message_echos[mid][m] # "absent"
    BY DEF WaiterTracked
  <2>1. message_client_txs[mid] \in Requests
    BY DEF IInv, TypeOK
  <2> QED
    BY <2>1 DEF IInv, WaiterInv, TrackedInv
<1> QED
  BY <1>1, Invariance, PTL

(* The echo map of a message id never loses a key or an echo.              *)
THEOREM EchosNeverForgotten == Spec => EchosMonotone
<1>1. TypeOK /\ [Next]_vars =>
        [\A mid \in Mids, id \in Ids :
           /\ message_echos[mid][id] # "absent" =>
                message_echos'[mid][id] # "absent"
           /\ message_echos[mid][id] = "echoed" =>
                message_echos'[mid][id] = "echoed"]_vars
  <2> SUFFICES ASSUME TypeOK, Next, NEW mid \in Mids, NEW id \in Ids
               PROVE  /\ message_echos[mid][id] # "absent" =>
                           message_echos'[mid][id] # "absent"
                      /\ message_echos[mid][id] = "echoed" =>
                           message_echos'[mid][id] = "echoed"
    OBVIOUS
  <2>1. ASSUME NEW m \in Ids, SendToMember(m)
        PROVE  message_echos'[mid][id] \in
                 {message_echos[mid][id], OrInsertFalse(message_echos[mid][id])}
    BY <2>1 DEF SendToMember, TypeOK
  <2>2. ASSUME FinishSend
        PROVE  message_echos'[mid][id] \in {message_echos[mid][id], "echoed"}
    BY <2>2 DEF FinishSend, TypeOK
  <2>3. ASSUME NEW x \in Mids, NEW y \in Ids, HandleReceivedEcho(x, y)
        PROVE  message_echos'[mid][id] \in {message_echos[mid][id], "echoed"}
    BY <2>3 DEF HandleReceivedEcho, TypeOK
  <2>4. ASSUME \/ \E r \in Requests, b \in Broadcast :
                     Send(r, b) \/ SendClosed(r, b)
               \/ \E x \in Mids, y \in Ids : Receive(x, y)
               \/ \E r \in Requests : TakeSend(r)
               \/ \E m \in Ids : SendToMemberFails(m)
               \/ FinishSendPanics
        PROVE  message_echos' = message_echos
    BY <2>4 DEF Send, SendClosed, Receive, TakeSend, SendToMemberFails,
                FinishSendPanics
  <2> QED
    BY <2>1, <2>2, <2>3, <2>4 DEF Next, ActorStep, TaskStep, OrInsertFalse
<1> QED
  BY <1>1, TypeCorrect, PTL DEF Spec, EchosMonotone

(* No step takes back that a call was made, what it asked for or what was  *)
(* acknowledged for it, and a panicked actor stays so.                     *)
LEMMA CallsPersist ==
    ASSUME TypeOK, Next
    PROVE  /\ actor = "panicked" => actor' = "panicked"
           /\ \A q \in Requests : reply[q] # "none" =>
                /\ reply'[q] # "none"
                /\ request'[q] = request[q]
                /\ acked[q] \subseteq acked'[q]
<1>1. ASSUME NEW r \in Requests, NEW b \in Broadcast,
             Send(r, b) \/ SendClosed(r, b)
      PROVE  /\ actor' = actor
             /\ acked' = acked
             /\ \A q \in Requests : reply[q] # "none" =>
                  reply'[q] = reply[q] /\ request'[q] = request[q]
  BY <1>1 DEF Send, SendClosed, TypeOK
<1>2. ASSUME NEW mid \in Mids, NEW id \in Ids, HandleReceivedEcho(mid, id)
      PROVE  /\ UNCHANGED <<actor, request, acked>>
             /\ \A q \in Requests : reply[q] # "none" => reply'[q] # "none"
  BY <1>2 DEF HandleReceivedEcho, TypeOK
<1>3. ASSUME NEW m \in Ids, SendToMember(m)
      PROVE  /\ UNCHANGED <<actor, request, reply>>
             /\ \A q \in Requests : acked[q] \subseteq acked'[q]
  BY <1>3 DEF SendToMember, TypeOK
<1>4. ASSUME (\E m \in Ids : SendToMemberFails(m)) \/ FinishSend \/ FinishSendPanics
      PROVE  /\ actor # "panicked"
             /\ UNCHANGED <<request, acked>>
             /\ \A q \in Requests : reply[q] # "none" => reply'[q] # "none"
  BY <1>4 DEF SendToMemberFails, FinishSend, RegisterWaiter, FinishSendPanics,
              TypeOK
<1>5. ASSUME \/ \E mid \in Mids, id \in Ids : Receive(mid, id)
             \/ \E r \in Requests : TakeSend(r)
      PROVE  /\ actor # "panicked"
             /\ UNCHANGED <<request, reply, acked>>
  BY <1>5 DEF Receive, TakeSend
<1> QED
  BY <1>1, <1>2, <1>3, <1>4, <1>5 DEF Next, ActorStep, TaskStep

(* A step that drops the respond_to of a call is a panic, or registers     *)
(* another call of the same message id that has reached all its members.   *)
LEMMA DropStep ==
    ASSUME IInv, Next, NEW r \in Requests,
           reply[r] # "dropped", reply'[r] = "dropped"
    PROVE  /\ reply[r] = "pending"
           /\ \/ actor' = "panicked"
              \/ \E q \in Requests \ {r} :
                   /\ reply[q] # "none"
                   /\ request[q].message_id = request[r].message_id
                   /\ request[q].members \subseteq acked[q]
<1>1. reply \in [Requests -> Replies]
  BY DEF IInv, TypeOK
<1>2. ASSUME NEW q \in Requests, NEW b \in Broadcast,
             Send(q, b) \/ SendClosed(q, b)
      PROVE  FALSE
  BY <1>1, <1>2 DEF Send, SendClosed
<1>3. ASSUME NEW m \in Ids, SendToMemberFails(m)
      PROVE  FALSE
  BY <1>1, <1>3 DEF SendToMemberFails
<1>4. ASSUME NEW mid \in Mids, NEW id \in Ids, HandleReceivedEcho(mid, id)
      PROVE  FALSE
  BY <1>4 DEF HandleReceivedEcho
<1>5. ASSUME \/ \E mid \in Mids, id \in Ids : Receive(mid, id)
             \/ \E q \in Requests : TakeSend(q)
             \/ \E m \in Ids : SendToMember(m)
      PROVE  FALSE
  BY <1>5 DEF Receive, TakeSend, SendToMember
<1>6. ASSUME FinishSendPanics
      PROVE  actor' = "panicked" /\ reply[r] = "pending"
  BY <1>6 DEF FinishSendPanics
<1>7. ASSUME FinishSend
      PROVE  /\ reply[r] = "pending"
             /\ current \in Requests \ {r}
             /\ reply[current] # "none"
             /\ request[current].message_id = request[r].message_id
             /\ request[current].members \subseteq acked[current]
  <2>1. /\ current \in Requests
        /\ reply[current] = "pending"
        /\ \A mid \in Mids : message_client_txs[mid] # current
        /\ request[current].members \subseteq acked[current]
    BY <1>7 DEF IInv, TypeOK, CurrentInv, FinishSend
  <2>2. request[current].message_id \in Mids
    BY <2>1 DEF IInv, IssuedInv, Broadcast
  <2>3. message_client_txs[request[current].message_id] = r
    BY <1>7 DEF FinishSend, RegisterWaiter
  <2>4. reply[r] = "pending" /\ request[r].message_id = request[current].message_id
    BY <2>2, <2>3 DEF IInv, WaiterInv
  <2> QED
    BY <2>1, <2>2, <2>3, <2>4
<1> QED
  BY <1>2, <1>3, <1>4, <1>5, <1>6, <1>7 DEF Next, ActorStep, TaskStep

(* A call loses its respond_to without an error of its own only to a panic *)
(* of the actor or to a later call of its message id.                      *)
THEOREM DropsExplained == Spec => []DroppedOnlyIfReplaced
<1>1. Init => DroppedOnlyIfReplaced
  BY DEF Init, DroppedOnlyIfReplaced
<1>2. IInv /\ DroppedOnlyIfReplaced /\ [Next]_vars => DroppedOnlyIfReplaced'
  <2> SUFFICES ASSUME IInv, DroppedOnlyIfReplaced, [Next]_vars
               PROVE  DroppedOnlyIfReplaced'
    OBVIOUS
  <2>1. CASE UNCHANGED vars
    BY <2>1 DEF vars, DroppedOnlyIfReplaced
  <2>2. CASE Next
    <3> SUFFICES ASSUME NEW r \in Requests, reply'[r] = "dropped"
                 PROVE  \/ actor' = "panicked"
                        \/ \E q \in Requests \ {r} :
                             /\ reply'[q] # "none"
                             /\ request'[q].message_id = request'[r].message_id
                             /\ request'[q].members \subseteq acked'[q]
      BY DEF DroppedOnlyIfReplaced
    <3>1. \/ actor' = "panicked"
          \/ \E q \in Requests \ {r} :
               /\ reply[q] # "none"
               /\ request[q].message_id = request[r].message_id
               /\ request[q].members \subseteq acked[q]
      BY <2>2, DropStep, CallsPersist DEF DroppedOnlyIfReplaced, IInv
    <3>2. reply[r] # "none"
      BY <2>2, DropStep
    <3> QED
      BY <2>2, <3>1, <3>2, CallsPersist DEF IInv
  <2> QED
    BY <2>1, <2>2
<1> QED
  BY <1>1, <1>2, Invariance, PTL DEF Spec
=============================================================================
