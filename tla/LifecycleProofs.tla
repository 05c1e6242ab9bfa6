-------------------------- MODULE LifecycleProofs --------------------------
(* Theorems about Lifecycle for every set of peers, silent peers, files and*)
(* taken addresses.                                                        *)
EXTENDS Lifecycle, TLAPS

-----------------------------------------------------------------------------
(* The tasks of a connection are spawned together; a member has them, and  *)
(* a task that waits for the echo broadcast actor is there to be answered. *)
TasksSpawned ==
    \A p \in Peers :
        /\ SenderRuns(p) <=> loop[p] # "none"
        /\ p \in members \/ main = At("add_member", p) => SenderRuns(p)
        /\ waiter[p] \in Peers => SenderRuns(waiter[p])
        /\ echo.call.by = p => SenderRuns(p)
        /\ \A i \in 1..Len(calls) : calls[i].by = p => SenderRuns(p)

(* The inductive invariant behind LoopsNeverEnd and NoSpin.                *)
IInv == TypeOK /\ TasksSpawned /\ LoopsNeverEnd

-----------------------------------------------------------------------------
(* Appending to a sequence and taking its head keep its elements' type.    *)
LEMMA AppendType ==
    ASSUME NEW S, NEW s \in Seq(S), NEW x \in S
    PROVE  /\ Append(s, x) \in Seq(S)
           /\ Len(Append(s, x)) = Len(s) + 1
           /\ \A i \in 1..Len(s) + 1 :
                Append(s, x)[i] = IF i <= Len(s) THEN s[i] ELSE x
  OBVIOUS

LEMMA TailType ==
    ASSUME NEW S, NEW s \in Seq(S), s # <<>>
    PROVE  /\ Head(s) \in S
           /\ Head(s) = s[1]
           /\ Tail(s) \in Seq(S)
           /\ Len(s) \in Nat \ {0}
           /\ Len(Tail(s)) = Len(s) - 1
           /\ \A i \in 1..Len(s) - 1 : Tail(s)[i] = s[i + 1]
  OBVIOUS

LEMMA PrefixType ==
    ASSUME NEW S, NEW s \in Seq(S), NEW i \in 0..Len(s)
    PROVE  SubSeq(s, 1, i) \in Seq(S)
  OBVIOUS

(* Changing one value of a function, which may lie outside its domain.     *)
LEMMA UpdateType ==
    ASSUME NEW S, NEW T, NEW f \in [S -> T], NEW x, NEW v \in T
    PROVE  [f EXCEPT ![x] = v] \in [S -> T]
  OBVIOUS

(* The noise state of an end stays one, and its frames are frames.         *)
LEMMA NoiseType ==
    ASSUME NEW s \in NoiseStates
    PROVE  /\ AfterHandshakeMessage(s) \in NoiseStates
           /\ StartTransport(s) \in NoiseStates
           /\ AfterTransportOut(s) \in NoiseStates
           /\ AfterTransportIn(s) \in NoiseStates
           /\ HandshakeFrame(s) \in Frames
           /\ \A m \in Messages : TransportFrame(s, m) \in Frames
  BY DEF NoiseStates, AfterHandshakeMessage, StartTransport, AfterTransportOut,
         AfterTransportIn, HandshakeFrame, TransportFrame, Frames

(* The parts of a message.                                                 *)
LEMMA MessageType ==
    ASSUME NEW m \in Messages
    PROVE  /\ m[2] \in {"helo", "oleh", "package", "membership"}
           /\ m[3] \in Peers
           /\ <<"ack", m[2], m[3]>> \in Messages
  BY DEF Messages

LEMMA SendMessageType ==
    ASSUME NEW what \in {"helo", "oleh", "package", "membership"},
           NEW p \in Peers
    PROVE  <<"send", what, p>> \in Messages
  BY DEF Messages

LEMMA WrittenType ==
    ASSUME NEW p, NEW s \in Seq(Frames), NEW f \in Frames
    PROVE  Written(p, s, f) \in Seq(Frames)
  BY AppendType DEF Written

LEMMA SendReliablyType ==
    ASSUME TypeOK, NEW p, NEW j, p \in Peers => j \in Peers,
           NEW what \in {"helo", "oleh", "package", "membership"},
           SendReliably(p, what, j)
    PROVE  /\ toPeer' \in [Peers -> Seq(Frames)]
           /\ noise' \in [Peers -> NoiseStates]
<1>1. CASE conn[p] # "running" \/ p \notin Peers
  BY <1>1 DEF SendReliably, TypeOK
<1>2. CASE conn[p] = "running" /\ p \in Peers
  <2>1. toPeer[p] \in Seq(Frames) /\ noise[p] \in NoiseStates
    BY <1>2 DEF TypeOK
  <2>2. TransportFrame(noise[p], <<"send", what, j>>) \in Frames
    BY <1>2, <2>1, NoiseType, SendMessageType
  <2>3. Written(p, toPeer[p], TransportFrame(noise[p], <<"send", what, j>>))
          \in Seq(Frames)
    BY <2>1, <2>2, WrittenType
  <2>4. AfterTransportOut(noise[p]) \in NoiseStates
    BY <2>1, NoiseType
  <2>5. toPeer' \in [Peers -> Seq(Frames)]
    BY <1>2, <2>3 DEF SendReliably, TypeOK
  <2>6. noise' \in [Peers -> NoiseStates]
    BY <1>2, <2>4 DEF SendReliably, TypeOK
  <2> QED
    BY <2>5, <2>6
<1> QED
  BY <1>1, <1>2

(* Every step of the main task keeps the type invariant.                   *)
LEMMA MainStepType == TypeOK /\ (MainStep \/ MainTimesOut) => TypeOK'
<1> SUFFICES ASSUME TypeOK, MainStep \/ MainTimesOut PROVE TypeOK'
  OBVIOUS
<1>1. ASSUME Start PROVE TypeOK'
  <2>1. main' \in [pc : PcsOfMain, peer : Peers \cup {NoPeer}]
        /\ main'.pc \in {"accept"} \cup Causes
    BY <1>1 DEF Start, At, AfterStart, PcsOfMain, Causes
  <2> QED
    BY <1>1, <2>1 DEF Start, TypeOK, Joining, Causes, echoVars, loopVars,
                      wireVars, peerVars
<1>2. ASSUME AddMember PROVE TypeOK'
  BY <1>2 DEF AddMember, MapAdd, TypeOK, PcsOfMain, Joining, Causes, echoVars, loopVars,
              wireVars, peerVars
<1>3. ASSUME SendToJoiner PROVE TypeOK'
  <2>1. main.peer \in Peers \/ main.pc = "send_membership"
    BY <1>3 DEF SendToJoiner, TypeOK, Joining
  <2>2. PICK what \in {"helo", "membership"} :
               /\ SendReliably(main.peer, what, main.peer)
               /\ main' = [main EXCEPT !.pc = what]
               /\ main.pc = "send_membership" => what = "membership"
    BY <1>3 DEF SendToJoiner
  <2>3. toPeer' \in [Peers -> Seq(Frames)] /\ noise' \in [Peers -> NoiseStates]
    BY <2>2, SendReliablyType
  <2>4. main' \in [pc : PcsOfMain, peer : Peers \cup {NoPeer}]
        /\ (main'.pc \in Joining => main'.peer \in Peers)
    BY <2>1, <2>2 DEF TypeOK, PcsOfMain, Joining
  <2> QED
    BY <1>3, <2>3, <2>4 DEF SendToJoiner, TypeOK, echoVars, loopVars, peerVars
<1>4. ASSUME BroadcastRoundOne PROVE TypeOK'
  <2>1. main.peer \in Peers
    BY <1>4 DEF BroadcastRoundOne, TypeOK, Joining
  <2>2. Call("main", main.peer, members) \in CallsOfEcho
    BY <2>1 DEF Call, CallsOfEcho, TypeOK
  <2>3. calls' \in Seq(CallsOfEcho)
    <3>1. calls \in Seq(CallsOfEcho)
      BY DEF TypeOK
    <3>2. Append(calls, Call("main", main.peer, members)) \in Seq(CallsOfEcho)
      BY <2>2, <3>1, AppendType
    <3> QED
      BY <1>4, <3>1, <3>2 DEF BroadcastRoundOne
  <2>4. main' \in [pc : PcsOfMain, peer : Peers \cup {NoPeer}]
        /\ main'.peer \in Peers
    BY <1>4, <2>1 DEF BroadcastRoundOne, TypeOK, PcsOfMain
  <2> QED
    BY <1>4, <2>3, <2>4 DEF BroadcastRoundOne, TypeOK, loopVars, wireVars,
                            peerVars
<1>5. ASSUME NEW p \in Peers, Accept(p) PROVE TypeOK'
  <2>1. /\ Written(p, toPeer[p], HandshakeFrame(noise[p])) \in Seq(Frames)
        /\ AfterHandshakeMessage(noise[p]) \in NoiseStates
    BY NoiseType, WrittenType DEF TypeOK
  <2>2. main' \in [pc : PcsOfMain, peer : Peers \cup {NoPeer}]
        /\ main'.peer \in Peers
    BY <1>5 DEF Accept, Die, At, PcsOfMain, Causes
  <2>3. conn' \in [Peers -> {"none", "handshake", "running", "stopped", "panicked"}]
    BY <1>5 DEF Accept, TypeOK
  <2>4. stream' \in [Peers -> {"none", "open", "closed"}]
    BY <1>5 DEF Accept, Die, TypeOK
  <2>5. toPeer' \in [Peers -> Seq(Frames)]
    BY <1>5, <2>1 DEF Accept, TypeOK
  <2>6. noise' \in [Peers -> NoiseStates]
    BY <1>5, <2>1 DEF Accept, TypeOK
  <2> QED
    BY <1>5, <2>2, <2>3, <2>4, <2>5, <2>6 DEF Accept, TypeOK, echoVars,
                                              loopVars, peerVars
<1>6. ASSUME NEW p \in Peers, FinishHandshake(p) PROVE TypeOK'
  <2> DEFINE read == AfterHandshakeMessage(noise[p])
             done == AfterHandshakeMessage(read)
  <2>1. /\ Written(p, toPeer[p], HandshakeFrame(read)) \in Seq(Frames)
        /\ StartTransport(done) \in NoiseStates
    BY NoiseType, WrittenType DEF TypeOK
  <2>2. toNode' \in [Peers -> Seq(Frames)]
    BY <1>6, TailType DEF FinishHandshake, TypeOK
  <2>3. main' \in [pc : PcsOfMain, peer : Peers \cup {NoPeer}]
        /\ main'.peer \in Peers
    BY <1>6 DEF FinishHandshake, Die, At, PcsOfMain, Causes
  <2>4. conn' \in [Peers -> {"none", "handshake", "running", "stopped", "panicked"}]
    BY <1>6 DEF FinishHandshake, TypeOK
  <2>5. loop' \in [Peers -> {"none", "recv", "broadcast", "ended"}]
    BY <1>6 DEF FinishHandshake, TypeOK
  <2>6. stream' \in [Peers -> {"none", "open", "closed"}]
    BY <1>6 DEF FinishHandshake, Die, TypeOK
  <2>7. toPeer' \in [Peers -> Seq(Frames)]
    BY <1>6, <2>1 DEF FinishHandshake, TypeOK
  <2>8. noise' \in [Peers -> NoiseStates]
    BY <1>6, <2>1 DEF FinishHandshake, TypeOK
  <2> QED
    BY <1>6, <2>2, <2>3, <2>4, <2>5, <2>6, <2>7, <2>8
       DEF FinishHandshake, TypeOK, echoVars, peerVars
<1>7. ASSUME NEW p \in Peers, Deserted(p) PROVE TypeOK'
  BY <1>7 DEF Deserted, Die, At, TypeOK, PcsOfMain, Joining, Causes, echoVars, loopVars,
              peerVars
<1>8. ASSUME MainTimesOut PROVE TypeOK'
  BY <1>8 DEF MainTimesOut, AfterSend, At, TypeOK, PcsOfMain, Joining, Causes, echoVars,
              loopVars, wireVars, peerVars
<1>9. ASSUME AcceptFails PROVE TypeOK'
  BY <1>9 DEF AcceptFails, Die, At, TypeOK, PcsOfMain, Joining, Causes, echoVars,
              loopVars, peerVars
<1> QED
  BY <1>1, <1>2, <1>3, <1>4, <1>5, <1>6, <1>7, <1>8, <1>9 DEF MainStep

(* Every step of the echo broadcast actor keeps the type invariant.        *)
LEMMA EchoStepType == TypeOK /\ EchoStep => TypeOK'
<1> SUFFICES ASSUME TypeOK, EchoStep PROVE TypeOK'
  OBVIOUS
<1>1. ASSUME TakeCall PROVE TypeOK'
  <2>1. Head(calls) \in CallsOfEcho /\ calls' \in Seq(CallsOfEcho)
    BY <1>1, TailType DEF TakeCall, TypeOK
  <2>2. /\ echo' \in [pc : {"recv", "sending", "panicked"},
                      call : CallsOfEcho \cup {NoCall},
                      left : SUBSET Peers, to : Peers \cup {NoPeer}]
        /\ echo'.call \in CallsOfEcho
    BY <1>1, <2>1 DEF TakeCall, CallsOfEcho
  <2> QED
    BY <1>1, <2>1, <2>2 DEF TakeCall, TypeOK, loopVars, wireVars, peerVars
<1>2. ASSUME NEW p \in Peers, SendToMember(p) PROVE TypeOK'
  <2>1. echo.call.joiner \in Peers
    BY <1>2 DEF SendToMember, TypeOK, CallsOfEcho
  <2>2. toPeer' \in [Peers -> Seq(Frames)] /\ noise' \in [Peers -> NoiseStates]
    BY <1>2, <2>1, SendReliablyType DEF SendToMember
  <2> QED
    BY <1>2, <2>2 DEF SendToMember, TypeOK, loopVars, peerVars
<1>3. ASSUME FinishSend PROVE TypeOK'
  <2>1. echo.call \in CallsOfEcho
    BY <1>3 DEF FinishSend, TypeOK
  <2>2. PICK S : ReturnErr(S)
    BY <1>3 DEF FinishSend
  <2>3. main' \in [pc : PcsOfMain, peer : Peers \cup {NoPeer}]
    BY <2>2 DEF ReturnErr, TypeOK, PcsOfMain
  <2>4. main'.pc \in Joining => main'.peer \in Peers
    BY <2>2 DEF ReturnErr, TypeOK, Joining
  <2>5. loop' \in [Peers -> {"none", "recv", "broadcast", "ended"}]
    BY <2>2 DEF ReturnErr, TypeOK
  <2>6. waiter' \in [Peers -> Peers \cup {"none", "main"}]
    BY <1>3, <2>1 DEF FinishSend, TypeOK, CallsOfEcho
  <2>7. reliable_senders' \in [Peers -> SUBSET Peers]
    BY <1>3, <2>1 DEF FinishSend, TypeOK, CallsOfEcho
  <2>8. calls' \in Seq(CallsOfEcho)
    <3>1. calls \in Seq(CallsOfEcho) /\ <<>> \in Seq(CallsOfEcho)
      BY DEF TypeOK
    <3>2. calls' = calls \/ calls' = <<>>
      BY <1>3 DEF FinishSend
    <3> QED
      BY <3>1, <3>2
  <2>9. /\ echo' \in [pc : {"recv", "sending", "panicked"},
                      call : CallsOfEcho \cup {NoCall},
                      left : SUBSET Peers, to : Peers \cup {NoPeer}]
        /\ echo'.pc # "sending"
    BY <1>3 DEF FinishSend, EchoIdle
  <2> QED
    BY <1>3, <2>3, <2>4, <2>5, <2>6, <2>7, <2>8, <2>9
       DEF FinishSend, TypeOK, wireVars, peerVars
<1> QED
  BY <1>1, <1>2, <1>3 DEF EchoStep

(* Every step of a connection and of its event loop keeps the type         *)
(* invariant.                                                              *)
LEMMA ConnStepType ==
    ASSUME TypeOK, NEW p \in Peers, ConnStep(p) \/ EventLoop(p)
    PROVE  TypeOK'
<1>1. ASSUME ConnReads(p) PROVE TypeOK'
  <2> DEFINE f == Head(toNode[p])
             ack == TransportFrame(noise[p], <<"ack", f.body[2], f.body[3]>>)
  <2>1. /\ f \in Frames
        /\ Tail(toNode[p]) \in Seq(Frames)
        /\ noise[p] \in NoiseStates
        /\ toPeer[p] \in Seq(Frames)
        /\ inbox[p] \in Seq(Messages)
    BY <1>1, TailType DEF ConnReads, TypeOK
  <2>2. toNode' \in [Peers -> Seq(Frames)]
    BY <1>1, <2>1 DEF ConnReads, TypeOK
  <2>3. CASE ~CanReadTransport(noise[p], f)
    <3>1. conn' = [conn EXCEPT ![p] = "panicked"]
      BY <1>1, <2>3 DEF ConnReads
    <3>2. conn' \in [Peers -> {"none", "handshake", "running", "stopped", "panicked"}]
      BY <3>1 DEF TypeOK
    <3> QED
      BY <1>1, <2>2, <2>3, <3>2 DEF ConnReads, TypeOK, peerVars
  <2>4. CASE CanReadTransport(noise[p], f)
    <3> HIDE DEF f, ack
    <3>1. f.body \in Messages
      BY <2>1, <2>4 DEF CanReadTransport, Frames
    <3>2. ack \in Frames
      BY <2>1, <3>1, NoiseType, MessageType DEF ack
    <3>3. /\ AfterTransportOut(AfterTransportIn(noise[p])) \in NoiseStates
          /\ AfterTransportIn(noise[p]) \in NoiseStates
      BY <2>1, NoiseType
    <3>4. Written(p, toPeer[p], ack) \in Seq(Frames)
      BY <2>1, <3>2, WrittenType
    <3>5. Append(inbox[p], f.body) \in Seq(Messages)
      BY <2>1, <3>1, AppendType
    <3>6. /\ WakeMain(p, f.body)
          /\ WakeEcho(p, f.body)
          /\ conn' = conn
          /\ \/ toPeer' = [toPeer EXCEPT ![p] = Written(p, @, ack)]
             \/ toPeer' = toPeer
          /\ \/ inbox' = [inbox EXCEPT ![p] = Append(@, f.body)]
             \/ inbox' = inbox
          /\ \/ noise' = [noise EXCEPT ![p] = AfterTransportIn(@)]
             \/ noise' = [noise EXCEPT ![p] =
                             AfterTransportOut(AfterTransportIn(@))]
      BY <1>1, <2>4 DEF ConnReads, f, ack
    <3>7. noise' \in [Peers -> NoiseStates]
      BY <3>3, <3>6 DEF TypeOK
    <3>8. toPeer' \in [Peers -> Seq(Frames)]
      BY <3>4, <3>6 DEF TypeOK
    <3>9. inbox' \in [Peers -> Seq(Messages)]
      BY <3>5, <3>6 DEF TypeOK
    <3>10. main' \in [pc : PcsOfMain, peer : Peers \cup {NoPeer}]
           /\ (main'.pc \in Joining => main'.peer \in Peers)
      BY <3>6 DEF WakeMain, AfterSend, At, TypeOK, PcsOfMain, Joining
    <3>11. /\ echo' \in [pc : {"recv", "sending", "panicked"},
                          call : CallsOfEcho \cup {NoCall},
                          left : SUBSET Peers, to : Peers \cup {NoPeer}]
           /\ echo'.pc = "sending" => echo'.call \in CallsOfEcho
      BY <3>6 DEF WakeEcho, TypeOK
    <3> QED
      BY <1>1, <2>2, <3>6, <3>7, <3>8, <3>9, <3>10, <3>11
         DEF ConnReads, TypeOK, peerVars
  <2> QED
    BY <2>3, <2>4
<1>2. ASSUME ConnStops(p) PROVE TypeOK'
  BY <1>2 DEF ConnStops, TypeOK, echoVars, loopVars, wireVars, peerVars
<1>3. ASSUME EventLoop(p) PROVE TypeOK'
  <2>1. loop' \in [Peers -> {"none", "recv", "broadcast", "ended"}]
    <3>1. \/ loop' = loop
          \/ loop' = [loop EXCEPT ![p] = "broadcast"]
          \/ loop' = [loop EXCEPT ![p] = "ended"]
      BY <1>3 DEF EventLoop
    <3> QED
      BY <3>1 DEF TypeOK
  <2>2. members' \in SUBSET Peers
    BY <1>3 DEF EventLoop, MapRemove, TypeOK
  <2>3. inbox' \in [Peers -> Seq(Messages)]
    <3>1. inbox[p] # <<>> => Tail(inbox[p]) \in Seq(Messages)
      BY TailType DEF TypeOK
    <3> QED
      BY <1>3, <3>1 DEF EventLoop, TypeOK
  <2>4. calls' \in Seq(CallsOfEcho)
    <3> DEFINE call == Call(p, Head(inbox[p])[3], members)
    <3>1. calls' = calls \/ (inbox[p] # <<>> /\ calls' = Append(calls, call))
      BY <1>3 DEF EventLoop
    <3>2. ASSUME inbox[p] # <<>> PROVE call \in CallsOfEcho
      <4>1. Head(inbox[p]) \in Messages
        BY <3>2, TailType DEF TypeOK
      <4>2. Head(inbox[p])[3] \in Peers
        BY <4>1, MessageType
      <4> QED
        BY <4>2 DEF Call, CallsOfEcho, TypeOK
    <3>3. calls \in Seq(CallsOfEcho)
      BY DEF TypeOK
    <3> QED
      BY <3>1, <3>2, <3>3, AppendType
  <2> QED
    BY <1>3, <2>1, <2>2, <2>3, <2>4 DEF EventLoop, TypeOK, wireVars, peerVars
<1> QED
  BY <1>1, <1>2, <1>3 DEF ConnStep

(* Every step of a peer, and a break of its stream, keeps the type         *)
(* invariant.                                                              *)
LEMMA PeerStepType ==
    ASSUME TypeOK, NEW p \in Peers,
           PeerStep(p) \/ PeerConnects(p) \/ Break(p)
    PROVE  TypeOK'
<1> DEFINE Records == [pc : {"off", "m1", "m3", "up", "deserted", "panicked"},
                       added : BOOLEAN, mute : BOOLEAN,
                       loop : {"recv", "broadcast"}, inbox : Seq(Messages)]
<1>0. /\ peer \in [Peers -> Records]
      /\ peer[p] \in Records
      /\ peerNoise \in [Peers -> NoiseStates]
      /\ peerNoise[p] \in NoiseStates
      /\ toPeer \in [Peers -> Seq(Frames)]
      /\ toPeer[p] \in Seq(Frames)
      /\ toNode \in [Peers -> Seq(Frames)]
      /\ toNode[p] \in Seq(Frames)
  BY DEF TypeOK
<1>a. toPeer[p] # <<>> => /\ Head(toPeer[p]) \in Frames
                          /\ Tail(toPeer[p]) \in Seq(Frames)
  BY <1>0, TailType
<1>b. ASSUME NEW pc \in {"m1", "m3", "up", "deserted", "panicked"},
             peer' = [peer EXCEPT ![p].pc = pc]
      PROVE  peer' \in [Peers -> Records]
  BY <1>0, <1>b
<1>1. ASSUME PeerConnects(p) PROVE TypeOK'
  <2>1. peer' \in [Peers -> Records]
    BY <1>1, <1>b DEF PeerConnects
  <2>2. stream' \in [Peers -> {"none", "open", "closed"}]
    BY <1>1 DEF PeerConnects, TypeOK
  <2> QED
    BY <1>1, <2>1, <2>2 DEF PeerConnects, TypeOK, echoVars, loopVars
<1>2. ASSUME PeerReadsFirst(p) PROVE TypeOK'
  <2> DEFINE read == AfterHandshakeMessage(peerNoise[p])
  <2>1. /\ AfterHandshakeMessage(read) \in NoiseStates
        /\ Written(p, toNode[p], HandshakeFrame(read)) \in Seq(Frames)
    BY <1>0, NoiseType, WrittenType
  <2>2. /\ toPeer' = [toPeer EXCEPT ![p] = Tail(@)]
        /\ \/ peer' = [peer EXCEPT ![p].pc = "m3"]
           \/ peer' = [peer EXCEPT ![p].pc = "panicked"]
        /\ \/ peerNoise' = [peerNoise EXCEPT ![p] = AfterHandshakeMessage(read)]
           \/ peerNoise' = peerNoise
        /\ \/ toNode' = [toNode EXCEPT ![p] = Written(p, @, HandshakeFrame(read))]
           \/ toNode' = toNode
        /\ stream' = stream \/ stream' = [stream EXCEPT ![p] = "closed"]
        /\ toPeer[p] # <<>>
    BY <1>2 DEF PeerReadsFirst, PeerDies
  <2> HIDE DEF read
  <2>3. toPeer' \in [Peers -> Seq(Frames)]
    BY <1>0, <1>a, <2>2, UpdateType
  <2>4. peer' \in [Peers -> Records]
    BY <1>b, <2>2
  <2>5. peerNoise' \in [Peers -> NoiseStates]
    BY <1>0, <2>1, <2>2, UpdateType
  <2>6. toNode' \in [Peers -> Seq(Frames)]
    BY <1>0, <2>1, <2>2, UpdateType
  <2>7. stream' \in [Peers -> {"none", "open", "closed"}]
    BY <2>2 DEF TypeOK
  <2> QED
    BY <1>2, <2>3, <2>4, <2>5, <2>6, <2>7
       DEF PeerReadsFirst, TypeOK, echoVars, loopVars
<1>3. ASSUME PeerReadsThird(p) PROVE TypeOK'
  <2> DEFINE read == AfterHandshakeMessage(peerNoise[p])
  <2>1. StartTransport(read) \in NoiseStates
    BY <1>0, NoiseType
  <2>2. /\ toPeer' = [toPeer EXCEPT ![p] = Tail(@)]
        /\ \/ peer' = [peer EXCEPT ![p].pc = "up"]
           \/ peer' = [peer EXCEPT ![p].pc = "panicked"]
        /\ \/ peerNoise' = [peerNoise EXCEPT ![p] = StartTransport(read)]
           \/ peerNoise' = peerNoise
        /\ stream' = stream \/ stream' = [stream EXCEPT ![p] = "closed"]
        /\ toPeer[p] # <<>>
    BY <1>3 DEF PeerReadsThird, PeerDies, Unread
  <2> HIDE DEF read
  <2>3. toPeer' \in [Peers -> Seq(Frames)]
    BY <1>0, <1>a, <2>2, UpdateType
  <2>4. peer' \in [Peers -> Records]
    BY <1>b, <2>2
  <2>5. peerNoise' \in [Peers -> NoiseStates]
    BY <1>0, <2>1, <2>2, UpdateType
  <2>6. stream' \in [Peers -> {"none", "open", "closed"}]
    BY <2>2 DEF TypeOK
  <2> QED
    BY <1>3, <2>3, <2>4, <2>5, <2>6
       DEF PeerReadsThird, TypeOK, echoVars, loopVars
<1>4. ASSUME PeerDeserted(p) PROVE TypeOK'
  <2>1. peer' \in [Peers -> Records]
    BY <1>4, <1>b DEF PeerDeserted, PeerDies
  <2>2. stream' \in [Peers -> {"none", "open", "closed"}]
    BY <1>4 DEF PeerDeserted, PeerDies, TypeOK
  <2> QED
    BY <1>4, <2>1, <2>2 DEF PeerDeserted, TypeOK, echoVars, loopVars
<1>5. ASSUME PeerAddsSeed(p) PROVE TypeOK'
  <2>1. peer' \in [Peers -> Records]
    BY <1>5, <1>0 DEF PeerAddsSeed
  <2> QED
    BY <1>5, <2>1 DEF PeerAddsSeed, TypeOK, echoVars, loopVars, wireVars
<1>6. ASSUME PeerReads(p) PROVE TypeOK'
  <2> DEFINE f == Head(toPeer[p])
             ack == TransportFrame(peerNoise[p], <<"ack", f.body[2], f.body[3]>>)
  <2>1. /\ toPeer' = [toPeer EXCEPT ![p] = Tail(@)]
        /\ toPeer[p] # <<>>
    BY <1>6 DEF PeerReads
  <2>2. toPeer' \in [Peers -> Seq(Frames)]
    BY <1>0, <1>a, <2>1, UpdateType
  <2>3. CASE ~CanReadTransport(peerNoise[p], f)
    <3>1. /\ peer' = [peer EXCEPT ![p].pc = "panicked"]
          /\ UNCHANGED <<peerNoise, toNode>>
      BY <1>6, <2>3 DEF PeerReads
    <3>2. peer' \in [Peers -> Records]
      BY <1>b, <3>1
    <3> QED
      BY <1>6, <2>2, <3>1, <3>2 DEF PeerReads, TypeOK, echoVars, loopVars
  <2>4. CASE CanReadTransport(peerNoise[p], f)
    <3>1. /\ \/ peerNoise' = [peerNoise EXCEPT ![p] = AfterTransportIn(@)]
             \/ peerNoise' = [peerNoise EXCEPT ![p] =
                                 AfterTransportOut(AfterTransportIn(@))]
          /\ \/ toNode' = [toNode EXCEPT ![p] = Written(p, @, ack)]
             \/ toNode' = toNode
          /\ \/ peer' = peer
             \/ peer' = [peer EXCEPT ![p].inbox = Append(@, f.body)]
      BY <1>6, <2>4 DEF PeerReads
    <3> HIDE DEF ack
    <3>2. f.body \in Messages
      BY <1>a, <2>1, <2>4 DEF CanReadTransport, Frames
    <3>3. ack \in Frames
      BY <1>0, <3>2, NoiseType, MessageType DEF ack
    <3> HIDE DEF f
    <3>4. /\ AfterTransportOut(AfterTransportIn(peerNoise[p])) \in NoiseStates
          /\ AfterTransportIn(peerNoise[p]) \in NoiseStates
      BY <1>0, NoiseType
    <3>5. Written(p, toNode[p], ack) \in Seq(Frames)
      BY <1>0, <3>3, WrittenType
    <3>6. Append(peer[p].inbox, f.body) \in Seq(Messages)
      BY <1>0, <3>2, AppendType
    <3>7. peerNoise' \in [Peers -> NoiseStates]
      BY <1>0, <3>1, <3>4, UpdateType
    <3>8. toNode' \in [Peers -> Seq(Frames)]
      BY <1>0, <3>1, <3>5, UpdateType
    <3>9. peer' \in [Peers -> Records]
      <4>1. [peer[p] EXCEPT !.inbox = Append(peer[p].inbox, f.body)] \in Records
        BY <1>0, <3>6
      <4>2. \/ peer' = peer
            \/ peer' = [peer EXCEPT ![p] =
                          [peer[p] EXCEPT !.inbox = Append(peer[p].inbox, f.body)]]
        BY <3>1
      <4> QED
        BY <1>0, <4>1, <4>2
    <3> QED
      BY <1>6, <2>2, <3>7, <3>8, <3>9 DEF PeerReads, TypeOK, echoVars, loopVars
  <2> QED
    BY <2>3, <2>4
<1>7. ASSUME PeerTakes(p) PROVE TypeOK'
  <2> DEFINE body == Head(peer[p].inbox)
             next == [peer[p] EXCEPT !.inbox = Tail(@)]
  <2>1. body \in Messages /\ Tail(peer[p].inbox) \in Seq(Messages)
    BY <1>0, <1>7, TailType DEF PeerTakes
  <2>2. /\ next \in Records
        /\ [next EXCEPT !.loop = "broadcast", !.inbox = <<>>] \in Records
        /\ [next EXCEPT !.mute = TRUE] \in Records
    <3>1. next \in Records
      BY <1>0, <2>1
    <3> HIDE DEF next
    <3>2. <<>> \in Seq(Messages)
      OBVIOUS
    <3>3. [next EXCEPT !.loop = "broadcast", !.inbox = <<>>] \in Records
      BY <3>1, <3>2
    <3>4. [next EXCEPT !.mute = TRUE] \in Records
      BY <3>1
    <3> QED
      BY <3>1, <3>3, <3>4
  <2>3. body[3] \in Peers
    BY <2>1, MessageType
  <2>4. \/ PeerAnswers(p, "oleh", p, next)
        \/ PeerAnswers(p, "package", body[3],
                       [next EXCEPT !.loop = "broadcast", !.inbox = <<>>])
        \/ /\ peer' = [peer EXCEPT ![p] = [next EXCEPT !.mute = TRUE]]
           /\ UNCHANGED <<toNode, peerNoise>>
        \/ /\ peer' = [peer EXCEPT ![p] = next]
           /\ UNCHANGED <<toNode, peerNoise>>
    BY <1>7 DEF PeerTakes
  <2> HIDE DEF body, next
  <2>5. ASSUME NEW what \in {"oleh", "package"}, NEW j \in Peers,
               NEW n \in Records, PeerAnswers(p, what, j, n)
        PROVE  /\ peer' \in [Peers -> Records]
               /\ toNode' \in [Peers -> Seq(Frames)]
               /\ peerNoise' \in [Peers -> NoiseStates]
    <3>1. TransportFrame(peerNoise[p], <<"send", what, j>>) \in Frames
      BY <1>0, NoiseType, SendMessageType
    <3>2. Written(p, toNode[p], TransportFrame(peerNoise[p], <<"send", what, j>>))
            \in Seq(Frames)
      BY <1>0, <3>1, WrittenType
    <3>3. AfterTransportOut(peerNoise[p]) \in NoiseStates
      BY <1>0, NoiseType
    <3>4. peer' \in [Peers -> Records]
      BY <1>0, <2>5 DEF PeerAnswers
    <3>5. toNode' \in [Peers -> Seq(Frames)]
      BY <1>0, <2>5, <3>2, UpdateType DEF PeerAnswers
    <3>6. peerNoise' \in [Peers -> NoiseStates]
      BY <1>0, <2>5, <3>3, UpdateType DEF PeerAnswers
    <3> QED
      BY <3>4, <3>5, <3>6
  <2>6. ASSUME NEW n \in Records, peer' = [peer EXCEPT ![p] = n],
               UNCHANGED <<toNode, peerNoise>>
        PROVE  /\ peer' \in [Peers -> Records]
               /\ toNode' \in [Peers -> Seq(Frames)]
               /\ peerNoise' \in [Peers -> NoiseStates]
    BY <1>0, <2>6
  <2>7. /\ peer' \in [Peers -> Records]
        /\ toNode' \in [Peers -> Seq(Frames)]
        /\ peerNoise' \in [Peers -> NoiseStates]
    BY <2>2, <2>3, <2>4, <2>5, <2>6
  <2> QED
    BY <1>7, <2>7 DEF PeerTakes, TypeOK, echoVars, loopVars
<1>8. ASSUME Break(p) PROVE TypeOK'
  <2>1. PICK i \in 0..Len(toPeer[p]), j \in 0..Len(toNode[p]) :
          /\ toPeer' = [toPeer EXCEPT ![p] = SubSeq(@, 1, i)]
          /\ toNode' = [toNode EXCEPT ![p] = SubSeq(@, 1, j)]
    BY <1>8 DEF Break
  <2>2. /\ SubSeq(toPeer[p], 1, i) \in Seq(Frames)
        /\ SubSeq(toNode[p], 1, j) \in Seq(Frames)
    BY <1>0, <2>1, PrefixType
  <2>3. toPeer' \in [Peers -> Seq(Frames)]
    BY <1>0, <2>1, <2>2, UpdateType
  <2>4. toNode' \in [Peers -> Seq(Frames)]
    BY <1>0, <2>1, <2>2, UpdateType
  <2>5. stream' \in [Peers -> {"none", "open", "closed"}]
    BY <1>8 DEF Break, TypeOK
  <2> QED
    BY <1>8, <2>3, <2>4, <2>5 DEF Break, TypeOK, echoVars, loopVars, peerVars
<1> QED
  BY <1>1, <1>2, <1>3, <1>4, <1>5, <1>6, <1>7, <1>8 DEF PeerStep

(* The type invariant is preserved by every step.                          *)
LEMMA TypeStep == TypeOK /\ [Next]_vars => TypeOK'
<1>1. ASSUME TypeOK, UNCHANGED vars PROVE TypeOK'
  BY <1>1 DEF TypeOK, vars
<1> QED
  BY <1>1, MainStepType, EchoStepType, ConnStepType, PeerStepType DEF Next

LEMMA TypeInit == Init => TypeOK
<1> SUFFICES ASSUME Init PROVE TypeOK
  OBVIOUS
<1>1. \A b \in BOOLEAN : NewNoise(b) \in NoiseStates
  BY DEF NewNoise, NoiseStates
<1>2. noise \in [Peers -> NoiseStates] /\ peerNoise \in [Peers -> NoiseStates]
  BY <1>1 DEF Init
<1>3. main \in [pc : PcsOfMain, peer : Peers \cup {NoPeer}]
      /\ main.pc \notin Joining
  BY DEF Init, At, PcsOfMain, Joining
<1>4. echo \in [pc : {"recv", "sending", "panicked"},
                call : CallsOfEcho \cup {NoCall},
                left : SUBSET Peers, to : Peers \cup {NoPeer}]
      /\ echo.pc # "sending"
  BY DEF Init, EchoIdle
<1>5. <<>> \in Seq(Messages) /\ <<>> \in Seq(Frames) /\ <<>> \in Seq(CallsOfEcho)
  OBVIOUS
<1>6. NewPeer \in [pc : {"off", "m1", "m3", "up", "deserted", "panicked"},
                   added : BOOLEAN, mute : BOOLEAN,
                   loop : {"recv", "broadcast"}, inbox : Seq(Messages)]
  BY <1>5 DEF NewPeer
<1> QED
  BY <1>2, <1>3, <1>4, <1>5, <1>6 DEF Init, TypeOK

(* Type correctness of the node and its peers.                             *)
THEOREM TypeCorrect == Spec => []TypeOK
  BY TypeInit, TypeStep, PTL DEF Spec

-----------------------------------------------------------------------------
(* The tasks of a connection, once spawned, stay.                          *)
LEMMA SenderStays ==
    ASSUME TypeOK, [Next]_vars, NEW p \in Peers, SenderRuns(p)
    PROVE  SenderRuns(p)'
<1>1. conn \in [Peers -> {"none", "handshake", "running", "stopped", "panicked"}]
  BY DEF TypeOK
<1>2. CASE UNCHANGED conn
  BY <1>2 DEF SenderRuns
<1>3. CASE \E q \in Peers : Accept(q)
  BY <1>1, <1>3 DEF Accept, Queued, SenderRuns
<1>4. CASE \E q \in Peers : FinishHandshake(q)
  BY <1>1, <1>4 DEF FinishHandshake, SenderRuns
<1>5. CASE \E q \in Peers : ConnReads(q)
  <2>1. PICK q \in Peers : ConnReads(q)
    BY <1>5
  <2>2. conn' = conn \/ conn' = [conn EXCEPT ![q] = "panicked"]
    BY <2>1 DEF ConnReads
  <2> QED
    BY <1>1, <2>2 DEF SenderRuns
<1>6. CASE \E q \in Peers : ConnStops(q)
  BY <1>1, <1>6 DEF ConnStops, SenderRuns
<1>7. \/ UNCHANGED conn
      \/ \E q \in Peers : \/ Accept(q) \/ FinishHandshake(q)
                          \/ ConnReads(q) \/ ConnStops(q)
  <2>1. UNCHANGED vars => UNCHANGED conn
    BY DEF vars
  <2>2. (\/ Start \/ AcceptFails \/ AddMember \/ SendToJoiner
         \/ BroadcastRoundOne \/ MainTimesOut)
          => UNCHANGED conn
    BY DEF Start, AcceptFails, AddMember, SendToJoiner, BroadcastRoundOne,
           MainTimesOut
  <2>3. \A q \in Peers : Deserted(q) \/ SendToMember(q) \/ EventLoop(q)
                            => UNCHANGED conn
    BY DEF Deserted, SendToMember, EventLoop
  <2>4. TakeCall \/ FinishSend => UNCHANGED conn
    BY DEF TakeCall, FinishSend
  <2>5. \A q \in Peers : PeerStep(q) => UNCHANGED conn
    BY DEF PeerStep, PeerReadsFirst, PeerReadsThird, PeerDeserted, PeerAddsSeed,
           PeerReads, PeerTakes
  <2>6. \A q \in Peers : PeerConnects(q) \/ Break(q) => UNCHANGED conn
    BY DEF PeerConnects, Break
  <2> QED
    BY <2>1, <2>2, <2>3, <2>4, <2>5, <2>6 DEF Next, MainStep, EchoStep, ConnStep
<1> QED
  BY <1>2, <1>3, <1>4, <1>5, <1>6, <1>7

(* A step that spawns no task, moves no loop, adds no member and moves no  *)
(* call keeps the invariant.                                               *)
LEMMA SpawnedKept ==
    ASSUME IInv, [Next]_vars,
           UNCHANGED <<loop, members, waiter, calls, echo.call>>,
           \A p \in Peers : SenderRuns(p)' => SenderRuns(p),
           \A p \in Peers : main' = At("add_member", p) => main = main'
    PROVE  TasksSpawned' /\ LoopsNeverEnd'
<1>1. \A p \in Peers : SenderRuns(p)' <=> SenderRuns(p)
  BY SenderStays DEF IInv
<1> QED
  BY <1>1 DEF IInv, TasksSpawned, LoopsNeverEnd

LEMMA SpawnedStep ==
    ASSUME IInv, [Next]_vars
    PROVE  TasksSpawned' /\ LoopsNeverEnd'
<1> USE PeersAssumption
<1>a. \A p \in Peers : SenderRuns(p) => SenderRuns(p)'
  BY SenderStays DEF IInv
<1>b. /\ conn \in [Peers -> {"none", "handshake", "running", "stopped", "panicked"}]
      /\ loop \in [Peers -> {"none", "recv", "broadcast", "ended"}]
      /\ waiter \in [Peers -> Peers \cup {"none", "main"}]
      /\ calls \in Seq(CallsOfEcho)
      /\ main \in [pc : PcsOfMain, peer : Peers \cup {NoPeer}]
  BY DEF IInv, TypeOK
<1>1. ASSUME UNCHANGED vars PROVE TasksSpawned' /\ LoopsNeverEnd'
  BY <1>1, SpawnedKept DEF vars, SenderRuns
<1>2. ASSUME Start \/ SendToJoiner \/ MainTimesOut
      PROVE  TasksSpawned' /\ LoopsNeverEnd'
  <2>1. /\ UNCHANGED <<loop, members, waiter, calls, echo.call, conn>>
        /\ \A p \in Peers : main' # At("add_member", p)
    BY <1>2 DEF Start, SendToJoiner, MainTimesOut, At, AfterStart, AfterSend,
                echoVars, loopVars
  <2> QED
    BY <2>1, SpawnedKept DEF SenderRuns
<1>3. ASSUME AddMember PROVE TasksSpawned' /\ LoopsNeverEnd'
  <2>1. /\ UNCHANGED <<loop, waiter, calls, echo, conn>>
        /\ members' = members \cup {main.peer}
        /\ main = At("add_member", main.peer)
        /\ \A p \in Peers : main' # At("add_member", p)
    BY <1>3, <1>b DEF AddMember, MapAdd, At, echoVars, loopVars
  <2>2. \A p \in Peers : SenderRuns(p)' <=> SenderRuns(p)
    BY <2>1 DEF SenderRuns
  <2> QED
    BY <2>1, <2>2 DEF IInv, TasksSpawned, LoopsNeverEnd
<1>4. ASSUME BroadcastRoundOne PROVE TasksSpawned' /\ LoopsNeverEnd'
  <2>1. /\ UNCHANGED <<loop, waiter, members, echo, conn>>
        /\ \A p \in Peers : main' # At("add_member", p)
        /\ calls' = calls \/ calls' = Append(calls, Call("main", main.peer, members))
    BY <1>4, <1>b DEF BroadcastRoundOne, At, loopVars
  <2>2. Call("main", main.peer, members).by = "main"
        /\ Call("main", main.peer, members) \in CallsOfEcho
    BY <1>4 DEF BroadcastRoundOne, IInv, TypeOK, Joining, Call, CallsOfEcho
  <2>3. \A p \in Peers : SenderRuns(p)' <=> SenderRuns(p)
    BY <2>1 DEF SenderRuns
  <2>4. \A p \in Peers, i \in 1..Len(calls') : calls'[i].by = p => SenderRuns(p)'
    BY <1>b, <2>1, <2>2, <2>3, AppendType DEF IInv, TasksSpawned
  <2> QED
    BY <2>1, <2>3, <2>4 DEF IInv, TasksSpawned, LoopsNeverEnd
<1>5. ASSUME NEW q \in Peers, Accept(q) PROVE TasksSpawned' /\ LoopsNeverEnd'
  <2>1. /\ UNCHANGED <<loop, members, waiter, calls, echo.call>>
        /\ \A p \in Peers : main' # At("add_member", p)
    BY <1>5 DEF Accept, At, Die, echoVars, loopVars
  <2>2. conn' = conn \/ conn' = [conn EXCEPT ![q] = "handshake"]
    BY <1>5 DEF Accept
  <2> QED
    BY <1>b, <2>1, <2>2, SpawnedKept DEF SenderRuns
<1>6. ASSUME NEW q \in Peers, FinishHandshake(q)
      PROVE  TasksSpawned' /\ LoopsNeverEnd'
  <2>1. /\ UNCHANGED <<members, waiter, calls, echo>>
        /\ \/ /\ UNCHANGED <<conn, loop>>
              /\ \A p \in Peers : main' # At("add_member", p)
           \/ /\ conn' = [conn EXCEPT ![q] = "running"]
              /\ loop' = [loop EXCEPT ![q] = "recv"]
              /\ main' = At("add_member", q)
    BY <1>6 DEF FinishHandshake, Die, At, echoVars
  <2>2. CASE conn' = conn /\ loop' = loop
                /\ \A p \in Peers : main' # At("add_member", p)
    BY <2>1, <2>2, SpawnedKept DEF SenderRuns
  <2>3. CASE /\ conn' = [conn EXCEPT ![q] = "running"]
             /\ loop' = [loop EXCEPT ![q] = "recv"]
             /\ main' = At("add_member", q)
    <3>1. /\ SenderRuns(q)' /\ loop'[q] = "recv"
          /\ \A p \in Peers \ {q} : (SenderRuns(p)' <=> SenderRuns(p)) /\ loop'[p] = loop[p]
      BY <1>b, <2>3 DEF SenderRuns
    <3>2. \A p \in Peers : main' = At("add_member", p) => p = q
      BY <2>3 DEF At
    <3>3. \A p \in Peers : (SenderRuns(p)' <=> loop'[p] # "none") /\ loop'[p] # "ended"
      BY <3>1 DEF IInv, TasksSpawned, LoopsNeverEnd
    <3> QED
      BY <1>a, <2>1, <3>1, <3>2, <3>3 DEF IInv, TasksSpawned, LoopsNeverEnd
  <2> QED
    BY <2>1, <2>2, <2>3
<1>7. ASSUME NEW q \in Peers, Deserted(q) PROVE TasksSpawned' /\ LoopsNeverEnd'
  <2>1. /\ UNCHANGED <<loop, members, waiter, calls, echo.call, conn>>
        /\ \A p \in Peers : main' # At("add_member", p)
    BY <1>7 DEF Deserted, Die, At, echoVars, loopVars
  <2> QED
    BY <2>1, SpawnedKept DEF SenderRuns
<1>8. ASSUME TakeCall PROVE TasksSpawned' /\ LoopsNeverEnd'
  <2>1. /\ UNCHANGED <<loop, members, waiter, main, conn>>
        /\ calls # <<>>
        /\ calls' = Tail(calls)
        /\ echo'.call = Head(calls)
    BY <1>8 DEF TakeCall, loopVars
  <2>2. \A p \in Peers : SenderRuns(p)' <=> SenderRuns(p)
    BY <2>1 DEF SenderRuns
  <2>3. \A p \in Peers : echo'.call.by = p => SenderRuns(p)'
    BY <1>b, <2>1, <2>2, TailType DEF IInv, TasksSpawned
  <2>4. \A p \in Peers, i \in 1..Len(calls') : calls'[i].by = p => SenderRuns(p)'
    <3>1. \A i \in 1..Len(calls') : i + 1 \in 1..Len(calls) /\ calls'[i] = calls[i + 1]
      BY <1>b, <2>1, TailType
    <3> QED
      BY <2>2, <3>1 DEF IInv, TasksSpawned
  <2> QED
    BY <2>1, <2>2, <2>3, <2>4 DEF IInv, TasksSpawned, LoopsNeverEnd
<1>9. ASSUME NEW q \in Peers, SendToMember(q) PROVE TasksSpawned' /\ LoopsNeverEnd'
  <2>1. UNCHANGED <<loop, members, waiter, calls, echo.call, conn, main>>
    BY <1>9 DEF SendToMember, loopVars, IInv, TypeOK
  <2> QED
    BY <2>1, SpawnedKept DEF SenderRuns
<1>10. ASSUME FinishSend PROVE TasksSpawned' /\ LoopsNeverEnd'
  <2>1. /\ UNCHANGED <<members, conn>>
        /\ echo'.call.by = "none"
    BY <1>10 DEF FinishSend, EchoIdle, NoCall, Call
  <2>2. /\ echo.call \in CallsOfEcho
        /\ echo.call.joiner \in Peers
    BY <1>10 DEF FinishSend, IInv, TypeOK, CallsOfEcho
  <2>3. \A p \in Peers : SenderRuns(p)' <=> SenderRuns(p)
    BY <2>1 DEF SenderRuns
  <2>4. PICK S : /\ ReturnErr(S)
                 /\ \A p \in Peers : p \in S => SenderRuns(p)
    <3>1. CASE HasEchos(echo.call)
      <4>1. ReturnErr({waiter[echo.call.joiner]})
        BY <1>10, <3>1 DEF FinishSend
      <4> QED
        BY <2>2, <4>1 DEF IInv, TasksSpawned
    <3>2. CASE ~HasEchos(echo.call)
      <4> DEFINE S == {echo.call.by} \cup {waiter[p] : p \in Peers}
                        \cup {calls[i].by : i \in DOMAIN calls}
      <4>1. ReturnErr(S)
        BY <1>10, <3>2 DEF FinishSend
      <4>2. DOMAIN calls = 1..Len(calls)
        BY <1>b
      <4>3. \A p \in Peers : p \in S => SenderRuns(p)
        BY <4>2 DEF IInv, TasksSpawned
      <4> QED
        BY <4>1, <4>3
    <3> QED
      BY <3>1, <3>2
  <2>5. \A p \in Peers : (SenderRuns(p) <=> loop'[p] # "none") /\ loop'[p] # "ended"
    BY <2>4 DEF ReturnErr, IInv, TasksSpawned, LoopsNeverEnd
  <2>6. \A p \in Peers : main' = At("add_member", p) => main = main'
    BY <1>b, <2>4 DEF ReturnErr, At
  <2>7. \A p \in Peers : waiter'[p] \in Peers => SenderRuns(waiter'[p])
    <3>1. \/ waiter' = [waiter EXCEPT ![echo.call.joiner] = echo.call.by]
          \/ waiter' = [p \in Peers |-> "none"]
      BY <1>10 DEF FinishSend
    <3> QED
      BY <1>b, <2>2, <3>1 DEF IInv, TasksSpawned
  <2>8. \A p \in Peers, i \in 1..Len(calls') : calls'[i].by = p => SenderRuns(p)
    <3>1. calls' = calls \/ calls' = <<>>
      BY <1>10 DEF FinishSend
    <3> QED
      BY <3>1 DEF IInv, TasksSpawned
  <2>9. \A p \in Peers : p \in members' \/ main' = At("add_member", p) => SenderRuns(p)
    BY <2>1, <2>6 DEF IInv, TasksSpawned
  <2> QED
    BY <2>1, <2>3, <2>5, <2>7, <2>8, <2>9 DEF TasksSpawned, LoopsNeverEnd
<1>11. ASSUME NEW q \in Peers, ConnReads(q) PROVE TasksSpawned' /\ LoopsNeverEnd'
  <2>1. /\ UNCHANGED <<loop, members, waiter, calls>>
        /\ conn[q] = "running"
        /\ conn' = conn \/ conn' = [conn EXCEPT ![q] = "panicked"]
        /\ main' = main \/ WakeMain(q, Head(toNode[q]).body)
        /\ echo' = echo \/ WakeEcho(q, Head(toNode[q]).body)
    BY <1>11 DEF ConnReads
  <2>2. \A p \in Peers : main' = At("add_member", p) => main = main'
    BY <2>1, <1>b DEF WakeMain, AfterSend, At
  <2>3. echo'.call = echo.call
    <3>1. echo' = echo \/ echo' = [echo EXCEPT !.left = @ \ {q}, !.to = NoPeer]
      BY <2>1 DEF WakeEcho
    <3>2. echo \in [pc : {"recv", "sending", "panicked"},
                    call : CallsOfEcho \cup {NoCall},
                    left : SUBSET Peers, to : Peers \cup {NoPeer}]
      BY DEF IInv, TypeOK
    <3> QED
      BY <3>1, <3>2
  <2>4. \A p \in Peers : SenderRuns(p)' => SenderRuns(p)
    BY <1>b, <2>1 DEF SenderRuns
  <2> QED
    BY <2>1, <2>2, <2>3, <2>4, SpawnedKept
<1>12. ASSUME NEW q \in Peers, ConnStops(q) PROVE TasksSpawned' /\ LoopsNeverEnd'
  <2>1. /\ UNCHANGED <<loop, members, waiter, calls, echo.call, main>>
        /\ conn[q] = "running"
        /\ conn' = [conn EXCEPT ![q] = "stopped"]
    BY <1>12 DEF ConnStops, echoVars, loopVars
  <2>2. \A p \in Peers : SenderRuns(p)' => SenderRuns(p)
    BY <1>b, <2>1 DEF SenderRuns
  <2> QED
    BY <2>1, <2>2, SpawnedKept
<1>13. ASSUME NEW q \in Peers, EventLoop(q) PROVE TasksSpawned' /\ LoopsNeverEnd'
  <2>1. loop[q] = "recv" /\ SenderRuns(q)
    BY <1>13 DEF EventLoop, IInv, TasksSpawned
  <2>2. inbox[q] # <<>>
    BY <1>13, <2>1 DEF EventLoop, LoopEnds, ClientClosed
  <2> DEFINE call == Call(q, Head(inbox[q])[3], members)
  <2>3. /\ UNCHANGED <<members, waiter, echo, conn, main>>
        /\ \/ UNCHANGED <<loop, calls>>
           \/ /\ loop' = [loop EXCEPT ![q] = "broadcast"]
              /\ calls' = Append(calls, call)
    BY <1>13, <2>2 DEF EventLoop
  <2>4. \A p \in Peers : SenderRuns(p)' <=> SenderRuns(p)
    BY <2>3 DEF SenderRuns
  <2>5. CASE UNCHANGED <<loop, calls>>
    BY <2>3, <2>4, <2>5, SpawnedKept
  <2>6. CASE /\ loop' = [loop EXCEPT ![q] = "broadcast"]
             /\ calls' = Append(calls, call)
    <3>1. call.by = q /\ call \in CallsOfEcho
      <4>1. Head(inbox[q])[3] \in Peers
        BY <2>2, TailType, MessageType DEF IInv, TypeOK
      <4> QED
        BY <4>1 DEF Call, CallsOfEcho, IInv, TypeOK
    <3> HIDE DEF call
    <3>2. \A p \in Peers, i \in 1..Len(calls') : calls'[i].by = p => SenderRuns(p)
      BY <1>b, <2>1, <2>6, <3>1, AppendType DEF IInv, TasksSpawned
    <3>3. \A p \in Peers : (SenderRuns(p) <=> loop'[p] # "none") /\ loop'[p] # "ended"
      BY <1>b, <2>1, <2>6 DEF IInv, TasksSpawned, LoopsNeverEnd
    <3> QED
      BY <2>3, <2>4, <3>2, <3>3 DEF IInv, TasksSpawned, LoopsNeverEnd
  <2> QED
    BY <2>3, <2>5, <2>6
<1>14. ASSUME NEW q \in Peers, PeerStep(q) \/ PeerConnects(q) \/ Break(q)
       PROVE  TasksSpawned' /\ LoopsNeverEnd'
  <2>1. UNCHANGED <<loop, members, waiter, calls, echo.call, conn, main>>
    <3>1. PeerStep(q) =>
            UNCHANGED <<loop, members, waiter, calls, echo.call, conn, main>>
      BY DEF PeerStep, PeerReadsFirst, PeerReadsThird, PeerDeserted, PeerAddsSeed,
             PeerReads, PeerTakes, echoVars, loopVars
    <3>2. PeerConnects(q) \/ Break(q) =>
            UNCHANGED <<loop, members, waiter, calls, echo.call, conn, main>>
      BY DEF PeerConnects, Break, echoVars, loopVars
    <3> QED
      BY <1>14, <3>1, <3>2
  <2> QED
    BY <2>1, SpawnedKept DEF SenderRuns
<1>15. ASSUME AcceptFails PROVE TasksSpawned' /\ LoopsNeverEnd'
  <2>1. /\ UNCHANGED <<loop, members, waiter, calls, echo.call, conn>>
        /\ \A p \in Peers : main' # At("add_member", p)
    BY <1>15 DEF AcceptFails, At, Die, echoVars, loopVars
  <2> QED
    BY <2>1, SpawnedKept DEF SenderRuns
<1> QED
  BY <1>1, <1>2, <1>3, <1>4, <1>5, <1>6, <1>7, <1>8, <1>9, <1>10, <1>11, <1>12,
     <1>13, <1>14, <1>15 DEF Next, MainStep, EchoStep, ConnStep

LEMMA SpawnedInit == Init => TasksSpawned /\ LoopsNeverEnd
  BY PeersAssumption DEF Init, TasksSpawned, LoopsNeverEnd, SenderRuns, At,
     EchoIdle, NoCall, Call

(* The inductive invariant: who is spawned, and that no loop has ended.    *)
THEOREM Invariance == Spec => []IInv
<1>1. Init => IInv
  BY TypeInit, SpawnedInit DEF IInv
<1>2. IInv /\ [Next]_vars => IInv'
  BY TypeStep, SpawnedStep DEF IInv
<1> QED
  BY <1>1, <1>2, PTL DEF Spec

(* No event loop ever ends, whatever breaks: the remove_member behind      *)
(* start_connection_event_loop's loop is not reached.                      *)
THEOREM LoopsRunForever == Spec => []LoopsNeverEnd
<1>1. IInv => LoopsNeverEnd
  BY DEF IInv
<1> QED
  BY <1>1, Invariance, PTL

(* No reliable sender ever has both of its channels closed, so that the    *)
(* else branch of start_reliable_sender, which does not return, never      *)
(* becomes a busy loop.                                                    *)
THEOREM SendersNeverSpin == Spec => []NoSpin
<1>1. IInv => NoSpin
  BY DEF IInv, TypeOK, TasksSpawned, LoopsNeverEnd, NoSpin, HandleHeld
<1> QED
  BY <1>1, Invariance, PTL
=============================================================================
