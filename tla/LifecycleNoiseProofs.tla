------------------------ MODULE LifecycleNoiseProofs ------------------------
(* That the two ends of every stream of Lifecycle stay in step, for every  *)
(* set of peers, files and taken addresses.                                *)
EXTENDS LifecycleProofs

-----------------------------------------------------------------------------
(* How many frames an end has written and read, and what the kth frame of  *)
(* an end is: its messages of the handshake come first.                    *)
Wrote(s) == s.out + (IF s.initiator THEN (s.done + 1) \div 2 ELSE s.done \div 2)
HasRead(s) == s.in + (IF s.initiator THEN s.done \div 2 ELSE (s.done + 1) \div 2)
HandshakesOf(initiator) == IF initiator THEN 2 ELSE 1
IsFrame(f, k, initiator) ==
    IF k <= HandshakesOf(initiator)
      THEN f.kind = "handshake" /\ f.n = (IF initiator THEN 2 * k - 1 ELSE 2 * k)
      ELSE f.kind = "transport" /\ f.n = k - HandshakesOf(initiator) - 1

(* What is in flight goes on where its reader is and, on an open stream, up*)
(* to where its writer is.                                                 *)
Continues(frames, read, written, initiator, open) ==
    /\ read + Len(frames) <= written
    /\ open => read + Len(frames) = written
    /\ \A i \in 1..Len(frames) : IsFrame(frames[i], read + i, initiator)

(* How far an end has come: the number of handshake messages it has seen,  *)
(* and whether it has gone over to the transport.                          *)
Stage(s, mode, done) ==
    /\ s.mode = mode /\ s.done = done
    /\ mode = "handshake" => s.out = 0 /\ s.in = 0

StagesInv(p) ==
    /\ noise[p].initiator /\ ~peerNoise[p].initiator
    /\ conn[p] = "none" => Stage(noise[p], "handshake", 0)
    /\ conn[p] = "handshake" => Stage(noise[p], "handshake", 1)
    /\ conn[p] \in {"running", "stopped"} => Stage(noise[p], "transport", 3)
    /\ conn[p] # "panicked"
    /\ peer[p].pc \in {"off", "m1"} => Stage(peerNoise[p], "handshake", 0)
    /\ peer[p].pc = "m3" => Stage(peerNoise[p], "handshake", 2)
    /\ peer[p].pc = "up" => Stage(peerNoise[p], "transport", 3)
    /\ peer[p].pc # "panicked"
    /\ stream[p] = "none" <=> peer[p].pc = "off"
    /\ stream[p] = "none" => conn[p] = "none"

StreamsInv(p) ==
    /\ Continues(toPeer[p], HasRead(peerNoise[p]), Wrote(noise[p]), TRUE,
                 stream[p] = "open")
    /\ Continues(toNode[p], HasRead(noise[p]), Wrote(peerNoise[p]), FALSE,
                 stream[p] = "open")

(* What the main task knows of the connection it is at, and of its file.   *)
MainInv ==
    /\ main.pc = "noise" => conn[main.peer] = "handshake"
    /\ main.pc # "bad_frame"
    /\ main.pc = "deserted" => /\ main.peer \in Peers
                               /\ stream[main.peer] = "closed"
                               /\ conn[main.peer] = "handshake"
    /\ Usable => main.pc \notin {"no_config", "no_seeds", "no_address", "no_key"}

(* The inductive invariant behind NoiseInStep and EndsOnlyBeforeJoin.      *)
NoiseInv == TypeOK /\ MainInv /\ \A p \in Peers : StagesInv(p) /\ StreamsInv(p)

-----------------------------------------------------------------------------
(* What happens to a stream: its next frame is read, its writer's next     *)
(* frame is written, it breaks, it is closed.                              *)
LEMMA ReadNext ==
    ASSUME NEW q \in Seq(Frames), NEW r \in Nat, NEW w \in Nat,
           NEW initiator \in BOOLEAN, NEW open \in BOOLEAN,
           Continues(q, r, w, initiator, open), q # <<>>
    PROVE  /\ IsFrame(Head(q), r + 1, initiator)
           /\ Continues(Tail(q), r + 1, w, initiator, open)
<1>1. /\ Head(q) = q[1] /\ Len(q) \in Nat \ {0}
      /\ Tail(q) \in Seq(Frames) /\ Len(Tail(q)) = Len(q) - 1
      /\ \A i \in 1..Len(q) - 1 : Tail(q)[i] = q[i + 1]
  BY TailType
<1>2. IsFrame(q[1], r + 1, initiator)
  BY <1>1 DEF Continues
<1>3. ASSUME NEW i \in 1..Len(Tail(q))
      PROVE  IsFrame(Tail(q)[i], r + 1 + i, initiator)
  <2>1. i + 1 \in 1..Len(q) /\ Tail(q)[i] = q[i + 1]
    BY <1>1
  <2>2. IsFrame(q[i + 1], r + (i + 1), initiator)
    BY <2>1 DEF Continues
  <2>3. r + (i + 1) = r + 1 + i
    BY <1>1
  <2> QED
    BY <2>1, <2>2, <2>3
<1> QED
  BY <1>1, <1>2, <1>3 DEF Continues

LEMMA WriteNext ==
    ASSUME NEW q \in Seq(Frames), NEW r \in Nat, NEW w \in Nat,
           NEW initiator \in BOOLEAN, NEW p \in Peers, NEW f \in Frames,
           Continues(q, r, w, initiator, stream[p] = "open"),
           IsFrame(f, w + 1, initiator)
    PROVE  Continues(Written(p, q, f), r, w + 1, initiator, stream[p] = "open")
<1>1. CASE stream[p] # "open"
  BY <1>1 DEF Written, Continues
<1>2. CASE stream[p] = "open"
  <2>1. /\ Len(Append(q, f)) = Len(q) + 1
        /\ \A i \in 1..Len(q) + 1 :
             Append(q, f)[i] = IF i <= Len(q) THEN q[i] ELSE f
    BY AppendType
  <2>2. r + Len(q) = w /\ Len(q) \in Nat
    BY <1>2 DEF Continues
  <2>3. ASSUME NEW i \in 1..Len(Append(q, f))
        PROVE  IsFrame(Append(q, f)[i], r + i, initiator)
    <3>1. CASE i <= Len(q)
      BY <2>1, <3>1 DEF Continues
    <3>2. CASE i = Len(q) + 1
      <4>1. r + i = w + 1 /\ Append(q, f)[i] = f
        BY <2>1, <2>2, <3>2
      <4> QED
        BY <4>1
    <3> QED
      BY <2>1, <2>2, <3>1, <3>2
  <2> QED
    BY <1>2, <2>1, <2>2, <2>3 DEF Written, Continues
<1> QED
  BY <1>1, <1>2

LEMMA CutShort ==
    ASSUME NEW q \in Seq(Frames), NEW r \in Nat, NEW w \in Nat,
           NEW initiator \in BOOLEAN, NEW open, NEW k \in 0..Len(q),
           Continues(q, r, w, initiator, open)
    PROVE  Continues(SubSeq(q, 1, k), r, w, initiator, FALSE)
<1>1. Len(SubSeq(q, 1, k)) = k /\ \A i \in 1..k : SubSeq(q, 1, k)[i] = q[i]
  OBVIOUS
<1> QED
  BY <1>1 DEF Continues

(* The counts of frames after each step of a noise state, and that the     *)
(* frame an end writes is its next one.                                    *)
LEMMA CountsType ==
    ASSUME NEW s \in NoiseStates
    PROVE  Wrote(s) \in Nat /\ HasRead(s) \in Nat
  BY DEF NoiseStates, Wrote, HasRead

LEMMA TransportCounts ==
    ASSUME NEW s \in NoiseStates, Stage(s, "transport", 3)
    PROVE  /\ Stage(AfterTransportOut(s), "transport", 3)
           /\ Stage(AfterTransportIn(s), "transport", 3)
           /\ AfterTransportOut(s).initiator = s.initiator
           /\ AfterTransportIn(s).initiator = s.initiator
           /\ AfterTransportOut(s).out = s.out + 1
           /\ AfterTransportIn(s).out = s.out
           /\ Wrote(AfterTransportOut(s)) = Wrote(s) + 1
           /\ HasRead(AfterTransportOut(s)) = HasRead(s)
           /\ Wrote(AfterTransportIn(s)) = Wrote(s)
           /\ HasRead(AfterTransportIn(s)) = HasRead(s) + 1
  BY DEF NoiseStates, Stage, Wrote, HasRead, AfterTransportOut, AfterTransportIn

LEMMA TransportNext ==
    ASSUME NEW s \in NoiseStates, Stage(s, "transport", 3), NEW m
    PROVE  /\ IsFrame(TransportFrame(s, m), Wrote(s) + 1, s.initiator)
           /\ \A f : IsFrame(f, HasRead(s) + 1, ~s.initiator)
                       => CanReadTransport(s, f)
  BY DEF NoiseStates, Stage, Wrote, HasRead, TransportFrame, IsFrame, HandshakesOf,
         CanReadTransport

LEMMA InitiatorHandshake ==
    ASSUME NEW s \in NoiseStates, s.initiator, Stage(s, "handshake", 0)
    PROVE  /\ Wrote(s) = 0 /\ HasRead(s) = 0
           /\ IsFrame(HandshakeFrame(s), 1, TRUE)
           /\ Stage(AfterHandshakeMessage(s), "handshake", 1)
           /\ AfterHandshakeMessage(s).initiator
           /\ Wrote(AfterHandshakeMessage(s)) = 1
           /\ HasRead(AfterHandshakeMessage(s)) = 0
  BY DEF NoiseStates, Stage, Wrote, HasRead, HandshakeFrame, IsFrame, HandshakesOf,
         AfterHandshakeMessage

LEMMA InitiatorFinishes ==
    ASSUME NEW s \in NoiseStates, s.initiator, Stage(s, "handshake", 1)
    PROVE  LET read == AfterHandshakeMessage(s)
               done == AfterHandshakeMessage(read)
           IN  /\ Wrote(s) = 1 /\ HasRead(s) = 0
               /\ \A f : IsFrame(f, 1, FALSE) => CanReadHandshake(s, f)
               /\ CanBuildHandshake(read) /\ CanStartTransport(done)
               /\ IsFrame(HandshakeFrame(read), 2, TRUE)
               /\ Stage(StartTransport(done), "transport", 3)
               /\ StartTransport(done).initiator
               /\ Wrote(StartTransport(done)) = 2
               /\ HasRead(StartTransport(done)) = 1
  BY DEF NoiseStates, Stage, Wrote, HasRead, HandshakeFrame, IsFrame, HandshakesOf,
         AfterHandshakeMessage, CanReadHandshake, CanBuildHandshake, MyTurn,
         InHandshake, HandshakeLength, CanStartTransport, StartTransport

LEMMA ResponderAnswers ==
    ASSUME NEW s \in NoiseStates, ~s.initiator, Stage(s, "handshake", 0)
    PROVE  LET read == AfterHandshakeMessage(s)
               next == AfterHandshakeMessage(read)
           IN  /\ Wrote(s) = 0 /\ HasRead(s) = 0
               /\ \A f : IsFrame(f, 1, TRUE) => CanReadHandshake(s, f)
               /\ CanBuildHandshake(read)
               /\ IsFrame(HandshakeFrame(read), 1, FALSE)
               /\ Stage(next, "handshake", 2) /\ ~next.initiator
               /\ Wrote(next) = 1 /\ HasRead(next) = 1
  BY DEF NoiseStates, Stage, Wrote, HasRead, HandshakeFrame, IsFrame, HandshakesOf,
         AfterHandshakeMessage, CanReadHandshake, CanBuildHandshake, MyTurn,
         InHandshake, HandshakeLength

LEMMA ResponderFinishes ==
    ASSUME NEW s \in NoiseStates, ~s.initiator, Stage(s, "handshake", 2)
    PROVE  LET read == AfterHandshakeMessage(s)
               next == StartTransport(read)
           IN  /\ Wrote(s) = 1 /\ HasRead(s) = 1
               /\ \A f : IsFrame(f, 2, TRUE) => CanReadHandshake(s, f)
               /\ CanStartTransport(read)
               /\ Stage(next, "transport", 3) /\ ~next.initiator
               /\ Wrote(next) = 1 /\ HasRead(next) = 2
  BY DEF NoiseStates, Stage, Wrote, HasRead, IsFrame, HandshakesOf,
         AfterHandshakeMessage, CanReadHandshake, MyTurn,
         InHandshake, HandshakeLength, CanStartTransport, StartTransport

(* The invariant of a connection that a step leaves alone, or only closes. *)
LEMMA LinkKept ==
    ASSUME NEW p \in Peers, TypeOK, StagesInv(p), StreamsInv(p),
           conn'[p] = conn[p], noise'[p] = noise[p], peerNoise'[p] = peerNoise[p],
           toPeer'[p] = toPeer[p], toNode'[p] = toNode[p],
           peer'[p].pc = peer[p].pc,
           \/ stream'[p] = stream[p]
           \/ stream[p] # "none" /\ stream'[p] = "closed"
    PROVE  StagesInv(p)' /\ StreamsInv(p)'
<1>1. StagesInv(p)'
  BY DEF StagesInv
<1>2. StreamsInv(p)'
  BY DEF StreamsInv, Continues
<1> QED
  BY <1>1, <1>2

(* A step of the invariant's stream part, from what it does to each stream.*)
LEMMA NodeWrites ==
    ASSUME NEW p \in Peers, TypeOK, StagesInv(p), StreamsInv(p), NEW f \in Frames,
           IsFrame(f, Wrote(noise[p]) + 1, TRUE),
           toPeer'[p] = Written(p, toPeer[p], f),
           Wrote(noise'[p]) = Wrote(noise[p]) + 1,
           peerNoise'[p] = peerNoise[p], stream'[p] = stream[p]
    PROVE  Continues(toPeer'[p], HasRead(peerNoise'[p]), Wrote(noise'[p]), TRUE,
                     stream'[p] = "open")
<1>1. toPeer[p] \in Seq(Frames) /\ noise[p] \in NoiseStates
      /\ peerNoise[p] \in NoiseStates
  BY DEF TypeOK
<1>2. Wrote(noise[p]) \in Nat /\ HasRead(peerNoise[p]) \in Nat
  BY <1>1, CountsType
<1>3. Continues(toPeer[p], HasRead(peerNoise[p]), Wrote(noise[p]), TRUE,
                stream[p] = "open")
  BY DEF StreamsInv
<1>4. Continues(Written(p, toPeer[p], f), HasRead(peerNoise[p]),
                Wrote(noise[p]) + 1, TRUE, stream[p] = "open")
  BY <1>1, <1>2, <1>3, WriteNext
<1> QED
  BY <1>4

LEMMA PeerWrites ==
    ASSUME NEW p \in Peers, TypeOK, StagesInv(p), StreamsInv(p), NEW f \in Frames,
           IsFrame(f, Wrote(peerNoise[p]) + 1, FALSE),
           toNode'[p] = Written(p, toNode[p], f),
           Wrote(peerNoise'[p]) = Wrote(peerNoise[p]) + 1,
           noise'[p] = noise[p], stream'[p] = stream[p]
    PROVE  Continues(toNode'[p], HasRead(noise'[p]), Wrote(peerNoise'[p]), FALSE,
                     stream'[p] = "open")
<1>1. toNode[p] \in Seq(Frames) /\ noise[p] \in NoiseStates
      /\ peerNoise[p] \in NoiseStates
  BY DEF TypeOK
<1>2. Wrote(peerNoise[p]) \in Nat /\ HasRead(noise[p]) \in Nat
  BY <1>1, CountsType
<1>3. Continues(toNode[p], HasRead(noise[p]), Wrote(peerNoise[p]), FALSE,
                stream[p] = "open")
  BY DEF StreamsInv
<1>4. Continues(Written(p, toNode[p], f), HasRead(noise[p]),
                Wrote(peerNoise[p]) + 1, FALSE, stream[p] = "open")
  BY <1>1, <1>2, <1>3, WriteNext
<1> QED
  BY <1>4

LEMMA NodeTakes ==
    ASSUME NEW p \in Peers, TypeOK, StreamsInv(p), toNode[p] # <<>>
    PROVE  /\ IsFrame(Head(toNode[p]), HasRead(noise[p]) + 1, FALSE)
           /\ Continues(Tail(toNode[p]), HasRead(noise[p]) + 1,
                        Wrote(peerNoise[p]), FALSE, stream[p] = "open")
<1>1. toNode[p] \in Seq(Frames) /\ noise[p] \in NoiseStates
      /\ peerNoise[p] \in NoiseStates
  BY DEF TypeOK
<1>2. Wrote(peerNoise[p]) \in Nat /\ HasRead(noise[p]) \in Nat
  BY <1>1, CountsType
<1>3. Continues(toNode[p], HasRead(noise[p]), Wrote(peerNoise[p]), FALSE,
                stream[p] = "open")
  BY DEF StreamsInv
<1> QED
  BY <1>1, <1>2, <1>3, ReadNext

LEMMA PeerTakesFrame ==
    ASSUME NEW p \in Peers, TypeOK, StreamsInv(p), toPeer[p] # <<>>
    PROVE  /\ IsFrame(Head(toPeer[p]), HasRead(peerNoise[p]) + 1, TRUE)
           /\ Continues(Tail(toPeer[p]), HasRead(peerNoise[p]) + 1,
                        Wrote(noise[p]), TRUE, stream[p] = "open")
<1>1. toPeer[p] \in Seq(Frames) /\ noise[p] \in NoiseStates
      /\ peerNoise[p] \in NoiseStates
  BY DEF TypeOK
<1>2. Wrote(noise[p]) \in Nat /\ HasRead(peerNoise[p]) \in Nat
  BY <1>1, CountsType
<1>3. Continues(toPeer[p], HasRead(peerNoise[p]), Wrote(noise[p]), TRUE,
                stream[p] = "open")
  BY DEF StreamsInv
<1> QED
  BY <1>1, <1>2, <1>3, ReadNext

(* A reliable send, by the main task or the echo broadcast actor.          *)
LEMMA SendInStep ==
    ASSUME NoiseInv, NEW q, NEW j, q \in Peers => j \in Peers,
           NEW what \in {"helo", "oleh", "package", "membership"},
           SendReliably(q, what, j),
           UNCHANGED <<conn, stream, toNode, peer, peerNoise>>
    PROVE  \A p \in Peers : StagesInv(p)' /\ StreamsInv(p)'
<1> SUFFICES ASSUME NEW p \in Peers PROVE StagesInv(p)' /\ StreamsInv(p)'
  OBVIOUS
<1>0. TypeOK /\ StagesInv(p) /\ StreamsInv(p)
  BY DEF NoiseInv
<1>1. CASE conn[q] # "running" \/ p # q
  <2>1. noise'[p] = noise[p] /\ toPeer'[p] = toPeer[p]
    BY <1>1, <1>0 DEF SendReliably, TypeOK
  <2> QED
    BY <1>0, <2>1, LinkKept
<1>2. CASE conn[q] = "running" /\ p = q
  <2> DEFINE f == TransportFrame(noise[p], <<"send", what, j>>)
  <2>1. /\ noise[p] \in NoiseStates /\ Stage(noise[p], "transport", 3)
        /\ noise[p].initiator
    BY <1>0, <1>2 DEF TypeOK, StagesInv
  <2>2. f \in Frames
    BY <1>2, <2>1, NoiseType, SendMessageType
  <2>3. IsFrame(f, Wrote(noise[p]) + 1, TRUE)
    BY <2>1, TransportNext
  <2>4. /\ toPeer'[p] = Written(p, toPeer[p], f)
        /\ noise'[p] = AfterTransportOut(noise[p])
    BY <1>0, <1>2 DEF SendReliably, TypeOK
  <2>5. /\ Wrote(noise'[p]) = Wrote(noise[p]) + 1
        /\ HasRead(noise'[p]) = HasRead(noise[p])
        /\ Stage(noise'[p], "transport", 3) /\ noise'[p].initiator
    BY <2>1, <2>4, TransportCounts
  <2> HIDE DEF f
  <2>6. Continues(toPeer'[p], HasRead(peerNoise'[p]), Wrote(noise'[p]), TRUE,
                  stream'[p] = "open")
    BY <1>0, <2>2, <2>3, <2>4, <2>5, NodeWrites
  <2>7. StreamsInv(p)'
    BY <1>0, <2>5, <2>6 DEF StreamsInv
  <2>8. StagesInv(p)'
    BY <1>0, <1>2, <2>5 DEF StagesInv
  <2> QED
    BY <2>7, <2>8
<1> QED
  BY <1>1, <1>2

(* The steps of the main task keep the connections in step.                *)
LEMMA MainLinks ==
    ASSUME NoiseInv, MainStep \/ MainTimesOut
    PROVE  \A p \in Peers : StagesInv(p)' /\ StreamsInv(p)'
<1> USE DEF NoiseInv
<1>1. ASSUME Start \/ AddMember \/ BroadcastRoundOne \/ MainTimesOut
      PROVE  \A p \in Peers : StagesInv(p)' /\ StreamsInv(p)'
  <2>1. UNCHANGED <<conn, noise, stream, toPeer, toNode, peer, peerNoise>>
    BY <1>1 DEF Start, AddMember, BroadcastRoundOne, MainTimesOut, wireVars, peerVars
  <2> QED
    BY <2>1, LinkKept
<1>2. ASSUME SendToJoiner
      PROVE  \A p \in Peers : StagesInv(p)' /\ StreamsInv(p)'
  <2>1. PICK what \in {"helo", "membership"} :
               SendReliably(main.peer, what, main.peer)
    BY <1>2 DEF SendToJoiner
  <2>2. UNCHANGED <<conn, stream, toNode, peer, peerNoise>>
    BY <1>2 DEF SendToJoiner, peerVars
  <2> QED
    BY <2>1, <2>2, SendInStep
<1>3. ASSUME NEW q \in Peers, Accept(q)
      PROVE  \A p \in Peers : StagesInv(p)' /\ StreamsInv(p)'
  <2> SUFFICES ASSUME NEW p \in Peers PROVE StagesInv(p)' /\ StreamsInv(p)'
    OBVIOUS
  <2>0. UNCHANGED <<toNode, peer, peerNoise>>
    BY <1>3 DEF Accept, peerVars
  <2>1. CASE UNCHANGED <<conn, toPeer, noise>>
             /\ stream' = [r \in Peers |-> IF stream[r] = "none" THEN "none"
                                                                 ELSE "closed"]
    <3>1. \/ stream'[p] = stream[p]
          \/ stream[p] # "none" /\ stream'[p] = "closed"
      BY <2>1
    <3> QED
      BY <2>0, <2>1, <3>1, LinkKept
  <2>2. CASE /\ conn' = [conn EXCEPT ![q] = "handshake"]
             /\ toPeer' = [toPeer EXCEPT ![q] =
                             Written(q, @, HandshakeFrame(noise[q]))]
             /\ noise' = [noise EXCEPT ![q] = AfterHandshakeMessage(@)]
             /\ UNCHANGED stream
    <3>1. CASE p # q
      <4>1. conn'[p] = conn[p] /\ toPeer'[p] = toPeer[p] /\ noise'[p] = noise[p]
        BY <2>2, <3>1 DEF TypeOK
      <4> QED
        BY <2>0, <2>2, <4>1, LinkKept
    <3>2. CASE p = q
      <4>1. conn[p] = "none" /\ stream[p] # "none"
        BY <1>3, <3>2 DEF Accept, Queued
      <4>2. /\ noise[p] \in NoiseStates /\ noise[p].initiator
            /\ Stage(noise[p], "handshake", 0)
        BY <4>1 DEF TypeOK, StagesInv
      <4>3. /\ conn'[p] = "handshake"
            /\ toPeer'[p] = Written(p, toPeer[p], HandshakeFrame(noise[p]))
            /\ noise'[p] = AfterHandshakeMessage(noise[p])
        BY <2>2, <3>2 DEF TypeOK
      <4>4. /\ Wrote(noise[p]) = 0 /\ HasRead(noise[p]) = 0
            /\ Wrote(noise'[p]) = 1 /\ HasRead(noise'[p]) = 0
            /\ Stage(noise'[p], "handshake", 1) /\ noise'[p].initiator
            /\ IsFrame(HandshakeFrame(noise[p]), 1, TRUE)
            /\ HandshakeFrame(noise[p]) \in Frames
        BY <4>2, <4>3, InitiatorHandshake, NoiseType
      <4>a. Wrote(noise[p]) + 1 = 1
        BY <4>4
      <4>b. /\ IsFrame(HandshakeFrame(noise[p]), Wrote(noise[p]) + 1, TRUE)
            /\ Wrote(noise'[p]) = Wrote(noise[p]) + 1
        BY <4>4, <4>a
      <4>5. Continues(toPeer'[p], HasRead(peerNoise'[p]), Wrote(noise'[p]), TRUE,
                      stream'[p] = "open")
        BY <2>0, <2>2, <4>3, <4>4, <4>b, NodeWrites
      <4>6. StreamsInv(p)'
        BY <2>0, <2>2, <4>4, <4>5 DEF StreamsInv
      <4>7. StagesInv(p)'
        BY <2>0, <2>2, <4>1, <4>3, <4>4 DEF StagesInv
      <4> QED
        BY <4>6, <4>7
    <3> QED
      BY <3>1, <3>2
  <2> QED
    BY <1>3, <2>1, <2>2 DEF Accept, Die
<1>4. ASSUME NEW q \in Peers, FinishHandshake(q)
      PROVE  \A p \in Peers : StagesInv(p)' /\ StreamsInv(p)'
  <2> DEFINE read == AfterHandshakeMessage(noise[q])
             done == AfterHandshakeMessage(read)
  <2>1. conn[q] = "handshake" /\ toNode[q] # <<>>
    BY <1>4 DEF FinishHandshake, MainInv, At
  <2>2. /\ noise[q] \in NoiseStates /\ noise[q].initiator
        /\ Stage(noise[q], "handshake", 1)
    BY <2>1 DEF TypeOK, StagesInv
  <2>3. /\ Wrote(noise[q]) = 1 /\ HasRead(noise[q]) = 0
        /\ \A f : IsFrame(f, 1, FALSE) => CanReadHandshake(noise[q], f)
        /\ CanBuildHandshake(read) /\ CanStartTransport(done)
        /\ IsFrame(HandshakeFrame(read), 2, TRUE)
        /\ Stage(StartTransport(done), "transport", 3)
        /\ StartTransport(done).initiator
        /\ Wrote(StartTransport(done)) = 2 /\ HasRead(StartTransport(done)) = 1
    BY <2>2, InitiatorFinishes
  <2>4. HandshakeFrame(read) \in Frames
    BY <2>2, NoiseType
  <2>5. /\ IsFrame(Head(toNode[q]), 1, FALSE)
        /\ Continues(Tail(toNode[q]), 1, Wrote(peerNoise[q]), FALSE,
                     stream[q] = "open")
    <3>1. HasRead(noise[q]) + 1 = 1
      BY <2>3
    <3> QED
      BY <2>1, <3>1, NodeTakes
  <2>6. /\ toPeer' = [toPeer EXCEPT ![q] = Written(q, @, HandshakeFrame(read))]
        /\ noise' = [noise EXCEPT ![q] = StartTransport(done)]
        /\ conn' = [conn EXCEPT ![q] = "running"]
        /\ toNode' = [toNode EXCEPT ![q] = Tail(@)]
        /\ UNCHANGED <<stream, peer, peerNoise>>
    BY <1>4, <2>3, <2>5 DEF FinishHandshake, peerVars
  <2> HIDE DEF read, done
  <2> SUFFICES ASSUME NEW p \in Peers PROVE StagesInv(p)' /\ StreamsInv(p)'
    OBVIOUS
  <2>7. CASE p # q
    <3>1. /\ conn'[p] = conn[p] /\ toPeer'[p] = toPeer[p]
          /\ noise'[p] = noise[p] /\ toNode'[p] = toNode[p]
      BY <2>6, <2>7 DEF TypeOK
    <3> QED
      BY <2>6, <3>1, LinkKept
  <2>8. CASE p = q
    <3>1. /\ conn'[p] = "running" /\ noise'[p] = StartTransport(done)
          /\ toPeer'[p] = Written(p, toPeer[p], HandshakeFrame(read))
          /\ toNode'[p] = Tail(toNode[p])
      BY <2>6, <2>8 DEF TypeOK
    <3>a. Wrote(noise[p]) + 1 = 2
      BY <2>3, <2>8
    <3>b. /\ IsFrame(HandshakeFrame(read), Wrote(noise[p]) + 1, TRUE)
          /\ Wrote(noise'[p]) = Wrote(noise[p]) + 1
      BY <2>3, <3>1, <3>a
    <3>2. Continues(toPeer'[p], HasRead(peerNoise'[p]), Wrote(noise'[p]), TRUE,
                    stream'[p] = "open")
      BY <2>4, <2>6, <3>1, <3>b, NodeWrites
    <3>3. StreamsInv(p)'
      BY <2>3, <2>5, <2>6, <2>8, <3>1, <3>2 DEF StreamsInv
    <3>4. StagesInv(p)'
      BY <2>1, <2>3, <2>6, <2>8, <3>1 DEF StagesInv
    <3> QED
      BY <3>3, <3>4
  <2> QED
    BY <2>7, <2>8
<1>5. ASSUME AcceptFails \/ \E q \in Peers : Deserted(q)
      PROVE  \A p \in Peers : StagesInv(p)' /\ StreamsInv(p)'
  <2>1. /\ UNCHANGED <<conn, noise, toPeer, toNode, peer, peerNoise>>
        /\ stream' = [p \in Peers |-> IF stream[p] = "none" THEN "none"
                                                            ELSE "closed"]
    BY <1>5 DEF AcceptFails, Deserted, Die, peerVars
  <2>2. \A p \in Peers : \/ stream'[p] = stream[p]
                         \/ stream[p] # "none" /\ stream'[p] = "closed"
    BY <2>1
  <2> QED
    BY <2>1, <2>2, LinkKept
<1> QED
  BY <1>1, <1>2, <1>3, <1>4, <1>5 DEF MainStep

(* So do the steps of the echo broadcast actor.                            *)
LEMMA EchoLinks ==
    ASSUME NoiseInv, EchoStep
    PROVE  \A p \in Peers : StagesInv(p)' /\ StreamsInv(p)'
<1>1. CASE TakeCall \/ FinishSend
  <2>1. UNCHANGED <<conn, noise, stream, toPeer, toNode, peer, peerNoise>>
    BY <1>1 DEF TakeCall, FinishSend, wireVars, peerVars
  <2> QED
    BY <2>1, LinkKept DEF NoiseInv
<1>2. CASE \E q \in Peers : SendToMember(q)
  <2>1. PICK q \in Peers : SendToMember(q)
    BY <1>2
  <2>2. echo.call.joiner \in Peers
    BY <2>1 DEF SendToMember, NoiseInv, TypeOK, CallsOfEcho
  <2> QED
    BY <2>1, <2>2, SendInStep DEF SendToMember, peerVars
<1> QED
  BY <1>1, <1>2 DEF EchoStep

(* The steps of a connection and of its event loop.                        *)
LEMMA ConnLinks ==
    ASSUME NoiseInv, NEW q \in Peers, ConnStep(q) \/ EventLoop(q)
    PROVE  \A p \in Peers : StagesInv(p)' /\ StreamsInv(p)'
<1> USE DEF NoiseInv
<1>1. CASE EventLoop(q)
  <2>1. UNCHANGED <<conn, noise, stream, toPeer, toNode, peer, peerNoise>>
    BY <1>1 DEF EventLoop, wireVars, peerVars
  <2> QED
    BY <2>1, LinkKept
<1>2. CASE ConnStops(q)
  <2> SUFFICES ASSUME NEW p \in Peers PROVE StagesInv(p)' /\ StreamsInv(p)'
    OBVIOUS
  <2>1. /\ UNCHANGED <<noise, stream, toPeer, toNode, peer, peerNoise>>
        /\ conn[q] = "running" /\ conn' = [conn EXCEPT ![q] = "stopped"]
    BY <1>2 DEF ConnStops, wireVars, peerVars
  <2>2. StreamsInv(p)'
    BY <2>1 DEF StreamsInv
  <2>3. conn'[p] = conn[p] \/ (conn[p] = "running" /\ conn'[p] = "stopped")
    BY <2>1 DEF TypeOK
  <2>4. StagesInv(p)'
    BY <2>1, <2>3 DEF StagesInv
  <2> QED
    BY <2>2, <2>4
<1>3. CASE ConnReads(q)
  <2> DEFINE body == Head(toNode[q]).body
             ack == TransportFrame(noise[q], <<"ack", body[2], body[3]>>)
             in == AfterTransportIn(noise[q])
             out == AfterTransportOut(in)
  <2>1. conn[q] = "running" /\ toNode[q] # <<>>
    BY <1>3 DEF ConnReads
  <2>2. /\ noise[q] \in NoiseStates /\ noise[q].initiator
        /\ Stage(noise[q], "transport", 3)
    BY <2>1 DEF TypeOK, StagesInv
  <2>3. /\ IsFrame(Head(toNode[q]), HasRead(noise[q]) + 1, FALSE)
        /\ Continues(Tail(toNode[q]), HasRead(noise[q]) + 1,
                     Wrote(peerNoise[q]), FALSE, stream[q] = "open")
    BY <2>1, NodeTakes
  <2>4. CanReadTransport(noise[q], Head(toNode[q]))
    BY <2>2, <2>3, TransportNext
  <2>5. body \in Messages
    <3>1. Head(toNode[q]) \in Frames
      BY <2>1, TailType DEF TypeOK
    <3> QED
      BY <2>4, <3>1 DEF Frames, CanReadTransport
  <2>6. ack \in Frames
    BY <2>2, <2>5, NoiseType, MessageType
  <2>7. IsFrame(ack, Wrote(noise[q]) + 1, TRUE)
    BY <2>2, TransportNext
  <2>8. /\ in \in NoiseStates /\ in.initiator /\ Stage(in, "transport", 3)
        /\ Wrote(in) = Wrote(noise[q]) /\ HasRead(in) = HasRead(noise[q]) + 1
    BY <2>2, TransportCounts, NoiseType
  <2>9. /\ out.initiator /\ Stage(out, "transport", 3)
        /\ Wrote(out) = Wrote(in) + 1 /\ HasRead(out) = HasRead(in)
    BY <2>8, TransportCounts
  <2>10. /\ UNCHANGED <<conn, stream, peer, peerNoise>>
         /\ toNode' = [toNode EXCEPT ![q] = Tail(@)]
         /\ \/ /\ noise' = [noise EXCEPT ![q] = out]
               /\ toPeer' = [toPeer EXCEPT ![q] = Written(q, @, ack)]
            \/ /\ noise' = [noise EXCEPT ![q] = in]
               /\ toPeer' = toPeer
    BY <1>3, <2>4 DEF ConnReads, peerVars
  <2> HIDE DEF ack, in, out
  <2> SUFFICES ASSUME NEW p \in Peers PROVE StagesInv(p)' /\ StreamsInv(p)'
    OBVIOUS
  <2>11. CASE p # q
    <3>1. toPeer'[p] = toPeer[p] /\ noise'[p] = noise[p] /\ toNode'[p] = toNode[p]
      BY <2>10, <2>11 DEF TypeOK
    <3> QED
      BY <2>10, <3>1, LinkKept
  <2>12. CASE p = q
    <3>1. /\ toNode'[p] = Tail(toNode[p])
          /\ \/ noise'[p] = out /\ toPeer'[p] = Written(p, toPeer[p], ack)
             \/ noise'[p] = in /\ toPeer'[p] = toPeer[p]
      BY <2>10, <2>12 DEF TypeOK
    <3>2. Continues(toPeer'[p], HasRead(peerNoise'[p]), Wrote(noise'[p]), TRUE,
                    stream'[p] = "open")
      <4>1. CASE noise'[p] = out /\ toPeer'[p] = Written(p, toPeer[p], ack)
        <5>1. Wrote(noise'[p]) = Wrote(noise[p]) + 1
          BY <2>8, <2>9, <2>12, <4>1
        <5> QED
          BY <2>6, <2>7, <2>10, <2>12, <4>1, <5>1, NodeWrites
      <4>2. CASE noise'[p] = in /\ toPeer'[p] = toPeer[p]
        BY <2>8, <2>10, <2>12, <4>2 DEF StreamsInv
      <4> QED
        BY <3>1, <4>1, <4>2
    <3>3. HasRead(noise'[p]) = HasRead(noise[p]) + 1
      BY <2>8, <2>9, <2>12, <3>1
    <3>4. StreamsInv(p)'
      BY <2>3, <2>10, <2>12, <3>1, <3>2, <3>3 DEF StreamsInv
    <3>5. StagesInv(p)'
      BY <2>1, <2>8, <2>9, <2>10, <2>12, <3>1 DEF StagesInv
    <3> QED
      BY <3>4, <3>5
  <2> QED
    BY <2>11, <2>12
<1> QED
  BY <1>1, <1>2, <1>3 DEF ConnStep

(* A connecting peer and a broken stream.                                  *)
LEMMA WireLinks ==
    ASSUME NoiseInv, NEW q \in Peers, PeerConnects(q) \/ Break(q)
    PROVE  \A p \in Peers : StagesInv(p)' /\ StreamsInv(p)'
<1> USE DEF NoiseInv
<1> SUFFICES ASSUME NEW p \in Peers PROVE StagesInv(p)' /\ StreamsInv(p)'
  OBVIOUS
<1>1. CASE PeerConnects(q)
  <2>1. /\ UNCHANGED <<conn, noise, toPeer, toNode, peerNoise>>
        /\ peer[q].pc = "off" /\ peer' = [peer EXCEPT ![q].pc = "m1"]
        /\ stream' = [stream EXCEPT ![q] = "open"]
    BY <1>1 DEF PeerConnects
  <2>2. CASE p # q
    <3>1. peer'[p] = peer[p] /\ stream'[p] = stream[p]
      BY <2>1, <2>2 DEF TypeOK
    <3> QED
      BY <2>1, <3>1, LinkKept
  <2>3. CASE p = q
    <3>1. peer'[p].pc = "m1" /\ stream'[p] = "open"
      BY <2>1, <2>3 DEF TypeOK
    <3>2. stream[p] = "none" /\ conn[p] = "none" /\ peer[p].pc = "off"
      BY <2>1, <2>3 DEF StagesInv
    <3>3. StagesInv(p)'
      BY <2>1, <3>1, <3>2 DEF StagesInv
    <3>4. /\ noise[p] \in NoiseStates /\ noise[p].initiator
          /\ Stage(noise[p], "handshake", 0)
          /\ peerNoise[p] \in NoiseStates /\ ~peerNoise[p].initiator
          /\ Stage(peerNoise[p], "handshake", 0)
      BY <3>2 DEF TypeOK, StagesInv
    <3>5. /\ Wrote(noise[p]) = 0 /\ HasRead(noise[p]) = 0
          /\ Wrote(peerNoise[p]) = 0 /\ HasRead(peerNoise[p]) = 0
      BY <3>4, InitiatorHandshake, ResponderAnswers
    <3>6. Len(toPeer[p]) \in Nat /\ Len(toNode[p]) \in Nat
      BY DEF TypeOK
    <3>7. Len(toPeer[p]) = 0 /\ Len(toNode[p]) = 0
      <4>1. /\ HasRead(peerNoise[p]) + Len(toPeer[p]) <= Wrote(noise[p])
            /\ HasRead(noise[p]) + Len(toNode[p]) <= Wrote(peerNoise[p])
        BY DEF StreamsInv, Continues
      <4> QED
        BY <3>5, <3>6, <4>1
    <3>8. /\ Continues(toPeer[p], 0, 0, TRUE, TRUE)
          /\ Continues(toNode[p], 0, 0, FALSE, TRUE)
      BY ONLY <3>7 DEF Continues
    <3>9. StreamsInv(p)'
      BY <2>1, <3>1, <3>5, <3>8 DEF StreamsInv
    <3> QED
      BY <3>3, <3>9
  <2> QED
    BY <2>2, <2>3
<1>2. CASE Break(q)
  <2>1. PICK i \in 0..Len(toPeer[q]), j \in 0..Len(toNode[q]) :
             /\ toPeer' = [toPeer EXCEPT ![q] = SubSeq(@, 1, i)]
             /\ toNode' = [toNode EXCEPT ![q] = SubSeq(@, 1, j)]
    BY <1>2 DEF Break
  <2>2. /\ UNCHANGED <<conn, noise, peer, peerNoise>> /\ stream[q] = "open"
        /\ stream' = [stream EXCEPT ![q] = "closed"]
    BY <1>2 DEF Break, peerVars
  <2>3. CASE p # q
    <3>1. /\ toPeer'[p] = toPeer[p] /\ toNode'[p] = toNode[p]
          /\ stream'[p] = stream[p]
      BY <2>1, <2>2, <2>3 DEF TypeOK
    <3> QED
      BY <2>2, <3>1, LinkKept
  <2>4. CASE p = q
    <3>1. /\ toPeer'[p] = SubSeq(toPeer[p], 1, i)
          /\ toNode'[p] = SubSeq(toNode[p], 1, j)
          /\ stream[p] = "open" /\ stream'[p] = "closed"
      BY <2>1, <2>2, <2>4 DEF TypeOK
    <3>2. StagesInv(p)'
      BY <2>2, <3>1 DEF StagesInv
    <3>3. /\ toPeer[p] \in Seq(Frames) /\ toNode[p] \in Seq(Frames)
          /\ Wrote(noise[p]) \in Nat /\ HasRead(noise[p]) \in Nat
          /\ Wrote(peerNoise[p]) \in Nat /\ HasRead(peerNoise[p]) \in Nat
      BY CountsType DEF TypeOK
    <3>4. /\ Continues(SubSeq(toPeer[p], 1, i), HasRead(peerNoise[p]),
                       Wrote(noise[p]), TRUE, FALSE)
          /\ Continues(SubSeq(toNode[p], 1, j), HasRead(noise[p]),
                       Wrote(peerNoise[p]), FALSE, FALSE)
      BY <2>4, <3>3, CutShort DEF StreamsInv
    <3>5. StreamsInv(p)'
      BY <2>2, <3>1, <3>4 DEF StreamsInv
    <3> QED
      BY <3>2, <3>5
  <2> QED
    BY <2>3, <2>4
<1> QED
  BY <1>1, <1>2

(* The steps of a peer.                                                    *)
LEMMA PeerLinks ==
    ASSUME NoiseInv, NEW q \in Peers, PeerStep(q)
    PROVE  \A p \in Peers : StagesInv(p)' /\ StreamsInv(p)'
<1> USE DEF NoiseInv
<1> SUFFICES ASSUME NEW p \in Peers PROVE StagesInv(p)' /\ StreamsInv(p)'
  OBVIOUS
<1>1. CASE PeerReadsFirst(q)
  <2> DEFINE read == AfterHandshakeMessage(peerNoise[q])
             next == AfterHandshakeMessage(read)
  <2>1. peer[q].pc = "m1" /\ toPeer[q] # <<>>
    BY <1>1 DEF PeerReadsFirst
  <2>2. /\ peerNoise[q] \in NoiseStates /\ ~peerNoise[q].initiator
        /\ Stage(peerNoise[q], "handshake", 0)
    BY <2>1 DEF TypeOK, StagesInv
  <2>3. /\ Wrote(peerNoise[q]) = 0 /\ HasRead(peerNoise[q]) = 0
        /\ \A f : IsFrame(f, 1, TRUE) => CanReadHandshake(peerNoise[q], f)
        /\ CanBuildHandshake(read) /\ IsFrame(HandshakeFrame(read), 1, FALSE)
        /\ Stage(next, "handshake", 2) /\ ~next.initiator
        /\ Wrote(next) = 1 /\ HasRead(next) = 1
    BY <2>2, ResponderAnswers
  <2>4. HandshakeFrame(read) \in Frames
    BY <2>2, NoiseType
  <2>5. /\ IsFrame(Head(toPeer[q]), 1, TRUE)
        /\ Continues(Tail(toPeer[q]), 1, Wrote(noise[q]), TRUE, stream[q] = "open")
    <3>1. HasRead(peerNoise[q]) + 1 = 1
      BY <2>3
    <3> QED
      BY <2>1, <3>1, PeerTakesFrame
  <2>6. /\ UNCHANGED <<conn, noise, stream>>
        /\ peer' = [peer EXCEPT ![q].pc = "m3"]
        /\ peerNoise' = [peerNoise EXCEPT ![q] = next]
        /\ toPeer' = [toPeer EXCEPT ![q] = Tail(@)]
        /\ toNode' = [toNode EXCEPT ![q] = Written(q, @, HandshakeFrame(read))]
    BY <1>1, <2>3, <2>5 DEF PeerReadsFirst
  <2> HIDE DEF read, next
  <2>7. CASE p # q
    <3>1. /\ peer'[p] = peer[p] /\ toPeer'[p] = toPeer[p]
          /\ peerNoise'[p] = peerNoise[p] /\ toNode'[p] = toNode[p]
      BY <2>6, <2>7 DEF TypeOK
    <3> QED
      BY <2>6, <3>1, LinkKept
  <2>8. CASE p = q
    <3>1. /\ peer'[p].pc = "m3" /\ peerNoise'[p] = next
          /\ toPeer'[p] = Tail(toPeer[p])
          /\ toNode'[p] = Written(p, toNode[p], HandshakeFrame(read))
      BY <2>6, <2>8 DEF TypeOK
    <3>2. Wrote(peerNoise[p]) + 1 = 1
      BY <2>3, <2>8
    <3>3. /\ IsFrame(HandshakeFrame(read), Wrote(peerNoise[p]) + 1, FALSE)
          /\ Wrote(peerNoise'[p]) = Wrote(peerNoise[p]) + 1
      BY <2>3, <3>1, <3>2
    <3>4. Continues(toNode'[p], HasRead(noise'[p]), Wrote(peerNoise'[p]), FALSE,
                    stream'[p] = "open")
      BY <2>4, <2>6, <3>1, <3>3, PeerWrites
    <3>5. StreamsInv(p)'
      BY <2>3, <2>5, <2>6, <2>8, <3>1, <3>4 DEF StreamsInv
    <3>6. StagesInv(p)'
      BY <2>1, <2>3, <2>6, <2>8, <3>1 DEF StagesInv
    <3> QED
      BY <3>5, <3>6
  <2> QED
    BY <2>7, <2>8
<1>2. CASE PeerReadsThird(q)
  <2> DEFINE read == AfterHandshakeMessage(peerNoise[q])
             next == StartTransport(read)
  <2>1. peer[q].pc = "m3" /\ toPeer[q] # <<>>
    BY <1>2 DEF PeerReadsThird
  <2>2. /\ peerNoise[q] \in NoiseStates /\ ~peerNoise[q].initiator
        /\ Stage(peerNoise[q], "handshake", 2)
    BY <2>1 DEF TypeOK, StagesInv
  <2>3. /\ Wrote(peerNoise[q]) = 1 /\ HasRead(peerNoise[q]) = 1
        /\ \A f : IsFrame(f, 2, TRUE) => CanReadHandshake(peerNoise[q], f)
        /\ CanStartTransport(read)
        /\ Stage(next, "transport", 3) /\ ~next.initiator
        /\ Wrote(next) = 1 /\ HasRead(next) = 2
    BY <2>2, ResponderFinishes
  <2>4. /\ IsFrame(Head(toPeer[q]), 2, TRUE)
        /\ Continues(Tail(toPeer[q]), 2, Wrote(noise[q]), TRUE, stream[q] = "open")
    <3>1. HasRead(peerNoise[q]) + 1 = 2
      BY <2>3
    <3> QED
      BY <2>1, <3>1, PeerTakesFrame
  <2>5. /\ UNCHANGED <<conn, noise, stream, toNode>>
        /\ peer' = [peer EXCEPT ![q].pc = "up"]
        /\ peerNoise' = [peerNoise EXCEPT ![q] = next]
        /\ toPeer' = [toPeer EXCEPT ![q] = Tail(@)]
    BY <1>2, <2>3, <2>4 DEF PeerReadsThird, Unread
  <2> HIDE DEF read, next
  <2>6. CASE p # q
    <3>1. /\ peer'[p] = peer[p] /\ toPeer'[p] = toPeer[p]
          /\ peerNoise'[p] = peerNoise[p]
      BY <2>5, <2>6 DEF TypeOK
    <3> QED
      BY <2>5, <3>1, LinkKept
  <2>7. CASE p = q
    <3>1. /\ peer'[p].pc = "up" /\ peerNoise'[p] = next
          /\ toPeer'[p] = Tail(toPeer[p])
      BY <2>5, <2>7 DEF TypeOK
    <3>2. StreamsInv(p)'
      BY <2>3, <2>4, <2>5, <2>7, <3>1 DEF StreamsInv
    <3>3. StagesInv(p)'
      BY <2>1, <2>3, <2>5, <2>7, <3>1 DEF StagesInv
    <3> QED
      BY <3>2, <3>3
  <2> QED
    BY <2>6, <2>7
<1>3. CASE PeerDeserted(q)
  <2>1. /\ UNCHANGED <<conn, noise, toPeer, toNode, peerNoise>>
        /\ peer[q].pc \in {"m1", "m3"} /\ stream[q] = "closed"
        /\ peer' = [peer EXCEPT ![q].pc = "deserted"]
        /\ stream' = [stream EXCEPT ![q] = "closed"]
    BY <1>3 DEF PeerDeserted, PeerDies
  <2>2. stream'[p] = stream[p]
    BY <2>1 DEF TypeOK
  <2>3. \/ peer'[p].pc = peer[p].pc
        \/ peer[p].pc # "off" /\ peer'[p].pc = "deserted"
    BY <2>1 DEF TypeOK
  <2>4. StreamsInv(p)'
    BY <2>1, <2>2 DEF StreamsInv
  <2>5. StagesInv(p)'
    BY <2>1, <2>2, <2>3 DEF StagesInv
  <2> QED
    BY <2>4, <2>5
<1>4. CASE PeerAddsSeed(q)
  <2>1. /\ UNCHANGED <<conn, noise, stream, toPeer, toNode, peerNoise>>
        /\ peer' = [peer EXCEPT ![q].added = TRUE]
    BY <1>4 DEF PeerAddsSeed, wireVars
  <2>2. peer'[p].pc = peer[p].pc
    BY <2>1 DEF TypeOK
  <2> QED
    BY <2>1, <2>2, LinkKept
<1>5. CASE PeerReads(q)
  <2> DEFINE body == Head(toPeer[q]).body
             ack == TransportFrame(peerNoise[q], <<"ack", body[2], body[3]>>)
             in == AfterTransportIn(peerNoise[q])
             out == AfterTransportOut(in)
  <2>1. peer[q].pc = "up" /\ toPeer[q] # <<>>
    BY <1>5 DEF PeerReads
  <2>2. /\ peerNoise[q] \in NoiseStates /\ ~peerNoise[q].initiator
        /\ Stage(peerNoise[q], "transport", 3)
    BY <2>1 DEF TypeOK, StagesInv
  <2>a. (~peerNoise[q].initiator) = TRUE /\ peerNoise[q].initiator = FALSE
    BY <2>2 DEF NoiseStates
  <2>3. /\ IsFrame(Head(toPeer[q]), HasRead(peerNoise[q]) + 1, TRUE)
        /\ Continues(Tail(toPeer[q]), HasRead(peerNoise[q]) + 1,
                     Wrote(noise[q]), TRUE, stream[q] = "open")
    BY <2>1, PeerTakesFrame
  <2>4. CanReadTransport(peerNoise[q], Head(toPeer[q]))
    BY <2>2, <2>3, <2>a, TransportNext
  <2>5. body \in Messages
    <3>1. Head(toPeer[q]) \in Frames
      BY <2>1, TailType DEF TypeOK
    <3> QED
      BY <2>4, <3>1 DEF Frames, CanReadTransport
  <2>6. ack \in Frames
    BY <2>2, <2>5, NoiseType, MessageType
  <2>7. IsFrame(ack, Wrote(peerNoise[q]) + 1, FALSE)
    BY <2>2, <2>a, TransportNext
  <2>8. /\ in \in NoiseStates /\ ~in.initiator /\ Stage(in, "transport", 3)
        /\ Wrote(in) = Wrote(peerNoise[q])
        /\ HasRead(in) = HasRead(peerNoise[q]) + 1
    BY <2>2, TransportCounts, NoiseType
  <2>9. /\ ~out.initiator /\ Stage(out, "transport", 3)
        /\ Wrote(out) = Wrote(in) + 1 /\ HasRead(out) = HasRead(in)
    BY <2>8, TransportCounts
  <2>10. /\ UNCHANGED <<conn, stream, noise>>
         /\ toPeer' = [toPeer EXCEPT ![q] = Tail(@)]
         /\ \/ /\ peerNoise' = [peerNoise EXCEPT ![q] = out]
               /\ toNode' = [toNode EXCEPT ![q] = Written(q, @, ack)]
            \/ /\ peerNoise' = [peerNoise EXCEPT ![q] = in]
               /\ toNode' = toNode
    BY <1>5, <2>4 DEF PeerReads
  <2>11. peer'[p].pc = peer[p].pc
    <3> DEFINE longer == Append(peer[q].inbox, body)
    <3>1. peer' = peer \/ peer' = [peer EXCEPT ![q].inbox = longer]
      BY <1>5, <2>4 DEF PeerReads
    <3> HIDE DEF longer
    <3>2. p \in DOMAIN peer /\ "pc" \in DOMAIN peer[p]
      BY DEF TypeOK
    <3>3. [peer EXCEPT ![q].inbox = longer][p].pc = peer[p].pc
      BY ONLY <3>2
    <3> QED
      BY ONLY <3>1, <3>3
  <2> HIDE DEF ack, in, out
  <2>12. CASE p # q
    <3>1. /\ toPeer'[p] = toPeer[p] /\ toNode'[p] = toNode[p]
          /\ peerNoise'[p] = peerNoise[p]
      BY <2>10, <2>12 DEF TypeOK
    <3> QED
      BY <2>10, <2>11, <3>1, LinkKept
  <2>13. CASE p = q
    <3>1. /\ toPeer'[p] = Tail(toPeer[p])
          /\ \/ peerNoise'[p] = out /\ toNode'[p] = Written(p, toNode[p], ack)
             \/ peerNoise'[p] = in /\ toNode'[p] = toNode[p]
      BY <2>10, <2>13 DEF TypeOK
    <3>2. Continues(toNode'[p], HasRead(noise'[p]), Wrote(peerNoise'[p]), FALSE,
                    stream'[p] = "open")
      <4>1. CASE peerNoise'[p] = out /\ toNode'[p] = Written(p, toNode[p], ack)
        <5>1. Wrote(peerNoise'[p]) = Wrote(peerNoise[p]) + 1
          BY <2>8, <2>9, <2>13, <4>1
        <5> QED
          BY <2>6, <2>7, <2>10, <2>13, <4>1, <5>1, PeerWrites
      <4>2. CASE peerNoise'[p] = in /\ toNode'[p] = toNode[p]
        BY <2>8, <2>10, <2>13, <4>2 DEF StreamsInv
      <4> QED
        BY <3>1, <4>1, <4>2
    <3>3. HasRead(peerNoise'[p]) = HasRead(peerNoise[p]) + 1
      BY <2>8, <2>9, <2>13, <3>1
    <3>4. StreamsInv(p)'
      BY <2>3, <2>10, <2>13, <3>1, <3>2, <3>3 DEF StreamsInv
    <3>5. StagesInv(p)'
      BY <2>1, <2>8, <2>9, <2>10, <2>11, <2>13, <3>1 DEF StagesInv
    <3> QED
      BY <3>4, <3>5
  <2> QED
    BY <2>12, <2>13
<1>6. CASE PeerTakes(q)
  <2> DEFINE body == Head(peer[q].inbox)
             out == AfterTransportOut(peerNoise[q])
  <2>1. peer[q].pc = "up" /\ peer[q].inbox # <<>>
    BY <1>6 DEF PeerTakes
  <2>2. /\ peerNoise[q] \in NoiseStates /\ ~peerNoise[q].initiator
        /\ Stage(peerNoise[q], "transport", 3)
    BY <2>1 DEF TypeOK, StagesInv
  <2>3. body[3] \in Peers
    <3>1. peer[q].inbox \in Seq(Messages)
      BY DEF TypeOK
    <3> QED
      BY <2>1, <3>1, TailType, MessageType
  <2>4. /\ UNCHANGED <<conn, noise, stream, toPeer>>
        /\ \E next : peer' = [peer EXCEPT ![q] = next] /\ next.pc = peer[q].pc
        /\ \/ UNCHANGED <<toNode, peerNoise>>
           \/ \E what \in {"oleh", "package"}, j \in Peers :
                /\ peerNoise' = [peerNoise EXCEPT ![q] = out]
                /\ toNode' = [toNode EXCEPT ![q] =
                      Written(q, @, TransportFrame(peerNoise[q], <<"send", what, j>>))]
    <3> DEFINE next == [peer[q] EXCEPT !.inbox = Tail(@)]
               busy == [next EXCEPT !.loop = "broadcast", !.inbox = <<>>]
               mute == [next EXCEPT !.mute = TRUE]
    <3>1. next.pc = peer[q].pc /\ busy.pc = peer[q].pc /\ mute.pc = peer[q].pc
      BY DEF TypeOK
    <3>2. UNCHANGED <<conn, noise, stream, toPeer>>
      BY <1>6 DEF PeerTakes
    <3>3. \/ PeerAnswers(q, "oleh", q, next)
          \/ PeerAnswers(q, "package", body[3], busy)
          \/ peer' = [peer EXCEPT ![q] = mute] /\ UNCHANGED <<toNode, peerNoise>>
          \/ peer' = [peer EXCEPT ![q] = next] /\ UNCHANGED <<toNode, peerNoise>>
      BY <1>6 DEF PeerTakes
    <3> HIDE DEF next, busy, mute, body
    <3> QED
      BY <2>3, <3>1, <3>2, <3>3 DEF PeerAnswers
  <2>5. peer'[p].pc = peer[p].pc
    BY <2>4 DEF TypeOK
  <2>6. CASE p # q \/ UNCHANGED <<toNode, peerNoise>>
    <3>1. toNode'[p] = toNode[p] /\ peerNoise'[p] = peerNoise[p]
      BY <2>4, <2>6 DEF TypeOK
    <3> QED
      BY <2>4, <2>5, <3>1, LinkKept
  <2>7. ASSUME p = q, NEW what \in {"oleh", "package"}, NEW j \in Peers,
               peerNoise' = [peerNoise EXCEPT ![q] = out],
               toNode' = [toNode EXCEPT ![q] =
                   Written(q, @, TransportFrame(peerNoise[q], <<"send", what, j>>))]
        PROVE  StagesInv(p)' /\ StreamsInv(p)'
    <3> DEFINE f == TransportFrame(peerNoise[p], <<"send", what, j>>)
    <3>1. peerNoise'[p] = out /\ toNode'[p] = Written(p, toNode[p], f)
      BY <2>7 DEF TypeOK
    <3>2. f \in Frames
      BY <2>2, <2>7, NoiseType, SendMessageType
    <3>3. IsFrame(f, Wrote(peerNoise[p]) + 1, FALSE)
      <4>1. peerNoise[q].initiator = FALSE
        BY <2>2 DEF NoiseStates
      <4> QED
        BY <2>2, <2>7, <4>1, TransportNext
    <3>4. /\ ~out.initiator /\ Stage(out, "transport", 3)
          /\ Wrote(out) = Wrote(peerNoise[p]) + 1
          /\ HasRead(out) = HasRead(peerNoise[p])
      BY <2>2, <2>7, TransportCounts
    <3> HIDE DEF f, out
    <3>5. Continues(toNode'[p], HasRead(noise'[p]), Wrote(peerNoise'[p]), FALSE,
                    stream'[p] = "open")
      BY <2>4, <3>1, <3>2, <3>3, <3>4, PeerWrites
    <3>6. StreamsInv(p)'
      BY <2>4, <3>1, <3>4, <3>5 DEF StreamsInv
    <3>7. StagesInv(p)'
      BY <2>1, <2>4, <2>5, <2>7, <3>1, <3>4 DEF StagesInv
    <3> QED
      BY <3>6, <3>7
  <2> QED
    BY <2>4, <2>6, <2>7
<1> QED
  BY <1>1, <1>2, <1>3, <1>4, <1>5, <1>6 DEF PeerStep

(* A usable file makes a node that serves, with a key.                     *)
LEMMA UsableServes ==
    ASSUME TypeOK, Usable
    PROVE  /\ AfterStart(LoadConfig(file)) = "accept"
           /\ BuildsKeypair(LoadConfig(file)[1].key)
<1> DEFINE c == [network |-> NetworkOf(file.network), seeds |-> SeedsOf(file.peer),
                 key |-> KeyOf(file.noise)]
<1>1. file.kind = "toml" /\ file.noise # <<>> /\ file.noise[1].key = <<PemKey>>
  BY DEF Usable
<1>2. LoadConfig(file) = <<c>>
  BY <1>1 DEF LoadConfig, ParseConfig, KeyMissing
<1>3. c.key = PemKey
  BY <1>1 DEF KeyOf
<1>4. c.seeds = <<>>
  BY DEF Usable, GivesOrLeaves, SeedsOf, OrDefault, DefaultSeeds
<1>5. GetBindAddress(c.network) \notin Taken
  <2> DEFINE b == NetworkOf(file.network).bind
             t == NetworkOf(file.network).port
  <2>1. CASE file.network = <<>>
    <3>1. /\ GivesOrLeaves(file.network, "bind", b, "localhost")
          /\ GivesOrLeaves(file.network, "port", t, 6680)
      BY <2>1 DEF NetworkOf, DefaultNetwork, GivesOrLeaves
    <3> QED
      BY <3>1 DEF GetBindAddress, Usable
  <2>2. CASE file.network # <<>>
    <3>1. Optional(file.network[1].bind) /\ Optional(file.network[1].port)
      BY <1>1, <2>2, FilesAssumption DEF TypeOK, WellFormed
    <3>2. /\ b = OrDefault(file.network[1].bind, "localhost")
          /\ t = OrDefault(file.network[1].port, 6680)
      BY <2>2 DEF NetworkOf, DefaultNetwork
    <3> HIDE DEF b, t
    <3>3. GivesOrLeaves(file.network, "bind", b, "localhost")
      BY <2>2, <3>1, <3>2 DEF OrDefault, GivesOrLeaves, Optional
    <3>4. GivesOrLeaves(file.network, "port", t, 6680)
      BY <2>2, <3>1, <3>2 DEF OrDefault, GivesOrLeaves, Optional
    <3> QED
      BY <3>3, <3>4 DEF GetBindAddress, Usable, b, t
  <2> QED
    BY <2>1, <2>2
<1> HIDE DEF c
<1>6. <<c>> # <<>> /\ <<c>>[1] = c
  OBVIOUS
<1>7. AfterStart(LoadConfig(file)) = "accept"
  BY <1>2, <1>4, <1>5, <1>6 DEF AfterStart
<1> QED
  BY <1>2, <1>3, <1>6, <1>7 DEF BuildsKeypair

(* No step opens a stream that has closed.                                 *)
LEMMA ClosedStays ==
    ASSUME NoiseInv, Next, NEW p \in Peers, stream[p] = "closed"
    PROVE  stream'[p] = "closed"
<1>1. CASE MainStep \/ MainTimesOut
  BY <1>1 DEF MainStep, Start, AcceptFails, AddMember, SendToJoiner,
              BroadcastRoundOne, Accept,
              FinishHandshake, Deserted, Die, MainTimesOut, wireVars
<1>2. CASE EchoStep
  BY <1>2 DEF EchoStep, TakeCall, FinishSend, SendToMember, wireVars
<1>3. ASSUME NEW q \in Peers, ConnStep(q) \/ EventLoop(q)
      PROVE  stream'[p] = "closed"
  BY <1>3 DEF ConnStep, ConnReads, ConnStops, EventLoop, wireVars
<1>4. ASSUME NEW q \in Peers, PeerStep(q)
      PROVE  stream'[p] = "closed"
  <2>1. \/ UNCHANGED stream
        \/ stream' = [stream EXCEPT ![q] = "closed"]
    BY <1>4 DEF PeerStep, PeerReadsFirst, PeerReadsThird, PeerDeserted, PeerDies,
                PeerAddsSeed, PeerReads, PeerTakes, wireVars
  <2> QED
    BY <2>1 DEF NoiseInv, TypeOK
<1>5. ASSUME NEW q \in Peers, PeerConnects(q) \/ Break(q)
      PROVE  stream'[p] = "closed"
  <2>1. stream[q] # "closed"
    BY <1>5 DEF PeerConnects, Break, NoiseInv, StagesInv
  <2> QED
    BY <1>5, <2>1 DEF PeerConnects, Break, NoiseInv, TypeOK
<1> QED
  BY <1>1, <1>2, <1>3, <1>4, <1>5 DEF Next

(* A step that leaves the main task and the connections where they are.    *)
LEMMA MainKept ==
    ASSUME NoiseInv, Next, file' = file, main' = main, conn' = conn
    PROVE  MainInv'
<1>1. Usable' = Usable
  BY DEF Usable
<1>2. MainInv
  BY DEF NoiseInv
<1> QED
  BY <1>1, <1>2, ClosedStays DEF MainInv

(* A step after which the main task lives and waits for no handshake.      *)
LEMMA MainElsewhere ==
    ASSUME main'.pc \notin Causes \cup {"noise"}
    PROVE  MainInv'
  BY DEF MainInv, Causes

LEMMA MainInvStep == NoiseInv /\ [Next]_vars => MainInv'
<1> SUFFICES ASSUME NoiseInv, [Next]_vars PROVE MainInv'
  OBVIOUS
<1>a. TypeOK /\ MainInv
  BY DEF NoiseInv
<1>0. CASE UNCHANGED vars
  <2>1. Usable' = Usable
    BY <1>0 DEF Usable, vars
  <2> QED
    BY <1>0, <1>a, <2>1 DEF MainInv, vars
<1> SUFFICES ASSUME Next PROVE MainInv'
  BY <1>0
<1>b. main \in [pc : PcsOfMain, peer : Peers \cup {NoPeer}]
  BY <1>a DEF TypeOK
<1>1. ASSUME Start PROVE MainInv'
  <2>1. main'.pc = AfterStart(LoadConfig(file)) /\ file' = file
    BY <1>1 DEF Start, At
  <2>2. main'.pc \in {"no_config", "no_seeds", "no_address", "accept"}
    BY <2>1 DEF AfterStart
  <2>3. Usable' => main'.pc = "accept"
    <3>1. Usable' = Usable
      BY <2>1 DEF Usable
    <3> QED
      BY <1>a, <2>1, <3>1, UsableServes
  <2> QED
    BY <2>2, <2>3 DEF MainInv
<1>2. ASSUME AddMember \/ SendToJoiner \/ BroadcastRoundOne \/ MainTimesOut
      PROVE  MainInv'
  <2>1. main'.pc \notin Causes \cup {"noise"}
    BY <1>2, <1>b DEF AddMember, SendToJoiner, BroadcastRoundOne, MainTimesOut,
                      AfterSend, At, Causes
  <2> QED
    BY <2>1, MainElsewhere
<1>3. ASSUME NEW q \in Peers, Accept(q) PROVE MainInv'
  <2>1. CASE BuildsKeypair(LoadConfig(file)[1].key)
    <3>1. /\ main'.pc = "noise" /\ main'.peer = q
          /\ conn' = [conn EXCEPT ![q] = "handshake"]
      BY <1>3, <2>1 DEF Accept, At
    <3>2. conn'[q] = "handshake"
      BY <1>a, <3>1 DEF TypeOK
    <3> QED
      BY <3>1, <3>2 DEF MainInv
  <2>2. CASE ~BuildsKeypair(LoadConfig(file)[1].key)
    <3>1. main'.pc = "no_key" /\ file' = file
      BY <1>3, <2>2 DEF Accept, Die, At
    <3>2. ~Usable'
      <4>1. Usable' = Usable
        BY <3>1 DEF Usable
      <4> QED
        BY <1>a, <2>2, <4>1, UsableServes
    <3> QED
      BY <3>1, <3>2 DEF MainInv
  <2> QED
    BY <2>1, <2>2
<1>4. ASSUME NEW q \in Peers, FinishHandshake(q) PROVE MainInv'
  <2> DEFINE read == AfterHandshakeMessage(noise[q])
             done == AfterHandshakeMessage(read)
  <2>1. main = At("noise", q) /\ toNode[q] # <<>>
    BY <1>4 DEF FinishHandshake
  <2>2. conn[q] = "handshake"
    BY <1>a, <2>1 DEF MainInv, At
  <2>3. /\ noise[q] \in NoiseStates /\ noise[q].initiator
        /\ Stage(noise[q], "handshake", 1)
    BY <2>2 DEF NoiseInv, TypeOK, StagesInv
  <2>4. /\ HasRead(noise[q]) = 0
        /\ \A f : IsFrame(f, 1, FALSE) => CanReadHandshake(noise[q], f)
        /\ CanBuildHandshake(read) /\ CanStartTransport(done)
    BY <2>3, InitiatorFinishes
  <2>5. IsFrame(Head(toNode[q]), 1, FALSE)
    <3>1. HasRead(noise[q]) + 1 = 1
      BY <2>4
    <3> QED
      BY <2>1, <3>1, NodeTakes DEF NoiseInv
  <2>6. main' = At("add_member", q)
    BY <1>4, <2>4, <2>5 DEF FinishHandshake
  <2> QED
    BY <2>6, MainElsewhere DEF At, Causes
<1>5. ASSUME NEW q \in Peers, Deserted(q) PROVE MainInv'
  <2>1. /\ main' = At("deserted", q) /\ main = At("noise", q)
        /\ conn' = conn /\ stream[q] = "closed"
    BY <1>5 DEF Deserted, Die
  <2>2. stream'[q] = "closed" /\ conn'[q] = "handshake"
    BY <1>a, <2>1, ClosedStays DEF MainInv, At
  <2> QED
    BY <2>1, <2>2 DEF MainInv, At
<1>6. ASSUME EchoStep PROVE MainInv'
  <2>1. file' = file /\ conn' = conn
    BY <1>6 DEF EchoStep, TakeCall, FinishSend, SendToMember
  <2>2. main' = main \/ main'.pc = "send_membership"
    <3>1. CASE FinishSend
      <4>1. PICK S : ReturnErr(S)
        BY <3>1 DEF FinishSend
      <4> QED
        BY <1>b, <4>1 DEF ReturnErr
    <3> QED
      BY <1>6, <3>1 DEF EchoStep, TakeCall, SendToMember
  <2> QED
    BY <2>1, <2>2, MainKept, MainElsewhere DEF Causes
<1>7. ASSUME NEW q \in Peers, ConnStep(q) PROVE MainInv'
  <2>1. file' = file /\ conn[q] = "running" /\ ~Dead
    BY <1>7 DEF ConnStep, ConnReads, ConnStops
  <2>2. \A p \in Peers : conn[p] = "handshake" => conn'[p] = "handshake"
    BY <1>7, <1>a, <2>1 DEF ConnStep, ConnReads, ConnStops, TypeOK
  <2>3. main' = main \/ main'.pc \in {"round_one", "accept"}
    <3>1. CASE ConnStops(q)
      BY <3>1 DEF ConnStops
    <3>2. CASE ConnReads(q)
      BY <1>b, <3>2 DEF ConnReads, WakeMain, AfterSend, At
    <3> QED
      BY <1>7, <3>1, <3>2 DEF ConnStep
  <2>4. CASE main' = main
    <3>1. main.pc = "noise" => main.peer \in Peers
      BY <1>a DEF TypeOK, Joining
    <3>2. main'.pc \notin Causes
      BY <2>1, <2>4 DEF Dead
    <3>3. main'.pc = "noise" => conn'[main'.peer] = "handshake"
      BY <1>a, <2>2, <2>4, <3>1 DEF MainInv
    <3> QED
      BY <3>2, <3>3 DEF MainInv, Causes
  <2> QED
    BY <2>3, <2>4, MainElsewhere DEF Causes
<1>8. ASSUME NEW q \in Peers, EventLoop(q) PROVE MainInv'
  BY <1>8, MainKept DEF EventLoop
<1>9. ASSUME NEW q \in Peers, PeerStep(q) PROVE MainInv'
  BY <1>9, MainKept DEF PeerStep, PeerReadsFirst, PeerReadsThird, PeerDeserted,
                        PeerAddsSeed, PeerReads, PeerTakes
<1>10. ASSUME NEW q \in Peers, PeerConnects(q) \/ Break(q) PROVE MainInv'
  BY <1>10, MainKept DEF PeerConnects, Break
<1>11. ASSUME AcceptFails PROVE MainInv'
  <2>1. main' = At("accept_failed", NoPeer)
    BY <1>11 DEF AcceptFails, Die
  <2> QED
    BY <2>1 DEF MainInv, At
<1> QED
  BY <1>1, <1>2, <1>3, <1>4, <1>5, <1>6, <1>7, <1>8, <1>9, <1>10, <1>11
     DEF Next, MainStep

LEMMA NoiseInit == Init => NoiseInv
<1> SUFFICES ASSUME Init PROVE NoiseInv
  OBVIOUS
<1>1. TypeOK
  BY TypeInit
<1>2. MainInv
  BY DEF Init, At, MainInv
<1>3. ASSUME NEW p \in Peers PROVE StagesInv(p) /\ StreamsInv(p)
  <2>1. /\ noise[p] = NewNoise(TRUE) /\ peerNoise[p] = NewNoise(FALSE)
        /\ conn[p] = "none" /\ stream[p] = "none" /\ peer[p].pc = "off"
        /\ toPeer[p] = <<>> /\ toNode[p] = <<>>
    BY DEF Init, NewPeer
  <2>2. StagesInv(p)
    BY <2>1 DEF StagesInv, Stage, NewNoise
  <2>3. /\ Wrote(noise[p]) = 0 /\ HasRead(noise[p]) = 0
        /\ Wrote(peerNoise[p]) = 0 /\ HasRead(peerNoise[p]) = 0
    BY <2>1 DEF NewNoise, Wrote, HasRead
  <2>4. \A initiator : Continues(<<>>, 0, 0, initiator, FALSE)
    <3>1. Len(<<>>) = 0
      OBVIOUS
    <3> QED
      BY ONLY <3>1 DEF Continues
  <2>5. StreamsInv(p)
    BY <2>1, <2>3, <2>4 DEF StreamsInv
  <2> QED
    BY <2>2, <2>5
<1> QED
  BY <1>1, <1>2, <1>3 DEF NoiseInv

(* The inductive invariant: every frame in flight is the one its reader    *)
(* expects next, or follows it; how far both ends of a connection are; and *)
(* why the main task has ended, if it has.                                 *)
THEOREM NoiseInvariance == Spec => []NoiseInv
<1>1. NoiseInv /\ [Next]_vars => NoiseInv'
  <2> SUFFICES ASSUME NoiseInv, [Next]_vars PROVE NoiseInv'
    OBVIOUS
  <2>1. TypeOK' /\ MainInv'
    BY TypeStep, MainInvStep DEF NoiseInv
  <2>2. \A p \in Peers : StagesInv(p)' /\ StreamsInv(p)'
    <3>1. CASE UNCHANGED vars
      BY <3>1, LinkKept DEF vars, NoiseInv
    <3>2. CASE Next
      BY <3>2, MainLinks, EchoLinks, ConnLinks, PeerLinks, WireLinks DEF Next
    <3> QED
      BY <3>1, <3>2
  <2> QED
    BY <2>1, <2>2 DEF NoiseInv
<1> QED
  BY <1>1, NoiseInit, PTL DEF Spec

(* No end ever panics in its noise handler: every frame is read in the mode*)
(* and under the number it was written for, whatever arrives in one read,  *)
(* comes late or breaks.                                                   *)
THEOREM NoiseNeverPanics == Spec => []NoiseInStep
<1>1. NoiseInv => NoiseInStep
  BY DEF NoiseInv, MainInv, StagesInv, NoiseInStep
<1> QED
  BY <1>1, NoiseInvariance, PTL

(* A node with a usable configuration file is ended by a failed accept or  *)
(* by a stream that ended, queued or not, before its peer had written the  *)
(* second message of the handshake; whatever a member does does not end it.*)
THEOREM EndsBeforeJoin == Spec => []EndsOnlyBeforeJoin
<1>1. NoiseInv /\ IInv => EndsOnlyBeforeJoin
  <2> SUFFICES ASSUME NoiseInv, IInv, Usable, Dead, main.pc # "accept_failed"
               PROVE  \E p \in Peers \ members : /\ main = At("deserted", p)
                                                /\ stream[p] = "closed"
                                                /\ conn[p] = "handshake"
    BY DEF EndsOnlyBeforeJoin
  <2>1. main.pc = "deserted"
    BY DEF NoiseInv, MainInv, Dead, Causes
  <2>2. /\ main.peer \in Peers
        /\ stream[main.peer] = "closed"
        /\ conn[main.peer] = "handshake"
    BY <2>1 DEF NoiseInv, MainInv
  <2>3. main.peer \notin members
    BY <2>2 DEF IInv, TasksSpawned, SenderRuns
  <2>4. main = At("deserted", main.peer)
    BY <2>1 DEF IInv, TypeOK, At
  <2> QED
    BY <2>2, <2>3, <2>4
<1> QED
  BY <1>1, Invariance, NoiseInvariance, PTL
=============================================================================
