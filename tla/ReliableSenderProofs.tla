------------------------ MODULE ReliableSenderProofs ------------------------
(* Theorems about ReliableSender for every set of calls and ends, whichever*)
(* calls are timed, and for all positive capacities.                       *)
EXTENDS ReliableSender, TLAPS

-----------------------------------------------------------------------------
(* What the promises rest on: where a numbered message can be.  Frames the *)
(* stream still holds or has handed over for end e, the oldest first.      *)
InFlight(e) ==
    connection_receiver[e] \o
      (IF ca[e].state = "forwarding" THEN <<ca[e].frame>> ELSE <<>>) \o
      wire[Peer[e]]

(* What e has received or is about to, once it has acknowledged it.        *)
Accepted(e) ==
    handled[e] \o client_rx[e] \o
      (IF rs[e].state \in {"acking", "delivering"} THEN <<rs[e].frame.call>>
                                                   ELSE <<>>)

(* How many frames e has handed to its connection actor and been answered. *)
Handed(e) == IF rs[e].state = "sending" THEN Len(sent[e]) - 1 ELSE Len(sent[e])

Carries(q, i, n) == q[i].type = "Send" /\ q[i].seq = n

(* The Send frames of q carry the calls numbered k+1, k+2 and so on, none  *)
(* of them beyond number top.                                              *)
InSequence(q, k, calls, top) ==
    \A i \in 1..Len(q) : q[i].type = "Send" =>
        /\ q[i].seq \in (k + 1)..top
        /\ q[i].call = calls[q[i].seq]
        /\ \A j \in 1..(i - 1) : q[j].type = "Send" => q[j].seq < q[i].seq
        /\ \A n \in (k + 1)..(q[i].seq - 1) :
              \E j \in 1..(i - 1) : Carries(q, j, n)

(* An end that can still write waits for its writes and for nothing else;  *)
(* its reliable sender holds nothing but Send frames.                      *)
TasksInv ==
    \A e \in Ends :
        /\ rs[e].state # "select" => rs[e].frame.type = "Send"
        /\ ca[e] = Writing => WaitsForWrite(e)
        /\ ca[e] = Stopped => ~WaitsForWrite(e) /\ link = "down"

(* The calls made at e, in order, are calls of e, made and made once.      *)
CallsOf(e) == sent[e] \o receiver[e]
CallsInv ==
    \A e \in Ends :
        /\ \A i \in 1..Len(CallsOf(e)) : /\ Caller[CallsOf(e)[i]] = e
                                         /\ outcome[CallsOf(e)[i]] # "new"
        /\ \A i, j \in 1..Len(CallsOf(e)) :
             CallsOf(e)[i] = CallsOf(e)[j] => i = j

(* A call waits for its ack under its number, unless it has been answered. *)
WaitingInv ==
    /\ \A e \in Ends : \A w \in waiting_for_ack[e] :
         w.seq \in 1..Len(sent[e]) /\ sent[e][w.seq] = w.call
    /\ \A c \in Calls : outcome[c] = "pending" =>
         \/ Contains(receiver[Caller[c]], c)
         \/ \E w \in waiting_for_ack[Caller[c]] : w.call = c

(* The messages e has accepted are the first that its peer has handed over.*)
AcceptedInv(e) ==
    LET p == Peer[e] IN
    /\ Len(Accepted(e)) <= Handed(p)
    /\ \A i \in 1..Len(Accepted(e)) : Accepted(e)[i] = sent[p][i]

(* What the reliable sender waits to have written: the last call it took,  *)
(* or the ack of the last message it accepted.                             *)
HeldInv(e) ==
    /\ rs[e].state = "sending" =>
         /\ Len(sent[e]) > 0
         /\ rs[e].frame.seq = Len(sent[e])
         /\ rs[e].frame.call = sent[e][Len(sent[e])]
    /\ rs[e].state = "acking" => rs[e].frame.seq = Len(Accepted(e))

(* What is in flight to e follows what it has accepted, until its actor    *)
(* stops, and while the stream is up nothing is missing.                   *)
FlightInv(e) ==
    LET p == Peer[e]
        k == Len(Accepted(e))
        q == InFlight(e)
    IN
    /\ ca[e] # Stopped => InSequence(q, k, sent[p], Handed(p))
    /\ link = "up" =>
         \A n \in (k + 1)..Handed(p) : \E i \in 1..Len(q) : Carries(q, i, n)

(* An ack in flight is for a message its writer has received.              *)
AckInv(e) ==
    \A i \in 1..Len(InFlight(e)) :
        InFlight(e)[i].type = "Ack" =>
            InFlight(e)[i].seq \in 1..Len(Received(Peer[e]))

FramesInv == \A e \in Ends :
    AcceptedInv(e) /\ HeldInv(e) /\ FlightInv(e) /\ AckInv(e)

IInv == /\ TypeOK /\ TasksInv /\ CallsInv /\ WaitingInv /\ FramesInv
        /\ OkMeansDelivered

-----------------------------------------------------------------------------
(* Sequences.                                                              *)

(* Appending to a sequence.                                                *)
LEMMA AppendType ==
    ASSUME NEW S, NEW s \in Seq(S), NEW x \in S
    PROVE  /\ Append(s, x) \in Seq(S)
           /\ Len(Append(s, x)) = Len(s) + 1
           /\ \A i \in 1..Len(s) : Append(s, x)[i] = s[i]
           /\ Append(s, x)[Len(s) + 1] = x
  OBVIOUS

(* The head and the tail of a sequence.                                    *)
LEMMA TailType ==
    ASSUME NEW S, NEW s \in Seq(S), s # <<>>
    PROVE  /\ Head(s) \in S
           /\ Head(s) = s[1]
           /\ Tail(s) \in Seq(S)
           /\ Len(s) \in Nat \ {0}
           /\ Len(Tail(s)) = Len(s) - 1
           /\ \A i \in 1..Len(s) - 1 : Tail(s)[i] = s[i + 1]
  OBVIOUS

(* A prefix of a sequence.                                                 *)
LEMMA PrefixType ==
    ASSUME NEW S, NEW s \in Seq(S), NEW n \in 0..Len(s)
    PROVE  /\ SubSeq(s, 1, n) \in Seq(S)
           /\ Len(SubSeq(s, 1, n)) = n
           /\ \A i \in 1..n : SubSeq(s, 1, n)[i] = s[i]
  OBVIOUS

(* The concatenation of two sequences.                                     *)
LEMMA ConcatType ==
    ASSUME NEW S, NEW s \in Seq(S), NEW t \in Seq(S)
    PROVE  /\ s \o t \in Seq(S)
           /\ Len(s \o t) = Len(s) + Len(t)
           /\ \A i \in 1..Len(s) : (s \o t)[i] = s[i]
           /\ \A i \in 1..Len(t) : (s \o t)[Len(s) + i] = t[i]
  OBVIOUS

(* Sequences with the same elements are equal.                             *)
LEMMA SameElements ==
    ASSUME NEW S, NEW s \in Seq(S), NEW t \in Seq(S), Len(s) = Len(t),
           \A i \in 1..Len(s) : s[i] = t[i]
    PROVE  s = t
  OBVIOUS

(* The empty sequence and those of one element.                            *)
LEMMA SmallType ==
    ASSUME NEW S
    PROVE  /\ <<>> \in Seq(S) /\ Len(<<>>) = 0
           /\ \A x \in S : /\ <<x>> \in Seq(S) /\ Len(<<x>>) = 1
                           /\ <<x>>[1] = x
  OBVIOUS

(* An element moves from the front of one queue to the back of the one     *)
(* before it.                                                              *)
LEMMA MoveHead ==
    ASSUME NEW S, NEW s \in Seq(S), NEW t \in Seq(S), t # <<>>
    PROVE  /\ Append(s, Head(t)) \o Tail(t) = s \o t
           /\ s \o <<Head(t)>> \o Tail(t) = s \o t
  <1>1. Append(s, Head(t)) \o Tail(t) = s \o t
    OBVIOUS
  <1>2. s \o <<Head(t)>> = Append(s, Head(t))
    OBVIOUS
  <1> QED
    BY <1>1, <1>2

(* Appending to the last of two queues.                                    *)
LEMMA ConcatAppend ==
    ASSUME NEW S, NEW s \in Seq(S), NEW t \in Seq(S), NEW x \in S
    PROVE  s \o Append(t, x) = Append(s \o t, x)
  OBVIOUS

(* A queue of one element.                                                 *)
LEMMA ConcatOne ==
    ASSUME NEW S, NEW s \in Seq(S), NEW x \in S
    PROVE  s \o <<x>> = Append(s, x)
  OBVIOUS

(* An empty queue.                                                         *)
LEMMA ConcatNone ==
    ASSUME NEW S, NEW s \in Seq(S)
    PROVE  s \o <<>> = s
  OBVIOUS

(* Taking the head of the first of two queues.                             *)
LEMMA ConcatTail ==
    ASSUME NEW S, NEW s \in Seq(S), NEW t \in Seq(S), s # <<>>
    PROVE  /\ s \o t # <<>>
           /\ Tail(s) \o t = Tail(s \o t)
           /\ Head(s) = Head(s \o t)
  OBVIOUS

(* Cutting the last of two queues short.                                   *)
LEMMA ConcatPrefix ==
    ASSUME NEW S, NEW s \in Seq(S), NEW t \in Seq(S), NEW n \in 0..Len(t)
    PROVE  /\ s \o SubSeq(t, 1, n) = SubSeq(s \o t, 1, Len(s) + n)
           /\ Len(s) + n \in 0..Len(s \o t)
  OBVIOUS

-----------------------------------------------------------------------------
(* What an action of a queue of frames does to the order of its frames.    *)

(* The oldest frame, when it is a Send, has the next number.               *)
LEMMA NextInSequence ==
    ASSUME NEW q \in Seq(Frames), NEW k \in Nat, NEW calls, NEW top \in Nat,
           InSequence(q, k, calls, top),
           q # <<>>, Head(q).type = "Send"
    PROVE  /\ Head(q).seq = k + 1
           /\ k + 1 <= top
           /\ Head(q).call = calls[k + 1]
  <1>1. 1 \in 1..Len(q) /\ q[1] = Head(q) /\ Head(q) \in Frames
    BY TailType
  <1>2. q[1].seq \in Nat
    BY <1>1 DEF Frames
  <1>3. /\ q[1].seq \in (k + 1)..top
        /\ q[1].call = calls[q[1].seq]
        /\ \A n \in (k + 1)..(q[1].seq - 1) :
             \E j \in 1..(1 - 1) : Carries(q, j, n)
    BY <1>1 DEF InSequence
  <1>4. q[1].seq = k + 1
    BY <1>2, <1>3
  <1> QED
    BY <1>1, <1>3, <1>4

(* Taking the oldest frame: after a Send the count has gone on by one.     *)
LEMMA TailInSequence ==
    ASSUME NEW q \in Seq(Frames), NEW k \in Nat, NEW calls, NEW top \in Nat,
           InSequence(q, k, calls, top), q # <<>>
    PROVE  InSequence(Tail(q), IF Head(q).type = "Send" THEN k + 1 ELSE k,
                      calls, top)
  <1> DEFINE t == Tail(q)
             m == IF Head(q).type = "Send" THEN k + 1 ELSE k
  <1>1. /\ t \in Seq(Frames) /\ Len(t) = Len(q) - 1 /\ Len(q) \in Nat \ {0}
        /\ \A i \in 1..Len(q) - 1 : t[i] = q[i + 1]
        /\ Head(q) = q[1]
    BY TailType
  <1>2. \A i \in 1..Len(q) : q[i].seq \in Nat
    BY DEF Frames
  <1>3. m \in Nat /\ (\/ m = k
                      \/ m = k + 1 /\ q[1].type = "Send" /\ q[1].seq = k + 1)
    <2>1. CASE Head(q).type = "Send"
      BY <2>1, <1>1, NextInSequence
    <2>2. CASE Head(q).type # "Send"
      BY <2>2
    <2> QED
      BY <2>1, <2>2
  <1>4. m = k => q[1].type # "Send"
    BY <1>1
  <1> HIDE DEF t, m
  <1>5. ASSUME NEW i \in 1..Len(t), t[i].type = "Send"
        PROVE  /\ t[i].seq \in (m + 1)..top
               /\ t[i].call = calls[t[i].seq]
               /\ \A j \in 1..(i - 1) : t[j].type = "Send" => t[j].seq < t[i].seq
               /\ \A n \in (m + 1)..(t[i].seq - 1) :
                     \E j \in 1..(i - 1) : Carries(t, j, n)
    <2>1. i \in Nat /\ i + 1 \in 1..Len(q) /\ t[i] = q[i + 1]
      BY <1>1
    <2>2. /\ q[i + 1].seq \in (k + 1)..top
          /\ q[i + 1].call = calls[q[i + 1].seq]
          /\ \A j \in 1..((i + 1) - 1) :
               q[j].type = "Send" => q[j].seq < q[i + 1].seq
          /\ \A n \in (k + 1)..(q[i + 1].seq - 1) :
               \E j \in 1..((i + 1) - 1) : Carries(q, j, n)
      BY <2>1, <1>5 DEF InSequence
    <2>3. t[i].seq \in (m + 1)..top
      <3>1. 1 \in 1..((i + 1) - 1)
        BY <2>1
      <3>2. q[1].type = "Send" => q[1].seq < q[i + 1].seq
        BY <3>1, <2>2
      <3> QED
        BY <1>1, <1>2, <1>3, <2>1, <2>2, <3>2
    <2>4. ASSUME NEW j \in 1..(i - 1), t[j].type = "Send"
          PROVE  t[j].seq < t[i].seq
      <3>1. j + 1 \in 1..((i + 1) - 1) /\ t[j] = q[j + 1]
        BY <1>1, <2>1
      <3> QED
        BY <3>1, <2>1, <2>2, <2>4
    <2>5. ASSUME NEW n \in (m + 1)..(t[i].seq - 1)
          PROVE  \E j \in 1..(i - 1) : Carries(t, j, n)
      <3>1. n # k + 1 \/ m = k
        BY <1>2, <1>3, <2>1
      <3>2. n \in (k + 1)..(q[i + 1].seq - 1)
        BY <1>2, <1>3, <2>1
      <3>3. PICK j \in 1..((i + 1) - 1) : Carries(q, j, n)
        BY <3>2, <2>2
      <3>4. j # 1
        BY <3>3, <3>1, <1>3, <1>4 DEF Carries
      <3>5. j - 1 \in 1..(i - 1) /\ j - 1 \in 1..Len(q) - 1 /\ (j - 1) + 1 = j
        BY <3>4, <2>1, <1>1
      <3>6. t[j - 1] = q[j]
        BY <3>5, <1>1
      <3> QED
        BY <3>3, <3>5, <3>6 DEF Carries
    <2> QED
      BY <2>1, <2>2, <2>3, <2>4, <2>5
  <1>6. InSequence(t, m, calls, top)
    BY <1>5 DEF InSequence
  <1> QED
    BY <1>6 DEF t, m

(* Writing the next frame, when none before it is missing, or an ack.      *)
LEMMA AppendInSequence ==
    ASSUME NEW q \in Seq(Frames), NEW k \in Nat, NEW calls, NEW top \in Nat,
           InSequence(q, k, calls, top),
           NEW f \in Frames, NEW up \in Nat,
           \/ f.type = "Ack" /\ up = top
           \/ /\ f.type = "Send" /\ f.seq = top + 1 /\ up = top + 1
              /\ k <= top /\ f.call = calls[top + 1]
              /\ \A n \in (k + 1)..top : \E i \in 1..Len(q) : Carries(q, i, n)
    PROVE  InSequence(Append(q, f), k, calls, up)
  <1> DEFINE t == Append(q, f)
  <1>1. /\ t \in Seq(Frames) /\ Len(t) = Len(q) + 1 /\ Len(q) \in Nat
        /\ \A i \in 1..Len(q) : t[i] = q[i]
        /\ t[Len(q) + 1] = f
    BY AppendType
  <1>2. \A i \in 1..Len(q) : q[i].seq \in Nat
    BY DEF Frames
  <1> HIDE DEF t
  <1>3. ASSUME NEW i \in 1..Len(t), t[i].type = "Send"
        PROVE  /\ t[i].seq \in (k + 1)..up
               /\ t[i].call = calls[t[i].seq]
               /\ \A j \in 1..(i - 1) : t[j].type = "Send" => t[j].seq < t[i].seq
               /\ \A n \in (k + 1)..(t[i].seq - 1) :
                     \E j \in 1..(i - 1) : Carries(t, j, n)
    <2>1. CASE i <= Len(q)
      <3>1. i \in 1..Len(q) /\ t[i] = q[i]
            /\ \A j \in 1..(i - 1) : j \in 1..Len(q) /\ t[j] = q[j]
        BY <2>1, <1>1
      <3>2. /\ q[i].seq \in (k + 1)..top
            /\ q[i].call = calls[q[i].seq]
            /\ \A j \in 1..(i - 1) : q[j].type = "Send" => q[j].seq < q[i].seq
            /\ \A n \in (k + 1)..(q[i].seq - 1) :
                 \E j \in 1..(i - 1) : Carries(q, j, n)
        BY <3>1, <1>3 DEF InSequence
      <3>3. t[i].seq \in (k + 1)..up
        BY <3>1, <3>2, <1>2
      <3>4. ASSUME NEW n \in (k + 1)..(t[i].seq - 1)
            PROVE  \E j \in 1..(i - 1) : Carries(t, j, n)
        <4>1. PICK j \in 1..(i - 1) : Carries(q, j, n)
          BY <3>1, <3>2
        <4> QED
          BY <4>1, <3>1 DEF Carries
      <3> QED
        BY <3>1, <3>2, <3>3, <3>4
    <2>2. CASE i = Len(q) + 1
      <3>1. /\ t[i] = f /\ f.type = "Send" /\ f.seq = top + 1 /\ up = top + 1
            /\ k <= top /\ f.call = calls[top + 1]
            /\ \A n \in (k + 1)..top : \E j \in 1..Len(q) : Carries(q, j, n)
        BY <2>2, <1>1, <1>3
      <3>2. \A j \in 1..Len(q) : q[j].type = "Send" => q[j].seq \in (k + 1)..top
        BY DEF InSequence
      <3>3. i - 1 = Len(q)
        BY <2>2, <1>1
      <3>4. \A j \in 1..(i - 1) : t[j].type = "Send" => t[j].seq < t[i].seq
        BY <3>1, <3>2, <3>3, <1>1, <1>2
      <3>5. ASSUME NEW n \in (k + 1)..(t[i].seq - 1)
            PROVE  \E j \in 1..(i - 1) : Carries(t, j, n)
        <4>1. n \in (k + 1)..top
          BY <3>1
        <4>2. PICK j \in 1..Len(q) : Carries(q, j, n)
          BY <4>1, <3>1
        <4>3. j \in 1..(i - 1) /\ t[j] = q[j]
          BY <3>3, <1>1
        <4> QED
          BY <4>2, <4>3 DEF Carries
      <3> QED
        BY <3>1, <3>4, <3>5
    <2> QED
      BY <2>1, <2>2, <1>1
  <1>4. InSequence(t, k, calls, up)
    BY <1>3 DEF InSequence
  <1> QED
    BY <1>4 DEF t

(* Losing the newest frames.                                               *)
LEMMA PrefixInSequence ==
    ASSUME NEW q \in Seq(Frames), NEW k \in Nat, NEW calls, NEW top \in Nat,
           InSequence(q, k, calls, top), NEW n \in 0..Len(q)
    PROVE  InSequence(SubSeq(q, 1, n), k, calls, top)
  <1> DEFINE t == SubSeq(q, 1, n)
  <1>1. /\ t \in Seq(Frames) /\ Len(t) = n /\ n \in Nat /\ n <= Len(q)
        /\ \A i \in 1..n : t[i] = q[i]
    BY PrefixType
  <1> HIDE DEF t
  <1>2. ASSUME NEW i \in 1..Len(t), t[i].type = "Send"
        PROVE  /\ t[i].seq \in (k + 1)..top
               /\ t[i].call = calls[t[i].seq]
               /\ \A j \in 1..(i - 1) : t[j].type = "Send" => t[j].seq < t[i].seq
               /\ \A m \in (k + 1)..(t[i].seq - 1) :
                     \E j \in 1..(i - 1) : Carries(t, j, m)
    <2>1. i \in 1..Len(q) /\ t[i] = q[i] /\ \A j \in 1..(i - 1) : t[j] = q[j]
      BY <1>1
    <2>2. /\ q[i].seq \in (k + 1)..top
          /\ q[i].call = calls[q[i].seq]
          /\ \A j \in 1..(i - 1) : q[j].type = "Send" => q[j].seq < q[i].seq
          /\ \A m \in (k + 1)..(q[i].seq - 1) :
               \E j \in 1..(i - 1) : Carries(q, j, m)
      BY <2>1, <1>2 DEF InSequence
    <2>3. ASSUME NEW m \in (k + 1)..(t[i].seq - 1)
          PROVE  \E j \in 1..(i - 1) : Carries(t, j, m)
      <3>1. PICK j \in 1..(i - 1) : Carries(q, j, m)
        BY <2>1, <2>2
      <3> QED
        BY <3>1, <2>1 DEF Carries
    <2> QED
      BY <2>1, <2>2, <2>3
  <1>3. InSequence(t, k, calls, top)
    BY <1>2 DEF InSequence
  <1> QED
    BY <1>3 DEF t

(* More calls have been numbered.                                          *)
LEMMA MoreInSequence ==
    ASSUME NEW q \in Seq(Frames), NEW k \in Nat, NEW calls, NEW top \in Nat,
           InSequence(q, k, calls, top), NEW more, NEW up \in Nat, top <= up,
           \A n \in 1..top : more[n] = calls[n]
    PROVE  InSequence(q, k, more, up)
  <1>1. ASSUME NEW i \in 1..Len(q), q[i].type = "Send"
        PROVE  q[i].seq \in (k + 1)..up /\ q[i].call = more[q[i].seq]
    <2>1. q[i].seq \in Nat
      BY DEF Frames
    <2>2. q[i].seq \in (k + 1)..top /\ q[i].call = calls[q[i].seq]
      BY <1>1 DEF InSequence
    <2> QED
      BY <2>1, <2>2
  <1> QED
    BY <1>1 DEF InSequence

-----------------------------------------------------------------------------
(* Types.                                                                  *)

(* The parts of a frame, and the frames an end writes.                     *)
LEMMA FrameType ==
    /\ \A f \in Frames : /\ f.type \in {"Send", "Ack"} /\ f.seq \in Nat
                         /\ f.type = "Send" => f.call \in Calls
    /\ \A c \in Calls, n \in Nat :
         /\ SendFrame(c, n) \in Frames /\ SendFrame(c, n).type = "Send"
         /\ SendFrame(c, n).call = c /\ SendFrame(c, n).seq = n
    /\ \A n \in Nat : /\ AckFrame(n) \in Frames /\ AckFrame(n).type = "Ack"
                      /\ AckFrame(n).seq = n
  BY DEF Frames, SendFrame, AckFrame

(* What the reliable sender can be doing.                                  *)
LEMMA RsType ==
    /\ Select \in RsStates /\ Select.state = "select"
    /\ \A f \in Frames :
         /\ Sending(f) \in RsStates /\ Sending(f).state = "sending"
         /\ Sending(f).frame = f
         /\ Acking(f) \in RsStates /\ Acking(f).state = "acking"
         /\ Acking(f).frame = f
         /\ Delivering(f) \in RsStates /\ Delivering(f).state = "delivering"
         /\ Delivering(f).frame = f
    /\ \A r \in RsStates :
         /\ r.state \in {"select", "sending", "acking", "delivering"}
         /\ r.state # "select" => r.frame \in Frames
         /\ r.state = "select" => r = Select
  BY DEF RsStates, Select, Sending, Acking, Delivering

(* What the connection actor can be doing.                                 *)
LEMMA CaType ==
    /\ Idle \in CaStates /\ Idle.state = "select"
    /\ Writing \in CaStates /\ Writing.state = "writing"
    /\ Stopped \in CaStates /\ Stopped.state = "stopped"
    /\ \A f \in Frames : /\ Forwarding(f) \in CaStates
                         /\ Forwarding(f).state = "forwarding"
                         /\ Forwarding(f).frame = f
    /\ \A s \in CaStates : s.state = "forwarding" => s.frame \in Frames
  BY DEF CaStates, Idle, Writing, Stopped, Forwarding

(* The types of the initial state.                                         *)
LEMMA TypeInit == Init => TypeOK
  <1> SUFFICES ASSUME Init PROVE TypeOK
    OBVIOUS
  <1>1. /\ <<>> \in Seq(Calls) /\ <<>> \in Seq(Frames) /\ Len(<<>>) = 0
    BY SmallType
  <1>2. /\ RsCap \in Nat /\ ConnCap \in Nat /\ ClientCap \in Nat /\ WireCap \in Nat
    BY CapAssumption
  <1> QED
    BY <1>1, <1>2, RsType, CaType DEF Init, TypeOK, Outcomes

(* What each action puts where has the type of the place.                  *)
LEMMA TypeStep == TypeOK /\ TasksInv /\ [Next]_vars => TypeOK'
  <1> SUFFICES ASSUME TypeOK, TasksInv, [Next]_vars PROVE TypeOK'
    OBVIOUS
  <1>0. /\ RsCap \in Nat /\ ConnCap \in Nat /\ ClientCap \in Nat /\ WireCap \in Nat
    BY CapAssumption
  <1>1. ASSUME NEW c \in Calls, Call(c)
        PROVE  TypeOK'
    <2>1. Caller[c] \in Ends
      BY CallsAssumption
    <2>2. outcome' \in [Calls -> Outcomes]
      BY <1>1 DEF Call, TypeOK, Outcomes
    <2>3. /\ receiver[Caller[c]] \in Seq(Calls)
          /\ Len(receiver[Caller[c]]) < RsCap
      BY <1>1, <2>1 DEF Call, RsRoom, TypeOK
    <2>4. /\ Append(receiver[Caller[c]], c) \in Seq(Calls)
          /\ Len(Append(receiver[Caller[c]], c)) <= RsCap
      BY <2>3, <1>0, AppendType
    <2>5. receiver' = [receiver EXCEPT ![Caller[c]] = Append(receiver[Caller[c]], c)]
      BY <1>1 DEF Call
    <2>6. /\ receiver' \in [Ends -> Seq(Calls)]
          /\ \A e \in Ends : Len(receiver'[e]) <= RsCap
      BY <2>1, <2>4, <2>5 DEF TypeOK
    <2> QED
      BY <1>1, <2>2, <2>6 DEF Call, TypeOK
  <1>2. ASSUME NEW c \in Calls, CallTimesOut(c)
        PROVE  TypeOK'
    <2>1. outcome' \in [Calls -> Outcomes]
      BY <1>2 DEF CallTimesOut, TypeOK, Outcomes
    <2> QED
      BY <1>2, <2>1 DEF CallTimesOut, TypeOK
  <1>3. ASSUME NEW e \in Ends, HandleMessage(e)
        PROVE  TypeOK'
    <2> DEFINE c == Head(receiver[e])
               n == Len(sent[e]) + 1
    <2>1. /\ receiver[e] \in Seq(Calls) /\ receiver[e] # <<>>
          /\ sent[e] \in Seq(Calls) /\ Len(receiver[e]) <= RsCap
          /\ waiting_for_ack[e] \in SUBSET [seq : Nat, call : Calls]
      BY <1>3 DEF HandleMessage, TypeOK
    <2>2. /\ c \in Calls /\ Tail(receiver[e]) \in Seq(Calls)
          /\ Len(Tail(receiver[e])) <= RsCap
      BY <2>1, <1>0, TailType
    <2>3. n \in Nat /\ Append(sent[e], c) \in Seq(Calls)
      BY <2>1, <2>2
    <2>4. /\ sent' = [sent EXCEPT ![e] = Append(sent[e], c)]
          /\ receiver' = [receiver EXCEPT ![e] = Tail(receiver[e])]
          /\ waiting_for_ack' = [waiting_for_ack EXCEPT ![e] =
               {w \in waiting_for_ack[e] : w.seq # n} \cup {[seq |-> n, call |-> c]}]
          /\ rs' = [rs EXCEPT ![e] = IF ca[e] = Stopped
                                       THEN Select ELSE Sending(SendFrame(c, n))]
      BY <1>3 DEF HandleMessage, NextSequenceNumber
    <2> HIDE DEF c, n
    <2>5. /\ receiver' \in [Ends -> Seq(Calls)]
          /\ \A d \in Ends : Len(receiver'[d]) <= RsCap
      BY <2>2, <2>4 DEF TypeOK
    <2>6. sent' \in [Ends -> Seq(Calls)]
      BY <2>3, <2>4 DEF TypeOK
    <2>7. waiting_for_ack' \in [Ends -> SUBSET [seq : Nat, call : Calls]]
      BY <2>1, <2>2, <2>3, <2>4 DEF TypeOK
    <2>8. rs' \in [Ends -> RsStates]
      BY <2>2, <2>3, <2>4, RsType, FrameType DEF TypeOK
    <2> QED
      BY <1>3, <2>5, <2>6, <2>7, <2>8 DEF HandleMessage, TypeOK
  <1>4. ASSUME NEW e \in Ends, connection_receiver[e] # <<>>,
               connection_receiver' =
                 [connection_receiver EXCEPT ![e] = Tail(@)]
        PROVE  /\ connection_receiver' \in [Ends -> Seq(Frames)]
               /\ \A d \in Ends : Len(connection_receiver'[d]) <= ConnCap
               /\ Head(connection_receiver[e]) \in Frames
    <2>1. connection_receiver[e] \in Seq(Frames) /\ Len(connection_receiver[e]) <= ConnCap
      BY DEF TypeOK
    <2>2. /\ Tail(connection_receiver[e]) \in Seq(Frames)
          /\ Len(Tail(connection_receiver[e])) <= ConnCap
          /\ Head(connection_receiver[e]) \in Frames
      BY <2>1, <1>0, <1>4, TailType
    <2> QED
      BY <2>2, <1>4 DEF TypeOK
  <1>5. ASSUME NEW e \in Ends, HandleSendFrame(e)
        PROVE  TypeOK'
    <2>1. /\ connection_receiver' \in [Ends -> Seq(Frames)]
          /\ \A d \in Ends : Len(connection_receiver'[d]) <= ConnCap
          /\ Head(connection_receiver[e]) \in Frames
      BY <1>4, <1>5 DEF HandleSendFrame
    <2>2. rs' \in [Ends -> RsStates]
      BY <2>1, <1>5, RsType DEF HandleSendFrame, AfterSendFrame, TypeOK
    <2> QED
      BY <1>5, <2>1, <2>2 DEF HandleSendFrame, TypeOK
  <1>6. ASSUME NEW e \in Ends, HandleAckFrame(e)
        PROVE  TypeOK'
    <2>1. /\ connection_receiver' \in [Ends -> Seq(Frames)]
          /\ \A d \in Ends : Len(connection_receiver'[d]) <= ConnCap
      BY <1>4, <1>6 DEF HandleAckFrame
    <2>2. waiting_for_ack' \in [Ends -> SUBSET [seq : Nat, call : Calls]]
      BY <1>6 DEF HandleAckFrame, TypeOK
    <2>3. outcome' \in [Calls -> Outcomes]
      BY <1>6 DEF HandleAckFrame, Answer, TypeOK, Outcomes
    <2> QED
      BY <1>6, <2>1, <2>2, <2>3 DEF HandleAckFrame, TypeOK
  <1>7. ASSUME NEW e \in Ends, Deliver(e)
        PROVE  TypeOK'
    <2>1. /\ rs[e] \in RsStates /\ rs[e].state = "delivering"
          /\ client_rx[e] \in Seq(Calls) /\ Len(client_rx[e]) < ClientCap
      BY <1>7 DEF Deliver, TypeOK
    <2>2. rs[e].frame \in Frames /\ rs[e].frame.type = "Send"
      BY <2>1, RsType DEF TasksInv
    <2>3. rs[e].frame.call \in Calls
      BY <2>2, FrameType
    <2>4. /\ Append(client_rx[e], rs[e].frame.call) \in Seq(Calls)
          /\ Len(Append(client_rx[e], rs[e].frame.call)) <= ClientCap
      BY <2>1, <2>3, <1>0, AppendType
    <2>5. client_rx' = [client_rx EXCEPT ![e] = Append(client_rx[e], rs[e].frame.call)]
      BY <1>7 DEF Deliver
    <2>6. /\ client_rx' \in [Ends -> Seq(Calls)]
          /\ \A d \in Ends : Len(client_rx'[d]) <= ClientCap
      BY <2>4, <2>5 DEF TypeOK
    <2>7. rs' \in [Ends -> RsStates]
      BY <1>7, RsType DEF Deliver, TypeOK
    <2> QED
      BY <1>7, <2>6, <2>7 DEF Deliver, TypeOK
  <1>8. ASSUME NEW e \in Ends, TakeCommand(e)
        PROVE  TypeOK'
    <2>1. ca' \in [Ends -> CaStates]
      BY <1>8, CaType DEF TakeCommand, TypeOK
    <2> QED
      BY <1>8, <2>1 DEF TakeCommand, TypeOK
  <1>9. ASSUME NEW e \in Ends, ca[e] = Writing
        PROVE  AfterWrite(e) \in RsStates /\ OutFrame(e) \in Frames
    <2>1. /\ rs[e] \in RsStates
          /\ rs[e].state \in {"sending", "acking"}
      BY <1>9 DEF TasksInv, WaitsForWrite, TypeOK
    <2>2. rs[e].frame \in Frames
      BY <2>1, RsType
    <2>3. rs[e].frame.seq \in Nat
      BY <2>2, FrameType
    <2> QED
      BY <2>2, <2>3, RsType, FrameType DEF AfterWrite, OutFrame
  <1>10. ASSUME NEW e \in Ends, Write(e)
         PROVE  TypeOK'
    <2>1. wire[e] \in Seq(Frames) /\ Len(wire[e]) < WireCap /\ ca[e] = Writing
      BY <1>10 DEF Write, TypeOK
    <2>2. /\ Append(wire[e], OutFrame(e)) \in Seq(Frames)
          /\ Len(Append(wire[e], OutFrame(e))) <= WireCap
      BY <2>1, <1>9, <1>0, AppendType
    <2>3. /\ wire' = [wire EXCEPT ![e] = Append(wire[e], OutFrame(e))]
          /\ rs' = [rs EXCEPT ![e] = AfterWrite(e)]
          /\ ca' = [ca EXCEPT ![e] = Idle]
      BY <1>10 DEF Write
    <2>4. /\ wire' \in [Ends -> Seq(Frames)]
          /\ \A d \in Ends : Len(wire'[d]) <= WireCap
      BY <2>2, <2>3 DEF TypeOK
    <2>5. ca' \in [Ends -> CaStates] /\ rs' \in [Ends -> RsStates]
      BY <2>1, <2>3, <1>9, CaType DEF TypeOK
    <2> QED
      BY <1>10, <2>4, <2>5 DEF Write, TypeOK
  <1>11. ASSUME NEW e \in Ends, WriteLost(e)
         PROVE  TypeOK'
    <2>1. ca' \in [Ends -> CaStates] /\ rs' \in [Ends -> RsStates]
      BY <1>11, <1>9, CaType DEF WriteLost, TypeOK
    <2> QED
      BY <1>11, <2>1 DEF WriteLost, TypeOK
  <1>12. ASSUME NEW e \in Ends, WriteFails(e)
         PROVE  TypeOK'
    <2>1. ca' \in [Ends -> CaStates] /\ rs' \in [Ends -> RsStates]
      BY <1>12, CaType, RsType DEF WriteFails, AfterFailedWrite, TypeOK
    <2> QED
      BY <1>12, <2>1 DEF WriteFails, TypeOK
  <1>13. ASSUME NEW e \in Ends, Read(e)
         PROVE  TypeOK'
    <2> DEFINE p == Peer[e]
    <2>1. p \in Ends /\ wire[p] \in Seq(Frames) /\ wire[p] # <<>>
          /\ Len(wire[p]) <= WireCap
      BY <1>13, EndsAssumption DEF Read, TypeOK
    <2>2. /\ Tail(wire[p]) \in Seq(Frames) /\ Head(wire[p]) \in Frames
          /\ Len(Tail(wire[p])) <= WireCap
      BY <2>1, <1>0, TailType
    <2>3. /\ wire' = [wire EXCEPT ![p] = Tail(wire[p])]
          /\ ca' = [ca EXCEPT ![e] = Forwarding(Head(wire[p]))]
      BY <1>13 DEF Read
    <2> HIDE DEF p
    <2>4. /\ wire' \in [Ends -> Seq(Frames)]
          /\ \A d \in Ends : Len(wire'[d]) <= WireCap
      BY <2>1, <2>2, <2>3 DEF TypeOK
    <2>5. ca' \in [Ends -> CaStates]
      BY <2>2, <2>3, CaType DEF TypeOK
    <2> QED
      BY <1>13, <2>4, <2>5 DEF Read, TypeOK
  <1>14. ASSUME NEW e \in Ends, Forward(e)
         PROVE  TypeOK'
    <2>1. /\ connection_receiver[e] \in Seq(Frames)
          /\ Len(connection_receiver[e]) < ConnCap
          /\ ca[e] \in CaStates /\ ca[e].state = "forwarding"
      BY <1>14 DEF Forward, HasRoom, TypeOK
    <2>2. ca[e].frame \in Frames
      BY <2>1, CaType
    <2>3. /\ Append(connection_receiver[e], ca[e].frame) \in Seq(Frames)
          /\ Len(Append(connection_receiver[e], ca[e].frame)) <= ConnCap
      BY <2>1, <2>2, <1>0, AppendType
    <2>4. /\ connection_receiver' = [connection_receiver EXCEPT ![e] =
                                      Append(connection_receiver[e], ca[e].frame)]
          /\ ca' = [ca EXCEPT ![e] = Idle]
      BY <1>14 DEF Forward
    <2>5. /\ connection_receiver' \in [Ends -> Seq(Frames)]
          /\ \A d \in Ends : Len(connection_receiver'[d]) <= ConnCap
      BY <2>3, <2>4 DEF TypeOK
    <2>6. ca' \in [Ends -> CaStates]
      BY <2>4, CaType DEF TypeOK
    <2> QED
      BY <1>14, <2>5, <2>6 DEF Forward, TypeOK
  <1>15. ASSUME NEW e \in Ends, ReadClosed(e)
         PROVE  TypeOK'
    <2>1. ca' \in [Ends -> CaStates] /\ rs' \in [Ends -> RsStates]
      BY <1>15, CaType, RsType DEF ReadClosed, AfterFailedWrite, TypeOK
    <2> QED
      BY <1>15, <2>1 DEF ReadClosed, TypeOK
  <1>16. ASSUME NEW e \in Ends, ClientTakes(e)
         PROVE  TypeOK'
    <2>1. /\ client_rx[e] \in Seq(Calls) /\ client_rx[e] # <<>>
          /\ Len(client_rx[e]) <= ClientCap /\ handled[e] \in Seq(Calls)
      BY <1>16 DEF ClientTakes, TypeOK
    <2>2. /\ Tail(client_rx[e]) \in Seq(Calls)
          /\ Len(Tail(client_rx[e])) <= ClientCap
          /\ Append(handled[e], Head(client_rx[e])) \in Seq(Calls)
      BY <2>1, <1>0, TailType, AppendType
    <2>3. /\ client_rx' = [client_rx EXCEPT ![e] = Tail(client_rx[e])]
          /\ handled' = [handled EXCEPT ![e] = Append(handled[e], Head(client_rx[e]))]
      BY <1>16 DEF ClientTakes
    <2>4. /\ client_rx' \in [Ends -> Seq(Calls)]
          /\ \A d \in Ends : Len(client_rx'[d]) <= ClientCap
          /\ handled' \in [Ends -> Seq(Calls)]
      BY <2>2, <2>3 DEF TypeOK
    <2> QED
      BY <1>16, <2>4 DEF ClientTakes, TypeOK
  <1>17. ASSUME Break
         PROVE  TypeOK'
    <2>1. PICK kept \in [Ends -> 0..WireCap] :
              /\ \A e \in Ends : kept[e] <= Len(wire[e])
              /\ wire' = [e \in Ends |-> SubSeq(wire[e], 1, kept[e])]
      BY <1>17 DEF Break
    <2>2. ASSUME NEW e \in Ends
          PROVE  /\ SubSeq(wire[e], 1, kept[e]) \in Seq(Frames)
                 /\ Len(SubSeq(wire[e], 1, kept[e])) <= WireCap
      <3>1. wire[e] \in Seq(Frames) /\ kept[e] \in 0..Len(wire[e]) /\ kept[e] <= WireCap
        BY <2>1, <1>0 DEF TypeOK
      <3> QED
        BY <3>1, PrefixType
    <2>3. /\ wire' \in [Ends -> Seq(Frames)]
          /\ \A d \in Ends : Len(wire'[d]) <= WireCap
      BY <2>1, <2>2
    <2> QED
      BY <1>17, <2>3 DEF Break, TypeOK
  <1>18. CASE UNCHANGED vars
    BY <1>18 DEF vars, TypeOK
  <1> QED
    BY <1>1, <1>2, <1>3, <1>5, <1>6, <1>7, <1>8, <1>10, <1>11, <1>12, <1>13,
       <1>14, <1>15, <1>16, <1>17, <1>18 DEF Next, RsStep, CaStep

(* The reliable sender and the connection actor of an end stay in step:    *)
(* a write has somebody who waits for it, and nobody waits for a stopped   *)
(* actor.                                                                  *)
LEMMA TasksStep == TypeOK /\ TasksInv /\ [Next]_vars => TasksInv'
  <1> SUFFICES ASSUME TypeOK, TasksInv, [Next]_vars, NEW d \in Ends
               PROVE  /\ rs'[d].state # "select" => rs'[d].frame.type = "Send"
                      /\ ca'[d] = Writing => WaitsForWrite(d)'
                      /\ ca'[d] = Stopped => ~WaitsForWrite(d)' /\ link' = "down"
    BY DEF TasksInv
  <1> DEFINE Kept == /\ rs'[d].state # "select" => rs'[d].frame.type = "Send"
                     /\ ca'[d] = Writing => WaitsForWrite(d)'
                     /\ ca'[d] = Stopped => ~WaitsForWrite(d)' /\ link' = "down"
  <1>0. /\ rs \in [Ends -> RsStates] /\ ca \in [Ends -> CaStates]
        /\ rs[d] \in RsStates /\ ca[d] \in CaStates
        /\ rs[d].state # "select" => rs[d].frame.type = "Send"
        /\ ca[d] = Writing => WaitsForWrite(d)
        /\ ca[d] = Stopped => ~WaitsForWrite(d) /\ link = "down"
    BY DEF TypeOK, TasksInv
  <1>1. ASSUME UNCHANGED <<rs, ca>>, link' = link \/ link' = "down"
        PROVE  Kept
    BY <1>0, <1>1 DEF WaitsForWrite
  <1>2. ASSUME NEW e \in Ends, HandleMessage(e)
        PROVE  Kept
    <2> DEFINE f == SendFrame(Head(receiver[e]), NextSequenceNumber(e))
    <2>1. /\ rs' = [rs EXCEPT ![e] = IF ca[e] = Stopped THEN Select ELSE Sending(f)]
          /\ ca' = ca /\ link' = link
      BY <1>2 DEF HandleMessage
    <2>2. f.type = "Send"
      BY DEF SendFrame
    <2>3. Sending(f).state = "sending" /\ Sending(f).frame = f
      BY DEF Sending
    <2> HIDE DEF f
    <2> QED
      BY <2>1, <2>2, <2>3, <1>0, RsType DEF WaitsForWrite
  <1>3. ASSUME NEW e \in Ends, HandleSendFrame(e)
        PROVE  Kept
    <2> DEFINE f == Head(connection_receiver[e])
    <2>1. /\ rs' = [rs EXCEPT ![e] = IF ca[e] = Stopped THEN Select ELSE Acking(f)]
          /\ ca' = ca /\ link' = link /\ f.type = "Send"
      BY <1>3 DEF HandleSendFrame, AfterSendFrame
    <2>3. Acking(f).state = "acking" /\ Acking(f).frame = f
      BY DEF Acking
    <2> HIDE DEF f
    <2> QED
      BY <2>1, <2>3, <1>0, RsType DEF WaitsForWrite
  <1>4. ASSUME NEW e \in Ends, Deliver(e)
        PROVE  Kept
    BY <1>4, <1>0, RsType DEF Deliver, WaitsForWrite
  <1>5. ASSUME NEW e \in Ends, TakeCommand(e)
        PROVE  Kept
    BY <1>5, <1>0, CaType DEF TakeCommand, WaitsForWrite
  <1>6. ASSUME NEW e \in Ends, Write(e) \/ WriteLost(e)
        PROVE  Kept
    <2>1. /\ ca' = [ca EXCEPT ![e] = Idle] /\ link' = link
          /\ rs' = [rs EXCEPT ![e] = AfterWrite(e)]
          /\ ca[e] = Writing
      BY <1>6 DEF Write, WriteLost
    <2>2. rs[e].state \in {"sending", "acking"} /\ rs[e].frame.type = "Send"
      BY <2>1 DEF TasksInv, WaitsForWrite
    <2>3. /\ AfterWrite(e).state # "select" => AfterWrite(e).frame.type = "Send"
      BY <2>2 DEF AfterWrite, Select, Delivering
    <2> QED
      BY <2>1, <2>3, <1>0, CaType DEF WaitsForWrite
  <1>7. ASSUME NEW e \in Ends, WriteFails(e) \/ ReadClosed(e)
        PROVE  Kept
    <2>1. /\ ca' = [ca EXCEPT ![e] = Stopped] /\ link' = "down" /\ link = "down"
          /\ \/ rs' = [rs EXCEPT ![e] = Select]
             \/ rs' = rs /\ ~WaitsForWrite(e)
      BY <1>7, <1>0 DEF WriteFails, ReadClosed, AfterFailedWrite
    <2>2. ca'[e] = Stopped /\ (d # e => ca'[d] = ca[d])
      BY <2>1, <1>0
    <2>3. CASE rs' = rs /\ ~WaitsForWrite(e)
      BY <2>1, <2>2, <2>3, <1>0, CaType DEF WaitsForWrite
    <2>4. CASE rs' = [rs EXCEPT ![e] = Select]
      BY <2>1, <2>2, <2>4, <1>0, CaType, RsType DEF WaitsForWrite
    <2> QED
      BY <2>1, <2>3, <2>4
  <1>8. ASSUME NEW e \in Ends, Read(e) \/ Forward(e)
        PROVE  Kept
    <2>1. PICK s : /\ ca' = [ca EXCEPT ![e] = s] /\ s.state \notin {"writing", "stopped"}
                   /\ rs' = rs /\ link' = link
      BY <1>8, CaType DEF Read, Forward, Forwarding
    <2>2. s # Writing /\ s # Stopped
      BY <2>1, CaType
    <2> QED
      BY <2>1, <2>2, <1>0 DEF WaitsForWrite
  <1>9. CASE \E c \in Calls : Call(c) \/ CallTimesOut(c)
    BY <1>1, <1>9 DEF Call, CallTimesOut
  <1>10. CASE \E e \in Ends : HandleAckFrame(e) \/ ClientTakes(e)
    BY <1>1, <1>10 DEF HandleAckFrame, ClientTakes
  <1>11. CASE Break
    BY <1>1, <1>11 DEF Break
  <1>12. CASE UNCHANGED vars
    BY <1>1, <1>12 DEF vars
  <1> QED
    BY <1>2, <1>3, <1>4, <1>5, <1>6, <1>7, <1>8, <1>9, <1>10, <1>11, <1>12
       DEF Next, RsStep, CaStep

(* The types hold in every reachable state: no channel holds more than its *)
(* capacity, and what the reliable sender delivers is a message.           *)
THEOREM TypeCorrect == Spec => []TypeOK
  <1>1. Init => TypeOK /\ TasksInv
    <2>1. Init => TasksInv
      BY RsType, CaType DEF Init, TasksInv
    <2> QED
      BY <2>1, TypeInit
  <1>2. (TypeOK /\ TasksInv) /\ [Next]_vars => (TypeOK /\ TasksInv)'
    BY TypeStep, TasksStep
  <1> QED
    BY <1>1, <1>2, PTL DEF Spec

-----------------------------------------------------------------------------
(* Calls.                                                                  *)

(* A call that is made stays made, and one that has returned stays so.     *)
LEMMA OutcomeStep ==
    TypeOK /\ [Next]_vars =>
        \A c \in Calls :
            /\ outcome[c] # "new" => outcome'[c] # "new"
            /\ outcome[c] \in {"ok", "timeout"} => outcome'[c] = outcome[c]
  <1> SUFFICES ASSUME TypeOK, [Next]_vars, NEW c \in Calls
               PROVE  /\ outcome[c] # "new" => outcome'[c] # "new"
                      /\ outcome[c] \in {"ok", "timeout"} => outcome'[c] = outcome[c]
    OBVIOUS
  <1>0. outcome \in [Calls -> Outcomes]
    BY DEF TypeOK
  <1>1. CASE \E d \in Calls : Call(d) \/ CallTimesOut(d)
    BY <1>0, <1>1 DEF Call, CallTimesOut
  <1>2. CASE \E e \in Ends : HandleAckFrame(e)
    <2>1. PICK e \in Ends : HandleAckFrame(e)
      BY <1>2
    <2>2. outcome'[c] = Answer(outcome[c]) \/ outcome'[c] = outcome[c]
      BY <2>1 DEF HandleAckFrame
    <2> QED
      BY <2>2 DEF Answer
  <1>3. CASE UNCHANGED outcome
    BY <1>3
  <1> QED
    BY <1>1, <1>2, <1>3 DEF Next, RsStep, CaStep, HandleMessage, HandleSendFrame,
       Deliver, TakeCommand, Write, WriteLost, WriteFails, Read, Forward,
       ReadClosed, ClientTakes, Break, vars

(* A new call comes last; handing a call over changes no place in the      *)
(* order; nothing else touches the order.                                  *)
LEMMA CallsStep == TypeOK /\ CallsInv /\ [Next]_vars => CallsInv'
  <1> SUFFICES ASSUME TypeOK, CallsInv, [Next]_vars, NEW e \in Ends
               PROVE  /\ \A i \in 1..Len(CallsOf(e)') :
                           /\ Caller[CallsOf(e)'[i]] = e
                           /\ outcome'[CallsOf(e)'[i]] # "new"
                      /\ \A i, j \in 1..Len(CallsOf(e)') :
                           CallsOf(e)'[i] = CallsOf(e)'[j] => i = j
    BY DEF CallsInv
  <1>0. /\ sent \in [Ends -> Seq(Calls)] /\ receiver \in [Ends -> Seq(Calls)]
        /\ sent[e] \in Seq(Calls) /\ receiver[e] \in Seq(Calls)
    BY DEF TypeOK
  <1>1. /\ CallsOf(e) \in Seq(Calls)
        /\ \A i \in 1..Len(CallsOf(e)) : CallsOf(e)[i] \in Calls
    BY <1>0, ConcatType DEF CallsOf
  <1>2. /\ \A i \in 1..Len(CallsOf(e)) : /\ Caller[CallsOf(e)[i]] = e
                                         /\ outcome[CallsOf(e)[i]] # "new"
        /\ \A i, j \in 1..Len(CallsOf(e)) : CallsOf(e)[i] = CallsOf(e)[j] => i = j
    BY DEF CallsInv
  <1>3. \A c \in Calls : outcome[c] # "new" => outcome'[c] # "new"
    BY OutcomeStep
  <1>4. CASE CallsOf(e)' = CallsOf(e)
    BY <1>1, <1>2, <1>3, <1>4
  <1>5. CASE \E c \in Calls : Call(c) /\ Caller[c] = e
    <2>1. PICK c \in Calls : Call(c) /\ Caller[c] = e
      BY <1>5
    <2>2. /\ outcome[c] = "new" /\ outcome'[c] = "pending"
          /\ sent' = sent /\ receiver'[e] = Append(receiver[e], c)
      BY <2>1, <1>0 DEF Call, TypeOK
    <2>3. CallsOf(e)' = Append(CallsOf(e), c)
      BY <2>2, <1>0, ConcatAppend DEF CallsOf
    <2>4. /\ Len(CallsOf(e)') = Len(CallsOf(e)) + 1
          /\ \A i \in 1..Len(CallsOf(e)) : CallsOf(e)'[i] = CallsOf(e)[i]
          /\ CallsOf(e)'[Len(CallsOf(e)) + 1] = c
          /\ Len(CallsOf(e)) \in Nat
      BY <2>3, <1>1, AppendType
    <2>5. \A i \in 1..Len(CallsOf(e)) : CallsOf(e)[i] # c
      BY <2>2, <1>2
    <2>6. \A i \in 1..Len(CallsOf(e)) + 1 :
             i \in 1..Len(CallsOf(e)) \/ i = Len(CallsOf(e)) + 1
      BY <2>4
    <2>7. \A i \in 1..Len(CallsOf(e)') :
             Caller[CallsOf(e)'[i]] = e /\ outcome'[CallsOf(e)'[i]] # "new"
      BY <2>1, <2>2, <2>4, <2>6, <1>1, <1>2, <1>3
    <2>8. \A i, j \in 1..Len(CallsOf(e)') : CallsOf(e)'[i] = CallsOf(e)'[j] => i = j
      BY <2>4, <2>5, <2>6, <1>2
    <2> QED
      BY <2>7, <2>8
  <1>6. CASE \E d \in Ends : HandleMessage(d)
    <2>1. PICK d \in Ends : HandleMessage(d)
      BY <1>6
    <2>2. /\ receiver[d] # <<>>
          /\ sent' = [sent EXCEPT ![d] = Append(sent[d], Head(receiver[d]))]
          /\ receiver' = [receiver EXCEPT ![d] = Tail(receiver[d])]
      BY <2>1 DEF HandleMessage
    <2>3. CASE d = e
      <3>1. /\ sent'[e] = Append(sent[e], Head(receiver[e]))
            /\ receiver'[e] = Tail(receiver[e]) /\ receiver[e] # <<>>
        BY <2>2, <2>3, <1>0
      <3>2. Append(sent[e], Head(receiver[e])) \o Tail(receiver[e])
              = sent[e] \o receiver[e]
        BY <3>1, <1>0, MoveHead
      <3>3. CallsOf(e)' = CallsOf(e)
        BY <3>1, <3>2 DEF CallsOf
      <3> QED
        BY <3>3, <1>4
    <2>4. CASE d # e
      BY <2>2, <2>4, <1>0, <1>4 DEF CallsOf
    <2> QED
      BY <2>3, <2>4
  <1>7. CASE \E c \in Calls : Call(c) /\ Caller[c] # e
    BY <1>7, <1>0, <1>4 DEF Call, CallsOf
  <1>8. CASE UNCHANGED <<sent, receiver>>
    BY <1>8, <1>4 DEF CallsOf
  <1> QED
    BY <1>5, <1>6, <1>7, <1>8 DEF Next, RsStep, CaStep, CallTimesOut,
       HandleSendFrame, HandleAckFrame, Deliver, TakeCommand, Write, WriteLost,
       WriteFails, Read, Forward, ReadClosed, ClientTakes, Break, vars

(* A call that is pending keeps its place: it moves from the channel to    *)
(* waiting_for_ack, and leaves it when it is answered.                     *)
LEMMA WaitingStep == TypeOK /\ WaitingInv /\ [Next]_vars => WaitingInv'
  <1> SUFFICES ASSUME TypeOK, WaitingInv, [Next]_vars
               PROVE  WaitingInv'
    OBVIOUS
  <1>0. /\ sent \in [Ends -> Seq(Calls)] /\ receiver \in [Ends -> Seq(Calls)]
        /\ waiting_for_ack \in [Ends -> SUBSET [seq : Nat, call : Calls]]
        /\ outcome \in [Calls -> Outcomes]
        /\ \A c \in Calls : Caller[c] \in Ends
    BY CallsAssumption DEF TypeOK
  <1>1. \A e \in Ends : \A w \in waiting_for_ack[e] :
          w.seq \in 1..Len(sent[e]) /\ sent[e][w.seq] = w.call
    BY DEF WaitingInv
  <1>2. \A c \in Calls : outcome[c] = "pending" =>
          \/ \E i \in 1..Len(receiver[Caller[c]]) : receiver[Caller[c]][i] = c
          \/ \E w \in waiting_for_ack[Caller[c]] : w.call = c
    BY DEF WaitingInv, Contains
  <1>3. SUFFICES
          /\ \A e \in Ends : \A w \in waiting_for_ack'[e] :
               w.seq \in 1..Len(sent'[e]) /\ sent'[e][w.seq] = w.call
          /\ \A c \in Calls : outcome'[c] = "pending" =>
               \/ \E i \in 1..Len(receiver'[Caller[c]]) : receiver'[Caller[c]][i] = c
               \/ \E w \in waiting_for_ack'[Caller[c]] : w.call = c
    BY DEF WaitingInv, Contains
  <1>4. ASSUME NEW d \in Calls, Call(d)
        PROVE  /\ \A e \in Ends : \A w \in waiting_for_ack'[e] :
                    w.seq \in 1..Len(sent'[e]) /\ sent'[e][w.seq] = w.call
               /\ \A c \in Calls : outcome'[c] = "pending" =>
                    \/ \E i \in 1..Len(receiver'[Caller[c]]) : receiver'[Caller[c]][i] = c
                    \/ \E w \in waiting_for_ack'[Caller[c]] : w.call = c
    <2>1. /\ outcome' = [outcome EXCEPT ![d] = "pending"]
          /\ receiver' = [receiver EXCEPT ![Caller[d]] = Append(receiver[Caller[d]], d)]
          /\ sent' = sent /\ waiting_for_ack' = waiting_for_ack
      BY <1>4 DEF Call
    <2>2. ASSUME NEW c \in Calls, outcome'[c] = "pending"
          PROVE  \/ \E i \in 1..Len(receiver'[Caller[c]]) : receiver'[Caller[c]][i] = c
                 \/ \E w \in waiting_for_ack'[Caller[c]] : w.call = c
      <3> DEFINE e == Caller[c]
                 s == receiver[e]
      <3>1. e \in Ends /\ s \in Seq(Calls) /\ Len(s) \in Nat
        BY <1>0
      <3>2. CASE c = d
        <4>1. receiver'[e] = Append(s, c)
          BY <2>1, <3>1, <3>2, <1>0
        <4>2. Len(Append(s, c)) \in 1..Len(Append(s, c)) /\ Append(s, c)[Len(Append(s, c))] = c
          BY <3>1, AppendType
        <4> QED
          BY <4>1, <4>2
      <3>3. CASE c # d
        <4>1. outcome[c] = "pending"
          BY <2>1, <2>2, <3>3, <1>0
        <4>2. CASE \E w \in waiting_for_ack[e] : w.call = c
          BY <4>2, <2>1
        <4>3. CASE \E i \in 1..Len(s) : s[i] = c
          <5>1. PICK i \in 1..Len(s) : s[i] = c
            BY <4>3
          <5>2. receiver'[e] = s \/ receiver'[e] = Append(s, d)
            BY <2>1, <3>1, <1>0
          <5>3. i \in 1..Len(receiver'[e]) /\ receiver'[e][i] = c
            BY <5>1, <5>2, <3>1, AppendType
          <5> QED
            BY <5>3
        <4> QED
          BY <4>1, <4>2, <4>3, <1>2
      <3> QED
        BY <3>2, <3>3
    <2> QED
      BY <2>1, <2>2, <1>1
  <1>5. ASSUME NEW e \in Ends, HandleMessage(e)
        PROVE  /\ \A d \in Ends : \A w \in waiting_for_ack'[d] :
                    w.seq \in 1..Len(sent'[d]) /\ sent'[d][w.seq] = w.call
               /\ \A c \in Calls : outcome'[c] = "pending" =>
                    \/ \E i \in 1..Len(receiver'[Caller[c]]) : receiver'[Caller[c]][i] = c
                    \/ \E w \in waiting_for_ack'[Caller[c]] : w.call = c
    <2> DEFINE h == Head(receiver[e])
               n == Len(sent[e]) + 1
               kept == {w \in waiting_for_ack[e] : w.seq # n}
    <2>1. /\ receiver[e] \in Seq(Calls) /\ receiver[e] # <<>> /\ outcome' = outcome
          /\ sent[e] \in Seq(Calls)
          /\ sent' = [sent EXCEPT ![e] = Append(sent[e], h)]
          /\ receiver' = [receiver EXCEPT ![e] = Tail(receiver[e])]
          /\ waiting_for_ack' =
               [waiting_for_ack EXCEPT ![e] = kept \cup {[seq |-> n, call |-> h]}]
      BY <1>0, <1>5 DEF HandleMessage, NextSequenceNumber
    <2>2. /\ h \in Calls /\ h = receiver[e][1] /\ Len(receiver[e]) \in Nat
          /\ Len(Tail(receiver[e])) = Len(receiver[e]) - 1
          /\ \A i \in 1..Len(receiver[e]) - 1 : Tail(receiver[e])[i] = receiver[e][i + 1]
      BY <2>1, TailType
    <2>3. /\ Len(sent'[e]) = n /\ n \in Nat /\ Len(sent[e]) \in Nat
          /\ \A i \in 1..Len(sent[e]) : sent'[e][i] = sent[e][i]
          /\ sent'[e][n] = h
      BY <2>1, <2>2, <1>0, AppendType
    <2>4. kept = waiting_for_ack[e]
      BY <1>1, <2>3
    <2> HIDE DEF h, n, kept
    <2>5. ASSUME NEW d \in Ends, NEW w \in waiting_for_ack'[d]
          PROVE  w.seq \in 1..Len(sent'[d]) /\ sent'[d][w.seq] = w.call
      <3>1. CASE d # e
        BY <3>1, <2>1, <1>0, <1>1
      <3>2. CASE d = e /\ w \in waiting_for_ack[e]
        <4>1. w.seq \in 1..Len(sent[e]) /\ sent[e][w.seq] = w.call
          BY <3>2, <1>1
        <4> QED
          BY <4>1, <3>2, <2>3 DEF n
      <3>3. CASE d = e /\ w = [seq |-> n, call |-> h]
        BY <3>3, <2>3 DEF n
      <3> QED
        BY <3>1, <3>2, <3>3, <2>1, <2>4, <1>0
    <2>6. ASSUME NEW c \in Calls, outcome'[c] = "pending"
          PROVE  \/ \E i \in 1..Len(receiver'[Caller[c]]) : receiver'[Caller[c]][i] = c
                 \/ \E w \in waiting_for_ack'[Caller[c]] : w.call = c
      <3>0. outcome[c] = "pending" /\ Caller[c] \in Ends
        BY <2>1, <2>6, <1>0
      <3>1. CASE Caller[c] # e
        BY <3>0, <3>1, <2>1, <1>0, <1>2
      <3>2. CASE Caller[c] = e
        <4>1. waiting_for_ack'[e] = waiting_for_ack[e] \cup {[seq |-> n, call |-> h]}
          BY <2>1, <2>4, <1>0
        <4>2. CASE \E w \in waiting_for_ack[e] : w.call = c
          BY <4>1, <4>2, <3>2
        <4>3. CASE \E i \in 1..Len(receiver[e]) : receiver[e][i] = c
          <5>1. PICK i \in 1..Len(receiver[e]) : receiver[e][i] = c
            BY <4>3
          <5>2. CASE i = 1
            <6>1. h = c
              BY <5>1, <5>2, <2>2
            <6>2. /\ [seq |-> n, call |-> h] \in waiting_for_ack'[e]
                  /\ [seq |-> n, call |-> h].call = c
              BY <6>1, <4>1
            <6> QED
              BY <6>2, <3>2
          <5>3. CASE i # 1
            <6>1. i - 1 \in 1..Len(receiver[e]) - 1 /\ (i - 1) + 1 = i
              BY <5>3, <2>2
            <6>2. receiver'[e] = Tail(receiver[e])
              BY <2>1, <1>0
            <6>3. /\ i - 1 \in 1..Len(receiver'[e])
                  /\ receiver'[e][i - 1] = c
              BY <6>1, <6>2, <2>2, <5>1
            <6> QED
              BY <6>3, <3>2
          <5> QED
            BY <5>2, <5>3
        <4> QED
          BY <4>2, <4>3, <3>0, <3>2, <1>2
      <3> QED
        BY <3>1, <3>2
    <2> QED
      BY <2>5, <2>6
  <1>6. ASSUME NEW e \in Ends, HandleAckFrame(e)
        PROVE  /\ \A d \in Ends : \A w \in waiting_for_ack'[d] :
                    w.seq \in 1..Len(sent'[d]) /\ sent'[d][w.seq] = w.call
               /\ \A c \in Calls : outcome'[c] = "pending" =>
                    \/ \E i \in 1..Len(receiver'[Caller[c]]) : receiver'[Caller[c]][i] = c
                    \/ \E w \in waiting_for_ack'[Caller[c]] : w.call = c
    <2> DEFINE acked == {w \in waiting_for_ack[e] :
                           w.seq = Head(connection_receiver[e]).seq}
    <2>1. /\ waiting_for_ack' = [waiting_for_ack EXCEPT ![e] = waiting_for_ack[e] \ acked]
          /\ outcome' = [c \in Calls |-> IF \E w \in acked : w.call = c
                                           THEN Answer(outcome[c]) ELSE outcome[c]]
          /\ sent' = sent /\ receiver' = receiver
      BY <1>6 DEF HandleAckFrame
    <2> HIDE DEF acked
    <2>2. ASSUME NEW d \in Ends
          PROVE  waiting_for_ack'[d] \subseteq waiting_for_ack[d]
      BY <2>1, <1>0
    <2>3. ASSUME NEW c \in Calls, outcome'[c] = "pending"
          PROVE  \/ \E i \in 1..Len(receiver'[Caller[c]]) : receiver'[Caller[c]][i] = c
                 \/ \E w \in waiting_for_ack'[Caller[c]] : w.call = c
      <3>1. outcome[c] = "pending" /\ ~ \E w \in acked : w.call = c
        BY <2>1, <2>3 DEF Answer
      <3>2. CASE \E i \in 1..Len(receiver[Caller[c]]) : receiver[Caller[c]][i] = c
        BY <3>2, <2>1
      <3>3. CASE \E w \in waiting_for_ack[Caller[c]] : w.call = c
        BY <3>1, <3>3, <2>1, <1>0
      <3> QED
        BY <3>1, <3>2, <3>3, <1>2
    <2> QED
      BY <2>1, <2>2, <2>3, <1>1
  <1>7. CASE \E c \in Calls : CallTimesOut(c)
    BY <1>7, <1>0, <1>1, <1>2 DEF CallTimesOut
  <1>8. CASE UNCHANGED <<outcome, receiver, sent, waiting_for_ack>>
    BY <1>8, <1>1, <1>2
  <1> QED
    BY <1>4, <1>5, <1>6, <1>7, <1>8 DEF Next, RsStep, CaStep, HandleSendFrame,
       Deliver, TakeCommand, Write, WriteLost, WriteFails, Read, Forward,
       ReadClosed, ClientTakes, Break, vars

(* PendingIsTracked, whatever the calls and the capacities: every caller   *)
(* still waiting can still be answered, under a number that is its own     *)
(* (waiting_for_ack of reliable_sender/mod.rs).                            *)
THEOREM CallersTracked == Spec => []PendingIsTracked
  <1>1. Init => WaitingInv
    BY DEF Init, WaitingInv
  <1>2. TypeOK /\ WaitingInv => PendingIsTracked
    <2> SUFFICES ASSUME TypeOK, WaitingInv, NEW c \in Calls, outcome[c] = "pending",
                        ~Contains(receiver[Caller[c]], c)
                 PROVE  \E w \in waiting_for_ack[Caller[c]] :
                          /\ w.call = c
                          /\ w.seq \in DOMAIN sent[Caller[c]]
                          /\ sent[Caller[c]][w.seq] = c
                          /\ \A v \in waiting_for_ack[Caller[c]] :
                               v.seq = w.seq => v = w
      BY DEF PendingIsTracked
    <2> DEFINE e == Caller[c]
    <2>1. /\ e \in Ends /\ sent[e] \in Seq(Calls)
          /\ waiting_for_ack[e] \in SUBSET [seq : Nat, call : Calls]
      BY CallsAssumption DEF TypeOK
    <2>2. PICK w \in waiting_for_ack[e] : w.call = c
      BY DEF WaitingInv
    <2>3. \A v \in waiting_for_ack[e] :
             v.seq \in 1..Len(sent[e]) /\ sent[e][v.seq] = v.call
      BY <2>1 DEF WaitingInv
    <2>4. \A v \in waiting_for_ack[e] : v.seq = w.seq => v = w
      BY <2>1, <2>3
    <2>5. DOMAIN sent[e] = 1..Len(sent[e])
      BY <2>1
    <2> QED
      BY <2>2, <2>3, <2>4, <2>5
  <1>3. TypeOK /\ WaitingInv /\ [Next]_vars => WaitingInv'
    BY WaitingStep
  <1> QED
    BY <1>1, <1>2, <1>3, TypeCorrect, PTL DEF Spec

-----------------------------------------------------------------------------
(* Frames.                                                                 *)

(* What an end has received and accepted are sequences of calls, and what  *)
(* is in flight to it is one of frames; they differ by the message whose   *)
(* ack is not written.                                                     *)
LEMMA QueuesType ==
    ASSUME TypeOK, TasksInv, NEW e \in Ends
    PROVE  /\ Received(e) \in Seq(Calls) /\ Len(Received(e)) \in Nat
           /\ Accepted(e) \in Seq(Calls) /\ Len(Accepted(e)) \in Nat
           /\ InFlight(e) \in Seq(Frames) /\ Len(InFlight(e)) \in Nat
           /\ rs[e].state # "acking" => Accepted(e) = Received(e)
           /\ rs[e].state = "acking" =>
                Accepted(e) = Append(Received(e), rs[e].frame.call)
           /\ rs[e].state # "select" => rs[e].frame \in Frames /\ rs[e].frame.call \in Calls
           /\ Handed(e) \in Int /\ Len(sent[e]) \in Nat
  <1>1. /\ handled[e] \in Seq(Calls) /\ client_rx[e] \in Seq(Calls)
        /\ connection_receiver[e] \in Seq(Frames) /\ sent[e] \in Seq(Calls)
        /\ Peer[e] \in Ends /\ wire[Peer[e]] \in Seq(Frames)
        /\ rs[e] \in RsStates /\ ca[e] \in CaStates
    BY EndsAssumption DEF TypeOK
  <1>2. rs[e].state # "select" => rs[e].frame \in Frames /\ rs[e].frame.call \in Calls
    BY <1>1, RsType, FrameType DEF TasksInv
  <1>3. ca[e].state = "forwarding" => ca[e].frame \in Frames
    BY <1>1, CaType
  <1>4. handled[e] \o client_rx[e] \in Seq(Calls)
    BY <1>1
  <1>5. /\ Received(e) \in Seq(Calls) /\ Accepted(e) \in Seq(Calls)
    BY <1>2, <1>4, SmallType, ConcatType DEF Received, Accepted
  <1>6. InFlight(e) \in Seq(Frames)
    BY <1>1, <1>3, SmallType, ConcatType DEF InFlight
  <1>7. rs[e].state # "acking" => Accepted(e) = Received(e)
    BY DEF Received, Accepted
  <1>8. ASSUME rs[e].state = "acking"
        PROVE  Accepted(e) = Append(Received(e), rs[e].frame.call)
    <2>1. Received(e) = handled[e] \o client_rx[e]
      BY <1>8, <1>4, ConcatNone DEF Received
    <2>2. Accepted(e) = (handled[e] \o client_rx[e]) \o <<rs[e].frame.call>>
      BY <1>8 DEF Accepted
    <2> QED
      BY <2>1, <2>2, <1>2, <1>4, <1>8, ConcatOne
  <1> QED
    BY <1>1, <1>2, <1>5, <1>6, <1>7, <1>8 DEF Handed

(* An end whose reliable sender and client channel stay as they are.       *)
LEMMA SameReceived ==
    ASSUME NEW d \in Ends, rs'[d] = rs[d], handled'[d] = handled[d],
           client_rx'[d] = client_rx[d]
    PROVE  Received(d)' = Received(d) /\ Accepted(d)' = Accepted(d)
  BY DEF Received, Accepted

(* A count of frames is one.                                               *)
LEMMA HandedType ==
    ASSUME TypeOK, TasksInv, FramesInv, NEW e \in Ends
    PROVE  /\ Handed(e) \in Nat /\ Handed(e) <= Len(sent[e])
           /\ Len(sent[e]) \in Nat
           /\ rs[e].state = "sending" => Handed(e) + 1 = Len(sent[e])
           /\ rs[e].state # "sending" => Handed(e) = Len(sent[e])
  <1>1. Len(sent[e]) \in Nat
    BY QueuesType
  <1>2. rs[e].state = "sending" => Len(sent[e]) > 0
    BY DEF FramesInv, HeldInv
  <1> QED
    BY <1>1, <1>2 DEF Handed

(* A step keeps the parts of FramesInv of an end when it moves no frame in *)
(* or out of its queues, whatever else it loses: an end that stops may drop*)
(* the message whose ack it cannot write, and on a broken stream its peer  *)
(* may lose what it hands over.                                            *)
LEMMA FramesKept ==
    ASSUME TypeOK, TasksInv, FramesInv, NEW e \in Ends,
           InFlight(e)' = InFlight(e), UNCHANGED sent,
           \/ Accepted(e)' = Accepted(e)
           \/ Accepted(e)' = Received(e) /\ ca'[e] = Stopped,
           \/ link' = link /\ Handed(Peer[e])' = Handed(Peer[e])
           \/ link' = "down",
           Handed(Peer[e])' \in Nat, Handed(Peer[e])' >= Handed(Peer[e]),
           Len(Received(Peer[e]))' \in Nat,
           Len(Received(Peer[e]))' >= Len(Received(Peer[e])),
           \/ rs'[e] = rs[e] /\ Accepted(e)' = Accepted(e)
           \/ rs'[e].state \in {"select", "delivering"},
           ca[e] = Stopped => ca'[e] = Stopped,
           ca'[e] = Stopped => link' = "down"
    PROVE  AcceptedInv(e)' /\ HeldInv(e)' /\ FlightInv(e)' /\ AckInv(e)'
  <1> DEFINE p == Peer[e]
  <1>0. p \in Ends
    BY EndsAssumption
  <1>1. AcceptedInv(e) /\ HeldInv(e) /\ FlightInv(e) /\ AckInv(e)
    BY DEF FramesInv
  <1>2. /\ Handed(p) \in Nat /\ Handed(p) <= Len(sent[p])
        /\ Len(Received(p)) \in Nat
        /\ Len(Received(e)) \in Nat /\ Len(Accepted(e)) \in Nat
        /\ InFlight(e) \in Seq(Frames)
    BY <1>0, HandedType, QueuesType
  <1>3. /\ Len(Received(e)) <= Len(Accepted(e))
        /\ \A i \in 1..Len(Received(e)) : Received(e)[i] = Accepted(e)[i]
    <2>1. CASE rs[e].state # "acking"
      BY <2>1, <1>2, QueuesType
    <2>2. CASE rs[e].state = "acking"
      <3>1. /\ Received(e) \in Seq(Calls) /\ rs[e].frame.call \in Calls
            /\ Accepted(e) = Append(Received(e), rs[e].frame.call)
        BY <2>2, QueuesType
      <3> QED
        BY <3>1, AppendType
    <2> QED
      BY <2>1, <2>2
  <1>4. /\ Len(Accepted(e)) <= Handed(p)
        /\ \A i \in 1..Len(Accepted(e)) : Accepted(e)[i] = sent[p][i]
    BY <1>1 DEF AcceptedInv
  <1> HIDE DEF p
  <1>5. AcceptedInv(e)'
    <2>1. CASE Accepted(e)' = Accepted(e)
      BY <2>1, <1>2, <1>4 DEF AcceptedInv, p
    <2>2. CASE Accepted(e)' = Received(e)
      <3>1. Len(Accepted(e)') <= Handed(p)'
        BY <2>2, <1>2, <1>3, <1>4 DEF p
      <3>2. \A i \in 1..Len(Accepted(e)') : Accepted(e)'[i] = sent'[p][i]
        BY <2>2, <1>2, <1>3, <1>4
      <3> QED
        BY <3>1, <3>2 DEF AcceptedInv, p
    <2> QED
      BY <2>1, <2>2
  <1>6. HeldInv(e)'
    BY <1>1 DEF HeldInv
  <1>7. FlightInv(e)'
    <2>1. ASSUME ca'[e] # Stopped
          PROVE  InSequence(InFlight(e)', Len(Accepted(e))', sent'[p], Handed(p)')
      <3>1. InSequence(InFlight(e), Len(Accepted(e)), sent[p], Handed(p))
        BY <2>1, <1>1 DEF FlightInv, p
      <3>2. InSequence(InFlight(e), Len(Accepted(e)), sent[p], Handed(p)')
        BY <3>1, <1>2, MoreInSequence DEF p
      <3> QED
        BY <3>2, <2>1
    <2>2. ASSUME link' = "up", NEW n \in (Len(Accepted(e))' + 1)..Handed(p)'
          PROVE  \E i \in 1..Len(InFlight(e))' : Carries(InFlight(e)', i, n)
      <3>1. /\ link = "up" /\ Handed(p)' = Handed(p)
            /\ Accepted(e)' = Accepted(e)
        BY <2>2 DEF p
      <3>2. \A m \in (Len(Accepted(e)) + 1)..Handed(p) :
               \E i \in 1..Len(InFlight(e)) : Carries(InFlight(e), i, m)
        BY <3>1, <1>1 DEF FlightInv, p
      <3> QED
        BY <3>1, <3>2, <2>2
    <2> QED
      BY <2>1, <2>2 DEF FlightInv, p
  <1>8. AckInv(e)'
    <2>1. ASSUME NEW i \in 1..Len(InFlight(e)), InFlight(e)[i].type = "Ack"
          PROVE  InFlight(e)[i].seq \in 1..Len(Received(p))'
      <3>1. InFlight(e)[i].seq \in 1..Len(Received(p))
        BY <2>1, <1>1 DEF AckInv, p
      <3> QED
        BY <3>1, <1>2 DEF p
    <2> QED
      BY <2>1 DEF AckInv, p
  <1> QED
    BY <1>5, <1>6, <1>7, <1>8

(* Steps that move no frame in or out: calls that come and time out, the   *)
(* connection actor taking a command, reading and forwarding, and messages *)
(* on their way to the event loop.                                         *)
LEMMA QuietQueues ==
    ASSUME TypeOK, TasksInv,
           \/ UNCHANGED <<rs, sent, ca, connection_receiver, client_rx, handled,
                          wire, link>>
           \/ \E e \in Ends : \/ TakeCommand(e) \/ Read(e) \/ Forward(e)
                             \/ Deliver(e) \/ ClientTakes(e)
    PROVE  /\ \A e \in Ends : /\ Accepted(e)' = Accepted(e)
                              /\ Received(e)' = Received(e)
                              /\ InFlight(e)' = InFlight(e)
                              /\ Handed(e)' = Handed(e)
                              /\ rs'[e] = rs[e] \/ rs'[e].state = "select"
                              /\ ca[e] = Stopped => ca'[e] = Stopped
           /\ UNCHANGED <<sent, link>>
  <1>0. /\ rs \in [Ends -> RsStates] /\ ca \in [Ends -> CaStates]
        /\ connection_receiver \in [Ends -> Seq(Frames)]
        /\ client_rx \in [Ends -> Seq(Calls)] /\ handled \in [Ends -> Seq(Calls)]
        /\ wire \in [Ends -> Seq(Frames)]
        /\ \A e \in Ends : Peer[e] \in Ends /\ Peer[e] # e /\ Peer[Peer[e]] = e
    BY EndsAssumption DEF TypeOK
  <1>2. CASE UNCHANGED <<rs, sent, ca, connection_receiver, client_rx, handled,
                         wire, link>>
    BY <1>2 DEF Accepted, Received, InFlight, Handed
  <1>3. ASSUME NEW x \in Ends, TakeCommand(x) \/ Read(x) \/ Forward(x),
               NEW e \in Ends
        PROVE  InFlight(e)' = InFlight(e) /\ (ca[e] = Stopped => ca'[e] = Stopped)
    <2>1. CASE TakeCommand(x)
      BY <2>1, <1>0, CaType DEF TakeCommand, InFlight
    <2>2. CASE Read(x)
      <3>1. /\ ca[x] = Idle /\ wire[Peer[x]] # <<>>
            /\ ca' = [ca EXCEPT ![x] = Forwarding(Head(wire[Peer[x]]))]
            /\ wire' = [wire EXCEPT ![Peer[x]] = Tail(wire[Peer[x]])]
            /\ connection_receiver' = connection_receiver
        BY <2>2 DEF Read
      <3>2. Head(wire[Peer[x]]) \in Frames /\ wire[Peer[x]] \in Seq(Frames)
        BY <3>1, <1>0, TailType
      <3>3. CASE e = x
        <4>1. /\ ca'[x].state = "forwarding" /\ ca'[x].frame = Head(wire[Peer[x]])
              /\ wire'[Peer[x]] = Tail(wire[Peer[x]])
              /\ connection_receiver'[x] = connection_receiver[x]
              /\ connection_receiver[x] \in Seq(Frames)
          BY <3>1, <3>2, <1>0, CaType
        <4>2. InFlight(x)' = connection_receiver[x] \o <<Head(wire[Peer[x]])>>
                               \o Tail(wire[Peer[x]])
          BY <4>1 DEF InFlight
        <4>3. InFlight(x) = connection_receiver[x] \o <<>> \o wire[Peer[x]]
          BY <3>1, CaType DEF InFlight
        <4>4. InFlight(x) = connection_receiver[x] \o wire[Peer[x]]
          BY <4>1, <4>3, ConcatNone
        <4>5. InFlight(x)' = InFlight(x)
          BY <4>1, <4>2, <4>4, <3>1, <3>2, MoveHead
        <4> QED
          BY <4>5, <3>1, <3>3, CaType
      <3>4. CASE e # x
        <4>1. Peer[e] # Peer[x]
          BY <1>0, <3>4
        <4>2. ca'[e] = ca[e] /\ wire'[Peer[e]] = wire[Peer[e]]
          BY <4>1, <3>1, <3>4, <1>0
        <4> QED
          BY <4>2, <3>1 DEF InFlight
      <3> QED
        BY <3>3, <3>4
    <2>3. CASE Forward(x)
      <3>1. /\ ca[x].state = "forwarding" /\ ca' = [ca EXCEPT ![x] = Idle]
            /\ connection_receiver' = [connection_receiver EXCEPT ![x] =
                                         Append(connection_receiver[x], ca[x].frame)]
            /\ wire' = wire
        BY <2>3 DEF Forward
      <3>2. CASE e = x
        <4>1. /\ connection_receiver[x] \in Seq(Frames) /\ ca[x].frame \in Frames
              /\ wire[Peer[x]] \in Seq(Frames)
          BY <3>1, <1>0, CaType
        <4>2. /\ connection_receiver'[x] = Append(connection_receiver[x], ca[x].frame)
              /\ ca'[x].state # "forwarding"
          BY <3>1, <1>0, CaType
        <4>3. InFlight(x)' = Append(connection_receiver[x], ca[x].frame) \o <<>>
                               \o wire[Peer[x]]
          BY <4>2, <3>1 DEF InFlight
        <4>4. InFlight(x) = connection_receiver[x] \o <<ca[x].frame>> \o wire[Peer[x]]
          BY <3>1 DEF InFlight
        <4>5. Append(connection_receiver[x], ca[x].frame) \o <<>>
                = connection_receiver[x] \o <<ca[x].frame>>
          <5>1. Append(connection_receiver[x], ca[x].frame) \in Seq(Frames)
            BY <4>1, AppendType
          <5> QED
            BY <4>1, <5>1, ConcatOne, ConcatNone
        <4> QED
          BY <4>3, <4>4, <4>5, <3>1, <3>2, CaType
      <3>3. CASE e # x
        <4>1. ca'[e] = ca[e] /\ connection_receiver'[e] = connection_receiver[e]
          BY <3>1, <3>3, <1>0
        <4> QED
          BY <4>1, <3>1 DEF InFlight
      <3> QED
        BY <3>2, <3>3
    <2> QED
      BY <2>1, <2>2, <2>3, <1>3
  <1>4. CASE \E x \in Ends : TakeCommand(x) \/ Read(x) \/ Forward(x)
    <2>1. PICK x \in Ends : TakeCommand(x) \/ Read(x) \/ Forward(x)
      BY <1>4
    <2>2. UNCHANGED <<rs, sent, client_rx, handled, link>>
      BY <2>1 DEF TakeCommand, Read, Forward
    <2> QED
      BY <2>1, <2>2, <1>3 DEF Accepted, Received, Handed
  <1>5. ASSUME NEW x \in Ends, Deliver(x) \/ ClientTakes(x), NEW e \in Ends
        PROVE  /\ Accepted(e)' = Accepted(e) /\ Received(e)' = Received(e)
               /\ Handed(e)' = Handed(e) /\ InFlight(e)' = InFlight(e)
               /\ rs'[e] = rs[e] \/ rs'[e].state = "select"
               /\ UNCHANGED <<ca, sent, link>>
    <2>0. UNCHANGED <<ca, sent, link, connection_receiver, wire>>
      BY <1>5 DEF Deliver, ClientTakes
    <2>1. InFlight(e)' = InFlight(e)
      BY <2>0 DEF InFlight
    <2>2. CASE Deliver(x)
      <3>1. /\ rs[x].state = "delivering" /\ rs' = [rs EXCEPT ![x] = Select]
            /\ client_rx' = [client_rx EXCEPT ![x] = Append(client_rx[x], rs[x].frame.call)]
            /\ handled' = handled
        BY <2>2 DEF Deliver
      <3>2. CASE e = x
        <4>1. /\ rs'[x].state = "select"
              /\ client_rx'[x] = Append(client_rx[x], rs[x].frame.call)
          BY <3>1, <1>0, RsType
        <4>2. rs[x].frame.call \in Calls /\ handled[x] \in Seq(Calls)
              /\ client_rx[x] \in Seq(Calls)
          BY <3>1, <1>0, QueuesType
        <4>3. (handled[x] \o Append(client_rx[x], rs[x].frame.call)) \o <<>>
                = (handled[x] \o client_rx[x]) \o <<rs[x].frame.call>>
          <5>1. /\ handled[x] \o client_rx[x] \in Seq(Calls)
                /\ handled[x] \o Append(client_rx[x], rs[x].frame.call) \in Seq(Calls)
            BY <4>2, AppendType, ConcatType
          <5>2. handled[x] \o Append(client_rx[x], rs[x].frame.call)
                  = Append(handled[x] \o client_rx[x], rs[x].frame.call)
            <6>1. \A u, v \in Seq(Calls) : \A c \in Calls :
                     u \o Append(v, c) = Append(u \o v, c)
              BY ConcatAppend
            <6> QED
              BY <4>2, <6>1, Zenon
          <5> QED
            BY <4>2, <5>1, <5>2, ConcatOne, ConcatNone
        <4>4. /\ Accepted(x)' = (handled[x] \o Append(client_rx[x], rs[x].frame.call)) \o <<>>
              /\ Received(x)' = (handled[x] \o Append(client_rx[x], rs[x].frame.call)) \o <<>>
          BY <4>1, <3>1 DEF Accepted, Received
        <4>5. /\ Accepted(x) = (handled[x] \o client_rx[x]) \o <<rs[x].frame.call>>
              /\ Received(x) = (handled[x] \o client_rx[x]) \o <<rs[x].frame.call>>
          BY <3>1 DEF Accepted, Received
        <4>6. Handed(x)' = Handed(x)
          BY <4>1, <3>1, <2>0 DEF Handed
        <4> QED
          BY <4>1, <4>3, <4>4, <4>5, <4>6, <3>2, <2>0, <2>1
      <3>3. CASE e # x
        <4>1. rs'[e] = rs[e] /\ client_rx'[e] = client_rx[e]
          BY <3>1, <3>3, <1>0
        <4> QED
          BY <4>1, <3>1, <2>0, <2>1 DEF Accepted, Received, Handed
      <3> QED
        BY <3>2, <3>3
    <2>3. CASE ClientTakes(x)
      <3>1. /\ client_rx[x] # <<>> /\ rs' = rs
            /\ handled' = [handled EXCEPT ![x] = Append(handled[x], Head(client_rx[x]))]
            /\ client_rx' = [client_rx EXCEPT ![x] = Tail(client_rx[x])]
        BY <2>3 DEF ClientTakes
      <3>2. handled'[e] \o client_rx'[e] = handled[e] \o client_rx[e]
        <4>1. CASE e = x
          <5>1. /\ handled'[x] = Append(handled[x], Head(client_rx[x]))
                /\ client_rx'[x] = Tail(client_rx[x])
                /\ handled[x] \in Seq(Calls) /\ client_rx[x] \in Seq(Calls)
            BY <3>1, <1>0
          <5>2. Append(handled[x], Head(client_rx[x])) \o Tail(client_rx[x])
                  = handled[x] \o client_rx[x]
            BY <5>1, <3>1, MoveHead
          <5> QED
            BY <5>1, <5>2, <4>1
        <4>2. CASE e # x
          BY <4>2, <3>1, <1>0
        <4> QED
          BY <4>1, <4>2
      <3> QED
        BY <3>1, <3>2, <2>0, <2>1 DEF Accepted, Received, Handed
    <2> QED
      BY <2>2, <2>3, <1>5
  <1>6. CASE \E x \in Ends : Deliver(x) \/ ClientTakes(x)
    BY <1>5, <1>6
  <1> QED
    BY <1>2, <1>4, <1>6

(* Such a step keeps FramesInv.                                            *)
LEMMA QuietFrames ==
    ASSUME TypeOK, TasksInv, FramesInv, TasksInv',
           \/ UNCHANGED <<rs, sent, ca, connection_receiver, client_rx, handled,
                          wire, link>>
           \/ \E e \in Ends : \/ TakeCommand(e) \/ Read(e) \/ Forward(e)
                             \/ Deliver(e) \/ ClientTakes(e)
    PROVE  FramesInv'
  <1> SUFFICES ASSUME NEW d \in Ends
               PROVE  AcceptedInv(d)' /\ HeldInv(d)' /\ FlightInv(d)' /\ AckInv(d)'
    BY DEF FramesInv
  <1>1. /\ \A e \in Ends : /\ Accepted(e)' = Accepted(e)
                           /\ Received(e)' = Received(e)
                           /\ InFlight(e)' = InFlight(e)
                           /\ Handed(e)' = Handed(e)
                           /\ rs'[e] = rs[e] \/ rs'[e].state = "select"
                           /\ ca[e] = Stopped => ca'[e] = Stopped
        /\ UNCHANGED <<sent, link>>
    BY QuietQueues
  <1>2. /\ Peer[d] \in Ends
        /\ Handed(Peer[d]) \in Nat /\ Len(Received(Peer[d])) \in Nat
        /\ ca'[d] = Stopped => link' = "down"
    BY EndsAssumption, HandedType, QueuesType DEF TasksInv
  <1>3. /\ Handed(Peer[d])' = Handed(Peer[d])
        /\ Received(Peer[d])' = Received(Peer[d])
        /\ Handed(Peer[d])' \in Nat /\ Handed(Peer[d])' >= Handed(Peer[d])
        /\ Len(Received(Peer[d]))' \in Nat
        /\ Len(Received(Peer[d]))' >= Len(Received(Peer[d]))
    BY <1>1, <1>2
  <1> QED
    BY <1>1, <1>2, <1>3, FramesKept

(* handle_message: a call gets the next number and is held until written.  *)
LEMMA MessageFrames ==
    ASSUME TypeOK, TasksInv, FramesInv, NEW x \in Ends, HandleMessage(x)
    PROVE  FramesInv'
  <1> SUFFICES ASSUME NEW e \in Ends
               PROVE  AcceptedInv(e)' /\ HeldInv(e)' /\ FlightInv(e)' /\ AckInv(e)'
    BY DEF FramesInv
  <1> DEFINE p == Peer[e]
             c == Head(receiver[x])
             n == Len(sent[x]) + 1
  <1>0. /\ rs \in [Ends -> RsStates] /\ sent \in [Ends -> Seq(Calls)]
        /\ p \in Ends /\ receiver[x] \in Seq(Calls)
    BY EndsAssumption DEF TypeOK
  <1>1. AcceptedInv(e) /\ HeldInv(e) /\ FlightInv(e) /\ AckInv(e)
    BY DEF FramesInv
  <1>2. /\ rs[x] = Select /\ receiver[x] # <<>>
        /\ sent' = [sent EXCEPT ![x] = Append(sent[x], c)]
        /\ rs' = [rs EXCEPT ![x] = IF ca[x] = Stopped
                                     THEN Select ELSE Sending(SendFrame(c, n))]
        /\ UNCHANGED <<ca, connection_receiver, client_rx, handled, wire, link>>
    BY DEF HandleMessage, NextSequenceNumber
  <1>3. /\ c \in Calls /\ n \in Nat /\ Len(sent[x]) \in Nat
        /\ Len(sent'[x]) = n /\ sent'[x][n] = c
        /\ \A i \in 1..Len(sent[x]) : sent'[x][i] = sent[x][i]
    BY <1>0, <1>2, AppendType, TailType
  <1>4. SendFrame(c, n) \in Frames
    BY <1>3, FrameType
  <1>5. /\ rs[x].state = "select"
        /\ ca[x] = Stopped => rs'[x].state = "select" /\ link = "down"
        /\ ca[x] # Stopped => /\ rs'[x].state = "sending"
                              /\ rs'[x].frame = SendFrame(c, n)
        /\ \A d \in Ends : d # x => rs'[d] = rs[d] /\ sent'[d] = sent[d]
    BY <1>0, <1>2, <1>4, RsType DEF TasksInv
  <1> HIDE DEF c, n
  <1>6. \A d \in Ends : /\ Accepted(d)' = Accepted(d) /\ Received(d)' = Received(d)
                       /\ InFlight(d)' = InFlight(d)
    <2> SUFFICES ASSUME NEW d \in Ends
                 PROVE  /\ Accepted(d)' = Accepted(d) /\ Received(d)' = Received(d)
                        /\ InFlight(d)' = InFlight(d)
      OBVIOUS
    <2>1. \/ rs'[d] = rs[d]
          \/ /\ rs[d].state \notin {"acking", "delivering"}
             /\ rs'[d].state \notin {"acking", "delivering"}
      BY <1>5
    <2>2. InFlight(d)' = InFlight(d)
      BY <1>2 DEF InFlight
    <2>3. handled' = handled /\ client_rx' = client_rx
      BY <1>2
    <2>4. CASE rs'[d] = rs[d]
      BY <2>2, <2>3, <2>4 DEF Accepted, Received
    <2>5. CASE /\ rs[d].state \notin {"acking", "delivering"}
               /\ rs'[d].state \notin {"acking", "delivering"}
      BY <2>2, <2>3, <2>5 DEF Accepted, Received
    <2> QED
      BY <2>1, <2>4, <2>5
  <1>7. /\ Handed(p) \in Nat /\ Len(sent[p]) \in Nat /\ Handed(p) <= Len(sent[p])
        /\ Len(Accepted(e)) \in Nat /\ InFlight(e) \in Seq(Frames)
    BY <1>0, HandedType, QueuesType
  <1>8. /\ Handed(p)' \in Nat /\ Handed(p)' >= Handed(p)
        /\ Handed(p)' = Handed(p) \/ link = "down"
        /\ \A i \in 1..Len(sent[p]) : sent'[p][i] = sent[p][i]
    <2>1. CASE p = x
      <3>1. Handed(x) = Len(sent[x])
        BY <1>5 DEF Handed
      <3>2. Handed(x)' = IF ca[x] = Stopped THEN n ELSE n - 1
        BY <1>3, <1>5 DEF Handed
      <3> QED
        BY <3>1, <3>2, <2>1, <1>3, <1>5 DEF n
    <2>2. CASE p # x
      <3>1. rs'[p] = rs[p] /\ sent'[p] = sent[p]
        BY <2>2, <1>0, <1>5
      <3>2. Handed(p)' = Handed(p)
        BY <3>1 DEF Handed
      <3> QED
        BY <3>1, <3>2, <1>7
    <2> QED
      BY <2>1, <2>2
  <1> HIDE DEF p
  <1>9. AcceptedInv(e)'
    <2>1. /\ Len(Accepted(e)) <= Handed(p)
          /\ \A i \in 1..Len(Accepted(e)) : Accepted(e)[i] = sent[p][i]
      BY <1>1 DEF AcceptedInv, p
    <2>2. /\ Len(Accepted(e)) <= Handed(p)'
          /\ \A i \in 1..Len(Accepted(e)) : Accepted(e)[i] = sent'[p][i]
      BY <2>1, <1>7, <1>8
    <2> QED
      BY <2>2, <1>6 DEF AcceptedInv, p
  <1>10. HeldInv(e)'
    <2>1. CASE e # x
      <3>1. rs'[e] = rs[e] /\ sent'[e] = sent[e]
        BY <2>1, <1>5
      <3> QED
        BY <3>1, <1>1, <1>6 DEF HeldInv
    <2>2. CASE e = x
      <3>1. /\ rs'[x].state # "acking"
            /\ rs'[x].state = "sending" =>
                 rs'[x].frame.seq = n /\ rs'[x].frame.call = c
        BY <1>3, <1>5, FrameType
      <3> QED
        BY <3>1, <2>2, <1>3 DEF HeldInv, n
    <2> QED
      BY <2>1, <2>2
  <1>11. FlightInv(e)'
    <2>1. ASSUME ca'[e] # Stopped
          PROVE  InSequence(InFlight(e)', Len(Accepted(e))', sent'[p], Handed(p)')
      <3>1. InSequence(InFlight(e), Len(Accepted(e)), sent[p], Handed(p))
        BY <2>1, <1>1, <1>2 DEF FlightInv, p
      <3>2. \A i \in 1..Handed(p) : sent'[p][i] = sent[p][i]
        BY <1>7, <1>8
      <3>3. InSequence(InFlight(e), Len(Accepted(e)), sent'[p], Handed(p)')
        BY <3>1, <3>2, <1>7, <1>8, MoreInSequence
      <3> QED
        BY <3>3, <1>6
    <2>2. ASSUME link' = "up", NEW m \in (Len(Accepted(e))' + 1)..Handed(p)'
          PROVE  \E i \in 1..Len(InFlight(e))' : Carries(InFlight(e)', i, m)
      <3>1. link = "up" /\ Handed(p)' = Handed(p)
        BY <2>2, <1>2, <1>8
      <3>2. \A j \in (Len(Accepted(e)) + 1)..Handed(p) :
               \E i \in 1..Len(InFlight(e)) : Carries(InFlight(e), i, j)
        BY <3>1, <1>1 DEF FlightInv, p
      <3> QED
        BY <3>1, <3>2, <2>2, <1>6
    <2> QED
      BY <2>1, <2>2 DEF FlightInv, p
  <1>12. AckInv(e)'
    BY <1>0, <1>1, <1>6 DEF AckInv, p
  <1> QED
    BY <1>9, <1>10, <1>11, <1>12

(* What taking a frame from connection_receiver does to the queues.        *)
LEMMA TakeFrame ==
    ASSUME TypeOK, TasksInv, NEW x \in Ends, connection_receiver[x] # <<>>,
           connection_receiver' =
             [connection_receiver EXCEPT ![x] = Tail(connection_receiver[x])],
           UNCHANGED <<ca, wire>>
    PROVE  /\ InFlight(x) # <<>>
           /\ Head(InFlight(x)) = Head(connection_receiver[x])
           /\ InFlight(x)' = Tail(InFlight(x))
           /\ \A d \in Ends : d # x => InFlight(d)' = InFlight(d)
  <1> DEFINE q == connection_receiver[x]
             fw == IF ca[x].state = "forwarding" THEN <<ca[x].frame>> ELSE <<>>
             w == wire[Peer[x]]
  <1>1. /\ q \in Seq(Frames) /\ fw \in Seq(Frames) /\ w \in Seq(Frames)
        /\ connection_receiver \in [Ends -> Seq(Frames)]
    <2>1. ca[x] \in CaStates /\ Peer[x] \in Ends
      BY EndsAssumption DEF TypeOK
    <2> QED
      BY <2>1, CaType, SmallType DEF TypeOK
  <1>2. /\ InFlight(x) = (q \o fw) \o w
        /\ InFlight(x)' = (Tail(q) \o fw) \o w
    BY <1>1 DEF InFlight
  <1>3. \A d \in Ends : d # x => InFlight(d)' = InFlight(d)
    BY <1>1 DEF InFlight
  <1> HIDE DEF q, fw, w
  <1>4. q # <<>>
    BY DEF q
  <1>5. /\ q \o fw # <<>> /\ Tail(q) \o fw = Tail(q \o fw)
        /\ Head(q) = Head(q \o fw) /\ q \o fw \in Seq(Frames)
    BY <1>1, <1>4, ConcatTail, ConcatType
  <1>6. /\ (q \o fw) \o w # <<>> /\ Tail(q \o fw) \o w = Tail((q \o fw) \o w)
        /\ Head(q \o fw) = Head((q \o fw) \o w)
    BY <1>1, <1>5, ConcatTail
  <1> QED
    BY <1>2, <1>3, <1>5, <1>6 DEF q

(* handle_connection_message, a Send: the frame is the next one, and is    *)
(* accepted; an end that has stopped drops it.                             *)
LEMMA SendFrames ==
    ASSUME TypeOK, TasksInv, FramesInv, NEW x \in Ends, HandleSendFrame(x)
    PROVE  FramesInv'
  <1> SUFFICES ASSUME NEW e \in Ends
               PROVE  AcceptedInv(e)' /\ HeldInv(e)' /\ FlightInv(e)' /\ AckInv(e)'
    BY DEF FramesInv
  <1> DEFINE f == Head(connection_receiver[x])
             p == Peer[x]
             q == InFlight(x)
             k == Len(Accepted(x))
  <1>0. /\ rs \in [Ends -> RsStates] /\ p \in Ends /\ p # x
        /\ Peer[e] \in Ends /\ (e # x => Peer[e] # p)
        /\ connection_receiver[x] \in Seq(Frames)
    BY EndsAssumption DEF TypeOK
  <1>1. AcceptedInv(x) /\ HeldInv(x) /\ FlightInv(x) /\ AckInv(x)
    BY DEF FramesInv
  <1>2. /\ rs[x] = Select /\ connection_receiver[x] # <<>> /\ f.type = "Send"
        /\ rs' = [rs EXCEPT ![x] = IF ca[x] = Stopped THEN Select ELSE Acking(f)]
        /\ connection_receiver' =
             [connection_receiver EXCEPT ![x] = Tail(connection_receiver[x])]
        /\ UNCHANGED <<sent, ca, client_rx, handled, wire, link>>
    BY DEF HandleSendFrame, AfterSendFrame
  <1>3. f \in Frames /\ f.call \in Calls /\ f.seq \in Nat
    BY <1>0, <1>2, TailType, FrameType
  <1>4. /\ q # <<>> /\ Head(q) = f /\ InFlight(x)' = Tail(q)
        /\ \A d \in Ends : d # x => InFlight(d)' = InFlight(d)
    BY <1>2, TakeFrame
  <1>5. /\ rs[x].state = "select"
        /\ ca[x] = Stopped => rs'[x].state = "select" /\ link = "down"
        /\ ca[x] # Stopped => rs'[x].state = "acking" /\ rs'[x].frame = f
        /\ \A d \in Ends : d # x => rs'[d] = rs[d]
    BY <1>0, <1>2, <1>3, RsType DEF TasksInv
  <1>6. \A d \in Ends : Received(d)' = Received(d) /\ Handed(d)' = Handed(d)
    <2> SUFFICES ASSUME NEW d \in Ends
                 PROVE  Received(d)' = Received(d) /\ Handed(d)' = Handed(d)
      OBVIOUS
    <2>1. \/ rs'[d] = rs[d]
          \/ /\ rs[d].state \notin {"sending", "delivering"}
             /\ rs'[d].state \notin {"sending", "delivering"}
      BY <1>5
    <2>2. CASE rs'[d] = rs[d]
      BY <2>2, <1>2 DEF Received, Handed
    <2>3. CASE /\ rs[d].state \notin {"sending", "delivering"}
               /\ rs'[d].state \notin {"sending", "delivering"}
      BY <2>3, <1>2 DEF Received, Handed
    <2> QED
      BY <2>1, <2>2, <2>3
  <1>7. /\ \A d \in Ends : d # x => Accepted(d)' = Accepted(d)
        /\ ca[x] = Stopped => Accepted(x)' = Accepted(x)
    <2>1. handled' = handled /\ client_rx' = client_rx
      BY <1>2
    <2>2. ASSUME NEW d \in Ends, rs'[d] = rs[d]
          PROVE  Accepted(d)' = Accepted(d)
      BY <2>1, <2>2 DEF Accepted
    <2>3. ASSUME ca[x] = Stopped
          PROVE  Accepted(x)' = Accepted(x)
      BY <2>1, <2>3, <1>5 DEF Accepted
    <2> QED
      BY <2>2, <2>3, <1>5
  <1>8. /\ k \in Nat /\ q \in Seq(Frames) /\ Accepted(x) \in Seq(Calls)
        /\ Handed(p) \in Nat /\ Len(q) \in Nat
        /\ Handed(Peer[e]) \in Nat /\ Len(Received(Peer[e])) \in Nat
        /\ Len(Received(p)) \in Nat
    BY <1>0, HandedType, QueuesType
  <1>9. Len(Tail(q)) = Len(q) - 1 /\ q[1] = f
        /\ \A i \in 1..Len(q) - 1 : Tail(q)[i] = q[i + 1]
    BY <1>4, <1>8, TailType
  <1> HIDE DEF q, k
  <1>10. AckInv(x)'
    <2>1. ASSUME NEW i \in 1..Len(Tail(q)), Tail(q)[i].type = "Ack"
          PROVE  Tail(q)[i].seq \in 1..Len(Received(p))
      <3>1. i + 1 \in 1..Len(q) /\ Tail(q)[i] = q[i + 1]
        BY <1>8, <1>9
      <3> QED
        BY <3>1, <2>1, <1>1 DEF AckInv, q
    <2> QED
      BY <2>1, <1>0, <1>4, <1>6 DEF AckInv, q
  <1>11. CASE e # x
    <2>1. /\ ca'[e] = Stopped => link' = "down"
          /\ ca'[e] = ca[e] /\ link' = link
      BY <1>2 DEF TasksInv
    <2>2. /\ Handed(Peer[e])' = Handed(Peer[e])
          /\ Received(Peer[e])' = Received(Peer[e])
          /\ rs'[e] = rs[e] /\ Accepted(e)' = Accepted(e) /\ InFlight(e)' = InFlight(e)
      BY <1>11, <1>0, <1>4, <1>5, <1>6, <1>7
    <2>3. /\ Handed(Peer[e])' \in Nat /\ Handed(Peer[e])' >= Handed(Peer[e])
          /\ Len(Received(Peer[e]))' \in Nat
          /\ Len(Received(Peer[e]))' >= Len(Received(Peer[e]))
      BY <2>2, <1>8
    <2> QED
      BY <2>1, <2>2, <2>3, <1>2, FramesKept
  <1>12. CASE e = x /\ ca[x] = Stopped
    <2>1. AcceptedInv(x)'
      BY <1>0, <1>1, <1>2, <1>6, <1>7, <1>12 DEF AcceptedInv
    <2>2. HeldInv(x)'
      BY <1>5, <1>12 DEF HeldInv
    <2>3. FlightInv(x)'
      BY <1>2, <1>5, <1>12 DEF FlightInv
    <2> QED
      BY <2>1, <2>2, <2>3, <1>10, <1>12
  <1>13. CASE e = x /\ ca[x] # Stopped
    <2>1. InSequence(q, k, sent[p], Handed(p))
      BY <1>1, <1>13 DEF FlightInv, q, k
    <2>2. f.seq = k + 1 /\ k + 1 <= Handed(p) /\ f.call = sent[p][k + 1]
      BY <2>1, <1>2, <1>4, <1>8, NextInSequence
    <2>3. Accepted(x)' = Append(Accepted(x), f.call)
      <3> DEFINE u == handled[x] \o client_rx[x]
      <3>1. u \in Seq(Calls)
        BY ConcatType DEF TypeOK
      <3>2. Accepted(x) = u \o <<>> /\ Accepted(x)' = u \o <<f.call>>
        BY <1>2, <1>5, <1>13 DEF Accepted
      <3> HIDE DEF u
      <3> QED
        BY <3>1, <3>2, <1>3, ConcatOne, ConcatNone
    <2>4. /\ Len(Accepted(x)') = k + 1
          /\ \A i \in 1..k : Accepted(x)'[i] = Accepted(x)[i]
          /\ Accepted(x)'[k + 1] = f.call
      BY <2>3, <1>3, <1>8, AppendType DEF k
    <2>5. AcceptedInv(x)'
      <3>1. \A i \in 1..k : Accepted(x)[i] = sent[p][i]
        BY <1>1 DEF AcceptedInv, k
      <3>2. \A i \in 1..k + 1 : Accepted(x)'[i] = sent[p][i]
        BY <3>1, <2>2, <2>4, <1>8
      <3> QED
        BY <3>2, <2>2, <2>4, <1>0, <1>2, <1>6 DEF AcceptedInv
    <2>6. HeldInv(x)'
      BY <2>2, <2>4, <1>5, <1>13 DEF HeldInv
    <2>7. FlightInv(x)'
      <3>1. InSequence(Tail(q), k + 1, sent[p], Handed(p))
        BY <2>1, <1>2, <1>4, <1>8, TailInSequence
      <3>2. ASSUME link = "up", NEW n \in (k + 1 + 1)..Handed(p)
            PROVE  \E i \in 1..Len(Tail(q)) : Carries(Tail(q), i, n)
        <4>1. n \in (k + 1)..Handed(p) /\ n # k + 1
          BY <1>8
        <4>2. PICK i \in 1..Len(q) : Carries(q, i, n)
          BY <4>1, <3>2, <1>1 DEF FlightInv, q, k
        <4>3. i # 1
          BY <4>1, <4>2, <2>2, <1>9 DEF Carries
        <4>4. i - 1 \in 1..Len(q) - 1 /\ (i - 1) + 1 = i
          BY <4>3, <1>8
        <4>5. i - 1 \in 1..Len(Tail(q)) /\ Tail(q)[i - 1] = q[i]
          BY <4>4, <1>9
        <4> QED
          BY <4>2, <4>5 DEF Carries
      <3> QED
        BY <3>1, <3>2, <2>4, <1>0, <1>2, <1>4, <1>6 DEF FlightInv
    <2> QED
      BY <2>5, <2>6, <2>7, <1>10, <1>13
  <1> QED
    BY <1>11, <1>12, <1>13

(* handle_connection_message, an Ack: a frame less in flight.              *)
LEMMA AckFrames ==
    ASSUME TypeOK, TasksInv, FramesInv, NEW x \in Ends, HandleAckFrame(x)
    PROVE  FramesInv'
  <1> SUFFICES ASSUME NEW e \in Ends
               PROVE  AcceptedInv(e)' /\ HeldInv(e)' /\ FlightInv(e)' /\ AckInv(e)'
    BY DEF FramesInv
  <1> DEFINE f == Head(connection_receiver[x])
             p == Peer[x]
             q == InFlight(x)
             k == Len(Accepted(x))
  <1>0. p \in Ends /\ Peer[e] \in Ends
    BY EndsAssumption
  <1>1. AcceptedInv(x) /\ HeldInv(x) /\ FlightInv(x) /\ AckInv(x)
    BY DEF FramesInv
  <1>2. /\ connection_receiver[x] # <<>> /\ f.type = "Ack"
        /\ connection_receiver' =
             [connection_receiver EXCEPT ![x] = Tail(connection_receiver[x])]
        /\ UNCHANGED <<rs, sent, ca, client_rx, handled, wire, link>>
    BY DEF HandleAckFrame
  <1>3. /\ q # <<>> /\ Head(q) = f /\ InFlight(x)' = Tail(q)
        /\ \A d \in Ends : d # x => InFlight(d)' = InFlight(d)
    BY <1>2, TakeFrame
  <1>4. \A d \in Ends : /\ Received(d)' = Received(d) /\ Handed(d)' = Handed(d)
                       /\ Accepted(d)' = Accepted(d)
    BY <1>2 DEF Received, Handed, Accepted
  <1>5. /\ k \in Nat /\ q \in Seq(Frames) /\ Handed(p) \in Nat /\ Len(q) \in Nat
        /\ Handed(Peer[e]) \in Nat /\ Len(Received(Peer[e])) \in Nat
    BY <1>0, HandedType, QueuesType
  <1>6. Len(Tail(q)) = Len(q) - 1 /\ q[1] = f
        /\ \A i \in 1..Len(q) - 1 : Tail(q)[i] = q[i + 1]
    BY <1>3, <1>5, TailType
  <1> HIDE DEF q, k
  <1>7. CASE e # x
    <2>1. /\ ca'[e] = Stopped => link' = "down"
          /\ ca'[e] = ca[e] /\ link' = link
      BY <1>2 DEF TasksInv
    <2>2. /\ Handed(Peer[e])' = Handed(Peer[e])
          /\ Received(Peer[e])' = Received(Peer[e])
          /\ rs'[e] = rs[e] /\ Accepted(e)' = Accepted(e) /\ InFlight(e)' = InFlight(e)
      BY <1>7, <1>0, <1>2, <1>3, <1>4
    <2>3. /\ Handed(Peer[e])' \in Nat /\ Handed(Peer[e])' >= Handed(Peer[e])
          /\ Len(Received(Peer[e]))' \in Nat
          /\ Len(Received(Peer[e]))' >= Len(Received(Peer[e]))
      BY <2>2, <1>5
    <2> QED
      BY <2>1, <2>2, <2>3, <1>2, FramesKept
  <1>8. CASE e = x
    <2>1. AcceptedInv(x)'
      BY <1>0, <1>1, <1>2, <1>4 DEF AcceptedInv
    <2>2. HeldInv(x)'
      BY <1>1, <1>2, <1>4 DEF HeldInv
    <2>3. FlightInv(x)'
      <3>1. ASSUME ca[x] # Stopped
            PROVE  InSequence(Tail(q), k, sent[p], Handed(p))
        <4>1. InSequence(q, k, sent[p], Handed(p))
          BY <3>1, <1>1 DEF FlightInv, q, k
        <4> QED
          BY <4>1, <1>2, <1>3, <1>5, TailInSequence
      <3>2. ASSUME link = "up", NEW n \in (k + 1)..Handed(p)
            PROVE  \E i \in 1..Len(Tail(q)) : Carries(Tail(q), i, n)
        <4>2. PICK i \in 1..Len(q) : Carries(q, i, n)
          BY <3>2, <1>1 DEF FlightInv, q, k
        <4>3. i # 1
          BY <4>2, <1>2, <1>6 DEF Carries
        <4>4. i - 1 \in 1..Len(q) - 1 /\ (i - 1) + 1 = i
          BY <4>3, <1>5
        <4>5. i - 1 \in 1..Len(Tail(q)) /\ Tail(q)[i - 1] = q[i]
          BY <4>4, <1>6
        <4> QED
          BY <4>2, <4>5 DEF Carries
      <3> QED
        BY <3>1, <3>2, <1>0, <1>2, <1>3, <1>4 DEF FlightInv, k
    <2>4. AckInv(x)'
      <3>1. ASSUME NEW i \in 1..Len(Tail(q)), Tail(q)[i].type = "Ack"
            PROVE  Tail(q)[i].seq \in 1..Len(Received(p))
        <4>1. i + 1 \in 1..Len(q) /\ Tail(q)[i] = q[i + 1]
          BY <1>5, <1>6
        <4> QED
          BY <4>1, <3>1, <1>1 DEF AckInv, q
      <3> QED
        BY <3>1, <1>0, <1>3, <1>4 DEF AckInv, q
    <2> QED
      BY <2>1, <2>2, <2>3, <2>4, <1>8
  <1> QED
    BY <1>7, <1>8

(* What a write does to the reliable sender, whether or not the stream     *)
(* takes the frame: the last call it took is handed over, or the message   *)
(* whose ack it was is received.                                           *)
LEMMA WrittenQueues ==
    ASSUME TypeOK, TasksInv, FramesInv, NEW x \in Ends, ca[x] = Writing,
           rs' = [rs EXCEPT ![x] = AfterWrite(x)],
           ca' = [ca EXCEPT ![x] = Idle],
           UNCHANGED <<sent, client_rx, handled, connection_receiver>>
    PROVE  /\ rs'[x].state \in {"select", "delivering"}
           /\ \A d \in Ends : /\ Accepted(d)' = Accepted(d)
                              /\ Len(Received(d))' \in Nat
                              /\ Len(Received(d))' >= Len(Received(d))
                              /\ Handed(d)' \in Nat /\ Handed(d)' >= Handed(d)
                              /\ ca[d] = Stopped <=> ca'[d] = Stopped
                              /\ d # x => rs'[d] = rs[d] /\ ca'[d] = ca[d]
                                         /\ Received(d)' = Received(d)
                                         /\ Handed(d)' = Handed(d)
           /\ rs[x].state \in {"sending", "acking"} /\ rs[x].frame \in Frames
           /\ rs[x].state = "sending" => /\ Handed(x)' = Handed(x) + 1
                                         /\ Received(x)' = Received(x)
           /\ rs[x].state = "acking" => /\ Handed(x)' = Handed(x)
                                        /\ Received(x)' = Accepted(x)
  <1>0. /\ rs \in [Ends -> RsStates] /\ ca \in [Ends -> CaStates]
        /\ rs[x].state \in {"sending", "acking"}
    BY DEF TypeOK, TasksInv, WaitsForWrite
  <1>1. rs[x].frame \in Frames /\ rs[x].frame.call \in Calls
    BY <1>0, QueuesType
  <1>2. /\ rs[x].state = "sending" => rs'[x].state = "select"
        /\ rs[x].state = "acking" => /\ rs'[x].state = "delivering"
                                     /\ rs'[x].frame = rs[x].frame
    BY <1>0, <1>1, RsType DEF AfterWrite
  <1>3. \A d \in Ends : /\ d # x => rs'[d] = rs[d] /\ ca'[d] = ca[d]
                       /\ ca[d] = Stopped <=> ca'[d] = Stopped
    BY <1>0, CaType
  <1>4. \A d \in Ends : d # x => /\ Received(d)' = Received(d)
                                /\ Accepted(d)' = Accepted(d)
                                /\ Handed(d)' = Handed(d)
    <2> SUFFICES ASSUME NEW d \in Ends, d # x
                 PROVE  /\ Received(d)' = Received(d) /\ Accepted(d)' = Accepted(d)
                        /\ Handed(d)' = Handed(d)
      OBVIOUS
    <2>1. /\ rs'[d] = rs[d]
          /\ handled' = handled /\ client_rx' = client_rx
      BY <1>3
    <2>2. Received(d)' = Received(d)
      BY <2>1, SameReceived
    <2>3. Accepted(d)' = Accepted(d)
      BY <2>1, SameReceived
    <2>4. Handed(d)' = Handed(d)
      BY <2>1 DEF Handed
    <2> QED
      BY <2>2, <2>3, <2>4
  <1>5. \A d \in Ends : /\ Len(Received(d)) \in Nat /\ Handed(d) \in Nat
                       /\ Len(Accepted(d)) \in Nat /\ Received(d) \in Seq(Calls)
    BY HandedType, QueuesType
  <1>6. CASE rs[x].state = "sending"
    <2>1. Handed(x) + 1 = Len(sent[x]) /\ Handed(x)' = Len(sent[x])
      BY <1>2, <1>6, HandedType DEF Handed
    <2>2. Received(x)' = Received(x) /\ Accepted(x)' = Accepted(x)
      BY <1>2, <1>6 DEF Received, Accepted
    <2> QED
      BY <2>1, <2>2, <1>0, <1>1, <1>2, <1>3, <1>4, <1>5, <1>6
  <1>7. CASE rs[x].state = "acking"
    <2>1. Handed(x)' = Handed(x)
      BY <1>2, <1>7 DEF Handed
    <2>2. Received(x)' = Accepted(x) /\ Accepted(x)' = Accepted(x)
      <3> DEFINE u == (handled[x] \o client_rx[x]) \o <<rs[x].frame.call>>
      <3>1. Accepted(x) = u
        BY <1>7 DEF Accepted
      <3>2. Accepted(x)' = u
        BY <1>2, <1>7 DEF Accepted
      <3>3. Received(x)' = u
        BY <1>2, <1>7 DEF Received
      <3> QED
        BY <3>1, <3>2, <3>3
    <2>3. Len(Accepted(x)) >= Len(Received(x))
      <3>1. Accepted(x) = Append(Received(x), rs[x].frame.call)
        BY <1>7, QueuesType
      <3> QED
        BY <3>1, <1>1, <1>5, AppendType
    <2> QED
      BY <2>1, <2>2, <2>3, <1>0, <1>1, <1>2, <1>3, <1>4, <1>5, <1>7
  <1> QED
    BY <1>0, <1>6, <1>7

(* handle_send on a broken stream, and the end of the actor: nothing is    *)
(* added to what is in flight.                                             *)
LEMMA LostFrames ==
    ASSUME TypeOK, TasksInv, FramesInv, TasksInv', NEW x \in Ends,
           WriteLost(x) \/ WriteFails(x) \/ ReadClosed(x)
    PROVE  FramesInv'
  <1> SUFFICES ASSUME NEW e \in Ends
               PROVE  AcceptedInv(e)' /\ HeldInv(e)' /\ FlightInv(e)' /\ AckInv(e)'
    BY DEF FramesInv
  <1>0. /\ rs \in [Ends -> RsStates] /\ ca \in [Ends -> CaStates]
        /\ Peer[e] \in Ends
    BY EndsAssumption DEF TypeOK
  <1>1. /\ link = "down"
        /\ ca[x] = Writing \/ ca[x] = Idle
        /\ ca' = [ca EXCEPT ![x] = Idle] \/ ca' = [ca EXCEPT ![x] = Stopped]
        /\ UNCHANGED <<sent, connection_receiver, client_rx, handled, wire, link>>
    BY DEF WriteLost, WriteFails, ReadClosed
  <1>2. InFlight(e)' = InFlight(e) /\ (ca[e] = Stopped => ca'[e] = Stopped)
    <2>1. CASE e = x
      <3>1. /\ ca[x].state # "forwarding" /\ ca'[x].state # "forwarding"
            /\ ca[x] # Stopped
        BY <1>0, <1>1, CaType
      <3> QED
        BY <3>1, <2>1, <1>1 DEF InFlight
    <2>2. CASE e # x
      <3>1. ca'[e] = ca[e]
        BY <2>2, <1>0, <1>1
      <3> QED
        BY <3>1, <1>1 DEF InFlight
    <2> QED
      BY <2>1, <2>2
  <1>3. CASE WriteLost(x)
    <2>1. /\ ca[x] = Writing /\ rs' = [rs EXCEPT ![x] = AfterWrite(x)]
          /\ ca' = [ca EXCEPT ![x] = Idle]
      BY <1>3 DEF WriteLost
    <2>2. /\ rs'[e] = rs[e] \/ rs'[e].state \in {"select", "delivering"}
          /\ Accepted(e)' = Accepted(e)
          /\ Len(Received(Peer[e]))' \in Nat
          /\ Len(Received(Peer[e]))' >= Len(Received(Peer[e]))
          /\ Handed(Peer[e])' \in Nat /\ Handed(Peer[e])' >= Handed(Peer[e])
      BY <2>1, <1>0, <1>1, WrittenQueues
    <2> QED
      BY <2>2, <1>1, <1>2, FramesKept
  <1>4. CASE WriteFails(x) \/ ReadClosed(x)
    <2>1. /\ ca' = [ca EXCEPT ![x] = Stopped]
          /\ \/ rs' = [rs EXCEPT ![x] = Select]
             \/ rs' = rs /\ ~WaitsForWrite(x)
      BY <1>0, <1>4 DEF WriteFails, ReadClosed, AfterFailedWrite
    <2>2. /\ ca'[x] = Stopped /\ \A d \in Ends : d # x => rs'[d] = rs[d]
          /\ rs'[x].state = "select" \/ (rs'[x] = rs[x] /\ ~WaitsForWrite(x))
      BY <2>1, <1>0, RsType
    <2>3. \A d \in Ends : d # x => /\ Received(d)' = Received(d)
                                  /\ Accepted(d)' = Accepted(d)
                                  /\ Handed(d)' = Handed(d)
      <3> SUFFICES ASSUME NEW d \in Ends, d # x
                   PROVE  /\ Received(d)' = Received(d) /\ Accepted(d)' = Accepted(d)
                          /\ Handed(d)' = Handed(d)
        OBVIOUS
      <3>1. rs'[d] = rs[d]
        BY <2>2
      <3> QED
        BY <3>1, <1>1 DEF Received, Accepted, Handed
    <2>4. rs[x].state # "delivering" \/ rs'[x] = rs[x]
      <3>1. CASE WriteFails(x)
        BY <3>1 DEF WriteFails, TasksInv, WaitsForWrite
      <3>2. CASE ReadClosed(x)
        BY <3>2, <1>0 DEF ReadClosed, WaitsForWrite
      <3> QED
        BY <3>1, <3>2, <1>4
    <2>5. /\ Received(x)' = Received(x)
          /\ Accepted(x)' = Accepted(x) \/ Accepted(x)' = Received(x)
          /\ Handed(x)' = Handed(x) \/ Handed(x)' = Len(sent[x])
      <3>1. CASE rs'[x] = rs[x]
        BY <3>1, <1>1 DEF Received, Accepted, Handed
      <3>2. CASE rs'[x].state = "select" /\ rs[x].state # "delivering"
        <4>1. Received(x)' = Received(x) /\ Handed(x)' = Len(sent[x])
          BY <3>2, <1>1 DEF Received, Handed
        <4>2. Accepted(x)' = Received(x)'
          BY <3>2 DEF Received, Accepted
        <4> QED
          BY <4>1, <4>2
      <3> QED
        BY <3>1, <3>2, <2>2, <2>4
    <2>6. \A d \in Ends : /\ Len(Received(d)) \in Nat /\ Handed(d) \in Nat
                         /\ Handed(d) <= Len(sent[d]) /\ Len(sent[d]) \in Nat
      BY HandedType, QueuesType
    <2>7. /\ Len(Received(Peer[e]))' \in Nat
          /\ Len(Received(Peer[e]))' >= Len(Received(Peer[e]))
          /\ Handed(Peer[e])' \in Nat /\ Handed(Peer[e])' >= Handed(Peer[e])
      <3>1. CASE Peer[e] = x
        BY <3>1, <2>5, <2>6, <1>0
      <3>2. CASE Peer[e] # x
        BY <3>2, <2>3, <2>6, <1>0
      <3> QED
        BY <3>1, <3>2
    <2>8. /\ \/ Accepted(e)' = Accepted(e)
             \/ Accepted(e)' = Received(e) /\ ca'[e] = Stopped
          /\ \/ rs'[e] = rs[e] /\ Accepted(e)' = Accepted(e)
             \/ rs'[e].state \in {"select", "delivering"}
      <3>1. CASE e # x
        BY <3>1, <2>2, <2>3
      <3>2. CASE e = x /\ rs'[x].state = "select"
        BY <3>2, <2>2, <2>5
      <3>3. CASE e = x /\ rs'[x] = rs[x]
        BY <3>3, <1>1 DEF Accepted
      <3> QED
        BY <3>1, <3>2, <3>3, <2>2
    <2> QED
      BY <2>7, <2>8, <1>1, <1>2, FramesKept
  <1> QED
    BY <1>3, <1>4

(* handle_send: the frame goes to the end of what is in flight, as the next*)
(* one, or as the ack of a message that is received in the same step.      *)
LEMMA WriteFrames ==
    ASSUME TypeOK, TasksInv, FramesInv, NEW x \in Ends, Write(x)
    PROVE  FramesInv'
  <1> SUFFICES ASSUME NEW e \in Ends
               PROVE  AcceptedInv(e)' /\ HeldInv(e)' /\ FlightInv(e)' /\ AckInv(e)'
    BY DEF FramesInv
  <1> DEFINE f == OutFrame(x)
             q == InFlight(e)
             k == Len(Accepted(e))
  <1>0. /\ ca \in [Ends -> CaStates] /\ wire \in [Ends -> Seq(Frames)]
        /\ connection_receiver \in [Ends -> Seq(Frames)]
        /\ Peer[e] \in Ends /\ Peer[e] # e
    BY EndsAssumption DEF TypeOK
  <1>1. AcceptedInv(e) /\ HeldInv(e) /\ FlightInv(e) /\ AckInv(e) /\ HeldInv(x)
    BY DEF FramesInv
  <1>2. /\ ca[x] = Writing /\ link = "up"
        /\ wire' = [wire EXCEPT ![x] = Append(wire[x], f)]
        /\ ca' = [ca EXCEPT ![x] = Idle]
        /\ rs' = [rs EXCEPT ![x] = AfterWrite(x)]
        /\ UNCHANGED <<sent, connection_receiver, client_rx, handled, link>>
    BY DEF Write
  <1>3. /\ rs'[x].state \in {"select", "delivering"}
        /\ \A d \in Ends : /\ Accepted(d)' = Accepted(d)
                           /\ Len(Received(d))' \in Nat
                           /\ Len(Received(d))' >= Len(Received(d))
                           /\ Handed(d)' \in Nat /\ Handed(d)' >= Handed(d)
                           /\ ca[d] = Stopped <=> ca'[d] = Stopped
                           /\ d # x => rs'[d] = rs[d] /\ ca'[d] = ca[d]
                                      /\ Received(d)' = Received(d)
                                      /\ Handed(d)' = Handed(d)
        /\ rs[x].state \in {"sending", "acking"} /\ rs[x].frame \in Frames
        /\ rs[x].state = "sending" => /\ Handed(x)' = Handed(x) + 1
                                      /\ Received(x)' = Received(x)
        /\ rs[x].state = "acking" => /\ Handed(x)' = Handed(x)
                                     /\ Received(x)' = Accepted(x)
    BY <1>2, WrittenQueues
  <1>4. /\ f \in Frames
        /\ rs[x].state = "sending" => f = rs[x].frame /\ f.type = "Send"
        /\ rs[x].state = "acking" => f.type = "Ack" /\ f.seq = rs[x].frame.seq
    BY <1>3, FrameType DEF OutFrame, TasksInv
  <1> HIDE DEF f
  <1>5. /\ k \in Nat /\ q \in Seq(Frames) /\ Len(q) \in Nat
        /\ Handed(x) \in Nat /\ Len(Received(x)) \in Nat /\ Len(Accepted(x)) \in Nat
    BY HandedType, QueuesType
  <1>6. LET fw == IF ca[e].state = "forwarding" THEN <<ca[e].frame>> ELSE <<>>
        IN  InFlight(e)' = (connection_receiver[e] \o fw) \o wire'[Peer[e]]
    <2>1. CASE e = x
      <3>1. ca[x].state # "forwarding" /\ ca'[x].state # "forwarding"
        BY <1>0, <1>2, CaType
      <3>2. connection_receiver' = connection_receiver
        BY <1>2
      <3> QED
        BY <3>1, <3>2, <2>1 DEF InFlight
    <2>2. CASE e # x
      <3>1. ca'[e] = ca[e]
        BY <2>2, <1>3
      <3>2. connection_receiver' = connection_receiver
        BY <1>2
      <3> QED
        BY <3>1, <3>2 DEF InFlight
    <2> QED
      BY <2>1, <2>2
  <1>7. CASE Peer[e] # x
    <2>1. wire'[Peer[e]] = wire[Peer[e]]
      BY <1>0, <1>2, <1>7
    <2>2. InFlight(e)' = InFlight(e)
      BY <2>1, <1>6 DEF InFlight
    <2>3. /\ Handed(Peer[e])' = Handed(Peer[e]) /\ link' = link
          /\ Handed(Peer[e])' \in Nat /\ Handed(Peer[e])' >= Handed(Peer[e])
          /\ Len(Received(Peer[e]))' \in Nat
          /\ Len(Received(Peer[e]))' >= Len(Received(Peer[e]))
          /\ Accepted(e)' = Accepted(e)
      BY <1>0, <1>2, <1>3, <1>7
    <2>4. ca'[e] = Stopped => ca[e] = Stopped /\ link' = "down"
      BY <1>2, <1>3 DEF TasksInv
    <2>5. ca[e] = Stopped => ca'[e] = Stopped
      BY <1>3
    <2>6. rs'[e] = rs[e] \/ rs'[e].state \in {"select", "delivering"}
      BY <1>3
    <2>7. sent' = sent
      BY <1>2
    <2> QED
      BY <2>2, <2>3, <2>4, <2>5, <2>6, <2>7, FramesKept
  <1>8. CASE Peer[e] = x
    <2>1. e # x
      BY <1>0, <1>8
    <2>2. InFlight(e)' = Append(q, f)
      <3> DEFINE fw == IF ca[e].state = "forwarding" THEN <<ca[e].frame>> ELSE <<>>
                 u == connection_receiver[e] \o fw
      <3>1. u \in Seq(Frames)
        <4>1. ca[e] \in CaStates
          BY <1>0
        <4>2. fw \in Seq(Frames)
          BY <4>1, CaType, SmallType
        <4> HIDE DEF fw
        <4> QED
          BY <4>2, <1>0, ConcatType
      <3>2. InFlight(e)' = u \o wire'[x] /\ q = u \o wire[x]
        BY <1>6, <1>8 DEF InFlight
      <3>3. wire'[x] = Append(wire[x], f) /\ wire[x] \in Seq(Frames)
        BY <1>0, <1>2
      <3> HIDE DEF u, q
      <3> QED
        BY <3>1, <3>2, <3>3, <1>4, ConcatAppend
    <2> HIDE DEF q, k
    <2>3. /\ Len(Append(q, f)) = Len(q) + 1 /\ Append(q, f)[Len(q) + 1] = f
          /\ \A i \in 1..Len(q) : Append(q, f)[i] = q[i]
      BY <1>4, <1>5, AppendType
    <2>4. /\ k <= Handed(x)
          /\ \A i \in 1..k : Accepted(e)[i] = sent[x][i]
      BY <1>1, <1>8 DEF AcceptedInv, k
    <2>5. \A n \in (k + 1)..Handed(x) : \E i \in 1..Len(q) : Carries(q, i, n)
      BY <1>1, <1>2, <1>8 DEF FlightInv, q, k
    <2>6. AcceptedInv(e)'
      <3>1. Accepted(e)' = Accepted(e) /\ sent' = sent /\ k <= Handed(x)'
        BY <2>4, <1>2, <1>3, <1>5
      <3> QED
        BY <3>1, <2>4, <1>8 DEF AcceptedInv, k
    <2>7. HeldInv(e)'
      <3>1. rs'[e] = rs[e] /\ sent' = sent /\ Accepted(e)' = Accepted(e)
        BY <2>1, <1>2, <1>3
      <3> QED
        BY <3>1, <1>1 DEF HeldInv
    <2>8. FlightInv(e)'
      <3>1. rs[x].state = "sending" =>
              /\ f.seq = Handed(x) + 1 /\ f.call = sent[x][Handed(x) + 1]
        <4>1. ASSUME rs[x].state = "sending"
              PROVE  Handed(x) + 1 = Len(sent[x])
          BY <4>1, HandedType
        <4> QED
          BY <4>1, <1>1, <1>4 DEF HeldInv
      <3>2. ASSUME ca[e] # Stopped
            PROVE  InSequence(Append(q, f), k, sent[x], Handed(x)')
        <4>1. InSequence(q, k, sent[x], Handed(x))
          BY <3>2, <1>1, <1>8 DEF FlightInv, q, k
        <4>2. Handed(x)' \in Nat
          BY <1>3
        <4>3. CASE rs[x].state = "sending"
          <5>1. /\ f.type = "Send" /\ f.seq = Handed(x) + 1
                /\ Handed(x)' = Handed(x) + 1 /\ f.call = sent[x][Handed(x) + 1]
            BY <4>3, <3>1, <1>3, <1>4
          <5> QED
            BY <4>1, <4>2, <5>1, <2>4, <2>5, <1>4, <1>5, AppendInSequence
        <4>4. CASE rs[x].state = "acking"
          <5>1. f.type = "Ack" /\ Handed(x)' = Handed(x)
            BY <4>4, <1>3, <1>4
          <5> QED
            BY <4>1, <4>2, <5>1, <1>4, <1>5, AppendInSequence
        <4> QED
          BY <4>3, <4>4, <1>3
      <3>3. ASSUME NEW n \in (k + 1)..Handed(x)'
            PROVE  \E i \in 1..Len(Append(q, f)) : Carries(Append(q, f), i, n)
        <4>1. CASE n <= Handed(x)
          <5>1. n \in (k + 1)..Handed(x)
            BY <4>1, <1>5
          <5>2. PICK i \in 1..Len(q) : Carries(q, i, n)
            BY <5>1, <2>5
          <5>3. i \in 1..Len(Append(q, f)) /\ Append(q, f)[i] = q[i]
            BY <2>3, <1>5
          <5> QED
            BY <5>2, <5>3 DEF Carries
        <4>2. CASE n > Handed(x)
          <5>1. rs[x].state = "sending" /\ n = Handed(x) + 1
            BY <4>2, <1>3, <1>5
          <5>2. Carries(Append(q, f), Len(q) + 1, n)
            BY <5>1, <2>3, <3>1, <1>4 DEF Carries
          <5>3. Len(q) + 1 \in 1..Len(Append(q, f))
            BY <2>3, <1>5
          <5> QED
            BY <5>2, <5>3
        <4> QED
          BY <4>1, <4>2, <1>5, <1>3
      <3>4. /\ Accepted(e)' = Accepted(e) /\ sent' = sent
            /\ ca'[e] # Stopped => ca[e] # Stopped
        BY <1>2, <1>3
      <3> QED
        BY <3>2, <3>3, <3>4, <2>2, <1>8 DEF FlightInv, k
    <2>9. AckInv(e)'
      <3>1. ASSUME NEW i \in 1..Len(Append(q, f)), Append(q, f)[i].type = "Ack"
            PROVE  Append(q, f)[i].seq \in 1..Len(Received(x))'
        <4>1. CASE i <= Len(q)
          <5>1. i \in 1..Len(q) /\ Append(q, f)[i] = q[i]
            BY <4>1, <2>3, <1>5
          <5>2. q[i].seq \in 1..Len(Received(x))
            BY <5>1, <3>1, <1>1, <1>8 DEF AckInv, q
          <5> QED
            BY <5>1, <5>2, <1>3, <1>5
        <4>2. CASE i = Len(q) + 1
          <5>1. rs[x].state = "acking"
            BY <4>2, <3>1, <2>3, <1>3, <1>4
          <5>2. f.seq = Len(Accepted(x)) /\ Received(x)' = Accepted(x)
            BY <5>1, <1>1, <1>3, <1>4 DEF HeldInv
          <5>3. Accepted(x) = Append(Received(x), rs[x].frame.call)
                /\ Received(x) \in Seq(Calls) /\ rs[x].frame.call \in Calls
            BY <5>1, QueuesType
          <5>4. Len(Accepted(x)) >= 1
            BY <5>3, AppendType
          <5> QED
            BY <5>2, <5>4, <4>2, <2>3, <1>5
        <4> QED
          BY <4>1, <4>2, <2>3, <1>5
      <3> QED
        BY <3>1, <2>2, <1>8 DEF AckInv
    <2> QED
      BY <2>6, <2>7, <2>8, <2>9
  <1> QED
    BY <1>7, <1>8

(* The stream breaks: the newest frames are lost.                          *)
LEMMA BreakFrames ==
    ASSUME TypeOK, TasksInv, FramesInv, Break
    PROVE  FramesInv'
  <1> SUFFICES ASSUME NEW e \in Ends
               PROVE  AcceptedInv(e)' /\ HeldInv(e)' /\ FlightInv(e)' /\ AckInv(e)'
    BY DEF FramesInv
  <1> DEFINE p == Peer[e]
             fw == IF ca[e].state = "forwarding" THEN <<ca[e].frame>> ELSE <<>>
             u == connection_receiver[e] \o fw
             q == InFlight(e)
  <1>0. /\ p \in Ends /\ wire[p] \in Seq(Frames)
        /\ connection_receiver[e] \in Seq(Frames) /\ ca[e] \in CaStates
    BY EndsAssumption DEF TypeOK
  <1>1. AcceptedInv(e) /\ HeldInv(e) /\ FlightInv(e) /\ AckInv(e)
    BY DEF FramesInv
  <1>2. UNCHANGED <<rs, sent, ca, connection_receiver, client_rx, handled>>
        /\ link' = "down"
    BY DEF Break
  <1>3. PICK kept \in [Ends -> 0..WireCap] :
            /\ \A d \in Ends : kept[d] <= Len(wire[d])
            /\ wire' = [d \in Ends |-> SubSeq(wire[d], 1, kept[d])]
    BY DEF Break
  <1>4. /\ wire'[p] = SubSeq(wire[p], 1, kept[p]) /\ kept[p] \in 0..Len(wire[p])
    <2>1. kept[p] \in Nat
      BY <1>0, <1>3, CapAssumption
    <2> QED
      BY <2>1, <1>0, <1>3
  <1>5. u \in Seq(Frames)
    <2>1. fw \in Seq(Frames)
      BY <1>0, CaType, SmallType
    <2> HIDE DEF fw
    <2> QED
      BY <2>1, <1>0, ConcatType
  <1>6. q = u \o wire[p] /\ InFlight(e)' = u \o wire'[p]
    BY <1>2 DEF InFlight
  <1>7. /\ \A d \in Ends : Accepted(d)' = Accepted(d) /\ Received(d)' = Received(d)
        /\ \A d \in Ends : Handed(d)' = Handed(d)
    BY <1>2 DEF Accepted, Received, Handed
  <1>8. /\ q \in Seq(Frames) /\ Len(Accepted(e)) \in Nat /\ Handed(p) \in Nat
    BY <1>0, HandedType, QueuesType
  <1> HIDE DEF u, q
  <1>9. PICK n \in 0..Len(q) : InFlight(e)' = SubSeq(q, 1, n)
    <2>1. /\ u \o SubSeq(wire[p], 1, kept[p]) = SubSeq(u \o wire[p], 1, Len(u) + kept[p])
          /\ Len(u) + kept[p] \in 0..Len(u \o wire[p])
      BY <1>0, <1>4, <1>5, ConcatPrefix
    <2> QED
      BY <2>1, <1>4, <1>6
  <1>10. /\ Len(SubSeq(q, 1, n)) = n /\ n \in Nat /\ n <= Len(q)
         /\ \A i \in 1..n : SubSeq(q, 1, n)[i] = q[i]
    BY <1>8, PrefixType
  <1>11. AcceptedInv(e)'
    BY <1>0, <1>1, <1>2, <1>7 DEF AcceptedInv
  <1>12. HeldInv(e)'
    BY <1>1, <1>2, <1>7 DEF HeldInv
  <1>13. FlightInv(e)'
    <2>1. ASSUME ca[e] # Stopped
          PROVE  InSequence(SubSeq(q, 1, n), Len(Accepted(e)), sent[p], Handed(p))
      <3>1. InSequence(q, Len(Accepted(e)), sent[p], Handed(p))
        BY <2>1, <1>1 DEF FlightInv, q
      <3> QED
        BY <3>1, <1>8, PrefixInSequence
    <2> QED
      BY <2>1, <1>0, <1>2, <1>7, <1>9 DEF FlightInv
  <1>14. AckInv(e)'
    <2>1. ASSUME NEW i \in 1..n, SubSeq(q, 1, n)[i].type = "Ack"
          PROVE  SubSeq(q, 1, n)[i].seq \in 1..Len(Received(p))
      <3>1. i \in 1..Len(q) /\ SubSeq(q, 1, n)[i] = q[i]
        BY <1>8, <1>10
      <3> QED
        BY <3>1, <2>1, <1>1 DEF AckInv, q
    <2> QED
      BY <2>1, <1>0, <1>7, <1>9, <1>10 DEF AckInv
  <1> QED
    BY <1>11, <1>12, <1>13, <1>14

(* Every step keeps FramesInv.                                             *)
LEMMA FramesStep ==
    TypeOK /\ TasksInv /\ FramesInv /\ [Next]_vars => FramesInv'
  <1> SUFFICES ASSUME TypeOK, TasksInv, FramesInv, [Next]_vars PROVE FramesInv'
    OBVIOUS
  <1>0. TasksInv'
    BY TasksStep
  <1>1. CASE \/ UNCHANGED vars
             \/ \E c \in Calls : Call(c) \/ CallTimesOut(c)
    <2>1. UNCHANGED <<rs, sent, ca, connection_receiver, client_rx, handled,
                      wire, link>>
      BY <1>1 DEF vars, Call, CallTimesOut
    <2> QED
      BY <2>1, <1>0, QuietFrames
  <1>2. CASE \E e \in Ends : \/ TakeCommand(e) \/ Read(e) \/ Forward(e)
                           \/ Deliver(e) \/ ClientTakes(e)
    BY <1>0, <1>2, QuietFrames
  <1>3. CASE \E e \in Ends : \/ HandleMessage(e) \/ HandleSendFrame(e)
                           \/ HandleAckFrame(e) \/ Write(e)
    BY <1>3, MessageFrames, SendFrames, AckFrames, WriteFrames
  <1>4. CASE \E e \in Ends : WriteLost(e) \/ WriteFails(e) \/ ReadClosed(e)
    BY <1>0, <1>4, LostFrames
  <1>5. CASE Break
    BY <1>5, BreakFrames
  <1> QED
    BY <1>1, <1>2, <1>3, <1>4, <1>5 DEF Next, RsStep, CaStep

-----------------------------------------------------------------------------
(* What the link promises.                                                 *)

(* What an end has received changes in one way only: the message whose ack *)
(* has been written is added.                                              *)
LEMMA ReceivedStep ==
    ASSUME TypeOK, TasksInv, FramesInv, [Next]_vars
    PROVE  \/ \A e \in Ends : Received(e)' = Received(e)
           \/ \E x \in Ends :
                /\ Write(x) \/ WriteLost(x)
                /\ rs[x].state = "acking"
                /\ Received(x)' = Accepted(x)
                /\ \A e \in Ends : e # x => Received(e)' = Received(e)
  <1>0. rs \in [Ends -> RsStates]
    BY DEF TypeOK
  <1>1. CASE \/ UNCHANGED vars
             \/ \E c \in Calls : Call(c) \/ CallTimesOut(c)
    <2>1. UNCHANGED <<rs, sent, ca, connection_receiver, client_rx, handled,
                      wire, link>>
      BY <1>1 DEF vars, Call, CallTimesOut
    <2> QED
      BY <2>1, QuietQueues
  <1>2. CASE \E e \in Ends : \/ TakeCommand(e) \/ Read(e) \/ Forward(e)
                           \/ Deliver(e) \/ ClientTakes(e)
    BY <1>2, QuietQueues
  <1>3. ASSUME UNCHANGED <<client_rx, handled>>, NEW e \in Ends,
               \/ rs'[e] = rs[e]
               \/ rs[e].state # "delivering" /\ rs'[e].state # "delivering"
        PROVE  Received(e)' = Received(e)
    <2>1. CASE rs'[e] = rs[e]
      BY <2>1, <1>3 DEF Received
    <2>2. CASE rs[e].state # "delivering" /\ rs'[e].state # "delivering"
      BY <2>2, <1>3 DEF Received
    <2> QED
      BY <2>1, <2>2, <1>3
  <1>4. CASE \E x \in Ends : HandleMessage(x) \/ HandleSendFrame(x)
    <2>1. PICK x \in Ends : HandleMessage(x) \/ HandleSendFrame(x)
      BY <1>4
    <2>2. PICK r : /\ rs' = [rs EXCEPT ![x] = r] /\ r.state # "delivering"
                   /\ rs[x] = Select /\ UNCHANGED <<client_rx, handled>>
      <3>1. CASE HandleMessage(x)
        <4> DEFINE f == SendFrame(Head(receiver[x]), NextSequenceNumber(x))
                   r == IF ca[x] = Stopped THEN Select ELSE Sending(f)
        <4>1. /\ rs' = [rs EXCEPT ![x] = r]
              /\ rs[x] = Select /\ UNCHANGED <<client_rx, handled>>
          BY <3>1 DEF HandleMessage
        <4>2. r.state # "delivering"
          BY DEF Select, Sending
        <4> HIDE DEF r
        <4> QED
          BY <4>1, <4>2
      <3>2. CASE HandleSendFrame(x)
        <4> DEFINE r == AfterSendFrame(x, Head(connection_receiver[x]))
        <4>1. /\ rs' = [rs EXCEPT ![x] = r]
              /\ rs[x] = Select /\ UNCHANGED <<client_rx, handled>>
          BY <3>2 DEF HandleSendFrame
        <4>2. r.state # "delivering"
          BY DEF AfterSendFrame, Select, Acking
        <4> HIDE DEF r
        <4> QED
          BY <4>1, <4>2
      <3> QED
        BY <2>1, <3>1, <3>2
    <2>3. \A e \in Ends :
             \/ rs'[e] = rs[e]
             \/ rs[e].state # "delivering" /\ rs'[e].state # "delivering"
      BY <2>2, <1>0, RsType
    <2> QED
      BY <2>2, <2>3, <1>3
  <1>5. CASE Break \/ \E x \in Ends : HandleAckFrame(x)
    <2>1. UNCHANGED <<rs, client_rx, handled>>
      BY <1>5 DEF Break, HandleAckFrame
    <2> QED
      BY <2>1, <1>3
  <1>6. CASE \E x \in Ends : WriteFails(x) \/ ReadClosed(x)
    <2>1. PICK x \in Ends : WriteFails(x) \/ ReadClosed(x)
      BY <1>6
    <2>2. /\ UNCHANGED <<client_rx, handled>>
          /\ \/ rs' = [rs EXCEPT ![x] = Select] /\ WaitsForWrite(x)
             \/ rs' = rs
      BY <2>1, <1>0 DEF WriteFails, ReadClosed, AfterFailedWrite, TasksInv
    <2>3. \A e \in Ends :
             \/ rs'[e] = rs[e]
             \/ rs[e].state # "delivering" /\ rs'[e].state # "delivering"
      BY <2>2, <1>0, RsType DEF WaitsForWrite
    <2> QED
      BY <2>2, <2>3, <1>3
  <1>7. CASE \E x \in Ends : Write(x) \/ WriteLost(x)
    <2>1. PICK x \in Ends : Write(x) \/ WriteLost(x)
      BY <1>7
    <2>2. /\ ca[x] = Writing /\ rs' = [rs EXCEPT ![x] = AfterWrite(x)]
          /\ ca' = [ca EXCEPT ![x] = Idle]
          /\ UNCHANGED <<sent, client_rx, handled, connection_receiver>>
      BY <2>1 DEF Write, WriteLost
    <2>3. /\ rs[x].state \in {"sending", "acking"}
          /\ rs[x].state = "sending" => Received(x)' = Received(x)
          /\ rs[x].state = "acking" => Received(x)' = Accepted(x)
          /\ \A e \in Ends : e # x => Received(e)' = Received(e)
      BY <2>2, WrittenQueues
    <2> QED
      BY <2>1, <2>3
  <1> QED
    BY <1>1, <1>2, <1>4, <1>5, <1>6, <1>7 DEF Next, RsStep, CaStep

(* A message that is received stays received.                              *)
LEMMA ReceivedGrows ==
    ASSUME TypeOK, TasksInv, FramesInv, [Next]_vars, NEW e \in Ends, NEW c,
           Contains(Received(e), c)
    PROVE  Contains(Received(e)', c)
  <1>1. CASE Received(e)' = Received(e)
    BY <1>1
  <1>2. CASE rs[e].state = "acking" /\ Received(e)' = Accepted(e)
    <2>1. /\ Received(e) \in Seq(Calls) /\ rs[e].frame.call \in Calls
          /\ Received(e)' = Append(Received(e), rs[e].frame.call)
      BY <1>2, QueuesType
    <2>2. PICK i \in 1..Len(Received(e)) : Received(e)[i] = c
      BY DEF Contains
    <2>3. /\ i \in 1..Len(Append(Received(e), rs[e].frame.call))
          /\ Append(Received(e), rs[e].frame.call)[i] = c
      BY <2>1, <2>2, AppendType
    <2> QED
      BY <2>1, <2>3 DEF Contains
  <1> QED
    BY <1>1, <1>2, ReceivedStep

(* The call an ack confirms has been received by the writer of the ack:    *)
(* it waits under the number of the ack, which is that of a message        *)
(* received.                                                               *)
LEMMA AckedReceived ==
    ASSUME TypeOK, TasksInv, CallsInv, WaitingInv, FramesInv,
           NEW x \in Ends, HandleAckFrame(x),
           NEW w \in waiting_for_ack[x], w.seq = Head(connection_receiver[x]).seq
    PROVE  /\ w.call \in Calls /\ Caller[w.call] = x
           /\ Contains(Received(Peer[x]), w.call)
           /\ \A v \in waiting_for_ack[x] : v.seq = w.seq => v.call = w.call
  <1> DEFINE p == Peer[x]
             f == Head(connection_receiver[x])
  <1>0. /\ p \in Ends /\ Peer[p] = x /\ sent[x] \in Seq(Calls) /\ receiver[x] \in Seq(Calls)
        /\ waiting_for_ack[x] \in SUBSET [seq : Nat, call : Calls]
    BY EndsAssumption DEF TypeOK
  <1>1. /\ w.seq \in 1..Len(sent[x]) /\ sent[x][w.seq] = w.call
        /\ \A v \in waiting_for_ack[x] : sent[x][v.seq] = v.call
    BY DEF WaitingInv
  <1>2. w.call \in Calls
    BY <1>0
  <1>3. Caller[w.call] = x
    <2>1. w.seq \in 1..Len(CallsOf(x)) /\ CallsOf(x)[w.seq] = w.call
      <3> DEFINE s == sent[x]
                 t == receiver[x]
      <3>1. s \in Seq(Calls) /\ t \in Seq(Calls) /\ CallsOf(x) = s \o t
        BY <1>0 DEF CallsOf
      <3>2. w.seq \in 1..Len(s) /\ s[w.seq] = w.call
        BY <1>1
      <3> HIDE DEF s, t
      <3>3. /\ Len(s \o t) = Len(s) + Len(t) /\ Len(s) \in Nat /\ Len(t) \in Nat
            /\ \A i \in 1..Len(s) : (s \o t)[i] = s[i]
        BY <3>1, ConcatType
      <3>4. w.seq \in 1..Len(s \o t) /\ (s \o t)[w.seq] = w.call
        BY <3>2, <3>3
      <3> QED
        BY <3>1, <3>4
    <2> QED
      BY <2>1 DEF CallsInv
  <1>4. f.seq \in 1..Len(Received(p))
    <2>1. /\ connection_receiver[x] # <<>> /\ f.type = "Ack"
          /\ connection_receiver' =
               [connection_receiver EXCEPT ![x] = Tail(connection_receiver[x])]
          /\ UNCHANGED <<ca, wire>>
      BY DEF HandleAckFrame
    <2>2. InFlight(x) # <<>> /\ Head(InFlight(x)) = f
      BY <2>1, TakeFrame
    <2>3. 1 \in 1..Len(InFlight(x)) /\ InFlight(x)[1] = f
      BY <2>2, QueuesType, TailType
    <2> QED
      BY <2>1, <2>3 DEF FramesInv, AckInv
  <1>5. Received(p)[w.seq] = w.call
    <2>1. /\ \A i \in 1..Len(Accepted(p)) : Accepted(p)[i] = sent[x][i]
      BY <1>0 DEF FramesInv, AcceptedInv
    <2>2. /\ w.seq \in 1..Len(Accepted(p)) /\ Received(p)[w.seq] = Accepted(p)[w.seq]
      <3>1. CASE rs[p].state # "acking"
        BY <3>1, <1>0, <1>4, QueuesType
      <3>2. CASE rs[p].state = "acking"
        <4>1. /\ Received(p) \in Seq(Calls) /\ rs[p].frame.call \in Calls
              /\ Accepted(p) = Append(Received(p), rs[p].frame.call)
          BY <3>2, <1>0, QueuesType
        <4> QED
          BY <4>1, <1>4, AppendType
      <3> QED
        BY <3>1, <3>2
    <2> QED
      BY <2>1, <2>2, <1>1
  <1> QED
    BY <1>1, <1>2, <1>3, <1>4, <1>5 DEF Contains

(* An Ok is given for a message received, and what is received stays so.   *)
LEMMA OkStep ==
    IInv /\ [Next]_vars => OkMeansDelivered'
  <1> SUFFICES ASSUME IInv, [Next]_vars, NEW c \in Calls, outcome'[c] = "ok"
               PROVE  Contains(Received(Peer[Caller[c]])', c)
    BY DEF OkMeansDelivered
  <1>0. /\ Caller[c] \in Ends /\ Peer[Caller[c]] \in Ends
        /\ TypeOK /\ TasksInv /\ CallsInv /\ WaitingInv /\ FramesInv
        /\ outcome \in [Calls -> Outcomes]
    BY CallsAssumption, EndsAssumption DEF IInv, TypeOK
  <1>1. Contains(Received(Peer[Caller[c]]), c)
    <2>1. CASE outcome[c] = "ok"
      BY <2>1 DEF IInv, OkMeansDelivered
    <2>2. CASE \E x \in Ends : HandleAckFrame(x)
      <3>1. PICK x \in Ends : HandleAckFrame(x)
        BY <2>2
      <3>2. CASE outcome[c] # "ok"
        <4>1. PICK w \in waiting_for_ack[x] :
                 w.seq = Head(connection_receiver[x]).seq /\ w.call = c
          BY <3>1, <3>2 DEF HandleAckFrame
        <4> QED
          BY <3>1, <4>1, <1>0, AckedReceived
      <3> QED
        BY <3>2, <2>1
    <2>3. CASE \E d \in Calls : Call(d) \/ CallTimesOut(d)
      <3>1. outcome[c] = "ok"
        BY <2>3, <1>0 DEF Call, CallTimesOut
      <3> QED
        BY <3>1, <2>1
    <2>4. CASE UNCHANGED outcome
      BY <2>4, <2>1
    <2> QED
      BY <2>2, <2>3, <2>4 DEF Next, RsStep, CaStep, HandleMessage, HandleSendFrame,
         Deliver, TakeCommand, Write, WriteLost, WriteFails, Read, Forward,
         ReadClosed, ClientTakes, Break, vars
  <1> QED
    BY <1>0, <1>1, ReceivedGrows

(* The inductive invariant holds initially and is kept by every step.      *)
THEOREM Invariance == Spec => []IInv
  <1>1. Init => IInv
    <2> SUFFICES ASSUME Init PROVE IInv
      OBVIOUS
    <2>1. TypeOK
      BY TypeInit
    <2>2. TasksInv
      BY RsType, CaType DEF Init, TasksInv
    <2>3. \A e \in Ends : /\ Peer[e] \in Ends /\ rs[e].state = "select"
                         /\ ca[e].state = "select"
      BY EndsAssumption, RsType, CaType DEF Init
    <2>4. \A e \in Ends : /\ Accepted(e) = <<>> /\ Received(e) = <<>>
                         /\ InFlight(e) = <<>> /\ CallsOf(e) = <<>> /\ Handed(e) = 0
      BY <2>3 DEF Init, Accepted, Received, InFlight, CallsOf, Handed
    <2>5. CallsInv
      BY <2>4 DEF CallsInv
    <2>6. WaitingInv
      BY DEF Init, WaitingInv
    <2>7. FramesInv
      BY <2>3, <2>4 DEF FramesInv, AcceptedInv, HeldInv, FlightInv, AckInv, InSequence
    <2>8. OkMeansDelivered
      BY DEF Init, OkMeansDelivered
    <2> QED
      BY <2>1, <2>2, <2>5, <2>6, <2>7, <2>8 DEF IInv
  <1>2. IInv /\ [Next]_vars => IInv'
    BY TypeStep, TasksStep, CallsStep, WaitingStep, FramesStep, OkStep DEF IInv
  <1> QED
    BY <1>1, <1>2, PTL DEF Spec

(* OkMeansDelivered for any number of calls and any capacities: send       *)
(* returns Ok only when the message is in the other end's client channel   *)
(* or in the hands of the task that puts it there.                         *)
THEOREM OkSound == Spec => []OkMeansDelivered
  BY Invariance, PTL DEF IInv

(* ReceivedInOrder likewise: whatever breaks and whenever, what an end has *)
(* received is a prefix of what the other has sent.                        *)
THEOREM InOrder == Spec => []ReceivedInOrder
  <1>1. IInv => ReceivedInOrder
    <2> SUFFICES ASSUME IInv, NEW e \in Ends
                 PROVE  IsPrefix(Received(Peer[e]), sent[e])
      BY DEF ReceivedInOrder
    <2> DEFINE p == Peer[e]
               r == Received(p)
               t == sent[e]
    <2>0. /\ p \in Ends /\ Peer[p] = e /\ TypeOK /\ TasksInv /\ FramesInv
          /\ t \in Seq(Calls)
      BY EndsAssumption DEF IInv, TypeOK
    <2>1. /\ r \in Seq(Calls) /\ Len(r) \in Nat /\ Len(r) <= Len(Accepted(p))
          /\ \A i \in 1..Len(r) : r[i] = Accepted(p)[i]
      <3>1. CASE rs[p].state # "acking"
        BY <3>1, <2>0, QueuesType
      <3>2. CASE rs[p].state = "acking"
        <4>1. /\ r \in Seq(Calls) /\ rs[p].frame.call \in Calls
              /\ Accepted(p) = Append(r, rs[p].frame.call)
          BY <3>2, <2>0, QueuesType
        <4> HIDE DEF r
        <4> QED
          BY <4>1, AppendType
      <3> QED
        BY <3>1, <3>2
    <2>2. /\ Len(Accepted(p)) <= Handed(e) /\ Handed(e) <= Len(t)
          /\ Handed(e) \in Nat /\ Len(t) \in Nat /\ Len(Accepted(p)) \in Nat
          /\ \A i \in 1..Len(Accepted(p)) : Accepted(p)[i] = t[i]
      BY <2>0, HandedType, QueuesType DEF FramesInv, AcceptedInv
    <2> HIDE DEF r, t
    <2>3. Len(r) <= Len(t) /\ \A i \in 1..Len(r) : r[i] = t[i]
      BY <2>1, <2>2
    <2>4. SubSeq(r, 1, Len(r)) = SubSeq(t, 1, Len(r))
      <3>1. Len(r) \in 0..Len(r) /\ Len(r) \in 0..Len(t)
        BY <2>1, <2>2, <2>3
      <3>2. /\ SubSeq(r, 1, Len(r)) \in Seq(Calls) /\ SubSeq(t, 1, Len(r)) \in Seq(Calls)
            /\ Len(SubSeq(r, 1, Len(r))) = Len(r) /\ Len(SubSeq(t, 1, Len(r))) = Len(r)
            /\ \A i \in 1..Len(r) : SubSeq(r, 1, Len(r))[i] = r[i]
            /\ \A i \in 1..Len(r) : SubSeq(t, 1, Len(r))[i] = t[i]
        BY <3>1, <2>0, <2>1, PrefixType DEF t
      <3> QED
        BY <3>2, <2>3, SameElements
    <2> QED
      BY <2>3, <2>4 DEF IsPrefix, r, t
  <1> QED
    BY <1>1, Invariance, PTL

-----------------------------------------------------------------------------
(* The link implements ReliableChannel.                                    *)

(* Received and Ok, as the abstract variables.                             *)
ReceivedOf == [e \in Ends |-> Received(e)]
Confirmed == {c \in Calls : outcome[c] = "ok"}

(* handle_message sends a call that has not been sent.                     *)
LEMMA SubmitStep ==
    ASSUME IInv, NEW x \in Ends, HandleMessage(x),
           \A e \in Ends : Received(e)' = Received(e)
    PROVE  \E c \in Calls : Channel!Submit(c)
  <1> DEFINE c == Head(receiver[x])
  <1>0. /\ sent \in [Ends -> Seq(Calls)] /\ sent[x] \in Seq(Calls)
        /\ receiver[x] \in Seq(Calls) /\ receiver[x] # <<>>
        /\ sent' = [sent EXCEPT ![x] = Append(sent[x], c)] /\ outcome' = outcome
    BY DEF IInv, TypeOK, HandleMessage
  <1> DEFINE s == sent[x]
             t == receiver[x]
  <1>1. c \in Calls /\ c = t[1] /\ Len(t) \in Nat \ {0}
    BY <1>0, TailType
  <1>2. CallsOf(x) = s \o t /\ s \in Seq(Calls) /\ t \in Seq(Calls)
    BY <1>0 DEF CallsOf
  <1> HIDE DEF s, t, c
  <1>3. /\ Len(s \o t) = Len(s) + Len(t) /\ Len(s) \in Nat
        /\ \A i \in 1..Len(s) : (s \o t)[i] = s[i]
        /\ \A i \in 1..Len(t) : (s \o t)[Len(s) + i] = t[i]
    BY <1>2, ConcatType
  <1>4. Len(s) + 1 \in 1..Len(s \o t) /\ (s \o t)[Len(s) + 1] = c
    BY <1>1, <1>3
  <1>5. /\ Caller[c] = x
        /\ \A i \in 1..Len(s \o t) : (s \o t)[i] = c => i = Len(s) + 1
    <2>1. CallsInv
      BY DEF IInv
    <2>2. /\ \A i \in 1..Len(CallsOf(x)) : Caller[CallsOf(x)[i]] = x
          /\ \A i, j \in 1..Len(CallsOf(x)) :
               CallsOf(x)[i] = CallsOf(x)[j] => i = j
      BY <2>1 DEF CallsInv
    <2>3. /\ \A i \in 1..Len(s \o t) : Caller[(s \o t)[i]] = x
          /\ \A i, j \in 1..Len(s \o t) : (s \o t)[i] = (s \o t)[j] => i = j
      BY <1>2, <2>2
    <2> QED
      BY ONLY <1>4, <2>3
  <1>6. \A i \in 1..Len(s) : s[i] # c
    BY <1>1, <1>3, <1>5
  <1>7. ~Channel!Contains(sent[Caller[c]], c)
    BY <1>5, <1>6 DEF Channel!Contains, s
  <1>8. sent' = [sent EXCEPT ![Caller[c]] = Append(@, c)]
    BY <1>0, <1>5
  <1>9. ReceivedOf' = ReceivedOf /\ Confirmed' = Confirmed
    BY <1>0 DEF ReceivedOf, Confirmed
  <1>10. Channel!Submit(c)
    BY <1>7, <1>8, <1>9 DEF Channel!Submit, ReceivedOf, Confirmed
  <1> QED
    BY <1>1, <1>10

(* Writing an ack receives the next message of the other end.              *)
LEMMA ReceiveStep ==
    ASSUME IInv, NEW x \in Ends, Write(x) \/ WriteLost(x), rs[x].state = "acking",
           Received(x)' = Accepted(x),
           \A e \in Ends : e # x => Received(e)' = Received(e)
    PROVE  \E e \in Ends : Channel!Receive(e)
  <1> DEFINE p == Peer[x]
             n == Len(Received(x)) + 1
  <1>0. /\ p \in Ends /\ Peer[p] = x /\ TypeOK /\ TasksInv /\ FramesInv
        /\ sent' = sent /\ outcome' = outcome
    BY EndsAssumption DEF IInv, Write, WriteLost
  <1>1. /\ Received(x) \in Seq(Calls) /\ rs[x].frame.call \in Calls
        /\ Accepted(x) = Append(Received(x), rs[x].frame.call)
        /\ Len(Received(x)) \in Nat
    BY <1>0, QueuesType
  <1>2. Len(Accepted(x)) = n /\ Accepted(x)[n] = rs[x].frame.call
    BY <1>1, AppendType
  <1>3. /\ n <= Handed(p) /\ Accepted(x)[n] = sent[p][n]
    BY <1>0, <1>1, <1>2 DEF FramesInv, AcceptedInv
  <1>4. Handed(p) \in Nat /\ Handed(p) <= Len(sent[p]) /\ Len(sent[p]) \in Nat
    BY <1>0, HandedType
  <1>5. Len(ReceivedOf[Peer[p]]) < Len(sent[p])
    BY <1>0, <1>1, <1>3, <1>4 DEF ReceivedOf
  <1>6. Received(x)' = Append(Received(x), sent[p][Len(Received(x)) + 1])
    BY <1>1, <1>2, <1>3
  <1>7. ReceivedOf' = [ReceivedOf EXCEPT ![Peer[p]] =
                         Append(@, sent[p][Len(ReceivedOf[Peer[p]]) + 1])]
    <2>1. ReceivedOf[x] = Received(x)
      BY DEF ReceivedOf
    <2>2. \A e \in Ends : Received(e)' =
             IF e = x THEN Append(Received(x), sent[p][Len(Received(x)) + 1])
                      ELSE Received(e)
      BY <1>6
    <2> QED
      BY <2>1, <2>2, <1>0 DEF ReceivedOf
  <1>8. Confirmed' = Confirmed
    BY <1>0 DEF Confirmed
  <1>9. Channel!Receive(p)
    BY <1>0, <1>5, <1>7, <1>8 DEF Channel!Receive, ReceivedOf, Confirmed
  <1> QED
    BY <1>0, <1>9

(* An ack confirms one call, which has been received, or none.             *)
LEMMA ConfirmStep ==
    ASSUME IInv, NEW x \in Ends, HandleAckFrame(x),
           \A e \in Ends : Received(e)' = Received(e)
    PROVE  \/ \E c \in Calls : Channel!Confirm(c)
           \/ Confirmed' = Confirmed
  <1> DEFINE acked == {w \in waiting_for_ack[x] :
                         w.seq = Head(connection_receiver[x]).seq}
  <1>0. /\ TypeOK /\ TasksInv /\ CallsInv /\ WaitingInv /\ FramesInv
        /\ sent' = sent
        /\ outcome' = [c \in Calls |-> IF \E w \in acked : w.call = c
                                         THEN Answer(outcome[c]) ELSE outcome[c]]
    BY DEF IInv, HandleAckFrame
  <1>1. \A w \in acked : /\ w.call \in Calls /\ Caller[w.call] = x
                        /\ Contains(Received(Peer[x]), w.call)
                        /\ \A v \in acked : v.call = w.call
    BY <1>0, AckedReceived
  <1>2. ReceivedOf' = ReceivedOf
    BY DEF ReceivedOf
  <1> HIDE DEF acked
  <1>3. CASE \E w \in acked : outcome[w.call] = "pending"
    <2>1. PICK w \in acked : outcome[w.call] = "pending"
      BY <1>3
    <2>2. /\ w.call \in Calls /\ w.call \notin Confirmed
          /\ Channel!Contains(ReceivedOf[Peer[Caller[w.call]]], w.call)
      BY <2>1, <1>1, EndsAssumption
         DEF ReceivedOf, Confirmed, Contains, Channel!Contains
    <2>3. \A c \in Calls : outcome'[c] = "ok" <=> outcome[c] = "ok" \/ c = w.call
      <3>1. \A c \in Calls : c # w.call => outcome'[c] = outcome[c]
        BY <1>0, <1>1
      <3>2. outcome'[w.call] = "ok"
        BY <2>1, <2>2, <1>0 DEF Answer
      <3> QED
        BY <3>1, <3>2
    <2>4. Confirmed' = Confirmed \cup {w.call}
      BY <2>2, <2>3 DEF Confirmed
    <2>5. Channel!Confirm(w.call)
      BY <2>2, <2>4, <1>0, <1>2 DEF Channel!Confirm, ReceivedOf, Confirmed
    <2> QED
      BY <2>2, <2>5
  <1>4. CASE ~ \E w \in acked : outcome[w.call] = "pending"
    <2>1. \A c \in Calls : outcome'[c] = outcome[c]
      BY <1>0, <1>4 DEF Answer
    <2> QED
      BY <2>1 DEF Confirmed
  <1> QED
    BY <1>3, <1>4

(* Implements, for every set of calls and all capacities: the link keeps   *)
(* the promises of ReliableChannel.  Numbering a call submits it, writing  *)
(* the ack of a message receives it, handling that ack confirms the call,  *)
(* and no other step of the actors shows.                                  *)
THEOREM Refinement == Spec => Implements
  <1>1. Init => Channel!Init
    <2> SUFFICES ASSUME Init PROVE Channel!Init
      OBVIOUS
    <2>1. \A e \in Ends : Received(e) = <<>>
      BY RsType DEF Init, Received
    <2> QED
      BY <2>1 DEF Init, Channel!Init
  <1>2. IInv /\ [Next]_vars => [Channel!Next]_Channel!vars
    <2> SUFFICES ASSUME IInv, [Next]_vars
                 PROVE  Channel!Next \/ UNCHANGED <<sent, ReceivedOf, Confirmed>>
      BY DEF Channel!vars, ReceivedOf, Confirmed
    <2>0. TypeOK /\ TasksInv /\ FramesInv /\ outcome \in [Calls -> Outcomes]
      BY DEF IInv, TypeOK
    <2>1. CASE \E x \in Ends :
                 /\ Write(x) \/ WriteLost(x)
                 /\ rs[x].state = "acking"
                 /\ Received(x)' = Accepted(x)
                 /\ \A e \in Ends : e # x => Received(e)' = Received(e)
      BY <2>1, ReceiveStep DEF Channel!Next
    <2>2. CASE \A e \in Ends : Received(e)' = Received(e)
      <3>1. ReceivedOf' = ReceivedOf
        BY <2>2 DEF ReceivedOf
      <3>2. CASE \E x \in Ends : HandleMessage(x)
        BY <2>2, <3>2, SubmitStep DEF Channel!Next
      <3>3. CASE \E x \in Ends : HandleAckFrame(x)
        <4>1. sent' = sent
          BY <3>3 DEF HandleAckFrame
        <4>2. (\E c \in Calls : Channel!Confirm(c)) \/ Confirmed' = Confirmed
          BY <2>2, <3>3, ConfirmStep
        <4> QED
          BY <3>1, <4>1, <4>2 DEF Channel!Next
      <3>4. CASE \E c \in Calls : Call(c) \/ CallTimesOut(c)
        <4>1. \A c \in Calls : outcome'[c] = "ok" <=> outcome[c] = "ok"
          BY <2>0, <3>4 DEF Call, CallTimesOut
        <4>2. Confirmed' = Confirmed
          BY <4>1 DEF Confirmed
        <4>3. sent' = sent
          BY <3>4 DEF Call, CallTimesOut
        <4> QED
          BY <3>1, <4>2, <4>3
      <3>5. CASE UNCHANGED <<sent, outcome>>
        BY <3>1, <3>5 DEF Confirmed
      <3> QED
        BY <3>2, <3>3, <3>4, <3>5 DEF Next, RsStep, CaStep, HandleSendFrame,
           Deliver, TakeCommand, Write, WriteLost, WriteFails, Read, Forward,
           ReadClosed, ClientTakes, Break, vars
    <2> QED
      BY <2>0, <2>1, <2>2, ReceivedStep
  <1> QED
    BY <1>1, <1>2, Invariance, PTL DEF Spec, Implements, Channel!Spec

=============================================================================
