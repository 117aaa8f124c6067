------------------------ MODULE ReliableLinkDelivery ------------------------
(***************************************************************************)
(* What TLAPS proves of ReliableLink's delivery: the host accepts every    *)
(* send at most once and in the order of the sends, over lost, damaged and *)
(* repeated frames, abandoned sessions, reboots and sequence numbers that  *)
(* wrap; motion is authorised and stops in time; no pair of nonces is used *)
(* twice; and no session is lost without a cause.                          *)
(***************************************************************************)
EXTENDS ReliableLinkProofs, FiniteSetTheorems

USE DEF EP, Pendant, Host

-----------------------------------------------------------------------------
(* Sequence numbers. *)

\* The successor of a sequence number, without the modulus.
LEMMA NextSeqIs ==
    ASSUME NEW n \in SeqNum
    PROVE  NextSeq(n) = IF n = SeqMod - 1 THEN 0 ELSE n + 1
<1>1. SeqMod \in Nat /\ SeqMod >= 4 /\ n \in 0..(SeqMod - 1)
  BY LinkConstants DEF SeqNum
<1>2. CASE n = SeqMod - 1
  BY <1>1, <1>2 DEF NextSeq
<1>3. CASE n # SeqMod - 1
  BY <1>1, <1>3 DEF NextSeq
<1>4. QED
  BY <1>2, <1>3

\* Three successive numbers differ, and a number has one predecessor.
LEMMA NextSeqDiffers ==
    ASSUME NEW n \in SeqNum
    PROVE  /\ NextSeq(n) # n
           /\ \A k \in SeqNum : NextSeq(k) = NextSeq(n) => k = n
<1>1. SeqMod \in Nat /\ SeqMod >= 4 /\ SeqNum = 0..(SeqMod - 1)
  BY LinkConstants DEF SeqNum
<1>2. QED
  BY <1>1, NextSeqIs

\* The host takes the successor of what it accepted last for new, and what it
\* accepted last for a duplicate.
LEMMA SuccessorIsNew ==
    ASSUME lastAcc \in SeqNum
    PROVE  IsNew(NextSeq(lastAcc)) /\ ~IsNew(lastAcc)
<1>1. SeqMod \in Nat /\ SeqMod >= 4 /\ lastAcc \in 0..(SeqMod - 1)
  BY LinkConstants DEF SeqNum
<1>2. (NextSeq(lastAcc) - lastAcc) % SeqMod = 1
  <2>1. CASE lastAcc = SeqMod - 1
    <3>1. NextSeq(lastAcc) - lastAcc = 1 - SeqMod
      BY <1>1, <2>1, NextSeqIs DEF SeqNum
    <3>2. (1 - SeqMod) % SeqMod = 1
      BY <1>1
    <3>3. QED
      BY <3>1, <3>2
  <2>2. CASE lastAcc # SeqMod - 1
    <3>1. NextSeq(lastAcc) - lastAcc = 1
      BY <1>1, <2>2, NextSeqIs DEF SeqNum
    <3>2. 1 % SeqMod = 1
      BY <1>1
    <3>3. QED
      BY <3>1, <3>2
  <2>3. QED
    BY <2>1, <2>2
<1>3. 1 < SeqMod \div 2
  BY <1>1
<1>4. (lastAcc - lastAcc) % SeqMod = 0
  BY <1>1
<1>5. QED
  BY <1>2, <1>3, <1>4 DEF IsNew

-----------------------------------------------------------------------------
(* Frames on a channel and their order. *)

In(q) == {q[i] : i \in DOMAIN q}

Before(q, f, g) == \E i, j \in DOMAIN q : i < j /\ q[i] = f /\ q[j] = g

\* Of the frames of type t, r has those of q, in q's order, and behind them at
\* most g.
Follows(r, q, t, g) ==
    /\ \A f \in In(r) : f.type = t => f \in In(q) \/ f = g
    /\ \A f, h \in In(r) : f.type = t /\ h.type = t /\ Before(r, f, h)
                             => Before(q, f, h) \/ (f \in In(q) /\ h = g)

\* The frames on a channel are frames.
LEMMA InFrames == \A q \in Seq(Frames) : In(q) \subseteq Frames
BY ElementOfSeq DEF In

\* A channel follows itself.
LEMMA SameFollows == \A q, t, g : Follows(q, q, t, g)
BY DEF Follows

\* Reading a frame keeps the order of the others.
LEMMA TailOrder ==
    ASSUME NEW q \in Seq(Frames), q # <<>>
    PROVE  /\ In(Tail(q)) \subseteq In(q)
           /\ \A f, h : Before(Tail(q), f, h) => Before(q, f, h)
<1>1. Len(q) \in Nat \ {0} /\ DOMAIN q = 1..Len(q) /\ DOMAIN Tail(q) = 1..(Len(q) - 1)
  OBVIOUS
<1>2. \A i \in DOMAIN Tail(q) : i + 1 \in DOMAIN q /\ Tail(q)[i] = q[i + 1]
  BY <1>1
<1>3. In(Tail(q)) \subseteq In(q)
  BY <1>2 DEF In
<1>4. ASSUME NEW f, NEW h, Before(Tail(q), f, h) PROVE Before(q, f, h)
  <2>1. PICK i, j \in DOMAIN Tail(q) : i < j /\ Tail(q)[i] = f /\ Tail(q)[j] = h
    BY <1>4 DEF Before
  <2>2. i + 1 \in DOMAIN q /\ j + 1 \in DOMAIN q /\ q[i + 1] = f /\ q[j + 1] = h
    BY <1>2, <2>1
  <2>3. i + 1 < j + 1
    BY <1>1, <2>1
  <2>4. QED
    BY <2>2, <2>3 DEF Before
<1>5. QED
  BY <1>3, <1>4

\* In terms of Follows.
LEMMA TailFollows ==
    ASSUME NEW q \in Seq(Frames), q # <<>>, NEW t, NEW g
    PROVE  Follows(Tail(q), q, t, g)
BY TailOrder DEF Follows

\* What is read first came before all that is left.
LEMMA HeadBefore ==
    ASSUME NEW q \in Seq(Frames), q # <<>>
    PROVE  Head(q) \in In(q) /\ \A h \in In(Tail(q)) : Before(q, Head(q), h)
<1>1. /\ Len(q) \in Nat \ {0} /\ DOMAIN q = 1..Len(q) /\ DOMAIN Tail(q) = 1..(Len(q) - 1)
      /\ Head(q) = q[1]
  OBVIOUS
<1>2. \A i \in DOMAIN Tail(q) : i + 1 \in DOMAIN q /\ 1 < i + 1 /\ Tail(q)[i] = q[i + 1]
  BY <1>1
<1>3. 1 \in DOMAIN q
  BY <1>1
<1>4. QED
  BY <1>1, <1>2, <1>3 DEF In, Before

\* Dropping a damaged frame keeps the order of the others.
LEMMA WithoutOrder ==
    ASSUME NEW q \in Seq(Frames), NEW k \in DOMAIN q
    PROVE  /\ In(Without(q, k)) \subseteq In(q)
           /\ \A f, h : Before(Without(q, k), f, h) => Before(q, f, h)
<1> DEFINE at(i) == IF i < k THEN i ELSE i + 1
           r == Without(q, k)
<1>1. Len(q) \in Nat \ {0} /\ DOMAIN q = 1..Len(q) /\ k \in 1..Len(q)
  OBVIOUS
<1>2. DOMAIN r = 1..(Len(q) - 1)
  BY <1>1 DEF Without
<1>3. \A i \in DOMAIN r : at(i) \in DOMAIN q /\ r[i] = q[at(i)]
  BY <1>1, <1>2 DEF Without
<1>4. \A i, j \in DOMAIN r : i < j => at(i) < at(j)
  BY <1>1, <1>2
<1> HIDE DEF at, r
<1>5. In(r) \subseteq In(q)
  BY <1>3 DEF In
<1>6. \A f, h : Before(r, f, h) => Before(q, f, h)
  BY <1>3, <1>4 DEF Before
<1>7. QED
  BY <1>5, <1>6 DEF r

\* In terms of Follows.
LEMMA WithoutFollows ==
    ASSUME NEW q \in Seq(Frames), NEW k \in DOMAIN q, NEW t, NEW g
    PROVE  Follows(Without(q, k), q, t, g)
BY WithoutOrder DEF Follows

\* How a sent frame stands to what was on the channel.
LEMMA PushOrder ==
    ASSUME NEW q \in Seq(Frames), NEW f \in Frames
    PROVE  /\ In(Push(q, f)) \subseteq In(q) \cup {f}
           /\ \A g, h : Before(Push(q, f), g, h) => Before(q, g, h) \/ (g \in In(q) /\ h = f)
<1>1. CASE Push(q, f) = q
  BY <1>1
<1>2. CASE Push(q, f) = Append(q, f)
  <2> DEFINE r == Append(q, f)
  <2>1. /\ Len(q) \in Nat /\ DOMAIN q = 1..Len(q)
        /\ DOMAIN r = 1..(Len(q) + 1)
        /\ r[Len(q) + 1] = f
        /\ \A i \in 1..Len(q) : r[i] = q[i]
    OBVIOUS
  <2> HIDE DEF r
  <2>2. In(r) \subseteq In(q) \cup {f}
    BY <2>1 DEF In
  <2>3. ASSUME NEW g, NEW h, Before(r, g, h)
        PROVE  Before(q, g, h) \/ (g \in In(q) /\ h = f)
    <3>1. PICK i, j \in DOMAIN r : i < j /\ r[i] = g /\ r[j] = h
      BY <2>3 DEF Before
    <3>2. i \in DOMAIN q /\ q[i] = g
      BY <2>1, <3>1
    <3>3. CASE j = Len(q) + 1
      BY <2>1, <3>1, <3>2, <3>3 DEF In
    <3>4. CASE j # Len(q) + 1
      <4>1. j \in DOMAIN q /\ q[j] = h
        BY <2>1, <3>1, <3>4
      <4>2. QED
        BY <3>1, <3>2, <4>1 DEF Before
    <3>5. QED
      BY <3>3, <3>4
  <2>4. QED
    BY <1>2, <2>2, <2>3 DEF r
<1>3. QED
  BY <1>1, <1>2 DEF Push

\* A sent frame comes behind all that was there.
LEMMA PushFollows ==
    ASSUME NEW q \in Seq(Frames), NEW f \in Frames, NEW t
    PROVE  Follows(Push(q, f), q, t, f)
BY PushOrder DEF Follows

\* A sent frame of another type changes nothing for those of type t.
LEMMA PushOther ==
    ASSUME NEW q \in Seq(Frames), NEW r \in Seq(Frames), NEW t, NEW g, Follows(r, q, t, g),
           NEW f \in Frames, f.type # t
    PROVE  Follows(Push(r, f), q, t, g)
BY PushOrder DEF Follows

-----------------------------------------------------------------------------
(* The inductive invariant.                                                *)
(*                                                                         *)
(* A packet of the pendant's present generation is the latest one sent, or *)
(* the one before it: stop-and-wait keeps no more on the wire.  An older   *)
(* copy of an accepted packet either belongs to a host session that is     *)
(* over or carries exactly the number accepted last.                       *)

Accepted == In(log)

\* The packets a receiver may still see, and the answers to them.
Packets ==
    {f \in In(chan[Host]) \cup (IF out = NoPkt THEN {} ELSE {out.pkt}) : f.type = "DATA"}
Acks == {a \in In(chan[Pendant]) : a.type = "ACK"}

Latest(f) == f.id = sent /\ NextSeq(f.seq) = nextSeq /\ (out = NoPkt => sent \in Accepted)
Previous(f) ==
    /\ f.id \in Accepted /\ f.id < sent
    /\ NextSeq(NextSeq(f.seq)) = nextSeq /\ out # NoPkt

OfPendant(f) ==
    /\ f.id \in 1..sent
    /\ f.src <= local[Pendant]
    /\ f.src = local[Pendant]
         => est[Pendant] /\ f.peer = remote[Pendant] /\ (Latest(f) \/ Previous(f))

OldForHost(f) ==
    f.id \in Accepted => /\ f.peer <= local[Host]
                         /\ f.peer = local[Host] => est[Host] /\ lastAcc = f.seq

NewForHost(f) ==
    MatchesActive(Host, f) /\ f.id \notin Accepted => lastAcc = NoSeq \/ f.seq = NextSeq(lastAcc)

NoneLater(f) == \A k \in Accepted : k <= f.id

PacketInv == \A f \in Packets : OfPendant(f) /\ OldForHost(f) /\ NewForHost(f) /\ NoneLater(f)

\* One id is one frame, and a generation sends its next packet only after the
\* one before was accepted.
SameInv ==
    \A f, g \in Packets : /\ f.id = g.id => f = g
                          /\ f.src = g.src /\ f.id < g.id => f.id \in Accepted

OrderedInv == \A f, g \in Packets : Before(chan[Host], f, g) => f.id <= g.id

OutInv == out # NoPkt => out.pkt.src = local[Pendant] /\ out.pkt.id = sent

\* With nothing outstanding the two ends agree on the number that comes next.
IdleInv == Linked /\ out = NoPkt => lastAcc = NoSeq \/ NextSeq(lastAcc) = nextSeq

LogInv ==
    /\ \A k \in Accepted : k \in 1..sent
    /\ \A k \in delivered : k \in Accepted
    /\ OnceInOrder

FlightInv == PacketInv /\ SameInv /\ OrderedInv /\ OutInv /\ IdleInv /\ LogInv

Current(a) == NextSeq(a.seq) = nextSeq

\* An ACK for the present generation answers the latest packet, which then is
\* accepted, or is a late copy for the one before.
AckGood(a) ==
    /\ a.peer <= local[Pendant]
    /\ a.peer = local[Pendant]
         => est[Pendant] /\ \/ Current(a) /\ sent \in Accepted
                            \/ NextSeq(NextSeq(a.seq)) = nextSeq /\ out # NoPkt

AckInv ==
    /\ \A a \in Acks : AckGood(a)
    /\ \A a, b \in Acks :
         Before(chan[Pendant], a, b) /\ a.peer = local[Pendant] /\ b.peer = local[Pendant]
           => (Current(a) => Current(b))

DeliveryInv == FlightInv /\ AckInv

\* The fields of what is on the wire.
LEMMA PacketType ==
    ASSUME TypeOK
    PROVE  \A f \in Packets : /\ f \in Frames /\ f.type = "DATA" /\ f.seq \in SeqNum
                              /\ f.id \in Nat /\ f.src \in Nat /\ f.peer \in Nat
<1> SUFFICES ASSUME NEW f \in Packets
             PROVE  /\ f \in Frames /\ f.type = "DATA" /\ f.seq \in SeqNum
                    /\ f.id \in Nat /\ f.src \in Nat /\ f.peer \in Nat
  OBVIOUS
<1>1. f \in In(chan[Host]) \/ (out # NoPkt /\ f = out.pkt)
  BY DEF Packets
<1>2. f \in Frames
  <2>1. chan[Host] \in Seq(Frames)
    BY DEF TypeOK
  <2>2. out # NoPkt => out.pkt \in Frames
    BY DEF TypeOK, Outstanding
  <2>3. QED
    BY <1>1, <2>1, <2>2, InFrames
<1>3. f.type = "DATA"
  BY DEF Packets
<1>4. QED
  BY <1>2, <1>3, FrameFields DEF Numbered

\* And of the answers.
LEMMA AnswerFields ==
    ASSUME TypeOK
    PROVE  \A a \in Acks : a \in Frames /\ a.type = "ACK" /\ a.seq \in SeqNum /\ a.peer \in Nat
<1> SUFFICES ASSUME NEW a \in Acks
             PROVE  a \in Frames /\ a.type = "ACK" /\ a.seq \in SeqNum /\ a.peer \in Nat
  OBVIOUS
<1>1. chan[Pendant] \in Seq(Frames)
  BY DEF TypeOK
<1>2. a \in Frames /\ a.type = "ACK"
  BY <1>1, InFrames DEF Acks
<1>3. QED
  BY <1>2, FrameFields DEF Numbered

\* The numbers the invariant compares.
LEMMA DeliveryTypes ==
    ASSUME TypeOK
    PROVE  /\ local[Pendant] \in Nat /\ local[Host] \in Nat /\ sent \in Nat
           /\ nextSeq \in SeqNum /\ lastAcc \in SeqNum \cup {NoSeq}
           /\ est[Pendant] \in BOOLEAN /\ est[Host] \in BOOLEAN
           /\ \A k \in Accepted : k \in Nat
           /\ out # NoPkt => out \in Outstanding /\ out.pkt \in Frames /\ out.pkt \in Packets
<1>1. log \in Seq(Nat)
  BY DEF TypeOK
<1>2. \A k \in Accepted : k \in Nat
  BY <1>1, ElementOfSeq DEF Accepted, In
<1>3. out # NoPkt => out \in Outstanding /\ out.pkt \in Frames /\ out.pkt.type = "DATA"
  BY DEF TypeOK, Outstanding
<1>4. QED
  BY <1>2, <1>3 DEF TypeOK, Packets

-----------------------------------------------------------------------------
(* Steps that send no new packet, accept none and take no answer.          *)

PendantKeeps ==
    /\ local'[Pendant] = local[Pendant] /\ nextSeq' = nextSeq
    /\ est[Pendant] => est'[Pendant] /\ remote'[Pendant] = remote[Pendant]
    /\ out = NoPkt => out' = NoPkt
    /\ out # NoPkt => out' # NoPkt /\ out'.pkt = out.pkt

PendantForgets == local'[Pendant] > local[Pendant] /\ ~est'[Pendant] /\ out' = NoPkt

HostKeeps ==
    /\ local'[Host] = local[Host]
    /\ est[Host] => est'[Host] /\ remote'[Host] = remote[Host] /\ lastAcc' = lastAcc
    /\ ~est[Host] /\ est'[Host] => lastAcc' = NoSeq

HostForgets == local'[Host] > local[Host] /\ ~est'[Host]

EndsCalm ==
    /\ PendantKeeps \/ PendantForgets
    /\ HostKeeps \/ HostForgets
    /\ sent' = sent /\ log' = log /\ delivered' = delivered

\* The packets after a step that sends none, or the outstanding one again.
LEMMA PacketsCalm ==
    ASSUME TypeOK, EndsCalm, NEW g, g.type # "DATA" \/ (out # NoPkt /\ g = out.pkt),
           Follows(chan'[Host], chan[Host], "DATA", g)
    PROVE  Packets' \subseteq Packets
<1> SUFFICES ASSUME NEW f \in Packets' PROVE f \in Packets
  OBVIOUS
<1>1. f.type = "DATA" /\ (f \in In(chan'[Host]) \/ (out' # NoPkt /\ f = out'.pkt))
  BY DEF Packets, In
<1>2. out # NoPkt => out.pkt \in Packets
  BY DeliveryTypes
<1>3. CASE f \in In(chan'[Host])
  <2>1. f \in In(chan[Host]) \/ (out # NoPkt /\ f = out.pkt)
    BY <1>1, <1>3 DEF Follows
  <2>2. QED
    BY <1>1, <1>2, <2>1 DEF Packets
<1>4. CASE out' # NoPkt /\ f = out'.pkt
  BY <1>2, <1>4 DEF EndsCalm, PendantKeeps, PendantForgets
<1>5. QED
  BY <1>1, <1>3, <1>4

\* Each packet stays in its place.
LEMMA PacketCalm ==
    ASSUME TypeOK, TypeOK', PacketInv, EndsCalm, NEW f \in Packets
    PROVE  OfPendant(f)' /\ OldForHost(f)' /\ NewForHost(f)' /\ NoneLater(f)'
<1>1. OfPendant(f) /\ OldForHost(f) /\ NewForHost(f) /\ NoneLater(f)
  BY DEF PacketInv
<1>2. f.src \in Nat /\ f.peer \in Nat
  BY PacketType
<1>3. /\ local[Pendant] \in Nat /\ local[Host] \in Nat
      /\ local'[Pendant] \in Nat /\ local'[Host] \in Nat
  BY DEF TypeOK
<1>4. Accepted' = Accepted /\ sent' = sent
  BY DEF EndsCalm, Accepted
<1>5. OfPendant(f)'
  <2>1. CASE PendantKeeps
    <3>1. Latest(f) => Latest(f)'
      BY <1>4, <2>1 DEF PendantKeeps, Latest, NextSeq
    <3>2. Previous(f) => Previous(f)'
      BY <1>4, <2>1 DEF PendantKeeps, Previous, NextSeq
    <3>3. QED
      BY <1>1, <1>4, <2>1, <3>1, <3>2 DEF PendantKeeps, OfPendant
  <2>2. CASE PendantForgets
    BY <1>1, <1>2, <1>3, <1>4, <2>2 DEF PendantForgets, OfPendant
  <2>3. QED
    BY <2>1, <2>2 DEF EndsCalm
<1>6. OldForHost(f)'
  BY <1>1, <1>2, <1>3, <1>4 DEF EndsCalm, HostKeeps, HostForgets, OldForHost
<1>7. NewForHost(f)'
  BY <1>1, <1>4 DEF EndsCalm, HostKeeps, HostForgets, NewForHost, MatchesActive
<1>8. NoneLater(f)'
  BY <1>1, <1>4 DEF NoneLater
<1>9. QED
  BY <1>5, <1>6, <1>7, <1>8

\* With nothing outstanding the ends still agree on the number to come.
LEMMA IdleCalm ==
    ASSUME TypeOK, IdleInv, PairAgreement, EndsCalm
    PROVE  IdleInv'
<1> SUFFICES ASSUME Linked', out' = NoPkt
             PROVE  lastAcc' = NoSeq \/ NextSeq(lastAcc') = nextSeq'
  BY DEF IdleInv, NextSeq
<1>1. /\ est'[Pendant] /\ est'[Host]
      /\ remote'[Pendant] = local'[Host] /\ remote'[Host] = local'[Pendant]
  BY DEF Linked
<1>2. PendantKeeps /\ HostKeeps
  BY <1>1 DEF EndsCalm, PendantForgets, HostForgets
<1>3. CASE ~est[Host]
  BY <1>1, <1>2, <1>3 DEF HostKeeps
<1>4. CASE est[Host]
  <2>1. remote[Host] = local[Pendant] /\ lastAcc' = lastAcc /\ nextSeq' = nextSeq /\ out = NoPkt
    BY <1>1, <1>2, <1>4 DEF HostKeeps, PendantKeeps
  <2>2. Linked
    BY <1>4, <2>1 DEF PairAgreement
  <2>3. QED
    BY <2>1, <2>2 DEF IdleInv
<1>5. QED
  BY <1>3, <1>4

\* What the wire and the ends keep.
LEMMA FlightCalm ==
    ASSUME TypeOK, TypeOK', FlightInv, PairAgreement, EndsCalm,
           NEW g, g.type # "DATA" \/ (out # NoPkt /\ g = out.pkt),
           Follows(chan'[Host], chan[Host], "DATA", g)
    PROVE  FlightInv'
<1>1. Packets' \subseteq Packets
  BY PacketsCalm
<1>2. PacketInv'
  BY <1>1, PacketCalm DEF FlightInv, PacketInv
<1>3. Accepted' = Accepted
  BY DEF EndsCalm, Accepted
<1>4. SameInv'
  <2> SUFFICES ASSUME NEW f \in Packets', NEW h \in Packets'
               PROVE  /\ f.id = h.id => f = h
                      /\ f.src = h.src /\ f.id < h.id => f.id \in Accepted'
    BY DEF SameInv
  <2>1. QED
    BY <1>1, <1>3 DEF FlightInv, SameInv
<1>5. OrderedInv'
  <2> SUFFICES ASSUME NEW f \in Packets', NEW h \in Packets', Before(chan'[Host], f, h)
               PROVE  f.id <= h.id
    BY DEF OrderedInv, Before
  <2>1. f \in Packets /\ h \in Packets /\ f.type = "DATA" /\ h.type = "DATA"
    BY <1>1 DEF Packets
  <2>2. f \in In(chan'[Host]) /\ h \in In(chan'[Host])
    BY DEF Before, In
  <2>3. Before(chan[Host], f, h) \/ h = g
    BY <2>1, <2>2 DEF Follows
  <2>4. CASE Before(chan[Host], f, h)
    BY <2>1, <2>4 DEF FlightInv, OrderedInv
  <2>5. CASE h = g
    <3>1. h.id = sent
      BY <2>1, <2>5 DEF FlightInv, OutInv
    <3>2. f.id \in 1..sent
      BY <2>1 DEF FlightInv, PacketInv, OfPendant
    <3>3. QED
      BY <3>1, <3>2, DeliveryTypes
  <2>6. QED
    BY <2>3, <2>4, <2>5
<1>6. OutInv'
  BY DEF FlightInv, OutInv, EndsCalm, PendantKeeps, PendantForgets
<1>7. IdleInv'
  BY IdleCalm DEF FlightInv
<1>8. LogInv'
  BY <1>3 DEF FlightInv, LogInv, EndsCalm, OnceInOrder
<1>9. QED
  BY <1>2, <1>4, <1>5, <1>6, <1>7, <1>8 DEF FlightInv

\* An answer that was good stays so.
LEMMA AckCalm ==
    ASSUME TypeOK, TypeOK', EndsCalm, NEW a \in Acks, AckGood(a)
    PROVE  AckGood(a)'
<1>1. a.peer \in Nat /\ local[Pendant] \in Nat /\ local'[Pendant] \in Nat
  BY AnswerFields DEF TypeOK
<1>2. Accepted' = Accepted /\ sent' = sent
  BY DEF EndsCalm, Accepted
<1>3. CASE PendantKeeps
  BY <1>2, <1>3 DEF PendantKeeps, AckGood, Current, NextSeq
<1>4. CASE PendantForgets
  BY <1>1, <1>4 DEF PendantForgets, AckGood
<1>5. QED
  BY <1>3, <1>4 DEF EndsCalm

\* The answers after a step that sends at most the answer b.
LEMMA AcksStep ==
    ASSUME TypeOK, TypeOK', NEW b, Follows(chan'[Pendant], chan[Pendant], "ACK", b)
    PROVE  /\ \A a \in Acks' : a \in Acks \/ a = b
           /\ \A a, c \in Acks' : Before(chan'[Pendant], a, c)
                => (a \in Acks /\ c \in Acks /\ Before(chan[Pendant], a, c)) \/ (a \in Acks /\ c = b)
<1>1. \A a \in Acks' : a.type = "ACK" /\ a \in In(chan'[Pendant])
  BY DEF Acks, In
<1>2. \A a \in Acks' : a \in Acks \/ a = b
  BY <1>1 DEF Follows, Acks
<1>3. \A a, c : Before(chan[Pendant], a, c) => a \in In(chan[Pendant]) /\ c \in In(chan[Pendant])
  BY DEF Before, In
<1>4. \A a, c \in Acks' : Before(chan'[Pendant], a, c)
        => Before(chan[Pendant], a, c) \/ (a \in In(chan[Pendant]) /\ c = b)
  BY <1>1 DEF Follows
<1>5. QED
  BY <1>1, <1>2, <1>3, <1>4 DEF Acks

\* What the answers keep.
LEMMA AcksCalm ==
    ASSUME TypeOK, TypeOK', AckInv, EndsCalm,
           NEW b, b.type # "ACK",
           Follows(chan'[Pendant], chan[Pendant], "ACK", b)
    PROVE  AckInv'
<1>1. \A a \in Acks' : a \in Acks /\ a.type = "ACK"
  <2>1. \A a \in Acks' : a.type = "ACK"
    BY DEF Acks
  <2>2. QED
    BY <2>1, AcksStep
<1>2. ASSUME NEW a \in Acks' PROVE AckGood(a)'
  BY <1>1, <1>2, AckCalm DEF AckInv
<1>3. ASSUME NEW a \in Acks', NEW c \in Acks', Before(chan'[Pendant], a, c),
             a.peer = local'[Pendant], c.peer = local'[Pendant], Current(a)'
      PROVE  Current(c)'
  <2>1. a \in Acks /\ c \in Acks /\ Before(chan[Pendant], a, c)
    BY <1>1, <1>3, AcksStep
  <2>2. CASE PendantKeeps
    BY <1>3, <2>1, <2>2 DEF AckInv, Current, NextSeq, PendantKeeps
  <2>3. CASE PendantForgets
    <3>1. a.peer \in Nat /\ local[Pendant] \in Nat /\ local'[Pendant] \in Nat
      BY <2>1, AnswerFields DEF TypeOK
    <3>2. a.peer <= local[Pendant]
      BY <2>1 DEF AckInv, AckGood
    <3>3. QED
      BY <1>3, <2>3, <3>1, <3>2 DEF PendantForgets
  <2>4. QED
    BY <2>2, <2>3 DEF EndsCalm
<1>4. QED
  BY <1>2, <1>3 DEF AckInv, Before, Current

-----------------------------------------------------------------------------
(* The pendant sends the next packet.                                      *)

\* What Originate does, with the packet it makes.
Sent(g) ==
    /\ est[Pendant] /\ out = NoPkt
    /\ g \in Frames /\ g.type = "DATA"
    /\ g.src = local[Pendant] /\ g.peer = remote[Pendant]
    /\ g.seq = nextSeq /\ g.id = sent + 1
    /\ Follows(chan'[Host], chan[Host], "DATA", g)
    /\ chan'[Pendant] = chan[Pendant]
    /\ out' # NoPkt /\ out'.pkt = g
    /\ nextSeq' = NextSeq(nextSeq)
    /\ sent' = sent + 1
    /\ UNCHANGED <<sessionVars, lastAcc, log, delivered>>

\* Before a send, every packet of this generation is the accepted latest one.
LEMMA OnlyLatest ==
    ASSUME TypeOK, PacketInv, out = NoPkt, NEW f \in Packets, f.src = local[Pendant]
    PROVE  f.id = sent /\ sent \in Accepted /\ NextSeq(f.seq) = nextSeq
BY DEF PacketInv, OfPendant, Latest, Previous

\* The packets after a send.
LEMMA PacketsSent ==
    ASSUME TypeOK, NEW g, Sent(g)
    PROVE  \A f \in Packets' : f \in Packets \/ f = g
<1> SUFFICES ASSUME NEW f \in Packets', f # g PROVE f \in Packets
  OBVIOUS
<1>1. f.type = "DATA" /\ f \in In(chan'[Host])
  BY DEF Packets, In, Sent
<1>2. QED
  BY <1>1 DEF Sent, Follows, Packets

\* The new packet takes its place.
LEMMA NewPacketGood ==
    ASSUME TypeOK, TypeOK', FlightInv, NEW g, Sent(g)
    PROVE  OfPendant(g)' /\ OldForHost(g)' /\ NewForHost(g)' /\ NoneLater(g)'
<1>1. Accepted' = Accepted /\ \A k \in Accepted : k \in 1..sent
  BY DEF Sent, Accepted, FlightInv, LogInv
<1>2. sent \in Nat /\ sent' = sent + 1 /\ g.id = sent + 1 /\ g.src \in Nat /\ local[Pendant] \in Nat
  BY DEF Sent, TypeOK
<1>3. g.id \notin Accepted'
  BY <1>1, <1>2
<1>4. OfPendant(g)'
  <2>1. Latest(g)'
    BY <1>2 DEF Sent, Latest, NextSeq
  <2>2. QED
    BY <1>2, <2>1 DEF Sent, OfPendant, sessionVars
<1>5. OldForHost(g)'
  BY <1>3 DEF OldForHost
<1>6. NewForHost(g)'
  <2> SUFFICES ASSUME MatchesActive(Host, g)'
               PROVE  lastAcc' = NoSeq \/ g.seq = NextSeq(lastAcc')
    BY DEF NewForHost, NextSeq
  <2>1. Linked /\ out = NoPkt
    BY DEF MatchesActive, Linked, Sent, sessionVars
  <2>2. lastAcc = NoSeq \/ NextSeq(lastAcc) = nextSeq
    BY <2>1 DEF FlightInv, IdleInv
  <2>3. QED
    BY <2>2 DEF Sent
<1>7. NoneLater(g)'
  BY <1>1, <1>2 DEF NoneLater
<1>8. QED
  BY <1>4, <1>5, <1>6, <1>7

\* The packets before it keep theirs: the latest one is now the one before.
LEMMA OldPacketGood ==
    ASSUME TypeOK, TypeOK', FlightInv, NEW g, Sent(g), NEW f \in Packets
    PROVE  OfPendant(f)' /\ OldForHost(f)' /\ NewForHost(f)' /\ NoneLater(f)'
<1>1. OfPendant(f) /\ OldForHost(f) /\ NewForHost(f) /\ NoneLater(f)
  BY DEF FlightInv, PacketInv
<1>2. Accepted' = Accepted
  BY DEF Sent, Accepted
<1>3. OfPendant(f)'
  <2>1. sent \in Nat /\ sent' = sent + 1
    BY DEF Sent, TypeOK
  <2>2. f.src = local[Pendant] => Previous(f)'
    <3> SUFFICES ASSUME f.src = local[Pendant] PROVE Previous(f)'
      OBVIOUS
    <3>1. f.id = sent /\ sent \in Accepted /\ NextSeq(f.seq) = nextSeq
      BY OnlyLatest DEF FlightInv, Sent
    <3>2. NextSeq(NextSeq(f.seq)) = nextSeq'
      BY <3>1 DEF Sent
    <3>3. QED
      BY <1>2, <2>1, <3>1, <3>2 DEF Previous, Sent, NextSeq
  <2>3. QED
    BY <1>1, <2>1, <2>2 DEF OfPendant, Sent, sessionVars
<1>4. OldForHost(f)' /\ NewForHost(f)' /\ NoneLater(f)'
  BY <1>1, <1>2 DEF OldForHost, NewForHost, NoneLater, MatchesActive, Sent, sessionVars, NextSeq
<1>5. QED
  BY <1>3, <1>4

\* A send keeps the order of what is on the wire.
LEMMA SentFlight ==
    ASSUME TypeOK, TypeOK', FlightInv, NEW g, Sent(g)
    PROVE  FlightInv'
<1>1. \A f \in Packets' : f \in Packets \/ f = g
  BY PacketsSent
<1>2. PacketInv'
  BY <1>1, NewPacketGood, OldPacketGood DEF PacketInv
<1>3. Accepted' = Accepted /\ sent \in Nat
  BY DEF Sent, Accepted, TypeOK
<1>4. \A f \in Packets : f.id \in 1..sent /\ f.id \in Nat /\ f.id < g.id
  <2>1. \A f \in Packets : f.id \in 1..sent
    BY DEF FlightInv, PacketInv, OfPendant
  <2>2. QED
    BY <1>3, <2>1 DEF Sent
<1>5. SameInv'
  <2> SUFFICES ASSUME NEW f \in Packets', NEW h \in Packets'
               PROVE  /\ f.id = h.id => f = h
                      /\ f.src = h.src /\ f.id < h.id => f.id \in Accepted'
    BY DEF SameInv
  <2>1. CASE f \in Packets /\ h \in Packets
    BY <1>3, <2>1 DEF FlightInv, SameInv
  <2>2. CASE f \in Packets /\ h = g
    <3>1. f.src = h.src => f.id \in Accepted
      BY <2>2, OnlyLatest DEF FlightInv, Sent
    <3>2. QED
      BY <1>3, <1>4, <2>2, <3>1
  <2>3. CASE f = g /\ h \in Packets
    BY <1>3, <1>4, <2>3 DEF Sent
  <2>4. CASE f = g /\ h = g
    BY <1>3, <2>4 DEF Sent
  <2>5. QED
    BY <1>1, <2>1, <2>2, <2>3, <2>4
<1>6. OrderedInv'
  <2> SUFFICES ASSUME NEW f \in Packets', NEW h \in Packets', Before(chan'[Host], f, h)
               PROVE  f.id <= h.id
    BY DEF OrderedInv, Before
  <2>1. f.type = "DATA" /\ h.type = "DATA" /\ f \in In(chan'[Host]) /\ h \in In(chan'[Host])
    BY DEF Packets, Before, In
  <2>2. Before(chan[Host], f, h) \/ (f \in In(chan[Host]) /\ h = g)
    BY <2>1 DEF Sent, Follows
  <2>3. CASE Before(chan[Host], f, h)
    <3>1. f \in Packets /\ h \in Packets
      BY <2>1, <2>3 DEF Before, In, Packets
    <3>2. QED
      BY <2>3, <3>1 DEF FlightInv, OrderedInv
  <2>4. CASE f \in In(chan[Host]) /\ h = g
    <3>1. f \in Packets
      BY <2>1, <2>4 DEF Packets
    <3>2. QED
      BY <1>3, <1>4, <2>4, <3>1 DEF Sent
  <2>5. QED
    BY <2>2, <2>3, <2>4
<1>7. OutInv'
  BY DEF Sent, OutInv, sessionVars
<1>8. IdleInv'
  BY DEF Sent, IdleInv
<1>9. LogInv'
  <2>1. \A k \in Accepted' : k \in 1..sent'
    BY <1>3 DEF FlightInv, LogInv, Sent
  <2>2. (\A k \in delivered' : k \in Accepted') /\ OnceInOrder'
    BY <1>3 DEF FlightInv, LogInv, Sent, OnceInOrder
  <2>3. QED
    BY <2>1, <2>2 DEF LogInv
<1>10. QED
  BY <1>2, <1>5, <1>6, <1>7, <1>8, <1>9 DEF FlightInv

\* After a send the answers on the wire are late copies.
LEMMA SentAcks ==
    ASSUME TypeOK, TypeOK', AckInv, NEW g, Sent(g)
    PROVE  AckInv'
<1>1. Acks' = Acks
  BY DEF Sent, Acks
<1>2. nextSeq \in SeqNum
  BY DEF TypeOK
<1>3. \A a \in Acks : a.peer = local[Pendant] => Current(a)
  BY DEF AckInv, AckGood, Sent
<1>4. ASSUME NEW a \in Acks PROVE AckGood(a)'
  <2>1. a.peer = local[Pendant] => NextSeq(NextSeq(a.seq)) = nextSeq'
    BY <1>3 DEF Sent, Current
  <2>2. a.peer <= local[Pendant] /\ (a.peer = local[Pendant] => est[Pendant])
    BY DEF AckInv, AckGood
  <2>3. QED
    BY <2>1, <2>2 DEF AckGood, Sent, sessionVars, NextSeq
<1>5. ASSUME NEW a \in Acks, a.peer = local[Pendant] PROVE ~Current(a)'
  <2>1. NextSeq(a.seq) = nextSeq
    BY <1>3, <1>5 DEF Current
  <2>2. nextSeq' # nextSeq
    BY <1>2, NextSeqDiffers DEF Sent
  <2>3. QED
    BY <2>1, <2>2 DEF Current, NextSeq
<1>6. local'[Pendant] = local[Pendant]
  BY DEF Sent, sessionVars
<1>7. QED
  BY <1>1, <1>4, <1>5, <1>6 DEF AckInv, Current, Before

-----------------------------------------------------------------------------
(* The pendant takes the answer to its packet.                             *)

\* What RecvAck does when the answer a is to the outstanding packet.
Answered(a) ==
    /\ a \in Acks /\ a.peer = local[Pendant] /\ est[Pendant]
    /\ out # NoPkt /\ a.seq = out.pkt.seq
    /\ \A b \in In(chan'[Pendant]) : Before(chan[Pendant], a, b)
    /\ Follows(chan'[Pendant], chan[Pendant], "ACK", Filler)
    /\ chan'[Host] = chan[Host]
    /\ out' = NoPkt /\ delivered' = delivered \cup {out.pkt.id}
    /\ UNCHANGED <<sessionVars, nextSeq, lastAcc, sent, log>>

\* Then the answer is to the latest packet, and the host has accepted it.
LEMMA AnsweredLatest ==
    ASSUME TypeOK, DeliveryInv, NEW a, Answered(a)
    PROVE  sent \in Accepted /\ Current(a) /\ out.pkt \in Packets /\ out.pkt.id = sent
           /\ NextSeq(out.pkt.seq) = nextSeq
<1>1. PICK p \in Packets : p = out.pkt
  BY DeliveryTypes DEF Answered
<1>2. p.id = sent /\ p.src = local[Pendant] /\ sent \in Nat /\ p.seq \in SeqNum
  BY <1>1, PacketType DEF Answered, DeliveryInv, FlightInv, OutInv, TypeOK
<1>3. Latest(p)
  <2>1. OfPendant(p)
    BY DEF DeliveryInv, FlightInv, PacketInv
  <2>2. QED
    BY <1>2, <2>1 DEF OfPendant, Previous
<1>4. Current(a) /\ NextSeq(a.seq) = nextSeq
  BY <1>1, <1>3 DEF Latest, Current, Answered
<1>5. NextSeq(NextSeq(a.seq)) # nextSeq
  <2>1. nextSeq \in SeqNum
    BY DEF TypeOK
  <2>2. QED
    BY <1>4, <2>1, NextSeqDiffers
<1>6. AckGood(a)
  BY DEF DeliveryInv, AckInv, Answered
<1>7. sent \in Accepted
  BY <1>5, <1>6 DEF AckGood, Answered
<1>8. QED
  BY <1>1, <1>2, <1>3, <1>4, <1>7 DEF Latest

\* No copy of an earlier packet of this generation is left on the wire.
LEMMA AnsweredPacket ==
    ASSUME TypeOK, DeliveryInv, NEW a, Answered(a), NEW f \in Packets
    PROVE  OfPendant(f)' /\ OldForHost(f)' /\ NewForHost(f)' /\ NoneLater(f)'
<1>1. OfPendant(f) /\ OldForHost(f) /\ NewForHost(f) /\ NoneLater(f)
  BY DEF DeliveryInv, FlightInv, PacketInv
<1>2. Accepted' = Accepted /\ sent \in Accepted /\ sent \in Nat /\ f.id \in Nat
  BY AnsweredLatest, PacketType DEF Answered, Accepted, TypeOK
<1>3. ~Previous(f)
  BY <1>1, <1>2 DEF NoneLater, Previous
<1>4. Latest(f) => Latest(f)'
  BY <1>2 DEF Latest, Answered, NextSeq
<1>5. OfPendant(f)'
  BY <1>1, <1>3, <1>4 DEF OfPendant, Answered, sessionVars
<1>6. OldForHost(f)' /\ NewForHost(f)' /\ NoneLater(f)'
  BY <1>1, <1>2 DEF OldForHost, NewForHost, NoneLater, MatchesActive, Answered, sessionVars, NextSeq
<1>7. QED
  BY <1>5, <1>6

\* Taking the answer keeps the wire and the ends in order.
LEMMA AnsweredFlight ==
    ASSUME TypeOK, TypeOK', DeliveryInv, NEW a, Answered(a)
    PROVE  FlightInv'
<1>1. Packets' \subseteq Packets
  BY DEF Packets, In, Answered
<1>2. PacketInv'
  BY <1>1, AnsweredPacket DEF PacketInv
<1>3. Accepted' = Accepted /\ sent \in Accepted
  BY AnsweredLatest DEF Answered, Accepted
<1>4. SameInv'
  <2> SUFFICES ASSUME NEW f \in Packets', NEW h \in Packets'
               PROVE  /\ f.id = h.id => f = h
                      /\ f.src = h.src /\ f.id < h.id => f.id \in Accepted'
    BY DEF SameInv
  <2>1. QED
    BY <1>1, <1>3 DEF DeliveryInv, FlightInv, SameInv
<1>5. OrderedInv'
  <2> SUFFICES ASSUME NEW f \in Packets', NEW h \in Packets', Before(chan'[Host], f, h)
               PROVE  f.id <= h.id
    BY DEF OrderedInv, Before
  <2>1. QED
    BY <1>1 DEF DeliveryInv, FlightInv, OrderedInv, Answered
<1>6. OutInv'
  BY DEF Answered, OutInv
<1>7. IdleInv'
  <2> SUFFICES ASSUME Linked'
               PROVE  lastAcc' = NoSeq \/ NextSeq(lastAcc') = nextSeq'
    BY DEF IdleInv, NextSeq
  <2>1. Linked
    BY DEF Linked, Answered, sessionVars
  <2>2. PICK p \in Packets : p = out.pkt /\ p.id = sent /\ NextSeq(p.seq) = nextSeq
    BY AnsweredLatest
  <2>3. p.src = local[Pendant]
    BY <2>2 DEF DeliveryInv, FlightInv, OutInv, Answered
  <2>4. OfPendant(p) /\ OldForHost(p)
    BY DEF DeliveryInv, FlightInv, PacketInv
  <2>5. p.peer = local[Host]
    BY <2>1, <2>3, <2>4 DEF OfPendant, Linked
  <2>6. lastAcc = p.seq
    BY <1>3, <2>2, <2>4, <2>5 DEF OldForHost
  <2>7. QED
    BY <2>2, <2>6 DEF Answered
<1>8. LogInv'
  <2>1. out.pkt.id = sent
    BY AnsweredLatest
  <2>2. QED
    BY <1>3, <2>1 DEF DeliveryInv, FlightInv, LogInv, Answered, OnceInOrder
<1>9. QED
  BY <1>2, <1>4, <1>5, <1>6, <1>7, <1>8 DEF FlightInv

\* The answers behind the one taken are copies of it.
LEMMA AnsweredAcks ==
    ASSUME TypeOK, TypeOK', DeliveryInv, NEW a, Answered(a)
    PROVE  AckInv'
<1>1. \A b \in Acks' : b.type = "ACK" /\ b \in In(chan'[Pendant])
  BY DEF Acks, In
<1>2. \A b \in Acks' : b \in Acks /\ Before(chan[Pendant], a, b)
  BY <1>1, AcksStep, FillerType DEF Answered, Filler, Frame
<1>3. sent \in Accepted /\ Current(a) /\ Accepted' = Accepted
  BY AnsweredLatest DEF Answered, Accepted
<1>4. \A b \in Acks' : b.peer = local[Pendant] => Current(b)
  BY <1>2, <1>3 DEF DeliveryInv, AckInv, Answered
<1>5. ASSUME NEW b \in Acks' PROVE AckGood(b)' /\ (b.peer = local'[Pendant] => Current(b)')
  <2>1. b.peer <= local[Pendant] /\ (b.peer = local[Pendant] => est[Pendant])
    BY <1>2, <1>5 DEF DeliveryInv, AckInv, AckGood
  <2>2. QED
    BY <1>3, <1>4, <1>5, <2>1 DEF AckGood, Current, Answered, sessionVars, NextSeq
<1>6. QED
  BY <1>5 DEF AckInv, Before, Current

-----------------------------------------------------------------------------
(* The host accepts a packet, or answers a duplicate again.                *)

\* What every answer to the packet f does, with the answer a.
Replied(f, a) ==
    /\ f \in Packets /\ f \in In(chan[Host]) /\ MatchesActive(Host, f)
    /\ \A h \in In(chan'[Host]) : Before(chan[Host], f, h)
    /\ Follows(chan'[Host], chan[Host], "DATA", Filler)
    /\ Follows(chan'[Pendant], chan[Pendant], "ACK", a)
    /\ UNCHANGED <<sessionVars, nextSeq, sent, delivered>>
    /\ out' = out

AckOf(f, a) == a.type = "ACK" /\ a.peer = f.src /\ a.seq = f.seq

\* A packet is a duplicate exactly when it was accepted before.
LEMMA DuplicateIsAccepted ==
    ASSUME TypeOK, FlightInv, NEW f \in Packets, MatchesActive(Host, f)
    PROVE  /\ Duplicate(f) <=> f.id \in Accepted
           /\ f.id \in Accepted => lastAcc = f.seq
<1>1. OldForHost(f) /\ NewForHost(f) /\ f.peer = local[Host]
  BY DEF FlightInv, PacketInv, MatchesActive
<1>2. f.seq \in SeqNum /\ NoSeq \notin SeqNum
  BY PacketType DEF SeqNum, NoSeq
<1>3. f.id \in Accepted => lastAcc = f.seq
  BY <1>1 DEF OldForHost
<1>4. CASE f.id \in Accepted
  <2>1. lastAcc = f.seq /\ lastAcc \in SeqNum /\ lastAcc # NoSeq
    BY <1>2, <1>3, <1>4
  <2>2. ~IsNew(f.seq)
    BY <2>1, SuccessorIsNew
  <2>3. QED
    BY <1>4, <2>1, <2>2 DEF Duplicate
<1>5. CASE f.id \notin Accepted
  <2>1. lastAcc = NoSeq \/ f.seq = NextSeq(lastAcc)
    BY <1>1, <1>5 DEF NewForHost
  <2>2. CASE lastAcc # NoSeq
    <3>1. lastAcc \in SeqNum /\ f.seq = NextSeq(lastAcc)
      BY <2>1, <2>2, DeliveryTypes
    <3>2. IsNew(f.seq)
      BY <3>1, SuccessorIsNew
    <3>3. QED
      BY <1>5, <3>2 DEF Duplicate
  <2>3. QED
    BY <1>5, <2>2 DEF Duplicate
<1>6. QED
  BY <1>3, <1>4, <1>5

Accepting(f, a) ==
    /\ Replied(f, a) /\ AckOf(f, a)
    /\ ~Duplicate(f)
    /\ lastAcc' = f.seq /\ log' = Append(log, f.id)

Repeating(f, a) ==
    /\ Replied(f, a) /\ AckOf(f, a)
    /\ Duplicate(f)
    /\ UNCHANGED <<lastAcc, log>>

\* What the log holds after an acceptance, and where.
LEMMA AppendAccepted ==
    ASSUME TypeOK, NEW k \in Nat, log' = Append(log, k)
    PROVE  /\ \A j : j \in Accepted' <=> j \in Accepted \/ j = k
           /\ OnceInOrder /\ (\A j \in Accepted : j < k) => OnceInOrder'
<1>1. /\ log \in Seq(Nat) /\ Len(log) \in Nat /\ DOMAIN log = 1..Len(log)
      /\ DOMAIN log' = 1..(Len(log) + 1)
      /\ log'[Len(log) + 1] = k
      /\ \A i \in 1..Len(log) : log'[i] = log[i]
  BY DEF TypeOK
<1>2. \A j : j \in Accepted' <=> j \in Accepted \/ j = k
  BY <1>1 DEF Accepted, In
<1>3. ASSUME OnceInOrder, \A j \in Accepted : j < k PROVE OnceInOrder'
  <2> SUFFICES ASSUME NEW i \in DOMAIN log', NEW j \in DOMAIN log', i < j
               PROVE  log'[i] < log'[j]
    BY DEF OnceInOrder
  <2>1. i \in 1..Len(log) /\ log[i] \in Accepted
    BY <1>1 DEF Accepted, In
  <2>2. CASE j = Len(log) + 1
    BY <1>1, <1>3, <2>1, <2>2
  <2>3. CASE j # Len(log) + 1
    BY <1>1, <1>3, <2>1, <2>3 DEF OnceInOrder
  <2>4. QED
    BY <2>2, <2>3
<1>4. QED
  BY <1>2, <1>3

\* An accepted packet is newer than all accepted before, and it is the latest of
\* its generation.
LEMMA AcceptingNewest ==
    ASSUME TypeOK, DeliveryInv, NEW f, NEW a, Accepting(f, a)
    PROVE  /\ f \in Packets /\ f.id \notin Accepted
           /\ \A k \in Accepted : k < f.id
           /\ f.id \in 1..sent
           /\ f.src <= local[Pendant]
           /\ f.src = local[Pendant] => est[Pendant] /\ Latest(f)
           /\ \A j : j \in Accepted' <=> j \in Accepted \/ j = f.id
           /\ OnceInOrder'
<1>1. f \in Packets /\ MatchesActive(Host, f) /\ ~Duplicate(f)
  BY DEF Accepting, Replied
<1>2. f.id \notin Accepted
  BY <1>1, DuplicateIsAccepted DEF DeliveryInv
<1>3. OfPendant(f) /\ NoneLater(f)
  BY <1>1 DEF DeliveryInv, FlightInv, PacketInv
<1>4. f.id \in Nat /\ \A k \in Accepted : k \in Nat
  BY <1>1, PacketType, DeliveryTypes
<1>5. \A k \in Accepted : k < f.id
  BY <1>2, <1>3, <1>4 DEF NoneLater
<1>6. f.src = local[Pendant] => est[Pendant] /\ Latest(f)
  BY <1>2, <1>3 DEF OfPendant, Previous
<1>7. OnceInOrder
  BY DEF DeliveryInv, FlightInv, LogInv
<1>8. QED
  BY <1>1, <1>2, <1>3, <1>4, <1>5, <1>6, <1>7, AppendAccepted DEF Accepting, OfPendant

\* The packets behind an accepted one follow it in number too.
LEMMA AcceptingPacket ==
    ASSUME TypeOK, TypeOK', DeliveryInv, NEW f, NEW a, Accepting(f, a),
           NEW g \in Packets, f.id <= g.id
    PROVE  OfPendant(g)' /\ OldForHost(g)' /\ NewForHost(g)' /\ NoneLater(g)'
<1>1. OfPendant(g) /\ OldForHost(g) /\ NewForHost(g) /\ NoneLater(g)
  BY DEF DeliveryInv, FlightInv, PacketInv
<1>2. /\ f \in Packets /\ f.id \notin Accepted
      /\ \A k \in Accepted : k < f.id
      /\ \A j : j \in Accepted' <=> j \in Accepted \/ j = f.id
  BY AcceptingNewest
<1>3. f.id \in Nat /\ g.id \in Nat /\ \A k \in Accepted : k \in Nat
  BY <1>2, PacketType, DeliveryTypes
<1>4. /\ MatchesActive(Host, f) /\ lastAcc' = f.seq /\ UNCHANGED <<sessionVars, nextSeq, sent>>
      /\ out' = out
  BY DEF Accepting, Replied
<1>5. g.id \notin Accepted
  BY <1>2, <1>3
<1>6. OfPendant(g)'
  <2>1. Latest(g) => Latest(g)'
    BY <1>2, <1>4 DEF Latest, NextSeq
  <2>2. ~Previous(g)
    BY <1>5 DEF Previous
  <2>3. QED
    BY <1>1, <1>4, <2>1, <2>2 DEF OfPendant, sessionVars
<1>7. OldForHost(g)'
  <2> SUFFICES ASSUME g.id = f.id
               PROVE  g.peer <= local'[Host] /\ (g.peer = local'[Host] => est'[Host] /\ lastAcc' = g.seq)
    BY <1>2, <1>5 DEF OldForHost
  <2>1. g = f
    BY <1>2 DEF DeliveryInv, FlightInv, SameInv
  <2>2. local[Host] \in Nat
    BY DEF TypeOK
  <2>3. QED
    BY <1>4, <2>1, <2>2 DEF MatchesActive, sessionVars
<1>8. NewForHost(g)'
  <2> SUFFICES ASSUME MatchesActive(Host, g)', g.id # f.id
               PROVE  FALSE
    BY <1>2 DEF NewForHost
  <2>1. g.src = f.src
    BY <1>4 DEF MatchesActive, sessionVars
  <2>2. f.id < g.id
    BY <1>3
  <2>3. QED
    BY <1>2, <2>1, <2>2 DEF DeliveryInv, FlightInv, SameInv
<1>9. NoneLater(g)'
  <2>1. \A k \in Accepted : k <= g.id
    BY <1>1 DEF NoneLater
  <2>2. QED
    BY <1>2, <2>1 DEF NoneLater
<1>10. QED
  BY <1>6, <1>7, <1>8, <1>9

\* The packets left after a reply.
LEMMA RepliedPackets ==
    ASSUME TypeOK, FlightInv, NEW f, NEW a, Replied(f, a)
    PROVE  /\ Packets' \subseteq Packets
           /\ \A g \in Packets' : f.id <= g.id
           /\ \A g, h \in Packets' : Before(chan'[Host], g, h) => Before(chan[Host], g, h)
<1>1. \A g \in Packets' : g.type = "DATA" /\ (g \in In(chan'[Host]) \/ (out # NoPkt /\ g = out.pkt))
  BY DEF Packets, In, Replied
<1>2. \A g \in Packets' : g \in In(chan'[Host]) => g \in In(chan[Host])
  BY <1>1, FillerType DEF Replied, Follows, Filler, Frame
<1>3. Packets' \subseteq Packets
  BY <1>1, <1>2 DEF Packets
<1>4. ASSUME NEW g \in Packets' PROVE f.id <= g.id
  <2>1. f \in Packets /\ g \in Packets
    BY <1>3 DEF Replied
  <2>2. CASE g \in In(chan'[Host])
    <3>1. Before(chan[Host], f, g)
      BY <2>2 DEF Replied
    <3>2. QED
      BY <2>1, <3>1 DEF FlightInv, OrderedInv
  <2>3. CASE out # NoPkt /\ g = out.pkt
    <3>1. g.id = sent
      BY <2>3 DEF FlightInv, OutInv
    <3>2. f.id \in 1..sent
      BY <2>1 DEF FlightInv, PacketInv, OfPendant
    <3>3. QED
      BY <3>1, <3>2, DeliveryTypes
  <2>4. QED
    BY <1>1, <2>2, <2>3
<1>5. ASSUME NEW g \in Packets', NEW h \in Packets', Before(chan'[Host], g, h)
      PROVE  Before(chan[Host], g, h)
  <2>1. g.type = "DATA" /\ h.type = "DATA" /\ Filler.type # "DATA"
    BY <1>1 DEF Filler, Frame
  <2>2. g \in In(chan'[Host]) /\ h \in In(chan'[Host])
    BY <1>5 DEF Before, In
  <2>3. QED
    BY <1>5, <2>1, <2>2 DEF Replied, Follows
<1>6. QED
  BY <1>3, <1>4, <1>5

\* An acceptance keeps the wire, the log and the ends in order.
LEMMA AcceptingFlight ==
    ASSUME TypeOK, TypeOK', DeliveryInv, NEW f, NEW a, Accepting(f, a)
    PROVE  FlightInv'
<1>1. /\ Packets' \subseteq Packets
      /\ \A g \in Packets' : f.id <= g.id
      /\ \A g, h \in Packets' : Before(chan'[Host], g, h) => Before(chan[Host], g, h)
  BY RepliedPackets DEF Accepting, DeliveryInv
<1>2. PacketInv'
  BY <1>1, AcceptingPacket DEF PacketInv
<1>3. /\ f.id \in 1..sent /\ OnceInOrder'
      /\ \A j : j \in Accepted' <=> j \in Accepted \/ j = f.id
      /\ f.src = local[Pendant] => Latest(f)
  BY AcceptingNewest
<1>4. SameInv'
  <2> SUFFICES ASSUME NEW g \in Packets', NEW h \in Packets'
               PROVE  /\ g.id = h.id => g = h
                      /\ g.src = h.src /\ g.id < h.id => g.id \in Accepted'
    BY DEF SameInv
  <2>1. QED
    BY <1>1, <1>3 DEF DeliveryInv, FlightInv, SameInv
<1>5. OrderedInv'
  <2> SUFFICES ASSUME NEW g \in Packets', NEW h \in Packets', Before(chan'[Host], g, h)
               PROVE  g.id <= h.id
    BY DEF OrderedInv, Before
  <2>1. QED
    BY <1>1 DEF DeliveryInv, FlightInv, OrderedInv
<1>6. OutInv'
  BY DEF DeliveryInv, FlightInv, OutInv, Accepting, Replied, sessionVars
<1>7. IdleInv'
  <2> SUFFICES ASSUME Linked'
               PROVE  lastAcc' = NoSeq \/ NextSeq(lastAcc') = nextSeq'
    BY DEF IdleInv, NextSeq
  <2>1. f.src = local[Pendant]
    BY DEF Linked, Accepting, Replied, MatchesActive, sessionVars
  <2>2. NextSeq(f.seq) = nextSeq
    BY <1>3, <2>1 DEF Latest
  <2>3. QED
    BY <2>2 DEF Accepting, Replied
<1>8. LogInv'
  <2>1. sent' = sent /\ delivered' = delivered
    BY DEF Accepting, Replied
  <2>2. QED
    BY <1>3, <2>1 DEF DeliveryInv, FlightInv, LogInv
<1>9. QED
  BY <1>2, <1>4, <1>5, <1>6, <1>7, <1>8 DEF FlightInv

\* The answers on the wire after an ACK for the latest packet, which is accepted,
\* or for the one before it while the latest is not.
LEMMA RepliedAcks ==
    ASSUME TypeOK, TypeOK', DeliveryInv, NEW f, NEW a, Replied(f, a), AckOf(f, a),
           f.src <= local[Pendant],
           \A k \in Accepted : k \in Accepted',
           f.src = local[Pendant]
             => est[Pendant] /\ \/ Latest(f) /\ sent \in Accepted'
                                \/ Previous(f) /\ sent \notin Accepted
    PROVE  AckInv'
<1>1. /\ \A b \in Acks' : b \in Acks \/ b = a
      /\ \A b, c \in Acks' : Before(chan'[Pendant], b, c)
           => (b \in Acks /\ c \in Acks /\ Before(chan[Pendant], b, c)) \/ (b \in Acks /\ c = a)
  BY AcksStep DEF Replied
<1>2. UNCHANGED <<sessionVars, nextSeq, sent>> /\ out' = out
  BY DEF Replied
<1>3. a.peer = local[Pendant]
        => est[Pendant] /\ \/ Current(a) /\ sent \in Accepted'
                           \/ /\ NextSeq(NextSeq(a.seq)) = nextSeq /\ out # NoPkt
                              /\ sent \notin Accepted
  BY DEF AckOf, Latest, Previous, Current
<1>4. ASSUME NEW b \in Acks' PROVE AckGood(b)'
  <2>1. CASE b \in Acks
    <3>1. AckGood(b)
      BY <2>1 DEF DeliveryInv, AckInv
    <3>2. QED
      BY <1>2, <3>1 DEF AckGood, Current, sessionVars, NextSeq
  <2>2. CASE b = a
    BY <1>2, <1>3, <2>2 DEF AckGood, AckOf, Current, sessionVars, NextSeq
  <2>3. QED
    BY <1>1, <2>1, <2>2
<1>5. \A b \in Acks : b.peer = local[Pendant] /\ Current(b) => sent \in Accepted
  <2> SUFFICES ASSUME NEW b \in Acks, b.peer = local[Pendant], Current(b) PROVE sent \in Accepted
    OBVIOUS
  <2>1. NextSeq(b.seq) = nextSeq /\ nextSeq \in SeqNum
    BY DEF Current, TypeOK
  <2>2. NextSeq(NextSeq(b.seq)) # nextSeq
    BY <2>1, NextSeqDiffers
  <2>3. QED
    BY <2>2 DEF DeliveryInv, AckInv, AckGood
<1>6. ASSUME NEW b \in Acks', NEW c \in Acks', Before(chan'[Pendant], b, c),
             b.peer = local[Pendant], c.peer = local[Pendant], Current(b)
      PROVE  Current(c)
  <2>1. CASE b \in Acks /\ c \in Acks /\ Before(chan[Pendant], b, c)
    BY <1>6, <2>1 DEF DeliveryInv, AckInv
  <2>2. CASE b \in Acks /\ c = a
    BY <1>3, <1>5, <1>6, <2>2
  <2>3. QED
    BY <1>1, <1>6, <2>1, <2>2
<1>7. \A b : Current(b)' <=> Current(b)
  BY <1>2 DEF Current, NextSeq
<1>8. local'[Pendant] = local[Pendant]
  BY <1>2 DEF sessionVars
<1>9. QED
  BY <1>4, <1>6, <1>7, <1>8 DEF AckInv, Before

\* The acceptance's ACK is good.
LEMMA AcceptingAcks ==
    ASSUME TypeOK, TypeOK', DeliveryInv, NEW f, NEW a, Accepting(f, a)
    PROVE  AckInv'
<1>1. /\ f.src <= local[Pendant]
      /\ f.src = local[Pendant] => est[Pendant] /\ Latest(f)
      /\ \A j : j \in Accepted' <=> j \in Accepted \/ j = f.id
  BY AcceptingNewest
<1>2. f.src = local[Pendant] => sent \in Accepted'
  BY <1>1 DEF Latest
<1>3. QED
  BY <1>1, <1>2, RepliedAcks DEF Accepting

\* A duplicate is answered again and changes nothing else.
LEMMA RepeatingKeeps ==
    ASSUME TypeOK, TypeOK', DeliveryInv, PairAgreement, NEW f, NEW a, Repeating(f, a)
    PROVE  DeliveryInv'
<1>1. f \in Packets /\ MatchesActive(Host, f) /\ Duplicate(f)
  BY DEF Repeating, Replied
<1>2. EndsCalm /\ Accepted' = Accepted
  <2>1. PendantKeeps /\ HostKeeps
    BY DEF Repeating, Replied, PendantKeeps, HostKeeps, sessionVars
  <2>2. QED
    BY <2>1 DEF Repeating, Replied, EndsCalm, Accepted
<1>3. FlightInv'
  <2>1. Filler.type # "DATA"
    BY DEF Filler, Frame
  <2>2. QED
    BY <1>2, <2>1, FlightCalm DEF Repeating, Replied, DeliveryInv
<1>4. f.id \in Accepted /\ OfPendant(f) /\ NoneLater(f) /\ f.id \in Nat /\ sent \in Nat
  BY <1>1, DuplicateIsAccepted, PacketType DEF DeliveryInv, FlightInv, PacketInv, TypeOK
<1>5. f.src = local[Pendant]
        => est[Pendant] /\ \/ Latest(f) /\ sent \in Accepted'
                           \/ Previous(f) /\ sent \notin Accepted
  <2>1. Previous(f) => sent \notin Accepted
    BY <1>4 DEF Previous, NoneLater
  <2>2. Latest(f) => sent \in Accepted'
    BY <1>2, <1>4 DEF Latest
  <2>3. QED
    BY <1>4, <2>1, <2>2 DEF OfPendant
<1>6. AckInv'
  BY <1>2, <1>4, <1>5, RepliedAcks DEF Repeating, OfPendant
<1>7. QED
  BY <1>3, <1>6 DEF DeliveryInv

-----------------------------------------------------------------------------
(* Every action is one of these steps.                                     *)

\* A calm step under which each channel gains at most a frame that is neither
\* packet nor answer, or the outstanding packet again.
LEMMA CalmStep ==
    ASSUME TypeOK, TypeOK', DeliveryInv, PairAgreement, EndsCalm,
           NEW g, g.type # "ACK", g.type # "DATA" \/ (out # NoPkt /\ g = out.pkt),
           \A e \in EP : \A t : Follows(chan'[e], chan[e], t, g)
    PROVE  Packets' \subseteq Packets /\ DeliveryInv'
<1>1. FlightInv'
  BY FlightCalm DEF DeliveryInv
<1>2. AckInv'
  BY AcksCalm DEF DeliveryInv
<1>3. Packets' \subseteq Packets
  BY PacketsCalm
<1>4. QED
  BY <1>1, <1>2, <1>3 DEF DeliveryInv

\* What reading a frame, and answering it with f, does to both channels.
LEMMA ReadFollows ==
    ASSUME TypeOK, NEW e \in EP, chan[e] # <<>>, NEW f \in Frames,
           Take(e) \/ TakeAndAnswer(e, f)
    PROVE  \A d \in EP : \A t : Follows(chan'[d], chan[d], t, f)
<1>1. chan \in Channels /\ chan[e] \in Seq(Frames) /\ chan[Peer(e)] \in Seq(Frames)
  BY PeerType DEF TypeOK, Channels
<1>2. chan'[e] = Tail(chan[e]) /\ chan'[Peer(e)] \in {chan[Peer(e)], Push(chan[Peer(e)], f)}
  BY <1>1, PeerType DEF Take, TakeAndAnswer, Channels
<1>3. \A t : Follows(chan'[e], chan[e], t, f)
  BY <1>1, <1>2, TailFollows
<1>4. \A t : Follows(chan'[Peer(e)], chan[Peer(e)], t, f)
  BY <1>1, <1>2, SameFollows, PushFollows
<1>5. \A d \in EP : d = e \/ d = Peer(e)
  BY DEF Peer
<1>6. QED
  BY <1>3, <1>4, <1>5

\* A calm step that reads a frame.
LEMMA CalmRead ==
    ASSUME TypeOK, TypeOK', DeliveryInv, PairAgreement, EndsCalm, NEW e \in EP, chan[e] # <<>>,
           NEW f \in Frames, f.type # "ACK", f.type # "DATA" \/ (out # NoPkt /\ f = out.pkt),
           Take(e) \/ TakeAndAnswer(e, f)
    PROVE  Packets' \subseteq Packets /\ DeliveryInv'
BY ReadFollows, CalmStep

\* A calm step that leaves the channels alone.
LEMMA CalmStill ==
    ASSUME TypeOK, TypeOK', DeliveryInv, PairAgreement, EndsCalm, chan' = chan
    PROVE  Packets' \subseteq Packets /\ DeliveryInv'
<1>1. Filler.type = "HEARTBEAT"
  BY DEF Filler, Frame
<1>2. \A e \in EP : \A t : Follows(chan'[e], chan[e], t, Filler)
  BY SameFollows
<1>3. QED
  BY <1>1, <1>2, CalmStep

\* The filler is neither packet nor answer.
LEMMA FillerPlain == Filler \in Frames /\ Filler.type # "ACK" /\ Filler.type # "DATA"
BY FillerType DEF Filler, Frame

SamePacket == IF out = NoPkt THEN out' = NoPkt ELSE out' # NoPkt /\ out'.pkt = out.pkt

\* Leaving both ends alone is calm.
LEMMA KeepCalm ==
    ASSUME UNCHANGED <<sessionVars, nextSeq, lastAcc, sent, log, delivered>>, SamePacket
    PROVE  EndsCalm
BY DEF EndsCalm, PendantKeeps, HostKeeps, SamePacket, sessionVars

\* Giving a session up is calm.
LEMMA ForgetCalm ==
    ASSUME TypeOK, NEW e \in EP, ForgetSession(e), e = Host => nextSeq' = nextSeq,
           UNCHANGED <<sent, log, delivered>>
    PROVE  EndsCalm
<1>1. local[e] \in Nat /\ local'[e] = local[e] + 1 /\ ~est'[e]
  BY DEF ForgetSession, TypeOK
<1>2. CASE e = Pendant
  <2>1. PendantForgets
    BY <1>1, <1>2 DEF PendantForgets, ForgetSession
  <2>2. HostKeeps
    BY <1>2 DEF HostKeeps, ForgetSession, TypeOK
  <2>3. QED
    BY <2>1, <2>2 DEF EndsCalm
<1>3. CASE e = Host
  <2>1. HostForgets
    BY <1>1, <1>3 DEF HostForgets
  <2>2. PendantKeeps
    BY <1>3 DEF PendantKeeps, ForgetSession, TypeOK
  <2>3. QED
    BY <2>1, <2>2 DEF EndsCalm
<1>4. QED
  BY <1>2, <1>3

\* Sending the outstanding packet again keeps it.
LEMMA RetryKeeps ==
    ASSUME TypeOK, out # NoPkt, out.tries < MaxRetries,
           out' = [out EXCEPT !.age = 0, !.tries = @ + 1]
    PROVE  SamePacket
<1>1. out' \in Outstanding
  BY RetryType
<1>2. out' # NoPkt
  BY <1>1, LinkConstants
<1>3. QED
  BY <1>2 DEF SamePacket, TypeOK, Outstanding

\* The handshake.
LEMMA HandshakeDelivers ==
    ASSUME TypeOK, TypeOK', DeliveryInv, PairAgreement,
           RefuseInit \/ RepeatChallenge \/ AcceptInit \/ RecvChallenge \/ RecvConfirm
    PROVE  EndsCalm /\ Packets' \subseteq Packets /\ DeliveryInv'
<1> USE DEF historyVars
<1>1. CASE RefuseInit
  <2>1. EndsCalm
    BY <1>1, KeepCalm DEF RefuseInit, SamePacket, senderVars
  <2>2. QED
    BY <1>1, <2>1, CalmRead, FillerPlain DEF RefuseInit, Arrives
<1>2. CASE RepeatChallenge
  <2>1. EndsCalm
    BY <1>2, KeepCalm DEF RepeatChallenge, SamePacket, senderVars
  <2>2. PICK f \in Frames : f = Frame("CHALLENGE", local[Host], remote[Host], NoSeq)
    BY FrameType, SmallTypes, NoSeqTypes DEF TypeOK
  <2>3. f.type = "CHALLENGE"
    BY <2>2 DEF Frame
  <2>4. QED
    BY <1>2, <2>1, <2>2, <2>3, CalmRead DEF RepeatChallenge, Arrives
<1>3. CASE AcceptInit
  <2>1. HostKeeps \/ HostForgets
    <3>1. ~est[Host] /\ ~est'[Host]
      BY <1>3 DEF AcceptInit
    <3>2. local[Host] \in Nat /\ local'[Host] = ChallengeNonce
      BY <1>3 DEF AcceptInit, TypeOK
    <3>3. QED
      BY <3>1, <3>2 DEF HostKeeps, HostForgets, ChallengeNonce
  <2>2. PendantKeeps
    BY <1>3 DEF AcceptInit, PendantKeeps, senderVars, TypeOK
  <2>3. EndsCalm
    BY <1>3, <2>1, <2>2 DEF EndsCalm, AcceptInit
  <2>4. PICK f \in Frames : f = Frame("CHALLENGE", ChallengeNonce, Head(chan[Host]).src, NoSeq)
    <3>1. Head(chan[Host]).src \in Nat /\ ChallengeNonce \in Nat
      BY <1>3, ArrivedType DEF AcceptInit, ChallengeNonce, TypeOK
    <3>2. QED
      BY <3>1, FrameType, SmallTypes, NoSeqTypes
  <2>5. f.type = "CHALLENGE"
    BY <2>4 DEF Frame
  <2>6. QED
    BY <1>3, <2>3, <2>4, <2>5, CalmRead DEF AcceptInit, Arrives
<1>4. CASE RecvChallenge
  <2>1. PICK f \in Frames : f = Frame("CONFIRM", local[Pendant], Head(chan[Pendant]).src, NoSeq)
    BY <1>4, ArrivedType, FrameType, SmallTypes, NoSeqTypes DEF RecvChallenge, TypeOK
  <2>2. f.type = "CONFIRM"
    BY <2>1 DEF Frame
  <2>3. HostKeeps
    BY <1>4 DEF RecvChallenge, Establish, HostKeeps, TypeOK
  <2>4. PendantKeeps
    BY <1>4 DEF RecvChallenge, Establish, GoodChallenge, PendantKeeps, senderVars, TypeOK
  <2>5. EndsCalm
    BY <1>4, <2>3, <2>4 DEF EndsCalm, RecvChallenge
  <2>6. chan[Pendant] # <<>> /\ (Take(Pendant) \/ TakeAndAnswer(Pendant, f))
    BY <1>4, <2>1 DEF RecvChallenge, Arrives
  <2>7. QED
    BY <2>2, <2>5, <2>6, CalmRead
<1>5. CASE RecvConfirm
  <2>1. HostKeeps
    BY <1>5 DEF RecvConfirm, Establish, HostKeeps, TypeOK
  <2>2. PendantKeeps
    BY <1>5 DEF RecvConfirm, Establish, PendantKeeps, senderVars, TypeOK
  <2>3. EndsCalm
    BY <1>5, <2>1, <2>2 DEF EndsCalm, RecvConfirm
  <2>4. QED
    BY <1>5, <2>3, CalmRead, FillerPlain DEF RecvConfirm, Arrives
<1>6. QED
  BY <1>1, <1>2, <1>3, <1>4, <1>5

\* Frames of another session, heartbeats and lost frames.
LEMMA DroppedDelivers ==
    ASSUME TypeOK, TypeOK', DeliveryInv, PairAgreement, NEW e \in EP,
           RejectOldSession(e) \/ RecvHeartbeat(e) \/ LoseFrame(e)
    PROVE  EndsCalm /\ Packets' \subseteq Packets /\ DeliveryInv'
<1>1. chan[e] # <<>> /\ Take(e)
  BY DEF RejectOldSession, RecvHeartbeat, LoseFrame, Arrives
<1>2. EndsCalm
  BY KeepCalm DEF RejectOldSession, RecvHeartbeat, LoseFrame, SamePacket, senderVars, historyVars
<1>3. QED
  BY <1>1, <1>2, CalmRead, FillerPlain

\* An ACK.
LEMMA AckDelivers ==
    ASSUME TypeOK, TypeOK', DeliveryInv, PairAgreement, RecvAck
    PROVE  /\ (EndsCalm /\ Packets' \subseteq Packets) \/ \E a : Answered(a)
           /\ DeliveryInv'
<1>1. PICK a : a = Head(chan[Pendant])
  OBVIOUS
<1>2. chan[Pendant] \in Seq(Frames) /\ chan[Pendant] # <<>> /\ Take(Pendant)
  BY DEF RecvAck, Arrives, TypeOK
<1>3. CASE Answers(a)
  <2>1. a \in In(chan[Pendant]) /\ \A b \in In(Tail(chan[Pendant])) : Before(chan[Pendant], a, b)
    BY <1>1, <1>2, HeadBefore
  <2>2. chan'[Pendant] = Tail(chan[Pendant]) /\ chan'[Host] = chan[Host]
    BY <1>2 DEF Take, TypeOK
  <2>3. Follows(chan'[Pendant], chan[Pendant], "ACK", Filler)
    BY <1>2, <2>2, TailFollows
  <2>4. Answered(a)
    <3>1. a.type = "ACK" /\ MatchesActive(Pendant, a)
      BY <1>1 DEF RecvAck, Arrives
    <3>2. UNCHANGED <<sessionVars, nextSeq, lastAcc, sent, log>>
      BY DEF RecvAck
    <3>3. out' = NoPkt /\ delivered' = delivered \cup {out.pkt.id}
      BY <1>1, <1>3 DEF RecvAck
    <3>4. QED
      BY <1>3, <2>1, <2>2, <2>3, <3>1, <3>2, <3>3 DEF Answered, Acks, MatchesActive, Answers
  <2>5. QED
    BY <2>4, AnsweredFlight, AnsweredAcks DEF DeliveryInv
<1>4. CASE ~Answers(a)
  <2>1. EndsCalm
    BY <1>1, <1>4, KeepCalm DEF RecvAck, SamePacket
  <2>2. QED
    BY <1>2, <2>1, CalmRead, FillerPlain
<1>5. QED
  BY <1>3, <1>4

\* A NAK.
LEMMA NakDelivers ==
    ASSUME TypeOK, TypeOK', DeliveryInv, PairAgreement, RecvNak
    PROVE  EndsCalm /\ Packets' \subseteq Packets /\ DeliveryInv'
<1> USE DEF historyVars
<1>1. chan[Pendant] # <<>>
  BY DEF RecvNak, Arrives
<1>2. CASE ~Answers(Head(chan[Pendant]))
  <2>1. EndsCalm /\ Take(Pendant)
    BY <1>2, KeepCalm DEF RecvNak, SamePacket, senderVars
  <2>2. QED
    BY <1>1, <2>1, CalmRead, FillerPlain
<1>3. CASE Answers(Head(chan[Pendant])) /\ out.tries >= MaxRetries
  <2>1. EndsCalm /\ Take(Pendant)
    BY <1>3, ForgetCalm DEF RecvNak, LoseSession
  <2>2. QED
    BY <1>1, <2>1, CalmRead, FillerPlain
<1>4. CASE Answers(Head(chan[Pendant])) /\ ~(out.tries >= MaxRetries)
  <2>1. out # NoPkt /\ out.tries < MaxRetries
    <3>1. out # NoPkt /\ out \in Outstanding
      BY <1>4 DEF Answers, TypeOK
    <3>2. QED
      BY <1>4, <3>1, ConstantTypes DEF Outstanding
  <2>2. SamePacket
    BY <1>4, <2>1, RetryKeeps DEF RecvNak
  <2>3. EndsCalm
    BY <1>4, <2>2, KeepCalm DEF RecvNak
  <2>4. PICK p \in Frames : p = out.pkt /\ p.type = "DATA"
    BY <2>1, DeliveryTypes, PacketType
  <2>5. TakeAndAnswer(Pendant, p)
    BY <1>4, <2>4 DEF RecvNak
  <2>6. QED
    BY <1>1, <2>1, <2>3, <2>4, <2>5, CalmRead
<1>5. QED
  BY <1>2, <1>3, <1>4

\* What answering the packet f with a does to both channels.
LEMMA AnswerReplies ==
    ASSUME TypeOK, NEW t \in {"ACK", "NAK"}, NEW f \in DataArriving, AnswerData(t, f),
           NEW a \in Frames, a = Frame(t, local[Host], remote[Host], f.seq)
    PROVE  /\ f \in Packets /\ MatchesActive(Host, f)
           /\ chan[Host] # <<>> /\ TakeAndAnswer(Host, a)
           /\ a.type = t /\ a.peer = f.src /\ a.seq = f.seq
           /\ Replied(f, a)
<1>1. /\ chan[Host] \in Seq(Frames) /\ chan[Host] # <<>> /\ f = Head(chan[Host])
      /\ f.type = "DATA" /\ MatchesActive(Host, f)
  BY DEF DataArriving, TypeOK
<1>2. f \in In(chan[Host]) /\ \A h \in In(Tail(chan[Host])) : Before(chan[Host], f, h)
  BY <1>1, HeadBefore
<1>3. f \in Packets
  BY <1>1, <1>2 DEF Packets
<1>4. TakeAndAnswer(Host, a)
  BY DEF AnswerData
<1>5. chan'[Host] = Tail(chan[Host]) /\ chan'[Pendant] = Push(chan[Pendant], a)
  BY <1>4 DEF TakeAndAnswer, Peer, TypeOK
<1>6. Follows(chan'[Host], chan[Host], "DATA", Filler)
  BY <1>1, <1>5, TailFollows
<1>7. Follows(chan'[Pendant], chan[Pendant], "ACK", a)
  BY <1>5, PushFollows DEF TypeOK
<1>8. a.type = t /\ a.peer = f.src /\ a.seq = f.seq
  BY <1>1 DEF Frame, MatchesActive
<1>9. UNCHANGED <<sessionVars, nextSeq, sent, delivered>> /\ out' = out
  BY DEF AnswerData, senderVars
<1>10. Replied(f, a)
  BY <1>1, <1>2, <1>3, <1>5, <1>6, <1>7, <1>9 DEF Replied
<1>11. QED
  BY <1>1, <1>3, <1>4, <1>8, <1>10

\* A step that grants and extends no motion: it stops it, or leaves it but for
\* the clock.
CalmMotion ==
    /\ granted' = granted
    /\ \/ StopMotion
       \/ /\ UNCHANGED <<motion, hIntent>>
          /\ lease' = lease \/ (lease > 0 /\ lease' = lease - 1)

\* What an accepted packet does to motion, by its kind.
AcceptedKind(f) ==
    \/ f.kind = "COMMAND" /\ UNCHANGED <<motionVars, granted>>
    \/ /\ f.kind = "START"
       /\ motion' /\ hIntent' = f.seq /\ lease' = Lease /\ granted' = f.id
    \/ /\ f.kind = "RENEW"
       /\ motion /\ lease > 0 /\ lease' = Lease /\ UNCHANGED <<motion, hIntent, granted>>
    \/ f.kind = "STOP" /\ StopMotion /\ granted' = granted

\* A command packet.
LEMMA DataDelivers ==
    ASSUME TypeOK, TypeOK', DeliveryInv, PairAgreement,
           RecvDuplicate \/ RecvCommand \/ RecvStart \/ RecvRenew \/ RecvStop
    PROVE  /\ \/ EndsCalm /\ Packets' \subseteq Packets /\ CalmMotion
              \/ \E f, a : Accepting(f, a) /\ AcceptedKind(f)
           /\ DeliveryInv'
<1>1. PICK f \in DataArriving :
        \/ Duplicate(f) /\ AnswerData("ACK", f) /\ UNCHANGED <<lastAcc, log>> /\ CalmMotion
        \/ ~Duplicate(f) /\ Accept(f) /\ AcceptedKind(f)
        \/ Refuse(f) /\ CalmMotion
  BY DEF RecvDuplicate, RecvCommand, RecvStart, RecvRenew, RecvStop, AcceptedKind, CalmMotion,
         Renewable, motionVars
<1>2. PICK t \in {"ACK", "NAK"} : AnswerData(t, f)
  BY <1>1 DEF Accept, Refuse
<1>3. f.seq \in SeqNum /\ f \in Frames
  BY <1>2, AnswerDataType
<1>4. PICK k \in Frames : k = Frame("ACK", local[Host], remote[Host], f.seq)
  BY <1>3, FrameType DEF TypeOK, Numbered
<1>5. PICK n \in Frames : n = Frame("NAK", local[Host], remote[Host], f.seq)
  BY <1>3, FrameType DEF TypeOK, Numbered
<1>6. CASE Duplicate(f) /\ AnswerData("ACK", f) /\ UNCHANGED <<lastAcc, log>> /\ CalmMotion
  <2>1. Repeating(f, k)
    BY <1>4, <1>6, AnswerReplies DEF Repeating, AckOf
  <2>2. EndsCalm
    BY <1>6, KeepCalm DEF AnswerData, SamePacket, senderVars
  <2>3. Packets' \subseteq Packets
    BY <2>1, RepliedPackets DEF Repeating, DeliveryInv
  <2>4. QED
    BY <1>6, <2>1, <2>2, <2>3, RepeatingKeeps
<1>7. CASE ~Duplicate(f) /\ Accept(f) /\ AcceptedKind(f)
  <2>1. Accepting(f, k)
    BY <1>4, <1>7, AnswerReplies DEF Accepting, AckOf, Accept
  <2>2. QED
    BY <1>7, <2>1, AcceptingFlight, AcceptingAcks DEF DeliveryInv
<1>8. CASE Refuse(f) /\ CalmMotion
  <2>1. AnswerData("NAK", f) /\ UNCHANGED <<lastAcc, log>>
    BY <1>8 DEF Refuse
  <2>2. chan[Host] # <<>> /\ TakeAndAnswer(Host, n) /\ n.type = "NAK"
    BY <1>5, <2>1, AnswerReplies
  <2>3. EndsCalm
    BY <2>1, KeepCalm DEF AnswerData, SamePacket, senderVars
  <2>4. QED
    BY <1>8, <2>2, <2>3, CalmRead
<1>9. QED
  BY <1>1, <1>6, <1>7, <1>8

\* A frame that is sent at the end of poll, behind the outstanding packet or not.
LEMMA PollFollows ==
    ASSUME NEW q \in Seq(Frames), NEW p \in Frames, NEW g \in Frames,
           p.type = "DATA" \/ p.type = "HEARTBEAT", g.type # "DATA", g.type # "ACK",
           NEW r, r \in {q, Push(q, p)}, NEW w, w \in {r, Push(r, g)}
    PROVE  /\ Follows(w, q, "DATA", p)
           /\ Follows(w, q, "ACK", p)
<1>1. r \in Seq(Frames)
  BY PushType
<1>2. Follows(r, q, "DATA", p) /\ Follows(r, q, "ACK", p)
  BY SameFollows, PushFollows
<1>3. QED
  BY <1>1, <1>2, PushOther

\* The nonces that go into a greeting.
LEMMA NonceType ==
    ASSUME TypeOK, NEW e \in EP
    PROVE  local[e] \in Nat /\ remote[e] \in Nat /\ local[e] + 1 \in Nat
BY DEF TypeOK

\* The rest of poll.
LEMMA TailPollDelivers ==
    ASSUME TypeOK, TypeOK', DeliveryInv, PairAgreement, NEW e \in EP, PollTail(e)
    PROVE  EndsCalm /\ Packets' \subseteq Packets /\ DeliveryInv'
<1> DEFINE exhausted == AckDue(e) /\ out.tries >= MaxRetries
           resend == AckDue(e) /\ ~exhausted
           up == est[e] /\ ~exhausted
           nonce == IF exhausted THEN local[e] + 1 ELSE local[e]
           beat == BeatDue(e) /\ (up \/ e = Pendant)
           greeting == IF up THEN Frame("HEARTBEAT", local[e], remote[e], NoSeq)
                             ELSE Frame("INIT", nonce, NoSession, NoSeq)
           silent == up /\ Silent(e)
           queued == IF resend THEN Push(chan[Peer(e)], out.pkt) ELSE chan[Peer(e)]
           written == IF beat THEN Push(queued, greeting) ELSE queued
<1>1. /\ chan' = [chan EXCEPT ![Peer(e)] = written]
      /\ IF exhausted \/ silent
         THEN LoseSession(e)
         ELSE /\ IF resend THEN out' = [out EXCEPT !.age = 0, !.tries = @ + 1]
                           ELSE UNCHANGED out
              /\ UNCHANGED <<sessionVars, nextSeq, pIntent, lastAcc, motionVars>>
      /\ UNCHANGED historyVars
  BY Zenon DEF PollTail
<1>2. resend => out # NoPkt /\ out.tries < MaxRetries
  <2> SUFFICES ASSUME resend PROVE out # NoPkt /\ out.tries < MaxRetries
    OBVIOUS
  <2>1. out # NoPkt /\ ~(out.tries >= MaxRetries)
    BY DEF AckDue
  <2>2. out \in Outstanding
    BY <2>1 DEF TypeOK
  <2>3. QED
    BY <2>1, <2>2, ConstantTypes DEF Outstanding
<1>3. EndsCalm
  <2>1. CASE exhausted \/ silent
    BY <1>1, <2>1, ForgetCalm DEF LoseSession, historyVars
  <2>2. CASE ~(exhausted \/ silent)
    <3>1. SamePacket
      <4>1. CASE resend
        BY <1>1, <1>2, <2>2, <4>1, RetryKeeps
      <4>2. CASE ~resend
        BY <1>1, <2>2, <4>2 DEF SamePacket
      <4>3. QED
        BY <4>1, <4>2
    <3>2. UNCHANGED <<sessionVars, nextSeq, lastAcc, sent, log, delivered>>
      BY <1>1, <2>2 DEF historyVars
    <3>3. QED
      BY <3>1, <3>2, KeepCalm
  <2>3. QED
    BY <2>1, <2>2
<1>4. PICK p \in Frames : IF resend THEN p = out.pkt /\ p.type = "DATA" ELSE p = Filler
  <2>1. CASE resend
    BY <1>2, <2>1, DeliveryTypes, PacketType
  <2>2. CASE ~resend
    BY <2>2, FillerType
  <2>3. QED
    BY <2>1, <2>2
<1>5. p.type = "DATA" \/ p.type = "HEARTBEAT"
  BY <1>4 DEF Filler, Frame
<1>6. greeting \in Frames /\ greeting.type \in {"HEARTBEAT", "INIT"}
  <2>1. local[e] \in Nat /\ remote[e] \in Nat /\ local[e] + 1 \in Nat
    BY NonceType
  <2>2. greeting \in Frames
    BY <2>1, FrameType, SmallTypes, NoSeqTypes
  <2>3. greeting.type \in {"HEARTBEAT", "INIT"}
    BY DEF Frame
  <2>4. QED
    BY <2>2, <2>3
<1>7. Peer(e) \in EP /\ chan[Peer(e)] \in Seq(Frames)
  BY PeerType DEF TypeOK
<1>8. queued \in {chan[Peer(e)], Push(chan[Peer(e)], p)}
  BY <1>4
<1>9. written \in {queued, Push(queued, greeting)}
  OBVIOUS
<1> HIDE DEF greeting, queued
<1>10. Follows(written, chan[Peer(e)], "DATA", p) /\ Follows(written, chan[Peer(e)], "ACK", p)
  BY <1>5, <1>6, <1>7, <1>8, <1>9, PollFollows
<1> HIDE DEF written
<1>11. chan'[Peer(e)] = written /\ chan'[e] = chan[e]
  BY <1>1, <1>7, PeerType DEF TypeOK
<1>12. \A d \in EP : Follows(chan'[d], chan[d], "DATA", p) /\ Follows(chan'[d], chan[d], "ACK", p)
  <2>1. \A d \in EP : d = e \/ d = Peer(e)
    BY DEF Peer
  <2>2. QED
    BY <1>10, <1>11, <2>1, SameFollows
<1>13. p.type # "ACK" /\ (p.type # "DATA" \/ (out # NoPkt /\ p = out.pkt))
  BY <1>2, <1>4, <1>5, FillerPlain
<1>14. QED
  BY <1>3, <1>12, <1>13, PacketsCalm, FlightCalm, AcksCalm DEF DeliveryInv

\* The pendant's sends.
LEMMA SendsDeliver ==
    ASSUME TypeOK, TypeOK', DeliveryInv, Sends
    PROVE  (\E g : Sent(g)) /\ DeliveryInv'
<1>1. PICK k \in Kinds, n \in SeqNum \cup {NoSeq} : Originate(k, n)
  BY SmallTypes DEF Sends, SendCommand, SendStart, SendRenew, SendStop, Kinds, TypeOK
<1>2. out' \in Outstanding
  BY <1>1, OriginateType
<1>3. out' # NoPkt
  BY <1>2, LinkConstants
<1>4. PICK g \in Frames : g = out'.pkt /\ g.type = "DATA"
  BY <1>2 DEF Outstanding
<1>5. /\ g.src = local[Pendant] /\ g.peer = remote[Pendant]
      /\ g.seq = nextSeq /\ g.id = sent + 1
      /\ chan' = [chan EXCEPT ![Host] = Push(@, g)]
  BY <1>1, <1>4 DEF Originate
<1>6. chan'[Host] = Push(chan[Host], g) /\ chan'[Pendant] = chan[Pendant]
  BY <1>5 DEF TypeOK
<1>7. Follows(chan'[Host], chan[Host], "DATA", g)
  <2>1. chan[Host] \in Seq(Frames)
    BY DEF TypeOK
  <2>2. QED
    BY <1>6, <2>1, PushFollows
<1>8. /\ est[Pendant] /\ out = NoPkt /\ nextSeq' = NextSeq(nextSeq) /\ sent' = sent + 1
      /\ UNCHANGED <<sessionVars, lastAcc, log, delivered>>
  BY <1>1 DEF Originate
<1>9. Sent(g)
  BY <1>3, <1>4, <1>5, <1>6, <1>7, <1>8 DEF Sent
<1>10. QED
  BY <1>9, SentFlight, SentAcks DEF DeliveryInv

\* A packet that gets older stays the same packet.
LEMMA TickKeeps ==
    ASSUME TypeOK, NEW S \in Clocks, Tick(S)
    PROVE  SamePacket
<1>1. CASE Pendant \in S /\ out # NoPkt
  <2>1. out \in Outstanding /\ Older(out.age, AckTimeout) \in 0..AckTimeout
    BY <1>1, OlderType, ConstantTypes DEF TypeOK, Outstanding
  <2>2. out' = [out EXCEPT !.age = Older(@, AckTimeout)]
    BY <1>1 DEF Tick
  <2>3. out' \in Outstanding /\ out'.pkt = out.pkt
    BY <2>1, <2>2 DEF Outstanding
  <2>4. out' # NoPkt
    BY <2>3, LinkConstants
  <2>5. QED
    BY <1>1, <2>3, <2>4 DEF SamePacket
<1>2. CASE ~(Pendant \in S /\ out # NoPkt)
  BY <1>2 DEF Tick, SamePacket
<1>3. QED
  BY <1>1, <1>2

\* Loss of power, damage, clocks and the lease.
LEMMA EnvironmentDelivers ==
    ASSUME TypeOK, TypeOK', DeliveryInv, PairAgreement,
           \/ \E e \in EP : Reboot(e)
           \/ ExpireLease \/ AbortMotion
           \/ \E S \in Clocks : Tick(S)
           \/ \E i \in DOMAIN chan[Host] : RejectDamaged(i)
           \/ UNCHANGED vars
    PROVE  EndsCalm /\ Packets' \subseteq Packets /\ DeliveryInv'
<1> USE DEF historyVars
<1>1. CASE \E e \in EP : Reboot(e)
  BY <1>1, ForgetCalm, CalmStill DEF Reboot
<1>2. CASE ExpireLease \/ AbortMotion \/ UNCHANGED vars
  <2>1. EndsCalm
    BY <1>2, KeepCalm DEF ExpireLease, AbortMotion, vars, senderVars, SamePacket, sessionVars
  <2>2. QED
    BY <1>2, <2>1, CalmStill DEF ExpireLease, AbortMotion, vars
<1>3. CASE \E S \in Clocks : Tick(S)
  <2>1. EndsCalm
    BY <1>3, KeepCalm, TickKeeps DEF Tick
  <2>2. QED
    BY <1>3, <2>1, CalmStill DEF Tick
<1>4. CASE \E i \in DOMAIN chan[Host] : RejectDamaged(i)
  <2>1. PICK i \in DOMAIN chan[Host] : RejectDamaged(i)
    BY <1>4
  <2>2. EndsCalm
    BY <2>1, KeepCalm DEF RejectDamaged, SamePacket, senderVars
  <2>3. chan[Host] \in Seq(Frames) /\ chan[Pendant] \in Seq(Frames)
    BY DEF TypeOK
  <2>4. PICK n \in Frames : n = Frame("NAK", local[Host], remote[Host], chan[Host][i].seq)
    <3>1. chan[Host][i] \in Frames /\ chan[Host][i].type = "DATA"
      BY <2>1, <2>3, ElementOfSeq DEF RejectDamaged
    <3>2. chan[Host][i].seq \in SeqNum
      BY <3>1, FrameFields DEF Numbered
    <3>3. QED
      BY <3>2, FrameType DEF TypeOK, Numbered
  <2>5. n.type = "NAK"
    BY <2>4 DEF Frame
  <2>6. chan'[Host] = Without(chan[Host], i) /\ chan'[Pendant] = Push(chan[Pendant], n)
    BY <2>1, <2>4 DEF RejectDamaged, TypeOK
  <2>7. \A e \in EP : \A t : Follows(chan'[e], chan[e], t, n)
    BY <2>1, <2>3, <2>6, WithoutFollows, PushFollows
  <2>8. QED
    BY <2>2, <2>5, <2>7, CalmStep
<1>5. QED
  BY <1>1, <1>2, <1>3, <1>4

\* Every step keeps the wire, the log and the ends in order.
LEMMA DeliveryStep == TypeOK /\ TypeOK' /\ PairAgreement /\ DeliveryInv /\ [Next]_vars => DeliveryInv'
<1> SUFFICES ASSUME TypeOK, TypeOK', PairAgreement, DeliveryInv, [Next]_vars PROVE DeliveryInv'
  OBVIOUS
<1>1. ASSUME NEW e \in EP, Receive(e) PROVE DeliveryInv'
  BY <1>1, DroppedDelivers, HandshakeDelivers, AckDelivers, NakDelivers, DataDelivers DEF Receive
<1>2. CASE Next
  BY <1>1, <1>2, TailPollDelivers, SendsDeliver, EnvironmentDelivers, DroppedDelivers DEF Next
<1>3. CASE UNCHANGED vars
  BY <1>3, EnvironmentDelivers
<1>4. QED
  BY <1>2, <1>3

\* Nothing is on the wire and nothing is accepted at the start.
LEMMA DeliveryInit == Init => DeliveryInv
<1> SUFFICES ASSUME Init PROVE DeliveryInv
  OBVIOUS
<1>1. Packets = {} /\ Acks = {} /\ Accepted = {}
  BY DEF Init, Packets, Acks, Accepted, In
<1>2. out = NoPkt /\ ~est[Pendant] /\ delivered = {} /\ log = <<>>
  BY DEF Init
<1>3. QED
  BY <1>1, <1>2 DEF DeliveryInv, FlightInv, AckInv, PacketInv, SameInv, OrderedInv, OutInv,
                    IdleInv, LogInv, Linked, OnceInOrder

\* The delivery invariant holds in every reachable state.
LEMMA Delivery == Spec => []DeliveryInv
BY DeliveryInit, DeliveryStep, TypeCorrect, PairsAgree, PTL DEF Spec

-----------------------------------------------------------------------------
(* What the order of the wire gives the receivers.                         *)

\* What the host accepts, over all sessions, is in the order of the sends and
\* never twice (_receive, _is_new, _lose_session).
THEOREM AcceptsOnceInOrder == Spec => []OnceInOrder
<1>1. DeliveryInv => OnceInOrder
  BY DEF DeliveryInv, FlightInv, LogInv
<1>2. QED
  BY <1>1, Delivery, PTL

\* A packet whose ACK the pendant took was accepted by the host, whatever answers
\* of other sessions or earlier numbers were on their way (_receive's ACK branch).
THEOREM AcksAreTrue == Spec => []AckedWasAccepted
<1>1. DeliveryInv => AckedWasAccepted
  BY DEF DeliveryInv, FlightInv, LogInv, AckedWasAccepted, Accepted, In
<1>2. QED
  BY <1>1, Delivery, PTL

\* The half-range comparison calls a packet of the active pair a duplicate exactly
\* when the host accepted it before, across any number of wraps (_is_new).
THEOREM DuplicatesAreExact == Spec => []DuplicatesExact
<1>1. TypeOK /\ DeliveryInv => DuplicatesExact
  <2> SUFFICES ASSUME TypeOK, DeliveryInv, NEW i \in DOMAIN chan[Host],
                      chan[Host][i].type = "DATA", MatchesActive(Host, chan[Host][i])
               PROVE  Duplicate(chan[Host][i]) <=> \E j \in DOMAIN log : log[j] = chan[Host][i].id
    BY DEF DuplicatesExact
  <2>1. PICK f : f = chan[Host][i]
    OBVIOUS
  <2>2. f \in Packets
    BY <2>1 DEF Packets, In
  <2>3. Duplicate(f) <=> f.id \in Accepted
    BY <2>1, <2>2, DuplicateIsAccepted DEF DeliveryInv
  <2>4. QED
    BY <2>1, <2>3 DEF Accepted, In
<1>2. QED
  BY <1>1, Delivery, TypeCorrect, PTL

-----------------------------------------------------------------------------
(* Motion follows the pendant's intent.                                    *)

\* The pendant keeps its intent, or has no session and nothing outstanding.
CalmIntent == pIntent' = pIntent \/ (out' = NoPkt /\ ~est'[Pendant])

CalmQuiet == quiet' = quiet \/ \E S \in Clocks : Tick(S)

Calm ==
    EndsCalm /\ Packets' \subseteq Packets /\ CalmMotion /\ CalmIntent /\ CalmQuiet

\* Giving a session up stops the host's motion, or ends the pendant's session.
LEMMA ForgetEffects ==
    ASSUME NEW e \in EP, ForgetSession(e), TypeOK, granted' = granted
    PROVE  CalmMotion /\ CalmIntent
<1>1. CASE e = Pendant
  BY <1>1 DEF ForgetSession, CalmMotion, CalmIntent, motionVars, TypeOK
<1>2. CASE e # Pendant
  BY <1>2 DEF ForgetSession, CalmMotion, CalmIntent
<1>3. QED
  BY <1>1, <1>2

\* What the frames that are no command packets do to motion and intent.
LEMMA ReceiveEffects ==
    ASSUME TypeOK, NEW e \in EP,
           \/ RejectOldSession(e) \/ RecvHeartbeat(e) \/ RecvAck \/ RecvNak
           \/ RefuseInit \/ RepeatChallenge \/ AcceptInit \/ RecvChallenge \/ RecvConfirm
    PROVE  CalmMotion /\ CalmIntent /\ quiet' = quiet
<1> USE DEF motionVars, senderVars, historyVars
<1>1. CASE RejectOldSession(e) \/ RecvHeartbeat(e) \/ RefuseInit \/ RepeatChallenge
  BY <1>1 DEF RejectOldSession, RecvHeartbeat, RefuseInit, RepeatChallenge, CalmMotion, CalmIntent
<1>2. CASE RecvAck \/ AcceptInit \/ RecvChallenge \/ RecvConfirm
  BY <1>2 DEF RecvAck, AcceptInit, RecvChallenge, RecvConfirm, CalmMotion, CalmIntent
<1>3. CASE RecvNak
  <2>1. granted' = granted /\ quiet' = quiet
    BY <1>3 DEF RecvNak
  <2>2. ForgetSession(Pendant) \/ UNCHANGED <<pIntent, motionVars>>
    BY <1>3 DEF RecvNak, LoseSession
  <2>3. QED
    BY <2>1, <2>2, ForgetEffects DEF CalmMotion, CalmIntent
<1>4. QED
  BY <1>1, <1>2, <1>3

\* And what poll's tail and the environment do.
LEMMA OtherEffects ==
    ASSUME TypeOK,
           \/ \E e \in EP : PollTail(e) \/ LoseFrame(e) \/ Reboot(e)
           \/ ExpireLease \/ AbortMotion
           \/ \E S \in Clocks : Tick(S)
           \/ \E i \in DOMAIN chan[Host] : RejectDamaged(i)
           \/ UNCHANGED vars
    PROVE  CalmMotion /\ CalmIntent /\ CalmQuiet
<1> USE DEF motionVars, senderVars, historyVars
<1>1. CASE \E e \in EP : PollTail(e)
  <2>1. PICK e \in EP : PollTail(e)
    BY <1>1
  <2>2. UNCHANGED historyVars /\ (ForgetSession(e) \/ UNCHANGED <<pIntent, motionVars>>)
    BY <2>1 DEF PollTail, LoseSession
  <2>3. QED
    BY <2>2, ForgetEffects DEF CalmMotion, CalmIntent, CalmQuiet
<1>2. CASE \E e \in EP : Reboot(e)
  BY <1>2, ForgetEffects DEF Reboot, CalmQuiet
<1>3. CASE \/ \E e \in EP : LoseFrame(e)
           \/ ExpireLease \/ AbortMotion
           \/ \E i \in DOMAIN chan[Host] : RejectDamaged(i)
           \/ UNCHANGED vars
  BY <1>3 DEF LoseFrame, ExpireLease, AbortMotion, RejectDamaged, vars, CalmMotion, CalmIntent,
              CalmQuiet
<1>4. CASE \E S \in Clocks : Tick(S)
  <2>1. UNCHANGED <<motion, hIntent, granted, pIntent>>
    BY <1>4 DEF Tick
  <2>2. lease' = lease \/ (lease > 0 /\ lease' = lease - 1)
    BY <1>4 DEF Tick
  <2>3. QED
    BY <1>4, <2>1, <2>2 DEF CalmMotion, CalmIntent, CalmQuiet
<1>5. QED
  BY <1>1, <1>2, <1>3, <1>4

\* The four kinds of step.
LEMMA StepKinds ==
    ASSUME TypeOK, TypeOK', PairAgreement, DeliveryInv, [Next]_vars
    PROVE  \/ Calm
           \/ Sends /\ \E g : Sent(g)
           \/ UNCHANGED <<pIntent, quiet, motionVars, granted>> /\ \E a : Answered(a)
           \/ UNCHANGED <<pIntent, quiet>> /\ \E f, a : Accepting(f, a) /\ AcceptedKind(f)
<1>1. ASSUME NEW e \in EP,
             \/ RejectOldSession(e) \/ RecvHeartbeat(e) \/ RecvNak
             \/ RefuseInit \/ RepeatChallenge \/ AcceptInit \/ RecvChallenge \/ RecvConfirm
      PROVE  Calm
  BY <1>1, ReceiveEffects, DroppedDelivers, NakDelivers, HandshakeDelivers DEF Calm, CalmQuiet
<1>2. CASE RecvAck
  <2>1. UNCHANGED <<pIntent, quiet, motionVars, granted>>
    BY <1>2 DEF RecvAck
  <2>2. CalmMotion /\ CalmIntent /\ quiet' = quiet
    BY <1>2, ReceiveEffects
  <2>3. QED
    BY <1>2, <2>1, <2>2, AckDelivers DEF Calm, CalmQuiet
<1>3. CASE RecvDuplicate \/ RecvCommand \/ RecvStart \/ RecvRenew \/ RecvStop
  <2>1. PICK f \in DataArriving : AnswerData("ACK", f) \/ AnswerData("NAK", f)
    BY <1>3 DEF RecvDuplicate, RecvCommand, RecvStart, RecvRenew, RecvStop, Accept, Refuse
  <2>2. UNCHANGED <<pIntent, quiet>>
    BY <2>1 DEF AnswerData, senderVars
  <2>3. QED
    BY <1>3, <2>2, DataDelivers DEF Calm, CalmQuiet, CalmIntent
<1>4. CASE \/ \E e \in EP : PollTail(e) \/ LoseFrame(e) \/ Reboot(e)
           \/ ExpireLease \/ AbortMotion
           \/ \E S \in Clocks : Tick(S)
           \/ \E i \in DOMAIN chan[Host] : RejectDamaged(i)
           \/ UNCHANGED vars
  <2>1. EndsCalm /\ Packets' \subseteq Packets
    BY <1>4, TailPollDelivers, DroppedDelivers, EnvironmentDelivers
  <2>2. QED
    BY <1>4, <2>1, OtherEffects DEF Calm
<1>5. CASE Sends
  BY <1>5, SendsDeliver
<1>6. ASSUME NEW e \in EP, Receive(e)
      PROVE  \/ \E d \in EP : \/ RejectOldSession(d) \/ RecvHeartbeat(d) \/ RecvNak
                              \/ RefuseInit \/ RepeatChallenge \/ AcceptInit \/ RecvChallenge
                              \/ RecvConfirm
             \/ RecvAck
             \/ RecvDuplicate \/ RecvCommand \/ RecvStart \/ RecvRenew \/ RecvStop
  BY <1>6 DEF Receive
<1>7. QED
  BY <1>1, <1>2, <1>3, <1>4, <1>5, <1>6 DEF Next

\* The outstanding packet carries the pendant's intent.
OutIntent ==
    out # NoPkt => /\ out.pkt.kind = "START" => pIntent = out.pkt.seq
                   /\ out.pkt.kind = "RENEW" => pIntent # NoSeq

\* Until a START or a STOP that changes it is accepted, the host moves for the
\* intent the pendant has.
HostIntent ==
    Linked /\ motion /\ (out = NoPkt \/ sent \in Accepted \/ out.pkt.kind \in {"COMMAND", "RENEW"})
      => hIntent = pIntent

IntentInv == OutIntent /\ HostIntent

\* A step that keeps both ends or ends a session keeps the intents.
LEMMA IntentCalm ==
    ASSUME TypeOK, PairAgreement, MotionNeedsSession, IntentInv, Calm
    PROVE  IntentInv'
<1>1. EndsCalm /\ CalmMotion /\ CalmIntent /\ Accepted' = Accepted /\ sent' = sent
  BY DEF Calm, EndsCalm, Accepted
<1>2. OutIntent'
  <2>1. CASE out' = NoPkt
    BY <2>1 DEF OutIntent
  <2>2. CASE out' # NoPkt
    <3>1. out # NoPkt /\ out'.pkt = out.pkt /\ pIntent' = pIntent
      BY <1>1, <2>2 DEF EndsCalm, PendantKeeps, PendantForgets, CalmIntent
    <3>2. QED
      BY <2>2, <3>1 DEF IntentInv, OutIntent
  <2>3. QED
    BY <2>1, <2>2
<1>3. HostIntent'
  <2> SUFFICES ASSUME Linked', motion',
                      out' = NoPkt \/ sent' \in Accepted' \/ out'.pkt.kind \in {"COMMAND", "RENEW"}
               PROVE  hIntent' = pIntent'
    BY DEF HostIntent
  <2>1. /\ est'[Pendant] /\ est'[Host]
        /\ remote'[Pendant] = local'[Host] /\ remote'[Host] = local'[Pendant]
    BY DEF Linked
  <2>2. PendantKeeps /\ HostKeeps /\ pIntent' = pIntent
    BY <1>1, <2>1 DEF EndsCalm, PendantForgets, HostForgets, CalmIntent
  <2>3. motion /\ hIntent' = hIntent
    BY <1>1 DEF CalmMotion, StopMotion
  <2>4. est[Host] /\ remote[Host] = local[Pendant]
    BY <2>1, <2>2, <2>3 DEF MotionNeedsSession, HostKeeps, PendantKeeps
  <2>5. Linked
    BY <2>4 DEF PairAgreement
  <2>6. out = NoPkt \/ sent \in Accepted \/ out.pkt.kind \in {"COMMAND", "RENEW"}
    BY <1>1, <2>2 DEF PendantKeeps
  <2>7. QED
    BY <2>2, <2>3, <2>5, <2>6 DEF IntentInv, HostIntent
<1>4. QED
  BY <1>2, <1>3 DEF IntentInv

\* A send: a new intent is on its way, or the intents stay.
LEMMA IntentSent ==
    ASSUME TypeOK, DeliveryInv, IntentInv, Sends, NEW g, Sent(g)
    PROVE  IntentInv'
<1>1. PICK k \in Kinds, n \in SeqNum \cup {NoSeq} :
        /\ Originate(k, n)
        /\ \/ k = "COMMAND" /\ pIntent' = pIntent
           \/ k = "START" /\ pIntent' = nextSeq
           \/ k = "RENEW" /\ pIntent # NoSeq /\ pIntent' = pIntent
           \/ k = "STOP"
  BY SmallTypes DEF Sends, SendCommand, SendStart, SendRenew, SendStop, Kinds, TypeOK
<1>2. out = NoPkt /\ out'.pkt.kind = k /\ out'.pkt.seq = nextSeq /\ UNCHANGED <<sessionVars, motionVars>>
  BY <1>1 DEF Originate
<1>3. OutIntent'
  BY <1>1, <1>2 DEF OutIntent
<1>4. sent' \notin Accepted'
  <2>1. Accepted' = Accepted /\ sent' = sent + 1 /\ sent \in Nat /\ \A j \in Accepted : j \in 1..sent
    BY DEF Sent, Accepted, DeliveryInv, FlightInv, LogInv, TypeOK
  <2>2. QED
    BY <2>1
<1>5. HostIntent'
  <2> SUFFICES ASSUME Linked', motion', k \in {"COMMAND", "RENEW"} PROVE hIntent' = pIntent'
    BY <1>2, <1>4 DEF HostIntent, Sent
  <2>1. Linked /\ motion /\ hIntent' = hIntent
    BY <1>2 DEF Linked, sessionVars, motionVars
  <2>2. QED
    BY <1>1, <1>2, <2>1 DEF IntentInv, HostIntent
<1>6. QED
  BY <1>3, <1>5 DEF IntentInv

\* The answer settles the outstanding packet, which the host accepted.
LEMMA IntentAnswered ==
    ASSUME TypeOK, DeliveryInv, IntentInv, UNCHANGED <<pIntent, motionVars>>, NEW a, Answered(a)
    PROVE  IntentInv'
<1>1. sent \in Accepted
  BY AnsweredLatest
<1>2. out' = NoPkt /\ (Linked' => Linked)
  BY DEF Answered, sessionVars, Linked
<1>3. QED
  BY <1>1, <1>2 DEF IntentInv, OutIntent, HostIntent, motionVars

\* The packet the host accepts from the pendant it is linked to is outstanding.
LEMMA AcceptsOutstanding ==
    ASSUME TypeOK, DeliveryInv, NEW f, NEW a, Accepting(f, a), Linked
    PROVE  out # NoPkt /\ f = out.pkt
<1>1. f \in Packets /\ f.id \notin Accepted /\ (f.src = local[Pendant] => Latest(f))
  BY AcceptingNewest
<1>2. f.src = local[Pendant]
  BY DEF Accepting, Replied, MatchesActive, Linked
<1>3. f.id = sent /\ out # NoPkt
  BY <1>1, <1>2 DEF Latest
<1>4. out.pkt \in Packets /\ out.pkt.id = sent
  BY <1>3, DeliveryTypes DEF DeliveryInv, FlightInv, OutInv
<1>5. QED
  BY <1>1, <1>3, <1>4 DEF DeliveryInv, FlightInv, SameInv

\* An accepted START gives the host the pendant's intent; an accepted command
\* or renewal leaves both as they were; a STOP ends motion.
LEMMA IntentAccepted ==
    ASSUME TypeOK, DeliveryInv, IntentInv, UNCHANGED pIntent,
           NEW f, NEW a, Accepting(f, a), AcceptedKind(f)
    PROVE  IntentInv'
<1>1. out' = out /\ (Linked' => Linked)
  BY DEF Accepting, Replied, Linked, sessionVars
<1>2. OutIntent'
  BY <1>1 DEF IntentInv, OutIntent
<1>3. HostIntent'
  <2> SUFFICES ASSUME Linked', motion' PROVE hIntent' = pIntent'
    BY DEF HostIntent
  <2>1. Linked /\ out # NoPkt /\ f = out.pkt
    BY <1>1, AcceptsOutstanding
  <2>2. CASE f.kind = "START" /\ hIntent' = f.seq
    BY <2>1, <2>2 DEF IntentInv, OutIntent
  <2>3. CASE f.kind \in {"COMMAND", "RENEW"} /\ UNCHANGED <<motion, hIntent>>
    BY <2>1, <2>3 DEF IntentInv, HostIntent
  <2>4. QED
    BY <2>2, <2>3 DEF AcceptedKind, StopMotion, motionVars
<1>4. QED
  BY <1>2, <1>3 DEF IntentInv

\* The intents agree in every reachable state.
LEMMA Intent == Spec => []IntentInv
<1>1. Init => IntentInv
  BY DEF Init, IntentInv, OutIntent, HostIntent
<1>2. /\ TypeOK /\ TypeOK' /\ PairAgreement /\ MotionNeedsSession /\ DeliveryInv
      /\ IntentInv /\ [Next]_vars
      => IntentInv'
  <2> SUFFICES ASSUME TypeOK, TypeOK', PairAgreement, MotionNeedsSession, DeliveryInv,
                      IntentInv, [Next]_vars
               PROVE  IntentInv'
    OBVIOUS
  <2>1. QED
    BY StepKinds, IntentCalm, IntentSent, IntentAnswered, IntentAccepted
<1>3. QED
  BY <1>1, <1>2, TypeCorrect, PairsAgree, MotionInSession, Delivery, PTL DEF Spec

\* Once the pendant's packets are settled the host moves for no intent but the
\* pendant's: an acknowledged STOP leaves no motion, an acknowledged START is
\* the motion there is (send_motion_start and _stop, _receive_motion).
THEOREM IntentsAgree == Spec => []IntentAgreement
<1>1. IntentInv => IntentAgreement
  BY DEF IntentInv, HostIntent, IntentAgreement
<1>2. QED
  BY <1>1, Intent, PTL

-----------------------------------------------------------------------------
(* The link implements the motion authority PROTOCOL.md promises.          *)

GrantInv == sent <= MaxSends /\ (granted = 0 \/ granted \in Accepted)

\* What is granted was accepted, and no more is sent than may be.
LEMMA GrantStep ==
    ASSUME TypeOK, TypeOK', PairAgreement, DeliveryInv, GrantInv, [Next]_vars
    PROVE  GrantInv'
<1>1. CASE Calm
  BY <1>1 DEF Calm, EndsCalm, CalmMotion, GrantInv, Accepted
<1>2. CASE Sends /\ \E g : Sent(g)
  <2>1. sent < MaxSends /\ sent' = sent + 1 /\ UNCHANGED <<granted, log>>
    BY <1>2 DEF Sends, SendCommand, SendStart, SendRenew, SendStop, Originate
  <2>2. sent' <= MaxSends
    BY <2>1, ConstantTypes DEF TypeOK
  <2>3. QED
    BY <2>1, <2>2 DEF GrantInv, Accepted
<1>3. CASE UNCHANGED granted /\ \E a : Answered(a)
  BY <1>3 DEF Answered, GrantInv, Accepted
<1>4. ASSUME NEW f, NEW a, Accepting(f, a), AcceptedKind(f) PROVE GrantInv'
  <2>1. sent' = sent /\ \A j : j \in Accepted' <=> j \in Accepted \/ j = f.id
    BY <1>4, AcceptingNewest DEF Accepting, Replied
  <2>2. granted' = granted \/ granted' = f.id
    BY <1>4 DEF AcceptedKind
  <2>3. QED
    BY <2>1, <2>2 DEF GrantInv
<1>5. QED
  BY <1>1, <1>2, <1>3, <1>4, StepKinds

\* It holds in every reachable state.
LEMMA Grants == Spec => []GrantInv
<1>1. Init => GrantInv
  BY ConstantTypes DEF Init, GrantInv
<1>2. QED
  BY <1>1, GrantStep, TypeCorrect, PairsAgree, Delivery, PTL DEF Spec

\* Motion has a START behind it.
LEMMA MotionGranted ==
    ASSUME DeliveryInv, MotionNeedsSession, motion
    PROVE  granted # 0
<1>1. granted \in Accepted
  BY DEF MotionNeedsSession, Accepted, In
<1>2. QED
  BY <1>1 DEF DeliveryInv, FlightInv, LogInv

\* Each step grants, extends, runs down or revokes authority, or leaves it.
LEMMA AuthorityStep ==
    ASSUME TypeOK, TypeOK', PairAgreement, MotionNeedsSession, DeliveryInv, GrantInv, [Next]_vars
    PROVE  [Authority!Next]_(Authority!vars)
<1> USE DEF Authority!vars
<1>1. CASE Calm
  <2>1. CASE StopMotion /\ granted' = granted
    <3>1. Authority!Revoke
      BY <2>1 DEF StopMotion, Authority!Revoke
    <3>2. QED
      BY <3>1 DEF Authority!Next
  <2>2. CASE UNCHANGED <<motion, granted, lease>>
    BY <2>2
  <2>3. CASE UNCHANGED <<motion, granted>> /\ lease > 0 /\ lease' = lease - 1
    <3>1. Authority!Elapse
      BY <2>3 DEF Authority!Elapse
    <3>2. QED
      BY <3>1 DEF Authority!Next
  <2>4. QED
    BY <1>1, <2>1, <2>2, <2>3 DEF Calm, CalmMotion
<1>2. CASE Sends
  BY <1>2 DEF Sends, SendCommand, SendStart, SendRenew, SendStop, Originate, motionVars
<1>3. CASE UNCHANGED <<motionVars, granted>>
  BY <1>3 DEF motionVars
<1>4. ASSUME NEW f, NEW a, Accepting(f, a), AcceptedKind(f)
      PROVE  [Authority!Next]_(Authority!vars)
  <2>1. /\ f.id \in 1..sent /\ sent \in Nat /\ sent <= MaxSends /\ MaxSends \in Nat
        /\ \A k \in Accepted : k < f.id
    BY <1>4, AcceptingNewest, ConstantTypes DEF GrantInv, TypeOK
  <2>2. CASE f.kind = "START" /\ motion' /\ lease' = Lease /\ granted' = f.id
    <3>1. f.id \in 1..MaxSends /\ f.id > granted
      BY <2>1 DEF GrantInv
    <3>2. Authority!Grant(f.id)
      BY <2>2, <3>1 DEF Authority!Grant
    <3>3. QED
      BY <3>1, <3>2 DEF Authority!Next
  <2>3. CASE motion /\ lease > 0 /\ lease' = Lease /\ UNCHANGED <<motion, granted>>
    <3>1. Authority!Extend
      BY <2>3, MotionGranted DEF Authority!Extend
    <3>2. QED
      BY <3>1 DEF Authority!Next
  <2>4. CASE StopMotion /\ granted' = granted
    <3>1. Authority!Revoke
      BY <2>4 DEF StopMotion, Authority!Revoke
    <3>2. QED
      BY <3>1 DEF Authority!Next
  <2>5. CASE UNCHANGED <<motionVars, granted>>
    BY <2>5 DEF motionVars
  <2>6. QED
    BY <1>4, <2>2, <2>3, <2>4, <2>5 DEF AcceptedKind
<1>5. QED
  BY <1>1, <1>2, <1>3, <1>4, StepKinds

\* Whatever the wire does, the host grants authority to move only for a START
\* newer than all it granted before, extends it only while it is unexpired, and
\* loses it by a stop, by expiry or with the session: the detailed link is the
\* abstract motion lease (_receive_motion, _check_motion_lease, _lose_session).
THEOREM LinkImplementsAuthority == Spec => MotionIsAuthorised
<1>1. Init => Authority!Init
  BY DEF Init, Authority!Init
<1>2. /\ TypeOK /\ TypeOK' /\ PairAgreement /\ MotionNeedsSession /\ DeliveryInv /\ GrantInv
      /\ [Next]_vars
      => [Authority!Next]_(Authority!vars)
  BY AuthorityStep
<1>3. QED
  BY <1>1, <1>2, TypeCorrect, PairsAgree, MotionInSession, Delivery, Grants, PTL
     DEF Spec, MotionIsAuthorised, Authority!Spec

-----------------------------------------------------------------------------
(* Motion ends within the lease once the pendant has no intent.            *)

\* What is left of the lease and what has passed since the pendant held an
\* intent make no more than one lease, and no START or RENEW is still to be
\* accepted once time passes without an intent.
QuietInv ==
    /\ motion => lease + quiet <= Lease
    /\ \A f \in Packets : f.kind \in {"START", "RENEW"} /\ f.id \notin Accepted => quiet = 0

\* The clocks: with both ends prompt nothing is on the wire when they advance.
LEMMA QuietTick ==
    ASSUME TypeOK, IntentInv, QuietInv, Calm, NEW S \in Clocks, Tick(S)
    PROVE  QuietInv'
<1>1. /\ lease \in Nat /\ quiet \in Nat /\ Lease \in Nat /\ motion' = motion
      /\ Packets' \subseteq Packets /\ Accepted' = Accepted
  BY ConstantTypes DEF TypeOK, Tick, Calm, Accepted
<1>2. quiet' = IF Prompt /\ pIntent = NoSeq THEN Older(quiet, Lease + 1) ELSE 0
  BY DEF Tick
<1>3. CASE ~(Prompt /\ pIntent = NoSeq)
  <2>1. quiet' = 0
    BY <1>2, <1>3
  <2>2. lease' = lease \/ (lease > 0 /\ lease' = lease - 1)
    BY DEF Tick
  <2>3. lease \in 0..Lease
    BY DEF TypeOK
  <2>4. lease' + quiet' <= Lease
    BY <1>1, <2>1, <2>2, <2>3
  <2>5. QED
    BY <2>1, <2>4 DEF QuietInv
<1>4. CASE Prompt /\ pIntent = NoSeq
  <2>1. S = EP /\ Settled(Host)
    BY <1>4 DEF Tick, Clocks
  <2>2. chan[Host] = <<>> /\ (motion => lease > 0)
    BY <1>1, <2>1 DEF Settled, LeaseChecked, LeaseExpired
  <2>3. quiet' = quiet \/ quiet' = quiet + 1
    BY <1>2, <1>4 DEF Older
  <2>4. motion => lease' = lease - 1
    BY <2>1, <2>2 DEF Tick
  <2>5. motion' => lease' + quiet' <= Lease
    BY <1>1, <2>2, <2>3, <2>4 DEF QuietInv
  <2>6. \A f \in Packets : f.kind \notin {"START", "RENEW"}
    <3> SUFFICES ASSUME NEW f \in Packets PROVE f.kind \notin {"START", "RENEW"}
      OBVIOUS
    <3>1. out # NoPkt /\ f = out.pkt
      BY <2>2 DEF Packets, In
    <3>2. f.seq \in SeqNum /\ NoSeq \notin SeqNum
      BY PacketType DEF SeqNum, NoSeq
    <3>3. QED
      BY <1>4, <3>1, <3>2 DEF IntentInv, OutIntent
  <2>7. \A f \in Packets' : f.kind \notin {"START", "RENEW"}
    BY <1>1, <2>6
  <2>8. QED
    BY <2>5, <2>7 DEF QuietInv
<1>5. QED
  BY <1>3, <1>4

\* Every other step that grants nothing.
LEMMA QuietCalm ==
    ASSUME TypeOK, TypeOK', QuietInv, Calm, quiet' = quiet
    PROVE  QuietInv'
<1>1. Packets' \subseteq Packets /\ Accepted' = Accepted
  BY DEF Calm, EndsCalm, Accepted
<1>2. motion' => motion /\ (lease' = lease \/ (lease > 0 /\ lease' = lease - 1))
  BY DEF Calm, CalmMotion, StopMotion
<1>3. lease \in Nat /\ quiet \in Nat /\ Lease \in Nat
  BY ConstantTypes DEF TypeOK
<1>4. motion' => lease' + quiet' <= Lease
  <2>1. motion => lease + quiet <= Lease
    BY DEF QuietInv
  <2>2. QED
    BY <1>2, <1>3, <2>1
<1>5. QED
  BY <1>1, <1>4 DEF QuietInv

\* A send with an intent starts the count again.
LEMMA QuietSent ==
    ASSUME TypeOK, QuietInv, Sends, NEW g, Sent(g)
    PROVE  QuietInv'
<1>1. motion' = motion /\ lease' = lease /\ Accepted' = Accepted
  BY DEF Sends, SendCommand, SendStart, SendRenew, SendStop, Originate, motionVars, Sent, Accepted
<1>2. \A f \in Packets' : f \in Packets \/ f = g
  BY PacketsSent
<1>3. (quiet' = quiet /\ out'.pkt.kind = "COMMAND") \/ quiet' = 0
  BY DEF Sends, SendCommand, SendStart, SendRenew, SendStop, Originate
<1>4. CASE quiet' = quiet /\ out'.pkt.kind = "COMMAND"
  <2>1. g.kind = "COMMAND"
    BY <1>4 DEF Sent
  <2>2. QED
    BY <1>1, <1>2, <1>4, <2>1 DEF QuietInv
<1>5. CASE quiet' = 0
  <2>1. lease \in 0..Lease /\ Lease \in Nat
    BY ConstantTypes DEF TypeOK
  <2>2. lease' + quiet' <= Lease
    BY <1>1, <1>5, <2>1
  <2>3. QED
    BY <1>5, <2>2 DEF QuietInv
<1>6. QED
  BY <1>3, <1>4, <1>5

\* An acceptance that grants or extends finds the count at zero.
LEMMA QuietAccepted ==
    ASSUME TypeOK, TypeOK', DeliveryInv, QuietInv, quiet' = quiet,
           NEW f, NEW a, Accepting(f, a), AcceptedKind(f)
    PROVE  QuietInv'
<1>1. /\ f \in Packets /\ f.id \notin Accepted
      /\ \A j : j \in Accepted' <=> j \in Accepted \/ j = f.id
  BY AcceptingNewest
<1>2. Packets' \subseteq Packets
  BY RepliedPackets DEF Accepting, DeliveryInv
<1>3. lease \in Nat /\ quiet \in Nat /\ Lease \in Nat
  BY ConstantTypes DEF TypeOK
<1>4. motion' => lease' + quiet' <= Lease
  <2>1. CASE f.kind \in {"START", "RENEW"} /\ lease' = Lease
    <3>1. quiet' = 0
      BY <1>1, <2>1 DEF QuietInv
    <3>2. QED
      BY <1>3, <2>1, <3>1
  <2>2. CASE UNCHANGED motionVars \/ StopMotion
    BY <2>2 DEF QuietInv, motionVars, StopMotion
  <2>3. QED
    BY <2>1, <2>2 DEF AcceptedKind
<1>5. QED
  BY <1>1, <1>2, <1>4 DEF QuietInv

\* The answer adds nothing.
LEMMA QuietAnswered ==
    ASSUME QuietInv, UNCHANGED <<quiet, motionVars>>, NEW a, Answered(a)
    PROVE  QuietInv'
<1>1. Packets' \subseteq Packets /\ Accepted' = Accepted
  BY DEF Packets, In, Answered, Accepted
<1>2. QED
  BY <1>1 DEF QuietInv, motionVars

\* The count and the lease in every reachable state.
LEMMA Quiet == Spec => []QuietInv
<1>1. Init => QuietInv
  BY DEF Init, QuietInv, Packets, In
<1>2. /\ TypeOK /\ TypeOK' /\ PairAgreement /\ DeliveryInv /\ IntentInv /\ QuietInv /\ [Next]_vars
      => QuietInv'
  <2> SUFFICES ASSUME TypeOK, TypeOK', PairAgreement, DeliveryInv, IntentInv, QuietInv, [Next]_vars
               PROVE  QuietInv'
    OBVIOUS
  <2>1. Calm => QuietInv'
    BY QuietTick, QuietCalm DEF Calm, CalmQuiet
  <2>2. QED
    BY <2>1, StepKinds, QuietSent, QuietAnswered, QuietAccepted
<1>3. QED
  BY <1>1, <1>2, TypeCorrect, PairsAgree, Delivery, Intent, PTL DEF Spec

\* When both ends poll in every tick, motion is over within one lease of the
\* pendant's last intent: whether its STOP arrives or not, or it loses its
\* session or reboots (send_motion_stop, _check_motion_lease).
THEOREM StopIsBounded == Spec => []BoundedStop
<1>1. TypeOK /\ QuietInv => BoundedStop
  <2> SUFFICES ASSUME TypeOK, QuietInv, quiet > Lease, motion PROVE FALSE
    BY DEF BoundedStop
  <2>1. lease \in Nat /\ quiet \in Nat /\ Lease \in Nat
    BY ConstantTypes DEF TypeOK
  <2>2. QED
    BY <2>1 DEF QuietInv
<1>2. QED
  BY <1>1, Quiet, TypeCorrect, PTL

-----------------------------------------------------------------------------
(* A replacement connection shares no nonce with an earlier one.           *)

\* An INIT names a generation the pendant has reached.
InitsKnown ==
    \A f \in In(chan[Host]) : f.type = "INIT" => f.src # 0 /\ f.src <= local[Pendant]

\* A CHALLENGE of the host's present nonce is for the proposal it has recorded,
\* and one the pendant could take now offers a nonce it never had.
ChallengesFresh ==
    \A c \in In(chan[Pendant]) : c.type = "CHALLENGE"
      => /\ c.src <= local[Host] /\ c.peer <= local[Pendant]
         /\ c.src = local[Host] => remote[Host] = c.peer /\ remote[Host] # NoSession
         /\ c.peer = local[Pendant] /\ ~est[Pendant] => c.src \notin peers

\* The host's nonce is unused while it has no proposal, and while the pendant
\* of its proposal is not established.
HostFresh ==
    /\ remote[Host] <= local[Pendant]
    /\ \A h \in peers : h <= local[Host]
    /\ remote[Host] = NoSession => local[Host] \notin peers
    /\ remote[Host] = local[Pendant] /\ ~est[Pendant] => local[Host] \notin peers

FreshInv == InitsKnown /\ ChallengesFresh /\ HostFresh

\* The pendant keeps its nonce and whether it is established, or draws a new one.
PendantNonce ==
    \/ local'[Pendant] = local[Pendant] /\ est'[Pendant] = est[Pendant]
    \/ local'[Pendant] > local[Pendant] /\ ~est'[Pendant]

HostNonce ==
    \/ local'[Host] = local[Host] /\ remote'[Host] = remote[Host]
    \/ local'[Host] > local[Host] /\ remote'[Host] = NoSession

\* The nonces on the wire after a step that offers and accepts none.
NoncesCalm ==
    /\ PendantNonce /\ HostNonce /\ peers' = peers
    /\ \A f \in In(chan'[Host]) : f.type = "INIT" => f \in In(chan[Host]) \/ f.src = local'[Pendant]
    /\ \A c \in In(chan'[Pendant]) : c.type = "CHALLENGE" => c \in In(chan[Pendant])

\* The numbers FreshInv compares.
LEMMA FreshTypes ==
    ASSUME TypeOK
    PROVE  /\ local[Pendant] \in Nat \ {0} /\ local[Host] \in Nat \ {0} /\ remote[Host] \in Nat
           /\ \A f \in In(chan[Host]) : f \in Frames /\ f.src \in Nat /\ f.peer \in Nat
           /\ \A c \in In(chan[Pendant]) : c \in Frames /\ c.src \in Nat /\ c.peer \in Nat
           /\ \A h \in peers : h \in Nat
<1>1. chan[Host] \in Seq(Frames) /\ chan[Pendant] \in Seq(Frames)
  BY DEF TypeOK
<1>2. \A e \in EP : \A f \in In(chan[e]) : f \in Frames
  BY <1>1, InFrames
<1>3. local[Pendant] \in Nat \ {0} /\ local[Host] \in Nat \ {0} /\ remote[Host] \in Nat /\ peers \subseteq Nat
  BY DEF TypeOK
<1>4. QED
  BY <1>2, <1>3, FrameFields

\* Such a step keeps the nonces apart.
LEMMA FreshCalm ==
    ASSUME TypeOK, TypeOK', FreshInv, NoncesCalm
    PROVE  FreshInv' /\ (est'[Pendant] => est[Pendant])
<1>1. /\ local[Pendant] \in Nat \ {0} /\ local[Host] \in Nat \ {0} /\ remote[Host] \in Nat
      /\ local'[Pendant] \in Nat \ {0} /\ local'[Host] \in Nat \ {0}
  BY DEF TypeOK
<1>2. local[Pendant] <= local'[Pendant] /\ local[Host] <= local'[Host] /\ peers' = peers
  BY <1>1 DEF NoncesCalm, PendantNonce, HostNonce
<1>3. \A h \in peers : h \in Nat /\ h <= local[Host]
  BY FreshTypes DEF FreshInv, HostFresh
<1>4. InitsKnown'
  <2> SUFFICES ASSUME NEW f \in In(chan'[Host]), f.type = "INIT"
               PROVE  f.src # 0 /\ f.src <= local'[Pendant]
    BY DEF InitsKnown, In
  <2>1. CASE f \in In(chan[Host])
    <3>1. f.src \in Nat /\ f.src # 0 /\ f.src <= local[Pendant]
      BY <2>1, FreshTypes DEF FreshInv, InitsKnown
    <3>2. QED
      BY <1>1, <1>2, <3>1
  <2>2. CASE f.src = local'[Pendant]
    BY <1>1, <2>2
  <2>3. QED
    BY <2>1, <2>2 DEF NoncesCalm
<1>5. ChallengesFresh'
  <2> SUFFICES ASSUME NEW c \in In(chan'[Pendant]), c.type = "CHALLENGE"
               PROVE  /\ c.src <= local'[Host] /\ c.peer <= local'[Pendant]
                      /\ c.src = local'[Host] => remote'[Host] = c.peer /\ remote'[Host] # NoSession
                      /\ c.peer = local'[Pendant] /\ ~est'[Pendant] => c.src \notin peers'
    BY DEF ChallengesFresh, In
  <2>1. c \in In(chan[Pendant])
    BY DEF NoncesCalm
  <2>2. /\ c.src \in Nat /\ c.peer \in Nat
        /\ c.src <= local[Host] /\ c.peer <= local[Pendant]
        /\ c.src = local[Host] => remote[Host] = c.peer /\ remote[Host] # NoSession
        /\ c.peer = local[Pendant] /\ ~est[Pendant] => c.src \notin peers
    BY <2>1, FreshTypes DEF FreshInv, ChallengesFresh
  <2>3. c.src <= local'[Host] /\ c.peer <= local'[Pendant]
    BY <1>1, <1>2, <2>2
  <2>4. c.src = local'[Host] => remote'[Host] = c.peer /\ remote'[Host] # NoSession
    BY <1>1, <2>2 DEF NoncesCalm, HostNonce
  <2>5. c.peer = local'[Pendant] /\ ~est'[Pendant] => c.src \notin peers'
    BY <1>1, <1>2, <2>2 DEF NoncesCalm, PendantNonce
  <2>6. QED
    BY <2>3, <2>4, <2>5
<1>6. HostFresh'
  <2>1. /\ remote[Host] <= local[Pendant]
        /\ remote[Host] = NoSession => local[Host] \notin peers
        /\ remote[Host] = local[Pendant] /\ ~est[Pendant] => local[Host] \notin peers
    BY DEF FreshInv, HostFresh
  <2>2. CASE local'[Host] = local[Host] /\ remote'[Host] = remote[Host]
    <3>1. remote'[Host] <= local'[Pendant]
      BY <1>1, <1>2, <2>1, <2>2
    <3>2. remote'[Host] = local'[Pendant] /\ ~est'[Pendant] => local'[Host] \notin peers'
      BY <1>1, <1>2, <2>1, <2>2 DEF NoncesCalm, PendantNonce
    <3>3. QED
      BY <1>2, <1>3, <2>1, <2>2, <3>1, <3>2 DEF HostFresh
  <2>3. CASE local'[Host] > local[Host] /\ remote'[Host] = NoSession
    <3>1. local'[Host] \notin peers /\ \A h \in peers : h <= local'[Host]
      BY <1>1, <1>3, <2>3
    <3>2. remote'[Host] <= local'[Pendant]
      BY <1>1, <2>3 DEF NoSession
    <3>3. QED
      BY <1>2, <3>1, <3>2 DEF HostFresh
  <2>4. QED
    BY <2>2, <2>3 DEF NoncesCalm, HostNonce
<1>7. est'[Pendant] => est[Pendant]
  BY DEF NoncesCalm, PendantNonce
<1>8. QED
  BY <1>4, <1>5, <1>6, <1>7 DEF FreshInv

\* A step that ends a session, or leaves both nonces.
LEMMA KeepNonces ==
    ASSUME TypeOK,
           \/ \E e \in EP : ForgetSession(e)
           \/ UNCHANGED <<local, remote>> /\ est'[Pendant] = est[Pendant]
    PROVE  PendantNonce /\ HostNonce
<1>1. CASE \E e \in EP : ForgetSession(e)
  <2>1. PICK e \in EP : ForgetSession(e)
    BY <1>1
  <2>2. /\ local' = [local EXCEPT ![e] = @ + 1] /\ remote' = [remote EXCEPT ![e] = NoSession]
        /\ est' = [est EXCEPT ![e] = FALSE]
    BY <2>1 DEF ForgetSession
  <2>3. local[Pendant] \in Nat /\ local[Host] \in Nat
    BY DEF TypeOK
  <2>4. CASE e = Pendant
    <3>1. local'[Pendant] = local[Pendant] + 1 /\ local'[Host] = local[Host]
      BY <2>2, <2>4 DEF TypeOK
    <3>2. remote'[Host] = remote[Host] /\ ~est'[Pendant]
      BY <2>2, <2>4 DEF TypeOK
    <3>3. QED
      BY <2>3, <3>1, <3>2 DEF PendantNonce, HostNonce
  <2>5. CASE e = Host
    BY <2>2, <2>3, <2>5 DEF PendantNonce, HostNonce, TypeOK
  <2>6. QED
    BY <2>4, <2>5
<1>2. CASE UNCHANGED <<local, remote>> /\ est'[Pendant] = est[Pendant]
  BY <1>2 DEF PendantNonce, HostNonce
<1>3. QED
  BY <1>1, <1>2

\* Reading a frame with an answer that is neither INIT nor CHALLENGE.
LEMMA NoncesRead ==
    ASSUME TypeOK, PendantNonce, HostNonce, peers' = peers, NEW e \in EP, chan[e] # <<>>,
           NEW f \in Frames, f.type \notin {"INIT", "CHALLENGE"},
           Take(e) \/ TakeAndAnswer(e, f)
    PROVE  NoncesCalm
<1>1. Follows(chan'[Host], chan[Host], "INIT", f) /\ Follows(chan'[Pendant], chan[Pendant], "CHALLENGE", f)
  BY ReadFollows
<1>2. \A g \in In(chan'[Host]) : g.type = "INIT" => g \in In(chan[Host])
  BY <1>1 DEF Follows
<1>3. \A c \in In(chan'[Pendant]) : c.type = "CHALLENGE" => c \in In(chan[Pendant])
  BY <1>1 DEF Follows
<1>4. QED
  BY <1>2, <1>3 DEF NoncesCalm

\* Handshake frames that offer no new pair, and heartbeats.
LEMMA PlainNonces ==
    ASSUME TypeOK, NEW e \in EP,
           RejectOldSession(e) \/ RecvHeartbeat(e) \/ LoseFrame(e)
             \/ RefuseInit \/ RecvConfirm \/ RecvAck
    PROVE  NoncesCalm
<1>1. PICK d \in EP : chan[d] # <<>> /\ Take(d)
  BY DEF RejectOldSession, RecvHeartbeat, LoseFrame, RefuseInit, RecvConfirm, RecvAck, Arrives
<1>2. UNCHANGED <<local, remote, peers>> /\ est'[Pendant] = est[Pendant]
  BY DEF RejectOldSession, RecvHeartbeat, LoseFrame, RefuseInit, RecvConfirm, RecvAck,
         Establish, sessionVars, historyVars, TypeOK
<1>3. Filler \in Frames /\ Filler.type \notin {"INIT", "CHALLENGE"}
  BY FillerType DEF Filler, Frame
<1>4. QED
  BY <1>1, <1>2, <1>3, KeepNonces, NoncesRead

\* A NAK.
LEMMA NakNonces == TypeOK /\ RecvNak => NoncesCalm
<1> SUFFICES ASSUME TypeOK, RecvNak PROVE NoncesCalm
  OBVIOUS
<1>1. chan[Pendant] # <<>> /\ peers' = peers
  BY DEF RecvNak, Arrives, historyVars
<1>2. PendantNonce /\ HostNonce
  BY KeepNonces DEF RecvNak, LoseSession, sessionVars
<1>3. CASE Take(Pendant)
  <2>1. Filler \in Frames /\ Filler.type \notin {"INIT", "CHALLENGE"}
    BY FillerType DEF Filler, Frame
  <2>2. QED
    BY <1>1, <1>2, <1>3, <2>1, NoncesRead
<1>4. CASE out # NoPkt /\ TakeAndAnswer(Pendant, out.pkt)
  <2>1. PICK p \in Frames : p = out.pkt /\ p.type = "DATA"
    BY <1>4, DeliveryTypes, PacketType
  <2>2. QED
    BY <1>1, <1>2, <1>4, <2>1, NoncesRead
<1>5. QED
  BY <1>3, <1>4 DEF RecvNak, Answers

\* A command packet.
LEMMA DataNonces ==
    ASSUME TypeOK, RecvDuplicate \/ RecvCommand \/ RecvStart \/ RecvRenew \/ RecvStop
    PROVE  NoncesCalm
<1>1. PICK f \in DataArriving : AnswerData("ACK", f) \/ AnswerData("NAK", f)
  BY DEF RecvDuplicate, RecvCommand, RecvStart, RecvRenew, RecvStop, Accept, Refuse
<1>2. PICK t \in {"ACK", "NAK"} : AnswerData(t, f)
  BY <1>1
<1>3. f.seq \in SeqNum /\ f \in Frames
  BY <1>2, AnswerDataType
<1>4. PICK a \in Frames : a = Frame(t, local[Host], remote[Host], f.seq)
  BY <1>3, FrameType DEF TypeOK, Numbered
<1>5. chan[Host] # <<>> /\ TakeAndAnswer(Host, a) /\ a.type = t
  BY <1>2, <1>4, AnswerReplies
<1>6. PendantNonce /\ HostNonce /\ peers' = peers
  BY <1>2, KeepNonces DEF AnswerData, sessionVars
<1>7. QED
  BY <1>5, <1>6, NoncesRead

\* The rest of poll: an INIT names the pendant's present nonce.
LEMMA TailPollNonces ==
    ASSUME TypeOK, NEW e \in EP, PollTail(e)
    PROVE  NoncesCalm
<1> DEFINE exhausted == AckDue(e) /\ out.tries >= MaxRetries
           resend == AckDue(e) /\ ~exhausted
           up == est[e] /\ ~exhausted
           nonce == IF exhausted THEN local[e] + 1 ELSE local[e]
           beat == BeatDue(e) /\ (up \/ e = Pendant)
           greeting == IF up THEN Frame("HEARTBEAT", local[e], remote[e], NoSeq)
                             ELSE Frame("INIT", nonce, NoSession, NoSeq)
           silent == up /\ Silent(e)
           queued == IF resend THEN Push(chan[Peer(e)], out.pkt) ELSE chan[Peer(e)]
           written == IF beat THEN Push(queued, greeting) ELSE queued
<1>1. /\ chan' = [chan EXCEPT ![Peer(e)] = written]
      /\ IF exhausted \/ silent THEN LoseSession(e) ELSE UNCHANGED sessionVars
      /\ UNCHANGED historyVars
  BY Zenon DEF PollTail
<1>2. PendantNonce /\ HostNonce /\ peers' = peers
  BY <1>1, KeepNonces DEF LoseSession, sessionVars, historyVars
<1>3. ~up => nonce = local'[e]
  <2>1. CASE exhausted
    BY <1>1, <2>1 DEF LoseSession, ForgetSession, TypeOK
  <2>2. CASE ~exhausted /\ ~up
    BY <1>1, <2>2 DEF sessionVars
  <2>3. QED
    BY <2>1, <2>2
<1>4. resend => out.pkt \in Frames /\ out.pkt.type = "DATA"
  BY DeliveryTypes, PacketType DEF AckDue
<1>5. local[e] \in Nat /\ remote[e] \in Nat /\ local[e] + 1 \in Nat
  BY NonceType
<1>6. greeting \in Frames
  BY <1>5, FrameType, SmallTypes, NoSeqTypes
<1>7. greeting.type \in {"HEARTBEAT", "INIT"} /\ (greeting.type = "INIT" => ~up /\ greeting.src = nonce)
  BY DEF Frame
<1>8. Peer(e) \in EP /\ chan[Peer(e)] \in Seq(Frames)
  BY PeerType DEF TypeOK
<1>9. queued \in Seq(Frames) /\ \A f \in In(queued) : f \in In(chan[Peer(e)]) \/ f.type = "DATA"
  BY <1>4, <1>8, PushType, PushOrder
<1>10. beat => up \/ e = Pendant
  OBVIOUS
<1> HIDE DEF nonce, greeting, queued, up, beat
<1>11. \A f \in In(written) : f \in In(queued) \/ (f = greeting /\ (up \/ e = Pendant))
  BY <1>6, <1>9, <1>10, PushOrder
<1> HIDE DEF written
<1>12. chan'[Peer(e)] = written /\ chan'[e] = chan[e]
  BY <1>1, <1>8, PeerType DEF TypeOK
<1>13. \A f \in In(written) : f.type = "INIT" => f \in In(chan[Peer(e)]) \/ (e = Pendant /\ f.src = local'[Pendant])
  BY <1>3, <1>7, <1>9, <1>11
<1>14. \A f \in In(written) : f.type = "CHALLENGE" => f \in In(chan[Peer(e)])
  BY <1>7, <1>9, <1>11
<1>15. CASE e = Pendant
  BY <1>2, <1>12, <1>13, <1>15 DEF NoncesCalm, Peer
<1>16. CASE e = Host
  BY <1>2, <1>12, <1>14, <1>16 DEF NoncesCalm, Peer
<1>17. QED
  BY <1>15, <1>16

\* The pendant's sends.
LEMMA SendsNonces == TypeOK /\ Sends => NoncesCalm
<1> SUFFICES ASSUME TypeOK, Sends PROVE NoncesCalm
  OBVIOUS
<1>1. PICK k \in Kinds, n \in SeqNum \cup {NoSeq} : Originate(k, n)
  BY SmallTypes DEF Sends, SendCommand, SendStart, SendRenew, SendStop, Kinds, TypeOK
<1>2. PICK g \in Frames : g = out'.pkt /\ g.type = "DATA"
  BY <1>1, OriginateType DEF Outstanding
<1>3. chan' = [chan EXCEPT ![Host] = Push(@, g)]
  BY <1>1, <1>2 DEF Originate
<1>4. chan'[Host] = Push(chan[Host], g) /\ chan'[Pendant] = chan[Pendant] /\ chan[Host] \in Seq(Frames)
  BY <1>3 DEF TypeOK
<1>5. \A f \in In(chan'[Host]) : f.type = "INIT" => f \in In(chan[Host])
  BY <1>2, <1>4, PushOrder
<1>6. PendantNonce /\ HostNonce /\ peers' = peers
  BY <1>1, KeepNonces DEF Originate, sessionVars
<1>7. QED
  BY <1>4, <1>5, <1>6 DEF NoncesCalm

\* The environment.
LEMMA EnvironmentNonces ==
    ASSUME TypeOK,
           \/ \E e \in EP : Reboot(e)
           \/ ExpireLease \/ AbortMotion
           \/ \E S \in Clocks : Tick(S)
           \/ \E i \in DOMAIN chan[Host] : RejectDamaged(i)
           \/ UNCHANGED vars
    PROVE  NoncesCalm
<1> USE DEF historyVars
<1>1. PendantNonce /\ HostNonce /\ peers' = peers
  BY KeepNonces DEF Reboot, ExpireLease, AbortMotion, Tick, RejectDamaged, vars, sessionVars
<1>2. CASE chan' = chan
  BY <1>1, <1>2 DEF NoncesCalm
<1>3. CASE \E i \in DOMAIN chan[Host] : RejectDamaged(i)
  <2>1. PICK i \in DOMAIN chan[Host] : RejectDamaged(i)
    BY <1>3
  <2>2. chan[Host] \in Seq(Frames) /\ chan[Pendant] \in Seq(Frames)
    BY DEF TypeOK
  <2>3. PICK n \in Frames : n = Frame("NAK", local[Host], remote[Host], chan[Host][i].seq)
    <3>1. chan[Host][i] \in Frames /\ chan[Host][i].type = "DATA"
      BY <2>1, <2>2, ElementOfSeq DEF RejectDamaged
    <3>2. chan[Host][i].seq \in SeqNum
      BY <3>1, FrameFields DEF Numbered
    <3>3. QED
      BY <3>2, FrameType DEF TypeOK, Numbered
  <2>4. n.type = "NAK"
    BY <2>3 DEF Frame
  <2>5. chan'[Host] = Without(chan[Host], i) /\ chan'[Pendant] = Push(chan[Pendant], n)
    BY <2>1, <2>3 DEF RejectDamaged, TypeOK
  <2>6. Follows(chan'[Host], chan[Host], "INIT", n) /\ Follows(chan'[Pendant], chan[Pendant], "CHALLENGE", n)
    BY <2>1, <2>2, <2>5, WithoutFollows, PushFollows
  <2>7. QED
    BY <1>1, <2>4, <2>6 DEF NoncesCalm, Follows
<1>4. QED
  BY <1>2, <1>3 DEF Reboot, ExpireLease, AbortMotion, Tick, vars

\* The host offers its nonce to a proposal, again or anew.
LEMMA ChallengeFresh ==
    ASSUME TypeOK, TypeOK', FreshInv, RepeatChallenge \/ AcceptInit
    PROVE  FreshInv' /\ est'[Pendant] = est[Pendant]
<1>1. /\ chan[Host] # <<>> /\ chan[Host] \in Seq(Frames) /\ chan[Pendant] \in Seq(Frames)
      /\ Head(chan[Host]).type = "INIT" /\ Head(chan[Host]) \in Frames
      /\ Head(chan[Host]) \in In(chan[Host])
  <2>1. chan[Host] # <<>> /\ Head(chan[Host]).type = "INIT"
    BY DEF RepeatChallenge, AcceptInit, Arrives
  <2>2. chan[Host] \in Seq(Frames) /\ chan[Pendant] \in Seq(Frames)
    BY DEF TypeOK
  <2>3. QED
    BY <2>1, <2>2, HeadBefore, TailType
<1>2. PICK src : src = Head(chan[Host]).src /\ src \in Nat /\ src # 0 /\ src <= local[Pendant]
  BY <1>1, FrameFields DEF FreshInv, InitsKnown
<1>3. /\ local[Pendant] \in Nat \ {0} /\ local[Host] \in Nat \ {0} /\ remote[Host] \in Nat
      /\ \A h \in peers : h \in Nat
      /\ \A c \in In(chan[Pendant]) : c.src \in Nat /\ c.peer \in Nat
  BY FreshTypes
<1>4. /\ local'[Pendant] = local[Pendant] /\ est'[Pendant] = est[Pendant] /\ peers' = peers
      /\ remote'[Host] = src
  BY <1>2 DEF RepeatChallenge, AcceptInit, sessionVars, historyVars, TypeOK
<1>5. /\ \A h \in peers : h <= local[Host]
      /\ remote[Host] = NoSession => local[Host] \notin peers
      /\ remote[Host] = local[Pendant] /\ ~est[Pendant] => local[Host] \notin peers
  BY DEF FreshInv, HostFresh
<1>6. \/ remote[Host] = src /\ local'[Host] = local[Host]
      \/ remote[Host] = NoSession /\ local'[Host] = local[Host]
      \/ local'[Host] = local[Host] + 1
  BY <1>2 DEF RepeatChallenge, AcceptInit, ChallengeNonce, sessionVars, TypeOK
<1>7. PICK c \in Frames : c = Frame("CHALLENGE", local'[Host], src, NoSeq)
  <2>1. local'[Host] \in Nat
    BY <1>3, <1>6
  <2>2. QED
    BY <1>2, <2>1, FrameType, SmallTypes, NoSeqTypes
<1>8. c.type = "CHALLENGE" /\ c.src = local'[Host] /\ c.peer = src
  BY <1>7 DEF Frame
<1>9. TakeAndAnswer(Host, c)
  <2>1. RepeatChallenge => c = Frame("CHALLENGE", local[Host], remote[Host], NoSeq)
    BY <1>2, <1>7 DEF RepeatChallenge, sessionVars
  <2>2. AcceptInit => c = Frame("CHALLENGE", ChallengeNonce, Head(chan[Host]).src, NoSeq)
    BY <1>2, <1>7 DEF AcceptInit, TypeOK
  <2>3. QED
    BY <2>1, <2>2 DEF RepeatChallenge, AcceptInit
<1>10. /\ \A f \in In(chan'[Host]) : f.type = "INIT" => f \in In(chan[Host])
       /\ \A d \in In(chan'[Pendant]) : d \in In(chan[Pendant]) \/ d = c
  <2>1. chan'[Host] = Tail(chan[Host]) /\ chan'[Pendant] = Push(chan[Pendant], c)
    BY <1>9 DEF TakeAndAnswer, Peer, TypeOK
  <2>2. Follows(chan'[Host], chan[Host], "INIT", c)
    BY <1>1, <2>1, TailFollows
  <2>3. QED
    BY <1>1, <1>8, <2>1, <2>2, PushOrder DEF Follows
<1>11. InitsKnown'
  BY <1>4, <1>10 DEF FreshInv, InitsKnown, In
<1>12. \/ local'[Host] \notin peers
       \/ remote[Host] = src /\ local'[Host] = local[Host]
  BY <1>3, <1>5, <1>6
<1>13. src = local[Pendant] /\ ~est[Pendant] => local'[Host] \notin peers
  BY <1>5, <1>12
<1>14. HostFresh'
  <2>1. \A h \in peers : h <= local'[Host]
    BY <1>3, <1>5, <1>6
  <2>2. remote'[Host] # NoSession
    BY <1>2, <1>4 DEF NoSession
  <2>3. QED
    BY <1>2, <1>4, <1>13, <2>1, <2>2 DEF HostFresh
<1>15. ChallengesFresh'
  <2> SUFFICES ASSUME NEW d \in In(chan'[Pendant]), d.type = "CHALLENGE"
               PROVE  /\ d.src <= local'[Host] /\ d.peer <= local'[Pendant]
                      /\ d.src = local'[Host] => remote'[Host] = d.peer /\ remote'[Host] # NoSession
                      /\ d.peer = local'[Pendant] /\ ~est'[Pendant] => d.src \notin peers'
    BY DEF ChallengesFresh, In
  <2>1. local'[Host] \in Nat
    BY <1>3, <1>6
  <2>2. CASE d = c
    BY <1>2, <1>3, <1>4, <1>8, <1>13, <2>1, <2>2 DEF NoSession
  <2>3. CASE d \in In(chan[Pendant])
    <3>1. /\ d.src <= local[Host] /\ d.peer <= local[Pendant]
          /\ d.src = local[Host] => remote[Host] = d.peer /\ remote[Host] # NoSession
          /\ d.peer = local[Pendant] /\ ~est[Pendant] => d.src \notin peers
      BY <2>3 DEF FreshInv, ChallengesFresh
    <3>2. d.src \in Nat
      BY <1>3, <2>3
    <3>3. d.src <= local'[Host]
      BY <1>3, <1>6, <3>1, <3>2
    <3>4. d.src = local'[Host] => remote'[Host] = d.peer /\ remote'[Host] # NoSession
      BY <1>2, <1>3, <1>4, <1>6, <3>1, <3>2
    <3>5. QED
      BY <1>4, <3>1, <3>3, <3>4
  <2>4. QED
    BY <1>10, <2>2, <2>3
<1>16. QED
  BY <1>4, <1>11, <1>14, <1>15 DEF FreshInv

\* The pendant takes an offer it never had.
LEMMA EstablishFresh ==
    ASSUME TypeOK, TypeOK', FreshInv, RecvChallenge
    PROVE  FreshInv' /\ (~est[Pendant] /\ est'[Pendant] => remote'[Pendant] \notin peers)
<1>1. /\ chan[Pendant] # <<>> /\ chan[Pendant] \in Seq(Frames)
      /\ Head(chan[Pendant]).type = "CHALLENGE" /\ Head(chan[Pendant]) \in Frames
      /\ Head(chan[Pendant]) \in In(chan[Pendant])
  <2>1. chan[Pendant] # <<>> /\ Head(chan[Pendant]).type = "CHALLENGE"
    BY DEF RecvChallenge, Arrives
  <2>2. chan[Pendant] \in Seq(Frames)
    BY DEF TypeOK
  <2>3. QED
    BY <2>1, <2>2, HeadBefore, TailType
<1>2. PICK c \in Frames : c = Head(chan[Pendant]) /\ c \in In(chan[Pendant]) /\ c.type = "CHALLENGE"
  BY <1>1
<1>3. PICK f \in Frames : f = Frame("CONFIRM", local[Pendant], c.src, NoSeq)
  BY <1>2, FrameFields, FrameType, SmallTypes, NoSeqTypes DEF TypeOK
<1>4. f.type = "CONFIRM"
  BY <1>3 DEF Frame
<1>5. /\ local' = local /\ remote'[Host] = remote[Host]
      /\ IF GoodChallenge(c)
         THEN /\ remote'[Pendant] = c.src /\ est'[Pendant] /\ peers' = peers \cup {c.src}
              /\ TakeAndAnswer(Pendant, f)
         ELSE est' = est /\ peers' = peers /\ Take(Pendant)
  BY <1>2, <1>3 DEF RecvChallenge, Establish, TypeOK
<1>6. Follows(chan'[Host], chan[Host], "INIT", f) /\ Follows(chan'[Pendant], chan[Pendant], "CHALLENGE", f)
  BY <1>1, <1>5, ReadFollows
<1>7. /\ \A g \in In(chan'[Host]) : g.type = "INIT" => g \in In(chan[Host])
      /\ \A d \in In(chan'[Pendant]) : d.type = "CHALLENGE" => d \in In(chan[Pendant])
  BY <1>4, <1>6 DEF Follows
<1>8. CASE ~GoodChallenge(c)
  <2>1. NoncesCalm
    BY <1>5, <1>7, <1>8 DEF NoncesCalm, PendantNonce, HostNonce
  <2>2. QED
    BY <2>1, FreshCalm
<1>9. CASE GoodChallenge(c)
  <2>1. /\ c.src <= local[Host]
        /\ c.src = local[Host] => remote[Host] # NoSession
        /\ ~est[Pendant] => c.src \notin peers
    BY <1>2, <1>9 DEF FreshInv, ChallengesFresh, GoodChallenge
  <2>2. InitsKnown'
    BY <1>5, <1>7 DEF FreshInv, InitsKnown, In
  <2>3. ChallengesFresh'
    BY <1>5, <1>7, <1>9 DEF FreshInv, ChallengesFresh, In
  <2>4. HostFresh'
    BY <1>5, <1>9, <2>1 DEF FreshInv, HostFresh
  <2>5. QED
    BY <1>5, <1>9, <2>1, <2>2, <2>3, <2>4 DEF FreshInv
<1>10. QED
  BY <1>8, <1>9

\* Every step keeps the nonces apart, and one that establishes the pendant takes
\* a nonce of the host it never had.
LEMMA FreshStep ==
    ASSUME TypeOK, TypeOK', FreshInv, [Next]_vars
    PROVE  FreshInv' /\ (~est[Pendant] /\ est'[Pendant] => remote'[Pendant] \notin peers)
<1>1. ASSUME NEW e \in EP, Receive(e)
      PROVE  NoncesCalm \/ RepeatChallenge \/ AcceptInit \/ RecvChallenge
  BY <1>1, PlainNonces, NakNonces, DataNonces DEF Receive
<1>2. NoncesCalm \/ RepeatChallenge \/ AcceptInit \/ RecvChallenge
  BY <1>1, PlainNonces, TailPollNonces, SendsNonces, EnvironmentNonces DEF Next
<1>3. QED
  BY <1>2, FreshCalm, ChallengeFresh, EstablishFresh

\* The nonces of all handshakes stay apart.
LEMMA Fresh == Spec => []FreshInv
<1>1. Init => FreshInv
  BY DEF Init, FreshInv, InitsKnown, ChallengesFresh, HostFresh, In, NoSession
<1>2. TypeOK /\ TypeOK' /\ FreshInv /\ [Next]_vars => FreshInv'
  BY FreshStep
<1>3. QED
  BY <1>1, <1>2, TypeCorrect, PTL DEF Spec

\* A pendant that is established again is so on a nonce of the host it never had
\* before: nothing left of an old handshake can establish (_reset_generation's
\* rotate_local, _lose_session).
THEOREM PairsAreFresh == Spec => FreshPair
<1>1. TypeOK /\ TypeOK' /\ FreshInv /\ [Next]_vars
        => [~est[Pendant] /\ est'[Pendant] => remote'[Pendant] \notin peers]_vars
  BY FreshStep
<1>2. QED
  BY <1>1, Fresh, TypeCorrect, PTL DEF Spec, FreshPair

-----------------------------------------------------------------------------
(* No session is lost without a cause.                                     *)
(*                                                                         *)
(* LossHasCause counts sessions against causes, but one cause can cost more *)
(* than one session: a lost CONFIRM costs the pendant's session now and    *)
(* the host's when it reads the next proposal.  The invariant keeps that   *)
(* account.  Every generation is paid for, those the host will still learn *)
(* of included; and either there is a cause to spare, or nothing has       *)
(* disturbed the present handshake or session, which then is not lost.     *)

\* What the pendant's generations may cost: the start, the faults, and the
\* packets it gave up.
Causes == 1 + faults + Cardinality(Abandoned)

\* A packet still waited for has not been answered.
CountInv == out # NoPkt => sent \notin delivered

\* Proposals of the pendant's present generation, and the host's offers to it.
Greets == {f \in In(chan[Host]) : f.type = "INIT" /\ f.src = local[Pendant]}
Offers == {c \in In(chan[Pendant]) : c.type = "CHALLENGE" /\ c.peer = local[Pendant]}

\* What reaches the host was sent by ever later generations of the pendant, and
\* by the present one at the latest; a CONFIRM is older than a proposal behind
\* it, and a proposal on its way no older than the one the host has recorded.
OriginInv ==
    /\ \A f \in In(chan[Host]) : f.src # 0 /\ f.src <= local[Pendant]
    /\ \A f, g \in In(chan[Host]) : Before(chan[Host], f, g)
         => f.src <= g.src /\ (f.type = "CONFIRM" /\ g.type = "INIT" => f.src # g.src)
    /\ \A f \in In(chan[Host]) : f.type = "INIT"
         => remote[Host] <= f.src /\ (est[Host] => remote[Host] # f.src)
    /\ est[Host] => remote[Host] # NoSession

\* One handshake at a time: a proposal or an offer is on its way only within the
\* tick of its sending, and never both.
TokenInv ==
    /\ Greets # {} \/ Offers # {} => txAge[Pendant] = 0
    /\ Greets # {} => ~est[Pendant] /\ Offers = {}
    /\ \A f, g \in Greets : ~Before(chan[Host], f, g)

\* The generations the host has recorded or may still hear of.
Proposed == ({remote[Host]} \cup {f.src : f \in {g \in In(chan[Host]) : g.type = "INIT"}}) \ {NoSession}

\* The pendant may propose again.
MayGreet == ~est[Pendant] /\ Offers = {}

\* Every generation has its cause, and so has every nonce the host may still
\* draw when it reads its way through the proposals.
Paid ==
    /\ local[Pendant] <= Causes /\ local[Host] <= Causes
    /\ \A s \in Proposed : local[Host] + local[Pendant] - s <= Causes

\* One cause more than that: the sessions there are may be lost.
Slack ==
    /\ local[Pendant] + 1 <= Causes
    /\ \A s \in Proposed : local[Host] + local[Pendant] - s + 1 <= Causes
    /\ MayGreet => local[Host] + 1 <= Causes

\* A handshake of a new generation that nothing has disturbed yet.
Greeting ==
    /\ ~est[Pendant]
    /\ \A f \in Greets : \A g : ~Before(chan[Host], f, g)
    /\ \A c \in Offers : /\ \A d : ~Before(chan[Pendant], c, d)
                         /\ c.src = local[Host] /\ remote[Host] = local[Pendant]
                         /\ chan[Host] = <<>>
    /\ remote[Host] = local[Pendant] => ~est[Host] /\ In(chan[Host]) \subseteq Greets

\* A session that nothing has disturbed yet: the pair,
LinkPair == est[Pendant] /\ remote[Pendant] = local[Host] /\ remote[Host] = local[Pendant]

\* the frames on their way, of any two exactly one of type t,
Line(q, s, r, types, t) ==
    /\ \A f \in In(q) : f.src = s /\ f.peer = r /\ f.type \in types
    /\ \A f, g \in In(q) : Before(q, f, g) => (f.type = t) # (g.type = t)

ToHost == Line(chan[Host], local[Pendant], local[Host], {"CONFIRM", "HEARTBEAT", "DATA"}, "DATA")
ToPendant == Line(chan[Pendant], local[Host], local[Pendant], {"HEARTBEAT", "ACK", "NAK"}, "HEARTBEAT")

\* the CONFIRM that the host is still to read,
Confirming ==
    IF est[Host] THEN \A f \in In(chan[Host]) : f.type # "CONFIRM"
    ELSE chan[Host] # <<>> /\ Head(chan[Host]).type = "CONFIRM" /\ chan[Pendant] = <<>>

\* the one packet or its answer,
Exchange ==
    /\ \A f \in In(chan[Host]) : f.type = "DATA"
         => out # NoPkt /\ out.age = 0 /\ \A a \in In(chan[Pendant]) : a.type = "HEARTBEAT"
    /\ \A a \in In(chan[Pendant]) : a.type # "HEARTBEAT" => out # NoPkt /\ out.age = 0

\* and the ages: silence is no longer than one heartbeat interval.
Punctual ==
    /\ \A f \in In(chan[Host]) : f.type # "DATA" => txAge[Pendant] = 0
    /\ \A f \in In(chan[Pendant]) : f.type = "HEARTBEAT" => txAge[Host] = 0
    /\ rxAge[Pendant] <= Heartbeat /\ (est[Host] => rxAge[Host] <= Heartbeat)
    /\ rxAge[Pendant] <= txAge[Host] \/ chan[Pendant] # <<>>
    /\ rxAge[Host] <= txAge[Pendant] \/ chan[Host] # <<>>

Linking == LinkPair /\ ToHost /\ ToPendant /\ Confirming /\ Exchange /\ Punctual

Covered == Slack \/ Greeting \/ Linking

LossInv == CountInv /\ OriginInv /\ TokenInv /\ Paid /\ Covered

-----------------------------------------------------------------------------
(* The causes only grow.                                                   *)

\* The packets given up are among those sent.
LEMMA AbandonedFinite ==
    ASSUME NEW s \in Nat, NEW D
    PROVE  IsFiniteSet((1..s) \ D) /\ Cardinality((1..s) \ D) \in Nat
<1>1. IsFiniteSet(1..s)
  BY FS_Interval
<1>2. IsFiniteSet((1..s) \ D)
  BY <1>1, FS_Subset
<1>3. QED
  BY <1>2, FS_CardinalityType

\* What is answered, and what is given up, for each kind of step.
LEMMA AbandonedStep ==
    ASSUME TypeOK, TypeOK', PairAgreement, DeliveryInv, CountInv, [Next]_vars
    PROVE  /\ CountInv'
           /\ Abandoned \subseteq Abandoned'
           /\ out # NoPkt /\ local'[Pendant] # local[Pendant] => sent \in Abandoned' \ Abandoned
<1>1. /\ sent \in Nat /\ sent' \in Nat
      /\ delivered \subseteq 1..sent
      /\ out # NoPkt => out.pkt.id = sent /\ sent \in 1..sent /\ sent \notin delivered
  <2>1. \A k \in delivered : k \in 1..sent
    BY DEF DeliveryInv, FlightInv, LogInv
  <2>2. out # NoPkt => out.pkt \in Packets
    BY DeliveryTypes
  <2>3. out # NoPkt => out.pkt.id \in 1..sent
    BY <2>2 DEF DeliveryInv, FlightInv, PacketInv, OfPendant
  <2>4. QED
    BY <2>1, <2>3 DEF DeliveryInv, FlightInv, OutInv, CountInv, TypeOK
<1>2. CASE Calm
  <2>1. /\ sent' = sent /\ delivered' = delivered
        /\ out = NoPkt => out' = NoPkt
        /\ \/ local'[Pendant] = local[Pendant] /\ (out # NoPkt => out' # NoPkt /\ out'.pkt = out.pkt)
           \/ out' = NoPkt
    BY <1>2 DEF Calm, EndsCalm, PendantKeeps, PendantForgets
  <2>2. QED
    BY <1>1, <2>1 DEF CountInv, Abandoned
<1>3. ASSUME NEW g, Sent(g) PROVE CountInv' /\ Abandoned' = Abandoned /\ out = NoPkt
  <2>1. /\ out = NoPkt /\ sent' = sent + 1 /\ delivered' = delivered /\ out' # NoPkt
        /\ out'.pkt.id = sent + 1
    BY <1>3 DEF Sent
  <2>2. QED
    BY <1>1, <2>1 DEF CountInv, Abandoned
<1>4. ASSUME NEW a, Answered(a)
      PROVE  CountInv' /\ Abandoned' = Abandoned /\ local'[Pendant] = local[Pendant]
  <2>1. /\ out # NoPkt /\ sent' = sent /\ delivered' = delivered \cup {out.pkt.id} /\ out' = NoPkt
        /\ local' = local
    BY <1>4 DEF Answered, sessionVars
  <2>2. QED
    BY <1>1, <2>1 DEF CountInv, Abandoned
<1>5. ASSUME NEW f, NEW a, Accepting(f, a)
      PROVE  CountInv' /\ Abandoned' = Abandoned /\ local'[Pendant] = local[Pendant]
  <2>1. sent' = sent /\ delivered' = delivered /\ out' = out /\ local' = local
    BY <1>5 DEF Accepting, Replied, sessionVars
  <2>2. QED
    BY <2>1 DEF CountInv, Abandoned
<1>6. QED
  BY <1>2, <1>3, <1>4, <1>5, StepKinds

\* A fault is a cause, and so is a packet the pendant gives up.
LEMMA CausesGrow ==
    ASSUME TypeOK, TypeOK', PairAgreement, DeliveryInv, CountInv, [Next]_vars
    PROVE  /\ CountInv'
           /\ Causes \in Nat /\ Causes' \in Nat /\ Causes <= Causes'
           /\ faults' = faults + 1 => Causes + 1 <= Causes'
           /\ out # NoPkt /\ local'[Pendant] # local[Pendant] => Causes + 1 <= Causes'
<1>1. /\ faults \in Nat /\ faults' \in Nat
      /\ faults' = faults \/ faults' = faults + 1
  <2>1. faults \in Nat /\ faults' \in Nat
    BY DEF TypeOK
  <2>2. faults' = faults \/ faults' = faults + 1
    BY DEF Next, vars, Receive, RejectOldSession, RecvHeartbeat, RecvChallenge, RecvAck, RecvNak,
           RefuseInit, RepeatChallenge, AcceptInit, RecvConfirm, RecvDuplicate, RecvCommand,
           RecvStart, RecvRenew, RecvStop, Accept, Refuse, AnswerData, PollTail, ExpireLease,
           AbortMotion, Sends, SendCommand, SendStart, SendRenew, SendStop, Originate, Tick,
           LoseFrame, RejectDamaged, Reboot, Fault
  <2>3. QED
    BY <2>1, <2>2
<1>2. PICK A, B : A = Abandoned /\ B = Abandoned'
  OBVIOUS
<1>3. IsFiniteSet(A) /\ IsFiniteSet(B) /\ Cardinality(A) \in Nat /\ Cardinality(B) \in Nat
  <2>1. sent \in Nat /\ sent' \in Nat
    BY DEF TypeOK
  <2>2. QED
    BY <1>2, <2>1, AbandonedFinite DEF Abandoned
<1>4. /\ A \subseteq B
      /\ out # NoPkt /\ local'[Pendant] # local[Pendant] => sent \in B \ A
  BY <1>2, AbandonedStep
<1>5. Cardinality(A) <= Cardinality(B) /\ (Cardinality(A) = Cardinality(B) => A = B)
  BY <1>3, <1>4, FS_Subset
<1>6. Causes = 1 + faults + Cardinality(A) /\ Causes' = 1 + faults' + Cardinality(B)
  BY <1>2 DEF Causes
<1>7. QED
  BY <1>1, <1>3, <1>4, <1>5, <1>6, AbandonedStep

-----------------------------------------------------------------------------
(* The account.                                                            *)

\* Its numbers.
LEMMA AccountTypes ==
    ASSUME TypeOK
    PROVE  /\ local[Pendant] \in Nat \ {0} /\ local[Host] \in Nat \ {0} /\ remote[Host] \in Nat
           /\ \A s \in Proposed : s \in Nat /\ s # 0
<1>1. local[Pendant] \in Nat \ {0} /\ local[Host] \in Nat \ {0} /\ remote[Host] \in Nat
  BY DEF TypeOK
<1>2. \A f \in In(chan[Host]) : f.src \in Nat
  BY FreshTypes
<1>3. QED
  BY <1>1, <1>2 DEF Proposed, NoSession

\* In the next state too.
LEMMA AccountTypesNext ==
    ASSUME TypeOK'
    PROVE  /\ local'[Pendant] \in Nat \ {0} /\ local'[Host] \in Nat \ {0} /\ remote'[Host] \in Nat
           /\ \A s \in Proposed' : s \in Nat /\ s # 0
<1>1. local'[Pendant] \in Nat \ {0} /\ local'[Host] \in Nat \ {0} /\ remote'[Host] \in Nat
  BY DEF TypeOK
<1>2. chan'[Host] \in Seq(Frames)
  BY DEF TypeOK
<1>3. \A f \in In(chan'[Host]) : f.src \in Nat
  BY <1>2, InFrames, FrameFields
<1>4. \A s \in Proposed' : s \in Nat /\ s # 0
  BY <1>1, <1>3 DEF Proposed, NoSession, In
<1>5. QED
  BY <1>1, <1>4

\* A step between two states with their causes.
Account ==
    /\ TypeOK /\ TypeOK' /\ Paid
    /\ Causes \in Nat /\ Causes' \in Nat /\ Causes <= Causes'

\* Nobody draws a nonce, and nothing new is proposed.
LEMMA SteadyAccount ==
    ASSUME Account, local' = local, Proposed' \subseteq Proposed
    PROVE  /\ Paid'
           /\ Slack /\ (MayGreet' => MayGreet) => Slack'
           /\ Causes + 1 <= Causes' => Slack'
<1>1. local[Pendant] \in Nat /\ local[Host] \in Nat /\ \A s \in Proposed : s \in Nat
  BY AccountTypes DEF Account
<1>2. Causes \in Nat /\ Causes' \in Nat /\ Causes <= Causes'
  BY DEF Account
<1>3. Paid'
  BY <1>1, <1>2 DEF Account, Paid
<1>4. Slack /\ (MayGreet' => MayGreet) => Slack'
  BY <1>1, <1>2 DEF Slack
<1>5. Causes + 1 <= Causes' => Slack'
  BY <1>1, <1>2 DEF Account, Paid, Slack
<1>6. QED
  BY <1>3, <1>4, <1>5

\* The pendant proposes its generation.
LEMMA GreetingAccount ==
    ASSUME Account, local' = local, MayGreet, Proposed' \subseteq Proposed \cup {local[Pendant]}
    PROVE  Paid' /\ (Slack => Slack')
<1>1. local[Pendant] \in Nat /\ local[Host] \in Nat /\ \A s \in Proposed : s \in Nat
  BY AccountTypes DEF Account
<1>2. Causes \in Nat /\ Causes' \in Nat /\ Causes <= Causes'
  BY DEF Account
<1>3. Paid'
  BY <1>1, <1>2 DEF Account, Paid
<1>4. Slack => Slack'
  BY <1>1, <1>2 DEF Slack
<1>5. QED
  BY <1>3, <1>4

\* The pendant starts a generation and may propose it, with a cause to spare.
LEMMA RenewedAccount ==
    ASSUME Account, Slack \/ Causes + 1 <= Causes',
           local'[Pendant] = local[Pendant] + 1, local'[Host] = local[Host],
           Proposed' \subseteq Proposed \cup {local'[Pendant]}
    PROVE  Paid'
<1>1. local[Pendant] \in Nat /\ local[Host] \in Nat /\ \A s \in Proposed : s \in Nat
  BY AccountTypes DEF Account
<1>2. Causes \in Nat /\ Causes' \in Nat /\ Causes <= Causes'
  BY DEF Account
<1>3. Slack => local[Pendant] + 1 <= Causes'
  BY <1>1, <1>2 DEF Slack
<1>4. Slack => \A s \in Proposed : local[Host] + local[Pendant] + 1 - s <= Causes'
  BY <1>1, <1>2 DEF Slack
<1>5. QED
  BY <1>1, <1>2, <1>3, <1>4 DEF Account, Paid

\* The host draws a nonce when it turns from the generation it has recorded to a
\* later one, or loses its session with it.
LEMMA TurnedAccount ==
    ASSUME Account, local'[Pendant] = local[Pendant], local'[Host] = local[Host] + 1,
           remote[Host] # NoSession, remote[Host] <= local[Pendant],
           \A s \in Proposed' : remote[Host] < s,
           Slack \/ remote[Host] < local[Pendant],
           MayGreet' => remote[Host] < local[Pendant]
    PROVE  Paid' /\ (Slack => Slack')
<1>1. /\ local[Pendant] \in Nat /\ local[Host] \in Nat
      /\ \A s \in Proposed' : s \in Nat
  BY AccountTypes, AccountTypesNext DEF Account
<1>2. Causes \in Nat /\ Causes' \in Nat /\ Causes <= Causes'
  BY DEF Account
<1>3. PICK r \in Nat : r = remote[Host] /\ r \in Proposed
  BY DEF Account, TypeOK, Proposed
<1>4. /\ local[Pendant] <= Causes
      /\ local[Host] + local[Pendant] - r <= Causes
      /\ Slack => local[Pendant] + 1 <= Causes /\ local[Host] + local[Pendant] - r + 1 <= Causes
  BY <1>3 DEF Account, Paid, Slack
<1>5. local[Host] + 1 <= Causes'
  BY <1>1, <1>2, <1>3, <1>4
<1>6. \A s \in Proposed' : local[Host] + 1 + local[Pendant] - s <= Causes'
  BY <1>1, <1>2, <1>3, <1>4
<1>7. Paid'
  BY <1>1, <1>2, <1>4, <1>5, <1>6 DEF Paid
<1>8. ASSUME Slack PROVE Slack'
  <2>1. local[Pendant] + 1 <= Causes' /\ (MayGreet' => local[Host] + 2 <= Causes')
    BY <1>1, <1>2, <1>3, <1>4, <1>8
  <2>2. \A s \in Proposed' : local[Host] + 1 + local[Pendant] - s + 1 <= Causes'
    BY <1>1, <1>2, <1>3, <1>4, <1>8
  <2>3. QED
    BY <1>1, <2>1, <2>2 DEF Slack
<1>9. QED
  BY <1>7, <1>8

\* The host reboots.
LEMMA RebootAccount ==
    ASSUME Account, Causes + 1 <= Causes',
           local'[Pendant] = local[Pendant], local'[Host] = local[Host] + 1,
           Proposed' \subseteq Proposed, MayGreet' => MayGreet
    PROVE  /\ Paid'
           /\ Slack \/ (Proposed' = {} /\ ~MayGreet') => Slack'
<1>1. local[Pendant] \in Nat /\ local[Host] \in Nat /\ \A s \in Proposed : s \in Nat
  BY AccountTypes DEF Account
<1>2. Causes \in Nat /\ Causes' \in Nat
  BY DEF Account
<1>3. Paid'
  BY <1>1, <1>2 DEF Account, Paid
<1>4. Slack => Slack'
  <2> SUFFICES ASSUME Slack PROVE Slack'
    OBVIOUS
  <2>1. local[Pendant] + 1 <= Causes' /\ (MayGreet' => local[Host] + 2 <= Causes')
    BY <1>1, <1>2 DEF Slack
  <2>2. \A s \in Proposed' : local[Host] + 1 + local[Pendant] - s + 1 <= Causes'
    BY <1>1, <1>2 DEF Slack
  <2>3. QED
    BY <1>1, <2>1, <2>2 DEF Slack
<1>5. Proposed' = {} /\ ~MayGreet' => Slack'
  BY <1>1, <1>2 DEF Account, Paid, Slack
<1>6. QED
  BY <1>3, <1>4, <1>5

-----------------------------------------------------------------------------
(* The frames on a channel after a step.                                   *)

\* Of r's frames those that are not in G are of q and in q's order, and nothing
\* of q is behind one of G.
Onto(r, q, G) ==
    /\ In(r) \subseteq In(q) \cup G
    /\ \A f, h : Before(r, f, h) => Before(q, f, h) \/ h \in G

\* A channel left alone, read from, or cleared of a damaged frame.
LEMMA FewerOnto ==
    ASSUME NEW q \in Seq(Frames), NEW r, NEW G,
           r = q \/ (q # <<>> /\ r = Tail(q)) \/ \E k \in DOMAIN q : r = Without(q, k)
    PROVE  Onto(r, q, G)
BY TailOrder, WithoutOrder DEF Onto

\* A frame sent.
LEMMA PushOnto ==
    ASSUME NEW q, NEW r \in Seq(Frames), NEW G, Onto(r, q, G), NEW f \in Frames, f \in G
    PROVE  Push(r, f) \in Seq(Frames) /\ Onto(Push(r, f), q, G)
BY PushOrder, PushType DEF Onto

\* And the only one sent.
LEMMA SendOnto ==
    ASSUME NEW q \in Seq(Frames), NEW f \in Frames
    PROVE  Onto(Push(q, f), q, {f})
<1>1. Onto(q, q, {f})
  BY FewerOnto
<1>2. QED
  BY <1>1, PushOnto

\* The frames of a channel are the first and those behind it.
LEMMA HeadOrTail ==
    ASSUME NEW q \in Seq(Frames), q # <<>>
    PROVE  \A f \in In(q) : f = Head(q) \/ f \in In(Tail(q))
<1>1. Len(q) \in Nat \ {0} /\ DOMAIN q = 1..Len(q) /\ DOMAIN Tail(q) = 1..(Len(q) - 1)
      /\ Head(q) = q[1]
  OBVIOUS
<1>2. \A i \in DOMAIN q : i # 1 => i - 1 \in DOMAIN Tail(q) /\ Tail(q)[i - 1] = q[i]
  BY <1>1
<1>3. QED
  BY <1>1, <1>2 DEF In

\* An empty channel has no frames, any other has its first.
LEMMA EmptyIn ==
    ASSUME NEW q \in Seq(Frames)
    PROVE  q = <<>> <=> In(q) = {}
<1>1. DOMAIN q = 1..Len(q) /\ Len(q) \in Nat /\ (q = <<>> <=> Len(q) = 0)
  OBVIOUS
<1>2. ASSUME q # <<>> PROVE In(q) # {}
  <2>1. 1 \in DOMAIN q
    BY <1>1, <1>2
  <2>2. QED
    BY <2>1 DEF In
<1>3. ASSUME q = <<>> PROVE In(q) = {}
  <2>1. DOMAIN q = {}
    BY <1>1, <1>3
  <2>2. QED
    BY <2>1 DEF In
<1>4. QED
  BY <1>2, <1>3

\* A channel that holds a frame is not empty after a send.
LEMMA PushFills ==
    ASSUME NEW q \in Seq(Frames), NEW f \in Frames, MaxChan # 0
    PROVE  /\ Push(q, f) # <<>>
           /\ In(q) \subseteq In(Push(q, f))
           /\ q # <<>> => Head(Push(q, f)) = Head(q)
           /\ q = <<>> => Push(q, f) = <<f>>
<1>1. MaxChan \in Nat
  BY LinkConstants
<1>2. CASE Push(q, f) = q /\ Len(q) >= MaxChan
  BY <1>1, <1>2
<1>3. CASE Push(q, f) = Append(q, f)
  <2> DEFINE r == Append(q, f)
  <2>1. /\ Len(q) \in Nat /\ DOMAIN q = 1..Len(q)
        /\ DOMAIN r = 1..(Len(q) + 1) /\ r # <<>>
        /\ \A i \in 1..Len(q) : r[i] = q[i]
        /\ Head(r) = r[1]
        /\ q # <<>> => Head(q) = q[1] /\ 1 \in 1..Len(q)
    OBVIOUS
  <2>2. q = <<>> => r = <<f>>
    OBVIOUS
  <2> HIDE DEF r
  <2>3. In(q) \subseteq In(r)
    BY <2>1 DEF In
  <2>4. QED
    BY <1>3, <2>1, <2>2, <2>3 DEF r
<1>4. QED
  BY <1>1, <1>2, <1>3 DEF Push

\* One frame alone.
LEMMA OneIn ==
    ASSUME NEW f
    PROVE  In(<<f>>) = {f} /\ \A g, h : ~Before(<<f>>, g, h)
BY DEF In, Before

\* What is before what is on the channel.
LEMMA BeforeIn ==
    ASSUME NEW q, NEW f, NEW g, Before(q, f, g)
    PROVE  f \in In(q) /\ g \in In(q)
BY DEF Before, In

-----------------------------------------------------------------------------
(* Who sent what is on its way to the host.                                *)

\* What the invariant takes from the theorems before.
Known == TypeOK /\ PairInv /\ FreshInv /\ DeliveryInv

\* The pendant sends as the generation it has or is about to leave, and proposes
\* only the one it then has, without a session; the host records what it reads,
\* or forgets.
LEMMA OriginSent ==
    ASSUME Known, TypeOK', PairInv', FreshInv', OriginInv, local[Pendant] <= local'[Pendant],
           NEW G, Onto(chan'[Host], chan[Host], G),
           NEW n, n = local[Pendant] \/ n = local'[Pendant],
           \A g \in G : g.src = n /\ (g.type = "INIT" => n = local'[Pendant] /\ ~est'[Pendant]),
           \/ remote'[Host] = remote[Host] /\ (est'[Host] => est[Host])
           \/ remote'[Host] = NoSession /\ ~est'[Host]
           \/ /\ chan[Host] # <<>> /\ chan'[Host] = Tail(chan[Host])
              /\ remote'[Host] = Head(chan[Host]).src
              /\ est'[Host] => Head(chan[Host]).type = "CONFIRM"
    PROVE  OriginInv'
<1>1. /\ local[Pendant] \in Nat \ {0} /\ local'[Pendant] \in Nat \ {0} /\ remote[Host] \in Nat
      /\ \A f \in In(chan[Host]) : f \in Frames /\ f.src \in Nat
  BY FreshTypes DEF Known, TypeOK
<1>2. \A f \in In(chan'[Host]) : f \in In(chan[Host]) \/ f \in G
  BY DEF Onto
<1>3. \A f \in In(chan'[Host]) : f.src \in Nat /\ f.src # 0 /\ f.src <= local'[Pendant]
  BY <1>1, <1>2 DEF OriginInv
<1>4. \A f \in In(chan'[Host]) : f.type = "CONFIRM" /\ f.src = local'[Pendant] => est'[Pendant]
  BY DEF PairInv, ConfirmsHonest, Honest, In
<1>5. ASSUME NEW f \in In(chan'[Host]), NEW g \in In(chan'[Host]), Before(chan'[Host], f, g)
      PROVE  f.src <= g.src /\ (f.type = "CONFIRM" /\ g.type = "INIT" => f.src # g.src)
  <2>1. CASE Before(chan[Host], f, g)
    BY <2>1, BeforeIn DEF OriginInv
  <2>2. CASE g \in G
    <3>1. g.src = n /\ n \in Nat /\ local[Pendant] <= n
      BY <1>1, <2>2
    <3>2. f.src \in Nat /\ f.src <= n
      <4>1. CASE f \in In(chan[Host])
        BY <1>1, <3>1, <4>1 DEF OriginInv
      <4>2. CASE f \in G
        BY <3>1, <4>2
      <4>3. QED
        BY <1>2, <4>1, <4>2
    <3>3. f.type = "CONFIRM" /\ g.type = "INIT" => f.src # g.src
      BY <1>4, <2>2
    <3>4. QED
      BY <3>1, <3>2, <3>3
  <2>3. QED
    BY <1>5, <2>1, <2>2 DEF Onto
<1>6. /\ remote'[Host] <= local'[Pendant]
      /\ est'[Host] /\ remote'[Host] = local'[Pendant] => est'[Pendant]
  BY DEF FreshInv, HostFresh, PairInv, HostHonest
<1>7. ASSUME NEW g \in In(chan'[Host]), g.type = "INIT"
      PROVE  remote'[Host] <= g.src /\ (est'[Host] => remote'[Host] # g.src)
  <2>1. CASE g \in G
    BY <1>6, <1>7, <2>1
  <2>2. CASE g \in In(chan[Host]) /\ g \notin G
    <3>1. remote[Host] <= g.src /\ (est[Host] => remote[Host] # g.src)
      BY <1>7, <2>2 DEF OriginInv
    <3>2. CASE remote'[Host] = remote[Host] /\ (est'[Host] => est[Host])
      BY <3>1, <3>2
    <3>3. CASE remote'[Host] = NoSession /\ ~est'[Host]
      BY <1>3, <3>3 DEF NoSession
    <3>4. CASE /\ chan[Host] # <<>> /\ chan'[Host] = Tail(chan[Host])
               /\ remote'[Host] = Head(chan[Host]).src
               /\ est'[Host] => Head(chan[Host]).type = "CONFIRM"
      <4>1. Before(chan[Host], Head(chan[Host]), g) /\ Head(chan[Host]) \in In(chan[Host])
        BY <1>7, <3>4, HeadBefore DEF Known, TypeOK
      <4>2. QED
        BY <1>7, <2>2, <3>4, <4>1 DEF OriginInv
    <3>5. QED
      BY <3>2, <3>3, <3>4
  <2>3. QED
    BY <1>2, <1>7, <2>1, <2>2
<1>8. est'[Host] => remote'[Host] # NoSession
  <2>1. chan[Host] # <<>> => Head(chan[Host]).src # 0
    BY HeadBefore DEF Known, TypeOK, OriginInv
  <2>2. QED
    BY <2>1 DEF OriginInv, NoSession
<1>9. QED
  BY <1>3, <1>5, <1>7, <1>8 DEF OriginInv

\* In the usual case it sends as the generation it has.
LEMMA OriginStep ==
    ASSUME Known, TypeOK', PairInv', FreshInv', OriginInv, local[Pendant] <= local'[Pendant],
           NEW G, Onto(chan'[Host], chan[Host], G),
           \A g \in G : g.src = local'[Pendant] /\ (g.type = "INIT" => ~est'[Pendant]),
           \/ remote'[Host] = remote[Host] /\ (est'[Host] => est[Host])
           \/ remote'[Host] = NoSession /\ ~est'[Host]
           \/ /\ chan[Host] # <<>> /\ chan'[Host] = Tail(chan[Host])
              /\ remote'[Host] = Head(chan[Host]).src
              /\ est'[Host] => Head(chan[Host]).type = "CONFIRM"
    PROVE  OriginInv'
BY OriginSent

-----------------------------------------------------------------------------
(* Proposals and offers.                                                   *)

\* What there can be of proposals and offers after a step.
LEMMA TokensFrom ==
    ASSUME local'[Pendant] = local[Pendant],
           NEW G, Onto(chan'[Host], chan[Host], G), \A g \in G : g.type # "INIT",
           NEW H, Onto(chan'[Pendant], chan[Pendant], H), \A h \in H : h.type # "CHALLENGE"
    PROVE  Greets' \subseteq Greets /\ Offers' \subseteq Offers
<1>1. \A f \in In(chan'[Host]) : f.type = "INIT" => f \in In(chan[Host])
  BY DEF Onto
<1>2. \A f \in In(chan'[Pendant]) : f.type = "CHALLENGE" => f \in In(chan[Pendant])
  BY DEF Onto
<1>3. QED
  BY <1>1, <1>2 DEF Greets, Offers

\* A step that proposes and offers nothing.
LEMMA TokenCalm ==
    ASSUME TokenInv, local'[Pendant] = local[Pendant],
           NEW G, Onto(chan'[Host], chan[Host], G), \A g \in G : g.type # "INIT",
           NEW H, Onto(chan'[Pendant], chan[Pendant], H), \A h \in H : h.type # "CHALLENGE",
           txAge'[Pendant] = txAge[Pendant] \/ txAge'[Pendant] = 0 \/ (Greets' = {} /\ Offers' = {}),
           est'[Pendant] => est[Pendant] \/ Offers # {}
    PROVE  TokenInv'
<1>1. Greets' \subseteq Greets /\ Offers' \subseteq Offers
  BY TokensFrom
<1>2. Greets' # {} \/ Offers' # {} => txAge'[Pendant] = 0
  BY <1>1 DEF TokenInv
<1>3. Greets' # {} => ~est'[Pendant] /\ Offers' = {}
  BY <1>1 DEF TokenInv
<1>4. \A f, g \in Greets' : ~Before(chan'[Host], f, g)
  BY <1>1 DEF TokenInv, Onto, Greets
<1>5. QED
  BY <1>2, <1>3, <1>4 DEF TokenInv

\* What the pendant's generations can read on the wire, before a new one.
LEMMA NothingNewer ==
    ASSUME Known, OriginInv
    PROVE  /\ \A f \in In(chan[Host]) : f.src \in Nat /\ f.src <= local[Pendant]
           /\ \A c \in In(chan[Pendant]) : c.type = "CHALLENGE" => c.peer \in Nat /\ c.peer <= local[Pendant]
           /\ remote[Host] \in Nat /\ remote[Host] <= local[Pendant]
           /\ local[Pendant] \in Nat
BY FreshTypes DEF Known, OriginInv, FreshInv, ChallengesFresh, HostFresh

\* A new generation finds no proposal or offer of its own.
LEMMA TokenRenewed ==
    ASSUME Known, OriginInv, local'[Pendant] = local[Pendant] + 1,
           NEW G, Onto(chan'[Host], chan[Host], G), \A g \in G : g.type # "INIT",
           NEW H, Onto(chan'[Pendant], chan[Pendant], H), \A h \in H : h.type # "CHALLENGE"
    PROVE  Greets' = {} /\ Offers' = {} /\ TokenInv'
<1>1. \A f \in In(chan'[Host]) : f.type = "INIT" => f.src # local'[Pendant]
  BY NothingNewer DEF Onto
<1>2. \A c \in In(chan'[Pendant]) : c.type = "CHALLENGE" => c.peer # local'[Pendant]
  BY NothingNewer DEF Onto
<1>3. Greets' = {} /\ Offers' = {}
  BY <1>1, <1>2 DEF Greets, Offers
<1>4. QED
  BY <1>3 DEF TokenInv

\* The pendant proposes the generation that it then has.
LEMMA TokenGreeting ==
    ASSUME TypeOK, ~est'[Pendant], txAge'[Pendant] = 0,
           NEW g \in Frames, g.type = "INIT", g.src = local'[Pendant],
           \A f \in In(chan[Host]) : f.type = "INIT" => f.src # local'[Pendant],
           \A c \in In(chan[Pendant]) : c.type = "CHALLENGE" => c.peer # local'[Pendant],
           chan'[Host] = Push(chan[Host], g), chan'[Pendant] = chan[Pendant]
    PROVE  Greets' \subseteq {g} /\ g \notin In(chan[Host]) /\ Offers' = {} /\ TokenInv'
<1>1. /\ In(chan'[Host]) \subseteq In(chan[Host]) \cup {g}
      /\ \A f, h : Before(chan'[Host], f, h) => Before(chan[Host], f, h) \/ (f \in In(chan[Host]) /\ h = g)
  BY PushOrder DEF TypeOK
<1>2. g \notin In(chan[Host])
  OBVIOUS
<1>3. Greets' \subseteq {g} /\ Offers' = {}
  BY <1>1 DEF Greets, Offers
<1>4. \A f, h \in Greets' : ~Before(chan'[Host], f, h)
  BY <1>1, <1>2, <1>3, BeforeIn
<1>5. QED
  BY <1>2, <1>3, <1>4 DEF TokenInv

\* The host answers a proposal with an offer.
LEMMA TokenOffered ==
    ASSUME TypeOK, TokenInv, chan[Host] # <<>>, Head(chan[Host]).type = "INIT",
           NEW c \in Frames, c.type = "CHALLENGE", c.peer = Head(chan[Host]).src,
           local'[Pendant] = local[Pendant], est'[Pendant] = est[Pendant],
           txAge'[Pendant] = txAge[Pendant],
           chan'[Host] = Tail(chan[Host]), chan'[Pendant] = Push(chan[Pendant], c)
    PROVE  /\ TokenInv'
           /\ Head(chan[Host]).src # local[Pendant] => Offers' \subseteq Offers
           /\ Head(chan[Host]).src = local[Pendant]
                => Head(chan[Host]) \in Greets /\ Offers = {} /\ ~est[Pendant] /\ Offers' \subseteq {c}
<1>1. chan[Host] \in Seq(Frames) /\ chan[Pendant] \in Seq(Frames)
  BY DEF TypeOK
<1>2. /\ In(chan'[Host]) \subseteq In(chan[Host])
      /\ \A f, h : Before(chan'[Host], f, h) => Before(chan[Host], f, h)
      /\ In(chan'[Pendant]) \subseteq In(chan[Pendant]) \cup {c}
  BY <1>1, TailOrder, PushOrder
<1>3. Greets' \subseteq Greets /\ Offers' \subseteq Offers \cup {c}
  BY <1>2 DEF Greets, Offers
<1>4. CASE Head(chan[Host]).src # local[Pendant]
  <2>1. Offers' \subseteq Offers
    BY <1>3, <1>4 DEF Offers
  <2>2. QED
    BY <1>2, <1>3, <1>4, <2>1 DEF TokenInv
<1>5. CASE Head(chan[Host]).src = local[Pendant]
  <2>1. Head(chan[Host]) \in Greets
    BY <1>1, <1>5, HeadBefore DEF Greets
  <2>2. Greets' = {}
    <3> SUFFICES ASSUME NEW f \in Greets' PROVE FALSE
      OBVIOUS
    <3>1. Before(chan[Host], Head(chan[Host]), f)
      BY <1>1, HeadBefore DEF Greets
    <3>2. QED
      BY <1>3, <2>1, <3>1 DEF TokenInv
  <2>3. txAge'[Pendant] = 0 /\ Offers = {} /\ ~est[Pendant]
    BY <2>1 DEF TokenInv
  <2>4. QED
    BY <1>3, <1>5, <2>1, <2>2, <2>3 DEF TokenInv
<1>6. QED
  BY <1>4, <1>5

\* What may be proposed after a step that sends no proposal.
LEMMA ProposedFrom ==
    ASSUME NEW G, Onto(chan'[Host], chan[Host], G), \A g \in G : g.type # "INIT",
           remote'[Host] = remote[Host] \/ remote'[Host] = NoSession
    PROVE  Proposed' \subseteq Proposed
<1>1. \A f \in In(chan'[Host]) : f.type = "INIT" => f \in In(chan[Host])
  BY DEF Onto
<1>2. QED
  BY <1>1 DEF Proposed

\* And after one that does.
LEMMA ProposedGreeting ==
    ASSUME TypeOK, NEW g \in Frames, g.src = local'[Pendant], chan'[Host] = Push(chan[Host], g),
           remote'[Host] = remote[Host]
    PROVE  Proposed' \subseteq Proposed \cup {local'[Pendant]}
<1>1. In(chan'[Host]) \subseteq In(chan[Host]) \cup {g}
  BY PushOrder DEF TypeOK
<1>2. QED
  BY <1>1 DEF Proposed

-----------------------------------------------------------------------------
(* Handshakes and sessions over a step.                                    *)

\* A handshake goes on when frames are only read, and any offer is untouched or
\* gone.
LEMMA GreetingStays ==
    ASSUME TypeOK, TypeOK', Greeting, ~est'[Pendant], local'[Pendant] = local[Pendant],
           Onto(chan'[Host], chan[Host], {}),
           \/ Offers' = {}
           \/ /\ Offers' \subseteq Offers /\ Onto(chan'[Pendant], chan[Pendant], {})
              /\ local'[Host] = local[Host] /\ remote'[Host] = remote[Host],
           remote'[Host] = local[Pendant]
             => remote[Host] = local[Pendant] /\ (est'[Host] => est[Host])
    PROVE  Greeting'
<1>1. /\ In(chan'[Host]) \subseteq In(chan[Host])
      /\ \A f, h : Before(chan'[Host], f, h) => Before(chan[Host], f, h)
  BY DEF Onto
<1>2. Greets' = Greets \cap In(chan'[Host])
  BY <1>1 DEF Greets
<1>3. \A f \in Greets' : \A g : ~Before(chan'[Host], f, g)
  BY <1>1, <1>2 DEF Greeting
<1>4. ASSUME NEW c \in Offers'
      PROVE  /\ \A d : ~Before(chan'[Pendant], c, d)
             /\ c.src = local'[Host] /\ remote'[Host] = local'[Pendant]
             /\ chan'[Host] = <<>>
  <2>1. /\ c \in Offers /\ local'[Host] = local[Host] /\ remote'[Host] = remote[Host]
        /\ \A d : Before(chan'[Pendant], c, d) => Before(chan[Pendant], c, d)
    BY <1>4 DEF Onto
  <2>2. chan[Host] = <<>>
    BY <2>1 DEF Greeting
  <2>3. In(chan'[Host]) = {}
    BY <1>1, <2>2, EmptyIn DEF TypeOK
  <2>4. chan'[Host] = <<>>
    BY <2>3, EmptyIn DEF TypeOK
  <2>5. QED
    BY <2>1, <2>4 DEF Greeting
<1>5. remote'[Host] = local'[Pendant] => ~est'[Host] /\ In(chan'[Host]) \subseteq Greets'
  BY <1>1, <1>2 DEF Greeting
<1>6. QED
  BY <1>3, <1>4, <1>5 DEF Greeting

\* A handshake begins with a generation the host has not heard of.
LEMMA GreetingBegins ==
    ASSUME ~est'[Pendant], Greets' = {}, Offers' = {}, remote'[Host] # local'[Pendant]
    PROVE  Greeting'
BY DEF Greeting

\* A handshake goes on with a proposal of its generation.
LEMMA GreetingSent ==
    ASSUME TypeOK, ~est'[Pendant], Offers' = {},
           NEW g \in Frames, Greets' \subseteq {g}, g \notin In(chan[Host]),
           g.type = "INIT", g.src = local'[Pendant],
           chan'[Host] = Push(chan[Host], g),
           remote'[Host] = local'[Pendant] => ~est'[Host] /\ In(chan[Host]) = {}
    PROVE  Greeting'
<1>1. /\ In(chan'[Host]) \subseteq In(chan[Host]) \cup {g}
      /\ \A f, h : Before(chan'[Host], f, h) => f \in In(chan[Host])
  BY PushOrder, BeforeIn DEF TypeOK
<1>2. \A f \in Greets' : \A h : ~Before(chan'[Host], f, h)
  BY <1>1
<1>3. In(chan[Host]) = {} => In(chan'[Host]) \subseteq Greets'
  BY <1>1 DEF Greets
<1>4. QED
  BY <1>2, <1>3 DEF Greeting

\* What a step starts from.
Context ==
    /\ Known /\ Known' /\ LossInv /\ Account
    /\ faults' = faults + 1 => Causes + 1 <= Causes'
    /\ out # NoPkt /\ local'[Pendant] # local[Pendant] => Causes + 1 <= Causes'
    /\ Prompt /\ Heartbeat < LinkLost /\ MaxChan # 0

\* And what it keeps.
Kept == OriginInv' /\ TokenInv' /\ Paid' /\ Covered'

\* A step without a new nonce, proposal or offer: it is a fault, or it leaves the
\* handshake or the session undisturbed.
LEMMA SteadyStep ==
    ASSUME Context, local' = local, remote'[Host] = remote[Host], est'[Host] => est[Host],
           est'[Pendant] = est[Pendant],
           NEW G, Onto(chan'[Host], chan[Host], G),
           \A g \in G : g.src = local[Pendant] /\ g.type # "INIT",
           NEW H, Onto(chan'[Pendant], chan[Pendant], H), \A h \in H : h.type # "CHALLENGE",
           txAge'[Pendant] = txAge[Pendant] \/ txAge'[Pendant] = 0 \/ (Greets' = {} /\ Offers' = {}),
           \/ faults' = faults + 1
           \/ /\ est[Pendant] \/ Offers \subseteq Offers'
              /\ Greeting => Greeting'
              /\ Linking => Linking'
    PROVE  Kept
<1>1. OriginInv'
  <2>1. local[Pendant] <= local'[Pendant]
    BY DEF Context, Known, TypeOK
  <2>2. QED
    BY <2>1, OriginStep DEF Context, Known, LossInv
<1>2. TokenInv'
  BY TokenCalm DEF Context, LossInv
<1>3. Proposed' \subseteq Proposed
  BY ProposedFrom
<1>4. Paid' /\ (Slack /\ (MayGreet' => MayGreet) => Slack') /\ (Causes + 1 <= Causes' => Slack')
  BY <1>3, SteadyAccount DEF Context
<1>5. Covered'
  <2>1. CASE faults' = faults + 1
    BY <1>4, <2>1 DEF Context, Covered
  <2>2. CASE /\ est[Pendant] \/ Offers \subseteq Offers'
             /\ Greeting => Greeting'
             /\ Linking => Linking'
    <3>1. MayGreet' => MayGreet
      BY <2>2 DEF MayGreet
    <3>2. Slack => Slack'
      BY <1>4, <3>1
    <3>3. QED
      BY <2>2, <3>2 DEF Context, LossInv, Covered
  <2>3. QED
    BY <2>1, <2>2
<1>6. QED
  BY <1>1, <1>2, <1>4, <1>5 DEF Kept

-----------------------------------------------------------------------------
(* Frames that are read.                                                   *)

\* What reading a frame does to both channels.
LEMMA TakeOnto ==
    ASSUME TypeOK, NEW e \in EP, chan[e] # <<>>, Take(e)
    PROVE  /\ chan[e] \in Seq(Frames) /\ chan[Peer(e)] \in Seq(Frames)
           /\ chan'[e] = Tail(chan[e]) /\ chan'[Peer(e)] = chan[Peer(e)]
           /\ \A G : Onto(chan'[Host], chan[Host], G) /\ Onto(chan'[Pendant], chan[Pendant], G)
<1>1. /\ chan[e] \in Seq(Frames) /\ chan[Peer(e)] \in Seq(Frames)
      /\ chan'[e] = Tail(chan[e]) /\ chan'[Peer(e)] = chan[Peer(e)]
  BY PeerType DEF TypeOK, Take
<1>2. \A G : Onto(chan'[e], chan[e], G) /\ Onto(chan'[Peer(e)], chan[Peer(e)], G)
  BY <1>1, FewerOnto
<1>3. QED
  BY <1>1, <1>2 DEF Peer

\* An offer stays unless it is read.
LEMMA OffersStay ==
    ASSUME TypeOK, local'[Pendant] = local[Pendant],
           \/ chan'[Pendant] = chan[Pendant]
           \/ /\ chan[Pendant] # <<>> /\ chan'[Pendant] = Tail(chan[Pendant])
              /\ Head(chan[Pendant]) \notin Offers
    PROVE  Offers \subseteq Offers'
<1>1. \A c \in Offers : c \in In(chan'[Pendant])
  BY HeadOrTail DEF TypeOK, Offers
<1>2. QED
  BY <1>1 DEF Offers

\* A frame less leaves a line a line.
LEMMA LineFewer ==
    ASSUME NEW q, NEW r, NEW s, NEW p, NEW types, NEW t, Line(q, s, p, types, t), Onto(r, q, {})
    PROVE  Line(r, s, p, types, t)
BY DEF Line, Onto

\* And so does a frame of the kind that is missing.
LEMMA LineSent ==
    ASSUME NEW q \in Seq(Frames), NEW s, NEW p, NEW types, NEW t, Line(q, s, p, types, t),
           NEW f \in Frames, f.src = s, f.peer = p, f.type \in types,
           \A g \in In(q) : (g.type = t) # (f.type = t)
    PROVE  Line(Push(q, f), s, p, types, t)
<1>1. /\ In(Push(q, f)) \subseteq In(q) \cup {f}
      /\ \A g, h : Before(Push(q, f), g, h) => Before(q, g, h) \/ (g \in In(q) /\ h = f)
  BY PushOrder
<1>2. QED
  BY <1>1, BeforeIn DEF Line

\* What an undisturbed session has to read.
LEMMA LinkingHeads ==
    ASSUME TypeOK, Linking
    PROVE  /\ chan[Host] # <<>>
                => /\ Head(chan[Host]) \in In(chan[Host])
                   /\ Head(chan[Host]).src = remote[Host] /\ Head(chan[Host]).peer = local[Host]
                   /\ Head(chan[Host]).type \in {"CONFIRM", "HEARTBEAT", "DATA"}
                   /\ est[Host] <=> Head(chan[Host]).type # "CONFIRM"
           /\ chan[Pendant] # <<>>
                => /\ Head(chan[Pendant]) \in In(chan[Pendant])
                   /\ Head(chan[Pendant]).type \in {"HEARTBEAT", "ACK", "NAK"}
                   /\ MatchesActive(Pendant, Head(chan[Pendant]))
                   /\ est[Host]
<1>1. \A e \in EP : chan[e] # <<>> => Head(chan[e]) \in In(chan[e])
  BY HeadBefore DEF TypeOK
<1>2. QED
  BY <1>1 DEF Linking, LinkPair, ToHost, ToPendant, Line, Confirming, MatchesActive, TypeOK

\* A frame that is read and changes no session.
LEMMA ReadKept ==
    ASSUME Context, NEW e \in EP, chan[e] # <<>>, Take(e), UNCHANGED <<local, remote, est, txAge>>,
           e = Pendant => est[Pendant] \/ Head(chan[Pendant]) \notin Offers,
           Linking => Linking'
    PROVE  Kept
<1>1. TypeOK /\ TypeOK' /\ LossInv
  BY DEF Context, Known
<1>2. Onto(chan'[Host], chan[Host], {}) /\ Onto(chan'[Pendant], chan[Pendant], {})
  BY <1>1, TakeOnto
<1>3. Offers' \subseteq Offers
  BY <1>2, TokensFrom
<1>4. est[Pendant] \/ Offers \subseteq Offers'
  BY <1>1, TakeOnto, OffersStay DEF Peer
<1>5. Greeting => Greeting'
  BY <1>1, <1>2, <1>3, GreetingStays DEF Greeting
<1>6. QED
  BY <1>2, <1>4, <1>5, SteadyStep

\* Frames of no session, and proposals the host refuses.
LEMMA StrayKept ==
    ASSUME Context, NEW e \in EP, RejectOldSession(e) \/ RefuseInit
    PROVE  Kept
<1>1. TypeOK
  BY DEF Context, Known
<1>2. PICK d \in EP : /\ chan[d] # <<>> /\ Take(d)
                      /\ d = Pendant => Head(chan[Pendant]).type # "CHALLENGE"
  BY DEF RejectOldSession, RefuseInit, Arrives
<1>3. UNCHANGED <<local, remote, est, txAge>>
  BY DEF RejectOldSession, RefuseInit, sessionVars
<1>4. ~Linking
  BY <1>1, LinkingHeads DEF RejectOldSession, RefuseInit, Arrives, MatchesActive, Linking, LinkPair
<1>5. QED
  BY <1>2, <1>3, <1>4, ReadKept DEF Offers

\* The ages are numbers.
LEMMA AgeTypes ==
    ASSUME TypeOK
    PROVE  /\ rxAge[Pendant] \in Nat /\ rxAge[Host] \in Nat
           /\ txAge[Pendant] \in Nat /\ txAge[Host] \in Nat
           /\ out # NoPkt => out.age \in Nat
<1>1. \A n \in 0..LinkLost : n \in Nat
  OBVIOUS
<1>2. \A n \in 0..Heartbeat : n \in Nat
  OBVIOUS
<1>3. \A n \in 0..AckTimeout : n \in Nat
  OBVIOUS
<1>4. QED
  BY <1>1, <1>2, <1>3 DEF TypeOK, Outstanding

\* An undisturbed session whose frame is read and heard.
LEMMA LinkingHeard ==
    ASSUME TypeOK, TypeOK', Linking, NEW e \in EP, chan[e] # <<>>, Take(e), Heard(e),
           UNCHANGED <<local, remote, txAge>>, est'[Pendant], est'[Host],
           est[Host] \/ (e = Host /\ Head(chan[Host]).type = "CONFIRM"),
           out' = out \/ (e = Pendant /\ Head(chan[Pendant]).type \in {"ACK", "NAK"})
    PROVE  Linking'
<1>1. Onto(chan'[Host], chan[Host], {}) /\ Onto(chan'[Pendant], chan[Pendant], {})
  BY TakeOnto
<1>2. LinkPair' /\ ToHost' /\ ToPendant'
  BY <1>1, LineFewer DEF Linking, LinkPair, ToHost, ToPendant
<1>3. /\ In(chan'[Host]) \subseteq In(chan[Host]) /\ In(chan'[Pendant]) \subseteq In(chan[Pendant])
      /\ chan'[e] = Tail(chan[e]) /\ chan'[Peer(e)] = chan[Peer(e)]
      /\ Head(chan[e]) \in In(chan[e])
      /\ \A h \in In(chan'[e]) : Before(chan[e], Head(chan[e]), h)
  BY <1>1, TakeOnto, HeadBefore DEF Onto
<1>4. Confirming'
  <2> SUFFICES ASSUME NEW f \in In(chan'[Host]) PROVE f.type # "CONFIRM"
    BY DEF Confirming
  <2>1. CASE est[Host]
    BY <1>3, <2>1 DEF Linking, Confirming
  <2>2. CASE e = Host /\ Head(chan[Host]).type = "CONFIRM"
    BY <1>3, <2>2 DEF Linking, ToHost, Line
  <2>3. QED
    BY <2>1, <2>2
<1>5. Exchange'
  <2>1. CASE out' = out
    BY <1>3, <2>1 DEF Linking, Exchange
  <2>2. CASE e = Pendant /\ Head(chan[Pendant]).type \in {"ACK", "NAK"}
    <3>1. \A a \in In(chan'[Pendant]) : a.type = "HEARTBEAT"
      BY <1>3, <2>2 DEF Linking, ToPendant, Line
    <3>2. \A f \in In(chan'[Host]) : f.type # "DATA"
      BY <1>3, <2>2 DEF Linking, Exchange
    <3>3. QED
      BY <3>1, <3>2 DEF Exchange
  <2>3. QED
    BY <2>1, <2>2
<1>6. Punctual'
  <2>1. rxAge' = [rxAge EXCEPT ![e] = 0] /\ Heartbeat \in Nat
    BY ConstantTypes DEF Heard
  <2>2. /\ rxAge[Pendant] \in Nat /\ rxAge[Host] \in Nat /\ txAge[Pendant] \in Nat /\ txAge[Host] \in Nat
        /\ rxAge'[e] = 0 /\ rxAge'[Peer(e)] = rxAge[Peer(e)]
    <3>1. rxAge'[e] = 0 /\ rxAge'[Peer(e)] = rxAge[Peer(e)]
      BY <2>1, PeerType DEF TypeOK
    <3>2. QED
      BY <3>1, AgeTypes
  <2>3. CASE e = Host
    BY <1>3, <2>1, <2>2, <2>3 DEF Linking, Punctual, Peer
  <2>4. CASE e = Pendant
    BY <1>3, <2>1, <2>2, <2>4 DEF Linking, Punctual, Peer
  <2>5. QED
    BY <2>3, <2>4
<1>7. QED
  BY <1>2, <1>4, <1>5, <1>6 DEF Linking

\* A heartbeat.
LEMMA HeartbeatKept ==
    ASSUME Context, NEW e \in EP, RecvHeartbeat(e)
    PROVE  Kept
<1>1. TypeOK /\ TypeOK'
  BY DEF Context, Known
<1>2. /\ chan[e] # <<>> /\ Head(chan[e]).type = "HEARTBEAT" /\ Take(e) /\ Heard(e)
      /\ UNCHANGED <<local, remote, est, txAge, out>>
      /\ MatchesActive(e, Head(chan[e]))
  BY DEF RecvHeartbeat, Arrives, sessionVars, senderVars
<1>3. Linking => est[Host] /\ est[Pendant]
  BY <1>1, <1>2, LinkingHeads DEF Linking, LinkPair, MatchesActive
<1>4. Linking => Linking'
  BY <1>1, <1>2, <1>3, LinkingHeard
<1>5. QED
  BY <1>2, <1>4, ReadKept DEF Offers

\* An ACK.
LEMMA AckKept ==
    ASSUME Context, RecvAck
    PROVE  Kept
<1>1. TypeOK /\ TypeOK'
  BY DEF Context, Known
<1>2. /\ chan[Pendant] # <<>> /\ Head(chan[Pendant]).type = "ACK" /\ Take(Pendant) /\ Heard(Pendant)
      /\ UNCHANGED <<local, remote, est, txAge>>
  BY DEF RecvAck, Arrives, sessionVars
<1>3. Linking => est[Host] /\ est[Pendant]
  BY <1>1, <1>2, LinkingHeads DEF Linking, LinkPair
<1>4. Linking => Linking'
  BY <1>1, <1>2, <1>3, LinkingHeard
<1>5. QED
  BY <1>2, <1>4, ReadKept DEF Offers

\* A CONFIRM.
LEMMA ConfirmKept ==
    ASSUME Context, RecvConfirm
    PROVE  Kept
<1>1. TypeOK /\ TypeOK'
  BY DEF Context, Known
<1>2. PICK f : f = Head(chan[Host])
  OBVIOUS
<1>3. /\ chan[Host] # <<>> /\ f.type = "CONFIRM" /\ Take(Host)
      /\ UNCHANGED <<local, remote, txAge, out>>
      /\ est'[Pendant] = est[Pendant]
      /\ IF GoodConfirm(f) THEN Establish(Host) ELSE est' = est
  BY <1>1, <1>2 DEF RecvConfirm, Arrives, senderVars, Establish, TypeOK
<1>4. Linking => f.src = remote[Host] /\ f.peer = local[Host] /\ ~est[Host] /\ est[Pendant]
  BY <1>1, <1>2, <1>3, LinkingHeads DEF Linking, LinkPair
<1>5. CASE ~GoodConfirm(f)
  <2>1. ~Linking
    BY <1>4, <1>5 DEF GoodConfirm
  <2>2. QED
    BY <1>3, <1>5, <2>1, ReadKept
<1>6. CASE GoodConfirm(f)
  <2>1. f.src = remote[Host] /\ est'[Host] /\ f \in In(chan[Host]) /\ chan'[Host] = Tail(chan[Host])
    BY <1>1, <1>2, <1>3, <1>6, HeadBefore, TakeOnto DEF GoodConfirm, Establish, TypeOK
  <2>2. Onto(chan'[Host], chan[Host], {}) /\ chan'[Pendant] = chan[Pendant]
        /\ Onto(chan'[Pendant], chan[Pendant], {})
    BY <1>1, <1>3, TakeOnto DEF Peer
  <2>3. OriginInv'
    <3>1. local[Pendant] <= local'[Pendant]
      BY <1>1, <1>3 DEF TypeOK
    <3>2. Known /\ TypeOK' /\ PairInv' /\ FreshInv' /\ OriginInv
      BY DEF Context, Known, LossInv
    <3>3. QED
      BY <1>2, <1>3, <2>1, <2>2, <3>1, <3>2, OriginStep
  <2>4. TokenInv' /\ Greets' \subseteq Greets /\ Offers' \subseteq Offers
    BY <1>3, <2>2, TokenCalm, TokensFrom DEF Context, LossInv
  <2>5. Proposed' \subseteq Proposed /\ Offers' = Offers
    BY <1>3, <2>2, ProposedFrom DEF Offers
  <2>6. Paid' /\ (Slack => Slack')
    BY <1>3, <2>5, SteadyAccount DEF Context, MayGreet
  <2>7. Greeting => Greeting'
    <3>1. Greeting => remote[Host] # local[Pendant]
      BY <1>3, <2>1 DEF Greeting, Greets
    <3>2. QED
      BY <1>1, <1>3, <2>2, <2>4, <3>1, GreetingStays DEF Greeting
  <2>8. Linking => Linking'
    <3>1. Linking => Heard(Host)
      BY <1>3, <1>4, <1>6 DEF Establish
    <3>2. QED
      BY <1>1, <1>2, <1>3, <1>4, <2>1, <3>1, LinkingHeard
  <2>9. QED
    BY <2>3, <2>4, <2>6, <2>7, <2>8 DEF Context, LossInv, Covered, Kept
<1>7. QED
  BY <1>5, <1>6

-----------------------------------------------------------------------------
(* Proposals and offers that are answered.                                 *)

\* The pendant takes an offer to its present generation.
LEMMA OfferTaken ==
    ASSUME Context, NEW c, c = Head(chan[Pendant]), chan[Pendant] # <<>>,
           c.type = "CHALLENGE", GoodChallenge(c),
           NEW f \in Frames, f = Frame("CONFIRM", local[Pendant], c.src, NoSeq),
           TakeAndAnswer(Pendant, f), Written(Pendant), Establish(Pendant),
           remote' = [remote EXCEPT ![Pendant] = c.src], UNCHANGED <<local, out>>
    PROVE  Kept
<1>1. TypeOK /\ TypeOK' /\ OriginInv /\ TokenInv
  BY DEF Context, Known, LossInv
<1>2. /\ chan[Host] \in Seq(Frames) /\ chan[Pendant] \in Seq(Frames) /\ chan'[Pendant] \in Seq(Frames)
      /\ chan'[Host] = Push(chan[Host], f) /\ chan'[Pendant] = Tail(chan[Pendant])
      /\ remote'[Pendant] = c.src /\ remote'[Host] = remote[Host]
      /\ est'[Pendant] /\ est'[Host] = est[Host] /\ txAge'[Pendant] = 0 /\ txAge'[Host] = txAge[Host]
      /\ ~est[Pendant] => rxAge'[Pendant] = 0
  BY <1>1 DEF TypeOK, TakeAndAnswer, Peer, Written, Establish, Heard
<1>3. f.type = "CONFIRM" /\ f.src = local[Pendant] /\ f.peer = c.src
  BY DEF Frame
<1>4. c \in Offers
  BY <1>2, HeadBefore DEF Offers, GoodChallenge
<1>5. Onto(chan'[Host], chan[Host], {f}) /\ Onto(chan'[Pendant], chan[Pendant], {})
  BY <1>2, FewerOnto, SendOnto
<1>6. OriginInv'
  <2>1. local[Pendant] <= local'[Pendant]
    BY <1>1 DEF TypeOK
  <2>2. Known /\ TypeOK' /\ PairInv' /\ FreshInv'
    BY DEF Context, Known
  <2>3. QED
    BY <1>1, <1>2, <1>3, <1>5, <2>1, <2>2, OriginStep
<1>7. TokenInv'
  BY <1>1, <1>2, <1>3, <1>4, <1>5, TokenCalm
<1>8. Paid' /\ (Slack => Slack')
  <2>1. Proposed' \subseteq Proposed
    BY <1>2, <1>3, <1>5, ProposedFrom
  <2>2. ~MayGreet'
    BY <1>2 DEF MayGreet
  <2>3. QED
    BY <2>1, <2>2, SteadyAccount DEF Context
<1>9. ASSUME Greeting PROVE Linking'
  <2>1. /\ ~est[Pendant] /\ ~est[Host] /\ chan[Host] = <<>>
        /\ c.src = local[Host] /\ remote[Host] = local[Pendant]
        /\ \A d : ~Before(chan[Pendant], c, d)
    BY <1>4, <1>9 DEF Greeting
  <2>2. In(chan'[Pendant]) = {}
    BY <1>2, <2>1, HeadBefore
  <2>3. chan'[Pendant] = <<>> /\ \A g, h : ~Before(chan'[Pendant], g, h)
    BY <1>2, <2>2, EmptyIn, BeforeIn
  <2>4. /\ chan'[Host] = <<f>> /\ chan'[Host] # <<>> /\ Head(chan'[Host]) = f
        /\ In(chan'[Host]) = {f} /\ \A g, h : ~Before(chan'[Host], g, h)
    <3>1. Push(chan[Host], f) = <<f>>
      BY <1>2, <2>1, PushFills DEF Context
    <3>2. <<f>> # <<>> /\ Head(<<f>>) = f
      OBVIOUS
    <3>3. QED
      BY <1>2, <3>1, <3>2, OneIn
  <2>5. LinkPair'
    BY <1>2, <2>1 DEF LinkPair
  <2>6. ToHost' /\ ToPendant'
    BY <1>3, <2>1, <2>2, <2>3, <2>4 DEF ToHost, ToPendant, Line
  <2>7. Confirming'
    BY <1>2, <1>3, <2>1, <2>3, <2>4 DEF Confirming
  <2>8. Exchange'
    BY <1>3, <2>2, <2>4 DEF Exchange
  <2>9. Punctual'
    <3>1. rxAge'[Pendant] = 0 /\ txAge'[Host] \in Nat /\ Heartbeat \in Nat
      BY <1>1, <1>2, <2>1, AgeTypes, ConstantTypes
    <3>2. QED
      BY <1>2, <2>1, <2>2, <2>4, <3>1 DEF Punctual
  <2>10. QED
    BY <2>5, <2>6, <2>7, <2>8, <2>9 DEF Linking
<1>10. ~Linking
  BY <1>1, LinkingHeads
<1>11. QED
  BY <1>6, <1>7, <1>8, <1>9, <1>10 DEF Context, LossInv, Covered, Kept

\* A CHALLENGE.
LEMMA ChallengeKept ==
    ASSUME Context, RecvChallenge
    PROVE  Kept
<1>1. TypeOK /\ TypeOK'
  BY DEF Context, Known
<1>2. PICK c : c = Head(chan[Pendant])
  OBVIOUS
<1>3. chan[Pendant] # <<>> /\ c.type = "CHALLENGE" /\ c \in Frames
  BY <1>1, <1>2, TailType DEF RecvChallenge, Arrives, TypeOK
<1>4. CASE GoodChallenge(c)
  <2>1. PICK f \in Frames : f = Frame("CONFIRM", local[Pendant], c.src, NoSeq)
    BY <1>1, <1>3, FrameFields, FrameType, SmallTypes, NoSeqTypes DEF TypeOK
  <2>2. /\ TakeAndAnswer(Pendant, f) /\ Written(Pendant) /\ Establish(Pendant)
        /\ remote' = [remote EXCEPT ![Pendant] = c.src] /\ UNCHANGED <<local, out>>
    BY <1>2, <1>4, <2>1 DEF RecvChallenge, senderVars
  <2>3. QED
    BY <1>2, <1>3, <1>4, <2>1, <2>2, OfferTaken
<1>5. CASE ~GoodChallenge(c)
  <2>1. Take(Pendant) /\ UNCHANGED <<local, remote, est, txAge>>
    BY <1>2, <1>5 DEF RecvChallenge
  <2>2. est[Pendant] \/ c \notin Offers
    BY <1>5 DEF GoodChallenge, Offers
  <2>3. ~Linking
    BY <1>1, <1>2, <1>3, LinkingHeads
  <2>4. QED
    BY <1>2, <1>3, <2>1, <2>2, <2>3, ReadKept
<1>6. QED
  BY <1>4, <1>5

\* A frame sent loses no other.
LEMMA OffersPushed ==
    ASSUME TypeOK, NEW f \in Frames, MaxChan # 0, local'[Pendant] = local[Pendant],
           chan'[Pendant] = Push(chan[Pendant], f)
    PROVE  Offers \subseteq Offers'
<1>1. In(chan[Pendant]) \subseteq In(chan'[Pendant])
  BY PushFills DEF TypeOK
<1>2. QED
  BY <1>1 DEF Offers

\* The host offers its nonce to a proposal, again or anew.
LEMMA ProposalKept ==
    ASSUME Context, RepeatChallenge \/ AcceptInit
    PROVE  Kept
<1>1. TypeOK /\ TypeOK' /\ OriginInv /\ TokenInv /\ FreshInv
  BY DEF Context, Known, LossInv
<1>2. PICK i : i = Head(chan[Host])
  OBVIOUS
<1>3. PICK q : q = Tail(chan[Host])
  OBVIOUS
<1>4. /\ chan[Host] # <<>> /\ i.type = "INIT" /\ i \in Frames /\ i \in In(chan[Host])
      /\ \A g \in In(q) : Before(chan[Host], i, g)
      /\ i.src \in Nat /\ i.src # 0 /\ i.src <= local[Pendant] /\ remote[Host] <= i.src
  <2>1. chan[Host] # <<>> /\ i.type = "INIT"
    BY <1>2 DEF RepeatChallenge, AcceptInit, Arrives
  <2>2. i \in Frames /\ i \in In(chan[Host]) /\ \A g \in In(q) : Before(chan[Host], i, g)
    BY <1>1, <1>2, <1>3, <2>1, HeadBefore, TailType DEF TypeOK
  <2>3. QED
    BY <1>1, <2>1, <2>2, FrameFields DEF OriginInv
<1>5. /\ local[Pendant] \in Nat /\ local[Host] \in Nat /\ remote[Host] \in Nat
      /\ local'[Host] \in Nat
  BY <1>1 DEF TypeOK
<1>6. /\ local'[Pendant] = local[Pendant] /\ est' = est /\ ~est[Host]
      /\ remote'[Host] = i.src /\ txAge'[Pendant] = txAge[Pendant]
  BY <1>1, <1>2, <1>4 DEF RepeatChallenge, AcceptInit, Written, sessionVars, TypeOK, OriginInv
<1>7. \/ local'[Host] = local[Host]
      \/ local'[Host] = local[Host] + 1 /\ remote[Host] # NoSession /\ remote[Host] # i.src
  BY <1>1, <1>2 DEF RepeatChallenge, AcceptInit, ChallengeNonce, sessionVars, TypeOK
<1>8. PICK c \in Frames : c = Frame("CHALLENGE", local'[Host], i.src, NoSeq)
  BY <1>4, <1>5, FrameType, SmallTypes, NoSeqTypes
<1>9. c.type = "CHALLENGE" /\ c.src = local'[Host] /\ c.peer = i.src
  BY <1>8 DEF Frame
<1>10. chan'[Host] = q /\ chan'[Pendant] = Push(chan[Pendant], c)
  <2>1. RepeatChallenge => c = Frame("CHALLENGE", local[Host], remote[Host], NoSeq)
    BY <1>2, <1>8 DEF RepeatChallenge, sessionVars
  <2>2. AcceptInit => c = Frame("CHALLENGE", ChallengeNonce, i.src, NoSeq)
    BY <1>1, <1>8 DEF AcceptInit, TypeOK
  <2>3. TakeAndAnswer(Host, c)
    BY <1>2, <2>1, <2>2 DEF RepeatChallenge, AcceptInit
  <2>4. QED
    BY <1>1, <1>3, <2>3 DEF TakeAndAnswer, Peer, TypeOK
<1>11. Onto(q, chan[Host], {})
  BY <1>1, <1>3, <1>4, FewerOnto DEF TypeOK
<1>12. OriginInv'
  <2>1. Known /\ TypeOK' /\ PairInv' /\ FreshInv' /\ local[Pendant] <= local'[Pendant]
    BY <1>5, <1>6 DEF Context, Known
  <2>2. QED
    BY <1>1, <1>2, <1>3, <1>4, <1>6, <1>10, <1>11, <2>1, OriginStep
<1>13. /\ TokenInv'
       /\ i.src # local[Pendant] => Offers' \subseteq Offers
       /\ i.src = local[Pendant] => i \in Greets /\ Offers = {} /\ ~est[Pendant] /\ Offers' \subseteq {c}
  BY <1>1, <1>2, <1>3, <1>4, <1>6, <1>9, <1>10, TokenOffered
<1>14. MayGreet' => MayGreet
  <2>1. i.src = local[Pendant] => MayGreet
    BY <1>13 DEF MayGreet
  <2>2. Offers \subseteq Offers'
    BY <1>1, <1>6, <1>10, OffersPushed DEF Context
  <2>3. QED
    BY <1>6, <2>2 DEF MayGreet
<1>15. \A s \in Proposed' : s = i.src \/ \E g \in In(q) : g.type = "INIT" /\ s = g.src
  BY <1>6, <1>10 DEF Proposed
<1>16. Paid' /\ (Slack => Slack')
  <2>1. CASE local'[Host] = local[Host]
    <3>1. i.src \in Proposed
      BY <1>4 DEF Proposed, NoSession
    <3>2. \A g \in In(q) : g.type = "INIT" => g \in In(chan[Host]) /\ g.src # 0
      BY <1>1, <1>11 DEF Onto, OriginInv
    <3>3. Proposed' \subseteq Proposed
      BY <1>15, <3>1, <3>2 DEF Proposed, NoSession
    <3>4. local' = local
      <4>1. local \in [EP -> Nat \ {0}] /\ local' \in [EP -> Nat \ {0}]
        BY <1>1 DEF TypeOK
      <4>2. \A e \in EP : local'[e] = local[e]
        BY <1>6, <2>1
      <4>3. QED
        BY <4>1, <4>2
    <3>5. QED
      BY <1>14, <3>3, <3>4, SteadyAccount DEF Context
  <2>2. CASE local'[Host] = local[Host] + 1 /\ remote[Host] # NoSession /\ remote[Host] # i.src
    <3>1. remote[Host] < i.src /\ remote[Host] < local[Pendant]
      BY <1>4, <1>5, <2>2
    <3>2. \A g \in In(q) : g \in In(chan[Host]) /\ g.src \in Nat /\ i.src <= g.src
      BY <1>1, <1>4, <1>11, FreshTypes DEF Onto, OriginInv
    <3>3. \A s \in Proposed' : remote[Host] < s
      BY <1>4, <1>5, <1>15, <3>1, <3>2
    <3>4. QED
      BY <1>4, <1>5, <1>6, <2>2, <3>1, <3>3, TurnedAccount DEF Context
  <2>3. QED
    BY <1>7, <2>1, <2>2
<1>17. ASSUME Greeting PROVE Greeting'
  <2>1. CASE i.src # local[Pendant]
    <3>1. Offers = {}
      BY <1>4, <1>17 DEF Greeting
    <3>2. QED
      BY <1>1, <1>6, <1>10, <1>11, <1>13, <1>17, <2>1, <3>1, GreetingStays DEF Greeting
  <2>2. CASE i.src = local[Pendant]
    <3>1. In(q) = {} /\ q \in Seq(Frames)
      BY <1>1, <1>4, <1>10, <1>13, <1>17, <2>2 DEF Greeting, TypeOK
    <3>2. q = <<>> /\ Greets' = {}
      BY <1>10, <3>1, EmptyIn DEF Greets
    <3>3. \A d : ~Before(chan'[Pendant], c, d)
      <4>1. c \notin In(chan[Pendant])
        BY <1>9, <1>13, <2>2 DEF Offers
      <4>2. chan[Pendant] \in Seq(Frames)
        BY <1>1 DEF TypeOK
      <4>3. \A d : Before(chan'[Pendant], c, d) => Before(chan[Pendant], c, d) \/ c \in In(chan[Pendant])
        BY <1>10, <4>2, PushOrder
      <4>4. QED
        BY <4>1, <4>3, BeforeIn
    <3>4. QED
      BY <1>6, <1>9, <1>10, <1>13, <2>2, <3>1, <3>2, <3>3 DEF Greeting
  <2>3. QED
    BY <2>1, <2>2
<1>18. ~Linking
  BY <1>1, <1>2, <1>4, LinkingHeads
<1>19. QED
  BY <1>12, <1>13, <1>16, <1>17, <1>18 DEF Context, LossInv, Covered, Kept

-----------------------------------------------------------------------------
(* The pendant starts a new generation.                                    *)

\* What giving its session up leaves of the pendant, and of the host.
LEMMA PendantForgot ==
    ASSUME TypeOK, ForgetSession(Pendant)
    PROVE  /\ local'[Pendant] = local[Pendant] + 1 /\ local'[Host] = local[Host]
           /\ remote'[Host] = remote[Host] /\ est'[Host] = est[Host] /\ ~est'[Pendant]
           /\ local[Pendant] \in Nat /\ local[Pendant] <= local'[Pendant]
           /\ local'[Pendant] # local[Pendant]
<1>1. local[Pendant] \in Nat
  BY DEF TypeOK
<1>2. /\ local'[Pendant] = local[Pendant] + 1 /\ local'[Host] = local[Host]
      /\ remote'[Host] = remote[Host] /\ est'[Host] = est[Host] /\ ~est'[Pendant]
  BY DEF ForgetSession, TypeOK
<1>3. QED
  BY <1>1, <1>2

\* With a cause to spare, the handshake of a new generation is undisturbed.
LEMMA RenewedKept ==
    ASSUME Context, ForgetSession(Pendant), Slack \/ Causes + 1 <= Causes',
           NEW G, Onto(chan'[Host], chan[Host], G),
           \A g \in G : g.src = local[Pendant] /\ g.type # "INIT",
           NEW H, Onto(chan'[Pendant], chan[Pendant], H), \A h \in H : h.type # "CHALLENGE"
    PROVE  Kept
<1>1. /\ TypeOK /\ Known /\ TypeOK' /\ PairInv' /\ FreshInv' /\ OriginInv
  BY DEF Context, Known, LossInv
<1>2. /\ local'[Pendant] = local[Pendant] + 1 /\ local'[Host] = local[Host]
      /\ remote'[Host] = remote[Host] /\ est'[Host] = est[Host] /\ ~est'[Pendant]
      /\ local[Pendant] \in Nat /\ local[Pendant] <= local'[Pendant]
  BY <1>1, PendantForgot
<1>3. OriginInv'
  BY <1>1, <1>2, OriginSent
<1>4. Greets' = {} /\ Offers' = {} /\ TokenInv'
  BY <1>1, <1>2, TokenRenewed
<1>5. Paid'
  <2>1. Proposed' \subseteq Proposed
    BY <1>2, ProposedFrom
  <2>2. QED
    BY <1>2, <2>1, RenewedAccount DEF Context
<1>6. Greeting'
  <2>1. remote'[Host] # local'[Pendant]
    BY <1>1, <1>2, NothingNewer
  <2>2. QED
    BY <1>2, <1>4, <2>1, GreetingBegins
<1>7. QED
  BY <1>3, <1>4, <1>5, <1>6 DEF Covered, Kept

\* Also when it is proposed at once.
LEMMA RenewedGreeting ==
    ASSUME Context, ForgetSession(Pendant), Slack \/ Causes + 1 <= Causes', txAge'[Pendant] = 0,
           NEW g \in Frames, g.type = "INIT", g.src = local'[Pendant],
           chan'[Host] = Push(chan[Host], g), chan'[Pendant] = chan[Pendant]
    PROVE  Kept
<1>1. /\ TypeOK /\ Known /\ TypeOK' /\ PairInv' /\ FreshInv' /\ OriginInv
  BY DEF Context, Known, LossInv
<1>2. /\ local'[Pendant] = local[Pendant] + 1 /\ local'[Host] = local[Host]
      /\ remote'[Host] = remote[Host] /\ est'[Host] = est[Host] /\ ~est'[Pendant]
      /\ local[Pendant] \in Nat /\ local[Pendant] <= local'[Pendant]
  BY <1>1, PendantForgot
<1>3. Onto(chan'[Host], chan[Host], {g})
  <2>1. chan[Host] \in Seq(Frames)
    BY <1>1 DEF TypeOK
  <2>2. QED
    BY <2>1, SendOnto
<1>4. OriginInv'
  BY <1>1, <1>2, <1>3, OriginStep
<1>5. Greets' \subseteq {g} /\ g \notin In(chan[Host]) /\ Offers' = {} /\ TokenInv'
  <2>1. /\ \A f \in In(chan[Host]) : f.type = "INIT" => f.src # local'[Pendant]
        /\ \A c \in In(chan[Pendant]) : c.type = "CHALLENGE" => c.peer # local'[Pendant]
    BY <1>1, <1>2, NothingNewer
  <2>2. QED
    BY <1>1, <1>2, <2>1, TokenGreeting
<1>6. Paid'
  <2>1. Proposed' \subseteq Proposed \cup {local'[Pendant]}
    BY <1>1, <1>2, ProposedGreeting
  <2>2. QED
    BY <1>2, <2>1, RenewedAccount DEF Context
<1>7. Greeting'
  <2>1. remote'[Host] # local'[Pendant]
    BY <1>1, <1>2, NothingNewer
  <2>2. QED
    BY <1>1, <1>2, <1>5, <2>1, GreetingSent
<1>8. QED
  BY <1>4, <1>5, <1>6, <1>7 DEF Covered, Kept

-----------------------------------------------------------------------------
(* Packets and answers.                                                    *)

\* The outstanding packet is one of the present session.
LEMMA OutFields ==
    ASSUME Known, out # NoPkt
    PROVE  /\ out.pkt \in Frames /\ out.pkt.type = "DATA" /\ out \in Outstanding
           /\ out.pkt.src = local[Pendant] /\ out.pkt.peer = remote[Pendant] /\ est[Pendant]
<1>1. out.pkt \in Packets /\ out.pkt \in Frames /\ out.pkt.type = "DATA" /\ out \in Outstanding
  BY DeliveryTypes, PacketType DEF Known
<1>2. OfPendant(out.pkt) /\ out.pkt.src = local[Pendant]
  BY <1>1 DEF Known, DeliveryInv, FlightInv, PacketInv, OutInv
<1>3. QED
  BY <1>1, <1>2 DEF OfPendant

\* The retransmission a NAK asks for.
LEMMA ResendKept ==
    ASSUME Context, chan[Pendant] # <<>>, Head(chan[Pendant]).type = "NAK",
           est[Pendant], out # NoPkt, TakeAndAnswer(Pendant, out.pkt),
           out' # NoPkt, out'.age = 0, Heard(Pendant), UNCHANGED <<local, remote, est, txAge>>
    PROVE  Kept
<1>1. TypeOK /\ TypeOK' /\ Known /\ MaxChan # 0
  BY DEF Context, Known
<1>2. PICK p \in Frames : p = out.pkt /\ p.type = "DATA" /\ p.src = local[Pendant] /\ p.peer = remote[Pendant]
  BY <1>1, OutFields
<1>3. /\ chan[Host] \in Seq(Frames) /\ chan[Pendant] \in Seq(Frames)
      /\ chan'[Host] = Push(chan[Host], p) /\ chan'[Pendant] = Tail(chan[Pendant])
      /\ rxAge'[Pendant] = 0 /\ rxAge'[Host] = rxAge[Host]
  BY <1>1, <1>2 DEF TypeOK, TakeAndAnswer, Peer, Heard
<1>4. /\ Onto(chan'[Host], chan[Host], {p}) /\ Onto(chan'[Pendant], chan[Pendant], {})
      /\ In(chan'[Host]) \subseteq In(chan[Host]) \cup {p} /\ In(chan'[Pendant]) \subseteq In(chan[Pendant])
  <2>1. Onto(chan'[Host], chan[Host], {p})
    BY <1>3, SendOnto
  <2>2. Onto(chan'[Pendant], chan[Pendant], {})
    BY <1>3, FewerOnto
  <2>3. QED
    BY <2>1, <2>2 DEF Onto
<1>5. ASSUME Linking PROVE Linking'
  <2>1. /\ Head(chan[Pendant]) \in In(chan[Pendant]) /\ est[Host]
        /\ \A h \in In(chan'[Pendant]) : Before(chan[Pendant], Head(chan[Pendant]), h)
    BY <1>1, <1>3, <1>5, LinkingHeads, HeadBefore
  <2>2. /\ \A f \in In(chan[Host]) : f.type # "DATA"
        /\ \A h \in In(chan'[Pendant]) : h.type = "HEARTBEAT"
    BY <1>4, <1>5, <2>1 DEF Linking, Exchange, ToPendant, Line
  <2>3. LinkPair' /\ ToHost' /\ ToPendant'
    BY <1>2, <1>3, <1>4, <1>5, <2>2, LineSent, LineFewer DEF Linking, LinkPair, ToHost, ToPendant
  <2>4. Confirming' /\ Exchange'
    BY <1>2, <1>4, <1>5, <2>1, <2>2 DEF Linking, Confirming, Exchange
  <2>5. Punctual'
    <3>1. chan'[Host] # <<>>
      BY <1>1, <1>3, PushFills
    <3>2. txAge[Host] \in Nat /\ Heartbeat \in Nat
      BY <1>1, AgeTypes, ConstantTypes
    <3>3. QED
      BY <1>2, <1>3, <1>4, <1>5, <3>1, <3>2 DEF Linking, Punctual
  <2>6. QED
    BY <2>3, <2>4, <2>5 DEF Linking
<1>6. /\ ~Greeting /\ est'[Pendant] = est[Pendant] /\ est'[Host] = est[Host] /\ remote'[Host] = remote[Host]
      /\ \A g \in {p} : g.src = local[Pendant] /\ g.type # "INIT"
  BY <1>2 DEF Greeting
<1>7. QED
  BY <1>4, <1>5, <1>6, SteadyStep

\* A NAK.
LEMMA NakKept ==
    ASSUME Context, RecvNak
    PROVE  Kept
<1>1. TypeOK /\ TypeOK' /\ Known
  BY DEF Context, Known
<1>2. PICK f : f = Head(chan[Pendant])
  OBVIOUS
<1>3. /\ chan[Pendant] # <<>> /\ f.type = "NAK" /\ est[Pendant] /\ Heard(Pendant)
      /\ txAge' = txAge /\ faults' = faults
  BY <1>2 DEF RecvNak, Arrives, MatchesActive
<1>4. CASE ~Answers(f)
  <2>1. Take(Pendant) /\ UNCHANGED <<local, remote, est, out>>
    BY <1>2, <1>4 DEF RecvNak, sessionVars, senderVars
  <2>2. Linking => est[Host]
    BY <1>1, <1>3, LinkingHeads
  <2>3. Linking => Linking'
    BY <1>1, <1>3, <2>1, <2>2, LinkingHeard
  <2>4. QED
    BY <1>2, <1>3, <2>1, <2>3, ReadKept
<1>5. CASE Answers(f) /\ out.tries >= MaxRetries
  <2>1. out # NoPkt /\ Take(Pendant) /\ ForgetSession(Pendant)
    BY <1>2, <1>5 DEF RecvNak, Answers, LoseSession
  <2>2. Onto(chan'[Host], chan[Host], {}) /\ Onto(chan'[Pendant], chan[Pendant], {})
    BY <1>1, <1>3, <2>1, TakeOnto
  <2>3. local'[Pendant] # local[Pendant]
    BY <1>1, <2>1, PendantForgot
  <2>4. QED
    BY <2>1, <2>2, <2>3, RenewedKept DEF Context
<1>6. CASE Answers(f) /\ ~(out.tries >= MaxRetries)
  <2>1. /\ out # NoPkt /\ TakeAndAnswer(Pendant, out.pkt)
        /\ out' = [out EXCEPT !.age = 0, !.tries = @ + 1]
        /\ UNCHANGED <<local, remote, est>>
    BY <1>2, <1>6 DEF RecvNak, Answers, sessionVars
  <2>2. out' # NoPkt /\ out'.age = 0
    <3>1. out \in Outstanding /\ out.tries \in Nat /\ MaxRetries \in Nat
      BY <1>1, <2>1, OutFields, ConstantTypes DEF Outstanding
    <3>2. out' \in Outstanding
      BY <1>1, <1>6, <2>1, <3>1, RetryType
    <3>3. QED
      BY <2>1, <3>1, <3>2, LinkConstants DEF Outstanding
  <2>3. QED
    BY <1>2, <1>3, <2>1, <2>2, ResendKept
<1>7. QED
  BY <1>4, <1>5, <1>6

\* The answer a to the packet f.
LEMMA AnswerKept ==
    ASSUME Context, NEW t \in {"ACK", "NAK"}, NEW f \in DataArriving, AnswerData(t, f),
           NEW a \in Frames, a = Frame(t, local[Host], remote[Host], f.seq)
    PROVE  Kept
<1>1. TypeOK /\ TypeOK' /\ MaxChan # 0
  BY DEF Context, Known
<1>2. /\ chan[Host] # <<>> /\ f = Head(chan[Host]) /\ f.type = "DATA"
      /\ TakeAndAnswer(Host, a) /\ a.type = t
  BY <1>1, AnswerReplies DEF DataArriving
<1>3. a.src = local[Host] /\ a.peer = remote[Host]
  BY DEF Frame
<1>4. /\ chan[Host] \in Seq(Frames) /\ chan[Pendant] \in Seq(Frames)
      /\ chan'[Host] = Tail(chan[Host]) /\ chan'[Pendant] = Push(chan[Pendant], a)
      /\ rxAge'[Host] = 0 /\ rxAge'[Pendant] = rxAge[Pendant]
      /\ txAge'[Host] = 0 /\ txAge'[Pendant] = txAge[Pendant]
      /\ UNCHANGED <<local, remote, est, out>>
  BY <1>1, <1>2 DEF TypeOK, AnswerData, TakeAndAnswer, Peer, Heard, Written, sessionVars, senderVars
<1>5. /\ Onto(chan'[Host], chan[Host], {}) /\ Onto(chan'[Pendant], chan[Pendant], {a})
      /\ In(chan'[Host]) \subseteq In(chan[Host]) /\ In(chan'[Pendant]) \subseteq In(chan[Pendant]) \cup {a}
  <2>1. Onto(chan'[Host], chan[Host], {})
    BY <1>2, <1>4, FewerOnto
  <2>2. Onto(chan'[Pendant], chan[Pendant], {a})
    BY <1>4, SendOnto
  <2>3. QED
    BY <2>1, <2>2 DEF Onto
<1>6. a.type # "CHALLENGE" /\ a.type # "HEARTBEAT" /\ a.type \in {"ACK", "NAK"}
  BY <1>2
<1>7. Offers \subseteq Offers' /\ Offers' \subseteq Offers
  BY <1>1, <1>4, <1>5, <1>6, OffersPushed, TokensFrom
<1>8. ASSUME Greeting PROVE Greeting'
  <2>1. Offers' = {}
    BY <1>2, <1>7, <1>8 DEF Greeting
  <2>2. QED
    BY <1>1, <1>4, <1>5, <1>8, <2>1, GreetingStays DEF Greeting
<1>9. ASSUME Linking PROVE Linking'
  <2>1. /\ f \in In(chan[Host]) /\ est[Host]
        /\ \A h \in In(chan'[Host]) : Before(chan[Host], f, h)
    BY <1>1, <1>2, <1>4, <1>9, LinkingHeads, HeadBefore
  <2>2. /\ out # NoPkt /\ out.age = 0 /\ \A g \in In(chan[Pendant]) : g.type = "HEARTBEAT"
        /\ \A h \in In(chan'[Host]) : h.type # "DATA"
    <3>1. /\ out # NoPkt /\ out.age = 0
          /\ \A g \in In(chan[Pendant]) : g.type = "HEARTBEAT"
      BY <1>2, <1>9, <2>1 DEF Linking, Exchange
    <3>2. \A h \in In(chan'[Host]) : h.type # "DATA"
      BY <1>2, <1>5, <1>9, <2>1 DEF Linking, ToHost, Line
    <3>3. QED
      BY <3>1, <3>2
  <2>3. LinkPair' /\ ToHost'
    BY <1>4, <1>5, <1>9, LineFewer DEF Linking, LinkPair, ToHost
  <2>4. ToPendant'
    <3>1. /\ a.src = local[Host] /\ a.peer = local[Pendant] /\ a.type \in {"HEARTBEAT", "ACK", "NAK"}
          /\ \A g \in In(chan[Pendant]) : (g.type = "HEARTBEAT") # (a.type = "HEARTBEAT")
      BY <1>3, <1>6, <1>9, <2>2 DEF Linking, LinkPair
    <3>2. QED
      BY <1>4, <1>9, <3>1, LineSent DEF Linking, ToPendant
  <2>5. Confirming' /\ Exchange'
    BY <1>4, <1>5, <1>9, <2>1, <2>2 DEF Linking, Confirming, Exchange
  <2>6. Punctual'
    <3>1. chan'[Pendant] # <<>>
      BY <1>1, <1>4, PushFills
    <3>2. txAge[Pendant] \in Nat /\ Heartbeat \in Nat
      BY <1>1, AgeTypes, ConstantTypes
    <3>3. QED
      BY <1>4, <1>5, <1>9, <3>1, <3>2 DEF Linking, Punctual
  <2>7. QED
    BY <2>3, <2>4, <2>5, <2>6 DEF Linking
<1>10. /\ est'[Pendant] = est[Pendant] /\ est'[Host] = est[Host] /\ remote'[Host] = remote[Host]
       /\ \A h \in {a} : h.type # "CHALLENGE"
  BY <1>4, <1>6
<1>11. QED
  BY <1>4, <1>5, <1>7, <1>8, <1>9, <1>10, SteadyStep

\* A command packet.
LEMMA DataKept ==
    ASSUME Context, RecvDuplicate \/ RecvCommand \/ RecvStart \/ RecvRenew \/ RecvStop
    PROVE  Kept
<1>1. TypeOK
  BY DEF Context, Known
<1>2. PICK f \in DataArriving : AnswerData("ACK", f) \/ AnswerData("NAK", f)
  BY DEF RecvDuplicate, RecvCommand, RecvStart, RecvRenew, RecvStop, Accept, Refuse
<1>3. PICK t \in {"ACK", "NAK"} : AnswerData(t, f)
  BY <1>2
<1>4. f.seq \in SeqNum /\ f \in Frames
  BY <1>1, <1>3, AnswerDataType
<1>5. PICK a \in Frames : a = Frame(t, local[Host], remote[Host], f.seq)
  BY <1>1, <1>4, FrameType DEF TypeOK, Numbered
<1>6. QED
  BY <1>3, <1>5, AnswerKept

\* A packet sent.
LEMMA SendsKept ==
    ASSUME Context, Sends
    PROVE  Kept
<1>1. TypeOK /\ TypeOK' /\ MaxChan # 0
  BY DEF Context, Known
<1>2. PICK k \in Kinds, n \in SeqNum \cup {NoSeq} : Originate(k, n)
  BY <1>1, SmallTypes DEF Sends, SendCommand, SendStart, SendRenew, SendStop, Kinds, TypeOK
<1>3. PICK p \in Frames : p = out'.pkt /\ p.type = "DATA" /\ out' \in Outstanding
  BY <1>1, <1>2, OriginateType DEF Outstanding
<1>4. /\ est[Pendant] /\ out = NoPkt /\ out' # NoPkt /\ out'.age = 0
      /\ p.src = local[Pendant] /\ p.peer = remote[Pendant]
      /\ chan' = [chan EXCEPT ![Host] = Push(@, p)]
      /\ UNCHANGED <<local, remote, est, rxAge>>
  BY <1>2, <1>3, LinkConstants DEF Originate, sessionVars
<1>5. /\ chan[Host] \in Seq(Frames) /\ chan[Pendant] \in Seq(Frames)
      /\ chan'[Host] = Push(chan[Host], p) /\ chan'[Pendant] = chan[Pendant]
      /\ txAge'[Pendant] = 0 /\ txAge'[Host] = txAge[Host]
  BY <1>1, <1>2, <1>4 DEF TypeOK, Originate, Written
<1>6. /\ Onto(chan'[Host], chan[Host], {p}) /\ Onto(chan'[Pendant], chan[Pendant], {})
      /\ In(chan'[Host]) \subseteq In(chan[Host]) \cup {p}
  <2>1. Onto(chan'[Host], chan[Host], {p})
    BY <1>5, SendOnto
  <2>2. Onto(chan'[Pendant], chan[Pendant], {})
    BY <1>5, FewerOnto
  <2>3. QED
    BY <2>1, <2>2 DEF Onto
<1>7. ASSUME Linking PROVE Linking'
  <2>1. /\ \A f \in In(chan[Host]) : f.type # "DATA"
        /\ \A h \in In(chan[Pendant]) : h.type = "HEARTBEAT"
    BY <1>4, <1>7 DEF Linking, Exchange
  <2>2. LinkPair' /\ ToHost' /\ ToPendant'
    BY <1>3, <1>4, <1>5, <1>7, <2>1, LineSent DEF Linking, LinkPair, ToHost, ToPendant
  <2>3. Confirming'
    BY <1>1, <1>3, <1>4, <1>5, <1>6, <1>7, PushFills DEF Linking, Confirming
  <2>4. Exchange'
    BY <1>4, <1>5, <2>1 DEF Exchange
  <2>5. Punctual'
    <3>1. chan'[Host] # <<>>
      BY <1>1, <1>5, PushFills
    <3>2. QED
      BY <1>3, <1>4, <1>5, <1>6, <1>7, <3>1 DEF Linking, Punctual
  <2>6. QED
    BY <2>2, <2>3, <2>4, <2>5 DEF Linking
<1>8. /\ ~Greeting /\ est'[Pendant] = est[Pendant] /\ est'[Host] = est[Host] /\ remote'[Host] = remote[Host]
      /\ \A g \in {p} : g.src = local[Pendant] /\ g.type # "INIT"
  BY <1>3, <1>4 DEF Greeting
<1>9. QED
  BY <1>4, <1>5, <1>6, <1>7, <1>8, SteadyStep

-----------------------------------------------------------------------------
(* The environment.                                                        *)

\* A step that leaves the link alone.
LEMMA StillKept ==
    ASSUME Context, UNCHANGED <<chan, sessionVars, rxAge, txAge, out>>
    PROVE  Kept
<1>1. TypeOK
  BY DEF Context, Known
<1>2. chan' = chan /\ local' = local /\ remote' = remote /\ est' = est
  BY DEF sessionVars
<1>3. Onto(chan'[Host], chan[Host], {}) /\ Onto(chan'[Pendant], chan[Pendant], {})
  BY <1>1, <1>2, FewerOnto DEF TypeOK
<1>4. Greeting' = Greeting /\ Linking' = Linking /\ Offers' = Offers
  BY <1>2 DEF Greeting, Greets, Offers, Linking, LinkPair, ToHost, ToPendant, Confirming, Exchange, Punctual
<1>5. QED
  BY <1>2, <1>3, <1>4, SteadyStep

\* A frame lost.
LEMMA LostKept ==
    ASSUME Context, NEW e \in EP, LoseFrame(e)
    PROVE  Kept
<1>1. TypeOK
  BY DEF Context, Known
<1>2. /\ chan[e] # <<>> /\ Take(e) /\ faults' = faults + 1
      /\ UNCHANGED <<local, remote, est, txAge>>
  BY DEF LoseFrame, Fault, sessionVars
<1>3. Onto(chan'[Host], chan[Host], {}) /\ Onto(chan'[Pendant], chan[Pendant], {})
  BY <1>1, <1>2, TakeOnto
<1>4. QED
  BY <1>2, <1>3, SteadyStep

\* A packet that arrives damaged.
LEMMA DamagedKept ==
    ASSUME Context, NEW i \in DOMAIN chan[Host], RejectDamaged(i)
    PROVE  Kept
<1>1. TypeOK
  BY DEF Context, Known
<1>2. chan[Host] \in Seq(Frames) /\ chan[Pendant] \in Seq(Frames)
  BY <1>1 DEF TypeOK
<1>3. PICK n \in Frames : n = Frame("NAK", local[Host], remote[Host], chan[Host][i].seq)
  <2>1. chan[Host][i] \in Frames /\ chan[Host][i].type = "DATA"
    BY <1>2, ElementOfSeq DEF RejectDamaged
  <2>2. chan[Host][i].seq \in SeqNum
    BY <2>1, FrameFields DEF Numbered
  <2>3. QED
    BY <1>1, <2>2, FrameType DEF TypeOK, Numbered
<1>4. /\ chan'[Host] = Without(chan[Host], i) /\ chan'[Pendant] = Push(chan[Pendant], n)
      /\ faults' = faults + 1 /\ UNCHANGED <<local, remote, est>> /\ txAge'[Pendant] = txAge[Pendant]
  BY <1>1, <1>3 DEF RejectDamaged, TypeOK, Fault, sessionVars, Written
<1>5. Onto(chan'[Host], chan[Host], {})
  BY <1>2, <1>4, FewerOnto
<1>6. Onto(chan'[Pendant], chan[Pendant], {n})
  BY <1>2, <1>4, SendOnto
<1>7. \A h \in {n} : h.type # "CHALLENGE"
  BY <1>3 DEF Frame
<1>8. est'[Pendant] = est[Pendant] /\ est'[Host] = est[Host] /\ remote'[Host] = remote[Host]
  BY <1>4
<1>9. QED
  BY <1>4, <1>5, <1>6, <1>7, <1>8, SteadyStep

-----------------------------------------------------------------------------
(* The rest of poll.                                                       *)

\* What it leaves on the channel of e's peer: q, and f behind it when due.
Writes(e, q, f) ==
    IF BeatDue(e) THEN chan' = [chan EXCEPT ![Peer(e)] = Push(q, f)] /\ Written(e)
    ELSE chan' = [chan EXCEPT ![Peer(e)] = q] /\ UNCHANGED txAge

\* The pendant has used its retries up,
GaveUp ==
    /\ out # NoPkt /\ ForgetSession(Pendant)
    /\ Writes(Pendant, chan[Host], Frame("INIT", local'[Pendant], NoSession, NoSeq))

\* is established, with q on its way after a retransmission that is due,
Upkeep(q) ==
    /\ est[Pendant]
    /\ q = IF AckDue(Pendant) THEN Push(chan[Host], out.pkt) ELSE chan[Host]
    /\ Writes(Pendant, q, Frame("HEARTBEAT", local[Pendant], remote[Pendant], NoSeq))
    /\ IF Silent(Pendant) THEN ForgetSession(Pendant)
       ELSE /\ UNCHANGED sessionVars
            /\ IF AckDue(Pendant) THEN out' # NoPkt /\ out'.age = 0 ELSE out' = out

\* or has yet to be.
Proposing ==
    /\ ~est[Pendant] /\ UNCHANGED <<sessionVars, out>>
    /\ Writes(Pendant, chan[Host], Frame("INIT", local[Pendant], NoSession, NoSeq))

LEMMA PendantPolls ==
    ASSUME Known, PollTail(Pendant)
    PROVE  rxAge' = rxAge /\ (GaveUp \/ (\E q : Upkeep(q)) \/ Proposing)
<1> DEFINE exhausted == AckDue(Pendant) /\ out.tries >= MaxRetries
           resend == AckDue(Pendant) /\ ~exhausted
           up == est[Pendant] /\ ~exhausted
           nonce == IF exhausted THEN local[Pendant] + 1 ELSE local[Pendant]
           beat == BeatDue(Pendant) /\ (up \/ Pendant = Pendant)
           greeting == IF up THEN Frame("HEARTBEAT", local[Pendant], remote[Pendant], NoSeq)
                             ELSE Frame("INIT", nonce, NoSession, NoSeq)
           silent == up /\ Silent(Pendant)
           queued == IF resend THEN Push(chan[Peer(Pendant)], out.pkt) ELSE chan[Peer(Pendant)]
<1>1. /\ chan' = [chan EXCEPT ![Peer(Pendant)] = IF beat THEN Push(queued, greeting) ELSE queued]
      /\ IF beat THEN Written(Pendant) ELSE UNCHANGED txAge
      /\ IF exhausted \/ silent
         THEN LoseSession(Pendant)
         ELSE /\ IF resend THEN out' = [out EXCEPT !.age = 0, !.tries = @ + 1]
                           ELSE UNCHANGED out
              /\ UNCHANGED <<sessionVars, nextSeq, pIntent, lastAcc, motionVars>>
      /\ UNCHANGED <<rxAge, faults, historyVars>>
  BY Zenon DEF PollTail
<1>2. Peer(Pendant) = Host /\ rxAge' = rxAge
  BY <1>1 DEF Peer
<1>3. Writes(Pendant, queued, greeting)
  BY <1>1 DEF Writes
<1>4. CASE exhausted
  <2>1. out # NoPkt /\ ForgetSession(Pendant)
    BY <1>1, <1>4 DEF AckDue, LoseSession
  <2>2. nonce = local'[Pendant]
    BY <1>4, <2>1, PendantForgot DEF Known
  <2>3. queued = chan[Host] /\ greeting = Frame("INIT", local'[Pendant], NoSession, NoSeq)
    BY <1>2, <1>4, <2>2
  <2>4. QED
    BY <1>2, <1>3, <2>1, <2>3 DEF GaveUp
<1>5. CASE ~exhausted /\ est[Pendant]
  <2>1. /\ queued = IF AckDue(Pendant) THEN Push(chan[Host], out.pkt) ELSE chan[Host]
        /\ greeting = Frame("HEARTBEAT", local[Pendant], remote[Pendant], NoSeq)
    BY <1>2, <1>5
  <2>2. Silent(Pendant) => ForgetSession(Pendant)
    BY <1>1, <1>5 DEF LoseSession
  <2>3. /\ ~Silent(Pendant) => UNCHANGED sessionVars
        /\ ~Silent(Pendant) /\ ~AckDue(Pendant) => out' = out
    BY <1>1, <1>5
  <2>4. ~Silent(Pendant) /\ AckDue(Pendant) => out' # NoPkt /\ out'.age = 0
    <3> SUFFICES ASSUME ~Silent(Pendant), AckDue(Pendant) PROVE out' # NoPkt /\ out'.age = 0
      OBVIOUS
    <3>1. out # NoPkt /\ ~(out.tries >= MaxRetries) /\ out' = [out EXCEPT !.age = 0, !.tries = @ + 1]
      BY <1>1, <1>5 DEF AckDue
    <3>2. out \in Outstanding /\ out.tries \in Nat /\ MaxRetries \in Nat
      BY <3>1, OutFields, ConstantTypes DEF Outstanding
    <3>3. out' \in Outstanding
      BY <3>1, <3>2, RetryType DEF Known
    <3>4. QED
      BY <3>1, <3>2, <3>3, LinkConstants DEF Outstanding
  <2>5. Upkeep(queued)
    BY <1>3, <1>5, <2>1, <2>2, <2>3, <2>4 DEF Upkeep
  <2>6. QED
    BY <1>2, <2>5
<1>6. CASE ~exhausted /\ ~est[Pendant]
  <2>1. ~AckDue(Pendant)
    BY <1>6, OutFields DEF AckDue
  <2>2. queued = chan[Host] /\ greeting = Frame("INIT", local[Pendant], NoSession, NoSeq)
    BY <1>2, <1>6, <2>1
  <2>3. UNCHANGED <<sessionVars, out>>
    BY <1>1, <1>6, <2>1
  <2>4. QED
    BY <1>2, <1>3, <1>6, <2>2, <2>3 DEF Proposing
<1>7. QED
  BY <1>4, <1>5, <1>6

\* The two ways of writing, channel by channel.
LEMMA WritesOnto ==
    ASSUME TypeOK, NEW e \in EP, NEW q, NEW f, Writes(e, q, f)
    PROVE  /\ chan'[e] = chan[e] /\ txAge'[Peer(e)] = txAge[Peer(e)]
           /\ \/ ~BeatDue(e) /\ chan'[Peer(e)] = q /\ txAge' = txAge
              \/ BeatDue(e) /\ chan'[Peer(e)] = Push(q, f) /\ txAge'[e] = 0
BY PeerType DEF TypeOK, Writes, Written

\* A packet given up costs the session, and is its cause.
LEMMA GaveUpKept ==
    ASSUME Context, GaveUp
    PROVE  Kept
<1>1. TypeOK /\ TypeOK' /\ Known
  BY DEF Context, Known
<1>2. out # NoPkt /\ ForgetSession(Pendant) /\ local'[Pendant] # local[Pendant]
  BY <1>1, PendantForgot DEF GaveUp
<1>3. Causes + 1 <= Causes'
  BY <1>2 DEF Context
<1>4. PICK g \in Frames : g = Frame("INIT", local'[Pendant], NoSession, NoSeq)
  BY <1>1, FrameType, SmallTypes, NoSeqTypes DEF TypeOK
<1>5. /\ chan'[Pendant] = chan[Pendant]
      /\ \/ chan'[Host] = chan[Host]
         \/ chan'[Host] = Push(chan[Host], g) /\ txAge'[Pendant] = 0
  BY <1>1, <1>4, WritesOnto DEF GaveUp, Peer
<1>6. CASE chan'[Host] = chan[Host]
  <2>1. Onto(chan'[Host], chan[Host], {}) /\ Onto(chan'[Pendant], chan[Pendant], {})
    BY <1>1, <1>5, <1>6, FewerOnto DEF TypeOK
  <2>2. QED
    BY <1>2, <1>3, <2>1, RenewedKept
<1>7. CASE chan'[Host] = Push(chan[Host], g) /\ txAge'[Pendant] = 0
  <2>1. g.type = "INIT" /\ g.src = local'[Pendant]
    BY <1>4 DEF Frame
  <2>2. QED
    BY <1>2, <1>3, <1>5, <1>7, <2>1, RenewedGreeting
<1>8. QED
  BY <1>5, <1>6, <1>7

\* A proposal while the pendant waits for the host.
LEMMA ProposingKept ==
    ASSUME Context, Proposing, rxAge' = rxAge
    PROVE  Kept
<1>1. TypeOK /\ TypeOK' /\ OriginInv /\ TokenInv /\ Account
  BY DEF Context, Known, LossInv
<1>2. PICK g \in Frames : g = Frame("INIT", local[Pendant], NoSession, NoSeq)
  BY <1>1, FrameType, SmallTypes, NoSeqTypes DEF TypeOK
<1>3. g.type = "INIT" /\ g.src = local[Pendant]
  BY <1>2 DEF Frame
<1>4. ~est[Pendant] /\ local' = local /\ remote' = remote /\ est' = est /\ out' = out
  BY DEF Proposing, sessionVars
<1>5. /\ chan'[Pendant] = chan[Pendant]
      /\ \/ ~BeatDue(Pendant) /\ chan'[Host] = chan[Host] /\ txAge' = txAge
         \/ BeatDue(Pendant) /\ chan'[Host] = Push(chan[Host], g) /\ txAge'[Pendant] = 0
  BY <1>1, <1>2, WritesOnto DEF Proposing, Peer
<1>6. CASE chan'[Host] = chan[Host] /\ txAge' = txAge
  <2>1. chan' = chan
    <3>1. chan \in Channels /\ chan' \in Channels
      BY <1>1 DEF TypeOK, Channels
    <3>2. \A e \in EP : chan'[e] = chan[e]
      BY <1>5, <1>6
    <3>3. QED
      BY <3>1, <3>2 DEF Channels
  <2>2. QED
    BY <1>6, <2>1, StillKept DEF Proposing
<1>7. CASE BeatDue(Pendant) /\ chan'[Host] = Push(chan[Host], g) /\ txAge'[Pendant] = 0
  <2>1. Greets = {} /\ Offers = {}
    <3>1. txAge[Pendant] # 0
      BY <1>1, <1>7, AgeTypes, ConstantTypes DEF BeatDue
    <3>2. QED
      BY <1>1, <3>1 DEF TokenInv
  <2>2. /\ \A f \in In(chan[Host]) : f.type = "INIT" => f.src # local'[Pendant]
        /\ \A c \in In(chan[Pendant]) : c.type = "CHALLENGE" => c.peer # local'[Pendant]
    BY <1>4, <2>1 DEF Greets, Offers
  <2>3. Greets' \subseteq {g} /\ g \notin In(chan[Host]) /\ Offers' = {} /\ TokenInv'
    BY <1>1, <1>3, <1>4, <1>5, <1>7, <2>2, TokenGreeting
  <2>4. OriginInv'
    <3>1. chan[Host] \in Seq(Frames)
      BY <1>1 DEF TypeOK
    <3>2. Onto(chan'[Host], chan[Host], {g})
      BY <1>7, <3>1, SendOnto
    <3>3. Known /\ TypeOK' /\ PairInv' /\ FreshInv'
      BY DEF Context, Known
    <3>4. local[Pendant] <= local'[Pendant]
      BY <1>1, <1>4 DEF TypeOK
    <3>5. QED
      BY <1>1, <1>3, <1>4, <3>2, <3>3, <3>4, OriginStep
  <2>5. Paid' /\ (Slack => Slack')
    <3>1. Proposed' \subseteq Proposed \cup {local[Pendant]}
      BY <1>1, <1>3, <1>4, <1>7, ProposedGreeting
    <3>2. MayGreet
      BY <1>4, <2>1 DEF MayGreet
    <3>3. QED
      BY <1>1, <1>4, <3>1, <3>2, GreetingAccount
  <2>6. Greeting => Greeting'
    <3>1. ASSUME Greeting, remote'[Host] = local'[Pendant]
          PROVE  ~est'[Host] /\ In(chan[Host]) = {}
      BY <1>4, <2>1, <3>1 DEF Greeting
    <3>2. QED
      BY <1>1, <1>3, <1>4, <1>7, <2>3, <3>1, GreetingSent
  <2>7. ~Linking
    BY <1>4 DEF Linking, LinkPair
  <2>8. QED
    BY <2>3, <2>4, <2>5, <2>6, <2>7 DEF Context, LossInv, Covered, Kept
<1>8. QED
  BY <1>5, <1>6, <1>7

\* The frames the pendant sends in a session.
Plain == {g \in Frames : g.src = local[Pendant] /\ g.type # "INIT"}

\* An undisturbed session is not silent.
LEMMA LinkingSpeaks ==
    ASSUME Context, Linking
    PROVE  ~Silent(Pendant) /\ (est[Host] => ~Silent(Host))
<1>1. /\ rxAge[Pendant] \in Nat /\ rxAge[Host] \in Nat /\ Heartbeat \in Nat /\ LinkLost \in Nat
      /\ Heartbeat < LinkLost
  BY AgeTypes, ConstantTypes DEF Context, Known
<1>2. QED
  BY <1>1 DEF Linking, Punctual, Silent

\* The retransmission that an undisturbed session makes.
LEMMA RetriedLine ==
    ASSUME Context, Linking, NEW q, q = IF AckDue(Pendant) THEN Push(chan[Host], out.pkt) ELSE chan[Host]
    PROVE  /\ q \in Seq(Frames)
           /\ \A f \in In(q) : f \in In(chan[Host]) \/ (AckDue(Pendant) /\ f = out.pkt)
           /\ Line(q, local[Pendant], local[Host], {"CONFIRM", "HEARTBEAT", "DATA"}, "DATA")
           /\ chan[Host] # <<>> => q # <<>> /\ Head(q) = Head(chan[Host])
           /\ AckDue(Pendant) => \A a \in In(chan[Pendant]) : a.type = "HEARTBEAT"
           /\ AckDue(Pendant) => out.pkt.type = "DATA"
<1>1. TypeOK /\ Known /\ MaxChan # 0 /\ chan[Host] \in Seq(Frames)
  BY DEF Context, Known, TypeOK
<1>2. CASE ~AckDue(Pendant)
  BY <1>1, <1>2 DEF Linking, ToHost
<1>3. CASE AckDue(Pendant)
  <2>1. out # NoPkt /\ q = Push(chan[Host], out.pkt)
    BY <1>3 DEF AckDue
  <2>2. PICK p \in Frames : p = out.pkt /\ p.type = "DATA" /\ p.src = local[Pendant] /\ p.peer = remote[Pendant]
    BY <1>1, <2>1, OutFields
  <2>3. out.age # 0
    BY <1>1, <1>3, <2>1, AgeTypes, ConstantTypes DEF AckDue
  <2>4. /\ \A f \in In(chan[Host]) : f.type # "DATA"
        /\ \A a \in In(chan[Pendant]) : a.type = "HEARTBEAT"
    BY <2>3 DEF Linking, Exchange
  <2>5. q \in Seq(Frames) /\ In(q) \subseteq In(chan[Host]) \cup {p}
    BY <1>1, <2>1, <2>2, PushType, PushOrder
  <2>6. chan[Host] # <<>> => q # <<>> /\ Head(q) = Head(chan[Host])
    BY <1>1, <2>1, <2>2, PushFills
  <2>7. Line(q, local[Pendant], local[Host], {"CONFIRM", "HEARTBEAT", "DATA"}, "DATA")
    <3>1. /\ Line(chan[Host], local[Pendant], local[Host], {"CONFIRM", "HEARTBEAT", "DATA"}, "DATA")
          /\ p.src = local[Pendant] /\ p.peer = local[Host] /\ p.type \in {"CONFIRM", "HEARTBEAT", "DATA"}
          /\ \A g \in In(chan[Host]) : (g.type = "DATA") # (p.type = "DATA")
      BY <2>2, <2>4 DEF Linking, LinkPair, ToHost
    <3>2. Line(Push(chan[Host], p), local[Pendant], local[Host], {"CONFIRM", "HEARTBEAT", "DATA"}, "DATA")
      BY <1>1, <3>1, LineSent
    <3>3. QED
      BY <2>1, <2>2, <3>2
  <2>8. QED
    BY <1>3, <2>2, <2>4, <2>5, <2>6, <2>7
<1>4. QED
  BY <1>2, <1>3

\* The poll of a pendant in an undisturbed session.
LEMMA LinkingUpkeep ==
    ASSUME Context, Linking, NEW q, Upkeep(q), rxAge' = rxAge
    PROVE  Linking'
<1>1. TypeOK /\ TypeOK' /\ MaxChan # 0
  BY DEF Context, Known
<1>2. ~Silent(Pendant)
  BY LinkingSpeaks
<1>3. /\ local' = local /\ remote' = remote /\ est' = est
      /\ IF AckDue(Pendant) THEN out' # NoPkt /\ out'.age = 0 ELSE out' = out
  BY <1>2 DEF Upkeep, sessionVars
<1>4. /\ q \in Seq(Frames)
      /\ \A f \in In(q) : f \in In(chan[Host]) \/ (AckDue(Pendant) /\ f = out.pkt)
      /\ Line(q, local[Pendant], local[Host], {"CONFIRM", "HEARTBEAT", "DATA"}, "DATA")
      /\ chan[Host] # <<>> => q # <<>> /\ Head(q) = Head(chan[Host])
      /\ AckDue(Pendant) => \A a \in In(chan[Pendant]) : a.type = "HEARTBEAT"
      /\ AckDue(Pendant) => out.pkt.type = "DATA"
  BY RetriedLine DEF Upkeep
<1>5. PICK h \in Frames : h = Frame("HEARTBEAT", local[Pendant], remote[Pendant], NoSeq)
  BY <1>1, FrameType, SmallTypes, NoSeqTypes DEF TypeOK
<1>6. h.type = "HEARTBEAT" /\ h.src = local[Pendant] /\ h.peer = remote[Pendant]
  BY <1>5 DEF Frame
<1>7. /\ chan'[Pendant] = chan[Pendant] /\ txAge'[Host] = txAge[Host]
      /\ \/ ~BeatDue(Pendant) /\ chan'[Host] = q /\ txAge' = txAge
         \/ BeatDue(Pendant) /\ chan'[Host] = Push(q, h) /\ txAge'[Pendant] = 0
  BY <1>1, <1>5, WritesOnto DEF Upkeep, Peer
<1>8. BeatDue(Pendant) => \A f \in In(q) : f.type = "DATA"
  <2> SUFFICES ASSUME BeatDue(Pendant), NEW f \in In(q), f.type # "DATA" PROVE FALSE
    OBVIOUS
  <2>1. txAge[Pendant] # 0
    BY <1>1, AgeTypes, ConstantTypes DEF BeatDue
  <2>2. f \in In(chan[Host])
    BY <1>4
  <2>3. QED
    BY <2>1, <2>2 DEF Linking, Punctual
<1>9. LinkPair' /\ ToPendant'
  BY <1>3, <1>7 DEF Linking, LinkPair, ToPendant
<1>10. /\ ToHost'
       /\ \A f \in In(chan'[Host]) : f \in In(q) \/ f = h
       /\ q # <<>> => chan'[Host] # <<>> /\ Head(chan'[Host]) = Head(q)
       /\ BeatDue(Pendant) => chan'[Host] # <<>>
  <2>1. CASE ~BeatDue(Pendant) /\ chan'[Host] = q
    BY <1>3, <1>4, <2>1 DEF ToHost
  <2>2. CASE BeatDue(Pendant) /\ chan'[Host] = Push(q, h)
    <3>1. /\ h.peer = local[Host] /\ h.type \in {"CONFIRM", "HEARTBEAT", "DATA"}
          /\ \A g \in In(q) : (g.type = "DATA") # (h.type = "DATA")
      BY <1>6, <1>8, <2>2 DEF Linking, LinkPair
    <3>2. Line(Push(q, h), local[Pendant], local[Host], {"CONFIRM", "HEARTBEAT", "DATA"}, "DATA")
      BY <1>4, <1>6, <3>1, LineSent
    <3>3. /\ \A f \in In(Push(q, h)) : f \in In(q) \/ f = h
          /\ q # <<>> => Head(Push(q, h)) = Head(q)
          /\ Push(q, h) # <<>>
      BY <1>1, <1>4, PushOrder, PushFills
    <3>4. QED
      BY <1>3, <2>2, <3>2, <3>3 DEF ToHost
  <2>3. QED
    BY <1>7, <2>1, <2>2
<1>11. Confirming'
  <2>1. CASE est[Host]
    <3>1. \A f \in In(chan'[Host]) : f.type # "CONFIRM"
      BY <1>4, <1>6, <1>10, <2>1 DEF Linking, Confirming
    <3>2. QED
      BY <1>3, <2>1, <3>1 DEF Confirming
  <2>2. CASE ~est[Host]
    <3>1. chan[Host] # <<>> /\ Head(chan[Host]).type = "CONFIRM" /\ chan[Pendant] = <<>>
      BY <2>2 DEF Linking, Confirming
    <3>2. QED
      BY <1>3, <1>4, <1>7, <1>10, <2>2, <3>1 DEF Confirming
  <2>3. QED
    BY <2>1, <2>2
<1>12. Exchange'
  <2>1. CASE AckDue(Pendant)
    BY <1>3, <1>4, <1>7, <2>1 DEF Exchange
  <2>2. CASE ~AckDue(Pendant)
    <3>1. \A f \in In(chan'[Host]) : f.type = "DATA" => f \in In(chan[Host])
      BY <1>4, <1>6, <1>10, <2>2
    <3>2. QED
      BY <1>3, <1>7, <2>2, <3>1 DEF Linking, Exchange
  <2>3. QED
    BY <2>1, <2>2
<1>13. Punctual'
  <2>1. \A f \in In(chan'[Host]) : f.type # "DATA" => txAge'[Pendant] = 0
    <3> SUFFICES ASSUME NEW f \in In(chan'[Host]), f.type # "DATA", txAge'[Pendant] # 0 PROVE FALSE
      OBVIOUS
    <3>1. ~BeatDue(Pendant) /\ chan'[Host] = q /\ txAge' = txAge
      BY <1>7
    <3>2. f \in In(chan[Host])
      BY <1>4, <3>1
    <3>3. QED
      BY <3>1, <3>2 DEF Linking, Punctual
  <2>2. rxAge'[Host] <= txAge'[Pendant] \/ chan'[Host] # <<>>
    <3>1. CASE BeatDue(Pendant)
      BY <1>10, <3>1
    <3>2. CASE ~BeatDue(Pendant)
      BY <1>4, <1>7, <3>2 DEF Linking, Punctual
    <3>3. QED
      BY <3>1, <3>2
  <2>3. /\ \A f \in In(chan'[Pendant]) : f.type = "HEARTBEAT" => txAge'[Host] = 0
        /\ rxAge'[Pendant] <= Heartbeat /\ (est'[Host] => rxAge'[Host] <= Heartbeat)
        /\ rxAge'[Pendant] <= txAge'[Host] \/ chan'[Pendant] # <<>>
    BY <1>3, <1>7 DEF Linking, Punctual
  <2>4. QED
    BY <2>1, <2>2, <2>3 DEF Punctual
<1>14. QED
  BY <1>9, <1>10, <1>11, <1>12, <1>13 DEF Linking

\* The poll of a pendant with a session.
LEMMA UpkeepKept ==
    ASSUME Context, NEW q, Upkeep(q), rxAge' = rxAge
    PROVE  Kept
<1>1. TypeOK /\ TypeOK' /\ Known /\ est[Pendant] /\ chan[Host] \in Seq(Frames) /\ chan[Pendant] \in Seq(Frames)
  BY DEF Context, Known, TypeOK, Upkeep
<1>2. PICK h \in Frames : h = Frame("HEARTBEAT", local[Pendant], remote[Pendant], NoSeq)
  BY <1>1, FrameType, SmallTypes, NoSeqTypes DEF TypeOK
<1>3. h \in Plain
  BY <1>2 DEF Frame, Plain
<1>4. AckDue(Pendant) => out.pkt \in Plain
  BY <1>1, OutFields DEF AckDue, Plain
<1>5. Onto(chan[Host], chan[Host], Plain)
  BY <1>1, FewerOnto
<1>6. q \in Seq(Frames) /\ Onto(q, chan[Host], Plain)
  <2>1. CASE AckDue(Pendant)
    <3>1. PICK p \in Frames : p = out.pkt /\ p \in Plain
      BY <1>4, <2>1 DEF Plain
    <3>2. q = Push(chan[Host], p)
      BY <2>1, <3>1 DEF Upkeep
    <3>3. QED
      BY <1>1, <1>5, <3>1, <3>2, PushOnto
  <2>2. CASE ~AckDue(Pendant)
    BY <1>1, <1>5, <2>2 DEF Upkeep
  <2>3. QED
    BY <2>1, <2>2
<1>7. /\ chan'[Pendant] = chan[Pendant]
      /\ \/ chan'[Host] = q /\ txAge' = txAge
         \/ chan'[Host] = Push(q, h) /\ txAge'[Pendant] = 0
  BY <1>1, <1>2, WritesOnto DEF Upkeep, Peer
<1>8. Onto(chan'[Host], chan[Host], Plain)
  BY <1>3, <1>6, <1>7, PushOnto
<1>9. Onto(chan'[Pendant], chan[Pendant], {})
  BY <1>1, <1>7, FewerOnto
<1>10. \A g \in Plain : g.src = local[Pendant] /\ g.type # "INIT"
  BY DEF Plain
<1>11. CASE Silent(Pendant)
  <2>1. ForgetSession(Pendant)
    BY <1>11 DEF Upkeep
  <2>2. Slack
    BY <1>1, <1>11, LinkingSpeaks DEF Context, LossInv, Covered, Greeting
  <2>3. QED
    BY <1>8, <1>9, <1>10, <2>1, <2>2, RenewedKept
<1>12. CASE ~Silent(Pendant)
  <2>1. /\ local' = local /\ remote'[Host] = remote[Host] /\ est'[Host] = est[Host]
        /\ est'[Pendant] = est[Pendant]
    BY <1>12 DEF Upkeep, sessionVars
  <2>2. ~Greeting /\ (Linking => Linking')
    BY <1>1, LinkingUpkeep DEF Greeting
  <2>3. txAge'[Pendant] = txAge[Pendant] \/ txAge'[Pendant] = 0
    BY <1>7
  <2>4. QED
    BY <1>1, <1>8, <1>9, <1>10, <2>1, <2>2, <2>3, SteadyStep
<1>13. QED
  BY <1>11, <1>12

\* The host's poll writes only in a session.
HostUpkeep ==
    /\ est[Host] /\ Writes(Host, chan[Pendant], Frame("HEARTBEAT", local[Host], remote[Host], NoSeq))
    /\ IF Silent(Host) THEN ForgetSession(Host) ELSE UNCHANGED sessionVars

LEMMA HostPolls ==
    ASSUME TypeOK, PollTail(Host)
    PROVE  /\ UNCHANGED <<rxAge, out>>
           /\ HostUpkeep \/ UNCHANGED <<chan, sessionVars, txAge>>
<1> DEFINE exhausted == AckDue(Host) /\ out.tries >= MaxRetries
           resend == AckDue(Host) /\ ~exhausted
           up == est[Host] /\ ~exhausted
           nonce == IF exhausted THEN local[Host] + 1 ELSE local[Host]
           beat == BeatDue(Host) /\ (up \/ Host = Pendant)
           greeting == IF up THEN Frame("HEARTBEAT", local[Host], remote[Host], NoSeq)
                             ELSE Frame("INIT", nonce, NoSession, NoSeq)
           silent == up /\ Silent(Host)
           queued == IF resend THEN Push(chan[Peer(Host)], out.pkt) ELSE chan[Peer(Host)]
<1>1. /\ chan' = [chan EXCEPT ![Peer(Host)] = IF beat THEN Push(queued, greeting) ELSE queued]
      /\ IF beat THEN Written(Host) ELSE UNCHANGED txAge
      /\ IF exhausted \/ silent
         THEN LoseSession(Host)
         ELSE /\ IF resend THEN out' = [out EXCEPT !.age = 0, !.tries = @ + 1]
                           ELSE UNCHANGED out
              /\ UNCHANGED <<sessionVars, nextSeq, pIntent, lastAcc, motionVars>>
      /\ UNCHANGED <<rxAge, faults, historyVars>>
  BY Zenon DEF PollTail
<1>2. Peer(Host) = Pendant /\ rxAge' = rxAge /\ ~AckDue(Host)
  BY <1>1 DEF Peer, AckDue
<1>3. queued = chan[Pendant] /\ ~exhausted /\ ~resend
  BY <1>2
<1>4. out' = out
  BY <1>1, <1>3 DEF LoseSession, ForgetSession
<1>5. CASE est[Host]
  <2>1. greeting = Frame("HEARTBEAT", local[Host], remote[Host], NoSeq) /\ (beat <=> BeatDue(Host))
    BY <1>3, <1>5
  <2>2. Writes(Host, queued, greeting)
    BY <1>1, <2>1 DEF Writes
  <2>3. IF Silent(Host) THEN ForgetSession(Host) ELSE UNCHANGED sessionVars
    BY <1>1, <1>3, <1>5 DEF LoseSession
  <2>4. HostUpkeep
    BY <1>3, <1>5, <2>1, <2>2, <2>3 DEF HostUpkeep
  <2>5. QED
    BY <1>2, <1>4, <2>4
<1>6. CASE ~est[Host]
  <2>1. ~beat /\ ~silent
    BY <1>6
  <2>2. chan' = [chan EXCEPT ![Pendant] = chan[Pendant]] /\ UNCHANGED <<sessionVars, txAge>>
    BY <1>1, <1>2, <1>3, <2>1
  <2>3. chan' = chan
    BY <2>2 DEF TypeOK
  <2>4. QED
    BY <1>2, <1>4, <2>2, <2>3
<1>7. QED
  BY <1>5, <1>6

\* An established host leaves no handshake but one it has not heard of.
LEMMA GreetingUnheard ==
    ASSUME Greeting, est[Host]
    PROVE  Offers = {} /\ remote[Host] # local[Pendant]
BY DEF Greeting

\* The poll of a host in an undisturbed session.
LEMMA LinkingHostUpkeep ==
    ASSUME Context, Linking, HostUpkeep, UNCHANGED <<rxAge, out>>
    PROVE  Linking'
<1>1. TypeOK /\ TypeOK' /\ MaxChan # 0 /\ est[Host] /\ chan[Pendant] \in Seq(Frames)
  BY DEF Context, Known, TypeOK, HostUpkeep
<1>2. local' = local /\ remote' = remote /\ est' = est /\ out' = out /\ rxAge' = rxAge
  BY <1>1, LinkingSpeaks DEF HostUpkeep, sessionVars
<1>3. PICK h \in Frames : h = Frame("HEARTBEAT", local[Host], remote[Host], NoSeq)
  BY <1>1, FrameType, SmallTypes, NoSeqTypes DEF TypeOK
<1>4. h.type = "HEARTBEAT" /\ h.src = local[Host] /\ h.peer = remote[Host]
  BY <1>3 DEF Frame
<1>5. /\ chan'[Host] = chan[Host] /\ txAge'[Pendant] = txAge[Pendant]
      /\ \/ ~BeatDue(Host) /\ chan'[Pendant] = chan[Pendant] /\ txAge' = txAge
         \/ BeatDue(Host) /\ chan'[Pendant] = Push(chan[Pendant], h) /\ txAge'[Host] = 0
  BY <1>1, <1>3, WritesOnto DEF HostUpkeep, Peer
<1>6. LinkPair' /\ ToHost' /\ Confirming'
  BY <1>1, <1>2, <1>5 DEF Linking, LinkPair, ToHost, Confirming
<1>7. CASE ~BeatDue(Host) /\ chan'[Pendant] = chan[Pendant] /\ txAge' = txAge
  BY <1>2, <1>5, <1>6, <1>7 DEF Linking, ToPendant, Exchange, Punctual
<1>8. CASE BeatDue(Host) /\ chan'[Pendant] = Push(chan[Pendant], h) /\ txAge'[Host] = 0
  <2>1. \A g \in In(chan[Pendant]) : g.type # "HEARTBEAT"
    <3>1. txAge[Host] # 0
      BY <1>1, <1>8, AgeTypes, ConstantTypes DEF BeatDue
    <3>2. QED
      BY <3>1 DEF Linking, Punctual
  <2>2. ToPendant'
    <3>1. /\ Line(chan[Pendant], local[Host], local[Pendant], {"HEARTBEAT", "ACK", "NAK"}, "HEARTBEAT")
          /\ h.peer = local[Pendant] /\ h.type \in {"HEARTBEAT", "ACK", "NAK"}
          /\ \A g \in In(chan[Pendant]) : (g.type = "HEARTBEAT") # (h.type = "HEARTBEAT")
      BY <1>4, <2>1 DEF Linking, LinkPair, ToPendant
    <3>2. Line(Push(chan[Pendant], h), local[Host], local[Pendant], {"HEARTBEAT", "ACK", "NAK"}, "HEARTBEAT")
      BY <1>1, <1>4, <3>1, LineSent
    <3>3. QED
      BY <1>2, <1>8, <3>2 DEF ToPendant
  <2>3. In(chan'[Pendant]) \subseteq In(chan[Pendant]) \cup {h} /\ chan'[Pendant] # <<>>
    BY <1>1, <1>8, PushOrder, PushFills
  <2>4. Exchange'
    BY <1>2, <1>4, <1>5, <2>3 DEF Linking, Exchange
  <2>5. Punctual'
    BY <1>2, <1>5, <1>8, <2>3 DEF Linking, Punctual
  <2>6. QED
    BY <1>6, <2>2, <2>4, <2>5 DEF Linking
<1>9. QED
  BY <1>5, <1>7, <1>8

\* The poll of a host with a session.
LEMMA HostUpkeepKept ==
    ASSUME Context, HostUpkeep, UNCHANGED <<rxAge, out>>
    PROVE  Kept
<1>1. TypeOK /\ TypeOK' /\ Known /\ OriginInv /\ TokenInv /\ Account /\ MaxChan # 0 /\ est[Host]
  BY DEF Context, Known, LossInv, HostUpkeep
<1>2. PICK h \in Frames : h = Frame("HEARTBEAT", local[Host], remote[Host], NoSeq) /\ h.type = "HEARTBEAT"
  <2>1. PICK h \in Frames : h = Frame("HEARTBEAT", local[Host], remote[Host], NoSeq)
    BY <1>1, FrameType, SmallTypes, NoSeqTypes DEF TypeOK
  <2>2. QED
    BY <2>1 DEF Frame
<1>3. /\ chan[Host] \in Seq(Frames) /\ chan[Pendant] \in Seq(Frames)
      /\ chan'[Host] = chan[Host] /\ txAge'[Pendant] = txAge[Pendant]
      /\ chan'[Pendant] = chan[Pendant] \/ chan'[Pendant] = Push(chan[Pendant], h)
  <2>1. chan[Host] \in Seq(Frames) /\ chan[Pendant] \in Seq(Frames)
    BY <1>1 DEF TypeOK
  <2>2. QED
    BY <1>1, <1>2, <2>1, WritesOnto DEF HostUpkeep, Peer
<1>4. Onto(chan'[Host], chan[Host], {}) /\ Onto(chan'[Pendant], chan[Pendant], {h})
  <2>1. Onto(chan'[Host], chan[Host], {})
    BY <1>3, FewerOnto
  <2>2. Onto(chan'[Pendant], chan[Pendant], {h})
    BY <1>3, FewerOnto, SendOnto
  <2>3. QED
    BY <2>1, <2>2
<1>5. \A g \in {h} : g.type # "CHALLENGE"
  BY <1>2
<1>6. CASE ~Silent(Host)
  <2>1. local' = local /\ remote' = remote /\ est' = est
    BY <1>6 DEF HostUpkeep, sessionVars
  <2>2. Offers \subseteq Offers' /\ Offers' \subseteq Offers
    BY <1>1, <1>3, <1>4, <1>5, <2>1, OffersPushed, OffersStay, TokensFrom
  <2>3. Greeting => Greeting'
    BY <1>1, <1>4, <2>1, <2>2, GreetingUnheard, GreetingStays DEF Greeting
  <2>4. Linking => Linking'
    BY LinkingHostUpkeep
  <2>5. est'[Pendant] = est[Pendant] /\ est'[Host] = est[Host] /\ remote'[Host] = remote[Host]
    BY <2>1
  <2>6. QED
    BY <1>3, <1>4, <1>5, <2>1, <2>2, <2>3, <2>4, <2>5, SteadyStep
<1>7. CASE Silent(Host)
  <2>1. /\ local'[Host] = local[Host] + 1 /\ local'[Pendant] = local[Pendant]
        /\ remote'[Host] = NoSession /\ ~est'[Host] /\ est'[Pendant] = est[Pendant]
    BY <1>1, <1>7 DEF HostUpkeep, ForgetSession, TypeOK
  <2>2. OriginInv'
    <3>1. Known /\ TypeOK' /\ PairInv' /\ FreshInv'
      BY DEF Context, Known
    <3>2. local[Pendant] <= local'[Pendant]
      BY <1>1, <2>1, AccountTypes
    <3>3. QED
      BY <1>1, <1>4, <2>1, <3>1, <3>2, OriginStep
  <2>3. TokenInv' /\ Offers' \subseteq Offers
    BY <1>1, <1>3, <1>4, <1>5, <2>1, TokenCalm, TokensFrom
  <2>4. /\ remote[Host] # NoSession /\ remote[Host] \in Nat /\ local[Pendant] \in Nat
        /\ remote[Host] <= local[Pendant]
    BY <1>1, NothingNewer DEF OriginInv
  <2>5. \A s \in Proposed' : remote[Host] < s
    <3>1. \A s \in Proposed' : \E g \in In(chan[Host]) : g.type = "INIT" /\ s = g.src
      BY <1>3, <2>1 DEF Proposed
    <3>2. \A g \in In(chan[Host]) : g.type = "INIT" => g.src \in Nat /\ remote[Host] < g.src
      BY <1>1, <2>4, FreshTypes DEF OriginInv
    <3>3. QED
      BY <3>1, <3>2
  <2>6. ~est[Pendant] => remote[Host] < local[Pendant]
    <3>1. ~est[Pendant] => remote[Host] # local[Pendant]
      BY <1>1 DEF Known, PairInv, HostHonest
    <3>2. QED
      BY <2>4, <3>1
  <2>7. Slack \/ Greeting
    BY <1>1, <1>7, LinkingSpeaks DEF Context, LossInv, Covered
  <2>8. Slack \/ remote[Host] < local[Pendant]
    BY <2>6, <2>7 DEF Greeting
  <2>9. Paid' /\ (Slack => Slack')
    BY <1>1, <2>1, <2>4, <2>5, <2>6, <2>8, TurnedAccount DEF MayGreet
  <2>10. Greeting => Greeting'
    <3>1. Greeting => Offers' = {}
      BY <1>1, <2>3, GreetingUnheard
    <3>2. remote'[Host] # local[Pendant]
      BY <1>1, <2>1 DEF TypeOK, NoSession
    <3>3. QED
      BY <1>1, <1>4, <2>1, <3>1, <3>2, GreetingStays DEF Greeting
  <2>11. QED
    BY <2>2, <2>3, <2>7, <2>9, <2>10 DEF Covered, Kept
<1>8. QED
  BY <1>6, <1>7

\* A poll.
LEMMA PollKept ==
    ASSUME Context, NEW e \in EP, PollTail(e)
    PROVE  Kept
<1>1. Known /\ TypeOK
  BY DEF Context, Known
<1>2. CASE e = Pendant
  BY <1>1, <1>2, PendantPolls, GaveUpKept, UpkeepKept, ProposingKept
<1>3. CASE e = Host
  BY <1>1, <1>3, HostPolls, HostUpkeepKept, StillKept
<1>4. QED
  BY <1>2, <1>3

-----------------------------------------------------------------------------
(* Time, and reboots.                                                      *)

\* An age that grows by a tick, below a limit.
LEMMA OlderIs ==
    ASSUME NEW n \in Nat, NEW l \in Nat
    PROVE  Older(n, l) \in Nat /\ Older(n, l) <= n + 1 /\ (n < l => Older(n, l) = n + 1)
BY DEF Older

\* A tick finds both endpoints with nothing to read and nothing due.
LEMMA TickKept ==
    ASSUME Context, NEW S \in Clocks, Tick(S)
    PROVE  Kept
<1>1. TypeOK /\ Prompt
  BY DEF Context, Known
<1>2. Settled(Pendant) /\ Settled(Host) /\ S = EP
  BY <1>1 DEF Tick, Clocks
<1>3. /\ chan' = chan /\ local' = local /\ remote' = remote /\ est' = est
      /\ chan[Pendant] = <<>> /\ chan[Host] = <<>>
  BY <1>2 DEF Tick, Settled, sessionVars
<1>4. In(chan[Pendant]) = {} /\ In(chan[Host]) = {}
  BY <1>1, <1>3, EmptyIn DEF TypeOK
<1>5. Onto(chan'[Host], chan[Host], {}) /\ Onto(chan'[Pendant], chan[Pendant], {})
  BY <1>1, <1>3, FewerOnto DEF TypeOK
<1>6. Greets' = {} /\ Offers' = {} /\ Offers = {}
  BY <1>3, <1>4 DEF Greets, Offers
<1>7. Greeting' = Greeting
  BY <1>3 DEF Greeting, Greets, Offers
<1>8. ASSUME Linking PROVE Linking'
  <2>1. LinkPair' /\ ToHost' /\ ToPendant' /\ Confirming' /\ Exchange'
    BY <1>3, <1>4, <1>8 DEF Linking, LinkPair, ToHost, ToPendant, Confirming, Exchange
  <2>2. est[Host] /\ est[Pendant]
    BY <1>3, <1>8 DEF Linking, Confirming, LinkPair
  <2>3. \A e \in EP : /\ rxAge'[e] = Older(rxAge[e], LinkLost)
                      /\ txAge'[e] = Older(txAge[e], Heartbeat)
                      /\ txAge[e] < Heartbeat
    <3>1. \A e \in EP : rxAge'[e] = Older(rxAge[e], LinkLost) /\ txAge'[e] = Older(txAge[e], Heartbeat)
      BY <1>2 DEF Tick
    <3>2. \A e \in EP : txAge[e] < Heartbeat
      BY <1>1, <1>2, <2>2, AgeTypes, ConstantTypes DEF Settled, BeatDue
    <3>3. QED
      BY <3>1, <3>2
  <2>4. \A e \in EP : /\ rxAge[e] \in Nat /\ txAge[e] \in Nat
                      /\ rxAge'[e] \in Nat /\ rxAge'[e] <= rxAge[e] + 1
                      /\ txAge'[e] = txAge[e] + 1
    <3> TAKE e \in EP
    <3>1. rxAge[e] \in Nat /\ txAge[e] \in Nat /\ LinkLost \in Nat /\ Heartbeat \in Nat
      BY <1>1, AgeTypes, ConstantTypes
    <3>2. /\ Older(rxAge[e], LinkLost) \in Nat /\ Older(rxAge[e], LinkLost) <= rxAge[e] + 1
          /\ txAge[e] < Heartbeat => Older(txAge[e], Heartbeat) = txAge[e] + 1
      BY <3>1, OlderIs
    <3>3. QED
      BY <2>3, <3>1, <3>2
  <2>5. rxAge[Pendant] <= txAge[Host] /\ rxAge[Host] <= txAge[Pendant]
    BY <1>3, <1>8 DEF Linking, Punctual
  <2>6. /\ rxAge'[Pendant] <= Heartbeat /\ rxAge'[Host] <= Heartbeat
        /\ rxAge'[Pendant] <= txAge'[Host] /\ rxAge'[Host] <= txAge'[Pendant]
    BY <2>3, <2>4, <2>5, ConstantTypes
  <2>7. Punctual'
    BY <1>3, <1>4, <2>6 DEF Punctual
  <2>8. QED
    BY <2>1, <2>7 DEF Linking
<1>9. est'[Pendant] = est[Pendant] /\ est'[Host] = est[Host] /\ remote'[Host] = remote[Host]
  BY <1>3
<1>10. QED
  BY <1>3, <1>5, <1>6, <1>7, <1>8, <1>9, SteadyStep

\* The pendant reboots.
LEMMA PendantRebootKept ==
    ASSUME Context, Reboot(Pendant)
    PROVE  Kept
<1>1. ForgetSession(Pendant) /\ chan' = chan /\ Causes + 1 <= Causes'
  BY DEF Reboot, Fault, Context
<1>2. Onto(chan'[Host], chan[Host], {}) /\ Onto(chan'[Pendant], chan[Pendant], {})
  BY <1>1, FewerOnto DEF Context, Known, TypeOK
<1>3. QED
  BY <1>1, <1>2, RenewedKept

\* The host reboots.
LEMMA HostRebootKept ==
    ASSUME Context, Reboot(Host)
    PROVE  Kept
<1>1. TypeOK /\ TypeOK' /\ OriginInv /\ TokenInv /\ Account
  BY DEF Context, Known, LossInv
<1>2. /\ ForgetSession(Host) /\ chan' = chan /\ Causes + 1 <= Causes'
      /\ txAge' = [txAge EXCEPT ![Host] = Heartbeat]
  BY DEF Reboot, Fault, Context
<1>3. /\ local'[Host] = local[Host] + 1 /\ local'[Pendant] = local[Pendant]
      /\ remote'[Host] = NoSession /\ ~est'[Host] /\ est'[Pendant] = est[Pendant]
      /\ txAge'[Pendant] = txAge[Pendant]
  BY <1>1, <1>2 DEF ForgetSession, TypeOK
<1>4. Onto(chan'[Host], chan[Host], {}) /\ Onto(chan'[Pendant], chan[Pendant], {})
  BY <1>1, <1>2, FewerOnto DEF TypeOK
<1>5. OriginInv'
  <2>1. Known /\ TypeOK' /\ PairInv' /\ FreshInv'
    BY DEF Context, Known
  <2>2. local[Pendant] <= local'[Pendant]
    BY <1>1, <1>3, AccountTypes
  <2>3. QED
    BY <1>1, <1>3, <1>4, <2>1, <2>2, OriginStep
<1>6. TokenInv'
  BY <1>1, <1>3, <1>4, TokenCalm
<1>7. Offers' = Offers /\ Proposed' \subseteq Proposed /\ (MayGreet' <=> MayGreet)
  <2>1. Offers' = Offers
    BY <1>2, <1>3 DEF Offers
  <2>2. QED
    BY <1>3, <1>4, <2>1, ProposedFrom DEF MayGreet
<1>8. Paid' /\ (Slack \/ (Proposed' = {} /\ ~MayGreet') => Slack')
  BY <1>1, <1>2, <1>3, <1>7, RebootAccount
<1>9. remote'[Host] # local[Pendant]
  BY <1>1, <1>3, AccountTypes DEF NoSession
<1>10. CASE Greeting /\ Offers = {}
  <2>1. Greeting'
    BY <1>1, <1>3, <1>4, <1>7, <1>9, <1>10, GreetingStays DEF Greeting
  <2>2. QED
    BY <1>5, <1>6, <1>8, <2>1 DEF Covered, Kept
<1>11. CASE Greeting /\ Offers # {}
  <2>1. chan'[Host] = <<>> /\ ~MayGreet'
    BY <1>2, <1>7, <1>11 DEF Greeting, MayGreet
  <2>2. In(chan'[Host]) = {}
    BY <1>1, <2>1, EmptyIn DEF TypeOK
  <2>3. Proposed' = {}
    BY <1>3, <2>2 DEF Proposed
  <2>4. QED
    BY <1>5, <1>6, <1>8, <2>1, <2>3 DEF Covered, Kept
<1>12. CASE Linking
  <2>1. ~MayGreet'
    BY <1>3, <1>12 DEF Linking, LinkPair, MayGreet
  <2>2. \A f \in In(chan'[Host]) : f.type # "INIT"
    BY <1>2, <1>12 DEF Linking, ToHost, Line
  <2>3. Proposed' = {}
    BY <1>3, <2>2 DEF Proposed
  <2>4. QED
    BY <1>5, <1>6, <1>8, <2>1, <2>3 DEF Covered, Kept
<1>13. QED
  BY <1>5, <1>6, <1>8, <1>10, <1>11, <1>12 DEF Context, LossInv, Covered, Kept

-----------------------------------------------------------------------------
(* Every step.                                                             *)

LEMMA StepKept ==
    ASSUME Context, [Next]_vars
    PROVE  Kept
<1>1. ASSUME NEW e \in EP, Receive(e) PROVE Kept
  BY <1>1, StrayKept, HeartbeatKept, ChallengeKept, AckKept, NakKept, ProposalKept, ConfirmKept,
     DataKept DEF Receive
<1>2. CASE ExpireLease \/ AbortMotion \/ UNCHANGED vars
  <2>1. UNCHANGED <<chan, sessionVars, rxAge, txAge, out>>
    BY <1>2 DEF ExpireLease, AbortMotion, vars, senderVars, sessionVars
  <2>2. QED
    BY <2>1, StillKept
<1>3. ASSUME NEW e \in EP, Reboot(e) PROVE Kept
  BY <1>3, PendantRebootKept, HostRebootKept
<1>4. QED
  BY <1>1, <1>2, <1>3, PollKept, SendsKept, TickKept, LostKept, DamagedKept DEF Next

\* The invariant is inductive where the code's time-outs and channels are.
LEMMA LossStep ==
    ASSUME Prompt, Heartbeat < LinkLost, MaxChan # 0, Known, Known', LossInv, [Next]_vars
    PROVE  LossInv'
<1>1. PairAgreement
  BY DEF Known, PairInv, HostHonest, PairAgreement, Linked
<1>2. /\ CountInv'
      /\ Causes \in Nat /\ Causes' \in Nat /\ Causes <= Causes'
      /\ faults' = faults + 1 => Causes + 1 <= Causes'
      /\ out # NoPkt /\ local'[Pendant] # local[Pendant] => Causes + 1 <= Causes'
  BY <1>1, CausesGrow DEF Known, LossInv
<1>3. Account
  BY <1>2 DEF Account, Known, LossInv
<1>4. Context
  BY <1>2, <1>3 DEF Context
<1>5. Kept
  BY <1>4, StepKept
<1>6. QED
  BY <1>2, <1>5 DEF Kept, LossInv

\* At the start the pendant has a generation to propose, and the cause for it.
LEMMA LossInit == Init => LossInv
<1> SUFFICES ASSUME Init PROVE LossInv
  OBVIOUS
<1>1. /\ chan[Host] = <<>> /\ chan[Pendant] = <<>> /\ local[Pendant] = 1 /\ local[Host] = 1
      /\ remote[Host] = NoSession /\ ~est[Pendant] /\ ~est[Host]
      /\ out = NoPkt /\ faults = 0 /\ sent = 0 /\ delivered = {}
  BY DEF Init
<1>2. In(chan[Host]) = {} /\ In(chan[Pendant]) = {}
  BY <1>1, InitType, EmptyIn DEF TypeOK
<1>3. Greets = {} /\ Offers = {} /\ Proposed = {}
  BY <1>1, <1>2 DEF Greets, Offers, Proposed
<1>4. Causes \in Nat /\ 1 <= Causes
  <2>1. Abandoned = (1..0) \ delivered
    BY <1>1 DEF Abandoned
  <2>2. Cardinality(Abandoned) \in Nat
    BY <2>1, AbandonedFinite
  <2>3. QED
    BY <1>1, <2>2 DEF Causes
<1>5. CountInv /\ OriginInv /\ TokenInv
  BY <1>1, <1>2, <1>3 DEF CountInv, OriginInv, TokenInv
<1>6. Paid
  BY <1>1, <1>3, <1>4 DEF Paid
<1>7. Greeting
  BY <1>1, <1>3 DEF Greeting, NoSession
<1>8. QED
  BY <1>5, <1>6, <1>7 DEF LossInv, Covered

\* When both endpoints poll promptly, each draws at most one nonce more than there
\* are faults and packets given up: no session ends for silence or for exhausted
\* retries without a cause of its own (_update_link, _retry).  A heartbeat has to
\* be due before silence is a loss, and the wire to carry a frame.
THEOREM LossesHaveCauses ==
    ASSUME Heartbeat < LinkLost, MaxChan # 0
    PROVE  Spec => []LossHasCause
<1>1. Init => (Prompt => LossInv)
  BY LossInit
<1>2. Known /\ Known' /\ (Prompt => LossInv) /\ [Next]_vars => (Prompt => LossInv)'
  BY LossStep
<1>3. TypeOK /\ PairInv /\ FreshInv /\ DeliveryInv => Known
  BY DEF Known
<1>4. (Prompt => LossInv) => LossHasCause
  BY DEF LossInv, Paid, Causes, LossHasCause
<1>5. QED
  BY <1>1, <1>2, <1>3, <1>4, TypeCorrect, Pairs, Fresh, Delivery, PTL DEF Spec

=============================================================================
