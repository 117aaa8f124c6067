-------------------------- MODULE ReliableLinkProofs --------------------------
(***************************************************************************)
(* What TLAPS proves of ReliableLink for every size of the sequence space, *)
(* every time-out, every bound and any number of steps.                    *)
(***************************************************************************)
EXTENDS ReliableLink, SequenceTheorems, TLAPS

USE DEF EP, Pendant, Host

\* Each endpoint has one peer, the other one.
LEMMA PeerType == \A e \in EP : Peer(e) \in EP /\ Peer(e) # e
BY DEF Peer

\* A frame sent, or lost at a full link, leaves a channel of frames.
LEMMA PushType ==
    ASSUME NEW q \in Seq(Frames), NEW f \in Frames
    PROVE  Push(q, f) \in Seq(Frames)
BY DEF Push

\* So does reading the first frame.
LEMMA TailType ==
    ASSUME NEW q \in Seq(Frames), q # <<>>
    PROVE  Tail(q) \in Seq(Frames) /\ Head(q) \in Frames
OBVIOUS

\* And so does dropping a damaged one.
LEMMA WithoutType ==
    ASSUME NEW q \in Seq(Frames), NEW i \in DOMAIN q
    PROVE  Without(q, i) \in Seq(Frames)
<1>1. Len(q) \in Nat \ {0} /\ DOMAIN q = 1..Len(q)
  OBVIOUS
<1>2. \A j \in 1..(Len(q) - 1) : (IF j < i THEN q[j] ELSE q[j + 1]) \in Frames
  BY <1>1, ElementOfSeq
<1>3. QED
  BY <1>1, <1>2, IsASeq DEF Without

\* Sequence numbers stay in their 16 bits.
LEMMA NextSeqType == \A n \in SeqNum : NextSeq(n) \in SeqNum
BY LinkConstants DEF NextSeq, SeqNum

\* A frame that _packet stamps is a frame.
LEMMA FrameType ==
    ASSUME NEW t \in Numbered \cup {"INIT", "CHALLENGE", "CONFIRM", "HEARTBEAT"},
           NEW s \in Nat, NEW o \in Nat, NEW n \in SeqNum \cup {NoSeq},
           t \in Numbered => n \in SeqNum
    PROVE  Frame(t, s, o, n) \in Frames
BY DEF Frame, Frames, Fields

\* What a frame's fields range over.
LEMMA FrameFields ==
    ASSUME NEW f \in Frames
    PROVE  /\ f.src \in Nat /\ f.peer \in Nat /\ f.id \in Nat
           /\ f.seq \in SeqNum \cup {NoSeq}
           /\ f.intent \in SeqNum \cup {NoSeq}
           /\ f.type \in Numbered => f.seq \in SeqNum
BY DEF Frames, Fields

Channels == [EP -> Seq(Frames)]

\* Handshake and heartbeat frames carry no sequence number.
LEMMA NoSeqTypes == {"INIT", "CHALLENGE", "CONFIRM", "HEARTBEAT"} \cap Numbered = {}
BY DEF Numbered

\* Taking the next frame off a channel, without and with an answer.
LEMMA TakeType ==
    ASSUME chan \in Channels, NEW e \in EP, chan[e] # <<>>, Take(e)
    PROVE  chan' \in Channels /\ Head(chan[e]) \in Frames
BY TailType DEF Channels, Take

\* Reading a frame and answering it leaves channels of frames.
LEMMA AnswerType ==
    ASSUME chan \in Channels, NEW e \in EP, chan[e] # <<>>,
           NEW f \in Frames, TakeAndAnswer(e, f)
    PROVE  chan' \in Channels /\ Head(chan[e]) \in Frames
<1>1. Peer(e) \in EP /\ Peer(e) # e
  BY PeerType
<1>2. Tail(chan[e]) \in Seq(Frames) /\ Head(chan[e]) \in Frames
  BY TailType DEF Channels
<1>3. Push(chan[Peer(e)], f) \in Seq(Frames)
  BY <1>1, PushType DEF Channels
<1>4. QED
  BY <1>1, <1>2, <1>3 DEF Channels, TakeAndAnswer

\* The link's assumptions, one constant at a time.
LEMMA ConstantTypes ==
    /\ AckTimeout \in Nat \ {0} /\ Heartbeat \in Nat \ {0}
    /\ LinkLost \in Nat \ {0} /\ Lease \in Nat \ {0}
    /\ MaxRetries \in Nat /\ MaxFaults \in Nat /\ MaxSends \in Nat
BY LinkConstants

\* The initial values lie in the ranges of their variables.
LEMMA SmallTypes ==
    /\ NoSeq \in SeqNum \cup {NoSeq}
    /\ 0 \in SeqNum
    /\ NoSession \in Nat
    /\ 0 \in 0..LinkLost /\ 0 \in 0..Heartbeat /\ 0 \in 0..Lease
    /\ 0 \in 0..AckTimeout /\ 0 \in 0..MaxRetries
BY LinkConstants DEF SeqNum, NoSession

\* Fresh sessions have their types.
LEMMA InitType == Init => TypeOK
<1> SUFFICES ASSUME Init PROVE TypeOK
  OBVIOUS
<1>1. chan \in [EP -> Seq(Frames)]
  BY DEF Init
<1>2. /\ local \in [EP -> Nat \ {0}] /\ remote \in [EP -> Nat]
      /\ est \in [EP -> BOOLEAN] /\ reading \in [EP -> BOOLEAN]
  BY SmallTypes DEF Init
<1>3. rxAge \in [EP -> 0..LinkLost] /\ txAge \in [EP -> 0..Heartbeat]
  BY LinkConstants DEF Init
<1>4. link \in [EP -> LinkStates]
  BY DEF Init, LinkStates
<1>5. lease \in 0..Lease /\ faults \in 0..MaxFaults /\ quiet \in 0..(Lease + 1)
  BY LinkConstants DEF Init
<1>6. /\ nextSeq \in SeqNum /\ out \in Outstanding \cup {NoPkt}
      /\ pIntent \in SeqNum \cup {NoSeq} /\ lastAcc \in SeqNum \cup {NoSeq}
      /\ motion \in BOOLEAN /\ hIntent \in SeqNum \cup {NoSeq}
  BY SmallTypes DEF Init
<1>7. log \in Seq(Nat) /\ sent \in Nat /\ granted \in Nat /\ delivered \subseteq Nat /\ peers \subseteq Nat
  BY DEF Init
<1>8. QED
  BY <1>1, <1>2, <1>3, <1>4, <1>5, <1>6, <1>7 DEF TypeOK

\* Type correctness of a lease that runs out.
LEMMA ExpireType == TypeOK /\ ExpireLease => TypeOK'
BY SmallTypes DEF TypeOK, ExpireLease, StopMotion, InPoll, sessionVars, senderVars, historyVars

\* Type correctness of motion given up by the host.
LEMMA AbortType == TypeOK /\ AbortMotion => TypeOK'
BY SmallTypes DEF TypeOK, AbortMotion, StopMotion, sessionVars, senderVars, historyVars

\* What ForgetSession leaves of the sessions, the sender and the receiver.
LEMMA ForgetType ==
    ASSUME TypeOK, NEW e \in EP, ForgetSession(e)
    PROVE  /\ local' \in [EP -> Nat \ {0}]
           /\ remote' \in [EP -> Nat]
           /\ est' \in [EP -> BOOLEAN]
           /\ out' \in Outstanding \cup {NoPkt}
           /\ pIntent' \in SeqNum \cup {NoSeq}
           /\ lastAcc' \in SeqNum \cup {NoSeq}
           /\ motion' \in BOOLEAN
           /\ hIntent' \in SeqNum \cup {NoSeq}
           /\ lease' \in 0..Lease
<1>1. /\ local' \in [EP -> Nat \ {0}] /\ remote' \in [EP -> Nat]
      /\ est' \in [EP -> BOOLEAN]
  BY SmallTypes DEF TypeOK, ForgetSession
<1>2. CASE e = Pendant
  BY <1>1, <1>2, SmallTypes DEF TypeOK, ForgetSession, motionVars
<1>3. CASE e # Pendant
  BY <1>1, <1>3, SmallTypes DEF TypeOK, ForgetSession, StopMotion
<1>4. QED
  BY <1>2, <1>3

\* A new packet and the outstanding entry made of it.
LEMMA OriginateType ==
    ASSUME TypeOK, NEW k \in Kinds, NEW n \in SeqNum \cup {NoSeq}, Originate(k, n)
    PROVE  /\ chan' \in Channels
           /\ out' \in Outstanding
           /\ nextSeq' \in SeqNum
           /\ sent' \in Nat
           /\ txAge' \in [EP -> 0..Heartbeat]
<1> DEFINE f == [type |-> "DATA", src |-> local[Pendant], peer |-> remote[Pendant],
                 seq |-> nextSeq, kind |-> k, intent |-> n, id |-> sent + 1]
<1>1. f \in Frames
  <2>1. f \in Fields
    BY DEF TypeOK, Fields, Numbered
  <2>2. f.seq \in SeqNum
    BY DEF TypeOK
  <2>3. QED
    BY <2>1, <2>2 DEF Frames
<1>2. chan' = [chan EXCEPT ![Host] = Push(@, f)] /\ out' = [pkt |-> f, age |-> 0, tries |-> 0]
  BY DEF Originate
<1>3. Push(chan[Host], f) \in Seq(Frames)
  BY <1>1, PushType DEF TypeOK
<1>4. chan' \in Channels
  BY <1>2, <1>3 DEF TypeOK, Channels
<1>5. out' \in Outstanding
  BY <1>1, <1>2, SmallTypes DEF Outstanding
<1>6. nextSeq' \in SeqNum /\ sent' \in Nat
  BY NextSeqType DEF Originate, TypeOK
<1>7. txAge' \in [EP -> 0..Heartbeat]
  BY SmallTypes DEF Originate, Written, TypeOK
<1>8. QED
  BY <1>4, <1>5, <1>6, <1>7

\* Type correctness of the pendant's sends.
LEMMA SendsType == TypeOK /\ Sends => TypeOK'
<1> SUFFICES ASSUME TypeOK, Sends PROVE TypeOK'
  OBVIOUS
<1> USE DEF Originate, sessionVars, motionVars
<1>1. CASE SendCommand
  <2>1. Originate("COMMAND", NoSeq)
    BY <1>1 DEF SendCommand
  <2>2. QED
    BY <1>1, <2>1, OriginateType, SmallTypes DEF TypeOK, SendCommand, Kinds, Channels
<1>2. CASE SendStart
  <2>1. Originate("START", NoSeq)
    BY <1>2 DEF SendStart
  <2>2. quiet' \in 0..(Lease + 1)
    BY <1>2, LinkConstants DEF SendStart
  <2>3. QED
    BY <1>2, <2>1, <2>2, OriginateType, SmallTypes DEF TypeOK, SendStart, Kinds, Channels
<1>3. CASE SendRenew
  <2>1. Originate("RENEW", pIntent)
    BY <1>3 DEF SendRenew
  <2>2. quiet' \in 0..(Lease + 1)
    BY <1>3, LinkConstants DEF SendRenew
  <2>3. QED
    BY <1>3, <2>1, <2>2, OriginateType DEF TypeOK, SendRenew, Kinds, Channels
<1>4. CASE SendStop
  <2>1. Originate("STOP", pIntent)
    BY <1>4 DEF SendStop
  <2>2. quiet' \in 0..(Lease + 1)
    BY <1>4, LinkConstants DEF SendStop
  <2>3. QED
    BY <1>4, <2>1, <2>2, OriginateType, SmallTypes DEF TypeOK, SendStop, Kinds, Channels
<1>5. QED
  BY <1>1, <1>2, <1>3, <1>4 DEF Sends

\* Reading a frame without answering it.
LEMMA TakenType ==
    ASSUME TypeOK, NEW e \in EP, NEW types, Arrives(e, types), Take(e)
    PROVE  chan' \in Channels /\ Head(chan[e]) \in Frames
BY TakeType DEF TypeOK, Channels, Arrives

\* Reading a frame and answering it.
LEMMA AnsweredType ==
    ASSUME TypeOK, NEW e \in EP, NEW types, Arrives(e, types),
           NEW f \in Frames, TakeAndAnswer(e, f)
    PROVE  chan' \in Channels
BY AnswerType DEF TypeOK, Channels, Arrives

\* Type correctness of a frame taken from the link.
LEMMA ArrivedType ==
    ASSUME TypeOK, NEW e \in EP, NEW types, Arrives(e, types)
    PROVE  /\ Head(chan[e]) \in Frames
           /\ Head(chan[e]).src \in Nat /\ Head(chan[e]).peer \in Nat
           /\ Head(chan[e]).seq \in SeqNum \cup {NoSeq}
<1>1. Head(chan[e]) \in Frames
  BY TailType DEF TypeOK, Arrives
<1>2. QED
  BY <1>1, FrameFields

\* Marking e as written to, heard from and inside poll().
LEMMA MarkType ==
    ASSUME TypeOK, NEW e \in EP
    PROVE  /\ Written(e) => txAge' \in [EP -> 0..Heartbeat]
           /\ Heard(e) => rxAge' \in [EP -> 0..LinkLost]
           /\ InPoll(e) => reading' \in [EP -> BOOLEAN]
BY SmallTypes DEF TypeOK, Written, Heard, InPoll

\* Type correctness of _handle_handshake.
LEMMA HandshakeType ==
    TypeOK /\ (RefuseInit \/ RepeatChallenge \/ AcceptInit \/ RecvChallenge \/ RecvConfirm)
      => TypeOK'
<1> SUFFICES ASSUME TypeOK,
                    RefuseInit \/ RepeatChallenge \/ AcceptInit \/ RecvChallenge \/ RecvConfirm
             PROVE  TypeOK'
  OBVIOUS
<1> USE DEF sessionVars, senderVars, motionVars, historyVars
<1>1. CASE RefuseInit
  <2>1. chan' \in Channels
    BY <1>1, TakenType DEF RefuseInit
  <2>2. QED
    BY <1>1, <2>1, MarkType DEF TypeOK, Channels, RefuseInit
<1>2. CASE RepeatChallenge
  <2> DEFINE f == Frame("CHALLENGE", local[Host], remote[Host], NoSeq)
  <2>1. f \in Frames
    BY FrameType, SmallTypes, NoSeqTypes DEF TypeOK
  <2>2. chan' \in Channels
    BY <1>2, <2>1, AnsweredType DEF RepeatChallenge
  <2>3. QED
    BY <1>2, <2>2, MarkType DEF TypeOK, Channels, RepeatChallenge
<1>3. CASE AcceptInit
  <2> DEFINE src == Head(chan[Host]).src
             f == Frame("CHALLENGE", ChallengeNonce, src, NoSeq)
  <2>1. src \in Nat
    BY <1>3, ArrivedType DEF AcceptInit
  <2>2. ChallengeNonce \in Nat \ {0}
    BY DEF ChallengeNonce, TypeOK
  <2>3. f \in Frames
    BY <2>1, <2>2, FrameType, SmallTypes, NoSeqTypes
  <2>4. chan' \in Channels
    BY <1>3, <2>3, AnsweredType DEF AcceptInit
  <2>5. local' \in [EP -> Nat \ {0}] /\ remote' \in [EP -> Nat]
    BY <1>3, <2>1, <2>2 DEF AcceptInit, TypeOK
  <2>6. QED
    BY <1>3, <2>4, <2>5, MarkType, SmallTypes DEF TypeOK, Channels, AcceptInit, StopMotion
<1>4. CASE RecvChallenge
  <2> DEFINE src == Head(chan[Pendant]).src
             f == Frame("CONFIRM", local[Pendant], src, NoSeq)
  <2>1. src \in Nat /\ f \in Frames
    BY <1>4, ArrivedType, FrameType, SmallTypes, NoSeqTypes DEF RecvChallenge, TypeOK
  <2>2. /\ chan' \in Channels
        /\ remote' \in [EP -> Nat] /\ est' \in [EP -> BOOLEAN]
        /\ txAge' \in [EP -> 0..Heartbeat] /\ rxAge' \in [EP -> 0..LinkLost]
        /\ peers' \subseteq Nat
    <3>1. CASE GoodChallenge(Head(chan[Pendant]))
      <4>1. chan' \in Channels
        BY <1>4, <2>1, <3>1, AnsweredType DEF RecvChallenge
      <4>2. remote' \in [EP -> Nat] /\ peers' \subseteq Nat
        BY <1>4, <2>1, <3>1 DEF RecvChallenge, TypeOK
      <4>3. est' \in [EP -> BOOLEAN] /\ rxAge' \in [EP -> 0..LinkLost]
        BY <1>4, <3>1, MarkType DEF RecvChallenge, Establish, TypeOK
      <4>4. QED
        BY <1>4, <3>1, <4>1, <4>2, <4>3, MarkType DEF RecvChallenge
    <3>2. CASE ~GoodChallenge(Head(chan[Pendant]))
      BY <1>4, <3>2, TakenType DEF RecvChallenge, TypeOK
    <3>3. QED
      BY <3>1, <3>2
  <2>3. QED
    BY <1>4, <2>2, MarkType DEF TypeOK, Channels, RecvChallenge
<1>5. CASE RecvConfirm
  <2>1. chan' \in Channels
    BY <1>5, TakenType DEF RecvConfirm
  <2>2. est' \in [EP -> BOOLEAN] /\ rxAge' \in [EP -> 0..LinkLost] /\ lastAcc' \in SeqNum \cup {NoSeq}
    BY <1>5, MarkType, SmallTypes DEF RecvConfirm, Establish, TypeOK
  <2>3. QED
    BY <1>5, <2>1, <2>2, MarkType DEF TypeOK, Channels, RecvConfirm
<1>6. QED
  BY <1>1, <1>2, <1>3, <1>4, <1>5

\* Type correctness of a frame from another session.
LEMMA RejectOldType == \A e \in EP : TypeOK /\ RejectOldSession(e) => TypeOK'
<1> SUFFICES ASSUME TypeOK, NEW e \in EP, RejectOldSession(e) PROVE TypeOK'
  OBVIOUS
<1>1. chan' \in Channels
  BY TakenType DEF RejectOldSession
<1>2. QED
  BY <1>1, MarkType DEF TypeOK, Channels, RejectOldSession, sessionVars, senderVars,
                        motionVars, historyVars

\* Type correctness of a heartbeat's arrival.
LEMMA HeartbeatType == \A e \in EP : TypeOK /\ RecvHeartbeat(e) => TypeOK'
<1> SUFFICES ASSUME TypeOK, NEW e \in EP, RecvHeartbeat(e) PROVE TypeOK'
  OBVIOUS
<1>1. chan' \in Channels
  BY TakenType DEF RecvHeartbeat
<1>2. QED
  BY <1>1, MarkType DEF TypeOK, Channels, RecvHeartbeat, sessionVars, senderVars,
                        motionVars, historyVars

\* Type correctness of an ACK's arrival.
LEMMA AckType == TypeOK /\ RecvAck => TypeOK'
<1> SUFFICES ASSUME TypeOK, RecvAck PROVE TypeOK'
  OBVIOUS
<1>1. chan' \in Channels
  BY TakenType DEF RecvAck
<1>2. out' \in Outstanding \cup {NoPkt} /\ delivered' \subseteq Nat
  <2>1. CASE Answers(Head(chan[Pendant]))
    <3>1. out.pkt.id \in Nat
      BY <2>1, FrameFields DEF Answers, TypeOK, Outstanding
    <3>2. QED
      BY <2>1, <3>1 DEF RecvAck, TypeOK
  <2>2. CASE ~Answers(Head(chan[Pendant]))
    BY <2>2 DEF RecvAck, TypeOK
  <2>3. QED
    BY <2>1, <2>2
<1>3. QED
  BY <1>1, <1>2, MarkType DEF TypeOK, Channels, RecvAck, sessionVars, motionVars

\* A retransmission keeps the packet and counts the try.
LEMMA RetryType ==
    ASSUME TypeOK, out # NoPkt, out.tries < MaxRetries
    PROVE  [out EXCEPT !.age = 0, !.tries = @ + 1] \in Outstanding
<1>1. out \in Outstanding
  BY DEF TypeOK
<1>2. out.tries + 1 \in 0..MaxRetries
  BY <1>1, LinkConstants DEF Outstanding
<1>3. QED
  BY <1>1, <1>2, SmallTypes DEF Outstanding

\* Type correctness of a NAK's arrival.
LEMMA NakType == TypeOK /\ RecvNak => TypeOK'
<1> SUFFICES ASSUME TypeOK, RecvNak PROVE TypeOK'
  OBVIOUS
<1> DEFINE f == Head(chan[Pendant])
<1> USE DEF sessionVars, senderVars, motionVars, historyVars
<1>1. CASE ~Answers(f)
  <2>1. chan' \in Channels
    BY <1>1, TakenType DEF RecvNak
  <2>2. QED
    BY <1>1, <2>1, MarkType DEF TypeOK, Channels, RecvNak
<1>2. CASE Answers(f) /\ out.tries >= MaxRetries
  <2>1. chan' \in Channels /\ ForgetSession(Pendant) /\ nextSeq' = nextSeq
    BY <1>2, TakenType DEF RecvNak, LoseSession
  <2>2. QED
    BY <2>1, ForgetType, MarkType DEF TypeOK, Channels, RecvNak
<1>3. CASE Answers(f) /\ ~(out.tries >= MaxRetries)
  <2>1. out # NoPkt /\ out \in Outstanding /\ out.pkt \in Frames
    BY <1>3 DEF Answers, TypeOK, Outstanding
  <2>2. out' \in Outstanding
    BY <1>3, <2>1, RetryType, LinkConstants DEF RecvNak, Outstanding
  <2>3. chan' \in Channels
    BY <1>3, <2>1, AnsweredType DEF RecvNak
  <2>4. QED
    BY <1>3, <2>2, <2>3, MarkType DEF TypeOK, Channels, RecvNak
<1>4. QED
  BY <1>1, <1>2, <1>3

\* What every answer to a DATA frame does.
LEMMA AnswerDataType ==
    ASSUME TypeOK, NEW t \in {"ACK", "NAK"}, NEW f \in DataArriving, AnswerData(t, f)
    PROVE  /\ chan' \in Channels
           /\ txAge' \in [EP -> 0..Heartbeat]
           /\ rxAge' \in [EP -> 0..LinkLost]
           /\ reading' \in [EP -> BOOLEAN]
           /\ f \in Frames /\ f.seq \in SeqNum /\ f.id \in Nat
<1> DEFINE r == Frame(t, local[Host], remote[Host], f.seq)
<1>1. chan[Host] # <<>> /\ f = Head(chan[Host]) /\ f \in Frames
  BY TailType DEF DataArriving, TypeOK
<1>2. f.seq \in SeqNum /\ f.id \in Nat
  BY <1>1, FrameFields DEF DataArriving, Numbered
<1>3. r \in Frames
  BY <1>2, FrameType DEF TypeOK, Numbered
<1>4. chan' \in Channels
  BY <1>1, <1>3, AnswerType DEF AnswerData, TypeOK, Channels
<1>5. QED
  BY <1>1, <1>2, <1>4, MarkType DEF AnswerData

\* Type correctness of a command packet's arrival.
LEMMA DataType ==
    TypeOK /\ (RecvDuplicate \/ RecvCommand \/ RecvStart \/ RecvRenew \/ RecvStop) => TypeOK'
<1> SUFFICES ASSUME TypeOK,
                    RecvDuplicate \/ RecvCommand \/ RecvStart \/ RecvRenew \/ RecvStop
             PROVE  TypeOK'
  OBVIOUS
<1>1. PICK f \in DataArriving :
        /\ AnswerData("ACK", f) \/ AnswerData("NAK", f)
        /\ lastAcc' \in {lastAcc, f.seq}
        /\ log' \in {log, Append(log, f.id)}
        /\ granted' \in {granted, f.id}
        /\ motion' \in {motion, TRUE, FALSE}
        /\ hIntent' \in {hIntent, f.seq, NoSeq}
        /\ lease' \in {lease, Lease, 0}
  BY DEF RecvDuplicate, RecvCommand, RecvStart, RecvRenew, RecvStop, Accept, Refuse,
         StopMotion, motionVars
<1>2. /\ chan' \in Channels
      /\ txAge' \in [EP -> 0..Heartbeat]
      /\ rxAge' \in [EP -> 0..LinkLost]
      /\ reading' \in [EP -> BOOLEAN]
      /\ f.seq \in SeqNum /\ f.id \in Nat
  BY <1>1, AnswerDataType
<1>3. log' \in Seq(Nat)
  <2>1. log \in Seq(Nat)
    BY DEF TypeOK
  <2>2. Append(log, f.id) \in Seq(Nat)
    BY <1>2, <2>1, AppendProperties
  <2>3. QED
    BY <1>1, <2>1, <2>2
<1>4. lease' \in 0..Lease
  <2>1. lease \in 0..Lease /\ Lease \in 0..Lease /\ 0 \in 0..Lease
    BY ConstantTypes, SmallTypes DEF TypeOK
  <2>2. QED
    BY <1>1, <2>1
<1>5. UNCHANGED <<sessionVars, link, senderVars, faults, sent, delivered, peers, quiet>>
  BY <1>1 DEF AnswerData
<1>6. QED
  BY <1>1, <1>2, <1>3, <1>4, <1>5 DEF TypeOK, Channels, sessionVars, senderVars

\* Type correctness of the rest of poll: retransmission and time-outs.
LEMMA TailPollType == \A e \in EP : TypeOK /\ PollTail(e) => TypeOK'
<1> SUFFICES ASSUME TypeOK, NEW e \in EP, PollTail(e) PROVE TypeOK'
  OBVIOUS
<1> DEFINE exhausted == AckDue(e) /\ out.tries >= MaxRetries
           resend == AckDue(e) /\ ~exhausted
           up == est[e] /\ ~exhausted
           nonce == IF exhausted THEN local[e] + 1 ELSE local[e]
           beat == BeatDue(e) /\ (up \/ e = Pendant)
           greeting == IF up THEN Frame("HEARTBEAT", local[e], remote[e], NoSeq)
                             ELSE Frame("INIT", nonce, NoSession, NoSeq)
           silent == up /\ Silent(e)
           queued == IF resend THEN Push(chan[Peer(e)], out.pkt) ELSE chan[Peer(e)]
<1>1. /\ chan' = [chan EXCEPT ![Peer(e)] = IF beat THEN Push(queued, greeting) ELSE queued]
      /\ IF beat THEN Written(e) ELSE UNCHANGED txAge
      /\ link' = [link EXCEPT ![e] = LinkAfter(e, up)]
      /\ IF exhausted \/ silent
         THEN LoseSession(e)
         ELSE /\ IF resend THEN out' = [out EXCEPT !.age = 0, !.tries = @ + 1]
                           ELSE UNCHANGED out
              /\ UNCHANGED <<sessionVars, nextSeq, pIntent, lastAcc, motionVars>>
      /\ reading' = [reading EXCEPT ![e] = FALSE]
      /\ UNCHANGED <<rxAge, faults, historyVars>>
  BY Zenon DEF PollTail
<1>2. local[e] \in Nat /\ remote[e] \in Nat /\ nonce \in Nat
  BY DEF TypeOK
<1>3. greeting \in Frames
  BY <1>2, FrameType, SmallTypes, NoSeqTypes
<1>4. resend => out # NoPkt /\ out \in Outstanding /\ out.pkt \in Frames /\ out.tries < MaxRetries
  <2> SUFFICES ASSUME resend PROVE out # NoPkt /\ out \in Outstanding /\ out.pkt \in Frames /\ out.tries < MaxRetries
    OBVIOUS
  <2>1. out # NoPkt /\ ~(out.tries >= MaxRetries)
    BY DEF AckDue
  <2>2. out \in Outstanding
    BY <2>1 DEF TypeOK
  <2>3. QED
    BY <2>1, <2>2, ConstantTypes DEF Outstanding
<1>5. Peer(e) \in EP /\ chan[Peer(e)] \in Seq(Frames)
  BY PeerType DEF TypeOK
<1>6. queued \in Seq(Frames)
  BY <1>4, <1>5, PushType
<1>7. chan' \in Channels
  <2> HIDE DEF queued, greeting, beat
  <2>1. (IF beat THEN Push(queued, greeting) ELSE queued) \in Seq(Frames)
    BY <1>3, <1>6, PushType
  <2>2. QED
    BY <1>1, <1>5, <2>1 DEF TypeOK, Channels
<1>8. txAge' \in [EP -> 0..Heartbeat] /\ reading' \in [EP -> BOOLEAN]
  <2> HIDE DEF beat
  <2>1. reading' \in [EP -> BOOLEAN]
    BY <1>1 DEF TypeOK
  <2>2. Written(e) \/ txAge' = txAge
    BY <1>1
  <2>3. QED
    BY <2>1, <2>2, MarkType DEF TypeOK
<1>9. link' \in [EP -> LinkStates]
  <2>1. LinkAfter(e, up) \in LinkStates
    BY DEF LinkAfter, LinkStates
  <2> HIDE DEF up
  <2>2. QED
    BY <1>1, <2>1 DEF TypeOK
<1>10. /\ local' \in [EP -> Nat \ {0}] /\ remote' \in [EP -> Nat] /\ est' \in [EP -> BOOLEAN]
       /\ nextSeq' \in SeqNum
       /\ out' \in Outstanding \cup {NoPkt}
       /\ pIntent' \in SeqNum \cup {NoSeq} /\ lastAcc' \in SeqNum \cup {NoSeq}
       /\ motion' \in BOOLEAN /\ hIntent' \in SeqNum \cup {NoSeq} /\ lease' \in 0..Lease
  <2>1. CASE exhausted \/ silent
    <3>1. ForgetSession(e) /\ nextSeq' = nextSeq
      BY <1>1, <2>1 DEF LoseSession
    <3>2. QED
      BY <3>1, ForgetType DEF TypeOK
  <2>2. CASE ~(exhausted \/ silent)
    <3>1. out' \in Outstanding \cup {NoPkt}
      <4>1. CASE resend
        BY <1>1, <1>4, <2>2, <4>1, RetryType
      <4>2. CASE ~resend
        BY <1>1, <2>2, <4>2 DEF TypeOK
      <4>3. QED
        BY <4>1, <4>2
    <3>2. QED
      BY <1>1, <2>2, <3>1 DEF TypeOK, sessionVars, motionVars
  <2>3. QED
    BY <2>1, <2>2
<1>11. UNCHANGED <<rxAge, faults, historyVars>>
  BY <1>1
<1>12. QED
  BY <1>7, <1>8, <1>9, <1>10, <1>11 DEF TypeOK, Channels, historyVars

\* An age that grows stays under its cap.
LEMMA OlderType ==
    ASSUME NEW n \in Nat, NEW k \in 0..n
    PROVE  Older(k, n) \in 0..n
BY DEF Older

\* Type correctness of the clocks.
LEMMA TickType == \A S \in Clocks : TypeOK /\ Tick(S) => TypeOK'
<1> SUFFICES ASSUME TypeOK, NEW S \in Clocks, Tick(S) PROVE TypeOK'
  OBVIOUS
<1>1. rxAge' \in [EP -> 0..LinkLost]
  BY OlderType, ConstantTypes DEF Tick, TypeOK
<1>2. txAge' \in [EP -> 0..Heartbeat]
  BY OlderType, ConstantTypes DEF Tick, TypeOK
<1>3. out' \in Outstanding \cup {NoPkt}
  <2>1. CASE Pendant \in S /\ out # NoPkt
    <3>1. out \in Outstanding /\ Older(out.age, AckTimeout) \in 0..AckTimeout
      BY <2>1, OlderType, ConstantTypes DEF TypeOK, Outstanding
    <3>2. out' = [out EXCEPT !.age = Older(@, AckTimeout)]
      BY <2>1 DEF Tick
    <3>3. QED
      BY <3>1, <3>2 DEF Outstanding
  <2>2. CASE ~(Pendant \in S /\ out # NoPkt)
    BY <2>2 DEF Tick, TypeOK
  <2>3. QED
    BY <2>1, <2>2
<1>4. lease' \in 0..Lease
  <2>1. lease \in 0..Lease /\ Lease \in Nat
    BY ConstantTypes DEF TypeOK
  <2>2. lease' = lease \/ (lease > 0 /\ lease' = lease - 1)
    BY DEF Tick
  <2>3. QED
    BY <2>1, <2>2
<1>5. quiet' \in 0..(Lease + 1)
  <2>1. quiet \in 0..(Lease + 1) /\ Lease + 1 \in Nat
    BY ConstantTypes DEF TypeOK
  <2>2. quiet' = Older(quiet, Lease + 1) \/ quiet' = 0
    BY DEF Tick
  <2>3. QED
    BY <2>1, <2>2, OlderType
<1>6. QED
  BY <1>1, <1>2, <1>3, <1>4, <1>5 DEF Tick, TypeOK, sessionVars

\* The fault count stays under its bound.
LEMMA FaultType == TypeOK /\ Fault => faults' \in 0..MaxFaults
BY ConstantTypes DEF Fault, TypeOK

\* Type correctness of a lost frame.
LEMMA LoseFrameType == \A e \in EP : TypeOK /\ LoseFrame(e) => TypeOK'
<1> SUFFICES ASSUME TypeOK, NEW e \in EP, LoseFrame(e) PROVE TypeOK'
  OBVIOUS
<1>1. chan' \in Channels
  BY TakeType DEF LoseFrame, TypeOK, Channels
<1>2. QED
  BY <1>1, FaultType DEF LoseFrame, TypeOK, Channels, sessionVars, senderVars,
                         motionVars, historyVars

\* Type correctness of a damaged frame.
LEMMA DamagedType == \A i \in DOMAIN chan[Host] : TypeOK /\ RejectDamaged(i) => TypeOK'
<1> SUFFICES ASSUME TypeOK, NEW i \in DOMAIN chan[Host], RejectDamaged(i) PROVE TypeOK'
  OBVIOUS
<1> DEFINE f == chan[Host][i]
           r == Frame("NAK", local[Host], remote[Host], f.seq)
<1>1. chan[Host] \in Seq(Frames) /\ chan[Pendant] \in Seq(Frames)
  BY DEF TypeOK
<1>2. f \in Frames
  BY <1>1, ElementOfSeq
<1>3. r \in Frames
  <2>1. f.seq \in SeqNum
    BY <1>2, FrameFields DEF RejectDamaged, Numbered
  <2>2. QED
    BY <2>1, FrameType DEF TypeOK, Numbered
<1>4. Without(chan[Host], i) \in Seq(Frames) /\ Push(chan[Pendant], r) \in Seq(Frames)
  BY <1>1, <1>3, WithoutType, PushType
<1>5. chan' = [chan EXCEPT ![Host] = Without(@, i), ![Pendant] = Push(@, r)]
  BY DEF RejectDamaged
<1>6. chan' \in Channels
  BY <1>4, <1>5 DEF TypeOK, Channels
<1>7. QED
  BY <1>6, FaultType, MarkType DEF RejectDamaged, TypeOK, Channels, sessionVars,
                                   senderVars, motionVars, historyVars

\* Type correctness of an endpoint that restarts.
LEMMA RebootType == \A e \in EP : TypeOK /\ Reboot(e) => TypeOK'
<1> SUFFICES ASSUME TypeOK, NEW e \in EP, Reboot(e) PROVE TypeOK'
  OBVIOUS
<1>1. ForgetSession(e) /\ nextSeq' \in SeqNum
  BY SmallTypes DEF Reboot, TypeOK
<1>2. rxAge' \in [EP -> 0..LinkLost] /\ txAge' \in [EP -> 0..Heartbeat]
  BY SmallTypes, ConstantTypes DEF Reboot, TypeOK
<1>3. link' \in [EP -> LinkStates] /\ reading' \in [EP -> BOOLEAN]
  BY DEF Reboot, TypeOK, LinkStates
<1>4. UNCHANGED <<chan, historyVars>> /\ faults' \in 0..MaxFaults
  BY FaultType DEF Reboot
<1>5. QED
  BY <1>1, <1>2, <1>3, <1>4, ForgetType DEF TypeOK, historyVars

\* Every reachable state has the types the module declares.
THEOREM TypeCorrect == Spec => []TypeOK
<1>1. TypeOK /\ [Next]_vars => TypeOK'
  <2> SUFFICES ASSUME TypeOK, [Next]_vars PROVE TypeOK'
    OBVIOUS
  <2>1. ASSUME NEW e \in EP, Receive(e) PROVE TypeOK'
    BY <2>1, RejectOldType, HeartbeatType, AckType, NakType, HandshakeType, DataType DEF Receive
  <2>2. CASE UNCHANGED vars
    BY <2>2 DEF vars, TypeOK
  <2>3. QED
    BY <2>1, <2>2, TailPollType, ExpireType, AbortType, SendsType, TickType, LoseFrameType,
       DamagedType, RebootType DEF Next
<1>2. QED
  BY <1>1, InitType, PTL DEF Spec

-----------------------------------------------------------------------------
(* Motion is authorised only inside an established session. *)

InLog(k) == \E i \in DOMAIN log : log[i] = k

\* An accepted id is in the log for good.
LEMMA AppendKeepsLog ==
    ASSUME TypeOK, NEW k \in Nat, log' = Append(log, k)
    PROVE  InLog(k)' /\ \A j : InLog(j) => InLog(j)'
<1>1. log \in Seq(Nat) /\ Len(log) \in Nat
  BY DEF TypeOK
<1>2. /\ Len(log') = Len(log) + 1 /\ DOMAIN log' = 1..(Len(log) + 1)
      /\ DOMAIN log = 1..Len(log)
      /\ log'[Len(log) + 1] = k
      /\ \A i \in 1..Len(log) : log'[i] = log[i]
  BY <1>1
<1>3. InLog(k)'
  BY <1>1, <1>2 DEF InLog
<1>4. ASSUME NEW j, InLog(j) PROVE InLog(j)'
  BY <1>1, <1>2, <1>4 DEF InLog
<1>5. QED
  BY <1>3, <1>4

\* A step that stops motion, or leaves it and what it rests on alone.
LEMMA StoppedOrKept ==
    ASSUME MotionNeedsSession,
           \/ ~motion'
           \/ UNCHANGED <<motion, est, hIntent, granted, log>>
    PROVE  MotionNeedsSession'
BY DEF MotionNeedsSession

\* The host's session goes together with its motion.
LEMMA ForgetKeepsMotion ==
    ASSUME TypeOK, MotionNeedsSession, NEW e \in EP, ForgetSession(e), UNCHANGED <<granted, log>>
    PROVE  MotionNeedsSession'
<1>1. CASE e = Host
  BY <1>1 DEF ForgetSession, StopMotion, MotionNeedsSession
<1>2. CASE e # Host
  BY <1>2 DEF ForgetSession, motionVars, MotionNeedsSession, TypeOK
<1>3. QED
  BY <1>1, <1>2

\* Command packets: motion begins only with an accepted START of the session.
LEMMA DataKeepsMotion ==
    ASSUME TypeOK, MotionNeedsSession,
           RecvDuplicate \/ RecvCommand \/ RecvStart \/ RecvRenew \/ RecvStop
    PROVE  MotionNeedsSession'
<1>1. PICK f \in DataArriving :
        /\ AnswerData("ACK", f) \/ AnswerData("NAK", f)
        /\ \/ log' = log
           \/ log' = Append(log, f.id)
        /\ \/ ~motion'
           \/ UNCHANGED <<motion, hIntent, granted>>
           \/ log' = Append(log, f.id) /\ hIntent' = f.seq /\ granted' = f.id
  BY DEF RecvDuplicate, RecvCommand, RecvStart, RecvRenew, RecvStop, Accept, Refuse,
         StopMotion, motionVars
<1>2. est[Host] /\ est' = est
  BY <1>1 DEF AnswerData, sessionVars, DataArriving, MatchesActive
<1>3. f.seq \in SeqNum /\ f.id \in Nat
  BY <1>1, AnswerDataType
<1>4. f.seq # NoSeq
  BY <1>3 DEF SeqNum, NoSeq
<1>5. CASE ~motion'
  BY <1>5, StoppedOrKept
<1>6. CASE UNCHANGED <<motion, hIntent, granted>> /\ log' = log
  BY <1>2, <1>6, StoppedOrKept
<1>7. CASE UNCHANGED <<motion, hIntent, granted>> /\ log' = Append(log, f.id)
  BY <1>2, <1>3, <1>7, AppendKeepsLog DEF MotionNeedsSession, InLog
<1>8. CASE log' = Append(log, f.id) /\ hIntent' = f.seq /\ granted' = f.id
  BY <1>2, <1>3, <1>4, <1>8, AppendKeepsLog DEF MotionNeedsSession, InLog
<1>9. QED
  BY <1>1, <1>5, <1>6, <1>7, <1>8

\* Motion and its session through the arrival of any frame.
LEMMA ReceiveKeepsMotion ==
    ASSUME TypeOK, MotionNeedsSession, NEW e \in EP, Receive(e)
    PROVE  MotionNeedsSession'
<1> USE DEF sessionVars, motionVars, historyVars
<1>1. CASE RejectOldSession(e) \/ RecvHeartbeat(e) \/ RecvAck \/ RefuseInit \/ RepeatChallenge
  BY <1>1, StoppedOrKept DEF RejectOldSession, RecvHeartbeat, RecvAck, RefuseInit, RepeatChallenge
<1>2. CASE RecvChallenge
  <2>1. est'[Host] = est[Host] /\ UNCHANGED <<motion, hIntent, granted, log>>
    BY <1>2 DEF RecvChallenge, Establish, TypeOK
  <2>2. QED
    BY <2>1 DEF MotionNeedsSession
<1>3. CASE RecvNak
  <2>1. ForgetSession(Pendant) \/ UNCHANGED <<sessionVars, motionVars>>
    BY <1>3 DEF RecvNak, LoseSession
  <2>2. UNCHANGED <<granted, log>>
    BY <1>3 DEF RecvNak
  <2>3. QED
    BY <2>1, <2>2, ForgetKeepsMotion, StoppedOrKept
<1>4. CASE AcceptInit
  BY <1>4, StoppedOrKept DEF AcceptInit, StopMotion
<1>5. CASE RecvConfirm
  <2>1. (est[Host] => est'[Host]) /\ UNCHANGED <<motion, hIntent, granted, log>>
    BY <1>5 DEF RecvConfirm, Establish, TypeOK
  <2>2. QED
    BY <2>1 DEF MotionNeedsSession
<1>6. QED
  BY <1>1, <1>2, <1>3, <1>4, <1>5, DataKeepsMotion DEF Receive

\* Motion and its session through everything but an arrival.
LEMMA OtherStepsKeepMotion ==
    ASSUME TypeOK, MotionNeedsSession,
           \/ \E e \in EP : PollTail(e) \/ LoseFrame(e) \/ Reboot(e)
           \/ ExpireLease \/ AbortMotion \/ Sends
           \/ \E S \in Clocks : Tick(S)
           \/ \E i \in DOMAIN chan[Host] : RejectDamaged(i)
           \/ UNCHANGED vars
    PROVE  MotionNeedsSession'
<1> USE DEF sessionVars, motionVars, historyVars
<1>1. CASE \E e \in EP : PollTail(e)
  <2>1. PICK e \in EP : PollTail(e)
    BY <1>1
  <2>2. ForgetSession(e) \/ UNCHANGED <<sessionVars, motionVars>>
    BY <2>1 DEF PollTail, LoseSession
  <2>3. UNCHANGED <<granted, log>>
    BY <2>1 DEF PollTail
  <2>4. QED
    BY <2>2, <2>3, ForgetKeepsMotion, StoppedOrKept
<1>2. CASE \E e \in EP : Reboot(e)
  BY <1>2, ForgetKeepsMotion DEF Reboot
<1>3. CASE ExpireLease \/ AbortMotion
  BY <1>3, StoppedOrKept DEF ExpireLease, AbortMotion, StopMotion
<1>4. CASE Sends
  BY <1>4, StoppedOrKept DEF Sends, SendCommand, SendStart, SendRenew, SendStop, Originate
<1>5. CASE \E S \in Clocks : Tick(S)
  BY <1>5, StoppedOrKept DEF Tick
<1>6. CASE (\E e \in EP : LoseFrame(e)) \/ \E i \in DOMAIN chan[Host] : RejectDamaged(i)
  BY <1>6, StoppedOrKept DEF LoseFrame, RejectDamaged
<1>7. CASE UNCHANGED vars
  BY <1>7, StoppedOrKept DEF vars
<1>8. QED
  BY <1>1, <1>2, <1>3, <1>4, <1>5, <1>6, <1>7

\* Motion is authorised only while the host is established, for an intent it
\* recorded from a START it accepted.
THEOREM MotionInSession == Spec => []MotionNeedsSession
<1>1. Init => MotionNeedsSession
  BY DEF Init, MotionNeedsSession
<1>2. TypeOK /\ MotionNeedsSession /\ [Next]_vars => MotionNeedsSession'
  BY ReceiveKeepsMotion, OtherStepsKeepMotion DEF Next
<1>3. QED
  BY <1>1, <1>2, TypeCorrect, PTL DEF Spec

-----------------------------------------------------------------------------
(* The two endpoints agree on the pair.  PairAgreement is not inductive: it *)
(* needs that every CONFIRM on the wire is honest, and that the host never  *)
(* names a generation the pendant has not reached.                          *)

\* c speaks of an earlier generation of the pendant, or of the present one and
\* then of the pair the pendant is established on.
Honest(c) ==
    /\ c.src <= local[Pendant]
    /\ c.src = local[Pendant] => est[Pendant] /\ remote[Pendant] = c.peer

ConfirmsHonest ==
    \A i \in DOMAIN chan[Host] : chan[Host][i].type = "CONFIRM" => Honest(chan[Host][i])

HostHonest ==
    est[Host] => /\ remote[Host] <= local[Pendant]
                 /\ remote[Host] = local[Pendant]
                      => est[Pendant] /\ remote[Pendant] = local[Host]

PairInv == ConfirmsHonest /\ HostHonest

\* Every CONFIRM of r is one of q or is f.
Within(r, q, f) ==
    \A i \in DOMAIN r : r[i].type = "CONFIRM" => r[i] = f \/ \E j \in DOMAIN q : q[j] = r[i]

\* A sent frame is the only one a channel gains.
LEMMA PushWithin ==
    ASSUME NEW q \in Seq(Frames), NEW f \in Frames
    PROVE  Within(Push(q, f), q, f)
BY DEF Within, Push

\* One that is no CONFIRM adds nothing to watch.
LEMMA PushPlain ==
    ASSUME NEW q \in Seq(Frames), NEW r \in Seq(Frames), NEW g, Within(r, q, g),
           NEW f \in Frames, f.type # "CONFIRM"
    PROVE  Within(Push(r, f), q, g)
<1>1. CASE Push(r, f) = r
  BY <1>1
<1>2. CASE Push(r, f) = Append(r, f)
  <2>1. /\ Len(r) \in Nat /\ DOMAIN r = 1..Len(r)
        /\ DOMAIN Append(r, f) = 1..(Len(r) + 1)
        /\ Append(r, f)[Len(r) + 1] = f
        /\ \A i \in 1..Len(r) : Append(r, f)[i] = r[i]
    OBVIOUS
  <2>2. QED
    BY <1>2, <2>1 DEF Within
<1>3. QED
  BY <1>1, <1>2 DEF Push

\* Reading a frame adds none.
LEMMA TailWithin ==
    ASSUME NEW q \in Seq(Frames), q # <<>>, NEW f
    PROVE  Within(Tail(q), q, f)
<1>1. Len(q) \in Nat \ {0} /\ DOMAIN q = 1..Len(q) /\ DOMAIN Tail(q) = 1..(Len(q) - 1)
  OBVIOUS
<1>2. \A i \in 1..(Len(q) - 1) : Tail(q)[i] = q[i + 1] /\ i + 1 \in 1..Len(q)
  BY <1>1
<1>3. QED
  BY <1>1, <1>2 DEF Within

\* Dropping a damaged frame adds none.
LEMMA WithoutWithin ==
    ASSUME NEW q \in Seq(Frames), NEW k \in DOMAIN q, NEW f
    PROVE  Within(Without(q, k), q, f)
<1>1. Len(q) \in Nat \ {0} /\ DOMAIN q = 1..Len(q)
  OBVIOUS
<1>2. \A i \in 1..(Len(q) - 1) : i \in DOMAIN q /\ i + 1 \in DOMAIN q
  BY <1>1
<1>3. QED
  BY <1>1, <1>2 DEF Within, Without

\* Nor does leaving the channel alone.
LEMMA SameWithin == \A q, f : Within(q, q, f)
BY DEF Within

\* The pendant keeps its session, gives it up for a new generation, or is
\* established on the pair it had, or from no session at all.
PendantMoves ==
    \/ local'[Pendant] = local[Pendant] /\ est'[Pendant] = est[Pendant] /\ remote'[Pendant] = remote[Pendant]
    \/ local'[Pendant] = local[Pendant] + 1
    \/ /\ local'[Pendant] = local[Pendant] /\ est'[Pendant]
       /\ est[Pendant] => remote'[Pendant] = remote[Pendant]

\* Honest, in the state after the step.
HonestNext(c) ==
    /\ c.src <= local'[Pendant]
    /\ c.src = local'[Pendant] => est'[Pendant] /\ remote'[Pendant] = c.peer

\* A CONFIRM once honest stays so, however the pendant moves.
LEMMA HonestStays ==
    ASSUME TypeOK, PendantMoves, NEW c \in Frames, Honest(c)
    PROVE  HonestNext(c)
<1>1. c.src \in Nat /\ local[Pendant] \in Nat
  BY FrameFields DEF TypeOK
<1>2. QED
  BY <1>1 DEF Honest, HonestNext, PendantMoves

\* ConfirmsHonest after a step, put with HonestNext.
LEMMA ConfirmsNext ==
    ConfirmsHonest' <=> \A i \in DOMAIN chan'[Host] :
                          chan'[Host][i].type = "CONFIRM" => HonestNext(chan'[Host][i])
BY DEF ConfirmsHonest, Honest, HonestNext

\* Confirms stay honest when the host's channel gains at most one frame f that
\* is no CONFIRM or an honest one.
LEMMA ConfirmsStay ==
    ASSUME TypeOK, ConfirmsHonest, PendantMoves,
           NEW f, f.type = "CONFIRM" => HonestNext(f),
           Within(chan'[Host], chan[Host], f)
    PROVE  ConfirmsHonest'
<1> SUFFICES ASSUME NEW i \in DOMAIN chan'[Host], chan'[Host][i].type = "CONFIRM"
             PROVE  HonestNext(chan'[Host][i])
  BY ConfirmsNext
<1>1. CASE chan'[Host][i] = f
  BY <1>1
<1>2. CASE \E j \in DOMAIN chan[Host] : chan[Host][j] = chan'[Host][i]
  <2>1. PICK j \in DOMAIN chan[Host] : chan[Host][j] = chan'[Host][i]
    BY <1>2
  <2>2. chan[Host] \in Seq(Frames)
    BY DEF TypeOK
  <2>3. chan[Host][j] \in Frames
    BY <2>1, <2>2, ElementOfSeq
  <2>4. Honest(chan[Host][j])
    BY <2>1 DEF ConfirmsHonest
  <2>5. QED
    BY <2>1, <2>3, <2>4, HonestStays
<1>3. QED
  BY <1>1, <1>2 DEF Within

\* The host keeps its session, or is not established after the step.
HostMoves ==
    \/ ~est'[Host]
    \/ local'[Host] = local[Host] /\ est'[Host] = est[Host] /\ remote'[Host] = remote[Host]

\* An established host stays honest while it keeps its session.
LEMMA HostStaysHonest ==
    ASSUME TypeOK, HostHonest, PendantMoves, HostMoves
    PROVE  HostHonest'
<1>1. local[Pendant] \in Nat /\ remote[Host] \in Nat
  BY DEF TypeOK
<1>2. CASE ~est'[Host]
  BY <1>2 DEF HostHonest
<1>3. CASE local'[Host] = local[Host] /\ est'[Host] = est[Host] /\ remote'[Host] = remote[Host]
  BY <1>1, <1>3 DEF HostHonest, PendantMoves
<1>4. QED
  BY <1>2, <1>3 DEF HostMoves

\* Giving a session up is such a move, of either end.
LEMMA ForgetMoves ==
    ASSUME TypeOK, NEW e \in EP, ForgetSession(e)
    PROVE  PendantMoves /\ HostMoves
BY DEF ForgetSession, PendantMoves, HostMoves, TypeOK

\* So is leaving both sessions alone.
LEMMA KeepMoves == UNCHANGED sessionVars => PendantMoves /\ HostMoves
BY DEF sessionVars, PendantMoves, HostMoves

\* A step under which the pair stays agreed.
LEMMA PairStays ==
    ASSUME TypeOK, PairInv, PendantMoves, HostMoves,
           NEW f, f.type = "CONFIRM" => HonestNext(f),
           Within(chan'[Host], chan[Host], f)
    PROVE  PairInv'
BY ConfirmsStay, HostStaysHonest DEF PairInv

\* Reading at either end, with an answer that is no CONFIRM.
LEMMA TakeWithin ==
    ASSUME TypeOK, NEW e \in EP, chan[e] # <<>>, NEW f \in Frames,
           Take(e) \/ TakeAndAnswer(e, f)
    PROVE  Within(chan'[Host], chan[Host], f)
<1>1. chan[Host] \in Seq(Frames)
  BY DEF TypeOK
<1>2. CASE e = Host
  <2>1. chan'[Host] = Tail(chan[Host])
    BY <1>2 DEF Take, TakeAndAnswer, Peer, TypeOK
  <2>2. QED
    BY <1>1, <1>2, <2>1, TailWithin
<1>3. CASE e = Pendant
  <2>1. chan'[Host] = chan[Host] \/ chan'[Host] = Push(chan[Host], f)
    BY <1>3 DEF Take, TakeAndAnswer, Peer, TypeOK
  <2>2. QED
    BY <1>1, <2>1, SameWithin, PushWithin
<1>4. QED
  BY <1>2, <1>3

\* A frame that is certainly no CONFIRM, for steps that add none.
Filler == Frame("HEARTBEAT", 0, 0, NoSeq)

\* A frame that is no CONFIRM, for the steps that send none.
LEMMA FillerType == Filler \in Frames /\ Filler.type # "CONFIRM"
<1>1. Filler \in Frames
  BY FrameType, NoSeqTypes, SmallTypes DEF Filler
<1>2. QED
  BY <1>1 DEF Filler, Frame

\* Reading without an answer.
LEMMA TakeKeepsPair ==
    ASSUME TypeOK, PairInv, PendantMoves, HostMoves, NEW e \in EP, chan[e] # <<>>, Take(e)
    PROVE  PairInv'
<1>1. Within(chan'[Host], chan[Host], Filler)
  BY TakeWithin, FillerType
<1>2. QED
  BY <1>1, PairStays, FillerType

\* Reading with an answer that is no CONFIRM.
LEMMA AnswerKeepsPair ==
    ASSUME TypeOK, PairInv, PendantMoves, HostMoves, NEW e \in EP, chan[e] # <<>>,
           NEW f \in Frames, f.type # "CONFIRM", TakeAndAnswer(e, f)
    PROVE  PairInv'
<1>1. Within(chan'[Host], chan[Host], f)
  BY TakeWithin
<1>2. QED
  BY <1>1, PairStays

\* The CONFIRM a pendant answers a CHALLENGE with names the pair it now holds.
LEMMA ChallengeKeepsPair == TypeOK /\ PairInv /\ RecvChallenge => PairInv'
<1> SUFFICES ASSUME TypeOK, PairInv, RecvChallenge PROVE PairInv'
  OBVIOUS
<1> DEFINE g == Head(chan[Pendant])
           c == Frame("CONFIRM", local[Pendant], g.src, NoSeq)
<1>1. chan[Pendant] # <<>> /\ g \in Frames /\ g.src \in Nat /\ c \in Frames
  BY ArrivedType, FrameType, SmallTypes, NoSeqTypes DEF RecvChallenge, TypeOK, Arrives
<1>2. local' = local /\ HostMoves
  BY DEF RecvChallenge, HostMoves, Establish, TypeOK
<1>3. CASE GoodChallenge(g)
  <2>1. /\ remote'[Pendant] = g.src /\ est'[Pendant]
        /\ est[Pendant] => g.src = remote[Pendant]
        /\ TakeAndAnswer(Pendant, c)
    BY <1>3 DEF RecvChallenge, GoodChallenge, Establish, TypeOK
  <2>2. PendantMoves
    BY <1>2, <2>1 DEF PendantMoves
  <2>3. HonestNext(c)
    BY <1>2, <2>1 DEF HonestNext, Frame, TypeOK
  <2>4. Within(chan'[Host], chan[Host], c)
    BY <1>1, <2>1, TakeWithin
  <2>5. QED
    BY <1>2, <2>2, <2>3, <2>4, PairStays
<1>4. CASE ~GoodChallenge(g)
  <2>1. Take(Pendant) /\ UNCHANGED sessionVars
    BY <1>4 DEF RecvChallenge, sessionVars
  <2>2. QED
    BY <1>1, <2>1, KeepMoves, TakeKeepsPair
<1>5. QED
  BY <1>3, <1>4

\* A host established by a CONFIRM is as honest as that CONFIRM.
LEMMA ConfirmKeepsPair == TypeOK /\ PairInv /\ RecvConfirm => PairInv'
<1> SUFFICES ASSUME TypeOK, PairInv, RecvConfirm PROVE PairInv'
  OBVIOUS
<1> DEFINE c == Head(chan[Host])
<1>1. chan[Host] # <<>> /\ c.type = "CONFIRM" /\ Take(Host)
      /\ local' = local /\ remote' = remote /\ est'[Pendant] = est[Pendant]
  BY DEF RecvConfirm, Arrives, Establish, TypeOK
<1>2. PendantMoves
  BY <1>1 DEF PendantMoves
<1>3. ConfirmsHonest'
  <2>1. Within(chan'[Host], chan[Host], Filler)
    BY <1>1, TakeWithin, FillerType
  <2>2. QED
    BY <1>2, <2>1, ConfirmsStay, FillerType DEF PairInv
<1>4. HostHonest'
  <2>1. CASE GoodConfirm(c)
    <3>1. chan[Host] \in Seq(Frames) /\ 1 \in DOMAIN chan[Host] /\ chan[Host][1] = c
      BY <1>1 DEF TypeOK
    <3>2. Honest(c)
      BY <1>1, <3>1 DEF PairInv, ConfirmsHonest
    <3>3. c.src = remote[Host] /\ c.peer = local[Host]
      BY <2>1 DEF GoodConfirm
    <3>4. QED
      BY <1>1, <3>2, <3>3 DEF HostHonest, Honest
  <2>2. CASE ~GoodConfirm(c)
    BY <1>1, <2>2 DEF RecvConfirm, PairInv, HostHonest
  <2>3. QED
    BY <2>1, <2>2
<1>5. QED
  BY <1>3, <1>4 DEF PairInv

\* The pair stays agreed through the arrival of any frame.
LEMMA ReceiveKeepsPair ==
    ASSUME TypeOK, PairInv, NEW e \in EP, Receive(e)
    PROVE  PairInv'
<1>1. CASE RejectOldSession(e) \/ RecvHeartbeat(e)
  BY <1>1, KeepMoves, TakeKeepsPair DEF RejectOldSession, RecvHeartbeat, Arrives
<1>2. CASE RecvAck
  BY <1>2, KeepMoves, TakeKeepsPair DEF RecvAck, Arrives
<1>3. CASE RecvNak
  <2>1. chan[Pendant] # <<>>
    BY <1>3 DEF RecvNak, Arrives
  <2>2. CASE Take(Pendant)
    <3>1. PendantMoves /\ HostMoves
      BY <1>3, <2>2, KeepMoves, ForgetMoves DEF RecvNak, LoseSession
    <3>2. QED
      BY <2>1, <2>2, <3>1, TakeKeepsPair
  <2>3. CASE TakeAndAnswer(Pendant, out.pkt) /\ out # NoPkt
    <3>1. PendantMoves /\ HostMoves
      BY <1>3, KeepMoves, ForgetMoves DEF RecvNak, LoseSession
    <3>2. out.pkt \in Frames /\ out.pkt.type # "CONFIRM"
      BY <2>3 DEF TypeOK, Outstanding
    <3>3. QED
      BY <2>1, <2>3, <3>1, <3>2, AnswerKeepsPair
  <2>4. QED
    BY <1>3, <2>2, <2>3 DEF RecvNak, Answers
<1>4. CASE RefuseInit
  BY <1>4, KeepMoves, TakeKeepsPair DEF RefuseInit, Arrives
<1>5. CASE RepeatChallenge
  <2> DEFINE f == Frame("CHALLENGE", local[Host], remote[Host], NoSeq)
  <2>1. f \in Frames /\ f.type # "CONFIRM"
    <3>1. f \in Frames
      BY FrameType, SmallTypes, NoSeqTypes DEF TypeOK
    <3>2. QED
      BY <3>1 DEF Frame
  <2>2. chan[Host] # <<>> /\ TakeAndAnswer(Host, f) /\ UNCHANGED sessionVars
    BY <1>5 DEF RepeatChallenge, Arrives
  <2>3. QED
    BY <2>1, <2>2, KeepMoves, AnswerKeepsPair
<1>6. CASE AcceptInit
  <2> DEFINE f == Frame("CHALLENGE", ChallengeNonce, Head(chan[Host]).src, NoSeq)
  <2>1. Head(chan[Host]).src \in Nat /\ ChallengeNonce \in Nat
    BY <1>6, ArrivedType DEF AcceptInit, ChallengeNonce, TypeOK
  <2>2. f \in Frames /\ f.type # "CONFIRM"
    <3>1. f \in Frames
      BY <2>1, FrameType, SmallTypes, NoSeqTypes
    <3>2. QED
      BY <3>1 DEF Frame
  <2>3. chan[Host] # <<>> /\ TakeAndAnswer(Host, f)
    BY <1>6 DEF AcceptInit, Arrives
  <2>4. PendantMoves /\ HostMoves
    BY <1>6 DEF AcceptInit, PendantMoves, HostMoves, TypeOK
  <2>5. QED
    BY <2>2, <2>3, <2>4, AnswerKeepsPair
<1>7. CASE RecvDuplicate \/ RecvCommand \/ RecvStart \/ RecvRenew \/ RecvStop
  <2>1. PICK f \in DataArriving : AnswerData("ACK", f) \/ AnswerData("NAK", f)
    BY <1>7 DEF RecvDuplicate, RecvCommand, RecvStart, RecvRenew, RecvStop, Accept, Refuse
  <2>2. PICK t \in {"ACK", "NAK"} : AnswerData(t, f)
    BY <2>1
  <2> DEFINE r == Frame(t, local[Host], remote[Host], f.seq)
  <2>3. f.seq \in SeqNum /\ chan[Host] # <<>>
    BY <2>2, AnswerDataType DEF DataArriving
  <2>4. r \in Frames
    BY <2>3, FrameType DEF TypeOK, Numbered
  <2>5. r.type # "CONFIRM"
    BY DEF Frame
  <2>6. TakeAndAnswer(Host, r) /\ UNCHANGED sessionVars
    BY <2>2 DEF AnswerData
  <2>7. QED
    BY <2>3, <2>4, <2>5, <2>6, KeepMoves, AnswerKeepsPair
<1>8. QED
  BY <1>1, <1>2, <1>3, <1>4, <1>5, <1>6, <1>7, ChallengeKeepsPair, ConfirmKeepsPair DEF Receive

\* And through the rest of poll, which may give a session up.
LEMMA TailPollKeepsPair ==
    ASSUME TypeOK, PairInv, NEW e \in EP, PollTail(e)
    PROVE  PairInv'
<1> DEFINE exhausted == AckDue(e) /\ out.tries >= MaxRetries
           resend == AckDue(e) /\ ~exhausted
           up == est[e] /\ ~exhausted
           nonce == IF exhausted THEN local[e] + 1 ELSE local[e]
           beat == BeatDue(e) /\ (up \/ e = Pendant)
           greeting == IF up THEN Frame("HEARTBEAT", local[e], remote[e], NoSeq)
                             ELSE Frame("INIT", nonce, NoSession, NoSeq)
           queued == IF resend THEN Push(chan[Peer(e)], out.pkt) ELSE chan[Peer(e)]
           written == IF beat THEN Push(queued, greeting) ELSE queued
<1>1. chan' = [chan EXCEPT ![Peer(e)] = written]
  BY Zenon DEF PollTail
<1>2. PendantMoves /\ HostMoves
  <2>1. LoseSession(e) \/ UNCHANGED sessionVars
    BY DEF PollTail
  <2>2. QED
    BY <2>1, ForgetMoves, KeepMoves DEF LoseSession
<1>3. Within(chan'[Host], chan[Host], Filler)
  <2>1. CASE e = Host
    <3>1. chan'[Host] = chan[Host]
      BY <1>1, <2>1 DEF Peer, TypeOK
    <3>2. QED
      BY <3>1, SameWithin
  <2>2. CASE e = Pendant
    <3>1. Peer(e) = Host /\ chan[Host] \in Seq(Frames)
      BY <2>2 DEF Peer, TypeOK
    <3>2. local[e] \in Nat /\ remote[e] \in Nat /\ nonce \in Nat
      BY DEF TypeOK
    <3>3. greeting \in Frames
      BY <3>2, FrameType, SmallTypes, NoSeqTypes
    <3>4. greeting.type # "CONFIRM"
      BY DEF Frame
    <3>5. resend => out.pkt \in Frames /\ out.pkt.type # "CONFIRM"
      BY DEF AckDue, TypeOK, Outstanding
    <3>6. queued \in Seq(Frames)
      BY <3>1, <3>5, PushType
    <3>7. Within(queued, chan[Host], Filler)
      BY <3>1, <3>5, SameWithin, PushPlain
    <3>8. Within(written, chan[Host], Filler)
      <4> HIDE DEF queued, greeting, beat
      <4>1. QED
        BY <3>1, <3>3, <3>4, <3>6, <3>7, PushPlain
    <3>9. chan'[Host] = written
      <4> HIDE DEF written
      <4>1. QED
        BY <1>1, <3>1 DEF TypeOK
    <3>10. QED
      BY <3>8, <3>9
  <2>3. QED
    BY <2>1, <2>2
<1>4. QED
  BY <1>2, <1>3, PairStays, FillerType

\* And through the pendant's sends.
LEMMA SendsKeepPair == TypeOK /\ PairInv /\ Sends => PairInv'
<1> SUFFICES ASSUME TypeOK, PairInv, Sends PROVE PairInv'
  OBVIOUS
<1>1. PICK k \in Kinds, n \in SeqNum \cup {NoSeq} : Originate(k, n)
  BY SmallTypes DEF Sends, SendCommand, SendStart, SendRenew, SendStop, Kinds, TypeOK
<1>2. out' \in Outstanding
  BY <1>1, OriginateType
<1>3. chan' = [chan EXCEPT ![Host] = Push(@, out'.pkt)] /\ UNCHANGED sessionVars
  BY <1>1 DEF Originate, sessionVars
<1>4. out'.pkt \in Frames /\ out'.pkt.type # "CONFIRM"
  BY <1>2 DEF Outstanding
<1>5. Within(chan'[Host], chan[Host], Filler)
  BY <1>3, <1>4, SameWithin, PushPlain DEF TypeOK
<1>6. QED
  BY <1>3, <1>5, KeepMoves, PairStays, FillerType

\* And through loss, damage, reboots, clocks and the lease.
LEMMA EnvironmentKeepsPair ==
    ASSUME TypeOK, PairInv,
           \/ \E e \in EP : LoseFrame(e) \/ Reboot(e)
           \/ ExpireLease \/ AbortMotion
           \/ \E S \in Clocks : Tick(S)
           \/ \E i \in DOMAIN chan[Host] : RejectDamaged(i)
           \/ UNCHANGED vars
    PROVE  PairInv'
<1>1. CASE \E e \in EP : LoseFrame(e)
  BY <1>1, KeepMoves, TakeKeepsPair DEF LoseFrame
<1>2. CASE \E e \in EP : Reboot(e)
  BY <1>2, ForgetMoves, SameWithin, PairStays, FillerType DEF Reboot
<1>3. CASE ExpireLease \/ AbortMotion \/ (\E S \in Clocks : Tick(S)) \/ UNCHANGED vars
  <2>1. UNCHANGED <<chan, sessionVars>>
    BY <1>3 DEF ExpireLease, AbortMotion, Tick, vars, sessionVars
  <2>2. QED
    BY <2>1, KeepMoves, SameWithin, PairStays, FillerType
<1>4. CASE \E i \in DOMAIN chan[Host] : RejectDamaged(i)
  <2>1. PICK i \in DOMAIN chan[Host] : RejectDamaged(i)
    BY <1>4
  <2>2. chan'[Host] = Without(chan[Host], i) /\ UNCHANGED sessionVars
    BY <2>1 DEF RejectDamaged, TypeOK
  <2>3. Within(chan'[Host], chan[Host], Filler)
    BY <2>1, <2>2, WithoutWithin DEF TypeOK
  <2>4. QED
    BY <2>2, <2>3, KeepMoves, PairStays, FillerType
<1>5. QED
  BY <1>1, <1>2, <1>3, <1>4

\* What CONFIRM frames say of the pair is never half true.
LEMMA Pairs == Spec => []PairInv
<1>1. Init => PairInv
  BY DEF Init, PairInv, ConfirmsHonest, HostHonest
<1>2. TypeOK /\ PairInv /\ [Next]_vars => PairInv'
  BY ReceiveKeepsPair, TailPollKeepsPair, SendsKeepPair, EnvironmentKeepsPair DEF Next
<1>3. QED
  BY <1>1, <1>2, TypeCorrect, PTL DEF Spec

\* An established host and the pendant generation it names are on one pair,
\* whatever is lost, delayed, timed out or rebooted.
THEOREM PairsAgree == Spec => []PairAgreement
<1>1. PairInv => PairAgreement
  BY DEF PairInv, HostHonest, PairAgreement, Linked
<1>2. QED
  BY <1>1, Pairs, PTL

=============================================================================
