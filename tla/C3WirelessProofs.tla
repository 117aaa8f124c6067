--------------------------- MODULE C3WirelessProofs ---------------------------
(***************************************************************************)
(* What TLAPS proves of C3Wireless for every set of bridges, every limit   *)
(* and every bound on the channels.                                        *)
(***************************************************************************)
EXTENDS C3Wireless, FiniteSetTheorems, TLAPS

\* The constants, one at a time.
LEMMA C3ConstantTypes ==
    /\ EventLimit \in Nat \ {0} /\ MaxAttempts \in Nat \ {0} /\ MaxSeq \in Nat \ {0}
    /\ MaxDown \in Nat \ {0} /\ MaxUp \in Nat \ {0}
    /\ "none" \notin Peers
BY C3Constants

-----------------------------------------------------------------------------
(* The invariant: types, and no acceptance of a jog anywhere on its way to  *)
(* the pendant without the admission behind it.                             *)

Backed(m) == m.kind = "jogAck" /\ m.ok => m.seq \in admitted
BackedAnswers == {m \in Answers : Backed(m)}
BackedEvents == {m \in Events : Backed(m)}

ChannelType ==
    /\ down \in [Peers -> Seq(Requests)]
    /\ up \in [Peers -> Seq(BackedAnswers)]
    /\ events \in Seq(BackedEvents) /\ Len(events) <= EventLimit

StopType ==
    /\ pending \in 0..MaxSeq
    /\ stop \in [pending : BOOLEAN, seq : 0..MaxSeq, sent : BOOLEAN, attempts : 0..MaxAttempts]
    /\ seq \in 1..(MaxSeq + 1)
    /\ cancelled \in 0..MaxSeq

StateType ==
    /\ stage \in {"app", "again", "radio", "consume", "online"}
    /\ in \in [deadman : BOOLEAN, estop : BOOLEAN]
    /\ machine \in [connected : BOOLEAN, ready : BOOLEAN, jogging : BOOLEAN]
    /\ peer \in Peers \cup {"none"}
    /\ status \in [fresh : BOOLEAN, peer : Peers \cup {"none"}]
    /\ bridges \subseteq Peers

LeaseType == lease \in [Peers -> [active : BOOLEAN, last : 0..MaxSeq]] /\ admitted \subseteq Seqs

Inv == ChannelType /\ StopType /\ StateType /\ LeaseType

\* Messages of each kind, and what they carry.
LEMMA MessageTypes ==
    /\ [kind |-> "pair"] \in Requests /\ [kind |-> "paired"] \in Answers
    /\ \A n \in Seqs : [kind |-> "jog", seq |-> n] \in Requests
                       /\ [kind |-> "stop", seq |-> n] \in Requests
                       /\ [kind |-> "stopAck", seq |-> n] \in Answers
                       /\ \A ok \in BOOLEAN : [kind |-> "jogAck", seq |-> n, ok |-> ok] \in Answers
    /\ \A r \in Reports : [kind |-> "status", state |-> r] \in Answers
BY DEF Requests, Answers

\* A request for a jog or a stop carries its number.
LEMMA RequestSeq == \A m \in Requests : m.kind \in {"jog", "stop"} => m.seq \in Seqs
BY DEF Requests

\* Whatever is not a pairing is an event.
LEMMA AnswerIsEvent == \A m \in Answers : m.kind # "paired" => m \in Events
BY DEF Answers, Events

\* A bounded channel.
LEMMA PutType ==
    ASSUME NEW S, NEW channel \in Seq(S), NEW msg \in S, NEW room
    PROVE  Put(channel, msg, room) \in Seq(S)
BY DEF Put

\* Taking the first message.
LEMMA TailType ==
    ASSUME NEW S, NEW channel \in Seq(S), channel # <<>>
    PROVE  Head(channel) \in S /\ Tail(channel) \in Seq(S) /\ Len(Tail(channel)) = Len(channel) - 1
OBVIOUS

\* More admissions back no less.
LEMMA BackedGrows ==
    ASSUME admitted \subseteq admitted'
    PROVE  /\ BackedAnswers \subseteq BackedAnswers' /\ BackedEvents \subseteq BackedEvents'
           /\ \A q \in Seq(BackedAnswers) : q \in Seq(BackedAnswers')
           /\ \A q \in Seq(BackedEvents) : q \in Seq(BackedEvents')
<1>1. BackedAnswers \subseteq BackedAnswers' /\ BackedEvents \subseteq BackedEvents'
  BY DEF BackedAnswers, BackedEvents, Backed
<1>2. ASSUME NEW S, NEW T, S \subseteq T, NEW q \in Seq(S)
      PROVE  q \in Seq(T)
  BY <1>2
<1>3. QED
  BY <1>1, <1>2

\* A packet sent to a bridge.
LEMMA SendType ==
    ASSUME Inv, NEW p \in Peers, NEW msg \in Requests, Send(p, msg)
    PROVE  down' \in [Peers -> Seq(Requests)]
<1>1. down \in [Peers -> Seq(Requests)]
  BY DEF Inv, ChannelType
<1>2. Put(down[p], msg, MaxDown) \in Seq(Requests)
  BY <1>1, PutType
<1>3. QED
  BY <1>1, <1>2 DEF Send

\* _send_stop, whatever becomes of it.
LEMMA SendStopType ==
    ASSUME Inv, NEW attempts \in 0..MaxAttempts, attempts < MaxAttempts, SendStop(attempts)
    PROVE  /\ down' \in [Peers -> Seq(Requests)] /\ seq' \in 1..(MaxSeq + 1)
           /\ stop' \in [pending : BOOLEAN, seq : 0..MaxSeq, sent : BOOLEAN,
                         attempts : 0..MaxAttempts]
<1>1. /\ down \in [Peers -> Seq(Requests)] /\ seq \in 1..(MaxSeq + 1)
      /\ stop \in [pending : BOOLEAN, seq : 0..MaxSeq, sent : BOOLEAN, attempts : 0..MaxAttempts]
      /\ peer \in Peers \cup {"none"}
  BY DEF Inv, ChannelType, StopType, StateType
<1>2. CASE /\ stop' = [stop EXCEPT !.pending = TRUE, !.attempts = attempts]
           /\ UNCHANGED <<seq, down>>
  BY <1>1, <1>2
<1>3. CASE /\ peer # "none" /\ seq <= MaxSeq
           /\ Send(peer, [kind |-> "stop", seq |-> seq])
           /\ stop' = [pending |-> TRUE, seq |-> seq, sent |-> TRUE, attempts |-> attempts + 1]
           /\ seq' = seq + 1
  <2>1. seq \in Seqs /\ seq \in 0..MaxSeq /\ seq' \in 1..(MaxSeq + 1)
    BY <1>1, <1>3, C3ConstantTypes DEF Seqs
  <2>2. down' \in [Peers -> Seq(Requests)]
    <3>1. [kind |-> "stop", seq |-> seq] \in Requests
      BY <2>1, MessageTypes
    <3>2. peer \in Peers
      BY <1>1, <1>3
    <3>3. QED
      BY <1>3, <3>1, <3>2, SendType
  <2>3. attempts + 1 \in 0..MaxAttempts
    BY C3ConstantTypes
  <2>4. QED
    BY <1>3, <2>1, <2>2, <2>3
<1>4. QED
  BY <1>2, <1>3 DEF SendStop

\* cancel_jog
LEMMA CancelJogType ==
    ASSUME Inv, CancelJog
    PROVE  down' \in [Peers -> Seq(Requests)] /\ StopType'
<1>1. 0 \in 0..MaxAttempts /\ 0 < MaxAttempts
  BY C3ConstantTypes
<1>2. /\ down' \in [Peers -> Seq(Requests)] /\ seq' \in 1..(MaxSeq + 1)
      /\ stop' \in [pending : BOOLEAN, seq : 0..MaxSeq, sent : BOOLEAN, attempts : 0..MaxAttempts]
  BY <1>1, SendStopType DEF CancelJog
<1>3. pending' \in 0..MaxSeq /\ cancelled' \in 0..MaxSeq
  BY C3ConstantTypes DEF CancelJog, Inv, StopType
<1>4. QED
  BY <1>2, <1>3 DEF StopType

\* Steps that leave the radio's other direction and the leases alone.
LEMMA Reassemble ==
    ASSUME Inv, UNCHANGED <<up, events, lease, admitted>>,
           down' \in [Peers -> Seq(Requests)], StopType', StateType'
    PROVE  Inv'
<1>1. BackedAnswers' = BackedAnswers /\ BackedEvents' = BackedEvents
  BY DEF BackedAnswers, BackedEvents, Backed
<1>2. QED
  BY <1>1 DEF Inv, ChannelType, LeaseType

\* Steps that send nothing.
LEMMA Silent ==
    ASSUME Inv, UNCHANGED <<up, events, lease, admitted, down, pending, stop, seq, cancelled>>,
           StateType'
    PROVE  Inv'
<1>1. down' \in [Peers -> Seq(Requests)] /\ StopType'
  BY DEF Inv, ChannelType, StopType
<1>2. QED
  BY <1>1, Reassemble

\* The flags of machine, one or more set.
LEMMA MachineUpdates ==
    ASSUME StateType
    PROVE  /\ [machine EXCEPT !.jogging = FALSE]
                  \in [connected : BOOLEAN, ready : BOOLEAN, jogging : BOOLEAN]
           /\ [machine EXCEPT !.jogging = TRUE]
                  \in [connected : BOOLEAN, ready : BOOLEAN, jogging : BOOLEAN]
           /\ [machine EXCEPT !.ready = FALSE]
                  \in [connected : BOOLEAN, ready : BOOLEAN, jogging : BOOLEAN]
           /\ [machine EXCEPT !.connected = TRUE]
                  \in [connected : BOOLEAN, ready : BOOLEAN, jogging : BOOLEAN]
           /\ [machine EXCEPT !.ready = FALSE, !.jogging = FALSE]
                  \in [connected : BOOLEAN, ready : BOOLEAN, jogging : BOOLEAN]
           /\ [machine EXCEPT !.connected = FALSE, !.jogging = FALSE]
                  \in [connected : BOOLEAN, ready : BOOLEAN, jogging : BOOLEAN]
BY DEF StateType

-----------------------------------------------------------------------------
\* What the application does.
LEMMA InvApplication == Inv /\ Application => Inv'
<1> SUFFICES ASSUME Inv, Application PROVE Inv'
  OBVIOUS
<1>1. StateType /\ ChannelType /\ StopType /\ LeaseType
  BY DEF Inv
<1>2. UNCHANGED <<peer, status, up, events, lease, admitted, bridges>>
  BY DEF Application, Revoke, ChangeAxis, TurnDeadman, CancelJob, CancelTwice, PressEstop,
         CancelAgain, RecoverEstop, JogTimeout, Jog, JogRefusedByRadio, Stay
<1>3. stage' \in {"app", "again"}
  BY DEF Application, Revoke, ChangeAxis, TurnDeadman, CancelJob, CancelTwice, PressEstop,
         CancelAgain, RecoverEstop, JogTimeout, Jog, JogRefusedByRadio, Stay, At
<1>4. in' \in [deadman : BOOLEAN, estop : BOOLEAN]
  <2>1. CASE UNCHANGED in
    BY <1>1, <2>1 DEF StateType
  <2>2. CASE in' = [in EXCEPT !.deadman = ~@]
    BY <1>1, <2>2 DEF StateType
  <2>3. CASE in' = [in EXCEPT !.estop = TRUE] \/ in' = [in EXCEPT !.estop = FALSE]
    BY <1>1, <2>3 DEF StateType
  <2>4. QED
    BY <2>1, <2>2, <2>3 DEF Application, Revoke, ChangeAxis, TurnDeadman, CancelJob,
       CancelTwice, PressEstop, CancelAgain, RecoverEstop, JogTimeout, Jog, JogRefusedByRadio
<1>5. machine' \in [connected : BOOLEAN, ready : BOOLEAN, jogging : BOOLEAN]
  <2>1. CASE UNCHANGED machine
    BY <1>1, <2>1 DEF StateType
  <2>2. CASE ~UNCHANGED machine
    BY <1>1, <2>2, MachineUpdates DEF Application, Revoke, ChangeAxis, TurnDeadman, CancelJob,
       CancelTwice, PressEstop, CancelAgain, RecoverEstop, JogTimeout, Jog, JogRefusedByRadio,
       NotJogging
  <2>3. QED
    BY <2>1, <2>2
<1>6. StateType'
  BY <1>1, <1>2, <1>3, <1>4, <1>5 DEF StateType
<1>7. CASE CancelJog
  BY <1>2, <1>6, <1>7, CancelJogType, Reassemble
<1>8. CASE NoCancel
  BY <1>2, <1>6, <1>8, Silent DEF NoCancel
<1>9. CASE Jog
  <2>1. seq \in Seqs /\ seq \in 0..MaxSeq /\ seq' \in 1..(MaxSeq + 1)
    BY <1>1, <1>9, C3ConstantTypes DEF Jog, StopType, Seqs
  <2>2. down' \in [Peers -> Seq(Requests)]
    <3>1. [kind |-> "jog", seq |-> seq] \in Requests
      BY <2>1, MessageTypes
    <3>2. peer \in Peers
      BY <1>1, <1>9 DEF Jog, MayJog, StateType
    <3>3. QED
      BY <1>9, <3>1, <3>2, SendType DEF Jog
  <2>3. StopType'
    BY <1>1, <1>9, <2>1 DEF Jog, StopType
  <2>4. QED
    BY <1>2, <1>6, <2>2, <2>3, Reassemble
<1>10. QED
  BY <1>7, <1>8, <1>9 DEF Application, Revoke, ChangeAxis, TurnDeadman, CancelJob,
     CancelTwice, PressEstop, CancelAgain, RecoverEstop, JogTimeout, JogRefusedByRadio

\* Reading one packet: the pairing, or an event behind those already kept.
LEMMA InvReadPacket == \A p \in Peers : Inv /\ ReadPacket(p) => Inv'
<1> SUFFICES ASSUME NEW p \in Peers, Inv, ReadPacket(p) PROVE Inv'
  OBVIOUS
<1>1. StateType /\ ChannelType /\ StopType /\ LeaseType
  BY DEF Inv
<1>2. BackedAnswers' = BackedAnswers /\ BackedEvents' = BackedEvents
  BY DEF BackedAnswers, BackedEvents, Backed, ReadPacket
<1>3. up[p] \in Seq(BackedAnswers) /\ up[p] # <<>>
  BY <1>1 DEF ChannelType, ReadPacket
<1>4. Head(up[p]) \in BackedAnswers /\ Tail(up[p]) \in Seq(BackedAnswers)
  BY <1>3, TailType
<1>5. up' \in [Peers -> Seq(BackedAnswers)]
  BY <1>1, <1>4 DEF ChannelType, ReadPacket
<1>6. StateType'
  BY <1>1 DEF StateType, ReadPacket, At
<1>7. events' \in Seq(BackedEvents) /\ Len(events') <= EventLimit
  <2>1. CASE UNCHANGED events
    BY <1>1, <2>1 DEF ChannelType
  <2>2. CASE Head(up[p]).kind # "paired" /\ events' = Append(Kept(events), Head(up[p]))
    <3>1. Head(up[p]) \in BackedEvents
      BY <1>4, <2>2, AnswerIsEvent DEF BackedAnswers, BackedEvents
    <3>2. Kept(events) \in Seq(BackedEvents) /\ Len(Kept(events)) < EventLimit
      <4>1. events \in Seq(BackedEvents) /\ Len(events) <= EventLimit /\ Len(events) \in Nat
        BY <1>1 DEF ChannelType
      <4>2. CASE Len(events) >= EventLimit
        <5>1. events # <<>>
          BY <4>1, <4>2, C3ConstantTypes
        <5>2. Tail(events) \in Seq(BackedEvents) /\ Len(Tail(events)) = Len(events) - 1
          BY <4>1, <5>1, TailType
        <5>3. QED
          BY <4>1, <4>2, <5>2, C3ConstantTypes DEF Kept
      <4>3. CASE ~(Len(events) >= EventLimit)
        BY <4>1, <4>3, C3ConstantTypes DEF Kept
      <4>4. QED
        BY <4>2, <4>3
    <3>3. Append(Kept(events), Head(up[p])) \in Seq(BackedEvents)
          /\ Len(Append(Kept(events), Head(up[p]))) = Len(Kept(events)) + 1
          /\ Len(Kept(events)) \in Nat
      BY <3>1, <3>2
    <3>4. QED
      BY <2>2, <3>2, <3>3, C3ConstantTypes
  <2>3. QED
    BY <2>1, <2>2 DEF ReadPacket
<1>8. down' \in [Peers -> Seq(Requests)] /\ StopType' /\ LeaseType'
  BY <1>1 DEF ReadPacket, ChannelType, StopType, LeaseType
<1>9. QED
  BY <1>2, <1>5, <1>6, <1>7, <1>8 DEF Inv, ChannelType

\* Taking one event.
LEMMA InvConsume == Inv /\ (ConsumeStatus \/ ConsumeJogAck \/ ConsumeStopAck) => Inv'
<1> SUFFICES ASSUME Inv, ConsumeStatus \/ ConsumeJogAck \/ ConsumeStopAck PROVE Inv'
  OBVIOUS
<1>1. StateType /\ ChannelType /\ StopType /\ LeaseType
  BY DEF Inv
<1>2. events # <<>> /\ events' = Tail(events)
      /\ UNCHANGED <<in, peer, seq, down, up, lease, cancelled, admitted, bridges>>
      /\ stage' = "consume"
  BY DEF ConsumeStatus, ConsumeJogAck, ConsumeStopAck, Consuming, At, history
<1>3. BackedAnswers' = BackedAnswers /\ BackedEvents' = BackedEvents
  BY <1>2 DEF BackedAnswers, BackedEvents, Backed
<1>4. events' \in Seq(BackedEvents) /\ Len(events') <= EventLimit
      /\ Head(events) \in BackedEvents
  <2>1. events \in Seq(BackedEvents) /\ Len(events) \in Nat /\ Len(events) <= EventLimit
    BY <1>1 DEF ChannelType
  <2>2. Head(events) \in BackedEvents /\ Tail(events) \in Seq(BackedEvents)
        /\ Len(Tail(events)) = Len(events) - 1
    BY <1>2, <2>1, TailType
  <2>3. QED
    BY <1>2, <2>1, <2>2, C3ConstantTypes
<1>5. ChannelType' /\ LeaseType'
  BY <1>1, <1>2, <1>3, <1>4 DEF ChannelType, LeaseType
<1>6. CASE ConsumeStatus
  <2>1. machine' \in [connected : BOOLEAN, ready : BOOLEAN, jogging : BOOLEAN]
    BY <1>6 DEF ConsumeStatus
  <2>2. status' \in [fresh : BOOLEAN, peer : Peers \cup {"none"}]
    BY <1>1, <1>6 DEF ConsumeStatus, StateType
  <2>3. StopType'
    BY <1>1, <1>2, <1>6 DEF ConsumeStatus, StopType
  <2>4. QED
    BY <1>1, <1>2, <1>5, <2>1, <2>2, <2>3 DEF Inv, StateType
<1>7. CASE ConsumeJogAck
  <2>1. CASE UNCHANGED <<pending, machine>>
    BY <1>1, <1>2, <1>5, <1>7, <2>1 DEF ConsumeJogAck, Inv, StateType, StopType
  <2>2. CASE /\ pending' = 0
             /\ machine' = [machine EXCEPT !.jogging = @ /\ Head(events).ok]
    <3>1. Head(events).ok \in BOOLEAN
      BY <1>4, <1>7 DEF ConsumeJogAck, Consuming, BackedEvents, Events
    <3>2. machine' \in [connected : BOOLEAN, ready : BOOLEAN, jogging : BOOLEAN]
      BY <1>1, <2>2, <3>1 DEF StateType
    <3>3. StopType'
      BY <1>1, <1>2, <1>7, <2>2, C3ConstantTypes DEF ConsumeJogAck, StopType
    <3>4. QED
      BY <1>1, <1>2, <1>5, <1>7, <3>2, <3>3 DEF ConsumeJogAck, Inv, StateType
  <2>3. QED
    BY <1>7, <2>1, <2>2 DEF ConsumeJogAck
<1>8. CASE ConsumeStopAck
  <2>1. stop' \in [pending : BOOLEAN, seq : 0..MaxSeq, sent : BOOLEAN, attempts : 0..MaxAttempts]
    <3>1. 0 \in 0..MaxSeq
      BY C3ConstantTypes
    <3>2. CASE UNCHANGED stop
      BY <1>1, <3>2 DEF StopType
    <3>3. CASE stop' = [stop EXCEPT !.pending = FALSE, !.seq = 0, !.sent = FALSE]
      BY <1>1, <3>1, <3>3 DEF StopType
    <3>4. QED
      BY <1>8, <3>2, <3>3 DEF ConsumeStopAck
  <2>2. StopType'
    BY <1>1, <1>2, <1>8, <2>1 DEF ConsumeStopAck, StopType
  <2>3. QED
    BY <1>1, <1>2, <1>5, <1>8, <2>2 DEF ConsumeStopAck, Inv, StateType
<1>9. QED
  BY <1>6, <1>7, <1>8

\* The rest of controller.poll.
LEMMA InvPoll == Inv /\ Poll => Inv'
<1> SUFFICES ASSUME Inv, Poll PROVE Inv'
  OBVIOUS
<1>1. StateType /\ ChannelType /\ StopType /\ LeaseType
  BY DEF Inv
<1>2. CASE StartPoll
  <2>1. StateType'
    BY <1>1, <1>2 DEF StartPoll, At, StateType, history
  <2>2. QED
    BY <1>2, <2>1, Silent DEF StartPoll, history
<1>3. CASE RadioFault
  <2>1. StateType'
    BY <1>1, <1>3, MachineUpdates DEF RadioFault, At, StateType
  <2>2. QED
    BY <1>3, <2>1, CancelJogType, Reassemble DEF RadioFault
<1>4. CASE StopReading
  <2>1. StateType' /\ StopType'
    BY <1>1, <1>4 DEF StopReading, At, StateType, StopType, pendant, history
  <2>2. down' \in [Peers -> Seq(Requests)]
    <3>1. CASE UNCHANGED down
      BY <1>1, <3>1 DEF ChannelType
    <3>2. CASE down' = [p \in Peers |-> Put(down[p], [kind |-> "pair"], MaxDown)]
      <4>1. \A p \in Peers : Put(down[p], [kind |-> "pair"], MaxDown) \in Seq(Requests)
        BY <1>1, MessageTypes, PutType DEF ChannelType
      <4>2. QED
        BY <3>2, <4>1
    <3>3. QED
      BY <1>4, <3>1, <3>2 DEF StopReading
  <2>3. QED
    BY <1>4, <2>1, <2>2, Reassemble DEF StopReading, pendant, history
<1>5. Timing => stage' = "online"
                /\ UNCHANGED <<in, peer, status, events, up, lease, admitted, bridges>>
  BY DEF Timing
<1>6. CASE NothingDue
  <2>1. StateType'
    BY <1>1, <1>5, <1>6 DEF NothingDue, StateType
  <2>2. QED
    BY <1>5, <1>6, <2>1, Silent DEF NothingDue, NoCancel
<1>7. CASE RetryStop
  <2>1. StateType'
    BY <1>1, <1>5, <1>7 DEF RetryStop, StateType
  <2>2. stop.attempts \in 0..MaxAttempts /\ stop.attempts < MaxAttempts
    BY <1>1, <1>7 DEF RetryStop, StopType
  <2>3. down' \in [Peers -> Seq(Requests)] /\ seq' \in 1..(MaxSeq + 1)
        /\ stop' \in [pending : BOOLEAN, seq : 0..MaxSeq, sent : BOOLEAN,
                      attempts : 0..MaxAttempts]
    BY <1>7, <2>2, SendStopType DEF RetryStop
  <2>4. StopType'
    BY <1>1, <1>7, <2>3 DEF RetryStop, StopType
  <2>5. QED
    BY <1>5, <1>7, <2>1, <2>3, <2>4, Reassemble DEF RetryStop
<1>8. CASE JogAckTimeout
  <2>1. StateType'
    BY <1>1, <1>5, <1>8, MachineUpdates DEF JogAckTimeout, NotJogging, StateType
  <2>2. QED
    BY <1>5, <1>8, <2>1, CancelJogType, Reassemble DEF JogAckTimeout
<1>9. CASE GoOnline
  <2>1. StateType'
    BY <1>1, <1>9, MachineUpdates DEF GoOnline, At, StateType, history
  <2>2. QED
    BY <1>9, <2>1, Silent DEF GoOnline, history
<1>10. CASE GoOffline
  <2>1. StateType'
    BY <1>1, <1>10 DEF GoOffline, At, StateType
  <2>2. CASE CancelJog
    BY <1>10, <2>1, <2>2, CancelJogType, Reassemble DEF GoOffline
  <2>3. CASE NoCancel
    BY <1>10, <2>1, <2>3, Silent DEF GoOffline, NoCancel
  <2>4. QED
    BY <1>10, <2>2, <2>3 DEF GoOffline
<1>11. QED
  BY <1>2, <1>3, <1>4, <1>6, <1>7, <1>8, <1>9, <1>10, InvReadPacket, InvConsume DEF Poll

\* Steps of a bridge leave the pendant alone.
LEMMA BetweenKeeps ==
    ASSUME Inv, Between, UNCHANGED <<cancelled, bridges>>
    PROVE  StateType' /\ StopType'
BY DEF Inv, Between, pendant, StateType, StopType

\* A bridge's answer, backed by what it has admitted by then.
LEMMA AnswerType ==
    ASSUME Inv, admitted \subseteq admitted', NEW p \in Peers, NEW msg \in BackedAnswers',
           Answer(p, msg)
    PROVE  up' \in [Peers -> Seq(BackedAnswers')]
<1>1. up \in [Peers -> Seq(BackedAnswers)]
  BY DEF Inv, ChannelType
<1>2. \A q \in Seq(BackedAnswers) : q \in Seq(BackedAnswers')
  BY BackedGrows
<1>3. up[p] \in Seq(BackedAnswers')
  BY <1>1, <1>2
<1>4. Put(up[p], msg, MaxUp) \in Seq(BackedAnswers')
  BY <1>3, PutType
<1>5. QED
  BY <1>1, <1>2, <1>4 DEF Answer

\* What is left to show of a bridge's step.
LEMMA BridgeReassemble ==
    ASSUME Inv, Between, UNCHANGED <<cancelled, bridges>>, admitted \subseteq admitted',
           down' \in [Peers -> Seq(Requests)], up' \in [Peers -> Seq(BackedAnswers')], LeaseType'
    PROVE  Inv'
<1>1. events' \in Seq(BackedEvents') /\ Len(events') <= EventLimit
  <2>1. events \in Seq(BackedEvents) /\ Len(events) <= EventLimit /\ events' = events
    BY DEF Inv, ChannelType, Between, pendant
  <2>2. QED
    BY <2>1, BackedGrows
<1>2. QED
  BY <1>1, BetweenKeeps DEF Inv, ChannelType

\* Taking a packet leaves packets, and numbers the one taken.
LEMMA TakeType ==
    ASSUME Inv, NEW p \in Peers, NEW kind, Take(p, kind)
    PROVE  /\ down' \in [Peers -> Seq(Requests)]
           /\ kind \in {"jog", "stop"} => Head(down[p]).seq \in Seqs
           /\ Between /\ UNCHANGED <<cancelled, bridges>>
<1>1. down \in [Peers -> Seq(Requests)] /\ down[p] # <<>>
  BY DEF Inv, ChannelType, Take
<1>2. Head(down[p]) \in Requests /\ Tail(down[p]) \in Seq(Requests)
  BY <1>1, TailType
<1>3. QED
  BY <1>1, <1>2, RequestSeq DEF Take

\* What is said without a jog being accepted needs nothing behind it.
LEMMA PlainAnswers ==
    /\ [kind |-> "paired"] \in BackedAnswers'
    /\ \A r \in Reports : [kind |-> "status", state |-> r] \in BackedAnswers'
    /\ \A n \in Seqs : [kind |-> "stopAck", seq |-> n] \in BackedAnswers'
                       /\ [kind |-> "jogAck", seq |-> n, ok |-> FALSE] \in BackedAnswers'
BY MessageTypes DEF BackedAnswers, Backed

\* What a bridge does, and what the radio loses.
LEMMA InvBridge == \A p \in Peers : Inv /\ Bridge(p) => Inv'
<1> SUFFICES ASSUME NEW p \in Peers, Inv, Bridge(p) PROVE Inv'
  OBVIOUS
<1>1. ChannelType /\ LeaseType
  BY DEF Inv
<1>2. 0 \in 0..MaxSeq /\ Seqs \subseteq 0..MaxSeq
  BY C3ConstantTypes DEF Seqs
<1>3. [lease EXCEPT ![p] = Revoked] \in [Peers -> [active : BOOLEAN, last : 0..MaxSeq]]
  BY <1>1, <1>2 DEF LeaseType, Revoked
<1>4. CASE BridgePairs(p)
  <2>1. LeaseType' /\ admitted \subseteq admitted'
    BY <1>1, <1>4 DEF BridgePairs, LeaseType
  <2>2. QED
    BY <1>4, <2>1, TakeType, PlainAnswers, AnswerType, BridgeReassemble DEF BridgePairs
<1>5. CASE BridgeAdmits(p)
  <2> DEFINE n == Head(down[p]).seq
             yes == [kind |-> "jogAck", seq |-> n, ok |-> TRUE]
  <2>1. /\ Take(p, "jog") /\ Answer(p, yes) /\ admitted' = admitted \cup {n}
        /\ lease' = [lease EXCEPT ![p] = [active |-> TRUE, last |-> n]]
    BY <1>5 DEF BridgeAdmits
  <2>2. n \in Seqs /\ down' \in [Peers -> Seq(Requests)] /\ Between
        /\ UNCHANGED <<cancelled, bridges>>
    BY <2>1, TakeType
  <2>3. LeaseType' /\ admitted \subseteq admitted'
    BY <1>1, <1>2, <2>1, <2>2 DEF LeaseType
  <2>4. yes \in BackedAnswers'
    <3>1. yes \in Answers
      BY <2>2, MessageTypes
    <3>2. yes.seq \in admitted'
      BY <2>1
    <3>3. QED
      BY <3>1, <3>2 DEF BackedAnswers, Backed
  <2>5. up' \in [Peers -> Seq(BackedAnswers')]
    BY <2>1, <2>3, <2>4, AnswerType
  <2>6. QED
    BY <2>2, <2>3, <2>5, BridgeReassemble
<1>6. CASE BridgeRefuses(p)
  <2>1. LeaseType' /\ admitted \subseteq admitted'
    BY <1>1, <1>3, <1>6 DEF BridgeRefuses, LeaseType
  <2>2. Head(down[p]).seq \in Seqs /\ down' \in [Peers -> Seq(Requests)] /\ Between
        /\ UNCHANGED <<cancelled, bridges>>
    BY <1>6, TakeType DEF BridgeRefuses
  <2>3. up' \in [Peers -> Seq(BackedAnswers')]
    BY <1>6, <2>1, <2>2, PlainAnswers, AnswerType DEF BridgeRefuses
  <2>4. QED
    BY <2>1, <2>2, <2>3, BridgeReassemble
<1>7. CASE BridgeStops(p)
  <2>1. LeaseType' /\ admitted \subseteq admitted'
    BY <1>1, <1>3, <1>7 DEF BridgeStops, LeaseType
  <2>2. Head(down[p]).seq \in Seqs /\ down' \in [Peers -> Seq(Requests)] /\ Between
        /\ UNCHANGED <<cancelled, bridges>>
    BY <1>7, TakeType DEF BridgeStops
  <2>3. up' \in [Peers -> Seq(BackedAnswers')]
    BY <1>7, <2>1, <2>2, PlainAnswers, AnswerType DEF BridgeStops
  <2>4. QED
    BY <2>1, <2>2, <2>3, BridgeReassemble
<1>8. CASE LeaseExpires(p)
  <2>1. LeaseType' /\ UNCHANGED <<down, up, admitted, cancelled, bridges>> /\ Between
    BY <1>1, <1>3, <1>8 DEF LeaseExpires, LeaseType, history
  <2>2. BackedAnswers' = BackedAnswers
    BY <2>1 DEF BackedAnswers, Backed
  <2>3. down' \in [Peers -> Seq(Requests)] /\ up' \in [Peers -> Seq(BackedAnswers')]
    BY <1>1, <2>1, <2>2 DEF ChannelType
  <2>4. QED
    BY <2>1, <2>3, BridgeReassemble
<1>9. CASE BridgeReports(p)
  <2>1. LeaseType' /\ UNCHANGED <<down, admitted, cancelled, bridges>> /\ Between
    BY <1>1, <1>9 DEF BridgeReports, LeaseType, history
  <2>2. PICK r \in Reports : Answer(p, [kind |-> "status", state |-> r])
    BY <1>9 DEF BridgeReports
  <2>3. up' \in [Peers -> Seq(BackedAnswers')]
    BY <2>1, <2>2, PlainAnswers, AnswerType
  <2>4. down' \in [Peers -> Seq(Requests)]
    BY <1>1, <2>1 DEF ChannelType
  <2>5. QED
    BY <2>1, <2>3, <2>4, BridgeReassemble
<1>10. CASE Lose(p)
  <2>1. LeaseType' /\ UNCHANGED <<admitted, cancelled, bridges>> /\ Between
    BY <1>1, <1>10 DEF Lose, LeaseType, history
  <2>2. BackedAnswers' = BackedAnswers
    BY <2>1 DEF BackedAnswers, Backed
  <2>3. down' \in [Peers -> Seq(Requests)] /\ up' \in [Peers -> Seq(BackedAnswers)]
    <3>1. CASE down[p] # <<>> /\ down' = [down EXCEPT ![p] = Tail(@)] /\ UNCHANGED up
      <4>1. Tail(down[p]) \in Seq(Requests)
        BY <1>1, <3>1, TailType DEF ChannelType
      <4>2. QED
        BY <1>1, <3>1, <4>1 DEF ChannelType
    <3>2. CASE up[p] # <<>> /\ up' = [up EXCEPT ![p] = Tail(@)] /\ UNCHANGED down
      <4>1. Tail(up[p]) \in Seq(BackedAnswers)
        BY <1>1, <3>2, TailType DEF ChannelType
      <4>2. QED
        BY <1>1, <3>2, <4>1 DEF ChannelType
    <3>3. QED
      BY <1>10, <3>1, <3>2 DEF Lose
  <2>4. QED
    BY <2>1, <2>2, <2>3, BridgeReassemble
<1>11. QED
  BY <1>4, <1>5, <1>6, <1>7, <1>8, <1>9, <1>10 DEF Bridge

-----------------------------------------------------------------------------
\* The pendant and the bridges start with nothing sent.
LEMMA InvInit == Init => Inv
<1> SUFFICES ASSUME Init PROVE Inv
  OBVIOUS
<1>1. ChannelType
  BY C3ConstantTypes DEF Init, ChannelType
<1>2. StopType
  BY C3ConstantTypes DEF Init, StopType
<1>3. StateType
  BY DEF Init, StateType
<1>4. LeaseType
  BY C3ConstantTypes DEF Init, LeaseType, Revoked
<1>5. QED
  BY <1>1, <1>2, <1>3, <1>4 DEF Inv

\* Inv holds throughout.
LEMMA InvAlways == Spec => []Inv
<1>1. ASSUME Inv, [Next]_vars PROVE Inv'
  <2>1. CASE Next
    BY <1>1, <2>1, InvApplication, InvPoll, InvBridge DEF Next
  <2>2. CASE UNCHANGED vars
    <3>1. UNCHANGED <<up, events, lease, admitted, down, pending, stop, seq, cancelled>>
          /\ StateType'
      BY <1>1, <2>2 DEF vars, pendant, history, Inv, StateType
    <3>2. QED
      BY <1>1, <3>1, Silent
  <2>3. QED
    BY <1>1, <2>1, <2>2
<1>2. QED
  BY <1>1, InvInit, PTL DEF Spec

\* TypeOK: every variable of the pendant, the bridges and the radio keeps its
\* type, and C3PairingBench.events its limit of EventLimit.
THEOREM C3TypeCorrect == Spec => []TypeOK
<1>1. Inv => TypeOK
  <2> SUFFICES ASSUME Inv PROVE TypeOK
    OBVIOUS
  <2>1. BackedAnswers \subseteq Answers /\ BackedEvents \subseteq Events
    BY DEF BackedAnswers, BackedEvents
  <2>2. ASSUME NEW S, NEW T, S \subseteq T, NEW q \in Seq(S)
        PROVE  q \in Seq(T)
    BY <2>2
  <2>3. events \in Seq(Events) /\ Len(events) <= EventLimit
    BY <2>1, <2>2 DEF Inv, ChannelType
  <2>4. up \in [Peers -> Seq(Answers)]
    <3>1. \A q \in Seq(BackedAnswers) : q \in Seq(Answers)
      BY <2>1, <2>2
    <3>2. QED
      BY <3>1 DEF Inv, ChannelType
  <2>5. QED
    BY <2>3, <2>4 DEF TypeOK, Inv, ChannelType, StopType, StateType, LeaseType
<1>2. QED
  BY <1>1, InvAlways, PTL

\* Between its two cancels an E-stop or JOB_CANCEL has left no jog pending.
AgainIsQuiet == stage = "again" => pending = 0

LEMMA AgainAlways == Spec => []AgainIsQuiet
<1>1. Init => AgainIsQuiet
  BY DEF Init, AgainIsQuiet
<1>2. ASSUME AgainIsQuiet, [Next]_vars PROVE AgainIsQuiet'
  <2>1. CASE Application
    <3>1. CASE CancelTwice
      BY <3>1 DEF CancelTwice, CancelJog, AgainIsQuiet
    <3>2. CASE Stay \/ CancelAgain
      BY <3>2 DEF Stay, CancelAgain, At, AgainIsQuiet
    <3>3. QED
      BY <2>1, <3>1, <3>2 DEF Application, Revoke, ChangeAxis, TurnDeadman, CancelJob,
         PressEstop, RecoverEstop, JogTimeout, Jog, JogRefusedByRadio
  <2>2. CASE Poll
    BY <2>2 DEF Poll, StartPoll, ReadPacket, RadioFault, StopReading, ConsumeStatus,
       ConsumeJogAck, ConsumeStopAck, Consuming, NothingDue, RetryStop, JogAckTimeout, Timing,
       GoOnline, GoOffline, At, AgainIsQuiet
  <2>3. CASE Between
    BY <1>2, <2>3 DEF Between, pendant, AgainIsQuiet
  <2>4. CASE UNCHANGED vars
    BY <1>2, <2>4 DEF vars, pendant, AgainIsQuiet
  <2>5. QED
    BY <1>2, <2>1, <2>2, <2>3, <2>4 DEF Next, Bridge, BridgePairs, BridgeAdmits,
       BridgeRefuses, BridgeStops, LeaseExpires, BridgeReports, Lose, Take
<1>3. QED
  BY <1>1, <1>2, PTL DEF Spec

\* AcceptedWasAdmitted: a jog that stops pending while the pendant goes on
\* jogging is one a bridge admitted; the other ways to forget a pending jog
\* (cancel_jog, a refusal) end the jogging too.
THEOREM C3AcceptedWasAdmitted == Spec => AcceptedWasAdmitted
<1>1. ASSUME Inv, AgainIsQuiet, Next,
             pending # 0, pending' = 0, machine.jogging, machine'.jogging
      PROVE  pending \in admitted
  <2>1. machine \in [connected : BOOLEAN, ready : BOOLEAN, jogging : BOOLEAN]
    BY <1>1 DEF Inv, StateType
  <2>2. pending' # pending
    BY <1>1
  <2>3. ~NotJogging
    BY <1>1, <2>1 DEF NotJogging
  <2>4. ~NoCancel
    BY <2>2 DEF NoCancel
  <2>5. CASE ConsumeJogAck
    <3>1. events \in Seq(BackedEvents) /\ events # <<>> /\ Head(events).kind = "jogAck"
      BY <1>1, <2>5 DEF Inv, ChannelType, ConsumeJogAck, Consuming
    <3>2. Head(events) \in BackedEvents
      BY <3>1, TailType
    <3>3. ThisJogAck(Head(events))
          /\ machine' = [machine EXCEPT !.jogging = @ /\ Head(events).ok]
      BY <2>2, <2>5 DEF ConsumeJogAck
    <3>4. Head(events).seq = pending
      BY <3>3 DEF ThisJogAck
    <3>5. Head(events).ok
      BY <1>1, <2>1, <3>3
    <3>6. QED
      BY <3>1, <3>2, <3>4, <3>5 DEF BackedEvents, Backed
  <2>6. CASE Application
    <3>1. ~PressEstop
      BY <1>1, <2>1 DEF PressEstop
    <3>2. ~CancelAgain
      BY <1>1 DEF CancelAgain, At, AgainIsQuiet
    <3>3. ~Jog
      <4>1. ASSUME Jog PROVE pending' = seq /\ seq \in Nat \ {0}
        BY <1>1, <4>1 DEF Jog, Inv, StopType
      <4>2. QED
        BY <1>1, <4>1
    <3>4. ~ChangeAxis /\ ~TurnDeadman
      BY <2>3, <2>4 DEF ChangeAxis, TurnDeadman
    <3>5. QED
      BY <2>3, <2>4, <2>6, <3>1, <3>2, <3>3, <3>4 DEF Application, Revoke, CancelJob,
         RecoverEstop, JogTimeout, JogRefusedByRadio
  <2>7. CASE Poll
    <3>1. ~RadioFault /\ ~GoOffline
      <4>1. RadioFault => ~machine'.jogging
        BY <2>1 DEF RadioFault
      <4>2. GoOffline => ~machine'.jogging
        BY DEF GoOffline
      <4>3. QED
        BY <1>1, <4>1, <4>2
    <3>2. ~StartPoll /\ ~StopReading /\ ~(\E p \in Peers : ReadPacket(p))
          /\ ~ConsumeStatus /\ ~ConsumeStopAck /\ ~NothingDue /\ ~RetryStop /\ ~GoOnline
      BY <2>2, <2>4 DEF StartPoll, StopReading, ReadPacket, ConsumeStatus, ConsumeStopAck,
         NothingDue, RetryStop, GoOnline, pendant
    <3>3. ~JogAckTimeout
      BY <2>3 DEF JogAckTimeout
    <3>4. QED
      BY <2>5, <2>7, <3>1, <3>2, <3>3 DEF Poll
  <2>8. ~Between
    BY <2>2 DEF Between, pendant
  <2>9. QED
    BY <1>1, <2>6, <2>7, <2>8 DEF Next, Bridge, BridgePairs, BridgeAdmits, BridgeRefuses,
       BridgeStops, LeaseExpires, BridgeReports, Lose, Take
<1>2. ASSUME Inv, AgainIsQuiet, [Next]_vars
      PROVE  [pending # 0 /\ pending' = 0 /\ machine.jogging /\ machine'.jogging
                  => pending \in admitted]_vars
  BY <1>1, <1>2
<1>3. QED
  BY <1>2, InvAlways, AgainAlways, PTL DEF Spec, AcceptedWasAdmitted

-----------------------------------------------------------------------------
(* Why a cancelled jog is over: what a bridge has passed, and what follows  *)
(* the STOP that is owed.                                                   *)

\* Nothing numbered in a channel has reached n; no jog of it is as old as n.
Below(q, n) == \A i \in 1..Len(q) : q[i].kind \in {"jog", "stop"} => q[i].seq < n
JogsBelow(q, n) == \A i \in 1..Len(q) : q[i].kind = "jog" => q[i].seq < n
JogsAbove(q, n) == \A i \in 1..Len(q) : q[i].kind = "jog" => q[i].seq > n
\* The jogs behind a STOP are newer than it.
InOrder(q) ==
    \A i, j \in 1..Len(q) :
        i < j /\ q[i].kind = "stop" /\ q[j].kind = "jog" => q[i].seq < q[j].seq

\* The bridge neither executes nor will receive a jog as old as n.
Passed(p, n) == (lease[p].active => lease[p].last > n) /\ JogsAbove(down[p], n)
\* Nothing the bridge has seen or will receive is as new as n.
Before(p, n) == lease[p].last < n /\ JogsBelow(down[p], n)

Sent ==
    /\ cancelled < seq /\ stop.seq < seq
    /\ peer \in bridges \cup {"none"}
    /\ \A p \in Peers : InOrder(down[p]) /\ Below(down[p], seq) /\ lease[p].last < seq

\* A bridge the pendant has never known has no jog.
Strangers == \A p \in Peers \ bridges : JogsBelow(down[p], 0) /\ ~lease[p].active

\* An acknowledged STOP is one its bridge has passed.
Acknowledged ==
    \A p \in Peers : \A i \in 1..Len(up[p]) :
        up[p][i].kind = "stopAck" => up[p][i].seq < seq /\ Passed(p, up[p][i].seq)

OneBridge == Cardinality(bridges) <= 1

EventsAcknowledged ==
    OneBridge =>
        \A i \in 1..Len(events) :
            events[i].kind = "stopAck" =>
                events[i].seq < seq /\ \A p \in Peers : Passed(p, events[i].seq)

\* No jog is sent while a STOP is owed.
NoJogSinceStop == stop.seq # 0 => stop.pending /\ \A p \in Peers : Before(p, stop.seq)

OverInv ==
    /\ Sent /\ Strangers /\ Acknowledged /\ EventsAcknowledged /\ NoJogSinceStop
    /\ CancelledJogIsOver

-----------------------------------------------------------------------------
(* Channels that change.                                                    *)

LEMMA ChannelTail ==
    ASSUME NEW q \in Seq(Requests), q # <<>>, NEW n \in Int
    PROVE  /\ Below(q, n) => Below(Tail(q), n)
           /\ JogsBelow(q, n) => JogsBelow(Tail(q), n)
           /\ JogsAbove(q, n) => JogsAbove(Tail(q), n)
           /\ InOrder(q) => InOrder(Tail(q))
<1> DEFINE r == Tail(q)
<1>1. /\ Len(r) \in Nat
      /\ \A i \in 1..Len(r) : i + 1 \in 1..Len(q) /\ r[i] = q[i + 1]
  OBVIOUS
<1> HIDE DEF r
<1>2. InOrder(q) => InOrder(r)
  <2> SUFFICES ASSUME InOrder(q), NEW i \in 1..Len(r), NEW j \in 1..Len(r), i < j,
                      r[i].kind = "stop", r[j].kind = "jog"
               PROVE  r[i].seq < r[j].seq
    BY DEF InOrder
  <2>1. i + 1 \in 1..Len(q) /\ j + 1 \in 1..Len(q) /\ i + 1 < j + 1
    BY <1>1
  <2> QED
    BY <1>1, <2>1 DEF InOrder
<1>3. /\ Below(q, n) => Below(r, n)
      /\ JogsBelow(q, n) => JogsBelow(r, n)
      /\ JogsAbove(q, n) => JogsAbove(r, n)
  BY <1>1 DEF Below, JogsBelow, JogsAbove
<1> QED
  BY <1>2, <1>3 DEF r

LEMMA ChannelPut ==
    ASSUME NEW q \in Seq(Requests), NEW m \in Requests, NEW room, NEW n \in Int
    PROVE  /\ Below(q, n) /\ (m.kind \in {"jog", "stop"} => m.seq < n)
                  => Below(Put(q, m, room), n)
           /\ JogsBelow(q, n) /\ (m.kind = "jog" => m.seq < n) => JogsBelow(Put(q, m, room), n)
           /\ JogsAbove(q, n) /\ (m.kind = "jog" => m.seq > n) => JogsAbove(Put(q, m, room), n)
           /\ InOrder(q) /\ (m.kind = "jog" => Below(q, m.seq)) => InOrder(Put(q, m, room))
<1>1. CASE Put(q, m, room) = q
  BY <1>1
<1>2. CASE Put(q, m, room) = Append(q, m)
  <2> DEFINE r == Append(q, m)
  <2>1. /\ Len(q) \in Nat /\ Len(r) = Len(q) + 1 /\ r[Len(q) + 1] = m
        /\ \A i \in 1..Len(q) : r[i] = q[i]
        /\ \A i \in 1..(Len(q) + 1) : i = Len(q) + 1 \/ i \in 1..Len(q)
    OBVIOUS
  <2> HIDE DEF r
  <2>2. /\ Below(q, n) /\ (m.kind \in {"jog", "stop"} => m.seq < n) => Below(r, n)
        /\ JogsBelow(q, n) /\ (m.kind = "jog" => m.seq < n) => JogsBelow(r, n)
        /\ JogsAbove(q, n) /\ (m.kind = "jog" => m.seq > n) => JogsAbove(r, n)
    BY <2>1 DEF Below, JogsBelow, JogsAbove
  <2>3. InOrder(q) /\ (m.kind = "jog" => Below(q, m.seq)) => InOrder(r)
    <3> SUFFICES ASSUME InOrder(q), m.kind = "jog" => Below(q, m.seq),
                        NEW i \in 1..Len(r), NEW j \in 1..Len(r), i < j,
                        r[i].kind = "stop", r[j].kind = "jog"
                 PROVE  r[i].seq < r[j].seq
      BY DEF InOrder
    <3>1. i \in 1..Len(q) /\ r[i] = q[i]
      BY <2>1
    <3>2. CASE j = Len(q) + 1
      BY <2>1, <3>1, <3>2 DEF Below
    <3>3. CASE j # Len(q) + 1
      <4>1. j \in 1..Len(q) /\ r[j] = q[j]
        BY <2>1, <3>3
      <4> QED
        BY <3>1, <4>1 DEF InOrder
    <3> QED
      BY <3>2, <3>3
  <2>4. Put(q, m, room) = r
    BY <1>2 DEF r
  <2> QED
    BY <2>2, <2>3, <2>4
<1> QED
  BY <1>1, <1>2 DEF Put

\* The jogs behind a STOP that is taken are newer, whether it is taken off or not.
LEMMA StopPassed ==
    ASSUME NEW q \in Seq(Requests), q # <<>>, InOrder(q), Head(q).kind = "stop"
    PROVE  JogsAbove(q, Head(q).seq)
<1>1. Len(q) \in Nat /\ 1 \in 1..Len(q) /\ Head(q) = q[1]
  OBVIOUS
<1>2. ASSUME NEW i \in 1..Len(q), q[i].kind = "jog" PROVE q[i].seq > Head(q).seq
  <2>1. i # 1 /\ 1 < i
    BY <1>1, <1>2
  <2>2. q[1].seq < q[i].seq
    BY <1>1, <1>2, <2>1 DEF InOrder
  <2>3. q[1] \in Requests /\ q[i] \in Requests
    BY <1>1
  <2>4. q[1].seq \in Seqs /\ q[i].seq \in Seqs
    BY <1>1, <1>2, <2>3, RequestSeq
  <2> QED
    BY <1>1, <2>2, <2>4 DEF Seqs
<1> QED
  BY <1>2 DEF JogsAbove

-----------------------------------------------------------------------------
(* What a step does to each bridge's channel and lease.                     *)

Carries(p) ==
    \/ down'[p] = down[p]
    \/ down[p] # <<>> /\ down'[p] = Tail(down[p])
    \/ down'[p] = Put(down[p], [kind |-> "pair"], MaxDown)
    \/ \E kind \in {"jog", "stop"} :
           /\ p = peer /\ seq \in Seqs /\ seq' = seq + 1
           /\ kind = "jog" => ~stop.pending /\ UNCHANGED stop
           /\ down'[p] = Put(down[p], [kind |-> kind, seq |-> seq], MaxDown)

Leases(p) ==
    \/ lease'[p] = lease[p]
    \/ lease'[p] = Revoked
    \/ /\ down[p] # <<>> /\ Head(down[p]).kind = "jog"
       /\ lease'[p] = [active |-> TRUE, last |-> Head(down[p]).seq]

\* Steps that change no lease and read nothing from the radio.
Calm ==
    /\ UNCHANGED <<up, lease, bridges>> /\ peer' \in {peer, "none"}
    /\ events' = events \/ (events # <<>> /\ events' = Tail(events))
Pairs ==
    /\ UNCHANGED <<seq, stop, cancelled>>
    /\ \A p \in Peers : down'[p] = down[p] \/ down'[p] = Put(down[p], [kind |-> "pair"], MaxDown)
Owes ==
    /\ \E attempts \in 0..MaxAttempts : SendStop(attempts)
    /\ cancelled' \in {cancelled, seq - 1}

\* The steps of the pendant and of the bridges, by what they mean for a jog.
LEMMA Shapes ==
    ASSUME Inv, Next
    PROVE  \/ Calm /\ (Pairs \/ Owes \/ Jog \/ ConsumeStopAck)
           \/ \E p \in Peers : ReadPacket(p) \/ Bridge(p)
<1>1. /\ stop.attempts \in 0..MaxAttempts /\ 0 \in 0..MaxAttempts
  BY C3ConstantTypes DEF Inv, StopType
<1>2. ASSUME CancelJog PROVE Owes
  BY <1>1, <1>2 DEF CancelJog, Owes
<1>3. ASSUME NoCancel PROVE Pairs
  BY <1>3 DEF NoCancel, Pairs
<1>4. CASE Application
  <2>1. Calm
    BY <1>4 DEF Application, Revoke, ChangeAxis, TurnDeadman, CancelJob, CancelTwice,
       PressEstop, CancelAgain, RecoverEstop, JogTimeout, Jog, JogRefusedByRadio, Stay, Calm
  <2>2. CancelJog \/ NoCancel \/ Jog
    BY <1>4 DEF Application, Revoke, ChangeAxis, TurnDeadman, CancelJob, CancelTwice,
       PressEstop, CancelAgain, RecoverEstop, JogTimeout, JogRefusedByRadio
  <2> QED
    BY <1>2, <1>3, <2>1, <2>2
<1>5. CASE Poll
  <2>1. CASE StartPoll \/ GoOnline
    BY <2>1 DEF StartPoll, GoOnline, Calm, Pairs, history
  <2>2. CASE StopReading
    <3>1. UNCHANGED <<up, lease, bridges, peer, events, seq, stop, cancelled>>
      BY <2>2 DEF StopReading, pendant, history
    <3>2. \A p \in Peers : down'[p] = down[p]
                           \/ down'[p] = Put(down[p], [kind |-> "pair"], MaxDown)
      BY <2>2 DEF StopReading
    <3> QED
      BY <3>1, <3>2 DEF Calm, Pairs
  <2>3. CASE RadioFault \/ JogAckTimeout
    BY <1>2, <2>3 DEF RadioFault, JogAckTimeout, Timing, Calm
  <2>4. CASE NothingDue
    BY <1>3, <2>4 DEF NothingDue, Timing, Calm
  <2>5. CASE ConsumeStatus \/ ConsumeJogAck
    <3>1. UNCHANGED <<up, lease, bridges, peer, seq, stop, cancelled, down>>
          /\ events # <<>> /\ events' = Tail(events)
      BY <2>5 DEF ConsumeStatus, ConsumeJogAck, Consuming, history
    <3> QED
      BY <3>1 DEF Calm, Pairs
  <2>6. CASE ConsumeStopAck
    BY <2>6 DEF ConsumeStopAck, Consuming, history, Calm
  <2>7. CASE RetryStop
    BY <1>1, <2>7 DEF RetryStop, Timing, Calm, Owes
  <2>8. CASE GoOffline
    <3>1. Calm
      BY <2>8 DEF GoOffline, Calm
    <3> QED
      BY <1>2, <1>3, <2>8, <3>1 DEF GoOffline
  <2>9. CASE \E p \in Peers : ReadPacket(p)
    BY <2>9
  <2> QED
    BY <1>5, <2>1, <2>2, <2>3, <2>4, <2>5, <2>6, <2>7, <2>8, <2>9 DEF Poll
<1> QED
  BY <1>4, <1>5 DEF Next

\* A packet sent goes to one bridge.
LEMMA SendMoves ==
    ASSUME Inv, NEW q \in Peers, NEW msg, Send(q, msg), NEW p \in Peers
    PROVE  down'[p] = IF p = q THEN Put(down[p], msg, MaxDown) ELSE down[p]
BY DEF Send, Inv, ChannelType

\* A step a bridge takes.
LEMMA BridgeMoves ==
    ASSUME Inv, NEW q \in Peers, Bridge(q)
    PROVE  /\ UNCHANGED <<pendant, cancelled, bridges>>
           /\ \A p \in Peers : Leases(p)
                  /\ (down'[p] = down[p] \/ (down[p] # <<>> /\ down'[p] = Tail(down[p])))
<1>1. down \in [Peers -> Seq(Requests)] /\ lease \in [Peers -> [active : BOOLEAN, last : 0..MaxSeq]]
  BY DEF Inv, ChannelType, LeaseType
<1>2. UNCHANGED <<pendant, cancelled, bridges>>
  BY DEF Bridge, BridgePairs, BridgeAdmits, BridgeRefuses, BridgeStops, LeaseExpires,
     BridgeReports, Lose, Take, Between, history
<1>3. \/ UNCHANGED down
      \/ down[q] # <<>> /\ down' = [down EXCEPT ![q] = Tail(@)]
  BY DEF Bridge, BridgePairs, BridgeAdmits, BridgeRefuses, BridgeStops, LeaseExpires,
     BridgeReports, Lose, Take
<1>4. \/ UNCHANGED lease
      \/ lease' = [lease EXCEPT ![q] = Revoked]
      \/ /\ down[q] # <<>> /\ Head(down[q]).kind = "jog"
         /\ lease' = [lease EXCEPT ![q] = [active |-> TRUE, last |-> Head(down[q]).seq]]
  BY DEF Bridge, BridgePairs, BridgeAdmits, BridgeRefuses, BridgeStops, LeaseExpires,
     BridgeReports, Lose, Take
<1>5. ASSUME NEW p \in Peers
      PROVE  Leases(p)
  BY <1>1, <1>4 DEF Leases
<1>6. ASSUME NEW p \in Peers
      PROVE  down'[p] = down[p] \/ (down[p] # <<>> /\ down'[p] = Tail(down[p]))
  BY <1>1, <1>3
<1> QED
  BY <1>2, <1>5, <1>6

\* What any step does.
LEMMA Moves ==
    ASSUME Inv, Next
    PROVE  /\ seq' \in {seq, seq + 1}
           /\ \A p \in Peers : Carries(p) /\ Leases(p)
<1>1. seq \in 1..(MaxSeq + 1) /\ peer \in Peers \cup {"none"} /\ MaxSeq \in Nat
  BY C3ConstantTypes DEF Inv, StopType, StateType
<1>2. CASE Calm /\ Pairs
  BY <1>2 DEF Calm, Pairs, Carries, Leases
<1>3. CASE Calm /\ Owes
  <2>1. PICK attempts \in 0..MaxAttempts : SendStop(attempts)
    BY <1>3 DEF Owes
  <2>2. CASE UNCHANGED <<seq, down>>
    BY <1>3, <2>2 DEF Calm, Carries, Leases
  <2>3. CASE ~UNCHANGED <<seq, down>>
    <3>1. /\ peer # "none" /\ seq <= MaxSeq /\ seq' = seq + 1
          /\ Send(peer, [kind |-> "stop", seq |-> seq])
      BY <2>1, <2>3 DEF SendStop
    <3>2. seq \in Seqs /\ peer \in Peers
      BY <1>1, <3>1 DEF Seqs
    <3>3. ASSUME NEW p \in Peers PROVE Carries(p) /\ Leases(p)
      BY <1>3, <3>1, <3>2, SendMoves DEF Calm, Carries, Leases
    <3> QED
      BY <3>1, <3>3
  <2> QED
    BY <2>2, <2>3
<1>4. CASE Calm /\ Jog
  <2>1. /\ peer # "none" /\ seq <= MaxSeq /\ seq' = seq + 1 /\ ~stop.pending /\ UNCHANGED stop
        /\ Send(peer, [kind |-> "jog", seq |-> seq])
    BY <1>4 DEF Jog, MayJog
  <2>2. seq \in Seqs /\ peer \in Peers
    BY <1>1, <2>1 DEF Seqs
  <2>3. ASSUME NEW p \in Peers PROVE Carries(p) /\ Leases(p)
    BY <1>4, <2>1, <2>2, SendMoves DEF Calm, Carries, Leases
  <2> QED
    BY <2>1, <2>3
<1>5. CASE Calm /\ ConsumeStopAck
  BY <1>5 DEF Calm, ConsumeStopAck, Consuming, Carries, Leases
<1>6. CASE \E p \in Peers : ReadPacket(p)
  BY <1>6 DEF ReadPacket, Carries, Leases
<1>7. CASE \E p \in Peers : Bridge(p)
  BY <1>7, BridgeMoves DEF pendant, Carries
<1> QED
  BY <1>2, <1>3, <1>4, <1>5, <1>6, <1>7, Shapes

-----------------------------------------------------------------------------
(* What every step keeps.                                                   *)

\* A jog that is taken is one of the channel's.
LEMMA HeadJog ==
    ASSUME NEW q \in Seq(Requests), q # <<>>, Head(q).kind = "jog"
    PROVE  1 \in 1..Len(q) /\ q[1] = Head(q) /\ Head(q).seq \in Seqs
<1>1. Len(q) \in Nat /\ 1 \in 1..Len(q) /\ Head(q) = q[1] /\ q[1] \in Requests
  OBVIOUS
<1> QED
  BY <1>1, RequestSeq

\* What the channels carry.
LEMMA RequestTypes ==
    /\ [kind |-> "pair"] \in Requests
    /\ \A m \in Seqs : [kind |-> "jog", seq |-> m] \in Requests
    /\ \A m \in Seqs : [kind |-> "stop", seq |-> m] \in Requests
BY MessageTypes

\* A bridge that has passed n has passed it after any step.
LEMMA PassedKept ==
    ASSUME Inv, NEW p \in Peers, Carries(p), Leases(p),
           NEW n \in Nat, n < seq, Passed(p, n)
    PROVE  (lease'[p].active => lease'[p].last > n) /\ JogsAbove(down'[p], n)
<1>1. down[p] \in Seq(Requests) /\ seq \in Nat /\ n \in Int
  BY C3ConstantTypes DEF Inv, ChannelType, StopType
<1>2. lease'[p].active => lease'[p].last > n
  <2>1. CASE lease'[p] = lease[p]
    BY <2>1 DEF Passed
  <2>2. CASE lease'[p] = Revoked
    BY <2>2 DEF Revoked
  <2>3. CASE /\ down[p] # <<>> /\ Head(down[p]).kind = "jog"
             /\ lease'[p] = [active |-> TRUE, last |-> Head(down[p]).seq]
    BY <1>1, <2>3, HeadJog DEF Passed, JogsAbove
  <2> QED
    BY <2>1, <2>2, <2>3 DEF Leases
<1>3. JogsAbove(down'[p], n)
  <2>1. CASE down'[p] = down[p]
    BY <2>1 DEF Passed
  <2>2. CASE down[p] # <<>> /\ down'[p] = Tail(down[p])
    BY <1>1, <2>2, ChannelTail DEF Passed
  <2>3. CASE down'[p] = Put(down[p], [kind |-> "pair"], MaxDown)
    BY <1>1, <2>3, ChannelPut, RequestTypes DEF Passed
  <2>4. CASE /\ seq \in Seqs
             /\ \E kind \in {"jog", "stop"} :
                    down'[p] = Put(down[p], [kind |-> kind, seq |-> seq], MaxDown)
    <3>1. PICK kind \in {"jog", "stop"} :
              down'[p] = Put(down[p], [kind |-> kind, seq |-> seq], MaxDown)
      BY <2>4
    <3>2. [kind |-> kind, seq |-> seq] \in Requests
      BY <2>4, <3>1, RequestTypes
    <3> QED
      BY <1>1, <3>1, <3>2, ChannelPut, RequestTypes DEF Passed
  <2> QED
    BY <2>1, <2>2, <2>3, <2>4 DEF Carries
<1> QED
  BY <1>2, <1>3

\* When no jog is sent, a bridge all of whose jogs are older than n stays so.
LEMMA BeforeKept ==
    ASSUME Inv, NEW p \in Peers, Carries(p), Leases(p), stop.pending \/ ~UNCHANGED stop,
           NEW n \in Seqs, Before(p, n)
    PROVE  lease'[p].last < n /\ JogsBelow(down'[p], n)
<1>1. down[p] \in Seq(Requests) /\ n \in Int /\ 0 < n
  BY C3ConstantTypes DEF Inv, ChannelType, Seqs
<1>2. lease'[p].last < n
  <2>1. CASE lease'[p] = lease[p]
    BY <2>1 DEF Before
  <2>2. CASE lease'[p] = Revoked
    BY <1>1, <2>2 DEF Revoked
  <2>3. CASE /\ down[p] # <<>> /\ Head(down[p]).kind = "jog"
             /\ lease'[p] = [active |-> TRUE, last |-> Head(down[p]).seq]
    BY <1>1, <2>3, HeadJog DEF Before, JogsBelow
  <2> QED
    BY <2>1, <2>2, <2>3 DEF Leases
<1>3. JogsBelow(down'[p], n)
  <2>1. CASE down'[p] = down[p]
    BY <2>1 DEF Before
  <2>2. CASE down[p] # <<>> /\ down'[p] = Tail(down[p])
    BY <1>1, <2>2, ChannelTail DEF Before
  <2>3. CASE down'[p] = Put(down[p], [kind |-> "pair"], MaxDown)
    BY <1>1, <2>3, ChannelPut, RequestTypes DEF Before
  <2>4. CASE seq \in Seqs /\ down'[p] = Put(down[p], [kind |-> "stop", seq |-> seq], MaxDown)
    <3>1. [kind |-> "stop", seq |-> seq] \in Requests
      BY <2>4, RequestTypes
    <3> QED
      BY <1>1, <2>4, <3>1, ChannelPut, RequestTypes DEF Before
  <2> QED
    BY <2>1, <2>2, <2>3, <2>4 DEF Carries
<1> QED
  BY <1>2, <1>3

\* The bound on what a channel holds may be raised.
LEMMA BelowMonotone ==
    ASSUME NEW q \in Seq(Requests), NEW m \in Int, NEW n \in Int, m <= n, Below(q, m)
    PROVE  Below(q, n) /\ JogsBelow(q, n)
<1> SUFFICES ASSUME NEW i \in 1..Len(q), q[i].kind \in {"jog", "stop"} PROVE q[i].seq < n
  BY DEF Below, JogsBelow
<1>1. Len(q) \in Nat /\ q[i] \in Requests
  OBVIOUS
<1>2. q[i].seq \in Int
  BY <1>1, RequestSeq, C3ConstantTypes DEF Seqs
<1> QED
  BY <1>2 DEF Below

\* Every number sent stays below seq, and a jog behind an older STOP.
LEMMA ChannelKept ==
    ASSUME Inv, NEW p \in Peers, Carries(p), Leases(p), seq' \in {seq, seq + 1},
           InOrder(down[p]), Below(down[p], seq), lease[p].last < seq
    PROVE  InOrder(down'[p]) /\ Below(down'[p], seq') /\ lease'[p].last < seq'
<1>1. down[p] \in Seq(Requests) /\ seq \in Int /\ 0 < seq /\ seq' \in Int /\ seq <= seq'
  BY C3ConstantTypes DEF Inv, ChannelType, StopType
<1>2. Below(down[p], seq') /\ lease[p].last \in Int
  BY <1>1, C3ConstantTypes, BelowMonotone DEF Inv, LeaseType
<1>3. lease'[p].last < seq'
  <2>1. CASE lease'[p] = lease[p]
    BY <1>1, <1>2, <2>1
  <2>2. CASE lease'[p] = Revoked
    BY <1>1, <2>2 DEF Revoked
  <2>3. CASE /\ down[p] # <<>> /\ Head(down[p]).kind = "jog"
             /\ lease'[p] = [active |-> TRUE, last |-> Head(down[p]).seq]
    BY <1>1, <1>2, <2>3, HeadJog DEF Below
  <2> QED
    BY <2>1, <2>2, <2>3 DEF Leases
<1>4. InOrder(down'[p]) /\ Below(down'[p], seq')
  <2>1. CASE down'[p] = down[p]
    BY <1>2, <2>1
  <2>2. CASE down[p] # <<>> /\ down'[p] = Tail(down[p])
    BY <1>1, <1>2, <2>2, ChannelTail
  <2>3. CASE down'[p] = Put(down[p], [kind |-> "pair"], MaxDown)
    BY <1>1, <1>2, <2>3, ChannelPut, RequestTypes
  <2>4. CASE /\ seq \in Seqs /\ seq' = seq + 1
             /\ \E kind \in {"jog", "stop"} :
                    down'[p] = Put(down[p], [kind |-> kind, seq |-> seq], MaxDown)
    <3>1. PICK kind \in {"jog", "stop"} :
              down'[p] = Put(down[p], [kind |-> kind, seq |-> seq], MaxDown)
      BY <2>4
    <3> DEFINE m == [kind |-> kind, seq |-> seq]
    <3>2. m \in Requests
      BY <2>4, <3>1, RequestTypes
    <3>4. m.seq = seq /\ m.seq < seq'
      BY <1>1, <2>4
    <3> HIDE DEF m
    <3>3. down'[p] = Put(down[p], m, MaxDown)
      BY <3>1 DEF m
    <3> QED
      BY <1>1, <1>2, <3>2, <3>3, <3>4, ChannelPut
  <2> QED
    BY <2>1, <2>2, <2>3, <2>4 DEF Carries
<1> QED
  BY <1>3, <1>4

\* What any step does to the STOP that is owed and to what was cancelled.
LEMMA StopMoves ==
    ASSUME Inv, Next
    PROVE  /\ bridges \subseteq bridges'
           /\ peer' \in {peer, "none"} \cup bridges'
           /\ cancelled' = cancelled \/ (cancelled' = seq - 1 /\ stop'.pending)
           /\ \/ UNCHANGED stop
              \/ stop'.pending /\ stop'.seq = stop.seq
              \/ stop'.pending /\ stop'.seq = seq /\ seq' = seq + 1 /\ seq \in Seqs
              \/ /\ ConsumeStopAck /\ ThisStopAck(Head(events))
                 /\ stop'.seq = 0 /\ cancelled' = cancelled
<1>1. /\ stop \in [pending : BOOLEAN, seq : 0..MaxSeq, sent : BOOLEAN, attempts : 0..MaxAttempts]
      /\ seq \in 1..(MaxSeq + 1) /\ MaxSeq \in Nat
  BY C3ConstantTypes DEF Inv, StopType
<1>2. CASE Calm /\ Pairs
  BY <1>2 DEF Calm, Pairs
<1>3. CASE Calm /\ Owes
  <2>1. PICK attempts \in 0..MaxAttempts : SendStop(attempts)
    BY <1>3 DEF Owes
  <2>2. stop'.pending /\ (stop'.seq = stop.seq
                          \/ (stop'.seq = seq /\ seq' = seq + 1 /\ seq \in Seqs))
    <3>1. CASE stop' = [stop EXCEPT !.pending = TRUE, !.attempts = attempts]
      BY <1>1, <3>1
    <3>2. CASE /\ seq <= MaxSeq /\ seq' = seq + 1
               /\ stop' = [pending |-> TRUE, seq |-> seq, sent |-> TRUE,
                           attempts |-> attempts + 1]
      <4>1. seq \in Seqs
        BY <1>1, <3>2 DEF Seqs
      <4> QED
        BY <3>2, <4>1
    <3> QED
      BY <2>1, <3>1, <3>2 DEF SendStop
  <2> QED
    BY <1>3, <2>2 DEF Calm, Owes
<1>4. CASE Calm /\ Jog
  BY <1>4 DEF Calm, Jog
<1>5. CASE Calm /\ ConsumeStopAck
  <2>1. cancelled' = cancelled
    BY <1>5 DEF ConsumeStopAck, Consuming, history
  <2>2. CASE ThisStopAck(Head(events))
    <3>1. stop' = [stop EXCEPT !.pending = FALSE, !.seq = 0, !.sent = FALSE]
      BY <1>5, <2>2 DEF ConsumeStopAck
    <3>2. stop'.seq = 0
      BY <1>1, <3>1
    <3> QED
      BY <1>5, <2>1, <2>2, <3>2 DEF Calm
  <2>3. CASE ~ThisStopAck(Head(events))
    BY <1>5, <2>1, <2>3 DEF Calm, ConsumeStopAck
  <2> QED
    BY <2>2, <2>3
<1>6. CASE \E p \in Peers : ReadPacket(p)
  BY <1>6 DEF ReadPacket
<1>7. CASE \E p \in Peers : Bridge(p)
  BY <1>7, BridgeMoves DEF pendant
<1> QED
  BY <1>2, <1>3, <1>4, <1>5, <1>6, <1>7, Shapes

LEMMA SentKept == Inv /\ Sent /\ Next => Sent'
<1> SUFFICES ASSUME Inv, Sent, Next PROVE Sent'
  OBVIOUS
<1>1. /\ seq \in Int /\ seq' \in {seq, seq + 1} /\ cancelled \in Int /\ stop.seq \in Int /\ 0 < seq
  BY Moves, C3ConstantTypes DEF Inv, StopType
<1>2. cancelled' < seq'
  BY <1>1, StopMoves DEF Sent
<1>3. stop'.seq < seq'
  BY <1>1, StopMoves DEF Sent
<1>4. peer' \in bridges' \cup {"none"}
  BY StopMoves DEF Sent
<1>5. ASSUME NEW p \in Peers
      PROVE  InOrder(down'[p]) /\ Below(down'[p], seq') /\ lease'[p].last < seq'
  BY <1>1, Moves, ChannelKept DEF Sent
<1> QED
  BY <1>2, <1>3, <1>4, <1>5 DEF Sent

\* A bridge without a jog stays so while it is not the peer.
LEMMA StrangersKept == Inv /\ Sent /\ Strangers /\ Next => Strangers'
<1> SUFFICES ASSUME Inv, Sent, Strangers, Next, NEW p \in Peers \ bridges'
             PROVE  JogsBelow(down'[p], 0) /\ ~lease'[p].active
  BY DEF Strangers
<1>1. p \notin bridges /\ p # peer /\ JogsBelow(down[p], 0) /\ ~lease[p].active
  BY StopMoves, C3ConstantTypes DEF Strangers, Sent
<1>2. Carries(p) /\ Leases(p) /\ down[p] \in Seq(Requests)
  BY Moves DEF Inv, ChannelType
<1>3. ~lease'[p].active
  <2>1. ~(down[p] # <<>> /\ Head(down[p]).kind = "jog")
    BY <1>1, <1>2, HeadJog DEF JogsBelow, Seqs
  <2> QED
    BY <1>1, <1>2, <2>1 DEF Leases, Revoked
<1>4. JogsBelow(down'[p], 0)
  <2>1. CASE down'[p] = down[p]
    BY <1>1, <2>1
  <2>2. CASE down[p] # <<>> /\ down'[p] = Tail(down[p])
    BY <1>1, <1>2, <2>2, ChannelTail
  <2>3. CASE down'[p] = Put(down[p], [kind |-> "pair"], MaxDown)
    BY <1>1, <1>2, <2>3, ChannelPut, RequestTypes
  <2> QED
    BY <1>1, <1>2, <2>1, <2>2, <2>3 DEF Carries
<1> QED
  BY <1>3, <1>4

LEMMA NoJogKept == Inv /\ Sent /\ NoJogSinceStop /\ Next => NoJogSinceStop'
<1> SUFFICES ASSUME Inv, Sent, NoJogSinceStop, Next, stop'.seq # 0
             PROVE  stop'.pending
                    /\ \A p \in Peers : lease'[p].last < stop'.seq /\ JogsBelow(down'[p], stop'.seq)
  BY DEF NoJogSinceStop, Before
<1>1. stop.seq \in 0..MaxSeq /\ seq \in 1..(MaxSeq + 1) /\ MaxSeq \in Nat
  BY C3ConstantTypes DEF Inv, StopType
<1>2. CASE stop'.seq = stop.seq /\ stop'.pending
  <2>1. stop.seq \in Seqs /\ stop.pending /\ \A p \in Peers : Before(p, stop.seq)
    BY <1>1, <1>2 DEF NoJogSinceStop, Seqs
  <2> QED
    BY <1>2, <2>1, Moves, BeforeKept
<1>3. CASE stop'.pending /\ stop'.seq = seq /\ seq' = seq + 1 /\ seq \in Seqs
  <2>1. \A p \in Peers : Before(p, seq)
    BY DEF Sent, Before, Below, JogsBelow
  <2>2. ~UNCHANGED stop
    BY <1>1, <1>3 DEF Sent
  <2> QED
    BY <1>3, <2>1, <2>2, Moves, BeforeKept
<1>4. CASE UNCHANGED stop
  BY <1>2, <1>4 DEF NoJogSinceStop
<1> QED
  BY <1>2, <1>3, <1>4, StopMoves

\* A message of a channel was there before, or has just been sent.
LEMMA ElementFrom ==
    ASSUME NEW S, NEW q \in Seq(S), NEW m \in S, NEW room, NEW r,
           r = q \/ (q # <<>> /\ r = Tail(q)) \/ r = Put(q, m, room),
           NEW i \in 1..Len(r)
    PROVE  r[i] = m \/ \E j \in 1..Len(q) : r[i] = q[j]
<1>1. CASE r = q
  BY <1>1
<1>2. CASE q # <<>> /\ r = Tail(q)
  <2>1. i + 1 \in 1..Len(q) /\ r[i] = q[i + 1]
    BY <1>2
  <2> QED
    BY <2>1
<1>3. CASE r = Append(q, m)
  <2>1. Len(q) \in Nat /\ (i = Len(q) + 1 \/ i \in 1..Len(q))
    BY <1>3
  <2>2. i = Len(q) + 1 => r[i] = m
    BY <1>3
  <2>3. i \in 1..Len(q) => r[i] = q[i]
    BY <1>3
  <2> QED
    BY <2>1, <2>2, <2>3
<1> QED
  BY <1>1, <1>2, <1>3 DEF Put

\* An answer on its way was there before, or the bridge has just taken the STOP.
LEMMA AnswerFrom ==
    ASSUME Inv, Next, NEW p \in Peers, NEW i \in 1..Len(up'[p]), up'[p][i].kind = "stopAck"
    PROVE  \/ \E j \in 1..Len(up[p]) : up'[p][i] = up[p][j]
           \/ BridgeStops(p) /\ up'[p][i].seq = Head(down[p]).seq
<1>1. up \in [Peers -> Seq(Answers)] /\ up[p] \in Seq(Answers)
  <2>1. ASSUME NEW q \in Seq(BackedAnswers) PROVE q \in Seq(Answers)
    BY <2>1 DEF BackedAnswers
  <2> QED
    BY <2>1 DEF Inv, ChannelType
<1>2. ASSUME up'[p] = up[p] \/ (up[p] # <<>> /\ up'[p] = Tail(up[p]))
      PROVE  \E j \in 1..Len(up[p]) : up'[p][i] = up[p][j]
  <2>1. CASE up'[p] = up[p]
    BY <2>1
  <2>2. CASE up[p] # <<>> /\ up'[p] = Tail(up[p])
    <3>1. i + 1 \in 1..Len(up[p]) /\ up'[p][i] = up[p][i + 1]
      BY <1>1, <2>2
    <3> QED
      BY <3>1
  <2> QED
    BY <1>2, <2>1, <2>2
<1>3. ASSUME NEW m \in Answers, m.kind # "stopAck", NEW q \in Peers, Answer(q, m)
      PROVE  \E j \in 1..Len(up[p]) : up'[p][i] = up[p][j]
  <2>1. up'[p] = up[p] \/ up'[p] = Put(up[p], m, MaxUp)
    BY <1>1, <1>3 DEF Answer
  <2>2. up'[p][i] # m
    BY <1>3
  <2> QED
    BY <1>1, <2>1, <2>2, ElementFrom
<1>4. CASE Calm
  BY <1>2, <1>4 DEF Calm
<1>5. CASE \E q \in Peers : ReadPacket(q)
  <2>1. PICK q \in Peers : ReadPacket(q)
    BY <1>5
  <2>2. up'[p] = up[p] \/ (up[p] # <<>> /\ up'[p] = Tail(up[p]))
    BY <1>1, <2>1 DEF ReadPacket
  <2> QED
    BY <1>2, <2>2
<1>6. CASE \E q \in Peers : Bridge(q)
  <2>1. PICK q \in Peers : Bridge(q)
    BY <1>6
  <2>2. CASE BridgePairs(q)
    BY <1>3, <2>2, MessageTypes DEF BridgePairs
  <2>3. CASE BridgeAdmits(q) \/ BridgeRefuses(q)
    <3>1. down[q] \in Seq(Requests) /\ down[q] # <<>> /\ Head(down[q]).kind = "jog"
      BY <2>3 DEF BridgeAdmits, BridgeRefuses, Take, Inv, ChannelType
    <3>2. Head(down[q]).seq \in Seqs
      BY <3>1, HeadJog
    <3>3. PICK ok \in BOOLEAN : Answer(q, [kind |-> "jogAck", seq |-> Head(down[q]).seq, ok |-> ok])
      BY <2>3 DEF BridgeAdmits, BridgeRefuses
    <3>4. [kind |-> "jogAck", seq |-> Head(down[q]).seq, ok |-> ok] \in Answers
      BY <3>2, MessageTypes
    <3> QED
      BY <1>3, <3>3, <3>4
  <2>4. CASE BridgeStops(q)
    <3>1. down[q] \in Seq(Requests) /\ down[q] # <<>> /\ Head(down[q]).kind = "stop"
      BY <2>4 DEF BridgeStops, Take, Inv, ChannelType
    <3>2. Head(down[q]).seq \in Seqs
      BY <3>1, RequestSeq, TailType
    <3> DEFINE m == [kind |-> "stopAck", seq |-> Head(down[q]).seq]
    <3>3. m \in Answers /\ m.seq = Head(down[q]).seq
      BY <3>2, MessageTypes
    <3>4. Answer(q, m)
      BY <2>4 DEF BridgeStops
    <3> HIDE DEF m
    <3>5. CASE p = q
      <4>1. up'[p] = Put(up[p], m, MaxUp)
        BY <1>1, <3>4, <3>5 DEF Answer
      <4>2. up'[p][i] = m \/ \E j \in 1..Len(up[p]) : up'[p][i] = up[p][j]
        BY <1>1, <3>3, <4>1, ElementFrom
      <4> QED
        BY <2>4, <3>3, <3>5, <4>2
    <3>6. CASE p # q
      <4>1. up'[p] = up[p]
        BY <1>1, <3>4, <3>6 DEF Answer
      <4> QED
        BY <1>2, <4>1
    <3> QED
      BY <3>5, <3>6
  <2>5. CASE LeaseExpires(q)
    BY <1>2, <2>5 DEF LeaseExpires
  <2>6. CASE BridgeReports(q)
    BY <1>3, <2>6, MessageTypes DEF BridgeReports
  <2>7. CASE Lose(q)
    <3>1. up'[p] = up[p] \/ (up[p] # <<>> /\ up'[p] = Tail(up[p]))
      BY <1>1, <2>7 DEF Lose
    <3> QED
      BY <1>2, <3>1
  <2> QED
    BY <2>1, <2>2, <2>3, <2>4, <2>5, <2>6, <2>7 DEF Bridge
<1> QED
  BY <1>4, <1>5, <1>6, Shapes

\* The answers of a bridge are about STOPs it has taken.
LEMMA AcknowledgedKept == Inv /\ Sent /\ Acknowledged /\ Next => Acknowledged'
<1> SUFFICES ASSUME Inv, Sent, Acknowledged, Next, NEW p \in Peers,
                    NEW i \in 1..Len(up'[p]), up'[p][i].kind = "stopAck"
             PROVE  /\ up'[p][i].seq < seq'
                    /\ lease'[p].active => lease'[p].last > up'[p][i].seq
                    /\ JogsAbove(down'[p], up'[p][i].seq)
  BY DEF Acknowledged, Passed
<1>1. seq \in Int /\ seq' \in {seq, seq + 1} /\ Carries(p) /\ Leases(p)
  BY Moves, C3ConstantTypes DEF Inv, StopType
<1>2. CASE \E j \in 1..Len(up[p]) : up'[p][i] = up[p][j]
  <2>1. PICK j \in 1..Len(up[p]) : up'[p][i] = up[p][j]
    BY <1>2
  <2> DEFINE n == up[p][j].seq
  <2>2. n < seq /\ Passed(p, n)
    BY <2>1 DEF Acknowledged
  <2>3. n \in Nat
    <3>1. up[p] \in Seq(BackedAnswers) /\ j \in 1..Len(up[p])
      BY DEF Inv, ChannelType
    <3>2. up[p][j] \in Answers /\ up[p][j].kind = "stopAck"
      BY <2>1, <3>1 DEF BackedAnswers
    <3> QED
      BY <3>2, C3ConstantTypes DEF Answers, Seqs
  <2> HIDE DEF n
  <2>4. (lease'[p].active => lease'[p].last > n) /\ JogsAbove(down'[p], n)
    BY <1>1, <2>2, <2>3, PassedKept
  <2>5. up'[p][i].seq = n
    BY <2>1 DEF n
  <2> QED
    BY <1>1, <2>2, <2>3, <2>4, <2>5
<1>3. CASE BridgeStops(p) /\ up'[p][i].seq = Head(down[p]).seq
  <2> DEFINE n == Head(down[p]).seq
  <2>1. /\ down \in [Peers -> Seq(Requests)] /\ down[p] # <<>> /\ Head(down[p]).kind = "stop"
        /\ down'[p] \in {down[p], Tail(down[p])}
    BY <1>3 DEF Inv, ChannelType, BridgeStops, Take
  <2>2. 1 \in 1..Len(down[p]) /\ Head(down[p]) = down[p][1] /\ n \in Int
    BY <2>1, RequestSeq, TailType, C3ConstantTypes DEF Seqs
  <2>3. n < seq /\ JogsAbove(down[p], n)
    BY <2>1, <2>2, StopPassed DEF Sent, Below
  <2>4. ~lease'[p].active
    BY <1>3 DEF BridgeStops, Revoked, Inv, LeaseType
  <2> HIDE DEF n
  <2>5. JogsAbove(down'[p], n)
    BY <2>1, <2>2, <2>3, ChannelTail
  <2>6. up'[p][i].seq = n
    BY <1>3 DEF n
  <2> QED
    BY <1>1, <2>2, <2>3, <2>4, <2>5, <2>6
<1> QED
  BY <1>2, <1>3, AnswerFrom

\* The pendant never forgets how many bridges it has known.
LEMMA OneBridgeBefore == Inv /\ Next /\ OneBridge' => OneBridge
<1> SUFFICES ASSUME Inv, Next, OneBridge' PROVE OneBridge
  OBVIOUS
<1>1. IsFiniteSet(bridges')
  <2>1. UNCHANGED bridges \/ \E p \in Peers : bridges' = bridges \cup {p}
    <3>1. CASE Calm
      BY <3>1 DEF Calm
    <3>2. CASE \E p \in Peers : ReadPacket(p)
      BY <3>2 DEF ReadPacket
    <3>3. CASE \E p \in Peers : Bridge(p)
      BY <3>3, BridgeMoves
    <3> QED
      BY <3>1, <3>2, <3>3, Shapes
  <2>2. bridges' \subseteq Peers
    BY <2>1 DEF Inv, StateType
  <2> QED
    BY <2>2, FS_Subset, C3Constants
<1>2. /\ bridges \subseteq bridges' /\ IsFiniteSet(bridges)
      /\ Cardinality(bridges) <= Cardinality(bridges')
  BY <1>1, StopMoves, FS_Subset
<1>3. Cardinality(bridges) \in Nat /\ Cardinality(bridges') \in Nat
  BY <1>1, <1>2, FS_CardinalityType
<1> QED
  BY <1>2, <1>3 DEF OneBridge

\* Of a single bridge the others are strangers.
LEMMA OthersAreStrangers ==
    ASSUME Inv, OneBridge, NEW p \in bridges, NEW q \in Peers, q # p
    PROVE  q \notin bridges
<1> SUFFICES ASSUME q \in bridges PROVE FALSE
  OBVIOUS
<1>1. IsFiniteSet(bridges) /\ Cardinality(bridges) \in Nat
  BY FS_Subset, FS_CardinalityType, C3Constants DEF Inv, StateType
<1>2. IsFiniteSet(bridges \ {p}) /\ Cardinality(bridges \ {p}) = Cardinality(bridges) - 1
  BY <1>1, FS_RemoveElement
<1>3. Cardinality(bridges \ {p}) # 0
  BY <1>2, FS_EmptySet
<1> QED
  BY <1>1, <1>2, <1>3, FS_CardinalityType DEF OneBridge

\* An event was there before, or has just been read from the peer.
LEMMA EventFrom ==
    ASSUME Inv, Next, NEW i \in 1..Len(events')
    PROVE  \/ \E j \in 1..Len(events) : events'[i] = events[j]
           \/ /\ peer \in Peers /\ up[peer] # <<>>
              /\ events'[i] = Head(up[peer])
<1>1. events \in Seq(BackedEvents) /\ up \in [Peers -> Seq(BackedAnswers)]
  BY DEF Inv, ChannelType
<1>2. ASSUME NEW q \in Seq(BackedEvents),
             q = events \/ (events # <<>> /\ q = Tail(events)), NEW k \in 1..Len(q)
      PROVE  \E j \in 1..Len(events) : q[k] = events[j]
  <2>1. CASE q = events
    BY <2>1
  <2>2. CASE events # <<>> /\ q = Tail(events)
    <3>1. k + 1 \in 1..Len(events) /\ q[k] = events[k + 1]
      BY <1>1, <2>2
    <3> QED
      BY <3>1
  <2> QED
    BY <1>2, <2>1, <2>2
<1>3. ASSUME events' = events \/ (events # <<>> /\ events' = Tail(events))
      PROVE  \E j \in 1..Len(events) : events'[i] = events[j]
  <2>1. events' \in Seq(BackedEvents)
    BY <1>1, <1>3, TailType
  <2> QED
    BY <1>2, <1>3, <2>1
<1>4. CASE Calm
  BY <1>3, <1>4 DEF Calm
<1>5. CASE \E p \in Peers : Bridge(p)
  BY <1>3, <1>5, BridgeMoves DEF pendant
<1>6. CASE \E p \in Peers : ReadPacket(p)
  <2>1. PICK p \in Peers : ReadPacket(p)
    BY <1>6
  <2>2. CASE UNCHANGED events
    BY <1>3, <2>2
  <2>3. CASE peer = p /\ events' = Append(Kept(events), Head(up[p]))
             /\ Head(up[p]).kind # "paired"
    <3> DEFINE q == Kept(events)
               m == Head(up[p])
    <3>1. q \in Seq(BackedEvents) /\ (q = events \/ (events # <<>> /\ q = Tail(events)))
      <4>1. CASE Len(events) >= EventLimit
        <5>1. events # <<>>
          BY <1>1, <4>1, C3ConstantTypes
        <5> QED
          BY <1>1, <4>1, <5>1, TailType DEF Kept
      <4>2. CASE ~(Len(events) >= EventLimit)
        BY <1>1, <4>2 DEF Kept
      <4> QED
        BY <4>1, <4>2
    <3>2. up[p] # <<>> /\ m \in BackedAnswers
      BY <1>1, <2>1, TailType DEF ReadPacket
    <3>3. m \in BackedEvents
      BY <2>3, <3>2, AnswerIsEvent DEF BackedAnswers, BackedEvents
    <3> HIDE DEF q, m
    <3>4. events' = Append(q, m)
      BY <2>3 DEF q, m
    <3>5. Len(q) \in Nat /\ (i = Len(q) + 1 \/ i \in 1..Len(q))
      BY <3>1, <3>3, <3>4
    <3>6. CASE i = Len(q) + 1
      <4>1. events'[i] = m
        BY <3>1, <3>3, <3>4, <3>6
      <4> QED
        BY <2>3, <3>2, <4>1 DEF m
    <3>7. CASE i \in 1..Len(q)
      <4>1. events'[i] = q[i]
        BY <3>1, <3>3, <3>4, <3>7
      <4> QED
        BY <1>2, <3>1, <3>7, <4>1
    <3> QED
      BY <3>5, <3>6, <3>7
  <2> QED
    BY <2>1, <2>2, <2>3 DEF ReadPacket
<1> QED
  BY <1>4, <1>5, <1>6, Shapes

\* With one bridge, an event about a STOP is about one that all have passed.
LEMMA EventsKept ==
    Inv /\ Sent /\ Strangers /\ Acknowledged /\ EventsAcknowledged /\ Next => EventsAcknowledged'
<1> SUFFICES ASSUME Inv, Sent, Strangers, Acknowledged, EventsAcknowledged, Next, OneBridge',
                    NEW i \in 1..Len(events'), events'[i].kind = "stopAck"
             PROVE  /\ events'[i].seq < seq'
                    /\ \A p \in Peers : /\ lease'[p].active => lease'[p].last > events'[i].seq
                                        /\ JogsAbove(down'[p], events'[i].seq)
  BY DEF EventsAcknowledged, Passed
<1>1. OneBridge /\ seq \in Int /\ seq' \in {seq, seq + 1}
  BY Moves, OneBridgeBefore, C3ConstantTypes DEF Inv, StopType
<1> DEFINE n == events'[i].seq
<1>2. n \in Nat /\ n < seq /\ \A p \in Peers : Passed(p, n)
  <2>1. CASE \E j \in 1..Len(events) : events'[i] = events[j]
    <3>1. PICK j \in 1..Len(events) : events'[i] = events[j]
      BY <2>1
    <3>2. events[j] \in Events /\ events[j].kind = "stopAck"
      <4>1. events \in Seq(BackedEvents)
        BY DEF Inv, ChannelType
      <4> QED
        BY <3>1, <4>1 DEF BackedEvents
    <3>3. events[j].seq \in Nat
      BY <3>2, C3ConstantTypes DEF Events, Seqs
    <3> QED
      BY <1>1, <3>1, <3>2, <3>3 DEF EventsAcknowledged
  <2>2. CASE peer \in Peers /\ up[peer] # <<>> /\ events'[i] = Head(up[peer])
    <3>1. 1 \in 1..Len(up[peer]) /\ Head(up[peer]) = up[peer][1]
          /\ Head(up[peer]) \in BackedAnswers
      BY <2>2 DEF Inv, ChannelType
    <3>2. n < seq /\ Passed(peer, n)
      BY <2>2, <3>1 DEF Acknowledged
    <3>3. n \in Nat
      BY <2>2, <3>1, C3ConstantTypes DEF BackedAnswers, Answers, Seqs
    <3>4. ASSUME NEW p \in Peers, p # peer PROVE Passed(p, n)
      <4>1. peer \in bridges
        BY <2>2, C3ConstantTypes DEF Sent
      <4>2. JogsBelow(down[p], 0) /\ ~lease[p].active
        BY <1>1, <3>4, <4>1, OthersAreStrangers DEF Strangers
      <4>3. ASSUME NEW k \in 1..Len(down[p]) PROVE down[p][k].kind # "jog"
        <5>1. down[p][k] \in Requests
          BY DEF Inv, ChannelType
        <5>2. down[p][k].kind = "jog" => down[p][k].seq \in Nat
          BY <5>1, RequestSeq, C3ConstantTypes DEF Seqs
        <5> QED
          BY <4>2, <5>2 DEF JogsBelow
      <4> QED
        BY <4>2, <4>3 DEF Passed, JogsAbove
    <3> QED
      BY <3>2, <3>3, <3>4
  <2> QED
    BY <2>1, <2>2, EventFrom
<1> HIDE DEF n
<1>3. ASSUME NEW p \in Peers
      PROVE  (lease'[p].active => lease'[p].last > n) /\ JogsAbove(down'[p], n)
  BY <1>2, Moves, PassedKept
<1>4. n < seq'
  BY <1>1, <1>2
<1> QED
  BY <1>3, <1>4 DEF n

\* What is over stays over, and becomes so when the STOP is acknowledged.
LEMMA OverKept ==
    Inv /\ Sent /\ NoJogSinceStop /\ EventsAcknowledged /\ CancelledJogIsOver /\ Next
        => CancelledJogIsOver'
<1> SUFFICES ASSUME Inv, Sent, NoJogSinceStop, EventsAcknowledged, CancelledJogIsOver, Next,
                    ~stop'.pending, OneBridge', NEW p \in Peers
             PROVE  (lease'[p].active => lease'[p].last > cancelled')
                    /\ JogsAbove(down'[p], cancelled')
  BY DEF CancelledJogIsOver, OneBridge, JogsAbove
<1>1. OneBridge /\ seq \in Int /\ cancelled \in Nat /\ cancelled < seq /\ cancelled' = cancelled
  BY OneBridgeBefore, StopMoves, C3ConstantTypes DEF Inv, StopType, Sent
<1>2. Passed(p, cancelled)
  <2>1. CASE UNCHANGED stop
    BY <1>1, <2>1 DEF CancelledJogIsOver, OneBridge, Passed, JogsAbove
  <2>2. CASE ConsumeStopAck /\ ThisStopAck(Head(events))
    <3>1. events \in Seq(BackedEvents) /\ events # <<>> /\ Head(events).kind = "stopAck"
      BY <2>2 DEF ConsumeStopAck, Consuming, Inv, ChannelType
    <3>2. 1 \in 1..Len(events) /\ Head(events) = events[1] /\ Head(events) \in Events
      BY <3>1 DEF BackedEvents
    <3>3. stop.seq \in Nat /\ stop.seq # 0 /\ Passed(p, stop.seq)
      BY <1>1, <2>2, <3>1, <3>2, C3ConstantTypes
         DEF ThisStopAck, EventsAcknowledged, Events, Seqs
    <3>4. Before(p, stop.seq)
      BY <3>3 DEF NoJogSinceStop
    <3>5. ~lease[p].active
      <4>1. lease[p].last \in Int
        BY C3ConstantTypes DEF Inv, LeaseType
      <4> QED
        BY <3>3, <3>4, <4>1 DEF Passed, Before
    <3>6. ASSUME NEW k \in 1..Len(down[p]) PROVE down[p][k].kind # "jog"
      <4>1. down[p][k] \in Requests
        BY DEF Inv, ChannelType
      <4>2. down[p][k].kind = "jog" => down[p][k].seq \in Nat
        BY <4>1, RequestSeq, C3ConstantTypes DEF Seqs
      <4> QED
        BY <3>3, <3>4, <4>2 DEF Passed, Before, JogsAbove, JogsBelow
    <3> QED
      BY <3>5, <3>6 DEF Passed, JogsAbove
  <2> QED
    BY <2>1, <2>2, StopMoves
<1> DEFINE n == cancelled
<1>3. n \in Nat /\ n < seq /\ Passed(p, n)
  BY <1>1, <1>2
<1> HIDE DEF n
<1>4. (lease'[p].active => lease'[p].last > n) /\ JogsAbove(down'[p], n)
  BY <1>3, Moves, PassedKept
<1> QED
  BY <1>1, <1>4 DEF n

\* At the start nothing has been sent.
LEMMA OverInit == Init => OverInv
<1> SUFFICES ASSUME Init PROVE OverInv
  OBVIOUS
<1>1. \A p \in Peers : down[p] = <<>> /\ up[p] = <<>> /\ Len(down[p]) = 0 /\ Len(up[p]) = 0
                       /\ lease[p] = [active |-> FALSE, last |-> 0]
  BY DEF Init, Revoked
<1>2. 1..0 = {}
  OBVIOUS
<1>3. Sent /\ Strangers /\ Acknowledged
  BY <1>1, <1>2 DEF Init, Sent, Strangers, Acknowledged, InOrder, Below, JogsBelow
<1>4. EventsAcknowledged /\ NoJogSinceStop
  BY <1>2 DEF Init, EventsAcknowledged, NoJogSinceStop
<1>5. CancelledJogIsOver
  BY <1>1, <1>2 DEF CancelledJogIsOver
<1> QED
  BY <1>3, <1>4, <1>5 DEF OverInv

\* CancelledJogIsOver: with one bridge, once the STOP that cancel_jog owes has
\* been acknowledged, the bridge neither executes the cancelled jog nor will
\* receive it, whatever the radio lost or delivered twice in between.
THEOREM C3CancelledJogIsOver == Spec => []CancelledJogIsOver
<1>1. ASSUME Inv, OverInv, [Next]_vars PROVE OverInv'
  <2>1. CASE Next
    <3>1. Sent' /\ Strangers' /\ Acknowledged'
      BY <1>1, <2>1, SentKept, StrangersKept, AcknowledgedKept DEF OverInv
    <3>2. EventsAcknowledged' /\ NoJogSinceStop' /\ CancelledJogIsOver'
      BY <1>1, <2>1, EventsKept, NoJogKept, OverKept DEF OverInv
    <3> QED
      BY <3>1, <3>2 DEF OverInv
  <2>2. CASE UNCHANGED vars
    <3>1. UNCHANGED <<cancelled, seq, stop, peer, bridges, down, up, lease, events>>
      BY <2>2 DEF vars, pendant, history
    <3>2. Sent' /\ Strangers' /\ Acknowledged'
      BY <1>1, <3>1 DEF OverInv, Sent, Strangers, Acknowledged, Passed
    <3>3. EventsAcknowledged' /\ NoJogSinceStop' /\ CancelledJogIsOver'
      BY <1>1, <3>1 DEF OverInv, EventsAcknowledged, NoJogSinceStop, CancelledJogIsOver,
         OneBridge, Passed, Before
    <3> QED
      BY <3>2, <3>3 DEF OverInv
  <2> QED
    BY <1>1, <2>1, <2>2
<1>2. OverInv => CancelledJogIsOver
  BY DEF OverInv
<1> QED
  BY <1>1, <1>2, InvAlways, OverInit, PTL DEF Spec
=============================================================================
