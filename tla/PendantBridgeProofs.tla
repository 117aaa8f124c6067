------------------------- MODULE PendantBridgeProofs -------------------------
(***************************************************************************)
(* What TLAPS proves of PendantBridge for every set of intents, every      *)
(* length of the queue and every lease.                                    *)
(***************************************************************************)
EXTENDS PendantBridge, TLAPS

\* The constants, one at a time.
LEMMA ConstantTypes == QueueLimit \in Nat \ {0} /\ Lease \in Nat \ {0}
BY BridgeConstants

-----------------------------------------------------------------------------
(* TypeOK falls into what the operator, the link and the companion touch.  *)

JogType == intent \in Intents \cup {"none"} /\ owed \in BOOLEAN
SeenType == seen \in [connected : BOOLEAN, mode : Modes, jogging : BOOLEAN]
InType == in \in [deadman : BOOLEAN, estop : BOOLEAN]
QueueType == queue \in Seq(Commands) /\ Len(queue) <= QueueLimit
LinkType ==
    /\ session \in [up : BOOLEAN, motion : BOOLEAN, out : Packets \cup {"none"}]
    /\ accepted \in BOOLEAN
HostType == host \in [up : BOOLEAN, left : 0..Lease]
StageType == stage \in {"app", "session", "check", "send", "offline"}

Parts == StageType /\ InType /\ SeenType /\ JogType /\ QueueType /\ LinkType /\ HostType

\* The parts make up the whole.
LEMMA TypeParts == TypeOK <=> Parts
BY DEF TypeOK, Parts, StageType, InType, SeenType, JogType, QueueType, LinkType, HostType

\* cancel_jog keeps the types, whichever session it reads.
LEMMA CancelType ==
    ASSUME NEW s \in [up : BOOLEAN, motion : BOOLEAN, out : Packets \cup {"none"}],
           CancelJogIn(s)
    PROVE  JogType'
BY DEF CancelJogIn, Owes, JogType

\* The flags of seen, one or more set.
LEMMA SeenUpdates ==
    ASSUME SeenType
    PROVE  /\ [seen EXCEPT !.jogging = FALSE]
                  \in [connected : BOOLEAN, mode : Modes, jogging : BOOLEAN]
           /\ [seen EXCEPT !.jogging = TRUE]
                  \in [connected : BOOLEAN, mode : Modes, jogging : BOOLEAN]
           /\ [seen EXCEPT !.mode = "other"]
                  \in [connected : BOOLEAN, mode : Modes, jogging : BOOLEAN]
           /\ [seen EXCEPT !.mode = "other", !.jogging = FALSE]
                  \in [connected : BOOLEAN, mode : Modes, jogging : BOOLEAN]
           /\ [seen EXCEPT !.connected = FALSE, !.jogging = FALSE]
                  \in [connected : BOOLEAN, mode : Modes, jogging : BOOLEAN]
BY DEF SeenType, Modes

\* A command joins a queue that has room for it.
LEMMA JoinType ==
    ASSUME QueueType, NEW c \in Commands, Queue(c)
    PROVE  QueueType'
<1>1. CASE Len(queue) < QueueLimit
  <2>1. queue' = Append(queue, c) /\ Len(queue) \in Nat
    BY <1>1 DEF Queue, QueueType
  <2>2. queue' \in Seq(Commands) /\ Len(queue') = Len(queue) + 1
    BY <2>1 DEF QueueType
  <2>3. QED
    BY <1>1, <2>1, <2>2, ConstantTypes DEF QueueType
<1>2. CASE ~(Len(queue) < QueueLimit)
  BY <1>2 DEF Queue, QueueType
<1>3. QED
  BY <1>1, <1>2

\* What the application does.
LEMMA ApplicationType == Parts /\ Application => Parts'
<1> SUFFICES ASSUME Parts, Application PROVE Parts'
  OBVIOUS
<1>1. StageType /\ InType /\ SeenType /\ JogType /\ QueueType /\ LinkType /\ HostType
  BY DEF Parts
<1>2. App
  BY DEF Application, Cancel, ChangeAxis, TurnDeadman, PressEstop, RecoverEstop, JogTimeout,
         Jog, HoldOrReset, Resume
<1>3. StageType' /\ LinkType' /\ HostType'
  BY <1>1, <1>2 DEF App, At, StageType, LinkType, HostType
<1>4. CancelJog => JogType'
  BY <1>1, CancelType DEF CancelJog, LinkType
<1>5. KeepJog => JogType'
  BY <1>1 DEF KeepJog, JogType
<1>6. NotJogging \/ UNCHANGED seen => SeenType'
  BY <1>1, SeenUpdates DEF NotJogging, SeenType
<1>7. UNCHANGED queue => QueueType'
  BY <1>1 DEF QueueType
<1>8. UNCHANGED in => InType'
  BY <1>1 DEF InType
<1>9. CASE Cancel
  BY <1>9, <1>3, <1>4, <1>6, <1>7, <1>8 DEF Parts, Cancel
<1>10. CASE ChangeAxis
  BY <1>10, <1>3, <1>4, <1>5, <1>6, <1>7, <1>8 DEF Parts, ChangeAxis
<1>11. CASE TurnDeadman
  <2>1. InType'
    BY <1>1, <1>11 DEF TurnDeadman, InType
  <2>2. QED
    BY <1>11, <2>1, <1>3, <1>4, <1>5, <1>6, <1>7 DEF Parts, TurnDeadman
<1>12. CASE PressEstop
  <2>1. InType'
    BY <1>1, <1>12 DEF PressEstop, InType
  <2>2. SeenType'
    BY <1>1, <1>12, SeenUpdates DEF PressEstop, SeenType
  <2>3. QueueType'
    BY <1>1, <1>7, <1>12, JoinType DEF PressEstop, Commands
  <2>4. QED
    BY <1>12, <2>1, <2>2, <2>3, <1>3, <1>4, <1>5 DEF Parts, PressEstop
<1>13. CASE RecoverEstop
  <2>1. InType'
    BY <1>1, <1>13 DEF RecoverEstop, InType
  <2>2. SeenType'
    BY <1>1, <1>13, SeenUpdates DEF RecoverEstop, SeenType
  <2>3. QED
    BY <1>13, <2>1, <2>2, <1>3, <1>5, <1>7 DEF Parts, RecoverEstop
<1>14. CASE JogTimeout
  BY <1>14, <1>3, <1>4, <1>5, <1>6, <1>7, <1>8 DEF Parts, JogTimeout
<1>15. CASE \E i \in Intents : Jog(i)
  <2>1. PICK i \in Intents : Jog(i)
    BY <1>15
  <2>2. JogType'
    BY <1>1, <1>4, <2>1 DEF Jog, JogType
  <2>3. SeenType'
    BY <1>1, <1>6, <2>1, SeenUpdates DEF Jog, SeenType
  <2>4. QED
    BY <2>1, <2>2, <2>3, <1>3, <1>7, <1>8 DEF Parts, Jog
<1>16. CASE HoldOrReset
  <2>1. QueueType'
    BY <1>1, <1>16, JoinType DEF HoldOrReset, Commands
  <2>2. QED
    BY <1>16, <2>1, <1>3, <1>4, <1>6, <1>8 DEF Parts, HoldOrReset
<1>17. CASE Resume
  <2>1. QueueType'
    BY <1>1, <1>17, JoinType DEF Resume, Commands
  <2>2. QED
    BY <1>17, <2>1, <1>3, <1>5, <1>6, <1>8 DEF Parts, Resume
<1>18. QED
  BY <1>9, <1>10, <1>11, <1>12, <1>13, <1>14, <1>15, <1>16, <1>17 DEF Application

\* What session.poll does, with the steps that begin and end it.
LEMMA SessionPollType ==
    Parts /\ (StartPoll \/ SessionPoll \/ EndSessionPoll) => Parts'
<1> SUFFICES ASSUME Parts, StartPoll \/ SessionPoll \/ EndSessionPoll PROVE Parts'
  OBVIOUS
<1>1. StageType /\ InType /\ SeenType /\ JogType /\ QueueType /\ LinkType /\ HostType
  BY DEF Parts
<1>2. CASE StartPoll
  BY <1>1, <1>2 DEF Parts, StartPoll, At, StageType, InType, SeenType, JogType, QueueType,
     LinkType, HostType
<1>3. CASE EndSessionPoll
  BY <1>1, <1>3 DEF Parts, EndSessionPoll, At, StageType, InType, SeenType, JogType,
     QueueType, LinkType, HostType
<1>4. Receiving => StageType' /\ InType' /\ QueueType' /\ HostType'
  BY <1>1 DEF Receiving, At, StageType, InType, QueueType, HostType
<1>5. CASE ReceiveAck
  <2>1. LinkType'
    BY <1>1, <1>5 DEF ReceiveAck, LinkType
  <2>2. SeenType' /\ JogType'
    BY <1>1, <1>5 DEF ReceiveAck, SeenType, JogType
  <2>3. QED
    BY <1>4, <1>5, <2>1, <2>2 DEF Parts, ReceiveAck
<1>6. CASE ReceiveStatus
  <2>1. LinkType'
    BY <1>1, <1>6 DEF ReceiveStatus, LinkType
  <2>2. SeenType'
    BY <1>1, <1>6 DEF ReceiveStatus, SeenType
  <2>3. JogType'
    BY <1>1, <1>6, CancelType DEF ReceiveStatus, CancelJog, KeepJog, JogType, LinkType
  <2>4. QED
    BY <1>4, <1>6, <2>1, <2>2, <2>3 DEF Parts, ReceiveStatus
<1>7. CASE LoseSession
  <2>1. LinkType'
    BY <1>7 DEF LoseSession, LinkType
  <2>2. SeenType'
    BY <1>1, <1>7, SeenUpdates DEF LoseSession, NotJogging, SeenType
  <2>3. JogType'
    BY <1>1, <1>7, <2>1 DEF LoseSession, CancelJogIn, Owes, KeepJog, JogType
  <2>4. QED
    BY <1>4, <1>7, <2>1, <2>2, <2>3 DEF Parts, LoseSession
<1>8. CASE NewSession
  <2>1. LinkType' /\ HostType'
    BY <1>1, <1>8 DEF NewSession, LinkType, HostType
  <2>2. StageType' /\ InType' /\ SeenType' /\ JogType' /\ QueueType'
    BY <1>1, <1>8 DEF NewSession, At, StageType, InType, SeenType, JogType, QueueType
  <2>3. QED
    BY <2>1, <2>2 DEF Parts
<1>9. QED
  BY <1>2, <1>3, <1>5, <1>6, <1>7, <1>8 DEF SessionPoll

\* What the rest of poll does.
LEMMA PollTailType == Parts /\ PollTail => Parts'
<1> SUFFICES ASSUME Parts, PollTail PROVE Parts'
  OBVIOUS
<1>1. StageType /\ InType /\ SeenType /\ JogType /\ QueueType /\ LinkType /\ HostType
  BY DEF Parts
<1>2. CASE Offline
  <2>1. JogType'
    BY <1>1, <1>2, CancelType DEF Offline, CancelJog, LinkType
  <2>2. SeenType'
    BY <1>1, <1>2, SeenUpdates DEF Offline, SeenType
  <2>3. QED
    BY <1>1, <1>2, <2>1, <2>2 DEF Parts, Offline, At, StageType, InType, QueueType,
       LinkType, HostType
<1>3. CASE Online
  <2>1. JogType'
    BY <1>1, <1>3, CancelType DEF Online, CancelJog, KeepJog, JogType, LinkType
  <2>2. SeenType'
    BY <1>1, <1>3, SeenUpdates DEF Online, NotJogging, SeenType
  <2>3. QED
    BY <1>1, <1>3, <2>1, <2>2 DEF Parts, Online, At, StageType, InType, QueueType,
       LinkType, HostType
<1>4. Sending => StageType' /\ InType' /\ SeenType' /\ HostType'
  BY <1>1 DEF Sending, StageType, InType, SeenType, HostType
<1>5. CASE SendStop
  <2>1. LinkType'
    BY <1>1, <1>5 DEF SendStop, Send, LinkType, Packets
  <2>2. JogType' /\ QueueType'
    BY <1>1, <1>5 DEF SendStop, Sending, JogType, QueueType
  <2>3. QED
    BY <1>4, <1>5, <2>1, <2>2 DEF Parts, SendStop
<1>6. CASE SendNothing
  <2>1. LinkType' /\ JogType' /\ QueueType'
    BY <1>1, <1>6 DEF SendNothing, Sending, LinkType, JogType, QueueType
  <2>2. QED
    BY <1>4, <1>6, <2>1 DEF Parts, SendNothing
<1>7. Free => Sending /\ JogType'
  BY <1>1 DEF Free, Sending, JogType
<1>8. CASE SendStart \/ SendRenew
  <2>1. LinkType'
    BY <1>1, <1>8 DEF SendStart, SendRenew, Send, LinkType, Packets
  <2>2. QueueType'
    BY <1>1, <1>8 DEF SendStart, SendRenew, QueueType
  <2>3. QED
    BY <1>4, <1>7, <1>8, <2>1, <2>2 DEF Parts, SendStart, SendRenew
<1>9. CASE SendCommand
  <2>1. Head(queue) \in Commands /\ Tail(queue) \in Seq(Commands)
        /\ Len(Tail(queue)) = Len(queue) - 1 /\ Len(queue) \in Nat
    BY <1>1, <1>9 DEF SendCommand, QueueType
  <2>2. QueueType'
    BY <1>1, <1>9, <2>1, ConstantTypes DEF SendCommand, QueueType
  <2>3. LinkType'
    BY <1>1, <1>9, <2>1 DEF SendCommand, Send, LinkType, Packets
  <2>4. QED
    BY <1>4, <1>7, <1>9, <2>2, <2>3 DEF Parts, SendCommand
<1>10. QED
  BY <1>2, <1>3, <1>5, <1>6, <1>8, <1>9 DEF PollTail

\* What the companion does.
LEMMA CompanionType == Parts /\ Host => Parts'
<1> SUFFICES ASSUME Parts, Host PROVE Parts'
  OBVIOUS
<1>1. StageType /\ InType /\ SeenType /\ JogType /\ QueueType /\ LinkType /\ HostType
  BY DEF Parts
<1>2. Companion
  BY DEF Host, AcceptStart, AcceptRenew, AcceptStop, AcceptCommand, AbortMotion, Tick,
         HostLosesSession, Arrives
<1>3. StageType' /\ InType' /\ SeenType' /\ JogType' /\ QueueType'
  BY <1>1, <1>2 DEF Companion, StageType, InType, SeenType, JogType, QueueType
<1>4. accepted' \in BOOLEAN
  BY <1>1 DEF Host, AcceptStart, AcceptRenew, AcceptStop, AcceptCommand, AbortMotion, Tick,
              HostLosesSession, LinkType
<1>5. LinkType'
  BY <1>1, <1>2, <1>4 DEF Companion, LinkType
<1>6. HostType'
  <2>1. CASE UNCHANGED host
    BY <1>1, <2>1 DEF HostType
  <2>2. CASE \E n \in 0..Lease : host' = [host EXCEPT !.left = n]
    BY <1>1, <2>2 DEF HostType
  <2>3. CASE host' = [up |-> FALSE, left |-> 0]
    BY <2>3, ConstantTypes DEF HostType
  <2>4. host.left \in 0..Lease /\ 0 \in 0..Lease /\ Lease \in 0..Lease
        /\ (host.left > 0 => host.left - 1 \in 0..Lease)
    BY <1>1, ConstantTypes DEF HostType
  <2>5. QED
    BY <2>1, <2>2, <2>3, <2>4 DEF Host, AcceptStart, AcceptRenew, AcceptStop, AcceptCommand,
       AbortMotion, Tick, HostLosesSession
<1>7. QED
  BY <1>3, <1>5, <1>6 DEF Parts

\* Every variable keeps its type, and the queue of the BridgeController its
\* limit (queue_command).
THEOREM BridgeTypeCorrect == Spec => []TypeOK
<1>1. Init => Parts
  <2>1. Init => StageType /\ JogType
    BY DEF Init, StageType, JogType
  <2>5. Init => InType
    BY DEF Init, InType
  <2>6. Init => SeenType
    BY DEF Init, SeenType, Modes
  <2>7. Init => LinkType
    <3>1. [up |-> FALSE, motion |-> FALSE, out |-> "none"]
              \in [up : BOOLEAN, motion : BOOLEAN, out : Packets \cup {"none"}]
      OBVIOUS
    <3>2. QED
      BY <3>1, Zenon DEF Init, LinkType
  <2>2. Init => QueueType
    BY ConstantTypes DEF Init, QueueType
  <2>3. Init => HostType
    BY ConstantTypes DEF Init, HostType
  <2>4. QED
    BY <2>1, <2>2, <2>3, <2>5, <2>6, <2>7 DEF Parts
<1>2. Parts /\ [Next]_vars => Parts'
  <2>1. Parts /\ UNCHANGED vars => Parts'
    BY DEF Parts, StageType, InType, SeenType, JogType, QueueType, LinkType, HostType, vars
  <2>2. QED
    BY <2>1, ApplicationType, SessionPollType, PollTailType, CompanionType DEF Next
<1>3. QED
  BY <1>1, <1>2, TypeParts, PTL DEF Spec
-----------------------------------------------------------------------------
(* Who answers for the companion's motion.  MotionHasOwner is not inductive:  *)
(* what is outstanding, what each end takes the other to be doing and the     *)
(* loss of a session have to be said with it.                                 *)

\* An acknowledgement is of something outstanding.
AckOfSomething == accepted => session.out # "none"
\* An end without a session has nothing under way in it.
NothingWhileDown ==
    /\ ~session.up => ~session.motion /\ session.out = "none"
    /\ ~host.up => host.left = 0
\* The pendant knows of the companion's motion until its STOP is sent.
MotionIsKnown == host.left > 0 /\ session.up => session.motion \/ session.out = "STOP"
\* What the pendant knows of, it asks for or is going to stop.
MotionIsWanted == session.motion => intent # "none" \/ owed
\* A START or RENEW under way is for a motion known.
StartIsKnown == session.out \in {"START", "RENEW"} => session.motion
\* A STOP accepted has ended the motion.
StopIsDone == session.out = "STOP" /\ accepted => host.left = 0
\* A command under way has no motion known before it, and finds none.
CommandAlone == session.out \in Commands => host.left = 0

MotionInv ==
    /\ AckOfSomething /\ NothingWhileDown /\ MotionIsKnown
    /\ MotionIsWanted /\ StartIsKnown /\ StopIsDone /\ CommandAlone

\* At the start nothing moves and nothing is known.
LEMMA MotionInit == Init => MotionInv
BY DEF Init, MotionInv, AckOfSomething, NothingWhileDown, MotionIsKnown, MotionIsWanted,
       StartIsKnown, StopIsDone, CommandAlone, Commands

\* The application touches neither link nor companion: only what it wants of
\* a motion it knows.
LEMMA MotionApplication == Parts /\ MotionInv /\ Application => MotionInv'
<1> SUFFICES ASSUME Parts, MotionInv, Application PROVE MotionInv'
  OBVIOUS
<1>1. App
  BY DEF Application, Cancel, ChangeAxis, TurnDeadman, PressEstop, RecoverEstop, JogTimeout,
         Jog, HoldOrReset, Resume
<1>2. UNCHANGED <<session, accepted, host>>
  BY <1>1 DEF App
<1>3. AckOfSomething' /\ NothingWhileDown' /\ MotionIsKnown' /\ StartIsKnown'
      /\ StopIsDone' /\ CommandAlone'
  BY <1>2 DEF MotionInv, AckOfSomething, NothingWhileDown, MotionIsKnown, StartIsKnown,
     StopIsDone, CommandAlone
<1>4. MotionIsWanted'
  <2>1. CASE CancelJog
    BY <1>2, <2>1 DEF CancelJog, CancelJogIn, Owes, MotionIsWanted
  <2>2. CASE KeepJog
    BY <1>2, <2>2 DEF KeepJog, MotionInv, MotionIsWanted
  <2>3. CASE \E i \in Intents : intent' = i
    BY <2>3, BridgeConstants DEF MotionIsWanted
  <2>4. QED
    BY <2>1, <2>2, <2>3 DEF Application, Cancel, ChangeAxis, TurnDeadman, PressEstop,
       RecoverEstop, JogTimeout, Jog, HoldOrReset, Resume
<1>5. QED
  BY <1>3, <1>4 DEF MotionInv

\* session.poll resolves what is outstanding or forgets the session.
LEMMA MotionSessionPoll ==
    Parts /\ MotionInv /\ (StartPoll \/ SessionPoll \/ EndSessionPoll) => MotionInv'
<1> SUFFICES ASSUME Parts, MotionInv, StartPoll \/ SessionPoll \/ EndSessionPoll
             PROVE  MotionInv'
  OBVIOUS
<1> USE DEF MotionInv, AckOfSomething, NothingWhileDown, MotionIsKnown, MotionIsWanted,
            StartIsKnown, StopIsDone, CommandAlone
<1>1. LinkType /\ HostType
  BY DEF Parts
<1>2. CASE StartPoll \/ EndSessionPoll
  BY <1>2 DEF StartPoll, EndSessionPoll
<1>3. CASE ReceiveAck
  <2>1. session'.up = session.up /\ session'.motion = session.motion
        /\ session'.out = "none" /\ ~accepted' /\ accepted
    BY <1>1, <1>3 DEF ReceiveAck, LinkType
  <2>2. UNCHANGED <<host, intent, owed>> /\ session.out \in Packets
    BY <1>1, <1>3 DEF ReceiveAck, Receiving, LinkType
  <2>3. QED
    BY <2>1, <2>2 DEF Packets, Commands
<1>4. CASE ReceiveStatus
  <2>1. UNCHANGED <<session, accepted, host>>
    BY <1>4 DEF ReceiveStatus, Receiving
  <2>2. CASE CancelJog
    BY <2>1, <2>2 DEF CancelJog, CancelJogIn, Owes
  <2>3. CASE KeepJog
    BY <2>1, <2>3 DEF KeepJog
  <2>4. QED
    BY <1>4, <2>2, <2>3 DEF ReceiveStatus
<1>5. CASE LoseSession
  <2>1. session' = [up |-> FALSE, motion |-> FALSE, out |-> "none"] /\ ~accepted'
        /\ host' = host
    BY <1>5 DEF LoseSession, Receiving
  <2>2. QED
    BY <2>1 DEF Commands
<1>6. CASE NewSession
  <2>1. session'.motion = session.motion /\ session'.out = session.out
        /\ host'.left = host.left /\ host'.up /\ session'.up
    BY <1>1, <1>6 DEF NewSession, LinkType, HostType
  <2>2. ~session.up /\ ~host.up /\ UNCHANGED <<accepted, intent, owed>>
    BY <1>6 DEF NewSession
  <2>3. QED
    BY <2>1, <2>2 DEF Commands
<1>7. QED
  BY <1>2, <1>3, <1>4, <1>5, <1>6 DEF SessionPoll

\* The rest of poll sends a STOP that is owed before anything else, and a
\* command only when no motion is known.
LEMMA MotionPollTail == Parts /\ MotionInv /\ PollTail => MotionInv'
<1> SUFFICES ASSUME Parts, MotionInv, PollTail PROVE MotionInv'
  OBVIOUS
<1> USE DEF MotionInv, AckOfSomething, NothingWhileDown, MotionIsKnown, MotionIsWanted,
            StartIsKnown, StopIsDone, CommandAlone
<1>1. LinkType /\ HostType /\ QueueType
  BY DEF Parts
<1>2. CASE Offline \/ Online
  <2>1. UNCHANGED <<session, accepted, host>>
    BY <1>2 DEF Offline, Online
  <2>2. CancelJog \/ KeepJog
    BY <1>2 DEF Offline, Online
  <2>3. QED
    BY <2>1, <2>2 DEF CancelJog, CancelJogIn, Owes, KeepJog
<1>3. CASE SendStop
  <2>1. session'.up = session.up /\ session'.out = "STOP" /\ ~session'.motion /\ ~accepted'
    BY <1>1, <1>3 DEF SendStop, Send, LinkType
  <2>2. UNCHANGED host /\ session.up
    BY <1>3 DEF SendStop, Sending, MaySend
  <2>3. QED
    BY <2>1, <2>2 DEF Commands
<1>4. CASE SendNothing
  BY <1>4 DEF SendNothing, Sending
<1>5. Free => UNCHANGED <<intent, host, owed>> /\ session.up /\ session.out = "none" /\ ~owed
  BY DEF Free, Sending, MaySend
<1>6. CASE SendStart
  <2>1. session'.up = session.up /\ session'.out = "START" /\ session'.motion /\ ~accepted'
    BY <1>1, <1>6 DEF SendStart, Send, LinkType
  <2>2. QED
    BY <1>5, <1>6, <2>1 DEF SendStart, Commands
<1>7. CASE SendRenew
  <2>1. session'.up = session.up /\ session'.out = "RENEW"
        /\ session'.motion = session.motion /\ ~accepted'
    BY <1>1, <1>7 DEF SendRenew, Send, LinkType
  <2>2. QED
    BY <1>5, <1>7, <2>1 DEF SendRenew, Commands
<1>8. CASE SendCommand
  <2>1. Head(queue) \in Commands
    BY <1>1, <1>8 DEF SendCommand, QueueType
  <2>2. session'.up = session.up /\ session'.out = Head(queue)
        /\ session'.motion = session.motion /\ ~accepted'
    BY <1>1, <1>8 DEF SendCommand, Send, LinkType
  <2>3. ~session.motion /\ host.left = 0
    BY <1>1, <1>5, <1>8 DEF SendCommand, HostType
  <2>4. QED
    BY <1>5, <1>8, <2>1, <2>2, <2>3 DEF SendCommand, Commands
<1>9. QED
  BY <1>2, <1>3, <1>4, <1>6, <1>7, <1>8 DEF PollTail

\* The companion begins and prolongs only a motion the pendant knows.
LEMMA MotionCompanion == Parts /\ MotionInv /\ Host => MotionInv'
<1> SUFFICES ASSUME Parts, MotionInv, Host PROVE MotionInv'
  OBVIOUS
<1> USE DEF MotionInv, AckOfSomething, NothingWhileDown, MotionIsKnown, MotionIsWanted,
            StartIsKnown, StopIsDone, CommandAlone
<1>1. HostType /\ Lease \in Nat \ {0} /\ accepted \in BOOLEAN
  BY ConstantTypes DEF Parts, LinkType
<1>2. UNCHANGED <<session, intent, owed>>
  BY DEF Host, AcceptStart, AcceptRenew, AcceptStop, AcceptCommand, AbortMotion, Tick,
         HostLosesSession, Arrives, Companion
<1>3. CASE AcceptStart \/ AcceptRenew
  <2>1. host.up /\ host'.up /\ session.out \in {"START", "RENEW"} /\ accepted'
    BY <1>1, <1>3 DEF AcceptStart, AcceptRenew, Arrives, HostType
  <2>2. QED
    BY <1>2, <2>1 DEF Commands
<1>4. CASE AcceptStop
  <2>1. host.up /\ host'.up /\ session.out = "STOP" /\ host'.left = 0
    BY <1>1, <1>4 DEF AcceptStop, Arrives, HostType
  <2>2. QED
    BY <1>2, <2>1 DEF Commands
<1>5. CASE AcceptCommand
  BY <1>2, <1>5 DEF AcceptCommand, Arrives, Commands
<1>6. CASE AbortMotion
  <2>1. host'.up = host.up /\ host'.left = 0 /\ accepted' = accepted
    BY <1>1, <1>6 DEF AbortMotion, HostType
  <2>2. QED
    BY <1>2, <2>1
<1>7. CASE Tick
  <2>1. host'.up = host.up /\ host.left > 0 /\ host'.left = host.left - 1
        /\ accepted' = accepted /\ host.left \in Nat
    BY <1>1, <1>7 DEF Tick, HostType
  <2>2. QED
    BY <1>2, <2>1
<1>8. CASE HostLosesSession
  <2>1. ~host'.up /\ host'.left = 0 /\ accepted' = accepted
    BY <1>8 DEF HostLosesSession
  <2>2. QED
    BY <1>2, <2>1
<1>9. QED
  BY <1>3, <1>4, <1>5, <1>6, <1>7, <1>8 DEF Host

\* Types and the invariant, of every step.
LEMMA MotionStep == Parts /\ MotionInv /\ [Next]_vars => MotionInv'
<1>1. MotionInv /\ UNCHANGED vars => MotionInv'
  BY DEF MotionInv, AckOfSomething, NothingWhileDown, MotionIsKnown, MotionIsWanted,
         StartIsKnown, StopIsDone, CommandAlone, vars
<1>2. QED
  BY <1>1, MotionApplication, MotionSessionPoll, MotionPollTail, MotionCompanion DEF Next

\* Every reachable state satisfies both.
LEMMA MotionAlways == Spec => [](Parts /\ MotionInv)
<1>1. Spec => []Parts
  BY BridgeTypeCorrect, TypeParts, PTL
<1>2. QED
  BY <1>1, MotionInit, MotionStep, PTL DEF Spec

\* A companion that moves for a pendant with a session is one the operator
\* still asks to move, or one the pendant is bound to stop (cancel_jog and poll
\* against every order of cancels, losses, refusals and new sessions).
THEOREM BridgeMotionHasOwner == Spec => []MotionHasOwner
<1>1. Parts /\ MotionInv => MotionHasOwner
  BY DEF MotionInv, MotionIsKnown, MotionIsWanted, MotionHasOwner
<1>2. QED
  BY <1>1, MotionAlways, PTL

\* A queued command the companion accepts finds no motion there (the order in
\* which poll sends: an owed STOP, then the intent, then the queue).
THEOREM BridgeCommandsFindNoMotion == Spec => CommandsFindNoMotion
<1>1. Parts /\ MotionInv
      => (session.out \in Commands /\ accepted' /\ ~accepted => host.left = 0)
  BY DEF MotionInv, CommandAlone
<1>2. QED
  BY <1>1, MotionAlways, PTL DEF CommandsFindNoMotion
=============================================================================
