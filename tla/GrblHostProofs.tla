-------------------------- MODULE GrblHostProofs --------------------------
(***************************************************************************)
(* What TLAPS proves of GrblHost for every time-out and bound.             *)
(***************************************************************************)
EXTENDS GrblHost, SequenceTheorems, TLAPS

USE DEF Never

\* HostConstants, one constant at a time.
LEMMA ConstantTypes ==
    /\ StatusPoll \in Nat \ {0} /\ Stale \in Nat \ {0}
    /\ JogAck \in Nat \ {0} /\ JogDone \in Nat \ {0}
    /\ MaxStarts \in Nat /\ MaxCommands \in Nat /\ MaxFaults \in Nat
    /\ AgeCap \in Nat \ {0}
BY HostConstants DEF AgeCap

----------------------------------------------------------------------------
(* TypeOK falls into the parts that the adapter's steps touch separately. *)

Bytes == Realtime \cup {"$J", "$H"}

JogType ==
    /\ active \in BOOLEAN /\ pending \in BOOLEAN
    /\ jogAge \in Never..(JogDone + 1)
    /\ active <=> jogAge # Never

CancelType ==
    /\ cancelSent \in BOOLEAN /\ cancelPending \in BOOLEAN
    /\ cancelPending <=> ~cancelSent
    /\ needsIdle \in BOOLEAN /\ cancelBefore \in BOOLEAN

\* What stop_jog and _send_segment touch.
AdapterType ==
    /\ JogType /\ CancelType
    /\ toGrbl \in Seq(Bytes)
    /\ faults \in 0..MaxFaults

StateType ==
    /\ mode \in Modes \cup {"disconnected"}
    /\ fresh \in BOOLEAN /\ up \in BOOLEAN

LoopType ==
    /\ phase \in Phases
    /\ authority \in BOOLEAN
    /\ pollAge \in Never..StatusPoll
    /\ statusAge \in Never..AgeCap

LineType ==
    /\ plugged \in BOOLEAN
    /\ fromGrbl \in Seq(Lines)
    /\ rxLines \in Seq({"$J", "$H"})
    /\ grbl \in Modes

CountType == starts \in 0..MaxStarts /\ commands \in 0..MaxCommands

\* The parts make up the whole.
LEMMA TypeParts ==
    TypeOK <=> AdapterType /\ StateType /\ LoopType /\ LineType /\ CountType
BY DEF TypeOK, AdapterType, JogType, CancelType, StateType, LoopType, LineType,
       CountType, Bytes

\* Queues of lines: empty, longer by one or shorter by one.
LEMMA QueueType ==
    ASSUME NEW S, NEW q \in Seq(S)
    PROVE  /\ <<>> \in Seq(S)
           /\ \A x \in S : Append(q, x) \in Seq(S)
           /\ q # <<>> => Tail(q) \in Seq(S)
OBVIOUS

----------------------------------------------------------------------------
(* stop_jog, _send_segment and writes. *)

\* A write of a known byte or line keeps the type of the wire.
LEMMA WriteType ==
    ASSUME AdapterType, NEW x \in Bytes, Write(x)
    PROVE  toGrbl' \in Seq(Bytes)
BY DEF AdapterType, Write

\* One failure more is still within the bound.
LEMMA FaultType == AdapterType /\ Fault => faults' \in 0..MaxFaults
BY ConstantTypes DEF AdapterType, Fault

\* Dropping the intent leaves none.
LEMMA DropType == DropIntent => JogType'
<1>1. -1 \in -1..(JogDone + 1)
  BY ConstantTypes
<1>2. QED
  BY <1>1 DEF DropIntent, JogType

\* Nothing of the cancel changes, or the cancel goes out.
LEMMA CancelStep ==
    ASSUME AdapterType, WriteCancel \/ UNCHANGED <<cancelVars, toGrbl>>
    PROVE  CancelType' /\ toGrbl' \in Seq(Bytes)
<1>1. CASE WriteCancel
  <2>1. toGrbl' \in Seq(Bytes)
    BY <1>1, WriteType DEF WriteCancel, Bytes, Realtime
  <2>2. CancelType'
    BY <1>1 DEF WriteCancel, CancelType
  <2>3. QED
    BY <2>1, <2>2
<1>2. CASE UNCHANGED <<cancelVars, toGrbl>>
  BY <1>2 DEF cancelVars, CancelType, AdapterType
<1>3. QED
  BY <1>1, <1>2

\* stop_jog, whether it writes, fails or owes nothing.
LEMMA StopType == AdapterType /\ StopJog => AdapterType'
<1> SUFFICES ASSUME AdapterType, StopJog PROVE AdapterType'
  OBVIOUS
<1>1. JogType'
  BY DropType DEF StopJog
<1>2. CancelType' /\ toGrbl' \in Seq(Bytes)
  BY CancelStep DEF StopJog
<1>3. faults' \in 0..MaxFaults
  BY FaultType DEF StopJog, AdapterType
<1>4. QED
  BY <1>1, <1>2, <1>3 DEF AdapterType

\* No call of stop_jog.
LEMMA KeepType == AdapterType /\ KeepJog => AdapterType'
BY DEF KeepJog, AdapterType, JogType, CancelType, jogVars, cancelVars

\* A conditional call of stop_jog.
LEMMA StopIfType == ASSUME NEW b, AdapterType, StopJogIf(b) PROVE AdapterType'
BY StopType, KeepType DEF StopJogIf

\* _send_segment that succeeds.
LEMMA SegmentType == AdapterType /\ SendSegment => AdapterType'
<1> SUFFICES ASSUME AdapterType, SendSegment PROVE AdapterType'
  OBVIOUS
<1>1. toGrbl' \in Seq(Bytes)
  BY WriteType DEF SendSegment, Bytes
<1>2. JogType'
  BY ConstantTypes DEF SendSegment, JogType
<1>3. CancelType'
  BY DEF SendSegment, CancelType, AdapterType
<1>4. QED
  BY <1>1, <1>2, <1>3 DEF AdapterType, SendSegment

----------------------------------------------------------------------------
(* The steps, one lemma for each part of the type. *)

\* adapter.poll keeps the adapter's part.
LEMMA PollAdapterType == AdapterType /\ AdapterPoll => AdapterType'
<1> SUFFICES ASSUME AdapterType, AdapterPoll PROVE AdapterType'
  OBVIOUS
<1>1. CASE PollUnplugged
  BY <1>1, StopIfType DEF PollUnplugged
<1>2. CASE BeginPoll
  <2>1. CASE Owed
    BY <1>2, <2>1, StopType DEF BeginPoll
  <2>2. CASE ~Owed
    BY <1>2, <2>2 DEF BeginPoll, AdapterType, JogType, CancelType, jogVars
  <2>3. QED
    BY <2>1, <2>2
<1>3. CASE Ask
  <2>1. CASE Write("?")
    BY <1>3, <2>1, WriteType
       DEF Ask, AdapterType, JogType, CancelType, jogVars, cancelVars, Bytes, Realtime
  <2>2. CASE UNCHANGED toGrbl
    BY <1>3, <2>2 DEF Ask, AdapterType, JogType, CancelType, jogVars, cancelVars
  <2>3. QED
    BY <1>3, <2>1, <2>2 DEF Ask
<1>4. CASE AskFails
  <2>1. JogType'
    BY <1>4, DropType DEF AskFails
  <2>2. CancelType' /\ toGrbl' \in Seq(Bytes)
    BY <1>4, CancelStep DEF AskFails
  <2>3. faults' \in 0..MaxFaults
    BY <1>4, FaultType DEF AskFails
  <2>4. QED
    BY <2>1, <2>2, <2>3 DEF AdapterType
<1>5. CASE ParseLine
  <2> DEFINE line == Head(fromGrbl)
  <2>1. CASE line \in {"ok", "okHome"}
    <3>1. pending' = FALSE /\ UNCHANGED <<active, jogAge, cancelVars, toGrbl, faults>>
      BY <1>5, <2>1 DEF ParseLine
    <3>2. QED
      BY <3>1 DEF AdapterType, JogType, CancelType, cancelVars
  <2>2. CASE line \in {"error", "errorHome"}
    <3>1. CASE StopJog
      BY <3>1, StopType
    <3>2. CASE pending' = FALSE /\ UNCHANGED <<active, jogAge, cancelVars, toGrbl, faults>>
      BY <3>2 DEF AdapterType, JogType, CancelType, cancelVars
    <3>3. QED
      BY <1>5, <2>2, <3>1, <3>2 DEF ParseLine
  <2>3. CASE line \in {"ALARM", "home", "alarm"}
    <3>1. StopJogIf(active \/ pending)
      BY <1>5, <2>3 DEF ParseLine
    <3>2. QED
      BY <3>1, StopIfType
  <2>4. CASE line \in {"idle", "jog"}
    <3>1. /\ UNCHANGED <<jogVars, cancelSent, cancelPending, cancelBefore, toGrbl, faults>>
          /\ needsIdle' = (needsIdle /\ ~(line = "idle" /\ cancelBefore))
      BY <1>5, <2>4 DEF ParseLine
    <3>2. needsIdle' \in BOOLEAN
      BY <3>1, Zenon
    <3>3. QED
      BY <3>1, <3>2 DEF AdapterType, JogType, CancelType, jogVars
  <2>5. QED
    BY <1>5, <2>1, <2>2, <2>3, <2>4 DEF ParseLine
<1>6. CASE EndPoll
  BY <1>6 DEF EndPoll, AdapterType, JogType, CancelType, jogVars, cancelVars, bounds
<1>7. CASE PollRaises
  BY <1>7, StopIfType DEF PollRaises
<1>8. QED
  BY <1>1, <1>2, <1>3, <1>4, <1>5, <1>6, <1>7 DEF AdapterPoll

\* session.poll keeps the adapter's part.
LEMMA SessionAdapterType == AdapterType /\ SessionPoll => AdapterType'
<1> SUFFICES ASSUME AdapterType, SessionPoll PROVE AdapterType'
  OBVIOUS
<1>1. CASE Start
  BY <1>1, SegmentType DEF Start
<1>2. CASE StartFails
  BY <1>2, FaultType DEF StartFails, AdapterType, JogType, CancelType, jogVars, cancelVars
<1>3. CASE Renew
  BY <1>3, SegmentType, StopType, KeepType DEF Renew
<1>4. CASE Revoke
  BY <1>4, StopType DEF Revoke
<1>5. CASE \E c \in {"HOME", "HOLD", "RESUME", "RESET"} : Command(c)
  <2>1. PICK c \in {"HOME", "HOLD", "RESUME", "RESET"} : Command(c)
    BY <1>5
  <2>2. (IF c = "HOME" THEN "$H" ELSE c) \in Bytes
    BY <2>1 DEF Bytes, Realtime
  <2>3. toGrbl' \in Seq(Bytes)
    BY <2>1, <2>2, WriteType DEF Command
  <2>4. QED
    BY <2>1, <2>3 DEF Command, AdapterType, JogType, CancelType, jogVars, cancelVars
<1>6. CASE EndLoop
  BY <1>6 DEF EndLoop, AdapterType, JogType, CancelType, jogVars, cancelVars, bounds
<1>7. QED
  BY <1>1, <1>2, <1>3, <1>4, <1>5, <1>6 DEF SessionPoll

\* No other step touches what the adapter keeps, but the wire drains, a fault is
\* counted and the jog grows older.
LEMMA OtherAdapterType == AdapterType /\ LineType /\ (Controller \/ Unplug \/ Replug \/ Tick) => AdapterType'
<1> SUFFICES ASSUME AdapterType, LineType, Controller \/ Unplug \/ Replug \/ Tick
             PROVE  AdapterType'
  OBVIOUS
<1> USE DEF AdapterType, JogType, CancelType, hostVars, jogVars, cancelVars, bounds
<1>1. CASE GrblReceives
  <2>1. toGrbl' \in Seq(Bytes)
    BY <1>1 DEF GrblReceives
  <2>2. QED
    BY <1>1, <2>1 DEF GrblReceives
<1>2. CASE GrblParses
  BY <1>2, FaultType DEF GrblParses
<1>3. CASE GrblFinishes
  BY <1>3, FaultType DEF GrblFinishes
<1>4. CASE Unplug
  <2>1. toGrbl' \in Seq(Bytes)
    BY <1>4 DEF Unplug
  <2>2. QED
    BY <1>4, <2>1, FaultType DEF Unplug
<1>5. CASE Replug
  BY <1>5 DEF Replug
<1>6. CASE Tick
  <2>1. jogAge' \in -1..(JogDone + 1) /\ (jogAge' # -1 <=> jogAge # -1)
    BY <1>6, ConstantTypes DEF Tick, Older, Min2
  <2>2. QED
    BY <1>6, <2>1 DEF Tick
<1>7. QED
  BY <1>1, <1>2, <1>3, <1>4, <1>5, <1>6 DEF Controller

\* The reported state.
LEMMA StateStep == StateType /\ LineType /\ Next => StateType'
<1> SUFFICES ASSUME StateType, LineType, Next PROVE StateType'
  OBVIOUS
<1> USE DEF StateType, stateVars
<1>1. CASE PollUnplugged
  BY <1>1 DEF PollUnplugged
<1>2. CASE AskFails
  BY <1>2 DEF AskFails
<1>3. CASE ParseLine
  <2>1. fresh' = fresh /\ up' = up
    BY <1>3 DEF ParseLine
  <2>2. mode' \in {mode, "alarm", "idle", "jog", "home"}
    BY <1>3 DEF ParseLine
  <2>3. QED
    BY <2>1, <2>2 DEF Modes
<1>4. CASE EndPoll
  <2>1. fresh' \in BOOLEAN
    BY <1>4, Zenon DEF EndPoll
  <2>2. QED
    BY <1>4, <2>1 DEF EndPoll, LineType
<1>5. CASE PollRaises
  BY <1>5 DEF PollRaises
<1>6. CASE UNCHANGED stateVars
  BY <1>6
<1>7. BeginPoll \/ Ask \/ SessionPoll \/ Controller \/ Unplug \/ Replug \/ Tick
        => UNCHANGED stateVars
  BY DEF BeginPoll, Ask, SessionPoll, Start, StartFails, Renew, Revoke, Command, EndLoop,
         Controller, GrblReceives, GrblParses, GrblFinishes, Unplug, Replug, Tick, hostVars
<1>8. QED
  BY <1>1, <1>2, <1>3, <1>4, <1>5, <1>6, <1>7 DEF Next, AdapterPoll

\* The loop's own variables.
LEMMA LoopStep == LoopType /\ Next => LoopType'
<1> SUFFICES ASSUME LoopType, Next PROVE LoopType'
  OBVIOUS
<1> USE DEF LoopType, Phases
<1>1. CASE AdapterPoll
  <2>1. authority' \in BOOLEAN
    BY <1>1 DEF AdapterPoll, PollUnplugged, BeginPoll, Ask, AskFails, ParseLine, EndPoll,
                PollRaises
  <2>2. phase' \in Phases
    BY <1>1 DEF AdapterPoll, PollUnplugged, BeginPoll, Ask, AskFails, ParseLine, EndPoll,
                PollRaises
  <2>3. pollAge' \in {pollAge, -1, 0} /\ statusAge' \in {statusAge, 0}
    BY <1>1 DEF AdapterPoll, PollUnplugged, BeginPoll, Ask, AskFails, ParseLine, EndPoll,
                PollRaises
  <2>4. QED
    BY <2>1, <2>2, <2>3, ConstantTypes
<1>2. CASE SessionPoll
  <2>1. UNCHANGED <<pollAge, statusAge>>
    BY <1>2 DEF SessionPoll, Start, StartFails, Renew, Revoke, Command, EndLoop
  <2>2. phase' \in Phases
    BY <1>2 DEF SessionPoll, Start, StartFails, Renew, Revoke, Command, EndLoop
  <2>3. authority' \in BOOLEAN
    BY <1>2 DEF SessionPoll, Start, StartFails, Renew, Revoke, Command, EndLoop
  <2>4. QED
    BY <2>1, <2>2, <2>3
<1>3. CASE Controller \/ Unplug \/ Replug
  BY <1>3 DEF Controller, GrblReceives, GrblParses, GrblFinishes, Unplug, Replug, hostVars
<1>4. CASE Tick
  <2>1. pollAge' \in -1..StatusPoll /\ statusAge' \in -1..AgeCap
    BY <1>4, ConstantTypes DEF Tick, Older, Min2
  <2>2. QED
    BY <1>4, <2>1 DEF Tick
<1>5. QED
  BY <1>1, <1>2, <1>3, <1>4 DEF Next

\* The serial line and the controller.
LEMMA LineStep == LineType /\ Next => LineType'
<1> SUFFICES ASSUME LineType, Next PROVE LineType'
  OBVIOUS
<1> USE DEF LineType, grblVars, Lines, Modes
<1>1. CASE ParseLine
  BY <1>1 DEF ParseLine
<1>2. CASE GrblReceives
  <2>1. /\ rxLines' \in {rxLines, <<>>, Append(rxLines, "$J"), Append(rxLines, "$H")}
        /\ fromGrbl' \in {fromGrbl, Append(fromGrbl, grbl)}
        /\ grbl' \in {grbl, "idle", "alarm"} /\ plugged' = plugged
    BY <1>2 DEF GrblReceives, Emit
  <2>2. rxLines' \in Seq({"$J", "$H"})
    BY <2>1, QueueType
  <2>3. fromGrbl' \in Seq(Lines)
    BY <2>1, QueueType
  <2>4. QED
    BY <2>1, <2>2, <2>3
<1>3. CASE GrblParses
  <2>1. /\ rxLines' = Tail(rxLines) /\ rxLines # <<>>
        /\ fromGrbl' \in {fromGrbl, Append(fromGrbl, "ok"), Append(fromGrbl, "error"),
                           Append(fromGrbl, "errorHome")}
        /\ grbl' \in {grbl, "jog", "home"} /\ plugged' = plugged
    BY <1>3 DEF GrblParses, Emit
  <2>2. rxLines' \in Seq({"$J", "$H"})
    BY <2>1, QueueType
  <2>3. fromGrbl' \in Seq(Lines)
    BY <2>1, QueueType
  <2>4. QED
    BY <2>1, <2>2, <2>3
<1>4. CASE GrblFinishes
  <2>1. /\ fromGrbl' \in {fromGrbl, Append(fromGrbl, "okHome"), Append(fromGrbl, "ALARM")}
        /\ grbl' \in {"idle", "alarm"} /\ UNCHANGED <<plugged, rxLines>>
    BY <1>4 DEF GrblFinishes, Emit
  <2>2. QED
    BY <2>1
<1>5. CASE Unplug \/ Replug
  <2>1. fromGrbl' \in {fromGrbl, <<>>} /\ plugged' \in BOOLEAN /\ UNCHANGED grblVars
    BY <1>5 DEF Unplug, Replug
  <2>2. fromGrbl' \in Seq(Lines)
    BY <2>1, QueueType
  <2>3. QED
    BY <2>1, <2>2
<1>6. CASE UNCHANGED <<plugged, fromGrbl, grblVars>>
  BY <1>6
<1>7. PollUnplugged \/ BeginPoll \/ Ask \/ AskFails \/ EndPoll \/ PollRaises \/ SessionPoll \/ Tick
        => UNCHANGED <<plugged, fromGrbl, grblVars>>
  BY DEF PollUnplugged, BeginPoll, Ask, AskFails, EndPoll, PollRaises, SessionPoll, Start,
         StartFails, Renew, Revoke, Command, EndLoop, Tick
<1>8. QED
  BY <1>1, <1>2, <1>3, <1>4, <1>5, <1>6, <1>7 DEF Next, AdapterPoll, Controller

\* The counters.
LEMMA CountStep == CountType /\ Next => CountType'
<1> SUFFICES ASSUME CountType, Next PROVE CountType'
  OBVIOUS
<1> USE DEF CountType, bounds
<1>1. CASE Start
  BY <1>1, ConstantTypes DEF Start
<1>2. CASE \E c \in {"HOME", "HOLD", "RESUME", "RESET"} : Command(c)
  BY <1>2, ConstantTypes DEF Command
<1>3. CASE UNCHANGED <<starts, commands>>
  BY <1>3
<1>4. AdapterPoll \/ StartFails \/ Renew \/ Revoke \/ EndLoop \/ Controller \/ Unplug \/ Replug \/ Tick
        => UNCHANGED <<starts, commands>>
  BY DEF AdapterPoll, PollUnplugged, BeginPoll, Ask, AskFails, ParseLine, EndPoll, PollRaises,
         StartFails, Renew, Revoke, EndLoop, Controller, GrblReceives, GrblParses,
         GrblFinishes, Unplug, Replug, Tick
<1>5. QED
  BY <1>1, <1>2, <1>3, <1>4 DEF Next, SessionPoll

\* The adapter, the line and the controller keep their types, whatever fails and
\* however their steps interleave.
THEOREM HostTypeCorrect == Spec => []TypeOK
<1>1. Init => TypeOK
  <2> SUFFICES ASSUME Init PROVE TypeOK
    OBVIOUS
  <2>1. <<>> \in Seq(Bytes) /\ <<>> \in Seq(Lines) /\ <<>> \in Seq({"$J", "$H"})
    OBVIOUS
  <2> DEFINE Small == /\ -1 \in -1..(JogDone + 1) /\ -1 \in -1..StatusPoll /\ -1 \in -1..AgeCap
                      /\ 0 \in 0..MaxStarts /\ 0 \in 0..MaxCommands /\ 0 \in 0..MaxFaults
  <2>2. Small
    BY ConstantTypes
  <2>3. JogType
    BY <2>2 DEF Init, JogType
  <2>4. CancelType
    BY DEF Init, CancelType
  <2>5. AdapterType
    BY <2>1, <2>3, <2>4, <2>2 DEF Init, AdapterType
  <2>6. StateType /\ LineType
    BY <2>1 DEF Init, StateType, LineType, Modes
  <2>7. LoopType /\ CountType
    BY <2>2 DEF Init, LoopType, CountType, Phases
  <2>8. QED
    BY <2>5, <2>6, <2>7, TypeParts
<1>2. TypeOK /\ [Next]_vars => TypeOK'
  <2> SUFFICES ASSUME TypeOK, [Next]_vars PROVE TypeOK'
    OBVIOUS
  <2>1. AdapterType /\ StateType /\ LoopType /\ LineType /\ CountType
    BY TypeParts
  <2>2. CASE Next
    <3>1. AdapterType'
      BY <2>1, <2>2, PollAdapterType, SessionAdapterType, OtherAdapterType DEF Next
    <3>2. StateType' /\ LoopType' /\ LineType' /\ CountType'
      BY <2>1, <2>2, StateStep, LoopStep, LineStep, CountStep
    <3>3. QED
      BY <3>1, <3>2, TypeParts, PTL
  <2>3. CASE UNCHANGED vars
    BY <2>3 DEF TypeOK, vars
  <2>4. QED
    BY <2>2, <2>3
<1>3. QED
  BY <1>1, <1>2, PTL DEF Spec

----------------------------------------------------------------------------
(* The adapter's intent and the session's authority. *)

\* stop_jog leaves no intent, and without it the intent stays what it was.
LEMMA StopEndsIntent ==
    /\ StopJog => active' = FALSE
    /\ KeepJog => active' = active
    /\ \A b : StopJogIf(b) => (b /\ active' = FALSE) \/ (~b /\ active' = active)
BY DEF StopJogIf, StopJog, DropIntent, KeepJog, jogVars

\* No step leaves an intent without authority.
LEMMA IntentStep == JogNeedsAuthority /\ Next => JogNeedsAuthority'
<1> SUFFICES ASSUME JogNeedsAuthority, Next PROVE JogNeedsAuthority'
  OBVIOUS
<1> USE StopEndsIntent DEF JogNeedsAuthority
<1>1. CASE PollUnplugged
  BY <1>1 DEF PollUnplugged
<1>2. CASE BeginPoll
  BY <1>2 DEF BeginPoll, jogVars
<1>3. CASE AskFails
  BY <1>3 DEF AskFails, DropIntent
<1>4. CASE ParseLine
  <2>1. authority' = authority /\ (active' = FALSE \/ active' = active)
    BY <1>4 DEF ParseLine, jogVars
  <2>2. QED
    BY <2>1
<1>5. CASE PollRaises
  BY <1>5 DEF PollRaises
<1>6. CASE Start
  BY <1>6 DEF Start
<1>7. CASE Renew
  BY <1>7 DEF Renew
<1>8. CASE Revoke
  BY <1>8 DEF Revoke
<1>9. UNCHANGED <<authority, active>> => JogNeedsAuthority'
  OBVIOUS
<1>10. CASE Ask \/ EndPoll \/ StartFails \/ EndLoop \/ Controller \/ Unplug \/ Replug \/ Tick
  BY <1>9, <1>10 DEF Ask, EndPoll, StartFails, EndLoop, Controller, GrblReceives,
     GrblParses, GrblFinishes, Unplug, Replug, Tick, hostVars, jogVars
<1>11. CASE \E c \in {"HOME", "HOLD", "RESUME", "RESET"} : Command(c)
  <2>1. PICK c \in {"HOME", "HOLD", "RESUME", "RESET"} : Command(c)
    BY <1>11
  <2>2. QED
    BY <1>9, <2>1 DEF Command, jogVars
<1>12. CASE AdapterPoll
  BY <1>1, <1>2, <1>3, <1>4, <1>5, <1>10, <1>12 DEF AdapterPoll
<1>13. CASE SessionPoll
  BY <1>6, <1>7, <1>8, <1>10, <1>11, <1>13 DEF SessionPoll
<1>14. QED
  BY <1>10, <1>12, <1>13 DEF Next

\* No failure, refusal, alarm or reconnection leaves the adapter with a jog intent
\* that the session has taken its authority from (stop_jog and its callers).
THEOREM IntentIsAuthorised == Spec => []JogNeedsAuthority
<1>1. Init => JogNeedsAuthority
  BY DEF Init, JogNeedsAuthority
<1>2. JogNeedsAuthority /\ [Next]_vars => JogNeedsAuthority'
  <2>1. JogNeedsAuthority /\ UNCHANGED vars => JogNeedsAuthority'
    BY DEF JogNeedsAuthority, vars
  <2>2. QED
    BY <2>1, IntentStep
<1>3. QED
  BY <1>1, <1>2, PTL DEF Spec

----------------------------------------------------------------------------
(* Segments and their cancels. *)

\* Every segment of q has a cancel behind it.
Covered(q) ==
    \A i \in DOMAIN q : q[i] = "$J" => \E j \in DOMAIN q : j > i /\ q[j] = "cancel"

\* Writing anything but a segment, or reading the first byte, uncovers none.
LEMMA CoveredKept ==
    ASSUME NEW q \in Seq(Bytes), Covered(q)
    PROVE  /\ \A x \in Bytes \ {"$J"} : Covered(Append(q, x))
           /\ q # <<>> => Covered(Tail(q))
           /\ Covered(<<>>)
<1>1. ASSUME NEW x \in Bytes \ {"$J"} PROVE Covered(Append(q, x))
  BY <1>1 DEF Covered
<1>2. ASSUME q # <<>> PROVE Covered(Tail(q))
  <2>1. /\ Len(q) \in Nat \ {0} /\ DOMAIN q = 1..Len(q)
        /\ DOMAIN Tail(q) = 1..(Len(q) - 1)
        /\ \A i \in 1..(Len(q) - 1) : Tail(q)[i] = q[i + 1]
    BY <1>2
  <2>2. SUFFICES ASSUME NEW i \in 1..(Len(q) - 1), q[i + 1] = "$J"
                 PROVE  \E j \in 1..(Len(q) - 1) : j > i /\ q[j + 1] = "cancel"
    BY <2>1 DEF Covered
  <2>3. PICK k \in 1..Len(q) : k > i + 1 /\ q[k] = "cancel"
    BY <2>1, <2>2 DEF Covered
  <2>4. k - 1 \in 1..(Len(q) - 1) /\ k - 1 > i /\ q[(k - 1) + 1] = "cancel"
    BY <2>1, <2>3
  <2>5. QED
    BY <2>4
<1>3. QED
  BY <1>1, <1>2 DEF Covered

\* A cancel covers all that is before it.
LEMMA CancelCovers == ASSUME NEW q \in Seq(Bytes) PROVE Covered(Append(q, "cancel"))
<1>1. /\ Len(q) \in Nat /\ DOMAIN Append(q, "cancel") = 1..(Len(q) + 1)
      /\ Append(q, "cancel")[Len(q) + 1] = "cancel"
  OBVIOUS
<1>2. QED
  BY <1>1 DEF Covered

\* JogHasCancel, put with Covered.
LEMMA HasCancelMeans == JogHasCancel <=> Owed \/ Covered(toGrbl)
BY DEF JogHasCancel, Covered

\* The flags and the wire as they were.
OwedKept == UNCHANGED <<cancelSent, cancelPending>>

\* stop_jog, and a step that keeps the jog, uncover no segment.
LEMMA StopCovers ==
    ASSUME toGrbl \in Seq(Bytes), JogHasCancel, StopJog \/ KeepJog
    PROVE  JogHasCancel'
<1>1. CASE WriteCancel
  BY <1>1, CancelCovers, HasCancelMeans DEF WriteCancel, Write, JogHasCancel, Covered
<1>2. CASE UNCHANGED <<cancelVars, toGrbl>>
  BY <1>2 DEF JogHasCancel, Owed, cancelVars
<1>3. QED
  BY <1>1, <1>2 DEF StopJog, KeepJog

\* Neither does writing any byte but a segment, nor reading or losing one,
\* while the flags stay.
LEMMA PlainCovers ==
    ASSUME toGrbl \in Seq(Bytes), JogHasCancel, OwedKept,
           \/ \E x \in Bytes \ {"$J"} : toGrbl' = Append(toGrbl, x)
           \/ toGrbl # <<>> /\ toGrbl' = Tail(toGrbl)
           \/ toGrbl' = <<>>
           \/ toGrbl' = toGrbl
    PROVE  JogHasCancel'
<1>1. Owed' <=> Owed
  BY DEF OwedKept, Owed
<1>2. Covered(toGrbl) => Covered(toGrbl')
  BY CoveredKept
<1>3. Covered(toGrbl') => JogHasCancel'
  BY DEF Covered, JogHasCancel
<1>4. Owed' => JogHasCancel'
  BY DEF JogHasCancel
<1>5. QED
  BY <1>1, <1>2, <1>3, <1>4, HasCancelMeans

\* _send_segment remembers that it owes a cancel.
LEMMA SegmentOwes == SendSegment => JogHasCancel'
BY DEF SendSegment, JogHasCancel, Owed

\* No step leaves a segment uncovered and unowed.
LEMMA CoverStep == TypeOK /\ JogHasCancel /\ Next => JogHasCancel'
<1> SUFFICES ASSUME TypeOK, JogHasCancel, Next PROVE JogHasCancel'
  OBVIOUS
<1>0. toGrbl \in Seq(Bytes)
  BY DEF TypeOK, Bytes
<1>1. CASE PollUnplugged
  BY <1>0, <1>1, StopCovers DEF PollUnplugged, StopJogIf
<1>2. CASE BeginPoll
  <2>1. CASE StopJog
    BY <1>0, <2>1, StopCovers
  <2>2. CASE OwedKept /\ toGrbl' = toGrbl
    BY <1>0, <2>2, PlainCovers
  <2>3. QED
    BY <1>2, <2>1, <2>2 DEF BeginPoll, OwedKept
<1>3. CASE Ask
  <2>1. OwedKept /\ (toGrbl' = toGrbl \/ toGrbl' = Append(toGrbl, "?"))
    BY <1>3 DEF Ask, OwedKept, cancelVars, Write
  <2>2. "?" \in Bytes \ {"$J"}
    BY DEF Bytes, Realtime
  <2>3. QED
    BY <1>0, <2>1, <2>2, PlainCovers
<1>4. CASE AskFails
  <2>1. CASE WriteCancel
    BY <1>0, <2>1, CancelCovers DEF WriteCancel, Write, JogHasCancel, Covered
  <2>2. CASE UNCHANGED <<cancelVars, toGrbl>>
    BY <2>2 DEF JogHasCancel, Owed, cancelVars
  <2>3. QED
    BY <1>4, <2>1, <2>2 DEF AskFails
<1>5. CASE ParseLine
  <2>1. CASE StopJog \/ KeepJog
    BY <1>0, <2>1, StopCovers
  <2>2. CASE OwedKept /\ toGrbl' = toGrbl
    BY <1>0, <2>2, PlainCovers
  <2>3. QED
    BY <1>5, <2>1, <2>2 DEF ParseLine, StopJogIf, OwedKept, cancelVars
<1>6. CASE PollRaises
  BY <1>0, <1>6, StopCovers DEF PollRaises, StopJogIf
<1>7. CASE Start
  BY <1>7, SegmentOwes DEF Start
<1>8. CASE Renew
  BY <1>0, <1>8, SegmentOwes, StopCovers DEF Renew
<1>9. CASE Revoke
  BY <1>0, <1>9, StopCovers DEF Revoke
<1>10. CASE \E c \in {"HOME", "HOLD", "RESUME", "RESET"} : Command(c)
  <2>1. PICK c \in {"HOME", "HOLD", "RESUME", "RESET"} : Command(c)
    BY <1>10
  <2>2. (IF c = "HOME" THEN "$H" ELSE c) \in Bytes \ {"$J"}
    BY <2>1 DEF Bytes, Realtime
  <2>3. OwedKept /\ toGrbl' = Append(toGrbl, IF c = "HOME" THEN "$H" ELSE c)
    BY <2>1 DEF Command, OwedKept, cancelVars, Write
  <2>4. QED
    BY <1>0, <2>2, <2>3, PlainCovers
<1>11. CASE GrblReceives
  <2>1. OwedKept /\ toGrbl # <<>> /\ toGrbl' = Tail(toGrbl)
    BY <1>11 DEF GrblReceives, OwedKept, hostVars, cancelVars
  <2>2. QED
    BY <1>0, <2>1, PlainCovers
<1>12. CASE Unplug
  <2>1. OwedKept /\ toGrbl' = <<>>
    BY <1>12 DEF Unplug, OwedKept, hostVars, cancelVars
  <2>2. QED
    BY <1>0, <2>1, PlainCovers
<1>13. EndPoll \/ StartFails \/ EndLoop \/ GrblParses \/ GrblFinishes \/ Replug \/ Tick
         => OwedKept /\ toGrbl' = toGrbl
  BY DEF EndPoll, StartFails, EndLoop, GrblParses, GrblFinishes, Replug, Tick, hostVars,
         cancelVars, OwedKept
<1>14. CASE OwedKept /\ toGrbl' = toGrbl
  BY <1>0, <1>14, PlainCovers
<1>15. QED
  BY <1>1, <1>2, <1>3, <1>4, <1>5, <1>6, <1>7, <1>8, <1>9, <1>10, <1>11, <1>12, <1>13, <1>14
     DEF Next, AdapterPoll, SessionPoll, Controller

\* A segment is followed by its cancel on the wire, or the cancel is still owed
\* and the flags say so (_send_segment, stop_jog).
THEOREM EverySegmentCancelled == Spec => []JogHasCancel
<1>1. Init => JogHasCancel
  BY DEF Init, JogHasCancel
<1>2. TypeOK /\ JogHasCancel /\ [Next]_vars => JogHasCancel'
  <2>1. JogHasCancel /\ UNCHANGED vars => JogHasCancel'
    BY DEF JogHasCancel, Owed, vars
  <2>2. QED
    BY <2>1, CoverStep
<1>3. QED
  BY <1>1, <1>2, HostTypeCorrect, PTL DEF Spec
----------------------------------------------------------------------------
(* Withdrawn authority and the cancel it sends. *)

\* stop_jog on an open line that takes the write leaves no cancel owed.
LEMMA StopSendsCancel ==
    ASSUME faults \in Nat, StopJog, Owed, plugged, faults' = faults
    PROVE  ~Owed'
<1>1. CASE WriteCancel
  BY <1>1 DEF WriteCancel, Owed
<1>2. CASE Fault
  BY <1>2 DEF Fault
<1>3. QED
  BY <1>1, <1>2 DEF StopJog

\* The session loses its authority in three ways: a dead port, a renewal the
\* adapter turns down, a revocation.
LEMMA AuthorityEnds ==
    ASSUME authority, ~authority', Next
    PROVE  ~plugged \/ StopJog
<1>1. CASE AdapterPoll
  <2>1. ~(authority' = authority)
    OBVIOUS
  <2>2. PollRaises
    BY <1>1, <2>1 DEF AdapterPoll, PollUnplugged, BeginPoll, Ask, AskFails, ParseLine, EndPoll
  <2>3. QED
    BY <2>2 DEF PollRaises
<1>2. CASE SessionPoll
  <2>1. ~(authority' = authority)
    OBVIOUS
  <2>2. CASE Renew
    BY <2>1, <2>2 DEF Renew
  <2>3. CASE Revoke
    BY <2>3 DEF Revoke
  <2>4. ~Start /\ ~StartFails /\ ~EndLoop
    BY <2>1 DEF Start, StartFails, EndLoop
  <2>5. ASSUME NEW c \in {"HOME", "HOLD", "RESUME", "RESET"}, Command(c) PROVE FALSE
    BY <2>1, <2>5 DEF Command
  <2>6. QED
    BY <1>2, <2>2, <2>3, <2>4, <2>5 DEF SessionPoll
<1>3. CASE Controller \/ Unplug \/ Replug \/ Tick
  BY <1>3 DEF Controller, GrblReceives, GrblParses, GrblFinishes, Unplug, Replug, Tick,
     hostVars
<1>4. QED
  BY <1>1, <1>2, <1>3 DEF Next

\* However the session loses its authority, an owed cancel is on the wire in the
\* same step when the line is open and takes the write (HostBridge.poll,
\* renew_jog, stop_jog).
THEOREM RevokedIsCancelled == Spec => RevocationCancels
<1> DEFINE Cancels == authority /\ ~authority' /\ Owed /\ plugged /\ faults' = faults => ~Owed'
<1>1. TypeOK /\ [Next]_vars => [Cancels]_vars
  <2> SUFFICES ASSUME TypeOK, Next, authority, ~authority', Owed, plugged, faults' = faults
               PROVE  ~Owed'
    OBVIOUS
  <2>1. faults \in Nat
    BY ConstantTypes DEF TypeOK
  <2>2. StopJog
    BY AuthorityEnds
  <2>3. QED
    BY <2>1, <2>2, StopSendsCancel
<1>2. QED
  BY <1>1, HostTypeCorrect, PTL DEF Spec, RevocationCancels
============================================================================
