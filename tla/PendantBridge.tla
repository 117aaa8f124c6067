----------------------------- MODULE PendantBridge -----------------------------
(***************************************************************************)
(* The pendant in bridge mode: PendantApplication in front of a            *)
(* BridgeController (controller/bridge.py), its session with the companion,*)
(* and the companion's motion authority.                                   *)
(*                                                                         *)
(* One round is the application's inputs and events ("app"), session.poll  *)
(* ("session") and the rest of BridgeController.poll ("check", then "send" *)
(* or, when the link is not healthy, "offline").                           *)
(*                                                                         *)
(* The session is what ReliableLink shows of it: at most one reliable      *)
(* packet is outstanding, the companion accepts it once and before the     *)
(* next or refuses it, a session may be lost at either end at any time and *)
(* a new one is agreed only when the companion has forgotten the old one   *)
(* with its motion.  Pendant times are left out: a time-out may strike in  *)
(* any round.  The companion's lease runs in ticks.                        *)
(***************************************************************************)
EXTENDS Naturals, Sequences

CONSTANTS
    Intents,        \* what a detent asks for: axis, direction and feed
    QueueLimit,     \* queue_command refuses beyond it (8 in the code)
    Lease           \* ticks a companion moves after a START or RENEW

ASSUME BridgeConstants ==
    /\ "none" \notin Intents
    /\ {QueueLimit, Lease} \subseteq Nat \ {0}

VARIABLES
    stage,          \* what the pendant does next
    in,             \* deadman_enabled; estop: observed or latched
    seen,           \* connected; mode: machine_state; jog_active
    intent,         \* _intent
    queue,          \* queue
    owed,           \* _pending_stop
    session,        \* established; motion_intent_sequence is set; outstanding
    accepted,       \* the companion has accepted what is outstanding
    host            \* the companion: in this session; ticks of motion left

vars == <<stage, in, seen, intent, queue, owed, session, accepted, host>>

Commands == {"HOLD", "RESUME", "RESET"}
Packets == Commands \cup {"START", "RENEW", "STOP"}
Modes == {"idle", "jog", "hold", "other"}

Init ==
    /\ stage = "app"
    /\ in = [deadman |-> FALSE, estop |-> FALSE]
    /\ seen = [connected |-> FALSE, mode |-> "other", jogging |-> FALSE]
    /\ intent = "none" /\ queue = <<>> /\ owed = FALSE
    /\ session = [up |-> FALSE, motion |-> FALSE, out |-> "none"]
    /\ accepted = FALSE
    /\ host = [up |-> FALSE, left |-> 0]

At(s, next) == stage = s /\ stage' = next

-----------------------------------------------------------------------------
\* cancel_jog: drops the intent and owes a STOP if a START has been sent.  No
\* queued command is of kind "jog", so all of them stay.
OwesWhenQuiet(s) == s.motion /\ s.out = "none"
Owes(s) == s.motion

CancelJogIn(s) == intent' = "none" /\ owed' = Owes(s)
CancelJog == CancelJogIn(session)
NotJogging == seen' = [seen EXCEPT !.jogging = FALSE]
KeepJog == UNCHANGED <<intent, owed>>

App == At("app", "app") /\ UNCHANGED <<session, accepted, host>>

\* JOG_CANCEL
Cancel == App /\ CancelJog /\ NotJogging /\ UNCHANGED <<in, queue>>

\* A selector change cancels only a jog shown active, over a transport that works.
ChangeAxis ==
    /\ App /\ NotJogging /\ UNCHANGED <<in, queue>>
    /\ \/ seen.jogging /\ CancelJog
       \/ KeepJog

TurnDeadman ==
    /\ App /\ UNCHANGED queue
    /\ in' = [in EXCEPT !.deadman = ~@]
    /\ \/ in.deadman /\ seen.jogging /\ CancelJog /\ NotJogging
       \/ KeepJog /\ UNCHANGED seen

RecoverEstop ==
    /\ App /\ KeepJog /\ UNCHANGED queue
    /\ in' = [in EXCEPT !.estop = FALSE]
    /\ seen' = [seen EXCEPT !.mode = "other"]

\* The jog watchdog: no detent for half a second.
JogTimeout ==
    /\ App /\ seen.jogging /\ NotJogging /\ UNCHANGED <<in, queue>>
    /\ CancelJog \/ KeepJog

\* A detent.  One that asks for another intent only cancels the present one.
MayJog ==
    /\ session.up /\ seen.connected /\ seen.mode \in {"idle", "jog"}
    /\ in.deadman /\ ~in.estop

Jog(i) ==
    /\ App /\ MayJog /\ UNCHANGED <<in, queue>>
    /\ IF intent \in {"none", i}
       THEN /\ intent' = i /\ UNCHANGED owed
            /\ seen' = [seen EXCEPT !.jogging = TRUE]
       ELSE CancelJog /\ NotJogging

\* FEED_HOLD, JOB_CANCEL and SOFT_RESET cancel first; START_RESUME passes the
\* safety check.  A full queue refuses the command.  Every other action is G-code
\* or $H, which this controller does not take.
QueueUnlimited(c) == queue' = Append(queue, c)
Queue(c) ==
    queue' = IF Len(queue) < QueueLimit THEN Append(queue, c) ELSE queue

\* The streamer's inhibit asks for a HOLD, over a transport that works.
PressEstop ==
    /\ App
    /\ in' = [in EXCEPT !.estop = TRUE]
    /\ seen' = [seen EXCEPT !.mode = "other", !.jogging = FALSE]
    /\ \/ CancelJog /\ Queue("HOLD")
       \/ KeepJog /\ UNCHANGED queue

HoldOrReset ==
    /\ App /\ CancelJog /\ NotJogging /\ UNCHANGED in
    /\ \E c \in {"HOLD", "RESET"} : Queue(c)

Resume ==
    /\ App /\ KeepJog /\ UNCHANGED <<in, seen>>
    /\ ~in.estop /\ seen.connected /\ seen.mode \in {"idle", "hold"}
    /\ Queue("RESUME")

StartPoll ==
    /\ At("app", "session")
    /\ UNCHANGED <<in, seen, intent, queue, owed, session, accepted, host>>

-----------------------------------------------------------------------------
\* session.poll
Receiving == At("session", "session") /\ UNCHANGED <<in, queue, host>>

ReceiveAck ==
    /\ Receiving /\ session.out # "none" /\ accepted
    /\ session' = [session EXCEPT !.out = "none"] /\ accepted' = FALSE
    /\ UNCHANGED <<seen, intent, owed>>

\* A status that is not connected and fresh, or no mode for jogging, cancels.
ReceiveStatus ==
    /\ Receiving /\ session.up /\ UNCHANGED <<session, accepted>>
    /\ \E connected \in BOOLEAN, mode \in Modes :
           LET fit == connected /\ mode \in {"idle", "jog"}
           IN /\ seen' = [connected |-> connected, mode |-> mode,
                          jogging |-> seen.jogging /\ fit]
              /\ IF fit THEN KeepJog ELSE CancelJog

\* Retries run out, or nothing is heard: the session and its intent are
\* forgotten; only the latter reports the loss, which cancels.
LoseSession ==
    /\ Receiving /\ session.up
    /\ session' = [up |-> FALSE, motion |-> FALSE, out |-> "none"] /\ accepted' = FALSE
    /\ \/ CancelJogIn(session') /\ NotJogging
       \/ KeepJog /\ UNCHANGED seen

NewSession ==
    /\ At("session", "session") /\ ~session.up /\ ~host.up
    /\ session' = [session EXCEPT !.up = TRUE]
    /\ host' = [host EXCEPT !.up = TRUE]
    /\ UNCHANGED <<in, seen, intent, queue, owed, accepted>>

EndSessionPoll ==
    /\ At("session", "check")
    /\ UNCHANGED <<in, seen, intent, queue, owed, session, accepted, host>>

-----------------------------------------------------------------------------
\* The rest of poll.  The last status may be too old in any round.
Offline ==
    /\ At("check", "offline")
    /\ CancelJog
    /\ seen' = [seen EXCEPT !.connected = FALSE, !.jogging = FALSE]
    /\ UNCHANGED <<in, queue, session, accepted, host>>

HeldAnyway == TRUE
Held == in.deadman /\ ~in.estop

Online ==
    /\ At("check", "send") /\ session.up
    /\ \/ intent # "none" /\ CancelJog /\ NotJogging    \* no detent for 150 ms
       \/ (intent = "none" \/ Held) /\ KeepJog /\ UNCHANGED seen
    /\ UNCHANGED <<in, queue, session, accepted, host>>

Sending == stage \in {"send", "offline"} /\ stage' = "app" /\ UNCHANGED <<in, seen, intent, host>>
MaySend == session.up /\ session.out = "none"
Send(s, kind) == session' = [s EXCEPT !.out = kind] /\ accepted' = FALSE

SendStop ==
    /\ Sending /\ owed /\ MaySend /\ session.motion
    /\ Send([session EXCEPT !.motion = FALSE], "STOP")
    /\ owed' = FALSE /\ UNCHANGED queue

\* A STOP that cannot be sent now, no link to send over, or no reason to.
SendNothing ==
    /\ Sending /\ UNCHANGED <<queue, owed, session, accepted>>
    /\ IF owed THEN ~(MaySend /\ session.motion)
       ELSE \/ stage = "offline" \/ ~MaySend
            \/ intent = "none" /\ queue = <<>>
            \/ intent # "none" /\ session.motion        \* renewed less than 100 ms ago

FreeOfPackets == Sending /\ stage = "send" /\ MaySend /\ UNCHANGED owed
Free == Sending /\ stage = "send" /\ ~owed /\ MaySend /\ UNCHANGED owed

SendStart ==
    /\ Free /\ intent # "none" /\ ~session.motion
    /\ Send([session EXCEPT !.motion = TRUE], "START")
    /\ UNCHANGED queue

SendRenew ==
    /\ Free /\ intent # "none" /\ session.motion
    /\ Send(session, "RENEW")
    /\ UNCHANGED queue

SendCommand ==
    /\ Free /\ intent = "none" /\ queue # <<>>
    /\ Send(session, Head(queue)) /\ queue' = Tail(queue)

-----------------------------------------------------------------------------
\* The companion.  A STOP ends the motion even when its adapter reports a
\* failure; a RENEW or STOP is refused when authority has run out.
Companion == UNCHANGED <<stage, in, seen, intent, queue, owed, session>>
Arrives(kinds) == Companion /\ host.up /\ session.out \in kinds /\ ~accepted

AcceptStart ==
    /\ Arrives({"START"}) /\ accepted' = TRUE
    /\ host' = [host EXCEPT !.left = Lease]

AcceptRenew ==
    /\ Arrives({"RENEW"}) /\ host.left > 0 /\ accepted' = TRUE
    /\ host' = [host EXCEPT !.left = Lease]

AcceptStop ==
    /\ Arrives({"STOP"}) /\ host.left > 0 /\ accepted' \in BOOLEAN
    /\ host' = [host EXCEPT !.left = 0]

AcceptCommand ==
    /\ Arrives(Commands) /\ accepted' = TRUE
    /\ UNCHANGED host

\* The adapter fails, or stops by itself.
AbortMotion ==
    /\ Companion /\ host.left > 0
    /\ host' = [host EXCEPT !.left = 0]
    /\ UNCHANGED accepted

\* Time passes for the lease; its last tick ends the motion.
Tick ==
    /\ Companion /\ host.left > 0
    /\ host' = [host EXCEPT !.left = @ - 1]
    /\ UNCHANGED accepted

HostLosesSession ==
    /\ Companion /\ host.up
    /\ host' = [up |-> FALSE, left |-> 0]
    /\ UNCHANGED accepted

Application ==
    \/ Cancel \/ ChangeAxis \/ TurnDeadman \/ PressEstop \/ RecoverEstop \/ JogTimeout
    \/ (\E i \in Intents : Jog(i)) \/ HoldOrReset \/ Resume
SessionPoll == ReceiveAck \/ ReceiveStatus \/ LoseSession \/ NewSession
PollTail ==
    \/ Offline \/ Online \/ SendStop \/ SendNothing \/ SendStart \/ SendRenew \/ SendCommand
Host ==
    \/ AcceptStart \/ AcceptRenew \/ AcceptStop \/ AcceptCommand \/ AbortMotion \/ Tick
    \/ HostLosesSession

Next ==
    \/ Application \/ StartPoll \/ SessionPoll \/ EndSessionPoll \/ PollTail \/ Host

\* The application's loop goes on whatever arrives (code.py handles finitely
\* many events and session.poll reads at most 16 chunks a round), and the
\* companion's clock runs.
Fairness ==
    /\ SF_vars(StartPoll) /\ SF_vars(EndSessionPoll) /\ WF_vars(PollTail) /\ WF_vars(Tick)

Spec == Init /\ [][Next]_vars /\ Fairness

-----------------------------------------------------------------------------
\* Every variable keeps its type, and the queue its limit.
TypeOK ==
    /\ stage \in {"app", "session", "check", "send", "offline"}
    /\ in \in [deadman : BOOLEAN, estop : BOOLEAN]
    /\ seen \in [connected : BOOLEAN, mode : Modes, jogging : BOOLEAN]
    /\ intent \in Intents \cup {"none"}
    /\ queue \in Seq(Commands) /\ Len(queue) <= QueueLimit
    /\ owed \in BOOLEAN
    /\ session \in [up : BOOLEAN, motion : BOOLEAN, out : Packets \cup {"none"}]
    /\ accepted \in BOOLEAN
    /\ host \in [up : BOOLEAN, left : 0..Lease]

\* A companion that moves is never forgotten by a pendant with a session: the
\* operator still asks for the motion, or a STOP for it is owed or under way
\* (every cancel_jog, whatever was outstanding when it came).
MotionHasOwner ==
    host.left > 0 /\ session.up =>
        intent # "none" \/ owed \/ session.out = "STOP"

\* HOLD, RESUME and RESET reach the companion only after the motion before them
\* has ended (poll sends an owed STOP first, and the queue only when no intent
\* is left and nothing is outstanding).
CommandsFindNoMotion ==
    [][session.out \in Commands /\ accepted' /\ ~accepted => host.left = 0]_vars

\* Releasing the dead-man ends the motion, over a link that may lose the STOP
\* and the session, unless it is pressed again (poll against the lease).
ReleaseStopsMotion == ~in.deadman ~> in.deadman \/ host.left = 0
=============================================================================
