------------------------------ MODULE GrblHost ------------------------------
(***************************************************************************)
(* The companion host behind the link: HostBridge.poll                     *)
(* (host_bridge/bridge.py) driving a GrblAdapter (host_bridge/adapters.py) *)
(* over a serial line to a GRBL controller.                                *)
(*                                                                         *)
(* The host is one thread: adapter.poll (BeginPoll, Ask, ParseLine,        *)
(* EndPoll), then session.poll, in which pendant packets reach the adapter *)
(* (Start, Renew, Revoke, Command).  Between any two of these the          *)
(* controller runs, the serial line carries bytes and may be unplugged.    *)
(* The session is reduced to "authority", its motion_active.  Ages are in  *)
(* ticks of the host's clock; an iteration of the loop is shorter than a   *)
(* tick, and the clock advances from one iteration to the next.            *)
(***************************************************************************)
EXTENDS Integers, Sequences

CONSTANTS
    StatusPoll,     \* _status_poll_interval
    Stale,          \* _status_stale_timeout
    JogAck,         \* _jog_ack_timeout
    JogDone,        \* _jog_completion_timeout
    MaxStarts,      \* bound: accepted STARTs
    MaxCommands,    \* bound: semantic commands
    MaxFaults,      \* bound: failed writes, errors, alarms and unplugs
    MaxWire         \* bound: bytes or lines in transit when a tick passes

ASSUME HostConstants ==
    /\ {StatusPoll, Stale, JogAck, JogDone} \subseteq Nat \ {0}
    /\ JogAck <= JogDone
    /\ {MaxStarts, MaxCommands, MaxFaults, MaxWire} \subseteq Nat

Never == -1                 \* Python's None in a time
Min2(a, b) == IF a <= b THEN a ELSE b
AgeCap == IF Stale >= JogDone THEN Stale + 1 ELSE JogDone + 1     \* older is all the same

Modes == {"idle", "jog", "home", "alarm"}           \* what a report may say
Lines == {"ok", "okHome", "error", "errorHome", "ALARM"} \cup Modes
Realtime == {"?", "cancel", "HOLD", "RESUME", "RESET"}
Phases == {"loop", "ask", "lines", "session"}

VARIABLES
    phase,                                  \* where HostBridge.poll stands
    authority,                              \* session.motion_active
    active, pending,                        \* _active_jog is not None, _pending_jog
    cancelSent, cancelPending, needsIdle,   \* the _cancel_ flags
    jogAge, pollAge, statusAge,             \* now - _last_jog_at, _last_status_poll,
                                            \* _last_status_at
    cancelBefore,                           \* _cancel_sent_at < now of this poll
    mode, fresh, up,                        \* state.mode, telemetry_fresh, connected
    plugged,                                \* transport.connected
    toGrbl, fromGrbl,                       \* bytes in transit
    rxLines, grbl,                          \* the controller: unparsed lines, state
    starts, commands, faults

cancelVars == <<cancelSent, cancelPending, needsIdle, cancelBefore>>
jogVars == <<active, pending, jogAge>>
stateVars == <<mode, fresh, up>>
grblVars == <<rxLines, grbl>>
bounds == <<starts, commands, faults>>
vars == <<phase, authority, active, pending, cancelSent, cancelPending, needsIdle,
          jogAge, pollAge, statusAge, cancelBefore, mode, fresh, up, plugged, toGrbl,
          fromGrbl, rxLines, grbl, starts, commands, faults>>

\* The types, with the two redundancies the code keeps: a cancel is pending
\* exactly until it is sent, and a jog time goes with a jog.
TypeOK ==
    /\ phase \in Phases
    /\ authority \in BOOLEAN
    /\ active \in BOOLEAN /\ pending \in BOOLEAN
    /\ jogAge \in Never..(JogDone + 1)
    /\ active <=> jogAge # Never
    /\ cancelSent \in BOOLEAN /\ cancelPending \in BOOLEAN
    /\ cancelPending <=> ~cancelSent
    /\ needsIdle \in BOOLEAN /\ cancelBefore \in BOOLEAN
    /\ fresh \in BOOLEAN /\ up \in BOOLEAN /\ plugged \in BOOLEAN
    /\ pollAge \in Never..StatusPoll
    /\ statusAge \in Never..AgeCap
    /\ mode \in Modes \cup {"disconnected"}
    /\ toGrbl \in Seq(Realtime \cup {"$J", "$H"})
    /\ fromGrbl \in Seq(Lines)
    /\ rxLines \in Seq({"$J", "$H"})
    /\ grbl \in Modes
    /\ starts \in 0..MaxStarts /\ commands \in 0..MaxCommands /\ faults \in 0..MaxFaults

Init ==
    /\ phase = "loop"
    /\ authority = FALSE
    /\ active = FALSE /\ pending = FALSE /\ jogAge = Never
    /\ cancelSent = TRUE /\ cancelPending = FALSE /\ needsIdle = FALSE /\ cancelBefore = FALSE
    /\ pollAge = Never /\ statusAge = Never
    /\ mode = "disconnected" /\ fresh = FALSE /\ up = FALSE
    /\ plugged = TRUE
    /\ toGrbl = <<>> /\ fromGrbl = <<>>
    /\ rxLines = <<>> /\ grbl = "idle"
    /\ starts = 0 /\ commands = 0 /\ faults = 0

Fault == faults < MaxFaults /\ faults' = faults + 1

Write(x) == plugged /\ toGrbl' = Append(toGrbl, x)

----------------------------------------------------------------------------
(* stop_jog *)

\* A cancel is owed for the last segment written.
Owed == cancelPending /\ ~cancelSent

DropIntent == active' = FALSE /\ pending' = FALSE /\ jogAge' = Never

WriteCancel ==
    /\ Owed /\ Write("cancel")
    /\ cancelSent' = TRUE /\ cancelPending' = FALSE
    /\ needsIdle' = TRUE /\ cancelBefore' = FALSE

\* stop_jog drops the intent whatever happens, and sends 0x85 when one is owed
\* and the serial line takes it.
StopJogOnce ==              \* mutant: a cancel that cannot be written is forgotten
    /\ DropIntent
    /\ cancelSent' = TRUE /\ cancelPending' = FALSE
    /\ UNCHANGED <<needsIdle, cancelBefore>>
    /\ \/ Owed /\ Write("cancel") /\ UNCHANGED faults
       \/ Owed /\ Fault /\ UNCHANGED toGrbl
       \/ ~(Owed /\ plugged) /\ UNCHANGED <<toGrbl, faults>>

StopJog ==
    /\ DropIntent
    /\ \/ WriteCancel /\ UNCHANGED faults
       \/ Owed /\ plugged /\ Fault /\ UNCHANGED <<cancelVars, toGrbl>>
       \/ ~(Owed /\ plugged) /\ UNCHANGED <<cancelVars, toGrbl, faults>>

KeepJog == UNCHANGED <<jogVars, cancelVars, toGrbl, faults>>

StopJogIf(b) == IF b THEN StopJog ELSE KeepJog

----------------------------------------------------------------------------
(* GrblAdapter.poll *)

PollUnplugged ==
    /\ phase = "loop" /\ ~plugged
    /\ StopJogIf(active \/ pending)
    /\ mode' = "disconnected" /\ fresh' = FALSE /\ up' = FALSE
    /\ pollAge' = Never
    /\ phase' = "session"
    /\ UNCHANGED <<authority, statusAge, plugged, fromGrbl, grblVars, starts, commands>>

\* The poll takes its "now" and retries a failed cancel: the only test is that
\* a cancel is owed.
BeginPollNoRetry ==         \* mutant: a failed cancel is not retried
    /\ phase = "loop" /\ plugged
    /\ phase' = "ask"
    /\ cancelBefore' = TRUE
    /\ UNCHANGED <<authority, jogVars, cancelSent, cancelPending, needsIdle, pollAge,
                   statusAge, stateVars, plugged, toGrbl, fromGrbl, grblVars, bounds>>

BeginPoll ==
    /\ phase = "loop" /\ plugged
    /\ IF Owed THEN StopJog
       ELSE cancelBefore' = TRUE
            /\ UNCHANGED <<jogVars, cancelSent, cancelPending, needsIdle, toGrbl, faults>>
    /\ phase' = "ask"
    /\ UNCHANGED <<authority, pollAge, statusAge, stateVars, plugged, fromGrbl, grblVars,
                   starts, commands>>

AskDue == plugged /\ (pollAge = Never \/ pollAge >= StatusPoll)

Ask ==
    /\ phase = "ask"
    /\ \/ /\ AskDue
          /\ Write("?") /\ UNCHANGED faults
          /\ pollAge' = 0
          /\ phase' = "lines"
          /\ UNCHANGED <<jogVars, cancelVars, stateVars>>
       \/ /\ ~AskDue
          /\ phase' = "lines"
          /\ UNCHANGED <<pollAge, toGrbl, faults, jogVars, cancelVars, stateVars>>
    /\ UNCHANGED <<authority, statusAge, plugged, fromGrbl, grblVars, starts, commands>>

\* The query cannot be written; a cancel still owed is tried once more.
AskFails ==
    /\ phase = "ask" /\ AskDue
    /\ Fault
    /\ DropIntent
    /\ WriteCancel \/ UNCHANGED <<cancelVars, toGrbl>>
    /\ fresh' = FALSE /\ up' = FALSE
    /\ phase' = "session"
    /\ UNCHANGED <<authority, pollAge, statusAge, mode, plugged, fromGrbl, grblVars, starts,
                   commands>>

\* _parse_line.  An "ok" is taken for the pending segment whatever it answers.
ParseLine ==
    /\ phase = "lines" /\ fromGrbl # <<>>
    /\ fromGrbl' = Tail(fromGrbl)
    /\ LET line == Head(fromGrbl) IN
         \/ /\ line \in {"ok", "okHome"}
            /\ pending' = FALSE
            /\ UNCHANGED <<active, jogAge, cancelVars, toGrbl, faults, statusAge, mode>>
         \/ /\ line \in {"error", "errorHome"}
            /\ IF active THEN StopJog
                         ELSE pending' = FALSE
                              /\ UNCHANGED <<active, jogAge, cancelVars, toGrbl, faults>>
            /\ UNCHANGED <<statusAge, mode>>
         \/ /\ line = "ALARM"
            /\ mode' = "alarm"
            /\ StopJogIf(active \/ pending)
            /\ UNCHANGED statusAge
         \/ /\ line \in {"idle", "jog"}
            /\ mode' = line
            /\ statusAge' = 0
            /\ needsIdle' = (needsIdle /\ ~(line = "idle" /\ cancelBefore))
            /\ UNCHANGED <<jogVars, cancelSent, cancelPending, cancelBefore, toGrbl, faults>>
         \/ /\ line \in {"home", "alarm"}
            /\ mode' = line
            /\ statusAge' = 0
            /\ StopJogIf(active \/ pending)
    /\ UNCHANGED <<phase, authority, pollAge, fresh, up, plugged, grblVars, starts, commands>>

\* No complete line is left to read, more may be on the wire.
EndPoll ==
    /\ phase = "lines"
    /\ up' = plugged
    /\ fresh' = (statusAge # Never /\ statusAge <= Stale)
    /\ phase' = "session"
    /\ UNCHANGED <<authority, jogVars, cancelVars, pollAge, statusAge, mode, plugged, toGrbl,
                   fromGrbl, grblVars, bounds>>

\* adapter.poll raises on a dead port: abort_motion, and the loop is left.
PollRaises ==
    /\ phase = "lines" /\ ~plugged
    /\ authority' = FALSE
    /\ StopJogIf(authority)
    /\ up' = FALSE
    /\ phase' = "loop"
    /\ UNCHANGED <<pollAge, statusAge, mode, fresh, plugged, fromGrbl, grblVars, starts,
                   commands>>

----------------------------------------------------------------------------
(* session.poll: what the pendant's packets do to the adapter. *)

\* _send_segment's guard, for an intent that is set.
SegmentReady == ~pending /\ plugged /\ fresh /\ mode = "idle"

MayStart ==
    /\ plugged /\ fresh /\ mode \in {"idle", "jog"}
    /\ ~cancelPending /\ ~needsIdle
    /\ ~active

SendSegmentFlagKept ==      \* mutant: _cancel_sent is left over from the last cancel
    /\ Write("$J") /\ UNCHANGED faults
    /\ active' = TRUE /\ pending' = TRUE /\ jogAge' = 0
    /\ cancelPending' = TRUE
    /\ UNCHANGED <<cancelSent, needsIdle, cancelBefore>>

SendSegment ==
    /\ Write("$J") /\ UNCHANGED faults
    /\ active' = TRUE /\ pending' = TRUE /\ jogAge' = 0
    /\ cancelSent' = FALSE /\ cancelPending' = TRUE
    /\ UNCHANGED <<needsIdle, cancelBefore>>

\* A START the adapter accepts.  One it refuses changes nothing.
Start ==
    /\ phase = "session" /\ starts < MaxStarts
    /\ MayStart /\ SegmentReady
    /\ SendSegment
    /\ authority' = TRUE
    /\ starts' = starts + 1
    /\ UNCHANGED <<phase, pollAge, statusAge, stateVars, plugged, fromGrbl, grblVars, commands>>

\* The segment cannot be written: the intent is withdrawn, START is refused.
StartFails ==
    /\ phase = "session"
    /\ MayStart /\ SegmentReady
    /\ Fault
    /\ UNCHANGED <<phase, authority, jogVars, cancelVars, pollAge, statusAge, stateVars,
                   plugged, toGrbl, fromGrbl, grblVars, starts, commands>>

\* renew_jog's verdict without sending: wait for the ACK, or for completion.
AckWait == pending /\ jogAge <= JogAck
IdleWait ==
    /\ ~pending /\ jogAge # Never /\ jogAge <= JogDone
    /\ statusAge = Never \/ statusAge >= jogAge \/ mode # "idle"

Renew ==
    /\ phase = "session" /\ authority
    /\ IF active /\ plugged /\ (AckWait \/ IdleWait)
       THEN KeepJog /\ UNCHANGED authority
       ELSE IF active /\ plugged /\ ~pending /\ jogAge <= JogDone /\ SegmentReady
       THEN SendSegment /\ UNCHANGED authority
       ELSE StopJog /\ authority' = FALSE
    /\ UNCHANGED <<phase, pollAge, statusAge, stateVars, plugged, fromGrbl, grblVars,
                   starts, commands>>

\* STOP, lease expiry or session loss: _stop_motion.
RevokeQuietly ==            \* mutant: on_motion_stop is not called
    /\ phase = "session" /\ authority
    /\ authority' = FALSE
    /\ UNCHANGED <<phase, jogVars, cancelVars, pollAge, statusAge, stateVars, plugged,
                   toGrbl, fromGrbl, grblVars, bounds>>

Revoke ==
    /\ phase = "session" /\ authority
    /\ authority' = FALSE
    /\ StopJog
    /\ UNCHANGED <<phase, pollAge, statusAge, stateVars, plugged, fromGrbl, grblVars,
                   starts, commands>>

Command(c) ==
    /\ phase = "session" /\ plugged /\ commands < MaxCommands
    /\ Write(IF c = "HOME" THEN "$H" ELSE c)
    /\ commands' = commands + 1
    /\ UNCHANGED <<phase, authority, jogVars, cancelVars, pollAge, statusAge, stateVars,
                   plugged, fromGrbl, grblVars, starts, faults>>

EndLoop ==
    /\ phase = "session"
    /\ phase' = "loop"
    /\ UNCHANGED <<authority, jogVars, cancelVars, pollAge, statusAge, stateVars, plugged,
                   toGrbl, fromGrbl, grblVars, bounds>>

----------------------------------------------------------------------------
(* The GRBL controller (external): realtime bytes act on arrival, lines wait. *)

hostVars == <<phase, authority, jogVars, cancelVars, pollAge, statusAge, stateVars>>

Emit(line) == fromGrbl' = Append(fromGrbl, line)

GrblReceives ==
    /\ toGrbl # <<>>
    /\ toGrbl' = Tail(toGrbl)
    /\ LET x == Head(toGrbl) IN
         \/ x \in {"$J", "$H"} /\ rxLines' = Append(rxLines, x) /\ UNCHANGED <<grbl, fromGrbl>>
         \/ x = "?" /\ Emit(grbl) /\ UNCHANGED grblVars
         \/ /\ x \in {"cancel", "HOLD"}
            /\ grbl' = IF grbl = "jog" THEN "idle" ELSE grbl
            /\ UNCHANGED <<rxLines, fromGrbl>>
         \/ x = "RESUME" /\ UNCHANGED <<grblVars, fromGrbl>>
         \/ /\ x = "RESET"
            /\ rxLines' = <<>>
            /\ grbl' = IF grbl \in {"jog", "home"} THEN "alarm" ELSE grbl
            /\ UNCHANGED fromGrbl
    /\ UNCHANGED <<hostVars, plugged, bounds>>

GrblParses ==
    /\ rxLines # <<>> /\ grbl # "home"
    /\ rxLines' = Tail(rxLines)
    /\ \/ /\ Head(rxLines) = "$J" /\ grbl \in {"idle", "jog"}
          /\ grbl' = "jog" /\ Emit("ok") /\ UNCHANGED faults
       \/ /\ Head(rxLines) = "$J"           \* locked, or the target is refused
          /\ IF grbl = "alarm" THEN UNCHANGED faults ELSE Fault
          /\ Emit("error") /\ UNCHANGED grbl
       \/ /\ Head(rxLines) = "$H" /\ grbl \in {"idle", "alarm"}
          /\ grbl' = "home" /\ UNCHANGED <<fromGrbl, faults>>
       \/ /\ Head(rxLines) = "$H" /\ grbl = "jog"
          /\ Emit("errorHome") /\ UNCHANGED <<grbl, faults>>
    /\ UNCHANGED <<hostVars, plugged, toGrbl, starts, commands>>

GrblFinishes ==
    /\ \/ grbl = "jog" /\ grbl' = "idle" /\ UNCHANGED <<fromGrbl, faults>>
       \/ grbl = "home" /\ grbl' = "idle" /\ Emit("okHome") /\ UNCHANGED faults
       \/ grbl \in {"jog", "home"} /\ grbl' = "alarm" /\ Emit("ALARM") /\ Fault
    /\ UNCHANGED <<hostVars, plugged, toGrbl, rxLines, starts, commands>>

Unplug ==
    /\ plugged /\ Fault
    /\ plugged' = FALSE
    /\ toGrbl' = <<>> /\ fromGrbl' = <<>>
    /\ UNCHANGED <<hostVars, grblVars, starts, commands>>

Replug ==
    /\ ~plugged
    /\ plugged' = TRUE
    /\ UNCHANGED <<hostVars, toGrbl, fromGrbl, grblVars, bounds>>

Older(age, cap) == IF age = Never THEN Never ELSE Min2(age + 1, cap)

Tick ==
    /\ phase = "loop"
    /\ Len(toGrbl) < MaxWire /\ Len(fromGrbl) < MaxWire
    /\ jogAge' = Older(jogAge, JogDone + 1)
    /\ pollAge' = Older(pollAge, StatusPoll)
    /\ statusAge' = Older(statusAge, AgeCap)
    /\ UNCHANGED <<phase, authority, active, pending, cancelVars,
                   stateVars, plugged, toGrbl, fromGrbl, grblVars, bounds>>

----------------------------------------------------------------------------

AdapterPoll == PollUnplugged \/ BeginPoll \/ Ask \/ AskFails \/ ParseLine \/ EndPoll \/ PollRaises

SessionPoll ==
    \/ Start \/ StartFails \/ Renew \/ Revoke
    \/ \E c \in {"HOME", "HOLD", "RESUME", "RESET"} : Command(c)
    \/ EndLoop

Controller == GrblReceives \/ GrblParses \/ GrblFinishes

Next == AdapterPoll \/ SessionPoll \/ Controller \/ Unplug \/ Replug \/ Tick

Spec == Init /\ [][Next]_vars

\* The host loop runs, the controller drains its input and time passes.
FairSpec ==
    /\ Spec
    /\ WF_vars(AdapterPoll) /\ WF_vars(EndLoop)
    /\ WF_vars(Controller)
    /\ WF_vars(Tick)

----------------------------------------------------------------------------
(* Properties *)

\* The adapter holds a jog intent only while the session authorises motion: no
\* failure, refusal or reconnection leaves an intent that a renewal could feed.
JogNeedsAuthority == active => authority

\* Every segment on the wire is followed by its cancel, or the adapter still
\* remembers that it owes one.
JogHasCancel ==
    Owed \/ \A i \in DOMAIN toGrbl : toGrbl[i] = "$J" =>
              \E j \in DOMAIN toGrbl : j > i /\ toGrbl[j] = "cancel"

\* A revocation that finds the serial line open and working puts the cancel on
\* the wire in the same step.
RevocationCancels ==
    [][authority /\ ~authority' /\ Owed /\ plugged /\ faults' = faults => ~Owed']_vars

\* While the line stays open a cancel that is owed gets sent, failed writes and
\* reconnections in between notwithstanding.
CancelIsSent == Owed ~> ~Owed \/ ~plugged

\* docs/HOST-BRIDGE.md lists what cancels a jog; a poll on an open line with a
\* healthy jog is not on the list.
PollKeepsJog ==
    [][phase = "loop" /\ phase' = "ask" /\ active => active']_vars

\* "The adapter permits only one unacknowledged `$J=` command."
OneUnacknowledged ==
    LET Count(s, x) == Len(SelectSeq(s, LAMBDA y : y = x))
    IN  Count(toGrbl, "$J") + Count(rxLines, "$J") + Count(fromGrbl, "ok")
          + Count(fromGrbl, "error") <= 1
============================================================================
