----------------------------- MODULE PendantCore -----------------------------
(***************************************************************************)
(* The pendant's control loop in front of a GRBL controller on a UART:     *)
(* PendantApplication.poll with the input sampling, action dispatch, safety*)
(* policy, GRBLController, GCodeStreamer and Watchdog it calls in turn.    *)
(*                                                                         *)
(* One poll() is Inputs, any number of UI events, BeginController, the     *)
(* lines that have arrived, SendNext, one streamer step and one watchdog   *)
(* step; "stage" names the next of them.  SafetyError is caught by poll()  *)
(* and changes nothing that is modelled; any other exception leaves poll() *)
(* and code.py never polls again: "halted".                                *)
(*                                                                         *)
(* GRBL itself is external: it owes one answer for each line it received,  *)
(* answers in order, may reset, raise an alarm and report any state.  Times*)
(* are "now" (in this poll), "past" or "never": a time-out may fire as soon*)
(* as the time it reads is past.                                           *)
(***************************************************************************)
EXTENDS Naturals, Sequences, FiniteSets

CONSTANTS
    Axes,           \* motion axes the selector offers
    QueueLimit,     \* queue_limit (8 in the code)
    MacroLines,     \* lines in a macro file
    JobLines,       \* command lines in a job file
    Reports,        \* bound: the machine states GRBL reports
    MaxOwed         \* bound: answers GRBL still owes when the pendant forgets one

ASSUME PendantConstants ==
    /\ {QueueLimit, MacroLines, JobLines, MaxOwed} \subseteq Nat \ {0}
    /\ Reports \subseteq {"idle", "jog", "run", "hold", "alarm", "error"}
    /\ Axes \cap {"OFF", "stream", "action", "macro", "none"} = {}

VARIABLES
    stage,          \* what poll() does next
    in,             \* last sample: estop_observed, deadman_enabled, selected_axis
    st,             \* PendantState: connection, machine, alarm, latch, jog_active
    age,            \* last_controller_response, last_jog_event, last_send
    queue,          \* GRBLController.queue; a jog stands as its axis
    awaiting,       \* GRBLController.awaiting_response
    job,            \* sd_job_state and GCodeStreamer
    grbl,           \* lines GRBL has not answered
    drift           \* history: answers may come for commands already forgotten

vars == <<stage, in, st, age, queue, awaiting, job, grbl, drift>>

Lines == Axes \cup {"stream", "action", "macro"}
MachineStates ==
    {"disconnected", "connecting", "idle", "jog", "run", "hold", "alarm", "error", "estop"}
JobStates ==
    {"idle", "streaming", "paused", "complete", "cancelled", "inhibited", "error", "alarm"}

\* discard_queued: the queue rebuilt without some kinds, in its order.
Discard(q, kinds) ==
    LET kept[i \in 0..Len(q)] ==
            IF i = 0 THEN <<>>
            ELSE IF q[i] \in kinds THEN kept[i - 1] ELSE Append(kept[i - 1], q[i])
    IN kept[Len(q)]

Waiting(q, kinds) == {i \in DOMAIN q : q[i] \in kinds}
Finish(j, result) == [j EXCEPT !.open = FALSE, !.awaiting = FALSE, !.state = result]
KindOf(line) == IF line \in Axes THEN Axes ELSE {line}

Inhibited == in.estop \/ st.latched
Authorised(deadman) ==
    ~Inhibited /\ st.connection = "connected" /\ (deadman => in.deadman) /\ ~st.alarm
MayCommand == Authorised(TRUE) /\ st.machine \in {"idle", "hold"}

Init ==
    /\ stage = "inputs"
    /\ in = [estop |-> FALSE, deadman |-> FALSE, axis |-> "OFF"]
    /\ st = [connection |-> "disconnected", machine |-> "disconnected", alarm |-> FALSE,
             latched |-> FALSE, jogActive |-> FALSE, answered |-> FALSE]
    /\ age = [response |-> "never", jog |-> "never", send |-> "never"]
    /\ queue = <<>> /\ awaiting = "none"
    /\ job = [state |-> "idle", open |-> FALSE, lines |-> 0, awaiting |-> FALSE,
              leftover |-> FALSE]
    /\ grbl = <<>> /\ drift = FALSE

At(s, next) == stage = s /\ stage' = next

\* cancel_jog; the real-time byte itself never fails on a UART.
CancelJog ==
    /\ queue' = Discard(queue, Axes)
    /\ st' = [st EXCEPT !.jogActive = FALSE]

-----------------------------------------------------------------------------
\* A new poll samples the controls.  A selector change, an E-stop press and a
\* released dead-man each discard the queued jogs; E-stop also ends the job.
\* The first sample counts as a change but finds nothing to stop.
RevokesLateDeadman(new) == (new.estop /\ ~in.estop) \/ new.axis # in.axis
Revokes(new) ==
    \/ new.estop /\ ~in.estop
    \/ new.axis # in.axis
    \/ in.deadman /\ ~new.deadman

InhibitForgetsQueue(q) == q
InhibitQueue(q) == Discard(q, {"stream"})

SampleInputs ==
    /\ At("inputs", "events")
    /\ in' \in [estop : BOOLEAN, deadman : BOOLEAN, axis : Axes \cup {"OFF"}]
    /\ LET pressed == in'.estop /\ ~in.estop
           kept == IF Revokes(in') THEN Discard(queue, Axes) ELSE queue
       IN /\ queue' = IF pressed THEN InhibitQueue(kept) ELSE kept
          /\ job' = IF pressed THEN Finish(job, "inhibited") ELSE job
          /\ st' = [st EXCEPT !.jogActive = @ /\ ~Revokes(in'),
                              !.latched = @ \/ pressed,
                              !.machine = IF pressed THEN "estop" ELSE @]
    /\ age' = [t \in DOMAIN age |-> IF age[t] = "never" THEN "never" ELSE "past"]
    /\ UNCHANGED <<awaiting, grbl, drift>>

-----------------------------------------------------------------------------
\* UI events.  Those whose checks fail raise SafetyError and change nothing;
\* FEED_HOLD and START_RESUME only write a real-time byte.
Handling == At("events", "events") /\ UNCHANGED <<in, grbl>>
Raise == stage = "events" /\ stage' = "halted"

EnqueueOverfull(items) == Len(queue) <= QueueLimit /\ queue' = queue \o items
Enqueue(items) ==
    /\ Len(queue) + Len(items) <= QueueLimit
    /\ queue' = queue \o items

\* A detent joins a queued jog at the tail of the queue (one axis at a time:
\* a selector change has discarded every jog of another axis).
Jog ==
    /\ Handling
    /\ Authorised(TRUE) /\ st.machine \in {"idle", "jog"} /\ in.axis # "OFF"
    /\ IF queue # <<>> /\ queue[Len(queue)] = in.axis
       THEN UNCHANGED queue ELSE Enqueue(<<in.axis>>)
    /\ st' = [st EXCEPT !.jogActive = TRUE]
    /\ age' = [age EXCEPT !.jog = "now"]
    /\ UNCHANGED <<awaiting, job, drift>>

JogCancel == Handling /\ CancelJog /\ UNCHANGED <<age, awaiting, job, drift>>

\* HOME, zeroing, probing, spindle, park and safe-Z; UNLOCK has its own check.
QueueAction ==
    /\ Handling /\ MayCommand /\ Enqueue(<<"action">>)
    /\ UNCHANGED <<st, age, awaiting, job, drift>>

Unlock ==
    /\ Handling /\ ~Inhibited /\ st.connection = "connected" /\ Enqueue(<<"action">>)
    /\ UNCHANGED <<st, age, awaiting, job, drift>>

RunMacro ==
    /\ Handling /\ MayCommand
    /\ Enqueue([i \in 1..MacroLines |-> "macro"])
    /\ UNCHANGED <<st, age, awaiting, job, drift>>

\* The reset byte forgets the queue and the answer that is owed.
SoftReset ==
    /\ Handling /\ Len(grbl) < MaxOwed
    /\ queue' = <<>> /\ awaiting' = "none"
    /\ drift' = (drift \/ grbl # <<>>)
    /\ UNCHANGED <<st, age, job>>

StartJob ==
    /\ Handling /\ ~in.estop /\ st.machine = "idle"
    /\ job' = [state |-> "streaming", open |-> TRUE, lines |-> JobLines, awaiting |-> FALSE,
               leftover |-> awaiting = "stream" \/ Waiting(queue, {"stream"}) # {}]
    /\ age' = [age EXCEPT !.send = "now"]
    /\ UNCHANGED <<st, queue, awaiting, drift>>

HoldJob ==
    /\ Handling /\ job.state = "streaming"
    /\ job' = [job EXCEPT !.state = "paused"]
    /\ UNCHANGED <<st, age, queue, awaiting, drift>>

ResumeJob ==
    /\ Handling /\ job.state = "paused" /\ ~in.estop
    /\ job' = [job EXCEPT !.state = "streaming"]
    /\ UNCHANGED <<st, age, queue, awaiting, drift>>

CancelJob ==
    /\ Handling
    /\ queue' = Discard(queue, Axes \cup {"stream"})
    /\ st' = [st EXCEPT !.jogActive = FALSE]
    /\ job' = Finish(job, "cancelled")
    /\ UNCHANGED <<age, awaiting, drift>>

RecoverEstop ==
    /\ Handling /\ ~in.estop
    /\ st' = [st EXCEPT !.latched = FALSE, !.machine = "connecting"]
    /\ UNCHANGED <<age, queue, awaiting, job, drift>>

\* RuntimeError out of an event handler: recovery or a job start while the
\* contact is pressed, a job start outside Idle, a macro the queue cannot hold.
Refused ==
    /\ Raise
    /\ \/ in.estop
       \/ st.machine # "idle"
       \/ MayCommand /\ Len(queue) + MacroLines > QueueLimit
    /\ UNCHANGED <<in, st, age, queue, awaiting, job, grbl, drift>>

\* The job or macro file is gone from the card: ValueError or OSError.
FileGone ==
    /\ Raise
    /\ MayCommand \/ (~in.estop /\ st.machine = "idle")
    /\ UNCHANGED <<in, st, age, queue, awaiting, job, grbl, drift>>

-----------------------------------------------------------------------------
\* controller.poll: note the transport, parse what has arrived, send one line.
BeginController ==
    /\ At("events", "lines")
    /\ LET fresh == st.connection = "disconnected"
       IN /\ st' = IF fresh THEN [st EXCEPT !.connection = "connecting",
                                            !.machine = "connecting"] ELSE st
          /\ age' = IF fresh /\ ~st.answered THEN [age EXCEPT !.response = "now"] ELSE age
    /\ UNCHANGED <<in, queue, awaiting, job, grbl, drift>>

Parsing == At("lines", "lines") /\ UNCHANGED in
Responded(s) == [s EXCEPT !.connection = "connected", !.answered = TRUE]
Heard == age' = [age EXCEPT !.response = "now"]

ParseOk ==
    /\ Parsing /\ grbl # <<>> /\ Heard
    /\ grbl' = Tail(grbl) /\ awaiting' = "none"
    /\ st' = Responded(st)
    /\ job' = IF job.open /\ awaiting = "stream" THEN [job EXCEPT !.awaiting = FALSE] ELSE job
    /\ drift' = (drift /\ Len(grbl) > 1)
    /\ UNCHANGED queue

ParseError ==
    /\ Parsing /\ grbl # <<>> /\ Heard
    /\ grbl' = Tail(grbl) /\ awaiting' = "none"
    /\ st' = Responded(st)
    /\ queue' = Discard(queue, KindOf(awaiting))
    /\ job' = IF job.open THEN Finish(job, "error") ELSE job
    /\ drift' = (drift /\ Len(grbl) > 1)

\* GRBL may still answer the line it was executing when the alarm struck.
ParseAlarm ==
    /\ Parsing /\ Len(grbl) < MaxOwed /\ Heard
    /\ grbl' \in {<<>>, grbl}
    /\ st' = [Responded(st) EXCEPT !.alarm = TRUE, !.machine = "alarm", !.jogActive = FALSE]
    /\ queue' = <<>> /\ awaiting' = "none"
    /\ job' = IF job.open THEN Finish(job, "alarm") ELSE job
    /\ drift' = (grbl' # <<>>)

\* The banner of a controller that restarted and will answer nothing it held.
ParseBanner ==
    /\ Parsing /\ Heard
    /\ grbl' = <<>> /\ drift' = FALSE
    /\ st' = [Responded(st) EXCEPT !.machine = "connecting"]
    /\ UNCHANGED <<queue, awaiting, job>>

ParseStatus ==
    /\ Parsing /\ Heard
    /\ \E m \in Reports :
           st' = [Responded(st) EXCEPT !.machine = m, !.jogActive = (m = "jog")]
    /\ UNCHANGED <<queue, awaiting, job, grbl, drift>>

SendsUnanswered == queue # <<>>
MaySend == awaiting = "none" /\ queue # <<>>

SendNext ==
    /\ At("lines", "stream")
    /\ IF MaySend
       THEN /\ grbl' = Append(grbl, Head(queue))
            /\ awaiting' = Head(queue)
            /\ queue' = Tail(queue)
            /\ age' = IF Head(queue) = "stream" /\ job.open
                      THEN [age EXCEPT !.send = "now"] ELSE age
       ELSE UNCHANGED <<grbl, awaiting, queue, age>>
    /\ UNCHANGED <<in, st, job, drift>>

-----------------------------------------------------------------------------
Streaming == At("stream", "watch") /\ UNCHANGED <<in, st, awaiting, grbl, drift>>
ProducingEagerly == job.open /\ job.state = "streaming" /\ ~Inhibited
Producing == job.open /\ job.state = "streaming" /\ ~Inhibited /\ ~job.awaiting

StreamIdle ==
    /\ Streaming
    /\ ~Producing
    /\ job' = IF job.open /\ job.state = "streaming" /\ Inhibited
              THEN Finish(job, "inhibited") ELSE job
    /\ UNCHANGED <<age, queue>>

StreamTimeout ==
    /\ Streaming
    /\ job.open /\ job.state = "streaming" /\ ~Inhibited /\ job.awaiting /\ age.send = "past"
    /\ job' = Finish(job, "error")
    /\ UNCHANGED <<age, queue>>

\* One line is read; a queue that is full refuses it and the line is gone.
StreamLine ==
    /\ Streaming /\ Producing /\ job.lines > 0
    /\ LET taken == Len(queue) < QueueLimit
       IN /\ queue' = IF taken THEN Append(queue, "stream") ELSE queue
          /\ job' = [job EXCEPT !.lines = @ - 1, !.awaiting = taken]
          /\ age' = IF taken THEN [age EXCEPT !.send = "now"] ELSE age

StreamEnd ==
    /\ Streaming /\ Producing
    /\ \/ job.lines = 0 /\ job' = Finish(job, "complete")
       \/ job' = Finish(job, "error")       \* the card could not be read
    /\ UNCHANGED <<age, queue>>

-----------------------------------------------------------------------------
Watching == At("watch", "inputs") /\ UNCHANGED <<in, age, awaiting, job, grbl, drift>>

WatchdogQuiet == Watching /\ UNCHANGED <<st, queue>>

\* Nothing heard for too long: a fault on the screen; the queue is kept.
CommunicationTimeout ==
    /\ Watching
    /\ st.connection # "disconnected" /\ age.response = "past"
    /\ st' = [st EXCEPT !.connection = "disconnected", !.machine = "error",
                        !.jogActive = FALSE]
    /\ UNCHANGED queue

JogTimeout == Watching /\ st.jogActive /\ age.jog = "past" /\ CancelJog

UIEvent ==
    \/ Jog \/ JogCancel \/ QueueAction \/ Unlock \/ RunMacro \/ SoftReset \/ StartJob
    \/ HoldJob \/ ResumeJob \/ CancelJob \/ RecoverEstop \/ Refused \/ FileGone
ControllerPoll ==
    \/ BeginController \/ ParseOk \/ ParseError \/ ParseAlarm \/ ParseBanner
    \/ ParseStatus \/ SendNext
StreamerPoll == StreamIdle \/ StreamTimeout \/ StreamLine \/ StreamEnd
WatchdogPoll == WatchdogQuiet \/ CommunicationTimeout \/ JogTimeout

Next == SampleInputs \/ UIEvent \/ ControllerPoll \/ StreamerPoll \/ WatchdogPoll

Spec == Init /\ [][Next]_vars

-----------------------------------------------------------------------------
\* Every variable of the loop keeps its type; the queue keeps its limit.
TypeOK ==
    /\ stage \in {"inputs", "events", "lines", "stream", "watch", "halted"}
    /\ in \in [estop : BOOLEAN, deadman : BOOLEAN, axis : Axes \cup {"OFF"}]
    /\ st \in [connection : {"disconnected", "connecting", "connected"},
               machine : MachineStates, alarm : BOOLEAN, latched : BOOLEAN,
               jogActive : BOOLEAN, answered : BOOLEAN]
    /\ age \in [{"response", "jog", "send"} -> {"never", "now", "past"}]
    /\ queue \in Seq(Lines) /\ Len(queue) <= QueueLimit
    /\ awaiting \in Lines \cup {"none"}
    /\ job \in [state : JobStates, open : BOOLEAN, lines : 0..JobLines,
                awaiting : BOOLEAN, leftover : BOOLEAN]
    /\ grbl \in Seq(Lines) /\ drift \in BOOLEAN

\* A jog that waits to be sent was turned for the axis still selected, with the
\* dead-man still held and no E-stop since (app.poll and require_jog together).
QueuedJogAuthorised ==
    Waiting(queue, Axes) # {} =>
        /\ in.deadman /\ ~Inhibited
        /\ Waiting(queue, {in.axis}) = Waiting(queue, Axes)

\* While E-stop is observed or its latch is set neither a jog nor a job line
\* is written to GRBL, whatever was queued or streaming before
\* (app.observe_estop, streamer.inhibit, streamer.poll).
EstopSilences ==
    [][Len(grbl') > Len(grbl) /\ Inhibited =>
           grbl'[Len(grbl')] \in {"action", "macro"}]_vars

\* A command that awaits its answer is the last one GRBL has to answer, however
\* many it owes; and it is the only one, unless a reset byte or an alarm made the
\* controller forget a command that may still be answered (controller.poll,
\* soft_reset, _parse_line).
AnswersMatch ==
    /\ awaiting # "none" /\ grbl # <<>> => grbl[Len(grbl)] = awaiting
    /\ ~drift => grbl = <<>> \/ grbl = <<awaiting>>

\* A job that was not started over a line of an earlier one has one line under
\* way at most, and none when it does not wait for one or is complete: only a job
\* ended by an error or a time-out leaves a line, and only one.  A job that was
\* cancelled, inhibited or alarmed leaves no line in the queue.
JobLineByLine ==
    LET outstanding ==
            Cardinality(Waiting(queue, {"stream"})) + IF awaiting = "stream" THEN 1 ELSE 0
        settled == (job.open /\ ~job.awaiting) \/ job.state \in {"idle", "complete"}
    IN /\ ~job.leftover => outstanding <= IF settled THEN 0 ELSE 1
       /\ job.state \in {"cancelled", "inhibited", "alarm"} => Waiting(queue, {"stream"}) = {}
=============================================================================
