------------------------------ MODULE C3Wireless ------------------------------
(***************************************************************************)
(* Jogging over ESP-NOW: C3WirelessController and C3PairingBench in the    *)
(* pendant, one JogLease in each ESP32-C3 bridge, and the radio between.   *)
(*                                                                         *)
(* The pendant runs in stages: "app" (inputs, UI events, watchdog), then   *)
(* controller.poll as "radio" (read packets), "consume" (their events),    *)
(* "timers" (STOP retry, jog time-out) and "online".  The radio loses      *)
(* packets, delivers one twice in a row, and otherwise keeps their order.  *)
(* controller.poll only reads what has arrived and only adds what is sent, *)
(* so the bridges act between polls: before it or after it comes to the    *)
(* same.  A bridge's firmware is external: how it answers is taken from    *)
(* the packets the pendant expects, whether it moves from JogLease.        *)
(*                                                                         *)
(* Times are left out: a time-out may fire in any poll while what it waits *)
(* for is under way, and a status report may be too old in any poll.       *)
(* Heartbeats are left out: the link may be lost in any round, and the     *)
(* sequence numbers they use up only make the others more distinct.        *)
(***************************************************************************)
EXTENDS Integers, Sequences, FiniteSets

CONSTANTS
    Peers,          \* bridges that answer a PAIR
    EventLimit,     \* undelivered events kept (16 in the code)
    MaxAttempts,    \* STOPs sent for one cancel (4 in the code)
    MaxSeq,         \* bound: sequence numbers the radio still accepts
    MaxDown, MaxUp, \* bound: packets in flight each way; more are lost
    Reports         \* bound: the machine states a bridge reports

ASSUME C3Constants ==
    /\ {EventLimit, MaxAttempts, MaxSeq, MaxDown, MaxUp} \subseteq Nat \ {0}
    /\ Reports \subseteq {"idle", "jog", "run", "hold", "alarm", "error"}
    /\ "none" \notin Peers
    /\ IsFiniteSet(Peers)

VARIABLES
    stage,          \* what the pendant does next
    in,             \* deadman_enabled; estop: observed or latched
    machine,        \* connected; ready: machine_state Idle or Jog; jog_active
    peer,           \* C3PairingBench.peer, "none" when not paired
    status,         \* _last_status is recent; _status_peer
    pending,        \* _pending_seq, 0 for None
    stop,           \* _stop_pending, _stop_seq, _stop_at is set, _stop_attempts
    seq,            \* the next sequence number
    events,         \* C3PairingBench.events
    down, up,       \* packets to and from each bridge
    lease,          \* JogLease.active and last_sequence of each bridge
    cancelled,      \* history: last sequence number when a jog was last cancelled
    admitted,       \* history: jogs a bridge has admitted
    bridges         \* history: bridges the pendant has been paired with

pendant == <<in, machine, peer, status, pending, stop, seq, events>>
history == <<cancelled, admitted, bridges>>
vars == <<stage, pendant, down, up, lease, history>>

Seqs == 1..MaxSeq
Requests ==
    [kind : {"pair"}] \cup [kind : {"jog", "stop"}, seq : Seqs]
Answers ==
    [kind : {"paired"}] \cup [kind : {"status"}, state : Reports]
        \cup [kind : {"jogAck"}, seq : Seqs, ok : BOOLEAN] \cup [kind : {"stopAck"}, seq : Seqs]
Events == [kind : {"status"}, state : Reports]
    \cup [kind : {"jogAck"}, seq : Seqs, ok : BOOLEAN] \cup [kind : {"stopAck"}, seq : Seqs]

Put(channel, m, room) == IF Len(channel) < room THEN Append(channel, m) ELSE channel
Send(p, m) == down' = [down EXCEPT ![p] = Put(@, m, MaxDown)]
Revoked == [active |-> FALSE, last |-> 0]

Init ==
    /\ stage = "app"
    /\ in = [deadman |-> FALSE, estop |-> FALSE]
    /\ machine = [connected |-> FALSE, ready |-> FALSE, jogging |-> FALSE]
    /\ peer = "none"
    /\ status = [fresh |-> FALSE, peer |-> "none"]
    /\ pending = 0
    /\ stop = [pending |-> FALSE, seq |-> 0, sent |-> FALSE, attempts |-> 0]
    /\ seq = 1 /\ events = <<>>
    /\ down = [p \in Peers |-> <<>>] /\ up = [p \in Peers |-> <<>>]
    /\ lease = [p \in Peers |-> Revoked]
    /\ cancelled = 0 /\ admitted = {} /\ bridges = {}

-----------------------------------------------------------------------------
\* _send_stop with the attempts made so far: not paired, refused by the radio,
\* or sent.  A STOP that was not sent keeps the time of the one before it.
SendStop(attempts) ==
    \/ /\ stop' = [stop EXCEPT !.pending = TRUE, !.attempts = attempts]
       /\ UNCHANGED <<seq, down>>
    \/ /\ peer # "none" /\ seq <= MaxSeq
       /\ Send(peer, [kind |-> "stop", seq |-> seq])
       /\ stop' = [pending |-> TRUE, seq |-> seq, sent |-> TRUE, attempts |-> attempts + 1]
       /\ seq' = seq + 1

\* cancel_jog
CancelJog ==
    /\ SendStop(0)
    /\ pending' = 0
    /\ cancelled' = seq - 1

At(s, next) == stage = s /\ stage' = next
Stay == At("app", "app") /\ UNCHANGED <<peer, status, events, up, lease, admitted, bridges>>
NoCancel == UNCHANGED <<pending, stop, seq, down, cancelled>>
NotJogging == machine' = [machine EXCEPT !.jogging = FALSE]

-----------------------------------------------------------------------------
\* The application: a change of the multiplier, JOG_CANCEL and FEED_HOLD cancel
\* whatever is shown; the dead-man and the axis selector only a jog that is.
Revoke == Stay /\ CancelJog /\ NotJogging /\ UNCHANGED in

ChangeAxis ==
    /\ Stay /\ NotJogging /\ UNCHANGED in
    /\ IF machine.jogging THEN CancelJog ELSE NoCancel

TurnDeadman ==
    /\ Stay
    /\ in' = [in EXCEPT !.deadman = ~@]
    /\ IF in.deadman /\ machine.jogging
       THEN CancelJog /\ NotJogging ELSE NoCancel /\ UNCHANGED machine

\* An E-stop and JOB_CANCEL cancel twice: the streamer asks for a feed hold,
\* which is a cancel here.
CancelTwice ==
    /\ At("app", "again") /\ CancelJog
    /\ UNCHANGED <<peer, status, events, up, lease, admitted, bridges>>

CancelJob == CancelTwice /\ NotJogging /\ UNCHANGED in

PressEstop ==
    /\ CancelTwice
    /\ in' = [in EXCEPT !.estop = TRUE]
    /\ machine' = [machine EXCEPT !.ready = FALSE, !.jogging = FALSE]

CancelAgain ==
    /\ At("again", "app") /\ CancelJog /\ UNCHANGED <<in, machine>>
    /\ UNCHANGED <<peer, status, events, up, lease, admitted, bridges>>

RecoverEstop ==
    /\ Stay /\ NoCancel
    /\ in' = [in EXCEPT !.estop = FALSE]
    /\ machine' = [machine EXCEPT !.ready = FALSE]

\* The jog watchdog: no detent for half a second.
JogTimeout == Stay /\ machine.jogging /\ CancelJog /\ NotJogging /\ UNCHANGED in

\* A detent: require_jog, queue_jog, and the packet sent or refused.
MayJog ==
    /\ peer # "none" /\ machine.connected /\ machine.ready
    /\ in.deadman /\ ~in.estop
    /\ pending = 0 /\ ~stop.pending

Jog ==
    /\ Stay /\ MayJog /\ seq <= MaxSeq /\ UNCHANGED in
    /\ Send(peer, [kind |-> "jog", seq |-> seq])
    /\ pending' = seq
    /\ seq' = seq + 1
    /\ machine' = [machine EXCEPT !.jogging = TRUE]
    /\ UNCHANGED <<stop, cancelled>>

JogRefusedByRadio == Stay /\ MayJog /\ CancelJog /\ NotJogging /\ UNCHANGED in

-----------------------------------------------------------------------------
\* controller.poll begins; nothing heard for five seconds forgets the bridge.
StartPoll ==
    /\ At("app", "radio")
    /\ peer' \in {peer, "none"}
    /\ UNCHANGED <<in, machine, status, pending, stop, seq, events, down, up, lease, history>>

KeptAll(q) == q
Kept(q) == IF Len(q) >= EventLimit THEN Tail(q) ELSE q

\* A packet is read.  Any bridge's PAIR_ACK makes it the peer; other packets
\* are kept when they come from the peer.  The radio may have it delivered again.
ReadPacket(p) ==
    /\ At("radio", "radio")
    /\ up[p] # <<>>
    /\ up' \in {up, [up EXCEPT ![p] = Tail(@)]}
    /\ LET m == Head(up[p])
       IN IF m.kind = "paired"
          THEN peer' = p /\ bridges' = bridges \cup {p} /\ UNCHANGED events
          ELSE /\ events' = IF peer = p THEN Append(Kept(events), m) ELSE events
               /\ UNCHANGED <<peer, bridges>>
    /\ UNCHANGED <<in, machine, status, pending, stop, seq, down, lease, cancelled, admitted>>

\* The radio raises: poll() gives the link up, cancels and leaves the events.
RadioFault ==
    /\ At("radio", "app") /\ CancelJog
    /\ machine' = [machine EXCEPT !.connected = FALSE, !.jogging = FALSE]
    /\ UNCHANGED <<in, peer, status, events, up, lease, admitted, bridges>>

\* No more packets; without a bridge a PAIR is broadcast every three seconds.
StopReading ==
    /\ At("radio", "consume")
    /\ \/ UNCHANGED down
       \/ /\ peer = "none"
          /\ down' = [p \in Peers |-> Put(down[p], [kind |-> "pair"], MaxDown)]
    /\ UNCHANGED <<pendant, up, lease, history>>

Consuming(kind) ==
    /\ At("consume", "consume")
    /\ events # <<>> /\ Head(events).kind = kind
    /\ events' = Tail(events)
    /\ UNCHANGED <<in, peer, seq, down, up, lease, history>>

\* The report is taken for one of whoever is the peer by now.
ConsumeStatus ==
    /\ Consuming("status")
    /\ machine' = [connected |-> TRUE, ready |-> Head(events).state \in {"idle", "jog"},
                   jogging |-> Head(events).state = "jog"]
    /\ status' = [fresh |-> TRUE, peer |-> peer]
    /\ UNCHANGED <<pending, stop>>

AnyJogAck(e) == pending # 0
ThisJogAck(e) == e.seq = pending

ConsumeJogAck ==
    /\ Consuming("jogAck")
    /\ IF ThisJogAck(Head(events))
       THEN /\ pending' = 0
            /\ machine' = [machine EXCEPT !.jogging = @ /\ Head(events).ok]
       ELSE UNCHANGED <<pending, machine>>
    /\ UNCHANGED <<status, stop>>

AnyStopAck(e) == TRUE
ThisStopAck(e) == e.seq = stop.seq

ConsumeStopAck ==
    /\ Consuming("stopAck")
    /\ stop' = IF ThisStopAck(Head(events))
               THEN [stop EXCEPT !.pending = FALSE, !.seq = 0, !.sent = FALSE] ELSE stop
    /\ UNCHANGED <<machine, status, pending>>

-----------------------------------------------------------------------------
\* Either a STOP waits for its answer or a jog does, never both.
Timing ==
    /\ stage = "consume" /\ events = <<>> /\ stage' = "online"
    /\ UNCHANGED <<in, peer, status, events, up, lease, admitted, bridges>>

NothingDue ==
    /\ Timing /\ NoCancel /\ UNCHANGED machine

RetryStop ==
    /\ Timing /\ stop.pending /\ stop.sent /\ stop.attempts < MaxAttempts
    /\ SendStop(stop.attempts)
    /\ UNCHANGED <<machine, pending, cancelled>>

JogAckTimeout ==
    /\ Timing /\ pending # 0
    /\ CancelJog /\ NotJogging

\* Online: a status not older than half a second, from the bridge paired now.
GoOnline ==
    /\ At("online", "app")
    /\ status.fresh /\ peer # "none" /\ status.peer = peer
    /\ machine' = [machine EXCEPT !.connected = TRUE]
    /\ UNCHANGED <<in, peer, status, pending, stop, seq, events, down, up, lease, history>>

GoOffline ==
    /\ At("online", "app")
    /\ machine' = [connected |-> FALSE, ready |-> FALSE, jogging |-> FALSE]
    /\ \/ status' = [status EXCEPT !.fresh = FALSE]
       \/ (peer = "none" \/ status.peer # peer) /\ UNCHANGED status
    /\ IF machine.jogging THEN CancelJog ELSE NoCancel
    /\ UNCHANGED <<in, peer, events, up, lease, admitted, bridges>>

-----------------------------------------------------------------------------
Between == stage = "app" /\ UNCHANGED <<stage, pendant>>

\* The bridge takes the next packet, which the radio may deliver again.
Take(p, kind) ==
    /\ down[p] # <<>> /\ Head(down[p]).kind = kind
    /\ down' \in {down, [down EXCEPT ![p] = Tail(@)]}
    /\ Between /\ UNCHANGED <<cancelled, bridges>>
Answer(p, m) == up' = [up EXCEPT ![p] = Put(@, m, MaxUp)]

BridgePairs(p) ==
    /\ Take(p, "pair") /\ Answer(p, [kind |-> "paired"])
    /\ UNCHANGED <<lease, admitted>>

\* JogLease.admit: a sequence number newer than the last while the lease lasts.
BridgeAdmits(p) ==
    /\ Take(p, "jog")
    /\ LET n == Head(down[p]).seq
       IN /\ n > lease[p].last
          /\ lease' = [lease EXCEPT ![p] = [active |-> TRUE, last |-> n]]
          /\ admitted' = admitted \cup {n}
          /\ Answer(p, [kind |-> "jogAck", seq |-> n, ok |-> TRUE])

\* Refused: replayed, GRBL not idle, its port refuses, or a lease just over.
BridgeRefuses(p) ==
    /\ Take(p, "jog")
    /\ lease' \in {lease, [lease EXCEPT ![p] = Revoked]}
    /\ Answer(p, [kind |-> "jogAck", seq |-> Head(down[p]).seq, ok |-> FALSE])
    /\ UNCHANGED admitted

BridgeStops(p) ==
    /\ Take(p, "stop")
    /\ lease' = [lease EXCEPT ![p] = Revoked]
    /\ Answer(p, [kind |-> "stopAck", seq |-> Head(down[p]).seq])
    /\ UNCHANGED admitted

\* JogLease.tick at the deadline
LeaseExpires(p) ==
    /\ lease[p].active
    /\ lease' = [lease EXCEPT ![p] = Revoked]
    /\ Between /\ UNCHANGED <<down, up, history>>

BridgeReports(p) ==
    /\ \E m \in Reports : Answer(p, [kind |-> "status", state |-> m])
    /\ Between /\ UNCHANGED <<down, lease, history>>

Lose(p) ==
    /\ \/ down[p] # <<>> /\ down' = [down EXCEPT ![p] = Tail(@)] /\ UNCHANGED up
       \/ up[p] # <<>> /\ up' = [up EXCEPT ![p] = Tail(@)] /\ UNCHANGED down
    /\ Between /\ UNCHANGED <<lease, history>>

Application ==
    \/ Revoke \/ ChangeAxis \/ TurnDeadman \/ CancelJob \/ PressEstop \/ CancelAgain
    \/ RecoverEstop
    \/ JogTimeout \/ Jog \/ JogRefusedByRadio
Poll ==
    \/ StartPoll \/ (\E p \in Peers : ReadPacket(p)) \/ RadioFault \/ StopReading
    \/ ConsumeStatus \/ ConsumeJogAck \/ ConsumeStopAck
    \/ NothingDue \/ RetryStop \/ JogAckTimeout \/ GoOnline \/ GoOffline
Bridge(p) ==
    \/ BridgePairs(p) \/ BridgeAdmits(p) \/ BridgeRefuses(p) \/ BridgeStops(p)
    \/ LeaseExpires(p) \/ BridgeReports(p) \/ Lose(p)

Next == Application \/ Poll \/ \E p \in Peers : Bridge(p)

Spec == Init /\ [][Next]_vars

-----------------------------------------------------------------------------
\* Every variable keeps its type, and the events their limit.
TypeOK ==
    /\ stage \in {"app", "again", "radio", "consume", "online"}
    /\ in \in [deadman : BOOLEAN, estop : BOOLEAN]
    /\ machine \in [connected : BOOLEAN, ready : BOOLEAN, jogging : BOOLEAN]
    /\ peer \in Peers \cup {"none"}
    /\ status \in [fresh : BOOLEAN, peer : Peers \cup {"none"}]
    /\ pending \in 0..MaxSeq
    /\ stop \in [pending : BOOLEAN, seq : 0..MaxSeq, sent : BOOLEAN, attempts : 0..MaxAttempts]
    /\ seq \in 1..(MaxSeq + 1)
    /\ events \in Seq(Events) /\ Len(events) <= EventLimit
    /\ down \in [Peers -> Seq(Requests)] /\ up \in [Peers -> Seq(Answers)]
    /\ lease \in [Peers -> [active : BOOLEAN, last : 0..MaxSeq]]
    /\ cancelled \in 0..MaxSeq /\ admitted \subseteq Seqs /\ bridges \subseteq Peers

\* Once the STOP owed for a cancelled jog is acknowledged, no bridge executes
\* that jog nor will receive it, as long as the pendant has known one bridge
\* (cancel_jog and the STOP_ACK of poll against JogLease and the radio).
CancelledJogIsOver ==
    ~stop.pending /\ Cardinality(bridges) <= 1 =>
        \A p \in Peers :
            /\ lease[p].active => lease[p].last > cancelled
            /\ \A i \in 1..Len(down[p]) :
                   down[p][i].kind = "jog" => down[p][i].seq > cancelled

\* A jog that stops pending with the pendant still jogging was admitted by a
\* bridge: no answer to another jog is credited to it (the JOG_ACK of poll).
AcceptedWasAdmitted ==
    [][pending # 0 /\ pending' = 0 /\ machine.jogging /\ machine'.jogging
           => pending \in admitted]_vars
=============================================================================
