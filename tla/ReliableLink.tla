---------------------------- MODULE ReliableLink ----------------------------
(***************************************************************************)
(* Two ReliableSession endpoints (src/transport/protocol.py) joined by a   *)
(* byte link: the pendant is the initiator and sends the reliable packets, *)
(* the companion host is the responder, dispatches them and owns the       *)
(* motion lease.                                                           *)
(*                                                                         *)
(* Frames travel in order on one channel per direction; a frame may be     *)
(* lost, or arrive damaged and be rejected by the parser.  Either endpoint *)
(* may reboot.  Each endpoint has a private clock: ages and the lease are  *)
(* counted in ticks of the owner's clock and stop counting once the longest*)
(* time-out that reads them has passed.  One poll() is a run of Receive    *)
(* steps closed by PollTail, because the code reads its clock again for    *)
(* every packet; a caller's sends fall between two polls.                  *)
(***************************************************************************)
EXTENDS Integers, Sequences, FiniteSets

CONSTANTS
    SeqMod,         \* size of the sequence number space (65536 in the code)
    AckTimeout,     \* ACK_TIMEOUT_MS, in ticks
    Heartbeat,      \* HEARTBEAT_INTERVAL_MS, in ticks
    LinkLost,       \* LINK_LOST_TIMEOUT_MS, in ticks
    Lease,          \* MOTION_LEASE_MS, in ticks
    MaxRetries,     \* MAX_RETRIES
    Prompt,         \* TRUE: both endpoints poll at least once in every tick
    NoPkt,          \* "outstanding is None"
    MaxChan,        \* bound: frames a channel holds, later ones overrun
    MaxNonce,       \* bound: session nonces one endpoint ever draws
    MaxSends,       \* bound: packets the pendant ever originates
    MaxFaults       \* bound: lost or damaged frames and reboots

Pendant == "pendant"
Host == "host"
EP == {Pendant, Host}
Peer(e) == IF e = Pendant THEN Host ELSE Pendant

NoSeq == -1         \* Python's None in a sequence number field
NoSession == 0      \* Python's None, or 0 on the wire, in a nonce field
SeqNum == 0..(SeqMod - 1)

LinkStates == {"DISCONNECTED", "SESSION_NEGOTIATING", "HEALTHY", "DEGRADED", "LOST"}
Kinds == {"COMMAND", "START", "RENEW", "STOP"}

\* A frame.  "intent" is the first two payload bytes of RENEW and STOP; "id"
\* names the send() call that made the packet and is not on the wire.
Numbered == {"DATA", "ACK", "NAK"}
Fields ==
    [type : Numbered \cup {"INIT", "CHALLENGE", "CONFIRM", "HEARTBEAT"},
     src : Nat, peer : Nat, seq : SeqNum \cup {NoSeq},
     kind : Kinds \cup {"none"}, intent : SeqNum \cup {NoSeq}, id : Nat]
Frames == {f \in Fields : f.type \in Numbered => f.seq \in SeqNum}

Outstanding ==
    [pkt : {f \in Frames : f.type = "DATA"}, age : 0..AckTimeout, tries : 0..MaxRetries]

ASSUME LinkConstants ==
    /\ SeqMod \in Nat /\ SeqMod >= 4
    /\ {AckTimeout, Heartbeat, LinkLost, Lease} \subseteq Nat \ {0}
    /\ {MaxRetries, MaxChan, MaxNonce, MaxSends, MaxFaults} \subseteq Nat
    /\ Prompt \in BOOLEAN
    /\ NoPkt \notin Outstanding

VARIABLES
    chan,       \* chan[e]: frames on their way to e
    local, remote, est,     \* local_session, remote_session, established
    rxAge, txAge,           \* now - last_receive_ms, now - last_transmit_ms
    link,       \* link_state
    reading,    \* reading[e]: e is inside poll(), before its tail
    nextSeq, out, pIntent,  \* the pendant's next_sequence, outstanding and
                            \* motion_intent_sequence
    lastAcc,                \* the host's last_accepted_sequence
    motion, hIntent, lease, \* motion_active, motion_intent_sequence and the
                            \* ticks left before motion_lease_deadline
    faults,     \* faults so far
    sent,       \* history: packets originated so far, ids are 1..sent
    log,        \* history: ids the host accepted, in order
    delivered,  \* history: ids whose ACK the pendant took
    granted,    \* history: the last START that set motion_active
    peers,      \* history: host nonces the pendant ever established with
    quiet       \* history: ticks since the pendant last held or used an intent

sessionVars == <<local, remote, est>>
senderVars == <<nextSeq, out, pIntent>>
motionVars == <<motion, hIntent, lease>>
historyVars == <<sent, log, delivered, granted, peers, quiet>>
vars == <<chan, local, remote, est, rxAge, txAge, link, reading, nextSeq, out,
          pIntent, lastAcc, motion, hIntent, lease, faults, sent, log,
          delivered, granted, peers, quiet>>

TypeOK ==
    /\ chan \in [EP -> Seq(Frames)]
    /\ local \in [EP -> Nat \ {0}]
    /\ remote \in [EP -> Nat]
    /\ est \in [EP -> BOOLEAN]
    /\ rxAge \in [EP -> 0..LinkLost]
    /\ txAge \in [EP -> 0..Heartbeat]
    /\ link \in [EP -> LinkStates]
    /\ reading \in [EP -> BOOLEAN]
    /\ nextSeq \in SeqNum
    /\ out \in Outstanding \cup {NoPkt}
    /\ pIntent \in SeqNum \cup {NoSeq}
    /\ lastAcc \in SeqNum \cup {NoSeq}
    /\ motion \in BOOLEAN
    /\ hIntent \in SeqNum \cup {NoSeq}
    /\ lease \in 0..Lease
    /\ faults \in 0..MaxFaults
    /\ sent \in Nat
    /\ log \in Seq(Nat)
    /\ delivered \subseteq Nat
    /\ granted \in Nat
    /\ peers \subseteq Nat
    /\ quiet \in 0..(Lease + 1)

Init ==
    /\ chan = [e \in EP |-> <<>>]
    /\ local = [e \in EP |-> 1]
    /\ remote = [e \in EP |-> NoSession]
    /\ est = [e \in EP |-> FALSE]
    /\ rxAge = [e \in EP |-> 0]
    /\ txAge = [e \in EP |-> Heartbeat]
    /\ link = [e \in EP |-> "DISCONNECTED"]
    /\ reading = [e \in EP |-> FALSE]
    /\ nextSeq = 0 /\ out = NoPkt /\ pIntent = NoSeq
    /\ lastAcc = NoSeq
    /\ motion = FALSE /\ hIntent = NoSeq /\ lease = 0
    /\ faults = 0
    /\ sent = 0 /\ log = <<>> /\ delivered = {} /\ granted = 0 /\ peers = {} /\ quiet = 0

----------------------------------------------------------------------------
(* Frames and channels. *)

\* _packet: a frame without payload, stamped with the active pair.
Frame(t, source, other, number) ==
    [type |-> t, src |-> source, peer |-> other, seq |-> number,
     kind |-> "none", intent |-> NoSeq, id |-> 0]

\* transport.write: a full receive buffer overruns.
Push(q, f) == IF Len(q) < MaxChan THEN Append(q, f) ELSE q

\* q without its i-th frame.
Without(q, i) == [j \in 1..(Len(q) - 1) |-> IF j < i THEN q[j] ELSE q[j + 1]]

Arrives(e, types) == chan[e] # <<>> /\ Head(chan[e]).type \in types

\* A received frame leaves the channel, without an answer or with one.
Take(e) == chan' = [chan EXCEPT ![e] = Tail(@)]
TakeAndAnswer(e, f) ==
    chan' = [chan EXCEPT ![e] = Tail(@), ![Peer(e)] = Push(@, f)]

MatchesActive(e, f) == est[e] /\ f.src = remote[e] /\ f.peer = local[e]

Written(e) == txAge' = [txAge EXCEPT ![e] = 0]
Heard(e) == rxAge' = [rxAge EXCEPT ![e] = 0]
InPoll(e) == reading' = [reading EXCEPT ![e] = TRUE]

\* next_sequence after a send.
NextSeqUnwrapped(number) == number + 1          \* mutant: no wrap
NextSeq(number) == (number + 1) % SeqMod

\* mutant: plain comparison instead of serial arithmetic
IsNewPlain(number) == number > lastAcc

\* _is_new: half-range serial arithmetic.
IsNew(number) ==
    LET delta == (number - lastAcc) % SeqMod
    IN  0 < delta /\ delta < SeqMod \div 2

----------------------------------------------------------------------------
(* Losing a session and stopping motion. *)

LeaseNeverExpires == FALSE                      \* mutant: the check is missing
LeaseExpired == motion /\ lease = 0

StopMotion ==
    /\ motion' = FALSE
    /\ hIntent' = NoSeq
    /\ lease' = 0

\* Every trace of e's generation goes and a fresh nonce is drawn.
ForgetSession(e) ==
    /\ local[e] < MaxNonce
    /\ local' = [local EXCEPT ![e] = @ + 1]
    /\ remote' = [remote EXCEPT ![e] = NoSession]
    /\ est' = [est EXCEPT ![e] = FALSE]
    /\ IF e = Pendant
       THEN /\ out' = NoPkt
            /\ pIntent' = NoSeq
            /\ UNCHANGED <<lastAcc, motionVars>>
       ELSE /\ lastAcc' = NoSeq
            /\ StopMotion
            /\ UNCHANGED <<out, pIntent>>

\* _lose_session: the sequence counter alone runs on.
LoseSession(e) == ForgetSession(e) /\ UNCHANGED nextSeq

\* _check_motion_lease finds the deadline passed.  Every poll checks it first,
\* for every chunk and every packet, so no other step of the host's poll is
\* taken while the lease is expired.
ExpireLease ==
    /\ LeaseExpired
    /\ StopMotion
    /\ InPoll(Host)
    /\ UNCHANGED <<chan, sessionVars, rxAge, txAge, link, senderVars, lastAcc,
                   faults, historyVars>>

LeaseChecked(e) == e = Host => ~LeaseExpired

\* HostBridge.poll: adapter.poll() raised, abort_motion revokes authority.
AbortMotion ==
    /\ motion /\ ~reading[Host]
    /\ StopMotion
    /\ UNCHANGED <<chan, sessionVars, rxAge, txAge, link, reading, senderVars,
                   lastAcc, faults, historyVars>>

----------------------------------------------------------------------------
(* The pendant's sends: send, send_motion_start, _renew and _stop. *)

Originate(kind, intentSeq) ==
    /\ est[Pendant] /\ out = NoPkt /\ ~reading[Pendant]
    /\ sent < MaxSends
    /\ LET f == [type |-> "DATA", src |-> local[Pendant], peer |-> remote[Pendant],
                 seq |-> nextSeq, kind |-> kind, intent |-> intentSeq, id |-> sent + 1]
       IN  /\ chan' = [chan EXCEPT ![Host] = Push(@, f)]
           /\ out' = [pkt |-> f, age |-> 0, tries |-> 0]
    /\ nextSeq' = NextSeq(nextSeq)
    /\ sent' = sent + 1
    /\ Written(Pendant)
    /\ UNCHANGED <<sessionVars, rxAge, link, reading, lastAcc, motionVars,
                   faults, log, delivered, granted, peers>>

SendCommand ==
    /\ Originate("COMMAND", NoSeq)
    /\ UNCHANGED <<pIntent, quiet>>

\* mutant: the intent is read from next_sequence after the send moved it
SendStartLate ==
    /\ Originate("START", NoSeq)
    /\ pIntent' = nextSeq'
    /\ quiet' = 0

SendStart ==
    /\ Originate("START", NoSeq)
    /\ pIntent' = nextSeq
    /\ quiet' = 0

SendRenew ==
    /\ pIntent # NoSeq
    /\ Originate("RENEW", pIntent)
    /\ quiet' = 0
    /\ UNCHANGED pIntent

SendStop ==
    /\ pIntent # NoSeq
    /\ Originate("STOP", pIntent)
    /\ pIntent' = NoSeq
    /\ quiet' = 0

----------------------------------------------------------------------------
(* Receiving: the handshake. *)

\* A different INIT cannot replace an established session.
RefuseInit ==
    /\ Arrives(Host, {"INIT"}) /\ ~LeaseExpired
    /\ est[Host] /\ Head(chan[Host]).src # remote[Host]
    /\ Take(Host)
    /\ InPoll(Host)
    /\ UNCHANGED <<sessionVars, rxAge, txAge, link, senderVars, lastAcc,
                   motionVars, faults, historyVars>>

\* The proposal already recorded is challenged again.
RepeatChallenge ==
    /\ Arrives(Host, {"INIT"}) /\ ~LeaseExpired
    /\ Head(chan[Host]).src = remote[Host]
    /\ TakeAndAnswer(Host, Frame("CHALLENGE", local[Host], remote[Host], NoSeq))
    /\ Written(Host)
    /\ InPoll(Host)
    /\ UNCHANGED <<sessionVars, rxAge, link, senderVars, lastAcc, motionVars,
                   faults, historyVars>>

ChallengeNonceKept == local[Host]               \* mutant: no rotation
\* The nonce after _reset_generation(rotate_local=remote_session is not None).
ChallengeNonce == IF remote[Host] # NoSession THEN local[Host] + 1 ELSE local[Host]

\* A new proposal, or one that replaces an incomplete one.
AcceptInit ==
    /\ Arrives(Host, {"INIT"}) /\ ~LeaseExpired
    /\ ~est[Host] /\ Head(chan[Host]).src # remote[Host]
    /\ ChallengeNonce <= MaxNonce
    /\ local' = [local EXCEPT ![Host] = ChallengeNonce]
    /\ remote' = [remote EXCEPT ![Host] = Head(chan[Host]).src]
    /\ lastAcc' = NoSeq
    /\ StopMotion
    /\ TakeAndAnswer(Host, Frame("CHALLENGE", ChallengeNonce, Head(chan[Host]).src, NoSeq))
    /\ Written(Host)
    /\ InPoll(Host)
    /\ UNCHANGED <<est, rxAge, link, senderVars, faults, historyVars>>

\* _establish keeps the receive age of a session that was established before.
Establish(e) ==
    /\ est' = [est EXCEPT ![e] = TRUE]
    /\ IF est[e] THEN UNCHANGED rxAge ELSE Heard(e)

\* The pendant accepts a challenge to its own nonce and confirms.
GoodChallenge(f) ==
    /\ f.peer = local[Pendant]
    /\ est[Pendant] => f.src = remote[Pendant]

RecvChallenge ==
    /\ Arrives(Pendant, {"CHALLENGE"})
    /\ LET f == Head(chan[Pendant]) IN
         IF GoodChallenge(f)
         THEN /\ remote' = [remote EXCEPT ![Pendant] = f.src]
              /\ TakeAndAnswer(Pendant, Frame("CONFIRM", local[Pendant], f.src, NoSeq))
              /\ Written(Pendant)
              /\ Establish(Pendant)
              /\ peers' = peers \cup {f.src}
         ELSE Take(Pendant) /\ UNCHANGED <<remote, est, txAge, rxAge, peers>>
    /\ InPoll(Pendant)
    /\ UNCHANGED <<local, link, senderVars, lastAcc, motionVars, faults, sent,
                   log, delivered, granted, quiet>>

GoodConfirmHalf(f) == f.src = remote[Host]      \* mutant: half the pair
GoodConfirm(f) == f.src = remote[Host] /\ f.peer = local[Host]

RecvConfirm ==
    /\ Arrives(Host, {"CONFIRM"}) /\ ~LeaseExpired
    /\ IF GoodConfirm(Head(chan[Host]))
       THEN Establish(Host) /\ lastAcc' = IF est[Host] THEN lastAcc ELSE NoSeq
       ELSE UNCHANGED <<est, rxAge, lastAcc>>
    /\ Take(Host)
    /\ InPoll(Host)
    /\ UNCHANGED <<local, remote, txAge, link, senderVars, motionVars, faults, historyVars>>

----------------------------------------------------------------------------
(* Receiving: heartbeats and answers. *)

\* Anything but a handshake frame that is not of the active pair.
RejectOldSession(e) ==
    /\ Arrives(e, {"DATA", "ACK", "NAK", "HEARTBEAT"}) /\ LeaseChecked(e)
    /\ ~MatchesActive(e, Head(chan[e]))
    /\ Take(e)
    /\ InPoll(e)
    /\ UNCHANGED <<sessionVars, rxAge, txAge, link, senderVars, lastAcc,
                   motionVars, faults, historyVars>>

RecvHeartbeat(e) ==
    /\ Arrives(e, {"HEARTBEAT"}) /\ LeaseChecked(e)
    /\ MatchesActive(e, Head(chan[e]))
    /\ Heard(e)
    /\ Take(e)
    /\ InPoll(e)
    /\ UNCHANGED <<sessionVars, txAge, link, senderVars, lastAcc, motionVars,
                   faults, historyVars>>

AnswersAny(f) == out # NoPkt                    \* mutant: any sequence number
\* The answer concerns the one packet that is outstanding.
Answers(f) == out # NoPkt /\ f.seq = out.pkt.seq

RecvAck ==
    /\ Arrives(Pendant, {"ACK"})
    /\ MatchesActive(Pendant, Head(chan[Pendant]))
    /\ IF Answers(Head(chan[Pendant]))
       THEN out' = NoPkt /\ delivered' = delivered \cup {out.pkt.id}
       ELSE UNCHANGED <<out, delivered>>
    /\ Heard(Pendant)
    /\ Take(Pendant)
    /\ InPoll(Pendant)
    /\ UNCHANGED <<sessionVars, txAge, link, nextSeq, pIntent, lastAcc,
                   motionVars, faults, sent, log, granted, peers, quiet>>

\* A NAK retransmits the stored bytes at once, or ends the session when the
\* retries are used up.
RecvNak ==
    /\ Arrives(Pendant, {"NAK"})
    /\ MatchesActive(Pendant, Head(chan[Pendant]))
    /\ IF ~Answers(Head(chan[Pendant]))
       THEN Take(Pendant) /\ UNCHANGED <<sessionVars, senderVars, lastAcc, motionVars>>
       ELSE IF out.tries >= MaxRetries
       THEN Take(Pendant) /\ LoseSession(Pendant)
       ELSE /\ TakeAndAnswer(Pendant, out.pkt)
            /\ out' = [out EXCEPT !.age = 0, !.tries = @ + 1]
            /\ UNCHANGED <<sessionVars, nextSeq, pIntent, lastAcc, motionVars>>
    /\ Heard(Pendant)
    /\ InPoll(Pendant)
    /\ UNCHANGED <<txAge, link, faults, historyVars>>

----------------------------------------------------------------------------
(* Receiving: DATA at the host. *)

\* mutant: the pair is not compared
DataArrivingAny ==
    {f \in (IF chan[Host] = <<>> THEN {} ELSE {Head(chan[Host])}) :
        f.type = "DATA" /\ ~LeaseExpired}

\* The DATA frame of the active pair that is next to be handled, if there is one.
DataArriving ==
    {f \in (IF chan[Host] = <<>> THEN {} ELSE {Head(chan[Host])}) :
        f.type = "DATA" /\ MatchesActive(Host, f) /\ ~LeaseExpired}

\* Every such frame is answered and refreshes the link.
AnswerData(t, f) ==
    /\ TakeAndAnswer(Host, Frame(t, local[Host], remote[Host], f.seq))
    /\ Written(Host)
    /\ Heard(Host)
    /\ InPoll(Host)
    /\ UNCHANGED <<sessionVars, link, senderVars, faults, sent, delivered, peers, quiet>>

DuplicateUnfiltered(f) == FALSE                 \* mutant: no duplicate filter
Duplicate(f) == lastAcc # NoSeq /\ ~IsNew(f.seq)

Accept(f) ==
    /\ AnswerData("ACK", f)
    /\ lastAcc' = f.seq
    /\ log' = Append(log, f.id)

Refuse(f) ==
    /\ AnswerData("NAK", f)
    /\ UNCHANGED <<lastAcc, log>>

RecvDuplicate ==
    \E f \in DataArriving :
        /\ Duplicate(f)
        /\ AnswerData("ACK", f)
        /\ UNCHANGED <<lastAcc, motionVars, log, granted>>

\* The handler's verdict on a command is not the session's business.
RecvCommand ==
    \E f \in DataArriving :
        /\ ~Duplicate(f) /\ f.kind = "COMMAND"
        /\ Accept(f) \/ Refuse(f)
        /\ UNCHANGED <<motionVars, granted>>

RecvStart ==
    \E f \in DataArriving :
        /\ ~Duplicate(f) /\ f.kind = "START"
        /\ \/ /\ Accept(f)
              /\ motion' = TRUE /\ hIntent' = f.seq /\ lease' = Lease
              /\ granted' = f.id
           \/ /\ Refuse(f)
              /\ UNCHANGED <<motionVars, granted>>

RenewableAnyIntent(f) == motion => lease > 0    \* mutant: intent not compared
\* A renewal counts for the active, unexpired intent only.
Renewable(f) == f.intent = hIntent /\ motion /\ lease > 0

RecvRenew ==
    \E f \in DataArriving :
        /\ ~Duplicate(f) /\ f.kind = "RENEW"
        /\ \/ /\ Renewable(f)       \* on_motion_renew agreed
              /\ Accept(f)
              /\ lease' = Lease
              /\ UNCHANGED <<motion, hIntent>>
           \/ /\ Renewable(f)       \* on_motion_renew refused or raised
              /\ Refuse(f)
              /\ StopMotion
           \/ /\ ~Renewable(f)
              /\ Refuse(f)
              /\ UNCHANGED motionVars
        /\ UNCHANGED granted

RecvStop ==
    \E f \in DataArriving :
        /\ ~Duplicate(f) /\ f.kind = "STOP"
        /\ \/ /\ f.intent = hIntent
              /\ Accept(f) \/ Refuse(f)     \* the handler may raise
              /\ StopMotion
           \/ /\ f.intent # hIntent
              /\ Refuse(f)
              /\ UNCHANGED motionVars
        /\ UNCHANGED granted

----------------------------------------------------------------------------
(* The tail of poll(): retry, heartbeat or INIT, link health. *)

AckNeverDue(e) == FALSE                         \* mutant: no retransmission timer
AckDue(e) == e = Pendant /\ out # NoPkt /\ out.age >= AckTimeout
\* No valid active-session traffic for link_lost_timeout_ms.
SilentPendantOnly(e) == e = Pendant /\ rxAge[e] >= LinkLost  \* mutant
SilentTooSoon(e) == rxAge[e] >= Heartbeat                    \* mutant
Silent(e) == rxAge[e] >= LinkLost

BeatDue(e) == txAge[e] >= Heartbeat

\* _update_link, for an endpoint that is established or not by now.
LinkAfter(e, up) ==
    IF ~up
    THEN IF link[e] = "LOST" THEN "LOST" ELSE "SESSION_NEGOTIATING"
    ELSE IF Silent(e) THEN "LOST"
    ELSE IF rxAge[e] >= 2 * Heartbeat THEN "DEGRADED"
    ELSE "HEALTHY"

PollTail(e) ==
    LET exhausted == AckDue(e) /\ out.tries >= MaxRetries
        resend == AckDue(e) /\ ~exhausted
        up == est[e] /\ ~exhausted
        nonce == IF exhausted THEN local[e] + 1 ELSE local[e]
        beat == BeatDue(e) /\ (up \/ e = Pendant)
        greeting == IF up THEN Frame("HEARTBEAT", local[e], remote[e], NoSeq)
                          ELSE Frame("INIT", nonce, NoSession, NoSeq)
        silent == up /\ Silent(e)
        queued == IF resend THEN Push(chan[Peer(e)], out.pkt) ELSE chan[Peer(e)]
    IN  /\ LeaseChecked(e)
        /\ chan' = [chan EXCEPT ![Peer(e)] = IF beat THEN Push(queued, greeting) ELSE queued]
        /\ IF beat THEN Written(e) ELSE UNCHANGED txAge
        /\ link' = [link EXCEPT ![e] = LinkAfter(e, up)]
        /\ IF exhausted \/ silent
           THEN LoseSession(e)
           ELSE /\ IF resend THEN out' = [out EXCEPT !.age = 0, !.tries = @ + 1]
                             ELSE UNCHANGED out
                /\ UNCHANGED <<sessionVars, nextSeq, pIntent, lastAcc, motionVars>>
        /\ reading' = [reading EXCEPT ![e] = FALSE]
        /\ UNCHANGED <<rxAge, faults, historyVars>>

----------------------------------------------------------------------------
(* The environment: time, the wire, power. *)

Older(age, limit) == IF age < limit THEN age + 1 ELSE age

\* e has nothing to read and a poll would change nothing.
Settled(e) ==
    /\ chan[e] = <<>> /\ ~reading[e]
    /\ LeaseChecked(e)
    /\ ~AckDue(e)
    /\ ~(BeatDue(e) /\ (est[e] \/ e = Pendant))
    /\ link[e] = LinkAfter(e, est[e])
    /\ ~(est[e] /\ Silent(e))

\* The clocks of the endpoints in S advance.  Under Prompt they advance
\* together and only once both endpoints have caught up.
Clocks == IF Prompt THEN {EP} ELSE {{Pendant}, {Host}}

Tick(S) ==
    /\ Prompt => \A e \in EP : Settled(e)
    /\ rxAge' = [e \in EP |-> IF e \in S THEN Older(rxAge[e], LinkLost) ELSE rxAge[e]]
    /\ txAge' = [e \in EP |-> IF e \in S THEN Older(txAge[e], Heartbeat) ELSE txAge[e]]
    /\ out' = IF Pendant \in S /\ out # NoPkt
              THEN [out EXCEPT !.age = Older(@, AckTimeout)] ELSE out
    /\ lease' = IF Host \in S /\ lease > 0 THEN lease - 1 ELSE lease
    /\ quiet' = IF Prompt /\ pIntent = NoSeq THEN Older(quiet, Lease + 1) ELSE 0
    /\ UNCHANGED <<chan, sessionVars, link, reading, nextSeq, pIntent, lastAcc,
                   motion, hIntent, faults, sent, log, delivered, granted, peers>>

Fault == faults < MaxFaults /\ faults' = faults + 1

\* The next frame never arrives, or its damage leaves nothing to answer.
LoseFrame(e) ==
    /\ Fault
    /\ chan[e] # <<>>
    /\ Take(e)
    /\ UNCHANGED <<sessionVars, rxAge, txAge, link, reading, senderVars, lastAcc,
                   motionVars, historyVars>>

\* FrameParser rejects a damaged DATA frame whose header is still readable;
\* poll() answers NAK, without refreshing the link, and does so before it turns
\* to the good frames that came in the same chunk.
RejectDamaged(i) ==
    /\ Fault
    /\ ~LeaseExpired
    /\ LET f == chan[Host][i]
       IN  /\ f.type = "DATA" /\ MatchesActive(Host, f)
           /\ chan' = [chan EXCEPT
                 ![Host] = Without(@, i),
                 ![Pendant] = Push(@, Frame("NAK", local[Host], remote[Host], f.seq))]
    /\ Written(Host)
    /\ InPoll(Host)
    /\ UNCHANGED <<sessionVars, rxAge, link, senderVars, lastAcc, motionVars, historyVars>>

\* A reboot builds a new ReliableSession; bytes already on the wire survive.
Reboot(e) ==
    /\ Fault
    /\ ForgetSession(e)
    /\ nextSeq' = IF e = Pendant THEN 0 ELSE nextSeq
    /\ rxAge' = [rxAge EXCEPT ![e] = 0]
    /\ txAge' = [txAge EXCEPT ![e] = Heartbeat]
    /\ link' = [link EXCEPT ![e] = "DISCONNECTED"]
    /\ reading' = [reading EXCEPT ![e] = FALSE]
    /\ UNCHANGED <<chan, historyVars>>

----------------------------------------------------------------------------

Receive(e) ==
    \/ RejectOldSession(e)
    \/ RecvHeartbeat(e)
    \/ e = Pendant /\ (RecvChallenge \/ RecvAck \/ RecvNak)
    \/ e = Host /\ \/ RefuseInit \/ RepeatChallenge \/ AcceptInit \/ RecvConfirm
                   \/ RecvDuplicate \/ RecvCommand \/ RecvStart \/ RecvRenew \/ RecvStop

Sends == SendCommand \/ SendStart \/ SendRenew \/ SendStop

Next ==
    \/ \E e \in EP : Receive(e)
    \/ \E e \in EP : PollTail(e)
    \/ ExpireLease
    \/ AbortMotion
    \/ Sends
    \/ \E S \in Clocks : Tick(S)
    \/ \E e \in EP : LoseFrame(e)
    \/ \E i \in DOMAIN chan[Host] : RejectDamaged(i)
    \/ \E e \in EP : Reboot(e)

Spec == Init /\ [][Next]_vars

\* Both endpoints are scheduled: they poll, they drain what they read, a lease
\* check is part of every poll, and the clocks advance.
Fairness ==
    /\ \A e \in EP : WF_vars(Receive(e)) /\ WF_vars(PollTail(e))
    /\ WF_vars(ExpireLease)
    /\ \A S \in Clocks : WF_vars(Tick(S))

FairSpec == Spec /\ Fairness

----------------------------------------------------------------------------
(* What the link guarantees. *)

\* The pendant and the host are established on the same pair of nonces.
Linked ==
    /\ est[Pendant] /\ est[Host]
    /\ remote[Pendant] = local[Host] /\ remote[Host] = local[Pendant]

\* An established host that names the pendant's present generation is named
\* back by it: nothing that CONFIRM carries can be half true
\* (_receive_handshake, _matches_active).
PairAgreement == est[Host] /\ remote[Host] = local[Pendant] => Linked

\* Motion is authorised only inside an established session and for a START
\* this host accepted (_receive_motion, _lose_session, _reset_generation).
MotionNeedsSession ==
    motion => est[Host] /\ hIntent # NoSeq /\ \E i \in DOMAIN log : log[i] = granted

\* "The receiver dispatches a reliable command once": what the host accepted,
\* over all sessions, is in the order of the pendant's sends and never twice
\* (_receive's duplicate test, _lose_session, stop-and-wait in send).
OnceInOrder == \A i, j \in DOMAIN log : i < j => log[i] < log[j]

\* An ACK the pendant takes is for the packet it has outstanding, not for one
\* of the same number in another session or before a wrap.
AckedWasAccepted == \A k \in delivered : \E i \in DOMAIN log : log[i] = k

\* Half-range arithmetic never errs: a packet of the active pair is judged a
\* duplicate exactly when the host has accepted it before (_is_new).
DuplicatesExact ==
    \A i \in DOMAIN chan[Host] :
        LET f == chan[Host][i]
        IN  f.type = "DATA" /\ MatchesActive(Host, f)
            => (Duplicate(f) <=> \E j \in DOMAIN log : log[j] = f.id)

\* Once the pendant's motion packets are settled, the host moves for no intent
\* but the pendant's; a delivered STOP leaves no motion behind.
IntentAgreement == Linked /\ out = NoPkt /\ motion => hIntent = pIntent

\* A replacement connection shares no nonce with an earlier one: what is left
\* of an old handshake cannot establish (rotate_local, _lose_session).
FreshPair == [][~est[Pendant] /\ est'[Pendant] => remote'[Pendant] \notin peers]_vars

\* The link implements the motion authority PROTOCOL.md promises.
Authority == INSTANCE MotionAuthority WITH
    Starts <- 1..MaxSends,
    holder <- IF motion THEN granted ELSE 0, newest <- granted, left <- lease

MotionIsAuthorised == Authority!Spec

\* When both endpoints poll promptly, motion ends within the lease once the
\* pendant has stopped, lost its session or rebooted, STOP delivered or not.
BoundedStop == quiet > Lease => ~motion

\* The packets whose answer the pendant no longer waits for and never took.
Abandoned == (1..sent) \ (delivered \cup (IF out = NoPkt THEN {} ELSE {out.pkt.id}))

\* When both endpoints poll promptly, no session is given up without a cause of
\* its own: a fault, or a packet given up for good.  Sessions end for silence
\* or for exhausted retries only when something went wrong (_update_link, _retry).
LossHasCause == Prompt => \A e \in EP : local[e] <= 1 + faults + Cardinality(Abandoned)

\* Faults over, the endpoints get onto one pair and stay there.
LinkRecovers == <>[]Linked

\* A reliable send is answered or its session is given up; it never hangs.
SendResolves == out # NoPkt ~> out = NoPkt

\* Expired authority is really taken away.
AuthorityExpires == Authority!FairSpec
============================================================================
