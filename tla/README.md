# The MPG pendant and its companion host: a TLA+ verification project

The repository is a handheld manual-pulse-generator pendant for CNC machines
(CircuitPython, `src/`), and a companion host endpoint (`host_bridge/`) that
joins it to a GRBL controller. The pendant either drives GRBL directly over a
UART, or speaks Protocol v1 to the host, or talks to an ESP32-C3 over ESP-NOW.

Motion is what makes this code hard. A jog is started by a person turning a
wheel, it is carried by frames that can be lost, and it must end when the
person lets go, when either side reboots and when the line goes dead. Everything
below serves that question first.

## 1. Inventory

| Component | State | Operations | Talks to |
|---|---|---|---|
| Frame codec: `encode`, `crc16`, `FrameParser` (`src/transport/protocol.py`) | receive buffer, rejected headers | `feed`, `_reject`, `_recover` | called by the session for every chunk |
| `ReliableSession` (same file) | nonce pair, established, outstanding packet with age and retries, last accepted sequence, link state, motion lease | `send*`, `poll` (receive, retry, heartbeat, link health), `abort_motion` | peer session through a transport; owner through callbacks |
| `HostBridge`, `GrblAdapter` (`host_bridge/`) | active jog, pending flag, cancel flags, reported mode, ages | `poll`, `start_jog`, `renew_jog`, `stop_jog`, `command` | session above it, serial line below it |
| `BridgeController` (`src/controller/bridge.py`) | jog intent, pending stop, command queue, age of the last STATUS | `queue_*`, `realtime`, `cancel_jog`, `poll` | session; the application |
| `GRBLController` (`src/controller/grbl.py`) | queue, awaited response, parsed state | `queue_*`, `realtime`, `cancel_jog`, `poll` | UART; observers (dispatcher, streamer) |
| Safety policy, `Watchdog`, `ActionDispatcher`, `PendantState` | E-stop latch, dead-man, alarm, last responses | `require_*`, `observe_estop`, `poll`, `dispatch` | application, controller |
| `GCodeStreamer`, macros, SD storage | open job, awaiting, job state | `start`, `pause`, `resume`, `cancel`, `inhibit`, `poll` | controller queue and its events |
| `PendantApplication` (`src/app.py`) | owns all of the above | `poll`, `handle_ui_event`, `observe_estop` | everything on the pendant |
| `UIManager`, `TextEntry` (`src/display/`) | screen stack, focus, overlay, confirmation, text purpose | one handler per event | application |
| Input decoding (`src/input/`) | quadrature state, debounce timers, selector positions | `update`, `poll` | application |
| C3 wireless controller, jog lease, pairing bench | pending sequence, stop retry, owner and lease, peer | `send_*`, `poll`, `admit`, `tick`, `revoke` | ESP-NOW radio, GRBL behind the C3 |
| `WiFiService`, setup portal, credential store (`src/network.py`) | network state, setup AP, portal, retry count | `start`, `poll`, `connect`, `disconnect`, `scan` | radio, UI, file system |
| Displays, hardware profiles, configuration, deployment | none that outlives a call | rendering, pin tables, file copying | devices |

How they interact. The pendant and the host are each one cooperative loop, with
no threads and no interrupts. Inside a loop a component calls another
synchronously, through callbacks (`on_motion_stop`, `on_motion_renew`, the
dispatch handler, controller observers). Concurrency is between the loops, the
wires and the controller firmware: any number of steps of one may fall between
two of another.

What is hard, and what would make each component correct:

* **ReliableSession**: two private clocks and a lossy wire. Both ends must agree
  on the pair of nonces; packets are executed once and in order; an
  acknowledgement is for the packet it is taken for; motion exists only under an
  unexpired lease of the newest START; a broken link comes back.
* **GrblAdapter**: a serial line that can fail between any two writes and a
  controller that answers late. Every segment written gets its cancel; no intent
  survives the authority it was started under; at most one segment unanswered.
* **BridgeController, GRBLController and the application**: an E-stop or a
  released dead-man must reach the wire ahead of everything queued, and no
  motion queued before may follow it; an answer is taken for the command it answers.
* **GCodeStreamer**: at most one line in flight, none after the job is complete or
  cancelled.
* **C3 wireless**: a STOP is retried until answered; a revoked session's packets
  are not admitted again.
* **WiFiService**: the setup AP runs beside a station only where the radio refuses
  to stop one, reconnection ends, one failure of the power or the card does not lose
  the credentials.
* **UIManager**: what a gesture does follows from what the screen shows; the
  wheel moves the machine on HOME only; navigation never raises, since an
  exception ends the pendant's only loop.

`PROJECT.json` lists every hazard found, at its line, with the property that
covers it or the reason none does yet.

## 2. Modules

| Module | Models | Status |
|---|---|---|
| `MotionAuthority` | abstract: authority to move is granted by a START newer than all before it, extended only while it is held, and revoked | done |
| `ReliableLink` | two `ReliableSession`s, their channels, clocks and reboots | done, see "Left out" |
| `ReliableLinkProofs` | type correctness and two invariants of the link | done |
| `ReliableLinkDelivery` | on top of these: order and once-only acceptance, duplicates, intents, refinement, bounded stop, fresh pairs, no loss without a cause | done |
| `GrblHost` | `HostBridge.poll`, `GrblAdapter`, the serial line, GRBL | done |
| `GrblHostProofs` | type correctness, two invariants and an action property of the adapter | done |
| `PendantCore` | `PendantApplication.poll` with inputs, dispatcher, safety, `GRBLController`, streamer, macros, watchdog, and GRBL | done |
| `PendantCoreProofs` | types, queued jogs, answers, job lines, silence in E-stop | done |
| `PendantUI` | `UIManager`, the SELECT button, what navigates in `handle_ui_event` | done |
| `PendantUIProofs` | types, navigation, owner of the wheel, presses, confirmed commands | done |
| `PendantBridge` | application and `BridgeController`, their session, the companion's lease | done |
| `PendantBridgeProofs` | types, ownership of motion, order of commands | done |
| `C3Wireless` | application and `C3WirelessController`, pairing, radio, `JogLease` | done |
| `C3WirelessProofs` | types, accepted jogs were admitted, cancelled jogs are over | done |
| `WiFiSetup` | `WiFiService`, setup AP, portal, credential file, power failures | done |
| `WiFiSetupProofs` | types, isolation of the setup AP, survival of credentials | done |

How they fit. `ReliableLink` is the session both `GrblHost` and `PendantBridge`
stand on: the first takes from it the calls a session makes into its owner, the
second one packet at a time, accepted once, sessions lost at either end.
`PendantCore`, `PendantBridge` and `C3Wireless` are the same application over its
three controllers; the program builds exactly one of them. `PendantUI` is what
the UI events of all three come from, `WiFiSetup` is served by the same loop and
shares no state with motion.

### ReliableLink

One variable per field of the two sessions, indexed by endpoint where both have
it; `next_sequence`, `outstanding` and the sent intent belong to the pendant,
`last_accepted_sequence` and the motion lease to the host, because only the
pendant sends reliable packets. A `poll()` is a run of `Receive` steps closed by
`PollTail`; the code reads its clock and checks the lease again before each
packet, so time may pass between those steps. `LeaseChecked` says that no other
step of the host's poll is taken while an expired lease is still held. Sends
fall between polls. Deadlines and time stamps are ages, capped where the code no
longer tells them apart.

The payload is reduced to the intent number of RENEW and STOP. The handler's
verdict is a free choice. `AbortMotion` is `HostBridge.poll` finding its adapter
broken. `sent`, `log`, `delivered`, `granted`, `peers` and `quiet` are history
variables: no guard of the protocol reads them.

The wire loses frames, damages them (`RejectDamaged`: the header survives, the
session answers NAK before it turns to the good frames that came in the same
chunk), keeps what was sent before a reboot, and overruns at `MaxChan`. It does
not reorder or duplicate: it is a serial line. Retransmissions duplicate.

Left out: the host's unreliable STATUS packets (they refresh the link like any
other packet and use sequence numbers of the host's own); a transport that
reports itself disconnected, which the UART transport does only after `close`;
frames with a version or type the parser refuses.

### GrblHost

`phase` is where the host's loop stands: before `adapter.poll`, before its status
query, reading lines, in `session.poll`. The session is one Boolean, its
`motion_active`, and its calls into the adapter: `Start`, `Renew`, `Revoke`,
`Command`. The controller is external: real-time bytes act on arrival, lines wait
until it parses them, and it may refuse, alarm or finish at any time. `Unplug`
and `Replug` are `transport.connected`, `Fault` a write that raises or is short.
A short write is taken to leave nothing on the wire.

The adapter compares times of events of one iteration with times of the next.
The model assumes that the clock advances from one iteration to the next
(`time.monotonic` does on the hosts this is meant for), which is all
`cancelBefore` stands for.

### PendantCore

`stage` walks through one `poll()`: sample the controls, handle UI events, begin
`controller.poll`, read lines, send the next one, one streamer step, one watchdog
step. `in` is the last sample, `st` the part of `PendantState` that is read back,
`queue` the controller's queue with each line reduced to its kind (a jog to its
axis), `job` the open file as a number of lines. Times are "never", "now" (this
poll) and "past": a time-out may fire once its time is past. GRBL owes one answer
for each line it has read, in order, and may reset, alarm or report any state.

A `SafetyError` is caught by `poll()` and changes nothing. Any other exception
(`Raise`) leaves `poll()`, and `code.py` then sleeps for ever: `stage` is "halted".

### PendantUI

The stack of screens, the open confirmation with the screen it was opened on, the
purpose of the text being typed, and `mirror`, the copy of `handwheel_mode` that
the safety policy reads. `shared` changes at any time and reaches the mirror only
at the next `refresh_context`. The SELECT button bounces; its debouncer runs poll
by poll. Focus is a choice among the items, as rotation reaches each of them.
`conf.turned` and `button.given` are history.

### PendantBridge

The application's round in front of `BridgeController.poll`, with `session.out`
the reliable packet outstanding and `accepted` whether the companion has executed
it. The companion accepts a packet once, or refuses it. A session may be lost on
either side at any moment, with its packet; a new one begins only when the
companion has dropped its motion, which is `MotionNeedsSession` and `PairAgreement`
of `ReliableLink`. `host.left` is the lease that remains, in ticks.

### C3Wireless

`stage` as above for `C3WirelessController.poll`: read packets, consume their
events, timers, online test. Each bridge has a `JogLease` and a channel each way
that loses, repeats the packet at its head, and keeps order. `stop` is the pending
STOP with its number, attempts and whether it ever had a send time. `cancelled`,
`admitted` and `bridges` are history.

### WiFiSetup

`net` is the service and the radio together, so that `station` and `ap` are what
really runs and `state` what the service believes. Both are "down", "up" or "kept":
up although the radio was told to stop it, because `start_setup_ap` and `_stop_ap`
ignore a refusal and go on (`Told`, `StopStation`, `StopAp`). Starting an AP may fail
before or after it runs; an association may fail with or without ending the present
one; a portal may join, fail or raise. `Start` takes the network its caller gives when
none is saved: the configuration's at boot, none when the UI switches the radio on.

`CredentialStore.save` is four steps (`Truncate`, `Write`, `Replace` or `Swap`,
`Rename`). The card may refuse each of them, the second rename after the old file is
gone included, and the program goes on (`CannotWrite`, `Rename`); `Crash` may come
before each, and then only `card` is left and the program boots again. `load` reads
`wifi.json` only, and takes a file cut short for none (`Loaded`). `faults` is history: it
counts power failures and refusals that end a save, up to two. `DisconnectRaises`,
`PortalRaises` and `Expire` are the exceptions that leave `app.poll`.

## 3. What the runs check

All runs use their module directly; the cfg gives the constants.

| Run | Question | Properties |
|---|---|---|
| `link_sessions` | sessions lost by silence and by exhausted retries, renegotiated, with free clocks (one endpoint may be arbitrarily slow) | `MotionNeedsSession`, `IntentAgreement`, `FreshPair`, `MotionIsAuthorised` |
| `link_faults` | any one loss, damage or reboot at any moment, with free clocks | `PairAgreement`, `OnceInOrder`, `AckedWasAccepted` |
| `link_wrap` | five packets with four sequence numbers in one session, two faults | `TypeOK`, `DuplicatesExact` |
| `link_prompt` | both endpoints poll at least once a tick, two faults | `BoundedStop`, `LossHasCause`, `LinkRecovers`, `SendResolves`, `AuthorityExpires` |
| `host_adapter` | two starts, a command and two failures in any interleaving with the controller | `TypeOK`, `JogNeedsAuthority`, `JogHasCancel`, `RevocationCancels`, `CancelIsSent` |
| `pendant` | jogs, actions, a macro and a job against a GRBL that resets, alarms, answers late; 4.2 million states | `TypeOK`, `QueuedJogAuthorised`, `EstopSilences`, `AnswersMatch`, `JobLineByLine` |
| `ui` | every gesture on every screen, stack limit 8 as in the code; 115 thousand states | `TypeOK`, `NavigationAlive`, `MotionOwner`, `OnePressOneEvent`, `ConfirmedCommand` |
| `bridge` | two intents, a queue of two, a lease of two ticks, sessions lost at will; 173 thousand states | `TypeOK`, `MotionHasOwner`, `CommandsFindNoMotion`, `ReleaseStopsMotion` |
| `c3` | three sequence numbers, two STOP attempts, losses and repetitions without limit; 1.8 million states | `TypeOK`, `CancelledJogIsOver`, `AcceptedWasAdmitted` |
| `wifi` | two networks, three attempts, refusals and power failures without limit; 786 thousand states | `TypeOK`, `ApIsolated`, `CredentialsSurvive`, `ReconnectionEnds` |
| `poll_cancels_jog` | finding 1 | `PollKeepsJog`, violated |
| `two_unacknowledged` | finding 2 | `OneUnacknowledged`, violated |

`MotionIsAuthorised` is the refinement of `MotionAuthority` (safety),
`AuthorityExpires` the same with its fairness: expired authority is taken away.

**Bounds.** Two endpoints are the whole system. In the first three runs time-outs
are one tick and clocks are free, so every order of time-out and message is
there whatever the real ratios; what bounds them is the number of packets and of
nonces. Two packets are enough for a START with its STOP or renewal, a packet
and its successor, and a packet of an old session against one of a new one. A
nonce bound stops an endpoint that would draw one more, which cuts those runs
short; `link_prompt` therefore leaves room for eight, and never reaches the
bound, so its liveness properties do not rest on it. There the time-outs keep
the order of the real ones (acknowledgement 150 ms, lease 300 ms, heartbeat
500 ms, loss 2000 ms) with a lease of 2 ticks against 1, 2 and 5. Four sequence
numbers are the smallest space with a half-range. In `host_adapter` a tick passes
only with empty wires (`MaxWire`), and all time-outs are one tick: the code
compares each with its own age only. Two failures are needed for a cancel that
fails and is retried on a line that fails again.

`pendant` has a queue of two so that it fills within a job or a macro of two
lines, and one axis against OFF, which is a selector change. GRBL may owe two
answers (`MaxOwed`): a reset or an alarm makes the pendant forget one that is still to
come, and it comes while the pendant waits for that of the next line. It reports Idle
or Run; Jog differs from Idle only in that it refuses what Run refuses too, and sets
`jog_active`, which a detent sets as well. In `ui`
a debounce of two polls and a long press of three keep their order; the stack
limit is the real one. In `c3` three numbers are a jog, the STOP that cancels it
and a jog or retry after it; the radio accepts no more, and from then on each send
fails, which the code handles. The event list of one overflows whenever two packets
arrive between consumptions. There is one
bridge in the run: with a second one paired in between a STOP goes to the wrong
bridge, which `CancelledJogIsOver` excludes in words and the hazards name;
`AcceptedWasAdmitted` is proved for any number. In `wifi` the attempts are the
code's three, and the second network is the one the user changes to; the count of
faults stops at two because no claim is made beyond one. In `bridge` a queue of two overflows and a lease of two ticks outlives one round.

Deadlock is checked except in `pendant` and `wifi`, where the program really stops:
"halted".

**Fairness.** `ReliableLink`: both owners call `poll` in an endless loop, a poll
drains what it can read and always reaches its tail, and clocks advance. Sends,
faults and reboots are not fair. `Prompt` adds that a tick does not pass while an
endpoint has work: it is the claim of both main loops, which poll every few
milliseconds against time-outs of 150 ms and more. `BoundedStop`, `LossHasCause`
and the liveness properties are claimed under it; safety of the other runs is
not. `GrblHost`: the host's loop runs, the controller drains its input, time
passes. No write is assumed to succeed: failures are bounded by `MaxFaults`.
`PendantBridge`: the pendant's loop and the companion's clock go on; no packet is
assumed to arrive and no session to hold, so it is the lease that makes
`ReleaseStopsMotion` true when the link does not. `WiFiSetup`: the rounds of the
loop go on and the reconnection interval passes; no association is assumed to
succeed, and a program that an exception has ended reconnects no more, which
`ReconnectionEnds` says. Where a stage handles any number of events or packets, leaving it is
strongly fair: one round takes what has arrived, which is finite.

## 4. Findings

1. **The first poll after a START cancels the jog.** `GrblAdapter.poll`
   (`host_bridge/adapters.py:210`) calls `stop_jog` whenever a cancel is pending
   and not sent. That is meant for a cancel that failed, and is true from the
   moment a segment is written. The host's loop polls the adapter before the
   session, so no renewal ever admits a second segment, and the segment under way
   is cancelled in the next iteration. `tests/test_host_bridge.py` expects the
   opposite at lines 200 and 246; run by hand, both assertions fail. The failure
   is on the side of stopping. Run `poll_cancels_jog`.
2. **A second `$J=` can be written while the first is unanswered.** `stop_jog`
   forgets the pending acknowledgement, and any Idle report read after the cancel
   was written counts as its confirmation, one made before the controller read
   the cancel included. `docs/HOST-BRIDGE.md:35` permits only one. Run
   `two_unacknowledged`.

A consequence of the first finding: the waits in `renew_jog` (`AckWait`,
`IdleWait` with their time-outs, and the second segment) are reached only by a
renewal read in the same session poll as its START. The model keeps them.

Other places where code and intent differ are actions of the models, with a hazard
in `PROJECT.json` at their line and no run of their own:

* `app.poll` catches `SafetyError` only. Starting a job over an open one, a macro
  longer than the free queue and a job file that is gone each raise something else and
  end the loop (`Raise` in `PendantCore`).
* The network ends it too, where `README.md:160` says "Network failure does not stop the
  local UI, inputs, serial controller, or job runtime": a portal client slower than
  0.1 s (`PortalRaises`); a failed connection from the UI while the fallback AP is up,
  after which `poll` computes `now - None` (`Expire`); a radio that refuses the UI's
  disconnection (`DisconnectRaises`). `WiFiSetup` then goes to "halted" as the program does.
* A communication time-out keeps the queued jogs; `docs/PRODUCT-SPEC.md:58` asks to
  cancel them (`CommunicationTimeout`).
* The streamer takes a line from the file before it knows that the queue has room,
  and ends a job without taking its line back (`StreamLine`, `StreamTimeout`).
* An E-stop leaves queued actions and macro lines, and in bridge mode a queued
  RESUME, to be sent later (`InhibitQueue`, `Resume`).
* A STOP whose first send over ESP-NOW fails is never sent again (`SendStop`,
  `RetryStop`).
* `handwheel_mode` compares with "ESTOP" where the overlay is named "E-STOP" (`Mode`);
  the password for a manual SSID goes to the network selected before (not modelled).
* Between removing and renaming the credential file a power failure leaves the
  credentials where `load` does not look (`Swap`). So does a card that refuses the
  second rename, and then the next save begins by truncating the only copy (`Rename`).
* A refusal of `stop_station` or `stop_ap` is ignored, and the open setup network then
  runs beside a station (`Told`).

## 5. What is proved

`ReliableLinkProofs` proves, for every value of the constants that
`LinkConstants` allows:

* `TypeCorrect`: `Spec => []TypeOK`, by one lemma per group of actions.
* `MotionInSession`: `Spec => []MotionNeedsSession`. It is inductive with
  `TypeOK`: every action that ends the session also stops motion, and `log` only
  grows.
* `PairsAgree`: `Spec => []PairAgreement`. It is not inductive by itself: the host
  establishes on a CONFIRM, so what such frames say has to be known while they
  travel. The strengthening `PairInv` adds that every CONFIRM in the host's
  channel, and an established host, name a pair of which the pendant's half is
  either the pendant's present one or one it has left for good; nonces only grow,
  which is why rotating them matters.

`ReliableLinkDelivery` proves, from those three and the same assumptions, what the
protocol is for:

* `AcceptsOnceInOrder`, `AcksAreTrue`, `DuplicatesAreExact`: the host accepts no send
  twice and none out of order, an acknowledged packet was accepted, and the half-range
  comparison is right for every modulus and any number of wraps. None of the three is
  inductive. `DeliveryInv` orders what is in flight:
  * `PacketInv`: a packet of the pendant's present generation is the latest one sent or
    the one before it, because the pendant stops and waits (`OfPendant`); an accepted
    packet of the host's present pair carries exactly the number accepted last
    (`OldForHost`), and one not accepted carries its successor (`NewForHost`); nothing
    newer than a packet on the wire has been accepted (`NoneLater`).
  * `SameInv`, `OrderedInv`: copies are exact, and packets travel in the order of the
    sends, which a serial line gives and an unordered radio would not.
  * `OutInv`, `IdleInv`, `LogInv`: the outstanding packet is the last send, with none
    outstanding both ends agree on the number to come, accepted is a subset of sent.
  * `AckInv`: an ACK for the present generation answers the latest packet or is a late
    copy of the answer before, in that order.
  `PairAgreement` is what makes it close: a packet that matches the host's pair is of the
  pendant's present generation or of one that is over. `StepKinds` says that every step of
  the link keeps or drops what is in flight (`Calm`), sends one packet (`Sent`), takes one
  ACK (`Answered`) or accepts one packet (`Accepting`), so the invariant is proved for
  four kinds of step instead of some twenty actions.
* `IntentsAgree`: `IntentInv` adds what the outstanding packet says of the pendant's
  intent, and that the host moves for this intent until a START or STOP changes it.
* `LinkImplementsAuthority`: `Spec => MotionIsAuthorised`, the refinement of
  `MotionAuthority`, step by step. A START accepted is newer than all granted before
  because acceptance is in order; a RENEW extends only while motion is on; everything
  else maps to `Elapse`, `Revoke` or a stutter. Its fairness (`AuthorityExpires`) is TLC's.
* `StopIsBounded`: `QuietInv`, with `IntentInv`, says that the lease left and the time
  without an intent add up to no more than one lease. `Prompt` is used once: when the
  clock advances nothing is left on the wire, so no old RENEW arrives after the tick.
  `Prompt` is a constant; the property says nothing when it is FALSE, because then
  `quiet` stays 0.
* `PairsAreFresh`: `FreshInv` follows a nonce of the host from the reset that draws it to
  the CHALLENGE that offers it: a CHALLENGE the pendant could still take offers one it
  never had.
* `LossesHaveCauses`: `Spec => []LossHasCause`, when a heartbeat is due before silence
  counts as a loss (500 ms against 2000 ms in the code) and the wire can carry a frame.
  The runs with one-tick time-outs do not have the first, so it is a hypothesis of the
  theorem and no assumption of the module. Each endpoint draws at most one nonce more
  than there are faults and packets given up. That is not inductive, because one cause
  can cost two sessions: a lost CONFIRM costs the pendant's when it hears nothing, and
  the host's nonce when it turns to the next proposal. `LossInv` keeps the account:
  * `Paid`: every generation has its cause, and so has every nonce the host may still
    draw on its way through the proposals it has recorded or will read (`Proposed`).
  * `Covered`: either there is one cause to spare (`Slack`), or the present handshake is
    undisturbed (`Greeting`: one proposal or one offer, with nothing behind it), or the
    present session is (`Linking`). A fault, or a packet given up, makes `Slack`; losing a
    session uses it up and leaves an undisturbed handshake of the next generation.
  * `Linking` says why an undisturbed session never goes silent: each channel holds at
    most one packet or answer and one CONFIRM or heartbeat (`Line`), the latter sent in the
    present tick, and one end's silence exceeds the other's age of sending only while a
    frame is on its way (`Punctual`). A tick passes with empty channels (`Prompt`),
    so silence is at most one heartbeat interval.
  * `OriginInv`, `TokenInv`: who sent what is on its way to the host, and that a generation
    has one proposal or one offer in flight at a time.
  Each step is shown to keep `Paid` and `Covered` by one of five lemmas about the account
  (`SteadyAccount`, `GreetingAccount`, `RenewedAccount`, `TurnedAccount`, `RebootAccount`).

`GrblHostProofs` proves of `GrblHost`, under `HostConstants`:

* `HostTypeCorrect`: `Spec => []TypeOK`.
* `IntentIsAuthorised`: `Spec => []JogNeedsAuthority`, inductive as it stands.
* `EverySegmentCancelled`: `Spec => []JogHasCancel`, inductive with `TypeOK`: a
  segment sets the flag, and the flag is cleared only by the step that appends
  the cancel behind it.
* `RevokedIsCancelled`: `Spec => RevocationCancels`. Only a dead port, a renewal turned
  down and a revocation take the authority (`AuthorityEnds`); the last two go through
  `stop_jog`, which sends the cancel unless the line is closed or the write fails.

`PendantBridgeProofs`, under `BridgeConstants`:

* `BridgeTypeCorrect`: `Spec => []TypeOK`.
* `BridgeMotionHasOwner` and `BridgeCommandsFindNoMotion`. Ownership is not inductive:
  a START may be accepted long after the pendant changed its mind. `MotionInv` adds
  that the companion moves only in a session the pendant knows of (`NothingWhileDown`,
  `MotionIsKnown`), that a START under way or accepted is wanted or has a STOP owed
  behind it (`MotionIsWanted`, `StartIsKnown`), that an accepted STOP has ended the
  motion (`StopIsDone`), and that a queued command travels only with no motion known
  (`CommandAlone`). The last gives the action property.

`WiFiSetupProofs`, under `WiFiConstants`, from one invariant of the service, the card
and the count:

* `WiFiTypeCorrect`, `WiFiApIsolated`: `Isolated` says that a station and an AP are up
  together only if one of them is kept, and a portal has no station but a kept one.
  Every result of `StopAp`, `SetupAp`, `Failed`, `Joined`, `FallBack` and `Start` has it,
  whatever the radio refuses (`StopApGood` to `StartGood`): each starts the one only
  after telling the other to stop.
* `WiFiCredentialsSurvive`: `CardInv` says, for each step of a save, which of the two
  files is whole as long as there was no failure, and that one of them is after a single
  one. A save that is refused counts as one (`StruckFacts`), so nothing is assumed of
  the card.

`C3WirelessProofs`, under `C3Constants`, for any set of bridges:

* `C3TypeCorrect`: the event list never exceeds its limit.
* `C3AcceptedWasAdmitted`: every acceptance in a channel or in the event list is
  backed by an admission (`BackedAnswers`, `BackedEvents`), and every other way to
  drop a pending jog ends the jogging (`AgainIsQuiet` for the second cancel of an
  E-stop).
* `C3CancelledJogIsOver`. Nothing about STOPs is inductive until the channels are
  ordered by number: `Sent` says that all numbers are below `seq` and that behind a
  STOP only newer jogs travel. Then an acknowledged STOP is one its bridge has
  passed for good (`Acknowledged`, `EventsAcknowledged`), and while a STOP is owed no
  jog as new as it is sent (`NoJogSinceStop`); together, when the answer is taken, no
  jog is left at all. `Strangers` is why the property is about one bridge: another
  one has no jog only until the pendant pairs with it.

`PendantCoreProofs`, under `PendantConstants`, from one invariant, `TypeOK /\
JogsAuthorised /\ AnswersInOrder /\ StreamSilent /\ LinesCovered`:

* `CoreTypeCorrect`, `CoreQueuedJogAuthorised`, `CoreAnswersMatch`, `CoreJobLineByLine`
  and the action property `CoreEstopSilences`.
* `JogsAuthorised` and `AnswersInOrder` are the properties themselves, position by
  position; the second needs no more because every line is appended behind what GRBL
  owes and only a line sent is awaited. `LinesCovered`: a job that waits for nothing, or
  is complete (`Settled`), has no line anywhere; any other has one in the queue or one
  unanswered, and not both. `StreamSilent`: neither an E-stop nor a cancelled,
  inhibited or alarmed job leaves a line in the queue, which is also what
  `EstopSilences` needs of the step after it.
* All rest on what `Discard` leaves of a queue: elements that were there, in no
  greater number, and none of the discarded kinds (`DiscardFacts`). That is an
  induction over the positions of the queue; `Positions` does it for this one function,
  from the least position a claim fails at.

`PendantUIProofs`, under `UIConstants`, from `StackInv /\ TextInv /\ SharedType /\ GoodButton`:

* `UITypeCorrect`, `UIMotionOwner`, `UIOnePressOneEvent`, `UIConfirmedCommand`.
* `UINavigationAlive` assumes `MaxStack >= 6`; the code has 8. `StackInv` bounds the
  depth of each screen by the menus it is entered from (`Depth`), six at most, so
  `enter` never raises; HOME is at the bottom only and text entry on top only.
  `GoodButton` says that a press held and not yet reported long has given nothing.

Only model-checked: the liveness properties `LinkRecovers`, `SendResolves`,
`AuthorityExpires`, `CancelIsSent`, `ReleaseStopsMotion` and `ReconnectionEnds`
(temporal logic under fairness is out of the prover's reach). Every safety invariant and
every action property of the runs is proved, except the two of section 4, which are
expected violations.

## 6. Not modelled, and what is left

Not modelled: the bytes of the two frame formats and of GRBL lines (their effect,
a packet lost or a line of some kind, is an input of the models); positions,
feeds and overrides; quadrature counting and expander access; the status-only C3
controller and the bench transports, which carry no motion; mDNS, scan results
and HTTP text; drawing, pin tables, settings and deployment, which are I/O.

Left to prove: what the companion's lease promises in `PendantBridge` between two
packets, as a bound like `BoundedStop` instead of the fair `ReleaseStopsMotion`.
