------------------------------- MODULE WiFiSetup -------------------------------
(***************************************************************************)
(* The pendant's Wi-Fi: WiFiService with its setup access point, portal    *)
(* and CredentialStore, driven by PendantApplication.                      *)
(*                                                                         *)
(* One round of the application is network_service.poll, in stages "boot", *)
(* "lost", "retry", "portal" and "expiry", and then "events", the network  *)
(* commands of the UI.  Credentials are saved in steps; the card may refuse*)
(* any of them and the power may fail before any: what was on the card is  *)
(* all that is left.  What leaves poll() as an exception ends the          *)
(* application: "halted".                                                  *)
(*                                                                         *)
(* The radio is external: an association may fail, a link may drop, an     *)
(* access point or its portal may refuse to start, and a station or an     *)
(* access point to stop.  Times are left out: "due" says that the          *)
(* reconnection interval is over, and a setup access point may be found    *)
(* too old in any round.                                                   *)
(***************************************************************************)
EXTENDS Naturals

CONSTANTS
    Networks,       \* networks a user can name
    Configured,     \* wifi_ssid of the configuration, "none" if empty
    Attempts        \* reconnect_attempts (3 in the code)

ASSUME WiFiConstants ==
    /\ {"none", "torn"} \cap Networks = {}
    /\ Configured \in Networks \cup {"none"}
    /\ Attempts \in Nat \ {0}

VARIABLES
    stage,          \* what the application does next
    net,            \* WiFiService and the radio
    retry,          \* _reconnect_count and whether _next_reconnect has come
    inAp,           \* poll() began in AP_SETUP
    saving,         \* the network being saved, and the stage that follows
    card,           \* wifi.json and wifi.json.tmp
    scanning,       \* a scan is under way
    faults,         \* history: power failures and refusals of the card, 2 for more
    saved           \* history: credentials have been saved

vars == <<stage, net, retry, inAp, saving, card, scanning, faults, saved>>

States == {"DISABLED", "CONNECTING", "CONNECTED", "AP_SETUP", "RECONNECTING", "ERROR"}
Links == {"down", "up", "kept"}
Stages ==
    {"boot", "lost", "retry", "portal", "expiry", "events", "truncate", "write", "swap",
     "rename", "halted"}

-----------------------------------------------------------------------------
\* A station or access point is "down", "up", or "kept": up although the radio
\* was told to stop it, a refusal that start_setup_ap and _stop_ap ignore.
Told(link) == {"down", IF link = "down" THEN "down" ELSE "kept"}

StopStationForgotten(n) == {n}
StopStation(n) == {[n EXCEPT !.station = s] : s \in Told(n.station)}
StopAp(n) == {[n EXCEPT !.ap = a, !.portal = FALSE, !.started = FALSE] : a \in Told(n.ap)}

\* What start_setup_ap may leave: the access point refused, its portal refused
\* (an earlier one stays in _portal), or both running.
SetupAp(n, manual) ==
    UNION {LET ap == [alone EXCEPT !.ap = "up"]
           IN {[alone EXCEPT !.state = "ERROR"]}
                  \cup IF n.on
                       THEN {[ap EXCEPT !.state = "ERROR"],
                             [ap EXCEPT !.state = "AP_SETUP", !.portal = TRUE,
                                        !.started = TRUE, !.manual = manual]}
                       ELSE {} : alone \in StopStation(n)}

\* connect: the access point is given up first, whatever comes of it.  The radio
\* may refuse before it leaves its present network.  Told again to stop once the
\* station is up, the access point is down or kept as before.
Failed(n) == UNION {{m, [m EXCEPT !.station = "down"]} : m \in StopAp(n)}
Joined(n, ssid) ==
    {[m EXCEPT !.ssid = ssid, !.station = "up", !.state = "CONNECTED"] : m \in StopAp(n)}

FallBack(n) == UNION {SetupAp(m, FALSE) : m \in Failed(n)}

\* load() takes a file cut short for no credentials.
Loaded(c) == IF c.main = "torn" THEN "none" ELSE c.main

\* start: the saved network if there is one, else the one the caller gives.
Start(n, c, given) ==
    LET ssid == IF Loaded(c) = "none" THEN given ELSE Loaded(c)
    IN IF ~n.on THEN {[n EXCEPT !.state = "DISABLED"]}
       ELSE IF ssid = "none" THEN SetupAp(n, FALSE)
       ELSE {[n EXCEPT !.ssid = ssid, !.state = "CONNECTING", !.pending = TRUE]}

NotSaving == [ssid |-> "none", next |-> "events"]

Booted ==
    [state |-> "DISABLED", on |-> TRUE, station |-> "down", ap |-> "down", portal |-> FALSE,
     started |-> FALSE, manual |-> FALSE, ssid |-> "none", pending |-> FALSE]

Init ==
    /\ stage = "boot"
    /\ card = [main |-> "none", tmp |-> "none"]
    /\ net \in Start(Booted, card, Configured)
    /\ inAp = (net.state = "AP_SETUP")
    /\ retry = [count |-> 0, due |-> TRUE]
    /\ saving = NotSaving
    /\ scanning = FALSE /\ faults = 0 /\ saved = FALSE

At(s, next) == stage = s /\ stage' = next
Polling == UNCHANGED <<saving, card, scanning, faults, saved>>

-----------------------------------------------------------------------------
\* The first poll after start: the saved network, or the setup access point,
\* which _connect_saved starts and poll then starts again.
Boot ==
    /\ At("boot", "lost") /\ Polling /\ UNCHANGED <<retry, inAp>>
    /\ IF net.state = "CONNECTING" /\ net.pending
       THEN LET begun == [net EXCEPT !.pending = FALSE]
            IN \/ net' \in Joined(begun, net.ssid)
               \/ \E first \in FallBack(begun) : net' \in SetupAp(first, FALSE)
       ELSE UNCHANGED net

\* A station that has lost its network is retried at once.
CountKept == [retry EXCEPT !.due = TRUE]
CountAnew == [count |-> 0, due |-> TRUE]

NoticeLoss ==
    /\ At("lost", "retry") /\ Polling /\ UNCHANGED inAp
    /\ IF net.state = "CONNECTED" /\ net.station = "down"
       THEN net' = [net EXCEPT !.state = "RECONNECTING"] /\ retry' = CountAnew
       ELSE UNCHANGED <<net, retry>>

CountForgotten(n) == 0
CountAfter(n) == n + 1

Reconnect ==
    /\ At("retry", "portal") /\ Polling /\ UNCHANGED inAp
    /\ IF net.state = "RECONNECTING" /\ retry.due
       THEN LET count == CountAfter(retry.count)
            IN \/ net' \in Joined(net, net.ssid) /\ retry' = [count |-> 0, due |-> FALSE]
               \/ /\ retry' = [count |-> count, due |-> FALSE]
                  /\ net' \in IF count >= Attempts THEN FallBack(net) ELSE Failed(net)
       ELSE UNCHANGED <<net, retry>>

\* The portal: no client, a client that gives a network, or one whose request
\* cannot be read in time, which raises.
InPortal == inAp /\ net.state = "AP_SETUP" /\ net.portal

PortalIdle ==
    /\ At("portal", "expiry") /\ Polling /\ UNCHANGED <<net, retry, inAp>>

PortalFails ==
    /\ At("portal", "expiry") /\ Polling /\ InPortal
    /\ net' \in FallBack(net)
    /\ UNCHANGED <<retry, inAp>>

PortalJoins ==
    /\ At("portal", "truncate") /\ InPortal
    /\ \E ssid \in Networks :
           /\ net' \in Joined(net, ssid)
           /\ saving' = [ssid |-> ssid, next |-> "expiry"]
    /\ UNCHANGED <<retry, inAp, card, scanning, faults, saved>>

PortalRaises ==
    /\ At("portal", "halted") /\ Polling /\ InPortal
    /\ UNCHANGED <<net, retry, inAp>>

\* A fallback access point ends after its time-out.  When a connection from
\* the UI has failed meanwhile there is no start time to compare: TypeError.
Expire ==
    /\ stage = "expiry" /\ Polling /\ UNCHANGED <<retry, inAp>>
    /\ IF inAp /\ net.state = "AP_SETUP" /\ ~net.manual
       THEN IF net.started
            THEN /\ stage' = "events"
                 /\ net' \in {net} \cup {[m EXCEPT !.state = "ERROR"] : m \in StopAp(net)}
            ELSE stage' = "halted" /\ UNCHANGED net
       ELSE stage' = "events" /\ UNCHANGED net

-----------------------------------------------------------------------------
\* CredentialStore.save, one card operation at a time.  "swap" is the rename
\* over an existing file, which the card may refuse: then the old file goes
\* first, if the card lets it, and "rename" tries again.  A card that is full,
\* read-only or refuses the second rename ends the save; the connection stands.
Saving == UNCHANGED <<net, retry, inAp, scanning>>
SaveOver == stage' = saving.next /\ saving' = NotSaving
Struck == faults' = IF faults = 2 THEN 2 ELSE faults + 1

WritesInPlace(c) == [c EXCEPT !.main = "torn"]
WritesTemporary(c) == [c EXCEPT !.tmp = "torn"]

Truncate ==
    /\ At("truncate", "write") /\ Saving /\ UNCHANGED <<saving, faults, saved>>
    /\ card' = WritesTemporary(card)

Write ==
    /\ At("write", "swap") /\ Saving /\ UNCHANGED <<saving, faults, saved>>
    /\ card' = [card EXCEPT !.tmp = saving.ssid]

Replace == card' = [main |-> card.tmp, tmp |-> "none"] /\ saved' = TRUE

Swap ==
    /\ stage = "swap" /\ Saving /\ UNCHANGED faults
    /\ \/ Replace /\ SaveOver
       \/ /\ stage' = "rename"
          /\ card' \in {card, [card EXCEPT !.main = "none"]}
          /\ UNCHANGED <<saving, saved>>

Rename ==
    /\ stage = "rename" /\ Saving /\ SaveOver
    /\ \/ Replace /\ UNCHANGED faults
       \/ Struck /\ UNCHANGED <<card, saved>>

CannotWrite ==
    /\ stage \in {"truncate", "write"} /\ Saving /\ SaveOver /\ Struck
    /\ UNCHANGED <<card, saved>>

-----------------------------------------------------------------------------
\* The UI's network commands, and the scan poll after them.
Command == At("events", "events") /\ UNCHANGED <<retry, inAp, saving, card, faults, saved>>

NetworkScan == Command /\ scanning' = TRUE /\ UNCHANGED net
ScanDone == Command /\ scanning /\ scanning' = FALSE /\ UNCHANGED net

ConnectFails == Command /\ net' \in Failed(net) /\ UNCHANGED scanning

ConnectJoins ==
    /\ At("events", "truncate") /\ net.on
    /\ \E ssid \in Networks :
           /\ net' \in Joined(net, ssid)
           /\ saving' = [ssid |-> ssid, next |-> "events"]
    /\ UNCHANGED <<retry, inAp, card, scanning, faults, saved>>

\* The access point, if any, goes on; a radio that refuses raises.
Disconnect ==
    /\ Command /\ UNCHANGED scanning
    /\ net' = [net EXCEPT !.station = "down", !.state = "DISABLED"]

DisconnectRaises ==
    /\ At("events", "halted")
    /\ UNCHANGED <<net, retry, inAp, saving, card, scanning, faults, saved>>

StartAp == Command /\ net' \in SetupAp(net, TRUE) /\ UNCHANGED scanning

\* Switched off, a radio runs nothing; switched on, it is started without the
\* configured network.
SwitchOff ==
    /\ Command /\ net.on /\ UNCHANGED scanning
    /\ net' = [net EXCEPT !.on = FALSE, !.station = "down", !.ap = "down", !.portal = FALSE,
                          !.started = FALSE, !.state = "DISABLED"]

SwitchOn ==
    /\ Command /\ ~net.on /\ UNCHANGED scanning
    /\ LET on == [net EXCEPT !.on = TRUE]
       IN net' \in IF net.state = "DISABLED" THEN Start(on, card, "none") ELSE {on}

EndRound ==
    /\ At("events", "boot")
    /\ inAp' = (net.state = "AP_SETUP")
    /\ UNCHANGED <<net, retry, saving, card, scanning, faults, saved>>

-----------------------------------------------------------------------------
\* The world: links drop, time passes, and the power fails.
LinkDrops ==
    /\ net.station # "down" /\ net' = [net EXCEPT !.station = "down"]
    /\ UNCHANGED <<stage, retry, inAp, saving, card, scanning, faults, saved>>

IntervalOver ==
    /\ ~retry.due /\ retry' = [retry EXCEPT !.due = TRUE]
    /\ UNCHANGED <<stage, net, inAp, saving, card, scanning, faults, saved>>

Crash ==
    /\ Struck
    /\ stage' = "boot"
    /\ net' \in Start(Booted, card, Configured)
    /\ inAp' = (net'.state = "AP_SETUP")
    /\ retry' = [count |-> 0, due |-> TRUE]
    /\ saving' = NotSaving
    /\ scanning' = FALSE
    /\ UNCHANGED <<card, saved>>

Poll ==
    \/ Boot \/ NoticeLoss \/ Reconnect \/ PortalIdle \/ PortalFails \/ PortalJoins
    \/ PortalRaises \/ Expire
Save == Truncate \/ Write \/ Swap \/ Rename \/ CannotWrite
Commands ==
    \/ NetworkScan \/ ScanDone \/ ConnectFails \/ ConnectJoins \/ Disconnect
    \/ DisconnectRaises \/ StartAp \/ SwitchOff \/ SwitchOn
World == LinkDrops \/ IntervalOver \/ Crash

Next == Poll \/ Save \/ Commands \/ EndRound \/ World

\* The loop of code.py goes on, each round handles finitely many events, and
\* the clock runs.
Fairness ==
    /\ WF_vars(Poll) /\ WF_vars(Save) /\ SF_vars(EndRound) /\ WF_vars(IntervalOver)

Spec == Init /\ [][Next]_vars /\ Fairness

-----------------------------------------------------------------------------
\* Every variable keeps its type.
TypeOK ==
    /\ stage \in Stages
    /\ net \in [state : States, on : BOOLEAN, station : Links, ap : Links,
                portal : BOOLEAN, started : BOOLEAN, manual : BOOLEAN,
                ssid : Networks \cup {"none"}, pending : BOOLEAN]
    /\ retry \in [count : 0..Attempts, due : BOOLEAN]
    /\ inAp \in BOOLEAN
    /\ saving \in [ssid : Networks \cup {"none"}, next : {"events", "expiry"}]
    /\ card \in [main : Networks \cup {"none", "torn"}, tmp : Networks \cup {"none", "torn"}]
    /\ scanning \in BOOLEAN /\ faults \in 0..2 /\ saved \in BOOLEAN

\* Only a radio that refuses to stop one of them runs the open access point
\* beside a station, and the portal, which is served on the access point alone,
\* has no station beside it but one the radio refused to stop for it
\* (start_setup_ap, connect and _stop_ap, with every failure the code swallows,
\* and the UI's commands between).
ApIsolated ==
    /\ net.station # "down" /\ net.ap # "down" => "kept" \in {net.station, net.ap}
    /\ net.portal => net.ap # "down" /\ net.station # "up"

\* wifi.json is never a file cut short.  Once credentials have been saved, load()
\* finds some as long as neither the power nor the card has failed, but for the
\* moment between removing the old file and renaming the new one; and a single
\* failure, wherever it strikes this save or the next, leaves a whole copy in one
\* of the two files, but for the time that the next save writes its own
\* (CredentialStore.save; load reads only wifi.json).
CredentialsSurvive ==
    /\ card.main # "torn"
    /\ saved /\ faults = 0 /\ stage # "rename" => card.main \in Networks
    /\ saved /\ faults < 2 /\ stage # "write" => {card.main, card.tmp} \cap Networks # {}

\* A lost network is not retried forever: the station joins again, or the
\* setup access point is tried, or the user or a restart decides otherwise, or an
\* exception of some other command has ended the program.
ReconnectionEnds ==
    net.state = "RECONNECTING" ~> net.state # "RECONNECTING" \/ stage = "halted"
=============================================================================
