--------------------------- MODULE WiFiSetupProofs ---------------------------
(***************************************************************************)
(* What TLAPS proves of WiFiSetup for every set of networks, configuration,*)
(* number of attempts and any refusal of the radio and the card.           *)
(***************************************************************************)
EXTENDS WiFiSetup, TLAPS

\* The states of the service that have its type and isolate the access point as
\* far as the radio lets it: every operation of the service keeps both at once.
Isolated(n) ==
    /\ n.station # "down" /\ n.ap # "down" => "kept" \in {n.station, n.ap}
    /\ n.portal => n.ap # "down" /\ n.station # "up"
Nets ==
    [state : States, on : BOOLEAN, station : Links, ap : Links,
     portal : BOOLEAN, started : BOOLEAN, manual : BOOLEAN,
     ssid : Networks \cup {"none"}, pending : BOOLEAN]
GoodNets == {n \in Nets : Isolated(n)}

\* Giving up the access point, whether the radio obeys or not, closes the portal
\* and leaves no access point up but one that is kept.
LEMMA StopApGood ==
    ASSUME NEW n \in GoodNets
    PROVE  \A m \in StopAp(n) :
               m \in GoodNets /\ m.state = n.state /\ ~m.portal /\ m.ap # "up"
<1> SUFFICES ASSUME NEW m \in StopAp(n)
             PROVE  m \in GoodNets /\ m.state = n.state /\ ~m.portal /\ m.ap # "up"
  OBVIOUS
<1>1. PICK a \in Told(n.ap) : m = [n EXCEPT !.ap = a, !.portal = FALSE, !.started = FALSE]
  BY DEF StopAp
<1>2. a \in {"down", "kept"} /\ (n.ap = "down" => a = "down")
  BY <1>1 DEF Told
<1> QED
  BY <1>1, <1>2 DEF GoodNets, Nets, Isolated, Links

\* A failed connection and a made one.
LEMMA ConnectGood ==
    ASSUME NEW n \in GoodNets
    PROVE  /\ \A m \in Failed(n) : m \in GoodNets /\ m.state = n.state
           /\ \A ssid \in Networks \cup {"none"} : \A m \in Joined(n, ssid) :
                  m \in GoodNets /\ m.state = "CONNECTED"
<1>1. ASSUME NEW m \in Failed(n) PROVE m \in GoodNets /\ m.state = n.state
  <2>1. PICK k \in StopAp(n) : m = k \/ m = [k EXCEPT !.station = "down"]
    BY <1>1 DEF Failed
  <2>2. k \in GoodNets /\ k.state = n.state
    BY StopApGood
  <2> QED
    BY <2>1, <2>2 DEF GoodNets, Nets, Isolated, Links
<1>2. ASSUME NEW ssid \in Networks \cup {"none"}, NEW m \in Joined(n, ssid)
      PROVE  m \in GoodNets /\ m.state = "CONNECTED"
  <2>1. PICK k \in StopAp(n) :
          m = [k EXCEPT !.ssid = ssid, !.station = "up", !.state = "CONNECTED"]
    BY <1>2 DEF Joined
  <2>2. k \in GoodNets /\ ~k.portal /\ k.ap # "up"
    BY StopApGood
  <2> QED
    BY <2>1, <2>2 DEF GoodNets, Nets, Isolated, Links, States
<1> QED
  BY <1>1, <1>2

\* Starting the setup access point, however far it gets.
LEMMA SetupApGood ==
    ASSUME NEW n \in GoodNets, NEW manual \in BOOLEAN
    PROVE  \A m \in SetupAp(n, manual) : m \in GoodNets /\ m.state # "RECONNECTING"
<1> SUFFICES ASSUME NEW m \in SetupAp(n, manual)
             PROVE  m \in GoodNets /\ m.state # "RECONNECTING"
  OBVIOUS
<1>1. PICK alone \in StopStation(n) :
        \/ m = [alone EXCEPT !.state = "ERROR"]
        \/ m = [[alone EXCEPT !.ap = "up"] EXCEPT !.state = "ERROR"]
        \/ m = [[alone EXCEPT !.ap = "up"] EXCEPT !.state = "AP_SETUP", !.portal = TRUE,
                                                  !.started = TRUE, !.manual = manual]
  BY DEF SetupAp
<1>2. PICK link \in Told(n.station) : alone = [n EXCEPT !.station = link]
  BY <1>1 DEF StopStation
<1>3. link \in {"down", "kept"} /\ (n.station = "down" => link = "down")
  BY <1>2 DEF Told
<1>4. alone \in GoodNets /\ alone.station # "up"
  BY <1>2, <1>3 DEF GoodNets, Nets, Isolated, Links
<1>5. CASE m = [alone EXCEPT !.state = "ERROR"]
  BY <1>4, <1>5 DEF GoodNets, Nets, Isolated, States
<1> DEFINE ap == [alone EXCEPT !.ap = "up"]
<1>6. ap \in Nets /\ ap.station # "up" /\ Isolated(ap) /\ ap.ap = "up"
  <2>1. ap \in Nets /\ ap.ap = "up" /\ ap.station = alone.station
    BY <1>4 DEF GoodNets, Nets, Links
  <2>2. ap.station \in {"down", "kept"}
    BY <1>4, <2>1 DEF Nets, Links
  <2> QED
    BY <2>1, <2>2 DEF Isolated
<1> HIDE DEF ap
<1>7. CASE m = [ap EXCEPT !.state = "ERROR"]
  BY <1>6, <1>7 DEF GoodNets, Nets, Isolated, States
<1>8. CASE m = [ap EXCEPT !.state = "AP_SETUP", !.portal = TRUE, !.started = TRUE,
                          !.manual = manual]
  BY <1>6, <1>8 DEF GoodNets, Nets, Isolated, States
<1> QED
  BY <1>1, <1>5, <1>7, <1>8 DEF ap

\* A failed connection that the setup access point follows.
LEMMA FallBackGood ==
    ASSUME NEW n \in GoodNets
    PROVE  \A m \in FallBack(n) : m \in GoodNets /\ m.state # "RECONNECTING"
<1> SUFFICES ASSUME NEW m \in FallBack(n) PROVE m \in GoodNets /\ m.state # "RECONNECTING"
  OBVIOUS
<1>1. PICK k \in Failed(n) : m \in SetupAp(k, FALSE)
  BY DEF FallBack
<1>2. k \in GoodNets
  BY ConnectGood
<1> QED
  BY <1>1, <1>2, SetupApGood

\* Starting the service, with whatever network load() or the caller gives.
LEMMA StartGood ==
    ASSUME NEW n \in GoodNets, NEW c, c.main \in Networks \cup {"none", "torn"},
           NEW given \in Networks \cup {"none"}
    PROVE  \A m \in Start(n, c, given) : m \in GoodNets /\ m.state # "RECONNECTING"
<1> DEFINE ssid == IF Loaded(c) = "none" THEN given ELSE Loaded(c)
<1>1. ssid \in Networks \cup {"none"}
  BY DEF Loaded
<1>2. [n EXCEPT !.state = "DISABLED"] \in GoodNets
      /\ [n EXCEPT !.state = "DISABLED"].state = "DISABLED"
  BY DEF GoodNets, Nets, Isolated, States
<1>3. [n EXCEPT !.ssid = ssid, !.state = "CONNECTING", !.pending = TRUE] \in GoodNets
      /\ [n EXCEPT !.ssid = ssid, !.state = "CONNECTING", !.pending = TRUE].state = "CONNECTING"
  BY <1>1 DEF GoodNets, Nets, Isolated, States
<1>4. \A m \in SetupAp(n, FALSE) : m \in GoodNets /\ m.state # "RECONNECTING"
  BY SetupApGood
<1> QED
  BY <1>2, <1>3, <1>4 DEF Start

\* The pendant before it starts the service.
LEMMA BootedGood == Booted \in GoodNets
<1>1. Booted \in Nets
  BY DEF Booted, Nets, States, Links
<1>2. Isolated(Booted)
  BY DEF Booted, Isolated
<1>3. QED
  BY <1>1, <1>2 DEF GoodNets

-----------------------------------------------------------------------------
(* The inductive invariant: the good states of the service, the card and   *)
(* the other types.                                                         *)

RestType ==
    /\ stage \in Stages
    /\ retry \in [count : 0..Attempts, due : BOOLEAN]
    /\ inAp \in BOOLEAN
    /\ scanning \in BOOLEAN /\ faults \in 0..2 /\ saved \in BOOLEAN

CardType ==
    /\ card \in [main : Networks \cup {"none", "torn"}, tmp : Networks \cup {"none", "torn"}]
    /\ saving \in [ssid : Networks \cup {"none"}, next : {"events", "expiry"}]

\* A save under way is of a network, its temporary file is whole before it
\* replaces wifi.json, only that replacement leaves wifi.json away, and only a
\* save that follows a failure in between empties the last whole copy.
CardInv ==
    /\ card.main # "torn"
    /\ stage \in {"truncate", "write", "swap", "rename"} => saving.ssid \in Networks
    /\ stage \in {"swap", "rename"} => card.tmp = saving.ssid
    /\ saved /\ faults = 0 => card.main \in Networks \/ stage = "rename"
    /\ saved /\ faults < 2 /\ stage # "write" => {card.main, card.tmp} \cap Networks # {}

\* A count that is due for another attempt has not reached the last one, or is
\* of a service that reconnects no more.
CountInv == net.state = "RECONNECTING" => retry.count < Attempts

Inv == net \in GoodNets /\ RestType /\ CardType /\ CardInv /\ CountInv

\* The constants, one at a time.
LEMMA WiFiConstantTypes ==
    Attempts \in Nat \ {0} /\ "none" \notin Networks /\ "torn" \notin Networks
    /\ Configured \in Networks \cup {"none"}
BY WiFiConstants

\* One more failure.
LEMMA StruckFacts ==
    ASSUME faults \in 0..2, Struck
    PROVE  faults' \in 0..2 /\ faults' # 0 /\ (faults' < 2 => faults = 0)
BY DEF Struck

\* The service comes up good.
LEMMA InvInit == Init => Inv
<1> SUFFICES ASSUME Init PROVE Inv
  OBVIOUS
<1>1. net \in GoodNets /\ net.state # "RECONNECTING"
  BY StartGood, BootedGood, WiFiConstantTypes DEF Init
<1>2. RestType
  <2>1. retry \in [count : 0..Attempts, due : BOOLEAN]
    BY WiFiConstantTypes DEF Init
  <2>2. inAp \in BOOLEAN /\ scanning \in BOOLEAN /\ saved \in BOOLEAN
    BY DEF Init
  <2>3. QED
    BY <2>1, <2>2, WiFiConstantTypes DEF Init, RestType, Stages
<1>3. CardType /\ CardInv
  BY DEF Init, CardType, CardInv, NotSaving
<1>4. CountInv
  BY <1>1 DEF CountInv
<1>5. QED
  BY <1>1, <1>2, <1>3, <1>4 DEF Inv

\* The card and the save change only in the save itself.
LEMMA CardKept ==
    ASSUME Inv, UNCHANGED <<card, saving, saved, faults>>, stage \notin {"write", "rename"},
           stage' \notin {"truncate", "write", "swap", "rename"}
    PROVE  CardType' /\ CardInv'
BY DEF Inv, CardType, CardInv

\* network_service.poll.
LEMMA InvPoll == Inv /\ Poll => Inv'
<1> SUFFICES ASSUME Inv, Poll PROVE Inv'
  OBVIOUS
<1>1. net \in GoodNets /\ RestType /\ CardType /\ CardInv /\ CountInv
  BY DEF Inv
<1>2. net.ssid \in Networks \cup {"none"} /\ retry.count \in 0..Attempts
      /\ retry.due \in BOOLEAN
  BY <1>1 DEF GoodNets, Nets, RestType
<1>3. Polling /\ stage \notin {"write", "rename"} /\ stage' \notin {"truncate", "write", "swap", "rename"}
      => CardType' /\ CardInv'
  BY CardKept DEF Polling
<1>4. Polling /\ stage' \in Stages /\ retry' \in [count : 0..Attempts, due : BOOLEAN]
      /\ UNCHANGED inAp => RestType'
  BY <1>1 DEF Polling, RestType
<1>5. UNCHANGED retry => retry' \in [count : 0..Attempts, due : BOOLEAN]
  BY <1>1 DEF RestType
<1>6. /\ \A m \in Failed(net) : m \in GoodNets /\ m.state = net.state
      /\ \A m \in FallBack(net) : m \in GoodNets /\ m.state # "RECONNECTING"
  BY <1>1, ConnectGood, FallBackGood
<1>7. \A ssid \in Networks \cup {"none"} : \A m \in Joined(net, ssid) :
          m \in GoodNets /\ m.state = "CONNECTED"
  BY <1>1, ConnectGood
<1>8. CASE Boot
  <2>1. net' \in GoodNets /\ (net'.state = "RECONNECTING" => net.state = "RECONNECTING")
    <3> DEFINE begun == [net EXCEPT !.pending = FALSE]
    <3>1. begun \in GoodNets
      BY <1>1 DEF GoodNets, Nets, Isolated
    <3>2. CASE UNCHANGED net
      BY <1>1, <3>2
    <3>3. CASE net' \in Joined(begun, net.ssid)
      BY <1>2, <3>1, <3>3, ConnectGood
    <3>4. CASE \E first \in FallBack(begun) : net' \in SetupAp(first, FALSE)
      BY <3>1, <3>4, FallBackGood, SetupApGood
    <3>5. QED
      BY <1>8, <3>2, <3>3, <3>4 DEF Boot
  <2>2. QED
    BY <1>1, <1>3, <1>4, <1>5, <1>8, <2>1 DEF Boot, At, Stages, Inv, CountInv
<1>9. CASE NoticeLoss
  <2>1. CASE net.state = "CONNECTED" /\ net.station = "down"
    <3>1. net' = [net EXCEPT !.state = "RECONNECTING"] /\ retry' = [count |-> 0, due |-> TRUE]
      BY <1>9, <2>1 DEF NoticeLoss, CountAnew
    <3>2. net' \in GoodNets
      BY <1>1, <3>1 DEF GoodNets, Nets, Isolated, States
    <3>3. retry' \in [count : 0..Attempts, due : BOOLEAN] /\ retry'.count < Attempts
      BY <3>1, WiFiConstantTypes
    <3>4. QED
      BY <1>3, <1>4, <1>9, <3>2, <3>3 DEF NoticeLoss, At, Stages, Inv, CountInv
  <2>2. CASE UNCHANGED <<net, retry>>
    BY <1>1, <1>3, <1>4, <1>5, <1>9, <2>2 DEF NoticeLoss, At, Stages, Inv, CountInv
  <2>3. QED
    BY <1>9, <2>1, <2>2 DEF NoticeLoss
<1>10. CASE Reconnect
  <2>1. CASE UNCHANGED <<net, retry>>
    BY <1>1, <1>3, <1>4, <1>5, <1>10, <2>1 DEF Reconnect, At, Stages, Inv, CountInv
  <2>2. CASE net.state = "RECONNECTING" /\ ~UNCHANGED <<net, retry>>
    <3>1. CASE net' \in Joined(net, net.ssid) /\ retry' = [count |-> 0, due |-> FALSE]
      <4>1. net' \in GoodNets /\ net'.state # "RECONNECTING"
        BY <1>2, <1>7, <3>1
      <4>2. retry' \in [count : 0..Attempts, due : BOOLEAN]
        BY <3>1, WiFiConstantTypes
      <4>3. QED
        BY <1>3, <1>4, <1>10, <4>1, <4>2 DEF Reconnect, At, Stages, Inv, CountInv
    <3>2. CASE /\ retry' = [count |-> retry.count + 1, due |-> FALSE]
               /\ net' \in IF retry.count + 1 >= Attempts THEN FallBack(net) ELSE Failed(net)
      <4>1. net' \in GoodNets
            /\ (net'.state = "RECONNECTING" => retry.count + 1 < Attempts)
        <5>1. CASE retry.count + 1 >= Attempts
          BY <1>6, <3>2, <5>1
        <5>2. CASE ~(retry.count + 1 >= Attempts)
          <6>1. net' \in Failed(net)
            BY <3>2, <5>2
          <6>2. retry.count + 1 < Attempts
            BY <1>2, <5>2, WiFiConstantTypes
          <6>3. QED
            BY <1>6, <6>1, <6>2
        <5>3. QED
          BY <5>1, <5>2
      <4>2. retry.count + 1 \in 0..Attempts
        BY <1>1, <1>2, <2>2, WiFiConstantTypes DEF CountInv
      <4>3. retry' \in [count : 0..Attempts, due : BOOLEAN] /\ retry'.count = retry.count + 1
        BY <3>2, <4>2
      <4>4. QED
        BY <1>3, <1>4, <1>10, <4>1, <4>3 DEF Reconnect, At, Stages, Inv, CountInv
    <3>3. QED
      BY <1>10, <2>2, <3>1, <3>2 DEF Reconnect, CountAfter
  <2>3. QED
    BY <1>10, <2>1, <2>2 DEF Reconnect
<1>11. CASE PortalIdle
  BY <1>1, <1>3, <1>4, <1>5, <1>11 DEF PortalIdle, At, Stages, Inv, CountInv
<1>12. CASE PortalFails
  BY <1>3, <1>4, <1>5, <1>6, <1>12 DEF PortalFails, At, Stages, Inv, CountInv
<1>13. CASE PortalJoins
  <2>1. PICK ssid \in Networks :
          net' \in Joined(net, ssid) /\ saving' = [ssid |-> ssid, next |-> "expiry"]
    BY <1>13 DEF PortalJoins
  <2>2. net' \in GoodNets /\ CountInv'
    BY <1>7, <2>1 DEF CountInv
  <2>3. CardType' /\ CardInv'
    BY <1>1, <1>13, <2>1 DEF PortalJoins, At, CardType, CardInv
  <2>4. RestType'
    BY <1>1, <1>13 DEF PortalJoins, At, RestType, Stages
  <2>5. QED
    BY <2>2, <2>3, <2>4 DEF Inv
<1>14. CASE PortalRaises
  BY <1>1, <1>3, <1>4, <1>5, <1>14 DEF PortalRaises, At, Stages, Inv, CountInv
<1>15. CASE Expire
  <2>1. net' \in GoodNets /\ (net'.state = "RECONNECTING" => net.state = "RECONNECTING")
    <3>1. \A m \in StopAp(net) : m \in GoodNets
      BY <1>1, StopApGood
    <3>2. \A m \in StopAp(net) : [m EXCEPT !.state = "ERROR"] \in GoodNets
                                 /\ [m EXCEPT !.state = "ERROR"].state = "ERROR"
      BY <3>1 DEF GoodNets, Nets, Isolated, States
    <3>3. QED
      BY <1>1, <1>15, <3>2 DEF Expire
  <2>2. stage = "expiry" /\ stage' \in {"events", "halted"}
    BY <1>15 DEF Expire
  <2>3. QED
    BY <1>1, <1>3, <1>4, <1>5, <1>15, <2>1, <2>2 DEF Expire, Stages, Inv, CountInv
<1>16. QED
  BY <1>8, <1>9, <1>10, <1>11, <1>12, <1>13, <1>14, <1>15 DEF Poll

\* CredentialStore.save: the order of its four operations is what matters.
LEMMA InvSave == Inv /\ Save => Inv'
<1> SUFFICES ASSUME Inv, Save PROVE Inv'
  OBVIOUS
<1>1. net \in GoodNets /\ RestType /\ CardType /\ CardInv /\ CountInv
  BY DEF Inv
<1>2. Saving
  BY DEF Save, Truncate, Write, Swap, Rename, CannotWrite
<1>3. net' \in GoodNets /\ CountInv'
  BY <1>1, <1>2 DEF Saving, CountInv
<1>4. saving.next \in {"events", "expiry"} /\ saving.ssid \in Networks \cup {"none"}
  BY <1>1 DEF CardType
<1>5. SaveOver => stage' \in {"events", "expiry"} /\ saving' = NotSaving
  BY <1>4 DEF SaveOver
<1>6. NotSaving \in [ssid : Networks \cup {"none"}, next : {"events", "expiry"}]
  BY DEF NotSaving
<1>7. RestType'
  <2>1. stage' \in Stages
    BY <1>5 DEF Save, Truncate, Write, Swap, Rename, CannotWrite, At, Stages
  <2>2. saved' \in BOOLEAN
    BY <1>1 DEF Save, Truncate, Write, Swap, Rename, CannotWrite, Replace, RestType
  <2>3. faults' \in 0..2
    BY <1>1, StruckFacts DEF Save, Truncate, Write, Swap, Rename, CannotWrite, RestType
  <2>4. QED
    BY <1>1, <1>2, <2>1, <2>2, <2>3 DEF Saving, RestType
<1>8. CASE Truncate
  <2>1. card'.main = card.main
        /\ card' \in [main : Networks \cup {"none", "torn"}, tmp : Networks \cup {"none", "torn"}]
    BY <1>1, <1>8 DEF Truncate, WritesTemporary, CardType
  <2>2. QED
    BY <1>1, <1>2, <1>3, <1>7, <1>8, <2>1
       DEF Truncate, At, Saving, CardType, CardInv, Inv
<1>9. CASE Write
  <2>1. card'.main = card.main /\ card'.tmp = saving.ssid
        /\ card' \in [main : Networks \cup {"none", "torn"}, tmp : Networks \cup {"none", "torn"}]
    BY <1>1, <1>4, <1>9 DEF Write, CardType
  <2>2. QED
    BY <1>1, <1>2, <1>3, <1>7, <1>9, <2>1 DEF Write, At, Saving, CardType, CardInv, Inv
<1>10. CASE stage \in {"swap", "rename"} /\ Replace /\ SaveOver /\ UNCHANGED faults
  <2>1. card'.main \in Networks
        /\ card' \in [main : Networks \cup {"none", "torn"}, tmp : Networks \cup {"none", "torn"}]
    BY <1>1, <1>10 DEF Replace, CardType, CardInv
  <2>2. QED
    BY <1>3, <1>5, <1>6, <1>7, <1>10, <2>1, WiFiConstantTypes DEF CardType, CardInv, Inv
<1>11. CASE /\ stage = "swap" /\ stage' = "rename"
            /\ card' \in {card, [card EXCEPT !.main = "none"]}
            /\ UNCHANGED <<saving, faults, saved>>
  <2>1. card'.main \in {card.main, "none"} /\ card'.tmp = card.tmp
        /\ card' \in [main : Networks \cup {"none", "torn"}, tmp : Networks \cup {"none", "torn"}]
    BY <1>1, <1>11 DEF CardType
  <2>2. card'.tmp \in Networks
    BY <1>1, <1>11, <2>1 DEF CardInv
  <2>3. QED
    BY <1>1, <1>3, <1>7, <1>11, <2>1, <2>2, WiFiConstantTypes DEF CardType, CardInv, Inv
<1>12. CASE /\ stage \in {"truncate", "write", "rename"} /\ SaveOver /\ Struck
            /\ UNCHANGED <<card, saved>>
  <2>1. faults' # 0 /\ (faults' < 2 => faults = 0)
    BY <1>1, <1>12, StruckFacts DEF RestType
  <2>2. CardType'
    BY <1>1, <1>5, <1>6, <1>12 DEF CardType
  <2>3. stage = "rename" => card.tmp \in Networks
    BY <1>1 DEF CardInv
  <2>4. CardInv'
    BY <1>1, <1>5, <1>12, <2>1, <2>3 DEF CardInv
  <2>5. QED
    BY <1>3, <1>7, <2>2, <2>4 DEF Inv
<1>13. QED
  BY <1>8, <1>9, <1>10, <1>11, <1>12 DEF Save, Swap, Rename, CannotWrite

\* The UI's commands, the end of a round and the world.
LEMMA InvCommands == Inv /\ (Commands \/ EndRound) => Inv'
<1> SUFFICES ASSUME Inv, Commands \/ EndRound PROVE Inv'
  OBVIOUS
<1>1. net \in GoodNets /\ RestType /\ CardType /\ CardInv /\ CountInv
  BY DEF Inv
<1>2. Command => stage' = "events" /\ stage = "events"
                 /\ UNCHANGED <<retry, inAp, saving, card, faults, saved>>
  BY DEF Command, At
<1>3. CASE Command /\ scanning' \in BOOLEAN /\ net' \in GoodNets
           /\ (net'.state = "RECONNECTING" => net.state = "RECONNECTING")
  <2>1. CardType' /\ CardInv'
    BY <1>2, <1>3, CardKept
  <2>2. RestType'
    BY <1>1, <1>2, <1>3 DEF RestType, Stages
  <2>3. QED
    BY <1>1, <1>2, <1>3, <2>1, <2>2 DEF Inv, CountInv
<1>4. scanning \in BOOLEAN
  BY <1>1 DEF RestType
<1>5. CASE NetworkScan \/ ScanDone
  BY <1>1, <1>3, <1>5 DEF NetworkScan, ScanDone
<1>6. CASE ConnectFails
  BY <1>1, <1>3, <1>4, <1>6, ConnectGood DEF ConnectFails
<1>7. CASE ConnectJoins
  <2>1. PICK ssid \in Networks :
          net' \in Joined(net, ssid) /\ saving' = [ssid |-> ssid, next |-> "events"]
    BY <1>7 DEF ConnectJoins
  <2>2. net' \in GoodNets /\ CountInv'
    BY <1>1, <2>1, ConnectGood DEF CountInv
  <2>3. CardType' /\ CardInv'
    BY <1>1, <1>7, <2>1 DEF ConnectJoins, At, CardType, CardInv
  <2>4. RestType'
    BY <1>1, <1>7 DEF ConnectJoins, At, RestType, Stages
  <2>5. QED
    BY <2>2, <2>3, <2>4 DEF Inv
<1>8. CASE Disconnect
  <2>1. net' \in GoodNets /\ net'.state # "RECONNECTING"
    BY <1>1, <1>8 DEF Disconnect, GoodNets, Nets, Isolated, States, Links
  <2>2. QED
    BY <1>3, <1>4, <1>8, <2>1 DEF Disconnect
<1>9. CASE DisconnectRaises
  <2>1. stage = "events" /\ stage' = "halted"
        /\ UNCHANGED <<net, retry, inAp, saving, card, scanning, faults, saved>>
    BY <1>9 DEF DisconnectRaises, At
  <2>2. CardType' /\ CardInv'
    BY <2>1, CardKept
  <2>3. QED
    BY <1>1, <2>1, <2>2 DEF Inv, RestType, Stages, CountInv
<1>10. CASE StartAp
  BY <1>1, <1>3, <1>4, <1>10, SetupApGood DEF StartAp
<1>11. CASE SwitchOff
  <2>1. net' \in GoodNets /\ net'.state # "RECONNECTING"
    BY <1>1, <1>11 DEF SwitchOff, GoodNets, Nets, Isolated, Links, States
  <2>2. QED
    BY <1>3, <1>4, <1>11, <2>1 DEF SwitchOff
<1>12. CASE SwitchOn
  <2> DEFINE on == [net EXCEPT !.on = TRUE]
  <2>1. on \in GoodNets /\ on.state = net.state
    BY <1>1 DEF GoodNets, Nets, Isolated
  <2>2. card.main \in Networks \cup {"none", "torn"}
    BY <1>1 DEF CardType
  <2>3. net' \in IF net.state = "DISABLED" THEN Start(on, card, "none") ELSE {on}
    BY <1>12 DEF SwitchOn
  <2>4. net' \in GoodNets /\ (net'.state = "RECONNECTING" => net.state = "RECONNECTING")
    BY <2>1, <2>2, <2>3, StartGood
  <2>5. QED
    BY <1>3, <1>4, <1>12, <2>4 DEF SwitchOn
<1>13. CASE EndRound
  <2>1. stage = "events" /\ stage' = "boot" /\ inAp' \in BOOLEAN
        /\ UNCHANGED <<net, retry, saving, card, scanning, faults, saved>>
    BY <1>13 DEF EndRound, At
  <2>2. CardType' /\ CardInv'
    BY <2>1, CardKept
  <2>3. QED
    BY <1>1, <2>1, <2>2 DEF Inv, RestType, Stages, CountInv
<1>14. QED
  BY <1>5, <1>6, <1>7, <1>8, <1>9, <1>10, <1>11, <1>12, <1>13 DEF Commands

\* Links drop, time passes, and the power fails.
LEMMA InvWorld == Inv /\ World => Inv'
<1> SUFFICES ASSUME Inv, World PROVE Inv'
  OBVIOUS
<1>1. net \in GoodNets /\ RestType /\ CardType /\ CardInv /\ CountInv
  BY DEF Inv
<1>2. CASE LinkDrops
  <2>1. net' \in GoodNets /\ net'.state = net.state
    BY <1>1, <1>2 DEF LinkDrops, GoodNets, Nets, Isolated, Links
  <2>2. UNCHANGED <<stage, retry, inAp, saving, card, scanning, faults, saved>>
    BY <1>2 DEF LinkDrops
  <2>3. QED
    BY <1>1, <2>1, <2>2 DEF Inv, RestType, CardType, CardInv, CountInv
<1>3. CASE IntervalOver
  <2>1. retry' \in [count : 0..Attempts, due : BOOLEAN] /\ retry'.count = retry.count
    BY <1>1, <1>3 DEF IntervalOver, RestType
  <2>2. UNCHANGED <<stage, net, inAp, saving, card, scanning, faults, saved>>
    BY <1>3 DEF IntervalOver
  <2>3. QED
    BY <1>1, <2>1, <2>2 DEF Inv, RestType, CardType, CardInv, CountInv
<1>4. CASE Crash
  <2>1. card.main \in Networks \cup {"none", "torn"}
    BY <1>1 DEF CardType
  <2>2. net' \in GoodNets /\ net'.state # "RECONNECTING"
    BY <1>4, <2>1, StartGood, BootedGood, WiFiConstantTypes DEF Crash
  <2>3. faults' \in 0..2 /\ faults' # 0 /\ (faults' < 2 => faults = 0)
    BY <1>1, <1>4, StruckFacts DEF Crash, RestType
  <2>4. retry' \in [count : 0..Attempts, due : BOOLEAN]
    BY <1>4, WiFiConstantTypes DEF Crash
  <2>5. inAp' \in BOOLEAN /\ scanning' \in BOOLEAN /\ saved' \in BOOLEAN /\ stage' = "boot"
    BY <1>1, <1>4 DEF Crash, RestType
  <2>6. CardType'
    BY <1>1, <1>4 DEF Crash, CardType, NotSaving
  <2>7. CardInv'
    <3>1. stage = "rename" => card.tmp \in Networks
      BY <1>1 DEF CardInv
    <3>2. QED
      BY <1>1, <1>4, <2>3, <2>5, <3>1 DEF Crash, CardInv
  <2>8. QED
    BY <2>2, <2>3, <2>4, <2>5, <2>6, <2>7 DEF Inv, RestType, Stages, CountInv
<1>5. QED
  BY <1>2, <1>3, <1>4 DEF World

\* Every reachable state satisfies the invariant.
LEMMA InvAlways == Spec => []Inv
<1>1. Inv /\ UNCHANGED vars => Inv'
  BY DEF Inv, RestType, CardType, CardInv, CountInv, vars
<1>2. Inv /\ [Next]_vars => Inv'
  BY <1>1, InvPoll, InvSave, InvCommands, InvWorld DEF Next
<1>3. QED
  BY <1>2, InvInit, PTL DEF Spec

\* Every variable keeps its type; the count of reconnections never passes the
\* configured attempts.
THEOREM WiFiTypeCorrect == Spec => []TypeOK
<1>1. Inv => TypeOK
  BY DEF Inv, GoodNets, Nets, RestType, CardType, TypeOK
<1>2. QED
  BY <1>1, InvAlways, PTL

\* Whatever fails in start_setup_ap, connect and the commands of the UI, the open
\* setup network runs beside a station only where the radio refused to stop one
\* of them, and the portal only beside a station it refused to stop.
THEOREM WiFiApIsolated == Spec => []ApIsolated
<1>1. Inv => ApIsolated
  BY DEF Inv, GoodNets, Isolated, ApIsolated
<1>2. QED
  BY <1>1, InvAlways, PTL

\* wifi.json is whole or away; without a failure of power or card load() finds the
\* saved credentials, and a single one leaves a whole copy on the card.
THEOREM WiFiCredentialsSurvive == Spec => []CredentialsSurvive
<1>1. Inv => CredentialsSurvive
  BY DEF Inv, CardInv, CredentialsSurvive
<1>2. QED
  BY <1>1, InvAlways, PTL
=============================================================================
