------------------------------ MODULE PendantUI ------------------------------
(***************************************************************************)
(* Navigation of the pendant: UIManager (src/display/ui.py) with the SELECT*)
(* button's DebouncedButton in front of it and the part of                 *)
(* PendantApplication.handle_ui_event that navigates behind it.            *)
(*                                                                         *)
(* The wheel's focus is a choice of the item SELECT finds, since rotation  *)
(* reaches every item of a list; a touched row is such a choice too.  What *)
(* is typed, which job or network is meant and what is drawn are left out. *)
(* "shared" is what other parts of the program write in PendantState; the  *)
(* mirror the safety policy reads (ui_handwheel_mode) follows a change of  *)
(* it only at the next refresh_context.  One tick is one poll.             *)
(***************************************************************************)
EXTENDS Naturals, Sequences

CONSTANTS
    MaxStack,       \* MAX_STACK (8 in the code)
    Debounce,       \* debounce, in polls
    LongPress       \* long_press, in polls

ASSUME UIConstants == MaxStack \in Nat \ {0} /\ Debounce \in Nat \ {0} /\ LongPress \in Nat \ {0}

VARIABLES
    stack,          \* screens, the current one last
    conf,           \* confirmation, or NoConf
    text,           \* text_entry: "none", or the purpose it was opened for
    page,           \* active_page, set by the axis selector
    shared,         \* estop_observed, estop_latched, alarm or stream error, connection
    mirror,         \* state.ui_handwheel_mode
    button,         \* the SELECT button's debouncer
    command,        \* the UICommand of the last step, or "none"
    raised          \* an exception left the user interface

ui == <<stack, conf, text, mirror>>
vars == <<stack, conf, text, page, shared, mirror, button, command, raised>>

RootsRenamed == [OPERATIONAL |-> "HOME", EXPLORER |-> "FILES",
                 CONFIGURATION |-> "CONFIGURATION", PREVIEW |-> "PREVIEW"]
Roots == [OPERATIONAL |-> "HOME", EXPLORER |-> "EXPLORER",
          CONFIGURATION |-> "CONFIGURATION", PREVIEW |-> "PREVIEW"]

\* Screens an item of a screen leads to.
Targets ==
    [HOME |-> {"MAIN_MENU"},
     MAIN_MENU |-> {"MACHINE", "JOBS", "MACROS", "CONTROLLER", "NETWORK", "SETTINGS", "SYSTEM"},
     CONFIGURATION |-> {"NETWORK", "CONTROLLER", "SETTINGS", "SYSTEM"},
     EXPLORER |-> {"JOB_DETAILS"}, JOBS |-> {"JOB_BROWSER", "ACTIVE_JOB"},
     JOB_BROWSER |-> {"JOB_DETAILS"}, MACROS |-> {"MACRO_BROWSER"},
     MACRO_BROWSER |-> {"MACRO_DETAILS"}, CONTROLLER |-> {"CONTROLLER_INFO"},
     NETWORK |-> {"NETWORK_INFO"}, SYSTEM |-> {"SYSTEM_INFO"},
     MACHINE |-> {}, JOB_DETAILS |-> {}, ACTIVE_JOB |-> {}, MACRO_DETAILS |-> {},
     CONTROLLER_INFO |-> {}, WIFI_SCAN |-> {}, TEXT_ENTRY |-> {}, NETWORK_INFO |-> {},
     SETTINGS |-> {}, SYSTEM_INFO |-> {}, PREVIEW |-> {}]
Screens == DOMAIN Targets

\* Commands an item, or SELECT on a details screen, asks to confirm first.
Asks(screen) ==
    CASE screen = "MACHINE" ->
             {"HOME", "ZERO_AXIS", "ZERO_XYZ", "PROBE_Z", "SAFE_Z", "PARK", "UNLOCK",
              "ESTOP_RECOVER", "SOFT_RESET"}
      [] screen = "ACTIVE_JOB" -> {"JOB_CANCEL"}
      [] screen = "SYSTEM" -> {"RESTART"}
      [] screen = "JOB_DETAILS" -> {"JOB_START"}
      [] screen = "MACRO_DETAILS" -> {"MACRO_RUN"}
      [] OTHER -> {}
Confirmed == UNION {Asks(s) : s \in Screens}

\* Commands an item emits at once.
Emits(screen) ==
    CASE screen = "ACTIVE_JOB" -> {"JOB_HOLD", "JOB_RESUME"}
      [] screen = "NETWORK" ->
             {"NETWORK_TOGGLE", "NETWORK_SCAN", "NETWORK_SETUP_AP", "NETWORK_DISCONNECT"}
      [] OTHER -> {}

Commands == Confirmed \cup Emits("ACTIVE_JOB") \cup Emits("NETWORK")
                \cup {"JOG", "JOG_CANCEL", "NETWORK_CONNECT", "CONFIRM_REJECTED"}

NoConf == [command |-> "none", accept |-> FALSE, screen |-> "none", turned |-> FALSE]
Top(stk) == stk[Len(stk)]
Pop(stk) == SubSeq(stk, 1, Len(stk) - 1)

WheelMode(screen) ==
    CASE screen = "HOME" -> "MOTION"
      [] screen = "PREVIEW" -> "VALUE_EDIT"
      [] screen = "TEXT_ENTRY" -> "TEXT_ENTRY"
      [] OTHER -> "NAVIGATION"

\* handwheel_mode.  The overlay of an E-stop is called E-STOP, which is not one
\* of the names compared, and hides an alarm or stream error below it.
Mode(stk, c, sh) ==
    IF sh.fault /\ ~sh.latched THEN "DISABLED"
    ELSE IF c # NoConf THEN "NAVIGATION"
    ELSE IF Top(stk) = "HOME" /\ ~sh.online THEN "DISABLED"
    ELSE WheelMode(Top(stk))

Init ==
    /\ stack = <<"HOME">> /\ conf = NoConf /\ text = "none" /\ page = "OPERATIONAL"
    /\ shared = [estop |-> FALSE, latched |-> FALSE, fault |-> FALSE, online |-> FALSE]
    /\ mirror = "DISABLED"
    /\ button = [raw |-> FALSE, stable |-> FALSE, changed |-> 0, held |-> 0,
                 longSent |-> FALSE, given |-> 0]
    /\ command = "none" /\ raised = FALSE

\* _changed: the screens and the confirmation move and the mirror follows.
ShowStale(stk, c) == stack' = stk /\ conf' = c /\ UNCHANGED mirror
Show(stk, c) ==
    /\ stack' = stk /\ conf' = c
    /\ mirror' = Mode(stk, c, shared)

KeepText == UNCHANGED text
ForgetText == text' = "none"

Enter(screen, c) ==
    IF Len(stack) >= MaxStack
    THEN raised' = TRUE /\ mirror' = "DISABLED" /\ UNCHANGED <<stack, conf>>
    ELSE Show(Append(stack, screen), c) /\ UNCHANGED raised

Quiet == command' = "none" /\ UNCHANGED <<ui, raised>>
Emit(c) == command' = c
Silent == command' = "none"

-----------------------------------------------------------------------------
ConfirmAccepted(screen, c) ==
    [command |-> c, accept |-> TRUE, screen |-> screen, turned |-> FALSE]
Confirm(screen, c) ==
    [command |-> c, accept |-> FALSE, screen |-> screen, turned |-> FALSE]

\* A confirmation is answered.  A job that starts is shown by the application;
\* the job may also be refused, which stays on the details screen.
Answer ==
    /\ Emit(IF conf.accept THEN conf.command ELSE "CONFIRM_REJECTED")
    /\ \/ Show(stack, NoConf) /\ UNCHANGED raised
       \/ conf.accept /\ conf.command = "JOB_START" /\ Enter("ACTIVE_JOB", NoConf)
    /\ UNCHANGED text

SelectItem ==
    \/ /\ \E t \in Targets[Top(stack)] : Enter(t, conf)
       /\ Silent /\ UNCHANGED text
    \/ \E c \in Asks(Top(stack)) :
           Show(stack, Confirm(Top(stack), c)) /\ Silent /\ UNCHANGED <<text, raised>>
    \/ \E c \in Emits(Top(stack)) :
           /\ Emit(c) /\ UNCHANGED text
           /\ \/ UNCHANGED <<stack, conf, mirror, raised>>
              \/ c = "NETWORK_SCAN" /\ Enter("WIFI_SCAN", conf)
    \/ /\ Top(stack) \in {"NETWORK", "WIFI_SCAN"}
       /\ text' = IF Top(stack) = "NETWORK" THEN "ssid" ELSE "password"
       /\ Enter("TEXT_ENTRY", conf) /\ Silent
    \/ Quiet        \* an item that is disabled or only shows a value

\* _select.  In text entry SELECT appends a character to the text, which must exist.
Select ==
    IF conf # NoConf THEN Answer
    ELSE IF Top(stack) = "TEXT_ENTRY"
    THEN /\ raised' = (text = "none")
         /\ Show(stack, conf) /\ Silent /\ UNCHANGED text
    ELSE SelectItem

\* _submit_text, and the back() with which the application leaves the workflow.
Submit ==
    /\ raised' = (text = "none")
    /\ IF text = "password"
       THEN /\ Show(IF Len(stack) > 2 THEN Pop(Pop(stack)) ELSE Pop(stack), conf)
            /\ ForgetText /\ Emit("NETWORK_CONNECT")
       ELSE /\ Show(stack, conf) /\ Silent
            /\ text' = IF text = "ssid" THEN "password" ELSE text

Blocked == Mode(stack, conf, shared) = "DISABLED"

OnSelect == IF Blocked /\ Top(stack) # "HOME" THEN Quiet ELSE Select

\* LONG_SELECT recovers a released E-stop from any screen, and ends text entry.
OnLongSelect ==
    IF shared.latched /\ ~shared.estop
    THEN Emit("ESTOP_RECOVER") /\ UNCHANGED <<ui, raised>>
    ELSE IF ~Blocked /\ Top(stack) = "TEXT_ENTRY" THEN Submit ELSE Quiet

NeverSent(flips) == FALSE
AlreadySent(flips) == button.longSent /\ ~flips

\* DebouncedButton.update; "given" counts the events of one stable press.
Update(active) ==
    LET changed == IF active # button.raw THEN 0
                   ELSE IF button.changed < Debounce THEN button.changed + 1 ELSE Debounce
        flips == active # button.stable /\ changed >= Debounce
        stable == IF flips THEN active ELSE button.stable
        held == IF flips THEN 0
                ELSE IF button.held < LongPress THEN button.held + 1 ELSE LongPress
        sent == AlreadySent(flips)
        long == stable /\ ~sent /\ held >= LongPress
        short == flips /\ ~stable /\ ~button.longSent
    IN [raw |-> active, stable |-> stable, changed |-> changed, held |-> held,
        longSent |-> sent \/ long,
        given |-> (IF flips /\ stable THEN 0 ELSE button.given)
                      + (IF long THEN 1 ELSE 0) + (IF short THEN 1 ELSE 0)]

\* The application carries out a recovery; with the contact pressed it raises.
Recover ==
    shared' = IF command' = "ESTOP_RECOVER" /\ ~shared.estop
              THEN [shared EXCEPT !.latched = FALSE] ELSE shared

PollButton ==
    /\ \E active \in BOOLEAN : button' = Update(active)
    /\ IF button.stable /\ ~button'.stable /\ ~button.longSent THEN OnSelect
       ELSE IF button'.longSent /\ ~button.longSent THEN OnLongSelect
       ELSE Quiet
    /\ Recover /\ UNCHANGED page

-----------------------------------------------------------------------------
Handling == UNCHANGED <<page, shared, button>>

\* One detent: the only path to JOG, or a toggle of the open confirmation.
Rotate ==
    /\ Handling /\ UNCHANGED <<text, raised>>
    /\ LET mode == Mode(stack, conf, shared)
       IN IF mode = "MOTION" THEN Emit("JOG") /\ UNCHANGED <<stack, conf, mirror>>
          ELSE IF mode # "DISABLED" /\ conf # NoConf
          THEN Show(stack, [conf EXCEPT !.accept = ~@, !.turned = TRUE]) /\ Silent
          ELSE Quiet

Leave ==
    IF conf # NoConf THEN Show(stack, NoConf) /\ UNCHANGED text
    ELSE IF Top(stack) = "TEXT_ENTRY" THEN Show(Pop(stack), conf) /\ ForgetText
    ELSE Show(IF Len(stack) > 1 THEN Pop(stack) ELSE stack, conf) /\ UNCHANGED text

\* BACK deletes a character in text entry; CANCEL is the jog cancel on HOME.
Back ==
    /\ Handling /\ Silent
    /\ IF Top(stack) = "TEXT_ENTRY"
       THEN raised' = (text = "none") /\ Show(stack, conf) /\ UNCHANGED text
       ELSE Leave /\ UNCHANGED raised

Cancel ==
    /\ Handling /\ UNCHANGED raised
    /\ IF Top(stack) = "HOME" THEN Emit("JOG_CANCEL") /\ UNCHANGED ui ELSE Leave /\ Silent

\* Touch: HOME and BACK areas, a row of the list or the whole of HOME selects.
TouchHome ==
    /\ Handling /\ Silent /\ UNCHANGED raised
    /\ Top(stack) # "HOME"
    /\ ForgetText /\ Show(<<Roots[page]>>, NoConf)

TouchSelect ==
    /\ Top(stack) \notin {"JOB_DETAILS", "MACRO_DETAILS", "TEXT_ENTRY"}
    /\ OnSelect
    /\ Recover /\ UNCHANGED <<page, button>>

TouchHold == OnLongSelect /\ Recover /\ UNCHANGED <<page, button>>

\* The physical selector is authoritative for the root screen.
SelectorMoved ==
    /\ page' \in DOMAIN Roots
    /\ Show(<<Roots[page']>>, NoConf) /\ ForgetText
    /\ Silent /\ UNCHANGED <<shared, button, raised>>

\* Other parts of the program change what the user interface reads.
SharedChanges ==
    /\ shared' \in [estop : BOOLEAN, latched : BOOLEAN, fault : BOOLEAN, online : BOOLEAN]
    /\ shared'.latched = (shared.latched \/ shared'.estop)
    /\ Silent /\ UNCHANGED <<ui, page, button, raised>>

RefreshContext ==
    /\ mirror' = Mode(stack, conf, shared)
    /\ Silent /\ UNCHANGED <<stack, conf, text, page, shared, button, raised>>

Next ==
    ~raised /\ (PollButton \/ Rotate \/ Back \/ Cancel \/ TouchHome \/ TouchSelect \/ TouchHold
                    \/ SelectorMoved \/ SharedChanges \/ RefreshContext)

Spec == Init /\ [][Next]_vars

-----------------------------------------------------------------------------
\* Every variable keeps its type.
TypeOK ==
    /\ stack \in Seq(Screens) /\ stack # <<>>
    /\ conf \in [command : Confirmed \cup {"none"}, accept : BOOLEAN,
                 screen : Screens \cup {"none"}, turned : BOOLEAN]
    /\ text \in {"none", "ssid", "password"} /\ page \in DOMAIN Roots
    /\ shared \in [estop : BOOLEAN, latched : BOOLEAN, fault : BOOLEAN, online : BOOLEAN]
    /\ mirror \in {"MOTION", "NAVIGATION", "VALUE_EDIT", "TEXT_ENTRY", "DISABLED"}
    /\ button \in [raw : BOOLEAN, stable : BOOLEAN, changed : 0..Debounce,
                   held : 0..LongPress, longSent : BOOLEAN, given : Nat]
    /\ command \in Commands \cup {"none"} /\ raised \in BOOLEAN

\* No sequence of presses, touches and selector moves makes the user interface
\* raise: the stack never fills, and an edit always finds the text it edits.
\* An exception here would end the program's only loop.
NavigationAlive == ~raised /\ (text # "none" <=> Top(stack) = "TEXT_ENTRY")

\* The safety policy never reads MOTION while a menu, a confirmation or a page
\* other than OPERATIONAL is shown, however stale the mirror is.
MotionOwner ==
    mirror = "MOTION" => stack = <<"HOME">> /\ conf = NoConf /\ page = "OPERATIONAL"

\* One stable press of SELECT gives one event, short or long, never both.
OnePressOneEvent == button.given <= 1

\* A command that needs confirmation is emitted only for the confirmation opened
\* on the screen still shown, after the wheel was turned since; the recovery of
\* a released E-stop by a long press is the exception.
ConfirmedCommand ==
    [][command' \in Confirmed =>
           \/ command' = conf.command /\ conf.screen = Top(stack) /\ conf.turned
           \/ command' = "ESTOP_RECOVER" /\ shared.latched /\ ~shared.estop]_vars
=============================================================================
