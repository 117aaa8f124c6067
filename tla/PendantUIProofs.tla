--------------------------- MODULE PendantUIProofs ---------------------------
(***************************************************************************)
(* What TLAPS proves of PendantUI for every debounce and long-press time,  *)
(* and for every limit of the stack that the deepest path of the menus     *)
(* stays within.                                                           *)
(***************************************************************************)
EXTENDS PendantUI, TLAPS

-----------------------------------------------------------------------------
(* The invariant.                                                          *)

\* The deepest a screen can be in the stack.
Depth(s) ==
    CASE s \in {"HOME", "EXPLORER", "CONFIGURATION", "PREVIEW"} -> 1
      [] s = "MAIN_MENU" -> 2
      [] s \in {"MACHINE", "JOBS", "MACROS", "CONTROLLER", "NETWORK", "SETTINGS", "SYSTEM"} -> 3
      [] s \in {"JOB_BROWSER", "MACRO_BROWSER", "CONTROLLER_INFO", "WIFI_SCAN",
                "NETWORK_INFO", "SYSTEM_INFO"} -> 4
      [] s \in {"JOB_DETAILS", "MACRO_DETAILS", "TEXT_ENTRY"} -> 5
      [] OTHER -> 6

\* The selector's root at the bottom, HOME nowhere else, text entry on top only.
GoodStack(stk, root) ==
    /\ stk \in Seq(Screens) /\ stk # <<>>
    /\ stk[1] = root
    /\ \A i \in 1..Len(stk) : i > 1 => stk[i] # "HOME"
    /\ \A i \in 1..Len(stk) : i < Len(stk) => stk[i] # "TEXT_ENTRY"
    /\ \A i \in 1..Len(stk) : i <= Depth(stk[i])

\* A confirmation belongs to the screen on top, and is accepted by turning only.
GoodConf(c, stk) ==
    \/ c = NoConf
    \/ /\ c \in [command : Confirmed, accept : BOOLEAN, screen : Screens, turned : BOOLEAN]
       /\ c.screen = Top(stk) /\ c.command \in Asks(c.screen)
       /\ c.accept => c.turned

GoodButton ==
    /\ button \in [raw : BOOLEAN, stable : BOOLEAN, changed : 0..Debounce,
                   held : 0..LongPress, longSent : BOOLEAN, given : Nat]
    /\ button.given <= 1
    /\ button.stable /\ ~button.longSent => button.given = 0

WheelModes == {"MOTION", "NAVIGATION", "VALUE_EDIT", "TEXT_ENTRY", "DISABLED"}

StackInv ==
    /\ GoodStack(stack, Roots[page]) /\ GoodConf(conf, stack)
    /\ page \in DOMAIN Roots /\ mirror \in WheelModes
    /\ mirror = "MOTION" => Top(stack) = "HOME" /\ conf = NoConf

TextInv ==
    /\ text \in {"none", "ssid", "password"} /\ raised \in BOOLEAN
    /\ ~raised => (text # "none" <=> Top(stack) = "TEXT_ENTRY")

SharedSet == [estop : BOOLEAN, latched : BOOLEAN, fault : BOOLEAN, online : BOOLEAN]

SharedType ==
    /\ shared \in SharedSet
    /\ command \in Commands \cup {"none"}

Inv == StackInv /\ TextInv /\ SharedType /\ GoodButton

-----------------------------------------------------------------------------
(* Screens.                                                                *)

LEMMA ScreenSet ==
    Screens = {"HOME", "MAIN_MENU", "CONFIGURATION", "EXPLORER", "JOBS", "JOB_BROWSER", "MACROS",
               "MACRO_BROWSER", "CONTROLLER", "NETWORK", "SYSTEM", "MACHINE", "JOB_DETAILS",
               "ACTIVE_JOB", "MACRO_DETAILS", "CONTROLLER_INFO", "WIFI_SCAN", "TEXT_ENTRY",
               "NETWORK_INFO", "SETTINGS", "SYSTEM_INFO", "PREVIEW"}
BY DEF Screens, Targets

\* No screen is deeper than six, and the roots are at the bottom.
LEMMA DepthBounds ==
    \A s \in Screens : Depth(s) \in 1..6
BY ScreenSet DEF Depth

LEMMA RootFacts ==
    \A p \in DOMAIN Roots :
        /\ Roots[p] \in Screens /\ Depth(Roots[p]) = 1 /\ Roots[p] # "TEXT_ENTRY"
        /\ Roots[p] = "HOME" <=> p = "OPERATIONAL"
BY ScreenSet DEF Roots, Depth

\* An item leads one screen deeper, and to HOME or text entry never.
LEMMA TargetFacts ==
    \A s \in Screens : \A t \in Targets[s] :
        /\ t \in Screens /\ t \notin {"HOME", "TEXT_ENTRY"} /\ s # "TEXT_ENTRY"
        /\ Depth(s) < Depth(t)
BY ScreenSet DEF Targets, Depth

\* Neither HOME nor text entry asks for anything.
LEMMA AskFacts ==
    /\ \A s \in Screens : Asks(s) \subseteq Confirmed
    /\ Asks("HOME") = {} /\ Asks("TEXT_ENTRY") = {}
    /\ "none" \notin Confirmed
BY ScreenSet DEF Asks, Confirmed

-----------------------------------------------------------------------------
(* Stacks.                                                                 *)

LEMMA TopFacts ==
    ASSUME NEW root, NEW stk, GoodStack(stk, root)
    PROVE  /\ Len(stk) \in Nat /\ Len(stk) >= 1 /\ Len(stk) <= Depth(Top(stk))
           /\ Top(stk) \in Screens
           /\ Top(stk) = "HOME" => Len(stk) = 1 /\ root = "HOME"
<1>1. Len(stk) \in Nat /\ Len(stk) >= 1
  BY DEF GoodStack
<1>2. Len(stk) \in 1..Len(stk) /\ stk[Len(stk)] \in Screens /\ Len(stk) <= Depth(stk[Len(stk)])
  BY <1>1 DEF GoodStack
<1>3. ASSUME stk[Len(stk)] = "HOME" PROVE Len(stk) = 1 /\ root = "HOME"
  <2>1. ~(Len(stk) > 1)
    BY <1>2, <1>3 DEF GoodStack
  <2>2. Len(stk) = 1
    BY <1>1, <2>1
  <2> QED
    BY <1>3, <2>2 DEF GoodStack
<1> QED
  BY <1>1, <1>2, <1>3 DEF Top

\* A screen deeper than the one on top can be pushed on it.
LEMMA PushGood ==
    ASSUME NEW root, NEW stk, GoodStack(stk, root), Top(stk) # "TEXT_ENTRY",
           NEW t \in Screens, t # "HOME", Depth(Top(stk)) < Depth(t)
    PROVE  GoodStack(Append(stk, t), root) /\ Top(Append(stk, t)) = t /\ Len(stk) < 6
<1> DEFINE new == Append(stk, t)
<1>1. stk \in Seq(Screens) /\ Len(stk) \in Nat /\ Len(stk) >= 1 /\ Top(stk) \in Screens
  BY TopFacts DEF GoodStack
<1>2. /\ new \in Seq(Screens) /\ Len(new) = Len(stk) + 1
      /\ new[Len(stk) + 1] = t
      /\ \A i \in 1..Len(stk) : new[i] = stk[i]
  BY <1>1
<1>3. Len(stk) <= Depth(Top(stk)) /\ Depth(t) \in 1..6 /\ Depth(Top(stk)) \in 1..6
  BY <1>1, TopFacts, DepthBounds
<1>4. Len(stk) + 1 <= Depth(t) /\ Len(stk) < 6
  BY <1>1, <1>3
<1>5. \A i \in 1..Len(new) : i = Len(stk) + 1 \/ i \in 1..Len(stk)
  BY <1>1, <1>2
<1>6. \A i \in 1..Len(new) : i < Len(new) => new[i] # "TEXT_ENTRY"
  <2> SUFFICES ASSUME NEW i \in 1..Len(new), i < Len(new) PROVE new[i] # "TEXT_ENTRY"
    OBVIOUS
  <2>1. i \in 1..Len(stk) /\ new[i] = stk[i]
    BY <1>1, <1>2
  <2> QED
    BY <1>1, <2>1 DEF GoodStack, Top
<1>7. \A i \in 1..Len(new) : i > 1 => new[i] # "HOME"
  BY <1>1, <1>2, <1>5 DEF GoodStack
<1>8. \A i \in 1..Len(new) : i <= Depth(new[i])
  BY <1>1, <1>2, <1>4, <1>5 DEF GoodStack
<1>9. new # <<>> /\ new[1] = root
  BY <1>1, <1>2 DEF GoodStack
<1> HIDE DEF new
<1>10. GoodStack(new, root) /\ Top(new) = t
  BY <1>2, <1>6, <1>7, <1>8, <1>9 DEF GoodStack, Top
<1> QED
  BY <1>4, <1>10 DEF new

\* What is below the top is a stack as well, and not text entry.
LEMMA PopGood ==
    ASSUME NEW root, NEW stk, GoodStack(stk, root), Len(stk) > 1
    PROVE  GoodStack(Pop(stk), root) /\ Len(Pop(stk)) = Len(stk) - 1 /\ Top(Pop(stk)) # "TEXT_ENTRY"
<1> DEFINE new == Pop(stk)
<1>1. stk \in Seq(Screens) /\ Len(stk) \in Nat
  BY DEF GoodStack
<1>2. /\ new \in Seq(Screens) /\ Len(new) = Len(stk) - 1
      /\ \A i \in 1..Len(new) : i \in 1..Len(stk) /\ i < Len(stk) /\ new[i] = stk[i]
  BY <1>1 DEF Pop
<1>3. Len(new) \in 1..Len(new) /\ new # <<>> /\ 1 \in 1..Len(new)
  BY <1>1, <1>2
<1> HIDE DEF new
<1>4. GoodStack(new, root) /\ Top(new) # "TEXT_ENTRY"
  BY <1>2, <1>3 DEF GoodStack, Top
<1> QED
  BY <1>2, <1>4 DEF new

LEMMA RootGood ==
    ASSUME NEW p \in DOMAIN Roots
    PROVE  GoodStack(<<Roots[p]>>, Roots[p]) /\ Top(<<Roots[p]>>) = Roots[p]
BY RootFacts DEF GoodStack, Top

\* Text entry is never at the bottom, and never asks for a confirmation.
LEMMA TextFacts ==
    ASSUME StackInv, Top(stack) = "TEXT_ENTRY"
    PROVE  Len(stack) > 1 /\ conf = NoConf
<1>1. /\ GoodStack(stack, Roots[page]) /\ Roots[page] # "TEXT_ENTRY"
      /\ stack \in Seq(Screens)
  BY RootFacts DEF StackInv, GoodStack
<1>2. Len(stack) \in Nat /\ Len(stack) >= 1 /\ Len(stack) # 1
  BY <1>1, TopFacts DEF GoodStack, Top
<1>3. conf = NoConf
  BY AskFacts DEF StackInv, GoodConf
<1>4. Len(stack) > 1
  <2>1. \A n \in Nat : n >= 1 /\ n # 1 => n > 1
    OBVIOUS
  <2> QED
    BY <1>2, <2>1
<1> QED
  BY <1>3, <1>4

-----------------------------------------------------------------------------
(* Steps of the screens.                                                   *)

LEMMA ModeFacts ==
    ASSUME NEW stk, NEW c, NEW sh
    PROVE  /\ Mode(stk, c, sh) \in WheelModes
           /\ Mode(stk, c, sh) = "MOTION" => Top(stk) = "HOME" /\ c = NoConf
BY DEF Mode, WheelMode, WheelModes

LEMMA ShowGood ==
    ASSUME NEW stk, NEW c, Show(stk, c), page' \in DOMAIN Roots,
           GoodStack(stk, Roots[page']), GoodConf(c, stk)
    PROVE  StackInv' /\ stack' = stk /\ conf' = c
BY ModeFacts DEF Show, StackInv

LEMMA SameScreens ==
    ASSUME StackInv, page' = page, stack' = stack, conf' = conf, mirror' = mirror
    PROVE  StackInv'
BY DEF StackInv

LEMMA EnterGood ==
    ASSUME StackInv, raised \in BOOLEAN, ~raised, page' = page, Top(stack) # "TEXT_ENTRY",
           NEW t \in Screens, t # "HOME", Depth(Top(stack)) < Depth(t),
           NEW c, c = NoConf, Enter(t, c)
    PROVE  /\ StackInv' /\ raised' \in BOOLEAN
           /\ ~raised' => Top(stack') = t
           /\ MaxStack >= 6 => ~raised'
<1>1. /\ GoodStack(Append(stack, t), Roots[page]) /\ Top(Append(stack, t)) = t
      /\ Len(stack) < 6 /\ Len(stack) \in Nat /\ MaxStack \in Nat
  BY PushGood, TopFacts, UIConstants DEF StackInv
<1>2. CASE Len(stack) >= MaxStack
  BY <1>1, <1>2 DEF Enter, StackInv, WheelModes
<1>3. CASE ~(Len(stack) >= MaxStack)
  <2>1. Show(Append(stack, t), c) /\ raised' = raised
    BY <1>3 DEF Enter
  <2>2. GoodConf(c, Append(stack, t)) /\ page' \in DOMAIN Roots
        /\ GoodStack(Append(stack, t), Roots[page'])
    BY <1>1 DEF GoodConf, StackInv
  <2>3. StackInv' /\ stack' = Append(stack, t)
    BY <2>1, <2>2, ShowGood
  <2> QED
    BY <1>1, <2>1, <2>3
<1> QED
  BY <1>2, <1>3

\* What every step of the user interface gives.
CommandCause ==
    command' \in Confirmed =>
        \/ command' = conf.command /\ conf.screen = Top(stack) /\ conf.turned
        \/ command' = "ESTOP_RECOVER" /\ shared.latched /\ ~shared.estop

Outcome ==
    /\ StackInv' /\ TextInv' /\ (MaxStack >= 6 => ~raised')
    /\ command' \in Commands \cup {"none"} /\ CommandCause

UIReady == StackInv /\ TextInv /\ ~raised /\ page' = page

\* "none" and the commands that no item asks to confirm.
LEMMA FreeCommands ==
    /\ {"none", "JOG", "JOG_CANCEL", "NETWORK_CONNECT", "CONFIRM_REJECTED"} \cap Confirmed = {}
    /\ \A s \in Screens : Emits(s) \cap Confirmed = {} /\ Emits(s) \subseteq Commands
    /\ {"JOG", "JOG_CANCEL", "NETWORK_CONNECT", "CONFIRM_REJECTED"} \subseteq Commands
    /\ Confirmed \subseteq Commands
BY ScreenSet DEF Asks, Confirmed, Emits, Commands

LEMMA QuietGood ==
    ASSUME UIReady, Quiet
    PROVE  Outcome
BY SameScreens, FreeCommands DEF UIReady, Quiet, ui, Outcome, CommandCause, TextInv

\* The facts of a state that the steps below start from.
LEMMA ReadyFacts ==
    ASSUME UIReady
    PROVE  /\ StackInv /\ TextInv /\ raised \in BOOLEAN /\ ~raised
           /\ page \in DOMAIN Roots /\ page' = page
           /\ GoodStack(stack, Roots[page]) /\ GoodConf(conf, stack)
           /\ Top(stack) \in Screens
           /\ text # "none" <=> Top(stack) = "TEXT_ENTRY"
           /\ text \in {"none", "ssid", "password"}
BY TopFacts DEF UIReady, StackInv, TextInv

\* A step that shows a good stack and raises nothing.
LEMMA ShowOutcome ==
    ASSUME UIReady, NEW stk, NEW c, Show(stk, c),
           GoodStack(stk, Roots[page]), GoodConf(c, stk),
           raised' = FALSE, text' \in {"none", "ssid", "password"},
           text' # "none" <=> Top(stk) = "TEXT_ENTRY",
           command' \in Commands \cup {"none"}, CommandCause
    PROVE  Outcome
<1>1. StackInv' /\ stack' = stk
  BY ReadyFacts, ShowGood
<1> QED
  BY <1>1 DEF Outcome, TextInv

\* A step that pushes a screen and emits nothing that is confirmed.
LEMMA EnterOutcome ==
    ASSUME UIReady, Top(stack) # "TEXT_ENTRY",
           NEW t \in Screens, t # "HOME", Depth(Top(stack)) < Depth(t), Enter(t, NoConf),
           text' \in {"none", "ssid", "password"}, text' # "none" <=> t = "TEXT_ENTRY",
           command' \in Commands \cup {"none"}, CommandCause
    PROVE  Outcome
<1>1. /\ StackInv' /\ raised' \in BOOLEAN
      /\ ~raised' => Top(stack') = t
      /\ MaxStack >= 6 => ~raised'
  <2> DEFINE c == NoConf
  <2>1. c = NoConf /\ Enter(t, c)
    OBVIOUS
  <2> HIDE DEF c
  <2> QED
    BY <2>1, ReadyFacts, EnterGood
<1> QED
  BY <1>1 DEF Outcome, TextInv

LEMMA AnswerGood ==
    ASSUME UIReady, conf # NoConf, Answer
    PROVE  Outcome
<1>1. /\ conf \in [command : Confirmed, accept : BOOLEAN, screen : Screens, turned : BOOLEAN]
      /\ conf.screen = Top(stack) /\ conf.command \in Asks(conf.screen)
      /\ conf.accept => conf.turned
  BY ReadyFacts DEF GoodConf
<1>2. Top(stack) # "TEXT_ENTRY" /\ text = "none"
  BY <1>1, AskFacts, ReadyFacts
<1>3. command' \in Commands \cup {"none"} /\ CommandCause
  <2>1. command' = IF conf.accept THEN conf.command ELSE "CONFIRM_REJECTED"
    BY DEF Answer, Emit
  <2> QED
    BY <1>1, <2>1, FreeCommands DEF CommandCause
<1>4. text' = text
  BY DEF Answer
<1>5. CASE Show(stack, NoConf) /\ UNCHANGED raised
  <2>1. raised' = FALSE
    BY <1>5, ReadyFacts
  <2> QED
    BY <1>2, <1>3, <1>4, <1>5, <2>1, ReadyFacts, ShowOutcome DEF GoodConf
<1>6. CASE conf.command = "JOB_START" /\ Enter("ACTIVE_JOB", NoConf)
  <2>1. Top(stack) = "JOB_DETAILS"
    BY <1>1, <1>6, ReadyFacts, ScreenSet DEF Asks
  <2>2. "ACTIVE_JOB" \in Screens /\ Depth(Top(stack)) < Depth("ACTIVE_JOB")
    BY <2>1, ScreenSet DEF Depth
  <2> QED
    BY <1>2, <1>3, <1>4, <1>6, <2>2, EnterOutcome
<1> QED
  BY <1>5, <1>6 DEF Answer

LEMMA SelectItemGood ==
    ASSUME UIReady, conf = NoConf, Top(stack) # "TEXT_ENTRY", SelectItem
    PROVE  Outcome
<1> DEFINE top == Top(stack)
<1>1. top \in Screens /\ text = "none"
  BY ReadyFacts
<1>2. command' = "none" => CommandCause /\ command' \in Commands \cup {"none"}
  BY FreeCommands DEF CommandCause
<1>3. CASE (\E t \in Targets[top] : Enter(t, conf)) /\ Silent /\ UNCHANGED text
  <2>1. PICK t \in Targets[top] : Enter(t, conf)
    BY <1>3
  <2>2. t \in Screens /\ t # "HOME" /\ t # "TEXT_ENTRY" /\ Depth(top) < Depth(t)
    BY <1>1, TargetFacts
  <2>3. Enter(t, NoConf) /\ text' = "none" /\ command' = "none"
    BY <1>1, <1>3, <2>1 DEF Silent
  <2> QED
    BY <1>2, <2>2, <2>3, EnterOutcome
<1>4. CASE \E c \in Asks(top) :
               Show(stack, Confirm(top, c)) /\ Silent /\ UNCHANGED <<text, raised>>
  <2>1. PICK c \in Asks(top) :
               Show(stack, Confirm(top, c)) /\ Silent /\ UNCHANGED <<text, raised>>
    BY <1>4
  <2>2. GoodConf(Confirm(top, c), stack)
    BY <1>1, AskFacts DEF GoodConf, Confirm
  <2>3. raised' = FALSE /\ text' = "none" /\ command' = "none"
    BY <1>1, <2>1, ReadyFacts DEF Silent
  <2> QED
    BY <1>1, <1>2, <2>1, <2>2, <2>3, ReadyFacts, ShowOutcome
<1>5. CASE \E c \in Emits(top) :
               /\ Emit(c) /\ UNCHANGED text
               /\ \/ UNCHANGED <<stack, conf, mirror, raised>>
                  \/ c = "NETWORK_SCAN" /\ Enter("WIFI_SCAN", conf)
  <2>1. PICK c \in Emits(top) :
               /\ Emit(c) /\ UNCHANGED text
               /\ \/ UNCHANGED <<stack, conf, mirror, raised>>
                  \/ c = "NETWORK_SCAN" /\ Enter("WIFI_SCAN", conf)
    BY <1>5
  <2>2. text' = "none" /\ command' \in Commands /\ command' \notin Confirmed
    BY <1>1, <2>1, FreeCommands DEF Emit
  <2>3. CASE UNCHANGED <<stack, conf, mirror, raised>>
    BY <2>2, <2>3, SameScreens, ReadyFacts DEF Outcome, TextInv, CommandCause
  <2>4. CASE c = "NETWORK_SCAN" /\ Enter("WIFI_SCAN", conf)
    <3>1. top = "NETWORK"
      BY <1>1, <2>1, <2>4, ScreenSet DEF Emits
    <3>2. "WIFI_SCAN" \in Screens /\ Depth(top) < Depth("WIFI_SCAN")
      BY <3>1, ScreenSet DEF Depth
    <3>3. Enter("WIFI_SCAN", NoConf)
      BY <2>4
    <3> QED
      BY <2>2, <3>2, <3>3, EnterOutcome DEF CommandCause
  <2> QED
    BY <2>1, <2>3, <2>4
<1>6. CASE /\ top \in {"NETWORK", "WIFI_SCAN"}
           /\ text' = IF top = "NETWORK" THEN "ssid" ELSE "password"
           /\ Enter("TEXT_ENTRY", conf) /\ Silent
  <2>1. "TEXT_ENTRY" \in Screens /\ Depth(top) < Depth("TEXT_ENTRY")
    BY <1>6, ScreenSet DEF Depth
  <2>2. Enter("TEXT_ENTRY", NoConf) /\ command' = "none"
    BY <1>6 DEF Silent
  <2> QED
    BY <1>2, <1>6, <2>1, <2>2, EnterOutcome
<1>7. CASE Quiet
  BY <1>7, QuietGood
<1> QED
  BY <1>3, <1>4, <1>5, <1>6, <1>7 DEF SelectItem

LEMMA SelectGood ==
    ASSUME UIReady, Select
    PROVE  Outcome
<1>1. CASE conf # NoConf
  BY <1>1, AnswerGood DEF Select
<1>2. CASE conf = NoConf /\ Top(stack) = "TEXT_ENTRY"
  <2>1. /\ raised' = (text = "none") /\ Show(stack, conf) /\ command' = "none" /\ text' = text
    BY <1>2 DEF Select, Silent
  <2>2. CommandCause /\ command' \in Commands \cup {"none"}
    BY <2>1, FreeCommands DEF CommandCause
  <2> QED
    BY <1>2, <2>1, <2>2, ReadyFacts, ShowOutcome
<1>3. CASE conf = NoConf /\ Top(stack) # "TEXT_ENTRY"
  BY <1>3, SelectItemGood DEF Select
<1> QED
  BY <1>1, <1>2, <1>3

LEMMA OnSelectGood ==
    ASSUME UIReady, OnSelect
    PROVE  Outcome
BY QuietGood, SelectGood DEF OnSelect

\* The text entry and, when one is below it, the list of networks are left.
LEMMA SubmitGood ==
    ASSUME UIReady, Top(stack) = "TEXT_ENTRY", Submit
    PROVE  Outcome
<1>1. /\ Len(stack) > 1 /\ conf = NoConf /\ text # "none" /\ raised' = FALSE
      /\ GoodStack(stack, Roots[page]) /\ stack \in Seq(Screens)
  BY ReadyFacts, TextFacts DEF Submit, GoodStack
<1>2. CASE text = "password"
  <2> DEFINE below == IF Len(stack) > 2 THEN Pop(Pop(stack)) ELSE Pop(stack)
  <2>1. Show(below, conf) /\ text' = "none" /\ command' = "NETWORK_CONNECT"
    BY <1>2 DEF Submit, ForgetText, Emit
  <2>2. GoodStack(Pop(stack), Roots[page]) /\ Len(Pop(stack)) = Len(stack) - 1
        /\ Top(Pop(stack)) # "TEXT_ENTRY"
    BY <1>1, PopGood
  <2>3. GoodStack(below, Roots[page]) /\ Top(below) # "TEXT_ENTRY"
    <3>1. CASE Len(stack) > 2
      <4>1. Len(Pop(stack)) > 1
        BY <1>1, <2>2, <3>1
      <4> QED
        BY <2>2, <3>1, <4>1, PopGood
    <3> QED
      BY <2>2, <3>1
  <2>4. CommandCause /\ command' \in Commands \cup {"none"}
    BY <2>1, FreeCommands DEF CommandCause
  <2>5. GoodConf(conf, below)
    BY <1>1 DEF GoodConf
  <2> HIDE DEF below
  <2> QED
    BY <1>1, <2>1, <2>3, <2>4, <2>5, ShowOutcome
<1>3. CASE text # "password"
  <2>1. Show(stack, conf) /\ command' = "none" /\ text' = "password"
    BY <1>1, <1>3, ReadyFacts DEF Submit, Silent
  <2>2. CommandCause /\ command' \in Commands \cup {"none"}
    BY <2>1, FreeCommands DEF CommandCause
  <2> QED
    BY <1>1, <2>1, <2>2, ReadyFacts, ShowOutcome
<1> QED
  BY <1>2, <1>3

LEMMA OnLongSelectGood ==
    ASSUME UIReady, OnLongSelect
    PROVE  Outcome
<1>1. CASE shared.latched /\ ~shared.estop
  <2>1. command' = "ESTOP_RECOVER" /\ UNCHANGED <<ui, raised>>
    BY <1>1 DEF OnLongSelect, Emit
  <2>2. command' \in Commands
    BY <2>1 DEF Commands, Confirmed, Asks, Screens, Targets
  <2> QED
    BY <1>1, <2>1, <2>2, SameScreens, ReadyFacts DEF Outcome, CommandCause, TextInv, ui
<1>2. CASE ~(shared.latched /\ ~shared.estop)
  BY <1>2, QuietGood, SubmitGood DEF OnLongSelect
<1> QED
  BY <1>1, <1>2

LEMMA LeaveGood ==
    ASSUME UIReady, raised' = FALSE, Leave, command' = "none"
    PROVE  Outcome
<1>1. CommandCause /\ command' \in Commands \cup {"none"}
  BY FreeCommands DEF CommandCause
<1>2. CASE conf # NoConf
  <2>1. Top(stack) # "TEXT_ENTRY" /\ text' = text /\ Show(stack, NoConf)
    BY <1>2, ReadyFacts, TextFacts DEF Leave
  <2> QED
    BY <1>1, <2>1, ReadyFacts, ShowOutcome DEF GoodConf
<1>3. CASE conf = NoConf /\ Top(stack) = "TEXT_ENTRY"
  <2>1. Show(Pop(stack), conf) /\ text' = "none" /\ Len(stack) > 1
    BY <1>3, ReadyFacts, TextFacts DEF Leave, ForgetText
  <2>2. GoodStack(Pop(stack), Roots[page]) /\ Top(Pop(stack)) # "TEXT_ENTRY"
    BY <2>1, ReadyFacts, PopGood
  <2> QED
    BY <1>1, <1>3, <2>1, <2>2, ShowOutcome DEF GoodConf
<1>4. CASE conf = NoConf /\ Top(stack) # "TEXT_ENTRY"
  <2> DEFINE below == IF Len(stack) > 1 THEN Pop(stack) ELSE stack
  <2>1. Show(below, conf) /\ text' = "none"
    BY <1>4, ReadyFacts DEF Leave
  <2>2. GoodStack(below, Roots[page]) /\ Top(below) # "TEXT_ENTRY"
    BY <1>4, ReadyFacts, PopGood
  <2>3. GoodConf(conf, below)
    BY <1>4 DEF GoodConf
  <2> HIDE DEF below
  <2> QED
    BY <1>1, <2>1, <2>2, <2>3, ShowOutcome
<1> QED
  BY <1>2, <1>3, <1>4

LEMMA RotateGood ==
    ASSUME UIReady, Rotate
    PROVE  Outcome
<1>1. raised' = FALSE /\ text' = text
  BY ReadyFacts DEF Rotate
<1>2. command' \in {"none", "JOG"} => CommandCause /\ command' \in Commands \cup {"none"}
  BY FreeCommands DEF CommandCause
<1> DEFINE mode == Mode(stack, conf, shared)
           turned == [conf EXCEPT !.accept = ~@, !.turned = TRUE]
<1>3. CASE mode = "MOTION"
  <2>1. command' = "JOG" /\ UNCHANGED <<stack, conf, mirror>>
    BY <1>3 DEF Rotate, Emit
  <2> QED
    BY <1>1, <1>2, <2>1, SameScreens, ReadyFacts DEF Outcome, TextInv
<1>4. CASE mode # "MOTION" /\ mode # "DISABLED" /\ conf # NoConf
  <2>1. Show(stack, turned) /\ command' = "none"
    BY <1>4 DEF Rotate, Silent
  <2>2. GoodConf(turned, stack)
    BY <1>4, ReadyFacts DEF GoodConf
  <2> HIDE DEF turned
  <2> QED
    BY <1>1, <1>2, <2>1, <2>2, ReadyFacts, ShowOutcome
<1>5. CASE mode # "MOTION" /\ ~(mode # "DISABLED" /\ conf # NoConf)
  BY <1>5, QuietGood DEF Rotate
<1> QED
  BY <1>3, <1>4, <1>5

LEMMA BackGood ==
    ASSUME UIReady, Back
    PROVE  Outcome
<1>1. command' = "none"
  BY DEF Back, Silent
<1>2. CommandCause /\ command' \in Commands \cup {"none"}
  BY <1>1, FreeCommands DEF CommandCause
<1>3. CASE Top(stack) = "TEXT_ENTRY"
  BY <1>2, <1>3, ReadyFacts, ShowOutcome DEF Back
<1>4. CASE Top(stack) # "TEXT_ENTRY"
  BY <1>1, <1>4, ReadyFacts, LeaveGood DEF Back
<1> QED
  BY <1>3, <1>4

LEMMA CancelGood ==
    ASSUME UIReady, Cancel
    PROVE  Outcome
<1>1. raised' = FALSE
  BY ReadyFacts DEF Cancel
<1>2. CASE Top(stack) = "HOME"
  BY <1>1, <1>2, SameScreens, ReadyFacts, FreeCommands
  DEF Cancel, Emit, ui, Outcome, CommandCause, TextInv
<1>3. CASE Top(stack) # "HOME"
  BY <1>1, <1>3, LeaveGood DEF Cancel, Silent
<1> QED
  BY <1>2, <1>3

LEMMA TouchHomeGood ==
    ASSUME UIReady, TouchHome
    PROVE  Outcome
<1>1. /\ command' = "none" /\ raised' = FALSE /\ text' = "none"
      /\ Show(<<Roots[page]>>, NoConf)
  BY ReadyFacts DEF TouchHome, Silent, ForgetText
<1>2. CommandCause /\ command' \in Commands \cup {"none"}
  BY <1>1, FreeCommands DEF CommandCause
<1>3. /\ GoodStack(<<Roots[page]>>, Roots[page]) /\ Top(<<Roots[page]>>) # "TEXT_ENTRY"
  BY ReadyFacts, RootGood, RootFacts
<1> DEFINE stk == <<Roots[page]>>
<1>4. GoodConf(NoConf, stk)
  BY DEF GoodConf
<1> HIDE DEF stk
<1> QED
  BY <1>1, <1>2, <1>3, <1>4, ShowOutcome DEF stk

LEMMA SelectorGood ==
    ASSUME StackInv, TextInv, ~raised, SelectorMoved
    PROVE  Outcome
<1>1. /\ command' = "none" /\ raised' = FALSE /\ text' = "none" /\ page' \in DOMAIN Roots
      /\ Show(<<Roots[page']>>, NoConf)
  BY DEF SelectorMoved, Silent, ForgetText, TextInv
<1>2. CommandCause /\ command' \in Commands \cup {"none"}
  BY <1>1, FreeCommands DEF CommandCause
<1> DEFINE stk == <<Roots[page']>>
<1>3. GoodStack(stk, Roots[page']) /\ Top(stk) # "TEXT_ENTRY" /\ GoodConf(NoConf, stk)
  BY <1>1, RootGood, RootFacts DEF GoodConf
<1>4. Show(stk, NoConf)
  BY <1>1
<1> HIDE DEF stk
<1>5. StackInv' /\ stack' = stk
  BY <1>1, <1>3, <1>4, ShowGood
<1> QED
  BY <1>1, <1>2, <1>3, <1>5 DEF Outcome, TextInv

LEMMA RefreshGood ==
    ASSUME UIReady, RefreshContext
    PROVE  Outcome
<1>1. command' = "none" /\ raised' = raised /\ text' = text /\ stack' = stack /\ conf' = conf
  BY DEF RefreshContext, Silent
<1>2. CommandCause /\ command' \in Commands \cup {"none"}
  BY <1>1, FreeCommands DEF CommandCause
<1>3. StackInv'
  BY <1>1, ReadyFacts, ModeFacts DEF RefreshContext, StackInv
<1> QED
  BY <1>1, <1>2, <1>3, ReadyFacts DEF Outcome, TextInv

-----------------------------------------------------------------------------
(* Steps of the button and of what is shared.                              *)

LEMMA UpdateGood ==
    ASSUME GoodButton, NEW active \in BOOLEAN, button' = Update(active)
    PROVE  GoodButton'
<1> DEFINE changed == IF active # button.raw THEN 0
                      ELSE IF button.changed < Debounce THEN button.changed + 1 ELSE Debounce
           flips == active # button.stable /\ changed >= Debounce
           stable == IF flips THEN active ELSE button.stable
           held == IF flips THEN 0
                   ELSE IF button.held < LongPress THEN button.held + 1 ELSE LongPress
           sent == AlreadySent(flips)
           long == stable /\ ~sent /\ held >= LongPress
           short == flips /\ ~stable /\ ~button.longSent
           given == (IF flips /\ stable THEN 0 ELSE button.given)
                      + (IF long THEN 1 ELSE 0) + (IF short THEN 1 ELSE 0)
<1>1. button' = [raw |-> active, stable |-> stable, changed |-> changed, held |-> held,
                 longSent |-> sent \/ long, given |-> given]
  BY DEF Update
<1>2. /\ Debounce \in Nat \ {0} /\ LongPress \in Nat \ {0}
      /\ button.raw \in BOOLEAN /\ button.stable \in BOOLEAN /\ button.longSent \in BOOLEAN
      /\ button.changed \in 0..Debounce /\ button.held \in 0..LongPress
      /\ button.given \in {0, 1}
      /\ button.stable /\ ~button.longSent => button.given = 0
  BY UIConstants DEF GoodButton
<1>3. flips \in BOOLEAN /\ stable \in BOOLEAN /\ changed \in 0..Debounce /\ held \in 0..LongPress
  BY <1>2
<1>4. sent = (button.longSent /\ ~flips) /\ sent \in BOOLEAN /\ long \in BOOLEAN
  BY <1>2, <1>3 DEF AlreadySent
<1>5. flips => ~long /\ ~sent
  BY <1>2, <1>4
<1>6. ~(long /\ short)
  BY <1>5
<1>7. CASE flips /\ stable
  <2>1. ~short /\ ~long /\ ~sent
    BY <1>5, <1>7
  <2>2. given = 0
    BY <1>7, <2>1
  <2> QED
    BY <1>1, <1>3, <1>4, <2>2 DEF GoodButton
<1>8. CASE flips /\ ~stable
  <2>1. button.stable /\ ~long
    BY <1>2, <1>5, <1>8
  <2>2. short => button.given = 0
    BY <1>2, <2>1
  <2>3. given = button.given + 0 + (IF short THEN 1 ELSE 0)
    BY <1>8, <2>1
  <2>4. given \in {0, 1}
    BY <1>2, <2>2, <2>3
  <2> QED
    BY <1>1, <1>3, <1>4, <1>8, <2>4 DEF GoodButton
<1>9. CASE ~flips
  <2>1. stable = button.stable /\ sent = button.longSent /\ ~short
    BY <1>2, <1>4, <1>9
  <2>2. given = button.given + (IF long THEN 1 ELSE 0)
    BY <1>2, <1>9, <2>1
  <2>3. long => button.given = 0
    BY <1>2, <2>1
  <2>4. given \in {0, 1} /\ (stable /\ ~(sent \/ long) => given = 0)
    BY <1>2, <2>1, <2>2, <2>3
  <2> QED
    BY <1>1, <1>3, <1>4, <2>4 DEF GoodButton
<1> QED
  BY <1>7, <1>8, <1>9

LEMMA RecoverGood ==
    ASSUME shared \in SharedSet, Recover
    PROVE  shared' \in SharedSet
BY DEF Recover, SharedSet

-----------------------------------------------------------------------------
(* The theorems.                                                           *)

LEMMA InitInv == Init => Inv
<1> SUFFICES ASSUME Init PROVE Inv
  OBVIOUS
<1>1. stack = <<"HOME">> /\ Roots[page] = "HOME" /\ page \in DOMAIN Roots
  BY DEF Init, Roots
<1>2. GoodStack(stack, Roots[page]) /\ Top(stack) # "TEXT_ENTRY"
  BY <1>1, RootGood
<1>3. StackInv /\ TextInv
  BY <1>1, <1>2 DEF Init, StackInv, TextInv, GoodConf, WheelModes
<1>4. GoodButton
  BY UIConstants DEF Init, GoodButton
<1> QED
  BY <1>3, <1>4 DEF Init, Inv, SharedType, SharedSet

\* The handlers, one by one.
LEMMA StepOutcome ==
    ASSUME Inv, Next
    PROVE  Outcome /\ SharedType' /\ GoodButton'
<1> USE DEF Inv
<1>1. ~raised /\ StackInv /\ TextInv /\ shared \in SharedSet
  BY DEF Next, SharedType
<1>2. CASE PollButton
  <2>1. UIReady
    BY <1>1, <1>2 DEF PollButton, UIReady
  <2>2. Outcome
    BY <1>2, <2>1, OnSelectGood, OnLongSelectGood, QuietGood DEF PollButton
  <2>3. shared' \in SharedSet
    BY <1>1, <1>2, RecoverGood DEF PollButton
  <2>4. GoodButton'
    BY <1>2, UpdateGood DEF PollButton
  <2> QED
    BY <2>2, <2>3, <2>4 DEF Outcome, SharedType
<1>3. CASE Rotate \/ Back \/ Cancel \/ TouchHome
  <2>1. UIReady /\ shared' = shared /\ button' = button
    BY <1>1, <1>3 DEF Rotate, Back, Cancel, TouchHome, Handling, UIReady
  <2>2. Outcome
    BY <1>3, <2>1, RotateGood, BackGood, CancelGood, TouchHomeGood
  <2> QED
    BY <1>1, <2>1, <2>2 DEF Outcome, SharedType, GoodButton
<1>4. CASE TouchSelect \/ TouchHold
  <2>1. UIReady /\ Recover /\ button' = button
    BY <1>1, <1>4 DEF TouchSelect, TouchHold, UIReady
  <2>2. Outcome
    BY <1>4, <2>1, OnSelectGood, OnLongSelectGood DEF TouchSelect, TouchHold
  <2>3. shared' \in SharedSet
    BY <1>1, <2>1, RecoverGood
  <2> QED
    BY <2>1, <2>2, <2>3 DEF Outcome, SharedType, GoodButton
<1>5. CASE SelectorMoved
  <2>1. Outcome
    BY <1>1, <1>5, SelectorGood
  <2>2. shared' = shared /\ button' = button
    BY <1>5 DEF SelectorMoved
  <2> QED
    BY <1>1, <2>1, <2>2 DEF Outcome, SharedType, GoodButton
<1>6. CASE SharedChanges
  <2>1. UIReady /\ Quiet /\ button' = button /\ shared' \in SharedSet
    BY <1>1, <1>6 DEF SharedChanges, UIReady, Quiet, Silent, SharedSet
  <2>2. Outcome
    BY <2>1, QuietGood
  <2> QED
    BY <2>1, <2>2 DEF Outcome, SharedType, GoodButton
<1>7. CASE RefreshContext
  <2>1. UIReady /\ shared' = shared /\ button' = button
    BY <1>1, <1>7 DEF RefreshContext, UIReady
  <2>2. Outcome
    BY <1>7, <2>1, RefreshGood
  <2> QED
    BY <1>1, <2>1, <2>2 DEF Outcome, SharedType, GoodButton
<1> QED
  BY <1>2, <1>3, <1>4, <1>5, <1>6, <1>7 DEF Next

LEMMA InvStep == Inv /\ [Next]_vars => Inv'
<1> SUFFICES ASSUME Inv, [Next]_vars PROVE Inv'
  OBVIOUS
<1>1. CASE Next
  BY <1>1, StepOutcome DEF Inv, Outcome
<1>2. CASE UNCHANGED vars
  BY <1>2 DEF vars, Inv, StackInv, TextInv, SharedType, GoodButton
<1> QED
  BY <1>1, <1>2

LEMMA Invariance == Spec => []Inv
BY InitInv, InvStep, PTL DEF Spec

\* Every variable keeps its type, whatever the limit of the stack and the two
\* times of the button are.
THEOREM UITypeCorrect == Spec => []TypeOK
<1>1. Inv => TypeOK
  <2> SUFFICES ASSUME Inv PROVE TypeOK
    OBVIOUS
  <2>1. conf \in [command : Confirmed \cup {"none"}, accept : BOOLEAN,
                  screen : Screens \cup {"none"}, turned : BOOLEAN]
    <3>1. GoodConf(conf, stack)
      BY DEF Inv, StackInv
    <3>2. NoConf \in [command : Confirmed \cup {"none"}, accept : BOOLEAN,
                      screen : Screens \cup {"none"}, turned : BOOLEAN]
      BY DEF NoConf
    <3> QED
      BY <3>1, <3>2 DEF GoodConf
  <2> QED
    BY <2>1 DEF Inv, StackInv, GoodStack, TextInv, SharedType, SharedSet, GoodButton, TypeOK,
                WheelModes
<1> QED
  BY <1>1, Invariance, PTL

\* With room for six screens, which the menus' deepest path takes and of which
\* the code has eight, no sequence of presses, touches and selector moves makes
\* the user interface raise.
THEOREM UINavigationAlive ==
    ASSUME MaxStack >= 6
    PROVE  Spec => []NavigationAlive
<1> DEFINE Alive == Inv /\ ~raised
<1>1. Init => Alive
  BY InitInv DEF Init
<1>2. Alive /\ [Next]_vars => Alive'
  <2> SUFFICES ASSUME Alive, [Next]_vars PROVE Alive'
    OBVIOUS
  <2>1. CASE Next
    BY <2>1, StepOutcome, InvStep DEF Outcome
  <2>2. CASE UNCHANGED vars
    BY <2>2, InvStep DEF vars
  <2> QED
    BY <2>1, <2>2
<1>3. Alive => NavigationAlive
  BY DEF Inv, TextInv, NavigationAlive
<1> HIDE DEF Alive
<1> QED
  BY <1>1, <1>2, <1>3, PTL DEF Spec

\* The safety policy reads MOTION only while HOME is the only screen, nothing
\* is being confirmed and the selector is at OPERATIONAL.
THEOREM UIMotionOwner == Spec => []MotionOwner
<1>1. Inv => MotionOwner
  <2> SUFFICES ASSUME Inv, mirror = "MOTION"
               PROVE  stack = <<"HOME">> /\ conf = NoConf /\ page = "OPERATIONAL"
    BY DEF MotionOwner
  <2>1. Top(stack) = "HOME" /\ conf = NoConf /\ page \in DOMAIN Roots
        /\ GoodStack(stack, Roots[page])
    BY DEF Inv, StackInv
  <2>2. Len(stack) = 1 /\ Roots[page] = "HOME"
    BY <2>1, TopFacts
  <2>3. page = "OPERATIONAL"
    BY <2>1, <2>2, RootFacts
  <2>4. stack \in Seq(Screens) /\ stack[1] = "HOME"
    BY <2>1, <2>2 DEF GoodStack
  <2>5. stack = <<"HOME">>
    BY <2>2, <2>4
  <2> QED
    BY <2>1, <2>3, <2>5
<1> QED
  BY <1>1, Invariance, PTL

\* One stable press of SELECT gives one event, for every debounce and
\* long-press time of at least a poll.
THEOREM UIOnePressOneEvent == Spec => []OnePressOneEvent
<1>1. Inv => OnePressOneEvent
  BY DEF Inv, GoodButton, OnePressOneEvent
<1> QED
  BY <1>1, Invariance, PTL

\* A command that needs confirmation is emitted for the confirmation opened on
\* the screen still shown and turned since, or is the long press's recovery.
THEOREM UIConfirmedCommand == Spec => ConfirmedCommand
<1>1. Inv /\ [Next]_vars =>
        [command' \in Confirmed =>
           \/ command' = conf.command /\ conf.screen = Top(stack) /\ conf.turned
           \/ command' = "ESTOP_RECOVER" /\ shared.latched /\ ~shared.estop]_vars
  BY StepOutcome DEF Outcome, CommandCause
<1> QED
  BY <1>1, Invariance, PTL DEF Spec, ConfirmedCommand
=============================================================================
