------------------------------ MODULE SceneUI -------------------------------
(***************************************************************************)
(* The user interface of the station, src/applications/main.c: the main    *)
(* thread runs mainFunc once per turn of its loop, and the interrupts of   *)
(* the two keys change the variables mainFunc switches on, at any point of *)
(* it, with no lock.                                                       *)
(*                                                                         *)
(* A step of the main thread goes from one access of a shared variable to  *)
(* the next, in program order.  Accesses are joined only where no key      *)
(* handler can tell them apart: the test of a flag and its reset (a        *)
(* handler only sets a flag, so one that runs between them could as well   *)
(* have run before the test), and two stores of which a handler writes     *)
(* one.  The EXTI interrupts share one priority and do not nest: a handler *)
(* is one step.                                                            *)
(*                                                                         *)
(* A handler pair is named after the page it serves: handler[1] = "disp"   *)
(* is key1_irq_DISP_DATA, handler[2] = "disp" is key2_irq_DISP_DATA.       *)
(* prevScene, prevSetting and prevDelay are written and never read; they   *)
(* are left out.                                                           *)
(***************************************************************************)
EXTENDS Naturals, PinIrq

CONSTANTS
    LastSetting,    \* SETTING_BACK, the last row of the settings page: 7
    LastDelay       \* DELAY_BACK, the last row of the delay page: 7

\* A list has at least one row to choose above its BACK row.
ASSUME RowsAssumption ==
    /\ LastSetting \in Nat /\ LastSetting > 1
    /\ LastDelay \in Nat /\ LastDelay > 1

VARIABLES
    pc,                     \* where the main thread is
    at,                     \* the value a switch of mainFunc is acting on
    page,                   \* the page being bound and drawn
    handler,                \* pin_irq_hdr_tab for KEY1 and KEY2
    screen,                 \* the page and the cursor on the LCD
    currScene, scene_isChanged, selectScene, sceneSelect_isChanged,
    currSetting, setting_isChanged, selectSetting, settingSelect_isChanged,
    currDelay, delay_isChanged, selectDelay, delaySelect_isChanged,
    isSavingData, isEjecting

sceneVars   == <<currScene, scene_isChanged, selectScene,
                 sceneSelect_isChanged>>
settingVars == <<currSetting, setting_isChanged, selectSetting,
                 settingSelect_isChanged>>
delayVars   == <<currDelay, delay_isChanged, selectDelay,
                 delaySelect_isChanged>>
taskVars    == <<isSavingData, isEjecting>>
uiVars      == <<handler, screen>>
mainVars    == <<pc, at, page>>
vars == <<mainVars, uiVars, sceneVars, settingVars, delayVars, taskVars>>

-----------------------------------------------------------------------------
(* The enumerations of main.c. *)

MENU     == 0
DISP     == 1
PHOTO    == 2
SDCARD   == 3
SETTINGS == 4
NO       == 0       \* SETTING_NO, DELAY_NO: the list itself

Scenes == MENU .. SETTINGS
Keys   == {1, 2}
Lists  == {"menu", "setting", "delay"}
Pages  == Lists \cup {"disp", "photo", "sd"}

MainPoints ==
    {"loop", "scene", "menu", "cursor", "prepSetting", "photo", "disp",
     "save", "sd", "eject", "detach1", "attach1", "detach2", "attach2",
     "draw", "setting", "settingTest", "prepDelay", "resetSetting",
     "resetSettingRow", "resetSettingFlag", "delay", "delayTest",
     "backToSetting", "resetDelay", "resetDelayRow", "resetDelayFlag"}

\* Between the first and the last change of the handler pair.
Binding == {"attach1", "detach2", "attach2"}

\* The page of a scene that is not SETTINGS, which has two.
PageOf(scene) ==
    CASE scene = MENU   -> "menu"
      [] scene = DISP   -> "disp"
      [] scene = PHOTO  -> "photo"
      [] OTHER          -> "sd"

\* Faulty variant: the wrap to the title row is not corrected.
NextRowFrom0(row, last) == IF row + 1 > last THEN 0 ELSE row + 1

\* Faulty variant: the last row is never reached.
NextRowShort(row, last) == IF row + 1 >= last THEN 1 ELSE row + 1

\* K1 moves the cursor of a list with rows 1 .. last, and wraps to row 1.
NextRow(row, last) == IF row + 1 > last THEN 1 ELSE row + 1

\* The row the cursor of a list is drawn on, by its ..._updateSelect.
CursorOf(list) ==
    CASE list = "menu"    -> selectScene
      [] list = "setting" -> selectSetting
      [] OTHER            -> selectDelay

Init ==
    /\ pc = "loop" /\ at = MENU /\ page = "menu"
    /\ handler = [k \in Keys |-> "change"]
    /\ screen = [page |-> "boot", list |-> "menu", row |-> 0]
    /\ currScene = MENU /\ scene_isChanged = TRUE
    /\ selectScene = DISP /\ sceneSelect_isChanged = FALSE
    /\ currSetting = LastSetting /\ setting_isChanged = TRUE
    /\ selectSetting = 1 /\ settingSelect_isChanged = FALSE
    /\ currDelay = LastDelay /\ delay_isChanged = TRUE
    /\ selectDelay = 1 /\ delaySelect_isChanged = FALSE
    /\ isSavingData = FALSE /\ isEjecting = FALSE

-----------------------------------------------------------------------------
(* mainFunc *)

Goto(from, to) == pc = from /\ pc' = to

\* switch (currScene)
SwitchScene ==
    /\ Goto("loop", "scene")
    /\ at' = currScene
    /\ UNCHANGED <<page, uiVars, sceneVars, settingVars, delayVars, taskVars>>

\* if (scene_isChanged): the flag is reset and the keys are rebound, or, for
\* SETTINGS, the setting list is prepared with the old keys still bound.
SceneChanged ==
    /\ pc = "scene" /\ scene_isChanged
    /\ scene_isChanged' = FALSE
    /\ IF at = SETTINGS
       THEN pc' = "prepSetting" /\ page' = page
       ELSE pc' = "detach1" /\ page' = PageOf(at)
    /\ UNCHANGED <<at, uiVars, currScene, selectScene, sceneSelect_isChanged,
                   settingVars, delayVars, taskVars>>

\* The else branch, by scene.
SceneUnchanged ==
    /\ pc = "scene" /\ ~scene_isChanged
    /\ pc' = CASE at = MENU   -> "menu"
               [] at = DISP   -> "disp"
               [] at = PHOTO  -> "photo"
               [] at = SDCARD -> "sd"
               [] OTHER       -> "setting"
    /\ UNCHANGED <<at, page, uiVars, sceneVars, settingVars, delayVars,
                   taskVars>>

\* The cursor of a list moved: its flag is reset before the cursor is drawn.
MenuSelect ==
    /\ pc = "menu"
    /\ IF sceneSelect_isChanged
       THEN pc' = "cursor" /\ page' = "menu"
       ELSE pc' = "loop" /\ page' = page
    /\ sceneSelect_isChanged' = FALSE
    /\ UNCHANGED <<at, uiVars, currScene, scene_isChanged, selectScene,
                   settingVars, delayVars, taskVars>>

\* prepare to enter setting
PrepareSetting ==
    /\ Goto("prepSetting", "loop")
    /\ currSetting' = NO
    /\ settingSelect_isChanged' = TRUE
    /\ UNCHANGED <<at, page, uiVars, sceneVars, setting_isChanged,
                   selectSetting, delayVars, taskVars>>

\* TAKE_PHOTO_task: a frame is drawn if the camera has one.
TakePhoto ==
    /\ Goto("photo", "loop")
    /\ screen' \in {screen, [screen EXCEPT !.page = "photo"]}
    /\ UNCHANGED <<at, page, handler, sceneVars, settingVars,
                   delayVars, taskVars>>

\* if (isSavingData == RT_TRUE), in the DISP_DATA scene.
TestSave ==
    /\ pc = "disp"
    /\ pc' = IF isSavingData THEN "save" ELSE "loop"
    /\ isSavingData' = FALSE
    /\ UNCHANGED <<at, page, uiVars, sceneVars, settingVars, delayVars,
                   isEjecting>>

\* sdcard_saveCurrData, whose storage side is module DataLog.
Save ==
    /\ Goto("save", "loop")
    /\ UNCHANGED <<at, page, uiVars, sceneVars, settingVars, delayVars,
                   taskVars>>

\* if (isEjecting == RT_TRUE), in the SD_CARD scene.
TestEject ==
    /\ pc = "sd"
    /\ pc' = IF isEjecting THEN "eject" ELSE "loop"
    /\ isEjecting' = FALSE
    /\ UNCHANGED <<at, page, uiVars, sceneVars, settingVars, delayVars,
                   isSavingData>>

\* SD_CARD_eject, whose storage side is module DataLog.
Eject ==
    /\ Goto("eject", "loop")
    /\ UNCHANGED <<at, page, uiVars, sceneVars, settingVars, delayVars,
                   taskVars>>

-----------------------------------------------------------------------------
(* Rebinding: five driver calls and the drawing, for the page at hand.     *)
(* rt_pin_irq_enable changes nothing here: both lines are enabled from     *)
(* key_embedded_init on and are never disabled.                            *)

Detach1 ==
    /\ Goto("detach1", "attach1")
    /\ handler' = Detach(handler, 1)
    /\ UNCHANGED <<at, page, screen, sceneVars, settingVars, delayVars,
                   taskVars>>

Attach1 ==
    /\ Goto("attach1", "detach2")
    /\ handler' = Attach(handler, 1, page)
    /\ UNCHANGED <<at, page, screen, sceneVars, settingVars, delayVars,
                   taskVars>>

\* Faulty variant: the old handler is not detached, and Attach2 is refused.
Detach2Missing ==
    /\ Goto("detach2", "attach2")
    /\ UNCHANGED <<at, page, uiVars, sceneVars, settingVars, delayVars,
                   taskVars>>

Detach2 ==
    /\ Goto("detach2", "attach2")
    /\ handler' = Detach(handler, 2)
    /\ UNCHANGED <<at, page, screen, sceneVars, settingVars, delayVars,
                   taskVars>>

\* Faulty variant: the handler of KEY2 is attached to KEY1.
Attach2WrongKey ==
    /\ Goto("attach2", "draw")
    /\ handler' = Attach(handler, 1, page)
    /\ UNCHANGED <<at, page, screen, sceneVars, settingVars, delayVars,
                   taskVars>>

Attach2 ==
    /\ Goto("attach2", "draw")
    /\ handler' = Attach(handler, 2, page)
    /\ UNCHANGED <<at, page, screen, sceneVars, settingVars, delayVars,
                   taskVars>>

\* Faulty variant: SD_CARD, like TAKE_PHOTO, is entered without drawing.
DrawNotSd ==
    /\ Goto("draw", "loop")
    /\ screen' = CASE page \in {"photo", "sd"} -> screen
                   [] page \in Lists  -> [page |-> page, list |-> page,
                                          row |-> CursorOf(page)]
                   [] OTHER           -> [screen EXCEPT !.page = page]
    /\ UNCHANGED <<at, page, handler, sceneVars, settingVars, delayVars,
                   taskVars>>

\* The ..._task of the page.  TAKE_PHOTO draws nothing when it is entered;
\* MENU_task, SETTINGS_task and SETTINGS_DELAY_task draw their cursor.
Draw ==
    /\ Goto("draw", "loop")
    /\ screen' = CASE page = "photo"  -> screen
                   [] page \in Lists  -> [page |-> page, list |-> page,
                                          row |-> CursorOf(page)]
                   [] OTHER           -> [screen EXCEPT !.page = page]
    /\ UNCHANGED <<at, page, handler, sceneVars, settingVars, delayVars,
                   taskVars>>

\* MENU_updateSelect, SETTINGS_updateSelect, SETTINGS_DELAY_updateSelect.
DrawCursor ==
    /\ Goto("cursor", "loop")
    /\ screen' = [screen EXCEPT !.list = page, !.row = CursorOf(page)]
    /\ UNCHANGED <<at, page, handler, sceneVars, settingVars,
                   delayVars, taskVars>>

-----------------------------------------------------------------------------
(* enter_SETTING *)

\* switch (currSetting)
SwitchSetting ==
    /\ Goto("setting", "settingTest")
    /\ at' = currSetting
    /\ UNCHANGED <<page, uiVars, sceneVars, settingVars, delayVars, taskVars>>

\* case SETTING_NO: rebind the keys for the list, or redraw its cursor.
SettingList ==
    /\ pc = "settingTest" /\ at = NO
    /\ \/ /\ setting_isChanged
          /\ setting_isChanged' = FALSE
          /\ pc' = "detach1" /\ page' = "setting"
          /\ UNCHANGED settingSelect_isChanged
       \/ /\ ~setting_isChanged
          /\ settingSelect_isChanged' = FALSE
          /\ IF settingSelect_isChanged
             THEN pc' = "cursor" /\ page' = "setting"
             ELSE pc' = "loop" /\ page' = page
          /\ UNCHANGED setting_isChanged
    /\ UNCHANGED <<at, uiVars, sceneVars, currSetting, selectSetting,
                   delayVars, taskVars>>

\* case SETTING_HMC5883L ... SETTING_AUTO_SAVE: prepare to enter delay, or
\* go on to the delay list.
SettingChosen ==
    /\ pc = "settingTest" /\ at \in 1 .. LastSetting - 1
    /\ pc' = IF setting_isChanged THEN "prepDelay" ELSE "delay"
    /\ setting_isChanged' = FALSE
    /\ UNCHANGED <<at, page, uiVars, sceneVars, currSetting, selectSetting,
                   settingSelect_isChanged, delayVars, taskVars>>

PrepareDelay ==
    /\ Goto("prepDelay", "loop")
    /\ currDelay' = NO
    /\ delaySelect_isChanged' = TRUE
    /\ UNCHANGED <<at, page, uiVars, sceneVars, settingVars, delay_isChanged,
                   selectDelay, taskVars>>

\* case SETTING_BACK: leave for the menu, then reset the parameters.
SettingBack ==
    /\ pc = "settingTest" /\ at = LastSetting
    /\ pc' = "resetSetting"
    /\ currScene' = MENU /\ scene_isChanged' = TRUE
    /\ UNCHANGED <<at, page, uiVars, selectScene, sceneSelect_isChanged,
                   settingVars, delayVars, taskVars>>

\* Faulty variant: setting_isChanged is reset like settingSelect_isChanged.
ResetSettingCleared ==
    /\ Goto("resetSetting", "resetSettingRow")
    /\ currSetting' = LastSetting /\ setting_isChanged' = FALSE
    /\ UNCHANGED <<at, page, uiVars, sceneVars, selectSetting,
                   settingSelect_isChanged, delayVars, taskVars>>

ResetSetting ==
    /\ Goto("resetSetting", "resetSettingRow")
    /\ currSetting' = LastSetting /\ setting_isChanged' = TRUE
    /\ UNCHANGED <<at, page, uiVars, sceneVars, selectSetting,
                   settingSelect_isChanged, delayVars, taskVars>>

ResetSettingRow ==
    /\ Goto("resetSettingRow", "resetSettingFlag")
    /\ selectSetting' = 1
    /\ UNCHANGED <<at, page, uiVars, sceneVars, currSetting,
                   setting_isChanged, settingSelect_isChanged, delayVars,
                   taskVars>>

ResetSettingFlag ==
    /\ Goto("resetSettingFlag", "resetDelay")
    /\ settingSelect_isChanged' = FALSE
    /\ UNCHANGED <<at, page, uiVars, sceneVars, currSetting,
                   setting_isChanged, selectSetting, delayVars, taskVars>>

-----------------------------------------------------------------------------
(* enter_SETTING_DELAY *)

\* switch (currDelay)
SwitchDelay ==
    /\ Goto("delay", "delayTest")
    /\ at' = currDelay
    /\ UNCHANGED <<page, uiVars, sceneVars, settingVars, delayVars, taskVars>>

\* case DELAY_NO: rebind the keys for the list, or redraw its cursor.
DelayList ==
    /\ pc = "delayTest" /\ at = NO
    /\ \/ /\ delay_isChanged
          /\ delay_isChanged' = FALSE
          /\ pc' = "detach1" /\ page' = "delay"
          /\ UNCHANGED delaySelect_isChanged
       \/ /\ ~delay_isChanged
          /\ delaySelect_isChanged' = FALSE
          /\ IF delaySelect_isChanged
             THEN pc' = "cursor" /\ page' = "delay"
             ELSE pc' = "loop" /\ page' = page
          /\ UNCHANGED delay_isChanged
    /\ UNCHANGED <<at, uiVars, sceneVars, settingVars, currDelay, selectDelay,
                   taskVars>>

\* case DELAY_0_5 ... DELAY_60: config_delay announces " Delay for this
\* peripheral is changed!" and assigns no ..._DELAY; then, as in case
\* DELAY_BACK, the setting list is shown again and the delay list reset.
ConfigDelay ==
    /\ pc = "delayTest" /\ at \in 1 .. LastDelay - 1
    /\ pc' = "backToSetting"
    /\ UNCHANGED <<at, page, uiVars, sceneVars, settingVars, delayVars,
                   taskVars>>

DelayBack ==
    /\ pc = "delayTest" /\ at = LastDelay
    /\ pc' = "backToSetting"
    /\ UNCHANGED <<at, page, uiVars, sceneVars, settingVars, delayVars,
                   taskVars>>

\* Faulty variant: the setting list is not asked for.
BackToSettingSilent ==
    /\ Goto("backToSetting", "resetDelay")
    /\ currSetting' = NO
    /\ UNCHANGED <<at, page, uiVars, sceneVars, setting_isChanged,
                   selectSetting, settingSelect_isChanged, delayVars,
                   taskVars>>

BackToSetting ==
    /\ Goto("backToSetting", "resetDelay")
    /\ currSetting' = NO /\ setting_isChanged' = TRUE
    /\ UNCHANGED <<at, page, uiVars, sceneVars, selectSetting,
                   settingSelect_isChanged, delayVars, taskVars>>

ResetDelay ==
    /\ Goto("resetDelay", "resetDelayRow")
    /\ currDelay' = LastDelay /\ delay_isChanged' = TRUE
    /\ UNCHANGED <<at, page, uiVars, sceneVars, settingVars, selectDelay,
                   delaySelect_isChanged, taskVars>>

ResetDelayRow ==
    /\ Goto("resetDelayRow", "resetDelayFlag")
    /\ selectDelay' = 1
    /\ UNCHANGED <<at, page, uiVars, sceneVars, settingVars, currDelay,
                   delay_isChanged, delaySelect_isChanged, taskVars>>

ResetDelayFlag ==
    /\ Goto("resetDelayFlag", "loop")
    /\ delaySelect_isChanged' = FALSE
    /\ UNCHANGED <<at, page, uiVars, sceneVars, settingVars, currDelay,
                   delay_isChanged, selectDelay, taskVars>>

-----------------------------------------------------------------------------
(* The key interrupts.  A press on a line with no handler, one on a line   *)
(* that still has key_embedded.c's key1_change or key2_change, and K1 in   *)
(* TAKE_PHOTO change nothing the program reads: they stutter.              *)

Key1Menu ==
    /\ handler[1] = "menu"
    /\ sceneSelect_isChanged' = TRUE
    /\ selectScene' = NextRow(selectScene, SETTINGS)
    /\ UNCHANGED <<mainVars, uiVars, currScene, scene_isChanged, settingVars,
                   delayVars, taskVars>>

\* Faulty variant: the scene changes and the main thread is not told.
Key2MenuSilent ==
    /\ handler[2] = "menu"
    /\ currScene' = selectScene
    /\ UNCHANGED <<mainVars, uiVars, scene_isChanged, selectScene,
                   sceneSelect_isChanged, settingVars, delayVars, taskVars>>

Key2Menu ==
    /\ handler[2] = "menu"
    /\ scene_isChanged' = TRUE
    /\ currScene' = selectScene
    /\ UNCHANGED <<mainVars, uiVars, selectScene, sceneSelect_isChanged,
                   settingVars, delayVars, taskVars>>

\* Faulty variant: the flag of the other page is set.
Key1DispEjects ==
    /\ handler[1] = "disp"
    /\ isEjecting' = TRUE
    /\ UNCHANGED <<mainVars, uiVars, sceneVars, settingVars, delayVars,
                   isSavingData>>

Key1Disp ==
    /\ handler[1] = "disp"
    /\ isSavingData' = TRUE
    /\ UNCHANGED <<mainVars, uiVars, sceneVars, settingVars, delayVars,
                   isEjecting>>

Key1Sd ==
    /\ handler[1] = "sd"
    /\ isEjecting' = TRUE
    /\ UNCHANGED <<mainVars, uiVars, sceneVars, settingVars, delayVars,
                   isSavingData>>

\* key2_irq_DISP_DATA, key2_irq_TAKE_PHOTO, key2_irq_SD_CARD: back to the
\* menu; what K1 asked for on this page stays asked for.
Key2Leave ==
    /\ handler[2] \in {"disp", "photo", "sd"}
    /\ scene_isChanged' = TRUE
    /\ currScene' = MENU
    /\ UNCHANGED <<mainVars, uiVars, selectScene,
                   sceneSelect_isChanged, settingVars, delayVars, taskVars>>

\* Faulty variant: the cursor moves and the main thread is not told.
Key1SettingSilent ==
    /\ handler[1] = "setting"
    /\ selectSetting' = NextRow(selectSetting, LastSetting)
    /\ UNCHANGED <<mainVars, uiVars, sceneVars, currSetting,
                   setting_isChanged, settingSelect_isChanged, delayVars,
                   taskVars>>

Key1Setting ==
    /\ handler[1] = "setting"
    /\ settingSelect_isChanged' = TRUE
    /\ selectSetting' = NextRow(selectSetting, LastSetting)
    /\ UNCHANGED <<mainVars, uiVars, sceneVars, currSetting,
                   setting_isChanged, delayVars, taskVars>>

Key2Setting ==
    /\ handler[2] = "setting"
    /\ setting_isChanged' = TRUE
    /\ currSetting' = selectSetting
    /\ UNCHANGED <<mainVars, uiVars, sceneVars, selectSetting,
                   settingSelect_isChanged, delayVars, taskVars>>

Key1Delay ==
    /\ handler[1] = "delay"
    /\ delaySelect_isChanged' = TRUE
    /\ selectDelay' = NextRow(selectDelay, LastDelay)
    /\ UNCHANGED <<mainVars, uiVars, sceneVars, settingVars, currDelay,
                   delay_isChanged, taskVars>>

Key2Delay ==
    /\ handler[2] = "delay"
    /\ delay_isChanged' = TRUE
    /\ currDelay' = selectDelay
    /\ UNCHANGED <<mainVars, uiVars, sceneVars, settingVars, selectDelay,
                   delaySelect_isChanged, taskVars>>

-----------------------------------------------------------------------------
MainFunc ==
    \/ SwitchScene \/ SceneChanged \/ SceneUnchanged
    \/ MenuSelect \/ PrepareSetting \/ TakePhoto
    \/ TestSave \/ Save \/ TestEject \/ Eject

Rebind ==
    \/ Detach1 \/ Attach1 \/ Detach2 \/ Attach2 \/ Draw \/ DrawCursor

EnterSetting ==
    \/ SwitchSetting \/ SettingList \/ SettingChosen \/ PrepareDelay
    \/ SettingBack \/ ResetSetting \/ ResetSettingRow \/ ResetSettingFlag

EnterDelay ==
    \/ SwitchDelay \/ DelayList \/ ConfigDelay \/ DelayBack \/ BackToSetting
    \/ ResetDelay \/ ResetDelayRow \/ ResetDelayFlag

MainThread == MainFunc \/ Rebind \/ EnterSetting \/ EnterDelay

KeyPress ==
    \/ Key1Menu \/ Key2Menu \/ Key1Disp \/ Key1Sd \/ Key2Leave
    \/ Key1Setting \/ Key2Setting \/ Key1Delay \/ Key2Delay

Next == MainThread \/ KeyPress

\* The main thread has priority 10, above the shell, and no call of mainFunc
\* blocks for ever: it keeps running.  Nothing makes a user press a key.
Spec == Init /\ [][Next]_vars /\ WF_vars(MainThread)

-----------------------------------------------------------------------------
(* Properties *)

FlagsOK ==
    /\ scene_isChanged \in BOOLEAN /\ sceneSelect_isChanged \in BOOLEAN
    /\ setting_isChanged \in BOOLEAN /\ settingSelect_isChanged \in BOOLEAN
    /\ delay_isChanged \in BOOLEAN /\ delaySelect_isChanged \in BOOLEAN
    /\ isSavingData \in BOOLEAN /\ isEjecting \in BOOLEAN

ValuesOK ==
    /\ pc \in MainPoints
    /\ at \in Scenes \cup 0 .. LastSetting \cup 0 .. LastDelay
    /\ page \in Pages /\ (pc = "cursor" => page \in Lists)
    /\ handler \in [Keys -> Pages \cup {"change", NoHandler}]
    /\ screen \in [page : Pages \cup {"boot"}, list : Lists, row : Nat]
    /\ currScene \in Scenes /\ selectScene \in DISP .. SETTINGS
    /\ currSetting \in NO .. LastSetting /\ selectSetting \in 1 .. LastSetting
    /\ currDelay \in NO .. LastDelay /\ selectDelay \in 1 .. LastDelay

\* Type invariant: the cursor of a list never rests on row 0, its title.
TypeOK == FlagsOK /\ ValuesOK

\* Whenever the main thread is not between the two rebindings of mainFunc,
\* enter_SETTING or enter_SETTING_DELAY, both keys serve the same page and
\* neither is dead, whatever the presses that came in between.
KeysPaired ==
    pc \notin Binding =>
        handler[1] = handler[2] /\ handler[1] # NoHandler

\* Once the page is drawn, the LCD shows the page the keys serve.  (A photo
\* is drawn over whatever is there, and TAKE_PHOTO draws nothing itself.)
ScreenMatchesKeys ==
    pc \notin Binding \cup {"draw"} =>
        handler[1] \in {"photo", "change"}
        \/ screen.page \in {handler[1], "photo"}

Shown(list) ==
    /\ screen.page = list /\ screen.list = list
    /\ handler[1] = list /\ pc # "cursor"

\* No move of a cursor is lost: while a list is shown and served, its
\* cursor is drawn on the selected row or its ..._isChanged flag is set, so
\* that K2 never enters a row other than the one the user will see.
CursorFresh ==
    /\ Shown("menu") => sceneSelect_isChanged \/ screen.row = selectScene
    /\ Shown("setting") /\ currScene = SETTINGS /\ currSetting = NO =>
           settingSelect_isChanged \/ screen.row = selectSetting
    /\ Shown("delay") /\ currScene = SETTINGS /\ currDelay = NO =>
           delaySelect_isChanged \/ screen.row = selectDelay

\* The user interface at rest.
Settled ==
    /\ ~scene_isChanged
    /\ handler[1] = handler[2] /\ handler[1] \in Pages
    /\ handler[1] = "photo" \/ screen.page \in {handler[1], "photo"}
    /\ handler[1] = "menu" /\ currScene = MENU => screen.row = selectScene

\* When the keys are left alone, the main thread brings the flags, the
\* handler pair, the page and the menu's cursor into agreement for good.
Settles == <>[][~KeyPress]_vars => <>[]Settled

-----------------------------------------------------------------------------
(* What the comments and the texts on the LCD say of the program, and the  *)
(* interleavings of a key with the main thread break.                      *)

\* "key interrupts for different scenes": a scene whose change was taken up
\* is served by its own key interrupts.
BoundForScene ==
    pc = "loop" /\ ~scene_isChanged /\ currScene # SETTINGS =>
        handler[2] = PageOf(currScene)

\* "prepare to enter setting": on a visit to SETTINGS the keys come to serve
\* the setting list (or, if K2 was faster, a delay list), unless the user
\* leaves.
SettingsShown ==
    currScene = SETTINGS ~>
        currScene # SETTINGS \/ handler[2] \in {"setting", "delay"}

\* "K1: Select | K2: Enter" on the delay list: K2 is followed by another
\* page (delay_isChanged is set by K2 and reset only when the list is bound).
DelayKeyServed ==
    handler[2] = "delay" /\ delay_isChanged ~>
        handler[2] # "delay" \/ ~delay_isChanged
=============================================================================
