--------------------------- MODULE SceneUI_proofs ---------------------------
(***************************************************************************)
(* Theorems about SceneUI, for every length of the two lists: what holds   *)
(* for every interleaving of the key interrupts with the main thread       *)
(* (TypeInvariance, KeysArePaired, ScreenShowsKeys, CursorsFresh), how it  *)
(* comes to rest once the keys are left alone (TurnsEnd, WorkSettles), and *)
(* when the user waits until the main thread is idle (PatientSpec of       *)
(* MCPatient), the navigation it implements.                               *)
(***************************************************************************)
EXTENDS MCPatient, TLAPS

\* Every handler serves a page, or is the one key_embedded.c attached, until
\* the main thread detaches it.  What KeysPaired and ScreenMatchesKeys need
\* to know of the points between the rebindings: the page being bound, how
\* far the rebinding is, and that no entry attached to is in use (Attach
\* would be refused).
Rebinding ==
    /\ pc = "attach1" => handler[1] = NoHandler /\ handler[2] # NoHandler
    /\ pc = "detach2" => handler[1] = page /\ handler[2] # NoHandler
    /\ pc = "attach2" => handler[1] = page /\ handler[2] = NoHandler
    /\ pc = "draw"    => handler[1] = page /\ handler[2] = page

IndInv == TypeOK /\ KeysPaired /\ ScreenMatchesKeys /\ Rebinding

-----------------------------------------------------------------------------
\* A cursor is drawn on a row.
LEMMA CursorNat == ASSUME TypeOK, NEW list PROVE CursorOf(list) \in Nat
<1>1. selectScene \in Nat /\ selectSetting \in Nat /\ selectDelay \in Nat
    BY RowsAssumption DEF TypeOK, ValuesOK, DISP, SETTINGS
<1> QED
    BY <1>1 DEF CursorOf

\* The flags are booleans after the steps of MainFunc.
LEMMA FlagsMainFunc == TypeOK /\ MainFunc => FlagsOK'
<1> SUFFICES ASSUME TypeOK, MainFunc PROVE FlagsOK'
    OBVIOUS
<1> USE DEF TypeOK, FlagsOK, mainVars, uiVars, sceneVars, settingVars, delayVars, taskVars
<1>1. CASE SwitchScene
    BY <1>1, Zenon DEF SwitchScene
<1>2. CASE SceneChanged
    BY <1>2, Zenon DEF SceneChanged
<1>3. CASE SceneUnchanged
    BY <1>3, Zenon DEF SceneUnchanged
<1>4. CASE MenuSelect
    BY <1>4, Zenon DEF MenuSelect
<1>5. CASE PrepareSetting
    BY <1>5, Zenon DEF PrepareSetting
<1>6. CASE TakePhoto
    BY <1>6, Zenon DEF TakePhoto
<1>7. CASE TestSave
    BY <1>7, Zenon DEF TestSave
<1>8. CASE Save
    BY <1>8, Zenon DEF Save
<1>9. CASE TestEject
    BY <1>9, Zenon DEF TestEject
<1>10. CASE Eject
    BY <1>10, Zenon DEF Eject
<1> HIDE DEF FlagsOK
<1> QED
    BY <1>1, <1>2, <1>3, <1>4, <1>5, <1>6, <1>7, <1>8, <1>9, <1>10 DEF MainFunc

\* The flags are booleans after the steps of Rebind.
LEMMA FlagsRebind == TypeOK /\ Rebind => FlagsOK'
<1> SUFFICES ASSUME TypeOK, Rebind PROVE FlagsOK'
    OBVIOUS
<1> USE DEF TypeOK, FlagsOK, mainVars, uiVars, sceneVars, settingVars, delayVars, taskVars
<1>1. CASE Detach1
    BY <1>1, Zenon DEF Detach1
<1>2. CASE Attach1
    BY <1>2, Zenon DEF Attach1
<1>3. CASE Detach2
    BY <1>3, Zenon DEF Detach2
<1>4. CASE Attach2
    BY <1>4, Zenon DEF Attach2
<1>5. CASE Draw
    BY <1>5, Zenon DEF Draw
<1>6. CASE DrawCursor
    BY <1>6, Zenon DEF DrawCursor
<1> HIDE DEF FlagsOK
<1> QED
    BY <1>1, <1>2, <1>3, <1>4, <1>5, <1>6 DEF Rebind

\* The flags are booleans after the steps of EnterSetting.
LEMMA FlagsEnterSetting == TypeOK /\ EnterSetting => FlagsOK'
<1> SUFFICES ASSUME TypeOK, EnterSetting PROVE FlagsOK'
    OBVIOUS
<1> USE DEF TypeOK, FlagsOK, mainVars, uiVars, sceneVars, settingVars, delayVars, taskVars
<1>1. CASE SwitchSetting
    BY <1>1, Zenon DEF SwitchSetting
<1>2. CASE SettingList
    BY <1>2, Zenon DEF SettingList
<1>3. CASE SettingChosen
    BY <1>3, Zenon DEF SettingChosen
<1>4. CASE PrepareDelay
    BY <1>4, Zenon DEF PrepareDelay
<1>5. CASE SettingBack
    BY <1>5, Zenon DEF SettingBack
<1>6. CASE ResetSetting
    BY <1>6, Zenon DEF ResetSetting
<1>7. CASE ResetSettingRow
    BY <1>7, Zenon DEF ResetSettingRow
<1>8. CASE ResetSettingFlag
    BY <1>8, Zenon DEF ResetSettingFlag
<1> HIDE DEF FlagsOK
<1> QED
    BY <1>1, <1>2, <1>3, <1>4, <1>5, <1>6, <1>7, <1>8 DEF EnterSetting

\* The flags are booleans after the steps of EnterDelay.
LEMMA FlagsEnterDelay == TypeOK /\ EnterDelay => FlagsOK'
<1> SUFFICES ASSUME TypeOK, EnterDelay PROVE FlagsOK'
    OBVIOUS
<1> USE DEF TypeOK, FlagsOK, mainVars, uiVars, sceneVars, settingVars, delayVars, taskVars
<1>1. CASE SwitchDelay
    BY <1>1, Zenon DEF SwitchDelay
<1>2. CASE DelayList
    BY <1>2, Zenon DEF DelayList
<1>3. CASE ConfigDelay
    BY <1>3, Zenon DEF ConfigDelay
<1>4. CASE DelayBack
    BY <1>4, Zenon DEF DelayBack
<1>5. CASE BackToSetting
    BY <1>5, Zenon DEF BackToSetting
<1>6. CASE ResetDelay
    BY <1>6, Zenon DEF ResetDelay
<1>7. CASE ResetDelayRow
    BY <1>7, Zenon DEF ResetDelayRow
<1>8. CASE ResetDelayFlag
    BY <1>8, Zenon DEF ResetDelayFlag
<1> HIDE DEF FlagsOK
<1> QED
    BY <1>1, <1>2, <1>3, <1>4, <1>5, <1>6, <1>7, <1>8 DEF EnterDelay

\* The flags are booleans after the steps of KeyPress.
LEMMA FlagsKeyPress == TypeOK /\ KeyPress => FlagsOK'
<1> SUFFICES ASSUME TypeOK, KeyPress PROVE FlagsOK'
    OBVIOUS
<1> USE DEF TypeOK, FlagsOK, mainVars, uiVars, sceneVars, settingVars, delayVars, taskVars
<1>1. CASE Key1Menu
    BY <1>1, Zenon DEF Key1Menu
<1>2. CASE Key2Menu
    BY <1>2, Zenon DEF Key2Menu
<1>3. CASE Key1Disp
    BY <1>3, Zenon DEF Key1Disp
<1>4. CASE Key1Sd
    BY <1>4, Zenon DEF Key1Sd
<1>5. CASE Key2Leave
    BY <1>5, Zenon DEF Key2Leave
<1>6. CASE Key1Setting
    BY <1>6, Zenon DEF Key1Setting
<1>7. CASE Key2Setting
    BY <1>7, Zenon DEF Key2Setting
<1>8. CASE Key1Delay
    BY <1>8, Zenon DEF Key1Delay
<1>9. CASE Key2Delay
    BY <1>9, Zenon DEF Key2Delay
<1> HIDE DEF FlagsOK
<1> QED
    BY <1>1, <1>2, <1>3, <1>4, <1>5, <1>6, <1>7, <1>8, <1>9 DEF KeyPress

\* The values are in range after the steps of MainFunc.
LEMMA ValuesMainFunc == TypeOK /\ MainFunc => ValuesOK'
<1> SUFFICES ASSUME TypeOK, MainFunc PROVE ValuesOK'
    OBVIOUS
<1> USE RowsAssumption DEF TypeOK, ValuesOK, MainPoints, Pages, Lists, Keys,
         Scenes, MENU, DISP, PHOTO, SDCARD, SETTINGS, NO, NoHandler, Goto,
         mainVars, uiVars, sceneVars, settingVars, delayVars, taskVars
<1>1. CASE SwitchScene
    BY <1>1 DEF SwitchScene
<1>2. CASE SceneChanged
    BY <1>2 DEF SceneChanged, PageOf
<1>3. CASE SceneUnchanged
    BY <1>3 DEF SceneUnchanged
<1>4. CASE MenuSelect
    BY <1>4 DEF MenuSelect
<1>5. CASE PrepareSetting
    BY <1>5 DEF PrepareSetting
<1>6. CASE TakePhoto
    BY <1>6 DEF TakePhoto
<1>7. CASE TestSave
    BY <1>7 DEF TestSave
<1>8. CASE Save
    BY <1>8 DEF Save
<1>9. CASE TestEject
    BY <1>9 DEF TestEject
<1>10. CASE Eject
    BY <1>10 DEF Eject
<1> HIDE DEF ValuesOK
<1> QED
    BY <1>1, <1>2, <1>3, <1>4, <1>5, <1>6, <1>7, <1>8, <1>9, <1>10 DEF MainFunc

\* The values are in range after the steps of Rebind.
LEMMA ValuesRebind == TypeOK /\ Rebind => ValuesOK'
<1> SUFFICES ASSUME TypeOK, Rebind PROVE ValuesOK'
    OBVIOUS
<1> USE RowsAssumption DEF TypeOK, ValuesOK, MainPoints, Pages, Lists, Keys,
         Scenes, MENU, DISP, PHOTO, SDCARD, SETTINGS, NO, NoHandler, Goto,
         mainVars, uiVars, sceneVars, settingVars, delayVars, taskVars
<1>1. CASE Detach1
    BY <1>1 DEF Detach1, Detach
<1>2. CASE Attach1
    BY <1>2 DEF Attach1, Attach
<1>3. CASE Detach2
    BY <1>3 DEF Detach2, Detach
<1>4. CASE Attach2
    BY <1>4 DEF Attach2, Attach
<1>5. CASE Draw
  <2>1. screen' \in [page : Pages \cup {"boot"}, list : Lists, row : Nat]
    <3>1. CursorOf(page) \in Nat
        BY CursorNat
    <3>2. CASE page = "photo"
        BY <1>5, <3>2 DEF Draw
    <3>3. CASE page \in Lists
        BY <1>5, <3>1, <3>3 DEF Draw
    <3>4. CASE page \notin Lists \cup {"photo"}
        BY <1>5, <3>4 DEF Draw
    <3> QED
        BY <3>2, <3>3, <3>4
  <2> QED
    BY <1>5, <2>1 DEF Draw
<1>6. CASE DrawCursor
  <2>1. screen' \in [page : Pages \cup {"boot"}, list : Lists, row : Nat]
    <3>1. CursorOf(page) \in Nat
        BY CursorNat
    <3>2. page \in Lists
        BY <1>6 DEF DrawCursor
    <3> QED
        BY <1>6, <3>1, <3>2 DEF DrawCursor
  <2> QED
    BY <1>6, <2>1 DEF DrawCursor
<1> HIDE DEF ValuesOK
<1> QED
    BY <1>1, <1>2, <1>3, <1>4, <1>5, <1>6 DEF Rebind

\* The values are in range after the steps of EnterSetting.
LEMMA ValuesEnterSetting == TypeOK /\ EnterSetting => ValuesOK'
<1> SUFFICES ASSUME TypeOK, EnterSetting PROVE ValuesOK'
    OBVIOUS
<1> USE RowsAssumption DEF TypeOK, ValuesOK, MainPoints, Pages, Lists, Keys,
         Scenes, MENU, DISP, PHOTO, SDCARD, SETTINGS, NO, NoHandler, Goto,
         mainVars, uiVars, sceneVars, settingVars, delayVars, taskVars
<1>1. CASE SwitchSetting
    BY <1>1 DEF SwitchSetting
<1>2. CASE SettingList
    BY <1>2 DEF SettingList
<1>3. CASE SettingChosen
    BY <1>3 DEF SettingChosen
<1>4. CASE PrepareDelay
    BY <1>4 DEF PrepareDelay
<1>5. CASE SettingBack
    BY <1>5 DEF SettingBack
<1>6. CASE ResetSetting
    BY <1>6 DEF ResetSetting
<1>7. CASE ResetSettingRow
    BY <1>7 DEF ResetSettingRow
<1>8. CASE ResetSettingFlag
    BY <1>8 DEF ResetSettingFlag
<1> HIDE DEF ValuesOK
<1> QED
    BY <1>1, <1>2, <1>3, <1>4, <1>5, <1>6, <1>7, <1>8 DEF EnterSetting

\* The values are in range after the steps of EnterDelay.
LEMMA ValuesEnterDelay == TypeOK /\ EnterDelay => ValuesOK'
<1> SUFFICES ASSUME TypeOK, EnterDelay PROVE ValuesOK'
    OBVIOUS
<1> USE RowsAssumption DEF TypeOK, ValuesOK, MainPoints, Pages, Lists, Keys,
         Scenes, MENU, DISP, PHOTO, SDCARD, SETTINGS, NO, NoHandler, Goto,
         mainVars, uiVars, sceneVars, settingVars, delayVars, taskVars
<1>1. CASE SwitchDelay
    BY <1>1 DEF SwitchDelay
<1>2. CASE DelayList
    BY <1>2 DEF DelayList
<1>3. CASE ConfigDelay
    BY <1>3 DEF ConfigDelay
<1>4. CASE DelayBack
    BY <1>4 DEF DelayBack
<1>5. CASE BackToSetting
    BY <1>5 DEF BackToSetting
<1>6. CASE ResetDelay
    BY <1>6 DEF ResetDelay
<1>7. CASE ResetDelayRow
    BY <1>7 DEF ResetDelayRow
<1>8. CASE ResetDelayFlag
    BY <1>8 DEF ResetDelayFlag
<1> HIDE DEF ValuesOK
<1> QED
    BY <1>1, <1>2, <1>3, <1>4, <1>5, <1>6, <1>7, <1>8 DEF EnterDelay

\* The values are in range after the steps of KeyPress.
LEMMA ValuesKeyPress == TypeOK /\ KeyPress => ValuesOK'
<1> SUFFICES ASSUME TypeOK, KeyPress PROVE ValuesOK'
    OBVIOUS
<1> USE RowsAssumption DEF TypeOK, ValuesOK, MainPoints, Pages, Lists, Keys,
         Scenes, MENU, DISP, PHOTO, SDCARD, SETTINGS, NO, NoHandler, Goto,
         mainVars, uiVars, sceneVars, settingVars, delayVars, taskVars
<1>1. CASE Key1Menu
    BY <1>1 DEF Key1Menu, NextRow
<1>2. CASE Key2Menu
    BY <1>2 DEF Key2Menu
<1>3. CASE Key1Disp
    BY <1>3 DEF Key1Disp
<1>4. CASE Key1Sd
    BY <1>4 DEF Key1Sd
<1>5. CASE Key2Leave
    BY <1>5 DEF Key2Leave
<1>6. CASE Key1Setting
    BY <1>6 DEF Key1Setting, NextRow
<1>7. CASE Key2Setting
    BY <1>7 DEF Key2Setting
<1>8. CASE Key1Delay
    BY <1>8 DEF Key1Delay, NextRow
<1>9. CASE Key2Delay
    BY <1>9 DEF Key2Delay
<1> HIDE DEF ValuesOK
<1> QED
    BY <1>1, <1>2, <1>3, <1>4, <1>5, <1>6, <1>7, <1>8, <1>9 DEF KeyPress

-----------------------------------------------------------------------------
\* The initial values of main.c have their types.
LEMMA InitType == Init => TypeOK
<1> SUFFICES ASSUME Init PROVE TypeOK
    OBVIOUS
<1>1. FlagsOK
    BY DEF Init, FlagsOK
<1>2. ValuesOK
    BY RowsAssumption DEF Init, ValuesOK, MainPoints, Pages, Lists, Keys,
       Scenes, MENU, DISP, SETTINGS, NO
<1> QED
    BY <1>1, <1>2 DEF TypeOK

\* Every step of main.c and of the key interrupts keeps the types.
LEMMA NextType == TypeOK /\ [Next]_vars => TypeOK'
<1> SUFFICES ASSUME TypeOK, [Next]_vars PROVE TypeOK'
    OBVIOUS
<1>1. CASE MainFunc
    BY <1>1, FlagsMainFunc, ValuesMainFunc DEF TypeOK
<1>2. CASE Rebind
    BY <1>2, FlagsRebind, ValuesRebind DEF TypeOK
<1>3. CASE EnterSetting
    BY <1>3, FlagsEnterSetting, ValuesEnterSetting DEF TypeOK
<1>4. CASE EnterDelay
    BY <1>4, FlagsEnterDelay, ValuesEnterDelay DEF TypeOK
<1>5. CASE KeyPress
    BY <1>5, FlagsKeyPress, ValuesKeyPress DEF TypeOK
<1>6. CASE UNCHANGED vars
    BY <1>6 DEF TypeOK, FlagsOK, ValuesOK, vars, mainVars, uiVars,
       sceneVars, settingVars, delayVars, taskVars
<1> QED
    BY <1>1, <1>2, <1>3, <1>4, <1>5, <1>6 DEF Next, MainThread

\* Every variable of the interface stays in its range, and no list cursor
\* ever rests on the title row.
THEOREM TypeInvariance == Spec => []TypeOK
    BY InitType, NextType, PTL DEF Spec

-----------------------------------------------------------------------------
(* The handler pair and the screen *)

\* What a step outside of the rebinding and the drawing of a page leaves
\* alone; it may draw a photo over the page.
Aside ==
    /\ pc \notin Binding \cup {"draw"} /\ pc' \notin Binding \cup {"draw"}
    /\ UNCHANGED handler
    /\ screen'.page \in {screen.page, "photo"}

\* The other steps of mainFunc leave the keys alone, and may draw a photo.
LEMMA AsideMainFunc == TypeOK /\ MainFunc => Aside
<1> SUFFICES ASSUME TypeOK, MainFunc PROVE Aside
    OBVIOUS
<1> USE DEF Aside, Binding, Goto, uiVars
<1>1. CASE TakePhoto
  <2>1. screen'.page \in {screen.page, "photo"}
      BY <1>1 DEF TakePhoto, TypeOK, ValuesOK
  <2> QED
      BY <1>1, <2>1 DEF TakePhoto
<1>2. CASE SwitchScene \/ PrepareSetting \/ Save \/ Eject
    BY <1>2 DEF SwitchScene, PrepareSetting, Save, Eject
<1>3. CASE SceneChanged
    BY <1>3 DEF SceneChanged
<1>4. CASE SceneUnchanged
    BY <1>4 DEF SceneUnchanged
<1>5. CASE MenuSelect
    BY <1>5 DEF MenuSelect
<1>6. CASE TestSave \/ TestEject
    BY <1>6 DEF TestSave, TestEject
<1> HIDE DEF Aside
<1> QED
    BY <1>1, <1>2, <1>3, <1>4, <1>5, <1>6 DEF MainFunc

\* The steps of enter_SETTING leave the keys alone, and draw no page.
LEMMA AsideEnterSetting == EnterSetting => Aside
<1> SUFFICES ASSUME EnterSetting PROVE Aside
    OBVIOUS
<1> USE DEF Aside, Binding, Goto, uiVars
<1>1. CASE SwitchSetting \/ PrepareDelay \/ SettingBack
    BY <1>1 DEF SwitchSetting, PrepareDelay, SettingBack
<1>2. CASE SettingList
    BY <1>2 DEF SettingList
<1>3. CASE SettingChosen
    BY <1>3 DEF SettingChosen
<1>4. CASE ResetSetting \/ ResetSettingRow \/ ResetSettingFlag
    BY <1>4 DEF ResetSetting, ResetSettingRow, ResetSettingFlag
<1> HIDE DEF Aside
<1> QED
    BY <1>1, <1>2, <1>3, <1>4 DEF EnterSetting

\* So do the steps of enter_SETTING_DELAY.
LEMMA AsideEnterDelay == EnterDelay => Aside
<1> SUFFICES ASSUME EnterDelay PROVE Aside
    OBVIOUS
<1> USE DEF Aside, Binding, Goto, uiVars
<1>1. CASE SwitchDelay \/ ConfigDelay \/ DelayBack \/ BackToSetting
    BY <1>1 DEF SwitchDelay, ConfigDelay, DelayBack, BackToSetting
<1>2. CASE DelayList
    BY <1>2 DEF DelayList
<1>3. CASE ResetDelay \/ ResetDelayRow \/ ResetDelayFlag
    BY <1>3 DEF ResetDelay, ResetDelayRow, ResetDelayFlag
<1> HIDE DEF Aside
<1> QED
    BY <1>1, <1>2, <1>3 DEF EnterDelay

\* Drawing the cursor of a list leaves the rest of the screen alone.
LEMMA AsideDrawCursor == TypeOK /\ DrawCursor => Aside
<1> SUFFICES ASSUME TypeOK, DrawCursor PROVE Aside
    OBVIOUS
<1>1. screen'.page = screen.page
    BY DEF DrawCursor, TypeOK, ValuesOK
<1> QED
    BY <1>1 DEF DrawCursor, Aside, Binding, Goto

\* A key handler changes neither the handlers nor the point of the main
\* thread it interrupts.
LEMMA KeyPressAside == KeyPress => UNCHANGED <<pc, page, handler, screen>>
    BY DEF KeyPress, Key1Menu, Key2Menu, Key1Disp, Key1Sd, Key2Leave,
       Key1Setting, Key2Setting, Key1Delay, Key2Delay, mainVars, uiVars

\* A step that leaves the keys alone and draws no page keeps the invariant.
LEMMA AsideKeeps == IndInv /\ Aside => KeysPaired' /\ ScreenMatchesKeys' /\ Rebinding'
<1> SUFFICES ASSUME IndInv, Aside
             PROVE  KeysPaired' /\ ScreenMatchesKeys' /\ Rebinding'
    OBVIOUS
<1>1. KeysPaired' /\ ScreenMatchesKeys'
    BY DEF IndInv, Aside, KeysPaired, ScreenMatchesKeys
<1>2. Rebinding'
    BY DEF Aside, Rebinding, Binding
<1> QED
    BY <1>1, <1>2

\* The rebinding itself: one key after the other is detached and attached.
LEMMA RebindKeeps ==
    IndInv /\ Rebind => KeysPaired' /\ ScreenMatchesKeys' /\ Rebinding'
<1> SUFFICES ASSUME IndInv, Rebind
             PROVE  KeysPaired' /\ ScreenMatchesKeys' /\ Rebinding'
    OBVIOUS
<1>1. /\ DOMAIN handler = Keys /\ page \in Pages
      /\ screen \in [page : Pages \cup {"boot"}, list : Lists, row : Nat]
    BY DEF IndInv, TypeOK, ValuesOK
<1> USE DEF IndInv, KeysPaired, ScreenMatchesKeys, Rebinding, Binding, Goto,
            Keys, NoHandler, Attach, Detach
<1>2. CASE Detach1
    BY <1>1, <1>2 DEF Detach1
<1>3. CASE Attach1
    BY <1>1, <1>3 DEF Attach1, Pages, Lists
<1>4. CASE Detach2
    BY <1>1, <1>4 DEF Detach2
<1>5. CASE Attach2
    BY <1>1, <1>5 DEF Attach2, Pages, Lists
<1>6. CASE Draw
  <2>1. page = "photo" \/ screen'.page = page
    <3>1. CASE page = "photo"
        BY <3>1
    <3>2. CASE page \in Lists
        BY <1>6, <3>2 DEF Draw, Lists
    <3>3. CASE page \notin Lists \cup {"photo"}
        BY <1>1, <1>6, <3>3 DEF Draw
    <3> QED
        BY <3>1, <3>2, <3>3
  <2>2. handler' = handler /\ handler[1] = page /\ handler[2] = page
      BY <1>6 DEF Draw
  <2>3. pc' = "loop" /\ page' = page /\ page # NoHandler
      BY <1>1, <1>6 DEF Draw, Pages, Lists
  <2> QED
      BY <2>1, <2>2, <2>3
<1>7. CASE DrawCursor
    BY <1>7, AsideDrawCursor, AsideKeeps
<1> HIDE DEF KeysPaired, ScreenMatchesKeys, Rebinding
<1> QED
    BY <1>2, <1>3, <1>4, <1>5, <1>6, <1>7 DEF Rebind

\* The handlers of key_embedded.c are paired, and nothing is drawn yet.
LEMMA InitInv == Init => IndInv
<1>1. Init => KeysPaired /\ ScreenMatchesKeys /\ Rebinding
    BY DEF Init, KeysPaired, ScreenMatchesKeys, Rebinding, Binding, Keys,
       NoHandler
<1> QED
    BY <1>1, InitType DEF IndInv

\* Every step keeps the keys paired and the screen theirs.
LEMMA NextInv == IndInv /\ [Next]_vars => IndInv'
<1> SUFFICES ASSUME IndInv, [Next]_vars
             PROVE  KeysPaired' /\ ScreenMatchesKeys' /\ Rebinding'
    BY NextType DEF IndInv
<1>1. CASE MainFunc
    BY <1>1, AsideMainFunc, AsideKeeps DEF IndInv
<1>2. CASE Rebind
    BY <1>2, RebindKeeps
<1>3. CASE EnterSetting
    BY <1>3, AsideEnterSetting, AsideKeeps
<1>4. CASE EnterDelay
    BY <1>4, AsideEnterDelay, AsideKeeps
<1>5. CASE KeyPress
    BY <1>5, KeyPressAside DEF IndInv, KeysPaired, ScreenMatchesKeys,
       Rebinding
<1>6. CASE UNCHANGED vars
    BY <1>6 DEF vars, mainVars, uiVars, IndInv, KeysPaired,
       ScreenMatchesKeys, Rebinding
<1> QED
    BY <1>1, <1>2, <1>3, <1>4, <1>5, <1>6 DEF Next, MainThread

\* All of it holds in every state.
LEMMA Inductive == Spec => []IndInv
    BY InitInv, NextInv, PTL DEF Spec

\* However the presses fall, outside of a rebinding the two keys serve one
\* page, and neither is dead.
THEOREM KeysArePaired == Spec => []KeysPaired
<1>1. IndInv => KeysPaired
    BY DEF IndInv
<1> QED
    BY <1>1, Inductive, PTL

\* Once the page is drawn, the LCD shows the page the keys serve, or a photo
\* over it.
THEOREM ScreenShowsKeys == Spec => []ScreenMatchesKeys
<1>1. IndInv => ScreenMatchesKeys
    BY DEF IndInv
<1> QED
    BY <1>1, Inductive, PTL

-----------------------------------------------------------------------------
(* The cursors *)

\* A list is on the LCD, and its cursor is not about to be drawn.
Drawn(list) ==
    /\ screen.page = list /\ screen.list = list
    /\ ~(pc = "cursor" /\ page = list)

MenuFresh ==
    Drawn("menu") => sceneSelect_isChanged \/ screen.row = selectScene

\* enter_SETTING has left for the menu: until the menu is bound nothing
\* brings the user back, as no key serves the menu yet.
Leaving ==
    /\ \/ /\ pc \in {"resetSettingFlag", "resetDelay", "resetDelayRow",
                     "resetDelayFlag", "loop"}
          /\ scene_isChanged
       \/ pc = "scene" /\ at = MENU /\ scene_isChanged
       \/ pc \in Binding \cup {"detach1", "draw"} /\ page = "menu"
    /\ pc \notin Binding \cup {"draw"} => currScene = MENU

\* The row of the setting list is reset on the way to the menu only.
SettingFresh ==
    Drawn("setting") =>
        /\ pc \in {"resetSetting", "resetSettingRow", "resetSettingFlag"} =>
               currScene = MENU /\ scene_isChanged
        /\ settingSelect_isChanged \/ screen.row = selectSetting \/ Leaving

\* The row of the delay list is reset when a delay was chosen, and the list
\* is not asked for again without its flag.
DelayFresh ==
    /\ pc \in {"resetDelayRow", "resetDelayFlag"} => currDelay # NO
    /\ Drawn("delay") =>
           delaySelect_isChanged \/ screen.row = selectDelay \/ currDelay # NO

CursorInv == MenuFresh /\ SettingFresh /\ DelayFresh

\* What the cursors need of the other invariants.
LEMMA CursorContext ==
    IndInv =>
      /\ pc \in MainPoints /\ page \in Pages
      /\ handler \in [Keys -> Pages \cup {"change", NoHandler}]
      /\ screen \in [page : Pages \cup {"boot"}, list : Lists, row : Nat]
      /\ selectScene \in DISP .. SETTINGS
      /\ selectSetting \in 1 .. LastSetting /\ selectDelay \in 1 .. LastDelay
      /\ KeysPaired /\ ScreenMatchesKeys /\ Rebinding
    BY DEF IndInv, TypeOK, ValuesOK

\* The steps of MainFunc keep the cursors fresh.
LEMMA CursorMainFunc == IndInv /\ CursorInv /\ MainFunc => CursorInv'
<1> SUFFICES ASSUME IndInv, CursorInv, MainFunc PROVE CursorInv'
    OBVIOUS
<1> USE CursorContext, RowsAssumption DEF CursorInv, MenuFresh, SettingFresh,
         DelayFresh, Drawn, Leaving, Binding, Goto, MENU, DISP, SETTINGS, NO,
         uiVars, mainVars, sceneVars, settingVars, delayVars, taskVars
<1>1. CASE SwitchScene
    BY <1>1 DEF SwitchScene
<1>2. CASE SceneChanged
  <2>1. at = MENU => page' = "menu" /\ pc' = "detach1"
    BY <1>2 DEF SceneChanged, PageOf, PHOTO
  <2>2. /\ pc = "scene" /\ pc' \in {"detach1", "prepSetting"}
        /\ UNCHANGED <<screen, handler, currScene, selectScene, sceneSelect_isChanged,
                       settingVars, delayVars>>
    BY <1>2 DEF SceneChanged
  <2>3. MenuFresh' /\ DelayFresh'
    BY <2>2
  <2>4. SettingFresh'
    BY <2>1, <2>2
  <2> QED
    BY <2>3, <2>4
<1>3. CASE SceneUnchanged
    BY <1>3 DEF SceneUnchanged
<1>4. CASE MenuSelect
    BY <1>4 DEF MenuSelect
<1>5. CASE PrepareSetting
    BY <1>5 DEF PrepareSetting
<1>6. CASE TakePhoto
    BY <1>6 DEF TakePhoto
<1>7. CASE TestSave
    BY <1>7 DEF TestSave
<1>8. CASE Save
    BY <1>8 DEF Save
<1>9. CASE TestEject
    BY <1>9 DEF TestEject
<1>10. CASE Eject
    BY <1>10 DEF Eject
<1> HIDE DEF CursorInv
<1> QED
    BY <1>1, <1>2, <1>3, <1>4, <1>5, <1>6, <1>7, <1>8, <1>9, <1>10 DEF MainFunc

\* The steps of Rebind keep the cursors fresh.
LEMMA CursorRebind == IndInv /\ CursorInv /\ Rebind => CursorInv'
<1> SUFFICES ASSUME IndInv, CursorInv, Rebind PROVE CursorInv'
    OBVIOUS
<1> USE CursorContext, RowsAssumption DEF CursorInv, MenuFresh, SettingFresh,
         DelayFresh, Drawn, Leaving, Binding, Goto, MENU, DISP, SETTINGS, NO,
         uiVars, mainVars, sceneVars, settingVars, delayVars, taskVars
<1>1. CASE Detach1
    BY <1>1 DEF Detach1
<1>2. CASE Attach1
    BY <1>2 DEF Attach1, Attach
<1>3. CASE Detach2
    BY <1>3 DEF Detach2
<1>4. CASE Attach2
    BY <1>4 DEF Attach2, Attach
<1>5. CASE Draw
    BY <1>5 DEF Draw, CursorOf, Lists
<1>6. CASE DrawCursor
    BY <1>6 DEF DrawCursor, CursorOf, Lists
<1> HIDE DEF CursorInv
<1> QED
    BY <1>1, <1>2, <1>3, <1>4, <1>5, <1>6 DEF Rebind

\* The steps of EnterSetting keep the cursors fresh.
LEMMA CursorEnterSetting == IndInv /\ CursorInv /\ EnterSetting => CursorInv'
<1> SUFFICES ASSUME IndInv, CursorInv, EnterSetting PROVE CursorInv'
    OBVIOUS
<1> USE CursorContext, RowsAssumption DEF CursorInv, MenuFresh, SettingFresh,
         DelayFresh, Drawn, Leaving, Binding, Goto, MENU, DISP, SETTINGS, NO,
         uiVars, mainVars, sceneVars, settingVars, delayVars, taskVars
<1>1. CASE SwitchSetting
    BY <1>1 DEF SwitchSetting
<1>2. CASE SettingList
    BY <1>2 DEF SettingList
<1>3. CASE SettingChosen
    BY <1>3 DEF SettingChosen
<1>4. CASE PrepareDelay
    BY <1>4 DEF PrepareDelay
<1>5. CASE SettingBack
    BY <1>5 DEF SettingBack
<1>6. CASE ResetSetting
    BY <1>6 DEF ResetSetting
<1>7. CASE ResetSettingRow
    BY <1>7 DEF ResetSettingRow
<1>8. CASE ResetSettingFlag
    BY <1>8 DEF ResetSettingFlag
<1> HIDE DEF CursorInv
<1> QED
    BY <1>1, <1>2, <1>3, <1>4, <1>5, <1>6, <1>7, <1>8 DEF EnterSetting

\* The steps of EnterDelay keep the cursors fresh.
LEMMA CursorEnterDelay == IndInv /\ CursorInv /\ EnterDelay => CursorInv'
<1> SUFFICES ASSUME IndInv, CursorInv, EnterDelay PROVE CursorInv'
    OBVIOUS
<1> USE CursorContext, RowsAssumption DEF CursorInv, MenuFresh, SettingFresh,
         DelayFresh, Drawn, Leaving, Binding, Goto, MENU, DISP, SETTINGS, NO,
         uiVars, mainVars, sceneVars, settingVars, delayVars, taskVars
<1>1. CASE SwitchDelay
    BY <1>1 DEF SwitchDelay
<1>2. CASE DelayList
    BY <1>2 DEF DelayList
<1>3. CASE ConfigDelay
    BY <1>3 DEF ConfigDelay
<1>4. CASE DelayBack
    BY <1>4 DEF DelayBack
<1>5. CASE BackToSetting
    BY <1>5 DEF BackToSetting
<1>6. CASE ResetDelay
    BY <1>6 DEF ResetDelay
<1>7. CASE ResetDelayRow
    BY <1>7 DEF ResetDelayRow
<1>8. CASE ResetDelayFlag
    BY <1>8 DEF ResetDelayFlag
<1> HIDE DEF CursorInv
<1> QED
    BY <1>1, <1>2, <1>3, <1>4, <1>5, <1>6, <1>7, <1>8 DEF EnterDelay

\* The steps of KeyPress keep the cursors fresh.
LEMMA CursorKeyPress == IndInv /\ CursorInv /\ KeyPress => CursorInv'
<1> SUFFICES ASSUME IndInv, CursorInv, KeyPress PROVE CursorInv'
    OBVIOUS
<1> USE CursorContext, RowsAssumption DEF CursorInv, MenuFresh, SettingFresh,
         DelayFresh, Drawn, Leaving, Binding, Goto, MENU, DISP, SETTINGS, NO,
         uiVars, mainVars, sceneVars, settingVars, delayVars, taskVars
<1>1. CASE Key1Menu
    BY <1>1 DEF Key1Menu
<1>2. CASE Key2Menu
    BY <1>2 DEF Key2Menu, KeysPaired, ScreenMatchesKeys
<1>3. CASE Key1Disp
    BY <1>3 DEF Key1Disp
<1>4. CASE Key1Sd
    BY <1>4 DEF Key1Sd
<1>5. CASE Key2Leave
    BY <1>5 DEF Key2Leave
<1>6. CASE Key1Setting
    BY <1>6 DEF Key1Setting
<1>7. CASE Key2Setting
    BY <1>7 DEF Key2Setting
<1>8. CASE Key1Delay
    BY <1>8 DEF Key1Delay
<1>9. CASE Key2Delay
    BY <1>9 DEF Key2Delay
<1> HIDE DEF CursorInv
<1> QED
    BY <1>1, <1>2, <1>3, <1>4, <1>5, <1>6, <1>7, <1>8, <1>9 DEF KeyPress

\* No list is drawn before the keys serve one.
LEMMA InitCursor == Init => CursorInv
    BY DEF Init, CursorInv, MenuFresh, SettingFresh, DelayFresh, Drawn

\* Every step keeps the cursors fresh.
LEMMA NextCursor == IndInv /\ CursorInv /\ [Next]_vars => CursorInv'
<1> SUFFICES ASSUME IndInv, CursorInv, [Next]_vars PROVE CursorInv'
    OBVIOUS
<1>1. CASE MainFunc
    BY <1>1, CursorMainFunc
<1>2. CASE Rebind
    BY <1>2, CursorRebind
<1>3. CASE EnterSetting
    BY <1>3, CursorEnterSetting
<1>4. CASE EnterDelay
    BY <1>4, CursorEnterDelay
<1>5. CASE KeyPress
    BY <1>5, CursorKeyPress
<1>6. CASE UNCHANGED vars
    BY <1>6 DEF vars, mainVars, uiVars, sceneVars, settingVars, delayVars,
       CursorInv, MenuFresh, SettingFresh, DelayFresh, Drawn, Leaving
<1> QED
    BY <1>1, <1>2, <1>3, <1>4, <1>5, <1>6 DEF Next, MainThread

\* No move of a cursor is lost, whatever the presses that come in between a
\* test of a flag, its reset and the drawing: what K2 enters is the row that
\* is drawn, or the one that is about to be.
THEOREM CursorsFresh == Spec => []CursorFresh
<1>1. IndInv /\ CursorInv => CursorFresh
  <2> SUFFICES ASSUME IndInv, CursorInv PROVE CursorFresh
      OBVIOUS
  <2> USE CursorContext DEF CursorInv, Shown, Drawn
  <2>1. Shown("menu") => sceneSelect_isChanged \/ screen.row = selectScene
      BY DEF MenuFresh
  <2>2. ASSUME Shown("setting"), currScene = SETTINGS
        PROVE  settingSelect_isChanged \/ screen.row = selectSetting
    <3>1. ~Leaving
        BY <2>2 DEF Leaving, Binding, Rebinding, NoHandler, MENU, SETTINGS
    <3> QED
        BY <2>2, <3>1 DEF SettingFresh
  <2>3. Shown("delay") /\ currDelay = NO =>
            delaySelect_isChanged \/ screen.row = selectDelay
      BY DEF DelayFresh
  <2> QED
      BY <2>1, <2>2, <2>3 DEF CursorFresh
<1> QED
    BY <1>1, InitCursor, NextCursor, Inductive, PTL DEF Spec

-----------------------------------------------------------------------------
(* At rest, and the way there: what Settles says, without its fairness *)

\* The points of a turn before it has anything to do, from the top of the loop.
Looking ==
    {"loop", "scene", "menu", "disp", "photo", "sd", "setting", "settingTest",
     "delay", "delayTest"}

ChosenSetting == currSetting \in 1 .. LastSetting - 1

\* On the list of settings, or on that of delays: enter_SETTING without a
\* change of scene.
InSettings == currScene = SETTINGS /\ ~scene_isChanged
InDelays   == InSettings /\ ChosenSetting /\ ~setting_isChanged

\* No key was pressed since the top of the loop: what the turn has read is
\* what there is, and what it was called for is reset.
Orderly ==
    /\ pc = "scene" => at = currScene
    /\ pc \in {"menu", "disp", "photo", "sd"} =>
           currScene # SETTINGS /\ PageOf(currScene) = pc /\ ~scene_isChanged
    /\ pc = "save"  => currScene = DISP /\ ~scene_isChanged
    /\ pc = "eject" => currScene = SDCARD /\ ~scene_isChanged
    /\ pc \in {"prepSetting", "setting", "settingTest"} => InSettings
    /\ pc = "settingTest" => at = currSetting
    /\ pc \in {"prepDelay", "delay", "delayTest", "backToSetting"} => InDelays
    /\ pc = "delayTest" => at = currDelay
    /\ pc \in {"resetSetting", "resetSettingRow", "resetSettingFlag"} =>
           currScene = MENU
    /\ pc \in {"resetDelay", "resetDelayRow", "resetDelayFlag"} =>
           currScene = MENU \/ (InSettings /\ currSetting = NO)
    /\ pc \in Binding \cup {"detach1", "draw", "cursor"} =>
           CASE page = "setting" -> InSettings /\ currSetting = NO
             [] page = "delay"   -> InDelays /\ currDelay = NO
             [] OTHER -> /\ currScene # SETTINGS /\ PageOf(currScene) = page
                         /\ ~scene_isChanged

\* Nothing is pending for the scene, the setting and the delay there are.
Quiet ==
    /\ ~scene_isChanged
    /\ currScene = MENU   => ~sceneSelect_isChanged
    /\ currScene = DISP   => ~isSavingData
    /\ currScene = SDCARD => ~isEjecting
    /\ currScene = SETTINGS =>
        /\ ~setting_isChanged /\ currSetting # LastSetting
        /\ currSetting = NO => ~settingSelect_isChanged
        /\ currSetting # NO =>
               ~delay_isChanged /\ ~delaySelect_isChanged /\ currDelay = NO

Resting == Orderly /\ pc \in Looking /\ Quiet

One(flag) == IF flag THEN 1 ELSE 0

\* What is pending on the delay list, on the page of a scene that is not
\* SETTINGS, and in all: each scene, setting and delay with what follows it.
DelayLevel ==
    IF currDelay = NO THEN 2 * One(delay_isChanged) + One(delaySelect_isChanged)
    ELSE 4

PageLevel ==
    2 * One(scene_isChanged)
    + One(\/ currScene = MENU /\ sceneSelect_isChanged
          \/ currScene = DISP /\ isSavingData
          \/ currScene = SDCARD /\ isEjecting)

Level ==
    CASE currScene # SETTINGS       -> PageLevel
      [] currScene = SETTINGS /\ scene_isChanged -> 40
      [] InSettings /\ pc = "prepSetting" -> 39
      [] InSettings /\ pc # "prepSetting" /\ currSetting = LastSetting -> 30
      [] InSettings /\ pc # "prepSetting" /\ ChosenSetting ->
             (CASE pc = "prepDelay"     -> 15
                [] pc = "backToSetting" -> 9
                [] OTHER -> 10 + 6 * One(setting_isChanged) + DelayLevel)
      [] OTHER -> 4 + 2 * One(setting_isChanged) + One(settingSelect_isChanged)

\* The steps to the end of the turn.
TurnLeft ==
    CASE pc = "loop" -> 0
      [] pc = "scene" -> 10
      [] pc = "setting" -> 9
      [] pc = "settingTest" -> 8
      [] pc = "delay" -> 7
      [] pc \in {"resetSetting", "delayTest"} -> 6
      [] pc \in {"detach1", "resetSettingRow"} -> 5
      [] pc \in {"attach1", "resetSettingFlag", "backToSetting"} -> 4
      [] pc \in {"detach2", "resetDelay"} -> 3
      [] pc \in {"attach2", "resetDelayRow", "menu", "disp", "sd"} -> 2
      [] OTHER -> 1

\* A turn that has found something to do is followed by another one.
Work == 16 * Level + TurnLeft + (IF pc \in Looking \ {"loop"} THEN 0 ELSE 11)

\* A step of the main thread that ends at rest, or nearer to it.
Closer == Resting' \/ (~Resting /\ Work' < Work)

\* The handlers of key_embedded.c serve no page; the menu is bound before
\* its first turn is over.
BootKeys ==
    handler[1] = "change" =>
        \/ pc = "detach1"
        \/ pc \in {"loop", "scene"} /\ scene_isChanged /\ currScene = MENU
           /\ (pc = "scene" => at = MENU)

\* Points of a turn of another scene than MENU.
NotMenu ==
    \/ pc = "scene" /\ at # MENU
    \/ pc \in {"disp", "photo", "sd", "save", "eject", "prepSetting", "setting",
               "settingTest", "prepDelay", "delay", "delayTest",
               "backToSetting"}
    \/ pc = "cursor" /\ page # "menu"

\* In the menu with the menu's keys, the menu is on the LCD, or its scene is
\* asked for; no turn of another scene is under way.
MenuDrawn ==
    handler[1] = "menu" /\ currScene = MENU =>
        /\ ~NotMenu
        /\ pc \notin Binding \cup {"detach1", "draw"} =>
               scene_isChanged \/ (screen.page = "menu" /\ screen.list = "menu")

MenuInv == BootKeys /\ MenuDrawn

\* A turn stays in order over the steps of MainFunc.
LEMMA OrderMainFunc == TypeOK /\ Orderly /\ MainFunc => Orderly'
<1> SUFFICES ASSUME TypeOK, Orderly, MainFunc PROVE Orderly'
    OBVIOUS
<1> USE RowsAssumption DEF Orderly, InSettings, InDelays, ChosenSetting, MENU,
         DISP, PHOTO, SDCARD, SETTINGS, NO, Scenes, PageOf, Binding, Goto,
         TypeOK, ValuesOK, FlagsOK, sceneVars, settingVars, delayVars,
         taskVars, uiVars, mainVars
<1>1. CASE SwitchScene
    BY <1>1, SMT DEF SwitchScene
<1>2. CASE SceneChanged
    BY <1>2, SMT DEF SceneChanged
<1>3. CASE SceneUnchanged
    BY <1>3, SMT DEF SceneUnchanged
<1>4. CASE MenuSelect
    BY <1>4, SMT DEF MenuSelect
<1>5. CASE PrepareSetting
    BY <1>5, SMT DEF PrepareSetting
<1>6. CASE TakePhoto
    BY <1>6, SMT DEF TakePhoto
<1>7. CASE TestSave
    BY <1>7, SMT DEF TestSave
<1>8. CASE Save
    BY <1>8, SMT DEF Save
<1>9. CASE TestEject
    BY <1>9, SMT DEF TestEject
<1>10. CASE Eject
    BY <1>10, SMT DEF Eject
<1> HIDE DEF Orderly
<1> QED
    BY <1>1, <1>2, <1>3, <1>4, <1>5, <1>6, <1>7, <1>8, <1>9, <1>10 DEF MainFunc

\* A turn stays in order over the steps of a rebinding.
LEMMA OrderRebind == TypeOK /\ Orderly /\ Rebind => Orderly'
<1> SUFFICES ASSUME TypeOK, Orderly, Rebind PROVE Orderly'
    OBVIOUS
<1> USE RowsAssumption DEF Orderly, InSettings, InDelays, ChosenSetting, MENU,
         DISP, PHOTO, SDCARD, SETTINGS, NO, Scenes, PageOf, Binding, Goto,
         TypeOK, ValuesOK, FlagsOK, sceneVars, settingVars, delayVars,
         taskVars, uiVars, mainVars
<1>1. CASE Detach1
    BY <1>1, SMT DEF Detach1
<1>2. CASE Attach1
    BY <1>2, SMT DEF Attach1
<1>3. CASE Detach2
    BY <1>3, SMT DEF Detach2
<1>4. CASE Attach2
    BY <1>4, SMT DEF Attach2
<1>5. CASE Draw
    BY <1>5, SMT DEF Draw
<1>6. CASE DrawCursor
    BY <1>6, SMT DEF DrawCursor
<1> HIDE DEF Orderly
<1> QED
    BY <1>1, <1>2, <1>3, <1>4, <1>5, <1>6 DEF Rebind

\* A turn stays in order over the steps of enter_SETTING.
LEMMA OrderEnterSetting == TypeOK /\ Orderly /\ EnterSetting => Orderly'
<1> SUFFICES ASSUME TypeOK, Orderly, EnterSetting PROVE Orderly'
    OBVIOUS
<1> USE RowsAssumption DEF Orderly, InSettings, InDelays, ChosenSetting, MENU,
         DISP, PHOTO, SDCARD, SETTINGS, NO, Scenes, PageOf, Binding, Goto,
         TypeOK, ValuesOK, FlagsOK, sceneVars, settingVars, delayVars,
         taskVars, uiVars, mainVars
<1>1. CASE SwitchSetting
    BY <1>1, SMT DEF SwitchSetting
<1>2. CASE SettingList
    BY <1>2, SMT DEF SettingList
<1>3. CASE SettingChosen
    BY <1>3, SMT DEF SettingChosen
<1>4. CASE PrepareDelay
    BY <1>4, SMT DEF PrepareDelay
<1>5. CASE SettingBack
    BY <1>5, SMT DEF SettingBack
<1>6. CASE ResetSetting
    BY <1>6, SMT DEF ResetSetting
<1>7. CASE ResetSettingRow
    BY <1>7, SMT DEF ResetSettingRow
<1>8. CASE ResetSettingFlag
    BY <1>8, SMT DEF ResetSettingFlag
<1> HIDE DEF Orderly
<1> QED
    BY <1>1, <1>2, <1>3, <1>4, <1>5, <1>6, <1>7, <1>8 DEF EnterSetting

\* A turn stays in order over the steps of enter_SETTING_DELAY.
LEMMA OrderEnterDelay == TypeOK /\ Orderly /\ EnterDelay => Orderly'
<1> SUFFICES ASSUME TypeOK, Orderly, EnterDelay PROVE Orderly'
    OBVIOUS
<1> USE RowsAssumption DEF Orderly, InSettings, InDelays, ChosenSetting, MENU,
         DISP, PHOTO, SDCARD, SETTINGS, NO, Scenes, PageOf, Binding, Goto,
         TypeOK, ValuesOK, FlagsOK, sceneVars, settingVars, delayVars,
         taskVars, uiVars, mainVars
<1>1. CASE SwitchDelay
    BY <1>1, SMT DEF SwitchDelay
<1>2. CASE DelayList
    BY <1>2, SMT DEF DelayList
<1>3. CASE ConfigDelay
    BY <1>3, SMT DEF ConfigDelay
<1>4. CASE DelayBack
    BY <1>4, SMT DEF DelayBack
<1>5. CASE BackToSetting
    BY <1>5, SMT DEF BackToSetting
<1>6. CASE ResetDelay
    BY <1>6, SMT DEF ResetDelay
<1>7. CASE ResetDelayRow
    BY <1>7, SMT DEF ResetDelayRow
<1>8. CASE ResetDelayFlag
    BY <1>8, SMT DEF ResetDelayFlag
<1> HIDE DEF Orderly
<1> QED
    BY <1>1, <1>2, <1>3, <1>4, <1>5, <1>6, <1>7, <1>8 DEF EnterDelay

\* Each step of MainFunc brings the interface closer to rest.
LEMMA CloserMainFunc == TypeOK /\ Orderly /\ MainFunc => Closer
<1> SUFFICES ASSUME TypeOK, Orderly, MainFunc PROVE Closer
    OBVIOUS
<1> USE RowsAssumption DEF Closer, Resting, Quiet, Looking, Work, Level, One,
         DelayLevel, PageLevel, TurnLeft, Orderly, InSettings, InDelays,
         ChosenSetting, MENU, DISP, PHOTO, SDCARD, SETTINGS, NO, Scenes,
         PageOf, Binding, Goto, TypeOK, ValuesOK, FlagsOK, sceneVars,
         settingVars, delayVars, taskVars, uiVars, mainVars
<1>1. CASE SwitchScene
    BY <1>1, SMT DEF SwitchScene
<1>2. CASE SceneChanged
    BY <1>2, SMT DEF SceneChanged
<1>3. CASE SceneUnchanged
    BY <1>3, SMT DEF SceneUnchanged
<1>4. CASE MenuSelect
    BY <1>4, SMT DEF MenuSelect
<1>5. CASE PrepareSetting
    BY <1>5, SMT DEF PrepareSetting
<1>6. CASE TakePhoto
    BY <1>6, SMT DEF TakePhoto
<1>7. CASE TestSave
    BY <1>7, SMT DEF TestSave
<1>8. CASE Save
    BY <1>8, SMT DEF Save
<1>9. CASE TestEject
    BY <1>9, SMT DEF TestEject
<1>10. CASE Eject
    BY <1>10, SMT DEF Eject
<1> HIDE DEF Closer
<1> QED
    BY <1>1, <1>2, <1>3, <1>4, <1>5, <1>6, <1>7, <1>8, <1>9, <1>10 DEF MainFunc

\* Each step of a rebinding brings the interface closer to rest.
LEMMA CloserRebind == TypeOK /\ Orderly /\ Rebind => Closer
<1> SUFFICES ASSUME TypeOK, Orderly, Rebind PROVE Closer
    OBVIOUS
<1> USE RowsAssumption DEF Closer, Resting, Quiet, Looking, Work, Level, One,
         DelayLevel, PageLevel, TurnLeft, Orderly, InSettings, InDelays,
         ChosenSetting, MENU, DISP, PHOTO, SDCARD, SETTINGS, NO, Scenes,
         PageOf, Binding, Goto, TypeOK, ValuesOK, FlagsOK, sceneVars,
         settingVars, delayVars, taskVars, uiVars, mainVars
<1>1. CASE Detach1
    BY <1>1, SMT DEF Detach1
<1>2. CASE Attach1
    BY <1>2, SMT DEF Attach1
<1>3. CASE Detach2
    BY <1>3, SMT DEF Detach2
<1>4. CASE Attach2
    BY <1>4, SMT DEF Attach2
<1>5. CASE Draw
    BY <1>5, SMT DEF Draw
<1>6. CASE DrawCursor
    BY <1>6, SMT DEF DrawCursor
<1> HIDE DEF Closer
<1> QED
    BY <1>1, <1>2, <1>3, <1>4, <1>5, <1>6 DEF Rebind

\* Each step of enter_SETTING brings the interface closer to rest.
LEMMA CloserEnterSetting == TypeOK /\ Orderly /\ EnterSetting => Closer
<1> SUFFICES ASSUME TypeOK, Orderly, EnterSetting PROVE Closer
    OBVIOUS
<1> USE RowsAssumption DEF Closer, Resting, Quiet, Looking, Work, Level, One,
         DelayLevel, PageLevel, TurnLeft, Orderly, InSettings, InDelays,
         ChosenSetting, MENU, DISP, PHOTO, SDCARD, SETTINGS, NO, Scenes,
         PageOf, Binding, Goto, TypeOK, ValuesOK, FlagsOK, sceneVars,
         settingVars, delayVars, taskVars, uiVars, mainVars
<1>1. CASE SwitchSetting
    BY <1>1, SMT DEF SwitchSetting
<1>2. CASE SettingList
    BY <1>2, SMT DEF SettingList
<1>3. CASE SettingChosen
    BY <1>3, SMT DEF SettingChosen
<1>4. CASE PrepareDelay
    BY <1>4, SMT DEF PrepareDelay
<1>5. CASE SettingBack
    BY <1>5, SMT DEF SettingBack
<1>6. CASE ResetSetting
    BY <1>6, SMT DEF ResetSetting
<1>7. CASE ResetSettingRow
    BY <1>7, SMT DEF ResetSettingRow
<1>8. CASE ResetSettingFlag
    BY <1>8, SMT DEF ResetSettingFlag
<1> HIDE DEF Closer
<1> QED
    BY <1>1, <1>2, <1>3, <1>4, <1>5, <1>6, <1>7, <1>8 DEF EnterSetting

\* Each step of enter_SETTING_DELAY brings the interface closer to rest.
LEMMA CloserEnterDelay == TypeOK /\ Orderly /\ EnterDelay => Closer
<1> SUFFICES ASSUME TypeOK, Orderly, EnterDelay PROVE Closer
    OBVIOUS
<1> USE RowsAssumption DEF Closer, Resting, Quiet, Looking, Work, Level, One,
         DelayLevel, PageLevel, TurnLeft, Orderly, InSettings, InDelays,
         ChosenSetting, MENU, DISP, PHOTO, SDCARD, SETTINGS, NO, Scenes,
         PageOf, Binding, Goto, TypeOK, ValuesOK, FlagsOK, sceneVars,
         settingVars, delayVars, taskVars, uiVars, mainVars
<1>1. CASE SwitchDelay
    BY <1>1, SMT DEF SwitchDelay
<1>2. CASE DelayList
    BY <1>2, SMT DEF DelayList
<1>3. CASE ConfigDelay
    BY <1>3, SMT DEF ConfigDelay
<1>4. CASE DelayBack
    BY <1>4, SMT DEF DelayBack
<1>5. CASE BackToSetting
    BY <1>5, SMT DEF BackToSetting
<1>6. CASE ResetDelay
    BY <1>6, SMT DEF ResetDelay
<1>7. CASE ResetDelayRow
    BY <1>7, SMT DEF ResetDelayRow
<1>8. CASE ResetDelayFlag
    BY <1>8, SMT DEF ResetDelayFlag
<1> HIDE DEF Closer
<1> QED
    BY <1>1, <1>2, <1>3, <1>4, <1>5, <1>6, <1>7, <1>8 DEF EnterDelay

\* The steps of MainFunc keep what is known of the menu.
LEMMA MenuMainFunc == IndInv /\ MenuInv /\ MainFunc => MenuInv'
<1> SUFFICES ASSUME IndInv, MenuInv, MainFunc PROVE MenuInv'
    OBVIOUS
<1> USE DEF MenuInv, BootKeys, MenuDrawn, NotMenu, IndInv, KeysPaired,
         Rebinding, Binding, Keys, NoHandler, Goto, MENU, DISP, PHOTO, SDCARD,
         SETTINGS, Scenes, TypeOK, ValuesOK, sceneVars, settingVars,
         delayVars, taskVars, uiVars, mainVars
<1>1. CASE SwitchScene
    BY <1>1, SMT DEF SwitchScene
<1>2. CASE SceneChanged
    BY <1>2, SMT DEF SceneChanged, PageOf
<1>3. CASE SceneUnchanged
    BY <1>3, SMT DEF SceneUnchanged
<1>4. CASE MenuSelect
    BY <1>4, SMT DEF MenuSelect
<1>5. CASE PrepareSetting
    BY <1>5, SMT DEF PrepareSetting
<1>6. CASE TakePhoto
    BY <1>6, SMT DEF TakePhoto
<1>7. CASE TestSave
    BY <1>7, SMT DEF TestSave
<1>8. CASE Save
    BY <1>8, SMT DEF Save
<1>9. CASE TestEject
    BY <1>9, SMT DEF TestEject
<1>10. CASE Eject
    BY <1>10, SMT DEF Eject
<1> HIDE DEF MenuInv
<1> QED
    BY <1>1, <1>2, <1>3, <1>4, <1>5, <1>6, <1>7, <1>8, <1>9, <1>10 DEF MainFunc

\* The steps of a rebinding keep what is known of the menu.
LEMMA MenuRebind == IndInv /\ MenuInv /\ Rebind => MenuInv'
<1> SUFFICES ASSUME IndInv, MenuInv, Rebind PROVE MenuInv'
    OBVIOUS
<1> USE DEF MenuInv, BootKeys, MenuDrawn, NotMenu, IndInv, KeysPaired,
         Rebinding, Binding, Keys, NoHandler, Goto, MENU, DISP, PHOTO, SDCARD,
         SETTINGS, Scenes, TypeOK, ValuesOK, sceneVars, settingVars,
         delayVars, taskVars, uiVars, mainVars
<1>1. CASE Detach1
    BY <1>1, SMT DEF Detach1, Detach
<1>2. CASE Attach1
    BY <1>2, SMT DEF Attach1, Attach, Pages, Lists
<1>3. CASE Detach2
    BY <1>3, SMT DEF Detach2, Detach
<1>4. CASE Attach2
    BY <1>4, SMT DEF Attach2, Attach
<1>5. CASE Draw
    BY <1>5, SMT DEF Draw, Lists
<1>6. CASE DrawCursor
    BY <1>6, SMT DEF DrawCursor
<1> HIDE DEF MenuInv
<1> QED
    BY <1>1, <1>2, <1>3, <1>4, <1>5, <1>6 DEF Rebind

\* The steps of enter_SETTING keep what is known of the menu.
LEMMA MenuEnterSetting == IndInv /\ MenuInv /\ EnterSetting => MenuInv'
<1> SUFFICES ASSUME IndInv, MenuInv, EnterSetting PROVE MenuInv'
    OBVIOUS
<1> USE DEF MenuInv, BootKeys, MenuDrawn, NotMenu, IndInv, KeysPaired,
         Rebinding, Binding, Keys, NoHandler, Goto, MENU, DISP, PHOTO, SDCARD,
         SETTINGS, Scenes, TypeOK, ValuesOK, sceneVars, settingVars,
         delayVars, taskVars, uiVars, mainVars
<1>1. CASE SwitchSetting
    BY <1>1, SMT DEF SwitchSetting
<1>2. CASE SettingList
    BY <1>2, SMT DEF SettingList
<1>3. CASE SettingChosen
    BY <1>3, SMT DEF SettingChosen
<1>4. CASE PrepareDelay
    BY <1>4, SMT DEF PrepareDelay
<1>5. CASE SettingBack
    BY <1>5, SMT DEF SettingBack
<1>6. CASE ResetSetting
    BY <1>6, SMT DEF ResetSetting
<1>7. CASE ResetSettingRow
    BY <1>7, SMT DEF ResetSettingRow
<1>8. CASE ResetSettingFlag
    BY <1>8, SMT DEF ResetSettingFlag
<1> HIDE DEF MenuInv
<1> QED
    BY <1>1, <1>2, <1>3, <1>4, <1>5, <1>6, <1>7, <1>8 DEF EnterSetting

\* The steps of enter_SETTING_DELAY keep what is known of the menu.
LEMMA MenuEnterDelay == IndInv /\ MenuInv /\ EnterDelay => MenuInv'
<1> SUFFICES ASSUME IndInv, MenuInv, EnterDelay PROVE MenuInv'
    OBVIOUS
<1> USE DEF MenuInv, BootKeys, MenuDrawn, NotMenu, IndInv, KeysPaired,
         Rebinding, Binding, Keys, NoHandler, Goto, MENU, DISP, PHOTO, SDCARD,
         SETTINGS, Scenes, TypeOK, ValuesOK, sceneVars, settingVars,
         delayVars, taskVars, uiVars, mainVars
<1>1. CASE SwitchDelay
    BY <1>1, SMT DEF SwitchDelay
<1>2. CASE DelayList
    BY <1>2, SMT DEF DelayList
<1>3. CASE ConfigDelay
    BY <1>3, SMT DEF ConfigDelay
<1>4. CASE DelayBack
    BY <1>4, SMT DEF DelayBack
<1>5. CASE BackToSetting
    BY <1>5, SMT DEF BackToSetting
<1>6. CASE ResetDelay
    BY <1>6, SMT DEF ResetDelay
<1>7. CASE ResetDelayRow
    BY <1>7, SMT DEF ResetDelayRow
<1>8. CASE ResetDelayFlag
    BY <1>8, SMT DEF ResetDelayFlag
<1> HIDE DEF MenuInv
<1> QED
    BY <1>1, <1>2, <1>3, <1>4, <1>5, <1>6, <1>7, <1>8 DEF EnterDelay

\* The steps of KeyPress keep what is known of the menu.
LEMMA MenuKeyPress == IndInv /\ MenuInv /\ KeyPress => MenuInv'
<1> SUFFICES ASSUME IndInv, MenuInv, KeyPress PROVE MenuInv'
    OBVIOUS
<1> USE DEF MenuInv, BootKeys, MenuDrawn, NotMenu, IndInv, KeysPaired,
         Rebinding, Binding, Keys, NoHandler, Goto, MENU, DISP, PHOTO, SDCARD,
         SETTINGS, Scenes, TypeOK, ValuesOK, sceneVars, settingVars,
         delayVars, taskVars, uiVars, mainVars
<1>1. CASE Key1Menu
    BY <1>1, SMT DEF Key1Menu
<1>2. CASE Key2Menu
    BY <1>2, SMT DEF Key2Menu
<1>3. CASE Key1Disp
    BY <1>3, SMT DEF Key1Disp
<1>4. CASE Key1Sd
    BY <1>4, SMT DEF Key1Sd
<1>5. CASE Key2Leave
    BY <1>5, SMT DEF Key2Leave
<1>6. CASE Key1Setting
    BY <1>6, SMT DEF Key1Setting
<1>7. CASE Key2Setting
    BY <1>7, SMT DEF Key2Setting
<1>8. CASE Key1Delay
    BY <1>8, SMT DEF Key1Delay
<1>9. CASE Key2Delay
    BY <1>9, SMT DEF Key2Delay
<1> HIDE DEF MenuInv
<1> QED
    BY <1>1, <1>2, <1>3, <1>4, <1>5, <1>6, <1>7, <1>8, <1>9 DEF KeyPress

\* No handler but the menu's shows the menu, and the first turn binds it.
LEMMA InitMenu == Init => MenuInv
    BY DEF Init, MenuInv, BootKeys, MenuDrawn, Keys

\* Every step keeps what is known of the menu.
LEMMA NextMenu == IndInv /\ MenuInv /\ [Next]_vars => MenuInv'
<1> SUFFICES ASSUME IndInv, MenuInv, [Next]_vars PROVE MenuInv'
    OBVIOUS
<1>1. CASE MainThread
    BY <1>1, MenuMainFunc, MenuRebind, MenuEnterSetting, MenuEnterDelay
       DEF MainThread
<1>2. CASE KeyPress
    BY <1>2, MenuKeyPress
<1>3. CASE UNCHANGED vars
    BY <1>3 DEF vars, mainVars, uiVars, sceneVars, settingVars, delayVars,
       taskVars, MenuInv, BootKeys, MenuDrawn, NotMenu
<1> QED
    BY <1>1, <1>2, <1>3 DEF Next

\* Every step of a turn leaves fewer steps to its end: no turn repeats a
\* point of mainFunc.
LEMMA TurnSteps == TypeOK /\ MainThread /\ pc # "loop" => TurnLeft' < TurnLeft
<1> SUFFICES ASSUME TypeOK, MainThread, pc # "loop" PROVE TurnLeft' < TurnLeft
    OBVIOUS
<1> USE DEF TurnLeft, Goto
<1>1. CASE MainFunc
    BY <1>1, SMT DEF MainFunc, SwitchScene, SceneChanged, SceneUnchanged,
       MenuSelect, PrepareSetting, TakePhoto, TestSave, Save, TestEject, Eject
<1>2. CASE Rebind
    BY <1>2, SMT DEF Rebind, Detach1, Attach1, Detach2, Attach2, Draw,
       DrawCursor
<1>3. CASE EnterSetting
    BY <1>3, SMT DEF EnterSetting, SwitchSetting, SettingList, SettingChosen,
       PrepareDelay, SettingBack, ResetSetting, ResetSettingRow,
       ResetSettingFlag
<1>4. CASE EnterDelay
    BY <1>4, SMT DEF EnterDelay, SwitchDelay, DelayList, ConfigDelay,
       DelayBack, BackToSetting, ResetDelay, ResetDelayRow, ResetDelayFlag
<1> HIDE DEF TurnLeft
<1> QED
    BY <1>1, <1>2, <1>3, <1>4 DEF MainThread

\* Presses cannot hold a turn up: whatever they do between its steps, each
\* step of mainFunc leaves fewer to the end of the turn, and a press leaves
\* as many.
THEOREM TurnsEnd ==
    Spec => /\ [](TurnLeft \in Nat)
            /\ [][MainThread /\ pc # "loop" => TurnLeft' < TurnLeft]_vars
            /\ [][KeyPress => TurnLeft' = TurnLeft]_vars
<1>1. TurnLeft \in Nat
    BY DEF TurnLeft
<1>2. TypeOK /\ [Next]_vars =>
          [MainThread /\ pc # "loop" => TurnLeft' < TurnLeft]_vars
    BY TurnSteps
<1>3. [Next]_vars => [KeyPress => TurnLeft' = TurnLeft]_vars
    BY KeyPressAside DEF TurnLeft
<1> QED
    BY <1>1, <1>2, <1>3, TypeInvariance, PTL DEF Spec

\* The work left is a number of steps.
LEMMA WorkNat == TypeOK => Work \in Nat
    BY SMT DEF Work, Level, One, DelayLevel, PageLevel, TurnLeft, TypeOK,
       FlagsOK, InSettings, ChosenSetting

\* At the top of the loop a turn is in order, whatever was pressed before.
LEMMA LoopOrderly == pc = "loop" => Orderly
    BY DEF Orderly, Binding

\* A turn at rest leaves the interface as Settled says.
LEMMA RestSettled == IndInv /\ MenuInv /\ CursorInv /\ Resting => Settled
<1> SUFFICES ASSUME IndInv, MenuInv, CursorInv, Resting PROVE Settled
    OBVIOUS
<1>1. pc \in Looking /\ Quiet
    BY DEF Resting
<1>2. handler[1] = handler[2] /\ handler[1] \in Pages
    BY <1>1, SMT DEF IndInv, TypeOK, ValuesOK, KeysPaired, MenuInv, BootKeys,
       Looking, Quiet, Binding, Keys
<1>3. handler[1] = "photo" \/ screen.page \in {handler[1], "photo"}
    BY <1>1, <1>2, SMT DEF IndInv, ScreenMatchesKeys, Looking, Binding, Pages,
       Lists
<1>4. handler[1] = "menu" /\ currScene = MENU => screen.row = selectScene
    BY <1>1, SMT DEF MenuInv, MenuDrawn, CursorInv, MenuFresh, Drawn, Looking,
       Quiet, Binding
<1> QED
    BY <1>1, <1>2, <1>3, <1>4 DEF Settled, Quiet

\* A step of the main thread keeps a turn in order, stays at rest, and comes
\* closer to rest.
LEMMA MainThreadSettles ==
    TypeOK /\ MainThread /\ Orderly =>
        /\ Orderly'
        /\ Resting => Resting'
        /\ ~Resting => Resting' \/ Work' < Work
<1> SUFFICES ASSUME TypeOK, MainThread, Orderly PROVE Orderly' /\ Closer
    BY DEF Closer
<1>1. CASE MainFunc
    BY <1>1, OrderMainFunc, CloserMainFunc
<1>2. CASE Rebind
    BY <1>2, OrderRebind, CloserRebind
<1>3. CASE EnterSetting
    BY <1>3, OrderEnterSetting, CloserEnterSetting
<1>4. CASE EnterDelay
    BY <1>4, OrderEnterDelay, CloserEnterDelay
<1> QED
    BY <1>1, <1>2, <1>3, <1>4 DEF MainThread

\* When the keys are left alone, the first turn that starts comes closer to
\* rest with each step of mainFunc, through every page and list it has to
\* bind on the way; once at rest it stays there, and there flags, keys, page
\* and menu cursor agree.  What Settles adds is that the steps are taken.
THEOREM WorkSettles ==
    Spec => /\ []((pc = "loop" => Orderly) /\ (Resting => Settled))
            /\ [](Work \in Nat)
            /\ [][MainThread /\ Orderly =>
                      /\ Orderly'
                      /\ Resting => Resting'
                      /\ ~Resting => Resting' \/ Work' < Work]_vars
<1>1. IndInv /\ MenuInv /\ CursorInv =>
          (pc = "loop" => Orderly) /\ (Resting => Settled) /\ Work \in Nat
    BY LoopOrderly, RestSettled, WorkNat DEF IndInv
<1>2. IndInv /\ [Next]_vars =>
          [MainThread /\ Orderly =>
               /\ Orderly'
               /\ Resting => Resting'
               /\ ~Resting => Resting' \/ Work' < Work]_vars
    BY MainThreadSettles DEF IndInv
<1> QED
    BY <1>1, <1>2, InitMenu, NextMenu, InitCursor, NextCursor, Inductive, PTL
       DEF Spec

-----------------------------------------------------------------------------
(* A patient user *)

\* The first half of a rebinding: KEY2 still serves the old page.
Before == {"detach1", "attach1", "detach2"}

\* Where the keys of the page that is served lead from the row drawn.
Leads(p) ==
    \/ ServedPage = "change" /\ p = "menu"
    \/ ServedPage = "menu" /\ DrawnRow > 0 /\ p = Abstract!MenuPages[DrawnRow]
    \/ ServedPage \in {"disp", "photo", "sd"} /\ p = "menu"
    \/ ServedPage = "setting" /\ DrawnRow \in 1 .. LastSetting - 1 /\ p = "delay"
    \/ ServedPage = "setting" /\ DrawnRow = LastSetting /\ p = "menu"
    \/ ServedPage = "delay" /\ DrawnRow > 0 /\ p = "setting"

\* A press was made on the page whose keys lead to p, and p is not bound yet.
Heading(p) == pc \notin Before \cup Binding \cup {"draw", "cursor"} /\ Leads(p)

\* p is being bound, or its keys are served.
At(p) ==
    IF pc \in Before THEN page = p /\ Leads(p)
    ELSE ServedPage = p /\ (pc \in {"attach2", "draw", "cursor"} => page = p)

ResetPoints ==
    {"resetSetting", "resetSettingRow", "resetSettingFlag", "resetDelay",
     "resetDelayRow", "resetDelayFlag"}

SettingPoints == {"setting", "settingTest", "prepDelay"}
DelayPoints   == {"delay", "delayTest", "backToSetting"}

\* What a switch acts on is not changed before it is done.
Switched ==
    /\ pc = "scene" => at = currScene
    /\ pc = "settingTest" => at = currSetting
    /\ pc = "delayTest" => at = currDelay
    /\ pc = "menu" => currScene = MENU
    /\ pc = "photo" => currScene = PHOTO

ScenePending ==
    scene_isChanged =>
        /\ pc \in ResetPoints \cup {"loop", "scene"}
        /\ Heading(IF currScene = SETTINGS THEN "setting" ELSE PageOf(currScene))

SceneServed ==
    ~scene_isChanged /\ currScene # SETTINGS =>
        /\ pc \notin ResetPoints \cup SettingPoints \cup DelayPoints
                     \cup {"prepSetting"}
        /\ At(PageOf(currScene))

\* On a visit to SETTINGS; a delay list of a setting is on the way or there.
SettingServed ==
    ~scene_isChanged /\ currScene = SETTINGS =>
        IF pc = "prepSetting" THEN Heading("setting") /\ setting_isChanged
        ELSE IF setting_isChanged
        THEN IF currSetting = NO THEN Heading("setting")
             ELSE /\ pc \in {"loop", "scene", "setting", "settingTest"}
                  /\ ServedPage = "setting" /\ DrawnRow = currSetting
        ELSE IF currSetting = NO
        THEN At("setting")
        ELSE currSetting < LastSetting

DelayServed ==
    ~scene_isChanged /\ currScene = SETTINGS /\ ~setting_isChanged
            /\ currSetting # NO =>
        IF pc = "prepDelay" THEN Heading("delay") /\ delay_isChanged
        ELSE IF delay_isChanged
        THEN IF currDelay = NO THEN Heading("delay")
             ELSE Heading("setting") /\ ServedPage = "delay"
        ELSE currDelay = NO /\ At("delay")

\* What the points of enter_SETTING and enter_SETTING_DELAY know.
Visiting ==
    /\ pc \in SettingPoints \cup DelayPoints \cup {"prepSetting"} =>
           ~scene_isChanged /\ currScene = SETTINGS
    /\ pc \in DelayPoints \cup {"prepDelay"} =>
           ~setting_isChanged /\ currSetting \in 1 .. LastSetting - 1
    /\ pc = "backToSetting" => currDelay # NO
    /\ pc \in {"resetSetting", "resetSettingRow", "resetSettingFlag"} =>
           scene_isChanged
    /\ pc \in {"resetDelay", "resetDelayRow", "resetDelayFlag"} =>
           scene_isChanged \/ (setting_isChanged /\ currSetting = NO)

\* A list that is left is bound again when it is entered again.
Left ==
    /\ scene_isChanged \/ currScene # SETTINGS => setting_isChanged
    /\ scene_isChanged \/ currScene # SETTINGS \/ setting_isChanged
           \/ currSetting = NO => delay_isChanged

\* The list that is served is drawn, and its cursor is at most one row behind.
OnList(list) == screen.page = list /\ screen.list = list

ListDrawn ==
    IF pc \in {"attach2", "draw"}
    THEN /\ page \in {"setting", "delay"} => ~OnList(page)
         /\ page = "menu" /\ OnList("menu") => screen.row = selectScene
    ELSE ServedPage \in Lists => OnList(ServedPage)

CursorNear ==
    /\ \A list \in Lists :
           OnList(list) => screen.row \in 1 .. Abstract!LastRow[list]
    /\ OnList("menu") =>
           selectScene \in {screen.row, NextRow(screen.row, SETTINGS)}
    /\ OnList("setting") /\ ~scene_isChanged /\ currScene = SETTINGS =>
           selectSetting \in {screen.row, NextRow(screen.row, LastSetting)}
    /\ OnList("delay") /\ ~scene_isChanged /\ currScene = SETTINGS
               /\ ~setting_isChanged /\ currSetting # NO =>
           selectDelay \in {screen.row, NextRow(screen.row, LastDelay)}
    /\ sceneSelect_isChanged =>
           ~scene_isChanged /\ currScene = MENU /\ pc \in {"loop", "scene", "menu"}

EjectPending ==
    isEjecting =>
        /\ ~scene_isChanged /\ currScene = SDCARD /\ ServedPage = "sd"
        /\ pc \in {"loop", "scene", "sd"}

PatientInv ==
    /\ Switched /\ ScenePending /\ SceneServed /\ SettingServed /\ DelayServed
    /\ Visiting /\ Left /\ ListDrawn /\ CursorNear /\ EjectPending

\* Initially the boot page leads to the menu, and every list is still to be
\* bound.
LEMMA InitPatient == Init => PatientInv
    BY RowsAssumption DEF Init, PatientInv, Switched, ScenePending, SceneServed,
       SettingServed, DelayServed, Visiting, Left, ListDrawn, CursorNear,
       EjectPending, OnList, Heading, Leads, ServedPage, DrawnRow, Before,
       Binding, ResetPoints, SettingPoints, DelayPoints, Lists, Keys, PageOf,
       NoHandler, MENU, DISP, PHOTO, SDCARD, SETTINGS, NO

\* The steps of mainFunc keep a patient user's invariant.
LEMMA PatientMainFunc ==
    IndInv /\ CursorInv /\ PatientInv /\ MainFunc => PatientInv'
<1> SUFFICES ASSUME IndInv, CursorInv, PatientInv, MainFunc
             PROVE  PatientInv'
    OBVIOUS
<1>1. TypeOK
    BY DEF IndInv
<1> USE <1>1, CursorContext, RowsAssumption DEF PatientInv, Switched,
         ScenePending, SceneServed, SettingServed, DelayServed, Visiting,
         Left, ListDrawn, CursorNear, EjectPending, OnList, At, Heading,
         Leads, ServedPage, DrawnRow, Before, ResetPoints, SettingPoints,
         DelayPoints, Lists, Keys, Pages, MainPoints, Scenes, Binding, Goto,
         MENU, DISP, PHOTO, SDCARD, SETTINGS, NO, uiVars, mainVars, sceneVars,
         settingVars, delayVars, taskVars, NoHandler, PageOf, TypeOK,
         ValuesOK, FlagsOK, Abstract!MenuPages, Abstract!LastRow
<1>2. CASE SwitchScene
    BY <1>2 DEF SwitchScene
<1>3. CASE SceneChanged
    BY <1>3 DEF SceneChanged
<1>4. CASE SceneUnchanged
    BY <1>4 DEF SceneUnchanged
<1>5. CASE MenuSelect
    BY <1>5 DEF MenuSelect
<1>6. CASE PrepareSetting
    BY <1>6 DEF PrepareSetting
<1>7. CASE TakePhoto
    BY <1>7 DEF TakePhoto
<1>8. CASE TestSave
    BY <1>8 DEF TestSave
<1>9. CASE Save
    BY <1>9 DEF Save
<1>10. CASE TestEject
    BY <1>10 DEF TestEject
<1>11. CASE Eject
    BY <1>11 DEF Eject
<1> HIDE DEF PatientInv
<1> QED
    BY <1>2, <1>3, <1>4, <1>5, <1>6, <1>7, <1>8, <1>9, <1>10, <1>11 DEF
       MainFunc

\* Rebinding and drawing keep a patient user's invariant.
LEMMA PatientRebind ==
    IndInv /\ CursorInv /\ PatientInv /\ Rebind => PatientInv'
<1> SUFFICES ASSUME IndInv, CursorInv, PatientInv, Rebind
             PROVE  PatientInv'
    OBVIOUS
<1>1. TypeOK
    BY DEF IndInv
<1> USE <1>1, CursorContext, RowsAssumption DEF PatientInv, Switched,
         ScenePending, SceneServed, SettingServed, DelayServed, Visiting,
         Left, ListDrawn, CursorNear, EjectPending, OnList, At, Heading,
         Leads, ServedPage, DrawnRow, Before, ResetPoints, SettingPoints,
         DelayPoints, Lists, Keys, Pages, MainPoints, Scenes, Binding, Goto,
         MENU, DISP, PHOTO, SDCARD, SETTINGS, NO, uiVars, mainVars, sceneVars,
         settingVars, delayVars, taskVars, NoHandler, PageOf, TypeOK,
         ValuesOK, FlagsOK, Abstract!MenuPages, Abstract!LastRow
<1>2. CASE Detach1
    BY <1>2 DEF Detach1, Detach, KeysPaired
<1>3. CASE Attach1
    BY <1>3 DEF Attach1, Attach, Rebinding
<1>4. CASE Detach2
    BY <1>4 DEF Detach2, Detach, Rebinding, CursorInv, MenuFresh, Drawn
<1>5. CASE Attach2
    BY <1>5 DEF Attach2, Attach, Rebinding
<1>6. CASE Draw
    BY <1>6 DEF Draw, CursorOf, Rebinding
<1>7. CASE DrawCursor
    BY <1>7 DEF DrawCursor, CursorOf
<1> HIDE DEF PatientInv
<1> QED
    BY <1>2, <1>3, <1>4, <1>5, <1>6, <1>7 DEF Rebind

\* The steps of enter_SETTING keep a patient user's invariant.
LEMMA PatientEnterSetting ==
    IndInv /\ CursorInv /\ PatientInv /\ EnterSetting => PatientInv'
<1> SUFFICES ASSUME IndInv, CursorInv, PatientInv, EnterSetting
             PROVE  PatientInv'
    OBVIOUS
<1>1. TypeOK
    BY DEF IndInv
<1> USE <1>1, CursorContext, RowsAssumption DEF PatientInv, Switched,
         ScenePending, SceneServed, SettingServed, DelayServed, Visiting,
         Left, ListDrawn, CursorNear, EjectPending, OnList, At, Heading,
         Leads, ServedPage, DrawnRow, Before, ResetPoints, SettingPoints,
         DelayPoints, Lists, Keys, Pages, MainPoints, Scenes, Binding, Goto,
         MENU, DISP, PHOTO, SDCARD, SETTINGS, NO, uiVars, mainVars, sceneVars,
         settingVars, delayVars, taskVars, NoHandler, PageOf, TypeOK,
         ValuesOK, FlagsOK, Abstract!MenuPages, Abstract!LastRow
<1>2. CASE SwitchSetting
    BY <1>2 DEF SwitchSetting
<1>3. CASE SettingList
    BY <1>3 DEF SettingList
<1>4. CASE SettingChosen
    BY <1>4 DEF SettingChosen
<1>5. CASE PrepareDelay
    BY <1>5 DEF PrepareDelay
<1>6. CASE SettingBack
    BY <1>6 DEF SettingBack
<1>7. CASE ResetSetting
    BY <1>7 DEF ResetSetting
<1>8. CASE ResetSettingRow
    BY <1>8 DEF ResetSettingRow
<1>9. CASE ResetSettingFlag
    BY <1>9 DEF ResetSettingFlag
<1> HIDE DEF PatientInv
<1> QED
    BY <1>2, <1>3, <1>4, <1>5, <1>6, <1>7, <1>8, <1>9 DEF EnterSetting

\* The steps of enter_SETTING_DELAY keep a patient user's invariant.
LEMMA PatientEnterDelay ==
    IndInv /\ CursorInv /\ PatientInv /\ EnterDelay => PatientInv'
<1> SUFFICES ASSUME IndInv, CursorInv, PatientInv, EnterDelay
             PROVE  PatientInv'
    OBVIOUS
<1>1. TypeOK
    BY DEF IndInv
<1> USE <1>1, CursorContext, RowsAssumption DEF PatientInv, Switched,
         ScenePending, SceneServed, SettingServed, DelayServed, Visiting,
         Left, ListDrawn, CursorNear, EjectPending, OnList, At, Heading,
         Leads, ServedPage, DrawnRow, Before, ResetPoints, SettingPoints,
         DelayPoints, Lists, Keys, Pages, MainPoints, Scenes, Binding, Goto,
         MENU, DISP, PHOTO, SDCARD, SETTINGS, NO, uiVars, mainVars, sceneVars,
         settingVars, delayVars, taskVars, NoHandler, PageOf, TypeOK,
         ValuesOK, FlagsOK, Abstract!MenuPages, Abstract!LastRow
<1>2. CASE SwitchDelay
    BY <1>2 DEF SwitchDelay
<1>3. CASE DelayList
    BY <1>3 DEF DelayList
<1>4. CASE ConfigDelay
    BY <1>4 DEF ConfigDelay
<1>5. CASE DelayBack
    BY <1>5 DEF DelayBack
<1>6. CASE BackToSetting
    BY <1>6 DEF BackToSetting
<1>7. CASE ResetDelay
    BY <1>7 DEF ResetDelay
<1>8. CASE ResetDelayRow
    BY <1>8 DEF ResetDelayRow
<1>9. CASE ResetDelayFlag
    BY <1>9 DEF ResetDelayFlag
<1> HIDE DEF PatientInv
<1> QED
    BY <1>2, <1>3, <1>4, <1>5, <1>6, <1>7, <1>8, <1>9 DEF EnterDelay

\* A press that waits until the main thread is idle keeps a patient user's
\* invariant.
LEMMA PatientKeyPress ==
    IndInv /\ CursorInv /\ PatientInv /\ KeyPress /\ Idle => PatientInv'
<1> SUFFICES ASSUME IndInv, CursorInv, PatientInv, KeyPress, Idle
             PROVE  PatientInv'
    OBVIOUS
<1>1. TypeOK
    BY DEF IndInv
<1> USE <1>1, CursorContext, RowsAssumption DEF PatientInv, Switched,
         ScenePending, SceneServed, SettingServed, DelayServed, Visiting,
         Left, ListDrawn, CursorNear, EjectPending, OnList, At, Heading,
         Leads, ServedPage, DrawnRow, Before, ResetPoints, SettingPoints,
         DelayPoints, Lists, Keys, Pages, MainPoints, Scenes, Binding, Goto,
         MENU, DISP, PHOTO, SDCARD, SETTINGS, NO, uiVars, mainVars, sceneVars,
         settingVars, delayVars, taskVars, NoHandler, PageOf, TypeOK,
         ValuesOK, FlagsOK, Abstract!MenuPages, Abstract!LastRow, Idle,
         KeysPaired, CursorInv, MenuFresh, SettingFresh, DelayFresh, Leaving,
         Drawn, NextRow
<1>2. CASE Key1Menu
    BY <1>2 DEF Key1Menu
<1>3. CASE Key2Menu
    BY <1>3 DEF Key2Menu
<1>4. CASE Key1Disp
    BY <1>4 DEF Key1Disp
<1>5. CASE Key1Sd
    BY <1>5 DEF Key1Sd
<1>6. CASE Key2Leave
    BY <1>6 DEF Key2Leave
<1>7. CASE Key1Setting
    BY <1>7 DEF Key1Setting
<1>8. CASE Key2Setting
    BY <1>8 DEF Key2Setting
<1>9. CASE Key1Delay
    BY <1>9 DEF Key1Delay
<1>10. CASE Key2Delay
    BY <1>10 DEF Key2Delay
<1> HIDE DEF PatientInv
<1> QED
    BY <1>2, <1>3, <1>4, <1>5, <1>6, <1>7, <1>8, <1>9, <1>10 DEF KeyPress

\* What holds for any user holds for a patient one, and his own invariant.
LEMMA PatientInductive == PatientSpec => [](IndInv /\ CursorInv /\ PatientInv)
<1>1. [PatientNext]_vars => [Next]_vars
    BY DEF PatientNext, Next
<1>2. IndInv /\ CursorInv /\ PatientInv /\ [PatientNext]_vars => PatientInv'
  <2> SUFFICES ASSUME IndInv, CursorInv, PatientInv, [PatientNext]_vars
               PROVE  PatientInv'
      OBVIOUS
  <2>1. CASE MainFunc
      BY <2>1, PatientMainFunc
  <2>2. CASE Rebind
      BY <2>2, PatientRebind
  <2>3. CASE EnterSetting
      BY <2>3, PatientEnterSetting
  <2>4. CASE EnterDelay
      BY <2>4, PatientEnterDelay
  <2>5. CASE Idle /\ KeyPress
      BY <2>5, PatientKeyPress
  <2>6. CASE UNCHANGED vars
      BY <2>6 DEF vars, mainVars, uiVars, sceneVars, settingVars, delayVars,
         taskVars, PatientInv, Switched, ScenePending, SceneServed,
         SettingServed, DelayServed, Visiting, Left, ListDrawn, CursorNear,
         EjectPending, OnList, At, Heading, Leads, ServedPage, DrawnRow
  <2> QED
      BY <2>1, <2>2, <2>3, <2>4, <2>5, <2>6 DEF PatientNext, MainThread
<1> QED
    BY <1>1, <1>2, InitInv, NextInv, InitCursor, NextCursor, InitPatient, PTL
       DEF PatientSpec

\* A scene whose change was taken up is served by its own keys when the user
\* is patient.
THEOREM PatientIsServed == PatientSpec => []BoundForScene
<1>1. IndInv /\ PatientInv => BoundForScene
    BY CursorContext DEF BoundForScene, PatientInv, SceneServed, At, Before,
       ServedPage, KeysPaired, Binding, Keys
<1> QED
    BY <1>1, PatientInductive, PTL

\* An ejection is pending only on the page that asks "CONFIRM?".
THEOREM PatientEjects == PatientSpec => []EjectAsked
<1>1. IndInv /\ PatientInv => EjectAsked
    BY CursorContext DEF EjectAsked, PatientInv, EjectPending, ServedPage,
       KeysPaired, Binding, Keys
<1> QED
    BY <1>1, PatientInductive, PTL

-----------------------------------------------------------------------------
(* The navigation *)

\* KEY2 is rebound: where the old page's keys lead from the row drawn.
LEMMA Detach2Leads ==
    ASSUME IndInv, PatientInv, Detach2
    PROVE  Abstract!Next
<1>1. ServedPage' = page /\ screen' = screen /\ page \in Pages
    BY CursorContext DEF Detach2, Detach, Goto, Rebinding, ServedPage, Keys,
       NoHandler
<1>2. Leads(page)
    BY DEF Detach2, Goto, PatientInv, SceneServed, SettingServed, DelayServed,
       ScenePending, ResetPoints, Heading, At, Before
<1>3. Abstract!Go(page)
  <2>1. CASE page \in Lists
    <3>1. DrawnRow' \in {0} \cup 1 .. Abstract!LastRow[page]
        BY <1>1, <2>1 DEF DrawnRow, PatientInv, CursorNear, OnList
    <3>2. page \in DOMAIN Abstract!LastRow
        BY <2>1 DEF Abstract!LastRow, Lists
    <3> QED
        BY <1>1, <3>1, <3>2 DEF Abstract!Go, Abstract!Rows
  <2>2. CASE page \notin Lists
    <3>1. DrawnRow' = 0
        BY <1>1, <2>2 DEF DrawnRow
    <3>2. page \notin DOMAIN Abstract!LastRow
        BY <2>2 DEF Abstract!LastRow, Lists
    <3> QED
        BY <1>1, <3>1, <3>2 DEF Abstract!Go
  <2> QED
      BY <2>1, <2>2
<1> QED
    BY <1>2, <1>3 DEF Leads, Abstract!Next, Abstract!Welcome,
       Abstract!EnterPage, Abstract!LeavePage, Abstract!EnterDelay,
       Abstract!LeaveSetting, Abstract!LeaveDelay

\* A list is drawn with its cursor.
LEMMA DrawAppears ==
    ASSUME IndInv, PatientInv, Draw
    PROVE  Abstract!Next \/ UNCHANGED <<ServedPage, DrawnRow>>
<1>1. /\ handler' = handler /\ ServedPage' = ServedPage
      /\ ServedPage = page /\ page \in Pages
    BY CursorContext DEF Draw, Goto, Rebinding, ServedPage, Keys, Pages, Lists,
       NoHandler
<1>2. CASE page \in Lists
  <2>1. DrawnRow' = CursorOf(page)
      BY <1>1, <1>2 DEF Draw, DrawnRow, Lists
  <2>2. CursorOf(page) \in 1 .. Abstract!LastRow[page]
      BY <1>2, CursorContext, RowsAssumption
         DEF CursorOf, Lists, Abstract!LastRow, DISP, SETTINGS
  <2>3. DrawnRow = 0 \/ DrawnRow = CursorOf(page)
      BY <1>1, <1>2 DEF Draw, Goto, PatientInv, ListDrawn, OnList, DrawnRow,
         CursorOf, Lists
  <2>4. page \in DOMAIN Abstract!LastRow
      BY <1>2 DEF Abstract!LastRow, Lists
  <2> QED
      BY <1>1, <2>1, <2>2, <2>3, <2>4
         DEF Abstract!Next, Abstract!Cursor, Abstract!Rows
<1>3. CASE page \notin Lists
    BY <1>1, <1>3 DEF DrawnRow
<1> QED
    BY <1>2, <1>3

\* A cursor that is drawn again is on its row, or has moved on by one.
LEMMA DrawCursorMoves ==
    ASSUME IndInv, PatientInv, DrawCursor
    PROVE  Abstract!Next \/ UNCHANGED <<ServedPage, DrawnRow>>
<1>1. pc = "cursor" /\ page \in Lists /\ TypeOK
    BY DEF DrawCursor, Goto, IndInv, TypeOK, ValuesOK
<1>2. /\ ServedPage' = ServedPage /\ ServedPage = page
      /\ OnList(page)
  <2>1. ServedPage = page
      BY <1>1 DEF PatientInv, ScenePending, SceneServed, SettingServed,
         DelayServed, Heading, At, Before, Binding, ResetPoints
  <2> QED
      BY <1>1, <2>1 DEF DrawCursor, ServedPage, PatientInv, ListDrawn
<1>3. DrawnRow = screen.row /\ DrawnRow' = CursorOf(page)
    BY <1>1, <1>2, CursorContext DEF DrawCursor, DrawnRow, OnList
<1>4. screen.row \in 1 .. Abstract!LastRow[page]
    BY <1>1, <1>2 DEF PatientInv, CursorNear
<1>5. CursorOf(page) \in
          {screen.row, NextRow(screen.row, Abstract!LastRow[page])}
    BY <1>1, <1>2 DEF PatientInv, CursorNear, ScenePending, SceneServed,
       SettingServed, DelayServed, Heading, At, Before, Binding, ResetPoints,
       PageOf, CursorOf, Lists, Abstract!LastRow, SETTINGS
<1>6. page \in DOMAIN Abstract!LastRow /\ Abstract!LastRow[page] \in Nat
    BY <1>1, RowsAssumption DEF Abstract!LastRow, Lists
<1> QED
    BY <1>2, <1>3, <1>4, <1>5, <1>6
       DEF NextRow, Abstract!Next, Abstract!Cursor, Abstract!Rows

\* No other step changes the page the keys serve or the row drawn on it.
LEMMA OthersStutter ==
    ASSUME IndInv, PatientInv, [PatientNext]_vars,
           ~Detach2, ~Draw, ~DrawCursor
    PROVE  UNCHANGED <<ServedPage, DrawnRow>>
<1>1. UNCHANGED uiVars => UNCHANGED <<ServedPage, DrawnRow>>
    BY DEF uiVars, ServedPage, DrawnRow
<1>2. CASE Detach1 \/ Attach1 \/ Attach2
  <2>1. UNCHANGED <<screen, ServedPage>>
      BY <1>2, CursorContext DEF Detach1, Attach1, Attach2, Detach, Attach,
         Goto, Binding, KeysPaired, Rebinding, ServedPage, Keys, NoHandler,
         Pages, Lists
  <2> QED
      BY <2>1 DEF DrawnRow
<1>3. CASE TakePhoto
  <2>1. ServedPage = "photo" /\ handler' = handler
      BY <1>3 DEF TakePhoto, Goto, PatientInv, Switched, ScenePending,
         SceneServed, At, Before, PageOf, ResetPoints,
         MENU, DISP, PHOTO, SDCARD, SETTINGS
  <2> QED
      BY <2>1 DEF ServedPage, DrawnRow, Lists
<1>4. CASE MainFunc /\ ~TakePhoto
    BY <1>1, <1>4 DEF MainFunc, SwitchScene, SceneChanged, SceneUnchanged,
       MenuSelect, PrepareSetting, TestSave, Save, TestEject, Eject
<1>5. CASE EnterSetting
    BY <1>1, <1>5 DEF EnterSetting, SwitchSetting, SettingList, SettingChosen,
       PrepareDelay, SettingBack, ResetSetting, ResetSettingRow,
       ResetSettingFlag
<1>6. CASE EnterDelay
    BY <1>1, <1>6 DEF EnterDelay, SwitchDelay, DelayList, ConfigDelay,
       DelayBack, BackToSetting, ResetDelay, ResetDelayRow, ResetDelayFlag
<1>7. CASE KeyPress
    BY <1>1, <1>7, KeyPressAside DEF uiVars
<1>8. CASE UNCHANGED vars
    BY <1>1, <1>8 DEF vars
<1> QED
    BY <1>2, <1>3, <1>4, <1>5, <1>6, <1>7, <1>8
       DEF PatientNext, MainThread, Rebind

\* For lists of any length, and any number of presses of a patient user, K2
\* leads where the cursor that is drawn points, and K1 moves it by one row.
THEOREM PatientNavigates == PatientSpec => ImplementsNavigation
<1>1. Init => Abstract!Init
    BY DEF Init, Abstract!Init, ServedPage, DrawnRow, Lists, Keys, NoHandler
<1>2. IndInv /\ PatientInv /\ [PatientNext]_vars
          => [Abstract!Next]_<<ServedPage, DrawnRow>>
    BY Detach2Leads, DrawAppears, DrawCursorMoves, OthersStutter
<1> QED
    BY <1>1, <1>2, PatientInductive, PTL
       DEF PatientSpec, ImplementsNavigation, Abstract!Spec

=============================================================================
