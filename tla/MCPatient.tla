------------------------------ MODULE MCPatient -----------------------------
(***************************************************************************)
(* SceneUI with a patient user: a key is pressed only when the main thread *)
(* has taken up the previous press and is back at the top of its loop.     *)
(* The number of presses is not bounded.                                   *)
(***************************************************************************)
EXTENDS SceneUI

\* Nothing is left for the main thread to do but to go round.
Idle ==
    /\ pc = "loop" /\ ~scene_isChanged
    /\ currScene = MENU   => ~sceneSelect_isChanged
    /\ currScene = DISP   => ~isSavingData
    /\ currScene = SDCARD => ~isEjecting
    /\ currScene = SETTINGS =>
        /\ ~setting_isChanged /\ currSetting # LastSetting
        /\ currSetting = NO => ~settingSelect_isChanged
        /\ currSetting # NO =>
               ~delay_isChanged /\ ~delaySelect_isChanged /\ currDelay = NO

PatientNext == MainThread \/ (Idle /\ KeyPress)

PatientSpec == Init /\ [][PatientNext]_vars /\ WF_vars(MainThread)

-----------------------------------------------------------------------------
\* The page is the one KEY2 serves, or KEY1 while KEY2 is being rebound; the
\* row is that of the cursor drawn on it.
ServedPage == IF handler[2] = NoHandler THEN handler[1] ELSE handler[2]

DrawnRow ==
    IF ServedPage \in Lists /\ screen.page = ServedPage /\ screen.list = ServedPage
    THEN screen.row ELSE 0

Abstract == INSTANCE Navigation WITH shown <- ServedPage, row <- DrawnRow

\* For a patient user the main thread and its interrupts implement the
\* navigation the LCD promises: K2 leads where the drawn cursor points.
ImplementsNavigation == Abstract!Spec

\* "CONFIRM?", "K1: EJECT", "K2: BACK": an ejection is asked for only on the
\* page of the card, and is over before a patient user leaves it.
EjectAsked == isEjecting => currScene = SDCARD /\ handler[1] = "sd"
=============================================================================
