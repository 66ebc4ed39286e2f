----------------------------- MODULE Navigation -----------------------------
(***************************************************************************)
(* What the user interface of the station promises: the pages the LCD      *)
(* texts of src/applications/main.c name, the row the cursor " >>" is on,  *)
(* and where each key leads.  No flags, no handlers, no main thread.       *)
(***************************************************************************)
EXTENDS Naturals

CONSTANTS
    LastSetting,    \* the BACK row of the setting list
    LastDelay       \* the BACK row of the delay list

VARIABLES
    shown,          \* the page
    row             \* the row of the cursor, 0 where there is none

\* The pages of the menu, by row: Display Data, Take Photo, Eject SD Card,
\* Settings.
MenuPages == <<"disp", "photo", "sd", "setting">>

LastRow == [menu |-> 4, setting |-> LastSetting, delay |-> LastDelay]

Rows(list) == 1 .. LastRow[list]

Init == shown = "change" /\ row = 0

\* A list may be entered before its cursor is drawn, or with a cursor left.
Go(p) ==
    /\ shown' = p
    /\ row' \in IF p \in DOMAIN LastRow THEN {0} \cup Rows(p) ELSE {0}

Welcome == shown = "change" /\ Go("menu")

\* The cursor appears, or K1 moves it by one row, the last to the first.
Cursor ==
    /\ shown \in DOMAIN LastRow
    /\ row' \in IF row = 0 THEN Rows(shown)
                ELSE {IF row = LastRow[shown] THEN 1 ELSE row + 1}
    /\ UNCHANGED shown

\* K2 on the menu enters the page the cursor is on.
EnterPage == shown = "menu" /\ row > 0 /\ Go(MenuPages[row])

\* K2 on a page that is no list leads back to the menu.
LeavePage == shown \in {"disp", "photo", "sd"} /\ Go("menu")

\* K2 on the setting list: BACK TO MENU, or the delay list of the row.
EnterDelay == shown = "setting" /\ row \in 1 .. LastSetting - 1 /\ Go("delay")
LeaveSetting == shown = "setting" /\ row = LastSetting /\ Go("menu")

\* K2 on the delay list leads back to the setting list from every row.
LeaveDelay == shown = "delay" /\ row > 0 /\ Go("setting")

Next ==
    \/ Welcome \/ Cursor \/ EnterPage \/ LeavePage
    \/ EnterDelay \/ LeaveSetting \/ LeaveDelay

Spec == Init /\ [][Next]_<<shown, row>>
=============================================================================
