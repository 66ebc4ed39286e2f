------------------------------ MODULE DataLog -------------------------------
(***************************************************************************)
(* Saving the readings to /data.csv on the SD card, and ejecting the card: *)
(* sdcard_saveCurrData, my_sd_card_test and SD_CARD_eject of main.c,       *)
(* SD_card.c, and under them the file calls of RT-Thread (DFS and FatFs).  *)
(*                                                                         *)
(* The main thread blocks only while a sector is transferred.  pc is       *)
(* "opening", "writing", "flushing" or "committing" then, and the shell,   *)
(* which has a lower priority, can run; it can also run between two saves, *)
(* where the sensors are waited for.  A reset or a loss of power may come  *)
(* at any point.  A sector is written as a whole or not at all, a transfer *)
(* that fails is reported as failed, and one that is reported as failed    *)
(* may have been made all the same: module Sdio shows when the driver does *)
(* that (Transfer), and when it does not.                                  *)
(*                                                                         *)
(* Besides a fault there is a shortage: open() finds no memory for one of  *)
(* its blocks, or the card has no cluster left.  Room comes and goes, with *)
(* the blocks of the other threads and the other files of the card.        *)
(*                                                                         *)
(* dir is the file as FatFs sees it through its sector window, card is the *)
(* file as the directory entry on the card covers it: a line counts as     *)
(* stored when the entry with its length has been written.                 *)
(***************************************************************************)
EXTENDS Naturals, Sequences

CONSTANTS
    MaxFd,      \* DFS_FD_MAX, 16: the file descriptors of the system
    MaxFault,   \* transfers that fail, in a behaviour
    MaxShort,   \* times that memory or card have no room, in a behaviour
    Shell       \* whether somebody works at the serial console

ASSUME LogAssumption ==
    /\ MaxFd \in Nat /\ MaxFd > 0
    /\ MaxFault \in Nat /\ MaxShort \in Nat /\ Shell \in BOOLEAN

VARIABLES
    pc,             \* where the main thread is
    mounted,        \* the card is mounted on /
    card, dir,      \* the lines of data.csv
    isFirstSave,
    autoSave,       \* DATA_DELAY is not UINT32_MAX
    todo,           \* the lines this save still has to append
    leaked,         \* descriptors that close() did not give back
    boot, n,        \* resets so far, and saves since the last one
    faults,         \* transfers that failed so far
    short           \* times that there was no room so far

fileVars == <<card, dir>>
vars == <<pc, mounted, fileVars, isFirstSave, autoSave, todo, leaked, boot, n,
          faults, short>>

Blocked == {"opening", "writing", "flushing", "committing"}
Saving  == Blocked \cup {"open"}

\* A line that is cut is the part of it the card had room for: some of its
\* text or none of it, and no end of line.
Line == [boot : Nat, n : Nat, cut : BOOLEAN]
Title == [boot |-> boot, n |-> 0, cut |-> FALSE]
Cut(line) == [line EXCEPT !.cut = TRUE]

Init ==
    /\ pc = "init" /\ mounted = FALSE
    /\ card = <<>> /\ dir = <<>>
    /\ isFirstSave = TRUE /\ autoSave = TRUE
    /\ todo = <<>> /\ leaked = 0
    /\ boot = 1 /\ n = 0 /\ faults = 0 /\ short = 0

-----------------------------------------------------------------------------
\* One more transfer fails, or the mutex of the volume is not had in three
\* seconds because the shell is reading a file: to a save it is the same.
Fault == faults < MaxFault /\ faults' = faults + 1 /\ UNCHANGED short

\* There is once more no room, in memory or on the card.
Shortage == short < MaxShort /\ short' = short + 1 /\ UNCHANGED faults

\* sdcard_init, the last step of mainFuncInit, which main repeats until it
\* succeeds.  A repeat that fails again changes nothing.
Mount ==
    /\ pc = "init" /\ pc' = "idle"
    /\ mounted' = TRUE
    /\ UNCHANGED <<fileVars, isFirstSave, autoSave, todo, leaked, boot, n,
                   faults, short>>

\* Faulty variant: every save writes the title again.
SaveTitleAgain ==
    /\ pc = "idle" /\ pc' = "open"
    /\ n' = n + 1
    /\ todo' = <<Title, [boot |-> boot, n |-> n + 1, cut |-> FALSE]>>
    /\ UNCHANGED <<mounted, fileVars, isFirstSave, autoSave, leaked, boot,
                   faults, short>>

\* sdcard_saveCurrData: a title first if isFirstSave, then a row.
Save ==
    /\ pc = "idle" /\ pc' = "open"
    /\ n' = n + 1
    /\ LET row == [boot |-> boot, n |-> n + 1, cut |-> FALSE]
       IN  todo' = IF isFirstSave THEN <<Title, row>> ELSE <<row>>
    /\ isFirstSave' = FALSE
    /\ UNCHANGED <<mounted, fileVars, autoSave, leaked, boot, faults, short>>

\* my_sd_card_test: DATA_DELAY has passed.
AutoSave == autoSave /\ Save

\* K1 in DISP_DATA.
ManualSave == Save

\* sdcard_appendNewData is done with a line: it returns nothing, whatever
\* became of the line.
NextLine ==
    /\ todo' = Tail(todo)
    /\ pc' = IF Tail(todo) = <<>> THEN "saved" ELSE "open"

-----------------------------------------------------------------------------
\* Faulty variant: a line that cannot be appended is tried again for ever.
OpenRefusedRetry ==
    /\ pc = "open" /\ (leaked = MaxFd \/ ~mounted)
    /\ UNCHANGED vars

\* open(): no descriptor left, no file system on the path, or no memory for
\* the descriptor, the path or the file object.  What it had is given back.
OpenRefused ==
    /\ pc = "open"
    /\ \/ (leaked = MaxFd \/ ~mounted) /\ UNCHANGED <<faults, short>>
       \/ Shortage
    /\ NextLine
    /\ UNCHANGED <<mounted, fileVars, isFirstSave, autoSave, leaked, boot, n>>

\* Faulty variant: the test for a free descriptor is missing.
OpenUnchecked ==
    /\ pc = "open" /\ mounted
    /\ pc' = "opening"
    /\ UNCHANGED <<mounted, fileVars, isFirstSave, autoSave, todo, leaked,
                   boot, n, faults, short>>

Open ==
    /\ pc = "open" /\ leaked < MaxFd /\ mounted
    /\ pc' = "opening"
    /\ UNCHANGED <<mounted, fileVars, isFirstSave, autoSave, todo, leaked,
                   boot, n, faults, short>>

\* A directory sector that an earlier close failed to write is still in the
\* window, and is written out if the window has to move (move_window).
WindowMoves == card' \in {card, dir}

\* f_open and f_lseek to the end, along the FAT.  f_open also wants memory
\* for the long name, and room in the directory for a new file.
Opened ==
    /\ pc = "opening" /\ mounted
    /\ WindowMoves
    /\ \/ pc' = "writing" /\ UNCHANGED <<todo, faults, short>>
       \/ (Fault \/ Shortage) /\ NextLine
    /\ UNCHANGED <<mounted, dir, isFirstSave, autoSave, leaked, boot, n>>

\* Faulty variant: a line for which the sector has no room is not written.
WrittenSometimes ==
    /\ pc = "writing" /\ mounted
    /\ (pc' = "flushing" /\ UNCHANGED todo) \/ NextLine
    /\ UNCHANGED <<mounted, fileVars, isFirstSave, autoSave, leaked, boot, n,
                   faults, short>>

\* f_write: into the sector buffer, and out of it at the end of a sector; the
\* FAT is needed at the end of a cluster.  A file that was not modified is
\* closed with nothing to flush.  When no cluster is left, f_write stops and
\* returns FR_OK, and nobody compares what it wrote with what it was given:
\* the line is cut, and flushed as if it were whole.
Written ==
    /\ pc = "writing" /\ mounted
    /\ WindowMoves
    /\ \/ pc' = "flushing" /\ UNCHANGED <<todo, faults, short>>
       \/ Fault /\ NextLine
       \/ /\ Shortage
          /\ pc' = "flushing" /\ todo' = [todo EXCEPT ![1] = Cut(@)]
    /\ UNCHANGED <<mounted, dir, isFirstSave, autoSave, leaked, boot, n>>

\* close() gives its descriptor back only when f_close has succeeded.
CloseFailed == Fault /\ leaked' = leaked + 1 /\ NextLine

\* f_sync: the data sector ...
Flushed ==
    /\ pc = "flushing" /\ mounted
    /\ \/ /\ pc' = "committing"
          /\ UNCHANGED <<todo, faults, short, leaked>>
       \/ CloseFailed
    /\ UNCHANGED <<mounted, fileVars, isFirstSave, autoSave, boot, n>>

\* Faulty variant: the directory entry is not written back.
CommittedNoSync ==
    /\ pc = "committing" /\ mounted
    /\ dir' = Append(dir, Head(todo)) /\ NextLine
    /\ UNCHANGED <<mounted, card, isFirstSave, autoSave, leaked, boot, n,
                   faults, short>>

\* ... and then the directory entry, changed in the window and written.
Committed ==
    /\ pc = "committing" /\ mounted
    /\ \/ /\ dir' = Append(dir, Head(todo)) /\ card' = dir'
          /\ NextLine
          /\ UNCHANGED <<leaked, faults, short>>
       \/ /\ dir' \in {dir, Append(dir, Head(todo))} /\ card' \in {card, dir'}
          /\ CloseFailed
    /\ UNCHANGED <<mounted, isFirstSave, autoSave, boot, n>>

\* The volume was taken away during the transfer: the transfer ends as it
\* may, and FatFs then runs into an assertion of the kernel (the device of
\* the drive is NULL, the mutex of the volume is deleted) and stays in it.
Assert ==
    /\ pc \in Blocked /\ ~mounted
    /\ pc' = "halted"
    /\ card' \in IF pc = "committing" THEN {card, Append(dir, Head(todo))}
                 ELSE {card}
    /\ dir' = card'
    /\ UNCHANGED <<mounted, isFirstSave, autoSave, todo, leaked, boot, n,
                   faults, short>>

\* "Saving current data succeeded!"
Saved ==
    /\ pc = "saved" /\ pc' = "idle"
    /\ UNCHANGED <<mounted, fileVars, isFirstSave, autoSave, todo, leaked,
                   boot, n, faults, short>>

-----------------------------------------------------------------------------
\* dfs_unmount does not look for open files, and f_mount(NULL) writes
\* nothing back: what was only in the window is gone.
Unmount == mounted' = FALSE /\ dir' = card

\* Faulty variant: the automatic saves stop, and the card stays mounted.
EjectNoUnmount ==
    /\ pc = "idle"
    /\ autoSave' = FALSE
    /\ UNCHANGED <<pc, mounted, fileVars, isFirstSave, todo, leaked, boot, n,
                   faults, short>>

\* SD_CARD_eject: "Ejecting SD card succeeded!", whatever sdcard_unmount
\* returned.
Eject ==
    /\ pc = "idle"
    /\ autoSave' = FALSE
    /\ Unmount
    /\ UNCHANGED <<pc, card, isFirstSave, todo, leaked, boot, n, faults,
                   short>>

\* The command sdcard_unmount of the shell.
ShellUnmount ==
    /\ Shell /\ mounted /\ pc \in Blocked \cup {"idle"}
    /\ mounted' = FALSE
    /\ dir' = IF pc \in Blocked THEN dir ELSE card
    /\ UNCHANGED <<pc, card, isFirstSave, autoSave, todo, leaked, boot, n,
                   faults, short>>

\* Faulty variant: the title is written in the first boot only.
ResetNoTitle ==
    /\ pc' = "init" /\ mounted' = FALSE
    /\ UNCHANGED card /\ dir' = card
    /\ autoSave' = TRUE /\ isFirstSave' = FALSE
    /\ todo' = <<>> /\ leaked' = 0
    /\ boot' = boot + 1 /\ n' = 0
    /\ UNCHANGED <<faults, short>>

\* The command reboot, or the power fails and comes back: the variables are
\* initialised again, the card keeps what had been written, and the sector
\* under way may have been.
Reset ==
    /\ pc' = "init" /\ mounted' = FALSE
    /\ card' \in IF pc = "committing" THEN {card, Append(dir, Head(todo))}
                 ELSE {card}
    /\ dir' = card'
    /\ isFirstSave' = TRUE /\ autoSave' = TRUE
    /\ todo' = <<>> /\ leaked' = 0
    /\ boot' = boot + 1 /\ n' = 0
    /\ UNCHANGED <<faults, short>>

-----------------------------------------------------------------------------
SaveStep ==
    \/ OpenRefused \/ Open \/ Opened \/ Written \/ Flushed \/ Committed
    \/ Assert \/ Saved

MainThread == Mount \/ AutoSave \/ ManualSave \/ SaveStep \/ Eject

Next == MainThread \/ ShellUnmount \/ Reset

\* A transfer ends: the driver waits for it with a timeout.  Nothing makes a
\* user save, eject, unmount or reset.
Fairness == WF_vars(Mount) /\ WF_vars(SaveStep)

Spec == Init /\ [][Next]_vars /\ Fairness
-----------------------------------------------------------------------------
(* Properties *)

\* Type invariant: the descriptors that are gone never exceed the table.
TypeOK ==
    /\ pc \in Saving \cup {"init", "idle", "saved", "halted"}
    /\ mounted \in BOOLEAN /\ isFirstSave \in BOOLEAN /\ autoSave \in BOOLEAN
    /\ card \in Seq(Line) /\ dir \in Seq(Line) /\ todo \in Seq(Line)
    /\ leaked \in 0 .. MaxFd
    /\ boot \in Nat /\ n \in Nat
    /\ faults \in 0 .. MaxFault /\ short \in 0 .. MaxShort

\* The file on the card is a journal: whatever fails, is ejected or reset,
\* and at whichever step, no line is lost again, doubled or out of order.
Abstract == INSTANCE Journal WITH log <- card
ImplementsJournal == Abstract!Spec

\* "Ejecting SD card succeeded!": from then on the card is not written until
\* the station is reset, not even when the user asks for a save.
EjectedFrozen == [][~autoSave /\ boot' = boot => card' = card]_vars

\* The last line of the file has no end: the next one continues its row.
Torn(file) == file # <<>> /\ file[Len(file)].cut

\* A line stands in the file whole, on a row of its own.
OnRow(file, line) ==
    \E i \in DOMAIN file :
        file[i] = line /\ ~line.cut /\ (i > 1 => ~file[i - 1].cut)

\* sdcard_appendNewData tells nobody of a line it could not append.  It only
\* loses one to a transfer that fails under it, to a card that is gone, for
\* want of a descriptor, or for want of room: in memory, on the card, or on
\* the row of the last line that the card had no room for.
LostByFault ==
    [][boot' = boot /\ pc \in Saving /\ todo' # todo =>
         \/ OnRow(card', Head(todo))
         \/ faults' > faults \/ leaked = MaxFd \/ ~mounted
         \/ short' > short \/ Head(todo).cut \/ Torn(dir)]_vars

\* When no transfer fails and there is room, a row on the card is never
\* without the title of its boot above it, wherever a reset cuts a save off.
TitleFirst ==
    faults = 0 /\ short = 0 =>
        \A i \in DOMAIN card :
            card[i].n > 0 =>
                \E j \in 1 .. i :
                    card[j] = [boot |-> card[i].boot, n |-> 0, cut |-> FALSE]

\* When no transfer fails, there is room and the card is mounted, the row a
\* save announces is on the card, and not only in FatFs's window, before the
\* LCD says so.
StoredIfMounted ==
    faults = 0 /\ short = 0 /\ pc = "saved" /\ mounted =>
        OnRow(card, [boot |-> boot, n |-> n, cut |-> FALSE])

\* A save returns to the loop of main, whatever fails and whether or not
\* there is a card or a descriptor, unless the volume is taken away under it.
SaveEnds == pc \in Saving ~> pc \in {"idle", "init", "halted"}

\* The transfers work again, there is room, and a descriptor is left.
Healthy ==
    mounted /\ faults = MaxFault /\ short = MaxShort /\ leaked < MaxFd

\* What earlier faults and shortages left behind (a descriptor, a window that
\* was not written, a title that was lost) does not keep a later line from the
\* card; only the line that follows a cut one has no row of its own.
StoresAgain ==
    \A b, k \in 0 .. 2 :
        LET line == [boot |-> b, n |-> k, cut |-> FALSE]
        IN  pc = "open" /\ Healthy /\ Head(todo) = line /\ ~Torn(dir)
                ~> OnRow(card, line) \/ boot # b \/ ~mounted
=============================================================================
