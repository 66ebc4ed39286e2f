------------------------------ MODULE MCCamera ------------------------------
(* Camera with a bound on the frames, and a count of those main waits for. *)
EXTENDS Camera

CONSTANT MaxFrame       \* frames in a behaviour

VARIABLE waited         \* VSYNCs since main began to wait for a frame

MCInit == Init /\ waited = 0

\* The camera is switched off after MaxFrame frames.
Ended == frame = MaxFrame /\ half = 2 /\ UNCHANGED vars

MCNext ==
    /\ Next \/ Ended
    /\ frame' <= MaxFrame
    /\ waited' = IF pc # "loop" \/ vsync' = 2 THEN 0
                 ELSE IF frame' > frame THEN waited + 1 ELSE waited

MCSpec == MCInit /\ [][MCNext]_<<vars, waited>>

\* main never waits long for a photo: the second VSYNC after it has given a
\* frame back, or has finished the initialisation, makes the next one ready.
ReadyInTime == waited <= 1
=============================================================================
