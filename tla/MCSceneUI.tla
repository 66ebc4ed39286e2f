----------------------------- MODULE MCSceneUI ------------------------------
(* SceneUI with a bound on the number of key presses of a behaviour. *)
EXTENDS SceneUI

CONSTANT MaxPress       \* key presses in a behaviour

VARIABLE presses        \* key presses so far

MCInit == Init /\ presses = 0

MCNext ==
    \/ MainThread /\ UNCHANGED presses
    \/ KeyPress /\ presses < MaxPress /\ presses' = presses + 1

MCSpec ==
    MCInit /\ [][MCNext]_<<vars, presses>> /\ WF_vars(MainThread)
=============================================================================
