------------------------------ MODULE Transfer ------------------------------
(***************************************************************************)
(* What a file system is promised of a request for one block of the card   *)
(* (rt_device_read and rt_device_write of the block device): while one is  *)
(* under way its block is moved, at most once; when it ends, its result    *)
(* tells whether the block was moved.  No commands, no flags, no           *)
(* interrupts.                                                             *)
(*                                                                         *)
(* How much of that is promised depends on what has gone wrong so far.     *)
(***************************************************************************)

VARIABLES
    asked,      \* "read" or "write" while a request is under way, or "none"
    moved,      \* the block of the last request was moved
    result,     \* what the last request returned: "ok", "failed", or "none"
    trust       \* "full", "order": the result may be wrong, or "none"

vars == <<asked, moved, result, trust>>

Operations == {"read", "write"}
Trust == {"full", "order", "none"}

Init ==
    /\ asked = "none" /\ moved = FALSE /\ result = "none" /\ trust = "full"

\* A request is made.  What is promised is not the same for both.
Ask(o) ==
    /\ asked = "none" /\ asked' = o
    /\ moved' = FALSE /\ result' = "none"
    /\ trust' \in Trust

\* The block is moved, once and in the time of its request.
Move ==
    /\ trust # "none" => asked # "none" /\ ~moved
    /\ moved' = TRUE
    /\ UNCHANGED <<asked, result, trust>>

\* The request returns.
Return ==
    /\ asked # "none" /\ asked' = "none"
    /\ result' \in {"ok", "failed"}
    /\ trust = "full" => (result' = "ok" <=> moved)
    /\ UNCHANGED <<moved, trust>>

\* Something goes wrong, after which less is promised.
Upset ==
    /\ trust' = "none" \/ (trust = "full" /\ trust' = "order")
    /\ UNCHANGED <<asked, moved, result>>

Next == (\E o \in Operations : Ask(o)) \/ Move \/ Return \/ Upset

Spec == Init /\ [][Next]_vars
=============================================================================
