------------------------------ MODULE Journal -------------------------------
(***************************************************************************)
(* What /data.csv promises to whoever reads the card later: a journal that *)
(* only grows, in the order the station made the lines.  A line is known   *)
(* by the boot of the station it comes from and its number in that boot    *)
(* (number 0 is the title), whether it is whole or cut short.              *)
(***************************************************************************)
EXTENDS Naturals, Sequences

VARIABLE log

Before(a, b) == a.boot < b.boot \/ (a.boot = b.boot /\ a.n < b.n)

Ordered(file) ==
    \A i, j \in DOMAIN file : i < j => Before(file[i], file[j])

Init == log = <<>>

Grow ==
    /\ Len(log') >= Len(log)
    /\ \A i \in DOMAIN log : log'[i] = log[i]
    /\ Ordered(log')

Spec == Init /\ [][Grow]_log
=============================================================================
