----------------------------- MODULE MCDataLog ------------------------------
(* DataLog with a bound on the saves of a boot and on the boots. *)
EXTENDS DataLog

CONSTANTS
    MaxSave,    \* saves between two resets
    MaxBoot     \* resets, the first power-on included

MCNext == Next /\ n' <= MaxSave /\ boot' <= MaxBoot

MCSpec == Init /\ [][MCNext]_vars /\ Fairness
=============================================================================
