------------------------------ MODULE MCPolls -------------------------------
(***************************************************************************)
(* An instance of Polls for TLC: a sensor, the automatic save and the page *)
(* DISP_DATA, with a tick that wraps after a few periods.                  *)
(***************************************************************************)
EXTENDS Polls

\* The periods: shorter, as long as and longer than the longest turn.
MCPeriod == <<2, 5, 3>>

=============================================================================
