--------------------------- MODULE MCExitMonitor ---------------------------
(* The redeployment decision on a grid of five prices, for TLC. *)
EXTENDS ExitMonitor
=============================================================================
