------------------------------ MODULE MCFunds ------------------------------
(* The money of the wallet on a small grid of amounts, for TLC. *)
EXTENDS Funds
=============================================================================
