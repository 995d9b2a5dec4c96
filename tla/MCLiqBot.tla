------------------------------ MODULE MCLiqBot ------------------------------
(* The composed bot, for TLC. *)
EXTENDS LiqBot, TLC

MintSymmetry == Permutations(Mints)
=============================================================================
