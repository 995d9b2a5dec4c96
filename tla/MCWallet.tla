------------------------------ MODULE MCWallet ------------------------------
(* The wallet component under its most general client, for TLC. *)
EXTENDS Wallet
=============================================================================
