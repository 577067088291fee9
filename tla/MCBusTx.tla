------------------------------ MODULE MCBusTx -------------------------------
(* Instances of BusTx for TLC: senders are model values. *)
EXTENDS BusTx, TLC

CONSTANTS c1, c2
=============================================================================
