---------------------------- MODULE MCCmdClients ----------------------------
(* CmdClients for TLC: two calling threads over a table of two slots.  With  *)
(* as many commands as three, a slot is reused, a command can find the table *)
(* full, and a late CFM can meet a newer command of the same id; two inits   *)
(* let a call outlive the manager it pushed to.                              *)
EXTENDS CmdClients

CONSTANTS c1, c2, dbg, lmac
=============================================================================
