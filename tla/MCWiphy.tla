------------------------------ MODULE MCWiphy -------------------------------
(* Instances of Wiphy for TLC: the operations that remember something.  The   *)
(* others only report what the CFM says.  Interface 1 is beyond MaxVif.       *)
EXTENDS Wiphy, TLC

CONSTANTS m1, m2

McIds == {CfmId[k] : k \in DOMAIN CfmId}

McOp(kind, vif, key, mac, arg) ==
  [kind |-> kind, vif |-> vif, key |-> key, mac |-> mac, arg |-> arg]

AllOps ==
  {McOp("add_key", 0, 0, m1, 0), McOp("add_key", 1, 1, m1, 0),
   McOp("del_key", 0, 0, m1, 0), McOp("start_ap", 0, 0, m1, 6),
   McOp("set_power", 0, 0, m1, -250)}

DelOps == {McOp("add_key", 0, 0, m1, 0), McOp("del_key", 0, 0, m1, 0)}
=============================================================================
