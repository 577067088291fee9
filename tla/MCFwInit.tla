------------------------------ MODULE MCFwInit ------------------------------
(* FwInit with the table sizes of the source; only the firmware images are   *)
(* shorter (the shipped fmacfw.bin is 315 blocks, the patch one block).      *)
EXTENDS FwInit
=============================================================================
