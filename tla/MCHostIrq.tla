----------------------------- MODULE MCHostIrq ------------------------------
(* HostIrq for TLC: a boundary every four units, buffers of one to three     *)
(* units (the DMA pool is half a boundary) that end before, on and after it. *)
EXTENDS HostIrq
=============================================================================
