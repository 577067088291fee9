---------------------------- MODULE MCLifecycle -----------------------------
(* Instances of Lifecycle for TLC: callers are model values. *)
EXTENDS Lifecycle, TLC

CONSTANTS t1, t2
=============================================================================
