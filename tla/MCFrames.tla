------------------------------ MODULE MCFrames ------------------------------
(* Instances of Frames for TLC: every request of the driver, for a chip with  *)
(* and one without flow control.                                              *)
EXTENDS Frames, TLC

AllProducts == {Aic8801, "Aic8800Dc"}
AllKinds == FdrvKinds \cup BspKinds
=============================================================================
