------------------------------ MODULE MCRxPath ------------------------------
(* Instances of RxPath for TLC: one polling sender, and packets for each path *)
(* through the parser.                                                        *)
EXTENDS RxPath, TLC

CONSTANT p1

Frame(type, id, plen, alt) ==
  [type |-> type, id |-> id, plen |-> plen, alt |-> alt, at |-> 0]

(* A packet of f, and of the frame in gs, if any, `gap' bytes behind it. *)
Packet(f, gap, gs, bytemode) ==
  [frames |-> <<f>> \o [i \in DOMAIN gs |-> [gs[i] EXCEPT !.at = Size(f) + gap]],
   bytemode |-> bytemode]

ScanDone == Frame("rsp", StartCfm, 4, 100)

(* A scan result and the end of the scan in one packet. *)
ScanPacket ==
  Packet(Frame("rsp", ResultInd, 40, 100), 0, <<ScanDone>>, FALSE)

(* A result alone, in byte mode. *)
ResultPacket == Packet(Frame("rsp", ResultInd, 41, 100), 0, <<>>, TRUE)

(* A message, and a data frame that ends behind the receive buffer. *)
LongPacket == Packet(ScanDone, 0, <<Frame("data", "none", 700, 0)>>, FALSE)

(* A data frame that fits, then something the parser does not expect, then a  *)
(* message with too many parameters, which bytes 6 and 7 make one without     *)
(* prefix.  It is found if 63 bytes before it are read as one frame.          *)
GapPacket ==
  Packet(Frame("data", "none", 97, 0), 63, <<Frame("rsp", StartCfm, 257, 20)>>, TRUE)

McPackets == {ScanPacket, ResultPacket, LongPacket, GapPacket}
=============================================================================
