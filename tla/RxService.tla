----------------------------- MODULE RxService ------------------------------
(***************************************************************************)
(* What the receive path promises to the command manager and to the        *)
(* callbacks of the FDRV: a channel.  A frame is `whole' when it is of a   *)
(* known kind, is read in full, and only such frames come before it in its *)
(* packet, each where the parser looks for it.  Every whole frame is       *)
(* handed over once and in the order the chip sent it; only a failed       *)
(* transfer or a power cycle may lose one.  A frame that is not whole may  *)
(* be lost, and only such a frame may give rise to a message the chip      *)
(* never sent.  Empty data frames may come in between at any time.  RxPath *)
(* implements this.                                                        *)
(***************************************************************************)
EXTENDS Integers, Sequences

VARIABLES
  chan,    \* the frames on their way, [n: their number, whole: BOOLEAN]
  given,   \* the numbers of the frames handed over; 0 for a data frame and
           \* -1 for a message nobody sent
  faults   \* transfers that failed

vars == <<chan, given, faults>>

(* What is left of a packet of which only the first part was read. *)
Rest == [n |-> 0, whole |-> FALSE]

Init == chan = <<>> /\ given = <<>> /\ faults = 0

(* The chip appends frames; none is taken away. *)
Send ==
  /\ Len(chan') > Len(chan)
  /\ SubSeq(chan', 1, Len(chan)) = chan
  /\ UNCHANGED <<given, faults>>

(* The first frame is handed over; frames behind it that are not whole may    *)
(* be passed over with it.                                                    *)
Deliver ==
  /\ chan # <<>>
  /\ given' = Append(given, Head(chan).n)
  /\ \E k \in 1 .. Len(chan) :
       /\ \A i \in 2 .. k : ~chan[i].whole
       /\ chan' = SubSeq(chan, k + 1, Len(chan))
  /\ UNCHANGED faults

(* The first frames, none of them whole, are lost, or taken for something     *)
(* else and maybe not yet done with.                                          *)
Mangle ==
  /\ chan # <<>> /\ ~Head(chan).whole
  /\ \E k \in 0 .. Len(chan) :
       /\ \A i \in 1 .. k : ~chan[i].whole
       /\ chan' = SubSeq(chan, k + 1, Len(chan))
  /\ given' \in {given, Append(given, 0), Append(given, -1)}
  /\ UNCHANGED faults

(* A packet was too long: its last frame leaves unread bytes behind. *)
Split ==
  /\ \E j \in 1 .. Len(chan) :
       /\ ~chan[j].whole
       /\ chan' = SubSeq(chan, 1, j) \o <<Rest>> \o SubSeq(chan, j + 1, Len(chan))
  /\ UNCHANGED <<given, faults>>

(* The padding of a packet is handed over as data. *)
Pad ==
  /\ Len(given') > Len(given)
  /\ SubSeq(given', 1, Len(given)) = given
  /\ \A i \in Len(given) + 1 .. Len(given') : given'[i] = 0
  /\ UNCHANGED <<chan, faults>>

(* A transfer fails; the frames it was to fetch may be gone. *)
Fault ==
  /\ \E k \in 0 .. Len(chan) : chan' = SubSeq(chan, k + 1, Len(chan))
  /\ faults' = faults + 1
  /\ UNCHANGED given

(* The chip is power cycled. *)
Reset == chan' = <<>> /\ UNCHANGED <<given, faults>>

Next == Send \/ Deliver \/ Mangle \/ Split \/ Pad \/ Fault \/ Reset

Spec == Init /\ [][Next]_vars
=============================================================================
