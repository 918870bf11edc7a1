---------------------------- MODULE MCFrameStream ----------------------------
(* Instances of FrameStream for TLC. *)
EXTENDS FrameStream

CONSTANTS zone, chat

OneFlow  == {zone}
TwoFlows == {zone, chat}

(* Three frames in one flow: one with a body, one without, one with a body. *)
OneFlowEnds == [f \in OneFlow |-> <<3, 5, 8>>]

TwoFlowEnds == [f \in TwoFlows |-> IF f = zone THEN <<3, 5, 8>> ELSE <<2, 5>>]

(* What is read as a length where there is none: the same everywhere, from *)
(* nothing to more than a buffer will hold, or different in each cell.     *)
MaxLength == 3
Same(n) == [f \in Flows |-> [c \in 1..Size(f) |-> n]]
Mixed(n) == [f \in Flows |-> [c \in 1..Size(f) |-> (c + n) % (MaxLength + 1)]]
AllReadings == {Same(n) : n \in 0..MaxLength} \cup {Mixed(n) : n \in 0..MaxLength}

(* No cell is read as a length that holds none, or each is read as zero. *)
ZeroReadings == {Same(0)}
=============================================================================
