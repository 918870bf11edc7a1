------------------------------ MODULE MCSniffer ------------------------------
(* Instances of Sniffer for TLC. *)
EXTENDS Sniffer, TLC

(* Runs and Readers are only compared, so their members are interchangeable; *)
(* used by the runs that check no liveness.                                  *)
Symmetric == Permutations(Runs) \cup Permutations(Readers)
=============================================================================
