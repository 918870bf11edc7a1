---------------------------- MODULE OrderedFrames ----------------------------
(***************************************************************************)
(* What frame reassembly promises the caller of NextFrame: from each flow, *)
(* whole frames in the order in which they were sent, none of them twice,  *)
(* through one bounded queue.  Where segments may be lost, so may frames;  *)
(* otherwise no frame is skipped.                                          *)
(***************************************************************************)
EXTENDS Naturals, Sequences

CONSTANTS
  Flows,      \* the TCP flows
  Count,      \* number of frames each flow carries
  Capacity,   \* capacity of the queue
  Skips       \* frames may be skipped

VARIABLES
  queue,      \* frames <<flow, number>> that wait for NextFrame
  got         \* number of the last frame of each flow that NextFrame returned

vars == <<queue, got>>

(* The last frame of a flow that has been accepted, if any. *)
Accepted(f) == {got[f]} \cup {queue[i][2] : i \in {j \in DOMAIN queue : queue[j][1] = f}}

Init == queue = <<>> /\ got = [f \in Flows |-> 0]

Accept(f, k) ==
  /\ Len(queue) < Capacity
  /\ \A n \in Accepted(f) : n < k
  /\ Skips \/ k - 1 \in Accepted(f)
  /\ queue' = Append(queue, <<f, k>>)
  /\ UNCHANGED got

Return ==
  /\ queue # <<>>
  /\ got' = [got EXCEPT ![Head(queue)[1]] = Head(queue)[2]]
  /\ queue' = Tail(queue)

Next == Return \/ \E f \in Flows : \E k \in 1..Count[f] : Accept(f, k)

Spec == Init /\ [][Next]_vars
=============================================================================
