-------------------------- MODULE FrameStreamProofs --------------------------
(***************************************************************************)
(* Proofs about FrameStream, for any flows and frames, any cut of the      *)
(* flows into segments, any loss, any sizes of the channels and any number *)
(* of Starts.  None assumes fairness.                                      *)
(***************************************************************************)
EXTENDS FrameStream, SequenceTheorems, WellFoundedInduction, TLAPS

-----------------------------------------------------------------------------
(* Induction over the natural numbers, for a set rather than a predicate.  *)

(* A set of natural numbers has a least element. *)
LEMMA LeastNat ==
  ASSUME NEW T \in SUBSET Nat, T # {}
  PROVE  \E x \in T : \A y \in T : x <= y
<1> DEFINE R == OpToRel(<, Nat)
<1>1. \A x, y \in Nat : x < y => <<x, y>> \in R
  BY DEF OpToRel
<1>2. IsWellFoundedOn(R, Nat)
  BY NatLessThanWellFounded
<1> HIDE DEF R
<1>3. PICK x \in T : \A y \in T : ~(<<y, x>> \in R)
  BY <1>2, WFMin
<1>4. \A y \in T : x <= y
  <2>1. TAKE y \in T
  <2>2. x \in Nat /\ y \in Nat /\ ~(y < x)
    BY <1>1, <1>3
  <2>3. QED BY <2>2
<1>5. QED BY <1>4

LEMMA NatInd ==
  ASSUME NEW T, 0 \in T, \A n \in Nat : n \in T => n + 1 \in T
  PROVE  Nat \subseteq T
<1> SUFFICES ASSUME Nat \ T # {} PROVE FALSE
  OBVIOUS
<1>1. PICK x \in Nat \ T : \A y \in Nat \ T : x <= y
  BY LeastNat
<1>2. x # 0 /\ x - 1 \in Nat /\ x - 1 \in T
  BY <1>1
<1>3. QED BY <1>1, <1>2

-----------------------------------------------------------------------------
(* Frames and cells. *)

LEMMA FrameEndsType ==
  ASSUME NEW f \in Flows
  PROVE  /\ Len(FrameEnds[f]) \in Nat \ {0}
         /\ Frames(f) = 1..Len(FrameEnds[f])
         /\ Len(FrameEnds[f]) \in Frames(f)
         /\ Size(f) \in Nat
         /\ \A k \in Frames(f) :
              /\ k \in Nat \ {0} /\ Last(f, k) \in Nat /\ First(f, k) \in Nat \ {0}
              /\ First(f, k) + 1 <= Last(f, k)
              /\ Length(f, k) = Last(f, k) - First(f, k) + 1
<1>1. FrameEnds[f] \in Seq(Nat) /\ FrameEnds[f] # <<>>
  BY FrameStreamAssumption
<1>2. /\ Len(FrameEnds[f]) \in Nat \ {0} /\ DOMAIN FrameEnds[f] = 1..Len(FrameEnds[f])
      /\ \A k \in DOMAIN FrameEnds[f] : FrameEnds[f][k] \in Nat
  BY <1>1
<1>3. ASSUME NEW k \in Frames(f)
      PROVE  /\ k \in Nat \ {0} /\ Last(f, k) \in Nat /\ First(f, k) \in Nat \ {0}
             /\ First(f, k) + 1 <= Last(f, k)
             /\ Length(f, k) = Last(f, k) - First(f, k) + 1
  <2>1. k \in Nat \ {0} /\ Last(f, k) \in Nat
    BY <1>2 DEF Frames, Last
  <2>2. First(f, k) \in Nat \ {0}
    BY <1>2, <2>1 DEF Frames, First, Last
  <2>3. Length(f, k) >= 2
    BY FrameStreamAssumption DEF HeaderLength
  <2>4. QED BY <2>1, <2>2, <2>3 DEF Length
<1>4. QED BY <1>2, <1>3 DEF Frames, Size, Last

(* A frame begins after the frames before it. *)
LEMMA FrameOrder ==
  ASSUME NEW f \in Flows, NEW j \in Frames(f), NEW k \in Frames(f), j < k
  PROVE  Last(f, j) < First(f, k)
<1> DEFINE T == {n \in Nat : \A m \in Frames(f) : j < m /\ m <= n => Last(f, j) < First(f, m)}
<1>1. 0 \in T
  BY FrameEndsType
<1>2. ASSUME NEW n \in Nat, n \in T PROVE n + 1 \in T
  <2> SUFFICES ASSUME NEW m \in Frames(f), j < m, m <= n + 1 PROVE Last(f, j) < First(f, m)
    OBVIOUS
  <2>1. /\ m \in Nat /\ j \in Nat \ {0} /\ Frames(f) = 1..Len(FrameEnds[f])
        /\ Len(FrameEnds[f]) \in Nat
    BY FrameEndsType
  <2>2. m - 1 \in Frames(f) /\ m - 1 <= n /\ m # 1
    BY <2>1
  <2>3. First(f, m) = Last(f, m - 1) + 1
    BY <2>2 DEF First
  <2>4. CASE m - 1 = j
    BY <2>2, <2>3, <2>4, FrameEndsType
  <2>5. CASE m - 1 # j
    <3>1. Last(f, j) < First(f, m - 1)
      BY <1>2, <2>1, <2>2, <2>5
    <3>2. /\ First(f, m - 1) \in Nat /\ Last(f, m - 1) \in Nat /\ Last(f, j) \in Nat
          /\ First(f, m - 1) + 1 <= Last(f, m - 1)
      BY <2>2, FrameEndsType
    <3>3. QED BY <2>3, <3>1, <3>2
  <2>6. QED BY <2>4, <2>5
<1>3. k \in Nat
  BY FrameEndsType
<1> HIDE DEF T
<1>4. k \in T
  BY <1>1, <1>2, <1>3, NatInd
<1>5. QED BY <1>3, <1>4 DEF T

LEMMA FirstOrder ==
  ASSUME NEW f \in Flows, NEW j \in Frames(f), NEW k \in Frames(f), First(f, j) < First(f, k)
  PROVE  Last(f, j) < First(f, k)
<1>1. /\ j \in Nat /\ k \in Nat /\ First(f, j) \in Nat /\ First(f, k) \in Nat
      /\ Last(f, k) \in Nat /\ First(f, k) + 1 <= Last(f, k)
  BY FrameEndsType
<1>2. j # k
  BY <1>1
<1>3. ~(k < j)
  <2>1. SUFFICES ASSUME k < j PROVE FALSE
    OBVIOUS
  <2>2. Last(f, k) < First(f, j)
    BY <2>1, FrameOrder
  <2>3. QED BY <1>1, <2>2
<1>4. j < k
  BY <1>1, <1>2, <1>3
<1>5. QED BY <1>4, FrameOrder

LEMMA FrameInSize ==
  ASSUME NEW f \in Flows, NEW k \in Frames(f)
  PROVE  Last(f, k) <= Size(f) /\ First(f, k) \in 1..Size(f) /\ Last(f, k) \in 1..Size(f)
<1>1. Len(FrameEnds[f]) \in Frames(f) /\ Size(f) = Last(f, Len(FrameEnds[f]))
  BY FrameEndsType DEF Size
<1>2. k <= Len(FrameEnds[f])
  BY FrameEndsType
<1>3. Last(f, k) <= Size(f)
  <2>1. CASE k = Len(FrameEnds[f])
    BY <1>1, <2>1, FrameEndsType
  <2>2. CASE k < Len(FrameEnds[f])
    <3>1. Last(f, k) < First(f, Len(FrameEnds[f]))
      BY <1>1, <2>2, FrameOrder
    <3>2. /\ Last(f, k) \in Nat /\ First(f, Len(FrameEnds[f])) \in Nat
          /\ Last(f, Len(FrameEnds[f])) \in Nat
          /\ First(f, Len(FrameEnds[f])) + 1 <= Last(f, Len(FrameEnds[f]))
      BY <1>1, FrameEndsType
    <3>3. QED BY <1>1, <3>1, <3>2
  <2>3. QED BY <1>2, <2>1, <2>2, FrameEndsType
<1>4. QED BY <1>3, FrameEndsType

(* Frames do not overlap. *)
LEMMA FrameUnique ==
  ASSUME NEW f \in Flows, NEW j \in Frames(f), NEW k \in Frames(f),
         NEW c \in First(f, j)..Last(f, j), c \in First(f, k)..Last(f, k)
  PROVE  j = k
<1>1. CASE j < k
  BY <1>1, FrameOrder, FrameEndsType
<1>2. CASE k < j
  BY <1>2, FrameOrder, FrameEndsType
<1>3. QED BY <1>1, <1>2, FrameEndsType

LEMMA EndsType ==
  ASSUME NEW f \in Flows
  PROVE  Ends(f) \subseteq 1..Size(f) /\ Magic(f) \subseteq 1..Size(f)
BY FrameInSize DEF Ends, Magic

(* The cells of a segment are its numbers in order. *)
LEMMA CellsType ==
  ASSUME NEW f \in Flows, NEW s \in Segments(f)
  PROVE  /\ s.first \in 1..Size(f) /\ s.last \in 1..Size(f) /\ s.first <= s.last
         /\ Cells(s) \in Seq(1..Size(f)) /\ Len(Cells(s)) = s.last - s.first + 1
         /\ \A i \in 1..Len(Cells(s)) : Cells(s)[i] = s.first + i - 1
<1>1. /\ s.first \in 1..Size(f) /\ s.last \in 1..Size(f) /\ s.first <= s.last
      /\ Size(f) \in Nat
  BY FrameEndsType DEF Segments
<1> DEFINE n == s.last - s.first + 1
<1>2. n \in Nat /\ Cells(s) = [i \in 1..n |-> s.first + i - 1]
  BY <1>1 DEF Cells
<1>3. \A i \in 1..n : s.first + i - 1 \in 1..Size(f)
  BY <1>1
<1> HIDE DEF n
<1>4. Cells(s) \in Seq(1..Size(f)) /\ Len(Cells(s)) = n /\ \A i \in 1..n : Cells(s)[i] = s.first + i - 1
  BY <1>2, <1>3
<1>5. QED BY <1>1, <1>4 DEF n

(* What is left of a sequence without its first n elements. *)
LEMMA Suffix ==
  ASSUME NEW S, NEW b \in Seq(S), NEW n \in 0..Len(b)
  PROVE  /\ SubSeq(b, n + 1, Len(b)) \in Seq(S)
         /\ Len(SubSeq(b, n + 1, Len(b))) = Len(b) - n
         /\ \A i \in 1..Len(b) - n : SubSeq(b, n + 1, Len(b))[i] = b[n + i]
<1>1. SubSeq(b, n + 1, Len(b)) \in Seq(S)
  OBVIOUS
<1>2. Len(SubSeq(b, n + 1, Len(b))) = Len(b) - n
  OBVIOUS
<1>3. ASSUME NEW i \in 1..Len(b) - n PROVE SubSeq(b, n + 1, Len(b))[i] = b[n + i]
  OBVIOUS
<1>4. QED BY <1>1, <1>2, <1>3

LEMMA Prefix ==
  ASSUME NEW S, NEW b \in Seq(S), NEW n \in 0..Len(b)
  PROVE  /\ SubSeq(b, 1, n) \in Seq(S) /\ Len(SubSeq(b, 1, n)) = n
         /\ \A i \in 1..n : SubSeq(b, 1, n)[i] = b[i]
<1>1. SubSeq(b, 1, n) \in Seq(S)
  OBVIOUS
<1>2. Len(SubSeq(b, 1, n)) = n
  OBVIOUS
<1>3. ASSUME NEW i \in 1..n PROVE SubSeq(b, 1, n)[i] = b[i]
  OBVIOUS
<1>4. QED BY <1>1, <1>2, <1>3

(* Synchronisation drops what is before the first magic number. *)
LEMMA SyncedType ==
  ASSUME NEW f \in Flows, NEW b \in Seq(1..Size(f))
  PROVE  \E n \in 0..Len(b) :
           /\ Synced(f, b) = SubSeq(b, n + 1, Len(b))
           /\ Synced(f, b) \in Seq(1..Size(f))
           /\ Len(Synced(f, b)) = Len(b) - n
           /\ \A i \in 1..Len(b) - n : Synced(f, b)[i] = b[n + i]
           /\ \A i \in 1..n : b[i] \notin Magic(f)
           /\ Synced(f, b) # <<>> => Synced(f, b)[1] \in Magic(f)
<1> DEFINE magic == {i \in DOMAIN b : b[i] \in Magic(f)}
<1>1. Len(b) \in Nat /\ DOMAIN b = 1..Len(b) /\ magic \subseteq 1..Len(b) /\ magic \in SUBSET Nat
  OBVIOUS
<1>2. CASE magic = {}
  <2>1. Synced(f, b) = <<>> /\ Len(b) \in 0..Len(b) /\ Len(b) - Len(b) = 0
    BY <1>1, <1>2 DEF Synced
  <2>2. SubSeq(b, Len(b) + 1, Len(b)) = <<>>
    BY <1>1, SubSeqEmpty
  <2>3. /\ \A i \in 1..Len(b) : b[i] \notin Magic(f)
        /\ <<>> \in Seq(1..Size(f)) /\ Len(<<>>) = 0 /\ \A i \in 1..0 : FALSE
    BY <1>1, <1>2
  <2>4. QED BY <2>1, <2>2, <2>3
<1>3. CASE magic # {}
  <2> DEFINE m == CHOOSE i \in magic : \A j \in magic : i <= j
  <2>1. \E i \in magic : \A j \in magic : i <= j
    <3> HIDE DEF magic
    <3>1. QED BY <1>1, <1>3, LeastNat
  <2>2. m \in magic /\ \A j \in magic : m <= j
    BY <2>1
  <2>3. Synced(f, b) = SubSeq(b, m, Len(b))
    BY <1>3 DEF Synced
  <2> HIDE DEF m
  <2>4. PICK n \in 0..Len(b) : n + 1 = m /\ n < Len(b)
    <3>1. m \in 1..Len(b)
      BY <1>1, <2>2
    <3>2. m - 1 \in 0..Len(b) /\ m - 1 + 1 = m /\ m - 1 < Len(b)
      BY <1>1, <3>1
    <3>3. QED BY <3>2
  <2>5. Synced(f, b) = SubSeq(b, n + 1, Len(b))
    BY <2>3, <2>4
  <2>6. /\ SubSeq(b, n + 1, Len(b)) \in Seq(1..Size(f))
        /\ Len(SubSeq(b, n + 1, Len(b))) = Len(b) - n
        /\ \A i \in 1..Len(b) - n : SubSeq(b, n + 1, Len(b))[i] = b[n + i]
    BY Suffix
  <2>7. \A i \in 1..n : b[i] \notin Magic(f)
    <3> SUFFICES ASSUME NEW i \in 1..n, b[i] \in Magic(f) PROVE FALSE
      OBVIOUS
    <3>1. i \in 1..Len(b) /\ ~(m <= i)
      BY <1>1, <2>4
    <3>2. i \in magic
      BY <1>1, <3>1
    <3>3. QED BY <2>2, <3>1, <3>2
  <2>8. Synced(f, b)[1] \in Magic(f)
    <3>1. 1 \in 1..Len(b) - n
      BY <1>1, <2>4
    <3>2. Synced(f, b)[1] = b[m]
      BY <2>4, <2>5, <2>6, <3>1
    <3>3. QED BY <2>2, <3>2
  <2>9. QED BY <2>5, <2>6, <2>7, <2>8
<1>4. QED BY <1>2, <1>3

LEMMA SyncedEmpty ==
  \A f : Synced(f, <<>>) = <<>> /\ Len(Synced(f, <<>>)) < HeaderLength
BY DEF Synced, HeaderLength

-----------------------------------------------------------------------------
(***************************************************************************)
(* NothingPending is not inductive: that nothing is pending in the select  *)
(* depends on what the capture goroutine waited for before.  What a step   *)
(* preserves is that bytes are pending in no flow but the one whose reader *)
(* has taken a batch and not yet asked for more (Synchronous).  It also    *)
(* tells that a reader which dies with bytes left has died on such a batch *)
(* and blocks the assembler, so that New never makes a run with bytes left *)
(* by an earlier one.                                                      *)
(***************************************************************************)
TypeInv ==
  /\ DOMAIN current = Flows
  /\ DOMAIN pc = Flows
  /\ DOMAIN buf = Flows

Settled(f) == current[f] = <<>> /\ (pc[f] = "running" => NeedsMore(f))
Consuming(f) == at = "await" /\ flow = f

Synchronous == \A f \in Flows : Consuming(f) \/ Settled(f)

PendingInv == TypeInv /\ Synchronous

LEMMA PendingInit == Init => PendingInv
BY SyncedEmpty DEF Init, PendingInv, TypeInv, Synchronous, Settled

(* What a step does that hands over nothing and leaves the readers alone. *)
LEMMA Untouched ==
  ASSUME PendingInv, UNCHANGED <<at, flow, current, buf, pc>>
  PROVE  PendingInv'
BY DEF PendingInv, TypeInv, Synchronous, Settled, Consuming, NeedsMore

(* New makes a run with an empty buffer. *)
LEMMA NewSettles ==
  ASSUME PendingInv, NEW f \in Flows, at = "select", New(f)
  PROVE  PendingInv'
<1>1. \A g \in Flows : Settled(g)
  BY DEF PendingInv, Synchronous, Consuming
<1>2. /\ current' = current
      /\ DOMAIN pc' = Flows /\ DOMAIN buf' = Flows
      /\ \A g \in Flows \ {f} : pc'[g] = pc[g] /\ buf'[g] = buf[g]
      /\ buf'[f] = <<>> \/ (pc'[f] = pc[f] /\ buf'[f] = buf[f])
  BY DEF New, PendingInv, TypeInv, reader
<1>3. \A g \in Flows : Settled(g)'
  BY <1>1, <1>2, SyncedEmpty DEF Settled, NeedsMore
<1>4. QED BY <1>2, <1>3 DEF PendingInv, TypeInv, Synchronous

(* The steps of the capture goroutine that call the assembler. *)
LEMMA PendingCapture ==
  ASSUME PendingInv, NEW f \in Flows,
         \/ Receive(f) \/ ReceiveAhead(f) \/ ReceiveLate(f) \/ Tick(f)
         \/ FlushConnection(f)
  PROVE  PendingInv'
<1>1. CASE Receive(f) \/ ReceiveAhead(f) \/ ReceiveLate(f)
  BY <1>1, NewSettles DEF Receive, ReceiveAhead, ReceiveLate
<1>2. CASE Tick(f) \/ FlushConnection(f)
  <2>1. /\ at # "await"
        /\ UNCHANGED <<current, buf, pc>>
    BY <1>2 DEF Tick, FlushConnection, reader
  <2>2. QED BY <2>1 DEF PendingInv, TypeInv, Synchronous, Settled, Consuming, NeedsMore
<1>3. QED BY <1>1, <1>2

(* The steps of a reader. *)
LEMMA PendingRun ==
  ASSUME PendingInv, NEW f \in Flows, Run(f)
  PROVE  PendingInv'
<1> USE DEF PendingInv, TypeInv, Synchronous, Settled, Consuming, NeedsMore
<1>1. CASE TakeBatch(f)
  BY <1>1 DEF TakeBatch
<1>2. CASE AskMore(f)
  BY <1>2 DEF AskMore, Starved
<1>3. CASE Fill(f)
  BY <1>3 DEF Fill, capture
<1>4. CASE EndOfStream(f) \/ ShortRead(f)
  <2>1. /\ pc' = [pc EXCEPT ![f] = "dead"]
        /\ UNCHANGED <<at, flow, current, buf>>
    BY <1>4 DEF EndOfStream, ShortRead, Die, capture
  <2>2. QED BY <2>1
<1>5. CASE QueueFrame(f)
  <2>1. Consuming(f)
    BY <1>5 DEF QueueFrame
  <2>2. /\ UNCHANGED <<at, flow, current, pc>>
        /\ \E b : buf' = [buf EXCEPT ![f] = b]
    BY <1>5 DEF QueueFrame, capture
  <2>3. QED BY <2>1, <2>2
<1>6. QED BY <1>1, <1>2, <1>3, <1>4, <1>5 DEF Run

LEMMA PendingNext == PendingInv /\ [Next]_vars => PendingInv'
<1> SUFFICES ASSUME PendingInv, [Next]_vars PROVE PendingInv'
  OBVIOUS
<1>1. CASE Stop \/ NextFrame \/ ReadError \/ UNCHANGED vars
  BY <1>1, Untouched DEF Stop, NextFrame, ReadError, vars, capture, reader
<1>2. ASSUME NEW f \in Flows, Delay(f) \/ Finish(f) \/ EndEarlier(f) PROVE PendingInv'
  BY <1>2, Untouched DEF Delay, Finish, EndEarlier, capture, reader
<1>3. CASE SeeDone \/ Return \/ SeeEnd \/ Restart
  <2>1. /\ at # "await"
        /\ UNCHANGED <<current, buf, pc>>
    BY <1>3 DEF SeeDone, Return, SeeEnd, Restart, reader
  <2>2. QED BY <2>1 DEF PendingInv, TypeInv, Synchronous, Settled, Consuming, NeedsMore
<1>4. ASSUME NEW f \in Flows,
             \/ Receive(f) \/ ReceiveAhead(f) \/ ReceiveLate(f) \/ Tick(f)
             \/ FlushConnection(f)
      PROVE  PendingInv'
  BY <1>4, PendingCapture
<1>5. ASSUME NEW f \in Flows, Run(f) PROVE PendingInv'
  BY <1>5, PendingRun
<1>6. QED BY <1>1, <1>2, <1>3, <1>4, <1>5 DEF Next, Start

(* When Start waits for a packet or has returned (sniffer.go:184,190,198), *)
(* every complete frame handed to a live reader is already in dataCh: the  *)
(* assembler's calls are synchronous, whatever was cut, lost or restarted. *)
THEOREM NeverPending == Spec => []NothingPending
<1>1. PendingInv => NothingPending
  BY DEF PendingInv, Synchronous, Consuming, Settled, NothingPending, NeedsMore
<1>2. QED BY <1>1, PendingInit, PendingNext, PTL DEF Spec

-----------------------------------------------------------------------------
(***************************************************************************)
(* TypeOK is not inductive: that the runs of a flow which have not ended   *)
(* yet are no more than the calls of Start (ending) takes that only        *)
(* FlushAll, of which there is one in each call, and the end of the        *)
(* connection, after which nothing follows, close a reader's link.         *)
(***************************************************************************)
ClosedLink ==
  \A f \in Flows : link[f] = "closed" =>
    /\ held[f] = <<>>
    /\ missing[f] = Unknown \/ (missing[f] = Nothing /\ sent[f] = Size(f))

Flushing ==
  /\ at = "select" => ~flushing
  /\ at = "flush" => flushing

(* Nothing more comes to a flow in this call of Start. *)
Over(f) == flushing \/ sent[f] = Size(f)

(* Each call of Start closes the link of a flow once, and a link that was  *)
(* closed in an earlier call is closed by it once more.                    *)
EndInv ==
  \A f \in Flows :
    /\ ending[f] <= starts
    /\ pc[f] = "running" \/ link[f] # "closed" \/ ~Over(f) => ending[f] < starts
    /\ pc[f] = "running" /\ link[f] = "closed" /\ ~Over(f) => ending[f] + 1 < starts

NothingHeld == \A f \in Flows : missing[f] = Nothing => held[f] = <<>>

BaseInv == TypeOK /\ ClosedLink /\ Flushing /\ EndInv /\ NothingHeld

LEMMA Distinct == Nothing # Unknown
BY DEF Nothing, Unknown

LEMMA NoSegment == \A f \in Flows : Nothing \notin Segments(f) /\ Unknown \notin Segments(f)
<1>1. ASSUME NEW f \in Flows, NEW s \in Segments(f) PROVE s.first # 0
  BY CellsType, FrameEndsType
<1>2. Nothing.first = 0 /\ Unknown.first = 0
  BY DEF Nothing, Unknown
<1>3. QED BY <1>1, <1>2

LEMMA NextSegment ==
  ASSUME NEW f \in Flows, sent[f] \in Nat, NEW n \in Ends(f), sent[f] < n
  PROVE  /\ Segment(f, n) \in Segments(f) /\ n \in Nat /\ n <= Size(f) /\ sent[f] # Size(f)
         /\ Segment(f, n).first = sent[f] + 1 /\ Segment(f, n).last = n
<1>1. n \in 1..Size(f) /\ Size(f) \in Nat
  BY EndsType, FrameEndsType
<1>2. sent[f] + 1 \in 1..Size(f) /\ sent[f] + 1 <= n
  BY <1>1
<1>3. QED BY <1>1, <1>2 DEF Segment, Segments

LEMMA BaseInit == Init => BaseInv
<1> SUFFICES ASSUME Init PROVE BaseInv
  OBVIOUS
<1> USE DEF Init
<1>1. NetworkType
  <2>1. ASSUME NEW f \in Flows
        PROVE  /\ sent[f] <= Size(f)
               /\ missing[f] \in Segments(f) \cup {Nothing, Unknown}
               /\ held[f] \in Seq(Segments(f)) /\ Len(held[f]) <= MaxBufferedPages
    BY FrameEndsType, FrameStreamAssumption
  <2>2. QED BY <2>1 DEF NetworkType
<1>2. CaptureType
  <2>1. starts \in 1..MaxStarts /\ <<>> \in Seq(Segments(flow))
    BY FrameStreamAssumption
  <2>2. QED BY <2>1 DEF CaptureType
<1>3. ReaderType
  BY FrameStreamAssumption DEF ReaderType
<1>4. OutputType
  BY FrameStreamAssumption DEF OutputType
<1>5. ClosedLink /\ Flushing /\ NothingHeld
  BY DEF ClosedLink, Flushing, NothingHeld
<1>6. EndInv
  <2> SUFFICES ASSUME NEW f \in Flows
      PROVE  /\ ending[f] <= starts /\ ending[f] < starts
             /\ ~(pc[f] = "running" /\ link[f] = "closed" /\ ~Over(f))
    BY DEF EndInv
  <2>1. ending[f] = 0 /\ starts = 1 /\ pc[f] = "none"
    OBVIOUS
  <2>2. QED BY <2>1
<1>7. QED BY <1>1, <1>2, <1>3, <1>4, <1>5, <1>6 DEF BaseInv, TypeOK

(* What New does to the readers. *)
NewReader(f) ==
  /\ ReaderType'
  /\ UNCHANGED current
  /\ link'[f] # "closed" /\ pc'[f] # "none" /\ ending'[f] < starts
  /\ \A g \in Flows \ {f} :
       link'[g] = link[g] /\ pc'[g] = pc[g] /\ ending'[g] = ending[g] /\ buf'[g] = buf[g]
  /\ \/ buf'[f] = <<>>
     \/ pc'[f] = pc[f] /\ buf'[f] = buf[f] /\ link'[f] = link[f]

LEMMA NewType ==
  ASSUME BaseInv, NEW f \in Flows, at = "select", New(f), link[f] = "closed" => sent[f] # Size(f)
  PROVE  NewReader(f)
<1>1. ReaderType /\ ~flushing /\ EndInv
  BY DEF BaseInv, TypeOK, Flushing
<1>2. /\ ending[f] \in Nat /\ starts \in Nat /\ starts <= MaxStarts /\ MaxStarts \in Nat
      /\ sent[f] \in Nat /\ Size(f) \in Nat
  BY FrameStreamAssumption, FrameEndsType DEF BaseInv, TypeOK, NetworkType, CaptureType, ReaderType
<1>3. CASE /\ pc[f] = "none" \/ link[f] = "closed"
           /\ pc' = [pc EXCEPT ![f] = "running"]
           /\ link' = [link EXCEPT ![f] = "first"]
           /\ buf' = [buf EXCEPT ![f] = <<>>]
           /\ ending' = [ending EXCEPT ![f] = IF pc[f] = "running" THEN @ + 1 ELSE @]
           /\ UNCHANGED current
  <2>1. ending'[f] \in 0..MaxStarts /\ ending'[f] < starts
    <3>1. CASE pc[f] = "running"
      <4>1. ending'[f] = ending[f] + 1 /\ ending[f] + 1 < starts
        BY <1>1, <1>3, <3>1 DEF ReaderType, EndInv, Over
      <4>2. QED BY <1>2, <4>1
    <3>2. CASE pc[f] # "running"
      <4>1. ending'[f] = ending[f] /\ ending[f] < starts
        BY <1>1, <1>3, <3>2 DEF ReaderType, EndInv, Over
      <4>2. QED BY <1>2, <4>1
    <3>3. QED BY <3>1, <3>2
  <2>2. ending' \in [Flows -> 0..MaxStarts]
    BY <1>1, <1>3, <2>1 DEF ReaderType
  <2>3. DOMAIN buf' = Flows
    BY <1>1, <1>3 DEF ReaderType
  <2>4. ASSUME NEW g \in Flows PROVE buf'[g] \in Seq(1..Size(g))
    <3>1. buf'[g] = <<>> \/ buf'[g] = buf[g]
      BY <1>1, <1>3 DEF ReaderType
    <3>2. buf[g] \in Seq(1..Size(g)) /\ <<>> \in Seq(1..Size(g))
      BY <1>1 DEF ReaderType
    <3>3. QED BY <3>1, <3>2
  <2>5. ReaderType'
    BY <1>1, <1>3, <2>2, <2>3, <2>4 DEF ReaderType
  <2>6. QED BY <1>1, <1>3, <2>1, <2>5 DEF ReaderType, NewReader
<1>4. CASE pc[f] # "none" /\ link[f] # "closed" /\ UNCHANGED reader
  <2>1. ending[f] < starts
    BY <1>1, <1>4 DEF EndInv
  <2>2. UNCHANGED <<link, current, buf, pc, ending>>
    BY <1>4 DEF reader
  <2>3. QED BY <1>1, <1>4, <2>1, <2>2 DEF ReaderType, NewReader
<1>5. QED BY <1>3, <1>4 DEF New

(* The assembler takes a segment of one flow, after New. *)
LEMMA BaseAssemble ==
  ASSUME BaseInv, NEW f \in Flows, NewReader(f),
         NetworkType', CaptureType', UNCHANGED <<starts, flushing, dataCh, broken, reading, errs, got>>,
         at' \in {"select", "offer"}, at = "select", missing'[f] = Nothing => held'[f] = <<>>,
         \A g \in Flows \ {f} :
           sent'[g] = sent[g] /\ missing'[g] = missing[g] /\ held'[g] = held[g]
  PROVE  BaseInv'
<1>1. TypeOK /\ ClosedLink /\ Flushing /\ EndInv /\ NothingHeld
  BY DEF BaseInv
<1>2. OutputType'
  BY <1>1 DEF TypeOK, OutputType
<1>3. TypeOK'
  BY <1>2 DEF TypeOK, NewReader
<1>4. ClosedLink' /\ NothingHeld' /\ Flushing'
  BY <1>1 DEF ClosedLink, NothingHeld, Flushing, NewReader
<1>5. EndInv'
  <2>1. /\ link'[f] # "closed" /\ ending'[f] < starts
        /\ ending'[f] \in Nat /\ starts \in Nat
    BY <1>1 DEF TypeOK, CaptureType, ReaderType, NewReader
  <2>2. ASSUME NEW g \in Flows \ {f}
        PROVE  /\ link'[g] = link[g] /\ pc'[g] = pc[g] /\ ending'[g] = ending[g]
               /\ sent'[g] = sent[g]
    BY DEF NewReader
  <2>3. QED BY <1>1, <2>1, <2>2 DEF EndInv, Over
<1>6. QED BY <1>3, <1>4, <1>5 DEF BaseInv

LEMMA ReceiveKeeps ==
  ASSUME BaseInv, NEW f \in Flows, Receive(f)
  PROVE  BaseInv' /\ NewReader(f)
<1>1. TypeOK /\ ClosedLink /\ Flushing /\ NothingHeld
  BY DEF BaseInv
<1>2. PICK n \in Ends(f) :
        sent[f] < n /\ sent' = [sent EXCEPT ![f] = n] /\ Reassembled(f, <<Segment(f, n)>>)
  BY DEF Receive
<1>3. /\ Segment(f, n) \in Segments(f) /\ n \in Nat /\ n <= Size(f) /\ sent[f] # Size(f)
  BY <1>1, <1>2, NextSegment DEF TypeOK, NetworkType
<1>4. /\ at = "select" /\ missing[f] = Nothing /\ New(f)
      /\ UNCHANGED <<ended, missing, held, lost, dataCh, broken, reading, errs, got>>
      /\ UNCHANGED <<starts, stopping, flushing>>
      /\ at' = "offer" /\ flow' = f /\ batch' = <<Segment(f, n)>>
  BY <1>2 DEF Receive, Reassembled, output
<1>5. NewReader(f)
  BY <1>3, <1>4, NewType
<1>6. NetworkType'
  BY <1>1, <1>2, <1>3, <1>4 DEF TypeOK, NetworkType
<1>7. CaptureType'
  BY <1>1, <1>3, <1>4 DEF TypeOK, CaptureType
<1>8. \A g \in Flows \ {f} : sent'[g] = sent[g] /\ missing'[g] = missing[g] /\ held'[g] = held[g]
  BY <1>1, <1>2, <1>4 DEF TypeOK, NetworkType
<1>9. missing'[f] = Nothing => held'[f] = <<>>
  BY <1>1, <1>4 DEF NothingHeld
<1>10. BaseInv'
  BY <1>4, <1>5, <1>6, <1>7, <1>8, <1>9, BaseAssemble
<1>11. QED BY <1>5, <1>10

LEMMA ReceiveAheadKeeps ==
  ASSUME BaseInv, NEW f \in Flows, ReceiveAhead(f)
  PROVE  BaseInv' /\ NewReader(f)
<1>1. TypeOK /\ ClosedLink /\ Flushing /\ NothingHeld
  BY DEF BaseInv
<1> DEFINE kept(n) == Append(held[f], Segment(f, n))
<1>2. PICK n \in Ends(f) :
        /\ sent[f] < n /\ sent' = [sent EXCEPT ![f] = n]
        /\ \/ /\ Len(held[f]) < MaxBufferedPages
              /\ held' = [held EXCEPT ![f] = kept(n)]
              /\ UNCHANGED <<missing, lost, capture>>
           \/ GiveUp(f) /\ Reassembled(f, kept(n))
  BY DEF ReceiveAhead
<1>3. /\ Segment(f, n) \in Segments(f) /\ n \in Nat /\ n <= Size(f) /\ sent[f] # Size(f)
  BY <1>1, <1>2, NextSegment DEF TypeOK, NetworkType
<1>4. /\ at = "select" /\ missing[f] # Nothing /\ New(f)
      /\ UNCHANGED <<ended, dataCh, broken, reading, errs, got>>
  BY DEF ReceiveAhead, output
<1>5. NewReader(f)
  BY <1>3, <1>4, NewType
<1>6. /\ kept(n) \in Seq(Segments(f)) /\ Len(kept(n)) = Len(held[f]) + 1
      /\ Len(held[f]) \in Nat /\ MaxBufferedPages \in Nat
  BY <1>1, <1>3, FrameStreamAssumption DEF TypeOK, NetworkType
<1> HIDE DEF kept
<1>7. sent' \in [Flows -> Nat] /\ \A g \in Flows : sent'[g] <= Size(g)
  BY <1>1, <1>2, <1>3 DEF TypeOK, NetworkType
<1>8. CASE /\ Len(held[f]) < MaxBufferedPages
           /\ held' = [held EXCEPT ![f] = kept(n)]
           /\ UNCHANGED <<missing, lost, capture>>
  <2>1. UNCHANGED <<missing, lost, at, flow, batch, starts, stopping, flushing>>
    BY <1>8 DEF capture
  <2>2. Len(kept(n)) <= MaxBufferedPages
    BY <1>6, <1>8
  <2>3. /\ DOMAIN held' = Flows
        /\ \A g \in Flows : held'[g] \in Seq(Segments(g)) /\ Len(held'[g]) <= MaxBufferedPages
    BY <1>1, <1>6, <1>8, <2>2 DEF TypeOK, NetworkType
  <2>4. NetworkType' /\ CaptureType'
    BY <1>1, <1>4, <1>7, <2>1, <2>3 DEF TypeOK, NetworkType, CaptureType
  <2>5. /\ missing'[f] # Nothing
        /\ \A g \in Flows \ {f} : sent'[g] = sent[g] /\ missing'[g] = missing[g] /\ held'[g] = held[g]
    BY <1>1, <1>2, <1>4, <1>8, <2>1 DEF TypeOK, NetworkType
  <2>6. QED BY <1>4, <1>5, <2>1, <2>4, <2>5, BaseAssemble
<1>9. CASE GiveUp(f) /\ Reassembled(f, kept(n))
  <2>1. /\ held' = [held EXCEPT ![f] = <<>>] /\ missing' = [missing EXCEPT ![f] = Nothing]
        /\ at' = "offer" /\ flow' = f /\ batch' = kept(n)
        /\ UNCHANGED <<starts, stopping, flushing>>
    BY <1>9 DEF GiveUp, Reassembled
  <2>2. lost' \in [Flows -> Nat]
    BY <1>1, <1>9 DEF GiveUp, TypeOK, NetworkType
  <2>3. /\ DOMAIN held' = Flows
        /\ \A g \in Flows : held'[g] \in Seq(Segments(g)) /\ Len(held'[g]) <= MaxBufferedPages
    BY <1>1, <1>6, <2>1 DEF TypeOK, NetworkType
  <2>4. NetworkType' /\ CaptureType'
    BY <1>1, <1>4, <1>6, <1>7, <2>1, <2>2, <2>3 DEF TypeOK, NetworkType, CaptureType
  <2>5. /\ held'[f] = <<>>
        /\ \A g \in Flows \ {f} : sent'[g] = sent[g] /\ missing'[g] = missing[g] /\ held'[g] = held[g]
    BY <1>1, <1>2, <2>1 DEF TypeOK, NetworkType
  <2>6. QED BY <1>4, <1>5, <2>1, <2>4, <2>5, BaseAssemble
<1>10. QED BY <1>2, <1>5, <1>8, <1>9

LEMMA ReceiveLateKeeps ==
  ASSUME BaseInv, NEW f \in Flows, ReceiveLate(f)
  PROVE  BaseInv' /\ NewReader(f)
<1>1. TypeOK /\ ClosedLink
  BY DEF BaseInv
<1>2. /\ at = "select" /\ missing[f] # Nothing /\ missing[f] # Unknown /\ New(f)
      /\ at' = "offer" /\ flow' = f /\ batch' = <<missing[f]>> \o held[f]
      /\ missing' = [missing EXCEPT ![f] = Nothing] /\ held' = [held EXCEPT ![f] = <<>>]
      /\ UNCHANGED <<sent, ended, lost, starts, stopping, flushing, dataCh, broken, reading, errs, got>>
  BY DEF ReceiveLate, Reassembled, output
<1>3. link[f] # "closed"
  BY <1>1, <1>2 DEF ClosedLink
<1>4. NewReader(f)
  BY <1>2, <1>3, NewType
<1>5. missing[f] \in Segments(f) /\ held[f] \in Seq(Segments(f)) /\ batch' \in Seq(Segments(f))
  BY <1>1, <1>2 DEF TypeOK, NetworkType
<1>6. NetworkType' /\ CaptureType'
  BY <1>1, <1>2, <1>5, FrameStreamAssumption DEF TypeOK, NetworkType, CaptureType
<1>7. /\ held'[f] = <<>>
      /\ \A g \in Flows \ {f} : sent'[g] = sent[g] /\ missing'[g] = missing[g] /\ held'[g] = held[g]
  BY <1>1, <1>2 DEF TypeOK, NetworkType
<1>8. QED BY <1>2, <1>4, <1>6, <1>7, BaseAssemble

(* Tick, and FlushAll for what a connection holds. *)
LEMMA HandHeldKeeps ==
  ASSUME BaseInv, NEW f \in Flows, held[f] # <<>>, GiveUp(f), Reassembled(f, held[f]),
         UNCHANGED <<sent, ended, link, current, buf, pc, ending, output, errs, got>>
  PROVE  BaseInv'
<1>1. TypeOK /\ ClosedLink /\ Flushing /\ EndInv /\ NothingHeld
  BY DEF BaseInv
<1>2. /\ held' = [held EXCEPT ![f] = <<>>] /\ missing' = [missing EXCEPT ![f] = Nothing]
      /\ at' = "offer" /\ flow' = f /\ batch' = held[f]
      /\ UNCHANGED <<starts, stopping, flushing, dataCh, broken, reading>>
  BY DEF GiveUp, Reassembled, output
<1>3. lost' \in [Flows -> Nat]
  BY <1>1 DEF GiveUp, TypeOK, NetworkType
<1>4. NetworkType' /\ CaptureType'
  <2>1. ASSUME NEW g \in Flows
        PROVE  /\ held'[g] \in Seq(Segments(g)) /\ Len(held'[g]) <= MaxBufferedPages
               /\ missing'[g] \in Segments(g) \cup {Nothing, Unknown}
    <3>1. held'[g] = <<>> \/ held'[g] = held[g]
      BY <1>1, <1>2 DEF TypeOK, NetworkType
    <3>2. missing'[g] = Nothing \/ missing'[g] = missing[g]
      BY <1>1, <1>2 DEF TypeOK, NetworkType
    <3>3. <<>> \in Seq(Segments(g)) /\ Len(<<>>) <= MaxBufferedPages
      BY FrameStreamAssumption
    <3>4. QED BY <1>1, <3>1, <3>2, <3>3 DEF TypeOK, NetworkType
  <2>2. held[f] \in Seq(Segments(f))
    BY <1>1 DEF TypeOK, NetworkType
  <2>3. QED BY <1>1, <1>2, <1>3, <2>1, <2>2 DEF TypeOK, NetworkType, CaptureType
<1>5. ReaderType' /\ OutputType'
  BY <1>1, <1>2 DEF TypeOK, ReaderType, OutputType
<1>6. link[f] # "closed"
  BY <1>1 DEF ClosedLink
<1>7. ClosedLink' /\ NothingHeld'
  BY <1>1, <1>2, <1>6 DEF ClosedLink, NothingHeld, TypeOK, NetworkType
<1>8. EndInv' /\ Flushing'
  BY <1>1, <1>2 DEF EndInv, Over, Flushing
<1>9. QED BY <1>4, <1>5, <1>7, <1>8 DEF BaseInv, TypeOK

(* The end of a connection, and FlushAll for one that holds nothing. *)
LEMMA CloseKeeps ==
  ASSUME BaseInv, NEW f \in Flows, Over(f), held[f] = <<>>, link[f] # "closed",
         link' = [link EXCEPT ![f] = "closed"],
         missing'[f] = Unknown \/ (missing'[f] = Nothing /\ sent[f] = Size(f)),
         DOMAIN missing' = Flows, \A g \in Flows \ {f} : missing'[g] = missing[g],
         UNCHANGED <<sent, ended, held, lost, capture, current, buf, pc, ending, output, errs, got>>
  PROVE  BaseInv'
<1>1. TypeOK /\ ClosedLink /\ Flushing /\ EndInv /\ NothingHeld
  BY DEF BaseInv
<1>2. UNCHANGED <<at, flow, batch, starts, stopping, flushing, dataCh, broken, reading>>
  BY DEF capture, output
<1>3. NetworkType' /\ CaptureType' /\ ReaderType' /\ OutputType'
  BY <1>1, <1>2 DEF TypeOK, NetworkType, CaptureType, ReaderType, OutputType
<1>6. \A g \in Flows \ {f} : link'[g] = link[g]
  BY <1>1 DEF TypeOK, ReaderType
<1>7. ClosedLink' /\ NothingHeld'
  BY <1>1, <1>6 DEF ClosedLink, NothingHeld
<1>8. EndInv'
  <2>1. ending[f] < starts /\ ending[f] <= starts
    BY <1>1 DEF EndInv
  <2>2. ASSUME NEW g \in Flows
        PROVE  /\ ending'[g] <= starts'
               /\ pc'[g] = "running" \/ link'[g] # "closed" \/ ~Over(g)' => ending'[g] < starts'
               /\ pc'[g] = "running" /\ link'[g] = "closed" /\ ~Over(g)' => ending'[g] + 1 < starts'
    <3>1. Over(g)' = Over(g)
      BY <1>2 DEF Over
    <3>2. QED BY <1>1, <1>2, <1>6, <2>1, <3>1 DEF EndInv
  <2>3. QED BY <2>2 DEF EndInv
<1>9. Flushing'
  BY <1>1, <1>2 DEF Flushing
<1>10. QED BY <1>3, <1>7, <1>8, <1>9 DEF BaseInv, TypeOK

LEMMA BaseNetwork ==
  ASSUME BaseInv, NEW f \in Flows, Delay(f) \/ Finish(f) \/ Tick(f) \/ FlushConnection(f)
  PROVE  BaseInv'
<1>1. TypeOK /\ ClosedLink /\ Flushing /\ EndInv /\ NothingHeld
  BY DEF BaseInv
<1>2. CASE Delay(f)
  <2>1. PICK n \in Ends(f) :
          /\ sent[f] < n /\ n < Size(f) /\ missing[f] = Nothing
          /\ missing' = [missing EXCEPT ![f] = Segment(f, n)]
          /\ sent' = [sent EXCEPT ![f] = n]
          /\ UNCHANGED <<ended, held, lost, at, flow, batch, starts, stopping, flushing, link,
                         current, buf, pc, ending, dataCh, broken, reading, errs, got>>
    BY <1>2 DEF Delay, capture, reader, output
  <2>2. Segment(f, n) \in Segments(f) /\ n \in Nat /\ n <= Size(f) /\ sent[f] # Size(f)
    BY <1>1, <2>1, NextSegment DEF TypeOK, NetworkType
  <2>3. NetworkType' /\ CaptureType' /\ ReaderType' /\ OutputType'
    BY <1>1, <2>1, <2>2 DEF TypeOK, NetworkType, CaptureType, ReaderType, OutputType
  <2>4. link[f] # "closed" /\ held[f] = <<>>
    BY <1>1, <2>1, <2>2, Distinct DEF ClosedLink, NothingHeld
  <2>5. \A g \in Flows \ {f} : missing'[g] = missing[g] /\ sent'[g] = sent[g]
    BY <1>1, <2>1 DEF TypeOK, NetworkType
  <2>6. ClosedLink' /\ NothingHeld' /\ Flushing'
    BY <1>1, <2>1, <2>4, <2>5 DEF ClosedLink, NothingHeld, Flushing
  <2>7. EndInv'
    BY <1>1, <2>1, <2>4, <2>5 DEF EndInv, Over
  <2>8. QED BY <2>3, <2>6, <2>7 DEF BaseInv, TypeOK
<1>3. CASE Finish(f)
  <2>1. /\ missing[f] = Nothing /\ sent[f] = Size(f) /\ link[f] # "closed"
        /\ link' = [link EXCEPT ![f] = "closed"]
        /\ UNCHANGED <<sent, ended, missing, held, lost, capture, current, buf, pc, ending,
                       output, errs, got>>
    BY <1>3 DEF Finish, network
  <2>2. DOMAIN missing' = Flows /\ \A g \in Flows : missing'[g] = missing[g]
    BY <1>1, <2>1 DEF TypeOK, NetworkType
  <2>3. held[f] = <<>> /\ Over(f)
    BY <1>1, <2>1 DEF NothingHeld, Over
  <2>4. QED BY <2>1, <2>2, <2>3, CloseKeeps
<1>4. CASE Tick(f)
  BY <1>4, HandHeldKeeps DEF Tick, reader
<1>5. CASE FlushConnection(f)
  <2>1. Over(f)
    BY <1>1, <1>5 DEF FlushConnection, Flushing, Over
  <2>2. CASE held[f] # <<>>
    BY <1>5, <2>2, HandHeldKeeps DEF FlushConnection
  <2>3. CASE held[f] = <<>>
    <3>1. /\ link[f] # "closed" /\ link' = [link EXCEPT ![f] = "closed"]
          /\ missing' = [missing EXCEPT ![f] = IF sent[f] < Size(f) THEN Unknown ELSE Nothing]
          /\ UNCHANGED <<sent, ended, held, lost, capture, current, buf, pc, ending, output, errs, got>>
      BY <1>5, <2>3 DEF FlushConnection
    <3>2. sent[f] \in Nat /\ Size(f) \in Nat /\ sent[f] <= Size(f)
      BY <1>1, FrameEndsType DEF TypeOK, NetworkType
    <3>3. /\ missing'[f] = Unknown \/ (missing'[f] = Nothing /\ sent[f] = Size(f))
          /\ DOMAIN missing' = Flows /\ \A g \in Flows \ {f} : missing'[g] = missing[g]
      BY <1>1, <3>1, <3>2 DEF TypeOK, NetworkType
    <3>4. QED BY <2>1, <2>3, <3>1, <3>3, CloseKeeps
  <2>4. QED BY <2>2, <2>3
<1>6. QED BY <1>2, <1>3, <1>4, <1>5

(* The rest of Start, and what starts and stops it. *)
LEMMA BaseStart ==
  ASSUME BaseInv, Stop \/ SeeDone \/ Return \/ SeeEnd \/ Restart
  PROVE  BaseInv'
<1>1. TypeOK /\ ClosedLink /\ Flushing /\ EndInv /\ NothingHeld
  BY DEF BaseInv
<1>2. UNCHANGED <<sent, missing, held, lost, flow, batch, link, current, buf, pc, ending,
                  dataCh, broken, reading, errs, got>>
  BY DEF Stop, SeeDone, Return, SeeEnd, Restart, network, reader, output
<1>3. /\ ended' \in BOOLEAN /\ at' \in {"select", "offer", "await", "flush", "returned"}
      /\ stopping' \in BOOLEAN /\ flushing' \in BOOLEAN
  BY <1>1 DEF Stop, SeeDone, Return, SeeEnd, Restart, network, TypeOK, NetworkType, CaptureType
<1>4. /\ starts \in Nat /\ starts' \in 1..MaxStarts
      /\ (starts' = starts /\ (flushing => flushing')) \/ starts' = starts + 1
  BY <1>1, FrameStreamAssumption DEF Stop, SeeDone, Return, SeeEnd, Restart, TypeOK, CaptureType
<1>5. NetworkType' /\ CaptureType' /\ ReaderType' /\ OutputType'
  BY <1>1, <1>2, <1>3, <1>4 DEF TypeOK, NetworkType, CaptureType, ReaderType, OutputType
<1>6. ClosedLink' /\ NothingHeld'
  BY <1>1, <1>2 DEF ClosedLink, NothingHeld
<1>7. Flushing'
  BY <1>1 DEF Flushing, Stop, SeeDone, Return, SeeEnd, Restart
<1>8. EndInv'
  <2> SUFFICES ASSUME NEW f \in Flows
      PROVE  /\ ending[f] <= starts'
             /\ pc[f] = "running" \/ link[f] # "closed" \/ ~Over(f)' => ending[f] < starts'
             /\ pc[f] = "running" /\ link[f] = "closed" /\ ~Over(f)' => ending[f] + 1 < starts'
    BY <1>2 DEF EndInv
  <2>1. /\ ending[f] \in Nat /\ ending[f] <= starts
        /\ pc[f] = "running" \/ link[f] # "closed" \/ ~Over(f) => ending[f] < starts
        /\ pc[f] = "running" /\ link[f] = "closed" /\ ~Over(f) => ending[f] + 1 < starts
    BY <1>1 DEF EndInv, TypeOK, ReaderType
  <2>2. CASE starts' = starts /\ (flushing => flushing')
    <3>1. ~Over(f)' => ~Over(f)
      BY <1>2, <2>2 DEF Over
    <3>2. QED BY <2>1, <2>2, <3>1
  <2>3. CASE starts' = starts + 1
    <3>1. /\ ending[f] <= starts' /\ ending[f] < starts'
          /\ pc[f] = "running" => ending[f] < starts
      BY <1>4, <2>1, <2>3
    <3>2. pc[f] = "running" => ending[f] + 1 < starts'
      BY <1>4, <2>1, <2>3, <3>1
    <3>3. QED BY <3>1, <3>2
  <2>4. QED BY <1>4, <2>2, <2>3
<1>9. QED BY <1>5, <1>6, <1>7, <1>8 DEF BaseInv, TypeOK

(* The steps of a run that leave the network, Start's mode and the links alone. *)
LEMMA BaseReader ==
  ASSUME BaseInv, CaptureType', ReaderType', OutputType',
         UNCHANGED <<network, starts, flushing>>,
         at' = at \/ (at = "offer" /\ at' = "await")
           \/ (at = "await" /\ at' = IF flushing THEN "flush" ELSE "select"),
         \A f \in Flows :
           /\ link'[f] = "closed" <=> link[f] = "closed"
           /\ pc'[f] = pc[f] \/ pc'[f] = "dead"
           /\ ending'[f] = ending[f] \/ ending'[f] = ending[f] - 1
  PROVE  BaseInv'
<1>1. TypeOK /\ ClosedLink /\ Flushing /\ EndInv /\ NothingHeld
  BY DEF BaseInv
<1>2. UNCHANGED <<sent, ended, missing, held, lost>>
  BY DEF network
<1>3. NetworkType'
  BY <1>1, <1>2 DEF TypeOK, NetworkType
<1>4. ClosedLink' /\ NothingHeld'
  BY <1>1, <1>2 DEF ClosedLink, NothingHeld
<1>5. Flushing'
  BY <1>1 DEF Flushing
<1>6. EndInv'
  <2> SUFFICES ASSUME NEW f \in Flows
      PROVE  /\ ending'[f] <= starts
             /\ pc'[f] = "running" \/ link'[f] # "closed" \/ ~Over(f)' => ending'[f] < starts
             /\ pc'[f] = "running" /\ link'[f] = "closed" /\ ~Over(f)' => ending'[f] + 1 < starts
    BY DEF EndInv
  <2>1. /\ ending[f] \in Nat /\ starts \in Nat
        /\ Over(f)' = Over(f) /\ (pc'[f] = "running" => pc[f] = "running")
    BY <1>1, <1>2, FrameStreamAssumption DEF TypeOK, CaptureType, ReaderType, Over
  <2>2. /\ ending[f] <= starts
        /\ pc[f] = "running" \/ link[f] # "closed" \/ ~Over(f) => ending[f] < starts
        /\ pc[f] = "running" /\ link[f] = "closed" /\ ~Over(f) => ending[f] + 1 < starts
    BY <1>1 DEF EndInv
  <2>3. QED BY <2>1, <2>2
<1>7. QED BY <1>3, <1>4, <1>5, <1>6 DEF BaseInv, TypeOK

LEMMA LengthFieldType ==
  ASSUME TypeOK, NEW f \in Flows, NEW b \in Seq(1..Size(f)), Len(b) >= HeaderLength
  PROVE  LengthField(f, b) \subseteq Nat
<1>1. b[2] \in 1..Size(f)
  <2>1. 2 \in 1..Len(b)
    BY DEF HeaderLength
  <2>2. QED BY <2>1, ElementOfSeq
<1>2. reading \in Readings
  BY DEF TypeOK, OutputType
<1>3. reading[f] \in [1..Size(f) -> Nat]
  BY <1>2, FrameStreamAssumption
<1>4. reading[f][b[2]] \in Nat
  BY <1>1, <1>3
<1>5. \A k \in LengthOwner(f, b[2]) : Length(f, k) \in Nat
  BY FrameEndsType DEF LengthOwner
<1>6. QED BY <1>4, <1>5 DEF LengthField

(* What QueueFrame does: the first bytes of the synchronised buffer are    *)
(* queued, the others stay in it.                                          *)
LEMMA QueueFrameStep ==
  ASSUME TypeOK, NEW f \in Flows, QueueFrame(f)
  PROVE  LET b == Synced(f, buf[f])
         IN \E length \in Nat :
              /\ length \in LengthField(f, b) /\ length <= Len(b) /\ Len(b) >= HeaderLength
              /\ Len(b) \in Nat /\ pc[f] = "running" /\ Len(dataCh) < DataBufSize
              /\ b \in Seq(1..Size(f))
              /\ Read(b, length) \in Seq(1..Size(f)) /\ Len(Read(b, length)) = length
              /\ \A i \in 1..length : Read(b, length)[i] = b[i]
              /\ Rest(b, length) \in Seq(1..Size(f)) /\ Len(Rest(b, length)) = Len(b) - length
              /\ \A i \in 1..Len(b) - length : Rest(b, length)[i] = b[length + i]
              /\ dataCh' = Append(dataCh, [flow |-> f, body |-> Read(b, length)])
              /\ buf' = [buf EXCEPT ![f] = Rest(b, length)]
              /\ broken' = [broken EXCEPT ![f] =
                   IF Read(b, length) # <<>> /\ Number([flow |-> f, body |-> Read(b, length)]) = 0
                   THEN @ + 1 ELSE @]
<1> DEFINE b == Synced(f, buf[f])
<1>1. PICK length \in LengthField(f, b) :
        /\ ReadInFull(b, length)
        /\ dataCh' = Append(dataCh, [flow |-> f, body |-> Read(b, length)])
        /\ buf' = [buf EXCEPT ![f] = Rest(b, length)]
        /\ broken' = [broken EXCEPT ![f] =
             IF Read(b, length) # <<>> /\ Number([flow |-> f, body |-> Read(b, length)]) = 0
             THEN @ + 1 ELSE @]
  BY Zenon DEF QueueFrame
<1>2. pc[f] = "running" /\ Len(dataCh) < DataBufSize /\ ~(Len(b) < HeaderLength)
  BY DEF QueueFrame, NeedsMore, Room
<1>3. b \in Seq(1..Size(f))
  BY SyncedType DEF TypeOK, ReaderType
<1> HIDE DEF b
<1>4. /\ Len(b) \in Nat /\ length \in Nat /\ length <= Len(b) /\ Len(b) >= HeaderLength
      /\ length \in 0..Len(b)
  BY <1>1, <1>2, <1>3, LengthFieldType DEF ReadInFull, HeaderLength
<1>5. ASSUME NEW i \in 1..length PROVE i \in 1..Len(b) /\ i <= Len(b) /\ b[i] \in 1..Size(f)
  <2>1. i \in 1..Len(b) /\ i <= Len(b)
    BY <1>4
  <2>2. QED BY <1>3, <2>1, ElementOfSeq
<1>6. /\ Read(b, length) \in Seq(1..Size(f)) /\ Len(Read(b, length)) = length
      /\ \A i \in 1..length : Read(b, length)[i] = b[i]
  BY <1>4, <1>5 DEF Read
<1>7. /\ Rest(b, length) \in Seq(1..Size(f)) /\ Len(Rest(b, length)) = Len(b) - length
      /\ \A i \in 1..Len(b) - length : Rest(b, length)[i] = b[length + i]
  BY <1>3, <1>4, Suffix DEF Rest
<1>8. QED BY <1>1, <1>2, <1>3, <1>4, <1>6, <1>7 DEF b

LEMMA BaseRun ==
  ASSUME BaseInv, NEW f \in Flows, Run(f) \/ EndEarlier(f)
  PROVE  BaseInv'
<1>1. TypeOK
  BY DEF BaseInv
<1>2. errs \in Nat /\ errs <= ErrBufSize /\ ErrBufSize \in Nat
  BY <1>1, FrameStreamAssumption DEF TypeOK, OutputType
<1>3. ReportError => errs' \in 0..ErrBufSize
  BY <1>2 DEF ReportError
<1>4. CASE TakeBatch(f)
  <2>1. /\ flow = f /\ at = "offer" /\ at' = "await" /\ batch' = <<>>
        /\ link[f] # "closed" /\ link' = [link EXCEPT ![f] = "busy"]
        /\ current' = [current EXCEPT ![f] = batch]
        /\ UNCHANGED <<network, flow, starts, stopping, flushing, buf, pc, ending, dataCh, broken, reading,
                       errs, got>>
    BY <1>4 DEF TakeBatch, output
  <2>2. CaptureType' /\ OutputType'
    BY <1>1, <2>1 DEF TypeOK, CaptureType, OutputType
  <2>3. ReaderType'
    BY <1>1, <2>1 DEF TypeOK, CaptureType, ReaderType
  <2>4. \A g \in Flows : link'[g] = "closed" <=> link[g] = "closed"
    BY <1>1, <2>1 DEF TypeOK, ReaderType
  <2>5. QED BY <2>1, <2>2, <2>3, <2>4, BaseReader
<1>5. CASE AskMore(f)
  <2>1. /\ at = "await" /\ at' = IF flushing THEN "flush" ELSE "select"
        /\ link[f] # "closed" /\ link' = [link EXCEPT ![f] = "asked"]
        /\ UNCHANGED <<network, flow, batch, starts, stopping, flushing, current, buf, pc, ending,
                       dataCh, broken, reading, errs, got>>
    BY <1>5 DEF AskMore, output
  <2>2. CaptureType' /\ ReaderType' /\ OutputType'
    BY <1>1, <2>1 DEF TypeOK, CaptureType, ReaderType, OutputType
  <2>3. \A g \in Flows : link'[g] = "closed" <=> link[g] = "closed"
    BY <1>1, <2>1 DEF TypeOK, ReaderType
  <2>4. QED BY <2>1, <2>2, <2>3, BaseReader
<1>6. CASE Fill(f)
  <2>1. /\ current[f] # <<>>
        /\ buf' = [buf EXCEPT ![f] = Synced(f, buf[f]) \o Cells(Head(current[f]))]
        /\ current' = [current EXCEPT ![f] = Tail(current[f])]
        /\ UNCHANGED <<network, at, flow, batch, starts, stopping, flushing, link, pc, ending,
                       dataCh, broken, reading, errs, got>>
    BY <1>6 DEF Fill, capture, output
  <2>2. /\ Synced(f, buf[f]) \in Seq(1..Size(f)) /\ current[f] \in Seq(Segments(f))
        /\ Head(current[f]) \in Segments(f) /\ Tail(current[f]) \in Seq(Segments(f))
    <3>1. buf[f] \in Seq(1..Size(f)) /\ current[f] \in Seq(Segments(f)) /\ current[f] # <<>>
      BY <1>1, <2>1 DEF TypeOK, ReaderType
    <3>2. Synced(f, buf[f]) \in Seq(1..Size(f))
      BY <3>1, SyncedType
    <3>3. Head(current[f]) \in Segments(f) /\ Tail(current[f]) \in Seq(Segments(f))
      BY <3>1, HeadTailProperties
    <3>4. QED BY <3>1, <3>2, <3>3
  <2>3. Synced(f, buf[f]) \o Cells(Head(current[f])) \in Seq(1..Size(f))
    BY <2>2, CellsType
  <2>4. CaptureType' /\ ReaderType' /\ OutputType'
    BY <1>1, <2>1, <2>2, <2>3 DEF TypeOK, CaptureType, ReaderType, OutputType
  <2>5. QED BY <2>1, <2>4, BaseReader
<1>7. CASE EndOfStream(f) \/ ShortRead(f)
  <2>1. /\ pc' = [pc EXCEPT ![f] = "dead"] /\ errs' \in 0..ErrBufSize
        /\ UNCHANGED <<network, at, flow, batch, starts, stopping, flushing, link, current, buf,
                       ending, dataCh, broken, reading, got>>
    BY <1>3, <1>7 DEF EndOfStream, ShortRead, Die, capture, output
  <2>2. CaptureType' /\ ReaderType' /\ OutputType'
    BY <1>1, <2>1 DEF TypeOK, CaptureType, ReaderType, OutputType
  <2>3. \A g \in Flows : pc'[g] = pc[g] \/ pc'[g] = "dead"
    BY <1>1, <2>1 DEF TypeOK, ReaderType
  <2>4. QED BY <2>1, <2>2, <2>3, BaseReader
<1>8. CASE EndEarlier(f)
  <2>1. /\ ending[f] > 0 /\ ending' = [ending EXCEPT ![f] = ending[f] - 1]
        /\ errs' \in 0..ErrBufSize
        /\ UNCHANGED <<network, at, flow, batch, starts, stopping, flushing, link, current, buf,
                       pc, dataCh, broken, reading, got>>
    BY <1>3, <1>8 DEF EndEarlier, capture, output
  <2>2. ending[f] - 1 \in 0..MaxStarts
    BY <1>1, <2>1, FrameStreamAssumption DEF TypeOK, ReaderType
  <2>3. CaptureType' /\ ReaderType' /\ OutputType'
    BY <1>1, <2>1, <2>2 DEF TypeOK, CaptureType, ReaderType, OutputType
  <2>4. \A g \in Flows : ending'[g] = ending[g] \/ ending'[g] = ending[g] - 1
    BY <1>1, <2>1 DEF TypeOK, ReaderType
  <2>5. QED BY <2>1, <2>3, <2>4, BaseReader
<1>9. CASE QueueFrame(f)
  <2> DEFINE b == Synced(f, buf[f])
  <2>1. UNCHANGED <<network, at, flow, batch, starts, stopping, flushing, link, current, pc,
                    ending, reading, errs, got>>
    BY <1>9 DEF QueueFrame, capture
  <2>2. PICK length \in Nat :
          /\ Read(b, length) \in Seq(1..Size(f)) /\ Rest(b, length) \in Seq(1..Size(f))
          /\ Len(dataCh) < DataBufSize
          /\ dataCh' = Append(dataCh, [flow |-> f, body |-> Read(b, length)])
          /\ buf' = [buf EXCEPT ![f] = Rest(b, length)]
          /\ broken' = [broken EXCEPT ![f] =
               IF Read(b, length) # <<>> /\ Number([flow |-> f, body |-> Read(b, length)]) = 0
               THEN @ + 1 ELSE @]
    BY <1>1, <1>9, QueueFrameStep
  <2> DEFINE d == [flow |-> f, body |-> Read(b, length)]
             rest == Rest(b, length)
  <2>3. /\ d \in [flow : Flows, body : Seq(Nat)] /\ d.flow = f /\ d.body \in Seq(1..Size(f))
    <3>1. 1..Size(f) \subseteq Nat
      BY FrameEndsType
    <3>2. Read(b, length) \in Seq(Nat)
      BY <2>2, <3>1, SeqMonotonic
    <3>3. QED BY <2>2, <3>2
  <2> HIDE DEF b, d
  <2>4. dataCh' = Append(dataCh, d)
    BY <2>2 DEF d
  <2>5. /\ dataCh' \in Seq([flow : Flows, body : Seq(Nat)]) /\ Len(dataCh') <= DataBufSize
        /\ \A i \in DOMAIN dataCh' : dataCh'[i].body \in Seq(1..Size(dataCh'[i].flow))
    <3>1. /\ dataCh \in Seq([flow : Flows, body : Seq(Nat)]) /\ Len(dataCh) \in Nat
          /\ \A i \in 1..Len(dataCh) : dataCh[i].body \in Seq(1..Size(dataCh[i].flow))
          /\ DataBufSize \in Nat
      <4>1. /\ dataCh \in Seq([flow : Flows, body : Seq(Nat)])
            /\ \A i \in DOMAIN dataCh : dataCh[i].body \in Seq(1..Size(dataCh[i].flow))
        BY <1>1 DEF TypeOK, OutputType
      <4>2. Len(dataCh) \in Nat /\ DOMAIN dataCh = 1..Len(dataCh)
        BY <4>1, LenProperties
      <4>3. QED BY <4>1, <4>2, FrameStreamAssumption, Zenon
    <3>2. /\ dataCh' \in Seq([flow : Flows, body : Seq(Nat)]) /\ Len(dataCh') = Len(dataCh) + 1
          /\ DOMAIN dataCh' = 1..Len(dataCh) + 1
          /\ \A i \in 1..Len(dataCh) : dataCh'[i] = dataCh[i]
          /\ dataCh'[Len(dataCh) + 1] = d
      BY <2>3, <2>4, <3>1
    <3>3. ASSUME NEW i \in 1..Len(dataCh) + 1
          PROVE  dataCh'[i].body \in Seq(1..Size(dataCh'[i].flow))
      <4>1. CASE i = Len(dataCh) + 1
        BY <2>3, <3>2, <4>1
      <4>2. CASE i # Len(dataCh) + 1
        <5>1. i \in 1..Len(dataCh)
          BY <3>1, <4>2
        <5>2. QED BY <3>1, <3>2, <5>1
      <4>3. QED BY <4>1, <4>2
    <3>4. Len(dataCh') <= DataBufSize
      BY <2>2, <3>1, <3>2
    <3>5. QED BY <3>2, <3>3, <3>4
  <2>6. broken' \in [Flows -> Nat]
    BY <1>1, <2>2 DEF TypeOK, OutputType
  <2>7. OutputType'
    BY <1>1, <2>1, <2>5, <2>6 DEF TypeOK, OutputType
  <2>8. CaptureType' /\ ReaderType'
    BY <1>1, <2>1, <2>2 DEF TypeOK, CaptureType, ReaderType
  <2>9. QED BY <2>1, <2>7, <2>8, BaseReader
<1>10. QED BY <1>4, <1>5, <1>6, <1>7, <1>8, <1>9 DEF Run

LEMMA BaseClient ==
  ASSUME BaseInv, NextFrame \/ ReadError
  PROVE  BaseInv'
<1>1. TypeOK
  BY DEF BaseInv
<1>2. /\ UNCHANGED <<network, capture, reader, broken, reading>>
      /\ UNCHANGED <<at, flow, batch, starts, stopping, flushing, link, current, buf, pc, ending>>
  BY DEF NextFrame, ReadError, capture, reader, output
<1>3. CaptureType' /\ ReaderType'
  BY <1>1, <1>2 DEF TypeOK, CaptureType, ReaderType
<1>4. OutputType'
  <2>1. CASE NextFrame
    <3>1. /\ dataCh # <<>> /\ dataCh' = Tail(dataCh) /\ UNCHANGED errs
          /\ \/ UNCHANGED got
             \/ \E k \in Decode(Head(dataCh)) : got' = [got EXCEPT ![Head(dataCh).flow] = k]
      BY <2>1, Zenon DEF NextFrame
    <3>2. /\ dataCh' \in Seq([flow : Flows, body : Seq(Nat)]) /\ Len(dataCh') <= DataBufSize
          /\ \A i \in DOMAIN dataCh' : dataCh'[i].body \in Seq(1..Size(dataCh'[i].flow))
      <4>1. /\ dataCh \in Seq([flow : Flows, body : Seq(Nat)]) /\ Len(dataCh) <= DataBufSize
            /\ \A i \in 1..Len(dataCh) : dataCh[i].body \in Seq(1..Size(dataCh[i].flow))
        BY <1>1 DEF TypeOK, OutputType
      <4>2. /\ dataCh' \in Seq([flow : Flows, body : Seq(Nat)]) /\ Len(dataCh') = Len(dataCh) - 1
            /\ \A i \in 1..Len(dataCh') : dataCh'[i] = dataCh[i + 1]
        BY <3>1, <4>1, HeadTailProperties
      <4>3. Len(dataCh) \in Nat /\ Len(dataCh') \in Nat /\ DOMAIN dataCh' = 1..Len(dataCh')
        BY <4>1, <4>2, LenProperties
      <4>4. DataBufSize \in Nat
        BY FrameStreamAssumption
      <4>5. \A i \in 1..Len(dataCh') : i + 1 \in 1..Len(dataCh)
        BY <4>2, <4>3
      <4>6. \A i \in DOMAIN dataCh' : dataCh'[i].body \in Seq(1..Size(dataCh'[i].flow))
        BY <4>1, <4>2, <4>3, <4>5
      <4>7. Len(dataCh') <= DataBufSize
        BY <4>1, <4>2, <4>3, <4>4
      <4>8. QED BY <4>2, <4>6, <4>7
    <3>3. Head(dataCh).flow \in Flows
      <4>1. dataCh \in Seq([flow : Flows, body : Seq(Nat)]) /\ dataCh # <<>>
        BY <1>1, <3>1 DEF TypeOK, OutputType
      <4>2. Head(dataCh) \in [flow : Flows, body : Seq(Nat)]
        BY <4>1, HeadTailProperties, Zenon
      <4>3. QED BY <4>2
    <3>4. \A k \in Decode(Head(dataCh)) : k \in Frames(Head(dataCh).flow) /\ k \in Nat
      BY <3>3, FrameEndsType DEF Decode
    <3>5. got' \in [Flows -> Nat] /\ \A f \in Flows : got'[f] \in Frames(f) \cup {0}
      BY <1>1, <3>1, <3>3, <3>4 DEF TypeOK, OutputType
    <3>6. QED BY <1>1, <1>2, <3>1, <3>2, <3>5 DEF TypeOK, OutputType
  <2>2. CASE ReadError
    BY <1>1, <2>2, FrameStreamAssumption DEF ReadError, TypeOK, OutputType, output
  <2>3. QED BY <2>1, <2>2
<1>5. QED BY <1>2, <1>3, <1>4, BaseReader

LEMMA BaseNext == BaseInv /\ [Next]_vars => BaseInv'
<1> SUFFICES ASSUME BaseInv, [Next]_vars PROVE BaseInv'
  OBVIOUS
<1>1. CASE UNCHANGED vars
  <2>1. /\ UNCHANGED <<sent, ended, missing, held, lost, at, flow, batch, starts, stopping, flushing>>
        /\ UNCHANGED <<link, current, buf, pc, ending, dataCh, broken, reading, errs, got>>
    BY <1>1 DEF vars, network, capture, reader, output
  <2>2. QED BY <2>1 DEF BaseInv, TypeOK, NetworkType, CaptureType, ReaderType, OutputType,
                        ClosedLink, Flushing, EndInv, Over, NothingHeld
<1>2. CASE Stop \/ SeeDone \/ Return \/ SeeEnd \/ Restart
  BY <1>2, BaseStart
<1>3. CASE NextFrame \/ ReadError
  BY <1>3, BaseClient
<1>4. ASSUME NEW f \in Flows, Receive(f) \/ ReceiveAhead(f) \/ ReceiveLate(f)
      PROVE  BaseInv'
  BY <1>4, ReceiveKeeps, ReceiveAheadKeeps, ReceiveLateKeeps
<1>5. ASSUME NEW f \in Flows, Delay(f) \/ Finish(f) \/ Tick(f) \/ FlushConnection(f)
      PROVE  BaseInv'
  BY <1>5, BaseNetwork
<1>6. ASSUME NEW f \in Flows, Run(f) \/ EndEarlier(f) PROVE BaseInv'
  BY <1>6, BaseRun
<1>7. QED BY <1>1, <1>2, <1>3, <1>4, <1>5, <1>6 DEF Next, Start

(* Every variable keeps its type: the assembler holds no more segments     *)
(* than MaxBufferedPages, the channels hold no more than they have room    *)
(* for (sniffer.go:86), what is read and queued are cells of the flow, and *)
(* the runs of a flow that have not ended are no more than the calls of    *)
(* Start.                                                                  *)
THEOREM TypeCorrect == Spec => []TypeOK
<1>1. BaseInv => TypeOK
  BY DEF BaseInv
<1>2. QED BY <1>1, BaseInit, BaseNext, PTL DEF Spec

-----------------------------------------------------------------------------
(***************************************************************************)
(* WaitsForReader is not inductive: that the reader of a batch is there and *)
(* answers takes that the two of them agree, between the calls too, on     *)
(* whether the reader still reads a batch (link is "busy" from TakeBatch to *)
(* AskMore and at no other time), and that segments are held back only of  *)
(* a connection that has a reader.                                         *)
(***************************************************************************)
HandOver ==
  /\ at = "offer" => pc[flow] # "none" /\ link[flow] # "closed"
  /\ at = "await" => pc[flow] # "none" /\ link[flow] = "busy"
  /\ \A f \in Flows : link[f] = "busy" => at = "await" /\ flow = f
  /\ \A f \in Flows : held[f] # <<>> => pc[f] # "none"

HandInv == BaseInv /\ PendingInv /\ HandOver

LEMMA HandInit == Init => HandInv
<1>1. Init => HandOver
  BY DEF Init, HandOver
<1>2. QED BY <1>1, BaseInit, PendingInit DEF HandInv

(* The steps that leave the two of them alone. *)
LEMMA HandUntouched ==
  ASSUME HandOver, UNCHANGED <<at, flow, link, pc, held>>
  PROVE  HandOver'
BY DEF HandOver

(* A segment that arrives finds or makes a reader. *)
LEMMA HandAssemble ==
  ASSUME HandInv, NEW f \in Flows, Receive(f) \/ ReceiveAhead(f) \/ ReceiveLate(f)
  PROVE  HandOver'
<1>1. BaseInv /\ TypeOK /\ HandOver
  BY DEF HandInv, BaseInv
<1>2. NewReader(f) /\ New(f) /\ at = "select"
  BY <1>1, ReceiveKeeps, ReceiveAheadKeeps, ReceiveLateKeeps
     DEF Receive, ReceiveAhead, ReceiveLate
<1>3. \A g \in Flows : link[g] # "busy"
  BY <1>1, <1>2 DEF HandOver
<1>4. /\ pc'[f] # "none" /\ link'[f] # "closed"
      /\ \A g \in Flows \ {f} : link'[g] = link[g] /\ pc'[g] = pc[g]
  BY <1>2 DEF NewReader
<1>5. link'[f] # "busy"
  BY <1>1, <1>2, <1>3 DEF New, reader, TypeOK, ReaderType
<1>6. \A g \in Flows \ {f} : held'[g] = held[g]
  BY <1>1 DEF Receive, ReceiveAhead, ReceiveLate, GiveUp, TypeOK, NetworkType
<1>7. (at' = "offer" /\ flow' = f) \/ at' = "select"
  BY <1>2 DEF Receive, ReceiveAhead, ReceiveLate, Reassembled, capture
<1>8. QED BY <1>1, <1>3, <1>4, <1>5, <1>6, <1>7 DEF HandOver

(* Start hands over what is held, or closes a connection. *)
LEMMA HandStart ==
  ASSUME HandInv, NEW f \in Flows, Tick(f) \/ FlushConnection(f) \/ Finish(f)
  PROVE  HandOver'
<1>1. TypeOK /\ HandOver /\ ClosedLink
  BY DEF HandInv, BaseInv
<1>2. at \in {"select", "flush"} /\ UNCHANGED pc
  BY DEF Tick, FlushConnection, Finish, reader
<1>3. \A g \in Flows : link[g] # "busy"
  BY <1>1, <1>2 DEF HandOver
<1>4. CASE /\ held[f] # <<>> /\ held' = [held EXCEPT ![f] = <<>>]
           /\ at' = "offer" /\ flow' = f /\ UNCHANGED link
  <2>1. pc[f] # "none" /\ link[f] # "closed"
    BY <1>1, <1>4 DEF HandOver, ClosedLink
  <2>2. \A g \in Flows : held'[g] # <<>> => held[g] # <<>>
    BY <1>1, <1>4 DEF TypeOK, NetworkType
  <2>3. QED BY <1>1, <1>2, <1>3, <1>4, <2>1, <2>2 DEF HandOver
<1>5. CASE link' = [link EXCEPT ![f] = "closed"] /\ UNCHANGED <<held, at, flow>>
  <2>1. \A g \in Flows : link'[g] # "busy"
    BY <1>1, <1>3, <1>5 DEF TypeOK, ReaderType
  <2>2. QED BY <1>1, <1>2, <1>5, <2>1 DEF HandOver
<1>6. QED BY <1>4, <1>5
      DEF Tick, FlushConnection, Finish, GiveUp, Reassembled, capture, reader, network

(* The reader takes the batch, reads it, and asks for more. *)
LEMMA HandRun ==
  ASSUME HandInv, NEW f \in Flows, Run(f)
  PROVE  HandOver'
<1>1. /\ HandOver /\ flow \in Flows
      /\ DOMAIN link = Flows /\ DOMAIN pc = Flows
  BY DEF HandInv, BaseInv, TypeOK, CaptureType, ReaderType
<1>2. CASE TakeBatch(f)
  BY <1>1, <1>2 DEF TakeBatch, HandOver, network
<1>3. CASE AskMore(f)
  BY <1>1, <1>3 DEF AskMore, HandOver, network
<1>4. CASE Fill(f) \/ QueueFrame(f)
  BY <1>1, <1>4, HandUntouched DEF Fill, QueueFrame, network, capture
<1>5. CASE EndOfStream(f) \/ ShortRead(f)
  <2>1. pc' = [pc EXCEPT ![f] = "dead"] /\ UNCHANGED <<at, flow, link, held>>
    BY <1>5 DEF EndOfStream, ShortRead, Die, network, capture
  <2>2. \A g \in Flows : pc[g] # "none" => pc'[g] # "none"
    BY <1>1, <2>1
  <2>3. QED BY <1>1, <2>1, <2>2 DEF HandOver
<1>6. QED BY <1>2, <1>3, <1>4, <1>5 DEF Run

LEMMA HandNext == HandInv /\ [Next]_vars => HandInv'
<1> SUFFICES ASSUME HandInv, [Next]_vars PROVE HandInv'
  OBVIOUS
<1>1. BaseInv' /\ PendingInv' /\ HandOver
  BY BaseNext, PendingNext DEF HandInv
<1> SUFFICES HandOver'
  BY <1>1 DEF HandInv
<1>2. CASE Stop \/ NextFrame \/ ReadError \/ UNCHANGED vars
  <2>1. UNCHANGED <<at, flow, link, pc, held>>
    BY <1>2 DEF Stop, NextFrame, ReadError, vars, network, capture, reader
  <2>2. QED BY <1>1, <2>1, HandUntouched
<1>3. CASE SeeDone \/ Return \/ SeeEnd \/ Restart
  <2>1. /\ at \notin {"offer", "await"} /\ at' \notin {"offer", "await"}
        /\ UNCHANGED <<flow, link, pc, held>>
    BY <1>3 DEF SeeDone, Return, SeeEnd, Restart, network, reader
  <2>2. \A g \in Flows : link[g] # "busy" /\ (held[g] # <<>> => pc[g] # "none")
    BY <1>1, <2>1 DEF HandOver
  <2>3. QED BY <2>1, <2>2 DEF HandOver
<1>4. ASSUME NEW f \in Flows, Delay(f) \/ EndEarlier(f) PROVE HandOver'
  BY <1>1, <1>4, HandUntouched DEF Delay, EndEarlier, network, capture, reader
<1>5. ASSUME NEW f \in Flows, Receive(f) \/ ReceiveAhead(f) \/ ReceiveLate(f) PROVE HandOver'
  BY <1>5, HandAssemble
<1>6. ASSUME NEW f \in Flows, Tick(f) \/ FlushConnection(f) \/ Finish(f) PROVE HandOver'
  BY <1>6, HandStart
<1>7. ASSUME NEW f \in Flows, Run(f) PROVE HandOver'
  BY <1>7, HandRun
<1>8. QED BY <1>2, <1>3, <1>4, <1>5, <1>6, <1>7 DEF Next, Start

(* In its call into the assembler (sniffer.go:189,207,210) Start waits for *)
(* a reader that is about to take the batch or will ask for more after it, *)
(* or for one that has ended on a short read (reassembler.go:73), and then *)
(* for good; and if a reader that has taken the batch never asks for more, *)
(* that is its own doing (Repeats).  So it is however segments are cut,    *)
(* late or lost and however often Start is called.                         *)
THEOREM AlwaysWaitsForReader == Spec => []WaitsForReader
<1>1. HandInv => WaitsForReader
  <2> SUFFICES ASSUME HandInv, at \in {"offer", "await"} PROVE WaitsForReader
    BY DEF WaitsForReader
  <2>1. /\ flow \in Flows /\ link[flow] \in {"first", "busy", "asked", "closed"}
        /\ pc[flow] \in {"none", "running", "dead"}
    BY DEF HandInv, BaseInv, TypeOK, CaptureType, ReaderType
  <2>2. HandOver /\ Synchronous
    BY DEF HandInv, PendingInv
  <2>3. CASE at = "offer"
    <3>1. pc[flow] # "none" /\ link[flow] \in {"first", "asked"}
      BY <2>1, <2>2, <2>3 DEF HandOver
    <3>2. pc[flow] = "running" => Starved(flow)
      BY <2>1, <2>2, <2>3 DEF Synchronous, Consuming, Settled, Starved
    <3>3. QED BY <2>1, <2>3, <3>1, <3>2 DEF WaitsForReader
  <2>4. CASE at = "await"
    BY <2>1, <2>2, <2>4 DEF HandOver, WaitsForReader
  <2>5. QED BY <2>3, <2>4
<1>2. QED BY <1>1, HandInit, HandNext, PTL DEF Spec
=============================================================================
